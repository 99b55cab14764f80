------------------------- MODULE ApprovalQueueProofs -------------------------
(***************************************************************************)
(* The approval queue for any number of drafts, items, roles, reviewers and *)
(* concurrent requests; and what the search and the validation of the local *)
(* index guarantee, for every set of files, every similarity of vectors and *)
(* every query.                                                             *)
(***************************************************************************)
EXTENDS ApprovalQueueHistory, RagIndex, FiniteSetTheorems, WellFoundedInduction, TLAPS

USE DEF Pending, Approved, Rejected

-----------------------------------------------------------------------------
(* Files and artifacts.                                                     *)

LEMMA ReadableIsSubmission ==
    ASSUME NEW f \in FileContent, Readable(f)
    PROVE  f \in Submission
BY DEF FileContent, Readable, Absent, Empty, Garbage

LEMMA FreshSubmissionType ==
    ASSUME NEW d \in Drafts, NEW t \in Nat
    PROVE  FreshSubmission(d, t) \in Submission
BY DEF FreshSubmission, Submission

LEMMA ReviewedType ==
    ASSUME NEW sub \in Submission, NEW job \in ReviewJob
    PROVE  /\ Reviewed(sub, job) \in Submission
           /\ Reviewed(sub, job).at = sub.at
<1> DEFINE approvals == WithApproval(sub.approvals, job.role, job.reviewer)
<1>1. approvals \in SUBSET Approval
  BY DEF WithApproval, Approval, Submission, ReviewJob
<1>2. StateAfterApproval(approvals) \in {Pending, Approved}
  BY DEF StateAfterApproval
<1>3. CASE job.decision = "approve"
  <2>1. Reviewed(sub, job) = [sub EXCEPT !.approvals = approvals,
                                         !.state = StateAfterApproval(approvals)]
    BY <1>3 DEF Reviewed
  <2> HIDE DEF approvals
  <2> QED BY <2>1, <1>1, <1>2 DEF Submission
<1>4. CASE job.decision # "approve"
  BY <1>4 DEF Reviewed, Submission
<1> QED BY <1>3, <1>4

(* What a slot holds at each point of its handler.                          *)
LEMMA SlotStages ==
    ASSUME TypeOK, NEW s \in Slots
    PROVE  /\ req[s].pc = "reading" => req[s] \in Reading
           /\ req[s].pc = "planned" => req[s] \in Planned
           /\ req[s].pc \in {"opening", "writing", "unlinked", "closing"}
                => req[s] \in Saving
BY DEF TypeOK, Idle, Reading, Saving, Planned

LEMMA LandedType ==
    ASSUME NEW old \in FileContent, NEW new \in Submission, NEW f \in Landed(old, new)
    PROVE  f \in FileContent /\ (Readable(f) => f = new)
BY DEF Landed, FileContent, Readable, Garbage
-----------------------------------------------------------------------------
(* Type correctness.                                                        *)

LEMMA TypeInit == Init => TypeOK
BY DEF Init, TypeOK, FileContent, Given

LEMMA TypeStep == TypeOK /\ [Next]_vars => TypeOK'
<1> SUFFICES ASSUME TypeOK, [Next]_vars PROVE TypeOK'
  OBVIOUS
<1> USE DEF TypeOK
<1>1. ASSUME NEW s \in Slots, NEW d \in Drafts, ReceiveSubmit(s, d) PROVE TypeOK'
  <2>1. FreshSubmission(d, clock + 1) \in Submission
    BY FreshSubmissionType
  <2>2. [op |-> "submit", item |-> ItemOf[d]] \in SubmitJob
    BY ItemOfType DEF SubmitJob
  <2> QED BY <1>1, <2>1, <2>2 DEF ReceiveSubmit, Saving
<1>2. ASSUME NEW s \in Slots, NEW job \in ReviewJob \cup PlanJob, Receive(s, job)
      PROVE TypeOK'
  BY <1>2 DEF Receive, Reading
<1>3. ASSUME NEW s \in Slots, ReadForReview(s) PROVE TypeOK'
  <2> DEFINE job == req[s].job
             sub == file[job.item]
  <2>1. job \in ReviewJob /\ job.item \in Items /\ sub \in FileContent
    BY <1>3, SlotStages DEF ReadForReview, Reading, ReviewJob, PlanJob
  <2>2. CASE ReviewAllowed(sub, job)
    <3>1. sub \in Submission
      BY <2>1, <2>2, ReadableIsSubmission DEF ReviewAllowed
    <3>2. Reviewed(sub, job) \in Submission
      BY <2>1, <3>1, ReviewedType
    <3>3. [pc |-> "opening", job |-> job, out |-> Reviewed(sub, job)] \in Saving
      BY <2>1, <3>2 DEF Saving
    <3>4. given' \subseteq Given
      <4>1. [item |-> job.item, at |-> sub.at, role |-> job.role,
             approver |-> job.reviewer] \in Given
        BY <2>1, <3>1 DEF Given, Submission, ReviewJob
      <4> QED BY <1>3, <2>2, <4>1 DEF ReadForReview
    <3>5. req' \in [Slots -> {Idle} \cup Reading \cup Saving \cup Planned]
      BY <1>3, <2>2, <3>3 DEF ReadForReview
    <3> QED BY <1>3, <3>4, <3>5 DEF ReadForReview
  <2>3. CASE ~ReviewAllowed(sub, job)
    BY <1>3, <2>3 DEF ReadForReview
  <2> QED BY <2>2, <2>3
<1>4. ASSUME NEW s \in Slots, ReadForPlan(s) PROVE TypeOK'
  <2> DEFINE job == req[s].job
             sub == file[job.item]
  <2>1. job \in PlanJob /\ job.item \in Items /\ sub \in FileContent
    BY <1>4, SlotStages DEF ReadForPlan, Reading, ReviewJob, PlanJob
  <2>2. ASSUME Readable(sub)
        PROVE  [pc |-> "planned", job |-> job, at |-> sub.at,
                verdict |-> PlanVerdict(sub)] \in Planned
    BY <2>1, <2>2, ReadableIsSubmission DEF Planned, Submission, PlanVerdict
  <2> QED BY <1>4, <2>2 DEF ReadForPlan
<1>5. ASSUME NEW s \in Slots, OpenForWrite(s) PROVE TypeOK'
  <2>1. req[s] \in Saving
    BY <1>5, SlotStages DEF OpenForWrite
  <2>2. [req[s] EXCEPT !.pc = "writing"] \in Saving
    BY <2>1 DEF Saving
  <2> QED BY <1>5, <2>2 DEF OpenForWrite, FileContent
<1>6. ASSUME NEW s \in Slots, LandWrite(s) PROVE TypeOK'
  <2>1. req[s] \in Saving
    BY <1>6, SlotStages DEF LandWrite
  <2>2. [req[s] EXCEPT !.pc = "closing"] \in Saving
    BY <2>1 DEF Saving
  <2>3. req[s].job.item \in Items /\ req[s].out \in Submission
    BY <2>1 DEF Saving, SubmitJob, ReviewJob
  <2>4. file' \in [Items -> FileContent]
    BY <1>6, <2>3, LandedType DEF LandWrite
  <2> QED BY <1>6, <2>2, <2>4 DEF LandWrite
<1>7. ASSUME NEW s \in Slots, Answer(s) PROVE TypeOK'
  BY <1>7 DEF Answer
<1>8. ASSUME NEW s \in Slots, FailWrite(s) PROVE TypeOK'
  BY <1>8 DEF FailWrite, FileContent
<1>9. ASSUME NEW i \in Items, Withdraw(i) PROVE TypeOK'
  <2>1. ASSUME NEW s \in Slots, req[s].pc = "writing"
        PROVE  [req[s] EXCEPT !.pc = "unlinked"] \in Saving
    BY <2>1, SlotStages DEF Saving
  <2>2. req' \in [Slots -> {Idle} \cup Reading \cup Saving \cup Planned]
    BY <1>9, <2>1 DEF Withdraw
  <2> QED BY <1>9, <2>2 DEF Withdraw, FileContent
<1>10. ASSUME NEW mode \in BOOLEAN, Restart(mode) PROVE TypeOK'
  BY <1>10 DEF Restart
<1>11. CASE UNCHANGED vars
  BY <1>11 DEF vars
<1> QED
  BY <1>1, <1>2, <1>3, <1>4, <1>5, <1>6, <1>7, <1>8, <1>9, <1>10, <1>11
     DEF Next, HandlerStep
-----------------------------------------------------------------------------
(* The inductive invariant.  ApprovalsWereGiven speaks of the files only; a  *)
(* file is overwritten by what some handler holds in memory, so the same     *)
(* must be known of every artifact a handler is about to write, and of every *)
(* verdict a plan is about to answer.                                        *)

(* Submission sub of item i claims no more than the approvals in g say was   *)
(* given to it, and its state agrees with the approvals it records.          *)
Sound(g, i, sub) ==
    /\ \A a \in sub.approvals :
          [item |-> i, at |-> sub.at, role |-> a.role, approver |-> a.approver] \in g
    /\ sub.state = Approved => RemainingApprovals(sub.approvals) = {}
    /\ sub.state = Pending => RemainingApprovals(sub.approvals) # {}

SoundFiles == \A i \in Items : Readable(file[i]) => Sound(given, i, file[i])
SoundWrites == \A s \in Slots :
    req[s] \in Saving => Sound(given, req[s].job.item, req[s].out)
SoundPlans == \A s \in Slots :
    (req[s].pc = "planned" /\ req[s].verdict = "ready-for-ingestion-job")
      => FullyApproved(req[s].job.item, req[s].at)

IInv == TypeOK /\ SoundFiles /\ SoundWrites /\ SoundPlans

LEMMA SoundGrows ==
    ASSUME NEW g, NEW h, g \subseteq h, NEW i, NEW sub, Sound(g, i, sub)
    PROVE  Sound(h, i, sub)
BY DEF Sound

(* No step takes back an approval.                                           *)
LEMMA GivenGrows == [Next]_vars => given \subseteq given'
BY DEF Next, HandlerStep, ReceiveSubmit, Receive, ReadForReview, ReadForPlan,
       OpenForWrite, LandWrite, Answer, FailWrite, Withdraw, Restart, vars

LEMMA SoundMeansFullyApproved ==
    ASSUME NEW i \in Items, NEW sub \in Submission,
           Sound(given, i, sub), sub.state = Approved
    PROVE  FullyApproved(i, sub.at)
<1> SUFFICES ASSUME NEW role \in RequiredRoles
             PROVE  \E g \in given : g.item = i /\ g.at = sub.at /\ g.role = role
  BY DEF FullyApproved
<1>1. PICK a \in sub.approvals : a.role = role
  BY DEF Sound, RemainingApprovals
<1>2. [item |-> i, at |-> sub.at, role |-> a.role, approver |-> a.approver] \in given
  BY DEF Sound
<1> QED BY <1>1, <1>2

LEMMA FreshSubmissionSound ==
    ASSUME NEW g, NEW i, NEW d \in Drafts, NEW t \in Nat
    PROVE  Sound(g, i, FreshSubmission(d, t))
BY RequiredRolesType DEF Sound, FreshSubmission, RemainingApprovals

(* A review of a sound pending submission leaves a sound one, once its own   *)
(* approval is on record.                                                    *)
LEMMA ReviewedSound ==
    ASSUME NEW job \in ReviewJob, NEW sub \in Submission,
           NEW g, NEW h, g \subseteq h,
           Sound(g, job.item, sub), sub.state = Pending,
           job.decision = "approve" =>
             [item |-> job.item, at |-> sub.at, role |-> job.role,
              approver |-> job.reviewer] \in h
    PROVE  Sound(h, job.item, Reviewed(sub, job))
<1> DEFINE approvals == WithApproval(sub.approvals, job.role, job.reviewer)
           new == [sub EXCEPT !.approvals = approvals,
                              !.state = StateAfterApproval(approvals)]
<1>1. CASE job.decision = "approve"
  <2>1. Reviewed(sub, job) = new
    BY <1>1 DEF Reviewed
  <2>2. new.approvals = approvals /\ new.at = sub.at
        /\ new.state = StateAfterApproval(approvals)
    <3> HIDE DEF approvals
    <3> QED BY DEF Submission
  <2>3. \A a \in approvals :
          [item |-> job.item, at |-> sub.at, role |-> a.role, approver |-> a.approver]
            \in h
    BY <1>1 DEF WithApproval, Sound
  <2>4. Sound(h, job.item, new)
    <3> HIDE DEF approvals, new
    <3> QED BY <2>2, <2>3 DEF Sound, StateAfterApproval
  <2> QED BY <2>1, <2>4
<1>2. CASE job.decision # "approve"
  <2>1. Reviewed(sub, job) = [sub EXCEPT !.state = Rejected]
    BY <1>2 DEF Reviewed
  <2> QED BY <2>1 DEF Sound, Submission
<1> QED BY <1>1, <1>2
-----------------------------------------------------------------------------
LEMMA IInvInit == Init => IInv
<1> SUFFICES ASSUME Init PROVE IInv
  OBVIOUS
<1>1. TypeOK
  BY TypeInit
<1>2. SoundFiles
  BY DEF Init, SoundFiles, Readable, Absent
<1>3. SoundWrites /\ SoundPlans
  BY DEF Init, SoundWrites, SoundPlans, Idle, Saving
<1> QED BY <1>1, <1>2, <1>3 DEF IInv

(* A step preserves the soundness of every file it does not write, and of    *)
(* every slot it does not touch; each action has to show the rest.           *)
LEMMA IInvStep == IInv /\ [Next]_vars => IInv'
<1> SUFFICES ASSUME IInv, [Next]_vars PROVE IInv'
  OBVIOUS
<1>t. TypeOK /\ TypeOK' /\ given \subseteq given'
  BY TypeStep, GivenGrows DEF IInv
<1>f. ASSUME NEW i \in Items, file'[i] = file[i], Readable(file'[i])
      PROVE  Sound(given', i, file'[i])
  BY <1>f, <1>t, SoundGrows DEF IInv, SoundFiles
<1>w. ASSUME NEW s \in Slots, req[s] \in Saving,
             req'[s].job = req[s].job, req'[s].out = req[s].out
      PROVE  Sound(given', req'[s].job.item, req'[s].out)
  BY <1>w, <1>t, SoundGrows DEF IInv, SoundWrites
<1>p. ASSUME NEW s \in Slots, req'[s] = req[s], req[s].pc = "planned",
             req[s].verdict = "ready-for-ingestion-job"
      PROVE  FullyApproved(req[s].job.item, req[s].at)'
  BY <1>p, <1>t DEF IInv, SoundPlans, FullyApproved
<1> SUFFICES SoundFiles' /\ SoundWrites' /\ SoundPlans'
  BY <1>t DEF IInv
<1>1. ASSUME NEW s \in Slots, NEW d \in Drafts, ReceiveSubmit(s, d)
      PROVE  SoundFiles' /\ SoundWrites' /\ SoundPlans'
  <2>1. SoundFiles'
    BY <1>1, <1>f DEF ReceiveSubmit, SoundFiles
  <2>2. \A t \in Slots : t # s => req'[t] = req[t]
    BY <1>1, <1>t DEF ReceiveSubmit, TypeOK
  <2>3. Sound(given', req'[s].job.item, req'[s].out) /\ req'[s].pc = "opening"
    BY <1>1, <1>t, FreshSubmissionSound DEF ReceiveSubmit, TypeOK
  <2>4. SoundWrites'
    BY <2>2, <2>3, <1>w DEF SoundWrites
  <2>5. SoundPlans'
    BY <2>2, <2>3, <1>p DEF SoundPlans
  <2> QED BY <2>1, <2>4, <2>5
<1>2. ASSUME NEW s \in Slots, NEW job \in ReviewJob \cup PlanJob, Receive(s, job)
      PROVE  SoundFiles' /\ SoundWrites' /\ SoundPlans'
  <2>1. SoundFiles'
    BY <1>2, <1>f DEF Receive, SoundFiles
  <2>2. req'[s] \notin Saving /\ req'[s].pc = "reading"
        /\ \A t \in Slots : t # s => req'[t] = req[t]
    BY <1>2, <1>t DEF Receive, TypeOK, Saving
  <2>3. SoundWrites' /\ SoundPlans'
    BY <2>2, <1>w, <1>p DEF SoundWrites, SoundPlans
  <2> QED BY <2>1, <2>3
<1>3. ASSUME NEW s \in Slots, ReadForReview(s)
      PROVE  SoundFiles' /\ SoundWrites' /\ SoundPlans'
  <2> DEFINE job == req[s].job
             sub == file[job.item]
  <2>1. SoundFiles'
    BY <1>3, <1>f DEF ReadForReview, SoundFiles
  <2>2. \A t \in Slots : t # s => req'[t] = req[t]
    BY <1>3, <1>t DEF ReadForReview, TypeOK
  <2>3. job \in ReviewJob /\ job.item \in Items /\ sub \in FileContent
    BY <1>3, <1>t, SlotStages DEF ReadForReview, Reading, ReviewJob, PlanJob, TypeOK
  <2>4. CASE ReviewAllowed(sub, job)
    <3>1. Readable(sub) /\ sub.state = Pending
      BY <2>4 DEF ReviewAllowed
    <3>2. sub \in Submission /\ Sound(given, job.item, sub)
      BY <2>3, <3>1, ReadableIsSubmission DEF IInv, SoundFiles
    <3>3. job.decision = "approve" =>
            [item |-> job.item, at |-> sub.at, role |-> job.role,
             approver |-> job.reviewer] \in given'
      BY <1>3, <2>4 DEF ReadForReview
    <3>4. Sound(given', job.item, Reviewed(sub, job))
      BY <2>3, <3>1, <3>2, <3>3, <1>t, ReviewedSound
    <3>5. req'[s] = [pc |-> "opening", job |-> job, out |-> Reviewed(sub, job)]
      BY <1>3, <2>4, <1>t DEF ReadForReview, TypeOK
    <3> QED BY <2>1, <2>2, <3>4, <3>5, <1>w, <1>p DEF SoundWrites, SoundPlans
  <2>5. CASE ~ReviewAllowed(sub, job)
    <3>1. req'[s] = Idle
      BY <1>3, <2>5, <1>t DEF ReadForReview, TypeOK
    <3> QED BY <2>1, <2>2, <3>1, <1>w, <1>p DEF SoundWrites, SoundPlans, Idle, Saving
  <2> QED BY <2>4, <2>5
<1>4. ASSUME NEW s \in Slots, ReadForPlan(s)
      PROVE  SoundFiles' /\ SoundWrites' /\ SoundPlans'
  <2> DEFINE job == req[s].job
             sub == file[job.item]
  <2>1. SoundFiles'
    BY <1>4, <1>f DEF ReadForPlan, SoundFiles
  <2>2. /\ \A t \in Slots : t # s => req'[t] = req[t]
        /\ req'[s] \notin Saving
    BY <1>4, <1>t DEF ReadForPlan, TypeOK, Saving, Idle
  <2>3. job.item \in Items /\ sub \in FileContent
    BY <1>4, <1>t, SlotStages DEF ReadForPlan, Reading, ReviewJob, PlanJob, TypeOK
  <2>4. CASE Readable(sub)
    <3>1. sub \in Submission /\ Sound(given, job.item, sub)
      BY <2>3, <2>4, ReadableIsSubmission DEF IInv, SoundFiles
    <3>2. sub.state = Approved => FullyApproved(job.item, sub.at)
      BY <2>3, <3>1, SoundMeansFullyApproved
    <3>3. req'[s] = [pc |-> "planned", job |-> job, at |-> sub.at,
                     verdict |-> PlanVerdict(sub)]
      BY <1>4, <2>4, <1>t DEF ReadForPlan, TypeOK
    <3>4. req'[s].verdict = "ready-for-ingestion-job" => FullyApproved(req[s].job.item, req[s].at)'
      <4>1. given' = given /\ req'[s].job.item = job.item /\ req'[s].at = sub.at
        BY <1>4, <3>3 DEF ReadForPlan
      <4>2. req'[s].verdict = "ready-for-ingestion-job" => sub.state = Approved
        BY <3>3 DEF PlanVerdict
      <4>3. ASSUME FullyApproved(job.item, sub.at)
            PROVE  FullyApproved(req[s].job.item, req[s].at)'
        <5> HIDE DEF sub, job
        <5> QED BY <4>1, <4>3 DEF FullyApproved
      <4> QED BY <3>2, <4>2, <4>3
    <3> QED BY <2>1, <2>2, <3>4, <1>w, <1>p DEF SoundWrites, SoundPlans
  <2>5. CASE ~Readable(sub)
    <3>1. req'[s] = Idle
      BY <1>4, <2>5, <1>t DEF ReadForPlan, TypeOK
    <3> QED BY <2>1, <2>2, <3>1, <1>w, <1>p DEF SoundWrites, SoundPlans, Idle
  <2> QED BY <2>4, <2>5
<1>5. ASSUME NEW s \in Slots, OpenForWrite(s)
      PROVE  SoundFiles' /\ SoundWrites' /\ SoundPlans'
  <2>1. req[s] \in Saving /\ req'[s] = [req[s] EXCEPT !.pc = "writing"]
        /\ \A t \in Slots : t # s => req'[t] = req[t]
    BY <1>5, <1>t, SlotStages DEF OpenForWrite, TypeOK
  <2>2. req'[s].job = req[s].job /\ req'[s].out = req[s].out /\ req'[s].pc = "writing"
    BY <2>1 DEF Saving
  <2>3. SoundWrites' /\ SoundPlans'
    BY <2>1, <2>2, <1>w, <1>p DEF SoundWrites, SoundPlans
  <2>4. \A i \in Items : file'[i] = file[i] \/ file'[i] = Empty
    BY <1>5, <1>t DEF OpenForWrite, TypeOK
  <2>5. SoundFiles'
    BY <2>4, <1>f DEF SoundFiles, Readable, Empty
  <2> QED BY <2>3, <2>5
<1>6. ASSUME NEW s \in Slots, LandWrite(s)
      PROVE  SoundFiles' /\ SoundWrites' /\ SoundPlans'
  <2>1. req[s] \in Saving /\ req'[s] = [req[s] EXCEPT !.pc = "closing"]
        /\ \A t \in Slots : t # s => req'[t] = req[t]
    BY <1>6, <1>t, SlotStages DEF LandWrite, TypeOK
  <2>2. req'[s].job = req[s].job /\ req'[s].out = req[s].out /\ req'[s].pc = "closing"
    BY <2>1 DEF Saving
  <2>3. SoundWrites' /\ SoundPlans'
    BY <2>1, <2>2, <1>w, <1>p DEF SoundWrites, SoundPlans
  <2>4. req[s].job.item \in Items /\ req[s].out \in Submission
        /\ Sound(given', req[s].job.item, req[s].out)
    BY <2>1, <2>2, <1>w DEF Saving, SubmitJob, ReviewJob
  <2>5. \A i \in Items :
          \/ file'[i] = file[i]
          \/ /\ i = req[s].job.item
             /\ file'[i] \in Landed(file[i], req[s].out)
    <3>1. CASE req[s].pc = "writing"
      <4>1. PICK f \in Landed(file[req[s].job.item], req[s].out) :
               file' = [file EXCEPT ![req[s].job.item] = f]
        BY <1>6, <3>1 DEF LandWrite
      <4> QED BY <4>1, <2>4, <1>t DEF TypeOK
    <3>2. CASE req[s].pc # "writing"
      BY <1>6, <3>2 DEF LandWrite
    <3> QED BY <3>1, <3>2
  <2>6. SoundFiles'
    BY <2>4, <2>5, <1>f, <1>t, LandedType DEF SoundFiles, TypeOK
  <2> QED BY <2>3, <2>6
<1>7. ASSUME NEW s \in Slots, Answer(s)
      PROVE  SoundFiles' /\ SoundWrites' /\ SoundPlans'
  <2>1. file' = file /\ req'[s] = Idle /\ \A t \in Slots : t # s => req'[t] = req[t]
    BY <1>7, <1>t DEF Answer, TypeOK
  <2> QED BY <2>1, <1>f, <1>w, <1>p DEF SoundFiles, SoundWrites, SoundPlans, Idle, Saving
<1>8. ASSUME NEW s \in Slots, FailWrite(s)
      PROVE  SoundFiles' /\ SoundWrites' /\ SoundPlans'
  <2>1. /\ req'[s] = Idle
        /\ \A t \in Slots : t # s => req'[t] = req[t]
        /\ \A i \in Items : file'[i] = file[i] \/ file'[i] = Garbage
    BY <1>8, <1>t DEF FailWrite, TypeOK
  <2> QED BY <2>1, <1>f, <1>w, <1>p
          DEF SoundFiles, SoundWrites, SoundPlans, Idle, Saving, Readable, Garbage
<1>9. ASSUME NEW i \in Items, Withdraw(i)
      PROVE  SoundFiles' /\ SoundWrites' /\ SoundPlans'
  <2>1. \A j \in Items : file'[j] = file[j] \/ file'[j] = Absent
    BY <1>9, <1>t DEF Withdraw, TypeOK
  <2>2. SoundFiles'
    BY <2>1, <1>f DEF SoundFiles, Readable, Absent
  <2>3. ASSUME NEW s \in Slots
        PROVE  \/ req'[s] = req[s]
               \/ /\ req[s] \in Saving
                  /\ req'[s].job = req[s].job /\ req'[s].out = req[s].out
                  /\ req'[s].pc = "unlinked"
    <3>1. req'[s] = req[s] \/ (req[s].pc = "writing"
                                 /\ req'[s] = [req[s] EXCEPT !.pc = "unlinked"])
      BY <1>9 DEF Withdraw
    <3> QED BY <3>1, <1>t, SlotStages DEF Saving
  <2>4. SoundWrites' /\ SoundPlans'
    BY <2>3, <1>w, <1>p DEF SoundWrites, SoundPlans
  <2> QED BY <2>2, <2>4
<1>10. ASSUME NEW mode \in BOOLEAN, Restart(mode)
       PROVE  SoundFiles' /\ SoundWrites' /\ SoundPlans'
  <2>1. file' = file /\ \A s \in Slots : req'[s] = Idle
    BY <1>10 DEF Restart
  <2> QED BY <2>1, <1>f DEF SoundFiles, SoundWrites, SoundPlans, Idle, Saving
<1>11. CASE UNCHANGED vars
  BY <1>11, <1>f, <1>w, <1>p DEF vars, SoundFiles, SoundWrites, SoundPlans
<1> QED
  BY <1>1, <1>2, <1>3, <1>4, <1>5, <1>6, <1>7, <1>8, <1>9, <1>10, <1>11
     DEF Next, HandlerStep
-----------------------------------------------------------------------------
(* Every reachable state of the queue is well typed.                         *)
THEOREM TypeCorrect == Spec => []TypeOK
BY TypeInit, TypeStep, PTL DEF Spec

LEMMA IInvCorrect == Spec => []IInv
BY IInvInit, IInvStep, PTL DEF Spec

(* For any number of concurrent requests, items, roles and reviewers: an     *)
(* approval stored with a submission was given to that submission by the     *)
(* reviewer it names.                                                        *)
THEOREM ApprovalsAreGenuine == Spec => []ApprovalsWereGiven
<1>1. IInv => ApprovalsWereGiven
  BY DEF IInv, SoundFiles, Sound, ApprovalsWereGiven
<1> QED BY <1>1, IInvCorrect, PTL

(* For any number of concurrent requests: "approved-for-ingestion" in a file *)
(* and "ready-for-ingestion-job" in a plan mean that every required role     *)
(* approved that submission.                                                 *)
THEOREM ReadyIsFullyApproved == Spec => []ReadyMeansFullyApproved
<1>1. IInv => ReadyMeansFullyApproved
  <2> SUFFICES ASSUME IInv PROVE ReadyMeansFullyApproved
    OBVIOUS
  <2>1. ASSUME NEW i \in Items, Readable(file[i]), file[i].state = Approved
        PROVE  FullyApproved(i, file[i].at)
    BY <2>1, ReadableIsSubmission, SoundMeansFullyApproved DEF IInv, TypeOK, SoundFiles
  <2> QED BY <2>1 DEF IInv, SoundPlans, ReadyMeansFullyApproved
<1> QED BY <1>1, IInvCorrect, PTL

(* The last required approval never leaves an item pending, whichever        *)
(* reviews run beside it.                                                    *)
THEOREM PendingIsIncomplete == Spec => []PendingMeansApprovalsMissing
<1>1. IInv => PendingMeansApprovalsMissing
  BY DEF IInv, SoundFiles, Sound, PendingMeansApprovalsMissing
<1> QED BY <1>1, IInvCorrect, PTL
-----------------------------------------------------------------------------
(* One request at a time.                                                   *)

(* The serial queue takes steps of the concurrent one only. *)
LEMMA SerialStepsAreSteps == [SerialNext]_vars => [Next]_vars
BY DEF SerialNext, Next, Busy

OneAtATime == \A s, t \in Slots : (req[s] # Idle /\ req[t] # Idle) => s = t

(* No writer's file is taken from it, and what it wrote is there when it     *)
(* answers.                                                                  *)
WritesAlone ==
    \A s \in Slots :
        /\ req[s].pc # "unlinked"
        /\ req[s].pc = "writing" => file[req[s].job.item] = Empty
        /\ req[s].pc = "closing" => file[req[s].job.item] = req[s].out

(* What a handler is about to open the file for is still right: a submission *)
(* is the last one received, a review is of what the file holds now.         *)
ReadyToOpen(s) ==
    LET job == req[s].job
    IN  \/ /\ job.op = "submit"
           /\ clock >= 1
           /\ \E d \in AcceptedDrafts : /\ job.item = ItemOf[d]
                                        /\ req[s].out = FreshSubmission(d, clock)
        \/ /\ job.op = "review"
           /\ ReviewAllowed(file[job.item], job)
           /\ req[s].out = Reviewed(file[job.item], job)

NothingReadIsStale == \A s \in Slots : req[s].pc = "opening" => ReadyToOpen(s)

SerialInv ==
    /\ TypeOK
    /\ clock <= MaxSubmissions
    /\ OneAtATime
    /\ WritesAlone
    /\ NothingReadIsStale

LEMMA SerialInvInit == Init => SerialInv
<1> SUFFICES ASSUME Init PROVE SerialInv
  OBVIOUS
<1>1. TypeOK /\ clock <= MaxSubmissions
  BY TypeInit, MaxSubmissionsType DEF Init
<1>2. \A s \in Slots : req[s] = Idle /\ req[s].pc = "idle"
  BY DEF Init, Idle
<1>3. OneAtATime /\ WritesAlone /\ NothingReadIsStale
  BY <1>2 DEF OneAtATime, WritesAlone, NothingReadIsStale
<1> QED BY <1>1, <1>3 DEF SerialInv

LEMMA SerialInvStep == SerialInv /\ [SerialNext]_vars => SerialInv'
<1> SUFFICES ASSUME SerialInv, [SerialNext]_vars PROVE SerialInv'
  OBVIOUS
<1>t. TypeOK /\ TypeOK'
  BY TypeStep, SerialStepsAreSteps DEF SerialInv
<1> DEFINE Rest == (clock <= MaxSubmissions /\ OneAtATime /\ WritesAlone /\ NothingReadIsStale)'
<1> SUFFICES Rest
  BY <1>t DEF SerialInv
(* Once a request is in slot s, the other slots are idle. *)
<1>o. ASSUME NEW s \in Slots, \A t \in Slots : t # s => req'[t] = Idle
      PROVE  /\ OneAtATime'
             /\ (/\ req'[s].pc # "unlinked"
                 /\ req'[s].pc = "writing" => file'[req'[s].job.item] = Empty
                 /\ req'[s].pc = "closing" => file'[req'[s].job.item] = req'[s].out)
                => WritesAlone'
             /\ (req'[s].pc = "opening" => ReadyToOpen(s)') => NothingReadIsStale'
  <2>1. \A t \in Slots : t # s => req'[t].pc = "idle"
    BY <1>o DEF Idle
  <2> QED BY <1>o, <2>1 DEF OneAtATime, WritesAlone, NothingReadIsStale
<1>b. ASSUME NEW s \in Slots, req[s] # Idle
      PROVE  \A t \in Slots : t # s => req[t] = Idle
  BY <1>b DEF SerialInv, OneAtATime
<1>1. ASSUME Busy = {}, NEW s \in Slots, NEW d \in Drafts, ReceiveSubmit(s, d) PROVE Rest
  <2>1. \A t \in Slots : t # s => req'[t] = Idle
    BY <1>1, <1>t DEF Busy, ReceiveSubmit, TypeOK
  <2>2. /\ clock' = clock + 1 /\ clock' <= MaxSubmissions
        /\ req'[s] = [pc |-> "opening", job |-> [op |-> "submit", item |-> ItemOf[d]],
                      out |-> FreshSubmission(d, clock + 1)]
        /\ d \in AcceptedDrafts
    BY <1>1, <1>t, MaxSubmissionsType DEF ReceiveSubmit, TypeOK
  <2>3. ReadyToOpen(s)'
    BY <2>2, <1>t DEF ReadyToOpen, TypeOK
  <2> QED BY <2>1, <2>2, <2>3, <1>o
<1>2. ASSUME Busy = {}, NEW s \in Slots, NEW job \in ReviewJob \cup PlanJob, Receive(s, job)
      PROVE  Rest
  <2>1. \A t \in Slots : t # s => req'[t] = Idle
    BY <1>2, <1>t DEF Busy, Receive, TypeOK
  <2>2. clock' = clock /\ req'[s].pc = "reading"
    BY <1>2, <1>t DEF Receive, TypeOK
  <2> QED BY <2>1, <2>2, <1>o DEF SerialInv
<1>3. ASSUME NEW s \in Slots, ReadForReview(s) PROVE Rest
  <2> DEFINE job == req[s].job
             sub == file[job.item]
  <2>1. \A t \in Slots : t # s => req'[t] = Idle
    BY <1>3, <1>t, <1>b DEF ReadForReview, TypeOK, Idle
  <2>2. clock' = clock /\ file' = file /\ job.op = "review"
    BY <1>3 DEF ReadForReview
  <2>3. CASE ReviewAllowed(sub, job)
    <3>1. req'[s] = [pc |-> "opening", job |-> job, out |-> Reviewed(sub, job)]
      BY <1>3, <2>3, <1>t DEF ReadForReview, TypeOK
    <3>2. /\ req'[s].pc = "opening" /\ req'[s].job = job
          /\ req'[s].out = Reviewed(sub, job)
      BY <3>1
    <3>3. ReadyToOpen(s)'
      <4> HIDE DEF job
      <4> QED BY <2>2, <2>3, <3>2 DEF ReadyToOpen
    <3> QED BY <2>1, <2>2, <3>2, <3>3, <1>o DEF SerialInv
  <2>4. CASE ~ReviewAllowed(sub, job)
    <3>1. req'[s].pc = "idle"
      BY <1>3, <2>4, <1>t DEF ReadForReview, TypeOK, Idle
    <3> QED BY <2>1, <2>2, <3>1, <1>o DEF SerialInv
  <2> QED BY <2>3, <2>4
<1>4. ASSUME NEW s \in Slots, ReadForPlan(s) PROVE Rest
  <2>1. \A t \in Slots : t # s => req'[t] = Idle
    BY <1>4, <1>t, <1>b DEF ReadForPlan, TypeOK, Idle
  <2>2. clock' = clock /\ req'[s].pc \in {"planned", "idle"}
    BY <1>4, <1>t DEF ReadForPlan, TypeOK, Idle
  <2> QED BY <2>1, <2>2, <1>o DEF SerialInv
<1>5. ASSUME NEW s \in Slots, OpenForWrite(s) PROVE Rest
  <2>1. \A t \in Slots : t # s => req'[t] = Idle
    BY <1>5, <1>t, <1>b DEF OpenForWrite, TypeOK, Idle
  <2>2. req[s] \in Saving /\ req'[s] = [req[s] EXCEPT !.pc = "writing"]
    BY <1>5, <1>t, SlotStages DEF OpenForWrite, TypeOK
  <2>3. /\ req'[s].pc = "writing" /\ req'[s].job = req[s].job
        /\ req[s].job.item \in Items
    BY <2>2 DEF Saving, SubmitJob, ReviewJob
  <2>4. clock' = clock /\ file'[req[s].job.item] = Empty
    BY <1>5, <1>t, <2>3 DEF OpenForWrite, TypeOK
  <2> QED BY <2>1, <2>3, <2>4, <1>o DEF SerialInv
<1>6. ASSUME NEW s \in Slots, LandWrite(s) PROVE Rest
  <2>1. \A t \in Slots : t # s => req'[t] = Idle
    BY <1>6, <1>t, <1>b DEF LandWrite, TypeOK, Idle
  <2>2. req[s] \in Saving /\ req'[s] = [req[s] EXCEPT !.pc = "closing"]
    BY <1>6, <1>t, SlotStages DEF LandWrite, TypeOK
  <2>3. /\ req'[s].pc = "closing" /\ req'[s].job = req[s].job
        /\ req'[s].out = req[s].out /\ req[s].job.item \in Items
    BY <2>2 DEF Saving, SubmitJob, ReviewJob
  <2>4. req[s].pc = "writing" /\ file[req[s].job.item] = Empty
    BY <1>6 DEF LandWrite, SerialInv, WritesAlone
  <2>5. clock' = clock /\ file'[req[s].job.item] = req[s].out
    BY <1>6, <1>t, <2>3, <2>4 DEF LandWrite, Landed, TypeOK
  <2> QED BY <2>1, <2>3, <2>5, <1>o DEF SerialInv
<1>7. ASSUME NEW s \in Slots, Answer(s) \/ FailWrite(s) PROVE Rest
  <2>1. \A t \in Slots : t # s => req'[t] = Idle
    BY <1>7, <1>t, <1>b DEF Answer, FailWrite, TypeOK, Idle
  <2>2. clock' = clock /\ req'[s].pc = "idle"
    BY <1>7, <1>t DEF Answer, FailWrite, TypeOK, Idle
  <2> QED BY <2>1, <2>2, <1>o DEF SerialInv
<1>8. ASSUME Busy = {}, NEW i \in Items, Withdraw(i) PROVE Rest
  <2>1. clock' = clock /\ \A s \in Slots : req'[s] = Idle /\ req'[s].pc = "idle"
    BY <1>8 DEF Busy, Withdraw, Idle
  <2> QED BY <2>1 DEF SerialInv, OneAtATime, WritesAlone, NothingReadIsStale
<1>9. ASSUME NEW mode \in BOOLEAN, Restart(mode) PROVE Rest
  <2>1. clock' = clock /\ \A s \in Slots : req'[s] = Idle /\ req'[s].pc = "idle"
    BY <1>9 DEF Restart, Idle
  <2> QED BY <2>1 DEF SerialInv, OneAtATime, WritesAlone, NothingReadIsStale
<1>10. CASE UNCHANGED vars
  BY <1>10 DEF vars, SerialInv, OneAtATime, WritesAlone, NothingReadIsStale, ReadyToOpen
<1> HIDE DEF Rest
<1> QED
  BY <1>1, <1>2, <1>3, <1>4, <1>5, <1>6, <1>7, <1>8, <1>9, <1>10
     DEF SerialNext, HandlerStep

LEMMA SerialInvCorrect == SerialSpec => []SerialInv
BY SerialInvInit, SerialInvStep, PTL DEF SerialSpec
-----------------------------------------------------------------------------
(* What becomes of an artifact.                                             *)

(* The artifacts of item i: what its file holds, and what handlers have in   *)
(* memory to write to it.                                                    *)
Artifacts(i) ==
    {f \in {file[i]} : Readable(f)}
      \cup {req[s].out : s \in {t \in Slots : req[t] \in Saving /\ req[t].job.item = i}}

LEMMA WriterStep ==
    ASSUME TypeOK, [Next]_vars, NEW s \in Slots, req'[s] \in Saving
    PROVE  \/ /\ req[s] \in Saving
              /\ req'[s].job = req[s].job
              /\ req'[s].out = req[s].out
           \/ /\ req'[s].job.op = "submit"
              /\ clock' = clock + 1
              /\ req'[s].out.at = clock'
           \/ /\ req'[s].job \in ReviewJob
              /\ Readable(file[req'[s].job.item])
              /\ file[req'[s].job.item].state = Pending
              /\ req'[s].out = Reviewed(file[req'[s].job.item], req'[s].job)
<1> DEFINE Kept == /\ req[s] \in Saving
                   /\ req'[s].job = req[s].job
                   /\ req'[s].out = req[s].out
           Submitted == /\ req'[s].job.op = "submit"
                        /\ clock' = clock + 1
                        /\ req'[s].out.at = clock'
           Decided == /\ req'[s].job \in ReviewJob
                      /\ Readable(file[req'[s].job.item])
                      /\ file[req'[s].job.item].state = Pending
                      /\ req'[s].out = Reviewed(file[req'[s].job.item], req'[s].job)
<1> SUFFICES Kept \/ Submitted \/ Decided
  OBVIOUS
<1>0. CASE req'[s] = req[s]
  BY <1>0
<1>1. ASSUME NEW t \in Slots, NEW d \in Drafts, ReceiveSubmit(t, d)
      PROVE  Kept \/ Submitted \/ Decided
  <2>1. CASE t = s
    BY <1>1, <2>1 DEF ReceiveSubmit, TypeOK, FreshSubmission
  <2>2. CASE t # s
    BY <1>1, <2>2, <1>0 DEF ReceiveSubmit, TypeOK
  <2> QED BY <2>1, <2>2
<1>2. ASSUME NEW t \in Slots, NEW job \in ReviewJob \cup PlanJob, Receive(t, job)
      PROVE  Kept \/ Submitted \/ Decided
  BY <1>2, <1>0 DEF Receive, TypeOK, Saving
<1>3. ASSUME NEW t \in Slots, ReadForReview(t) PROVE Kept \/ Submitted \/ Decided
  <2>1. CASE t = s
    <3> DEFINE job == req[s].job
    <3>1. job \in ReviewJob
      BY <1>3, <2>1, SlotStages DEF ReadForReview, Reading, ReviewJob, PlanJob
    <3>2. CASE ReviewAllowed(file[job.item], job)
      <4>1. req'[s] = [pc |-> "opening", job |-> job, out |-> Reviewed(file[job.item], job)]
        BY <1>3, <2>1, <3>2 DEF ReadForReview, TypeOK
      <4>2. req'[s].job = job /\ req'[s].out = Reviewed(file[job.item], job)
        BY <4>1
      <4>3. Decided
        <5> HIDE DEF job
        <5> QED BY <3>1, <3>2, <4>2 DEF ReviewAllowed
      <4> QED BY <4>3
    <3>3. CASE ~ReviewAllowed(file[job.item], job)
      BY <1>3, <2>1, <3>3 DEF ReadForReview, TypeOK, Idle, Saving
    <3> QED BY <3>2, <3>3
  <2>2. CASE t # s
    BY <1>3, <2>2, <1>0 DEF ReadForReview, TypeOK
  <2> QED BY <2>1, <2>2
<1>4. ASSUME NEW t \in Slots, ReadForPlan(t) PROVE Kept \/ Submitted \/ Decided
  <2>1. CASE t = s
    <3>1. req'[s].pc \in {"planned", "idle"}
      BY <1>4, <2>1 DEF ReadForPlan, TypeOK, Idle
    <3> QED BY <3>1 DEF Saving
  <2>2. CASE t # s
    BY <1>4, <2>2, <1>0 DEF ReadForPlan, TypeOK
  <2> QED BY <2>1, <2>2
<1>5. ASSUME NEW t \in Slots, OpenForWrite(t) \/ LandWrite(t)
      PROVE  Kept \/ Submitted \/ Decided
  <2>1. CASE t = s
    <3>1. req[s] \in Saving
      BY <1>5, <2>1, SlotStages DEF OpenForWrite, LandWrite
    <3>2. \E pc \in {"writing", "closing"} : req'[s] = [req[s] EXCEPT !.pc = pc]
      BY <1>5, <2>1 DEF OpenForWrite, LandWrite, TypeOK
    <3>3. Kept
      BY <3>1, <3>2 DEF Saving
    <3> QED BY <3>3
  <2>2. CASE t # s
    BY <1>5, <2>2, <1>0 DEF OpenForWrite, LandWrite, TypeOK
  <2> QED BY <2>1, <2>2
<1>6. ASSUME NEW t \in Slots, Answer(t) \/ FailWrite(t) PROVE Kept \/ Submitted \/ Decided
  BY <1>6, <1>0 DEF Answer, FailWrite, TypeOK, Idle, Saving
<1>7. ASSUME NEW i \in Items, Withdraw(i) PROVE Kept \/ Submitted \/ Decided
  <2>1. CASE req[s].pc = "writing" /\ req[s].job.item = i
    <3>1. req[s] \in Saving /\ req'[s] = [req[s] EXCEPT !.pc = "unlinked"]
      BY <1>7, <2>1, SlotStages DEF Withdraw
    <3>2. Kept
      BY <3>1 DEF Saving
    <3> QED BY <3>2
  <2>2. CASE ~(req[s].pc = "writing" /\ req[s].job.item = i)
    BY <1>7, <2>2, <1>0 DEF Withdraw
  <2> QED BY <2>1, <2>2
<1>8. ASSUME NEW mode \in BOOLEAN, Restart(mode) PROVE Kept \/ Submitted \/ Decided
  BY <1>8 DEF Restart, Idle, Saving
<1>9. CASE UNCHANGED vars
  BY <1>9, <1>0 DEF vars
<1> HIDE DEF Kept, Submitted, Decided
<1> QED
  BY <1>1, <1>2, <1>3, <1>4, <1>5, <1>6, <1>7, <1>8, <1>9 DEF Next, HandlerStep

LEMMA FileStep ==
    ASSUME TypeOK, [Next]_vars, NEW i \in Items, Readable(file'[i])
    PROVE  \/ file'[i] = file[i]
           \/ \E s \in Slots : /\ req[s] \in Saving /\ req[s].pc = "writing"
                               /\ req[s].job.item = i
                               /\ file'[i] = req[s].out
<1> DEFINE Goal == \/ file'[i] = file[i]
                   \/ \E s \in Slots : /\ req[s] \in Saving /\ req[s].pc = "writing"
                                       /\ req[s].job.item = i
                                       /\ file'[i] = req[s].out
<1> SUFFICES Goal
  OBVIOUS
<1>1. CASE file' = file
  BY <1>1
<1>2. ASSUME NEW s \in Slots, OpenForWrite(s) PROVE Goal
  BY <1>2 DEF OpenForWrite, TypeOK, Readable, Empty
<1>3. ASSUME NEW s \in Slots, LandWrite(s) PROVE Goal
  <2>1. CASE req[s].pc = "writing" /\ req[s].job.item = i
    <3>1. req[s] \in Saving /\ req[s].out \in Submission
      BY <2>1, SlotStages DEF Saving
    <3>2. file'[i] \in Landed(file[i], req[s].out)
      BY <1>3, <2>1 DEF LandWrite, TypeOK
    <3>3. file'[i] = req[s].out
      BY <3>1, <3>2, LandedType DEF TypeOK
    <3> QED BY <2>1, <3>1, <3>3
  <2>2. CASE ~(req[s].pc = "writing" /\ req[s].job.item = i)
    BY <1>3, <2>2 DEF LandWrite, TypeOK
  <2> QED BY <2>1, <2>2
<1>4. ASSUME NEW s \in Slots, FailWrite(s) PROVE Goal
  BY <1>4 DEF FailWrite, TypeOK, Readable, Garbage
<1>5. ASSUME NEW j \in Items, Withdraw(j) PROVE Goal
  BY <1>5 DEF Withdraw, TypeOK, Readable, Absent
<1> HIDE DEF Goal
<1> QED
  BY <1>1, <1>2, <1>3, <1>4, <1>5
     DEF Next, HandlerStep, ReceiveSubmit, Receive, ReadForReview, ReadForPlan, Answer,
         Restart, vars

(* After a step an artifact of item i is one it had, or a submission just    *)
(* received, or what a review makes of a pending one it had.                 *)
LEMMA ArtifactStep ==
    ASSUME TypeOK, [Next]_vars, NEW i \in Items, NEW a \in Artifacts(i)'
    PROVE  \/ a \in Artifacts(i)
           \/ clock' = clock + 1 /\ a.at = clock'
           \/ \E job \in ReviewJob, sub \in Artifacts(i) :
                 sub.state = Pending /\ a = Reviewed(sub, job)
<1>1. CASE a = file'[i] /\ Readable(file'[i])
  BY <1>1, FileStep DEF Artifacts
<1>2. ASSUME NEW s \in Slots, req'[s] \in Saving, req'[s].job.item = i, a = req'[s].out
      PROVE  \/ a \in Artifacts(i)
             \/ clock' = clock + 1 /\ a.at = clock'
             \/ \E job \in ReviewJob, sub \in Artifacts(i) :
                   sub.state = Pending /\ a = Reviewed(sub, job)
  BY <1>2, WriterStep DEF Artifacts
<1> QED BY <1>1, <1>2 DEF Artifacts

LEMMA ArtifactsAreSubmissions ==
    ASSUME TypeOK, NEW i \in Items
    PROVE  Artifacts(i) \subseteq Submission
BY ReadableIsSubmission DEF Artifacts, TypeOK, Saving
-----------------------------------------------------------------------------
(* What was acknowledged stays.                                             *)

(* Submission sub shows the decision of d, a review or its acknowledgement.  *)
Honours(sub, d) ==
    /\ d.decision = "reject" => sub.state = Rejected
    /\ d.decision = "approve" => \E a \in sub.approvals : a.role = d.role

Dated == \A i \in Items : \A a \in Artifacts(i) : a.at <= clock

ReviewsShowTheirDecision ==
    \A s \in Slots : (req[s] \in Saving /\ req[s].job.op = "review")
                        => Honours(req[s].out, req[s].job)

AcksShown ==
    \A d \in acks :
        /\ d.item \in Items /\ d.at \in Nat /\ d.at <= clock
        /\ \A a \in Artifacts(d.item) : a.at = d.at => Honours(a, d)

HistoryInv ==
    /\ SerialInv
    /\ Dated
    /\ ReviewsShowTheirDecision
    /\ AcksShown

LEMMA ReviewHonours ==
    ASSUME NEW sub \in Submission, NEW job \in ReviewJob
    PROVE  Honours(Reviewed(sub, job), job)
<1> DEFINE approvals == WithApproval(sub.approvals, job.role, job.reviewer)
           new == [sub EXCEPT !.approvals = approvals,
                              !.state = StateAfterApproval(approvals)]
<1>1. CASE job.decision = "approve"
  <2>1. Reviewed(sub, job) = new
    BY <1>1 DEF Reviewed
  <2>2. [role |-> job.role, approver |-> job.reviewer] \in approvals
    BY DEF WithApproval
  <2>3. new.approvals = approvals
    <3> HIDE DEF approvals
    <3> QED BY DEF Submission
  <2>4. \E a \in new.approvals : a.role = job.role
    BY <2>2, <2>3
  <2> HIDE DEF new
  <2> QED BY <1>1, <2>1, <2>4 DEF Honours
<1>2. CASE job.decision # "approve"
  BY <1>2 DEF Reviewed, Honours, Submission, ReviewJob
<1> QED BY <1>1, <1>2

(* A review of a pending submission keeps what it showed of other reviews.   *)
LEMMA ReviewKeepsDecisions ==
    ASSUME NEW sub \in Submission, NEW job \in ReviewJob, NEW d,
           sub.state = Pending, Honours(sub, d)
    PROVE  Honours(Reviewed(sub, job), d)
<1> DEFINE approvals == WithApproval(sub.approvals, job.role, job.reviewer)
           new == [sub EXCEPT !.approvals = approvals,
                              !.state = StateAfterApproval(approvals)]
<1>0. d.decision # "reject"
  BY DEF Honours
<1>1. CASE job.decision = "approve"
  <2>1. Reviewed(sub, job) = new
    BY <1>1 DEF Reviewed
  <2>2. ASSUME NEW a \in sub.approvals PROVE \E b \in approvals : b.role = a.role
    <3>1. [role |-> job.role, approver |-> job.reviewer] \in approvals
      BY DEF WithApproval
    <3>2. a.role # job.role => a \in approvals
      BY DEF WithApproval
    <3> QED BY <3>1, <3>2
  <2>3. new.approvals = approvals
    <3> HIDE DEF approvals
    <3> QED BY DEF Submission
  <2> HIDE DEF new, approvals
  <2>4. Honours(new, d)
    BY <1>0, <2>2, <2>3 DEF Honours
  <2> QED BY <2>1, <2>4
<1>2. CASE job.decision # "approve"
  BY <1>0, <1>2 DEF Reviewed, Honours, Submission
<1> QED BY <1>1, <1>2

LEMMA ClockStep ==
    ASSUME TypeOK, [Next]_vars
    PROVE  clock' = clock \/ clock' = clock + 1
BY DEF Next, HandlerStep, ReceiveSubmit, Receive, ReadForReview, ReadForPlan,
       OpenForWrite, LandWrite, Answer, FailWrite, Withdraw, Restart, vars

(* No step makes an artifact of a later submission than the clock's, nor    *)
(* one that does not show the review it is the result of.                   *)
LEMMA DatedStep ==
    ASSUME TypeOK, TypeOK', Dated, [Next]_vars
    PROVE  Dated'
<1>c. /\ clock \in Nat /\ clock' \in Nat
      /\ clock' = clock \/ clock' = clock + 1
  BY ClockStep DEF TypeOK
<1> SUFFICES ASSUME NEW i \in Items, NEW a \in Artifacts(i)' PROVE a.at <= clock'
  BY DEF Dated
<1>1. CASE a \in Artifacts(i)
  BY <1>1, <1>c, ArtifactsAreSubmissions DEF Dated, Submission
<1>2. ASSUME NEW job \in ReviewJob, NEW sub \in Artifacts(i),
             sub.state = Pending, a = Reviewed(sub, job)
      PROVE  a.at <= clock'
  <2>1. sub \in Submission /\ a.at = sub.at
    BY <1>2, ArtifactsAreSubmissions, ReviewedType
  <2> QED BY <2>1, <1>c DEF Dated, Submission
<1> QED BY <1>1, <1>2, <1>c, ArtifactStep

LEMMA ReviewsShowStep ==
    ASSUME TypeOK, ReviewsShowTheirDecision, [Next]_vars
    PROVE  ReviewsShowTheirDecision'
<1> SUFFICES ASSUME NEW s \in Slots, req'[s] \in Saving, req'[s].job.op = "review"
             PROVE  Honours(req'[s].out, req'[s].job)
  BY DEF ReviewsShowTheirDecision
<1>1. CASE req[s] \in Saving /\ req'[s].job = req[s].job /\ req'[s].out = req[s].out
  BY <1>1 DEF ReviewsShowTheirDecision
<1>2. ASSUME req'[s].job \in ReviewJob, Readable(file[req'[s].job.item]),
             req'[s].out = Reviewed(file[req'[s].job.item], req'[s].job)
      PROVE  Honours(req'[s].out, req'[s].job)
  <2>1. req'[s].job.item \in Items
    BY <1>2 DEF ReviewJob
  <2>2. file[req'[s].job.item] \in Submission
    BY <1>2, <2>1, ReadableIsSubmission DEF TypeOK
  <2> QED BY <1>2, <2>2, ReviewHonours
<1> QED BY <1>1, <1>2, WriterStep

LEMMA HistoryInvInit == HistoryInit => HistoryInv
<1> SUFFICES ASSUME HistoryInit PROVE HistoryInv
  OBVIOUS
<1>1. SerialInv
  BY SerialInvInit DEF HistoryInit
<1>2. \A i \in Items : Artifacts(i) = {}
  BY DEF HistoryInit, Init, Artifacts, Readable, Absent, Idle, Saving
<1>3. ReviewsShowTheirDecision
  BY DEF HistoryInit, Init, ReviewsShowTheirDecision, Idle, Saving
<1> QED BY <1>1, <1>2, <1>3 DEF HistoryInit, HistoryInv, Dated, AcksShown

LEMMA HistoryInvStep == HistoryInv /\ [SerialNext /\ Record]_historyVars => HistoryInv'
<1> SUFFICES ASSUME HistoryInv, [SerialNext /\ Record]_historyVars PROVE HistoryInv'
  OBVIOUS
<1>a. [SerialNext]_vars
  BY DEF historyVars, vars
<1>t. SerialInv /\ SerialInv' /\ TypeOK /\ TypeOK' /\ [Next]_vars
  BY <1>a, SerialInvStep, SerialStepsAreSteps DEF HistoryInv, SerialInv
<1>c. /\ clock \in Nat /\ clock' \in Nat
      /\ clock' = clock \/ clock' = clock + 1
  BY <1>t, ClockStep DEF TypeOK
(* The two kinds of artifact that are new after the step. *)
<1>r. ASSUME NEW i \in Items, NEW job \in ReviewJob, NEW sub \in Artifacts(i),
             sub.state = Pending
      PROVE  /\ sub \in Submission
             /\ Reviewed(sub, job).at = sub.at
             /\ \A d : Honours(sub, d) => Honours(Reviewed(sub, job), d)
  BY <1>r, <1>t, ArtifactsAreSubmissions, ReviewedType, ReviewKeepsDecisions
<1>1. Dated' /\ ReviewsShowTheirDecision'
  BY <1>t, DatedStep, ReviewsShowStep DEF HistoryInv
<1>3. ASSUME NEW d \in acks
      PROVE  /\ d.item \in Items /\ d.at \in Nat /\ d.at <= clock'
             /\ \A a \in Artifacts(d.item)' : a.at = d.at => Honours(a, d)
  <2>1. d.item \in Items /\ d.at \in Nat /\ d.at <= clock
    BY DEF HistoryInv, AcksShown
  <2>2. ASSUME NEW a \in Artifacts(d.item)', a.at = d.at PROVE Honours(a, d)
    <3>1. CASE a \in Artifacts(d.item)
      BY <3>1, <2>2 DEF HistoryInv, AcksShown
    <3>2. ASSUME NEW job \in ReviewJob, NEW sub \in Artifacts(d.item),
                 sub.state = Pending, a = Reviewed(sub, job)
          PROVE  Honours(a, d)
      BY <3>2, <2>1, <2>2, <1>r DEF HistoryInv, AcksShown
    <3> QED BY <2>1, <2>2, <3>1, <3>2, <1>t, <1>c, ArtifactStep
  <2> QED BY <2>1, <2>2, <1>c
<1>5. ASSUME NEW d \in AckedNow
      PROVE  /\ d.item \in Items /\ d.at \in Nat /\ d.at <= clock'
             /\ \A a \in Artifacts(d.item)' : a.at = d.at => Honours(a, d)
  <2>1. PICK s \in Slots :
          /\ req[s].pc = "closing" /\ req[s].job.op = "review" /\ Answer(s)
          /\ d = [item |-> req[s].job.item, at |-> req[s].out.at,
                  decision |-> req[s].job.decision, role |-> req[s].job.role,
                  alone |-> s \notin contested]
    BY DEF AckedNow
  <2>2. req[s] \in Saving
    BY <2>1, <1>t, SlotStages
  <2>3. /\ d.item = req[s].job.item /\ d.item \in Items
        /\ d.at = req[s].out.at /\ d.at \in Nat
        /\ d.decision = req[s].job.decision /\ d.role = req[s].job.role
    BY <2>1, <2>2 DEF Saving, SubmitJob, ReviewJob, Submission
  <2>4. req[s].out \in Artifacts(d.item)
    BY <2>2, <2>3 DEF Artifacts
  <2>5. d.at <= clock /\ clock' = clock
    BY <2>1, <2>3, <2>4 DEF HistoryInv, Dated, Answer
  <2>6. Honours(req[s].out, d)
    BY <2>1, <2>2, <2>3 DEF HistoryInv, ReviewsShowTheirDecision, Honours
  <2>7. file'[d.item] = req[s].out
    BY <2>1, <2>3, <1>t DEF Answer, SerialInv, WritesAlone
  <2>8. \A t \in Slots : req'[t] = Idle
    BY <2>1, <1>t DEF Answer, TypeOK, SerialInv, OneAtATime, Idle
  <2>9. ASSUME NEW a \in Artifacts(d.item)' PROVE a = req[s].out
    BY <2>7, <2>8 DEF Artifacts, Idle, Saving
  <2> QED BY <2>3, <2>5, <2>6, <2>9
<1>7. acks' \subseteq acks \cup AckedNow
  BY DEF Record, historyVars
<1>8. AcksShown'
  BY <1>3, <1>5, <1>7 DEF AcksShown
<1> QED BY <1>t, <1>1, <1>8 DEF HistoryInv

LEMMA HistoryInvCorrect == SerialHistorySpec => []HistoryInv
BY HistoryInvInit, HistoryInvStep, PTL DEF SerialHistorySpec

LEMMA FileIsArtifact ==
    ASSUME NEW i \in Items, Readable(file[i])
    PROVE  file[i] \in Artifacts(i)
BY DEF Artifacts

(* Served one at a time: a rejection the API acknowledged is final for the   *)
(* submission it was given to, through later reviews, deletions, failed      *)
(* writes and restarts.                                                      *)
THEOREM RejectionsAreFinal == SerialHistorySpec => []RejectionsStand
<1>1. HistoryInv => RejectionsStand
  BY FileIsArtifact DEF HistoryInv, AcksShown, Honours, RejectionsStand
<1> QED BY <1>1, HistoryInvCorrect, PTL

(* Served one at a time: an approval the API acknowledged stays with its     *)
(* submission, whatever is reviewed after it.                                *)
THEOREM ApprovalsAreKept == SerialHistorySpec => []ApprovalsStand
<1>1. HistoryInv => ApprovalsStand
  BY FileIsArtifact DEF HistoryInv, AcksShown, Honours, ApprovalsStand
<1> QED BY <1>1, HistoryInvCorrect, PTL

-----------------------------------------------------------------------------
(* Any number of requests at a time.                                        *)

(* The versions of item i that are in its file or have yet to reach it.      *)
Coming(i) ==
    {f \in {file[i]} : Readable(f)}
      \cup {req[s].out :
              s \in {t \in Slots : /\ req[t].pc \in {"opening", "writing"}
                                   /\ req[t].job.item = i}}

LEMMA ComingIsArtifact ==
    ASSUME TypeOK, NEW i \in Items
    PROVE  Coming(i) \subseteq Artifacts(i)
BY SlotStages DEF Coming, Artifacts

(* A writer that has yet to land had yet to land, or has just been received. *)
LEMMA WritersLandOnce ==
    ASSUME TypeOK, [Next]_vars, NEW s \in Slots, req[s] \in Saving,
           req'[s].pc \in {"opening", "writing"}
    PROVE  req[s].pc \in {"opening", "writing"}
<1>1. req[s].pc \in {"opening", "writing", "unlinked", "closing"}
  BY DEF Saving
<1>2. CASE req'[s] = req[s]
  BY <1>2
<1>3. ASSUME NEW t \in Slots, HandlerStep(t) \/ FailWrite(t)
      PROVE  req[s].pc \in {"opening", "writing"}
  <2>1. CASE t = s
    <3>1. ~ReadForReview(s) /\ ~ReadForPlan(s)
      BY <1>1 DEF ReadForReview, ReadForPlan
    <3>2. CASE OpenForWrite(s)
      BY <3>2 DEF OpenForWrite
    <3>3. CASE LandWrite(s)
      <4>1. req'[s].pc = "closing"
        BY <3>3, TypeOK DEF LandWrite, TypeOK, Saving
      <4> QED BY <4>1
    <3>4. CASE Answer(s) \/ FailWrite(s)
      <4>1. req'[s] = Idle
        BY <3>4, TypeOK DEF Answer, FailWrite, TypeOK
      <4> QED BY <4>1 DEF Idle
    <3> QED BY <1>3, <2>1, <3>1, <3>2, <3>3, <3>4 DEF HandlerStep
  <2>2. CASE t # s
    BY <1>2, <1>3, <2>2
       DEF HandlerStep, ReadForReview, ReadForPlan, OpenForWrite, LandWrite, Answer,
           FailWrite, TypeOK
  <2> QED BY <2>1, <2>2
<1>4. ASSUME NEW t \in Slots, NEW d \in Drafts, ReceiveSubmit(t, d)
      PROVE  req[s].pc \in {"opening", "writing"}
  BY <1>1, <1>2, <1>4 DEF ReceiveSubmit, TypeOK, Idle
<1>5. ASSUME NEW t \in Slots, NEW job \in ReviewJob \cup PlanJob, Receive(t, job)
      PROVE  req[s].pc \in {"opening", "writing"}
  BY <1>1, <1>2, <1>5 DEF Receive, TypeOK, Idle
<1>6. ASSUME NEW i \in Items, Withdraw(i) PROVE req[s].pc \in {"opening", "writing"}
  BY <1>1, <1>2, <1>6 DEF Withdraw
<1>7. ASSUME NEW mode \in BOOLEAN, Restart(mode) PROVE req[s].pc \in {"opening", "writing"}
  BY <1>7 DEF Restart, Idle
<1> QED BY <1>2, <1>3, <1>4, <1>5, <1>6, <1>7 DEF Next, vars

(* A writer that waits to answer waited before, or its bytes have landed.    *)
LEMMA LandsBeforeAnswer ==
    ASSUME TypeOK, [Next]_vars, NEW s \in Slots, req'[s].pc = "closing"
    PROVE  req'[s] = req[s] \/ LandWrite(s)
<1> DEFINE Goal == req'[s] = req[s] \/ LandWrite(s)
<1> SUFFICES Goal
  OBVIOUS
<1>1. ASSUME NEW t \in Slots, HandlerStep(t) \/ FailWrite(t) PROVE Goal
  <2>1. CASE t = s
    <3>1. CASE ReadForReview(s)
      <4>1. req'[s].pc \in {"opening", "idle"}
        BY <3>1 DEF ReadForReview, TypeOK, Idle
      <4> QED BY <4>1
    <3>2. CASE ReadForPlan(s)
      <4>1. req'[s].pc \in {"planned", "idle"}
        BY <3>2 DEF ReadForPlan, TypeOK, Idle
      <4> QED BY <4>1
    <3>3. CASE OpenForWrite(s)
      <4>1. req'[s] = [req[s] EXCEPT !.pc = "writing"] /\ req[s] \in Saving
        BY <3>3, SlotStages DEF OpenForWrite, TypeOK
      <4> QED BY <4>1 DEF Saving
    <3>4. CASE Answer(s) \/ FailWrite(s)
      <4>1. req'[s] = Idle
        BY <3>4 DEF Answer, FailWrite, TypeOK
      <4> QED BY <4>1 DEF Idle
    <3>5. CASE LandWrite(s)
      BY <3>5
    <3> QED BY <1>1, <2>1, <3>1, <3>2, <3>3, <3>4, <3>5 DEF HandlerStep
  <2>2. CASE t # s
    BY <1>1, <2>2
       DEF HandlerStep, ReadForReview, ReadForPlan, OpenForWrite, LandWrite, Answer,
           FailWrite, TypeOK
  <2> QED BY <2>1, <2>2
<1>2. ASSUME NEW t \in Slots, NEW d \in Drafts, ReceiveSubmit(t, d) PROVE Goal
  BY <1>2 DEF ReceiveSubmit, TypeOK
<1>3. ASSUME NEW t \in Slots, NEW job \in ReviewJob \cup PlanJob, Receive(t, job) PROVE Goal
  BY <1>3 DEF Receive, TypeOK
<1>4. ASSUME NEW i \in Items, Withdraw(i) PROVE Goal
  BY <1>4 DEF Withdraw
<1>5. ASSUME NEW mode \in BOOLEAN, Restart(mode) PROVE Goal
  BY <1>5 DEF Restart, Idle
<1>6. CASE UNCHANGED vars
  BY <1>6 DEF vars
<1> HIDE DEF Goal
<1> QED BY <1>1, <1>2, <1>3, <1>4, <1>5, <1>6 DEF Next

(* A file that can be read is taken away by the operator alone.              *)
LEMMA OnlyWithdrawTakesAway ==
    ASSUME TypeOK, [Next]_vars, NEW i \in Items, Readable(file[i]), file'[i] = Absent
    PROVE  Withdraw(i)
<1>0. file[i] # Absent
  BY DEF Readable, Absent
<1>1. ASSUME NEW s \in Slots, LandWrite(s) PROVE FALSE
  <2>1. CASE req[s].pc = "writing" /\ req[s].job.item = i
    <3>1. req[s].out \in Submission
      BY <2>1, SlotStages DEF Saving
    <3>2. file'[i] \in {req[s].out, Garbage}
      BY <1>1, <2>1 DEF LandWrite, TypeOK, Landed
    <3> QED BY <3>1, <3>2 DEF Submission, Absent, Garbage
  <2>2. CASE ~(req[s].pc = "writing" /\ req[s].job.item = i)
    BY <1>0, <1>1, <2>2 DEF LandWrite, TypeOK
  <2> QED BY <2>1, <2>2
<1>2. ASSUME NEW s \in Slots, OpenForWrite(s) \/ FailWrite(s) PROVE FALSE
  BY <1>0, <1>2 DEF OpenForWrite, FailWrite, TypeOK, Absent, Empty, Garbage
<1>3. ASSUME NEW j \in Items, Withdraw(j) PROVE Withdraw(i)
  <2>1. j = i
    BY <1>0, <1>3 DEF Withdraw, TypeOK
  <2> QED BY <1>3, <2>1
<1> QED BY <1>0, <1>1, <1>2, <1>3
        DEF Next, HandlerStep, ReceiveSubmit, Receive, ReadForReview, ReadForPlan, Answer,
            Restart, vars

LEMMA ComingStep ==
    ASSUME TypeOK, [Next]_vars, NEW i \in Items, NEW a \in Coming(i)'
    PROVE  \/ a \in Coming(i)
           \/ clock' = clock + 1 /\ a.at = clock'
           \/ \E job \in ReviewJob, sub \in Coming(i) :
                 sub.state = Pending /\ a = Reviewed(sub, job)
<1>1. CASE a = file'[i] /\ Readable(file'[i])
  BY <1>1, FileStep DEF Coming
<1>2. ASSUME NEW s \in Slots, req'[s].pc \in {"opening", "writing"},
             req'[s].job.item = i, a = req'[s].out
      PROVE  \/ a \in Coming(i)
             \/ clock' = clock + 1 /\ a.at = clock'
             \/ \E job \in ReviewJob, sub \in Coming(i) :
                   sub.state = Pending /\ a = Reviewed(sub, job)
  <2>1. TypeOK'
    BY TypeStep
  <2>2. req'[s] \in Saving
    BY <1>2, <2>1 DEF TypeOK, Idle, Reading, Planned
  <2>3. CASE req[s] \in Saving /\ req'[s].job = req[s].job /\ req'[s].out = req[s].out
    BY <1>2, <2>3, WritersLandOnce DEF Coming
  <2> QED BY <1>2, <2>2, <2>3, WriterStep DEF Coming
<1> QED BY <1>1, <1>2 DEF Coming

(* A decision that every version of a submission shows is in the ones to     *)
(* come, and a submission of which no version is left does not come back.    *)
LEMMA ShownStaysShown ==
    ASSUME TypeOK, [Next]_vars, NEW i \in Items, NEW t \in Nat, t <= clock, NEW d,
           \A a \in Coming(i) : a.at = t => Honours(a, d)
    PROVE  \A a \in Coming(i)' : a.at = t => Honours(a, d)
<1> SUFFICES ASSUME NEW a \in Coming(i)', a.at = t PROVE Honours(a, d)
  OBVIOUS
<1>1. clock \in Nat
  BY DEF TypeOK
<1>2. ASSUME NEW job \in ReviewJob, NEW sub \in Coming(i),
             sub.state = Pending, a = Reviewed(sub, job)
      PROVE  Honours(a, d)
  <2>1. sub \in Submission
    BY ComingIsArtifact, ArtifactsAreSubmissions
  <2>2. sub.at = t
    BY <1>2, <2>1, ReviewedType
  <2> QED BY <1>2, <2>1, <2>2, ReviewKeepsDecisions
<1> QED BY <1>1, <1>2, ComingStep

LEMMA GoneStaysGone ==
    ASSUME TypeOK, [Next]_vars, NEW i \in Items, NEW t \in Nat, t <= clock,
           \A a \in Coming(i) : a.at # t
    PROVE  \A a \in Coming(i)' : a.at # t
<1> SUFFICES ASSUME NEW a \in Coming(i)', a.at = t PROVE FALSE
  OBVIOUS
<1>1. clock \in Nat
  BY DEF TypeOK
<1>2. ASSUME NEW job \in ReviewJob, NEW sub \in Coming(i), a = Reviewed(sub, job)
      PROVE  FALSE
  <2>1. sub \in Submission
    BY ComingIsArtifact, ArtifactsAreSubmissions
  <2> QED BY <1>2, <2>1, ReviewedType
<1> QED BY <1>1, <1>2, ComingStep

AcksComing ==
    \A d \in acks :
        /\ d.item \in Items /\ d.at \in Nat /\ d.at <= clock
        /\ d.decision \in {"approve", "reject"}
        /\ d.alone => \A a \in Coming(d.item) : a.at = d.at => Honours(a, d)

LandedComing ==
    \A s \in Slots, i \in Items :
        (/\ req[s].pc = "closing" /\ req[s].job.op = "review" /\ req[s].job.item = i
         /\ s \notin contested)
            => \A a \in Coming(i) : a.at = req[s].out.at => Honours(a, req[s].job)

WithdrawnAway ==
    \A w \in withdrawn :
        /\ w.item \in Items /\ w.at \in Nat /\ w.at <= clock
        /\ ~w.held => \A a \in Coming(w.item) : a.at # w.at

SharedInv ==
    /\ TypeOK
    /\ Dated
    /\ ReviewsShowTheirDecision
    /\ AcksComing
    /\ LandedComing
    /\ WithdrawnAway

LEMMA SharedInvInit == HistoryInit => SharedInv
<1> SUFFICES ASSUME HistoryInit PROVE SharedInv
  OBVIOUS
<1>1. TypeOK
  BY TypeInit DEF HistoryInit
<1>2. \A i \in Items : Artifacts(i) = {}
  BY DEF HistoryInit, Init, Artifacts, Readable, Absent, Idle, Saving
<1>3. ReviewsShowTheirDecision /\ LandedComing
  BY DEF HistoryInit, Init, ReviewsShowTheirDecision, LandedComing, Idle, Saving
<1> QED BY <1>1, <1>2, <1>3 DEF HistoryInit, SharedInv, Dated, AcksComing, WithdrawnAway

\* The item and the submission of a writer.
LEMMA WriterTyped ==
    ASSUME TypeOK, Dated, NEW s \in Slots, req[s] \in Saving
    PROVE  /\ req[s].job.item \in Items
           /\ req[s].out \in Submission
           /\ req[s].out.at \in Nat
           /\ req[s].out.at <= clock
<1>1. req[s].job.item \in Items /\ req[s].out \in Submission /\ req[s].out.at \in Nat
  BY DEF Saving, SubmitJob, ReviewJob, Submission
<1>2. req[s].out \in Artifacts(req[s].job.item)
  BY DEF Artifacts
<1> QED BY <1>1, <1>2 DEF Dated

(* A decision that lands alone is in every version that is left.             *)
LEMMA LandedAlone ==
    ASSUME SharedInv, NEW s \in Slots, NEW i \in Items, LandWrite(s), ~Overlapped(s),
           req[s].job.op = "review", req[s].job.item = i
    PROVE  \A a \in Coming(i)' : a.at = req[s].out.at => Honours(a, req[s].job)
<1>1. req[s].pc = "writing" /\ req[s] \in Saving
  BY SlotStages DEF LandWrite, Overlapped, SharedInv
<1>2. i \in Items /\ req[s].out \in Submission
  BY <1>1, WriterTyped DEF SharedInv
<1>3. Honours(req[s].out, req[s].job)
  BY <1>1 DEF SharedInv, ReviewsShowTheirDecision
<1>4. Readable(file'[i]) => file'[i] = req[s].out
  <2>1. file'[i] \in Landed(file[i], req[s].out)
    BY <1>1, <1>2 DEF LandWrite, SharedInv, TypeOK
  <2>2. file[i] \in FileContent
    BY <1>2 DEF SharedInv, TypeOK
  <2> QED BY <1>2, <2>1, <2>2, LandedType
<1>5. ASSUME NEW t \in Slots, req'[t].pc \in {"opening", "writing"}, req'[t].job.item = i
      PROVE  req'[t].out.at # req[s].out.at
  <2>1. t # s
    BY <1>5, <1>1 DEF LandWrite, SharedInv, TypeOK
  <2>2. req'[t] = req[t]
    BY <2>1 DEF LandWrite, SharedInv, TypeOK
  <2> QED BY <1>5, <2>1, <2>2 DEF Overlapped, Holds
<1>6. ASSUME NEW a \in Coming(i)', a.at = req[s].out.at PROVE Honours(a, req[s].job)
  <2>1. \/ a = file'[i] /\ Readable(file'[i])
        \/ \E t \in Slots : /\ req'[t].pc \in {"opening", "writing"}
                            /\ req'[t].job.item = i /\ a = req'[t].out
    BY <1>6 DEF Coming
  <2> QED BY <1>3, <1>4, <1>5, <1>6, <2>1
<1> QED BY <1>6

LEMMA SharedInvStep == SharedInv /\ [Next /\ Record]_historyVars => SharedInv'
<1> SUFFICES ASSUME SharedInv, [Next /\ Record]_historyVars PROVE SharedInv'
  OBVIOUS
<1>t. TypeOK /\ TypeOK' /\ [Next]_vars /\ Dated
  BY TypeStep DEF SharedInv, historyVars, vars
<1>c. /\ clock \in Nat /\ clock' \in Nat
      /\ clock' = clock \/ clock' = clock + 1
  BY <1>t, ClockStep DEF TypeOK
<1>1. Dated' /\ ReviewsShowTheirDecision'
  BY <1>t, DatedStep, ReviewsShowStep DEF SharedInv
<1>2. ASSUME NEW d \in acks
      PROVE  /\ d.item \in Items /\ d.at \in Nat /\ d.at <= clock'
             /\ d.decision \in {"approve", "reject"}
             /\ d.alone => \A a \in Coming(d.item)' : a.at = d.at => Honours(a, d)
  <2>1. /\ d.item \in Items /\ d.at \in Nat /\ d.at <= clock
        /\ d.decision \in {"approve", "reject"}
    BY DEF SharedInv, AcksComing
  <2>2. d.alone => \A a \in Coming(d.item) : a.at = d.at => Honours(a, d)
    BY DEF SharedInv, AcksComing
  <2>3. d.alone => \A a \in Coming(d.item)' : a.at = d.at => Honours(a, d)
    BY <2>1, <2>2, <1>t, ShownStaysShown
  <2> QED BY <2>1, <2>3, <1>c
<1>3. ASSUME NEW w \in withdrawn
      PROVE  /\ w.item \in Items /\ w.at \in Nat /\ w.at <= clock'
             /\ ~w.held => \A a \in Coming(w.item)' : a.at # w.at
  <2>1. w.item \in Items /\ w.at \in Nat /\ w.at <= clock
    BY DEF SharedInv, WithdrawnAway
  <2>2. ~w.held => \A a \in Coming(w.item) : a.at # w.at
    BY DEF SharedInv, WithdrawnAway
  <2>3. ~w.held => \A a \in Coming(w.item)' : a.at # w.at
    BY <2>1, <2>2, <1>t, GoneStaysGone
  <2> QED BY <2>1, <2>3, <1>c
<1>4. ASSUME NEW d \in AckedNow
      PROVE  /\ d.item \in Items /\ d.at \in Nat /\ d.at <= clock'
             /\ d.decision \in {"approve", "reject"}
             /\ d.alone => \A a \in Coming(d.item)' : a.at = d.at => Honours(a, d)
  <2>1. PICK s \in Slots :
          /\ req[s].pc = "closing" /\ req[s].job.op = "review"
          /\ d = [item |-> req[s].job.item, at |-> req[s].out.at,
                  decision |-> req[s].job.decision, role |-> req[s].job.role,
                  alone |-> s \notin contested]
    BY DEF AckedNow
  <2>2. /\ d.item = req[s].job.item /\ d.at = req[s].out.at
        /\ d.decision = req[s].job.decision /\ d.role = req[s].job.role
        /\ d.alone = (s \notin contested)
    BY <2>1
  <2>3. req[s] \in Saving
    BY <2>1, <1>t, SlotStages
  <2>4. /\ d.item \in Items /\ d.at \in Nat /\ d.at <= clock
        /\ d.decision \in {"approve", "reject"}
    BY <2>1, <2>2, <2>3, <1>t, WriterTyped DEF Saving, SubmitJob, ReviewJob
  <2>5. ASSUME d.alone PROVE \A a \in Coming(d.item) : a.at = d.at => Honours(a, d)
    <3>1. \A a \in Coming(d.item) : a.at = d.at => Honours(a, req[s].job)
      BY <2>1, <2>2, <2>4, <2>5 DEF SharedInv, LandedComing
    <3> QED BY <2>2, <3>1 DEF Honours
  <2>6. d.alone => \A a \in Coming(d.item)' : a.at = d.at => Honours(a, d)
    BY <2>4, <2>5, <1>t, ShownStaysShown
  <2> QED BY <2>4, <2>6, <1>c
<1>5. ASSUME NEW w \in WithdrawnNow
      PROVE  /\ w.item \in Items /\ w.at \in Nat /\ w.at <= clock'
             /\ ~w.held => \A a \in Coming(w.item)' : a.at # w.at
  <2>1. PICK i \in Items :
          /\ Readable(file[i]) /\ file'[i] = Absent
          /\ w = [item |-> i, at |-> file[i].at,
                  held |-> \E s \in Slots : req[s].pc = "opening" /\ Holds(s, i, file[i].at)]
    BY DEF WithdrawnNow
  <2>2. /\ w.item = i /\ w.at = file[i].at
        /\ w.held = (\E s \in Slots : req[s].pc = "opening" /\ Holds(s, i, file[i].at))
    BY <2>1
  <2>3. Withdraw(i)
    BY <2>1, <1>t, OnlyWithdrawTakesAway
  <2>4. file[i] \in Artifacts(i) /\ file[i] \in Submission
    BY <2>1, <1>t, ReadableIsSubmission DEF Artifacts, TypeOK
  <2>5. w.at \in Nat /\ w.at <= clock
    BY <2>2, <2>4, <1>t DEF Submission, Dated
  <2>6. ASSUME ~w.held, NEW s \in Slots, req'[s].pc \in {"opening", "writing"},
               req'[s].job.item = i
        PROVE  req'[s].out.at # w.at
    <3>1. req'[s] = req[s] /\ req[s].pc = "opening"
      BY <2>3, <2>6, <1>t DEF Withdraw, TypeOK, Idle, Reading, Saving, Planned
    <3> QED BY <2>2, <2>6, <3>1 DEF Holds
  <2>7. ~Readable(file'[i])
    BY <2>1 DEF Readable, Absent
  <2>8. ~w.held => \A a \in Coming(i)' : a.at # w.at
    BY <2>6, <2>7 DEF Coming
  <2> QED BY <2>2, <2>5, <2>8, <1>c
<1>6. ASSUME NEW s \in Slots, NEW i \in Items, req'[s].pc = "closing",
             req'[s].job.op = "review", req'[s].job.item = i, s \notin contested',
             NEW a \in Coming(i)', a.at = req'[s].out.at
      PROVE  Honours(a, req'[s].job)
  <2>1. CASE req'[s] = req[s]
    <3>1. s \notin contested
      BY <1>6, <2>1 DEF Record, RecordLanding, historyVars
    <3>2. req[s] \in Saving
      BY <1>6, <2>1, <1>t, SlotStages
    <3>3. req[s].out.at \in Nat /\ req[s].out.at <= clock
      BY <3>2, <1>t, WriterTyped
    <3>4. \A b \in Coming(i) : b.at = req[s].out.at => Honours(b, req[s].job)
      BY <1>6, <2>1, <3>1 DEF SharedInv, LandedComing
    <3> DEFINE t == req[s].out.at
               d == req[s].job
    <3>5. t \in Nat /\ t <= clock /\ (\A b \in Coming(i) : b.at = t => Honours(b, d))
      BY <3>3, <3>4
    <3>6. req'[s].out.at = t /\ req'[s].job = d
      BY <2>1
    <3> HIDE DEF t, d
    <3>7. \A b \in Coming(i)' : b.at = t => Honours(b, d)
      BY <3>5, <1>t, ShownStaysShown
    <3> QED BY <1>6, <3>6, <3>7
  <2>2. CASE LandWrite(s)
    <3>1. req[s].pc # "closing"
      BY <2>2 DEF LandWrite
    <3>2. req'[s] # req[s]
      BY <1>6, <3>1
    <3>3. Record
      BY <3>2 DEF historyVars
    <3>4. ~Overlapped(s)
      BY <1>6, <3>1, <3>3 DEF Record, RecordLanding
    <3>5. req[s] \in Saving /\ req'[s] = [req[s] EXCEPT !.pc = "closing"]
      BY <2>2, <1>t, SlotStages DEF LandWrite, TypeOK
    <3>6. req'[s].job = req[s].job /\ req'[s].out = req[s].out
      BY <3>5 DEF Saving
    <3>7. \A b \in Coming(i)' : b.at = req[s].out.at => Honours(b, req[s].job)
      BY <1>6, <2>2, <3>4, <3>6, LandedAlone
    <3> QED BY <1>6, <3>6, <3>7
  <2> QED BY <1>6, <2>1, <2>2, <1>t, LandsBeforeAnswer
<1>7. /\ acks' \subseteq acks \cup AckedNow
      /\ withdrawn' \subseteq withdrawn \cup WithdrawnNow
  BY DEF Record, historyVars
<1>8. AcksComing'
  BY <1>2, <1>4, <1>7 DEF AcksComing
<1>9. WithdrawnAway'
  BY <1>3, <1>5, <1>7 DEF WithdrawnAway
<1>10. LandedComing'
  BY <1>6 DEF LandedComing
<1> QED BY <1>t, <1>1, <1>8, <1>9, <1>10 DEF SharedInv

LEMMA SharedInvCorrect == HistorySpec => []SharedInv
BY SharedInvInit, SharedInvStep, PTL DEF HistorySpec

LEMMA FileIsComing ==
    ASSUME NEW i \in Items, Readable(file[i])
    PROVE  file[i] \in Coming(i)
BY DEF Coming

(* With any number of requests in flight, an acknowledged decision that      *)
(* landed while no other request had a version of its submission to write is *)
(* in every later version of it: read-await-write loses decisions to         *)
(* overlapping requests only.                                                *)
THEOREM DecisionsLostOnlyToOverlap == HistorySpec => []LostOnlyToOverlap
<1>1. SharedInv => LostOnlyToOverlap
  <2> SUFFICES ASSUME SharedInv, NEW d \in acks,
                      d.alone, Readable(file[d.item]), file[d.item].at = d.at
               PROVE  IF d.decision = "reject"
                      THEN file[d.item].state = Rejected
                      ELSE \E a \in file[d.item].approvals : a.role = d.role
    BY DEF LostOnlyToOverlap
  <2>1. Honours(file[d.item], d)
    BY FileIsComing DEF SharedInv, AcksComing
  <2>2. d.decision \in {"approve", "reject"}
    BY DEF SharedInv, AcksComing
  <2> QED BY <2>1, <2>2 DEF Honours
<1> QED BY <1>1, SharedInvCorrect, PTL

(* With any number of requests in flight, a file deleted while no handler    *)
(* was about to open it for a version of the submission it held stays away,  *)
(* until a draft is submitted anew.                                          *)
THEOREM DeletedReturnsOnlyIfHeld == HistorySpec => []ReturnsOnlyIfHeld
<1>1. SharedInv => ReturnsOnlyIfHeld
  BY FileIsComing DEF SharedInv, WithdrawnAway, ReturnsOnlyIfHeld
<1> QED BY <1>1, SharedInvCorrect, PTL
-----------------------------------------------------------------------------
(* The refinement of the ledger.                                            *)

(* A file nobody writes, as the ledger sees it. *)
Settled(f) == IF f \in {Empty, Garbage} THEN [state |-> "lost"] ELSE f

LEMMA ViewOfOne ==
    \A s \in Slots :
        (\A t \in Slots : t # s => req[t] = Idle)
          => /\ \A i \in Items :
                   ledgerView[i] = IF req[s].pc = "writing" /\ req[s].job.item = i
                                   THEN req[s].out ELSE Settled(file[i])
             /\ nowView = IF req[s].pc = "opening" /\ req[s].job.op = "submit"
                          THEN clock - 1 ELSE clock
<1> SUFFICES ASSUME NEW s \in Slots, \A t \in Slots : t # s => req[t] = Idle
             PROVE  /\ \A i \in Items :
                         ledgerView[i] = IF req[s].pc = "writing" /\ req[s].job.item = i
                                         THEN req[s].out ELSE Settled(file[i])
                    /\ nowView = IF req[s].pc = "opening" /\ req[s].job.op = "submit"
                                 THEN clock - 1 ELSE clock
  OBVIOUS
<1>1. \A t \in Slots : t # s => req[t].pc = "idle"
  BY DEF Idle
<1>2. \A i \in Items :
        Writers(i) = IF req[s].pc = "writing" /\ req[s].job.item = i THEN {s} ELSE {}
  BY <1>1 DEF Writers
<1>3. (CHOOSE t \in {s} : TRUE) = s
  OBVIOUS
<1>4. ASSUME NEW i \in Items
      PROVE  ledgerView[i] = IF req[s].pc = "writing" /\ req[s].job.item = i
                             THEN req[s].out ELSE Settled(file[i])
  BY <1>2, <1>3 DEF ledgerView, Settled
<1> QED BY <1>1, <1>4 DEF nowView

LEMMA ViewOfNone ==
    (\A s \in Slots : req[s] = Idle)
      => /\ \A i \in Items : ledgerView[i] = Settled(file[i])
         /\ nowView = clock
BY DEF ledgerView, nowView, Writers, Settled, Idle

LEMMA SettledFacts ==
    /\ Settled(Empty) = [state |-> "lost"] /\ Settled(Garbage) = [state |-> "lost"]
    /\ Settled(Absent) = Absent
    /\ \A sub \in Submission : Settled(sub) = sub
BY DEF Settled, Absent, Empty, Garbage, Submission

LEMMA LedgerInitially == Init => Ledger!LedgerInit
<1> SUFFICES ASSUME Init PROVE Ledger!LedgerInit
  OBVIOUS
<1>1. /\ \A i \in Items : ledgerView[i] = Absent
      /\ nowView = 0
  BY ViewOfNone, SettledFacts DEF Init
<1>2. ledgerView = [i \in Items |-> ledgerView[i]]
  BY DEF ledgerView
<1> QED BY <1>1, <1>2 DEF Ledger!LedgerInit, Ledger!NoItem, Absent

(* Two fields of one entry are updated as the entry is. *)
LEMMA TwoFieldsUpdated ==
    ASSUME NEW f, NEW i \in DOMAIN f, NEW a, NEW b
    PROVE  [f EXCEPT ![i].approvals = a, ![i].state = b]
             = [f EXCEPT ![i] = [f[i] EXCEPT !.approvals = a, !.state = b]]
<1> DEFINE g == [f EXCEPT ![i] = [f[i] EXCEPT !.approvals = a]]
<1>1. [f EXCEPT ![i].approvals = a, ![i].state = b]
        = [[f EXCEPT ![i].approvals = a] EXCEPT ![i].state = b]
  OBVIOUS
<1>2. [f EXCEPT ![i].approvals = a] = g
  OBVIOUS
<1>3. [g EXCEPT ![i].state = b] = [g EXCEPT ![i] = [g[i] EXCEPT !.state = b]]
  <2> HIDE DEF g
  <2> QED OBVIOUS
<1>4. g[i] = [f[i] EXCEPT !.approvals = a]
  OBVIOUS
<1>5. [g[i] EXCEPT !.state = b] = [f[i] EXCEPT !.approvals = a, !.state = b]
  <2> SUFFICES [[f[i] EXCEPT !.approvals = a] EXCEPT !.state = b]
                 = [f[i] EXCEPT !.approvals = a, !.state = b]
    BY <1>4
  <2> QED OBVIOUS
<1>6. [g EXCEPT ![i] = [f[i] EXCEPT !.approvals = a, !.state = b]]
        = [f EXCEPT ![i] = [f[i] EXCEPT !.approvals = a, !.state = b]]
  OBVIOUS
<1> HIDE DEF g
<1> QED BY <1>1, <1>2, <1>3, <1>5, <1>6

(* A review that opens the file of the pending submission it read is the     *)
(* ledger's atomic review.                                                   *)
LEMMA ReviewIsLedgerReview ==
    ASSUME NEW job \in ReviewJob, ledgerView[job.item] \in Submission,
           ReviewAllowed(ledgerView[job.item], job),
           nowView' = nowView,
           ledgerView' = [ledgerView EXCEPT ![job.item] =
                            Reviewed(ledgerView[job.item], job)]
    PROVE  Ledger!LedgerNext
<1> DEFINE sub == ledgerView[job.item]
           others == {a \in sub.approvals : a.role # job.role}
           approvals == others \cup {[role |-> job.role, approver |-> job.reviewer]}
<1>0. /\ job.item \in Items /\ job.role \in Roles /\ job.reviewer \in Reviewers
      /\ job.decision \in {"approve", "reject"}
      /\ sub.state = "pending-human-approval"
      /\ job.item \in DOMAIN ledgerView
  BY DEF ReviewJob, ReviewAllowed, ledgerView
<1>1. CASE job.decision = "approve"
  <2>1. RemainingApprovals(approvals) = {} <=> RequiredRoles \subseteq Ledger!RolesOf(approvals)
    <3> HIDE DEF approvals
    <3> QED BY DEF RemainingApprovals, Ledger!RolesOf
  <2>2. Reviewed(sub, job) =
          [sub EXCEPT !.approvals = approvals,
                      !.state = IF RequiredRoles \subseteq Ledger!RolesOf(approvals)
                                THEN Approved ELSE Pending]
    BY <1>1, <2>1 DEF Reviewed, WithApproval, StateAfterApproval
  <2>3. [ledgerView EXCEPT
           ![job.item].approvals = approvals,
           ![job.item].state = IF RequiredRoles \subseteq Ledger!RolesOf(approvals)
                               THEN "approved-for-ingestion"
                               ELSE "pending-human-approval"]
        = [ledgerView EXCEPT ![job.item] = Reviewed(sub, job)]
    <3> DEFINE state == IF RequiredRoles \subseteq Ledger!RolesOf(approvals)
                        THEN "approved-for-ingestion" ELSE "pending-human-approval"
    <3> HIDE DEF approvals, state
    <3>1. Reviewed(sub, job) = [sub EXCEPT !.approvals = approvals, !.state = state]
      BY <2>2 DEF state
    <3>2. [ledgerView EXCEPT ![job.item].approvals = approvals, ![job.item].state = state]
          = [ledgerView EXCEPT ![job.item] =
               [sub EXCEPT !.approvals = approvals, !.state = state]]
      BY <1>0, TwoFieldsUpdated
    <3> QED BY <3>1, <3>2 DEF state
  <2>4. job.role \in RequiredRoles
    BY <1>1 DEF ReviewAllowed
  <2>5. Ledger!Approve(job.item, job.role, job.reviewer)
    BY <1>0, <2>3, <2>4 DEF Ledger!Approve
  <2> QED BY <1>0, <2>5 DEF Ledger!LedgerNext
<1>2. CASE job.decision # "approve"
  <2>1. [ledgerView EXCEPT ![job.item].state = "rejected-by-reviewer"]
        = [ledgerView EXCEPT ![job.item] = Reviewed(sub, job)]
    BY <1>0, <1>2 DEF Reviewed
  <2>2. Ledger!Reject(job.item)
    BY <1>0, <2>1 DEF Ledger!Reject
  <2> QED BY <1>0, <2>2 DEF Ledger!LedgerNext
<1> QED BY <1>1, <1>2

(* Every serial step is a ledger step or leaves the ledger as it is: a       *)
(* submission or a review takes effect when the file is opened, and is lost  *)
(* if the write fails or the server stops before the bytes land.             *)
LEMMA LedgerStep ==
    SerialInv /\ [SerialNext]_vars => [Ledger!LedgerNext]_Ledger!ledgerVars
<1> SUFFICES ASSUME SerialInv, [SerialNext]_vars
             PROVE  [Ledger!LedgerNext]_Ledger!ledgerVars
  OBVIOUS
<1>t. TypeOK /\ TypeOK' /\ SerialInv'
  BY TypeStep, SerialStepsAreSteps, SerialInvStep DEF SerialInv
<1>v. /\ ledgerView = [i \in Items |-> ledgerView[i]]
      /\ ledgerView' = [i \in Items |-> ledgerView'[i]]
  BY DEF ledgerView
<1>z. ASSUME \A i \in Items : ledgerView'[i] = ledgerView[i], nowView' = nowView
      PROVE  [Ledger!LedgerNext]_Ledger!ledgerVars
  <2>1. ledgerView' = ledgerView
    BY <1>v, <1>z
  <2> QED BY <1>z, <2>1 DEF Ledger!ledgerVars
<1>1. (ViewOfOne /\ ViewOfNone)'
  BY ViewOfOne, ViewOfNone, PTL
(* Before and after a step of the one request, the view in terms of its slot. *)
<1>o. ASSUME NEW s \in Slots, req[s] # Idle
      PROVE  /\ \A t \in Slots : t # s => req[t] = Idle
             /\ \A i \in Items :
                   ledgerView[i] = IF req[s].pc = "writing" /\ req[s].job.item = i
                                   THEN req[s].out ELSE Settled(file[i])
             /\ nowView = IF req[s].pc = "opening" /\ req[s].job.op = "submit"
                          THEN clock - 1 ELSE clock
  BY <1>o, ViewOfOne DEF SerialInv, OneAtATime
<1>p. ASSUME NEW s \in Slots, \A t \in Slots : t # s => req'[t] = Idle
      PROVE  /\ \A i \in Items :
                   ledgerView'[i] = IF req'[s].pc = "writing" /\ req'[s].job.item = i
                                    THEN req'[s].out ELSE Settled(file'[i])
             /\ nowView' = IF req'[s].pc = "opening" /\ req'[s].job.op = "submit"
                           THEN clock' - 1 ELSE clock'
  BY <1>p, <1>1
<1>n. ASSUME \A s \in Slots : req'[s] = Idle
      PROVE  (\A i \in Items : ledgerView'[i] = Settled(file'[i])) /\ nowView' = clock'
  BY <1>n, <1>1
<1>2. ASSUME Busy = {}
      PROVE  /\ \A s \in Slots : req[s] = Idle
             /\ (\A i \in Items : ledgerView[i] = Settled(file[i])) /\ nowView = clock
  BY <1>2, ViewOfNone DEF Busy
<1>3. ASSUME Busy = {}, NEW s \in Slots, NEW d \in Drafts, ReceiveSubmit(s, d)
      PROVE  [Ledger!LedgerNext]_Ledger!ledgerVars
  <2>1. /\ \A t \in Slots : t # s => req'[t] = Idle
        /\ req'[s].pc = "opening" /\ req'[s].job.op = "submit"
        /\ file' = file /\ clock' = clock + 1
    BY <1>2, <1>3, <1>t DEF ReceiveSubmit, TypeOK
  <2> QED BY <2>1, <1>2, <1>3, <1>p, <1>z, <1>t DEF TypeOK
<1>4. ASSUME Busy = {}, NEW s \in Slots, NEW job \in ReviewJob \cup PlanJob, Receive(s, job)
      PROVE  [Ledger!LedgerNext]_Ledger!ledgerVars
  <2>1. /\ \A t \in Slots : t # s => req'[t] = Idle
        /\ req'[s].pc = "reading" /\ file' = file /\ clock' = clock
    BY <1>2, <1>4, <1>t DEF Receive, TypeOK
  <2> QED BY <2>1, <1>2, <1>4, <1>p, <1>z
<1>5. ASSUME NEW s \in Slots, ReadForReview(s) \/ ReadForPlan(s) \/ Answer(s)
      PROVE  [Ledger!LedgerNext]_Ledger!ledgerVars
  <2>1. req[s] # Idle /\ req[s].pc \notin {"writing", "opening"}
    BY <1>5 DEF ReadForReview, ReadForPlan, Answer, Idle
  <2>2. file' = file /\ clock' = clock /\ \A t \in Slots : t # s => req'[t] = Idle
    BY <1>5, <1>t, <1>o, <2>1 DEF ReadForReview, ReadForPlan, Answer, TypeOK
  <2>3. /\ req'[s].pc # "writing"
        /\ ~(req'[s].pc = "opening" /\ req'[s].job.op = "submit")
    BY <1>5, <1>t DEF ReadForReview, ReadForPlan, Answer, TypeOK, Idle
  <2> QED BY <2>1, <2>2, <2>3, <1>o, <1>p, <1>z
<1>6. ASSUME NEW s \in Slots, OpenForWrite(s)
      PROVE  [Ledger!LedgerNext]_Ledger!ledgerVars
  <2> DEFINE job == req[s].job
  <2>1. req[s].pc = "opening" /\ req[s] # Idle /\ clock' = clock
    BY <1>6 DEF OpenForWrite, Idle
  <2>2. /\ req[s] \in Saving /\ req[s].out \in Submission
        /\ job.item \in Items
        /\ req'[s] = [req[s] EXCEPT !.pc = "writing"]
    BY <1>6, <1>t, SlotStages DEF OpenForWrite, TypeOK, Saving, SubmitJob, ReviewJob
  <2>3. req'[s].pc = "writing" /\ req'[s].job = job /\ req'[s].out = req[s].out
    BY <2>2 DEF Saving
  <2>4. /\ \A t \in Slots : t # s => req'[t] = Idle
        /\ \A i \in Items : i # job.item => file'[i] = file[i]
    BY <1>6, <1>t, <1>o, <2>1 DEF OpenForWrite, TypeOK
  <2>5. /\ \A i \in Items :
              ledgerView'[i] = IF i = job.item THEN req[s].out ELSE ledgerView[i]
        /\ nowView' = clock
    BY <2>1, <2>3, <2>4, <1>o, <1>p
  <2>6. ledgerView' = [ledgerView EXCEPT ![job.item] = req[s].out]
    BY <2>5, <1>v
  <2>7. ReadyToOpen(s)
    BY <2>1 DEF SerialInv, NothingReadIsStale
  <2>8. CASE job.op = "submit"
    <3>1. PICK d \in AcceptedDrafts :
            job.item = ItemOf[d] /\ req[s].out = FreshSubmission(d, clock)
      BY <2>7, <2>8 DEF ReadyToOpen
    <3>2. d \in Drafts /\ clock \in 1..MaxSubmissions
      BY <2>7, <2>8, <1>t, AcceptedDraftsType, MaxSubmissionsType
         DEF ReadyToOpen, SerialInv, TypeOK
    <3>3. nowView = clock - 1
      BY <2>1, <2>8, <1>o
    <3>4. Ledger!Submit(d, clock)
      BY <2>5, <2>6, <3>1, <3>2, <3>3 DEF Ledger!Submit, FreshSubmission
    <3> QED BY <3>2, <3>4 DEF Ledger!LedgerNext
  <2>9. CASE job.op = "review"
    <3>1. job \in ReviewJob
      BY <2>2, <2>9 DEF Saving, SubmitJob
    <3>2. /\ ReviewAllowed(file[job.item], job)
          /\ req[s].out = Reviewed(file[job.item], job)
      BY <2>7, <2>9 DEF ReadyToOpen
    <3>3. file[job.item] \in Submission
      BY <2>2, <3>2, <1>t, ReadableIsSubmission DEF ReviewAllowed, TypeOK
    <3>4. ledgerView[job.item] = file[job.item] /\ nowView = clock
      BY <2>1, <2>2, <2>9, <3>3, <1>o, SettledFacts
    <3> HIDE DEF job
    <3>5. Ledger!LedgerNext
      BY <2>5, <2>6, <3>1, <3>2, <3>3, <3>4, ReviewIsLedgerReview
    <3> QED BY <3>5
  <2> QED BY <2>2, <2>8, <2>9 DEF Saving, SubmitJob, ReviewJob
<1>7. ASSUME NEW s \in Slots, LandWrite(s)
      PROVE  [Ledger!LedgerNext]_Ledger!ledgerVars
  <2>1. /\ req[s].pc = "writing" /\ req[s] # Idle /\ clock' = clock
        /\ file[req[s].job.item] = Empty
    BY <1>7 DEF LandWrite, SerialInv, WritesAlone, Idle
  <2>2. req[s].job.item \in Items /\ req[s].out \in Submission
    BY <2>1, <1>t, SlotStages DEF Saving, SubmitJob, ReviewJob
  <2>3. /\ \A t \in Slots : t # s => req'[t] = Idle
        /\ req'[s].pc = "closing"
        /\ file' = [file EXCEPT ![req[s].job.item] = req[s].out]
    BY <1>7, <1>t, <1>o, <2>1 DEF LandWrite, Landed, TypeOK
  <2>4. \A i \in Items : ledgerView'[i] = ledgerView[i]
    BY <2>1, <2>2, <2>3, <1>o, <1>p, <1>t, SettledFacts DEF TypeOK
  <2> QED BY <2>1, <2>3, <2>4, <1>o, <1>p, <1>z
(* What becomes of a request that ends unanswered, with its file or without. *)
<1>8. ASSUME NEW s \in Slots, req[s] # Idle, \A t \in Slots : req'[t] = Idle,
             clock' = clock,
             \/ file' = file
             \/ /\ req[s].pc = "writing"
                /\ file' = [file EXCEPT ![req[s].job.item] = Garbage]
      PROVE  [Ledger!LedgerNext]_Ledger!ledgerVars
  <2>1. CASE req[s].pc = "writing"
    <3>1. req[s].job.item \in Items /\ file[req[s].job.item] = Empty
      BY <2>1, <1>t, SlotStages DEF Saving, SubmitJob, ReviewJob, SerialInv, WritesAlone
    <3>2. /\ nowView' = nowView
          /\ \A i \in Items :
                ledgerView'[i] = IF i = req[s].job.item THEN [state |-> "lost"]
                                 ELSE ledgerView[i]
      BY <1>8, <2>1, <3>1, <1>o, <1>n, <1>t, SettledFacts DEF TypeOK
    <3>3. ledgerView' = [ledgerView EXCEPT ![req[s].job.item] = [state |-> "lost"]]
      BY <3>2, <1>v
    <3>4. Ledger!Lose(req[s].job.item)
      BY <3>2, <3>3 DEF Ledger!Lose, Ledger!Lost
    <3> QED BY <3>1, <3>4 DEF Ledger!LedgerNext
  <2>2. CASE req[s].pc # "writing"
    <3>1. \A i \in Items : ledgerView'[i] = ledgerView[i]
      BY <1>8, <2>2, <1>o, <1>n
    <3>2. CASE req[s].pc = "opening" /\ req[s].job.op = "submit"
      <4>1. clock \in 1..MaxSubmissions /\ nowView = clock - 1 /\ nowView' = clock
        BY <1>8, <3>2, <1>o, <1>n, <1>t, MaxSubmissionsType
           DEF SerialInv, NothingReadIsStale, ReadyToOpen, TypeOK
      <4>2. ledgerView' = ledgerView
        BY <3>1, <1>v
      <4>3. Ledger!Miss(clock)
        BY <4>1, <4>2 DEF Ledger!Miss
      <4> QED BY <4>1, <4>3 DEF Ledger!LedgerNext
    <3>3. CASE ~(req[s].pc = "opening" /\ req[s].job.op = "submit")
      BY <1>8, <3>1, <3>3, <1>o, <1>n, <1>z
    <3> QED BY <3>2, <3>3
  <2> QED BY <2>1, <2>2
<1>9. ASSUME NEW s \in Slots, FailWrite(s)
      PROVE  [Ledger!LedgerNext]_Ledger!ledgerVars
  <2>1. req[s] # Idle
    BY <1>9 DEF FailWrite, Idle
  <2>2. \A t \in Slots : req'[t] = Idle
    BY <1>9, <1>o, <1>t, <2>1 DEF FailWrite, TypeOK
  <2> QED BY <1>8, <1>9, <2>1, <2>2 DEF FailWrite
<1>10. ASSUME NEW mode \in BOOLEAN, Restart(mode)
       PROVE  [Ledger!LedgerNext]_Ledger!ledgerVars
  <2>1. file' = file /\ clock' = clock /\ \A t \in Slots : req'[t] = Idle
    BY <1>10 DEF Restart
  <2>2. CASE Busy = {}
    BY <2>1, <2>2, <1>2, <1>n, <1>z
  <2>3. CASE Busy # {}
    BY <2>1, <2>3, <1>8 DEF Busy
  <2> QED BY <2>2, <2>3
<1>11. ASSUME Busy = {}, NEW i \in Items, Withdraw(i)
       PROVE  [Ledger!LedgerNext]_Ledger!ledgerVars
  <2>1. /\ \A s \in Slots : req'[s] = Idle
        /\ clock' = clock /\ file' = [file EXCEPT ![i] = Absent]
    BY <1>2, <1>11 DEF Withdraw, Idle
  <2>2. /\ nowView' = nowView
        /\ \A j \in Items : ledgerView'[j] = IF j = i THEN Absent ELSE ledgerView[j]
    BY <2>1, <1>2, <1>11, <1>n, <1>t, SettledFacts DEF TypeOK
  <2>3. ledgerView' = [ledgerView EXCEPT ![i] = Absent]
    BY <2>2, <1>v
  <2>4. Ledger!Withdraw(i)
    BY <2>2, <2>3 DEF Ledger!Withdraw, Ledger!NoItem, Absent
  <2> QED BY <2>4 DEF Ledger!LedgerNext
<1>12. CASE UNCHANGED vars
  BY <1>12 DEF vars, ledgerView, nowView, Writers, Ledger!ledgerVars
<1> QED
  BY <1>3, <1>4, <1>5, <1>6, <1>7, <1>9, <1>10, <1>11, <1>12
     DEF SerialNext, HandlerStep

(* Served one at a time, with failing writes and restarts at any point, the  *)
(* queue does what the ledger promises: reviews are atomic, act on the       *)
(* current submission, and never change a decided one.                       *)
THEOREM QueueImplementsLedger == SerialSpec => ImplementsLedger
BY LedgerInitially, LedgerStep, SerialInvCorrect, PTL
   DEF SerialSpec, ImplementsLedger, Ledger!LedgerSpec
-----------------------------------------------------------------------------

LEMMA Minimum ==
  ASSUME NEW T, T \subseteq Nat, T # {}
  PROVE  \E m \in T : \A n \in T : m <= n
<1> DEFINE D == {0..n : n \in T}
           R == StrictSubsetOrdering(Nat)
<1>1. \A n \in T : 0..n \in FiniteSubsetsOf(Nat)
  <2> TAKE n \in T
  <2>1. IsFiniteSet(0..n)
    BY FS_Interval
  <2> QED
    BY <2>1 DEF FiniteSubsetsOf
<1>2. D \subseteq FiniteSubsetsOf(Nat) /\ D # {}
  BY <1>1
<1>3. PICK d \in D : \A e \in D : <<e, d>> \notin R
  BY <1>2, FS_StrictSubsetOrderingWellFounded, WFMin
<1>4. PICK m \in T : d = 0..m
  OBVIOUS
<1>5. \A n \in T : n < m => 0..n \subseteq 0..m /\ 0..n # 0..m
  <2> TAKE n \in T
  <2>1. n < m => m \in 0..m /\ m \notin 0..n
    OBVIOUS
  <2> QED
    BY <2>1
<1>6. \A n \in T : ~(n < m)
  <2> SUFFICES ASSUME NEW n \in T, n < m PROVE FALSE
    OBVIOUS
  <2>1. 0..n \subseteq 0..m /\ 0..n # 0..m /\ 0..n \subseteq Nat /\ 0..m \subseteq Nat
    BY <1>5
  <2> HIDE DEF D
  <2>2. \A A, B \in SUBSET Nat : A \subseteq B /\ A # B => <<A, B>> \in R
    BY DEF StrictSubsetOrdering
  <2>3. <<0..n, 0..m>> \in R
    BY <2>1, <2>2
  <2>4. 0..n \in D
    BY DEF D
  <2> QED
    BY <1>3, <1>4, <2>3, <2>4
<1> QED
  BY <1>6
-----------------------------------------------------------------------------
(* The search.                                                               *)

\* A chunk of the index has the word of its tenant.
LEMMA ChunksNameTheirTenant ==
  ASSUME NEW tenants, NEW files, NEW c \in BuildLocalRagIndex(tenants, files).chunks
  PROVE  c.tenant \in c.tokens
<1>1. PICK t \in tenants : c \in BuildTenantDocuments(files, t).chunks
  BY DEF BuildLocalRagIndex
<1>2. PICK f \in files :
         /\ f.tenant = t
         /\ c \in ChunksOf(t, f.name, f.markdown,
                     IF f.markdown.paragraphs = <<>>
                     THEN <<f.markdown.body>> ELSE f.markdown.paragraphs)
  BY <1>1 DEF BuildTenantDocuments
<1> QED
  BY <1>2 DEF ChunksOf, Tokenize

LEMMA FirstExists ==
  ASSUME NEW chunks, NEW place \in [chunks -> Nat], NEW S \in SUBSET chunks, NEW c \in S
  PROVE  \E r \in FirstOfDocument(S, place) :
            r.document = c.document /\ place[r] <= place[c]
<1> DEFINE Same == {d \in S : d.document = c.document}
           T == {place[d] : d \in Same}
<1>1. T \subseteq Nat /\ T # {}
  OBVIOUS
<1>2. PICK m \in T : \A n \in T : m <= n
  <2> HIDE DEF T
  <2> QED
    BY <1>1, Minimum
<1>3. PICK r \in Same : place[r] = m
  OBVIOUS
<1>4. \A d \in Same : place[r] <= place[d]
  BY <1>2, <1>3
<1> QED
  BY <1>3, <1>4 DEF FirstOfDocument

(* Whatever is asked, every chunk of the tenant matches: the id of the      *)
(* tenant is a word of the query and of every chunk.  So there are no       *)
(* results only for a tenant without documents, and that nothing matched a  *)
(* query is never among the missing evidence of a tenant that has some.     *)
THEOREM EveryQueryIsAnswered ==
  ASSUME NEW tenants, NEW files, NEW tenant, NEW words, IsFiniteSet(words),
         NEW max \in Nat \ {0},
         NEW index, index = BuildLocalRagIndex(tenants, files),
         NEW similarity \in [index.chunks -> Nat], NEW place \in [index.chunks -> Nat],
         NEW own, own = {c \in index.chunks : c.tenant = tenant}, own # {}
  PROVE  /\ Matching(index, tenant, {tenant} \cup words, similarity) = own
         /\ LET results == SearchLocalRagIndex(index, tenant, words, max, similarity, place)
            IN  results # {} /\ "results" \notin MissingEvidence(index, tenant, results)
<1> DEFINE query == {tenant} \cup words
           match == Matching(index, tenant, query, similarity)
           found == FirstOfDocument(match, place)
           results == SearchLocalRagIndex(index, tenant, words, max, similarity, place)
<1>1. \A c \in own : c \in match
  <2> TAKE c \in own
  <2>1. tenant \in query \cap c.tokens
    BY ChunksNameTheirTenant
  <2>2. IsFiniteSet(query \cap c.tokens)
    <3>1. IsFiniteSet({tenant}) /\ IsFiniteSet(query)
      BY FS_Singleton, FS_Union
    <3> QED
      BY <3>1, FS_Subset
  <2>3. Cardinality(query \cap c.tokens) \in Nat /\ Cardinality(query \cap c.tokens) # 0
    BY <2>1, <2>2, FS_CardinalityType, FS_EmptySet
  <2>4. similarity[c] \in Nat
    OBVIOUS
  <2>5. Score(query, c, similarity) > 0
    BY <2>3, <2>4 DEF Score
  <2> QED
    BY <2>5 DEF Matching
<1>2. match = own /\ own \subseteq index.chunks
  BY <1>1 DEF Matching
<1> DEFINE T == {place[c] : c \in own}
<1>3. PICK m \in T : \A n \in T : m <= n
  <2>1. T \subseteq Nat /\ T # {}
    OBVIOUS
  <2> HIDE DEF T
  <2> QED
    BY <2>1, Minimum
<1>4. PICK r \in own : \A c \in own : place[r] <= place[c]
  BY <1>3
<1>5. r \in found
  BY <1>2, <1>4 DEF FirstOfDocument
<1>6. {d \in found : place[d] < place[r]} = {}
  <2>1. \A d \in found : d \in own /\ place[d] \in Nat /\ place[r] \in Nat
    BY <1>2 DEF FirstOfDocument
  <2>2. \A d \in found : ~(place[d] < place[r])
    BY <1>4, <2>1
  <2> HIDE DEF found
  <2> QED
    BY <2>2
<1>7. Cardinality({d \in found : place[d] < place[r]}) < max
  <2>1. Cardinality({}) = 0
    BY FS_EmptySet
  <2> HIDE DEF found
  <2>2. Cardinality({d \in found : place[d] < place[r]}) = 0
    BY <1>6, <2>1
  <2> QED
    BY <2>2
<1>8. r \in results
  BY <1>5, <1>7 DEF SearchLocalRagIndex
<1>9. "results" \notin MissingEvidence(index, tenant, results)
  <2> HIDE DEF results
  <2> QED
    BY <1>8 DEF MissingEvidence
<1> QED
  BY <1>2, <1>8, <1>9

(* Only the answers of its own document stand between a chunk and the        *)
(* answer: a chunk that scores higher than some answer is one itself, or its *)
(* document already answers with a chunk that scores no lower.  So no        *)
(* document that is left out has a better chunk than one that is in, a       *)
(* document answers with its best chunk, and only once.                      *)
THEOREM BetterDocumentsAnswerFirst ==
  ASSUME NEW index, NEW tenant, NEW words, NEW max \in Nat, IsFiniteSet(index.chunks),
         NEW similarity, NEW place,
         Sorted(place, index.chunks, {tenant} \cup words, similarity),
         NEW c \in SearchLocalRagIndex(index, tenant, words, max, similarity, place)
  PROVE  /\ \A d \in Matching(index, tenant, {tenant} \cup words, similarity) :
               Score({tenant} \cup words, d, similarity)
                  > Score({tenant} \cup words, c, similarity) =>
               \E r \in SearchLocalRagIndex(index, tenant, words, max, similarity, place) :
                  /\ r.document = d.document
                  /\ ~(Score({tenant} \cup words, d, similarity)
                         > Score({tenant} \cup words, r, similarity))
         /\ \A d \in SearchLocalRagIndex(index, tenant, words, max, similarity, place) :
               d.document = c.document => d = c
<1> DEFINE query == {tenant} \cup words
           match == Matching(index, tenant, query, similarity)
           found == FirstOfDocument(match, place)
           before(x) == {d \in found : place[d] < place[x]}
<1>1. match \in SUBSET index.chunks /\ found \subseteq match
  BY DEF Matching, FirstOfDocument
<1>2. place \in [index.chunks -> Nat]
  BY DEF Sorted
<1>3. \A d \in SearchLocalRagIndex(index, tenant, words, max, similarity, place) :
         d.document = c.document => d = c
  <2> SUFFICES ASSUME NEW d \in found, d.document = c.document PROVE d = c
    BY DEF SearchLocalRagIndex
  <2>1. c \in found
    BY DEF SearchLocalRagIndex
  <2>2. place[c] <= place[d] /\ place[d] <= place[c]
    BY <2>1 DEF FirstOfDocument
  <2>3. place[c] = place[d]
    <3> HIDE DEF found, match
    <3>1. place[c] \in Nat /\ place[d] \in Nat
      BY <1>1, <1>2, <2>1
    <3> QED
      BY <2>2, <3>1
  <2> QED
    BY <2>1, <2>3, <1>1 DEF Sorted
<1>4. ASSUME NEW d \in match, Score(query, d, similarity) > Score(query, c, similarity)
      PROVE  \E r \in SearchLocalRagIndex(index, tenant, words, max, similarity, place) :
                /\ r.document = d.document
                /\ ~(Score(query, d, similarity) > Score(query, r, similarity))
  <2>1. c \in found /\ Cardinality(before(c)) < max
    BY DEF SearchLocalRagIndex
  <2>2. place[d] < place[c]
    BY <1>1, <1>4, <2>1 DEF Sorted
  <2>3. PICK r \in found : r.document = d.document /\ place[r] <= place[d]
    <3> HIDE DEF match
    <3> QED
      BY <1>1, <1>2, <1>4, FirstExists
  <2>4. place[r] \in Nat /\ place[d] \in Nat /\ place[c] \in Nat
    BY <1>1, <1>2, <2>1, <2>3
  <2>5. before(r) \subseteq before(c)
    <3>1. \A x \in found : place[x] \in Nat
      BY <1>1, <1>2
    <3> QED
      BY <3>1, <2>2, <2>3, <2>4
  <2>6. before(c) \in SUBSET index.chunks
    BY <1>1
  <2>7. IsFiniteSet(before(c)) /\ Cardinality(before(c)) \in Nat
    <3> HIDE DEF before
    <3> QED
      BY <2>6, FS_Subset, FS_CardinalityType
  <2>8. Cardinality(before(r)) \in Nat /\ Cardinality(before(r)) <= Cardinality(before(c))
    <3> HIDE DEF before
    <3> QED
      BY <2>5, <2>7, FS_Subset, FS_CardinalityType
  <2>9. Cardinality(before(r)) < max
    <3> HIDE DEF before
    <3> QED
      BY <2>1, <2>7, <2>8
  <2>10. ~(Score(query, d, similarity) > Score(query, r, similarity))
    <3>1. d \in index.chunks /\ r \in index.chunks
      BY <1>1, <1>4, <2>3
    <3>2. Score(query, d, similarity) > Score(query, r, similarity) => place[d] < place[r]
      BY <3>1 DEF Sorted
    <3>3. ~(place[d] < place[r])
      BY <2>3, <2>4
    <3> QED
      BY <3>2, <3>3
  <2>11. r \in SearchLocalRagIndex(index, tenant, words, max, similarity, place)
    BY <2>3, <2>9 DEF SearchLocalRagIndex
  <2> QED
    BY <2>3, <2>10, <2>11
<1> QED
  BY <1>3, <1>4
-----------------------------------------------------------------------------
(* The validation.                                                           *)

\* No two documents of a tenant have the same id.
UniqueIds(index) ==
    \A d, e \in index.documents : d.tenant = e.tenant /\ d.id = e.id => d = e

LEMMA AcceptedPassesAll ==
  ASSUME NEW index, NEW r, ValidateRagDocumentIntake(index, r).accepted
  PROVE  /\ \A f \in Fields : Filled(r.markdown, f)
         /\ Filled(r.markdown, "sourceType") => r.markdown.meta["sourceType"] \in SourceTypes
         /\ Filled(r.markdown, "trustLevel") => r.markdown.meta["trustLevel"] \in TrustLevels
         /\ r.markdown.paragraphs # <<>>
         /\ \A d \in index.documents :
               ~(d.id = DocumentId(r.name, r.markdown) /\ d.tenant = r.tenant)
<1>1. \A i \in DOMAIN Checks(index, r) : Checks(index, r)[i]
  BY DEF ValidateRagDocumentIntake, FailedIssues
<1> QED
  BY <1>1 DEF Checks

(* What was accepted is what is indexed: once the file is there, the index  *)
(* has gained the document and the chunks that were validated, under the    *)
(* type and the level the author wrote and not the ones that stand in for   *)
(* them, and no other document of the tenant has its id.                    *)
THEOREM AcceptedIsIndexedAsValidated ==
  ASSUME NEW tenants, NEW files, NEW r, r.tenant \in tenants,
         NEW index, index = BuildLocalRagIndex(tenants, files),
         ValidateRagDocumentIntake(index, r).accepted, UniqueIds(index),
         NEW after, after = BuildLocalRagIndex(tenants, files \cup
                        {[tenant |-> r.tenant, name |-> r.name, markdown |-> r.markdown]})
  PROVE  /\ after.documents =
               index.documents \cup ValidateRagDocumentIntake(index, r).documents
         /\ after.chunks = index.chunks \cup ValidateRagDocumentIntake(index, r).chunks
         /\ UniqueIds(after)
         /\ \A d \in ValidateRagDocumentIntake(index, r).documents :
               /\ d.sourceType = r.markdown.meta["sourceType"]
               /\ d.trustLevel = r.markdown.meta["trustLevel"]
<1> DEFINE added == [tenant |-> r.tenant, name |-> r.name, markdown |-> r.markdown]
           new == Described(r.tenant, r.name, r.markdown)
           own(t) == BuildTenantDocuments(files, t)
           then(t) == BuildTenantDocuments(files \cup {added}, t)
           made == ChunksOf(r.tenant, r.name, r.markdown, r.markdown.paragraphs)
<1>1. /\ ValidateRagDocumentIntake(index, r).documents = {new}
      /\ ValidateRagDocumentIntake(index, r).chunks = made
  BY DEF ValidateRagDocumentIntake
<1>2. r.markdown.paragraphs # <<>>
  BY AcceptedPassesAll
<1>3. /\ added.tenant = r.tenant /\ added.name = r.name /\ added.markdown = r.markdown
  OBVIOUS
<1>4. \A t \in tenants \ {r.tenant} : then(t) = own(t)
  <2> HIDE DEF added
  <2> SUFFICES ASSUME NEW t \in tenants \ {r.tenant} PROVE then(t) = own(t)
    OBVIOUS
  <2>1. {f \in files \cup {added} : f.tenant = t} = {f \in files : f.tenant = t}
    BY <1>3
  <2> QED
    BY <2>1 DEF BuildTenantDocuments
<1>5. /\ then(r.tenant).documents = own(r.tenant).documents \cup {new}
      /\ then(r.tenant).chunks = own(r.tenant).chunks \cup made
  <2> HIDE DEF added, new, made
  <2>1. {f \in files \cup {added} : f.tenant = r.tenant}
           = {f \in files : f.tenant = r.tenant} \cup {added}
    BY <1>3
  <2>2. Described(r.tenant, added.name, added.markdown) = new
    BY <1>3 DEF new
  <2>3. ChunksOf(r.tenant, added.name, added.markdown,
                 IF added.markdown.paragraphs = <<>> THEN <<added.markdown.body>>
                 ELSE added.markdown.paragraphs) = made
    BY <1>2, <1>3 DEF made
  <2> QED
    BY <2>1, <2>2, <2>3 DEF BuildTenantDocuments
<1> HIDE DEF added, new, own, then, made
<1>6. /\ index.documents = UNION {own(t).documents : t \in tenants}
      /\ index.chunks = UNION {own(t).chunks : t \in tenants}
      /\ after.documents = UNION {then(t).documents : t \in tenants}
      /\ after.chunks = UNION {then(t).chunks : t \in tenants}
  BY DEF BuildLocalRagIndex, own, then, added
<1>7. after.documents = index.documents \cup {new} /\ after.chunks = index.chunks \cup made
  <2>1. \A t \in tenants :
           /\ then(t).documents = IF t = r.tenant THEN own(t).documents \cup {new}
                                                 ELSE own(t).documents
           /\ then(t).chunks = IF t = r.tenant THEN own(t).chunks \cup made
                                              ELSE own(t).chunks
    BY <1>4, <1>5
  <2>2. /\ \A x : x \in after.documents <=> \E t \in tenants : x \in then(t).documents
        /\ \A x : x \in index.documents <=> \E t \in tenants : x \in own(t).documents
        /\ \A x : x \in after.chunks <=> \E t \in tenants : x \in then(t).chunks
        /\ \A x : x \in index.chunks <=> \E t \in tenants : x \in own(t).chunks
    BY <1>6
  <2>3. \A x : x \in after.documents <=> x \in index.documents \cup {new}
    <3> TAKE x
    <3>1. \A t \in tenants : x \in then(t).documents <=>
             x \in own(t).documents \/ (t = r.tenant /\ x = new)
      BY <2>1
    <3>2. x \in after.documents <=> \E t \in tenants : x \in then(t).documents
      BY <2>2
    <3>3. x \in index.documents <=> \E t \in tenants : x \in own(t).documents
      BY <2>2
    <3> QED
      BY <3>1, <3>2, <3>3
  <2>4. \A x : x \in after.chunks <=> x \in index.chunks \cup made
    <3> TAKE x
    <3>1. \A t \in tenants : x \in then(t).chunks <=>
             x \in own(t).chunks \/ (t = r.tenant /\ x \in made)
      BY <2>1
    <3>2. x \in after.chunks <=> \E t \in tenants : x \in then(t).chunks
      BY <2>2
    <3>3. x \in index.chunks <=> \E t \in tenants : x \in own(t).chunks
      BY <2>2
    <3> QED
      BY <3>1, <3>2, <3>3
  <2> QED
    BY <2>3, <2>4
<1>8. new.id = DocumentId(r.name, r.markdown) /\ new.tenant = r.tenant
  BY DEF new, Described
<1>9. UniqueIds(after)
  <2>1. \A d \in index.documents : ~(d.id = new.id /\ d.tenant = new.tenant)
    BY <1>8, AcceptedPassesAll
  <2> SUFFICES ASSUME NEW d \in after.documents, NEW e \in after.documents,
                      d.tenant = e.tenant, d.id = e.id
               PROVE  d = e
    BY DEF UniqueIds
  <2>2. d \in index.documents \cup {new} /\ e \in index.documents \cup {new}
    BY <1>7
  <2>3. CASE d \in index.documents /\ e \in index.documents
    BY <2>3 DEF UniqueIds
  <2> QED
    BY <2>1, <2>2, <2>3
<1>10. /\ new.sourceType = r.markdown.meta["sourceType"]
       /\ new.trustLevel = r.markdown.meta["trustLevel"]
  BY AcceptedPassesAll DEF new, Described, SourceType, TrustLevel, Filled, Fields
<1> QED
  BY <1>1, <1>7, <1>9, <1>10
=============================================================================
