------------------------- MODULE ReviewedEvidenceProofs -------------------------
(***************************************************************************)
(* Proofs about ReviewedEvidence, for all images, people, numbers of        *)
(* commits and of scripts.                                                  *)
(***************************************************************************)
EXTENDS ReviewedEvidence, TLAPS

ApprovedIn(given, x, h) ==
    IF x \in SecurityReviews
    THEN <<x, h, TRUE>> \in given
    ELSE \E s \in BOOLEAN : <<x, h, s>> \in given

Approved(x, h) == ApprovedIn(approvals, x, h)

\* A draft that may be promoted was approved, also one a promotion has read.
ReadyDraftsWereApproved ==
    /\ \A x \in Items :
          draft[x] # None /\ Ready(x, draft[x]) => Approved(x, draft[x].head)
    /\ \A p \in People :
          job[p].pc = "promote" /\ job[p].draft # None /\ Ready(job[p].item, job[p].draft)
             => Approved(job[p].item, job[p].draft.head)

\* A scan that keeps earlier results scans nothing, and they are of its head.
KeptResultsAreOfTheirHead ==
    scan # Idle /\ scan.preserved =>
        /\ scan.pc = "next" /\ scan.left = {} /\ scan.mode = "plan"
        /\ scan.passed \X {scan.head} \X {scan.dirty} \subseteq scanned

ApprovalInv == FinalsWereApproved /\ ReadyDraftsWereApproved
ResultInv == ResultsAreOfTheirHead /\ KeptResultsAreOfTheirHead
-----------------------------------------------------------------------------
LEMMA KindsAreDisjoint ==
    /\ SecurityReviews \cap RuntimeEvidence = {}
    /\ SecurityReviews \cap RunnerEvidence = {}
    /\ RuntimeEvidence \cap RunnerEvidence = {}
BY DEF SecurityReviews, RuntimeEvidence, RunnerEvidence

LEMMA DraftedType ==
    ASSUME ReviewTypeOK, NEW p \in People, job[p].pc = "draft"
    PROVE  /\ job[p].item \in Items
           /\ Drafted(job[p]) \in Draft
<1>1. job[p] \in Jobs
  BY DEF ReviewTypeOK
<1>2. job[p] \in [pc : {"draft"}, item : Items, inputs : {"none", "review", "findings"},
                  head : Heads, dirty : BOOLEAN, clear : BOOLEAN]
  BY <1>1 DEF Jobs, Idle
<1>3. head \in Heads /\ Dirty \in BOOLEAN
  BY DEF ReviewTypeOK, Dirty
<1>4. RuntimeDrafted(job[p]) \in Draft
  BY <1>2, <1>3 DEF RuntimeDrafted, Draft
<1>5. ReviewDrafted(job[p]) \in Draft
  BY <1>2, <1>3 DEF ReviewDrafted, Draft, ScanClear
<1>6. RunnerDrafted(job[p]) \in Draft
  BY <1>2, <1>3 DEF RunnerDrafted, Draft
<1> QED BY <1>2, <1>4, <1>5, <1>6 DEF Drafted

LEMMA PromotedType ==
    ASSUME ReviewTypeOK, NEW p \in People, job[p].pc = "promote", Promotable(job[p])
    PROVE  /\ job[p].item \in Items
           /\ Promoted(job[p]) \in Heads
<1>1. job[p] \in Jobs
  BY DEF ReviewTypeOK
<1>2. job[p] \in [pc : {"promote"}, item : Items, head : Heads, draft : Draft \cup {None}]
  BY <1>1 DEF Jobs, Idle
<1>3. draft[job[p].item] \in Draft \cup {None}
  BY <1>2 DEF ReviewTypeOK
<1>4. CASE job[p].item \in RuntimeEvidence
  <2>1. RuntimePromotable(job[p])
    BY <1>4, KindsAreDisjoint DEF Promotable
  <2>2. job[p].draft \in Draft
    BY <1>2, <2>1 DEF RuntimePromotable
  <2> QED BY <1>2, <1>4, <2>2 DEF Promoted, Draft
<1>5. CASE job[p].item \notin RuntimeEvidence
  <2>1. draft[job[p].item] \in Draft
    BY <1>2, <1>3, <1>5 DEF Promotable, ReviewPromotable, RunnerPromotable
  <2> QED BY <1>2, <1>5, <2>1 DEF Promoted, Draft
<1> QED BY <1>4, <1>5

LEMMA ScanType ==
    ASSUME ReviewTypeOK, scan # Idle
    PROVE  /\ scan \in Scanning({"next", "syft", "redraft"}, Images \cup {None})
           /\ scan.pc # "next" => scan.image \in Images
BY DEF ReviewTypeOK, Scans, Scanning

LEMMA InitialTypes == ReviewInit => ReviewTypeOK
<1> SUFFICES ASSUME ReviewInit PROVE ReviewTypeOK
  OBVIOUS
<1>1. head \in Heads /\ acts \in 0..MaxActs
  BY BoundsType DEF ReviewInit, Heads
<1>2. Idle \in Jobs /\ Idle \in Scans
  BY DEF Jobs, Scans
<1> QED BY <1>1, <1>2 DEF ReviewInit, ReviewTypeOK

LEMMA TypeStep == ReviewTypeOK /\ [ReviewNext]_reviewVars => ReviewTypeOK'
<1> SUFFICES ASSUME ReviewTypeOK, [ReviewNext]_reviewVars PROVE ReviewTypeOK'
  OBVIOUS
<1>a. Act => acts' \in 0..MaxActs
  BY BoundsType DEF Act, ReviewTypeOK
<1>1. CASE Edit
  BY <1>1, <1>a DEF Edit, ReviewTypeOK, files
<1>2. CASE Commit
  <2>1. head' \in Heads
    BY <1>2, BoundsType DEF Commit, ReviewTypeOK, Heads
  <2> QED BY <1>2, <1>a, <2>1 DEF Commit, ReviewTypeOK, files
<1>3. ASSUME NEW p \in People, NEW item \in Items,
             NEW inputs \in {"none", "review", "findings"}, StartDraft(p, item, inputs)
      PROVE  ReviewTypeOK'
  <2> DEFINE j == [pc |-> "draft", item |-> item, inputs |-> inputs,
                   head |-> head, dirty |-> Dirty, clear |-> JudgedScan(item)]
  <2>1. JudgedScan(item) \in BOOLEAN /\ Dirty \in BOOLEAN
    BY DEF JudgedScan, ScanClear, NoFindings, Dirty, ReviewTypeOK
  <2>2. j \in Jobs
    BY <2>1 DEF Jobs, ReviewTypeOK
  <2>3. job' = [job EXCEPT ![p] = j]
    BY <1>3 DEF StartDraft, BeginDraft
  <2> HIDE DEF j
  <2> QED BY <1>3, <1>a, <2>2, <2>3 DEF StartDraft, BeginDraft, ReviewTypeOK, files
<1>4. ASSUME NEW p \in People, NEW item \in Items, NEW force \in BOOLEAN,
             StartPromotion(p, item, force)
      PROVE  ReviewTypeOK'
  <2> DEFINE j == [pc |-> "promote", item |-> item, head |-> head, draft |-> draft[item]]
  <2>1. j \in Jobs
    BY DEF Jobs, ReviewTypeOK
  <2>2. job' = [job EXCEPT ![p] = j]
    BY <1>4 DEF StartPromotion
  <2> HIDE DEF j
  <2> QED BY <1>4, <1>a, <2>1, <2>2 DEF StartPromotion, ReviewTypeOK, files
<1>5. ASSUME NEW p \in People, FinishDraft(p) PROVE ReviewTypeOK'
  <2> DEFINE j == job[p]
             d == Drafted(j)
  <2>1. j.item \in Items /\ d \in Draft
    BY <1>5, DraftedType DEF FinishDraft
  <2>2. draft' = [draft EXCEPT ![j.item] = d] /\ job' = [job EXCEPT ![p] = Idle]
    BY <1>5 DEF FinishDraft
  <2>3. approvals' \subseteq Items \X Heads \X BOOLEAN
    <3> DEFINE ok == j.item \in RunnerEvidence \/ ScanClear(j.item[2])
    <3>1. ok \in BOOLEAN
      BY DEF ScanClear
    <3>2. d.head \in Heads
      BY <2>1 DEF Draft
    <3>3. approvals' = approvals \/ approvals' = approvals \cup {<<j.item, d.head, ok>>}
      BY <1>5 DEF FinishDraft
    <3> HIDE DEF ok, j, d
    <3> QED BY <2>1, <3>1, <3>2, <3>3 DEF ReviewTypeOK
  <2>4. UNCHANGED <<head, edited, loose, report, sbom, final, runner, scan, scanned, acts>>
    BY <1>5 DEF FinishDraft
  <2> HIDE DEF j, d
  <2> QED BY <2>1, <2>2, <2>3, <2>4 DEF ReviewTypeOK, Jobs
<1>6. ASSUME NEW p \in People, FinishPromotion(p) PROVE ReviewTypeOK'
  <2>1. job' = [job EXCEPT ![p] = Idle] /\ Idle \in Jobs
    BY <1>6 DEF FinishPromotion, Jobs
  <2>2. CASE Promotable(job[p])
    BY <1>6, <2>1, <2>2, PromotedType DEF FinishPromotion, ReviewTypeOK
  <2>3. CASE ~Promotable(job[p])
    BY <1>6, <2>1, <2>3 DEF FinishPromotion, ReviewTypeOK
  <2> QED BY <2>2, <2>3
<1>7. ASSUME NEW mode \in Modes, NEW targets \in SUBSET Images \ {{}}, NEW able \in BOOLEAN,
             StartScan(mode, targets, able)
      PROVE  ReviewTypeOK'
  <2> DEFINE preserved == mode = "plan" /\ Preserves
             passed == IF preserved THEN runner.passed ELSE {}
             left == IF mode # "plan" /\ able THEN targets ELSE {}
             s == [pc |-> "next", mode |-> mode, head |-> head, dirty |-> Dirty,
                   left |-> left, failed |-> ~able, preserved |-> preserved,
                   passed |-> passed, image |-> None, found |-> FALSE]
  <2>1. preserved \in BOOLEAN /\ Dirty \in BOOLEAN
    BY DEF Preserves, Dirty, ReviewTypeOK
  <2>2. passed \in SUBSET Images
    BY DEF Preserves, ReviewTypeOK, Artifact
  <2>3. left \in SUBSET Images
    OBVIOUS
  <2>4. scan' = s
    BY <1>7 DEF StartScan, BeginScan
  <2> HIDE DEF preserved, passed, left
  <2>5. s \in Scanning({"next"}, Images \cup {None})
    BY <2>1, <2>2, <2>3 DEF Scanning, ReviewTypeOK
  <2> HIDE DEF s
  <2> QED BY <1>7, <1>a, <2>4, <2>5 DEF StartScan, BeginScan, ReviewTypeOK, Scans, files
<1>8. ASSUME NEW i \in Images, NEW outcome \in {"clear", "critical", "fails"}, Trivy(i, outcome)
      PROVE  ReviewTypeOK'
  <2>1. scan \in Scanning({"next", "syft", "redraft"}, Images \cup {None})
    BY <1>8, ScanType DEF Trivy, Idle
  <2>2. scan' \in Scanning({"syft", "redraft"}, Images)
    BY <1>8, <2>1 DEF Trivy, Scanning
  <2> QED BY <1>8, <2>2 DEF Trivy, ReviewTypeOK, Scans
<1>9. ASSUME NEW ok \in BOOLEAN, Syft(ok) PROVE ReviewTypeOK'
  <2>1. /\ scan \in Scanning({"next", "syft", "redraft"}, Images \cup {None})
        /\ scan.image \in Images
    BY <1>9, ScanType DEF Syft, Idle
  <2>2. scan' \in Scanning({"next", "redraft"}, Images)
    BY <1>9, <2>1 DEF Syft, Scanning
  <2>3. scan' \in Scans
    BY <2>2 DEF Scans, Scanning
  <2> QED BY <1>9, <2>1, <2>3 DEF Syft, ReviewTypeOK
<1>10. ASSUME NEW ok \in BOOLEAN, Redraft(ok) PROVE ReviewTypeOK'
  <2>1. /\ scan \in Scanning({"next", "syft", "redraft"}, Images \cup {None})
        /\ scan.image \in Images
    BY <1>10, ScanType DEF Redraft, Idle
  <2>2. scan' \in Scanning({"next"}, Images)
    BY <1>10, <2>1 DEF Redraft, Scanning
  <2>3. scan' \in Scans
    BY <2>2 DEF Scans, Scanning
  <2>4. [head |-> head, dirty |-> Dirty, complete |-> FALSE] \in Draft
    BY DEF Draft, ReviewTypeOK, Dirty
  <2>5. draft' \in [Items -> Draft \cup {None}]
    BY <1>10, <2>4 DEF Redraft, ReviewTypeOK
  <2> QED BY <1>10, <2>3, <2>5 DEF Redraft, ReviewTypeOK
<1>11. CASE EndScan
  <2>1. scan \in Scanning({"next", "syft", "redraft"}, Images \cup {None})
    BY <1>11, ScanType DEF EndScan, Idle
  <2>2. runner' \in Artifact
    BY <1>11, <2>1 DEF EndScan, Scanning, Artifact, ScanStatus, Modes
  <2>3. scanned' \subseteq Images \X Heads \X BOOLEAN
    BY <1>11, <2>1 DEF EndScan, Scanning, ReviewTypeOK
  <2>4. scan' \in Scans
    BY <1>11 DEF EndScan, Scans
  <2> QED BY <1>11, <2>2, <2>3, <2>4 DEF EndScan, ReviewTypeOK
<1>12. CASE KillScan
  BY <1>12, <1>a DEF KillScan, ReviewTypeOK, Scans, files
<1>13. CASE UNCHANGED reviewVars
  BY <1>13 DEF reviewVars, ReviewTypeOK, files
<1> QED BY <1>1, <1>2, <1>3, <1>4, <1>5, <1>6, <1>7, <1>8, <1>9, <1>10, <1>11, <1>12, <1>13
        DEF ReviewNext

(* The invariant ReviewTypeOK: Git, the files, the scripts that run and the  *)
(* scan keep their types.                                                    *)
THEOREM ReviewTypeCorrect == ReviewSpec => []ReviewTypeOK
BY InitialTypes, TypeStep, PTL DEF ReviewSpec
-----------------------------------------------------------------------------
\* Nothing that a final file or a ready draft rests on is taken back.
LEMMA ApprovalsStay ==
    ASSUME approvals \subseteq approvals', NEW x, NEW h, Approved(x, h)
    PROVE  ApprovedIn(approvals', x, h)
BY DEF Approved, ApprovedIn

\* The files and the jobs stay, approvals are only added.
LEMMA SameFilesStayApproved ==
    ASSUME ReviewTypeOK, ApprovalInv, approvals \subseteq approvals',
           UNCHANGED <<draft, final, job>>
    PROVE  ApprovalInv'
<1>1. ReadyDraftsWereApproved'
  BY DEF ReviewTypeOK, ApprovalInv, ReadyDraftsWereApproved, Approved, ApprovedIn, Ready, Jobs, Idle
<1>2. FinalsWereApproved'
  BY DEF ReviewTypeOK, ApprovalInv, FinalsWereApproved
<1> QED BY <1>1, <1>2 DEF ApprovalInv

LEMMA JobType ==
    ASSUME ReviewTypeOK, NEW p \in People
    PROVE  /\ job[p].pc = "promote" => job[p].item \in Items /\ job[p].draft \in Draft \cup {None}
           /\ job[p].pc = "draft" => job[p].item \in Items
BY DEF ReviewTypeOK, Jobs, Idle

\* A promotion writes the head of a draft that is ready.
LEMMA PromotedIsReady ==
    ASSUME ReviewTypeOK, ApprovalInv, NEW p \in People,
           job[p].pc = "promote", Promotable(job[p])
    PROVE  Approved(job[p].item, Promoted(job[p]))
<1>1. job[p].item \in Items
  BY JobType
<1>2. CASE job[p].item \in RuntimeEvidence
  BY <1>1, <1>2, KindsAreDisjoint
     DEF Promotable, RuntimePromotable, Promoted, ApprovalInv, ReadyDraftsWereApproved
<1>3. CASE job[p].item \notin RuntimeEvidence
  <2>1. draft[job[p].item] # None /\ Ready(job[p].item, draft[job[p].item])
    BY <1>3 DEF Promotable, ReviewPromotable, RunnerPromotable
  <2> QED BY <1>1, <1>3, <2>1 DEF Promoted, ApprovalInv, ReadyDraftsWereApproved
<1> QED BY <1>2, <1>3

\* A draft that ends ready is approved by writing it.
LEMMA DraftedIsApproved ==
    ASSUME ReviewTypeOK, NEW p \in People, FinishDraft(p),
           Ready(job[p].item, Drafted(job[p]))
    PROVE  ApprovedIn(approvals', job[p].item, Drafted(job[p]).head)
<1> DEFINE j == job[p]
           d == Drafted(job[p])
           s == j.item \in RunnerEvidence \/ ScanClear(j.item[2])
<1>1. j.item \in Items
  BY JobType DEF FinishDraft
<1>2. approvals' = approvals \cup {<<j.item, d.head, s>>}
  BY DEF FinishDraft
<1>3. s \in BOOLEAN
  BY DEF ScanClear
<1>4. ASSUME j.item \in SecurityReviews PROVE s = TRUE
  <2>1. d = ReviewDrafted(j)
    BY <1>4, KindsAreDisjoint DEF Drafted
  <2>2. ReviewDrafted(j).complete
    BY <2>1 DEF Ready
  <2>3. ScanClear(j.item[2])
    BY <2>2 DEF ReviewDrafted
  <2> QED BY <2>3
<1> SUFFICES ApprovedIn(approvals', j.item, d.head)
  OBVIOUS
<1> HIDE DEF j, d, s
<1>5. CASE j.item \in SecurityReviews
  BY <1>2, <1>4, <1>5 DEF ApprovedIn
<1>6. CASE j.item \notin SecurityReviews
  BY <1>2, <1>3, <1>6 DEF ApprovedIn
<1> QED BY <1>5, <1>6

LEMMA ApprovalStep ==
    ASSUME ReviewTypeOK, ApprovalInv, [ReviewNext]_reviewVars
    PROVE  ApprovalInv'
<1>1. CASE Edit
  BY <1>1, SameFilesStayApproved DEF Edit, files
<1>2. CASE Commit
  BY <1>2, SameFilesStayApproved DEF Commit, files
<1>3. ASSUME NEW p \in People, NEW item \in Items,
             NEW inputs \in {"none", "review", "findings"}, StartDraft(p, item, inputs)
      PROVE  ApprovalInv'
  <2>1. /\ UNCHANGED <<draft, final, approvals>>
        /\ \A q \in People : job'[q] = job[q] \/ job'[q].pc = "draft"
    BY <1>3 DEF StartDraft, BeginDraft, files, ReviewTypeOK
  <2> QED BY <2>1 DEF ApprovalInv, FinalsWereApproved, ReadyDraftsWereApproved, Approved, Ready
<1>4. ASSUME NEW p \in People, NEW item \in Items, NEW force \in BOOLEAN,
             StartPromotion(p, item, force)
      PROVE  ApprovalInv'
  <2> DEFINE j == [pc |-> "promote", item |-> item, head |-> head, draft |-> draft[item]]
  <2>1. /\ UNCHANGED <<draft, final, approvals>>
        /\ \A q \in People : job'[q] = job[q] \/ job'[q] = j
    BY <1>4 DEF StartPromotion, files, ReviewTypeOK
  <2>2. FinalsWereApproved'
    BY <2>1 DEF ApprovalInv, FinalsWereApproved
  <2>3. \A x \in Items :
          (draft[x] # None /\ Ready(x, draft[x]) => Approved(x, draft[x].head))'
    BY <2>1 DEF ApprovalInv, ReadyDraftsWereApproved, Approved, Ready
  <2>4. ASSUME NEW q \in People
        PROVE  (job[q].pc = "promote" /\ job[q].draft # None /\ Ready(job[q].item, job[q].draft)
                  => Approved(job[q].item, job[q].draft.head))'
    <3>1. CASE job'[q] = job[q]
      BY <2>1, <3>1 DEF ApprovalInv, ReadyDraftsWereApproved, Approved, Ready
    <3>2. CASE job'[q] = j
      <4>1. draft[item] # None /\ Ready(item, draft[item]) => Approved(item, draft[item].head)
        BY DEF ApprovalInv, ReadyDraftsWereApproved
      <4>2. job'[q].item = item /\ job'[q].draft = draft[item]
        BY <3>2
      <4> QED BY <2>1, <4>1, <4>2 DEF Approved, Ready
    <3> QED BY <2>1, <3>1, <3>2
  <2> QED BY <2>2, <2>3, <2>4 DEF ApprovalInv, ReadyDraftsWereApproved
<1>5. ASSUME NEW p \in People, FinishDraft(p) PROVE ApprovalInv'
  <2>1. job[p].item \in Items
    BY <1>5, JobType DEF FinishDraft
  <2>2. /\ approvals \subseteq approvals' /\ final' = final
        /\ draft' = [draft EXCEPT ![job[p].item] = Drafted(job[p])]
        /\ job' = [job EXCEPT ![p] = Idle]
    BY <1>5 DEF FinishDraft
  <2>3. FinalsWereApproved'
    BY <2>2 DEF ApprovalInv, FinalsWereApproved
  <2>4. ASSUME NEW x \in Items, draft'[x] # None, Ready(x, draft'[x])
        PROVE  ApprovedIn(approvals', x, draft'[x].head)
    <3>1. CASE x = job[p].item
      BY <1>5, <2>1, <2>2, <2>4, <3>1, DraftedIsApproved DEF ReviewTypeOK
    <3>2. CASE x # job[p].item
      <4>1. draft'[x] = draft[x]
        BY <2>2, <3>2 DEF ReviewTypeOK
      <4>2. Approved(x, draft[x].head)
        BY <2>4, <4>1 DEF ApprovalInv, ReadyDraftsWereApproved
      <4> QED BY <2>2, <4>1, <4>2, ApprovalsStay
    <3> QED BY <3>1, <3>2
  <2>5. ASSUME NEW q \in People, job'[q].pc = "promote", job'[q].draft # None,
               Ready(job'[q].item, job'[q].draft)
        PROVE  ApprovedIn(approvals', job'[q].item, job'[q].draft.head)
    <3>1. job'[q] = job[q]
      BY <2>2, <2>5 DEF ReviewTypeOK, Idle
    <3>2. Approved(job[q].item, job[q].draft.head)
      BY <2>5, <3>1 DEF ApprovalInv, ReadyDraftsWereApproved
    <3> QED BY <2>2, <3>1, <3>2, ApprovalsStay
  <2>6. ReadyDraftsWereApproved'
    BY <2>4, <2>5 DEF ReadyDraftsWereApproved, Approved, Ready
  <2> QED BY <2>3, <2>6 DEF ApprovalInv
<1>6. ASSUME NEW p \in People, FinishPromotion(p) PROVE ApprovalInv'
  <2>1. /\ UNCHANGED <<draft, approvals>>
        /\ job' = [job EXCEPT ![p] = Idle]
    BY <1>6 DEF FinishPromotion
  <2>2. ReadyDraftsWereApproved'
    <3>1. \A q \in People : job'[q] = job[q] \/ job'[q].pc = "idle"
      BY <2>1 DEF ReviewTypeOK, Idle
    <3> QED BY <2>1, <3>1 DEF ApprovalInv, ReadyDraftsWereApproved, Approved, Ready
  <2>3. FinalsWereApproved'
    <3>1. CASE ~Promotable(job[p])
      BY <1>6, <2>1, <3>1 DEF FinishPromotion, ApprovalInv, FinalsWereApproved
    <3>2. CASE Promotable(job[p])
      <4>1. final' = [final EXCEPT ![job[p].item] = Promoted(job[p])]
        BY <1>6, <3>2 DEF FinishPromotion
      <4>2. Approved(job[p].item, Promoted(job[p]))
        BY <1>6, <3>2, PromotedIsReady DEF FinishPromotion
      <4>3. ASSUME NEW x \in Items, final'[x] # None PROVE Approved(x, final'[x])
        <5>1. CASE x = job[p].item
          BY <4>1, <4>2, <5>1 DEF ReviewTypeOK
        <5>2. CASE x # job[p].item
          BY <4>1, <4>3, <5>2
             DEF ReviewTypeOK, ApprovalInv, FinalsWereApproved, Approved, ApprovedIn
        <5> QED BY <5>1, <5>2
      <4> QED BY <2>1, <4>3 DEF FinalsWereApproved, Approved, ApprovedIn
    <3> QED BY <3>1, <3>2
  <2> QED BY <2>2, <2>3 DEF ApprovalInv
<1>7. ASSUME NEW mode \in Modes, NEW targets \in SUBSET Images \ {{}}, NEW able \in BOOLEAN,
             StartScan(mode, targets, able)
      PROVE  ApprovalInv'
  <2>1. UNCHANGED <<draft, final, job, approvals>>
    BY <1>7 DEF StartScan, BeginScan, files
  <2> QED BY <2>1, SameFilesStayApproved
<1>8. ASSUME NEW i \in Images, NEW outcome \in {"clear", "critical", "fails"}, Trivy(i, outcome)
      PROVE  ApprovalInv'
  BY <1>8, SameFilesStayApproved DEF Trivy
<1>9. ASSUME NEW ok \in BOOLEAN, Syft(ok) PROVE ApprovalInv'
  BY <1>9, SameFilesStayApproved DEF Syft
<1>10. ASSUME NEW ok \in BOOLEAN, Redraft(ok) PROVE ApprovalInv'
  <2>1. /\ UNCHANGED <<final, job, approvals>>
        /\ \A x \in Items : draft'[x] = draft[x] \/ ~draft'[x].complete
    BY <1>10 DEF Redraft, ReviewTypeOK
  <2> QED BY <2>1 DEF ApprovalInv, FinalsWereApproved, ReadyDraftsWereApproved, Approved, Ready
<1>11. CASE EndScan
  BY <1>11, SameFilesStayApproved DEF EndScan
<1>12. CASE KillScan
  BY <1>12, SameFilesStayApproved DEF KillScan, files
<1>13. CASE UNCHANGED reviewVars
  BY <1>13, SameFilesStayApproved DEF reviewVars, files
<1> QED BY <1>1, <1>2, <1>3, <1>4, <1>5, <1>6, <1>7, <1>8, <1>9, <1>10, <1>11, <1>12, <1>13
        DEF ReviewNext

(* The invariant FinalsWereApproved: what a final file says was approved, in *)
(* a draft of its head, and a security review with a scan that was clear.    *)
THEOREM FinalsAreApproved == ReviewSpec => []FinalsWereApproved
<1>1. ReviewInit => ApprovalInv
  BY DEF ReviewInit, ApprovalInv, FinalsWereApproved, ReadyDraftsWereApproved, Idle
<1>2. ApprovalInv => FinalsWereApproved
  BY DEF ApprovalInv
<1> QED BY <1>1, <1>2, ReviewTypeCorrect, ApprovalStep, PTL DEF ReviewSpec
-----------------------------------------------------------------------------
LEMMA ResultStep ==
    ASSUME ReviewTypeOK, ResultInv, [ReviewNext]_reviewVars
    PROVE  ResultInv'
<1> USE DEF ResultInv, ResultsAreOfTheirHead, KeptResultsAreOfTheirHead
<1>1. CASE UNCHANGED <<runner, scan, scanned>>
  BY <1>1
<1>2. ASSUME NEW mode \in Modes, NEW targets \in SUBSET Images \ {{}}, NEW able \in BOOLEAN,
             StartScan(mode, targets, able)
      PROVE  ResultInv'
  <2>1. UNCHANGED <<runner, scanned>>
    BY <1>2 DEF StartScan, BeginScan, files
  <2>2. ASSUME scan'.preserved
        PROVE  /\ scan'.pc = "next" /\ scan'.left = {} /\ scan'.mode = "plan"
               /\ scan'.passed \X {scan'.head} \X {scan'.dirty} \subseteq scanned
    <3>1. Preserves /\ mode = "plan"
      BY <1>2, <2>2 DEF StartScan, BeginScan
    <3>2. /\ scan'.pc = "next" /\ scan'.left = {} /\ scan'.mode = "plan"
          /\ scan'.passed = runner.passed /\ scan'.head = head /\ scan'.dirty = Dirty
      BY <1>2, <3>1 DEF StartScan, BeginScan
    <3>3. /\ runner # None /\ runner.docker /\ runner.head = head /\ runner.dirty = Dirty
      <4>1. runner.dirty \in BOOLEAN /\ Dirty \in BOOLEAN
        BY <3>1 DEF Preserves, ReviewTypeOK, Artifact, Dirty
      <4> QED BY <3>1, <4>1 DEF Preserves
    <3> QED BY <3>2, <3>3
  <2> QED BY <2>1, <2>2
<1>3. ASSUME NEW i \in Images, NEW outcome \in {"clear", "critical", "fails"}, Trivy(i, outcome)
      PROVE  ResultInv'
  <2>1. scan \in Scanning({"next", "syft", "redraft"}, Images \cup {None})
    BY <1>3, ScanType DEF Trivy, Idle
  <2>2. ~scan.preserved
    BY <1>3 DEF Trivy, Idle
  <2>3. scan'.preserved = scan.preserved
    BY <1>3, <2>1 DEF Trivy, Scanning
  <2> QED BY <1>3, <2>2, <2>3 DEF Trivy
<1>4. ASSUME NEW ok \in BOOLEAN, Syft(ok) PROVE ResultInv'
  <2>1. scan \in Scanning({"next", "syft", "redraft"}, Images \cup {None})
    BY <1>4, ScanType DEF Syft, Idle
  <2>2. ~scan.preserved
    BY <1>4 DEF Syft, Idle
  <2>3. scan'.preserved = scan.preserved
    BY <1>4, <2>1 DEF Syft, Scanning
  <2> QED BY <1>4, <2>2, <2>3 DEF Syft
<1>5. ASSUME NEW ok \in BOOLEAN, Redraft(ok) PROVE ResultInv'
  <2>1. scan \in Scanning({"next", "syft", "redraft"}, Images \cup {None})
    BY <1>5, ScanType DEF Redraft, Idle
  <2>2. ~scan.preserved
    BY <1>5 DEF Redraft, Idle
  <2>3. scan'.preserved = scan.preserved
    BY <1>5, <2>1 DEF Redraft, Scanning
  <2> QED BY <1>5, <2>2, <2>3 DEF Redraft
<1>6. CASE EndScan
  <2>1. /\ scan # Idle /\ scan' = Idle
        /\ runner'.docker = (scan.mode = "docker" \/ scan.preserved)
        /\ runner'.passed = scan.passed /\ runner'.head = scan.head /\ runner'.dirty = scan.dirty
        /\ scanned' = IF scan.mode = "docker"
                      THEN scanned \cup (scan.passed \X {scan.head} \X {scan.dirty})
                      ELSE scanned
    BY <1>6 DEF EndScan, Idle
  <2>2. ResultsAreOfTheirHead'
    BY <2>1
  <2> QED BY <2>1, <2>2
<1>7. CASE KillScan
  BY <1>7 DEF KillScan, files
<1> QED BY <1>1, <1>2, <1>3, <1>4, <1>5, <1>6, <1>7
        DEF ReviewNext, Edit, Commit, StartDraft, BeginDraft, StartPromotion, FinishDraft,
            FinishPromotion, files, reviewVars

(* The invariant ResultsAreOfTheirHead: also results that a later plan took  *)
(* over come from a scan at the head and worktree they are recorded with.    *)
THEOREM ResultsAreGenuine == ReviewSpec => []ResultsAreOfTheirHead
<1>1. ReviewInit => ResultInv
  BY DEF ReviewInit, ResultInv, ResultsAreOfTheirHead, KeptResultsAreOfTheirHead
<1>2. ResultInv => ResultsAreOfTheirHead
  BY DEF ResultInv
<1> QED BY <1>1, <1>2, ReviewTypeCorrect, ResultStep, PTL DEF ReviewSpec
=============================================================================
