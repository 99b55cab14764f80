---------------------------- MODULE ReviewedEvidence ----------------------------
(***************************************************************************)
(* The evidence a person has to approve before a release: the security      *)
(* review of every image, the evidence of the external runtime images and   *)
(* the certified CI runner.  A reviewer writes a draft with a decision in   *)
(* it, the refresh chain rewrites the drafts without one, and a promotion   *)
(* copies a ready draft to the final file.  The scan runner writes the      *)
(* reports that drafts are judged by.  All of them are processes that read  *)
(* Git and their files at different moments, while developers edit and      *)
(* commit.                                                                  *)
(*                                                                          *)
(* Drafts, reports and generated artifacts are ignored by Git; a final file *)
(* is not, so that writing one makes the worktree dirty until it is         *)
(* committed (.gitignore).                                                  *)
(***************************************************************************)
EXTENDS Naturals, FiniteSets

CONSTANTS
    Owned,      \* images built here
    External,   \* runtime images of others
    People,     \* who runs draft and promotion scripts
    Refresh,    \* one of them is the refresh chain: it decides and promotes nothing
    None,       \* no file
    MaxHead,    \* bound on commits
    MaxActs     \* bound on edits, commits, scripts started and scans stopped

Images == Owned \cup External
Heads  == 0..MaxHead

\* What is drafted and promoted, each by a pair of scripts of its kind.
SecurityReviews == {"security"} \X Images
RuntimeEvidence == {"external"} \X External
RunnerEvidence  == {<<"runner", "approved-ci-runner">>}
Items == SecurityReviews \cup RuntimeEvidence \cup RunnerEvidence

ASSUME RefreshType == Refresh \in People
ASSUME NoneIsNoHead == None \notin Heads
ASSUME BoundsType == MaxHead \in Nat /\ MaxActs \in Nat

VARIABLES
    head,       \* the commit checked out
    edited,     \* a source file of the worktree differs from it
    loose,      \* items whose final file is not committed as it is
    report,     \* the vulnerability report of every image
    sbom,       \* images with an SBOM that parses
    draft,      \* *.draft.json of every item
    final,      \* the approved evidence of every item: the head its draft named
    runner,     \* opslens-security-scan-evidence-runner.json
    job,        \* what everyone's draft or promotion script has read so far
    scan,       \* the scan runner in progress
    approvals,  \* history: <<item, head, scanned>> of the reviewers' ready drafts
    scanned,    \* history: <<image, head, dirty>> scanned in full by the scan runner
    acts

files == <<report, sbom, draft, final, runner>>
reviewVars == <<head, edited, loose, report, sbom, draft, final, runner, job, scan,
                approvals, scanned, acts>>

Dirty == edited \/ loose # {}

Idle == [pc |-> "idle"]

Act == acts < MaxActs /\ acts' = acts + 1
-----------------------------------------------------------------------------
(* Developers. *)

Edit ==
    /\ Act
    /\ edited' = ~edited
    /\ UNCHANGED <<head, loose, files, job, scan, approvals, scanned>>

Commit ==
    /\ Act
    /\ Dirty
    /\ head < MaxHead
    /\ head' = head + 1
    /\ edited' = FALSE
    /\ loose' = {}
    /\ UNCHANGED <<files, job, scan, approvals, scanned>>
-----------------------------------------------------------------------------
(* Drafts.  The inputs of a reviewer are "none", as the chain gives none;    *)
(* "review", everything but the findings, with an explicit decision; or      *)
(* "findings" too, which only the script of external evidence accepts.       *)

\* validity of the report and the SBOM, and criticalFindings === 0
ScanClear(i) == report[i] = "clear" /\ i \in sbom

\* Without a report the findings are those of the example file: zero.
NoFindings(i) == report[i] # "critical"

JudgedScan(item) ==
    CASE item \in SecurityReviews -> ScanClear(item[2])
      [] item \in RuntimeEvidence -> NoFindings(item[2])
      [] OTHER -> TRUE

\* Git and the reports are read one after the other: external evidence reads
\* Git last, the others first.
BeginDraft(p, item, inputs) ==
    /\ job[p] = Idle
    /\ p = Refresh => inputs = "none"
    /\ job' = [job EXCEPT ![p] =
                 [pc |-> "draft", item |-> item, inputs |-> inputs,
                  head |-> head, dirty |-> Dirty, clear |-> JudgedScan(item)]]
    /\ UNCHANGED <<head, edited, loose, files, scan, approvals, scanned>>

StartDraft(p, item, inputs) == Act /\ BeginDraft(p, item, inputs)

\* What the scripts write, from what they read first and what they read now.
RuntimeDrafted(j) ==
    [head |-> head, dirty |-> Dirty,
     complete |-> j.inputs = "findings" \/ (j.inputs = "review" /\ j.clear)]

ReviewDrafted(j) ==
    [head |-> j.head, dirty |-> j.dirty,
     complete |-> j.inputs # "none" /\ ScanClear(j.item[2])]

RunnerDrafted(j) ==
    [head |-> j.head, dirty |-> j.dirty, complete |-> j.inputs # "none"]

Drafted(j) ==
    CASE j.item \in RuntimeEvidence -> RuntimeDrafted(j)
      [] j.item \in SecurityReviews -> ReviewDrafted(j)
      [] OTHER -> RunnerDrafted(j)

\* evidenceState = "DRAFT_REVIEW_READY"
Ready(item, d) == d.complete /\ (item \in RuntimeEvidence \/ ~d.dirty)

FinishDraft(p) ==
    /\ job[p].pc = "draft"
    /\ LET j == job[p]
           d == Drafted(j)
       IN  /\ draft' = [draft EXCEPT ![j.item] = d]
           /\ approvals' =
                IF Ready(j.item, d)
                THEN approvals \cup
                       {<<j.item, d.head, j.item \in RunnerEvidence \/ ScanClear(j.item[2])>>}
                ELSE approvals
    /\ job' = [job EXCEPT ![p] = Idle]
    /\ UNCHANGED <<head, edited, loose, report, sbom, final, runner, scan, scanned, acts>>
-----------------------------------------------------------------------------
(* Promotions.  The promotion of external evidence reads the draft first and *)
(* asks neither for its head nor for a clean worktree; the others read Git   *)
(* first and the draft after it.                                             *)

StartPromotion(p, item, force) ==
    /\ Act
    /\ job[p] = Idle
    /\ p # Refresh
    /\ final[item] = None \/ force
    /\ job' = [job EXCEPT ![p] =
                 [pc |-> "promote", item |-> item, head |-> head, draft |-> draft[item]]]
    /\ UNCHANGED <<head, edited, loose, files, scan, approvals, scanned>>

RuntimePromotable(j) == j.draft # None /\ Ready(j.item, j.draft)

\* Fault: whether the draft is ready is not looked at.
ReviewPromotableUnready(j) ==
    draft[j.item] # None /\ draft[j.item].head = j.head

ReviewPromotable(j) ==
    /\ draft[j.item] # None
    /\ Ready(j.item, draft[j.item])
    /\ draft[j.item].head = j.head

RunnerPromotable(j) ==
    /\ draft[j.item] # None
    /\ Ready(j.item, draft[j.item])
    /\ draft[j.item].head = j.head

Promotable(j) ==
    CASE j.item \in RuntimeEvidence -> RuntimePromotable(j)
      [] j.item \in SecurityReviews -> ReviewPromotable(j)
      [] OTHER -> RunnerPromotable(j)

Promoted(j) == IF j.item \in RuntimeEvidence THEN j.draft.head ELSE draft[j.item].head

FinishPromotion(p) ==
    /\ job[p].pc = "promote"
    /\ IF Promotable(job[p])
       THEN /\ final' = [final EXCEPT ![job[p].item] = Promoted(job[p])]
            /\ loose' = loose \cup {job[p].item}
       ELSE UNCHANGED <<final, loose>>
    /\ job' = [job EXCEPT ![p] = Idle]
    /\ UNCHANGED <<head, edited, report, sbom, draft, runner, scan, approvals, scanned, acts>>
-----------------------------------------------------------------------------
(* The scan runner: it plans, or scans with local tools, or with scanner     *)
(* containers.  A plan keeps the results of an earlier scan of the same      *)
(* clean head.                                                               *)

Modes == {"plan", "execute", "docker"}

\* Fault: the head of the results is not compared.
PreservesAnyHead ==
    /\ runner # None
    /\ runner.status = "EVIDENCE_WRITTEN" /\ runner.docker
    /\ ~runner.dirty /\ ~Dirty
    /\ Owned \subseteq runner.passed

\* canPreserveExecutionEvidence
Preserves ==
    /\ runner # None
    /\ runner.status = "EVIDENCE_WRITTEN" /\ runner.docker
    /\ runner.head = head /\ ~runner.dirty /\ ~Dirty
    /\ Owned \subseteq runner.passed

BeginScan(mode, targets, able) ==
    /\ scan = Idle
    /\ LET preserved == mode = "plan" /\ Preserves
       IN  scan' = [pc |-> "next", mode |-> mode, head |-> head, dirty |-> Dirty,
                    left |-> IF mode # "plan" /\ able THEN targets ELSE {},
                    failed |-> ~able,
                    preserved |-> preserved,
                    passed |-> IF preserved THEN runner.passed ELSE {},
                    image |-> None, found |-> FALSE]
    /\ UNCHANGED <<head, edited, loose, files, job, approvals, scanned>>

\* able: its inputs parse and the scanners are installed, or resolve to digests
StartScan(mode, targets, able) == Act /\ BeginScan(mode, targets, able)

\* trivy writes its report over the last one, or fails and leaves that one.
Trivy(i, outcome) ==
    /\ scan.pc = "next"
    /\ i \in scan.left
    /\ report' = IF outcome = "fails" THEN report ELSE [report EXCEPT ![i] = outcome]
    /\ scan' = [scan EXCEPT !.pc = "syft", !.image = i, !.found = outcome # "fails",
                            !.left = @ \ {i}]
    /\ UNCHANGED <<head, edited, loose, sbom, draft, final, runner, job, approvals,
                   scanned, acts>>

Syft(ok) ==
    /\ scan.pc = "syft"
    /\ sbom' = IF ok THEN sbom \cup {scan.image} ELSE sbom
    /\ scan' = [scan EXCEPT
                  !.pc = IF ok /\ scan.found /\ scan.mode = "docker" THEN "redraft" ELSE "next",
                  !.failed = @ \/ ~ok \/ ~scan.found]
    /\ UNCHANGED <<head, edited, loose, report, draft, final, runner, job, approvals,
                   scanned, acts>>

\* After a container scan of both kinds the review draft is written anew, by a
\* process of its own and without a decision.
Redraft(ok) ==
    /\ scan.pc = "redraft"
    /\ draft' = IF ok
                THEN [draft EXCEPT ![<<"security", scan.image>>] =
                        [head |-> head, dirty |-> Dirty, complete |-> FALSE]]
                ELSE draft
    /\ scan' = [scan EXCEPT !.pc = "next", !.failed = @ \/ ~ok,
                            !.passed = IF ok THEN @ \cup {scan.image} ELSE @]
    /\ UNCHANGED <<head, edited, loose, report, sbom, final, runner, job, approvals,
                   scanned, acts>>

\* Fault: a plan that keeps results has no status.
ScanStatusUnset ==
    IF scan.failed THEN "BLOCKED"
    ELSE IF scan.mode # "plan" THEN "EVIDENCE_WRITTEN"
    ELSE IF scan.preserved THEN None ELSE "PLAN_READY"

ScanStatus ==
    IF scan.failed THEN "BLOCKED"
    ELSE IF scan.mode # "plan" \/ scan.preserved THEN "EVIDENCE_WRITTEN" ELSE "PLAN_READY"

EndScan ==
    /\ scan.pc = "next"
    /\ scan.left = {}
    /\ runner' = [head |-> scan.head, dirty |-> scan.dirty, status |-> ScanStatus,
                  docker |-> scan.mode = "docker" \/ scan.preserved, passed |-> scan.passed]
    /\ scanned' = IF scan.mode = "docker"
                  THEN scanned \cup (scan.passed \X {scan.head} \X {scan.dirty})
                  ELSE scanned
    /\ scan' = Idle
    /\ UNCHANGED <<head, edited, loose, report, sbom, draft, final, job, approvals, acts>>
-----------------------------------------------------------------------------
(* A draft or a promotion that is stopped before it writes leaves nothing; a *)
(* scan leaves the reports it wrote.                                         *)

KillScan ==
    /\ Act
    /\ scan # Idle
    /\ scan' = Idle
    /\ UNCHANGED <<head, edited, loose, files, job, approvals, scanned>>
-----------------------------------------------------------------------------
\* Nothing was approved yet.
ReviewInit ==
    /\ head = 0
    /\ edited = FALSE
    /\ loose = {}
    /\ report = [i \in Images |-> None]
    /\ sbom = {}
    /\ draft = [x \in Items |-> None]
    /\ final = [x \in Items |-> None]
    /\ runner = None
    /\ job = [p \in People |-> Idle]
    /\ scan = Idle
    /\ approvals = {}
    /\ scanned = {}
    /\ acts = 0

ReviewNext ==
    \/ Edit \/ Commit
    \/ \E p \in People :
          \/ \E item \in Items :
                \/ \E inputs \in {"none", "review", "findings"} : StartDraft(p, item, inputs)
                \/ \E force \in BOOLEAN : StartPromotion(p, item, force)
          \/ FinishDraft(p) \/ FinishPromotion(p)
    \/ \E mode \in Modes, targets \in SUBSET Images \ {{}}, able \in BOOLEAN :
          StartScan(mode, targets, able)
    \/ \E i \in Images, outcome \in {"clear", "critical", "fails"} : Trivy(i, outcome)
    \/ \E ok \in BOOLEAN : Syft(ok) \/ Redraft(ok)
    \/ EndScan \/ KillScan

ReviewSpec == ReviewInit /\ [][ReviewNext]_reviewVars
-----------------------------------------------------------------------------
Draft == [head : Heads, dirty : BOOLEAN, complete : BOOLEAN]
Artifact == [head : Heads, dirty : BOOLEAN, status : {"BLOCKED", "EVIDENCE_WRITTEN", "PLAN_READY"},
             docker : BOOLEAN, passed : SUBSET Images]

Jobs ==
    {Idle}
    \cup [pc : {"draft"}, item : Items, inputs : {"none", "review", "findings"},
          head : Heads, dirty : BOOLEAN, clear : BOOLEAN]
    \cup [pc : {"promote"}, item : Items, head : Heads, draft : Draft \cup {None}]

Scanning(pcs, images) ==
    [pc : pcs, mode : Modes, head : Heads, dirty : BOOLEAN, left : SUBSET Images,
     failed : BOOLEAN, preserved : BOOLEAN, passed : SUBSET Images, image : images,
     found : BOOLEAN]

Scans ==
    {Idle} \cup Scanning({"next"}, Images \cup {None})
           \cup Scanning({"syft", "redraft"}, Images)

ReviewTypeOK ==
    /\ head \in Heads /\ edited \in BOOLEAN /\ loose \subseteq Items
    /\ report \in [Images -> {None, "clear", "critical"}]
    /\ sbom \subseteq Images
    /\ draft \in [Items -> Draft \cup {None}]
    /\ final \in [Items -> Heads \cup {None}]
    /\ runner \in Artifact \cup {None}
    /\ job \in [People -> Jobs]
    /\ scan \in Scans
    /\ approvals \subseteq Items \X Heads \X BOOLEAN
    /\ scanned \subseteq Images \X Heads \X BOOLEAN
    /\ acts \in 0..MaxActs

(* What a final file says was approved by a reviewer, in a draft of the same  *)
(* head, whatever the chain, the scans and the commits did in between; and of *)
(* a security review, when the scan of the image had no critical finding.     *)
FinalsWereApproved ==
    \A x \in Items :
        final[x] # None =>
            IF x \in SecurityReviews
            THEN <<x, final[x], TRUE>> \in approvals
            ELSE \E s \in BOOLEAN : <<x, final[x], s>> \in approvals

(* The runner's evidence of a head was produced by scanning at that head, also *)
(* when a later plan took it over.                                             *)
ResultsAreOfTheirHead ==
    runner # None /\ runner.docker =>
        runner.passed \X {runner.head} \X {runner.dirty} \subseteq scanned
=============================================================================
