------------------------------ MODULE EvidenceChain ------------------------------
(***************************************************************************)
(* The release evidence refresh (scripts/refresh-release-evidence-chain):   *)
(* a person runs the verifiers of the release one after the other, and each *)
(* leaves an artifact the later ones read.  Nothing locks test-results/ or  *)
(* the worktree: while the chain runs, and between two runs of it, sources  *)
(* are edited and committed, the machine and the cluster change, reviewers  *)
(* deliver evidence and commit it, single scripts are run by hand, a step   *)
(* runs into its timeout and leaves the artifact of an earlier run, and the *)
(* whole chain is stopped.  ReleaseArtifacts and ReleaseDecisions say what  *)
(* each script writes.                                                      *)
(***************************************************************************)
EXTENDS ReleaseDecisions, Naturals

CONSTANTS
    ToolSets,   \* what a machine may offer
    Checkouts,  \* what a checkout may start with: the machine, the evidence
    Breakages,  \* the scripts an edit may break
    Options,    \* the options a refresh may be started with
    ByHand,     \* the scripts that are also run by hand
    Pauses,     \* the steps of the chain others may act before
    MaxRefreshes, MaxActs

ASSUME HeadsAssumption == Heads \subseteq Nat /\ 1 \in Heads /\ None \notin Heads
ASSUME ToolsAssumption ==
    /\ ToolSets \subseteq SUBSET Tools
    /\ Checkouts \subseteq [tools : ToolSets, evidence : SUBSET Evidence]
ASSUME BoundsAssumption == MaxRefreshes \in Nat /\ MaxActs \in Nat
ASSUME OptionsAssumption ==
    Options \subseteq [build : BOOLEAN, live : BOOLEAN, docker : BOOLEAN]

VARIABLES
    artifacts,  \* test-results/: the artifact of every script
    chain,      \* the refresh that runs
    good,       \* history: every claim a clean artifact ever made, with its commit
    refreshes, acts

world == <<head, edited, loose, broken, tools, evidence, runnerHead>>
vars  == <<world, artifacts, chain, good, refreshes, acts>>

Scripts == Lanes \cup {"runner-draft", "ci-workflow", "candidates", "live-reader",
                       "checkpoint", "lab-images", "lab-handoff", "lab-bootstrap",
                       "roadmap", "bundle", "queue", "completion", "pre-cluster",
                       "refresh"}

ASSUME ByHandAssumption == ByHand \subseteq Scripts \ {"mvp-gate", "refresh"}

\* No artifact is None, and no lane of the queue.
ASSUME NoneAssumption ==
    /\ None \notin StageTickets
    /\ None \notin [head : Heads, dirty : BOOLEAN, gaps : BOOLEAN, asks : BOOLEAN,
                    status : {"REVIEW_PACKET_READY", "BLOCKED"}]
    /\ None \notin [head : Heads, dirty : BOOLEAN, gaps : BOOLEAN, decision : Decisions,
                    status : {"NEEDS_EVIDENCE", "APPROVAL_READY"}]
-----------------------------------------------------------------------------
(* The artifact a script writes.                                             *)

Verdict(a, s) ==
    CASE s = "opsbrain" -> OpsBrain
      [] s = "env-contract" -> EnvContract
      [] s = "target-profile" -> TargetProfile
      [] s = "runtime-readiness" -> RuntimeReadiness
      [] s = "runtime-rag" -> RuntimeRag
      [] s = "runtime-rag-fixture" -> RuntimeRagFixture
      [] s = "aiops" -> Aiops
      [] s = "rag-queue" -> RagQueue
      [] s = "rag-production" -> RagProduction
      [] s = "console-plugin" -> ConsolePlugin
      [] s = "operator-package" -> OperatorPackage
      [] s = "operator-reconcile" -> OperatorReconcile
      [] s = "operator-parity" -> OperatorParity
      [] s = "extension-point" -> ExtensionPoint
      [] s = "routing" -> Routing
      [] s = "trojan-horse" -> TrojanHorse
      [] s = "community" -> Community
      [] s = "certification" -> Certification(a)
      [] s = "catalog" -> CatalogToolchain
      [] s = "runner-draft" -> RunnerDraft
      [] s = "ci-workflow" -> CiWorkflow
      [] s = "images" -> StaticImages(a)
      [] s = "provenance" -> Provenance(a)
      [] s = "external-plan" -> ExternalPlan(a)
      [] s = "scan-runner" -> ScanRunner(a)
      [] s = "scan-plan" -> ScanPlan(a)
      [] s = "connectivity" -> Connectivity
      [] s = "dry-run" -> DryRun
      [] s = "lightspeed" -> Lightspeed
      [] s = "auth-rbac" -> AuthRbac(a)
      [] s = "patch-preview" -> PatchPreview
      [] s = "release-plan" -> ReleasePlan(a)
      [] s = "candidates" -> CandidateMatrix
      [] s = "review-packet" -> ReviewPacket(a)
      [] s = "install-plan" -> InstallPlan(a)
      [] s = "live-handoff" -> LiveHandoff(a)
      [] s = "network-handoff" -> NetworkHandoff(a)
      [] s = "api-fallback" -> ApiFallback
      [] s = "integration" -> Integration(a)
      [] s = "checkpoint" -> Checkpoint(a)
      [] s = "lab-images" -> LabImageMap
      [] s = "lab-handoff" -> LabHandoff(a)
      [] s = "lab-bootstrap" -> LabBootstrap(a)
      [] s = "roadmap" -> Roadmap(a)
      [] s = "bundle" -> Bundle(a)
      [] s = "queue" -> ActionQueue(a)
      [] s = "completion" -> CompletionGate(a)
      [] s = "pre-cluster" -> PreClusterGate(a)

Written(a, s) == [a EXCEPT ![s] = Verdict(a, s)]

\* What test-results/ holds after a script.
After(a, s) ==
    IF s = "live-reader" THEN AfterLiveReader(a) ELSE Written(a, s)
-----------------------------------------------------------------------------
(* The chain.  A step names its script; the steps of the MVP gate are run by *)
(* its script; a live step is left out on request; the steps that may well   *)
(* fail are expected to exit with a non-zero code.                           *)

Step(s) == [script |-> s, gate |-> FALSE, live |-> FALSE, expected |-> FALSE]
OfGate(s)   == [Step(s) EXCEPT !.gate = TRUE]
Live(s)     == [Step(s) EXCEPT !.live = TRUE, !.expected = s # "live-reader"]
Expected(s) == [Step(s) EXCEPT !.expected = TRUE]

Steps(scripts) == [i \in DOMAIN scripts |-> Step(scripts[i])]

\* The MVP gate runs these, then writes which of them failed.
MvpSteps == <<"env-contract", "console-plugin", "rag-queue", "runtime-readiness",
              "runtime-rag", "runtime-rag-fixture", "opsbrain", "aiops", "routing",
              "trojan-horse", "integration", "auth-rbac", "live-handoff",
              "network-handoff", "api-fallback", "operator-package",
              "operator-reconcile", "operator-parity", "certification">>

\* The gate asks Git before its first step, as the refresh does.
MvpGate ==
    LET failed == chain.gate \cup ({"mvp-gate"} \cap {broken})
    IN  [head |-> chain.at, dirty |-> chain.wasDirty, gaps |-> FALSE, failed |-> failed,
         status |-> IF failed = {} THEN "PASS" ELSE "FAIL"]

\* Fault: the closing bundle is written before the closing roadmap.
SwappedEnd ==
    <<Expected("roadmap")>> \o Steps(<<"bundle", "queue", "bundle">>)
      \o <<Expected("roadmap")>> \o Steps(<<"queue", "completion", "pre-cluster">>)

\* Roadmap, bundle and queue read each other, and are written twice.
ChainEnd ==
    <<Expected("roadmap")>> \o Steps(<<"bundle", "queue">>)
      \o <<Expected("roadmap")>> \o Steps(<<"bundle", "queue", "completion", "pre-cluster">>)

Chain ==
    [i \in DOMAIN MvpSteps |-> OfGate(MvpSteps[i])]
    \o Steps(<<"mvp-gate", "opsbrain", "env-contract", "target-profile",
            "runtime-readiness", "runtime-rag", "runtime-rag-fixture", "aiops",
            "rag-queue", "rag-production", "console-plugin", "operator-package",
            "operator-reconcile", "operator-parity", "extension-point", "routing",
            "trojan-horse", "community", "certification", "catalog", "runner-draft",
            "ci-workflow", "images", "provenance", "external-drafts", "external-plan",
            "scan-runner", "security-drafts", "scan-plan">>)
    \o <<Live("connectivity"), Live("dry-run"), Live("lightspeed"), Live("live-reader")>>
    \o Steps(<<"auth-rbac", "patch-preview", "release-plan", "candidates",
               "review-packet", "install-plan", "live-handoff", "network-handoff",
               "api-fallback", "integration", "checkpoint", "network-handoff",
               "lab-images", "lab-handoff", "lab-bootstrap">>)
    \o ChainEnd

NoOptions == [build |-> FALSE, live |-> FALSE, docker |-> FALSE]

\* at, wasDirty: what Git said when the refresh started; image: what it said
\* when the build of the images started; gate: the steps of the MVP gate that
\* failed; gaps, failed: what the other steps came to;
\* quiet: nothing else happened since the refresh started
IdleChain == [pc |-> 0, opts |-> NoOptions, at |-> 1, wasDirty |-> FALSE, image |-> None,
              gate |-> {}, gaps |-> FALSE, failed |-> FALSE, quiet |-> FALSE]

Idle == chain.pc = 0

CurrentStep == Chain[chain.pc]

AtStep(s) == ~Idle /\ chain.pc <= Len(Chain) /\ CurrentStep.script = s

Init ==
    /\ head = 1 /\ edited = FALSE /\ loose = {} /\ broken = None /\ runnerHead = None
    /\ \E c \in Checkouts : tools = c.tools /\ evidence = c.evidence
    /\ artifacts = [s \in Scripts |-> None]
    /\ chain = IdleChain
    /\ good = {} /\ refreshes = 0 /\ acts = 0

StartRefresh ==
    /\ Idle /\ refreshes < MaxRefreshes
    /\ \E opts \in Options :
          chain' = [IdleChain EXCEPT !.pc = 1, !.opts = opts, !.at = head,
                                     !.wasDirty = Dirty, !.quiet = TRUE]
    /\ refreshes' = refreshes + 1
    /\ UNCHANGED <<world, artifacts, acts>>

Skipped == CurrentStep.live /\ ~chain.opts.live

\* The scripts that write drafts for reviewers, and no artifact.
DraftScripts == {"external-drafts", "security-drafts"}

\* The steps below with an action of their own.
Special(s) ==
    \/ s \in {"mvp-gate"} \cup DraftScripts
    \/ s = "images" /\ chain.opts.build
    \/ s = "scan-runner" /\ chain.opts.docker

\* Fault: an unexpected failure is recorded and the chain does not go on.
AdvanceUnlessFailed(nonzero) ==
    chain' = [chain EXCEPT !.pc = IF nonzero /\ ~CurrentStep.expected THEN @ ELSE @ + 1,
                           !.image = None,
                           !.gaps = @ \/ (nonzero /\ CurrentStep.expected),
                           !.failed = @ \/ (nonzero /\ ~CurrentStep.expected)]

\* A step that exits with a non-zero code is a gap when that is expected, and
\* fails the refresh when it is not; the chain goes on either way.
Advance(nonzero) ==
    chain' = [chain EXCEPT !.pc = @ + 1,
                           !.image = None,
                           !.gaps = @ \/ (nonzero /\ CurrentStep.expected),
                           !.failed = @ \/ (nonzero /\ ~CurrentStep.expected)]

InChain == ~Idle /\ chain.pc <= Len(Chain)

RunStep ==
    /\ InChain /\ ~CurrentStep.gate /\ ~Skipped /\ ~Special(CurrentStep.script)
    /\ LET after == After(artifacts, CurrentStep.script)
       IN  /\ artifacts' = after
           /\ Advance(Fails(CurrentStep.script, after[CurrentStep.script]))
    /\ UNCHANGED <<world, refreshes, acts>>

\* A step of the MVP gate that fails does not stop the gate.
RunGateStep ==
    /\ InChain /\ CurrentStep.gate
    /\ LET s == CurrentStep.script
           after == After(artifacts, s)
       IN  /\ artifacts' = after
           /\ chain' = [chain EXCEPT !.pc = @ + 1,
                                     !.gate = @ \cup (IF Fails(s, after[s]) THEN {s} ELSE {})]
    /\ UNCHANGED <<world, refreshes, acts>>

FinishGate ==
    /\ AtStep("mvp-gate")
    /\ artifacts' = [artifacts EXCEPT !["mvp-gate"] = MvpGate]
    /\ Advance(Failed(MvpGate))
    /\ UNCHANGED <<world, refreshes, acts>>

SkipStep ==
    /\ InChain /\ Skipped
    /\ chain' = [chain EXCEPT !.pc = @ + 1, !.gaps = TRUE]
    /\ UNCHANGED <<world, artifacts, refreshes, acts>>

\* The drafts are written anew: what reviewers had filled in those of external
\* evidence is gone, or may be when the script fails on the way.
RunDrafts ==
    /\ \E s \in DraftScripts :
          /\ AtStep(s)
          /\ \/ evidence' = IF s = "external-drafts" THEN evidence \ {"drafts"} ELSE evidence
             \/ broken = s /\ evidence' = evidence
          /\ Advance(broken = s)
    /\ UNCHANGED <<head, edited, loose, broken, tools, runnerHead, artifacts, refreshes, acts>>

\* Git is asked before the images are built, which takes minutes.
StartBuild ==
    /\ AtStep("images") /\ chain.opts.build /\ chain.image = None /\ "docker" \in tools
    /\ chain' = [chain EXCEPT !.image = [head |-> head, dirty |-> Dirty]]
    /\ UNCHANGED <<world, artifacts, refreshes, acts>>

FinishBuild ==
    /\ AtStep("images") /\ chain.image # None
    /\ \E built \in BuildOutcomes :
          LET report == ImageReport(chain.image, built)
          IN  /\ artifacts' = [artifacts EXCEPT !["images"] = report]
              /\ tools' = tools
                    \cup (IF built = "failed" THEN {} ELSE {"local-images"})
                    \cup (IF built = "all" THEN {"catalog-image"} ELSE {})
              /\ Advance(Failed(report))
    /\ UNCHANGED <<head, edited, loose, broken, evidence, runnerHead, refreshes, acts>>

BuildWithoutDocker ==
    /\ AtStep("images") /\ chain.opts.build /\ chain.image = None /\ "docker" \notin tools
    /\ artifacts' = [artifacts EXCEPT !["images"] = NoDockerImages]
    /\ Advance(TRUE)
    /\ UNCHANGED <<world, refreshes, acts>>

\* The scans leave their reports where the scan plan looks for them.
RunScan ==
    /\ AtStep("scan-runner") /\ chain.opts.docker
    /\ artifacts' = [artifacts EXCEPT !["scan-runner"] = DockerScanRunner]
    /\ evidence' = IF "docker" \in tools THEN evidence \cup {"reports"} ELSE evidence
    /\ Advance(Failed(DockerScanRunner))
    /\ UNCHANGED <<head, edited, loose, broken, tools, runnerHead, refreshes, acts>>

\* The scripts whose artifact the refresh looks at in the end.
EvidencePaths == Scripts \ {"live-reader", "refresh"}

RefreshReport ==
    LET fresh(s) == /\ Exists(artifacts, s)
                    /\ artifacts[s].head = chain.at /\ ~artifacts[s].dirty
        gaps == \/ chain.gaps \/ ~chain.opts.build \/ ~chain.opts.live
                \/ \E s \in EvidencePaths : ~fresh(s)
                \/ \E s \in EvidencePaths \ {"queue"} : Gaps(artifacts, s)
    IN  [head |-> chain.at, dirty |-> chain.wasDirty, gaps |-> gaps,
         status |-> IF chain.failed THEN "BLOCKED"
                    ELSE IF chain.wasDirty \/ gaps THEN "NEEDS_EVIDENCE"
                    ELSE "PASS"]

FinishRefresh ==
    /\ chain.pc > Len(Chain)
    /\ artifacts' = [artifacts EXCEPT !["refresh"] = RefreshReport]
    /\ chain' = [IdleChain EXCEPT !.quiet = chain.quiet]
    /\ UNCHANGED <<world, refreshes, acts>>

ChainStep ==
    \/ RunStep \/ RunGateStep \/ FinishGate \/ SkipStep \/ RunDrafts \/ StartBuild \/ FinishBuild
    \/ BuildWithoutDocker \/ RunScan \/ FinishRefresh
-----------------------------------------------------------------------------
(* What happens meanwhile.                                                   *)

Act ==
    /\ acts < MaxActs
    /\ Idle \/ (InChain /\ CurrentStep.script \in Pauses)
    /\ acts' = acts + 1

Meanwhile == Act /\ chain' = [chain EXCEPT !.quiet = FALSE]

RunByHand ==
    /\ Meanwhile
    /\ \E s \in ByHand : artifacts' = After(artifacts, s)
    /\ UNCHANGED <<world, refreshes>>

Edit ==
    /\ Meanwhile
    /\ edited' = TRUE
    /\ broken' \in Breakages \cup {None}
    /\ UNCHANGED <<head, loose, tools, evidence, runnerHead, artifacts, refreshes>>

\* Everything is committed, reviewed evidence included.
Commit ==
    /\ Meanwhile /\ Dirty
    /\ head' \in {h \in Heads : h > head}
    /\ edited' = FALSE /\ loose' = {}
    /\ UNCHANGED <<broken, tools, evidence, runnerHead, artifacts, refreshes>>

\* Fault: whatever is delivered is a file of the worktree.
SupplyLoose ==
    /\ Meanwhile
    /\ \E e \in Evidence \ evidence :
          evidence' = evidence \cup {e} /\ loose' = loose \cup {e}
    /\ UNCHANGED <<head, edited, broken, tools, runnerHead, artifacts, refreshes>>

\* Reviewers deliver; final evidence is a file of the worktree.
Supply ==
    /\ Meanwhile
    /\ \E e \in Evidence \ evidence :
          /\ evidence' = evidence \cup {e}
          /\ loose' = loose \cup ({"security", "external"} \cap {e})
    /\ UNCHANGED <<head, edited, broken, tools, runnerHead, artifacts, refreshes>>

\* approved-ci-runner.json names the commit its runner worked on.
SupplyRunner ==
    /\ Meanwhile
    /\ runnerHead' = head /\ loose' = loose \cup {"runner"}
    /\ UNCHANGED <<head, edited, broken, tools, evidence, artifacts, refreshes>>

ChangeTools ==
    /\ Meanwhile
    /\ \E t \in ToolSets \ {tools} : tools' = t \cup (tools \cap {"local-images", "catalog-image"})
    /\ UNCHANGED <<head, edited, loose, broken, evidence, runnerHead, artifacts, refreshes>>

\* A step of the chain is ended before it writes.  The MVP gate is one step:
\* what it ran stays, and its own artifact is not written.
TimeOut ==
    /\ Act /\ InChain
    /\ chain' = IF CurrentStep.gate
                THEN [chain EXCEPT !.pc = Len(MvpSteps) + 2, !.failed = TRUE, !.quiet = FALSE]
                ELSE IF CurrentStep.expected THEN [chain EXCEPT !.pc = @ + 1, !.gaps = TRUE]
                ELSE [chain EXCEPT !.pc = @ + 1, !.image = None, !.failed = TRUE,
                                   !.quiet = FALSE]
    /\ UNCHANGED <<world, artifacts, refreshes>>

\* Also the end of a refresh told to stop at the first failure.
StopChain ==
    /\ Act /\ InChain
    /\ chain' = IdleChain
    /\ UNCHANGED <<world, artifacts, refreshes>>
-----------------------------------------------------------------------------
(* Claims: what an artifact of a clean commit lets a reader conclude, and    *)
(* the claims it rests on.                                                   *)

ClaimStatus(c) ==
    CASE c \in {"builds", "images", "provenance", "community", "mvp-gate", "rag-queue",
                "connectivity", "live-reader", "checkpoint", "roadmap", "completion"} -> "PASS"
      [] c \in {"external-plan", "install-plan"} -> "APPROVAL_REQUIRED"
      [] c = "release-plan"  -> "PUBLISH_APPROVAL_REQUIRED"
      [] c = "scan-plan"     -> "READY_FOR_SCAN"
      [] c = "certification" -> "READY_FOR_REVIEW"
      [] c = "bundle"        -> "APPROVAL_READY"

Claims == {"builds", "images", "provenance", "community", "mvp-gate", "rag-queue",
           "connectivity", "live-reader", "checkpoint", "roadmap", "completion",
           "external-plan", "install-plan", "release-plan", "scan-plan",
           "certification", "bundle"}

\* "builds" are images that were really built.
ScriptOf(c) == IF c = "builds" THEN "images" ELSE c

RestsOn(c) ==
    IF c = "provenance" THEN {"images", "builds"}
    ELSE IF c = "external-plan" THEN {"images"}
    ELSE IF c = "scan-plan" THEN {"provenance"}
    ELSE IF c = "release-plan" THEN {"builds", "provenance", "external-plan"}
    ELSE IF c = "install-plan" THEN {"mvp-gate", "builds", "rag-queue"}
    ELSE IF c = "certification" THEN {"community"}
    ELSE IF c = "live-reader" THEN {"connectivity"}
    ELSE IF c = "checkpoint" THEN {"mvp-gate", "provenance", "connectivity", "community",
                                   "certification", "release-plan", "install-plan"}
    ELSE IF c = "roadmap" THEN {"provenance", "connectivity", "community",
                                "certification", "release-plan", "install-plan"}
    ELSE IF c = "bundle" THEN {"roadmap", "release-plan", "install-plan", "mvp-gate"}
    ELSE IF c = "completion" THEN {"roadmap", "bundle"}
    ELSE {}

Claimed(a) ==
    {<<c, a[ScriptOf(c)].head>> : c \in
        {c \in Claims : /\ StatusIs(a, ScriptOf(c), ClaimStatus(c))
                        /\ ~a[ScriptOf(c)].dirty
                        /\ c = "builds" => ActualBuilds(a, {"owned", "all"})}}

Next ==
    /\ \/ StartRefresh \/ ChainStep
       \/ RunByHand \/ Edit \/ Commit \/ Supply \/ SupplyRunner \/ ChangeTools
       \/ TimeOut \/ StopChain
    /\ good' = good \cup Claimed(artifacts')

Spec == Init /\ [][Next]_vars /\ WF_vars(ChainStep /\ good' = good \cup Claimed(artifacts'))
-----------------------------------------------------------------------------
TypeOK ==
    /\ head \in Heads /\ edited \in BOOLEAN
    /\ loose \subseteq {"security", "external", "runner"}
    /\ broken \in Breakages \cup {None}
    /\ tools \subseteq Tools /\ evidence \subseteq Evidence
    /\ runnerHead \in Heads \cup {None}
    /\ DOMAIN artifacts = Scripts
    /\ \A s \in Scripts : Exists(artifacts, s) =>
          artifacts[s].head \in Heads /\ artifacts[s].dirty \in BOOLEAN
    /\ chain.pc \in 0 .. Len(Chain) + 1 /\ chain.at \in Heads
    /\ good \subseteq Claims \X Heads
    /\ refreshes \in 0 .. MaxRefreshes /\ acts \in 0 .. MaxActs

(* A claim about a clean commit was never made unless every claim it rests  *)
(* on was made about that commit: the plan to publish rests on images built *)
(* and inspected at that commit, the approval of the bundle on both plans   *)
(* and the roadmap, and so on (the freshness checks of the scripts), however *)
(* scripts run by hand, timeouts, edits and commits interleave.             *)
ClaimsRest ==
    \A g \in good : \A c \in RestsOn(g[1]) : <<c, g[2]>> \in good

(* The claim that everything is done is never granted, and neither is the   *)
(* permission to install: the roadmap wants an open ticket in the lanes it  *)
(* wants closed, and the runtime lanes never close.                         *)
GatesStayClosed ==
    /\ ~StatusIs(artifacts, "completion", "PASS")
    /\ ~StatusIs(artifacts, "pre-cluster", "READY_FOR_CLUSTER_INSTALL")

(* After a refresh nobody disturbed the roadmap and the copy of it in the   *)
(* bundle agree, whatever its steps found and even if one that is expected  *)
(* to fail timed out: the two passes over roadmap, bundle and queue suffice. *)
RefreshAgrees == Idle /\ chain.quiet => BundleMatchesRoadmap(artifacts)

(* A certification readiness of a clean commit is only ever written on a    *)
(* machine that has the certification tools: evidence of a certified runner *)
(* makes the worktree dirty until it is committed, and is stale from then.  *)
RunnerEvidenceNeverCounts ==
    [][LET r == artifacts'["certification"]
       IN  r # artifacts["certification"] /\ r.status = "READY_FOR_REVIEW" /\ ~r.dirty
             => {"certifiers", "docker"} \subseteq tools]_vars

(* A refresh ends, whatever its steps do, when they do not block: every     *)
(* step has a timeout.                                                      *)
RefreshEnds == ~Idle ~> Idle
=============================================================================
