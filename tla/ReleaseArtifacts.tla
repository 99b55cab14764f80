---------------------------- MODULE ReleaseArtifacts ----------------------------
(***************************************************************************)
(* The verifiers of scripts/ that judge one thing each: the local           *)
(* contracts, the packaging and the images, the live cluster, the release.  *)
(* Every script writes one artifact under test-results/, from the worktree, *)
(* the machine it runs on, what reviewers supplied, and the artifacts other *)
(* scripts left there.  An operator below is one script: the artifact it    *)
(* writes when it runs now, given the artifacts "a" it finds.               *)
(*                                                                          *)
(* An artifact keeps the commit it is about, whether the worktree was       *)
(* dirty, its status, whether it lists missing evidence, and the fields     *)
(* other scripts read.  The mutation flags of an artifact are literals      *)
(* (false) and are left out.                                                *)
(***************************************************************************)
EXTENDS SequencesExt, FiniteSets

CONSTANTS
    Heads,      \* commits
    None        \* no artifact, no runner evidence, nothing broken

VARIABLES
    head,       \* the commit checked out
    edited,     \* a source file of the worktree differs from it
    loose,      \* kinds of reviewed evidence not committed as they are
    broken,     \* the script whose contract the sources fail, if any
    tools,      \* what the machine and its cluster offer
    evidence,   \* what scans and reviewers supplied
    runnerHead  \* the commit named by approved-ci-runner.json

Dirty == edited \/ loose # {}

\* The machine: command lines, registry credentials, OCP_* settings, the cluster;
\* whether the runtimes are to be probed live, and how they answer then.
Tools == {"docker", "registry", "scanners", "cosign", "certifiers", "url", "crc",
          "token", "api", "lightspeed", "monitoring", "mcp-url",
          "local-images", "catalog-image", "package",
          "live-probes", "vector-store", "model", "model-ready"}

\* Scanner reports, final evidence, and complete drafts of external evidence.
Evidence == {"reports", "security", "external", "drafts"}

Report(status, gaps) ==
    [head |-> head, dirty |-> Dirty, status |-> status, gaps |-> gaps]

\* The statuses that come with a non-zero exit code.
Failed(r) == r.status \in {"FAIL", "FAILED", "BLOCKED"}

\* The exit code; the contract of the runtime readiness shows in nothing else.
Fails(s, r) == Failed(r) \/ (s = "runtime-readiness" /\ broken = s)

Exists(a, s) == a[s] # None

\* headSha = current head and worktreeDirty = false
Fresh(a, s) == Exists(a, s) /\ a[s].head = head /\ ~a[s].dirty

Current(a, s, statuses) == Fresh(a, s) /\ a[s].status \in statuses

Gaps(a, s) == Exists(a, s) /\ a[s].gaps
-----------------------------------------------------------------------------
(* Local contracts: a script fails when the sources break what it checks.    *)

Contract(s, bad) == Report(IF broken = s THEN bad ELSE "PASS", broken = s)

OpsBrain == Report(IF broken = "opsbrain" THEN "FAIL" ELSE "PASS", TRUE)

\* targets: the settings name the cluster and its token.  A file of settings
\* that names only one of them is a broken contract; without a file the
\* contract passes all the same.
EnvContract ==
    [head |-> head, dirty |-> Dirty, gaps |-> broken = "env-contract",
     status |-> IF broken = "env-contract" THEN "FAIL" ELSE "PASS",
     targets |-> {"url", "token"} \subseteq tools]

TargetProfile ==
    Report(IF "url" \notin tools THEN "FAIL"
           ELSE IF "crc" \in tools THEN "CRC_SANDBOX_READY"
           ELSE "COMPANY_SHARED_READ_ONLY",
           ~({"url", "token"} \subseteq tools))

\* The model may answer and not be ready; the vector store answers or does not.
RuntimeReadiness ==
    LET status == IF "live-probes" \notin tools THEN "NEEDS_LIVE_EVIDENCE"
                  ELSE IF ~({"vector-store", "model"} \subseteq tools) THEN "FAIL"
                  ELSE IF "model-ready" \notin tools THEN "WARN"
                  ELSE "PASS"
    IN  Report(status, status # "PASS")

RuntimeRag ==
    Report(IF broken = "runtime-rag" THEN "FAIL" ELSE "NEEDS_LIVE_EVIDENCE", TRUE)

RuntimeRagFixture ==
    Report(IF broken = "runtime-rag-fixture" THEN "FAIL" ELSE "PASS", TRUE)

LiveSmokePasses == "monitoring" \in tools

Aiops ==
    [head |-> head, dirty |-> Dirty, gaps |-> ~LiveSmokePasses \/ Dirty,
     status |-> IF broken = "aiops" THEN "FAIL"
                ELSE IF LiveSmokePasses THEN "PASS"
                ELSE "NEEDS_LIVE_EVIDENCE",
     monitored |-> LiveSmokePasses]

RagQueue == Report(IF broken = "rag-queue" THEN "FAIL" ELSE "PASS", TRUE)

\* The approved retrieval path and the rollback export are missing by
\* definition; a stale queue artifact is only one more gap.
RagProduction ==
    Report(IF broken = "rag-production" THEN "BLOCKED" ELSE "APPROVAL_REQUIRED", TRUE)

ConsolePlugin ==
    Report(IF broken = "console-plugin" THEN "BLOCKED" ELSE "PASS", FALSE)

OperatorPackage   == Contract("operator-package", "FAIL")
OperatorReconcile == Contract("operator-reconcile", "FAIL")
OperatorParity    == Contract("operator-parity", "FAIL")

ExtensionPoint ==
    Report(IF broken = "extension-point" THEN "FAIL"
           ELSE IF Dirty THEN "NEEDS_EVIDENCE"
           ELSE "PASS",
           broken = "extension-point" \/ Dirty)

Routing     == Contract("routing", "FAIL")
TrojanHorse == Contract("trojan-horse", "FAIL")
CiWorkflow  == Contract("ci-workflow", "FAIL")

\* The handoff must be served by the API when the planner times out.
ApiFallback == Report(IF broken = "api-fallback" THEN "FAIL" ELSE "PASS", FALSE)

Community ==
    Report(IF broken = "community" THEN "FAILED"
           ELSE IF Dirty THEN "NEEDS_EVIDENCE"
           ELSE "PASS",
           broken = "community" \/ Dirty)

PatchPreview == Report("PATCH_PLANNED", TRUE)
-----------------------------------------------------------------------------
(* Packaging, images and scans.                                              *)

RegistryReadable == "registry" \in tools

CatalogToolchain ==
    LET status == IF broken = "catalog" THEN "BLOCKED"
                  ELSE IF Dirty \/ ~({"certifiers", "docker", "registry"} \subseteq tools)
                       THEN "NEEDS_TOOLING"
                  ELSE "READY_FOR_DRY_RUN"
    IN  [head |-> head, dirty |-> Dirty, status |-> status,
         gaps |-> status # "READY_FOR_DRY_RUN", registry |-> RegistryReadable]

\* Evidence of another commit is a warning, no evidence is not: the local
\* command lines are looked at then.
RunnerStale == runnerHead # None /\ runnerHead # head
RunnerReady == runnerHead = head

CommunityReady(a) == Current(a, "community", {"PASS"})

ToolsOrRunner == RunnerReady \/ {"certifiers", "docker"} \subseteq tools

\* Fault: evidence of a certified runner is accepted for every commit.
AnyRunnerCertification(a) ==
    LET status == IF broken = "certification" THEN "FAILED"
                  ELSE IF ~CommunityReady(a) \/ (runnerHead = None /\ ~ToolsOrRunner)
                       THEN "NEEDS_TOOLING"
                  ELSE "READY_FOR_REVIEW"
    IN  Report(status, status # "READY_FOR_REVIEW")

Certification(a) ==
    LET status == IF broken = "certification" THEN "FAILED"
                  ELSE IF RunnerStale \/ ~CommunityReady(a) \/ ~ToolsOrRunner
                       THEN "NEEDS_TOOLING"
                  ELSE "READY_FOR_REVIEW"
    IN  Report(status, status # "READY_FOR_REVIEW")

RunnerDraft == Report("DRAFT_NEEDS_EVIDENCE", TRUE)

ImageReport(at, built) ==
    [head |-> at.head, dirty |-> at.dirty, gaps |-> FALSE,
     status |-> IF broken = "images" \/ built = "failed" THEN "FAIL" ELSE "PASS",
     actual |-> built # "none", built |-> built]

\* Without --build, the builds of this commit on record are kept, and they are
\* no longer checked: a failed one is kept too.
Preserved(a) ==
    IF Fresh(a, "images") /\ a["images"].actual /\ ~Dirty THEN a["images"].built ELSE "none"

StaticImages(a) ==
    [ImageReport([head |-> head, dirty |-> Dirty], Preserved(a)) EXCEPT
        !.status = IF broken = "images" THEN "FAIL" ELSE "PASS"]

\* The builds of --build: every image; all but the catalog, whose base image
\* needs registry credentials; or one fails.
BuildOutcomes == {"failed", IF RegistryReadable THEN "all" ELSE "owned"}

\* --build without Docker is a failure, with no build to report.
NoDockerImages ==
    [head |-> head, dirty |-> Dirty, status |-> "FAIL", gaps |-> FALSE,
     actual |-> TRUE, built |-> "none"]

ActualBuilds(a, outcomes) ==
    Exists(a, "images") /\ a["images"].actual /\ a["images"].built \in outcomes

Provenance(a) ==
    LET proven == /\ Current(a, "images", {"PASS"})
                  /\ ActualBuilds(a, {"owned", "all"})
                  /\ {"docker", "local-images"} \subseteq tools
                  /\ ~Dirty
        status == IF broken = "provenance" THEN "BLOCKED"
                  ELSE IF proven THEN "PASS"
                  ELSE "NEEDS_EVIDENCE"
    IN  Report(status, status # "PASS")

FinalsPresent == "external" \in evidence

ExternalPlan(a) ==
    LET status == IF ~Exists(a, "images") THEN "BLOCKED"
                  ELSE IF ~Current(a, "images", {"PASS"}) \/ ~FinalsPresent \/ Dirty
                       THEN "NEEDS_EVIDENCE"
                  ELSE "APPROVAL_REQUIRED"
    IN  [head |-> head, dirty |-> Dirty, status |-> status,
         gaps |-> status # "APPROVAL_REQUIRED", ready |-> FinalsPresent]

\* The scan runner: with Docker it executes the scans, without it keeps the
\* results it has for this commit or plans them.
ScanPreserved(a) == Current(a, "scan-runner", {"EVIDENCE_WRITTEN"}) /\ ~Dirty

ScanRunner(a) ==
    IF ScanPreserved(a) THEN Report("EVIDENCE_WRITTEN", FALSE)
    ELSE Report("PLAN_READY", "scanners" \notin tools)

DockerScanRunner ==
    IF "docker" \in tools THEN Report("EVIDENCE_WRITTEN", FALSE) ELSE Report("BLOCKED", TRUE)

ScannedImages(a) == Current(a, "scan-runner", {"EVIDENCE_WRITTEN"})

\* Reviews and reports are looked up by name: no commit is compared.
ScanPlan(a) ==
    LET ready == /\ ~Dirty
                 /\ Current(a, "provenance", {"PASS"})
                 /\ Fresh(a, "external-plan")
                 /\ "scanners" \in tools \/ ScannedImages(a)
                 /\ "cosign" \in tools
                 /\ {"reports", "security"} \subseteq evidence
    IN  [head |-> head, dirty |-> Dirty, gaps |-> ~ready,
         status |-> IF ready THEN "READY_FOR_SCAN" ELSE "NEEDS_TOOLING",
         reviewed |-> "security" \in evidence]
-----------------------------------------------------------------------------
(* The live cluster, read only.                                              *)

ConnectivityClass ==
    IF ~({"url", "api"} \subseteq tools) THEN "unreachable"
    ELSE IF "token" \notin tools THEN "token-missing"
    ELSE "api-ready"

Connectivity ==
    LET ready == ConnectivityClass = "api-ready" /\ ~Dirty
    IN  [head |-> head, dirty |-> Dirty, gaps |-> ~ready,
         status |-> IF ready THEN "PASS" ELSE "NEEDS_EVIDENCE",
         class |-> ConnectivityClass]

ClassOf(a) == IF Exists(a, "connectivity") THEN a["connectivity"].class ELSE "missing"

\* A cluster that cannot be reached is a warning: the manifests are checked
\* on the client then.
DryRun ==
    LET status == IF broken = "dry-run" THEN "FAIL"
                  ELSE IF ConnectivityClass # "api-ready" THEN "WARN"
                  ELSE "PASS"
    IN  Report(status, status # "PASS")

\* Why the cluster could not be read; the settings are looked at first.
LightspeedGap ==
    IF ConnectivityClass = "api-ready" THEN "none"
    ELSE IF "url" \notin tools THEN "not-configured"
    ELSE IF "token" \notin tools THEN "token-missing"
    ELSE "unreachable"

Lightspeed ==
    LET status == IF ConnectivityClass # "api-ready" THEN "FAIL"
                  ELSE IF "lightspeed" \notin tools THEN "NEEDS_CONFIGURATION"
                  ELSE "PASS"
    IN  [head |-> head, dirty |-> Dirty, status |-> status, gaps |-> status # "PASS",
         mcpUrl |-> "mcp-url" \in tools, class |-> LightspeedGap]

\* The smoke of a new reader token runs the two diagnostics again, then judges.
LiveReader(a) ==
    LET ready == /\ {"url", "token"} \subseteq tools
                 /\ Fresh(a, "connectivity") /\ ClassOf(a) = "api-ready"
                 /\ Fresh(a, "lightspeed")
                 /\ ~Dirty
    IN  Report(IF ready THEN "PASS" ELSE "NEEDS_EVIDENCE", ~ready)

AfterLiveReader(a) ==
    LET b == [a EXCEPT !["connectivity"] = Connectivity, !["lightspeed"] = Lightspeed]
    IN  [b EXCEPT !["live-reader"] = LiveReader(b)]

\* The manifests decide BLOCKED; the class of an old diagnostic is used too.
AuthRbac(a) ==
    LET status == IF broken = "auth-rbac" THEN "BLOCKED"
                  ELSE IF ClassOf(a) = "api-ready" THEN "READY_FOR_LIVE_CHECK"
                  ELSE IF ClassOf(a) = "token-missing" THEN "AUTH_RBAC_APPROVAL_REQUIRED"
                  ELSE "WAITING_FOR_CONNECTIVITY"
    IN  [head |-> head, dirty |-> Dirty, status |-> status,
         gaps |-> ~Fresh(a, "connectivity") \/ status # "READY_FOR_LIVE_CHECK",
         class |-> ClassOf(a)]

LiveInputs == {"connectivity", "auth-rbac", "dry-run", "lightspeed", "patch-preview",
               "install-plan"}

LiveHandoff(a) ==
    LET ready == ~Dirty /\ \A s \in LiveInputs : Fresh(a, s)
        waiting == \/ ClassOf(a) # "api-ready"
                   \/ ~Exists(a, "live-reader") \/ a["live-reader"].status # "PASS"
                   \/ "mcp-url" \notin tools
    IN  Report(IF ready THEN "PASS" ELSE "NEEDS_EVIDENCE", ~ready \/ waiting)

NetworkHandoff(a) ==
    LET waiting == ~Fresh(a, "connectivity") \/ ClassOf(a) # "api-ready"
    IN  [head |-> head, dirty |-> Dirty, gaps |-> waiting,
         status |-> IF ~Exists(a, "connectivity") THEN "BLOCKED"
                    ELSE IF waiting THEN "READY_FOR_NETWORK_REVIEW"
                    ELSE "READY_FOR_LIVE_RECHECK",
         class |-> ClassOf(a),
         commands |-> Exists(a, "connectivity") \/ Exists(a, "live-handoff")]

IntegrationInputs == {"trojan-horse", "routing"}

Integration(a) ==
    LET live == Exists(a, "lightspeed") /\ a["lightspeed"].status = "PASS"
        stale == \E s \in IntegrationInputs : ~Fresh(a, s)
    IN  Report(IF \E s \in IntegrationInputs : ~Exists(a, s) \/ a[s].status # "PASS"
                  THEN "BLOCKED"
               ELSE IF live THEN "LIVE_READY"
               ELSE IF ~Dirty THEN "READY_FOR_LIVE_REGISTRATION_REVIEW"
               ELSE "NEEDS_EVIDENCE",
               stale \/ ~live \/ Dirty)
-----------------------------------------------------------------------------
(* The plans a person approves.                                              *)

\* Fault: images that were not built pass, as their static checks do.
UnbuiltReleasePlan(a) ==
    LET complete == /\ ~Dirty
                    /\ Current(a, "images", {"PASS"})
                    /\ Current(a, "external-plan", {"APPROVAL_REQUIRED"})
                    /\ a["external-plan"].ready
        status == IF broken = "release-plan" THEN "BLOCKED"
                  ELSE IF complete THEN "PUBLISH_APPROVAL_REQUIRED"
                  ELSE "NEEDS_EVIDENCE"
    IN  Report(status, ~complete)

ReleasePlan(a) ==
    LET complete == /\ ~Dirty
                    /\ Current(a, "images", {"PASS"}) /\ ActualBuilds(a, {"all"})
                    /\ Current(a, "provenance", {"PASS"})
                    /\ Current(a, "external-plan", {"APPROVAL_REQUIRED"})
                    /\ a["external-plan"].ready
        status == IF broken = "release-plan" THEN "BLOCKED"
                  ELSE IF complete THEN "PUBLISH_APPROVAL_REQUIRED"
                  ELSE "NEEDS_EVIDENCE"
    IN  Report(status, ~complete)

CandidateMatrix ==
    Report(IF "reports" \in evidence THEN "CANDIDATE_REVIEW_READY" ELSE "NEEDS_CANDIDATES",
           "reports" \notin evidence)

\* asks: the registry administrator has to give a source and a mirror digest
ReviewPacket(a) ==
    [head |-> head, dirty |-> Dirty,
     status |-> IF Exists(a, "external-plan") THEN "REVIEW_PACKET_READY" ELSE "BLOCKED",
     gaps |-> \/ ~Fresh(a, "external-plan")
              \/ "drafts" \notin evidence
              \/ ~Current(a, "candidates", {"CANDIDATE_REVIEW_READY"})
              \/ ~FinalsPresent,
     asks |-> "drafts" \notin evidence]

InstallPlan(a) ==
    LET complete ==
          /\ ~Dirty
          /\ Current(a, "mvp-gate", {"PASS"})
          /\ Current(a, "dry-run", {"PASS", "WARN"})
          /\ Current(a, "patch-preview", {"PATCH_PLANNED"})
          /\ Current(a, "lightspeed", {"PASS", "NEEDS_CONFIGURATION", "WARN"})
          /\ Current(a, "images", {"PASS"}) /\ ActualBuilds(a, {"owned", "all"})
          /\ Current(a, "rag-queue", {"PASS"})
        status == IF broken = "install-plan" THEN "BLOCKED"
                  ELSE IF complete THEN "APPROVAL_REQUIRED"
                  ELSE "NEEDS_EVIDENCE"
    IN  Report(status, ~complete)
-----------------------------------------------------------------------------
(* The lab: a machine with CRC that gets the images as a package.            *)

LabImageMap ==
    Report(IF Dirty THEN "NEEDS_CLEAN_WORKTREE"
           ELSE IF ~({"docker", "local-images"} \subseteq tools) THEN "NEEDS_LOCAL_IMAGES"
           ELSE IF "catalog-image" \notin tools THEN "NEEDS_CATALOG_IMAGE"
           ELSE IF broken = "lab-images" THEN "NEEDS_IMAGE_REPLACEMENTS"
           ELSE "READY_FOR_CRC_REGISTRY_REVIEW",
           FALSE)

\* The class of the connectivity is looked for where the diagnostic does not
\* write it, so that the statuses after NEEDS_OCP_LIVE_EVIDENCE are not reached.
LabPackage == {"docker", "local-images", "catalog-image", "package"} \subseteq tools

LabHandoff(a) ==
    LET packaged == /\ LabPackage
                    /\ Exists(a, "images") /\ a["images"].status = "PASS"
                    /\ ~Exists(a, "lab-images") \/ a["lab-images"].status
                         \notin {"NEEDS_LOCAL_IMAGES", "NEEDS_CATALOG_IMAGE"}
        current == ~Dirty /\ \A s \in {"lab-images", "target-profile", "connectivity"} :
                                 Fresh(a, s)
    IN  Report(IF ~packaged THEN "NEEDS_LOCAL_IMAGE_PACKAGE"
               ELSE IF ~current THEN "NEEDS_CURRENT_EVIDENCE"
               ELSE IF a["lab-images"].status # "READY_FOR_CRC_REGISTRY_REVIEW"
                    THEN "NEEDS_IMAGE_REF_MAPPING"
               ELSE IF a["target-profile"].status # "CRC_SANDBOX_READY"
                    THEN "NEEDS_CRC_TARGET"
               ELSE "NEEDS_OCP_LIVE_EVIDENCE",
               FALSE)

LabBootstrap(a) ==
    Report(IF Dirty THEN "NEEDS_CLEAN_WORKTREE"
           ELSE IF "docker" \notin tools THEN "NEEDS_TOOLING"
           ELSE IF ~Current(a, "images", {"PASS"}) THEN "NEEDS_LOCAL_ARTIFACTS"
           ELSE IF "catalog-image" \notin tools THEN "NEEDS_IMAGE_REF_MAPPING"
           ELSE IF ~LabPackage THEN "NEEDS_LOCAL_ARTIFACTS"
           ELSE "READY_FOR_REMOTE_LAB_PREP",
           FALSE)
=============================================================================
