------------------------------ MODULE AdminOverview ------------------------------
(***************************************************************************)
(* The admin overview of the API (apps/api/src/api.ts): one request reads   *)
(* the artifacts the scripts left in test-results/ and says of each how     *)
(* ready it is.  It compares no commit with the one checked out, and reads  *)
(* whatever is there while the refresh of EvidenceChain writes.             *)
(*                                                                          *)
(* An operator ...Status is a mapper from an artifact to a readiness, an    *)
(* operator ...Readiness the part of the overview that reads the artifact.  *)
(***************************************************************************)
EXTENDS EvidenceChain

\* A dirty artifact only needs evidence; a failed one is shown as such first.
Judged(r, failures, failed, ready) ==
    IF r.status \in failures THEN failed
    ELSE IF r.dirty THEN "needs-evidence"
    ELSE IF r.status \in DOMAIN ready THEN ready[r.status]
    ELSE "needs-evidence"

\* An artifact that was read in the middle of being written does not parse.
Torn == [status |-> "torn"]

ReadWhile(a, torn) == [s \in Scripts |-> IF s \in torn THEN Torn ELSE a[s]]

\* What the overview says of an artifact: its readiness "status", and what it found.
Shown(a, s, absent, unread, status) ==
    IF a[s] = Torn THEN unread
    ELSE IF ~Exists(a, s) THEN absent
    ELSE [status |-> status, found |-> a[s].status]

\* What is said of an artifact nothing is known of: "bad" if it did not parse.
Unknown(status, bad) ==
    [status |-> status, found |-> IF status = bad THEN "invalid" ELSE "missing"]
-----------------------------------------------------------------------------
(* Mappers.                                                                  *)

\* Fault: images of a dirty worktree are shown like those of a commit.
DirtyImageBuildStatus(r) ==
    IF r.status = "FAIL" THEN "failed"
    ELSE IF r.status = "PASS" THEN "ready"
    ELSE "needs-evidence"

ImageBuildStatus(r)      == Judged(r, {"FAIL"}, "failed", [PASS |-> "ready"])
OwnedProvenanceStatus(r) == Judged(r, {"BLOCKED", "FAIL"}, "failed", [PASS |-> "ready"])
ExternalPlanStatus(r) ==
    Judged(r, {"BLOCKED", "FAIL"}, "failed", [APPROVAL_REQUIRED |-> "approval-required"])
ReviewPacketStatus(r) == Judged(r, {"BLOCKED"}, "blocked", [REVIEW_PACKET_READY |-> "ready"])
OperatorPackageStatus(r) == Judged(r, {"FAIL"}, "failed", [PASS |-> "ready"])
DryRunStatus(r) == Judged(r, {"FAIL"}, "failed", [PASS |-> "ready", WARN |-> "partial"])
RuntimeBoundaryStatus(r) == Judged(r, {"FAIL"}, "failed", [PASS |-> "ready"])
InstallPlanStatus(r) ==
    Judged(r, {"BLOCKED", "FAIL"}, "failed", [APPROVAL_REQUIRED |-> "approval-required"])
ReleasePublishStatus(r) ==
    Judged(r, {"BLOCKED", "FAIL"}, "failed",
           [PUBLISH_APPROVAL_REQUIRED |-> "approval-required"])
\* The verifier writes FAILED, which is not among the failures.
CertificationStatus(r) ==
    Judged(r, {"BLOCKED", "FAIL"}, "failed",
           [READY_FOR_REVIEW |-> "ready-for-review", NEEDS_TOOLING |-> "needs-tooling"])
CatalogStatus(r) ==
    Judged(r, {"BLOCKED", "FAIL"}, "failed",
           [READY_FOR_DRY_RUN |-> "ready-for-dry-run", NEEDS_TOOLING |-> "needs-tooling"])
SecurityScanStatus(r) ==
    Judged(r, {"BLOCKED", "FAIL"}, "failed",
           [READY_FOR_SCAN |-> "ready-for-scan", NEEDS_TOOLING |-> "needs-tooling"])
RefreshStatus(r)     == Judged(r, {"BLOCKED"}, "blocked", [PASS |-> "ready"])
BundleStatus(r)      == Judged(r, {"BLOCKED"}, "blocked", [APPROVAL_READY |-> "approval-ready"])
ActionQueueStatus(r) == Judged(r, {"BLOCKED"}, "blocked", [ACTION_QUEUE_READY |-> "ready"])

\* Fault: a readiness that is blocked only needs evidence.
LenientRagProductionStatus(r) ==
    Judged(r, {}, "blocked", [APPROVAL_REQUIRED |-> "approval-required"])

RagProductionStatus(r) ==
    Judged(r, {"BLOCKED"}, "blocked", [APPROVAL_REQUIRED |-> "approval-required"])
ExtensionPointStatus(r) ==
    IF r.status = "PASS" /\ ~r.dirty THEN "ready"
    ELSE IF r.status \in {"FAIL", "FAILED", "invalid"} THEN "failed"
    ELSE "needs-evidence"
EnvContractStatus(r) ==
    IF r.status = "PASS" /\ ~r.dirty THEN "ready"
    ELSE IF r.status = "FAIL" THEN "failed"
    ELSE "needs-evidence"
AiopsStatus(r) ==
    IF r.status = "FAIL" THEN "failed"
    ELSE IF r.status = "PASS" /\ ~r.dirty THEN "ready"
    ELSE "needs-live-evidence"

\* These do not look at the worktree the artifact was written in.
LightspeedStatus(r) ==
    CASE r.status = "PASS" -> "ready"
      [] r.status = "NEEDS_CONFIGURATION" -> "needs-configuration"
      [] r.status = "FAIL" -> "failed"
ConnectivityStatus(r) ==
    IF r.status = "PASS" /\ r.class = "api-ready" THEN "ready" ELSE "needs-evidence"
CommunityStatus(r) ==
    IF r.status = "PASS" THEN "ready"
    ELSE IF r.status = "FAILED" THEN "failed"
    ELSE "needs-evidence"
ReadyIn(r, statuses, failures) ==
    IF r.status \in statuses THEN "ready"
    ELSE IF r.status \in failures THEN "blocked"
    ELSE "needs-evidence"
CheckpointStatus(r)     == ReadyIn(r, {"PASS"}, {"BLOCKED"})
LiveHandoffStatus(r)    == ReadyIn(r, {"PASS"}, {"BLOCKED"})
NetworkHandoffStatus(r) == ReadyIn(r, {"READY_FOR_LIVE_RECHECK", "PASS"}, {"BLOCKED"})
ApiFallbackStatus(r)    == ReadyIn(r, {"PASS"}, {"FAIL", "BLOCKED"})
AuthRbacStatus(r)       == ReadyIn(r, {"READY_FOR_LIVE_CHECK", "PASS"}, {"BLOCKED"})
CompletionGateStatus(r) == ReadyIn(r, {"PASS"}, {"BLOCKED"})
PreClusterStatus(r)     == ReadyIn(r, {"READY_FOR_CLUSTER_INSTALL"}, {})
RoadmapStatus(r) ==
    IF r.status = "BLOCKED" THEN "blocked"
    ELSE IF r.status = "PASS" /\ r.remaining = {} THEN "ready"
    ELSE "needs-evidence"
RoutingStatus(r) ==
    IF r.status # "PASS" THEN "failed"
    ELSE IF r.dirty THEN "needs-evidence"
    ELSE "pass"
TrojanHorseStatus(r) == RoutingStatus(r)
IntegrationStatus(r) ==
    IF r.status = "READY_FOR_LIVE_REGISTRATION_REVIEW"
    THEN "ready-for-live-registration-review"
    ELSE IF r.status = "LIVE_READY" THEN "live-ready"
    ELSE IF r.status = "BLOCKED" THEN "blocked"
    ELSE "needs-evidence"
LabBootstrapStatus(r) ==
    CASE r.status = "READY_FOR_REMOTE_LAB_PREP" -> "ready-for-remote-prep"
      [] r.status = "NEEDS_IMAGE_REF_MAPPING" -> "needs-image-ref-mapping"
      [] r.status \in {"NEEDS_LOCAL_ARTIFACTS", "NEEDS_TOOLING"} -> "needs-local-artifacts"
      [] r.status = "NEEDS_CLEAN_WORKTREE" -> "blocked"
LabHandoffStatus(r) ==
    CASE r.status = "NEEDS_CURRENT_EVIDENCE" -> "needs-current-evidence"
      [] r.status = "NEEDS_LOCAL_IMAGE_PACKAGE" -> "needs-local-package"
      [] r.status = "NEEDS_IMAGE_REF_MAPPING" -> "needs-image-ref-mapping"
      [] r.status = "NEEDS_CRC_TARGET" -> "needs-crc-target"
      [] r.status = "NEEDS_OCP_LIVE_EVIDENCE" -> "needs-ocp-live"
-----------------------------------------------------------------------------
(* Summaries of what is not there or does not parse.                          *)

MissingExtensionPoint(found) ==
    [status |-> ExtensionPointStatus([status |-> found, dirty |-> FALSE]), found |-> found]
MissingIntegrationHandoff(found) ==
    [status |-> IF found = "invalid" THEN "failed" ELSE "needs-evidence", found |-> found]
MissingOperatorPackage(status, found) == [status |-> status, found |-> found]
\* Whatever happened, the packet is called missing.
MissingReviewPacket(status)     == [status |-> status, found |-> "missing"]
MissingOwnedProvenance(status)  == Unknown(status, "failed")
MissingCommunity(status)        == Unknown(status, "failed")
MissingCertification(status)    == Unknown(status, "failed")
MissingCatalogToolchain(status) == Unknown(status, "failed")
MissingLabBootstrap(status)     == Unknown(status, "failed")
MissingLabHandoff(status)       == Unknown(status, "failed")
MissingSecurityScan(status)     == Unknown(status, "failed")
MissingRefresh(status)          == Unknown(status, "blocked")
MissingBundle(status)           == Unknown(status, "blocked")
MissingRoadmap(status)          == Unknown(status, "blocked")
MissingCompletionGate(status)   == Unknown(status, "blocked")
MissingPreCluster(status)       == Unknown(status, "blocked")
MissingActionQueue(status)      == Unknown(status, "blocked")
MissingRagProduction(status)    == Unknown(status, "blocked")
MissingApiFallback(status)      == Unknown(status, "blocked")
MissingLiveHandoff(status)      == Unknown(status, "blocked")
MissingNetworkHandoff(status)   == Unknown(status, "blocked")
MissingAuthRbac(status)         == Unknown(status, "blocked")
-----------------------------------------------------------------------------
(* The parts of the overview.                                                *)

LightspeedMcpReadiness(a) ==
    Shown(a, "lightspeed", Unknown("needs-live-check", "failed"),
          Unknown("failed", "failed"), LightspeedStatus(a["lightspeed"]))
RoutingScore(a) ==
    Shown(a, "routing", Unknown("needs-evidence", "failed"),
          Unknown("failed", "failed"), RoutingStatus(a["routing"]))
TrojanHorseProof(a) ==
    Shown(a, "trojan-horse", Unknown("needs-evidence", "failed"),
          Unknown("failed", "failed"), TrojanHorseStatus(a["trojan-horse"]))
ImageBuildReadiness(a) ==
    Shown(a, "images", Unknown("needs-evidence", "failed"),
          Unknown("failed", "failed"), ImageBuildStatus(a["images"]))
OwnedProvenanceReadiness(a) ==
    Shown(a, "provenance", MissingOwnedProvenance("needs-evidence"),
          MissingOwnedProvenance("failed"), OwnedProvenanceStatus(a["provenance"]))
ExternalPlanReadiness(a) ==
    Shown(a, "external-plan", Unknown("needs-evidence", "failed"),
          Unknown("failed", "failed"), ExternalPlanStatus(a["external-plan"]))
ReviewPacketReadiness(a) ==
    Shown(a, "review-packet", MissingReviewPacket("needs-evidence"),
          MissingReviewPacket("blocked"), ReviewPacketStatus(a["review-packet"]))
OperatorPackageReadiness(a) ==
    Shown(a, "operator-package", MissingOperatorPackage("needs-evidence", "missing"),
          MissingOperatorPackage("failed", "invalid"), OperatorPackageStatus(a["operator-package"]))
DryRunReadiness(a) ==
    Shown(a, "dry-run", Unknown("needs-evidence", "failed"),
          Unknown("failed", "failed"), DryRunStatus(a["dry-run"]))
RuntimeBoundaryReadiness(a) ==
    Shown(a, "operator-parity", Unknown("needs-evidence", "failed"),
          [status |-> "failed", found |-> "parse-error"],
          RuntimeBoundaryStatus(a["operator-parity"]))
EnvContractReadiness(a) ==
    Shown(a, "env-contract", Unknown("needs-evidence", "failed"),
          Unknown("failed", "failed"), EnvContractStatus(a["env-contract"]))
ConnectivityReadiness(a) ==
    Shown(a, "connectivity", Unknown("needs-evidence", "failed"),
          Unknown("failed", "failed"), ConnectivityStatus(a["connectivity"]))
InstallPlanReadiness(a) ==
    Shown(a, "install-plan", Unknown("needs-evidence", "failed"),
          Unknown("failed", "failed"), InstallPlanStatus(a["install-plan"]))
ReleasePublishReadiness(a) ==
    Shown(a, "release-plan", Unknown("needs-evidence", "failed"),
          Unknown("failed", "failed"), ReleasePublishStatus(a["release-plan"]))
CommunityReadiness(a) ==
    Shown(a, "community", MissingCommunity("needs-evidence"),
          MissingCommunity("failed"), CommunityStatus(a["community"]))
CertificationReadiness(a) ==
    Shown(a, "certification", MissingCertification("needs-evidence"),
          MissingCertification("failed"), CertificationStatus(a["certification"]))
CatalogReadiness(a) ==
    Shown(a, "catalog", MissingCatalogToolchain("needs-evidence"),
          MissingCatalogToolchain("failed"), CatalogStatus(a["catalog"]))
LabBootstrapReadiness(a) ==
    Shown(a, "lab-bootstrap", MissingLabBootstrap("needs-evidence"),
          MissingLabBootstrap("failed"), LabBootstrapStatus(a["lab-bootstrap"]))
LabHandoffReadiness(a) ==
    Shown(a, "lab-handoff", MissingLabHandoff("needs-evidence"),
          MissingLabHandoff("failed"), LabHandoffStatus(a["lab-handoff"]))
SecurityScanReadiness(a) ==
    Shown(a, "scan-plan", MissingSecurityScan("needs-evidence"),
          MissingSecurityScan("failed"), SecurityScanStatus(a["scan-plan"]))
RefreshReadiness(a) ==
    Shown(a, "refresh", MissingRefresh("needs-evidence"),
          MissingRefresh("blocked"), RefreshStatus(a["refresh"]))
BundleReadiness(a) ==
    Shown(a, "bundle", MissingBundle("needs-evidence"),
          MissingBundle("blocked"), BundleStatus(a["bundle"]))
RoadmapCompletion(a) ==
    Shown(a, "roadmap", MissingRoadmap("needs-evidence"),
          MissingRoadmap("blocked"), RoadmapStatus(a["roadmap"]))
CompletionGateSummary(a) ==
    Shown(a, "completion", MissingCompletionGate("needs-evidence"),
          MissingCompletionGate("blocked"), CompletionGateStatus(a["completion"]))
PreClusterSummary(a) ==
    Shown(a, "pre-cluster", MissingPreCluster("needs-evidence"),
          MissingPreCluster("blocked"), PreClusterStatus(a["pre-cluster"]))
ActionQueueReadiness(a) ==
    Shown(a, "queue", MissingActionQueue("needs-evidence"),
          MissingActionQueue("blocked"), ActionQueueStatus(a["queue"]))
RagProductionReadiness(a) ==
    Shown(a, "rag-production", MissingRagProduction("needs-evidence"),
          MissingRagProduction("blocked"), RagProductionStatus(a["rag-production"]))
ExtensionPointReadiness(a) ==
    Shown(a, "extension-point", MissingExtensionPoint("missing"),
          MissingExtensionPoint("invalid"), ExtensionPointStatus(a["extension-point"]))
LiveHandoffReadiness(a) ==
    Shown(a, "live-handoff", MissingLiveHandoff("needs-evidence"),
          MissingLiveHandoff("blocked"), LiveHandoffStatus(a["live-handoff"]))
NetworkHandoffReadiness(a) ==
    Shown(a, "network-handoff", MissingNetworkHandoff("needs-evidence"),
          MissingNetworkHandoff("blocked"), NetworkHandoffStatus(a["network-handoff"]))
ApiFallbackReadiness(a) ==
    Shown(a, "api-fallback", MissingApiFallback("needs-evidence"),
          MissingApiFallback("blocked"), ApiFallbackStatus(a["api-fallback"]))
AuthRbacReadiness(a) ==
    Shown(a, "auth-rbac", MissingAuthRbac("needs-evidence"),
          MissingAuthRbac("blocked"), AuthRbacStatus(a["auth-rbac"]))
CheckpointReadiness(a) ==
    Shown(a, "checkpoint", Unknown("needs-evidence", "blocked"),
          Unknown("blocked", "blocked"), CheckpointStatus(a["checkpoint"]))
AiopsReadiness(a) ==
    Shown(a, "aiops", Unknown("needs-live-evidence", "failed"),
          Unknown("failed", "failed"), AiopsStatus(a["aiops"]))
IntegrationHandoff(a) ==
    Shown(a, "integration", MissingIntegrationHandoff("missing"),
          MissingIntegrationHandoff("invalid"), IntegrationStatus(a["integration"]))

\* The parts of the overview, each by the script whose artifact it is about.
Parts ==
    {"lightspeed", "routing", "trojan-horse", "images", "provenance",
     "external-plan", "review-packet", "operator-package", "dry-run",
     "operator-parity", "env-contract", "connectivity", "install-plan",
     "release-plan", "community", "certification", "catalog", "lab-bootstrap",
     "lab-handoff", "scan-plan", "refresh", "bundle", "roadmap", "completion",
     "pre-cluster", "queue", "rag-production", "extension-point", "live-handoff",
     "network-handoff", "api-fallback", "auth-rbac", "checkpoint", "aiops",
     "integration"}

Part(a, s) ==
    CASE s = "lightspeed" -> LightspeedMcpReadiness(a)
      [] s = "routing" -> RoutingScore(a)
      [] s = "trojan-horse" -> TrojanHorseProof(a)
      [] s = "images" -> ImageBuildReadiness(a)
      [] s = "provenance" -> OwnedProvenanceReadiness(a)
      [] s = "external-plan" -> ExternalPlanReadiness(a)
      [] s = "review-packet" -> ReviewPacketReadiness(a)
      [] s = "operator-package" -> OperatorPackageReadiness(a)
      [] s = "dry-run" -> DryRunReadiness(a)
      [] s = "operator-parity" -> RuntimeBoundaryReadiness(a)
      [] s = "env-contract" -> EnvContractReadiness(a)
      [] s = "connectivity" -> ConnectivityReadiness(a)
      [] s = "install-plan" -> InstallPlanReadiness(a)
      [] s = "release-plan" -> ReleasePublishReadiness(a)
      [] s = "community" -> CommunityReadiness(a)
      [] s = "certification" -> CertificationReadiness(a)
      [] s = "catalog" -> CatalogReadiness(a)
      [] s = "lab-bootstrap" -> LabBootstrapReadiness(a)
      [] s = "lab-handoff" -> LabHandoffReadiness(a)
      [] s = "scan-plan" -> SecurityScanReadiness(a)
      [] s = "refresh" -> RefreshReadiness(a)
      [] s = "bundle" -> BundleReadiness(a)
      [] s = "roadmap" -> RoadmapCompletion(a)
      [] s = "completion" -> CompletionGateSummary(a)
      [] s = "pre-cluster" -> PreClusterSummary(a)
      [] s = "queue" -> ActionQueueReadiness(a)
      [] s = "rag-production" -> RagProductionReadiness(a)
      [] s = "extension-point" -> ExtensionPointReadiness(a)
      [] s = "live-handoff" -> LiveHandoffReadiness(a)
      [] s = "network-handoff" -> NetworkHandoffReadiness(a)
      [] s = "api-fallback" -> ApiFallbackReadiness(a)
      [] s = "auth-rbac" -> AuthRbacReadiness(a)
      [] s = "checkpoint" -> CheckpointReadiness(a)
      [] s = "aiops" -> AiopsReadiness(a)
      [] s = "integration" -> IntegrationHandoff(a)

Overview(a) == [s \in Parts |-> Part(a, s)]

\* What the overview shows of an artifact a reader may build on.
Favourable == {"ready", "approval-required", "ready-for-review", "ready-for-scan",
               "approval-ready"}
-----------------------------------------------------------------------------
(* What the overview shows as ready or as ready to be approved was claimed  *)
(* by an artifact of a clean commit, together with everything that claim    *)
(* rests on, even where a mapper does not look at the worktree; the commit  *)
(* need not be the one checked out.  The roadmap is the exception: it may   *)
(* pass in a worktree edited after the checkpoint, and is shown as ready    *)
(* then, but what it rests on was claimed all the same.                     *)
OverviewRests ==
    LET overview == Overview(artifacts)
        committed(c) == IF c = "roadmap" /\ artifacts[c].dirty THEN {} ELSE {c}
    IN  \A c \in Claims \cap Parts :
            overview[c].status \in Favourable =>
                \A d \in committed(c) \cup RestsOn(c) : <<d, artifacts[c].head>> \in good

\* What may be being written when a request reads it.
BeingWritten ==
    ByHand \cup (IF InChain THEN {CurrentStep.script} ELSE IF Idle THEN {} ELSE {"refresh"})

(* A script that failed, and an artifact that is being written when the     *)
(* overview reads it, are shown as failed or blocked, whatever the other    *)
(* parts say, and what did not parse is not taken for missing.  The         *)
(* certification is the exception: its verifier writes FAILED where the     *)
(* overview looks for FAIL; and the review packet is called missing.        *)
FailuresShown ==
    \A torn \in {{}, BeingWritten} :
        LET overview == Overview(ReadWhile(artifacts, torn))
            failed == {s \in Scripts \ {"certification"} :
                          Exists(artifacts, s) /\ Failed(artifacts[s])}
        IN  \A s \in (failed \cup torn) \cap Parts :
                /\ overview[s].status \in {"failed", "blocked"}
                /\ s \in torn \ {"review-packet"} => overview[s].found # "missing"
=============================================================================
