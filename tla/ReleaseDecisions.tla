---------------------------- MODULE ReleaseDecisions ----------------------------
(***************************************************************************)
(* The verifiers of scripts/ that judge the artifacts of the others: the    *)
(* checkpoint gives every artifact a lane, the roadmap asks stages of lanes *)
(* and of the action queue, the queue makes an item of every open point and *)
(* a critical path of the items, the bundle decides whether a release may   *)
(* be approved, and two gates close the chain: the claim that everything is *)
(* done and the permission to install.  Roadmap, bundle and queue read each *)
(* other, so that the chain runs them twice.                                *)
(***************************************************************************)
EXTENDS ReleaseArtifacts
-----------------------------------------------------------------------------
(* The checkpoint.                                                           *)

PassLanes == {"mvp-gate", "opsbrain", "env-contract", "runtime-rag-fixture", "rag-queue",
              "extension-point", "routing", "trojan-horse", "community", "images",
              "provenance", "connectivity", "operator-package", "operator-reconcile",
              "operator-parity", "console-plugin", "live-handoff", "api-fallback"}

OtherLanes == {"target-profile", "runtime-readiness", "runtime-rag", "aiops",
               "rag-production", "integration", "certification", "catalog", "auth-rbac",
               "dry-run", "lightspeed", "patch-preview", "external-plan", "review-packet",
               "scan-plan", "scan-runner", "release-plan", "install-plan",
               "network-handoff"}

Lanes == PassLanes \cup OtherLanes

ReadyTargets == {"CRC_SANDBOX_READY", "COMPANY_SHARED_READ_ONLY"}

AuthRbacStatuses ==
    {"READY_FOR_LIVE_CHECK", "AUTH_RBAC_APPROVAL_REQUIRED", "WAITING_FOR_CONNECTIVITY"}

\* The statuses every lane wants.
Wanted(s) ==
    CASE s \in PassLanes -> {"PASS"}
      [] s = "target-profile" -> ReadyTargets
      [] s \in {"runtime-readiness", "runtime-rag", "aiops"} -> {"PASS", "NEEDS_LIVE_EVIDENCE"}
      [] s \in {"rag-production", "external-plan", "install-plan"} -> {"APPROVAL_REQUIRED"}
      [] s = "integration" ->
           {"READY_FOR_LIVE_REGISTRATION_REVIEW", "LIVE_READY", "NEEDS_EVIDENCE"}
      [] s = "certification" -> {"READY_FOR_REVIEW"}
      [] s = "catalog" -> {"READY_FOR_DRY_RUN", "NEEDS_TOOLING"}
      [] s = "auth-rbac" -> AuthRbacStatuses
      [] s = "dry-run" -> {"PASS", "WARN"}
      [] s = "lightspeed" -> {"PASS", "NEEDS_CONFIGURATION"}
      [] s = "patch-preview" -> {"PATCH_PLANNED", "PASS"}
      [] s = "review-packet" -> {"REVIEW_PACKET_READY"}
      [] s = "scan-plan" -> {"READY_FOR_SCAN", "NEEDS_TOOLING"}
      [] s = "scan-runner" -> {"PLAN_READY", "EVIDENCE_WRITTEN"}
      [] s = "release-plan" -> {"PUBLISH_APPROVAL_REQUIRED"}
      [] s = "network-handoff" ->
           {"READY_FOR_NETWORK_REVIEW", "READY_FOR_LIVE_RECHECK", "PASS"}

\* A Lightspeed readiness that fails for want of a cluster only needs evidence.
Waits(a, s) ==
    \/ a[s].status \in {"NEEDS_EVIDENCE", "NEEDS_TOOLING"}
    \/ s = "lightspeed" /\ a[s].status = "FAIL"

LaneBlocked(a, s) == Exists(a, s) /\ a[s].status \notin Wanted(s) /\ ~Waits(a, s)

LaneWaits(a, s) == ~Fresh(a, s) \/ (a[s].status \notin Wanted(s) /\ Waits(a, s))

Checkpoint(a) ==
    LET blocked == {s \in Lanes : LaneBlocked(a, s)}
        waiting == {s \in Lanes : LaneWaits(a, s)}
    IN  [head |-> head, dirty |-> Dirty, gaps |-> waiting # {},
         status |-> IF blocked # {} THEN "BLOCKED"
                    ELSE IF waiting # {} \/ Dirty THEN "NEEDS_EVIDENCE"
                    ELSE "PASS",
         blocked |-> blocked, open |-> blocked \cup waiting]

\* A lane the checkpoint on record does not pass.
Open(a, s) == Exists(a, "checkpoint") /\ s \in a["checkpoint"].open
-----------------------------------------------------------------------------
(* The release action queue.  An item belongs to an owner and, unless it has *)
(* none, to a lane of the critical path, where it has a place: blockers      *)
(* first, then in the order they are made.  It offers its owner read-only    *)
(* commands and a ticket, or it does not.                                    *)

Handoff == {"read-only", "ticket"}

Item(lane, place, owner, offers) ==
    [lane |-> lane, place |-> place, owner |-> owner, offers |-> offers]

When(condition, items) == IF condition THEN items ELSE {}

OffersOf(readOnly, ticket) == When(readOnly, {"read-only"}) \cup When(ticket, {"ticket"})

\* What an item takes over from the artifact of a script.
OffersFrom(a, s) == When(Exists(a, s), Handoff)

AuthLike(class) == class = "token-missing"

\* The owner of an outage, by its class.
NetworkOwner(class) == IF AuthLike(class) THEN "cluster-admin" ELSE "network-sre"

ClassIn(a, s) == IF Exists(a, s) THEN a[s].class ELSE "unknown"

NetworkOffers(a) ==
    OffersOf(Exists(a, "network-handoff") /\ a["network-handoff"].commands,
             Exists(a, "network-handoff"))

\* Without a token the commands are those of the plan for access.
ConnectivityItem(a) ==
    LET class == ClassIn(a, "network-handoff")
    IN  Item("live-ocp-lightspeed", 1, NetworkOwner(class),
             IF AuthLike(class)
             THEN OffersOf(Exists(a, "auth-rbac"), Exists(a, "network-handoff"))
             ELSE NetworkOffers(a))

LightspeedItem(a) ==
    LET class == ClassIn(a, "lightspeed")
        owner == IF class \in {"token-missing", "not-configured"} THEN "cluster-admin"
                 ELSE IF class = "unreachable" THEN "network-sre"
                 ELSE "cluster-sre"
        ticket == IF AuthLike(class) THEN Exists(a, "auth-rbac")
                  ELSE IF class = "unreachable" THEN Exists(a, "network-handoff")
                  ELSE TRUE
    IN  Item("lightspeed-auth-rbac", 1, owner, OffersOf(TRUE, ticket))

CheckpointItems(a) ==
    UNION {
      When(Open(a, "connectivity"), {ConnectivityItem(a)}),
      When(Open(a, "lightspeed"), {LightspeedItem(a)}),
      When(Open(a, "external-plan"),
           {Item("external-runtime-final-evidence", 11, "release-manager", Handoff)}),
      When(Open(a, "certification"),
           {Item("certification-toolchain", 11, "release-manager",
                 OffersFrom(a, "certification"))}),
      When(Open(a, "release-plan"),
           {Item("release-publish", 11, "release-manager", OffersFrom(a, "release-plan"))}),
      When(Open(a, "install-plan"),
           {Item("install-approval", 11, "cluster-admin", OffersFrom(a, "install-plan"))})}

\* No lane is found for the environment, be it a blocker.
EnvContractItems(a) ==
    When(\/ ~Current(a, "env-contract", {"PASS"})
         \/ ~a["env-contract"].targets,
         {Item(None, 0, "cluster-sre", {"read-only"})})

\* The item of a target profile has no ticket, and comes first when the
\* profile blocks: its source is read as one of the live lane.
TargetProfileItems(a) ==
    LET bad == ~Exists(a, "target-profile") \/ a["target-profile"].status \notin ReadyTargets
    IN  When(~Fresh(a, "target-profile") \/ bad \/ Gaps(a, "target-profile"),
             {Item("live-ocp-lightspeed", IF bad THEN 0 ELSE 11, "cluster-sre",
                   {"read-only"})})

\* Only two of the reviewers asked for evidence get a ticket; the comparison
\* of candidate images is asked for whatever it says, and without one.
ExternalRuntimeItems(a) ==
    IF ~Exists(a, "review-packet") THEN {}
    ELSE When(a["review-packet"].asks,
              {Item("external-runtime-review", 1, "registry-admin", Handoff),
               Item("external-runtime-review", 11, "security-reviewer", {"read-only"}),
               Item("external-runtime-review", 12, "release-manager", {"read-only"}),
               Item("external-runtime-license-review", 11, "product-owner", Handoff)})
           \cup {Item("external-runtime-review", 13, "security-reviewer", {"read-only"})}

SecurityScanItems(a) ==
    When(Exists(a, "scan-plan") /\ ~a["scan-plan"].reviewed,
         {Item("security-review", 11, "security-reviewer", Handoff)})

\* A bundle that is not there is not ready either.
BundleDecisionItems(a) ==
    When(~Exists(a, "bundle") \/ ~a["bundle"].decision.publishReady,
         {Item("release-publish", 12, "release-manager", {})})
    \cup When(~Exists(a, "bundle") \/ ~a["bundle"].decision.installReady,
              {Item("install-approval", 12, "cluster-admin", {})})

\* The toolchain is what the bundle copied.
CatalogToolchainItems(a) ==
    When(Exists(a, "bundle") /\ ~a["bundle"].decision.registry,
         {Item("catalog-registry-auth", 11, "registry-admin",
               OffersOf(a["bundle"].decision.catalog, TRUE))})

\* Of the RAG artifacts, two always list missing evidence.
RuntimeLiveItems(a) ==
    When(Gaps(a, "runtime-readiness"),
         {Item("runtime-live", 11, "runtime-platform", Handoff)})
    \cup When(Gaps(a, "runtime-rag") \/ Gaps(a, "runtime-rag-fixture"),
              {Item("runtime-rag-quality", 11, "data-ml-engineer", Handoff)})
    \cup When(Gaps(a, "rag-production"), {Item("rag-production", 11, "rag-owner", Handoff)})

AiopsMonitoringItems(a) ==
    When(Exists(a, "aiops") /\ ~a["aiops"].monitored,
         {Item("aiops-monitoring", 11, "cluster-sre", Handoff)})

NetworkItems(a) ==
    When(/\ Exists(a, "network-handoff")
         /\ a["network-handoff"].status \notin {"READY_FOR_LIVE_RECHECK", "PASS"},
         {Item("live-ocp-lightspeed", 2, NetworkOwner(ClassIn(a, "network-handoff")),
               NetworkOffers(a))})

AuthRbacItems(a) ==
    When(/\ Exists(a, "auth-rbac")
         /\ a["auth-rbac"].status \notin {"READY_FOR_LIVE_CHECK", "PASS"},
         {Item("ocp-live-reader-rbac", 1,
               IF AuthLike(ClassIn(a, "auth-rbac")) THEN "cluster-admin" ELSE "cluster-sre",
               Handoff)})

QueueItems(a) ==
    UNION {EnvContractItems(a), TargetProfileItems(a), CheckpointItems(a),
           ExternalRuntimeItems(a), SecurityScanItems(a), BundleDecisionItems(a),
           CatalogToolchainItems(a), RuntimeLiveItems(a), AiopsMonitoringItems(a),
           NetworkItems(a), AuthRbacItems(a)}

\* Every lane keeps its first item.
CriticalPath(items) ==
    {i \in items : i.lane # None /\ \A j \in items : j.lane = i.lane => i.place <= j.place}

LanesOf(items) == {i.lane : i \in items}

\* The packet of an owner offers what any of its items offers.
OwnerPackets(items) ==
    [o \in {i.owner : i \in items} |-> UNION {i.offers : i \in {i \in items : i.owner = o}}]

QueueSources == {"bundle", "env-contract", "checkpoint"}

QueueGapSources == {"bundle", "opsbrain", "env-contract", "target-profile", "checkpoint",
                    "scan-plan", "rag-production"}

\* Every owner and every entry of the path must be offered both.
ActionQueue(a) ==
    LET items == QueueItems(a)
        packets == OwnerPackets(items)
        path == CriticalPath(items)
        ready == /\ \A s \in QueueSources : Exists(a, s)
                 /\ \A o \in DOMAIN packets : Handoff \subseteq packets[o]
                 /\ \A i \in path : Handoff \subseteq i.offers
    IN  [head |-> head, dirty |-> Dirty,
         status |-> IF ready THEN "ACTION_QUEUE_READY" ELSE "BLOCKED",
         gaps |-> items # {} \/ \E s \in QueueGapSources : Gaps(a, s),
         path |-> LanesOf(path),
         unticketed |-> LanesOf({i \in path : "ticket" \notin i.offers})]

QueueReady(a) == Exists(a, "queue") /\ a["queue"].status = "ACTION_QUEUE_READY"
-----------------------------------------------------------------------------
(* The roadmap.                                                              *)

StageLanes == {"extension-point", "routing", "trojan-horse", "integration",
               "target-profile", "connectivity", "lightspeed", "live-handoff",
               "network-handoff", "api-fallback", "auth-rbac", "aiops", "rag-queue",
               "console-plugin", "operator-package", "operator-reconcile",
               "operator-parity", "dry-run", "install-plan", "certification",
               "community", "catalog", "external-plan", "review-packet", "scan-plan",
               "scan-runner", "release-plan", "provenance", "images"}

\* Steps of the MVP gate that the stages ask for ("mvp-gate": its build).
StageSteps == {"mvp-gate", "routing", "trojan-horse", "integration", "auth-rbac",
               "live-handoff", "network-handoff", "api-fallback", "runtime-rag",
               "runtime-rag-fixture", "aiops", "console-plugin", "rag-queue",
               "operator-package", "operator-reconcile", "operator-parity",
               "certification"}

ProofStatuses == {"extension-point", "api-fallback", "aiops", "operator-package",
                  "operator-reconcile", "operator-parity", "community"}

FreshSources == {"checkpoint", "target-profile", "extension-point", "mvp-gate", "aiops",
                 "images", "provenance", "console-plugin", "operator-package",
                 "operator-reconcile", "operator-parity", "install-plan", "api-fallback",
                 "community", "queue"}

\* The stages want a ticket in each of these lanes of the queue.
StageTickets == {"live-ocp-lightspeed", "external-runtime-review",
                 "certification-toolchain", "security-review", "release-publish",
                 "install-approval"}

Ticketed(a, lane) ==
    QueueReady(a) /\ lane \in a["queue"].path \ a["queue"].unticketed

CriticalPathSafe(a) ==
    QueueReady(a) /\ a["queue"].path # {} /\ a["queue"].unticketed = {}

TargetGuarded(a) ==
    /\ Exists(a, "target-profile")
    /\ a["target-profile"].status \in ReadyTargets
    /\ ~a["target-profile"].gaps

StepFailed(a, s) == Exists(a, "mvp-gate") /\ s \in a["mvp-gate"].failed

Blockers(a) ==
    ({"lane"} \X {s \in StageLanes : Exists(a, "checkpoint") /\ s \in a["checkpoint"].blocked})
    \cup ({"step"} \X {s \in StageSteps : StepFailed(a, s)})

Requirements ==
    ({"lane"} \X StageLanes) \cup ({"step"} \X StageSteps) \cup ({"proof"} \X ProofStatuses)
    \cup ({"fresh"} \X FreshSources) \cup ({"ticket"} \X StageTickets)
    \cup {<<"queue", "critical-path">>, <<"guard", "target-profile">>,
          <<"builds", "images">>, <<"registration", "install-plan">>}

\* What is still to be done, by the kind of requirement.
Remaining(a) ==
    Blockers(a)
    \cup ({"lane"} \X {s \in StageLanes : ~Exists(a, "checkpoint") \/ Open(a, s)})
    \cup ({"step"} \X {s \in StageSteps : ~Exists(a, "mvp-gate")})
    \cup ({"proof"} \X {s \in ProofStatuses : ~Exists(a, s) \/ a[s].status # "PASS"})
    \cup ({"fresh"} \X {s \in FreshSources : ~Fresh(a, s)})
    \cup ({"ticket"} \X {l \in StageTickets : ~Ticketed(a, l)})
    \cup (IF CriticalPathSafe(a) THEN {} ELSE {<<"queue", "critical-path">>})
    \cup (IF TargetGuarded(a) THEN {} ELSE {<<"guard", "target-profile">>})
    \cup (IF ActualBuilds(a, {"owned", "all"}) THEN {} ELSE {<<"builds", "images">>})
    \cup (IF Exists(a, "install-plan") THEN {} ELSE {<<"registration", "install-plan">>})

Roadmap(a) ==
    LET remaining == Remaining(a)
        gaps == remaining # {} \/ \E s \in ProofStatuses : Gaps(a, s)
    IN  [head |-> head, dirty |-> Dirty, gaps |-> gaps, remaining |-> remaining,
         status |-> IF Blockers(a) # {} THEN "BLOCKED"
                    ELSE IF gaps \/ a["checkpoint"].status = "NEEDS_EVIDENCE"
                         THEN "NEEDS_EVIDENCE"
                    ELSE "PASS"]
-----------------------------------------------------------------------------
(* The release bundle.                                                       *)

\* The statuses of a source the bundle accepts.
Acceptable(s) ==
    IF s \in {"mvp-gate", "opsbrain", "env-contract", "console-plugin", "extension-point",
              "images", "provenance", "community", "live-handoff", "api-fallback",
              "operator-package", "operator-reconcile", "operator-parity"} THEN {"PASS"}
    ELSE IF s \in {"certification", "external-plan", "release-plan", "install-plan"} THEN
           Wanted(s) \cup {"NEEDS_EVIDENCE", "NEEDS_TOOLING"}
    ELSE IF s \in {"checkpoint", "roadmap"} THEN {"PASS", "NEEDS_EVIDENCE"}
    ELSE IF s = "queue" THEN {"ACTION_QUEUE_READY"}
    ELSE Wanted(s)

BundleSources ==
    {"mvp-gate", "opsbrain", "env-contract", "target-profile", "console-plugin",
     "extension-point", "images", "provenance", "certification", "community", "catalog",
     "external-plan", "review-packet", "scan-plan", "scan-runner", "release-plan",
     "install-plan", "integration", "live-handoff", "network-handoff", "api-fallback",
     "auth-rbac", "operator-package", "operator-reconcile", "operator-parity",
     "checkpoint", "roadmap", "queue"}

GapSources ==
    {"checkpoint", "target-profile", "release-plan", "install-plan", "certification",
     "community", "catalog", "external-plan", "review-packet", "scan-plan",
     "scan-runner", "extension-point", "integration", "live-handoff",
     "network-handoff", "api-fallback", "auth-rbac"}

QueueSafe(a) == Fresh(a, "queue") /\ CriticalPathSafe(a)

EvidenceGaps(a) ==
    \/ \E s \in BundleSources : ~Current(a, s, Acceptable(s))
    \/ \E s \in GapSources : Gaps(a, s)

StatusIs(a, s, status) == Exists(a, s) /\ a[s].status = status

ReleaseDecision(a) ==
    [catalog         |-> Exists(a, "catalog"),
     registry        |-> Exists(a, "catalog") /\ a["catalog"].registry,
     publishReady    |-> StatusIs(a, "release-plan", "PUBLISH_APPROVAL_REQUIRED"),
     installReady    |-> StatusIs(a, "install-plan", "APPROVAL_REQUIRED"),
     roadmapComplete |-> StatusIs(a, "roadmap", "PASS"),
     remaining       |-> IF Exists(a, "roadmap") THEN a["roadmap"].remaining ELSE {}]

Decisions ==
    [catalog : BOOLEAN, registry : BOOLEAN, publishReady : BOOLEAN, installReady : BOOLEAN,
     roadmapComplete : BOOLEAN, remaining : SUBSET Requirements]

AllReady(d) == d.publishReady /\ d.installReady /\ d.roadmapComplete

Bundle(a) ==
    LET decision == ReleaseDecision(a)
        gaps == EvidenceGaps(a) \/ ~QueueSafe(a)
    IN  [head |-> head, dirty |-> Dirty, gaps |-> gaps, decision |-> decision,
         status |-> IF Dirty \/ gaps \/ ~AllReady(decision) THEN "NEEDS_EVIDENCE"
                    ELSE "APPROVAL_READY"]
-----------------------------------------------------------------------------
(* The two gates.                                                            *)

BundleMatchesRoadmap(a) ==
    LET listed == IF Exists(a, "roadmap") THEN a["roadmap"].remaining ELSE {}
        copied == IF Exists(a, "bundle") THEN a["bundle"].decision.remaining ELSE {}
    IN  copied = listed

\* No entry of the path lacks a ticket; the path itself may be empty here.
QueueTicketed(a) == Fresh(a, "queue") /\ QueueReady(a) /\ a["queue"].unticketed = {}

\* Fault: agreement of the copies is taken for completion.
AgreedToClaim(a) ==
    /\ ~Dirty /\ \A s \in {"roadmap", "bundle", "queue"} : Fresh(a, s)
    /\ QueueTicketed(a)
    /\ BundleMatchesRoadmap(a)

ReadyToClaim(a) ==
    /\ ~Dirty /\ \A s \in {"roadmap", "bundle", "queue"} : Fresh(a, s)
    /\ a["roadmap"].status = "PASS" /\ a["roadmap"].remaining = {}
    /\ a["bundle"].status = "APPROVAL_READY" /\ AllReady(a["bundle"].decision)
    /\ QueueTicketed(a) /\ a["queue"].path = {}
    /\ BundleMatchesRoadmap(a)

CompletionGate(a) ==
    Report(IF ~BundleMatchesRoadmap(a)
                \/ (Exists(a, "queue") /\ a["queue"].unticketed # {}) THEN "BLOCKED"
           ELSE IF ReadyToClaim(a) THEN "PASS"
           ELSE "NEEDS_EVIDENCE",
           ~ReadyToClaim(a))

InstallSources == {"completion", "bundle", "queue", "install-plan", "lab-handoff",
                   "connectivity", "lightspeed", "dry-run"}

\* The connectivity is asked for a class where the diagnostic has none, and
\* the lab handoff for a status it does not reach.
ClassAtTopLevel(a) == "missing"

SafeToInstall(a) ==
    /\ ~Dirty /\ \A s \in InstallSources : Fresh(a, s)
    /\ a["completion"].status = "PASS"
    /\ a["bundle"].status = "APPROVAL_READY"
    /\ a["bundle"].decision.installReady /\ a["bundle"].decision.roadmapComplete
    /\ a["queue"].status = "ACTION_QUEUE_READY" /\ a["queue"].path = {}
    /\ a["install-plan"].status = "APPROVAL_REQUIRED"
    /\ a["lab-handoff"].status = "READY_FOR_EXPLICIT_CRC_HANDOFF"
    /\ a["connectivity"].status = "PASS" /\ ClassAtTopLevel(a) = "api-ready"
    /\ a["lightspeed"].status = "PASS"
    /\ a["dry-run"].status = "PASS"

\* Without --strict it exits with zero, whatever it says.
PreClusterGate(a) ==
    Report(IF SafeToInstall(a) THEN "READY_FOR_CLUSTER_INSTALL"
           ELSE "BLOCKED_BY_EVIDENCE_GAPS",
           ~SafeToInstall(a))
=============================================================================
