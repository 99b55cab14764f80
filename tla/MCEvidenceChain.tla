---------------------------- MODULE MCEvidenceChain ----------------------------
(* A release machine with everything and a laptop with nothing. *)
EXTENDS AdminOverview

Bare  == {"docker", "url"}
Lab   == {"docker", "url", "crc", "token", "api", "lightspeed", "registry", "scanners",
          "cosign", "certifiers", "monitoring", "mcp-url", "package",
          "live-probes", "vector-store", "model", "model-ready"}

MCToolSets == {Bare, Lab}
MCCheckouts == {[tools |-> Bare, evidence |-> {}], [tools |-> Lab, evidence |-> Evidence]}
MCOptions ==
    {[build |-> TRUE, live |-> TRUE, docker |-> FALSE],
     [build |-> FALSE, live |-> FALSE, docker |-> TRUE]}
-----------------------------------------------------------------------------
(* What DashboardProofs proves, here for everything a probe comes to, every  *)
(* state of the checklist and a few lists of images and gaps.                *)
Probes == INSTANCE RuntimeProbes
Cards  == INSTANCE DecisionCards

ProbesAgree(live, vector, model) ==
    LET api == Probes!GetOpsLensRuntimeReadiness(live, vector, model)
        verifier == Probes!RuntimeArtifact(live, vector, model)
    IN  /\ api.status = "ready" => verifier.status = "PASS"
        /\ api.handoff.modelRuntime.status = verifier.handoff.modelRuntime.status
        /\ verifier.status = "PASS" <=> verifier.missing = {}

ASSUME ProbesVerified ==
    \A live \in BOOLEAN, vector, model \in Probes!Endpoint : ProbesAgree(live, vector, model)

Gap   == [owner |-> "network-sre", classification |-> "tcp-timeout"]
Owned == {[name |-> "api", source |-> "cywell-build", place |-> 1],
          [name |-> "catalog", source |-> "catalogsource", place |-> 3]}
Runtime == {[name |-> "vllm", source |-> "external-runtime", place |-> 2]}
OpenGaps ==
    {[kind |-> "worktree", place |-> 1], [kind |-> "no-provenance", place |-> 2],
     [kind |-> "build", place |-> 3], [kind |-> "build", place |-> 4]}

InstallAgrees(ready, failed) ==
    LET plan == Cards!InstallApprovalPlan(ready, Gap, failed)
    IN  /\ Cards!InstallCard({plan}) = plan.decision
        /\ plan.ticket.first = plan.decision.first
        /\ plan.packet.mutating = plan.decision.gated
        /\ Cardinality({a \in plan.actions : a.mutation}) = 1
        /\ Cardinality(plan.actions) <= 4

PublishAgrees(images, missing, failed) ==
    LET plan == Cards!ReleasePublishPlan(images, missing, failed)
    IN  /\ Cards!PublishCard({plan}) = plan.decision
        /\ plan.packet.mutating = plan.decision.gated
        /\ Cards!PublishBoundaryHolds(plan) <=> images \cap Owned # {}
        /\ \A a \in plan.actions : a.mutation => a.approval /\ a.blockedBy = missing

ASSUME CardsVerified ==
    \A failed \in BOOLEAN :
       /\ \A places \in SUBSET (1..7) :
             InstallAgrees({Cards!Evidenced[n] : n \in places}, failed)
       /\ \A images \in SUBSET (Owned \cup Runtime), missing \in SUBSET OpenGaps :
             PublishAgrees(images, missing, failed)
================================================================================
