------------------------------ MODULE RuntimeProbes ------------------------------
(***************************************************************************)
(* Whether pgvector and vLLM can be reached is asked twice: by the API for  *)
(* its dashboard (apps/api/src/api.ts) and by verify-runtime-readiness.mjs  *)
(* for the release.  Both read the same URLs from the environment; the API  *)
(* fetches both over HTTP, the verifier opens a TCP connection to pgvector. *)
(***************************************************************************)

\* What a connection comes to, "silent" when nobody answers, and what is
\* answered over HTTP: "untrusted" is a certificate the client does not trust.
TcpErrors   == {"ENOTFOUND", "EAI_AGAIN", "ECONNREFUSED", "ETIMEDOUT", "EHOSTUNREACH",
                "ENETUNREACH", "silent"}
HttpAnswers == {"ok", "unexpected", "unauthorized", "client-error", "server-error"}

Endpoint == [scheme : {"http", "postgresql"}, tcp : TcpErrors \cup {"connected"},
             http : HttpAnswers \cup {"silent", "untrusted"}]

\* Fetch rejects what is not HTTP, and says no more than "fetch failed" of it
\* or of a certificate: the reason is in the cause of the error.
Fetch(e) ==
    IF e.scheme # "http" THEN "fetch failed"
    ELSE IF e.tcp # "connected" THEN (IF e.tcp = "silent" THEN "AbortError" ELSE e.tcp)
    ELSE IF e.http = "silent" THEN "AbortError"
    ELSE IF e.http = "untrusted" THEN "fetch failed"
    ELSE e.http

\* The verifier's connection to pgvector: whatever the scheme of the URL is.
ProbeTcp(e) == IF e.tcp = "silent" THEN "ETIMEDOUT" ELSE e.tcp

\* Environment: the API takes any of these for true, the verifier only "true".
EnvBoolean(value) == value \in {"1", "true", "yes", "on"}
LiveOption(flag, value) == flag \/ value = "true"
-----------------------------------------------------------------------------
(* The API.  A dependency is [component, status, live, missing].             *)

ProbeRuntimeDependency(component, live, e) ==
    LET status == IF ~live THEN "needs-live-check"
                  ELSE IF Fetch(e) = "ok" THEN "ready"
                  ELSE IF Fetch(e) \in HttpAnswers THEN "degraded"
                  ELSE "failed"
    IN  [component |-> component, status |-> status, live |-> live,
         missing   |-> IF status = "ready" THEN {} ELSE {<<component, status>>}]

CombineRuntimeStatus(vector, model) ==
    LET statuses == {vector.status, model.status}
    IN  IF "failed" \in statuses THEN "failed"
        ELSE IF "degraded" \in statuses THEN "degraded"
        ELSE IF "needs-live-check" \in statuses THEN "needs-live-check"
        ELSE "ready"

\* What the owner of a runtime still has to bring.
HandoffStatus(d) ==
    IF d.status = "ready" /\ d.live THEN "ready"
    ELSE IF d.status = "failed" THEN "blocked"
    ELSE "needs-live-evidence"

Handoff(d, classification) ==
    LET needed == IF d.missing # {} THEN d.missing ELSE {<<d.component, "attach">>}
    IN  [status         |-> HandoffStatus(d),
         classification |-> classification,
         needed         |-> needed,
         blockedBy      |-> IF HandoffStatus(d) = "ready" THEN {} ELSE needed]

RuntimeLiveEvidenceHandoff(d) ==
    Handoff(d, IF HandoffStatus(d) = "ready" THEN "ready"
               ELSE IF d.live THEN d.status
               ELSE "not-requested")

GetOpsLensRuntimeReadiness(live, vector, model) ==
    LET v == ProbeRuntimeDependency("vector-store", live, vector)
        m == ProbeRuntimeDependency("model-runtime", live, model)
    IN  [status      |-> CombineRuntimeStatus(v, m),
         vectorStore |-> v, modelRuntime |-> m,
         missing     |-> v.missing \cup m.missing,
         handoff     |-> [vectorStore  |-> RuntimeLiveEvidenceHandoff(v),
                          modelRuntime |-> RuntimeLiveEvidenceHandoff(m)]]

\* The two items of the release action queue that ask for live evidence; a
\* queue is [status, items], its items a function from ids to what blocks them.
LiveActions == {"runtime-platform-run-live-vllm-pgvector-probes",
                "data-ml-engineer-prove-runtime-rag-live-quality"}

BuildRuntimeLiveHandoffSummary(readiness, queue) ==
    [status  |-> IF /\ readiness.status = "ready"
                    /\ readiness.vectorStore.live /\ readiness.modelRuntime.live
                    /\ readiness.vectorStore.status = "ready"
                    /\ readiness.modelRuntime.status = "ready" THEN "ready"
                 ELSE IF queue.status = "blocked" THEN "blocked"
                 ELSE "needs-live-evidence",
     missing |-> readiness.missing
                 \cup {<<id, "missing">> : id \in LiveActions \ DOMAIN queue.items}
                 \cup UNION {queue.items[id] : id \in LiveActions \cap DOMAIN queue.items}]
-----------------------------------------------------------------------------
(* The verifier.  A probe adds the class of the error and the next command.  *)

ClassifyProbeError(error) ==
    IF error = "AbortError" THEN "timeout"
    ELSE IF error \in {"ENOTFOUND", "EAI_AGAIN"} THEN "dns-unresolved"
    ELSE IF error = "ECONNREFUSED" THEN "tcp-refused"
    ELSE IF error = "ETIMEDOUT" THEN "tcp-timeout"
    ELSE IF error \in {"EHOSTUNREACH", "ENETUNREACH"} THEN "network-unreachable"
    ELSE IF error = "certificate" THEN "tls-failed"
    ELSE "runtime-unreachable"

ClassifyHttpStatus(answer) ==
    IF answer = "unauthorized" THEN "runtime-auth-required"
    ELSE IF answer = "server-error" THEN "runtime-service-unhealthy"
    ELSE IF answer = "client-error" THEN "runtime-endpoint-not-ready"
    ELSE "runtime-http-unexpected"

\* The classes the owner is told something specific of; the others, a timeout
\* and an unexpected answer, read like a runtime that cannot be reached.
Explained == {"dns-unresolved", "tcp-refused", "tcp-timeout", "network-unreachable",
              "tls-failed", "runtime-auth-required", "runtime-service-unhealthy",
              "runtime-endpoint-not-ready", "runtime-unreachable"}
ProbeAction(classification) ==
    IF classification \in Explained THEN classification ELSE "runtime-unreachable"

Probe(component, live, e) ==
    LET outcome == IF component = "vector-store" THEN ProbeTcp(e) ELSE Fetch(e)
        status  == IF ~live THEN "needs-live-check"
                   ELSE IF outcome \in {"ok", "connected"} THEN "ready"
                   ELSE IF outcome \in HttpAnswers THEN "degraded"
                   ELSE "failed"
        class   == IF status = "needs-live-check" THEN "not-requested"
                   ELSE IF status = "ready" THEN "ready"
                   ELSE IF status = "degraded" THEN ClassifyHttpStatus(outcome)
                   ELSE ClassifyProbeError(outcome)
    IN  [component |-> component, status |-> status, live |-> live,
         classification |-> class,
         action    |-> IF status \in {"degraded", "failed"} THEN ProbeAction(class)
                                                           ELSE "none",
         missing   |-> IF status = "ready" THEN {} ELSE {<<component, class>>}]

RuntimeStatus(vector, model) ==
    LET status == CombineRuntimeStatus(vector, model)
    IN  IF status = "failed" THEN "FAIL"
        ELSE IF status = "degraded" THEN "WARN"
        ELSE IF status = "needs-live-check" THEN "NEEDS_LIVE_EVIDENCE"
        ELSE "PASS"

LiveEvidenceHandoff(p) == Handoff(p, p.classification)

RuntimeArtifact(live, vector, model) ==
    LET v == Probe("vector-store", live, vector)
        m == Probe("model-runtime", live, model)
    IN  [status  |-> RuntimeStatus(v, m),
         missing |-> v.missing \cup m.missing,
         handoff |-> [vectorStore  |-> LiveEvidenceHandoff(v),
                      modelRuntime |-> LiveEvidenceHandoff(m)]]
=============================================================================
