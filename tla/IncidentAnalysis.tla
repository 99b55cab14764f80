---------------------------- MODULE IncidentAnalysis ----------------------------
(***************************************************************************)
(* The incident analysis of apps/api/src/incidents.ts: for an alert, sent   *)
(* by a person or by Alertmanager, the API reads the resource, the pods,    *)
(* their logs, the events and the metrics one after the other, each of      *)
(* which may fail, then asks the tools of api.ts for an answer with         *)
(* citations, from the runtime RAG of runtimeRag.ts or from its own index,  *)
(* and proposes a change of a workload, which is never applied.             *)
(*                                                                          *)
(* A read answers or fails as a whole, whatever its reason (RBAC, timeout,  *)
(* an API that is down): the requests inside it are those of OcpReads.      *)
(***************************************************************************)
EXTENDS Naturals

CONSTANTS
    AllPods, Workloads,
    OwnedBy,       \* the workload that controls each pod, or Nobody
    ByReplicaSet,  \* the workloads that own their pods through a ReplicaSet
    Alerts,        \* the alerts that people send
    Received,      \* the labels of the alerts that Alertmanager sends
    BatchSizes,    \* how many alerts one webhook of Alertmanager carries
    Nobody

KnownNames == AllPods \cup Workloads \cup {Nobody}

\* kind, name: the resource of the alert, or only its workload; pod, label:
\* what the alert says of the pod and of its label
AlertRecords ==
    [kind : {"none", "Pod", "Deployment"}, name : KnownNames, pod : AllPods \cup {Nobody},
     label : Workloads \cup {Nobody}, namespaced : BOOLEAN]

ASSUME OwnersType ==
    OwnedBy \in [AllPods -> Workloads \cup {Nobody}] /\ ByReplicaSet \subseteq Workloads
\* A pod that is named twice is the same one.
ASSUME AlertsType ==
    /\ Alerts \subseteq AlertRecords
    /\ \A a \in Alerts :
          /\ a.kind = "Pod" => a.name \in AllPods /\ a.pod \in {a.name, Nobody}
          /\ a.kind = "Deployment" => a.name \in Workloads
          /\ a.kind = "none" => a.name \notin AllPods
ASSUME LabelsType ==
    Received \subseteq [pod : AllPods \cup {Nobody}, app : Workloads \cup {Nobody},
                        workload : Workloads \cup {Nobody}, namespaced : BOOLEAN]
ASSUME BatchType == BatchSizes \subseteq Nat \ {0}

VARIABLE incident  \* the analysis that runs, or the answer of the last one

incidentVars == <<incident>>

NoAlert == [kind |-> "none", name |-> Nobody, pod |-> Nobody, label |-> Nobody,
            namespaced |-> FALSE]

\* detail: the owner and the memory limit that the resource's detail told;
\* first: the first pod that was listed; left: alerts of the batch to go
NoIncident == [pc |-> "idle", analysis |-> FALSE, alert |-> NoAlert, proxy |-> FALSE, mode |-> "local",
               owner |-> Nobody, limit |-> FALSE, first |-> Nobody, reads |-> {},
               missing |-> {}, rag |-> "none", cites |-> "none", left |-> 0]

Metrics == {"pod-restarts", "pod-cpu", "pod-memory"}
Sources == {"resource detail", "pod candidates", "pod logs", "previous pod logs",
            "events", "firing-alert"} \cup Metrics
-----------------------------------------------------------------------------
(* What is looked for.                                                       *)

\* inferLabelSelector
LabelOf(a) ==
    IF a.label # Nobody THEN a.label
    ELSE IF a.kind # "Pod" THEN a.name ELSE Nobody

\* Fault: pods are listed by label only.
ListedByLabel(a) == {p \in AllPods : LabelOf(a) \in {Nobody, OwnedBy[p]}}

Listed(a) ==
    {p \in AllPods : a.pod \in {Nobody, p} /\ LabelOf(a) \in {Nobody, OwnedBy[p]}}

PodOf(i) ==
    IF i.alert.pod # Nobody THEN i.alert.pod
    ELSE IF i.alert.kind = "Pod" THEN i.alert.name ELSE i.first

HasPod(i) == PodOf(i) # Nobody /\ (i.alert.namespaced \/ i.first # Nobody)

HasEventsName(i) == PodOf(i) # Nobody \/ i.alert.name # Nobody

Queries(i) == {"firing-alert"} \cup (IF HasPod(i) THEN Metrics ELSE {})

\* inferRemediationTarget: the owner of the resource, or of the first pod.
ControllerOf(i) ==
    IF i.owner # Nobody THEN i.owner
    ELSE IF i.first # Nobody THEN OwnedBy[i.first] ELSE Nobody

Confidence(i) ==
    IF ControllerOf(i) = Nobody THEN "low"
    ELSE IF ControllerOf(i) \in ByReplicaSet THEN "medium" ELSE "high"
-----------------------------------------------------------------------------
IncidentInit == incident = NoIncident

NotBusy == incident.pc \in {"idle", "answered"} /\ incident.left = 0

\* proxy, mode: the configuration of the server.
BeginAnalysis(a, pc, left) ==
    \E proxy \in BOOLEAN, mode \in {"local", "runtime"} :
        incident' = [NoIncident EXCEPT !.pc = pc, !.analysis = (pc = "detail"),
                                       !.alert = a, !.proxy = proxy, !.mode = mode,
                                       !.left = left]

Analyze == NotBusy /\ \E a \in Alerts : BeginAnalysis(a, "detail", 0)

\* buildAlertmanagerIncidentRequest: the resource is the pod that is named, or
\* the workload, or what the app label names.
RequestOf(l) ==
    LET workload == IF l.workload # Nobody THEN l.workload ELSE l.app
    IN  [kind |-> IF l.pod # Nobody THEN "Pod"
                  ELSE IF workload # Nobody THEN "Deployment"
                  ELSE "none",
         name |-> IF l.pod # Nobody THEN l.pod ELSE workload,
         pod |-> l.pod, label |-> l.app, namespaced |-> l.namespaced]

(* A webhook of Alertmanager: its alerts are analysed one after the other,  *)
(* and the answer is that of all of them.                                   *)
Intake ==
    NotBusy /\ \E l \in Received, n \in BatchSizes :
                  BeginAnalysis(RequestOf(l), "detail", n - 1)
NextAlert ==
    /\ incident.pc = "answered" /\ incident.left > 0
    /\ \E l \in Received :
          incident' = [NoIncident EXCEPT !.pc = "detail", !.analysis = TRUE,
                          !.alert = RequestOf(l), !.left = incident.left - 1,
                          !.proxy = incident.proxy, !.mode = incident.mode]

(* A tool that is called by itself, over HTTP or over MCP.                  *)
CallTool == NotBusy /\ BeginAnalysis(NoAlert, "embed", 0)

\* capture: what could not be read is missing evidence, and the analysis goes on.
Capture(i, source, ok) ==
    IF ok THEN [i EXCEPT !.reads = @ \cup {source}] ELSE [i EXCEPT !.missing = @ \cup {source}]

(* Of a workload's detail the analyser finds neither an owner nor a limit.  *)
ReadResource ==
    /\ incident.pc = "detail"
    /\ LET a == incident.alert
           read(limit) == [incident EXCEPT !.owner = IF a.kind = "Pod" THEN OwnedBy[a.name]
                                                     ELSE Nobody,
                                           !.limit = limit]
       IN  \/ /\ a.kind = "none"
              /\ incident' = [incident EXCEPT !.pc = "pods"]
           \/ /\ a.kind # "none"
              /\ \E limit \in IF a.kind = "Pod" THEN BOOLEAN ELSE {FALSE} :
                    incident' = [Capture(read(limit), "resource detail", TRUE)
                                    EXCEPT !.pc = "pods"]
           \/ /\ a.kind # "none"
              /\ incident' = [Capture(incident, "resource detail", FALSE) EXCEPT !.pc = "pods"]

(* The pods come and go: any of those looked for may be the first, or none. *)
ListPods ==
    /\ incident.pc = "pods"
    /\ \/ \E p \in Listed(incident.alert) \cup {Nobody} :
             incident' = [Capture(incident, "pod candidates", TRUE)
                             EXCEPT !.pc = "logs", !.first = p]
       \/ incident' = [Capture(incident, "pod candidates", FALSE) EXCEPT !.pc = "logs"]

(* The logs of the pod, and of its previous container.                      *)
ReadLogs(pc, source, onward) ==
    /\ incident.pc = pc /\ HasPod(incident)
    /\ \E ok \in BOOLEAN : incident' = [Capture(incident, source, ok) EXCEPT !.pc = onward]

WithoutPod ==
    /\ incident.pc = "logs" /\ ~HasPod(incident)
    /\ incident' = [Capture(incident, "pod logs", FALSE) EXCEPT !.pc = "events"]

(* Without a name to look for, the events are neither read nor missing.     *)
ReadEvents ==
    /\ incident.pc = "events"
    /\ \/ /\ HasEventsName(incident)
          /\ \E ok \in BOOLEAN :
                incident' = [Capture(incident, "events", ok) EXCEPT !.pc = "metrics"]
       \/ /\ ~HasEventsName(incident)
          /\ incident' = [incident EXCEPT !.pc = "metrics"]

(* Each query of its own, through the first Prometheus that answers; all    *)
(* are missing when the monitoring proxy is disabled.                       *)
QueryMetrics ==
    /\ incident.pc = "metrics"
    /\ \E answered \in IF incident.proxy THEN SUBSET Queries(incident) ELSE {{}} :
          incident' = [incident EXCEPT !.pc = "embed",
                                       !.reads = @ \cup answered,
                                       !.missing = @ \cup (Queries(incident) \ answered)]

\* Without a citation of the tenant's own documents, the sample ones are taken.
LocalCitations == {"tenant", "sample"}

\* createOpsLensToolResponse: the citations of the runtime RAG, if it has any.
AnswerWith(rag) ==
    \E local \in LocalCitations :
        incident' = [incident EXCEPT !.pc = "answered", !.rag = rag,
                                     !.cites = IF rag = "ready" THEN "runtime" ELSE local]

\* What the embedding of the question and the search for it may come to.
Embeddings == {"failed", "no vector", "vector"}
Rows == {"failed", "none", "without snippet", "usable"}

\* A row without a redacted snippet is no citation.
RagStatus(rows) ==
    IF rows = "failed" THEN "failed"
    ELSE IF rows = "usable" THEN "ready"
    ELSE "needs-live-check"

(* retrieveRuntimeRagCitations: whatever goes wrong, the local index answers. *)
Embed ==
    /\ incident.pc = "embed"
    /\ \/ incident.mode = "local" /\ AnswerWith("disabled")
       \/ /\ incident.mode = "runtime"
          /\ \E embedding \in Embeddings :
                IF embedding = "vector" THEN incident' = [incident EXCEPT !.pc = "search"]
                ELSE AnswerWith("failed")

SearchVectors == incident.pc = "search" /\ \E rows \in Rows : AnswerWith(RagStatus(rows))

IncidentNext ==
    \/ Analyze \/ Intake \/ NextAlert \/ CallTool
    \/ ReadResource \/ ListPods
    \/ ReadLogs("logs", "pod logs", "previous")
    \/ ReadLogs("previous", "previous pod logs", "events")
    \/ WithoutPod \/ ReadEvents \/ QueryMetrics \/ Embed \/ SearchVectors

IncidentSpec == IncidentInit /\ [][IncidentNext]_incidentVars
-----------------------------------------------------------------------------
Incidents ==
    [pc : {"idle", "detail", "pods", "logs", "previous", "events", "metrics", "embed", "search",
           "answered"},
     analysis : BOOLEAN, alert : AlertRecords, proxy : BOOLEAN, mode : {"local", "runtime"},
     owner : Workloads \cup {Nobody}, limit : BOOLEAN, first : AllPods \cup {Nobody},
     reads : SUBSET Sources, missing : SUBSET Sources,
     rag : {"none", "disabled", "failed", "needs-live-check", "ready"},
     cites : {"none", "runtime"} \cup LocalCitations, left : Nat]

IncidentTypeOK == incident \in Incidents

\* createPlanOnlyRemediationProposal: the workload to change, what is known of
\* it, and the evidence for that.
Proposal(i) ==
    [target |-> ControllerOf(i), confidence |-> Confidence(i), pod |-> PodOf(i),
     observed |-> i.limit, read |-> i.reads \ {"resource detail", "pod candidates"},
     missing |-> i.missing \cup (IF Confidence(i) = "high" THEN {} ELSE {"owner"})
                           \cup (IF i.limit THEN {} ELSE {"limit"})]

\* What an analysis sets out to read.
SoughtBy(i) ==
    {"pod candidates"} \cup Queries(i)
    \cup (IF i.alert.kind # "none" THEN {"resource detail"} ELSE {})
    \cup (IF HasPod(i) THEN {"pod logs", "previous pod logs"} ELSE {"pod logs"})
    \cup (IF HasEventsName(i) THEN {"events"} ELSE {})

\* The answer of an analysis, not of a tool called by itself.
Analysed == incident.pc = "answered" /\ incident.analysis

(* The answer says of everything it set out to read either what it read or  *)
(* that it is missing, whatever failed before.  Its proposal shows no read  *)
(* that is missing; unless it says that it only guessed, the workload it     *)
(* proposes to change controls the very pod whose logs it shows, except that *)
(* of an alert about a pod which it names only as its resource the pods that *)
(* are listed may be others; and a limit it calls observed is one it read.   *)
(* The runtime RAG is cited exactly when it was ready.                       *)
IncidentsAccountForAll ==
    /\ Analysed =>
          LET p == Proposal(incident)
          IN  /\ incident.reads \cup incident.missing = SoughtBy(incident)
              /\ incident.reads \cap incident.missing = {}
              /\ p.read \cap p.missing = {}
              /\ p.confidence # "low"
                    /\ (incident.alert.kind = "Pod" => incident.alert.pod # Nobody)
                 => OwnedBy[p.pod] = p.target
              /\ p.observed => "resource detail" \in incident.reads
    /\ incident.pc = "answered" =>
          (incident.cites = "runtime" <=> incident.rag = "ready")
=============================================================================
