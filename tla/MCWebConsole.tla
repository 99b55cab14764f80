------------------------------ MODULE MCWebConsole ------------------------------
(***************************************************************************)
(* The parts of the web console and of the API under it, for the model      *)
(* checker.  They share no variable: a behaviour is one of one part, while  *)
(* the others stay as they begin.                                           *)
(***************************************************************************)
EXTENDS OcpDiagnosis, ResourceExplorer, AdminReview, IncidentAnalysis

VARIABLE part
-----------------------------------------------------------------------------
Deployments(gv, preferred) ==
    [gv |-> gv, group |-> "apps", kind |-> "deployments", verbs |-> {"get", "list"},
     preferred |-> preferred]
Old == Deployments("apps/v1beta1", FALSE)
New == Deployments("apps/v1", TRUE)
Secrets ==
    [gv |-> "v1", group |-> "", kind |-> Secret, verbs |-> {"get", "list"}, preferred |-> TRUE]
Events ==
    [gv |-> "v1", group |-> "", kind |-> "events", verbs |-> {"list"}, preferred |-> TRUE]
Bindings ==
    [gv |-> "v1", group |-> "", kind |-> "bindings", verbs |-> {"create"}, preferred |-> TRUE]

MCCatalog == {Old, New, Secrets, Events, Bindings}
AllServices == {"version", "groups", "reviews", "v1", "apps/v1", "apps/v1beta1"}
MCPatterns == {AllServices, {}, AllServices \ {"apps/v1"}}
MCGrants == {{}, {Old}}

MCAsk(op, r, continued) == [op |-> op, r |-> r, continued |-> continued]
MCAsked == {MCAsk("list", New, FALSE), MCAsk("list", New, TRUE), MCAsk("get", Secrets, FALSE)}

MCDiscoveries == {<<New, Old, Bindings, Events, Secrets>>, <<>>}

MCItemOf == [d \in Drafts |-> CHOOSE i \in Items : TRUE]
MCOrder == <<"rag-owner", "security-reviewer">>
\* One request of each dashboard may be in flight.
MCOwnerOf == [f \in Flights |-> IF f = 2 THEN "second" ELSE "first"]

MCOwnedBy == [p \in AllPods |-> CASE p = "p1" -> "w1" [] p = "p2" -> "w2" [] OTHER -> Nobody]
MCAlert(kind, name, pod, label, namespaced) ==
    [kind |-> kind, name |-> name, pod |-> pod, label |-> label, namespaced |-> namespaced]
\* One that names only a workload, one that names nothing, pods with and
\* without being named twice, and one whose pod is of another workload.
MCAlerts ==
    {MCAlert("none", "w1", "p2", Nobody, TRUE), MCAlert("none", Nobody, Nobody, Nobody, FALSE),
     MCAlert("Pod", "p1", Nobody, Nobody, TRUE), MCAlert("Pod", "p2", "p2", Nobody, TRUE),
     MCAlert("Deployment", "w1", Nobody, Nobody, TRUE),
     MCAlert("Deployment", "w1", "p2", "w2", TRUE)}
MCLabels(pod, app, workload, namespaced) ==
    [pod |-> pod, app |-> app, workload |-> workload, namespaced |-> namespaced]
\* Labels of a pod, of a workload, of a pod and another one's app, of nothing.
MCReceived ==
    {MCLabels("p1", Nobody, "w1", TRUE), MCLabels(Nobody, "w1", "w2", TRUE),
     MCLabels("p2", "w1", Nobody, TRUE), MCLabels(Nobody, Nobody, Nobody, FALSE)}
-----------------------------------------------------------------------------
(* The console overview, for lists of nodes in up to two pages of which any  *)
(* may fail, and for a list that is longer than the pages that are read; and *)
(* the alerts, for lengths about the 12 that a query returns.                *)
Console == INSTANCE ConsoleOverview

Node(name, ready) == [name |-> name, conditions |-> [type \in {"Ready"} |-> ready]]
NodePages == [readable : BOOLEAN,
              items : {{Node("a", "True")}, {Node("b", "False"), Node("c", "Unknown")}}]
OnlyNodes(pages) == [l \in Console!Lists |-> IF l = "nodes" THEN pages ELSE <<>>]
NoAlerts == [reachable |-> FALSE, results |-> <<>>]
OverviewOf(pages) == Console!GetOcpConsoleOverview(TRUE, OnlyNodes(pages), "v", NoAlerts)

NodesCounted(pages) ==
    LET overview == OverviewOf(pages)
        nodes == UNION {pages[n].items : n \in DOMAIN pages}
    IN  IF \E n \in DOMAIN pages : ~pages[n].readable
        THEN overview.totals["nodes"] = 0 /\ overview.numbers["notReady"] = 0
        ELSE /\ overview.totals["nodes"] = Cardinality(nodes)
             /\ overview.numbers["ready"] + overview.numbers["notReady"] = Cardinality(nodes)
             /\ overview.numbers["ready"] <= 1

ManyPages == [n \in 1..25 |-> [readable |-> n <= 20, items |-> {Node(n, "True")}]]
Firing(n) == [k \in 1..n |-> IF k % 2 = 0 THEN "critical" ELSE "warning"]
Proxies(first, n) == [q \in 1..3 |-> [answers |-> q >= first, results |-> Firing(n + q)]]
AlertsOf(first, n) ==
    Console!GetMonitoringAlerts(Console!QueryOcpPrometheus(TRUE, TRUE, Proxies(first, n)))

ASSUME OverviewVerified ==
    /\ \A pages \in UNION {[1..n -> NodePages] : n \in 0..2} : NodesCounted(pages)
    /\ OverviewOf(ManyPages).totals["nodes"] = 20
    /\ \A n \in 0..14, first \in 1..4 :
          LET alerts == AlertsOf(first, n)
          IN  /\ alerts.reachable <=> first <= 3
              /\ first <= 3 => alerts.firing = Console!Least(12, n + first)
              /\ alerts.firing = alerts.warning + alerts.critical
-----------------------------------------------------------------------------
Parts == {"reads", "coverage", "diagnosis", "explorer", "review", "incident"}

Init ==
    /\ part \in Parts
    /\ ReadInit
    /\ part # "reads" => serving = AllServices /\ denied = {}
    /\ CoverageInit /\ DiagnosisInit /\ ExplorerInit /\ ReviewInit /\ IncidentInit

\* A step of a part leaves the other parts as they are.
Only(p) ==
    /\ part = p
    /\ p # "reads" => UNCHANGED readVars
    /\ p # "coverage" => UNCHANGED coverageVars
    /\ p # "diagnosis" => UNCHANGED diagnosisVars
    /\ p # "explorer" => UNCHANGED explorerVars
    /\ p # "review" => UNCHANGED reviewVars
    /\ p # "incident" => UNCHANGED incidentVars

Next ==
    /\ UNCHANGED part
    /\ \/ Only("reads") /\ ReadNext
       \/ Only("coverage") /\ CoverageNext
       \/ Only("diagnosis") /\ DiagnosisNext
       \/ Only("explorer") /\ ExplorerNext
       \/ Only("review") /\ ReviewNext
       \/ Only("incident") /\ IncidentNext

\* The fairness of each part, in its behaviours.
Fairness ==
    /\ WF_readVars(part = "reads" /\ Tick)
    /\ \A s \in Slots : WF_readVars(part = "reads" /\ Step(s))
    /\ \A f \in Flights : WF_reviewVars(part = "review" /\ GoesOn(f))

Spec ==
    /\ Init
    /\ [][Next]_<<part, readVars, coverageVars, diagnosisVars, explorerVars, reviewVars,
                  incidentVars>>
    /\ Fairness
-----------------------------------------------------------------------------
(* The variables of each part have the types its module states. *)
ConsoleTypeOK ==
    /\ ReadTypeOK /\ CoverageTypeOK /\ DiagnosisTypeOK
    /\ ExplorerTypeOK /\ ReviewTypeOK /\ IncidentTypeOK

(* The requests of the dashboards end, in the behaviours that are theirs.   *)
DashboardRequestsEnd == part = "review" => RequestsEnd
=============================================================================
