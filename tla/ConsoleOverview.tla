----------------------------- MODULE ConsoleOverview -----------------------------
(***************************************************************************)
(* What apps/api/src/ocpClient.ts puts together from many reads of one      *)
(* cluster: the overview of the console, the resources related to an        *)
(* object, and the access review of every verb.  They keep nothing; each of *)
(* their requests answers or fails as a whole.                              *)
(*                                                                          *)
(* A list of the cluster is the sequence of its pages, each of which can be *)
(* read or not and holds a set of items: an item says what the overview     *)
(* looks at, "conditions" being a function from the types it has to their   *)
(* statuses.                                                                *)
(***************************************************************************)
EXTENDS Naturals, Sequences, FiniteSets

PageLimit == 20
ReadPages(pages)  == {n \in DOMAIN pages : n <= PageLimit}
Unreadable(pages) == \E n \in ReadPages(pages) : ~pages[n].readable

ListAllItems(pages)     == UNION {pages[n].items : n \in ReadPages(pages)}
ListAllItemsSafe(pages) == IF Unreadable(pages) THEN {} ELSE ListAllItems(pages)

Least(n, m) == IF n < m THEN n ELSE m
Slice(s, n) == SubSeq(s, 1, Least(n, Len(s)))
-----------------------------------------------------------------------------
(* Prometheus, through the first of three service proxies that answers.     *)

ProxyPaths == 1..3

PrometheusSamples(results) == Slice(results, 12)

NoMetrics == [reachable |-> FALSE, results |-> <<>>]

QueryOcpPrometheus(enabled, reachable, proxies) ==
    LET answering == {p \in ProxyPaths : proxies[p].answers}
    IN  IF ~enabled \/ ~reachable \/ answering = {} THEN NoMetrics
        ELSE [reachable |-> TRUE,
              results |-> PrometheusSamples(
                              proxies[CHOOSE p \in answering :
                                         \A q \in answering : p <= q].results)]

\* An alert is its severity.
WithSeverity(results, severity) ==
    Cardinality({n \in DOMAIN results : results[n] = severity})

GetMonitoringAlerts(response) ==
    IF ~response.reachable
    THEN [reachable |-> FALSE, firing |-> 0, warning |-> 0, critical |-> 0, sample |-> <<>>]
    ELSE [reachable |-> TRUE, firing |-> Len(response.results),
          warning |-> WithSeverity(response.results, "warning"),
          critical |-> WithSeverity(response.results, "critical"),
          sample |-> Slice(response.results, 10)]
-----------------------------------------------------------------------------
(* The overview.                                                             *)

Lists == {"clusteroperators", "nodes", "namespaces", "pods", "deployments", "routes",
          "ingresses", "services", "builds", "imagestreams"}

ConditionIs(item, type, status) ==
    type \in DOMAIN item.conditions /\ item.conditions[type] = status

\* The numbers that count only some of the items of a list, and which.
CountedOf == [degraded |-> "clusteroperators", progressing |-> "clusteroperators",
              unavailableOperators |-> "clusteroperators",
              ready |-> "nodes", notReady |-> "nodes",
              running |-> "pods", pending |-> "pods", failed |-> "pods", crashLooping |-> "pods",
              unavailableDeployments |-> "deployments", failedBuilds |-> "builds"]

Counts(number, item) ==
    CASE number = "degraded"               -> ConditionIs(item, "Degraded", "True")
      [] number = "progressing"            -> ConditionIs(item, "Progressing", "True")
      [] number = "unavailableOperators"   -> ConditionIs(item, "Available", "False")
      [] number = "ready"                  -> ConditionIs(item, "Ready", "True")
      [] number = "notReady"               -> ~ConditionIs(item, "Ready", "True")
      [] number = "running"                -> item.phase = "Running"
      [] number = "pending"                -> item.phase = "Pending"
      [] number = "failed"                 -> item.phase = "Failed"
      [] number = "crashLooping"           -> "CrashLoopBackOff" \in item.waiting
      [] number = "unavailableDeployments" -> item.unavailable > 0
      [] number = "failedBuilds"           -> item.phase \in {"Failed", "Error", "Cancelled"}

Totals(lists)  == [l \in Lists |-> Cardinality(lists[l])]
Numbers(lists) ==
    [n \in DOMAIN CountedOf |-> Cardinality({i \in lists[CountedOf[n]] : Counts(n, i)})]

\* The desired version is one more request, whose failure leaves it out.
GetOcpConsoleOverview(reachable, pages, desired, metrics) ==
    LET lists == [l \in Lists |-> ListAllItemsSafe(pages[l])]
    IN  IF ~reachable THEN "error"
        ELSE [desired |-> desired, totals |-> Totals(lists), numbers |-> Numbers(lists),
              degradedShown |-> Least(Numbers(lists)["degraded"], 12),
              nodesShown |-> Least(Totals(lists)["nodes"], 20),
              monitoring |-> GetMonitoringAlerts(metrics)]
-----------------------------------------------------------------------------
(* Related resources: the items of a fixed choice of kinds that are owned   *)
(* by an object.  A review that could not be made forbids nothing.          *)

RelatedChildResourceCandidates ==
    {<<"v1", "pods">>, <<"v1", "replicationcontrollers">>, <<"apps/v1", "replicasets">>,
     <<"apps/v1", "deployments">>, <<"apps/v1", "statefulsets">>, <<"apps/v1", "daemonsets">>,
     <<"batch/v1", "jobs">>, <<"batch/v1", "cronjobs">>, <<"build.openshift.io/v1", "builds">>}

Candidates(found) ==
    {r \in found : <<r.gv, r.name>> \in RelatedChildResourceCandidates /\ "list" \in r.verbs
                   /\ r.kind # "Secret"}

ItemHasOwnerUid(item, uid) == \E o \in item.owners : o.uid = uid /\ o.kind # "" /\ o.name # ""

\* An object without a uid has no children, and nothing is read or reported.
GetOcpRelatedResources(found, uid, review, pages) ==
    LET asked  == IF uid = "" THEN {} ELSE Candidates(found)
        denied == {r \in asked : review[r] = "denied"}
        failed == {r \in asked \ denied : Unreadable(pages[r])}
    IN  [errors |-> denied \cup failed,
         children |-> UNION {{[resource |-> r, item |-> i] :
                                 i \in {j \in ListAllItems(pages[r]) : ItemHasOwnerUid(j, uid)}} :
                             r \in asked \ (denied \cup failed)}]
-----------------------------------------------------------------------------
(* Access reviews of one resource of a discovery, which is a sequence: of   *)
(* those that fit what was asked, the first.  What was not asked is "".     *)

ReadVerbs == {"get", "list", "watch"}

Fits(r, params) ==
    /\ params.gv # "" => r.gv = params.gv
    /\ params.name # "" => r.name = params.name
    /\ params.kind # "" => r.kind = params.kind

FirstPlace(places) == CHOOSE n \in places : \A m \in places : n <= m

\* The review of a verb may name an object; the matrix names it for "get" only.
ReviewOcpResourceAccess(found, params, verb, object, review) ==
    LET fitting == {n \in DOMAIN found : Fits(found[n], params) /\ verb \in found[n].verbs}
    IN  IF verb \notin ReadVerbs \/ fitting = {} THEN "error"
        ELSE review[<<found[FirstPlace(fitting)], verb, object>>]

ReviewOcpResourceAccessMatrix(found, params, object, review) ==
    LET fitting == {n \in DOMAIN found : Fits(found[n], params)}
        r == found[FirstPlace(fitting)]
    IN  IF fitting = {} THEN "error"
        ELSE [v \in ReadVerbs \cap r.verbs |-> review[<<r, v, IF v = "get" THEN object ELSE "">>]]
=============================================================================
