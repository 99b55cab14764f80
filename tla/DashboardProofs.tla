----------------------------- MODULE DashboardProofs -----------------------------
(***************************************************************************)
(* What the dashboard says of the runtimes, for everything a probe may come *)
(* to, and where it differs from what the verifier of the release says; and *)
(* what its decision cards hand to an administrator, for every state of the *)
(* evidence and every list of images.  Last, what the console shows of a    *)
(* cluster from many reads of it.                                           *)
(***************************************************************************)
EXTENDS RuntimeProbes, DecisionCards, ConsoleOverview, FiniteSetTheorems, TLAPS

LEMMA AnswersAreNoErrors ==
  ASSUME NEW e \in Endpoint
  PROVE  /\ Fetch(e) = "ok" => e.scheme = "http" /\ e.tcp = "connected" /\ e.http = "ok"
         /\ Fetch(e) # "connected"
         /\ ProbeTcp(e) = "connected" <=> e.tcp = "connected"
         /\ ProbeTcp(e) \notin HttpAnswers
BY DEF Fetch, ProbeTcp, Endpoint, TcpErrors, HttpAnswers

\* Both runtimes were asked, and both answered.
Answered(live, vector, model) == live /\ Fetch(vector) = "ok" /\ Fetch(model) = "ok"

LEMMA ReadyIsAnswered ==
  ASSUME NEW live \in BOOLEAN, NEW vector \in Endpoint, NEW model \in Endpoint
  PROVE  LET readiness == GetOpsLensRuntimeReadiness(live, vector, model)
         IN  /\ readiness.status = "ready" <=> Answered(live, vector, model)
             /\ Answered(live, vector, model) =>
                   /\ readiness.vectorStore.status = "ready" /\ readiness.vectorStore.live
                   /\ readiness.modelRuntime.status = "ready" /\ readiness.modelRuntime.live
             /\ readiness.missing = {} <=> Answered(live, vector, model)
BY DEF GetOpsLensRuntimeReadiness, ProbeRuntimeDependency, CombineRuntimeStatus, Answered

(* The dashboard says that the runtimes are ready only if both were probed  *)
(* and both answered, whatever the release action queue says; a queue that  *)
(* lacks the items of the owners then leaves evidence missing beside it.    *)
THEOREM RuntimesReadyWereProbed ==
  ASSUME NEW live \in BOOLEAN, NEW vector \in Endpoint, NEW model \in Endpoint, NEW queue
  PROVE  LET readiness == GetOpsLensRuntimeReadiness(live, vector, model)
             summary == BuildRuntimeLiveHandoffSummary(readiness, queue)
         IN  /\ summary.status = "ready" <=> Answered(live, vector, model)
             /\ ~(LiveActions \subseteq DOMAIN queue.items) => summary.missing # {}
<1> DEFINE readiness == GetOpsLensRuntimeReadiness(live, vector, model)
           summary == BuildRuntimeLiveHandoffSummary(readiness, queue)
<1>1. summary.status = "ready" <=> Answered(live, vector, model)
  <2>1. summary.status = "ready" <=>
           /\ readiness.status = "ready"
           /\ readiness.vectorStore.live /\ readiness.modelRuntime.live
           /\ readiness.vectorStore.status = "ready" /\ readiness.modelRuntime.status = "ready"
    <3> HIDE DEF readiness
    <3> QED
      BY DEF BuildRuntimeLiveHandoffSummary
  <2> QED
    BY <2>1, ReadyIsAnswered
<1>2. ASSUME NEW id \in LiveActions, id \notin DOMAIN queue.items
      PROVE  <<id, "missing">> \in summary.missing
  BY <1>2 DEF BuildRuntimeLiveHandoffSummary
<1> QED
  BY <1>1, <1>2

(* The connection string of pgvector is no HTTP URL, so fetching its health *)
(* path can only fail: with the operator's settings the dashboard never     *)
(* shows the runtimes as ready, and as failed when live probes are on,      *)
(* while the verifier, which connects to the port, passes.                  *)
THEOREM DashboardCannotProbePostgres ==
  ASSUME NEW vector \in Endpoint, NEW model \in Endpoint, vector.scheme = "postgresql"
  PROVE  /\ GetOpsLensRuntimeReadiness(TRUE, vector, model).status = "failed"
         /\ GetOpsLensRuntimeReadiness(FALSE, vector, model).status = "needs-live-check"
         /\ vector.tcp = "connected" /\ Fetch(model) = "ok" =>
               RuntimeArtifact(TRUE, vector, model).status = "PASS"
<1>1. Fetch(vector) = "fetch failed" /\ Fetch(vector) \notin HttpAnswers
  BY DEF Fetch, HttpAnswers
<1>2. /\ GetOpsLensRuntimeReadiness(TRUE, vector, model).status = "failed"
      /\ GetOpsLensRuntimeReadiness(FALSE, vector, model).status = "needs-live-check"
  BY <1>1 DEF GetOpsLensRuntimeReadiness, ProbeRuntimeDependency, CombineRuntimeStatus
<1>3. ASSUME vector.tcp = "connected", Fetch(model) = "ok"
      PROVE  RuntimeArtifact(TRUE, vector, model).status = "PASS"
  BY <1>3, AnswersAreNoErrors DEF RuntimeArtifact, Probe, RuntimeStatus, CombineRuntimeStatus
<1> QED
  BY <1>2, <1>3

(* Of vLLM, which both of them fetch, the API and the verifier say the same *)
(* whenever they get the same answer; what still blocks an owner is empty   *)
(* exactly when that runtime is ready.                                      *)
THEOREM HandoffsAgreeOnTheModel ==
  ASSUME NEW live \in BOOLEAN, NEW vector \in Endpoint, NEW model \in Endpoint
  PROVE  LET api == GetOpsLensRuntimeReadiness(live, vector, model).handoff.modelRuntime
             verifier == RuntimeArtifact(live, vector, model).handoff.modelRuntime
         IN  /\ api.status = verifier.status
             /\ api.blockedBy = {} <=> verifier.blockedBy = {}
             /\ api.blockedBy = {} <=> api.status = "ready"
<1> DEFINE a == ProbeRuntimeDependency("model-runtime", live, model)
           v == Probe("model-runtime", live, model)
<1>1. a.status = v.status /\ a.live = v.live /\ (a.missing = {} <=> v.missing = {})
  BY AnswersAreNoErrors DEF ProbeRuntimeDependency, Probe
<1>2. HandoffStatus(a) = HandoffStatus(v)
  <2> HIDE DEF a, v
  <2> QED
    BY <1>1 DEF HandoffStatus
<1>3. /\ GetOpsLensRuntimeReadiness(live, vector, model).handoff.modelRuntime
            = RuntimeLiveEvidenceHandoff(a)
      /\ RuntimeArtifact(live, vector, model).handoff.modelRuntime = LiveEvidenceHandoff(v)
  BY DEF GetOpsLensRuntimeReadiness, RuntimeArtifact
<1>4. \A d, class : Handoff(d, class).status = HandoffStatus(d)
                    /\ (Handoff(d, class).blockedBy = {} <=> HandoffStatus(d) = "ready")
  BY DEF Handoff
<1> QED
  BY <1>2, <1>3, <1>4 DEF RuntimeLiveEvidenceHandoff, LiveEvidenceHandoff
-----------------------------------------------------------------------------
(* The decision cards.                                                       *)

LEMMA HumanApprovalIsOpen ==
  ASSUME NEW ready
  PROVE  OpenItems(BuildApprovalChecklist(ready)) # {}
<1> DEFINE human == [id |-> "human-approval", place |-> 8, status |-> "approval-required"]
<1>1. human \in BuildApprovalChecklist(ready)
  BY DEF BuildApprovalChecklist
<1>2. human.status # "pass"
  OBVIOUS
<1> QED
  BY <1>1, <1>2 DEF OpenItems

LEMMA CheckFields ==
  ASSUME NEW id, NEW phase
  PROVE  /\ Check(id, phase).id = id /\ Check(id, phase).image = "none"
         /\ Check(id, phase).phase = phase /\ Check(id, phase).place = 0
         /\ ~Check(id, phase).mutation /\ ~Check(id, phase).approval
BY DEF Check

LEMMA ChangeFields ==
  ASSUME NEW id, NEW image, NEW phase, NEW place
  PROVE  /\ Change(id, image, phase, place).id = id
         /\ Change(id, image, phase, place).image = image
         /\ Change(id, image, phase, place).mutation
         /\ Change(id, image, phase, place).approval
BY DEF Change

\* The command that asks for somebody's credentials.
Login == [Check("login-release-registry", 2) EXCEPT !.approval = TRUE, !.setup = TRUE]

LEMMA LoginFields ==
  /\ Login.id = "login-release-registry" /\ Login.image = "none"
  /\ ~Login.mutation /\ Login.setup
BY DEF Login, Check

LEMMA PublishCommandsAre ==
  ASSUME NEW images, NEW c
  PROVE  c \in PublishCommands(images) <=>
            \/ c = Check("run-release-preflight", 1)
            \/ c = Login
            \/ c = Check("verify-catalogsource-image", 6)
            \/ c = Check("verify-subscription-contract", 7)
            \/ \E i \in OwnedImages(images) : c = Change("push", i.name, 3, i.place)
            \/ \E i \in OwnedImages(images) : c = Change("sign", i.name, 4, i.place)
            \/ \E i \in RuntimeImages(images) : c = Change("mirror", i.name, 5, i.place)
BY DEF PublishCommands, Login

(* The card of the install never asks for the approval it is there to ask   *)
(* for: the approval itself is an item of the checklist that nothing closes, *)
(* so ticket and decision miss evidence even when the plan waits for nothing *)
(* but the approval.                                                        *)
THEOREM InstallCardNeverAsks ==
  ASSUME NEW ready, NEW gap, NEW failed \in BOOLEAN
  PROVE  LET plan == InstallApprovalPlan(ready, gap, failed)
         IN  /\ InstallCard({plan}).status = "needs-evidence"
             /\ plan.ticket.classification = "install-evidence-gaps"
             /\ (\A n \in 1..7 : Evidenced[n] \in ready) /\ ~failed =>
                   plan.status = "APPROVAL_REQUIRED" /\ plan.missing = {}
<1> DEFINE checklist == BuildApprovalChecklist(ready)
           plan == InstallApprovalPlan(ready, gap, failed)
<1>1. OpenItems(checklist) # {}
  BY HumanApprovalIsOpen
<1>2. /\ plan.ticket.classification = "install-evidence-gaps"
      /\ plan.decision.status = "needs-evidence"
  BY <1>1 DEF InstallApprovalPlan, InstallTicket, InstallDecision
<1>3. InstallCard({plan}).status = plan.decision.status
  <2> HIDE DEF plan
  <2> QED
    BY DEF InstallCard, ShownInstallDecision
<1>4. ASSUME \A n \in 1..7 : Evidenced[n] \in ready, ~failed
      PROVE  plan.status = "APPROVAL_REQUIRED" /\ plan.missing = {}
  <2>1. MissingItems(checklist) = {}
    BY <1>4 DEF MissingItems, BuildApprovalChecklist
  <2> QED
    BY <1>4, <2>1 DEF InstallApprovalPlan, InstallStatus
<1> QED
  BY <1>2, <1>3, <1>4

(* The card of the publication asks for the approval as soon as no evidence *)
(* is missing, of a plan that is blocked by a failed check as well.         *)
THEOREM PublishCardIgnoresFailures ==
  ASSUME NEW images, NEW missing
  PROVE  LET plan == ReleasePublishPlan(images, missing, TRUE)
         IN  /\ plan.status = "BLOCKED"
             /\ PublishCard({plan}).status = "approval-required" <=> missing = {}
<1> DEFINE plan == ReleasePublishPlan(images, missing, TRUE)
<1>1. /\ plan.status = "BLOCKED"
      /\ plan.decision.status = IF missing # {} THEN "needs-evidence" ELSE "approval-required"
  BY DEF ReleasePublishPlan, PublishStatus, PublishDecision
<1>2. PublishCard({plan}).status = plan.decision.status
  <2> HIDE DEF plan
  <2> QED
    BY DEF PublishCard, ShownPublishDecision
<1> QED
  BY <1>1, <1>2

LEMMA MutationsAreGated ==
  ASSUME NEW images
  PROVE  /\ Gated(InstallCommands) = Mutating(InstallCommands)
         /\ Gated(PublishCommands(images)) = Mutating(PublishCommands(images))
<1>1. \A c \in InstallCommands : c.mutation => c.approval
  BY CheckFields, ChangeFields DEF InstallCommands
<1>2. \A c \in PublishCommands(images) : c.mutation => c.approval
  BY PublishCommandsAre, CheckFields, ChangeFields, LoginFields
<1> QED
  BY <1>1, <1>2 DEF Gated, Mutating

LEMMA PreflightsAreReadOnly ==
  ASSUME NEW images
  PROVE  /\ Ids(InstallPreflight(InstallCommands)) = {<<"run-operator-server-dry-run", "none">>}
         /\ Ids(PublishPreflight(PublishCommands(images))) = {<<"run-release-preflight", "none">>}
<1> DEFINE dryRun    == Check("run-operator-server-dry-run", 1)
           preflight == Check("run-release-preflight", 1)
<1>1. Named(InstallCommands, "run-operator-server-dry-run") = {dryRun}
  BY CheckFields, ChangeFields DEF Named, InstallCommands
<1>2. Named(PublishCommands(images), "run-release-preflight") = {preflight}
  BY CheckFields, ChangeFields, LoginFields, PublishCommandsAre DEF Named
<1>3. \A c : c.phase = 1 /\ c.place = 0 => First({c}) = {c}
  BY DEF First, Before
<1>4. /\ dryRun.phase = 1 /\ dryRun.place = 0
      /\ preflight.phase = 1 /\ preflight.place = 0
  BY CheckFields
<1>5. First({dryRun}) = {dryRun} /\ First({preflight}) = {preflight}
  BY <1>3, <1>4
<1>6. /\ dryRun.id = "run-operator-server-dry-run" /\ dryRun.image = "none"
      /\ preflight.id = "run-release-preflight" /\ preflight.image = "none"
  BY CheckFields
<1> HIDE DEF dryRun, preflight
<1>7. InstallPreflight(InstallCommands) = {dryRun}
  BY <1>1, <1>5 DEF InstallPreflight, FirstOf
<1>8. PublishPreflight(PublishCommands(images)) = {preflight}
  BY <1>2, <1>5 DEF PublishPreflight, FirstOf
<1>9. /\ Ids({dryRun}) = {<<"run-operator-server-dry-run", "none">>}
      /\ Ids({preflight}) = {<<"run-release-preflight", "none">>}
  BY <1>6 DEF Ids
<1> QED
  BY <1>7, <1>8, <1>9

(* Whatever the evidence and the images are: every command that changes the *)
(* cluster or a registry is among those the cards hold behind an approval,   *)
(* with one action per plan that leads to them; what a card says to do first *)
(* changes nothing; and the boundary the script of the publication checks    *)
(* after it has decided holds as soon as there is an image to push.          *)
THEOREM EveryMutationIsGated ==
  ASSUME NEW images, NEW missing, NEW ready, NEW gap, NEW failed \in BOOLEAN
  PROVE  LET install == InstallApprovalPlan(ready, gap, failed)
             publish == ReleasePublishPlan(images, missing, failed)
         IN  /\ InstallCard({install}).gated = Ids(Mutating(install.commands))
             /\ PublishCard({publish}).gated = Ids(Mutating(publish.commands))
             /\ InstallCard({install}).first = {<<"run-operator-server-dry-run", "none">>}
             /\ PublishCard({publish}).first = {<<"run-release-preflight", "none">>}
             /\ OwnedImages(images) # {} => PublishBoundaryHolds(publish)
<1> DEFINE install == InstallApprovalPlan(ready, gap, failed)
           publish == ReleasePublishPlan(images, missing, failed)
<1>1. /\ install.commands = InstallCommands
      /\ install.decision.first = Ids(InstallPreflight(InstallCommands))
      /\ install.decision.gated = Ids(Gated(InstallCommands))
  BY DEF InstallApprovalPlan, InstallDecision
<1>2. /\ publish.commands = PublishCommands(images)
      /\ publish.decision.first = Ids(PublishPreflight(PublishCommands(images)))
      /\ publish.decision.gated = Ids(Gated(PublishCommands(images)))
      /\ publish.decision.setup = Ids(HumanSetup(PublishCommands(images)))
  BY DEF ReleasePublishPlan, PublishDecision
<1>3. /\ InstallCard({install}) = ShownInstallDecision(install)
      /\ PublishCard({publish}) = ShownPublishDecision(publish)
  <2> HIDE DEF install, publish
  <2> QED
    BY DEF InstallCard, PublishCard
<1> HIDE DEF install, publish
<1>4. /\ InstallCard({install}).gated = install.decision.gated
      /\ InstallCard({install}).first = install.decision.first
      /\ PublishCard({publish}).gated = publish.decision.gated
      /\ PublishCard({publish}).first = publish.decision.first
  BY <1>1, <1>2, <1>3 DEF ShownInstallDecision, ShownPublishDecision, Else
<1>5. /\ <<"login-release-registry", "none">> \in publish.decision.setup
      /\ \A i \in OwnedImages(images) : <<"push", i.name>> \in Ids(Mutating(publish.commands))
  <2>1. \E c \in PublishCommands(images) :
           c.id = "login-release-registry" /\ c.image = "none"
    BY LoginFields, PublishCommandsAre
  <2>2. \A i \in OwnedImages(images) : \E c \in PublishCommands(images) :
           c.id = "push" /\ c.image = i.name /\ c.mutation
    BY ChangeFields, PublishCommandsAre
  <2> QED
    BY <1>2, <2>1, <2>2 DEF HumanSetup, Ids, Mutating
<1>6. /\ InstallCard({install}).gated = Ids(Mutating(install.commands))
      /\ PublishCard({publish}).gated = Ids(Mutating(publish.commands))
      /\ InstallCard({install}).first = {<<"run-operator-server-dry-run", "none">>}
      /\ PublishCard({publish}).first = {<<"run-release-preflight", "none">>}
  BY <1>1, <1>2, <1>4, MutationsAreGated, PreflightsAreReadOnly
<1>7. ASSUME NEW i \in OwnedImages(images)
      PROVE  PublishBoundaryHolds(publish)
  <2>1. <<"push", i.name>> \in publish.decision.gated
    BY <1>4, <1>5, <1>6
  <2>2. publish.decision.first = {<<"run-release-preflight", "none">>}
    BY <1>4, <1>6
  <2>3. <<"push", i.name>>[1] = "push"
    OBVIOUS
  <2> QED
    BY <1>5, <2>1, <2>2, <2>3 DEF PublishBoundaryHolds
<1> QED
  BY <1>6, <1>7 DEF install, publish

(* The card the API builds anew from the commands of a plan says what the    *)
(* script decided, of every list of images.                                 *)
THEOREM CardsAgree ==
  ASSUME NEW images, NEW missing, NEW ready, NEW gap, NEW failed \in BOOLEAN
  PROVE  LET install == InstallApprovalPlan(ready, gap, failed)
             publish == ReleasePublishPlan(images, missing, failed)
         IN  /\ InstallCard({install}) = install.decision
             /\ PublishCard({publish}) = publish.decision
<1> DEFINE install == InstallApprovalPlan(ready, gap, failed)
           publish == ReleasePublishPlan(images, missing, failed)
           checklist == BuildApprovalChecklist(ready)
<1>1. /\ install.commands = InstallCommands
      /\ install.missing = MissingItems(checklist)
      /\ install.decision = InstallDecision(checklist, InstallCommands)
  BY DEF InstallApprovalPlan
<1>2. /\ publish.commands = PublishCommands(images)
      /\ publish.decision = PublishDecision(missing, PublishCommands(images))
  BY DEF ReleasePublishPlan
<1>3. MissingItems(checklist) \subseteq OpenItems(checklist)
  BY DEF MissingItems, OpenItems
<1>4. /\ InstallCard({install}) = ShownInstallDecision(install)
      /\ PublishCard({publish}) = ShownPublishDecision(publish)
  <2> HIDE DEF install, publish
  <2> QED
    BY DEF InstallCard, PublishCard
<1> HIDE DEF install, publish, checklist
<1>5. ShownInstallDecision(install) = install.decision
  BY <1>1, <1>3 DEF ShownInstallDecision, InstallDecision, Else
<1>6. ShownPublishDecision(publish) = publish.decision
  BY <1>2 DEF ShownPublishDecision, PublishDecision, Else
<1> QED
  BY <1>4, <1>5, <1>6 DEF install, publish
-----------------------------------------------------------------------------
AllItems(pages) == UNION {pages[n].items : n \in DOMAIN pages}

\* The list was read to its end.
ReadWhole(pages) == ~Unreadable(pages) /\ DOMAIN pages \subseteq ReadPages(pages)

LEMMA ReadsAreOfTheList ==
  ASSUME NEW pages
  PROVE  /\ ListAllItemsSafe(pages) \subseteq AllItems(pages)
         /\ Unreadable(pages) => ListAllItemsSafe(pages) = {}
         /\ ReadWhole(pages) => ListAllItemsSafe(pages) = AllItems(pages)
<1>1. ListAllItems(pages) \subseteq AllItems(pages)
  BY DEF ListAllItems, AllItems, ReadPages
<1>2. ASSUME ReadWhole(pages)
      PROVE  ReadPages(pages) = DOMAIN pages
  BY <1>2 DEF ReadWhole, ReadPages
<1>3. ASSUME ReadWhole(pages)
      PROVE  ListAllItemsSafe(pages) = AllItems(pages)
  BY <1>2, <1>3 DEF ReadWhole, ListAllItemsSafe, ListAllItems, AllItems
<1> QED
  BY <1>1, <1>3 DEF ListAllItemsSafe

(* Every number of the console overview is at most that of the cluster, and *)
(* the same when the list it counts was read to its end.  A list of which a *)
(* page could not be read is counted as empty: all its numbers are 0, those *)
(* of what has gone wrong in the cluster included.                          *)
THEOREM OverviewUnderstates ==
  ASSUME NEW pages, NEW desired, NEW metrics, \A l \in Lists : IsFiniteSet(AllItems(pages[l]))
  PROVE  LET overview == GetOcpConsoleOverview(TRUE, pages, desired, metrics)
             truth == [l \in Lists |-> AllItems(pages[l])]
         IN  /\ \A l \in Lists :
                  /\ overview.totals[l] <= Totals(truth)[l]
                  /\ Unreadable(pages[l]) => overview.totals[l] = 0
                  /\ ReadWhole(pages[l]) => overview.totals[l] = Totals(truth)[l]
             /\ \A n \in DOMAIN CountedOf :
                  /\ overview.numbers[n] <= Numbers(truth)[n]
                  /\ Unreadable(pages[CountedOf[n]]) => overview.numbers[n] = 0
                  /\ ReadWhole(pages[CountedOf[n]]) => overview.numbers[n] = Numbers(truth)[n]
<1> DEFINE overview == GetOcpConsoleOverview(TRUE, pages, desired, metrics)
           truth == [l \in Lists |-> AllItems(pages[l])]
           lists == [l \in Lists |-> ListAllItemsSafe(pages[l])]
<1>1. overview.totals = Totals(lists) /\ overview.numbers = Numbers(lists)
  BY DEF GetOcpConsoleOverview
<1>2. \A l \in Lists : /\ lists[l] \subseteq truth[l]
                       /\ Unreadable(pages[l]) => lists[l] = {}
                       /\ ReadWhole(pages[l]) => lists[l] = truth[l]
                       /\ IsFiniteSet(truth[l])
  BY ReadsAreOfTheList
<1>3. \A n \in DOMAIN CountedOf : CountedOf[n] \in Lists
  BY DEF CountedOf, Lists
<1> HIDE DEF overview, truth, lists
<1>4. ASSUME NEW l \in Lists
      PROVE  /\ overview.totals[l] <= Totals(truth)[l]
             /\ Unreadable(pages[l]) => overview.totals[l] = 0
             /\ ReadWhole(pages[l]) => overview.totals[l] = Totals(truth)[l]
  <2>1. Cardinality(lists[l]) <= Cardinality(truth[l])
    BY <1>2, FS_Subset
  <2> QED
    BY <1>1, <1>2, <2>1, FS_EmptySet DEF Totals
<1>5. ASSUME NEW n \in DOMAIN CountedOf
      PROVE  /\ overview.numbers[n] <= Numbers(truth)[n]
             /\ Unreadable(pages[CountedOf[n]]) => overview.numbers[n] = 0
             /\ ReadWhole(pages[CountedOf[n]]) => overview.numbers[n] = Numbers(truth)[n]
  <2> DEFINE l == CountedOf[n]
             counted == {i \in lists[l] : Counts(n, i)}
             real == {i \in truth[l] : Counts(n, i)}
  <2>1. l \in Lists
    BY <1>3
  <2>2. overview.numbers[n] = Cardinality(counted) /\ Numbers(truth)[n] = Cardinality(real)
    BY <1>1 DEF Numbers
  <2> HIDE DEF l
  <2>3. /\ counted \subseteq real /\ real \subseteq truth[l]
        /\ Unreadable(pages[l]) => counted = {}
        /\ ReadWhole(pages[l]) => counted = real
    BY <1>2, <2>1
  <2> HIDE DEF counted, real
  <2>4. IsFiniteSet(real)
    BY <1>2, <2>1, <2>3, FS_Subset
  <2>5. Cardinality(counted) <= Cardinality(real)
    BY <2>3, <2>4, FS_Subset
  <2> QED
    BY <2>2, <2>3, <2>5, FS_EmptySet DEF l
<1> QED
  BY <1>4, <1>5 DEF overview, truth

(* The alerts that the overview counts are the first 12 series of the first *)
(* Prometheus that answers: it never shows more than 12 firing alerts, nor  *)
(* more than 12 critical ones, whatever is firing.                          *)
THEOREM AlertsAreCapped ==
  ASSUME NEW p \in ProxyPaths, NEW Severity,
         NEW proxies, proxies[p].results \in Seq(Severity),
         proxies[p].answers, \A q \in ProxyPaths : q < p => ~proxies[q].answers
  PROVE  LET alerts == GetMonitoringAlerts(QueryOcpPrometheus(TRUE, TRUE, proxies))
         IN  /\ alerts.firing = Least(12, Len(proxies[p].results))
             /\ alerts.critical <= alerts.firing
             /\ alerts.warning <= alerts.firing
<1> DEFINE response == QueryOcpPrometheus(TRUE, TRUE, proxies)
           alerts == GetMonitoringAlerts(response)
           results == PrometheusSamples(proxies[p].results)
           answering == {q \in ProxyPaths : proxies[q].answers}
           first == CHOOSE r \in answering : \A q \in answering : r <= q
<1>1. first = p
  <2>1. p \in answering /\ \A q \in answering : p <= q
    BY DEF ProxyPaths
  <2>2. \A r \in answering : (\A q \in answering : r <= q) => r = p
    BY <2>1 DEF ProxyPaths
  <2> QED
    BY <2>1, <2>2
<1>2. response.reachable /\ response.results = results
  <2>1. answering # {}
    OBVIOUS
  <2> QED
    BY <1>1, <2>1 DEF QueryOcpPrometheus
<1>3. /\ results \in Seq(Severity)
      /\ Len(results) = Least(12, Len(proxies[p].results))
  BY DEF PrometheusSamples, Slice, Least
<1> HIDE DEF response, results
<1>4. alerts.firing = Len(results)
  BY <1>2 DEF GetMonitoringAlerts
<1>5. /\ alerts.critical = WithSeverity(results, "critical")
      /\ alerts.warning = WithSeverity(results, "warning")
  BY <1>2 DEF GetMonitoringAlerts
<1>6. ASSUME NEW severity
      PROVE  WithSeverity(results, severity) <= Len(results)
  <2>1. Len(results) \in Nat /\ DOMAIN results = 1..Len(results)
    BY <1>3
  <2>2. IsFiniteSet(1..Len(results)) /\ Cardinality(1..Len(results)) = Len(results)
    <3>1. PICK k \in Nat : k = Len(results)
      BY <2>1
    <3>2. IsFiniteSet(1..k) /\ Cardinality(1..k) = IF 1 > k THEN 0 ELSE k - 1 + 1
      BY FS_Interval
    <3>3. Cardinality(1..k) = k
      BY <3>2
    <3> QED
      BY <3>1, <3>2, <3>3
  <2>3. {n \in DOMAIN results : results[n] = severity} \subseteq 1..Len(results)
    BY <2>1
  <2> QED
    BY <2>2, <2>3, FS_Subset DEF WithSeverity
<1> QED
  BY <1>3, <1>4, <1>5, <1>6 DEF response

(* An item of a discovered kind of child that the object owns is shown, or  *)
(* its kind is among the errors, or it lies beyond the 20 pages that are    *)
(* read; and nothing is shown of a kind that is among the errors.           *)
THEOREM RelatedAccountsForAll ==
  ASSUME NEW found, NEW uid, uid # "", NEW review, NEW pages
  PROVE  LET related == GetOcpRelatedResources(found, uid, review, pages)
         IN  /\ \A r \in Candidates(found) : \A n \in DOMAIN pages[r] : \A i \in pages[r][n].items :
                  ItemHasOwnerUid(i, uid) => \/ [resource |-> r, item |-> i] \in related.children
                                             \/ r \in related.errors
                                             \/ ~(n <= PageLimit)
             /\ \A c \in related.children : c.resource \notin related.errors
<1> DEFINE related == GetOcpRelatedResources(found, uid, review, pages)
           asked == Candidates(found)
           denied == {r \in asked : review[r] = "denied"}
           failed == {r \in asked \ denied : Unreadable(pages[r])}
           Owned(r) == {j \in ListAllItems(pages[r]) : ItemHasOwnerUid(j, uid)}
           Children(r) == {[resource |-> r, item |-> i] : i \in Owned(r)}
<1>1. /\ related.errors = denied \cup failed
      /\ related.children = UNION {Children(r) : r \in asked \ (denied \cup failed)}
  BY DEF GetOcpRelatedResources
<1> HIDE DEF related, asked, denied, failed
<1>2. ASSUME NEW r \in asked, NEW n \in DOMAIN pages[r], NEW i \in pages[r][n].items,
             ItemHasOwnerUid(i, uid), n <= PageLimit, r \notin related.errors
      PROVE  [resource |-> r, item |-> i] \in related.children
  <2>1. i \in Owned(r)
    BY <1>2 DEF ListAllItems, ReadPages
  <2>2. r \in asked \ (denied \cup failed)
    BY <1>1, <1>2
  <2>3. [resource |-> r, item |-> i] \in Children(r)
    BY <2>1
  <2> HIDE DEF Children
  <2> QED
    BY <1>1, <2>2, <2>3
<1>3. ASSUME NEW c \in related.children
      PROVE  c.resource \notin related.errors
  <2> HIDE DEF Children
  <2>1. PICK r \in asked \ (denied \cup failed) : c \in Children(r)
    BY <1>1, <1>3
  <2>2. c.resource = r
    <3>1. PICK i \in Owned(r) : c = [resource |-> r, item |-> i]
      BY <2>1 DEF Children
    <3> QED
      BY <3>1
  <2> QED
    BY <1>1, <2>1, <2>2
<1> QED
  BY <1>2, <1>3 DEF related, asked

(* When what was asked names a single resource of the cluster, the matrix   *)
(* says of a verb what the review of that verb says, but for an object that *)
(* is named with another verb than "get": the review of "list" is then      *)
(* about that object, while the matrix's is about all of them.              *)
THEOREM MatrixAgrees ==
  ASSUME NEW R, NEW found \in Seq(R), NEW params, NEW review, NEW object, NEW v \in ReadVerbs,
         NEW n \in DOMAIN found, Fits(found[n], params), v \in found[n].verbs,
         \A m \in DOMAIN found : Fits(found[m], params) => m = n
  PROVE  LET matrix == ReviewOcpResourceAccessMatrix(found, params, object, review)
             single == ReviewOcpResourceAccess(found, params, v, object, review)
         IN  /\ v \in DOMAIN matrix
             /\ v = "get" \/ object = "" => matrix[v] = single
             /\ single = review[<<found[n], v, object>>]
             /\ v # "get" => matrix[v] = review[<<found[n], v, "">>]
<1> DEFINE matrix == ReviewOcpResourceAccessMatrix(found, params, object, review)
           single == ReviewOcpResourceAccess(found, params, v, object, review)
<1>1. {m \in DOMAIN found : Fits(found[m], params)} = {n}
  OBVIOUS
<1>2. {m \in DOMAIN found : Fits(found[m], params) /\ v \in found[m].verbs} = {n}
  OBVIOUS
<1>3. FirstPlace({n}) = n
  BY DEF FirstPlace
<1>4. matrix = [w \in ReadVerbs \cap found[n].verbs |->
                   review[<<found[n], w, IF w = "get" THEN object ELSE "">>]]
  BY <1>1, <1>3 DEF ReviewOcpResourceAccessMatrix
<1>5. single = review[<<found[n], v, object>>]
  BY <1>2, <1>3 DEF ReviewOcpResourceAccess
<1> QED
  BY <1>4, <1>5
=============================================================================
