# Cywell OpsLens in TLA+

Cywell OpsLens is an operations assistant for OpenShift: a TypeScript API server
with an OpenShift client, an incident analyser and a file-backed approval queue for
RAG documents, a React console, a Go operator that installs it and registers its
MCP server in OpenShift Lightspeed, and some sixty scripts that collect the
evidence for a release. This directory holds TLA+ models of these parts, the TLC
runs that check them, and TLAPS proofs of the results that matter most.

    tlc -workers 2 -config queue_concurrent.cfg MCApprovalQueue
    tlapm ApprovalQueueProofs.tla

## 1. The system

| Component | State it keeps | Operations | What is hard | Modules |
|---|---|---|---|---|
| RAG approval queue (`packages/rag/src/approvalQueue.ts`, routes in `apps/api/src/api.ts`) | one JSON file per queue item; a persistence switch in the environment | submit, review (approve, reject), plan an ingestion, list | each handler awaits its file operations, so handlers interleave between read and write; `writeFile` truncates first; operators delete files; restarts | `ApprovalQueue`, `ApprovalLedger`, `ApprovalQueueLedger`, `ApprovalQueueHistory` |
| RAG index and validation (`packages/rag/src/localIndex.ts`) | an index in memory | parse, chunk, validate, search | what is validated must be what is indexed; ranking and limits | `RagIndex` |
| Operator (`deploy/operator/controller-runtime`) | the installation, 14 objects it writes, the cluster's `OLSConfig`, the status | one reconcile: object by object, then the registration, then the status | every stage is an API call; users edit, delete and recreate the installation meanwhile; drift, retries, resync, garbage collection; some objects are not watched | `OperatorReconcile` |
| Lightspeed planner (`packages/operator-controller/src/reconcile.ts`) | none | plan objects, registration and status | must agree with the Go operator | `LightspeedPlan` |
| OCP client (`apps/api/src/ocpClient.ts`, `env.ts`) | the URL and token that last answered, a discovery cache, both global to the process | a request over all URLs and tokens; discovery, list, detail, coverage, diagnosis | concurrent requests share and change the remembered pair; outages; stale caches; checks that outlive their time limit | `OcpFailover`, `OcpReads`, `OcpCoverage`, `OcpDiagnosis`, `ConsoleOverview` |
| Incidents and runtime RAG (`incidents.ts`, `runtimeRag.ts`, tools of `api.ts`) | none | receive alerts, read around them, ask for an answer, propose a change | each of the reads may fail; the target is inferred | `IncidentAnalysis` |
| Resource explorer (`apps/web/.../OcpResourceExplorer.tsx`) | selection, list, page tokens, page index, detail, logs | select, load, next, previous, open, refresh | answers arrive out of order; page bookkeeping before and after awaits | `ResourceExplorer` |
| Admin dashboard (`OpsLensAdminDashboard.tsx`) | inventory of the queue, last answers | submit, review | reviews sent from a stale inventory | `AdminReview` |
| Release scripts (`scripts/`) | artifacts in `test-results/` | write and verify evidence; refresh all of it in order | an artifact older than what it is evidence of; scripts that read each other | `EvidenceChain`, `ReleaseArtifacts`, `ReleaseDecisions`, `DecisionCards` |
| Reviewed evidence (drafts, promotions, scans in `scripts/`) | drafts, final files, scan reports | draft, decide, promote, scan | people edit and commit while scripts run | `ReviewedEvidence` |
| Admin overview (`apps/api/src/api.ts`) | none | say of every artifact how ready it is | artifacts of any commit, missing or half-written | `AdminOverview`, `RuntimeProbes`, `DecisionCards` |
| Web shell and panes (`App.tsx`, `OcpCoverageMatrix.tsx`, ...) | one answer each | load, render | nothing shared | not modelled |

How they interact: the dashboard calls the queue's routes and shows the overview; the
explorer and the panes call the OCP routes of the API server; these, the incident
analyser and the overview's probes call the OCP client or HTTP services; all OCP
requests share one remembered URL and token. The operator deploys API server and
dashboard and edits the `OLSConfig`, which Lightspeed and other products edit
too. The scripts leave artifacts that other scripts and the overview read.

`PROJECT.json` lists the components with their status, every hazard with the line
where it bites and the properties aimed at it, and for each definition the lines
it was translated from.

### The runs

| Run | Module | States | Section |
|---|---|---|---|
| `queue_concurrent`, `queue_serial`, `doc_rejection_final`, `doc_mistake_rejected` | `MCApprovalQueue` | 924,000 in the first | 2 |
| `op_safety`, `op_converges`, `doc_ols_state`, `doc_secret_rbac` | `MCOperatorReconcile` | 2,111,000 in the first | 3 |
| `failover` | `MCOcpFailover` | | 4 |
| `web_console` | `MCWebConsole` | 836,000 | 5 |
| `reviewed_evidence` | `MCReviewedEvidence` | | 6 |
| `evidence_chain` | `MCEvidenceChain` | 365,000 | 7 |

## 2. The approval queue

### Modules

- `ApprovalQueue`: the handlers, split exactly where the code awaits.
- `ApprovalLedger`: what the queue promises: atomic reviews of one current
  submission per item.
- `ApprovalQueueLedger`: the refinement mapping from the first to the second.
- `ApprovalQueueHistory`: adds what clients could remember: acknowledged reviews, each
  with whether it landed alone (nobody held another version of its submission at that
  moment), and deleted submissions, each with whether a handler was about to open
  their file.
- `ApprovalQueueProofs`: the theorems.
- `MCApprovalQueue`: values of the constants.

### State and actions

`file[i]` is the JSON file of item `i`: absent, empty (truncated and not yet
written), garbage (torn bytes), or a submission with its state and approvals.
`req[s]` is a request and how far its handler is. `clock` stands for the
`generatedAt` that tells two submissions of one item apart.

| Action | Code |
|---|---|
| `ReceiveSubmit`, `Receive` | a handler up to its first await |
| `ReadForReview` | `readFile` resolves; all checks and the new artifact, synchronously |
| `ReadForPlan` | `readFile` resolves; the verdict |
| `OpenForWrite`, `LandWrite` | the two halves of `fs.promises.writeFile`: open with flag `w`, then the bytes |
| `Answer`, `FailWrite` | 200, or the error path of the request handler |
| `Withdraw` | an operator deletes the file, as the artifact's rollback path says |
| `Restart` | the process ends, requests are lost, files stay, the switch may change |

If two writers both opened before either wrote, the second to land writes over
the first, and the file is either the second artifact or garbage, depending on
their lengths; the model takes both.

### Runs

| Run | Shows |
|---|---|
| `queue_concurrent` | two requests at a time: approvals are genuine, ready means fully approved, pending means something is missing; a decision that landed alone is never lost (`LostOnlyToOverlap`), and a deleted submission comes back only from a review that had read it and not yet opened its file (`ReturnsOnlyIfHeld`) |
| `queue_serial` | one request at a time: the queue implements the ledger, and every acknowledged decision stands |
| `doc_rejection_final` | with two requests an acknowledged rejection is overwritten by an approval that read the item before it |
| `doc_mistake_rejected` | an approved item cannot be rejected |

With two slots and `HistorySpec`, `ApprovalsStand` fails in the same way as
`RejectionsStand`: two approvals of the two roles are both acknowledged and one is
lost. What remains true of any number of requests is what `queue_concurrent` checks: a
decision is lost to nothing but a request that held the same submission while its bytes
landed. A deleted item is written back by a review that had read it before; one that
had opened the file already writes to the deleted inode, and its decision is lost
although it was acknowledged, so it does not count as landed alone.
Submitting a rejected draft again unchanged puts its item back to
pending with no trace of the rejection, although the artifact asks for a
corrected draft.

Bounds: two slots are enough for a lost update and for a torn write, which need
two writers; two submissions of one item are enough for a review of the first to
meet the second; two drafts that share an item stand for a hash collision.
`queue_concurrent` remembers one event at a time (`Watch`), any one it meets: a decision
that landed alone, or a deletion while nobody was about to open the file. Both
properties speak of one event each, so nothing is missed. Its slots, and its drafts,
which share their item, are interchangeable (`Alike`); it checks no temporal formula.
`queue_serial` has two items, two submissions, a draft that validation refuses, and a
third role, not a required one, that meets the role check. That every request ends is
checked with the dashboards on it (`DashboardRequestsEnd`, section 5).

### Proofs

For all drafts, items, roles, reviewers and any number of requests and
submissions: `TypeCorrect`, `ApprovalsAreGenuine`, `ReadyIsFullyApproved`,
`PendingIsIncomplete`. The three safety properties speak of files and plans only;
what makes them inductive (`IInv`) is that every submission *about to be written*
is sound as well: its approvals were given to that submission, and its state is
what its approvals make it. `SoundGrows` says that soundness is monotonic in the
history `given`, so a step of one request cannot break what another holds;
`ReviewedSound` is the one place where the review's computation is looked at.

Where requests come one after the other (`SerialSpec`), more is proved, for any number
of items and submissions. `SerialInv` says that at most one request is past its
first await, that only its file is half-written, and that what it is about to write
was computed from what the file still holds (`NothingReadIsStale`). From it follows
`QueueImplementsLedger`: every step of the queue is a step of
the ledger or a stutter: a review or a submission takes effect when `OpenForWrite`
truncates the file, and the write that lands changes nothing of the view. `HistoryInv` adds that whatever
was ever acknowledged is honoured by every artifact of that submission, in the file or
about to be written, which gives `RejectionsAreFinal` and `ApprovalsAreKept`. With a
second request these fail, as `doc_rejection_final` shows.

With any number of requests (`HistorySpec`), `DecisionsLostOnlyToOverlap` and
`DeletedReturnsOnlyIfHeld` hold. `SharedInv` speaks of all versions of a submission that
are in the file or will be written to it (`Coming`): each of them shows every decision
that landed alone (`AcksComing`, and `LandedComing` for those not yet answered), and
none is left of a submission that was deleted while nobody held it
(`WithdrawnAway`). `ComingStep` says where a version comes from: it was coming before,
or is a new submission, or a review of one that was coming and still pending, which
keeps what that one shows (`ShownStaysShown`).

### The index and the validation of documents

`RagIndex` translates `localIndex.ts` into operators over records: front matter,
paragraphs as sets of words, chunks, the index, the ranking and its limit, the
checks of a draft. `MCApprovalQueue` evaluates `SearchVerified` and
`ValidationVerified` on small corpora. `ApprovalQueueProofs` proves, for every corpus,
query, similarity and limit:

- `EveryQueryIsAnswered`: the tenant's id is a token of the query and of every
  chunk, so every chunk of the tenant matches every query, and "no local vector
  result matched" is never said of a tenant that has documents.
- `BetterDocumentsAnswerFirst`: a chunk that scores higher than one of the answer is in
  the answer, or its document is there with a chunk that scores no lower; so the limit
  never costs a better document its place, and no document is answered twice.
- `AcceptedIsIndexedAsValidated`: what validation accepts is indexed with the type and
  level its author wrote, under an id of its own.

The id of a tenant has two characters or more in these. The builder itself does not
validate: an unknown trust level in a file that was put there by hand counts as
"approved", an unknown type as "customer-runbook", and a duplicate id is indexed
twice. Validation reserves nothing, so two drafts with one id may both be
accepted.

## 3. The operator

`OperatorReconcile` (with `MCOperatorReconcile` and `OperatorReconcileProofs`)
models `Reconcile` as a program counter over 14 objects, the read and the patch
of the `OLSConfig`, and the status update.

| Action | Code |
|---|---|
| `Begin` | take the request, get the installation |
| `SkipObject`, `WriteObject`, `RefuseObject` | one stage: the condition in `Reconcile`, then `CreateOrUpdate` |
| `SkipRegistration`, `ReadOLSConfig`, `PatchOLSConfig`, `RefuseRegistration` | `reconcileLightspeedRegistration` |
| `UpdateStatus`, `StatusConflict` | `Status().Update` with the resource version that was read |
| `Interrupt`, `Resync` | an API error or a crash; the cache's ten-hour resync |
| `CreateInstallation`, `EditInstallation`, `DeleteInstallation` | users; there is no finalizer |
| `Drift`, `Collect`, `EditOLSConfig`, `RestoreOLSConfig`, `StartDatabase` | the rest of the cluster |

What the model takes from the libraries: `SetControllerReference` compares owners
by kind and name, not by uid, so an owner of the same name is replaced; a read
that an informer answers late is an earlier read; reads of unstructured objects
(`OLSConfig`, `ConsolePlugin`) bypass the cache; a status that does not change
makes no event. `provider` has the two values of the CRD's enumeration.

| Run | Shows |
|---|---|
| `op_safety` | only registrations that were asked for are made; a patch keeps what it read of others; a status on the current revision is true of the objects nobody changes by hand; the password in the Secret opens the database, unless somebody changed or deleted it or it was collected |
| `op_converges` | objects, registration and status end as the last spec asks, unless an earlier stage is blocked |
| `doc_ols_state` | the patch drops what others added since the read |
| `doc_secret_rbac` | with the role as shipped no pgvector installation passes its third object |

Two more behaviours the model has. A reconcile between restoring the `OLSConfig`
and deleting the installation, the first two steps of the documented uninstall,
registers OpsLens again, and nothing unregisters it afterwards; no document says what
the `OLSConfig` then holds, so no property forbids it. And where the installation lives
in its target namespace, its Secret is collected with it while the volume stays, so a
reinstallation generates a password that the database refuses; the same follows when
somebody deletes the Secret, or changes the password in it, after the volume was
initialised. `lost` is history and records these two ways, `"collected"` and
`"by hand"`; `PasswordOpensDatabase` says that there is no third, and that the first
needs a shared namespace.

Bounds: six specs (both providers, both modes, a grown and an unparsable size,
an endpoint that is not `/mcp`), either arrangement of the namespaces
(`Placements`), `MaxUpsets` edits, drifts and failures (three or four: create, edit
and delete leave one to interrupt with), and the four objects whose content or
ownership differs (`Kept`); the others differ only in their place. The passing
runs take `SecretsWatched = TRUE`, the role with list and watch on Secrets, so that
what lies behind the third object is checked too. In `op_safety` only the Secret
drifts, as a status cannot know of drift and `ReadyMeansApplied` speaks of the objects
outside `Driftable`; in `op_converges` four objects do, the Secret among them. Fairness: the one worker runs (weak
fairness of `ReconcileStep`), the cache resynchronises, the cluster collects
garbage; users owe nothing, and the bound on upsets is what ends API errors.

Proved for every set of specs, names, endpoints and any number of upsets:
`TypeCorrect`; `RegistrationsAreAskedFor` (`RInv` adds that the reconcile in
progress, its reading of the `OLSConfig` and the installation itself are all of
things asked for); `PatchesKeepWhatTheyRead` (an action property, from type
correctness and a lemma on merge patches); `PasswordStaysGood` (`PInv`: as long as
nothing was lost the Secret is there and has the password of the volume, since a
reconcile keeps the password it finds; and where the namespaces differ no object has an
owner, so none is collected); `StatusIsTrue`, for any set of drifting objects.
The last one's invariant (`WInv`) says that a reconcile has applied the objects of the stages
behind it as long as the installation it saw is the one there is, and that a
revision once replaced never returns, so that a status on the current revision was
written after the last edit. `Converges` is model-checked only.

### The planner

`LightspeedPlan` extends `OperatorReconcile` by the TypeScript planner: planned
objects, registration, RAG policy and status as operators over the same spec and
`OLSConfig`. The verifiers show its plans to people as what the Go controller will
do, so the question is whether it does. `MCOperatorReconcile` evaluates
`PlansVerified`, what `verify-operator-reconcile.mjs` expects of its fixtures, on
all specs. `OperatorReconcileProofs` proves that the plan is to patch exactly where
the controller may and must (`PlannerAgreesOnRegistration`), that the objects are
the same but for a namespace the controller never creates
(`PlannerAgreesOnObjects`), exactly which RAG policies are the same
(`PlannerAgreesOnRag`), and of the behaviours of the operator that it patches only
what was planned from what it read (`PatchesArePlanned`) and leaves what was planned
if nobody came between (`PatchesAreThePlan`). The last two rest on `PlanInv`, which
says that a reconcile about to patch read an `OLSConfig` that is not registered.

Where they differ: the planner compares the list with its order, so an entry that
is not the last counts as changed although Go leaves it in its place; it honours
`evidenceExport: false` and `approvalQueue: Disabled`, where Go always writes
"enabled" and "design-only" (`docs/rag/cywell-opslens-rag-approval-queue.md:28` says
that the operator renders the policy from the spec); its status has phases "Ready",
"Installing" and "Blocked" where Go, once it gets to the status, always writes
"Ready"; its `api.resources` is not a field of Go's spec; and an "external" model
provider still deploys OpsLens's own vLLM. Go also patches when two annotations of
its own are missing, which is left out.

## 4. Failover in the OCP client

`OcpFailover` (with `MCOcpFailover` and `OcpFailoverProofs`) models `requestJson`
and `requestText`. A slot is one exported function that reads the configuration
and makes requests with it; what it calls or starts beside it is another slot.

| Action | Code |
|---|---|
| `Begin`, `End`, `GoOn` | `getOcpConfig`; the function returns; it catches a request's error and goes on |
| `RefuseUnconfigured`, `Send` | `assertConfigured`; the request computes its candidates, the remembered ones first, as a Set |
| `Accept` | a pair answers: it is remembered for the whole process, and the request returns |
| `Reject`, `TimeOut` | an error: the next token; after the last, the next URL *with the tokens as remembered by then*; after the last, the request fails |
| `ChangeService`, `EditKubeconfig` | what the clusters serve to whom; the file changes |

`steady` in a request is history: the pairs that served its path all the time so
far.

| Run | Shows |
|---|---|
| `failover` | a request fails only if no configured pair served it all along, although the list of tokens is read anew for each URL and other requests reorder it; what is remembered answered together; when the cluster stays healthy, requests end up answered at the first attempt |

Bounds: two slots (one request to overtake another), two clusters, three URLs of
which two normalise to the same, two tokens with a duplicate in one
configuration and none in another, five patterns of service including one where
paths differ, two upsets. `Settles` assumes a cluster that serves all paths to the
same pairs: where paths differ, requests make each other retry for ever, as the
code has one remembered token. Fairness: every attempt is answered or times
out, so replies are weakly fair; a function makes finitely many requests, so its
end is strongly fair (its being enabled comes and goes with each request).

Proved for every configuration, any number of slots, URLs, tokens and upsets:
`TypeCorrect`, `FailuresAreJustified`, `ActivePairAnswered`. The invariant
(`SearchInv`) is that of a search: the candidates hold all that is configured
(`Covers`), all configured tokens were tried at every URL before the current one
(`SearchedBases`), all tokens before the current one at this URL
(`SearchedTokens`), and what was tried was not steady. `GiveUpKeepsSearch` is the
heart of it: skipping a repeated candidate loses nothing, and reading the tokens
anew loses nothing because those that are configured are in every reading. One
fact looks incidental and is needed: a token once remembered is never forgotten,
so the new reading is not empty.

Assumed: `normalizeBaseUrl` leaves a normalised URL alone and does not throw (it
does on something that is not a URL, which `new URL` rejects).

## 5. The console and the API under it

`MCWebConsole` composes six parts that share no variable; a behaviour is one of one
part (`part`), so that one run holds them all and each is explored completely.

| Module | Models | Its steps |
|---|---|---|
| `OcpReads` | a list or a get in `ocpClient.ts` above the failover: discovery or the cached one, access review, the read, the other served versions | `Ask`, `UseCache` / `BeginDiscovery`, `GetStatus`, `GetGroups`, `GetVersions`, `Review`, `Read`, `Leave`; `Tick`, `ChangeCluster` |
| `OcpCoverage` | the coverage scan and `mapWithConcurrency`: workers take the next target as they get free | `BeginScan`, `Take`, `ReviewList`, `ListSample`, `ReadDetail`, `AnswerScan` |
| `OcpDiagnosis` | the diagnosis of one resource: four checks, each raced against a timer that does not stop it | `StartCheck`, the requests of each check, `Proceed`, `Expire`, `DecideOnWebhook` |
| `ResourceExplorer` | the React state of the explorer and up to two loads in flight | `Select`, `ChooseResource`, `Navigate`, `LoadAgain`, `LoadNextPage`, `LoadPreviousPage`, `OpenItem`; `ListAnswers`, `ListFails`, `DetailAnswers`, `LogsAnswer`, ... |
| `AdminReview` | several dashboards over the queue of section 2 with all its steps (`Queue == INSTANCE ApprovalQueue`, a slot for each request) | `ClickSubmit`, `ClickReview`, `ArriveSubmit`, `ArriveReview`, `Serve` (a step of a handler), `ListFiles`, `ReadItem`, `ShowInventory`; `Fail`, `FailToWrite`, `RestartServer`, `DeleteFile` |
| `IncidentAnalysis` | one analysis: resource, pods, logs, events, metrics, then the answer from the runtime RAG or from the local index, and the proposal | `Analyze`, `Intake`, `CallTool`, one action per read, `Embed`, `SearchVectors` |

| Property | Says |
|---|---|
| `RemembersFor30Seconds` | a read works from a discovery that *began* less than 30 seconds before, whichever discovery ended last |
| `ServedAsReviewed` | what is served passed an access review of its own, a Secret only if that is allowed, another version only after the one asked for failed this very read, and never for the next page |
| `GapsAreForgotten` | once the cluster answers for good, reads stop failing for want of a discovery, although a partial discovery is cached and somebody reads all the time |
| `CoverageAccountsForAll` | one entry per resource in its place, each target probed once and ended, and the totals add up |
| `DiagnosisAccountsForAll` | every check has one finding, its own or that its time was up; a webhook is never shown without its state |
| `ScreenIsOfOneLoad` | when nothing is awaited no loading flag is left; without an overtaking answer list, detail, logs, page index and tokens belong together |
| `IncidentsAccountForAll` | every read is in the answer or in its missing evidence; a target that is not called a guess controls the pod whose logs are shown |
| `ApprovingDecides` | who goes on approving gets the item decided, or loses it to a torn file or a deletion, whatever the age of the inventories, the requests lost and the approvals that overlapping reviews overwrite |
| `DashboardRequestsEnd` | every request of a dashboard ends, on torn, missing and deleted files too |

`ConsoleOverview` holds, as operators, what the client puts together from many reads
without keeping anything: the console overview with its alerts, the related resources
of an object, the access review and the access matrix. `MCWebConsole` evaluates it on
small lists (`OverviewVerified`) and `DashboardProofs` proves of it, for all lists:

- `OverviewUnderstates`: no number exceeds the cluster's, and it is the cluster's when
  the list was read to its end; but a list with a page that cannot be read counts as
  empty, so a cluster whose operators may not be listed has no degraded ones, and
  after 20 pages a list stops without a sign of it;
- `AlertsAreCapped`: the overview counts the alerts among the 12 series that a query
  keeps, so it shows 12 firing alerts when there are 50;
- `RelatedAccountsForAll`: an owned child is shown, or its kind is among the errors, or
  it lies beyond the 20 pages;
- `MatrixAgrees`: the matrix says of a verb what its single review says, but for an
  object named with "list" or "watch", which only the single review names.

The conditions in `ScreenIsOfOneLoad` are what the code lacks: without
`~overtaken`, the list of another resource is shown after an answer that came late,
and without `~overlapped` the item of an earlier list stands beside a later one
and the page number is wrong. Further behaviours the models have: after another
resource was selected whose load failed, Previous sends a continue token of the
former one; a failed `/api` or `/apis` is cached as an empty discovery for 30
seconds; a timed-out check may add its finding after the one that says so; a
review that is refused leaves the stale inventory on screen. In the incident
analysis, the events of a Deployment alert are looked for by the pod's name and
filtered by the Deployment's kind, so they are always "read, none"; and an alert
that names a pod only as its resource lists arbitrary pods, whose owner may become a
target of high confidence, which is the exception in `IncidentsAccountForAll`.

Bounds: `OcpReads` has two slots (one discovery to overtake another), two versions
of a group, a Secret, a resource without events and one that cannot be listed,
`Ttl` of two ticks, which is the least in which a discovery can be older than half
of its time, three patterns of service, one timeout or change. The pool has two
workers; the explorer two resources (one with logs), two loads, three pages (the
second Next is the first that needs a token), four clicks; two dashboards with
one request in flight each, enough for two reviews to overlap, one item, one submission,
one lost request, failed write or restart; pods of two workloads and
a third without an owner, and alerts that name none, one or two of them. Fairness:
time passes (`Tick`), requests go on (`Step`, `GoesOn`), as timeouts and the event loop
see to it;
nobody owes a click: `ApprovingDecides` has the repeated clicks as its premise.

`OcpReadsProofs` proves `ReadsTypeCorrect`, `RemembersInTime` and
`ServesWhatWasReviewed` for every catalog, pattern and number of reads. The
invariant `ReadInv` says of a read on its way what `ServedAsReviewed` says of one
that has ended (`Sound`), and of the cache that what is left of its time and the
age of its content are 30 seconds at most (`RememberedInTime`), which is where it
matters that `expiresAt` is computed from the start of the discovery.

The other parts of the run are proved too, for any number of workers, resources, loads,
pages, pods, dashboards and requests:

- `CoverageIsComplete`: `CoverageInv` says of every target behind `nextIndex` that one
  worker holds it or its entry is in its place, and that its probe is counted once;
  the workers stop only when no target is left.
- `DiagnosesAreComplete`: `DiagnosisInv` says that a check has a finding of its own
  exactly when it is done, that one that expired has the other, and that the webhook's
  Service is checked only if the CRD was known to name it.
- `ScreensAreOfOneLoad`: `ExplorerInv` numbers the loads; without an overtaking answer
  whatever a later load shows was asked for from what an earlier one showed, the page
  tokens lead to the page of the list, and no flag is set unless a load will clear it.
- `AnalysesAreComplete`: `IncidentInv` says at each step that what was read and what is
  missing are, disjointly, what the analysis has set out to read so far (`SoFar`).

- `ReviewsOfferMissingRole`: an item that a dashboard offers for review lacks a required
  approval, however old the inventory, so that the fallback of `reviewQueueItem`
  (OpsLensAdminDashboard.tsx:434) is never taken. `ReviewInv` says so of the files, of
  what the handlers have yet to write, of every inventory being read and of every one
  shown, with any number of handlers between their steps.
- `ConsoleTypesCorrect`: `ConsoleTypeOK`, for the composition of `MCWebConsole`. The one
  bound in it that is not plain, at most twelve findings of a diagnosis, follows by
  counting: no two findings have one `Topic`.

`WebConsoleProofs` holds the last four. `ApprovingDecides`, `DashboardRequestsEnd` and
`GapsAreForgotten` are liveness and stay with TLC.

## 6. Reviewed evidence

`ReviewedEvidence`: security reviews of images, evidence of external runtime
images and of the certified CI runner. People write decisions into drafts, the
refresh rewrites drafts without one, a promotion copies a ready draft to its final
file, and scan runs write reports that drafts are judged by. Every script is a
process that reads Git and its files at different moments (`StartDraft` /
`FinishDraft`, `StartPromotion` / `FinishPromotion`, `StartScan`, `Trivy`, `Syft`,
`Redraft`, `EndScan`, `KillScan`), while `Edit` and `Commit` move the worktree.

The run `reviewed_evidence` shows that what a final file says was approved in a
draft of that head, and a security review with a scan that was clear
(`FinalsWereApproved`), and that results of a scan, also those a later plan took
over, are of the head and worktree they are recorded with
(`ResultsAreOfTheirHead`). Both are proved for all images, people and commits
(`FinalsAreApproved`, `ResultsAreGenuine`, with `ReviewTypeCorrect`). The first
needs that drafts that are ready, and jobs that hold one, were approved as well
(`ReadyDraftsWereApproved`); the second that a scan that took over results is a
plan, has nothing left to scan, and its results are of its head. Bounds: one image
built here and one external, two people (the refresh and a reviewer), two commits,
four acts.

What the models show and no property forbids: `refresh --force` overwrites
reviewers' drafts; concurrent promotions can overwrite each other; the head of
external final evidence is never compared with anything; a failing `git status`
counts as clean.

## 7. The release evidence chain and the overview

- `ReleaseArtifacts`: one operator per verifier, the artifact it writes when it runs
  now: head, dirtiness, status, and the fields others read.
- `ReleaseDecisions`: checkpoint lanes, roadmap stages, action queue and its critical
  path, bundle, completion gate, pre-cluster gate.
- `EvidenceChain`: the refresh that runs them in order (`StartRefresh`,
  `ChainStep`), with the nested MVP gate and the image build that take several
  steps; meanwhile `RunByHand`, `Edit`, `Commit`, `Supply`, `SupplyRunner`,
  `ChangeTools`, `TimeOut`, `StopChain`. `good` is history: the claims ever made
  about a clean commit.
- `AdminOverview`: what the API says of each artifact, missing and torn ones
  included.
- `RuntimeProbes`: the readiness probes of the API and of the verifier.
- `DecisionCards`: the install and the publish plan with ticket, decision and
  packet, and the cards the API builds from them.

| Property | Says |
|---|---|
| `ClaimsRest` | a claim about a clean commit was made only after every claim it rests on was made about that commit, whatever is run by hand, timed out, edited or committed between |
| `GatesStayClosed` | the completion gate and the pre-cluster gate never open (see below) |
| `RefreshAgrees` | after an undisturbed refresh roadmap and bundle agree: the two passes suffice |
| `RunnerEvidenceNeverCounts` | certification readiness of a clean commit rests on the machine's own tools |
| `RefreshEnds` | every refresh ends |
| `OverviewRests` | what the overview shows as favourable was claimed of a clean commit, with all it rests on; of a roadmap written in an edited worktree only what it rests on |
| `FailuresShown` | failed artifacts, and such as are being written when they are read, are shown as failed or blocked, and a torn one is not called missing |

`GatesStayClosed` is a statement about the code as it is and not a wish. The
roadmap wants an open ticket in lanes that it also wants closed, and
the runtime-quality and RAG-production lanes are always open, so neither gate
(README.md:76 and docs/acceptance/mvp-0.1.md:106 of the repository describe them) can be
passed, so a refresh can never end with PASS; no run saw the bundle become
APPROVAL_READY, but that is no property here. Evidence of a certified runner makes the
worktree dirty until it is committed, and is of an earlier head from then on. A live runtime probe that passes
(`live-probes` among the tools, as on the release machine of the run) opens no gate, as the
other lanes stay open. More behaviours of this kind:
once the reviewers have answered, the first item of the external-runtime lane is
one without a ticket, which makes the queue BLOCKED; the image build reads the
worktree before a build of minutes and stamps it after; a static image run keeps
the failures of an earlier build beside PASS; the heads of scan reports are not
checked. The overview compares no head with the checked-out one, its mappers
differ in whether they look at the worktree, and the certification verifier's
FAILED is not among the statuses it knows (api.ts:4469), the exception in
`FailuresShown`.

Bounds: two commits, two tool sets (a release machine with everything, a laptop
with nothing), two refreshes, two acts; two scripts that an edit may break (a verifier and the drafts
of security reviews, whose failure shows in no artifact), one run
by hand and one place in the chain where others act, in the middle of the reads
that matter: with each more place the states multiply and no property looks at
two of them. Fairness: `ChainStep` is weakly fair, as every step of the refresh has
a timeout; people and machines owe nothing. Left out: a file torn for good by a
kill in mid-write, verifiers that read such a file, the time between the overview's reads
of one file and the next, and an MVP gate or a refresh inside another
(`ByHandAssumption`: both run only as part of a refresh of the chain).

`EvidenceChainProofs` proves all of these but `RefreshEnds`, for any sets of
commits, tools, options and scripts run by hand, and any number of refreshes and acts
(`ChainTypes`, `ClaimsAlwaysRest`, `GatesAlwaysClosed`, `RefreshAlwaysAgrees`,
`RunnerNeverCounts`, `FailuresAlwaysShown`, `OverviewAlwaysRests`). None of them is
inductive as it stands. All rest on `TInv`, the types, and on the lemma `Writes`: a
step leaves the artifacts alone, writes one verdict, or makes one of five composite
writes (the gate's with the artifacts around it, the live reader's, the end of a
build, the drafts, the refresh's own report).

- `CInv`, for the claims: a claim in an artifact of a clean commit is in `good`; a
  PASS of `connectivity`, `community` and `checkpoint` was written in a clean worktree;
  what a clean checkpoint passes, and all that a passing roadmap rests on, was claimed
  at its head. A verdict then adds to `good` only what the freshness checks of its script found there.
- `GInv`, for the gates: a checkpoint that passes the review packet has seen one, and a
  roadmap that passes leaves an action queue whose critical path is not empty, which
  contradicts what either gate asks of the queue.
- `RInv`, for the agreement, speaks of where the chain is: from its last bundle on,
  while the refresh is undisturbed, the bundle copies the roadmap, since no later step
  of the chain writes either.
- `NInv`: the evidence of a runner is not committed, and then the worktree is dirty,
  or names an earlier commit than the one checked out.
- `FInv`: the status with which each script says that it failed; each mapper of the
  overview turns that status, and a torn file, into failed or blocked.

The proof found two errors in the model. `OverviewRests` once claimed of a roadmap
what only holds of a clean one: `verify-roadmap-plan-alignment` warns about a dirty
worktree where others fail, and the overview (api.ts:11350) does not look at it, so a
roadmap may be shown as ready that speaks for no commit; the bounded run has no act
in that place. And the bounds and the scripts run by hand needed assumptions of
their own (`BoundsAssumption`, `ByHandAssumption`). `NoneAssumption` says that the
model value of a missing artifact is no artifact.

`DashboardProofs` proves what `MCEvidenceChain` evaluates as `ProbesVerified` and
`CardsVerified` on small inputs, for all inputs. On the probes: `RuntimesReadyWereProbed`;
`HandoffsAgreeOnTheModel`; and `DashboardCannotProbePostgres`, since the API fetches the
`postgresql://` URL over HTTP, so that the vector store is never ready on the
dashboard while the verifier's TCP probe passes. On the cards: `EveryMutationIsGated`;
`CardsAgree`; `InstallCardNeverAsks`, since the approval itself is an open item, so
decision and ticket always miss evidence; and `PublishCardIgnoresFailures`, since a
plan that is blocked by a failed check has the card of one that is not.

## 8. What the checks and proofs can and cannot say

TLC explores the small instances above completely. TLAPS proves the theorems for
all values of the constants under their named assumptions (`ItemOfType`,
`InstallSpecsType`, `NormalizeType`, ...), which TLC evaluates on each run; so it
does the `...Verified` assumptions of the MC modules, which compare the pure
operators with what is expected of them on small inputs. Outside the prover's
reach, and so only model-checked: liveness under fairness, anything with `ENABLED`,
and what recursive definitions compute for all inputs. The `doc_*` runs check one
property each that a document, comment or check of the repository states and the
code does not keep; `findings` in `PROJECT.json` quotes the statement.

| Proof module | Proves | Invariant |
|---|---|---|
| `ApprovalQueueProofs` | types, three safety properties, what can become of decisions and deletions; one request at a time, acknowledged decisions and the refinement; search and validation of the index | `IInv`, `SharedInv`, `SerialInv`, `HistoryInv` |
| `OperatorReconcileProofs` | types, registrations, patches, password, status; planner and controller | `RInv`, `PInv`, `WInv`, `PlanInv` |
| `OcpFailoverProofs` | types, justified failures, remembered pair | `SearchInv` |
| `OcpReadsProofs` | types, age of discoveries, reviews; coverage; diagnosis | `ReadInv`, `CoverageInv`, `DiagnosisInv` |
| `WebConsoleProofs` | the explorer's screen; incident analyses; dashboards; types of all parts | `ExplorerInv`, `IncidentInv`, `ReviewInv` |
| `ReviewedEvidenceProofs` | types, approvals, scan results | `ApprovalInv`, `ResultInv` |
| `EvidenceChainProofs` | types, claims, gates, agreement, runner evidence; the overview | `TInv`, `CInv`, `GInv`, `RInv`, `NInv`, `FInv` |
| `DashboardProofs` | probes, cards, console overview | none, the operators are pure |

Only model-checked: all liveness (`DashboardRequestsEnd`, `Converges`, `Settles`,
`GapsAreForgotten`, `ApprovingDecides`, `RefreshEnds`), and the `...Verified` assumptions.

Definitions marked "Fault" are wrong versions of the definition that follows them, as a
plausible bug would write it; replacing the definition by its fault breaks the
property named in `mutants`.

Not modelled:

- redaction, hashing, rendering, wording and formatting, which no property is about;
- that the many reads of one overview or one search for children happen at different
  times, so that their lists need not fit together (`ConsoleOverview` takes each list
  as the pages that were read);
- the web shell and its panes, which load once and render; of the admin dashboard,
  what is not a handler of the queue;
- in the overview: static parts, and what is put in the place of fields that older
  artifacts lack;
- several API replicas (each has its own directory, so they are separate queues);
- scripts that start servers, print traces or copy a context; types, sample data,
  manifests, bundles and tests.

## 9. Plan

Every safety invariant and every action property of a passing run is proved. What is
left: lemmas about the recursive functions of the index, as far as they need no
induction, and more of what the theorems of `DashboardProofs` say of the other cards.
