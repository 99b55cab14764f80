--------------------------- MODULE OperatorReconcile ---------------------------
(***************************************************************************)
(* The Go controller of deploy/operator/controller-runtime: one worker that *)
(* reconciles one OpsLensInstallation object by object, then registers the  *)
(* MCP server in OpenShift Lightspeed's OLSConfig, then writes the status.  *)
(* Every stage is an API call, so the installation, the objects it owns and *)
(* the OLSConfig can change between any two of them: users edit, delete and *)
(* recreate the installation, drift the objects, edit the OLSConfig; the    *)
(* garbage collector removes what a deleted installation owned.             *)
(*                                                                          *)
(* A read that the informer cache answers late is a read that happened      *)
(* before the edit it misses, so reads are modelled as current.             *)
(***************************************************************************)
EXTENDS Naturals, Sequences

CONSTANTS
    InstallSpecs,    \* installation specs users apply, a subset of InstallSpec
    ServerNames,     \* mcpServerName values
    Endpoints,       \* lightspeedRegistration.endpoint values
    McpEndpoints,    \* those that end with /mcp
    Sizes,           \* storageSize values
    ValidSizes,      \* those resource.ParseQuantity accepts
    ForeignServers,  \* MCP servers other products keep in the OLSConfig
    OtherGates,      \* feature gates other than MCPServer
    Placements,      \* whether targetNamespace is the namespace of the installation
    SecretsWatched,  \* the cache of the manager may list and watch Secrets
    Driftable,       \* objects somebody changes or deletes by hand
    Kept,            \* bound: the objects an instance has; the others are skipped
    MaxUpsets        \* bound on edits, drifts, API errors and operator crashes

InstallSpec == [provider : {"pgvector", "inmemory"}, size : Sizes,
                model : {"vllm", "external", "mock-local"}, console : {"enabled", "disabled"},
                mode : {"ValidateOnly", "PatchOLSConfig"},
                server : ServerNames, endpoint : Endpoints]

ASSUME InstallSpecsType == InstallSpecs \subseteq InstallSpec
ASSUME ForeignNames == \A e \in ForeignServers : e.name \notin ServerNames
ASSUME McpEndpointsType == McpEndpoints \subseteq Endpoints
ASSUME SettingsType == Placements \subseteq BOOLEAN /\ SecretsWatched \in BOOLEAN
ASSUME MaxUpsetsType == MaxUpsets \in Nat

VARIABLES
    inst,     \* the OpsLensInstallation object
    status,   \* its status, and (history) the revision it was written on
    cluster,  \* the objects the operator writes
    volume,   \* password the pgvector volume was initialised with, 0 for none
    ols,      \* the OLSConfig
    work,     \* the reconcile in progress: stage, installation read, OLSConfig read
    queued,   \* the work queue holds the installation
    rev,      \* source of resource versions and uids
    secrets,  \* passwords made so far
    upsets,
    asked,    \* history: registrations a PatchOLSConfig installation has asked for
    lost,     \* history: how the Secret was lost since the volume was initialised
    sameNamespace   \* one of Placements, for good

vars == <<inst, status, cluster, volume, ols, work, queued, rev, secrets, upsets, asked,
          lost, sameNamespace>>
-----------------------------------------------------------------------------
(* The objects in the order Reconcile writes them.  Those whose content is  *)
(* fixed by the code differ only in their place in it.                      *)
ObjectOrder ==
    <<"APIServiceAccount", "RAGPolicy", "PostgresAuthSecret", "APIDeployment",
      "APIService", "APINetworkPolicy", "DashboardDeployment", "DashboardService",
      "DashboardNetworkPolicy", "VectorStore", "VectorService", "ModelRuntime",
      "ModelRuntimeService", "ConsolePlugin">>

Objects == {ObjectOrder[k] : k \in DOMAIN ObjectOrder}

\* The stages after the objects; 0 is no reconcile in progress.
ReadStage   == Len(ObjectOrder) + 1
PatchStage  == Len(ObjectOrder) + 2
StatusStage == Len(ObjectOrder) + 3

Absent   == [kind |-> "absent"]
NoInst   == [kind |-> "absent"]
NoStatus == [kind |-> "absent"]
NoOLS    == [kind |-> "absent"]
NoWork   == [stage |-> 0]

Gates   == OtherGates \cup {"MCPServer"}
Entries == [name : ServerNames, url : Endpoints]
OLSConfig == [servers : SUBSET (ForeignServers \cup Entries), gates : SUBSET Gates]

Included(o, s) ==
    /\ o \in Kept
    /\ o \in {"PostgresAuthSecret", "VectorStore", "VectorService"} => s.provider = "pgvector"
    /\ o \in {"ModelRuntime", "ModelRuntimeService"} => s.model # "mock-local"
    /\ o = "ConsolePlugin" => s.console = "enabled"

\* The ConsolePlugin is cluster-scoped; no owner crosses a namespace.  An owner of
\* the same name is replaced, its uid not compared.
OwnerOf(o, i) == IF sameNamespace /\ o # "ConsolePlugin" THEN i.uid ELSE 0

\* Fault: a password is generated on every reconcile.
ContentRotating(o, s) ==
    CASE o = "PostgresAuthSecret" -> [password |-> secrets + 1]
      [] o = "APIDeployment" -> [provider |-> s.provider, model |-> s.model]
      [] o = "VectorStore" -> [size |-> s.size]
      [] OTHER -> [fixed |-> "by the code"]

(* What the mutate function of an object writes: only these depend on the   *)
(* spec.  The Secret keeps the password it has.                             *)
Content(o, s) ==
    CASE o = "PostgresAuthSecret" /\ cluster[o] = Absent -> [password |-> secrets + 1]
      [] o = "PostgresAuthSecret" /\ cluster[o] # Absent -> cluster[o].content
      [] o = "APIDeployment" -> [provider |-> s.provider, model |-> s.model]
      [] o = "VectorStore" -> [size |-> s.size]
      [] OTHER -> [fixed |-> "by the code"]

(* A write is refused: the size does not parse, or differs in the immutable *)
(* volumeClaimTemplates of the StatefulSet that is there.                   *)
Refused(o, s) ==
    /\ o = "VectorStore"
    /\ \/ s.size \notin ValidSizes
       \/ cluster[o] # Absent /\ cluster[o].content # Content(o, s)

\* Changes of these objects reach the work queue through their owner.
Watched(o) == sameNamespace /\ o \notin {"PostgresAuthSecret", "ConsolePlugin"}
-----------------------------------------------------------------------------
Entry(s) == [name |-> s.server, url |-> s.endpoint]

\* Fault: the list is replaced by the entry of OpsLens.
UpsertAlone(servers, e) == {e}

(* Entries of the same name become e; e is appended if there was none. *)
Upsert(servers, e) == {x \in servers : x.name # e.name} \cup {e}

Registered(config, s) ==
    Upsert(config.servers, Entry(s)) = config.servers /\ "MCPServer" \in config.gates

(* MergeFrom sends the fields the handler changed, each list whole. *)
Merged(now, read, s) ==
    LET servers == Upsert(read.servers, Entry(s))
    IN  [servers |-> IF servers # read.servers THEN servers ELSE now.servers,
         gates   |-> IF "MCPServer" \notin read.gates
                     THEN read.gates \cup {"MCPServer"} ELSE now.gates]

\* Fault: the mode is not looked at.
MayRegisterAnyMode(s) == s.endpoint \in McpEndpoints

MayRegister(s) == s.mode = "PatchOLSConfig" /\ s.endpoint \in McpEndpoints

\* Fault: the phases of the TypeScript planner are written.
LightspeedPhaseOfPlan(s) == IF s.mode = "PatchOLSConfig" THEN "PatchPlanned" ELSE "NeedsPatch"

LightspeedPhase(s) == IF s.mode = "PatchOLSConfig" THEN "PatchPlanned" ELSE "Ready"
-----------------------------------------------------------------------------
Init ==
    /\ inst = NoInst
    /\ status = NoStatus
    /\ cluster = [o \in Objects |-> Absent]
    /\ volume = 0
    /\ ols \in {NoOLS, [servers |-> ForeignServers, gates |-> OtherGates]}
    /\ work = NoWork
    /\ queued = FALSE
    /\ rev = 0
    /\ secrets = 0
    /\ upsets = 0
    /\ asked = {}
    /\ lost = {}
    /\ sameNamespace \in Placements

(* Reconcile returns an error: the queue retries it with backoff. *)
Abort == work' = NoWork /\ queued' = TRUE

Advance(stage) == work' = [work EXCEPT !.stage = stage]

(* The worker takes the installation; one that is gone needs nothing. *)
Begin ==
    /\ work = NoWork
    /\ queued
    /\ queued' = FALSE
    /\ work' = IF inst = NoInst THEN NoWork ELSE [stage |-> 1, seen |-> inst]
    /\ UNCHANGED <<inst, status, cluster, volume, ols, rev, secrets, upsets, asked, lost>>

AtObject == work.stage \in DOMAIN ObjectOrder

SkipObject ==
    /\ AtObject
    /\ ~Included(ObjectOrder[work.stage], work.seen.spec)
    /\ Advance(work.stage + 1)
    /\ UNCHANGED <<inst, status, cluster, volume, ols, queued, rev, secrets, upsets, asked, lost>>

(* The cached client answers a Get of a Secret once its informer has listed *)
(* the Secrets: a role without list and watch leaves the Get waiting.       *)
CanRead(o) == o = "PostgresAuthSecret" => SecretsWatched

\* Fault: an object that is there is left as it is.
WriteObjectOnce ==
    /\ AtObject
    /\ LET o == ObjectOrder[work.stage]
           new == [content |-> Content(o, work.seen.spec), owner |-> OwnerOf(o, work.seen)]
       IN  /\ Included(o, work.seen.spec) /\ CanRead(o) /\ ~Refused(o, work.seen.spec)
           /\ cluster' = IF cluster[o] = Absent THEN [cluster EXCEPT ![o] = new] ELSE cluster
           /\ secrets' = IF o = "PostgresAuthSecret" /\ cluster[o] = Absent
                         THEN secrets + 1 ELSE secrets
           /\ queued' = (queued \/ (Watched(o) /\ cluster[o] = Absent))
    /\ Advance(work.stage + 1)
    /\ UNCHANGED <<inst, status, volume, ols, rev, upsets, asked, lost>>

(* controllerutil.CreateOrUpdate: read, mutate, and write if that changed it.*)
WriteObject ==
    /\ AtObject
    /\ LET o == ObjectOrder[work.stage]
           new == [content |-> Content(o, work.seen.spec), owner |-> OwnerOf(o, work.seen)]
       IN  /\ Included(o, work.seen.spec) /\ CanRead(o) /\ ~Refused(o, work.seen.spec)
           /\ cluster' = [cluster EXCEPT ![o] = new]
           /\ secrets' = IF o = "PostgresAuthSecret" /\ cluster[o] = Absent
                         THEN secrets + 1 ELSE secrets
           /\ queued' = (queued \/ (Watched(o) /\ cluster[o] # new))
    /\ Advance(work.stage + 1)
    /\ UNCHANGED <<inst, status, volume, ols, rev, upsets, asked, lost>>

RefuseObject ==
    /\ AtObject
    /\ LET o == ObjectOrder[work.stage]
       IN  Included(o, work.seen.spec) /\ CanRead(o) /\ Refused(o, work.seen.spec)
    /\ Abort
    /\ UNCHANGED <<inst, status, cluster, volume, ols, rev, secrets, upsets, asked, lost>>

(* ValidateOnly returns before the OLSConfig is read. *)
SkipRegistration ==
    /\ work.stage = ReadStage
    /\ work.seen.spec.mode = "ValidateOnly"
    /\ Advance(StatusStage)
    /\ UNCHANGED <<inst, status, cluster, volume, ols, queued, rev, secrets, upsets, asked, lost>>

RefuseRegistration ==
    /\ \/ /\ work.stage = ReadStage
          /\ work.seen.spec.mode = "PatchOLSConfig"
          /\ ~MayRegister(work.seen.spec) \/ ols = NoOLS
       \/ work.stage = PatchStage /\ ols = NoOLS
    /\ Abort
    /\ UNCHANGED <<inst, status, cluster, volume, ols, rev, secrets, upsets, asked, lost>>

ReadOLSConfig ==
    /\ work.stage = ReadStage
    /\ MayRegister(work.seen.spec)
    /\ ols # NoOLS
    /\ IF Registered(ols, work.seen.spec)
       THEN Advance(StatusStage)
       ELSE work' = [stage |-> PatchStage, seen |-> work.seen, read |-> ols]
    /\ UNCHANGED <<inst, status, cluster, volume, ols, queued, rev, secrets, upsets, asked, lost>>

(* The patch carries no resource version: it lands on whatever is there. *)
PatchOLSConfig ==
    /\ work.stage = PatchStage
    /\ ols # NoOLS
    /\ ols' = Merged(ols, work.read, work.seen.spec)
    /\ work' = [stage |-> StatusStage, seen |-> work.seen]
    /\ UNCHANGED <<inst, status, cluster, volume, queued, rev, secrets, upsets, asked, lost>>

\* Fault: the status is written on whatever the installation has become.
UpdateStatusUnlocked ==
    /\ work.stage = StatusStage
    /\ inst # NoInst
    /\ status' = [lightspeed |-> LightspeedPhase(work.seen.spec), on |-> inst.rev]
    /\ queued' = (queued \/ status' # status)
    /\ work' = NoWork
    /\ UNCHANGED <<inst, cluster, volume, ols, rev, secrets, upsets, asked, lost>>

(* Status().Update carries the resource version that was read. *)
UpdateStatus ==
    /\ work.stage = StatusStage
    /\ inst = work.seen
    /\ status' = [lightspeed |-> LightspeedPhase(work.seen.spec), on |-> inst.rev]
    /\ queued' = (queued \/ status' # status)
    /\ work' = NoWork
    /\ UNCHANGED <<inst, cluster, volume, ols, rev, secrets, upsets, asked, lost>>

StatusConflict ==
    /\ work.stage = StatusStage
    /\ inst # work.seen
    /\ Abort
    /\ UNCHANGED <<inst, status, cluster, volume, ols, rev, secrets, upsets, asked, lost>>

ReconcileStep ==
    \/ Begin \/ SkipObject \/ WriteObject \/ RefuseObject
    \/ SkipRegistration \/ RefuseRegistration \/ ReadOLSConfig \/ PatchOLSConfig
    \/ UpdateStatus \/ StatusConflict
-----------------------------------------------------------------------------
Upset == upsets < MaxUpsets /\ upsets' = upsets + 1

(* An API call fails, or the operator dies; the restarted manager lists the *)
(* installation and queues it.                                              *)
Interrupt ==
    /\ Upset
    /\ work # NoWork
    /\ Abort
    /\ UNCHANGED <<inst, status, cluster, volume, ols, rev, secrets, asked, lost>>

(* The cache resynchronises every ten hours. *)
Resync ==
    /\ ~queued
    /\ queued' = TRUE
    /\ UNCHANGED <<inst, status, cluster, volume, ols, work, rev, secrets, upsets, asked, lost>>

Ask(s) ==
    asked' = IF s.mode = "PatchOLSConfig" /\ s.endpoint \in McpEndpoints
             THEN asked \cup {Entry(s)} ELSE asked

CreateInstallation(s) ==
    /\ Upset
    /\ inst = NoInst
    /\ inst' = [spec |-> s, uid |-> rev + 1, rev |-> rev + 1]
    /\ rev' = rev + 1
    /\ status' = NoStatus
    /\ queued' = TRUE
    /\ Ask(s)
    /\ UNCHANGED <<cluster, volume, ols, work, secrets, lost>>

EditInstallation(s) ==
    /\ Upset
    /\ inst # NoInst
    /\ s # inst.spec
    /\ inst' = [inst EXCEPT !.spec = s, !.rev = rev + 1]
    /\ rev' = rev + 1
    /\ queued' = TRUE
    /\ Ask(s)
    /\ UNCHANGED <<status, cluster, volume, ols, work, secrets, lost>>

(* There is no finalizer: the object is gone at once. *)
DeleteInstallation ==
    /\ Upset
    /\ inst # NoInst
    /\ inst' = NoInst
    /\ status' = NoStatus
    /\ queued' = TRUE
    /\ UNCHANGED <<cluster, volume, ols, work, rev, secrets, asked, lost>>

Lost(o, how) ==
    lost' = IF o = "PostgresAuthSecret" /\ volume # 0 THEN lost \cup {how} ELSE lost

(* Garbage collection of an object whose owner is gone. *)
Collect(o) ==
    /\ cluster[o] # Absent
    /\ cluster[o].owner # 0
    /\ inst # NoInst => cluster[o].owner # inst.uid
    /\ cluster' = [cluster EXCEPT ![o] = Absent]
    /\ queued' = (queued \/ Watched(o))
    /\ Lost(o, "collected")
    /\ UNCHANGED <<inst, status, volume, ols, work, rev, secrets, upsets, asked>>

(* Somebody deletes an object or changes it by hand: in the Secret, another  *)
(* password, one of before or one the operator would not have generated.    *)
Drift(o) ==
    /\ Upset
    /\ cluster[o] # Absent
    /\ \/ cluster' = [cluster EXCEPT ![o] = Absent] /\ secrets' = secrets
       \/ /\ o \notin {"PostgresAuthSecret", "VectorStore"}
          /\ cluster' = [cluster EXCEPT ![o].content = [fixed |-> "by hand"]]
          /\ secrets' = secrets
       \/ /\ o = "PostgresAuthSecret"
          /\ \E p \in 1..secrets + 1 :
                /\ cluster' = [cluster EXCEPT ![o].content = [password |-> p]]
                /\ secrets' = IF p > secrets THEN p ELSE secrets
    /\ queued' = (queued \/ Watched(o))
    /\ Lost(o, "by hand")
    /\ UNCHANGED <<inst, status, volume, ols, work, rev, asked>>

(* The database initialises its empty volume with the password it is given; *)
(* the volume claim outlives the StatefulSet.                               *)
StartDatabase ==
    /\ volume = 0
    /\ cluster["VectorStore"] # Absent
    /\ cluster["PostgresAuthSecret"] # Absent
    /\ volume' = cluster["PostgresAuthSecret"].content.password
    /\ UNCHANGED <<inst, status, cluster, ols, work, queued, rev, secrets, upsets, asked, lost>>

(* Another product or an administrator edits its own part of the OLSConfig, *)
(* or Lightspeed is installed or removed.                                   *)
EditOLSConfig ==
    /\ Upset
    /\ \/ /\ ols # NoOLS
          /\ \E servers \in SUBSET ForeignServers, gates \in SUBSET OtherGates :
                ols' = [servers |-> (ols.servers \ ForeignServers) \cup servers,
                        gates   |-> (ols.gates \ OtherGates) \cup gates]
       \/ ols # NoOLS /\ ols' = NoOLS
       \/ ols = NoOLS /\ ols' = [servers |-> {}, gates |-> {}]
    /\ ols' # ols
    /\ UNCHANGED <<inst, status, cluster, volume, work, queued, rev, secrets, asked, lost>>

(* The documented rollback: the OLSConfig is restored from before OpsLens. *)
RestoreOLSConfig ==
    /\ Upset
    /\ ols # NoOLS
    /\ ols' = [servers |-> ols.servers \cap ForeignServers, gates |-> ols.gates \cap OtherGates]
    /\ UNCHANGED <<inst, status, cluster, volume, work, queued, rev, secrets, asked, lost>>

UserStep ==
    \/ \E s \in InstallSpecs : CreateInstallation(s) \/ EditInstallation(s)
    \/ DeleteInstallation
    \/ \E o \in Driftable : Drift(o)
    \/ EditOLSConfig
    \/ RestoreOLSConfig

Step ==
    \/ ReconcileStep
    \/ Interrupt
    \/ Resync
    \/ UserStep
    \/ \E o \in Objects : Collect(o)
    \/ StartDatabase

Next == Step /\ UNCHANGED sameNamespace

Spec == Init /\ [][Next]_vars

(* The worker runs, the cache resynchronises, the cluster collects garbage; *)
(* users owe nothing, and the bound on upsets is what ends API errors.      *)
FairSpec ==
    /\ Spec
    /\ WF_vars(ReconcileStep /\ UNCHANGED sameNamespace)
    /\ WF_vars(Resync /\ UNCHANGED sameNamespace)
    /\ \A o \in Objects : WF_vars(Collect(o) /\ UNCHANGED sameNamespace)
-----------------------------------------------------------------------------
Installation == [spec : InstallSpecs, uid : Nat \ {0}, rev : Nat \ {0}]
Contents == [password : Nat] \cup [size : Sizes] \cup [fixed : {"by the code", "by hand"}]
            \cup [provider : {"pgvector", "inmemory"}, model : {"vllm", "external", "mock-local"}]
Object == [content : Contents, owner : Nat]
Losses == {"by hand", "collected"}

TypeOK ==
    /\ inst \in Installation \cup {NoInst}
    /\ status \in [lightspeed : {"Ready", "PatchPlanned"}, on : Nat] \cup {NoStatus}
    /\ cluster \in [Objects -> Object \cup {Absent}]
    /\ cluster["PostgresAuthSecret"] # Absent
          => cluster["PostgresAuthSecret"].content \in [password : 1..secrets]
    /\ volume \in 0..secrets
    /\ ols \in OLSConfig \cup {NoOLS}
    /\ work \in {NoWork} \cup [stage : (1..StatusStage) \ {PatchStage}, seen : Installation]
                \cup [stage : {PatchStage}, seen : Installation, read : OLSConfig]
    /\ queued \in BOOLEAN
    /\ rev \in Nat /\ secrets \in Nat /\ upsets \in 0..MaxUpsets
    /\ asked \subseteq Entries
    /\ lost \subseteq Losses
    /\ sameNamespace \in BOOLEAN

(* The operator puts in the OLSConfig only registrations that some          *)
(* installation asked for in PatchOLSConfig mode with an endpoint that ends *)
(* with /mcp, however edits, deletions and retries interleave.              *)
RegistrationsWereAsked ==
    ols # NoOLS => ols.servers \ ForeignServers \subseteq asked

(* The servers and gates of others survive a patch if they were there when  *)
(* the OLSConfig was read and still are when the patch lands.               *)
PatchKeepsWhatItRead ==
    [][work.stage = PatchStage /\ work' # work /\ ols' # ols =>
          /\ ols.servers \cap work.read.servers \cap ForeignServers \subseteq ols'.servers
          /\ ols.gates \cap work.read.gates \subseteq ols'.gates]_vars

(* A patch keeps the servers and gates of others. *)
PatchKeepsOthers ==
    [][work.stage = PatchStage /\ work' # work /\ ols' # ols =>
          ols.servers \cap ForeignServers \subseteq ols'.servers /\ ols.gates \subseteq ols'.gates]_vars

Applied(o) ==
    /\ cluster[o] # Absent
    /\ cluster[o].content = Content(o, inst.spec)
    /\ cluster[o].owner = OwnerOf(o, inst)

(* A status that was written on the installation as it now is tells the     *)
(* truth of every object that nobody changes by hand: those its spec        *)
(* includes have the content the spec asks for, even when the spec was      *)
(* edited, or deleted and created again, while a reconcile of the old one   *)
(* was going on.                                                            *)
ReadyMeansApplied ==
    (inst # NoInst /\ status # NoStatus /\ status.on = inst.rev)
        => \A o \in Objects \ Driftable : Included(o, inst.spec) => Applied(o)

(* The password in the Secret opens the database: it is the one the volume  *)
(* was initialised with, whatever is edited, deleted and installed again,   *)
(* unless somebody deleted the Secret or changed its password, or it was    *)
(* collected with its installation, which only a Secret in the namespace of *)
(* the installation can be.                                                 *)
PasswordOpensDatabase ==
    (volume # 0 /\ cluster["PostgresAuthSecret"] # Absent)
        => \/ cluster["PostgresAuthSecret"].content.password = volume
           \/ "by hand" \in lost
           \/ "collected" \in lost /\ sameNamespace

(* What makes a stage fail however often it is retried. *)
Stuck(k) ==
    \/ /\ k \in DOMAIN ObjectOrder
       /\ Included(ObjectOrder[k], inst.spec)
       /\ Refused(ObjectOrder[k], inst.spec)
    \/ /\ k = ReadStage
       /\ inst.spec.mode = "PatchOLSConfig"
       /\ ~MayRegister(inst.spec) \/ ols = NoOLS

Done(k) ==
    CASE k \in DOMAIN ObjectOrder ->
            Included(ObjectOrder[k], inst.spec) => Applied(ObjectOrder[k])
      [] k \in {ReadStage, PatchStage} ->
            inst.spec.mode = "PatchOLSConfig" => ols # NoOLS /\ Registered(ols, inst.spec)
      [] OTHER ->
            status # NoStatus /\ status.lightspeed = LightspeedPhase(inst.spec)

(* Once users and failures leave the system alone, every stage that no      *)
(* earlier stage blocks ends as the spec asks and stays so: objects,        *)
(* registration and status converge, with no event but the resync to tell   *)
(* of a drift in objects the controller does not watch.                     *)
Converges ==
    <>[](inst # NoInst => \A k \in 1..StatusStage : Done(k) \/ \E j \in 1..k : Stuck(j))
=============================================================================
