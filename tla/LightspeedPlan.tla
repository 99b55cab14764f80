---------------------------- MODULE LightspeedPlan ----------------------------
(***************************************************************************)
(* The reconcile planner of packages/operator-controller: a pure function   *)
(* of an OpsLensInstallation and an OLSConfig that says what the operator   *)
(* would write.  The verifiers (operator reconcile, runtime parity, the     *)
(* patch preview) show reviewers its plans as what the Go controller of     *)
(* OperatorReconcile will do.  What the controller writes for the same part *)
(* of a spec stands next to what the planner plans for it.                  *)
(***************************************************************************)
EXTENDS OperatorReconcile

CONSTANT Approvals   \* lists of approvals spec.rag can require, none included

ASSUME ApprovalsType == "none" \in Approvals

RagSpec == [intake : {"ValidateOnly"}, evidenceExport : {"true", "false", "unset"},
            rawReturn : BOOLEAN, queue : {"DesignOnly", "Disabled"},
            enqueue : BOOLEAN, approvals : Approvals]
-----------------------------------------------------------------------------
(* The RAG policy of a spec, as the ConfigMap and the environment of the    *)
(* API get it.  Raw return and enqueueing are off whatever is asked for.    *)
PlannedRag(r) ==
    [intake    |-> "validate-only",
     export    |-> IF r.evidenceExport # "false" THEN "enabled" ELSE "disabled",
     rawReturn |-> FALSE,
     queue     |-> IF r.queue = "DesignOnly" THEN "design-only" ELSE "disabled",
     enqueue   |-> FALSE,
     approvals |-> IF r.approvals = "none" THEN "rag-owner,cluster-sre" ELSE r.approvals]

\* What the controller writes: of the spec only the approvals are looked at.
RagSettings(r) ==
    [intake    |-> "validate-only",
     export    |-> "enabled",
     rawReturn |-> FALSE,
     queue     |-> "design-only",
     enqueue   |-> FALSE,
     approvals |-> IF r.approvals = "none" THEN "rag-owner,cluster-sre" ELSE r.approvals]

ApiEnv(s, r) ==
    {"CYWELL_OPSLENS_VECTOR_PROVIDER"}
    \cup {v \in {"CYWELL_OPSLENS_POSTGRES_URL"} : s.provider = "pgvector"}
    \cup {v \in {"CYWELL_OPSLENS_MODEL_URL"} : s.model # "mock-local"}
    \cup {RagSettings(r)}

PlannedApiEnv(s, r) ==
    {"CYWELL_OPSLENS_VECTOR_PROVIDER"}
    \cup {v \in {"CYWELL_OPSLENS_POSTGRES_URL"} : s.provider = "pgvector"}
    \cup {v \in {"CYWELL_OPSLENS_MODEL_URL"} : s.model # "mock-local"}
    \cup {PlannedRag(r)}

PlannedApi ==
    {"Namespace", "APIServiceAccount", "RAGPolicy", "APIDeployment", "APIService",
     "APINetworkPolicy"}

PlannedDashboard == {"DashboardDeployment", "DashboardService", "DashboardNetworkPolicy"}

\* With a password the plan only stands a placeholder for.
PlannedSecret(s) == {o \in {"PostgresAuthSecret"} : s.provider = "pgvector"}

PlannedVectorStore(s) == {o \in {"VectorStore", "VectorService"} : s.provider # "inmemory"}

PlannedModelRuntime(s) ==
    {o \in {"ModelRuntime", "ModelRuntimeService"} : s.model # "mock-local"}

PlannedConsolePlugin(s) == {o \in {"ConsolePlugin"} : s.console = "enabled"}

PlannedObjects(s) ==
    PlannedApi \cup PlannedSecret(s) \cup PlannedDashboard \cup PlannedVectorStore(s)
    \cup PlannedModelRuntime(s) \cup PlannedConsolePlugin(s)
-----------------------------------------------------------------------------
PlannedEntry(s) == [name |-> s.server, url |-> s.endpoint]

PlannedServers(s, config) ==
    LET desired == PlannedEntry(s)
    IN  {x \in config.servers : x.name # desired.name} \cup {desired}

PlannedGates(config) == config.gates \cup {"MCPServer"}

(* The plan puts the entry of OpsLens at the end of the list and compares   *)
(* lists: an entry that is not the last is a change, whatever it says.      *)
Changed(s, config, last) ==
    \/ PlannedServers(s, config) # config.servers
    \/ PlannedGates(config) # config.gates
    \/ ~last

NoPatch(s, phase) ==
    [mode |-> s.mode, phase |-> phase, mutationAllowed |-> FALSE, willPatch |-> FALSE]

RegistrationPlan(s, config, last) ==
    LET changed == Changed(s, config, last)
    IN  IF s.endpoint \notin McpEndpoints THEN NoPatch(s, "Invalid")
        ELSE IF config = NoOLS THEN NoPatch(s, "MissingOLSConfig")
        ELSE IF s.mode = "ValidateOnly"
        THEN NoPatch(s, IF changed THEN "NeedsPatch" ELSE "Ready")
        ELSE [mode |-> s.mode, phase |-> IF changed THEN "PatchPlanned" ELSE "Ready",
              mutationAllowed |-> TRUE, willPatch |-> changed]

\* Lightspeed and RAG conditions are false only for what the plan cannot do or grant.
PlannedStatus(plan, r) ==
    LET blocked == plan.phase \in {"Invalid", "MissingOLSConfig"}
    IN  [phase |-> IF blocked THEN "Blocked"
                   ELSE IF plan.phase = "PatchPlanned" THEN "Installing" ELSE "Ready",
         lightspeed |-> plan.phase,
         falseConditions |-> {c \in {"LightspeedRegistration"} : blocked}
                             \cup {c \in {"RagDocumentIntake"} : r.rawReturn}
                             \cup {c \in {"RagApprovalQueue"} : r.enqueue}]

\* What the controller writes once it got that far.
WrittenStatus(s) ==
    [phase |-> "Ready", lightspeed |-> LightspeedPhase(s), falseConditions |-> {}]

ReconcilePlan(s, r, config, last) ==
    LET plan == RegistrationPlan(s, config, last)
    IN  [objects |-> PlannedObjects(s), registration |-> plan,
         status |-> PlannedStatus(plan, r), willPatchLightspeed |-> plan.willPatch]
-----------------------------------------------------------------------------
(* What verify-operator-reconcile expects of the plans of its fixtures: an  *)
(* installation in each mode, an OLSConfig without OpsLens and one with it. *)
PlansVerify(s, r, before, registered) ==
    LET validate == ReconcilePlan([s EXCEPT !.mode = "ValidateOnly"], r, before, TRUE)
        patching == [s EXCEPT !.mode = "PatchOLSConfig"]
        patch    == ReconcilePlan(patching, r, before, TRUE)
        light    == ReconcilePlan([s EXCEPT !.mode = "ValidateOnly", !.provider = "inmemory",
                                            !.model = "mock-local"], r, before, TRUE)
        ready    == ReconcilePlan(patching, r, registered, TRUE)
        missing  == ReconcilePlan(patching, r, NoOLS, TRUE)
    IN  /\ validate.registration.phase = "NeedsPatch"
        /\ ~validate.registration.mutationAllowed /\ ~validate.willPatchLightspeed
        /\ validate.status.phase = "Ready"
        /\ patch.registration.phase = "PatchPlanned" /\ patch.registration.mutationAllowed
        /\ patch.willPatchLightspeed
        /\ before.servers \subseteq PlannedServers(patching, before)
        /\ before.gates \cup {"MCPServer"} \subseteq PlannedGates(before)
        /\ {"APIDeployment", "VectorStore", "ModelRuntime", "ConsolePlugin"} \subseteq patch.objects
        /\ light.objects \cap {"PostgresAuthSecret", "VectorStore", "VectorService",
                               "ModelRuntime", "ModelRuntimeService"} = {}
        /\ ready.registration.phase = "Ready" /\ ~ready.willPatchLightspeed
        /\ missing.registration.phase = "MissingOLSConfig"
        /\ ~missing.registration.mutationAllowed /\ missing.status.phase = "Blocked"

(* The controller patches only where the planner, given the OLSConfig the   *)
(* controller read, says that it would; and where it finds nothing to do,   *)
(* the planner finds at most the order of the list.                         *)
PatchesAsPlanned ==
    work.stage = PatchStage =>
        \A last \in BOOLEAN :
            LET plan == RegistrationPlan(work.seen.spec, work.read, last)
            IN  plan.phase = "PatchPlanned" /\ plan.willPatch

(* A patch that lands on the OLSConfig as it was read leaves what the       *)
(* planner planned for it.                                                  *)
PatchIsThePlan ==
    [][work.stage = PatchStage /\ ols = work.read /\ work' # work /\ ols' # ols =>
          /\ ols'.servers = PlannedServers(work.seen.spec, work.read)
          /\ ols'.gates = PlannedGates(work.read)]_vars
=============================================================================
