------------------------- MODULE MCOperatorReconcile -------------------------
(* Values of the constants for the model checker. *)
EXTENDS LightspeedPlan

CONSTANTS small, large, junk, mcp, bad, opslens, other

Install(provider, size, model, mode, endpoint) ==
    [provider |-> provider, size |-> size, model |-> model, console |-> "enabled",
     mode |-> mode, server |-> opslens, endpoint |-> endpoint]

\* The sample, and what an administrator may turn it into.
Sample   == Install("pgvector", small, "vllm", "PatchOLSConfig", mcp)
Validate == Install("pgvector", small, "vllm", "ValidateOnly", mcp)
Memory   == [Install("inmemory", small, "mock-local", "PatchOLSConfig", mcp)
                EXCEPT !.console = "disabled"]
Grown    == Install("pgvector", large, "vllm", "PatchOLSConfig", mcp)
Typo     == Install("pgvector", junk, "vllm", "PatchOLSConfig", mcp)
NotMcp   == Install("inmemory", small, "mock-local", "PatchOLSConfig", bad)

SampleOnly   == {Sample}
Safe         == {Sample, Validate, Memory}
Risky        == {Sample, Grown, Typo, NotMcp}
AllSpecs     == Safe \cup Risky

FewObjects == {"PostgresAuthSecret", "APIDeployment", "VectorStore", "ConsolePlugin"}

Foreign == {[name |-> other, url |-> mcp]}
-----------------------------------------------------------------------------
\* An OLSConfig without OpsLens and one with it, as the fixtures of the verifiers.
Before(s)     == [servers |-> Foreign, gates |-> {"OtherGate"}]
Registrant(s) == [servers |-> Foreign \cup {Entry(s)}, gates |-> {"OtherGate", "MCPServer"}]

(* What verify-operator-reconcile checks for its two fixtures holds for     *)
(* every spec with an endpoint that ends with /mcp.                         *)
ASSUME PlansVerified ==
    \A s \in AllSpecs \ {NotMcp}, r \in RagSpec :
        LET full == [s EXCEPT !.provider = "pgvector", !.model = "vllm", !.console = "enabled"]
        IN  PlansVerify(full, r, Before(s), Registrant(s))
=============================================================================
