--------------------------- MODULE MCApprovalQueue ---------------------------
(* Values of the constants for the model checker. *)
EXTENDS ApprovalQueueHistory, RagIndex, TLC

CONSTANTS d1, d2, d3, i1, i2, owner, sre, guest, kim, s1, s2

\* Two drafts whose redacted previews agree share one queue item.
MCItemOfOne == d1 :> i1 @@ d2 :> i1
MCItemOfTwo == d1 :> i1 @@ d2 :> i1 @@ d3 :> i2
-----------------------------------------------------------------------------
(* Two requests in flight, with one event remembered at most, whichever: a   *)
(* decision that landed alone, or a deletion while nobody was about to open  *)
(* the file.  The properties are about one such event at a time.             *)
Watch ==
    /\ acks' \in {acks, acks \cup {d \in AckedNow : d.alone}}
    /\ withdrawn' \in {withdrawn, withdrawn \cup {w \in WithdrawnNow : ~w.held}}
    /\ Cardinality(acks') + Cardinality(withdrawn') <= 1
    /\ RecordLanding

WatchedSpec == HistoryInit /\ [][Next /\ Watch]_historyVars

\* Requests are alike, and so are the drafts of one item.
Alike == Permutations({s1, s2}) \cup Permutations({d1, d2})
-----------------------------------------------------------------------------
\* Runbooks: as a reviewer wants them, with a level nobody knows, without chunks.
Runbook(meta, parts) ==
    [frontMatter |-> meta # <<>>, meta |-> meta, length |-> 100, paragraphs |-> parts,
     body |-> {"body"}, sensitive |-> FALSE]
Meta(id, level) == "id" :> id @@ "label" :> "disk" @@ "sourceType" :> "official-doc"
                   @@ "trustLevel" :> level
Runbooks == {Runbook(Meta("r1", "draft"), <<{"pv"}, {"pvc", "node"}>>),
             Runbook(Meta("r2", "drafted"), <<{"node"}>>), Runbook(<<>>, <<>>)}
RunbookFiles == {[tenant |-> x, name |-> n, markdown |-> m] :
                    x \in {"acme", "cywell"}, n \in {"a", "b"}, m \in Runbooks}
Requests == {[tenant |-> x, name |-> n, safeTenant |-> TRUE, safeName |-> TRUE, markdown |-> m] :
                x \in {"acme"}, n \in {"c"}, m \in Runbooks}
Indexed(files) == BuildLocalRagIndex({"acme", "cywell"}, files)
Sorts(chunks, query, similarity) ==
    {p \in [chunks -> 0..3] : Sorted(p, chunks, query, similarity)}

(* Small indexes: a query finds something, the best first and no document   *)
(* twice, and never more than was asked for; the level of a file nobody     *)
(* validated is "approved" when it is not one of those known.               *)
ASSUME SearchVerified ==
    \A f \in RunbookFiles, g \in RunbookFiles : f.name # g.name =>
        LET index == Indexed({f, g})
        IN  \A words \in {{"pvc", "node"}, {}}, s \in [index.chunks -> {0, 10}], max \in 1..2 :
            \A p \in Sorts(index.chunks, {"acme"} \cup words, s) :
                LET results == SearchLocalRagIndex(index, "acme", words, max, s, p)
                IN  /\ Cardinality(results) <= max
                    /\ \A c \in results : c.tenant = "acme"
                    /\ (results = {}) <=> (\A h \in {f, g} : h.tenant # "acme")

ASSUME ValidationVerified ==
    \A f \in RunbookFiles, r \in Requests :
        LET index == Indexed({f})
            export == CreateRagValidationEvidenceExport(index, r)
        IN  /\ export.validation.accepted =>
                  export.validation.documents \subseteq
                      Indexed({f, [tenant |-> r.tenant, name |-> r.name,
                                   markdown |-> r.markdown]}).documents
            /\ export.blockers # {}
            /\ export.validation.accepted
                  <=> r.markdown.meta # <<>> /\ r.markdown.meta["trustLevel"] = "draft"
                      /\ ~(f.tenant = "acme" /\ f.markdown = r.markdown)
=============================================================================
