-------------------------------- MODULE RagIndex --------------------------------
(***************************************************************************)
(* The local index of runbooks (packages/rag/src/localIndex.ts): how the    *)
(* files below the directory of a tenant become documents and chunks, how a *)
(* query finds them, and how a draft is validated before it may be queued.  *)
(*                                                                          *)
(* A markdown text is a record: whether it has a front matter, the fields   *)
(* "meta" of it, the length of its body, the words of each of its           *)
(* paragraphs that is no heading, the words of the whole body, and whether  *)
(* something in it looks like a secret.  A file is [tenant, name, markdown].*)
(***************************************************************************)
EXTENDS Naturals, Sequences, FiniteSets

Fields      == {"id", "label", "sourceType", "trustLevel"}
SourceTypes == {"customer-runbook", "official-doc", "cluster-snapshot"}
TrustLevels == {"approved", "official", "cluster-snapshot", "draft"}

Has(m, field) == field \in DOMAIN m.meta
Filled(m, field) == Has(m, field) /\ m.meta[field] # ""

\* What is not one of the types or levels counts as the first of them.
SourceType(m) ==
    IF Has(m, "sourceType") /\ m.meta["sourceType"] \in SourceTypes
    THEN m.meta["sourceType"] ELSE "customer-runbook"
TrustLevel(m) ==
    IF Has(m, "trustLevel") /\ m.meta["trustLevel"] \in TrustLevels
    THEN m.meta["trustLevel"] ELSE "approved"

DocumentId(name, m) ==
    IF Has(m, "id") THEN m.meta["id"] ELSE "customer-runbook:" \o name
Label(name, m) == IF Has(m, "label") THEN m.meta["label"] ELSE name

\* The id of a tenant is a word of its own, in every chunk and every query.
Tokenize(tenant, label, words) == {tenant, label} \cup words

ChunksOf(tenant, name, m, parts) ==
    {[id     |-> <<DocumentId(name, m), n>>, document |-> DocumentId(name, m),
      tenant |-> tenant, file |-> name, ordinal |-> n,
      tokens |-> Tokenize(tenant, Label(name, m), parts[n])] : n \in DOMAIN parts}

Described(tenant, name, m) ==
    [id |-> DocumentId(name, m), tenant |-> tenant, label |-> Label(name, m), file |-> name,
     sourceType |-> SourceType(m), trustLevel |-> TrustLevel(m),
     chunkCount |-> IF m.paragraphs = <<>> THEN 1 ELSE Len(m.paragraphs)]
-----------------------------------------------------------------------------
(* Building.  Every file is taken as it is: nothing is validated.            *)

BuildTenantDocuments(files, tenant) ==
    LET own == {f \in files : f.tenant = tenant}
    IN  [documents |-> {Described(tenant, f.name, f.markdown) : f \in own},
         chunks    |-> UNION {ChunksOf(tenant, f.name, f.markdown,
                                  IF f.markdown.paragraphs = <<>>
                                  THEN <<f.markdown.body>> ELSE f.markdown.paragraphs)
                              : f \in own}]

BuildLocalRagIndex(tenants, files) ==
    [tenants   |-> tenants,
     documents |-> UNION {BuildTenantDocuments(files, t).documents : t \in tenants},
     chunks    |-> UNION {BuildTenantDocuments(files, t).chunks : t \in tenants}]
-----------------------------------------------------------------------------
(* Searching.  A score is in hundredths: the similarity of the vectors, and  *)
(* eight for every word in common.  "place" is where the sort by score puts  *)
(* a chunk, equal scores being in the order of the ids of their chunks.      *)

Score(query, c, similarity) == similarity[c] + 8 * Cardinality(query \cap c.tokens)

Sorted(place, chunks, query, similarity) ==
    /\ place \in [chunks -> Nat]
    /\ \A c, d \in chunks :
          /\ c # d => place[c] # place[d]
          /\ Score(query, c, similarity) > Score(query, d, similarity) => place[c] < place[d]

Matching(index, tenant, query, similarity) ==
    {c \in index.chunks : c.tenant = tenant /\ Score(query, c, similarity) > 0}

\* The first chunk of each document.
FirstOfDocument(chunks, place) ==
    {c \in chunks : \A d \in chunks : d.document = c.document => place[c] <= place[d]}

SearchLocalRagIndex(index, tenant, words, max, similarity, place) ==
    LET query == {tenant} \cup words
        found == FirstOfDocument(Matching(index, tenant, query, similarity), place)
    IN  {c \in found : Cardinality({d \in found : place[d] < place[c]}) < max}

MissingEvidence(index, tenant, results) ==
    (IF tenant \in index.tenants THEN {} ELSE {"tenant"})
    \cup (IF \E c \in index.chunks : c.tenant = tenant THEN {} ELSE {"chunks"})
    \cup (IF results = {} THEN {"results"} ELSE {})
-----------------------------------------------------------------------------
(* Validating a draft, [tenant, name, safeTenant, safeName, markdown]; the   *)
(* flags say that the two names have the form that is asked for.             *)

Checks(index, r) ==
    LET m == r.markdown
    IN  [tenantId      |-> r.safeTenant,
         fileName      |-> r.safeName,
         frontMatter   |-> m.frontMatter,
         metadata      |-> \A f \in Fields : Filled(m, f),
         sourceType    |-> Filled(m, "sourceType") => m.meta["sourceType"] \in SourceTypes,
         trustLevel    |-> Filled(m, "trustLevel") => m.meta["trustLevel"] \in TrustLevels,
         contentLength |-> m.length >= 80,
         chunking      |-> m.paragraphs # <<>>,
         duplicateId   |-> \A d \in index.documents :
                               ~(d.id = DocumentId(r.name, m) /\ d.tenant = r.tenant)]

FailedIssues(index, r) == {i \in DOMAIN Checks(index, r) : ~Checks(index, r)[i]}

\* A secret in the text is only a warning: it is redacted.
ValidateRagDocumentIntake(index, r) ==
    LET accepted == FailedIssues(index, r) = {}
    IN  [accepted  |-> accepted,
         documents |-> IF accepted THEN {Described(r.tenant, r.name, r.markdown)} ELSE {},
         chunks    |-> ChunksOf(r.tenant, r.name, r.markdown, r.markdown.paragraphs),
         warnings  |-> IF r.markdown.sensitive THEN {"sensitive-text"} ELSE {}]

\* What is exported for the reviewers; the queue of the product is designed only.
CreateRagValidationEvidenceExport(index, r) ==
    LET validation == ValidateRagDocumentIntake(index, r)
    IN  [validation |-> validation,
         nextState  |-> IF validation.accepted THEN "pending-human-approval"
                                               ELSE "rejected-before-approval",
         blockers   |-> IF validation.accepted THEN {"queue is disabled"}
                                               ELSE FailedIssues(index, r)]
=============================================================================
