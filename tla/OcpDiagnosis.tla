------------------------------ MODULE OcpDiagnosis ------------------------------
(***************************************************************************)
(* The diagnostic of one resource in apps/api/src/ocpClient.ts: its         *)
(* coverage, then its CRD, its APIService, its other versions and the       *)
(* conversion webhook of its CRD, each check raced against a timer.  A      *)
(* check that loses its race is not stopped: it goes on next to the later   *)
(* ones, adds its finding when it ends, and may still tell of a webhook,    *)
(* as long as the answer has not been sent.                                 *)
(***************************************************************************)
EXTENDS OcpCoverage

VARIABLES
    diagnosis,  \* the request: [r, found, pc, hook], or None
    check,      \* what each check is waiting for
    findings    \* the findings so far, in order

diagnosisVars == <<diagnosis, check, findings>>

Checks == {"crd", "api-service", "alternate-versions", "webhook-service"}

\* A request: what awaitCheck awaits (pc), and what is known of a webhook.
Diagnoses ==
    [r : Catalog, found : Discoveries, pc : Checks \cup {"conversion", "sent"},
     hook : {"unknown", "none", "service", "nowhere"}]

ASSUME NoDiagnosis == None \notin Diagnoses

\* The check or decision that follows each check.
Following ==
    [c \in Checks |-> CASE c = "crd" -> "api-service"
                        [] c = "api-service" -> "alternate-versions"
                        [] c = "alternate-versions" -> "conversion"
                        [] c = "webhook-service" -> "sent"]

\* What was read may still be bad news; it was not when the access review
\* denied it, it was not found, or its read failed.
Finding(id, status) == [id |-> id, status |-> status]
Expired(c) == Finding(c, "timed-out")

\* A resource of the core group has neither a CRD nor an APIService.
IsCore(r) == r.group = ""

\* What a list of one item, or the lack of one, says of the resource.
Coverages(r) ==
    IF SafeToList(r)
    THEN {Entry(r, "listed", "skipped"), Entry(r, "empty", "empty"),
          Entry(r, "denied", "denied"), Entry(r, "error", "error")}
    ELSE {Entry(r, IF r.kind = Secret THEN "blocked"
                   ELSE IF "list" \in r.verbs THEN "skipped"
                   ELSE "unsupported", "skipped")}
-----------------------------------------------------------------------------
DiagnosisInit ==
    /\ diagnosis = None
    /\ check = [c \in Checks |-> "none"]
    /\ findings = <<>>

BeginDiagnosis(found, r) ==
    /\ diagnosis = None
    /\ r \in {found[i] : i \in DOMAIN found}
    /\ \E e \in Coverages(r) : findings' = <<Finding("coverage-gap", Gap(e))>>
    /\ diagnosis' = [r |-> r, found |-> found, pc |-> "crd", hook |-> "unknown"]
    /\ UNCHANGED check

Open == diagnosis # None /\ diagnosis.pc # "sent"
Awaited(c) == Open /\ diagnosis.pc = c

\* A check waits for something else, or ends with a finding.
Await(c, what) == check' = [check EXCEPT ![c] = what] /\ UNCHANGED findings
EndsWith(c, status) ==
    /\ check' = [check EXCEPT ![c] = "done"]
    /\ findings' = Append(findings, Finding(c, status))

OtherVersions ==
    Alternates({diagnosis.found[i] : i \in DOMAIN diagnosis.found}, diagnosis.r, "list")

(* The check begins; one that has nothing to read ends at once.             *)
StartCheck(c) ==
    /\ Awaited(c) /\ check[c] = "none"
    /\ CASE c = "crd" ->
              IF IsCore(diagnosis.r) THEN EndsWith(c, "skipped") ELSE Await(c, "review")
         [] c = "api-service" ->
              IF IsCore(diagnosis.r) THEN EndsWith(c, "skipped") ELSE Await(c, "get")
         [] c = "alternate-versions" ->
              IF OtherVersions = {} THEN EndsWith(c, "skipped") ELSE Await(c, "probe")
         [] c = "webhook-service" -> Await(c, "service")
    /\ UNCHANGED diagnosis

ReviewCrd ==
    /\ Open /\ check["crd"] = "review"
    /\ EndsWith("crd", "unread") \/ Await("crd", "get")
    /\ UNCHANGED diagnosis

\* Fault: a CRD that answers after its timer tells of no webhook.
ReadCrdInTime ==
    /\ Open /\ check["crd"] = "get"
    /\ \/ EndsWith("crd", "unread") /\ UNCHANGED diagnosis
       \/ \E hook \in {"none", "service", "nowhere"} :
             /\ EndsWith("crd", IF hook = "none" THEN "read" ELSE "webhook")
             /\ diagnosis' = IF Awaited("crd") THEN [diagnosis EXCEPT !.hook = hook]
                             ELSE diagnosis

(* The CRD converts its versions itself or by a webhook, which is behind a  *)
(* Service or somewhere else.  The finding and what the diagnostic then     *)
(* knows of the webhook are of one step: nothing is awaited in between.     *)
ReadCrd ==
    /\ Open /\ check["crd"] = "get"
    /\ \/ EndsWith("crd", "unread") /\ UNCHANGED diagnosis
       \/ \E hook \in {"none", "service", "nowhere"} :
             /\ EndsWith("crd", IF hook = "none" THEN "read" ELSE "webhook")
             /\ diagnosis' = [diagnosis EXCEPT !.hook = hook]

ReadApiService ==
    /\ Open /\ check["api-service"] = "get"
    /\ \E status \in {"unread", "read"} : EndsWith("api-service", status)
    /\ UNCHANGED diagnosis

(* All the versions are reviewed and listed at once; none of them fails the *)
(* check, and one that can be read is enough.                               *)
ProbeVersions ==
    /\ Open /\ check["alternate-versions"] = "probe"
    /\ \E status \in {"unread", "read"} : EndsWith("alternate-versions", status)
    /\ UNCHANGED diagnosis

(* The Service, its Endpoints and its EndpointSlices, one after the other.  *)
ReadWebhook(part, onward) ==
    /\ Open /\ check["webhook-service"] = part
    /\ \E status \in {"unread", "read"} : findings' = Append(findings, Finding(part, status))
    /\ check' = [check EXCEPT !["webhook-service"] = onward]
    /\ UNCHANGED diagnosis

ReadService   == ReadWebhook("service", "endpoints")
ReadEndpoints == ReadWebhook("endpoints", "slices")
ReadSlices    == ReadWebhook("slices", "done")

(* The check that is awaited has ended.                                     *)
Proceed(c) ==
    /\ Awaited(c) /\ check[c] = "done"
    /\ diagnosis' = [diagnosis EXCEPT !.pc = Following[c]]
    /\ UNCHANGED <<check, findings>>

(* The timer of the check that is awaited ends first.                       *)
Expire(c) ==
    /\ Awaited(c) /\ check[c] \notin {"none", "done"}
    /\ findings' = Append(findings, Expired(c))
    /\ diagnosis' = [diagnosis EXCEPT !.pc = Following[c]]
    /\ UNCHANGED check

(* The webhook is checked when the CRD is known by now to name its Service; *)
(* otherwise nothing is awaited before the answer.                          *)
DecideOnWebhook ==
    /\ Awaited("conversion")
    /\ diagnosis' =
          [diagnosis EXCEPT !.pc = IF diagnosis.hook = "service" THEN "webhook-service"
                                   ELSE "sent"]
    /\ findings' = IF diagnosis.hook = "nowhere"
                   THEN Append(findings, Finding("service", "read")) ELSE findings
    /\ UNCHANGED check

DiagnosisStep ==
    \/ \E c \in Checks : StartCheck(c) \/ Proceed(c) \/ Expire(c)
    \/ ReviewCrd \/ ReadCrd \/ ReadApiService \/ ProbeVersions
    \/ ReadService \/ ReadEndpoints \/ ReadSlices
    \/ DecideOnWebhook

DiagnosisNext ==
    \/ \E found \in Discoveries, r \in Catalog : BeginDiagnosis(found, r)
    \/ DiagnosisStep

DiagnosisSpec == DiagnosisInit /\ [][DiagnosisNext]_diagnosisVars
-----------------------------------------------------------------------------
DiagnosisTypeOK ==
    /\ diagnosis \in {None} \cup Diagnoses
    /\ check \in [Checks -> {"none", "review", "get", "probe", "service", "endpoints",
                             "slices", "done"}]
    /\ Len(findings) \in 0..12

Has(id) == \E i \in DOMAIN findings : findings[i].id = id /\ findings[i].status # "timed-out"
TimedOut(c) == \E i \in DOMAIN findings : findings[i] = Expired(c)

(* The answer accounts for every check: each has its finding, or one that   *)
(* says its time was up, which may be followed by the finding of the late   *)
(* check, and no finding is there twice.  A CRD that is said to convert by  *)
(* a webhook, however late it answered, is never shown without the state of *)
(* that webhook, and no webhook is shown for a CRD that names none.         *)
DiagnosisAccountsForAll ==
    diagnosis # None /\ diagnosis.pc = "sent" =>
        LET webhook == Finding("crd", "webhook") \in {findings[i] : i \in DOMAIN findings}
        IN  /\ \A i, j \in DOMAIN findings :
                  i # j => <<findings[i].id, findings[i].status = "timed-out">>
                             # <<findings[j].id, findings[j].status = "timed-out">>
            /\ \A c \in Checks \ {"webhook-service"} : Has(c) \/ TimedOut(c)
            /\ webhook => Has("service") \/ TimedOut("webhook-service")
            /\ Has("service") \/ TimedOut("webhook-service") => webhook
            /\ diagnosis.hook = "service" /\ ~TimedOut("webhook-service")
                  => Has("endpoints") /\ Has("slices")
=============================================================================
