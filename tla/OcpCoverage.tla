------------------------------- MODULE OcpCoverage -------------------------------
(***************************************************************************)
(* The coverage scan of apps/api/src/ocpClient.ts: every resource of a      *)
(* discovery that is safe to list is probed by a pool of workers, which     *)
(* take the next target whenever they have finished one; the others get an  *)
(* entry without a probe.  The cluster may answer or fail every request.    *)
(* The resources, and which of them are safe to list, are those of OcpReads.*)
(***************************************************************************)
EXTENDS OcpReads, Sequences, FiniteSets

CONSTANTS
    Discoveries,       \* discoveries, as sequences of resources
    Limits,            \* maxResources; 0 when none was asked for
    Workers            \* the concurrency of the pool

ASSUME DiscoveriesType ==
    /\ Discoveries \subseteq Seq(Catalog)
    /\ \A d \in Discoveries : \A i, j \in DOMAIN d : d[i] = d[j] => i = j
ASSUME LimitsType == Limits \subseteq Nat
ASSUME WorkersType == IsFiniteSet(Workers) /\ Workers # {}

VARIABLES
    scan,     \* the request: [found, limit, details], or None
    nextIndex,  \* the targets before it are taken
    worker,   \* what each worker is doing
    results,  \* the entries of the probes that ended, by target
    probes,   \* history: how often each target was probed
    answer    \* the entries of the answer, or None

coverageVars == <<scan, nextIndex, worker, results, probes, answer>>

Free == [pc |-> "free"]
Stopped == [pc |-> "stopped"]

Scans == [found : Discoveries, limit : Limits, details : BOOLEAN]

\* A target is named by its position in the discovery.
Safe(found) == {i \in DOMAIN found : SafeToList(found[i])}

\* safeResources, the first maxResources of them if a number was given.
Targets(s) ==
    {i \in Safe(s.found) :
        s.limit = 0 \/ Cardinality({j \in Safe(s.found) : j <= i}) <= s.limit}

\* The targets that no worker has taken yet.
Left == {i \in DOMAIN results : nextIndex <= i}

CoverageInit ==
    /\ scan = None
    /\ nextIndex = 1
    /\ worker = [w \in Workers |-> Stopped]
    /\ results = <<>>
    /\ probes = <<>>
    /\ answer = None

(* The pool has no more workers than targets. *)
BeginScan(found, limit, details) ==
    LET s == [found |-> found, limit |-> limit, details |-> details]
        n == Cardinality(Targets(s))
    IN  /\ scan = None
        /\ scan' = s
        /\ nextIndex' = 1
        /\ \E team \in SUBSET Workers :
              /\ Cardinality(team) = (IF n < Cardinality(Workers) THEN n
                                      ELSE Cardinality(Workers))
              /\ worker' = [w \in Workers |-> IF w \in team THEN Free ELSE Stopped]
        /\ results' = [i \in Targets(s) |-> None]
        /\ probes' = [i \in Targets(s) |-> 0]
        /\ answer' = None

(* A free worker takes the next target or stops. *)
Take(w) ==
    /\ worker[w] = Free
    /\ \/ \E i \in Left :
             /\ \A j \in Left : i <= j
             /\ worker' = [worker EXCEPT ![w] = [pc |-> "review", i |-> i]]
             /\ probes' = [probes EXCEPT ![i] = @ + 1]
             /\ nextIndex' = i + 1
       \/ /\ Left = {}
          /\ worker' = [worker EXCEPT ![w] = Stopped]
          /\ UNCHANGED <<probes, nextIndex>>
    /\ UNCHANGED <<scan, results, answer>>

Target(w) == scan.found[worker[w].i]

Entry(r, list, detail) == [r |-> r, list |-> list, detail |-> detail]

EndProbe(w, list, detail) ==
    /\ results' = [results EXCEPT ![worker[w].i] = Entry(Target(w), list, detail)]
    /\ worker' = [worker EXCEPT ![w] = Free]

GoOn(w, pc) == worker' = [worker EXCEPT ![w].pc = pc] /\ UNCHANGED results

(* The access review of the list; one that fails does not deny. *)
ReviewList(w) ==
    /\ worker[w].pc = "review"
    /\ EndProbe(w, "denied", "denied") \/ GoOn(w, "sample")
    /\ UNCHANGED <<scan, nextIndex, probes, answer>>

(* A list of one item, first of its metadata, then as plain JSON. *)
ListSample(w) ==
    /\ worker[w].pc = "sample"
    /\ \/ EndProbe(w, "error", "error")
       \/ EndProbe(w, "empty", "empty")
       \/ ~scan.details /\ EndProbe(w, "listed", "skipped")
       \/ /\ scan.details
          /\ IF "get" \notin Target(w).verbs THEN EndProbe(w, "listed", "unsupported")
             ELSE EndProbe(w, "listed", "skipped") \/ GoOn(w, "detail")
    /\ UNCHANGED <<scan, nextIndex, probes, answer>>

(* The access review of the sample and its read. *)
ReadDetail(w) ==
    /\ worker[w].pc = "detail"
    /\ \E detail \in {"denied", "read", "error"} : EndProbe(w, "listed", detail)
    /\ UNCHANGED <<scan, nextIndex, probes, answer>>

(* The entry of a resource that has no probe of its own. *)
StaticEntry(r) ==
    IF r.kind = Secret /\ ~AllowSecretFetch THEN Entry(r, "blocked", "skipped")
    ELSE IF "list" \notin r.verbs THEN Entry(r, "unsupported", "unsupported")
    ELSE Entry(r, "skipped", "skipped")

EntryOf(r) ==
    IF \E i \in DOMAIN results : results[i] # None /\ results[i].r = r
    THEN CHOOSE e \in {results[i] : i \in DOMAIN results} : e # None /\ e.r = r
    ELSE IF \E i \in DOMAIN results : scan.found[i] = r THEN Entry(r, "error", "skipped")
    ELSE StaticEntry(r)

\* Fault: the scan answers as soon as the last target is taken.
AnswerEarly ==
    /\ scan # None /\ answer = None
    /\ Left = {}
    /\ answer' = [i \in DOMAIN scan.found |-> EntryOf(scan.found[i])]
    /\ UNCHANGED <<scan, nextIndex, worker, results, probes>>

(* When all the workers have stopped. *)
AnswerScan ==
    /\ scan # None /\ answer = None
    /\ \A w \in Workers : worker[w] = Stopped
    /\ answer' = [i \in DOMAIN scan.found |-> EntryOf(scan.found[i])]
    /\ UNCHANGED <<scan, nextIndex, worker, results, probes>>

CoverageNext ==
    \/ \E found \in Discoveries, limit \in Limits, details \in BOOLEAN :
          BeginScan(found, limit, details)
    \/ \E w \in Workers : Take(w) \/ ReviewList(w) \/ ListSample(w) \/ ReadDetail(w)
    \/ AnswerScan

CoverageSpec == CoverageInit /\ [][CoverageNext]_coverageVars
-----------------------------------------------------------------------------
(* classifyCoverageGap: the gaps a reader is shown. *)
Gap(e) ==
    IF e.list = "listed" /\ e.detail # "error" THEN "none"
    ELSE IF e.list = "empty" THEN "empty"
    ELSE IF e.list = "denied" THEN "rbac-denied"
    ELSE IF e.list = "blocked" THEN "policy-blocked"
    ELSE IF e.list = "unsupported" THEN "list-unsupported"
    ELSE IF e.list = "skipped" THEN "not-probed"
    ELSE "error"

Total(status) == Cardinality({i \in DOMAIN answer : answer[i].list = status})

ListStatuses == {"listed", "empty", "denied", "error", "blocked", "unsupported", "skipped"}
DetailStatuses == {"read", "empty", "denied", "error", "unsupported", "skipped"}
Entries == [r : Catalog, list : ListStatuses, detail : DetailStatuses]

ASSUME NoScan == None \notin Scans /\ None \notin Entries

CoverageTypeOK ==
    /\ scan \in {None} \cup Scans
    /\ nextIndex \in Nat \ {0}
    /\ worker \in [Workers -> {Free, Stopped}
                              \cup [pc : {"review", "sample", "detail"}, i : DOMAIN results]]
    /\ results \in [DOMAIN probes -> Entries \cup {None}]
    /\ scan # None => probes \in [Targets(scan) -> Nat]
    /\ answer # None => answer \in [DOMAIN scan.found -> Entries]

(* The answer has one entry for every discovered resource, about that        *)
(* resource; every target was probed exactly once, and its probe had ended;  *)
(* nothing else was probed, no Secret in particular; and the totals add up,  *)
(* so that a resource that could not be read is never counted as readable.   *)
CoverageAccountsForAll ==
    answer # None =>
        LET targets == Targets(scan)
            probed == {scan.found[i] : i \in targets}
        IN  /\ DOMAIN answer = DOMAIN scan.found
            /\ \A i \in DOMAIN answer :
                  /\ answer[i].r = scan.found[i]
                  /\ answer[i].r \in probed <=>
                        answer[i].list \in {"listed", "empty", "denied", "error"}
                  /\ Gap(answer[i]) = "none" => answer[i].list = "listed"
            /\ \A i \in targets : probes[i] = 1 /\ results[i] # None
            /\ \A r \in probed : r.kind # Secret
            /\ Total("listed") + Total("empty") + Total("denied") + Total("error")
                  = Cardinality(targets)
=============================================================================
