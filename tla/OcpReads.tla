-------------------------------- MODULE OcpReads --------------------------------
(***************************************************************************)
(* What apps/api/src/ocpClient.ts does between a read of the console and    *)
(* the requests of OcpFailover: it discovers the resources of the cluster,  *)
(* or takes the discovery remembered for 30 seconds, asks for an access     *)
(* review of the resource, reads it, and tries the other served versions    *)
(* when that fails.                                                         *)
(*                                                                          *)
(* A request to the cluster answers or fails as a whole.  Whether the       *)
(* review denies says nothing about the read that follows: each runs its    *)
(* own failover and may be answered for another token.                      *)
(***************************************************************************)
EXTENDS Naturals

CONSTANTS
    Slots,             \* reads in flight
    Catalog,           \* resources: [gv, group, kind, verbs, preferred]
    Secret,            \* the kind of Secrets
    AllowSecretFetch,  \* OCP_ALLOW_SECRET_FETCH
    Asked,             \* bound: the reads that are asked for
    Patterns,          \* what the cluster may answer: sets of services
    Grants,            \* what the access review may deny: sets of resources
    Ttl,               \* discoveryCacheTtlMs, in ticks
    None,
    MaxUpsets          \* bound on timeouts and changes of the cluster

GroupVersions == {r.gv : r \in Catalog}

\* /version; /api and /apis; access reviews; the API of each group version.
Services == {"version", "groups", "reviews"} \cup GroupVersions

ASSUME PatternsType == Patterns \subseteq SUBSET Services
ASSUME GrantsType == Grants \subseteq SUBSET Catalog
ASSUME TtlType == Ttl \in Nat \ {0} /\ MaxUpsets \in Nat
ASSUME SecretFetchType == AllowSecretFetch \in BOOLEAN

VARIABLES
    serving,   \* the services that answer
    denied,    \* the resources an access review denies
    cache,     \* discoveryCache
    read,      \* what each slot is doing
    upsets

readVars == <<serving, denied, cache, read, upsets>>

NotReading == [pc |-> "idle"]

\* An ask for the next page of a list carries a continue token.
Asks ==
    {a \in [op : {"list", "get"}, r : Catalog, continued : BOOLEAN] :
        a.continued => a.op = "list"}

ASSUME AskedType == Asked \subseteq Asks

Upset == upsets < MaxUpsets /\ upsets' = upsets + 1

(* A request for a service that does not answer fails; one for a service    *)
(* that does may time out.                                                  *)
Request(service, ok) ==
    IF service \in serving
    THEN IF ok THEN UNCHANGED upsets ELSE Upset
    ELSE ~ok /\ UNCHANGED upsets
-----------------------------------------------------------------------------
SafeToList(r) == "list" \in r.verbs /\ r.kind # Secret

\* alternateListResources: the other versions of r that a read may try.
Alternates(found, r, op) ==
    {o \in found : /\ o.kind = r.kind /\ o.group = r.group /\ o.gv # r.gv
                   /\ SafeToList(o) /\ op \in o.verbs}

End(s, outcome) ==
    [pc |-> "ended", ask |-> read[s].ask, outcome |-> outcome, r |-> None,
     reviewed |-> {}, failed |-> {}]

(* What follows a discovery that found some resources: the guards before    *)
(* the access review.                                                       *)
AfterDiscovery(s, found, age) ==
    LET ask == read[s].ask
    IN  IF ask.r \notin found \/ ask.op \notin ask.r.verbs THEN End(s, "undiscovered")
        ELSE IF ask.r.kind = Secret /\ ~AllowSecretFetch THEN End(s, "blocked")
        ELSE [pc |-> "review", ask |-> ask, r |-> ask.r, age |-> age,
              rest |-> IF ask.continued THEN {} ELSE Alternates(found, ask.r, ask.op),
              reviewed |-> {}, failed |-> {}]

ReadInit ==
    /\ serving \in Patterns
    /\ denied \in Grants
    /\ cache = None
    /\ read = [s \in Slots |-> NotReading]
    /\ upsets = 0

Ask(s, ask) ==
    /\ read[s] = NotReading
    /\ read' = [read EXCEPT ![s] = [pc |-> "discover", ask |-> ask]]
    /\ UNCHANGED <<serving, denied, cache, upsets>>

Remembered == cache # None /\ cache.left > 0

\* Fault: each use of the cache renews it.
UseCacheRenewing(s) ==
    /\ read[s].pc = "discover"
    /\ Remembered
    /\ cache' = [cache EXCEPT !.left = Ttl]
    /\ read' = [read EXCEPT ![s] = AfterDiscovery(s, cache.found, cache.age)]
    /\ UNCHANGED <<serving, denied, upsets>>

UseCache(s) ==
    /\ read[s].pc = "discover"
    /\ Remembered
    /\ read' = [read EXCEPT ![s] = AfterDiscovery(s, cache.found, cache.age)]
    /\ UNCHANGED <<serving, denied, cache, upsets>>

BeginDiscovery(s) ==
    /\ read[s].pc = "discover"
    /\ ~Remembered
    /\ read' = [read EXCEPT ![s] = [pc |-> "status", ask |-> @.ask, age |-> 0]]
    /\ UNCHANGED <<serving, denied, cache, upsets>>

(* An unreachable cluster is not remembered. *)
GetStatus(s, ok) ==
    /\ read[s].pc = "status"
    /\ Request("version", ok)
    /\ read' = [read EXCEPT ![s] = IF ok THEN [@ EXCEPT !.pc = "groups"]
                                        ELSE End(s, "unreachable")]
    /\ UNCHANGED <<serving, denied, cache>>

\* Fault: the 30 seconds count from the end of the discovery.
RememberFromNow(s, found) ==
    /\ cache' = [found |-> found, age |-> read[s].age, left |-> Ttl]
    /\ read' = [read EXCEPT ![s] = AfterDiscovery(s, found, 0)]

(* What was found is remembered for 30 seconds after the discovery began,   *)
(* in place of what another discovery may have remembered meanwhile.        *)
Remember(s, found) ==
    /\ cache' = [found |-> found, age |-> read[s].age, left |-> Ttl - read[s].age]
    /\ read' = [read EXCEPT ![s] = AfterDiscovery(s, found, 0)]

GetGroups(s, ok) ==
    /\ read[s].pc = "groups"
    /\ Request("groups", ok)
    /\ IF ok THEN read' = [read EXCEPT ![s].pc = "versions"] /\ UNCHANGED cache
             ELSE Remember(s, {})
    /\ UNCHANGED <<serving, denied>>

(* The group versions are asked all at once; those that fail are left out.  *)
GetVersions(s, late) ==
    /\ read[s].pc = "versions"
    /\ late \subseteq GroupVersions \cap serving
    /\ IF late = {} THEN UNCHANGED upsets ELSE Upset
    /\ Remember(s, {r \in Catalog : r.gv \in serving \ late})
    /\ UNCHANGED <<serving, denied>>
-----------------------------------------------------------------------------
\* The preferred versions come first.
Foremost(rest) ==
    IF \E o \in rest : o.preferred THEN {o \in rest : o.preferred} ELSE rest

(* After c.r is denied or its read failed: the next version, if there is    *)
(* one left.                                                                *)
Onward(s, c) ==
    IF c.rest = {} THEN {End(s, "failed")}
    ELSE {[c EXCEPT !.pc = "review", !.r = o, !.rest = @ \ {o}] : o \in Foremost(c.rest)}

Become(s, c) == read' = [read EXCEPT ![s] = c]

(* A review that fails does not deny.  The denial of the version asked for  *)
(* ends the read, that of another is passed over.                           *)
Review(s, ok) ==
    LET c == read[s]
    IN  /\ c.pc = "review"
        /\ Request("reviews", ok)
        /\ IF ~(ok /\ c.r \in denied)
           THEN Become(s, [c EXCEPT !.pc = "read", !.reviewed = @ \cup {c.r}])
           ELSE IF c.r = c.ask.r THEN Become(s, End(s, "denied"))
           ELSE \E d \in Onward(s, c) : Become(s, d)
        /\ UNCHANGED <<serving, denied, cache>>

Served(c) ==
    [pc |-> "ended", ask |-> c.ask, outcome |-> "served", r |-> c.r,
     reviewed |-> c.reviewed, failed |-> c.failed]

\* Fault: another version is read without a review of its own.
ReadUnreviewed(s, ok) ==
    LET c == read[s]
    IN  /\ c.pc = "read"
        /\ Request(c.r.gv, ok)
        /\ IF ok THEN Become(s, Served(c))
           ELSE \E d \in Onward(s, [c EXCEPT !.failed = @ \cup {c.r}]) :
                   Become(s, IF d.pc = "review" THEN [d EXCEPT !.pc = "read"] ELSE d)
        /\ UNCHANGED <<serving, denied, cache>>

Read(s, ok) ==
    LET c == read[s]
    IN  /\ c.pc = "read"
        /\ Request(c.r.gv, ok)
        /\ IF ok THEN Become(s, Served(c))
           ELSE \E d \in Onward(s, [c EXCEPT !.failed = @ \cup {c.r}]) : Become(s, d)
        /\ UNCHANGED <<serving, denied, cache>>

Leave(s) ==
    /\ read[s].pc = "ended"
    /\ read' = [read EXCEPT ![s] = NotReading]
    /\ UNCHANGED <<serving, denied, cache, upsets>>
-----------------------------------------------------------------------------
Older(age) == IF age < Ttl THEN age + 1 ELSE Ttl

Less(left) == IF left > 0 THEN left - 1 ELSE 0

\* Time passes: for what is remembered, and for the discoveries under way.
Tick ==
    /\ cache' = IF cache = None THEN None
                ELSE [cache EXCEPT !.age = Older(@), !.left = Less(@)]
    /\ read' = [s \in Slots |->
                  IF read[s].pc \in {"status", "groups", "versions"}
                  THEN [read[s] EXCEPT !.age = Older(@)] ELSE read[s]]
    /\ UNCHANGED <<serving, denied, upsets>>

ChangeCluster(pattern, grant) ==
    /\ Upset
    /\ <<pattern, grant>> # <<serving, denied>>
    /\ serving' = pattern
    /\ denied' = grant
    /\ UNCHANGED <<cache, read>>

Step(s) ==
    \/ UseCache(s) \/ BeginDiscovery(s) \/ Leave(s)
    \/ \E ok \in BOOLEAN : GetStatus(s, ok) \/ GetGroups(s, ok) \/ Review(s, ok) \/ Read(s, ok)
    \/ \E late \in SUBSET GroupVersions : GetVersions(s, late)

ReadNext ==
    \/ \E s \in Slots : Step(s) \/ \E ask \in Asked : Ask(s, ask)
    \/ \E pattern \in Patterns, grant \in Grants : ChangeCluster(pattern, grant)
    \/ Tick

(* Time passes, and every request is answered or times out. *)
ReadFairness == WF_readVars(Tick) /\ \A s \in Slots : WF_readVars(Step(s))

ReadSpec == ReadInit /\ [][ReadNext]_readVars /\ ReadFairness
-----------------------------------------------------------------------------
Discovering == [pc : {"status", "groups", "versions"}, ask : Asks, age : 0..Ttl]
Reading ==
    [pc : {"review", "read"}, ask : Asks, r : Catalog, age : 0..Ttl, rest : SUBSET Catalog,
     reviewed : SUBSET Catalog, failed : SUBSET Catalog]
Ended ==
    [pc : {"ended"}, ask : Asks, r : Catalog \cup {None}, reviewed : SUBSET Catalog,
     outcome : {"served", "denied", "failed", "blocked", "undiscovered", "unreachable"},
     failed : SUBSET Catalog]

Reads ==
    {NotReading} \cup [pc : {"discover"}, ask : Asks] \cup Discovering \cup Reading \cup Ended

ReadTypeOK ==
    /\ serving \in Patterns
    /\ denied \in Grants
    /\ cache \in {None} \cup [found : SUBSET Catalog, age : 0..Ttl, left : 0..Ttl]
    /\ read \in [Slots -> Reads]
    /\ upsets \in 0..MaxUpsets

(* Whoever did not discover the resources itself reads from a discovery that *)
(* began less than 30 seconds before, however long it took and whichever     *)
(* discovery ended last.                                                     *)
RemembersFor30Seconds ==
    \A s \in Slots : read[s].pc \in {"review", "read"} => read[s].age < Ttl

(* What is served is the resource asked for, or another version of it that   *)
(* may be listed, after the version asked for failed to answer this very     *)
(* read; never the next page of a list that began in another version.  An    *)
(* access review of exactly what is served did not deny it, and a Secret is  *)
(* served only if that is allowed.                                           *)
ServedAsReviewed ==
    \A s \in Slots : read[s].pc = "ended" /\ read[s].outcome = "served" =>
        LET c == read[s]
        IN  /\ c.r \in c.reviewed
            /\ c.r.kind = Secret => AllowSecretFetch
            /\ c.r # c.ask.r => /\ c.ask.r \in c.failed /\ ~c.ask.continued
                                /\ c.r.kind = c.ask.r.kind /\ SafeToList(c.r)

Healthy == serving = Services

(* A discovery that found only part of the cluster is forgotten: once the    *)
(* cluster answers for good, reads stop failing for want of a discovery,     *)
(* even if somebody reads all the time.                                      *)
GapsAreForgotten ==
    <>[]Healthy =>
        <>[](\A s \in Slots : read[s].pc = "ended" /\ read[s].ask.op \in read[s].ask.r.verbs =>
                read[s].outcome \notin {"undiscovered", "unreachable"})
=============================================================================
