----------------------------- MODULE OcpReadsProofs -----------------------------
(***************************************************************************)
(* Proofs about OcpReads, for every catalog, every policy on Secrets, every *)
(* number of reads and every pattern of answers, denials and timeouts; then *)
(* about OcpCoverage, for every discovery and every number of workers, and  *)
(* about OcpDiagnosis, for every way in which its reads may fail.           *)
(***************************************************************************)
EXTENDS OcpDiagnosis, FiniteSetTheorems, TLAPS

\* The outcomes of a read that serves nothing.
Refusals == {"denied", "failed", "blocked", "undiscovered", "unreachable"}

\* o may be read in place of what was asked for.
MayReplace(o, ask) == SafeToList(o) /\ o.kind = ask.r.kind /\ ~ask.continued

\* Where a read that goes through the versions of a resource stands.
OnTheWay(c) ==
    /\ c.age < Ttl
    /\ c.ask.r.kind = Secret => AllowSecretFetch
    /\ c.r.kind = c.ask.r.kind
    /\ c.r # c.ask.r => MayReplace(c.r, c.ask) /\ c.ask.r \in c.failed
    /\ \A o \in c.rest : MayReplace(o, c.ask)
    /\ c.pc = "read" => c.r \in c.reviewed

\* What is served, as ServedAsReviewed says it of one read.
AsReviewed(c) ==
    /\ c.r \in c.reviewed
    /\ c.r.kind = Secret => AllowSecretFetch
    /\ c.r # c.ask.r => /\ c.ask.r \in c.failed /\ ~c.ask.continued
                        /\ c.r.kind = c.ask.r.kind /\ SafeToList(c.r)

Sound(c) ==
    /\ c \in Reads
    /\ c.pc \in {"review", "read"} => OnTheWay(c)
    /\ c.pc = "ended" /\ c.outcome = "served" => AsReviewed(c)

\* What is remembered is forgotten 30 seconds after its discovery began.
RememberedInTime == cache # None => cache.left + cache.age <= Ttl

ReadInv == ReadTypeOK /\ RememberedInTime /\ \A s \in Slots : Sound(read[s])
-----------------------------------------------------------------------------
(* What a read is doing tells what it holds. *)
LEMMA ReadByPc ==
    ASSUME NEW c \in Reads
    PROVE  /\ c.pc = "discover" => c \in [pc : {"discover"}, ask : Asks]
           /\ c.pc \in {"status", "groups", "versions"} => c \in Discovering
           /\ c.pc \in {"review", "read"} => c \in Reading
           /\ c.pc = "ended" => c \in Ended
BY DEF Reads, NotReading, Discovering, Reading, Ended

LEMMA TtlIsPositive == Ttl \in Nat /\ 0 \in 0..Ttl /\ 0 < Ttl
BY TtlType

LEMMA AskedOfCatalog ==
    ASSUME NEW ask \in Asks
    PROVE  ask.r \in Catalog /\ ask.continued \in BOOLEAN
BY DEF Asks

(* A read that ends without an answer is sound. *)
LEMMA EndSound ==
    ASSUME NEW s, read[s].ask \in Asks, NEW outcome \in Refusals
    PROVE  Sound(End(s, outcome)) /\ End(s, outcome).pc = "ended"
<1> DEFINE e == End(s, outcome)
<1>1. e \in Ended
  BY DEF End, Ended, Refusals
<1>2. e.pc = "ended" /\ e.outcome # "served"
  BY DEF End, Refusals
<1>3. e \in Reads
  BY <1>1 DEF Reads
<1> QED BY <1>2, <1>3 DEF Sound

(* The other versions that a discovery offers may replace what was asked.   *)
LEMMA AlternatesMayReplace ==
    ASSUME NEW found \in SUBSET Catalog, NEW ask \in Asks, ~ask.continued,
           NEW o \in Alternates(found, ask.r, ask.op)
    PROVE  o \in Catalog /\ MayReplace(o, ask)
BY DEF Alternates, MayReplace

LEMMA AfterDiscoverySound ==
    ASSUME NEW s, read[s].ask \in Asks, NEW found \in SUBSET Catalog,
           NEW age \in 0..Ttl, age < Ttl
    PROVE  /\ Sound(AfterDiscovery(s, found, age))
           /\ AfterDiscovery(s, found, age).pc \in {"ended", "review"}
<1> DEFINE ask == read[s].ask
           rest == IF ask.continued THEN {} ELSE Alternates(found, ask.r, ask.op)
           go == [pc |-> "review", ask |-> ask, r |-> ask.r, age |-> age, rest |-> rest,
                  reviewed |-> {}, failed |-> {}]
<1>1. AfterDiscovery(s, found, age) \in {End(s, "undiscovered"), End(s, "blocked"), go}
  BY DEF AfterDiscovery
<1>2. AfterDiscovery(s, found, age) = go => (ask.r.kind = Secret => AllowSecretFetch)
                                             \/ go \in {End(s, "undiscovered"), End(s, "blocked")}
  BY DEF AfterDiscovery
<1>3. ask.r \in Catalog
  BY AskedOfCatalog
<1>4. \A o \in rest : o \in Catalog /\ MayReplace(o, ask)
  <2>1. CASE ask.continued
    BY <2>1
  <2>2. CASE ~ask.continued
    BY <2>2, AlternatesMayReplace
  <2> QED BY <2>1, <2>2
<1>5. \A e \in {End(s, "undiscovered"), End(s, "blocked")} : Sound(e) /\ e.pc = "ended"
  <2>1. Sound(End(s, "undiscovered")) /\ End(s, "undiscovered").pc = "ended"
    BY EndSound DEF Refusals
  <2>2. Sound(End(s, "blocked")) /\ End(s, "blocked").pc = "ended"
    BY EndSound DEF Refusals
  <2> QED BY <2>1, <2>2
<1>6. (ask.r.kind = Secret => AllowSecretFetch) => Sound(go) /\ go.pc = "review"
  <2> HAVE ask.r.kind = Secret => AllowSecretFetch
  <2>1. rest \in SUBSET Catalog
    BY <1>4
  <2> HIDE DEF rest
  <2>2. go \in Reading
    BY <2>1, <1>3 DEF Reading
  <2>3. OnTheWay(go)
    BY <1>4 DEF OnTheWay
  <2>4. go \in Reads
    BY <2>2 DEF Reads
  <2> QED BY <2>3, <2>4 DEF Sound
<1> HIDE DEF go
<1> QED BY <1>1, <1>2, <1>5, <1>6

LEMMA ForemostIsOfRest ==
    ASSUME NEW rest, NEW o \in Foremost(rest)
    PROVE  o \in rest
BY DEF Foremost

(* The next version is as good as the rest was, once the version asked for  *)
(* has failed.                                                              *)
LEMMA OnwardSound ==
    ASSUME NEW s, read[s].ask \in Asks, NEW c \in Reading, OnTheWay(c),
           c.ask.r \in c.failed, NEW d \in Onward(s, c)
    PROVE  Sound(d) /\ d.pc \in {"ended", "review"}
<1>1. CASE c.rest = {}
  <2>1. d = End(s, "failed")
    BY <1>1 DEF Onward
  <2> QED BY <2>1, EndSound DEF Refusals
<1>2. CASE c.rest # {}
  <2>1. PICK o \in Foremost(c.rest) :
           d = [c EXCEPT !.pc = "review", !.r = o, !.rest = @ \ {o}]
    BY <1>2 DEF Onward
  <2>2. o \in c.rest
    BY ForemostIsOfRest
  <2>3. o \in Catalog /\ c.rest \ {o} \in SUBSET Catalog
    BY <2>2 DEF Reading
  <2>4. /\ d \in Reading
        /\ d.pc = "review" /\ d.r = o /\ d.ask = c.ask /\ d.age = c.age
        /\ d.rest = c.rest \ {o} /\ d.failed = c.failed
    BY <2>1, <2>3 DEF Reading
  <2>5. OnTheWay(d)
    BY <2>2, <2>4 DEF OnTheWay, MayReplace
  <2>6. d \in Reads
    BY <2>4 DEF Reads
  <2> QED BY <2>4, <2>5, <2>6 DEF Sound
<1> QED BY <1>1, <1>2
-----------------------------------------------------------------------------
(* A step of one read keeps the invariant if what the read becomes is sound *)
(* and what is remembered is in time.                                       *)
LEMMA BecomeKeeps ==
    ASSUME ReadInv, NEW s \in Slots, NEW c, Sound(c), read' = [read EXCEPT ![s] = c],
           serving' \in Patterns, denied' \in Grants,
           cache' \in {None} \cup [found : SUBSET Catalog, age : 0..Ttl, left : 0..Ttl],
           RememberedInTime', upsets' \in 0..MaxUpsets
    PROVE  ReadInv'
<1>1. c \in Reads
  BY DEF Sound
<1>2. read \in [Slots -> Reads]
  BY DEF ReadInv, ReadTypeOK
<1>3. read' \in [Slots -> Reads]
  BY <1>1, <1>2
<1>4. ASSUME NEW t \in Slots PROVE Sound(read'[t])
  <2>1. CASE t = s
    BY <2>1, <1>2
  <2>2. CASE t # s
    <3>1. read'[t] = read[t]
      BY <2>2, <1>2
    <3> QED BY <3>1 DEF ReadInv
  <2> QED BY <2>1, <2>2
<1>5. ReadTypeOK'
  BY <1>3 DEF ReadTypeOK
<1> QED BY <1>4, <1>5 DEF ReadInv

(* The same for a step that leaves alone what is remembered. *)
LEMMA BecomeAlone ==
    ASSUME ReadInv, NEW s \in Slots, NEW c, Sound(c), read' = [read EXCEPT ![s] = c],
           UNCHANGED <<serving, denied, cache>>, upsets' \in 0..MaxUpsets
    PROVE  ReadInv'
<1>1. /\ serving' \in Patterns /\ denied' \in Grants
      /\ cache' \in {None} \cup [found : SUBSET Catalog, age : 0..Ttl, left : 0..Ttl]
  BY DEF ReadInv, ReadTypeOK
<1>2. RememberedInTime'
  BY DEF ReadInv, RememberedInTime
<1> QED BY <1>1, <1>2, BecomeKeeps

LEMMA RequestBounds ==
    ASSUME ReadInv, NEW service, NEW ok, Request(service, ok)
    PROVE  upsets' \in 0..MaxUpsets
BY TtlType DEF ReadInv, ReadTypeOK, Request, Upset

LEMMA CacheType ==
    ASSUME ReadInv, Remembered
    PROVE  /\ cache.found \in SUBSET Catalog
           /\ cache.age \in 0..Ttl /\ cache.age < Ttl
<1>1. cache \in [found : SUBSET Catalog, age : 0..Ttl, left : 0..Ttl]
  BY DEF ReadInv, ReadTypeOK, Remembered
<1>2. cache.left + cache.age <= Ttl /\ cache.left > 0
  BY DEF ReadInv, RememberedInTime, Remembered
<1> QED BY <1>1, <1>2, TtlIsPositive

(* What a discovery found is remembered in time, and the read goes on.      *)
LEMMA RememberKeeps ==
    ASSUME ReadInv, NEW s \in Slots, read[s] \in Discovering, NEW found \in SUBSET Catalog,
           Remember(s, found), UNCHANGED <<serving, denied>>, upsets' \in 0..MaxUpsets
    PROVE  ReadInv'
<1>1. read[s].ask \in Asks /\ read[s].age \in 0..Ttl
  BY DEF Discovering
<1>2. Sound(AfterDiscovery(s, found, 0))
  BY <1>1, TtlIsPositive, AfterDiscoverySound
<1>3. cache' = [found |-> found, age |-> read[s].age, left |-> Ttl - read[s].age]
  BY DEF Remember
<1>4. Ttl - read[s].age \in 0..Ttl /\ (Ttl - read[s].age) + read[s].age <= Ttl
  BY <1>1, TtlIsPositive
<1>5. cache' \in [found : SUBSET Catalog, age : 0..Ttl, left : 0..Ttl]
  BY <1>1, <1>3, <1>4
<1>6. RememberedInTime'
  BY <1>3, <1>4 DEF RememberedInTime
<1>7. serving' \in Patterns /\ denied' \in Grants
  BY DEF ReadInv, ReadTypeOK
<1>8. read' = [read EXCEPT ![s] = AfterDiscovery(s, found, 0)]
  BY DEF Remember
<1> QED BY <1>2, <1>5, <1>6, <1>7, <1>8, BecomeKeeps
-----------------------------------------------------------------------------
LEMMA InitHolds == ReadInit => ReadInv
<1> SUFFICES ASSUME ReadInit PROVE ReadInv
  OBVIOUS
<1>1. NotReading \in Reads /\ NotReading.pc = "idle"
  BY DEF Reads, NotReading
<1>2. Sound(NotReading)
  BY <1>1 DEF Sound
<1>3. ReadTypeOK
  BY <1>1, TtlType DEF ReadInit, ReadTypeOK
<1>4. RememberedInTime
  BY DEF ReadInit, RememberedInTime
<1> QED BY <1>2, <1>3, <1>4 DEF ReadInit, ReadInv

LEMMA AskKeeps ==
    ASSUME ReadInv, NEW s \in Slots, NEW ask \in Asked, Ask(s, ask)
    PROVE  ReadInv'
<1> DEFINE c == [pc |-> "discover", ask |-> ask]
<1>1. ask \in Asks
  BY AskedType
<1>2. c \in Reads /\ c.pc = "discover"
  BY <1>1 DEF Reads
<1>3. Sound(c)
  BY <1>2 DEF Sound
<1>4. upsets' \in 0..MaxUpsets
  BY DEF Ask, ReadInv, ReadTypeOK
<1> QED BY <1>3, <1>4, BecomeAlone DEF Ask

LEMMA UseCacheKeeps ==
    ASSUME ReadInv, NEW s \in Slots, UseCache(s)
    PROVE  ReadInv'
<1>1. read[s].ask \in Asks
  BY ReadByPc DEF UseCache, ReadInv, ReadTypeOK
<1>2. Sound(AfterDiscovery(s, cache.found, cache.age))
  BY <1>1, CacheType, AfterDiscoverySound DEF UseCache
<1>3. upsets' \in 0..MaxUpsets
  BY DEF UseCache, ReadInv, ReadTypeOK
<1> QED BY <1>2, <1>3, BecomeAlone DEF UseCache

LEMMA BeginDiscoveryKeeps ==
    ASSUME ReadInv, NEW s \in Slots, BeginDiscovery(s)
    PROVE  ReadInv'
<1> DEFINE c == [pc |-> "status", ask |-> read[s].ask, age |-> 0]
<1>1. read[s].ask \in Asks
  BY ReadByPc DEF BeginDiscovery, ReadInv, ReadTypeOK
<1>2. c \in Discovering /\ c.pc = "status"
  BY <1>1, TtlIsPositive DEF Discovering
<1>3. Sound(c)
  BY <1>2 DEF Sound, Reads
<1>4. upsets' \in 0..MaxUpsets /\ read' = [read EXCEPT ![s] = c]
  BY DEF BeginDiscovery, ReadInv, ReadTypeOK
<1> QED BY <1>3, <1>4, BecomeAlone DEF BeginDiscovery

LEMMA GetStatusKeeps ==
    ASSUME ReadInv, NEW s \in Slots, NEW ok \in BOOLEAN, GetStatus(s, ok)
    PROVE  ReadInv'
<1> DEFINE c == [read[s] EXCEPT !.pc = "groups"]
<1>1. read[s] \in Discovering /\ read[s].ask \in Asks
  BY ReadByPc DEF GetStatus, ReadInv, ReadTypeOK, Discovering
<1>2. c \in Discovering /\ c.pc = "groups"
  BY <1>1 DEF Discovering
<1>3. Sound(c)
  BY <1>2 DEF Sound, Reads
<1>4. Sound(End(s, "unreachable"))
  BY <1>1, EndSound DEF Refusals
<1>5. upsets' \in 0..MaxUpsets
  BY RequestBounds DEF GetStatus
<1>6. CASE ok
  BY <1>3, <1>5, <1>6, BecomeAlone DEF GetStatus
<1>7. CASE ~ok
  BY <1>4, <1>5, <1>7, BecomeAlone DEF GetStatus
<1> QED BY <1>6, <1>7

LEMMA GetGroupsKeeps ==
    ASSUME ReadInv, NEW s \in Slots, NEW ok \in BOOLEAN, GetGroups(s, ok)
    PROVE  ReadInv'
<1> DEFINE c == [read[s] EXCEPT !.pc = "versions"]
<1>1. read[s] \in Discovering
  BY ReadByPc DEF GetGroups, ReadInv, ReadTypeOK
<1>2. c \in Discovering /\ c.pc = "versions"
  BY <1>1 DEF Discovering
<1>3. Sound(c)
  BY <1>2 DEF Sound, Reads
<1>4. upsets' \in 0..MaxUpsets
  BY RequestBounds DEF GetGroups
<1>5. CASE ok
  BY <1>3, <1>4, <1>5, BecomeAlone DEF GetGroups
<1>6. CASE ~ok
  <2>1. Remember(s, {}) /\ UNCHANGED <<serving, denied>>
    BY <1>6 DEF GetGroups
  <2> QED BY <1>1, <1>4, <2>1, RememberKeeps
<1> QED BY <1>5, <1>6

LEMMA GetVersionsKeeps ==
    ASSUME ReadInv, NEW s \in Slots, NEW late, GetVersions(s, late)
    PROVE  ReadInv'
<1>1. read[s] \in Discovering
  BY ReadByPc DEF GetVersions, ReadInv, ReadTypeOK
<1>2. upsets' \in 0..MaxUpsets
  BY TtlType DEF GetVersions, ReadInv, ReadTypeOK, Upset
<1> DEFINE found == {r \in Catalog : r.gv \in serving \ late}
<1>3. found \in SUBSET Catalog /\ Remember(s, found) /\ UNCHANGED <<serving, denied>>
  BY DEF GetVersions
<1> HIDE DEF found
<1> QED BY <1>1, <1>2, <1>3, RememberKeeps

LEMMA ReviewKeeps ==
    ASSUME ReadInv, NEW s \in Slots, NEW ok \in BOOLEAN, Review(s, ok)
    PROVE  ReadInv'
<1> DEFINE c == read[s]
           d == [c EXCEPT !.pc = "read", !.reviewed = @ \cup {c.r}]
<1>1. c \in Reading /\ OnTheWay(c) /\ c.ask \in Asks
  BY ReadByPc DEF Review, ReadInv, ReadTypeOK, Sound, Reading
<1>2. upsets' \in 0..MaxUpsets /\ UNCHANGED <<serving, denied, cache>>
  BY RequestBounds DEF Review
<1>3. CASE Become(s, d)
  <2>1. d \in Reading /\ d.pc = "read"
    BY <1>1 DEF Reading
  <2>2. /\ d.r = c.r /\ d.ask = c.ask /\ d.age = c.age /\ d.rest = c.rest
        /\ d.failed = c.failed /\ c.r \in d.reviewed
    BY <1>1 DEF Reading
  <2>3. OnTheWay(d)
    BY <1>1, <2>2 DEF OnTheWay
  <2>4. Sound(d)
    BY <2>1, <2>3 DEF Sound, Reads
  <2> HIDE DEF d
  <2> QED BY <1>2, <1>3, <2>4, BecomeAlone DEF Become
<1>4. CASE Become(s, End(s, "denied"))
  <2>1. Sound(End(s, "denied"))
    BY <1>1, EndSound DEF Refusals
  <2> QED BY <1>2, <1>4, <2>1, BecomeAlone DEF Become
<1>5. CASE c.r # c.ask.r /\ \E e \in Onward(s, c) : Become(s, e)
  <2>1. PICK e \in Onward(s, c) : Become(s, e)
    BY <1>5
  <2>2. c.ask.r \in c.failed
    BY <1>1, <1>5 DEF OnTheWay
  <2>3. Sound(e)
    BY <1>1, <2>1, <2>2, OnwardSound
  <2> QED BY <1>2, <2>1, <2>3, BecomeAlone DEF Become
<1> QED BY <1>3, <1>4, <1>5 DEF Review

LEMMA ReadKeeps ==
    ASSUME ReadInv, NEW s \in Slots, NEW ok \in BOOLEAN, Read(s, ok)
    PROVE  ReadInv'
<1> DEFINE c == read[s]
           f == [c EXCEPT !.failed = @ \cup {c.r}]
<1>1. c \in Reading /\ OnTheWay(c) /\ c.ask \in Asks /\ c.pc = "read"
  BY ReadByPc DEF Read, ReadInv, ReadTypeOK, Sound, Reading
<1>2. upsets' \in 0..MaxUpsets /\ UNCHANGED <<serving, denied, cache>>
  BY RequestBounds DEF Read
<1>3. CASE Become(s, Served(c))
  <2>1. /\ Served(c) \in Ended /\ Served(c).pc = "ended"
    BY <1>1 DEF Served, Ended, Reading
  <2>2. /\ Served(c).r = c.r /\ Served(c).ask = c.ask
        /\ Served(c).reviewed = c.reviewed /\ Served(c).failed = c.failed
    BY DEF Served
  <2>3. AsReviewed(Served(c))
    BY <1>1, <2>2 DEF AsReviewed, OnTheWay, MayReplace
  <2>4. Sound(Served(c))
    BY <2>1, <2>3 DEF Sound, Reads
  <2> QED BY <1>2, <1>3, <2>4, BecomeAlone DEF Become
<1>4. CASE \E d \in Onward(s, f) : Become(s, d)
  <2>1. PICK d \in Onward(s, f) : Become(s, d)
    BY <1>4
  <2>2. f \in Reading
    BY <1>1 DEF Reading
  <2>3. /\ f.r = c.r /\ f.ask = c.ask /\ f.age = c.age /\ f.rest = c.rest
        /\ f.pc = c.pc /\ f.reviewed = c.reviewed
        /\ f.failed = c.failed \cup {c.r}
    BY <1>1 DEF Reading
  <2>4. OnTheWay(f) /\ f.ask.r \in f.failed
    BY <1>1, <2>3 DEF OnTheWay
  <2> HIDE DEF f
  <2>5. Sound(d)
    BY <1>1, <2>1, <2>2, <2>4, OnwardSound
  <2> QED BY <1>2, <2>1, <2>5, BecomeAlone DEF Become
<1> QED BY <1>3, <1>4 DEF Read

LEMMA LeaveKeeps ==
    ASSUME ReadInv, NEW s \in Slots, Leave(s)
    PROVE  ReadInv'
<1>1. NotReading \in Reads /\ NotReading.pc = "idle"
  BY DEF Reads, NotReading
<1>2. Sound(NotReading)
  BY <1>1 DEF Sound
<1>3. upsets' \in 0..MaxUpsets
  BY DEF Leave, ReadInv, ReadTypeOK
<1> QED BY <1>2, <1>3, BecomeAlone DEF Leave

LEMMA TickKeeps ==
    ASSUME ReadInv, Tick
    PROVE  ReadInv'
<1>1. \A age \in 0..Ttl : Older(age) \in 0..Ttl
  BY TtlIsPositive DEF Older
<1>2. \A left \in 0..Ttl : Less(left) \in 0..Ttl
  BY TtlIsPositive DEF Less
<1>3. /\ cache' \in {None} \cup [found : SUBSET Catalog, age : 0..Ttl, left : 0..Ttl]
      /\ RememberedInTime'
  <2>1. CASE cache = None
    BY <2>1 DEF Tick, RememberedInTime
  <2>2. CASE cache # None
    <3>1. cache \in [found : SUBSET Catalog, age : 0..Ttl, left : 0..Ttl]
      BY <2>2 DEF ReadInv, ReadTypeOK
    <3>2. cache' = [cache EXCEPT !.age = Older(@), !.left = Less(@)]
      BY <2>2 DEF Tick
    <3>3. /\ cache' \in [found : SUBSET Catalog, age : 0..Ttl, left : 0..Ttl]
          /\ cache'.age = Older(cache.age) /\ cache'.left = Less(cache.left)
      BY <1>1, <1>2, <3>1, <3>2
    <3>4. cache.left + cache.age <= Ttl
      BY <2>2 DEF ReadInv, RememberedInTime
    <3>5. Less(cache.left) + Older(cache.age) <= Ttl
      BY <3>1, <3>4, TtlIsPositive DEF Less, Older
    <3> QED BY <3>3, <3>5 DEF RememberedInTime
  <2> QED BY <2>1, <2>2
<1>4. ASSUME NEW s \in Slots PROVE Sound(read'[s])
  <2>1. read[s] \in Reads /\ Sound(read[s])
    BY DEF ReadInv, ReadTypeOK
  <2>2. CASE read[s].pc \in {"status", "groups", "versions"}
    <3>1. read'[s] = [read[s] EXCEPT !.age = Older(@)]
      BY <2>2 DEF Tick
    <3>2. read[s] \in Discovering
      BY <2>1, <2>2, ReadByPc
    <3>3. read'[s] \in Discovering /\ read'[s].pc = read[s].pc
      BY <1>1, <3>1, <3>2 DEF Discovering
    <3> QED BY <2>2, <3>3 DEF Sound, Reads
  <2>3. CASE read[s].pc \notin {"status", "groups", "versions"}
    <3>1. read'[s] = read[s]
      BY <2>3 DEF Tick
    <3> QED BY <2>1, <3>1
  <2> QED BY <2>2, <2>3
<1>5. read' \in [Slots -> Reads]
  BY <1>4 DEF Tick, Sound
<1>6. ReadTypeOK'
  BY <1>3, <1>5 DEF Tick, ReadInv, ReadTypeOK
<1> QED BY <1>3, <1>4, <1>6 DEF ReadInv

LEMMA ChangeClusterKeeps ==
    ASSUME ReadInv, NEW pattern \in Patterns, NEW grant \in Grants,
           ChangeCluster(pattern, grant)
    PROVE  ReadInv'
BY TtlType DEF ReadInv, ReadTypeOK, RememberedInTime, ChangeCluster, Upset

LEMMA StutterKeeps ==
    ASSUME ReadInv, UNCHANGED readVars
    PROVE  ReadInv'
BY DEF ReadInv, ReadTypeOK, RememberedInTime, readVars

LEMMA NextKeeps ==
    ASSUME ReadInv, [ReadNext]_readVars
    PROVE  ReadInv'
<1>1. CASE \E s \in Slots : Step(s)
  <2>1. PICK s \in Slots : Step(s)
    BY <1>1
  <2>2. CASE UseCache(s) \/ BeginDiscovery(s) \/ Leave(s)
    BY <2>2, UseCacheKeeps, BeginDiscoveryKeeps, LeaveKeeps
  <2>3. CASE \E ok \in BOOLEAN :
                GetStatus(s, ok) \/ GetGroups(s, ok) \/ Review(s, ok) \/ Read(s, ok)
    BY <2>3, GetStatusKeeps, GetGroupsKeeps, ReviewKeeps, ReadKeeps
  <2>4. CASE \E late \in SUBSET GroupVersions : GetVersions(s, late)
    BY <2>4, GetVersionsKeeps
  <2> QED BY <2>1, <2>2, <2>3, <2>4 DEF Step
<1>2. CASE \E s \in Slots, ask \in Asked : Ask(s, ask)
  BY <1>2, AskKeeps
<1>3. CASE \E pattern \in Patterns, grant \in Grants : ChangeCluster(pattern, grant)
  BY <1>3, ChangeClusterKeeps
<1>4. CASE Tick
  BY <1>4, TickKeeps
<1>5. CASE UNCHANGED readVars
  BY <1>5, StutterKeeps
<1> QED BY <1>1, <1>2, <1>3, <1>4, <1>5 DEF ReadNext

LEMMA InvariantHolds == ReadSpec => []ReadInv
<1>1. ReadInv /\ [ReadNext]_readVars => ReadInv'
  BY NextKeeps
<1> QED BY <1>1, InitHolds, PTL DEF ReadSpec

(* The cluster, the cache and the reads keep their types, for every pattern *)
(* of answers, denials and timeouts.                                        *)
THEOREM ReadsTypeCorrect == ReadSpec => []ReadTypeOK
<1>1. ReadInv => ReadTypeOK
  BY DEF ReadInv
<1> QED BY <1>1, InvariantHolds, PTL

(* A read works from a discovery that began less than 30 seconds before it  *)
(* took it, whichever discovery ended last and however long it took.        *)
THEOREM RemembersInTime == ReadSpec => []RemembersFor30Seconds
<1>1. ReadInv => RemembersFor30Seconds
  BY DEF ReadInv, Sound, OnTheWay, RemembersFor30Seconds
<1> QED BY <1>1, InvariantHolds, PTL

(* What is served passed an access review of its own, is allowed if it is a *)
(* Secret, and is another version only after the one asked for failed.      *)
THEOREM ServesWhatWasReviewed == ReadSpec => []ServedAsReviewed
<1>1. ReadInv => ServedAsReviewed
  BY DEF ReadInv, Sound, AsReviewed, ServedAsReviewed
<1> QED BY <1>1, InvariantHolds, PTL
-----------------------------------------------------------------------------
(* The coverage of a discovery. *)

(* The statuses of what was probed. *)
Probed == {"listed", "empty", "denied", "error"}
Probers == [pc : {"review", "sample", "detail"}, i : Nat]
Probes(w) == worker[w] \in Probers
AllStopped == \A w \in Workers : worker[w] = Stopped

\* Before a scan nothing is under way.
NothingScanned ==
    /\ answer = None /\ AllStopped
    /\ results = <<>> /\ probes = <<>>

\* Every worker that probes has a target of its own, taken and without result.
OwnTargets ==
    /\ \A w \in Workers : Probes(w) =>
          /\ worker[w].i \in Targets(scan)
          /\ worker[w].i < nextIndex
          /\ results[worker[w].i] = None
    /\ \A v, w \in Workers : Probes(v) /\ Probes(w) /\ worker[v].i = worker[w].i => v = w

\* A target that is taken was probed once and has its result or its worker.
TargetsAccountedFor ==
    \A i \in Targets(scan) :
        /\ i < nextIndex =>
              /\ probes[i] = 1
              /\ results[i] # None \/ \E w \in Workers : Probes(w) /\ worker[w].i = i
        /\ nextIndex <= i => probes[i] = 0 /\ results[i] = None
        /\ results[i] # None => results[i].r = scan.found[i] /\ results[i].list \in Probed

\* Workers stop when nothing is left, and the answer is made of the results.
EndsInOrder ==
    /\ Left = {} \/ ~AllStopped
    /\ answer # None =>
          /\ AllStopped
          /\ answer = [i \in DOMAIN scan.found |-> EntryOf(scan.found[i])]

CoverageTypes ==
    /\ scan \in {None} \cup Scans
    /\ nextIndex \in Nat \ {0}
    /\ worker \in [Workers -> {Free, Stopped} \cup Probers]
    /\ scan # None => /\ results \in [Targets(scan) -> Entries \cup {None}]
                      /\ probes \in [Targets(scan) -> Nat]

CoverageInv ==
    /\ CoverageTypes
    /\ scan = None => NothingScanned
    /\ scan # None => OwnTargets /\ TargetsAccountedFor /\ EndsInOrder
-----------------------------------------------------------------------------
LEMMA WorkersAtOnce ==
    ASSUME CoverageTypes, NEW w \in Workers
    PROVE  /\ Probes(w) \/ worker[w] = Free \/ worker[w] = Stopped
           /\ Probes(w) <=> worker[w].pc \in {"review", "sample", "detail"}
           /\ worker[w].pc \in {"review", "sample", "detail"} => worker[w].i \in Nat
           /\ Free # Stopped /\ Free \notin Probers /\ Stopped \notin Probers
<1>1. Free.pc = "free" /\ Stopped.pc = "stopped"
  BY DEF Free, Stopped
<1>2. \A p \in Probers : p.pc \in {"review", "sample", "detail"} /\ p.i \in Nat
  BY DEF Probers
<1> QED BY <1>1, <1>2 DEF CoverageTypes, Probes

(* The targets of a scan are finitely many resources that are safe to list. *)
LEMMA TargetsOfScan ==
    ASSUME NEW s \in Scans
    PROVE  /\ s.found \in Discoveries /\ s.found \in Seq(Catalog)
           /\ Targets(s) \subseteq DOMAIN s.found
           /\ Targets(s) \subseteq Nat \ {0}
           /\ IsFiniteSet(Targets(s))
           /\ IsFiniteSet(DOMAIN s.found)
           /\ \A i \in Targets(s) : SafeToList(s.found[i])
           /\ \A i \in DOMAIN s.found : s.found[i] \in Catalog
           /\ \A i, j \in DOMAIN s.found : s.found[i] = s.found[j] => i = j
<1>1. s.found \in Discoveries /\ s.found \in Seq(Catalog)
  BY DiscoveriesType DEF Scans
<1>2. PICK k \in Nat : k = Len(s.found)
  BY <1>1
<1>3. DOMAIN s.found = 1..k /\ IsFiniteSet(1..k)
  <2>1. IsFiniteSet(1..k)
    BY FS_Interval
  <2> QED BY <1>1, <1>2, <2>1
<1>4. Targets(s) \subseteq DOMAIN s.found /\ \A i \in Targets(s) : SafeToList(s.found[i])
  BY DEF Targets, Safe
<1>5. IsFiniteSet(Targets(s))
  BY <1>3, <1>4, FS_Subset
<1>6. \A i \in DOMAIN s.found : s.found[i] \in Catalog
  BY <1>1
<1>7. \A i, j \in DOMAIN s.found : s.found[i] = s.found[j] => i = j
  BY <1>1, DiscoveriesType
<1> QED BY <1>1, <1>3, <1>4, <1>5, <1>6, <1>7

LEMMA CoverageInvInit == CoverageInit => CoverageInv
BY DEF CoverageInit, CoverageInv, CoverageTypes, NothingScanned, AllStopped

LEMMA ScanBegins ==
    ASSUME CoverageInv, NEW found \in Discoveries, NEW limit \in Limits, NEW details \in BOOLEAN,
           BeginScan(found, limit, details)
    PROVE  CoverageInv'
<1> DEFINE s == [found |-> found, limit |-> limit, details |-> details]
           n == Cardinality(Targets(s))
<1>1. s \in Scans /\ s # None /\ scan' = s
  BY NoScan DEF Scans, BeginScan
<1>2. /\ nextIndex' = 1
      /\ results' = [i \in Targets(s) |-> None]
      /\ probes' = [i \in Targets(s) |-> 0]
      /\ answer' = None
  BY DEF BeginScan
<1>3. PICK team \in SUBSET Workers :
         /\ Cardinality(team) = (IF n < Cardinality(Workers) THEN n ELSE Cardinality(Workers))
         /\ worker' = [w \in Workers |-> IF w \in team THEN Free ELSE Stopped]
  BY DEF BeginScan
<1> HIDE DEF s
<1>4. Free # Stopped /\ Free \notin Probers /\ Stopped \notin Probers
  BY DEF Free, Stopped, Probers
<1>5. CoverageTypes'
  BY <1>1, <1>2, <1>3 DEF CoverageTypes
<1>6. \A w \in Workers : ~Probes(w)'
  BY <1>3, <1>4 DEF Probes
<1>7. OwnTargets'
  BY <1>6 DEF OwnTargets
<1>8. TargetsAccountedFor'
  BY <1>1, <1>2, TargetsOfScan DEF TargetsAccountedFor
<1>9. EndsInOrder'
  <2>1. CASE Targets(s) = {}
    BY <1>2, <2>1 DEF EndsInOrder, Left
  <2>2. CASE Targets(s) # {}
    <3>1. n \in Nat /\ n # 0
      BY <1>1, <2>2, TargetsOfScan, FS_CardinalityType, FS_EmptySet
    <3>2. Cardinality(Workers) \in Nat /\ Cardinality(Workers) # 0
      BY WorkersType, FS_CardinalityType, FS_EmptySet
    <3>3. Cardinality(team) # 0
      BY <1>3, <3>1, <3>2
    <3>4. team # {}
      BY <3>3, FS_EmptySet
    <3>5. ~AllStopped'
      BY <1>3, <1>4, <3>4 DEF AllStopped
    <3> QED BY <1>2, <3>5 DEF EndsInOrder
  <2> QED BY <2>1, <2>2
<1> QED BY <1>1, <1>5, <1>7, <1>8, <1>9 DEF CoverageInv

LEMMA ScanUnderWay ==
    ASSUME CoverageInv, NEW w \in Workers, worker[w] # Stopped
    PROVE  /\ scan \in Scans /\ scan # None /\ answer = None
           /\ OwnTargets /\ TargetsAccountedFor /\ EndsInOrder /\ CoverageTypes
           /\ ~AllStopped
BY DEF CoverageInv, CoverageTypes, NothingScanned, AllStopped, EndsInOrder

LEMMA TakeKeeps ==
    ASSUME CoverageInv, NEW w \in Workers, Take(w)
    PROVE  CoverageInv'
<1>1. /\ worker[w] = Free /\ worker[w] # Stopped
      /\ UNCHANGED <<scan, results, answer>>
  BY DEF Take, Free, Stopped
<1>2. /\ scan \in Scans /\ scan # None /\ answer = None
      /\ OwnTargets /\ TargetsAccountedFor /\ EndsInOrder /\ CoverageTypes
  BY <1>1, ScanUnderWay
<1>3. Left = {i \in Targets(scan) : nextIndex <= i}
  BY <1>2 DEF Left, CoverageTypes
<1>4. ~Probes(w)
  BY <1>1, <1>2, WorkersAtOnce DEF Probes
<1>5. Targets(scan) \subseteq Nat \ {0} /\ nextIndex \in Nat
  BY <1>2, TargetsOfScan DEF CoverageTypes
<1>6. ASSUME NEW i \in Left, \A j \in Left : i <= j,
             worker' = [worker EXCEPT ![w] = [pc |-> "review", i |-> i]],
             probes' = [probes EXCEPT ![i] = @ + 1],
             nextIndex' = i + 1
      PROVE  CoverageInv'
  <2>1. i \in Targets(scan) /\ nextIndex <= i /\ i \in Nat
    BY <1>3, <1>5, <1>6
  <2>2. /\ worker'[w] = [pc |-> "review", i |-> i] /\ worker'[w] \in Probers
        /\ worker'[w].i = i
        /\ \A v \in Workers \ {w} : worker'[v] = worker[v]
        /\ worker' \in [Workers -> {Free, Stopped} \cup Probers]
    BY <1>2, <1>6, <2>1 DEF CoverageTypes, Probers
  <2>3. probes[i] = 0 /\ results[i] = None
    BY <1>2, <2>1 DEF TargetsAccountedFor
  <2>4. /\ probes' \in [Targets(scan) -> Nat]
        /\ probes'[i] = 1
        /\ \A j \in Targets(scan) \ {i} : probes'[j] = probes[j]
    BY <1>2, <1>6, <2>1, <2>3 DEF CoverageTypes
  <2>5. CoverageTypes'
    BY <1>1, <1>2, <1>6, <2>1, <2>2, <2>4 DEF CoverageTypes
  <2>6. OwnTargets'
    <3>1. ASSUME NEW v \in Workers, Probes(v)'
          PROVE  /\ worker'[v].i \in Targets(scan)
                 /\ worker'[v].i < nextIndex'
                 /\ results[worker'[v].i] = None
                 /\ v # w => Probes(v) /\ worker'[v] = worker[v] /\ worker[v].i < nextIndex
      <4>1. CASE v = w
        BY <1>6, <2>1, <2>2, <2>3, <4>1
      <4>2. CASE v # w
        <5>1. Probes(v) /\ worker'[v] = worker[v]
          BY <2>2, <3>1, <4>2 DEF Probes
        <5>2. /\ worker[v].i \in Targets(scan) /\ worker[v].i < nextIndex
              /\ results[worker[v].i] = None
          BY <1>2, <5>1 DEF OwnTargets
        <5>3. worker[v].i < nextIndex'
          BY <1>5, <1>6, <2>1, <5>2
        <5> QED BY <5>1, <5>2, <5>3
      <4> QED BY <4>1, <4>2
    <3>2. ASSUME NEW u \in Workers, NEW v \in Workers, Probes(u)', Probes(v)',
                 worker'[u].i = worker'[v].i
          PROVE  u = v
      <4>1. CASE u # w /\ v # w
        <5>1. Probes(u) /\ Probes(v) /\ worker[u].i = worker[v].i
          BY <3>1, <3>2, <4>1
        <5> QED BY <1>2, <5>1 DEF OwnTargets
      <4>2. CASE u = w /\ v # w
        <5>1. worker[v].i < nextIndex /\ worker[v].i = i /\ worker[v].i \in Targets(scan)
          BY <2>2, <3>1, <3>2, <4>2
        <5> QED BY <1>5, <2>1, <5>1
      <4>3. CASE u # w /\ v = w
        <5>1. worker[u].i < nextIndex /\ worker[u].i = i /\ worker[u].i \in Targets(scan)
          BY <2>2, <3>1, <3>2, <4>3
        <5> QED BY <1>5, <2>1, <5>1
      <4> QED BY <4>1, <4>2, <4>3
    <3> QED BY <1>1, <3>1, <3>2 DEF OwnTargets
  <2>7. TargetsAccountedFor'
    <3> SUFFICES ASSUME NEW j \in Targets(scan)
                 PROVE  /\ j < nextIndex' =>
                             /\ probes'[j] = 1
                             /\ \/ results[j] # None
                                \/ \E v \in Workers : Probes(v)' /\ worker'[v].i = j
                        /\ nextIndex' <= j => probes'[j] = 0 /\ results[j] = None
                        /\ results[j] # None =>
                             results[j].r = scan.found[j] /\ results[j].list \in Probed
      BY <1>1 DEF TargetsAccountedFor
    <3>1. results[j] # None => results[j].r = scan.found[j] /\ results[j].list \in Probed
      BY <1>2 DEF TargetsAccountedFor
    <3>2. CASE j = i
      BY <1>6, <2>1, <2>2, <2>4, <3>1, <3>2 DEF Probes
    <3>3. CASE j # i /\ nextIndex <= j
      <4>1. j \in Left
        BY <1>3, <3>3
      <4>2. i <= j /\ ~(j < nextIndex')
        BY <1>5, <1>6, <2>1, <3>3, <4>1
      <4> QED BY <1>2, <2>4, <3>1, <3>3, <4>2 DEF TargetsAccountedFor
    <3>4. CASE j # i /\ j < nextIndex
      <4>1. /\ probes'[j] = 1
            /\ results[j] # None \/ \E v \in Workers : Probes(v) /\ worker[v].i = j
        BY <1>2, <2>4, <3>4 DEF TargetsAccountedFor
      <4>2. ASSUME NEW v \in Workers, Probes(v) PROVE Probes(v)' /\ worker'[v].i = worker[v].i
        BY <1>4, <2>2, <4>2 DEF Probes
      <4>3. ~(nextIndex' <= j)
        BY <1>5, <1>6, <2>1, <3>4
      <4> QED BY <3>1, <4>1, <4>2, <4>3
    <3> QED BY <1>5, <3>2, <3>3, <3>4
  <2>8. EndsInOrder'
    <3>1. worker'[w] # Stopped
      BY <2>2 DEF Stopped
    <3> QED BY <1>1, <1>2, <3>1 DEF EndsInOrder, AllStopped
  <2> QED BY <1>1, <1>2, <2>5, <2>6, <2>7, <2>8 DEF CoverageInv
<1>7. ASSUME Left = {}, worker' = [worker EXCEPT ![w] = Stopped], UNCHANGED <<probes, nextIndex>>
      PROVE  CoverageInv'
  <2>1. /\ worker' \in [Workers -> {Free, Stopped} \cup Probers]
        /\ worker'[w] = Stopped
        /\ \A v \in Workers \ {w} : worker'[v] = worker[v]
    BY <1>2, <1>7 DEF CoverageTypes
  <2>2. \A v \in Workers : /\ Probes(v)' <=> Probes(v)
                           /\ Probes(v) => worker'[v] = worker[v]
    <3>1. Stopped \notin Probers
      BY <1>2, WorkersAtOnce
    <3> QED BY <1>4, <2>1, <3>1 DEF Probes
  <2>3. CoverageTypes'
    BY <1>1, <1>2, <1>7, <2>1 DEF CoverageTypes
  <2>4. OwnTargets'
    BY <1>1, <1>2, <1>7, <2>2 DEF OwnTargets
  <2>5. TargetsAccountedFor'
    BY <1>1, <1>2, <1>7, <2>2 DEF TargetsAccountedFor
  <2>6. EndsInOrder'
    BY <1>1, <1>2, <1>7 DEF EndsInOrder, Left
  <2> QED BY <1>1, <1>2, <2>3, <2>4, <2>5, <2>6 DEF CoverageInv
<1> QED BY <1>6, <1>7 DEF Take

(* A worker that probes ends its probe with an entry, or goes on.           *)
LEMMA ProbeEnds ==
    ASSUME CoverageInv, NEW w \in Workers, Probes(w),
           NEW list \in Probed, NEW detail \in DetailStatuses, EndProbe(w, list, detail),
           UNCHANGED <<scan, nextIndex, probes, answer>>
    PROVE  CoverageInv'
<1>1. worker[w] # Stopped
  BY DEF Probes, Probers, Stopped
<1>2. /\ scan \in Scans /\ scan # None /\ answer = None
      /\ OwnTargets /\ TargetsAccountedFor /\ EndsInOrder /\ CoverageTypes
  BY <1>1, ScanUnderWay
<1>3. PICK t : t = worker[w].i
  OBVIOUS
<1>4. PICK e : e = Entry(scan.found[t], list, detail)
  OBVIOUS
<1>5. t \in Targets(scan) /\ t < nextIndex /\ results[t] = None
  BY <1>2, <1>3 DEF OwnTargets
<1>6. /\ e \in Entries /\ e # None /\ e.r = scan.found[t] /\ e.list = list
  BY <1>2, <1>4, <1>5, TargetsOfScan, NoScan
     DEF Entry, Entries, Probed, ListStatuses
<1>7. /\ results' = [results EXCEPT ![t] = e]
      /\ worker' = [worker EXCEPT ![w] = Free]
  BY <1>3, <1>4 DEF EndProbe, Target
<1>8. /\ results' \in [Targets(scan) -> Entries \cup {None}]
      /\ results'[t] = e
      /\ \A i \in Targets(scan) \ {t} : results'[i] = results[i]
      /\ DOMAIN results' = DOMAIN results
  BY <1>2, <1>5, <1>6, <1>7 DEF CoverageTypes
<1>9. /\ worker' \in [Workers -> {Free, Stopped} \cup Probers]
      /\ worker'[w] = Free
      /\ \A v \in Workers \ {w} : worker'[v] = worker[v]
  BY <1>2, <1>7 DEF CoverageTypes
<1>10. CoverageTypes'
  BY <1>2, <1>8, <1>9 DEF CoverageTypes
<1>11. Free \notin Probers /\ Free # Stopped
  BY <1>2, WorkersAtOnce
<1>12. \A v \in Workers : Probes(v)' => v # w /\ Probes(v) /\ worker'[v] = worker[v]
  BY <1>9, <1>11 DEF Probes
<1>13. \A v \in Workers \ {w} : Probes(v) => worker[v].i # t /\ Probes(v)' /\ worker'[v] = worker[v]
  BY <1>2, <1>3, <1>9 DEF OwnTargets, Probes
<1>14. OwnTargets'
  <2>1. ASSUME NEW v \in Workers, Probes(v)'
        PROVE  /\ worker'[v].i \in Targets(scan)
               /\ worker'[v].i < nextIndex
               /\ results'[worker'[v].i] = None
    BY <1>2, <1>8, <1>12, <1>13, <2>1 DEF OwnTargets
  <2>2. \A u, v \in Workers : Probes(u)' /\ Probes(v)' /\ worker'[u].i = worker'[v].i => u = v
    BY <1>2, <1>12 DEF OwnTargets
  <2> QED BY <1>2, <2>1, <2>2 DEF OwnTargets
<1>15. TargetsAccountedFor'
  <2> SUFFICES ASSUME NEW j \in Targets(scan)
               PROVE  /\ j < nextIndex =>
                           /\ probes[j] = 1
                           /\ \/ results'[j] # None
                              \/ \E v \in Workers : Probes(v)' /\ worker'[v].i = j
                      /\ nextIndex <= j => probes[j] = 0 /\ results'[j] = None
                      /\ results'[j] # None =>
                           results'[j].r = scan.found[j] /\ results'[j].list \in Probed
    BY DEF TargetsAccountedFor
  <2>1. CASE j = t
    <3>1. probes[j] = 1
      BY <1>2, <1>5, <2>1 DEF TargetsAccountedFor
    <3>2. ~(nextIndex <= j)
      <4>1. j \in Nat /\ nextIndex \in Nat
        BY <1>2, TargetsOfScan DEF CoverageTypes
      <4> QED BY <1>5, <2>1, <4>1
    <3> QED BY <1>6, <1>8, <2>1, <3>1, <3>2
  <2>2. CASE j # t
    <3>1. \A v \in Workers : Probes(v) /\ worker[v].i = j => Probes(v)' /\ worker'[v].i = j
      BY <1>3, <1>13, <2>2
    <3> QED BY <1>2, <1>8, <2>2, <3>1 DEF TargetsAccountedFor
  <2> QED BY <2>1, <2>2
<1>16. EndsInOrder'
  <2>1. ~AllStopped'
    BY <1>9, <1>11 DEF AllStopped
  <2> QED BY <1>2, <2>1 DEF EndsInOrder
<1> QED BY <1>2, <1>10, <1>14, <1>15, <1>16 DEF CoverageInv

LEMMA ProbeGoesOn ==
    ASSUME CoverageInv, NEW w \in Workers, Probes(w),
           NEW pc \in {"review", "sample", "detail"}, GoOn(w, pc),
           UNCHANGED <<scan, nextIndex, probes, answer>>
    PROVE  CoverageInv'
<1>1. worker[w] # Stopped
  BY DEF Probes, Probers, Stopped
<1>2. /\ scan \in Scans /\ scan # None /\ answer = None
      /\ OwnTargets /\ TargetsAccountedFor /\ EndsInOrder /\ CoverageTypes
  BY <1>1, ScanUnderWay
<1>3. /\ worker' = [worker EXCEPT ![w].pc = pc] /\ UNCHANGED results
  BY DEF GoOn
<1>4. /\ worker'[w] \in Probers /\ worker'[w].i = worker[w].i
      /\ \A v \in Workers \ {w} : worker'[v] = worker[v]
      /\ worker' \in [Workers -> {Free, Stopped} \cup Probers]
  BY <1>2, <1>3 DEF CoverageTypes, Probes, Probers
<1>5. \A v \in Workers : /\ Probes(v)' <=> Probes(v)
                         /\ worker'[v].i = worker[v].i
  BY <1>4 DEF Probes
<1>6. CoverageTypes'
  BY <1>2, <1>3, <1>4 DEF CoverageTypes
<1>7. OwnTargets'
  BY <1>2, <1>3, <1>5 DEF OwnTargets
<1>8. TargetsAccountedFor'
  BY <1>2, <1>3, <1>5 DEF TargetsAccountedFor
<1>9. EndsInOrder'
  <2>1. ~AllStopped'
    BY <1>4 DEF AllStopped, Stopped, Probers
  <2> QED BY <1>2, <2>1 DEF EndsInOrder
<1> QED BY <1>2, <1>6, <1>7, <1>8, <1>9 DEF CoverageInv

LEMMA ProbesKeep ==
    ASSUME CoverageInv, NEW w \in Workers, ReviewList(w) \/ ListSample(w) \/ ReadDetail(w)
    PROVE  CoverageInv'
<1>1. UNCHANGED <<scan, nextIndex, probes, answer>>
  BY DEF ReviewList, ListSample, ReadDetail
<1>2. Probes(w)
  BY WorkersAtOnce DEF ReviewList, ListSample, ReadDetail, CoverageInv
<1>3. \/ \E pc \in {"sample", "detail"} : GoOn(w, pc)
      \/ \E list \in Probed, detail \in DetailStatuses : EndProbe(w, list, detail)
  <2>1. /\ {"listed", "empty", "denied", "error"} \subseteq Probed
        /\ {"read", "empty", "denied", "error", "unsupported", "skipped"} \subseteq DetailStatuses
    BY DEF Probed, DetailStatuses
  <2>2. CASE ReviewList(w)
    BY <2>1, <2>2 DEF ReviewList
  <2>3. CASE ListSample(w)
    BY <2>1, <2>3 DEF ListSample
  <2>4. CASE ReadDetail(w)
    BY <2>1, <2>4 DEF ReadDetail
  <2> QED BY <2>2, <2>3, <2>4
<1> QED BY <1>1, <1>2, <1>3, ProbeEnds, ProbeGoesOn

LEMMA AnswerKeeps ==
    ASSUME CoverageInv, AnswerScan
    PROVE  CoverageInv'
<1>1. /\ scan # None /\ AllStopped
      /\ UNCHANGED <<scan, nextIndex, worker, results, probes>>
      /\ answer' = [i \in DOMAIN scan.found |-> EntryOf(scan.found[i])]
  BY DEF AnswerScan, AllStopped
<1>2. CoverageTypes' /\ OwnTargets' /\ TargetsAccountedFor'
  BY <1>1 DEF CoverageInv, CoverageTypes, OwnTargets, TargetsAccountedFor, Probes
<1>3. \A r : EntryOf(r)' = EntryOf(r)
  BY <1>1 DEF EntryOf
<1>4. EndsInOrder'
  BY <1>1, <1>3 DEF CoverageInv, EndsInOrder, AllStopped, Left
<1> QED BY <1>1, <1>2, <1>4 DEF CoverageInv

LEMMA CoverageInvStep == CoverageInv /\ [CoverageNext]_coverageVars => CoverageInv'
<1> SUFFICES ASSUME CoverageInv, [CoverageNext]_coverageVars
             PROVE  CoverageInv'
  OBVIOUS
<1>1. CASE CoverageNext
  BY <1>1, ScanBegins, TakeKeeps, ProbesKeep, AnswerKeeps DEF CoverageNext
<1>2. CASE UNCHANGED coverageVars
  <2>1. UNCHANGED <<scan, nextIndex, worker, results, probes, answer>>
    BY <1>2 DEF coverageVars
  <2>2. \A r : EntryOf(r)' = EntryOf(r)
    BY <2>1 DEF EntryOf
  <2>3. OwnTargets <=> OwnTargets'
    BY <2>1 DEF OwnTargets, Probes
  <2>4. TargetsAccountedFor <=> TargetsAccountedFor'
    BY <2>1 DEF TargetsAccountedFor, Probes
  <2>5. EndsInOrder => EndsInOrder'
    BY <2>1, <2>2 DEF EndsInOrder, AllStopped, Left
  <2>6. CoverageTypes' /\ (NothingScanned => NothingScanned')
    BY <2>1 DEF CoverageInv, CoverageTypes, NothingScanned, AllStopped
  <2> QED BY <2>1, <2>3, <2>4, <2>5, <2>6 DEF CoverageInv
<1> QED BY <1>1, <1>2

LEMMA CoverageInvCorrect == CoverageSpec => []CoverageInv
BY CoverageInvInit, CoverageInvStep, PTL DEF CoverageSpec
-----------------------------------------------------------------------------
(* When all workers have stopped, every target has its result.              *)
LEMMA AllHaveResults ==
    ASSUME CoverageInv, scan # None, AllStopped
    PROVE  \A i \in Targets(scan) :
              /\ probes[i] = 1 /\ results[i] # None /\ results[i] \in Entries
              /\ results[i].r = scan.found[i] /\ results[i].list \in Probed
<1>1. scan \in Scans /\ CoverageTypes /\ TargetsAccountedFor /\ EndsInOrder
  BY DEF CoverageInv, CoverageTypes
<1>2. Targets(scan) \subseteq Nat /\ nextIndex \in Nat /\ DOMAIN results = Targets(scan)
  BY <1>1, TargetsOfScan DEF CoverageTypes
<1>3. \A i \in Targets(scan) : i < nextIndex
  BY <1>1, <1>2 DEF EndsInOrder, Left
<1>4. \A w \in Workers : ~Probes(w)
  BY DEF AllStopped, Probes, Probers, Stopped
<1> QED BY <1>1, <1>3, <1>4 DEF TargetsAccountedFor, CoverageTypes

(* The entry of a resource is that of its probe exactly when it was one of   *)
(* the targets.                                                             *)
LEMMA EntryOfEach ==
    ASSUME CoverageInv, scan # None, AllStopped, NEW i \in DOMAIN scan.found
    PROVE  /\ EntryOf(scan.found[i]) \in Entries
           /\ EntryOf(scan.found[i]).r = scan.found[i]
           /\ i \in Targets(scan) <=> EntryOf(scan.found[i]).list \in Probed
<1> DEFINE r == scan.found[i]
<1>1. scan \in Scans /\ DOMAIN results = Targets(scan)
  BY DEF CoverageInv, CoverageTypes
<1>2. r \in Catalog
  BY <1>1, TargetsOfScan
<1>3. CASE i \in Targets(scan)
  <2>1. results[i] # None /\ results[i].r = r
    BY <1>3, AllHaveResults
  <2>2. results[i] \in {results[j] : j \in DOMAIN results}
    BY <1>1, <1>3
  <2>3. PICK e : e = CHOOSE x \in {results[j] : j \in DOMAIN results} : x # None /\ x.r = r
    OBVIOUS
  <2>4. e \in {results[j] : j \in DOMAIN results} /\ e # None /\ e.r = r
    BY <2>1, <2>2, <2>3
  <2>5. PICK j \in Targets(scan) : e = results[j]
    BY <1>1, <2>4
  <2>6. e \in Entries /\ e.list \in Probed
    BY <2>5, AllHaveResults
  <2>7. EntryOf(r) = e
    BY <1>1, <1>3, <2>1, <2>3 DEF EntryOf
  <2> QED BY <1>3, <2>4, <2>6, <2>7
<1>4. CASE i \notin Targets(scan)
  <2>1. \A j \in Targets(scan) : scan.found[j] # r
    BY <1>1, <1>4, TargetsOfScan
  <2>2. \A j \in DOMAIN results : results[j].r # r
    BY <1>1, <2>1, AllHaveResults
  <2>3. EntryOf(r) = StaticEntry(r)
    BY <1>1, <2>1, <2>2 DEF EntryOf
  <2>4. /\ StaticEntry(r) \in Entries /\ StaticEntry(r).r = r
        /\ StaticEntry(r).list \notin Probed
    BY <1>2 DEF StaticEntry, Entry, Entries, Probed, ListStatuses, DetailStatuses
  <2> QED BY <1>4, <2>3, <2>4
<1> QED BY <1>3, <1>4

(* The scan and its workers keep their types.                               *)
THEOREM CoverageTypesCorrect == CoverageSpec => []CoverageTypeOK
<1>1. CoverageInv => CoverageTypeOK
  <2> SUFFICES ASSUME CoverageInv
               PROVE  CoverageTypeOK
    OBVIOUS
  <2>1. CoverageTypes
    BY DEF CoverageInv
  <2>2. CASE scan = None
    BY <2>1, <2>2 DEF CoverageInv, NothingScanned, AllStopped, CoverageTypes, CoverageTypeOK
  <2>3. CASE scan # None
    <3>1. scan \in Scans /\ DOMAIN results = Targets(scan) /\ DOMAIN probes = Targets(scan)
      BY <2>1, <2>3 DEF CoverageTypes
    <3>2. worker \in [Workers -> {Free, Stopped}
                                 \cup [pc : {"review", "sample", "detail"}, i : DOMAIN results]]
      <4>1. ASSUME NEW w \in Workers
            PROVE  worker[w] \in {Free, Stopped}
                                 \cup [pc : {"review", "sample", "detail"}, i : DOMAIN results]
        <5>1. CASE Probes(w)
          <6>1. worker[w].i \in DOMAIN results
            BY <2>3, <3>1, <5>1 DEF CoverageInv, OwnTargets
          <6> QED BY <5>1, <6>1 DEF Probes, Probers
        <5>2. CASE ~Probes(w)
          BY <2>1, <5>2, WorkersAtOnce
        <5> QED BY <5>1, <5>2
      <4> QED BY <2>1, <4>1 DEF CoverageTypes
    <3>3. answer # None => answer \in [DOMAIN scan.found -> Entries]
      BY <2>3, EntryOfEach DEF CoverageInv, EndsInOrder
    <3> QED BY <2>1, <2>3, <3>1, <3>2, <3>3 DEF CoverageTypes, CoverageTypeOK
  <2> QED BY <2>2, <2>3
<1> QED BY <1>1, CoverageInvCorrect, PTL

(* The number of elements of four sets that have none in common.            *)
LEMMA FourParts ==
    ASSUME NEW A, NEW B, NEW C, NEW D, IsFiniteSet(A \cup B \cup C \cup D),
           A \cap B = {}, (A \cup B) \cap C = {}, (A \cup B \cup C) \cap D = {}
    PROVE  Cardinality(A) + Cardinality(B) + Cardinality(C) + Cardinality(D)
             = Cardinality(A \cup B \cup C \cup D)
<1>1. /\ IsFiniteSet(A) /\ IsFiniteSet(B) /\ IsFiniteSet(C) /\ IsFiniteSet(D)
      /\ IsFiniteSet(A \cup B) /\ IsFiniteSet(A \cup B \cup C)
  <2>1. \A S \in SUBSET (A \cup B \cup C \cup D) : IsFiniteSet(S)
    BY FS_Subset
  <2> QED BY <2>1
<1>2. /\ Cardinality(A) \in Nat /\ Cardinality(B) \in Nat
      /\ Cardinality(C) \in Nat /\ Cardinality(D) \in Nat
      /\ Cardinality(A \cup B) \in Nat /\ Cardinality(A \cup B \cup C) \in Nat
  BY <1>1, FS_CardinalityType
<1>3. Cardinality({}) = 0
  BY FS_EmptySet
<1>4. Cardinality(A \cup B) = Cardinality(A) + Cardinality(B)
  <2>1. Cardinality(A \cup B) = Cardinality(A) + Cardinality(B) - Cardinality(A \cap B)
    BY <1>1, FS_Union
  <2> QED BY <1>2, <1>3, <2>1
<1>5. Cardinality(A \cup B \cup C) = Cardinality(A \cup B) + Cardinality(C)
  <2>1. Cardinality((A \cup B) \cup C)
          = Cardinality(A \cup B) + Cardinality(C) - Cardinality((A \cup B) \cap C)
    BY <1>1, FS_Union
  <2>2. Cardinality((A \cup B) \cap C) = 0
    BY <1>3
  <2> QED BY <1>2, <2>1, <2>2
<1>6. Cardinality(A \cup B \cup C \cup D) = Cardinality(A \cup B \cup C) + Cardinality(D)
  <2>1. Cardinality((A \cup B \cup C) \cup D)
          = Cardinality(A \cup B \cup C) + Cardinality(D) - Cardinality((A \cup B \cup C) \cap D)
    BY <1>1, FS_Union
  <2>2. Cardinality((A \cup B \cup C) \cap D) = 0
    BY <1>3
  <2> QED BY <1>2, <2>1, <2>2
<1> QED BY <1>2, <1>4, <1>5, <1>6

(* For every discovery, every limit and any number of workers, however their *)
(* probes interleave and end: the answer has an entry for every resource,    *)
(* every target was probed exactly once before it, and the totals add up     *)
(* (getOcpCoverageMatrix, mapWithConcurrency).                               *)
THEOREM CoverageIsComplete == CoverageSpec => []CoverageAccountsForAll
<1>1. CoverageInv => CoverageAccountsForAll
  <2> SUFFICES ASSUME CoverageInv, answer # None
               PROVE  CoverageAccountsForAll
    BY DEF CoverageAccountsForAll
  <2>1. /\ scan # None /\ AllStopped /\ scan \in Scans
        /\ answer = [i \in DOMAIN scan.found |-> EntryOf(scan.found[i])]
    BY DEF CoverageInv, CoverageTypes, NothingScanned, EndsInOrder
  <2>2. DOMAIN answer = DOMAIN scan.found
    BY <2>1
  <2>3. \A i \in DOMAIN answer :
           /\ answer[i].r = scan.found[i] /\ answer[i] \in Entries
           /\ i \in Targets(scan) <=> answer[i].list \in Probed
    BY <2>1, EntryOfEach
  <2> DEFINE of == {scan.found[i] : i \in Targets(scan)}
  <2>4. \A i \in DOMAIN answer : scan.found[i] \in of <=> i \in Targets(scan)
    BY <2>1, <2>2, TargetsOfScan
  <2>5. \A i \in DOMAIN answer :
           /\ answer[i].r = scan.found[i]
           /\ answer[i].r \in of <=> answer[i].list \in {"listed", "empty", "denied", "error"}
           /\ Gap(answer[i]) = "none" => answer[i].list = "listed"
    <3>1. \A e : Gap(e) = "none" => e.list = "listed"
      BY DEF Gap
    <3> QED BY <2>3, <2>4, <3>1 DEF Probed
  <2>6. \A i \in Targets(scan) : probes[i] = 1 /\ results[i] # None
    BY <2>1, AllHaveResults
  <2>7. \A r \in of : r.kind # Secret
    BY <2>1, TargetsOfScan DEF SafeToList
  <2>8. Total("listed") + Total("empty") + Total("denied") + Total("error")
          = Cardinality(Targets(scan))
    <3> DEFINE Having(status) == {i \in DOMAIN answer : answer[i].list = status}
    <3>1. Having("listed") \cup Having("empty") \cup Having("denied") \cup Having("error")
            = Targets(scan)
      BY <2>1, <2>2, <2>3, TargetsOfScan DEF Probed
    <3>2. /\ Having("listed") \cap Having("empty") = {}
          /\ (Having("listed") \cup Having("empty")) \cap Having("denied") = {}
          /\ (Having("listed") \cup Having("empty") \cup Having("denied")) \cap Having("error") = {}
      OBVIOUS
    <3>3. IsFiniteSet(Targets(scan))
      BY <2>1, TargetsOfScan
    <3>4. \A status : Total(status) = Cardinality(Having(status))
      BY DEF Total
    <3> HIDE DEF Having
    <3>5. Cardinality(Having("listed")) + Cardinality(Having("empty"))
            + Cardinality(Having("denied")) + Cardinality(Having("error"))
            = Cardinality(Targets(scan))
      BY <3>1, <3>2, <3>3, FourParts
    <3> QED BY <3>4, <3>5
  <2> HIDE DEF of
  <2>9. CoverageAccountsForAll <=>
          /\ DOMAIN answer = DOMAIN scan.found
          /\ \A i \in DOMAIN answer :
                /\ answer[i].r = scan.found[i]
                /\ answer[i].r \in of <=>
                      answer[i].list \in {"listed", "empty", "denied", "error"}
                /\ Gap(answer[i]) = "none" => answer[i].list = "listed"
          /\ \A i \in Targets(scan) : probes[i] = 1 /\ results[i] # None
          /\ \A r \in of : r.kind # Secret
          /\ Total("listed") + Total("empty") + Total("denied") + Total("error")
                = Cardinality(Targets(scan))
    BY DEF CoverageAccountsForAll, of
  <2> QED BY <2>2, <2>5, <2>6, <2>7, <2>8, <2>9
<1> QED BY <1>1, CoverageInvCorrect, PTL
-----------------------------------------------------------------------------
(* The diagnosis of an API that is down. *)

MainChecks == {"crd", "api-service", "alternate-versions"}

\* Where the diagnostic is when it has awaited c.
After(c) ==
    CASE c = "crd" -> {"api-service", "alternate-versions", "conversion", "webhook-service", "sent"}
      [] c = "api-service" -> {"alternate-versions", "conversion", "webhook-service", "sent"}
      [] c = "alternate-versions" -> {"conversion", "webhook-service", "sent"}
      [] c = "webhook-service" -> {"sent"}

\* What any finding may be.
FindingIds == Checks \cup {"coverage-gap", "service", "endpoints", "slices"}
FindingStatuses ==
    {"none", "empty", "rbac-denied", "policy-blocked", "list-unsupported", "not-probed",
     "error", "skipped", "unread", "read", "webhook", "timed-out"}
Findings == [id : FindingIds, status : FindingStatuses]

Said(f) == \E i \in DOMAIN findings : findings[i] = f
Webhook == Said(Finding("crd", "webhook"))

OnceEach ==
    \A i, j \in DOMAIN findings :
        i # j => ~ /\ findings[i].id = findings[j].id
                   /\ (findings[i].status = "timed-out") <=> (findings[j].status = "timed-out")

DiagnosisTypes ==
    /\ diagnosis \in {None} \cup Diagnoses
    /\ check \in [Checks -> {"none", "review", "get", "probe", "service", "endpoints",
                             "slices", "done"}]
    /\ check["webhook-service"] \in {"none", "service", "endpoints", "slices", "done"}
    /\ findings \in Seq(Findings)
    /\ diagnosis = None => findings = <<>> /\ check = [c \in Checks |-> "none"]

\* A check is done when it has its finding; it is passed by with a finding.
EachSaid(c) ==
    /\ Has(c) <=> check[c] = "done"
    /\ TimedOut(c) => diagnosis.pc \in After(c)
    /\ diagnosis.pc \in After(c) => Has(c) \/ TimedOut(c)

\* What is said of a webhook, and how far its check has come.
WebhookSaid ==
    /\ Has("service") <=> \/ check["webhook-service"] \in {"endpoints", "slices", "done"}
                          \/ diagnosis.pc = "sent" /\ diagnosis.hook = "nowhere"
    /\ Has("endpoints") <=> check["webhook-service"] \in {"slices", "done"}
    /\ Has("slices") <=> check["webhook-service"] = "done"
    /\ ~Has("webhook-service")
    /\ TimedOut("webhook-service") => diagnosis.pc = "sent"
    /\ diagnosis.pc = "sent" /\ diagnosis.hook = "service"
          => TimedOut("webhook-service") \/ check["webhook-service"] = "done"

\* A webhook is checked when the CRD was known to name its Service.
WebhookKnown ==
    /\ Webhook <=> diagnosis.hook \in {"service", "nowhere"}
    /\ diagnosis.hook # "unknown" => check["crd"] = "done"
    /\ \/ check["webhook-service"] # "none"
       \/ diagnosis.pc = "webhook-service"
       \/ TimedOut("webhook-service")
       => diagnosis.hook = "service"
    /\ check["webhook-service"] # "none" => diagnosis.pc \in {"webhook-service", "sent"}

DiagnosisInv ==
    /\ DiagnosisTypes
    /\ OnceEach
    /\ diagnosis # None => /\ \A c \in MainChecks : EachSaid(c)
                           /\ WebhookSaid
                           /\ WebhookKnown

-----------------------------------------------------------------------------
(* What a finding that is added changes of what is said. *)
LEMMA AddedIsSaid ==
    ASSUME findings \in Seq(Findings), NEW f \in Findings, findings' = Append(findings, f)
    PROVE  /\ findings' \in Seq(Findings)
           /\ \A id : Has(id)' <=> Has(id) \/ (f.id = id /\ f.status # "timed-out")
           /\ \A c : TimedOut(c)' <=> TimedOut(c) \/ f = Expired(c)
           /\ \A g : Said(g)' <=> Said(g) \/ g = f
<1>1. findings' \in Seq(Findings)
  OBVIOUS
<1>2. PICK n \in Nat : n = Len(findings)
  OBVIOUS
<1>3. /\ DOMAIN findings = 1..n
      /\ DOMAIN findings' = 1..(n + 1)
      /\ \A i \in 1..n : findings'[i] = findings[i]
      /\ findings'[n + 1] = f
  BY <1>2
<1>4. n + 1 \in 1..(n + 1) /\ \A i \in 1..(n + 1) : i = n + 1 \/ i \in 1..n
  BY <1>2
<1>5. \A i \in 1..n : i \in 1..(n + 1)
  BY <1>2
<1>6. ASSUME NEW id
      PROVE  Has(id)' <=> Has(id) \/ (f.id = id /\ f.status # "timed-out")
  BY <1>3, <1>4, <1>5 DEF Has
<1>7. ASSUME NEW c
      PROVE  TimedOut(c)' <=> TimedOut(c) \/ f = Expired(c)
  BY <1>3, <1>4, <1>5 DEF TimedOut
<1>8. ASSUME NEW g
      PROVE  Said(g)' <=> Said(g) \/ g = f
  BY <1>3, <1>4, <1>5 DEF Said
<1> QED BY <1>1, <1>6, <1>7, <1>8

(* A finding is added once. *)
LEMMA AddedOnce ==
    ASSUME findings \in Seq(Findings), OnceEach,
           NEW f \in Findings, findings' = Append(findings, f),
           f.status = "timed-out" => ~TimedOut(f.id),
           f.status # "timed-out" => ~Has(f.id)
    PROVE  OnceEach'
<1>2. PICK n \in Nat : n = Len(findings)
  OBVIOUS
<1>3. /\ DOMAIN findings = 1..n
      /\ DOMAIN findings' = 1..(n + 1)
      /\ \A i \in 1..n : findings'[i] = findings[i] /\ findings[i] \in Findings
      /\ findings'[n + 1] = f
  BY <1>2
<1>4. \A i \in 1..(n + 1) : i = n + 1 \/ i \in 1..n
  BY <1>2
<1>5. ASSUME NEW i \in 1..n
      PROVE  ~ /\ findings[i].id = f.id
               /\ (findings[i].status = "timed-out") <=> (f.status = "timed-out")
  <2>1. findings[i].status # "timed-out" => Has(findings[i].id)
    BY <1>3 DEF Has
  <2>2. findings[i].status = "timed-out" => TimedOut(findings[i].id)
    <3>1. findings[i].status = "timed-out" => findings[i] = Expired(findings[i].id)
      BY <1>3 DEF Findings, Expired, Finding
    <3> QED BY <3>1, <1>3 DEF TimedOut
  <2> QED BY <2>1, <2>2
<1> QED BY <1>3, <1>4, <1>5 DEF OnceEach

LEMMA NothingAdded ==
    ASSUME UNCHANGED findings
    PROVE  /\ findings \in Seq(Findings) => findings' \in Seq(Findings)
           /\ OnceEach => OnceEach'
           /\ \A id : Has(id)' <=> Has(id)
           /\ \A c : TimedOut(c)' <=> TimedOut(c)
           /\ \A g : Said(g)' <=> Said(g)
BY DEF OnceEach, Has, TimedOut, Said

LEMMA FindingFields ==
    ASSUME NEW id, NEW status
    PROVE  Finding(id, status).id = id /\ Finding(id, status).status = status
BY DEF Finding

LEMMA FindingsDiffer ==
    ASSUME NEW id, NEW status, NEW other, NEW otherStatus
    PROVE  Finding(id, status) = Finding(other, otherStatus) <=> id = other /\ status = otherStatus
BY DEF Finding
-----------------------------------------------------------------------------
LEMMA DiagnosisBegins ==
    ASSUME NEW found \in Discoveries, NEW r \in Catalog, BeginDiagnosis(found, r), DiagnosisInv
    PROVE  DiagnosisInv'
<1>1. /\ findings = <<>> /\ check = [c \in Checks |-> "none"]
      /\ check' = check
      /\ diagnosis' = [r |-> r, found |-> found, pc |-> "crd", hook |-> "unknown"]
  BY DEF BeginDiagnosis, DiagnosisInv, DiagnosisTypes
<1>2. PICK e \in Coverages(r) : findings' = <<Finding("coverage-gap", Gap(e))>>
  BY DEF BeginDiagnosis
<1>3. Gap(e) \in FindingStatuses \ {"timed-out"}
  BY DEF Gap, FindingStatuses
<1> DEFINE f == Finding("coverage-gap", Gap(e))
<1>4. f \in Findings /\ f.id = "coverage-gap" /\ f.status # "timed-out"
  BY <1>3 DEF Finding, Findings, FindingIds
<1> HIDE DEF f
<1>5. /\ DOMAIN findings' = {1} /\ findings'[1] = f /\ findings' \in Seq(Findings)
  BY <1>2, <1>4 DEF f
<1>6. /\ \A id : Has(id)' <=> id = "coverage-gap"
      /\ \A c : ~TimedOut(c)'
      /\ ~Webhook'
      /\ OnceEach'
  BY <1>4, <1>5 DEF Has, TimedOut, Webhook, Said, OnceEach, Expired, Finding
<1>7. diagnosis' \in Diagnoses /\ diagnosis'.pc = "crd" /\ diagnosis'.hook = "unknown"
  BY <1>1 DEF Diagnoses, Checks
<1>8. DiagnosisTypes'
  BY <1>1, <1>5, <1>7, NoDiagnosis DEF DiagnosisTypes, DiagnosisInv
<1>9. \A c \in MainChecks : EachSaid(c)'
  BY <1>1, <1>6, <1>7 DEF EachSaid, MainChecks, After, Checks
<1>10. WebhookSaid' /\ WebhookKnown'
  BY <1>1, <1>6, <1>7 DEF WebhookSaid, WebhookKnown, Checks
<1> QED BY <1>6, <1>8, <1>9, <1>10 DEF DiagnosisInv

LEMMA OpenDiagnosis ==
    ASSUME DiagnosisInv, Open
    PROVE  /\ diagnosis \in Diagnoses /\ diagnosis # None /\ diagnosis.pc # "sent"
           /\ DiagnosisTypes /\ OnceEach /\ WebhookSaid /\ WebhookKnown
           /\ \A c \in MainChecks : EachSaid(c)
BY DEF Open, DiagnosisInv, DiagnosisTypes

(* A check of the first three goes on. *)
LEMMA MainAwaits ==
    ASSUME DiagnosisInv, Open, NEW c \in MainChecks, check[c] # "done",
           NEW what \in {"review", "get", "probe"}, Await(c, what), UNCHANGED diagnosis
    PROVE  DiagnosisInv'
<1>1. /\ check \in [Checks -> {"none", "review", "get", "probe", "service", "endpoints",
                               "slices", "done"}]
      /\ check' = [check EXCEPT ![c] = what] /\ UNCHANGED findings
      /\ c \in Checks /\ c # "webhook-service" /\ "webhook-service" \in Checks
      /\ MainChecks \subseteq Checks
  BY OpenDiagnosis DEF DiagnosisTypes, Await, MainChecks, Checks
<1>2. /\ check' \in [Checks -> {"none", "review", "get", "probe", "service", "endpoints",
                               "slices", "done"}]
      /\ check'["webhook-service"] = check["webhook-service"]
      /\ \A d \in MainChecks : check'[d] = "done" <=> check[d] = "done"
      /\ check'["crd"] = "done" <=> check["crd"] = "done"
  BY <1>1 DEF MainChecks
<1>3. DiagnosisTypes'
  BY <1>1, <1>2, OpenDiagnosis DEF DiagnosisTypes
<1>4. ASSUME NEW d \in MainChecks
      PROVE  EachSaid(d)'
  BY <1>1, <1>2, NothingAdded, OpenDiagnosis DEF EachSaid
<1>5. WebhookSaid'
  BY <1>1, <1>2, NothingAdded, OpenDiagnosis DEF WebhookSaid
<1>6. WebhookKnown'
  BY <1>1, <1>2, NothingAdded, OpenDiagnosis DEF WebhookKnown, Webhook
<1> QED BY <1>1, <1>3, <1>4, <1>5, <1>6, NothingAdded, OpenDiagnosis DEF DiagnosisInv

(* One of them ends; only the CRD may tell of a webhook. *)
LEMMA MainEnds ==
    ASSUME DiagnosisInv, Open, NEW c \in MainChecks, check[c] # "done",
           NEW status \in FindingStatuses \ {"timed-out"}, EndsWith(c, status),
           NEW hook \in {"unknown", "none", "service", "nowhere"},
           diagnosis' = [diagnosis EXCEPT !.hook = hook],
           \/ c # "crd" /\ hook = diagnosis.hook
           \/ c = "crd" /\ status = "webhook" /\ hook \in {"service", "nowhere"}
           \/ c = "crd" /\ status # "webhook" /\ hook \in {"unknown", "none"}
    PROVE  DiagnosisInv'
<1> DEFINE f == Finding(c, status)
<1>1. /\ check \in [Checks -> {"none", "review", "get", "probe", "service", "endpoints",
                               "slices", "done"}]
      /\ check' = [check EXCEPT ![c] = "done"] /\ findings' = Append(findings, f)
      /\ c \in Checks /\ c # "webhook-service" /\ "webhook-service" \in Checks
      /\ MainChecks \subseteq Checks /\ "crd" \in MainChecks
  BY OpenDiagnosis DEF DiagnosisTypes, EndsWith, MainChecks, Checks
<1>2. /\ check' \in [Checks -> {"none", "review", "get", "probe", "service", "endpoints",
                               "slices", "done"}]
      /\ check'["webhook-service"] = check["webhook-service"]
      /\ \A d \in MainChecks : check'[d] = "done" <=> check[d] = "done" \/ d = c
  BY <1>1
<1>3. /\ diagnosis' \in Diagnoses /\ diagnosis'.pc = diagnosis.pc /\ diagnosis'.hook = hook
      /\ diagnosis' # None
  BY OpenDiagnosis, NoDiagnosis DEF Diagnoses
<1>4. f \in Findings /\ f.id = c /\ f.status = status
  BY <1>1 DEF Findings, FindingIds, Finding
<1>5. ~Has(c)
  BY OpenDiagnosis DEF EachSaid
<1> HIDE DEF f
<1>6. findings \in Seq(Findings) /\ OnceEach
  BY OpenDiagnosis DEF DiagnosisTypes
<1>7. /\ findings' \in Seq(Findings)
      /\ \A id : Has(id)' <=> Has(id) \/ id = c
      /\ \A d : TimedOut(d)' <=> TimedOut(d)
      /\ \A g : Said(g)' <=> Said(g) \/ g = f
  <2>1. \A d : f # Expired(d)
    BY <1>4 DEF Expired, Finding
  <2> QED BY <1>1, <1>4, <1>6, <2>1, AddedIsSaid
<1>8. OnceEach'
  BY <1>1, <1>4, <1>5, <1>6, AddedOnce
<1>9. DiagnosisTypes'
  BY <1>2, <1>3, <1>7, OpenDiagnosis DEF DiagnosisTypes
<1>10. ASSUME NEW d \in MainChecks
       PROVE  EachSaid(d)'
  BY <1>2, <1>3, <1>7, OpenDiagnosis DEF EachSaid
<1>11. c # "crd" \/ diagnosis.hook = "unknown"
  BY OpenDiagnosis DEF WebhookKnown
<1>12. ~Webhook \/ c # "crd"
  BY <1>11, OpenDiagnosis DEF WebhookKnown
<1>13. WebhookSaid'
  <2>1. \A id \in {"service", "endpoints", "slices", "webhook-service"} : id # c
    BY DEF MainChecks
  <2>2. \A id \in {"service", "endpoints", "slices", "webhook-service"} : Has(id)' <=> Has(id)
    BY <1>7, <2>1
  <2>3. /\ Has("service")' <=> Has("service")
        /\ Has("endpoints")' <=> Has("endpoints")
        /\ Has("slices")' <=> Has("slices")
        /\ Has("webhook-service")' <=> Has("webhook-service")
        /\ TimedOut("webhook-service")' <=> TimedOut("webhook-service")
    BY <2>2, <1>7
  <2> QED BY <1>2, <1>3, <2>3, OpenDiagnosis DEF WebhookSaid
<1>14. WebhookKnown'
  <2>1. Webhook' <=> Webhook \/ (c = "crd" /\ status = "webhook")
    <3>1. Webhook' <=> Webhook \/ f = Finding("crd", "webhook")
      BY <1>7 DEF Webhook
    <3>2. f = Finding("crd", "webhook") <=> c = "crd" /\ status = "webhook"
      BY FindingsDiffer DEF f
    <3> QED BY <3>1, <3>2
  <2>2. Webhook' <=> hook \in {"service", "nowhere"}
    <3>1. Webhook <=> diagnosis.hook \in {"service", "nowhere"}
      BY OpenDiagnosis DEF WebhookKnown
    <3> QED BY <2>1, <3>1, <1>11
  <2>3. hook # "unknown" => check'["crd"] = "done"
    BY <1>1, <1>2, OpenDiagnosis DEF WebhookKnown
  <2>4. TimedOut("webhook-service")' <=> TimedOut("webhook-service")
    BY <1>7
  <2>5. \/ check["webhook-service"] # "none"
        \/ diagnosis.pc = "webhook-service"
        \/ TimedOut("webhook-service")
        => hook = "service"
    BY <1>11, OpenDiagnosis DEF WebhookKnown
  <2>6. check["webhook-service"] # "none" => diagnosis.pc \in {"webhook-service", "sent"}
    BY OpenDiagnosis DEF WebhookKnown
  <2> QED BY <1>2, <1>3, <2>2, <2>3, <2>4, <2>5, <2>6 DEF WebhookKnown
<1> QED BY <1>3, <1>8, <1>9, <1>10, <1>13, <1>14 DEF DiagnosisInv

LEMMA MainStarts ==
    ASSUME DiagnosisInv, NEW c \in MainChecks, StartCheck(c)
    PROVE  DiagnosisInv'
<1>1. Open /\ check[c] # "done" /\ UNCHANGED diagnosis
  BY DEF StartCheck, Awaited
<1>2. \/ EndsWith(c, "skipped")
      \/ \E what \in {"review", "get", "probe"} : Await(c, what)
  BY DEF StartCheck, MainChecks
<1>3. CASE EndsWith(c, "skipped")
  <2>1. /\ diagnosis' = [diagnosis EXCEPT !.hook = diagnosis.hook]
        /\ diagnosis.hook \in {"unknown", "none", "service", "nowhere"}
        /\ diagnosis.hook \notin {"unknown", "none"} => check["crd"] = "done"
    BY <1>1, OpenDiagnosis DEF Diagnoses, WebhookKnown
  <2>2. c = "crd" => diagnosis.hook \in {"unknown", "none"}
    BY <1>1, <2>1
  <2>3. "skipped" \in FindingStatuses \ {"timed-out"} /\ "skipped" # "webhook"
    BY DEF FindingStatuses
  <2> QED BY <1>1, <1>3, <2>1, <2>2, <2>3, MainEnds
<1>4. CASE \E what \in {"review", "get", "probe"} : Await(c, what)
  BY <1>1, <1>4, MainAwaits
<1> QED BY <1>2, <1>3, <1>4

LEMMA MainReads ==
    ASSUME DiagnosisInv, ReviewCrd \/ ReadCrd \/ ReadApiService \/ ProbeVersions
    PROVE  DiagnosisInv'
<1>1. Open
  BY DEF ReviewCrd, ReadCrd, ReadApiService, ProbeVersions
<1>2. /\ diagnosis \in Diagnoses
      /\ diagnosis.hook \in {"unknown", "none", "service", "nowhere"}
      /\ diagnosis = [diagnosis EXCEPT !.hook = diagnosis.hook]
      /\ check["crd"] # "done" => diagnosis.hook \in {"unknown", "none"}
  BY <1>1, OpenDiagnosis DEF Diagnoses, WebhookKnown
<1>3. {"unread", "read", "webhook"} \subseteq FindingStatuses \ {"timed-out"}
  BY DEF FindingStatuses
<1>4. MainChecks = {"crd", "api-service", "alternate-versions"}
  BY DEF MainChecks
<1>5. CASE check["crd"] # "done" /\ EndsWith("crd", "unread") /\ UNCHANGED diagnosis
  <2>1. diagnosis' = [diagnosis EXCEPT !.hook = diagnosis.hook]
    BY <1>2, <1>5
  <2> QED BY <1>1, <1>2, <1>3, <1>4, <1>5, <2>1, MainEnds
<1>6. CASE ReviewCrd
  BY <1>1, <1>4, <1>5, <1>6, MainAwaits DEF ReviewCrd
<1>7. CASE ReadCrd
  <2>1. check["crd"] # "done"
    BY <1>7 DEF ReadCrd
  <2>2. CASE EndsWith("crd", "unread") /\ UNCHANGED diagnosis
    BY <1>5, <2>1, <2>2
  <2>3. ASSUME NEW hook \in {"none", "service", "nowhere"},
               EndsWith("crd", IF hook = "none" THEN "read" ELSE "webhook"),
               diagnosis' = [diagnosis EXCEPT !.hook = hook]
        PROVE  DiagnosisInv'
    <3>1. CASE hook = "none"
      <4>1. EndsWith("crd", "read")
        BY <2>3, <3>1
      <4> QED BY <1>1, <1>3, <1>4, <2>1, <2>3, <3>1, <4>1, MainEnds
    <3>2. CASE hook # "none"
      <4>1. EndsWith("crd", "webhook")
        BY <2>3, <3>2
      <4> QED BY <1>1, <1>3, <1>4, <2>1, <2>3, <3>2, <4>1, MainEnds
    <3> QED BY <3>1, <3>2
  <2> QED BY <1>7, <2>2, <2>3 DEF ReadCrd
<1>8. ASSUME NEW c \in {"api-service", "alternate-versions"}, check[c] # "done",
             \E status \in {"unread", "read"} : EndsWith(c, status), UNCHANGED diagnosis
      PROVE  DiagnosisInv'
  <2>1. diagnosis' = [diagnosis EXCEPT !.hook = diagnosis.hook]
    BY <1>2, <1>8
  <2>2. c \in MainChecks /\ c # "crd"
    BY <1>4, <1>8
  <2> QED BY <1>1, <1>2, <1>3, <1>8, <2>1, <2>2, MainEnds
<1>9. CASE ReadApiService
  BY <1>8, <1>9 DEF ReadApiService
<1>10. CASE ProbeVersions
  BY <1>8, <1>10 DEF ProbeVersions
<1> QED BY <1>6, <1>7, <1>9, <1>10

LEMMA WebhookStarts ==
    ASSUME DiagnosisInv, StartCheck("webhook-service")
    PROVE  DiagnosisInv'
<1>1. /\ Open /\ diagnosis.pc = "webhook-service" /\ check["webhook-service"] = "none"
      /\ check' = [check EXCEPT !["webhook-service"] = "service"]
      /\ UNCHANGED <<diagnosis, findings>>
  BY DEF StartCheck, Awaited, Await
<1>2. /\ check' \in [Checks -> {"none", "review", "get", "probe", "service", "endpoints",
                               "slices", "done"}]
      /\ check'["webhook-service"] = "service"
      /\ \A d \in MainChecks : check'[d] = check[d]
      /\ "crd" \in MainChecks
  BY <1>1, OpenDiagnosis DEF DiagnosisTypes, MainChecks, Checks
<1>3. DiagnosisTypes'
  BY <1>1, <1>2, OpenDiagnosis DEF DiagnosisTypes
<1>4. \A d \in MainChecks : EachSaid(d)'
  BY <1>1, <1>2, NothingAdded, OpenDiagnosis DEF EachSaid
<1>5. WebhookSaid'
  BY <1>1, <1>2, NothingAdded, OpenDiagnosis DEF WebhookSaid
<1>6. WebhookKnown'
  BY <1>1, <1>2, NothingAdded, OpenDiagnosis DEF WebhookKnown, Webhook
<1> QED BY <1>1, <1>3, <1>4, <1>5, <1>6, NothingAdded, OpenDiagnosis DEF DiagnosisInv

LEMMA WebhookReads ==
    ASSUME DiagnosisInv, NEW part, NEW onward, ReadWebhook(part, onward),
           \/ part = "service" /\ onward = "endpoints"
           \/ part = "endpoints" /\ onward = "slices"
           \/ part = "slices" /\ onward = "done"
    PROVE  DiagnosisInv'
<1>1. PICK status \in {"unread", "read"} : findings' = Append(findings, Finding(part, status))
  BY DEF ReadWebhook
<1> DEFINE f == Finding(part, status)
<1>2. /\ Open /\ check["webhook-service"] = part
      /\ check' = [check EXCEPT !["webhook-service"] = onward]
      /\ UNCHANGED diagnosis
  BY DEF ReadWebhook
<1>3. /\ check' \in [Checks -> {"none", "review", "get", "probe", "service", "endpoints",
                               "slices", "done"}]
      /\ check'["webhook-service"] = onward
      /\ \A d \in MainChecks : check'[d] = check[d]
      /\ "crd" \in MainChecks
  BY <1>2, OpenDiagnosis DEF DiagnosisTypes, MainChecks, Checks
<1>4. f \in Findings /\ f.id = part /\ f.status # "timed-out"
  BY DEF Findings, FindingIds, FindingStatuses, Finding
<1>5. ~Has(part)
  BY <1>2, OpenDiagnosis DEF WebhookSaid
<1>6. \A d \in MainChecks : d # part
  BY DEF MainChecks
<1>7. f # Finding("crd", "webhook") /\ \A d : f # Expired(d)
  BY <1>4 DEF Expired, Finding
<1> HIDE DEF f
<1>8. findings \in Seq(Findings) /\ OnceEach
  BY <1>2, OpenDiagnosis DEF DiagnosisTypes
<1>9. /\ findings' \in Seq(Findings)
      /\ \A id : Has(id)' <=> Has(id) \/ id = part
      /\ \A d : TimedOut(d)' <=> TimedOut(d)
      /\ Webhook' <=> Webhook
  BY <1>1, <1>4, <1>7, <1>8, AddedIsSaid DEF f, Webhook
<1>10. OnceEach'
  BY <1>1, <1>4, <1>5, <1>8, AddedOnce DEF f
<1>11. DiagnosisTypes'
  BY <1>2, <1>3, <1>9, OpenDiagnosis DEF DiagnosisTypes
<1>12. \A d \in MainChecks : EachSaid(d)'
  BY <1>2, <1>3, <1>6, <1>9, OpenDiagnosis DEF EachSaid
<1>13. WebhookSaid'
  <2>1. diagnosis.hook = "service" /\ diagnosis.pc # "sent"
    BY <1>2, OpenDiagnosis DEF WebhookKnown
  <2>2. /\ Has("service")' <=> Has("service") \/ part = "service"
        /\ Has("endpoints")' <=> Has("endpoints") \/ part = "endpoints"
        /\ Has("slices")' <=> Has("slices") \/ part = "slices"
        /\ Has("webhook-service")' <=> Has("webhook-service")
    BY <1>9
  <2> QED BY <1>2, <1>3, <1>9, <2>1, <2>2, OpenDiagnosis DEF WebhookSaid
<1>14. WebhookKnown'
  BY <1>2, <1>3, <1>9, OpenDiagnosis DEF WebhookKnown
<1> QED BY <1>2, <1>10, <1>11, <1>12, <1>13, <1>14, OpenDiagnosis DEF DiagnosisInv

(* The check that is awaited is passed by.                                  *)
LEMMA Passes ==
    ASSUME NEW c \in Checks, NEW d \in Checks, NEW pc, pc = Following[c]
    PROVE  /\ pc \in Checks \cup {"conversion", "sent"}
           /\ pc \in After(d) <=> c \in After(d) \/ c = d
           /\ c \notin After(c)
           /\ pc = "sent" <=> c = "webhook-service"
           /\ pc # "webhook-service"
BY DEF Following, After, Checks

LEMMA Proceeds ==
    ASSUME DiagnosisInv, NEW c \in Checks, Proceed(c)
    PROVE  DiagnosisInv'
<1>1. PICK pc : pc = Following[c]
  OBVIOUS
<1>2. /\ Open /\ diagnosis.pc = c /\ check[c] = "done"
      /\ diagnosis' = [diagnosis EXCEPT !.pc = pc]
      /\ UNCHANGED <<check, findings>>
  BY <1>1 DEF Proceed, Awaited
<1>3. /\ diagnosis' \in Diagnoses /\ diagnosis' # None
      /\ diagnosis'.pc = pc /\ diagnosis'.hook = diagnosis.hook
  BY <1>1, <1>2, Passes, OpenDiagnosis, NoDiagnosis DEF Diagnoses
<1>4. MainChecks \subseteq Checks /\ "webhook-service" \notin MainChecks
  BY DEF MainChecks, Checks
<1>5. DiagnosisTypes'
  BY <1>2, <1>3, OpenDiagnosis DEF DiagnosisTypes
<1>6. ASSUME NEW d \in MainChecks
      PROVE  EachSaid(d)'
  BY <1>1, <1>2, <1>3, <1>4, Passes, NothingAdded, OpenDiagnosis DEF EachSaid
<1>7. WebhookSaid'
  <2>0. pc = "sent" <=> c = "webhook-service"
    BY <1>1, Passes
  <2>1. pc = "sent" => diagnosis.hook = "service"
    BY <1>2, <2>0, OpenDiagnosis DEF WebhookKnown
  <2> QED BY <1>2, <1>3, <2>0, <2>1, NothingAdded, OpenDiagnosis DEF WebhookSaid
<1>8. WebhookKnown'
  <2>0. pc = "sent" <=> c = "webhook-service"
    BY <1>1, Passes
  <2>1. check["webhook-service"] # "none" => pc = "sent"
    BY <1>2, <2>0, OpenDiagnosis DEF WebhookKnown
  <2> QED BY <1>1, <1>2, <1>3, <2>1, Passes, NothingAdded, OpenDiagnosis DEF WebhookKnown, Webhook
<1> QED BY <1>2, <1>3, <1>5, <1>6, <1>7, <1>8, NothingAdded, OpenDiagnosis DEF DiagnosisInv

LEMMA Expires ==
    ASSUME DiagnosisInv, NEW c \in Checks, Expire(c)
    PROVE  DiagnosisInv'
<1> DEFINE f == Expired(c)
<1>1. PICK pc : pc = Following[c]
  OBVIOUS
<1>2. /\ Open /\ diagnosis.pc = c /\ check[c] # "none" /\ check[c] # "done"
      /\ diagnosis' = [diagnosis EXCEPT !.pc = pc]
      /\ findings' = Append(findings, f)
      /\ UNCHANGED check
  BY <1>1 DEF Expire, Awaited
<1>3. /\ diagnosis' \in Diagnoses /\ diagnosis' # None
      /\ diagnosis'.pc = pc /\ diagnosis'.hook = diagnosis.hook
  BY <1>1, <1>2, Passes, OpenDiagnosis, NoDiagnosis DEF Diagnoses
<1>4. MainChecks \subseteq Checks /\ "webhook-service" \notin MainChecks
      /\ Checks = MainChecks \cup {"webhook-service"}
  BY DEF MainChecks, Checks
<1>5. f \in Findings /\ f.id = c /\ f.status = "timed-out"
  BY <1>4 DEF Findings, FindingIds, FindingStatuses, Expired, Finding
<1>6. ~TimedOut(c)
  <2>1. CASE c \in MainChecks
    BY <1>2, <2>1, Passes, OpenDiagnosis DEF EachSaid
  <2>2. CASE c = "webhook-service"
    BY <1>2, <2>2, OpenDiagnosis DEF WebhookSaid
  <2> QED BY <1>4, <2>1, <2>2
<1>7. f # Finding("crd", "webhook") /\ \A d : f = Expired(d) <=> d = c
  BY FindingsDiffer DEF Expired
<1> HIDE DEF f
<1>8. findings \in Seq(Findings) /\ OnceEach
  BY <1>2, OpenDiagnosis DEF DiagnosisTypes
<1>9. /\ findings' \in Seq(Findings)
      /\ \A id : Has(id)' <=> Has(id)
      /\ \A d : TimedOut(d)' <=> TimedOut(d) \/ d = c
      /\ Webhook' <=> Webhook
  BY <1>2, <1>5, <1>7, <1>8, AddedIsSaid DEF Webhook
<1>10. OnceEach'
  BY <1>2, <1>5, <1>6, <1>8, AddedOnce
<1>11. DiagnosisTypes'
  BY <1>2, <1>3, <1>9, OpenDiagnosis DEF DiagnosisTypes
<1>12. ASSUME NEW d \in MainChecks
       PROVE  EachSaid(d)'
  BY <1>1, <1>2, <1>3, <1>4, <1>9, Passes, OpenDiagnosis DEF EachSaid
<1>13. c = "webhook-service" => diagnosis.hook = "service"
  BY <1>2, OpenDiagnosis DEF WebhookKnown
<1>14. pc = "sent" <=> c = "webhook-service"
  BY <1>1, Passes
<1>15. WebhookSaid'
  BY <1>2, <1>3, <1>9, <1>13, <1>14, OpenDiagnosis DEF WebhookSaid
<1>16. WebhookKnown'
  <2>1. check["webhook-service"] # "none" => pc = "sent"
    BY <1>2, <1>14, OpenDiagnosis DEF WebhookKnown
  <2>2. pc # "webhook-service"
    BY <1>1, Passes
  <2> QED BY <1>2, <1>3, <1>9, <1>13, <2>1, <2>2, OpenDiagnosis DEF WebhookKnown
<1> QED BY <1>3, <1>10, <1>11, <1>12, <1>15, <1>16 DEF DiagnosisInv

LEMMA WebhookDecided ==
    ASSUME DiagnosisInv, DecideOnWebhook
    PROVE  DiagnosisInv'
<1> DEFINE f == Finding("service", "read")
<1>1. /\ Open /\ diagnosis.pc = "conversion" /\ UNCHANGED check
      /\ diagnosis \in Diagnoses
  BY OpenDiagnosis DEF DecideOnWebhook, Awaited
<1>2. /\ diagnosis' \in Diagnoses /\ diagnosis' # None
      /\ diagnosis'.pc = (IF diagnosis.hook = "service" THEN "webhook-service" ELSE "sent")
      /\ diagnosis'.hook = diagnosis.hook
  BY <1>1, NoDiagnosis DEF DecideOnWebhook, Diagnoses, Checks
<1>3. check["webhook-service"] = "none" /\ ~TimedOut("webhook-service") /\ ~Has("service")
  BY <1>1, OpenDiagnosis DEF WebhookKnown, WebhookSaid
<1>4. \A d \in MainChecks : "conversion" \in After(d) /\ "sent" \in After(d)
                            /\ "webhook-service" \in After(d)
  BY DEF MainChecks, After
<1>5. findings \in Seq(Findings) /\ OnceEach
  BY <1>1, OpenDiagnosis DEF DiagnosisTypes
<1>6. /\ findings' \in Seq(Findings)
      /\ \A id : Has(id)' <=> Has(id) \/ (id = "service" /\ diagnosis.hook = "nowhere")
      /\ \A d : TimedOut(d)' <=> TimedOut(d)
      /\ Webhook' <=> Webhook
      /\ OnceEach'
  <2>1. CASE diagnosis.hook = "nowhere"
    <3>1. findings' = Append(findings, f)
      BY <2>1 DEF DecideOnWebhook
    <3>2. f \in Findings /\ f.id = "service" /\ f.status # "timed-out"
      BY DEF Findings, FindingIds, FindingStatuses, Finding
    <3>3. f # Finding("crd", "webhook") /\ \A d : f # Expired(d)
      BY <3>2 DEF Expired, Finding
    <3> HIDE DEF f
    <3>4. OnceEach'
      BY <1>3, <1>5, <3>1, <3>2, AddedOnce
    <3> QED BY <1>5, <2>1, <3>1, <3>2, <3>3, <3>4, AddedIsSaid DEF Webhook
  <2>2. CASE diagnosis.hook # "nowhere"
    <3>1. UNCHANGED findings
      BY <2>2 DEF DecideOnWebhook
    <3> QED BY <1>5, <2>2, <3>1, NothingAdded DEF Webhook
  <2> QED BY <2>1, <2>2
<1>7. DiagnosisTypes'
  BY <1>1, <1>2, <1>6, OpenDiagnosis DEF DiagnosisTypes
<1>8. ASSUME NEW d \in MainChecks
      PROVE  EachSaid(d)'
  <2>1. d # "service"
    BY DEF MainChecks
  <2> QED BY <1>1, <1>2, <1>4, <1>6, <2>1, OpenDiagnosis DEF EachSaid
<1>9. WebhookSaid'
  <2>1. /\ Has("service")' <=> diagnosis.hook = "nowhere"
        /\ Has("endpoints")' <=> Has("endpoints")
        /\ Has("slices")' <=> Has("slices")
        /\ Has("webhook-service")' <=> Has("webhook-service")
    BY <1>3, <1>6
  <2> QED BY <1>1, <1>2, <1>3, <1>6, <2>1, OpenDiagnosis DEF WebhookSaid
<1>10. WebhookKnown'
  BY <1>1, <1>2, <1>3, <1>6, OpenDiagnosis DEF WebhookKnown
<1> QED BY <1>2, <1>6, <1>7, <1>8, <1>9, <1>10 DEF DiagnosisInv

LEMMA DiagnosisInvInit == DiagnosisInit => DiagnosisInv
<1> SUFFICES ASSUME DiagnosisInit
             PROVE  DiagnosisInv
  OBVIOUS
<1> QED BY DEF DiagnosisInit, DiagnosisInv, DiagnosisTypes, OnceEach, Checks

LEMMA DiagnosisInvStep == DiagnosisInv /\ [DiagnosisNext]_diagnosisVars => DiagnosisInv'
<1> SUFFICES ASSUME DiagnosisInv, [DiagnosisNext]_diagnosisVars
             PROVE  DiagnosisInv'
  OBVIOUS
<1>1. CASE \E found \in Discoveries, r \in Catalog : BeginDiagnosis(found, r)
  BY <1>1, DiagnosisBegins
<1>2. CASE \E c \in Checks : StartCheck(c) \/ Proceed(c) \/ Expire(c)
  <2>1. Checks = MainChecks \cup {"webhook-service"}
    BY DEF Checks, MainChecks
  <2> QED BY <1>2, <2>1, MainStarts, WebhookStarts, Proceeds, Expires
<1>3. CASE ReviewCrd \/ ReadCrd \/ ReadApiService \/ ProbeVersions
  BY <1>3, MainReads
<1>4. CASE ReadService \/ ReadEndpoints \/ ReadSlices
  BY <1>4, WebhookReads DEF ReadService, ReadEndpoints, ReadSlices
<1>5. CASE DecideOnWebhook
  BY <1>5, WebhookDecided
<1>6. CASE UNCHANGED diagnosisVars
  <2>1. UNCHANGED <<diagnosis, check, findings>>
    BY <1>6 DEF diagnosisVars
  <2>2. UNCHANGED findings
    BY <2>1
  <2> QED BY <2>1, <2>2 DEF DiagnosisInv, DiagnosisTypes, OnceEach, EachSaid, WebhookSaid,
             WebhookKnown, Webhook, Has, TimedOut, Said
<1> QED BY <1>1, <1>2, <1>3, <1>4, <1>5, <1>6 DEF DiagnosisNext, DiagnosisStep

\* Only the timer of a check says that time was up.
TimersOfChecks ==
    \A i \in DOMAIN findings : findings[i].status = "timed-out" => findings[i].id \in Checks

LEMMA TimersStep ==
    DiagnosisInv /\ TimersOfChecks /\ [DiagnosisNext]_diagnosisVars => TimersOfChecks'
<1> SUFFICES ASSUME DiagnosisInv, TimersOfChecks, [DiagnosisNext]_diagnosisVars
             PROVE  TimersOfChecks'
  OBVIOUS
<1> DEFINE Timely(f) == f.status = "timed-out" => f.id \in Checks
<1>1. ASSUME NEW f, Timely(f), findings' = Append(findings, f)
      PROVE  TimersOfChecks'
  <2>1. findings \in Seq(Findings)
    BY DEF DiagnosisInv, DiagnosisTypes
  <2>2. \A i \in DOMAIN findings' :
           findings'[i] = f \/ (i \in DOMAIN findings /\ findings'[i] = findings[i])
    BY <1>1, <2>1
  <2> QED BY <1>1, <2>2 DEF TimersOfChecks
<1>2. CASE UNCHANGED findings
  BY <1>2 DEF TimersOfChecks
<1>3. ASSUME NEW found \in Discoveries, NEW r \in Catalog, BeginDiagnosis(found, r)
      PROVE  TimersOfChecks'
  <2>1. PICK e \in Coverages(r) : findings' = <<Finding("coverage-gap", Gap(e))>>
    BY <1>3 DEF BeginDiagnosis
  <2>2. Gap(e) # "timed-out"
    BY DEF Gap
  <2>3. DOMAIN findings' = {1} /\ findings'[1].status # "timed-out"
    BY <2>1, <2>2 DEF Finding
  <2> QED BY <2>3 DEF TimersOfChecks
<1>4. ASSUME NEW c \in Checks, StartCheck(c) PROVE TimersOfChecks'
  <2>1. UNCHANGED findings \/ findings' = Append(findings, Finding(c, "skipped"))
    BY <1>4 DEF StartCheck, EndsWith, Await, Checks
  <2> QED BY <1>1, <1>2, <2>1 DEF Finding
<1>5. ASSUME NEW c \in Checks, Expire(c) PROVE TimersOfChecks'
  BY <1>1, <1>5 DEF Expire, Expired, Finding
<1>6. CASE ReviewCrd \/ ReadCrd \/ ReadApiService \/ ProbeVersions
  <2>1. \/ UNCHANGED findings
        \/ \E c \in Checks, status \in {"unread", "read", "webhook"} :
              findings' = Append(findings, Finding(c, status))
    BY <1>6 DEF ReviewCrd, ReadCrd, ReadApiService, ProbeVersions, EndsWith, Await, Checks
  <2> QED BY <1>1, <1>2, <2>1 DEF Finding
<1>7. CASE ReadService \/ ReadEndpoints \/ ReadSlices \/ DecideOnWebhook
  <2>1. \/ UNCHANGED findings
        \/ \E id \in FindingIds, status \in {"unread", "read"} :
              findings' = Append(findings, Finding(id, status))
    BY <1>7 DEF ReadService, ReadEndpoints, ReadSlices, ReadWebhook, DecideOnWebhook, FindingIds
  <2> QED BY <1>1, <1>2, <2>1 DEF Finding
<1>8. CASE UNCHANGED diagnosisVars
  BY <1>2, <1>8 DEF diagnosisVars
<1>9. ASSUME NEW c \in Checks, Proceed(c) PROVE TimersOfChecks'
  BY <1>2, <1>9 DEF Proceed
<1> QED BY <1>3, <1>4, <1>5, <1>6, <1>7, <1>8, <1>9 DEF DiagnosisNext, DiagnosisStep

\* What a finding says: that the time of one of four checks was up, or one of
\* the other seven things.
Topic(f) ==
    IF f.status = "timed-out"
    THEN IF f.id = "crd" THEN 1 ELSE IF f.id = "api-service" THEN 2
         ELSE IF f.id = "alternate-versions" THEN 3 ELSE 4
    ELSE IF f.id = "crd" THEN 5 ELSE IF f.id = "api-service" THEN 6
         ELSE IF f.id = "alternate-versions" THEN 7 ELSE IF f.id = "webhook-service" THEN 8
         ELSE IF f.id = "coverage-gap" THEN 9 ELSE IF f.id = "service" THEN 10
         ELSE IF f.id = "endpoints" THEN 11 ELSE 12

LEMMA UpTo == \A n \in Nat : /\ n > 0 => IsFiniteSet(1..n) /\ Cardinality(1..n) = n
                             /\ n <= 12 => n \in 0..12
BY FS_Interval

\* No topic has two findings, so there are no more findings than topics.
LEMMA TwelveFindings == ASSUME DiagnosisInv, TimersOfChecks PROVE Len(findings) \in 0..12
<1>1. findings \in Seq(Findings) /\ OnceEach
  BY DEF DiagnosisInv, DiagnosisTypes
<1>2. Len(findings) \in Nat /\ DOMAIN findings = 1..Len(findings)
  BY <1>1
<1>3. \A i \in DOMAIN findings : findings[i].id \in FindingIds
  <2>1. \A i \in 1..Len(findings) : findings[i] \in Findings
    BY <1>1
  <2> QED BY <1>2, <2>1 DEF Findings
<1> DEFINE topic == [i \in 1..Len(findings) |-> Topic(findings[i])]
<1>4. topic \in [1..Len(findings) -> 1..12]
  BY DEF Topic
<1>5. ASSUME NEW i \in DOMAIN findings, NEW j \in DOMAIN findings,
             Topic(findings[i]) = Topic(findings[j])
      PROVE  i = j
  <2>1. (findings[i].status = "timed-out") <=> (findings[j].status = "timed-out")
    BY <1>5 DEF Topic
  <2>2. findings[i].id = findings[j].id
    <3>1. CASE findings[i].status = "timed-out"
      <4>1. findings[i].id \in Checks /\ findings[j].id \in Checks
        BY <2>1, <3>1 DEF TimersOfChecks
      <4> QED BY <1>5, <2>1, <3>1, <4>1 DEF Topic, Checks
    <3>2. CASE findings[i].status # "timed-out"
      BY <1>3, <1>5, <2>1, <3>2 DEF Topic, FindingIds, Checks
    <3> QED BY <3>1, <3>2
  <2> QED BY <1>1, <2>1, <2>2 DEF OnceEach
<1>6. CASE Len(findings) > 12
  <2>1. IsFiniteSet(1..12) /\ Cardinality(1..12) = 12
    <3>1. 12 \in Nat /\ 12 > 0
      OBVIOUS
    <3> QED BY <3>1, UpTo, Zenon
  <2>2. IsFiniteSet(1..Len(findings)) /\ Cardinality(1..Len(findings)) = Len(findings)
    BY <1>2, <1>6, UpTo
  <2>3. PICK i, j \in 1..Len(findings) : i # j /\ topic[i] = topic[j]
    <3> HIDE DEF topic
    <3> QED BY <1>2, <1>4, <1>6, <2>1, <2>2, FS_PigeonHole
  <2> QED BY <1>2, <1>5, <2>3
<1>7. CASE ~(Len(findings) > 12)
  <2>1. Len(findings) <= 12
    BY <1>2, <1>7
  <2> QED BY <1>2, <2>1, UpTo, Zenon
<1> QED BY <1>6, <1>7

LEMMA DiagnosisInvHolds == DiagnosisSpec => [](DiagnosisInv /\ TimersOfChecks)
<1>1. DiagnosisInit => DiagnosisInv /\ TimersOfChecks
  BY DiagnosisInvInit DEF DiagnosisInit, TimersOfChecks
<1>2. DiagnosisInv /\ TimersOfChecks /\ [DiagnosisNext]_diagnosisVars
        => (DiagnosisInv /\ TimersOfChecks)'
  BY DiagnosisInvStep, TimersStep
<1> QED BY <1>1, <1>2, PTL DEF DiagnosisSpec

(* The request, its checks and the findings keep their types; no more than  *)
(* twelve findings are ever made, however late the checks that ran out of   *)
(* time add theirs.                                                         *)
THEOREM DiagnosisTypesCorrect == DiagnosisSpec => []DiagnosisTypeOK
<1>1. DiagnosisInv /\ TimersOfChecks => DiagnosisTypeOK
  BY TwelveFindings DEF DiagnosisInv, DiagnosisTypes, DiagnosisTypeOK
<1> QED BY <1>1, DiagnosisInvHolds, PTL

(* For every resource of every discovery, and whichever checks lose their    *)
(* races: an answer that was sent accounts for every check, says nothing     *)
(* twice, and shows the state of a webhook exactly when it tells of one      *)
(* (getResourceDiagnostics).                                                 *)
THEOREM DiagnosesAreComplete == DiagnosisSpec => []DiagnosisAccountsForAll
<1>1. DiagnosisInv => DiagnosisAccountsForAll
  <2> SUFFICES ASSUME DiagnosisInv, diagnosis # None, diagnosis.pc = "sent"
               PROVE  DiagnosisAccountsForAll
    BY DEF DiagnosisAccountsForAll
  <2>1. /\ DiagnosisTypes /\ OnceEach /\ WebhookSaid /\ WebhookKnown
        /\ \A c \in MainChecks : EachSaid(c)
    BY DEF DiagnosisInv
  <2>2. \A i, j \in DOMAIN findings :
           i # j => <<findings[i].id, findings[i].status = "timed-out">>
                      # <<findings[j].id, findings[j].status = "timed-out">>
    BY <2>1 DEF OnceEach
  <2>3. \A c \in Checks \ {"webhook-service"} : Has(c) \/ TimedOut(c)
    <3>1. \A c \in MainChecks : "sent" \in After(c)
      BY DEF MainChecks, After
    <3>2. Checks \ {"webhook-service"} = MainChecks
      BY DEF Checks, MainChecks
    <3> QED BY <2>1, <3>1, <3>2 DEF EachSaid
  <2>4. Webhook <=> Finding("crd", "webhook") \in {findings[i] : i \in DOMAIN findings}
    BY DEF Webhook, Said
  <2>5. /\ Webhook => Has("service") \/ TimedOut("webhook-service")
        /\ Has("service") \/ TimedOut("webhook-service") => Webhook
        /\ diagnosis.hook = "service" /\ ~TimedOut("webhook-service")
             => Has("endpoints") /\ Has("slices")
    BY <2>1 DEF WebhookSaid, WebhookKnown
  <2> QED BY <2>2, <2>3, <2>4, <2>5 DEF DiagnosisAccountsForAll
<1> QED BY <1>1, DiagnosisInvInit, DiagnosisInvStep, PTL DEF DiagnosisSpec
=============================================================================
