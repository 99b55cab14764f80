--------------------------- MODULE OcpFailoverProofs ---------------------------
(***************************************************************************)
(* Proofs about OcpFailover, for every set of URLs, tokens and paths, every *)
(* configuration and every pattern of outages.                              *)
(***************************************************************************)
EXTENDS OcpFailover, TLAPS

Trying == [pc : {"trying"}, conf : Config, path : Paths, steady : Pairs,
           bases : Seq(Bases), b : Nat, tokens : Seq(Tokens), t : Nat]

Failed == [pc : {"failed"}, conf : Config, steady : Pairs]

\* The candidates of a request hold what its configuration holds.
Covers(c) ==
    /\ \A i \in DOMAIN c.conf.urls :
          \E k \in DOMAIN c.bases : c.bases[k] = Normalize[c.conf.urls[i]]
    /\ \A i \in DOMAIN c.conf.tokens :
          \E k \in DOMAIN c.tokens : c.tokens[k] = c.conf.tokens[i]

\* What was tried before the place the request is at did not serve it steadily.
SearchedBases(c) ==
    \A i \in 1..(c.b - 1), j \in DOMAIN c.conf.tokens :
        <<c.bases[i], c.conf.tokens[j]>> \notin c.steady

SearchedTokens(c) ==
    \A j \in 1..(c.t - 1) : <<c.bases[c.b], c.tokens[j]>> \notin c.steady

Searching(c) ==
    /\ c \in Trying
    /\ c.b \in DOMAIN c.bases /\ c.t \in DOMAIN c.tokens
    /\ Covers(c)
    /\ SearchedBases(c)
    /\ SearchedTokens(c)

Exhausted(c) ==
    \A i \in DOMAIN c.conf.urls, j \in DOMAIN c.conf.tokens :
        <<Normalize[c.conf.urls[i]], c.conf.tokens[j]>> \notin c.steady

\* What a slot is doing is sound for what the cluster serves and the token
\* that is remembered.
Sound(c, who, token) ==
    /\ c \in Calls
    /\ c.pc = "trying" =>
          /\ Searching(c)
          /\ c.steady \subseteq ServedPairs(who, c.path)
          /\ c.conf.tokens # <<>> \/ token # None
    /\ c.pc = "failed" => Exhausted(c)

SearchInv == \A s \in Slots : Sound(call[s], serves, activeToken)

IInv == TypeOK /\ SearchInv /\ ActivePairWorked
-----------------------------------------------------------------------------
(* The active value goes in front of the list and nothing of the list is lost. *)
LEMMA RememberedHolds ==
    \A S : \A seq \in Seq(S), active \in S \cup {None} :
        /\ Remembered(active, seq) \in Seq(S)
        /\ \A i \in DOMAIN seq :
              \E k \in DOMAIN Remembered(active, seq) : Remembered(active, seq)[k] = seq[i]
<1> TAKE S
<1> TAKE seq \in Seq(S), active \in S \cup {None}
<1>1. CASE active = None
  BY <1>1 DEF Remembered
<1>2. CASE active # None
  <2> DEFINE r == <<active>> \o seq
  <2>1. Remembered(active, seq) = r
    BY <1>2 DEF Remembered
  <2>2. active \in S
    BY <1>2
  <2>3. r \in Seq(S)
    BY <2>2
  <2>4. ASSUME NEW i \in DOMAIN seq PROVE i + 1 \in DOMAIN r /\ r[i + 1] = seq[i]
    BY <2>4, <2>2
  <2> HIDE DEF r
  <2>5. \A i \in DOMAIN seq : \E k \in DOMAIN r : r[k] = seq[i]
    BY <2>4
  <2> QED BY <2>1, <2>3, <2>5
<1> QED BY <1>1, <1>2

(* Candidates are sequences, and hold what the configuration holds. *)
LEMMA CandidatesHold ==
    ASSUME activeBase \in Bases \cup {None}, activeToken \in Tokens \cup {None},
           NEW conf \in Config
    PROVE  /\ CandidateBases(conf) \in Seq(Bases)
           /\ CandidateTokens(conf) \in Seq(Tokens)
           /\ \A i \in DOMAIN conf.urls : \E k \in DOMAIN CandidateBases(conf) :
                 CandidateBases(conf)[k] = Normalize[conf.urls[i]]
           /\ \A i \in DOMAIN conf.tokens : \E k \in DOMAIN CandidateTokens(conf) :
                 CandidateTokens(conf)[k] = conf.tokens[i]
<1> DEFINE all == [i \in DOMAIN conf.urls |-> Normalize[conf.urls[i]]]
<1>1. conf.urls \in Seq(Urls) /\ conf.tokens \in Seq(Tokens)
  BY DEF Config
<1>2. all \in Seq(Bases)
  <2>1. DOMAIN conf.urls = 1..Len(conf.urls) /\ Len(conf.urls) \in Nat
    BY <1>1
  <2>2. \A i \in DOMAIN conf.urls : Normalize[conf.urls[i]] \in Bases
    BY <1>1, NormalizeType
  <2>3. all \in [1..Len(conf.urls) -> Bases]
    BY <2>1, <2>2
  <2> HIDE DEF all
  <2> QED BY <2>1, <2>3
<1>3. \A i \in DOMAIN conf.urls : i \in DOMAIN all /\ all[i] = Normalize[conf.urls[i]]
  OBVIOUS
<1>4. CandidateBases(conf) = Remembered(activeBase, all)
  BY Zenon DEF CandidateBases
<1> HIDE DEF all
<1>5. /\ Remembered(activeBase, all) \in Seq(Bases)
      /\ \A i \in DOMAIN all : \E k \in DOMAIN Remembered(activeBase, all) :
            Remembered(activeBase, all)[k] = all[i]
  BY <1>2, RememberedHolds
<1>6. /\ Remembered(activeToken, conf.tokens) \in Seq(Tokens)
      /\ \A i \in DOMAIN conf.tokens : \E k \in DOMAIN Remembered(activeToken, conf.tokens) :
            Remembered(activeToken, conf.tokens)[k] = conf.tokens[i]
  <2> DEFINE toks == conf.tokens
  <2>1. toks \in Seq(Tokens)
    BY <1>1
  <2> HIDE DEF toks
  <2>2. /\ Remembered(activeToken, toks) \in Seq(Tokens)
        /\ \A i \in DOMAIN toks : \E k \in DOMAIN Remembered(activeToken, toks) :
              Remembered(activeToken, toks)[k] = toks[i]
    BY <2>1, RememberedHolds
  <2> QED BY <2>2 DEF toks
<1>7. CandidateTokens(conf) = Remembered(activeToken, conf.tokens)
  BY DEF CandidateTokens
<1> QED BY <1>3, <1>4, <1>5, <1>6, <1>7

(* With a token configured or remembered, there is a candidate. *)
LEMMA CandidatesNotEmpty ==
    ASSUME activeToken \in Tokens \cup {None}, NEW conf \in Config,
           conf.tokens # <<>> \/ activeToken # None
    PROVE  CandidateTokens(conf) # <<>>
<1>1. conf.tokens \in Seq(Tokens)
  BY DEF Config
<1>2. CASE activeToken = None
  BY <1>2 DEF CandidateTokens, Remembered
<1>3. CASE activeToken # None
  <2>1. CandidateTokens(conf) = <<activeToken>> \o conf.tokens
    BY <1>3 DEF CandidateTokens, Remembered
  <2>2. Len(<<activeToken>> \o conf.tokens) = 1 + Len(conf.tokens)
    BY <1>1, <1>3
  <2> QED BY <1>1, <2>1, <2>2
<1> QED BY <1>2, <1>3

(* An error at a pair that did not serve steadily leaves the search as it   *)
(* should be: at a later pair, or exhausted.                                *)
LEMMA GiveUpKeepsSearch ==
    ASSUME activeBase \in Bases \cup {None}, activeToken \in Tokens \cup {None},
           NEW c, Searching(c), <<Base(c), Token(c)>> \notin c.steady,
           NEW d \in GiveUp(c), c.conf.tokens # <<>> \/ activeToken # None
    PROVE  \/ Searching(d) /\ d.conf = c.conf /\ d.steady = c.steady /\ d.path = c.path
           \/ d \in Failed /\ Exhausted(d)
<1>1. /\ c \in Trying /\ c.b \in DOMAIN c.bases /\ c.t \in DOMAIN c.tokens
      /\ c.bases \in Seq(Bases) /\ c.tokens \in Seq(Tokens) /\ c.conf \in Config
      /\ c.b \in Nat /\ c.t \in Nat
  BY DEF Searching, Trying
<1>2. Covers(c) /\ SearchedBases(c) /\ SearchedTokens(c)
  BY DEF Searching
<1>3. <<c.bases[c.b], c.tokens[c.t]>> \notin c.steady
  BY DEF Base, Token
<1>4. ASSUME NEW j \in 1..c.t PROVE <<c.bases[c.b], c.tokens[j]>> \notin c.steady
  <2>1. j = c.t \/ j \in 1..(c.t - 1)
    BY <1>1
  <2> QED BY <1>2, <1>3, <2>1 DEF SearchedTokens
<1>5. CASE Unseen(c.tokens, c.t) # {}
  <2>1. PICK j \in DOMAIN c.tokens : IsNext(c.tokens, c.t, j) /\ d = [c EXCEPT !.t = j]
    BY <1>5 DEF GiveUp
  <2>2. /\ d \in Trying /\ d.t = j /\ d.b = c.b /\ d.bases = c.bases /\ d.tokens = c.tokens
        /\ d.steady = c.steady /\ d.path = c.path /\ d.conf = c.conf
    <3>1. j \in Nat /\ d = [c EXCEPT !.t = j]
      BY <1>1, <2>1
    <3> QED BY <1>1, <3>1 DEF Trying
  <2>3. ASSUME NEW i \in 1..(j - 1) PROVE <<c.bases[c.b], c.tokens[i]>> \notin c.steady
    <3>1. i \in DOMAIN c.tokens /\ i < j
      BY <1>1, <2>3
    <3>2. i \notin Unseen(c.tokens, c.t)
      BY <1>1, <2>1, <3>1 DEF IsNext, Unseen
    <3>3. PICK k \in 1..c.t : c.tokens[k] = c.tokens[i]
      BY <3>1, <3>2 DEF Unseen
    <3> QED BY <1>4, <3>3
  <2>4. Covers(d) /\ SearchedBases(d) /\ SearchedTokens(d)
    BY <1>2, <2>2, <2>3 DEF Covers, SearchedBases, SearchedTokens
  <2> QED BY <1>1, <2>2, <2>4 DEF Searching
<1>6. CASE Unseen(c.tokens, c.t) = {}
  <2>1. ASSUME NEW j \in DOMAIN c.conf.tokens
        PROVE <<c.bases[c.b], c.conf.tokens[j]>> \notin c.steady
    <3>1. PICK k \in DOMAIN c.tokens : c.tokens[k] = c.conf.tokens[j]
      BY <1>2 DEF Covers
    <3>2. PICK m \in 1..c.t : c.tokens[m] = c.tokens[k]
      BY <1>6 DEF Unseen
    <3> QED BY <1>4, <3>1, <3>2
  <2>2. ASSUME NEW i \in 1..c.b, NEW j \in DOMAIN c.conf.tokens
        PROVE <<c.bases[i], c.conf.tokens[j]>> \notin c.steady
    <3>1. i = c.b \/ i \in 1..(c.b - 1)
      BY <1>1
    <3> QED BY <1>2, <2>1, <3>1 DEF SearchedBases
  <2>3. CASE Unseen(c.bases, c.b) # {}
    <3>1. PICK j \in DOMAIN c.bases :
             /\ IsNext(c.bases, c.b, j)
             /\ d = [c EXCEPT !.b = j, !.tokens = CandidateTokens(c.conf), !.t = 1]
      BY <1>6, <2>3 DEF GiveUp
    <3> DEFINE tk == CandidateTokens(c.conf)
    <3>2. /\ tk \in Seq(Tokens) /\ 1 \in DOMAIN tk
          /\ \A i \in DOMAIN c.conf.tokens : \E k \in DOMAIN tk : tk[k] = c.conf.tokens[i]
      <4>1. tk \in Seq(Tokens)
        BY <1>1, CandidatesHold
      <4>2. \A i \in DOMAIN c.conf.tokens : \E k \in DOMAIN tk : tk[k] = c.conf.tokens[i]
        BY <1>1, CandidatesHold
      <4>3. tk # <<>>
        BY <1>1, CandidatesNotEmpty
      <4>4. 1 \in DOMAIN tk
        <5> HIDE DEF tk
        <5> QED BY <4>1, <4>3
      <4> QED BY <4>1, <4>2, <4>4
    <3> HIDE DEF tk
    <3>3. /\ d \in Trying /\ d.t = 1 /\ d.b = j /\ d.bases = c.bases /\ d.tokens = tk
          /\ d.steady = c.steady /\ d.path = c.path /\ d.conf = c.conf
      <4>1. d = [c EXCEPT !.b = j, !.tokens = tk, !.t = 1]
        BY <3>1 DEF tk
      <4>2. j \in Nat
        BY <1>1, <3>1
      <4> QED BY <1>1, <3>2, <4>1, <4>2 DEF Trying
    <3>4. ASSUME NEW i \in 1..(j - 1), NEW k \in DOMAIN c.conf.tokens
          PROVE <<c.bases[i], c.conf.tokens[k]>> \notin c.steady
      <4>1. i \in DOMAIN c.bases /\ i < j
        BY <1>1, <3>4
      <4>2. i \notin Unseen(c.bases, c.b)
        BY <1>1, <3>1, <4>1 DEF IsNext, Unseen
      <4>3. PICK m \in 1..c.b : c.bases[m] = c.bases[i]
        BY <4>1, <4>2 DEF Unseen
      <4> QED BY <2>2, <4>3
    <3>5. Covers(d)
      BY <1>2, <3>2, <3>3 DEF Covers
    <3>6. SearchedBases(d) /\ SearchedTokens(d)
      <4>1. SearchedBases(d)
        BY <3>3, <3>4 DEF SearchedBases
      <4>2. 1..(d.t - 1) = {}
        BY <3>3
      <4> QED BY <4>1, <4>2 DEF SearchedTokens
    <3>7. d.b \in DOMAIN d.bases /\ d.t \in DOMAIN d.tokens
      BY <3>1, <3>2, <3>3
    <3> QED BY <3>3, <3>5, <3>6, <3>7 DEF Searching
  <2>4. CASE Unseen(c.bases, c.b) = {}
    <3>1. d = [pc |-> "failed", conf |-> c.conf, steady |-> c.steady]
      BY <1>6, <2>4 DEF GiveUp
    <3>2. d \in Failed
      BY <1>1, <3>1 DEF Failed, Trying
    <3>3. ASSUME NEW i \in DOMAIN c.conf.urls, NEW j \in DOMAIN c.conf.tokens
          PROVE <<Normalize[c.conf.urls[i]], c.conf.tokens[j]>> \notin c.steady
      <4>1. PICK k \in DOMAIN c.bases : c.bases[k] = Normalize[c.conf.urls[i]]
        BY <1>2 DEF Covers
      <4>2. PICK m \in 1..c.b : c.bases[m] = c.bases[k]
        BY <2>4 DEF Unseen
      <4> QED BY <2>2, <4>1, <4>2
    <3> QED BY <3>1, <3>2, <3>3 DEF Exhausted
  <2> QED BY <2>3, <2>4
<1> QED BY <1>5, <1>6
-----------------------------------------------------------------------------
(* A step of one function leaves the others sound: nobody forgets a token    *)
(* without remembering another.                                             *)
LEMMA OneSlot ==
    ASSUME TypeOK, SearchInv, NEW s \in Slots, NEW d, call' = [call EXCEPT ![s] = d],
           serves' = serves, activeToken' = activeToken \/ activeToken' # None,
           Sound(d, serves', activeToken')
    PROVE  call' \in [Slots -> Calls] /\ SearchInv'
<1>1. call \in [Slots -> Calls]
  BY DEF TypeOK
<1>2. d \in Calls
  BY DEF Sound
<1>3. call' \in [Slots -> Calls] /\ call'[s] = d
  BY <1>1, <1>2
<1>4. ASSUME NEW r \in Slots PROVE Sound(call'[r], serves', activeToken')
  <2>1. CASE r = s
    BY <1>3, <2>1
  <2>2. CASE r # s
    <3>1. call'[r] = call[r]
      BY <1>1, <2>2
    <3>2. Sound(call[r], serves, activeToken)
      BY DEF SearchInv
    <3>3. ASSUME activeToken # None PROVE activeToken' # None
      BY <3>3
    <3> QED BY <3>1, <3>2, <3>3 DEF Sound
  <2> QED BY <2>1, <2>2
<1> QED BY <1>3, <1>4 DEF SearchInv

(* A request in flight is a search. *)
LEMMA TryingIsSearching ==
    ASSUME TypeOK, SearchInv, NEW s \in Slots, call[s].pc = "trying"
    PROVE  /\ Searching(call[s])
           /\ call[s].steady \subseteq ServedPairs(serves, call[s].path)
           /\ call[s].conf.tokens # <<>> \/ activeToken # None
           /\ call[s] \in Trying
           /\ Base(call[s]) \in Bases /\ Token(call[s]) \in Tokens
<1>1. Sound(call[s], serves, activeToken)
  BY DEF SearchInv
<1>2. Searching(call[s])
  BY <1>1 DEF Sound
<1>3. Base(call[s]) \in Bases /\ Token(call[s]) \in Tokens
  BY <1>2 DEF Searching, Trying, Base, Token
<1> QED BY <1>1, <1>2, <1>3 DEF Sound, Searching

(* Giving up a pair that does not serve steadily keeps the slot sound. *)
LEMMA GiveUpIsSound ==
    ASSUME activeBase \in Bases \cup {None}, activeToken \in Tokens \cup {None},
           NEW c, Searching(c), <<Base(c), Token(c)>> \notin c.steady,
           c.steady \subseteq ServedPairs(serves, c.path),
           c.conf.tokens # <<>> \/ activeToken # None,
           NEW d \in GiveUp(c)
    PROVE  Sound(d, serves, activeToken)
<1>1. \/ Searching(d) /\ d.conf = c.conf /\ d.steady = c.steady /\ d.path = c.path
      \/ d \in Failed /\ Exhausted(d)
  BY GiveUpKeepsSearch
<1>2. CASE Searching(d) /\ d.conf = c.conf /\ d.steady = c.steady /\ d.path = c.path
  <2>1. d \in Trying
    BY <1>2 DEF Searching
  <2>2. d \in Calls /\ d.pc = "trying"
    BY <2>1 DEF Trying, Calls
  <2> QED BY <1>2, <2>2 DEF Sound
<1>3. CASE d \in Failed /\ Exhausted(d)
  <2>1. d \in Calls /\ d.pc = "failed"
    BY <1>3 DEF Failed, Calls
  <2> QED BY <1>3, <2>1 DEF Sound
<1> QED BY <1>1, <1>2, <1>3
-----------------------------------------------------------------------------
(* The inductive invariant holds at the start. *)
LEMMA InitHolds == Init => IInv
<1> SUFFICES ASSUME Init PROVE IInv
  OBVIOUS
<1>1. TypeOK
  <2>1. \A s \in Slots : call[s] = [pc |-> "idle"]
    BY DEF Init, Idle
  <2>2. call \in [Slots -> Calls]
    BY DEF Init, Calls
  <2>3. 0 \in 0..MaxUpsets /\ {} \in Pairs
    BY MaxUpsetsType DEF Pairs
  <2> QED BY <2>1, <2>2, <2>3 DEF Init, TypeOK
<1>2. SearchInv
  BY DEF Init, SearchInv, Sound, Calls, Idle
<1>3. ActivePairWorked
  BY DEF Init, ActivePairWorked
<1> QED BY <1>1, <1>2, <1>3 DEF IInv

(* What a slot's step without an attempt leaves sound. *)
LEMMA QuietStep ==
    ASSUME IInv, NEW s \in Slots, NEW d, call' = [call EXCEPT ![s] = d],
           Sound(d, serves, activeToken),
           UNCHANGED <<config, serves, activeBase, activeToken, upsets, worked>>
    PROVE  IInv'
<1>1. call' \in [Slots -> Calls] /\ SearchInv'
  BY OneSlot DEF IInv
<1>2. ActivePairWorked'
  BY DEF IInv, ActivePairWorked
<1>3. \A r \in Slots : call'[r].pc = "trying" =>
         call'[r].b \in DOMAIN call'[r].bases /\ call'[r].t \in DOMAIN call'[r].tokens
  BY <1>1 DEF SearchInv, Sound, Searching
<1>4. TypeOK'
  BY <1>1, <1>3 DEF IInv, TypeOK
<1> QED BY <1>1, <1>2, <1>4 DEF IInv

(* Begin, End, GoOn and RefuseUnconfigured keep the invariant. *)
LEMMA OutsideRequests ==
    ASSUME IInv, NEW s \in Slots, Begin(s) \/ End(s) \/ GoOn(s) \/ RefuseUnconfigured(s)
    PROVE  IInv'
<1>1. call[s] \in Calls /\ config \in Config
  BY ConfigsType DEF IInv, TypeOK
<1>2. CASE Begin(s)
  <2> DEFINE d == [pc |-> "ready", conf |-> config]
  <2>1. d \in Calls /\ d.pc = "ready"
    BY <1>1 DEF Calls
  <2>2. Sound(d, serves, activeToken)
    BY <2>1 DEF Sound
  <2>3. call' = [call EXCEPT ![s] = d]
    BY <1>2 DEF Begin
  <2> HIDE DEF d
  <2> QED BY <1>2, <2>2, <2>3, QuietStep DEF Begin
<1>3. CASE End(s)
  <2>1. Sound(Idle, serves, activeToken)
    BY DEF Sound, Calls, Idle
  <2>2. call' = [call EXCEPT ![s] = Idle]
    BY <1>3 DEF End
  <2> QED BY <1>3, <2>1, <2>2, QuietStep DEF End
<1>4. CASE GoOn(s)
  <2> DEFINE d == [pc |-> "ready", conf |-> call[s].conf]
  <2>1. d \in Calls /\ d.pc = "ready"
    BY <1>1, <1>4 DEF Calls, GoOn, Idle
  <2>2. Sound(d, serves, activeToken)
    BY <2>1 DEF Sound
  <2>3. call' = [call EXCEPT ![s] = d]
    BY <1>4 DEF GoOn
  <2> HIDE DEF d
  <2> QED BY <1>4, <2>2, <2>3, QuietStep DEF GoOn
<1>5. CASE RefuseUnconfigured(s)
  <2> DEFINE d == [pc |-> "unconfigured"]
  <2>1. Sound(d, serves, activeToken)
    BY DEF Sound, Calls
  <2>2. call' = [call EXCEPT ![s] = d]
    BY <1>5 DEF RefuseUnconfigured
  <2> HIDE DEF d
  <2> QED BY <1>5, <2>1, <2>2, QuietStep DEF RefuseUnconfigured
<1> QED BY <1>2, <1>3, <1>4, <1>5

(* A request starts with all its candidates before it. *)
LEMMA SendStep ==
    ASSUME IInv, NEW s \in Slots, NEW path \in Paths, Send(s, path)
    PROVE  IInv'
<1> DEFINE conf == call[s].conf
           bases == CandidateBases(conf)
           tokens == CandidateTokens(conf)
           steady == ServedPairs(serves, path)
           d == [pc |-> "trying", conf |-> conf, path |-> path,
                 bases |-> bases, b |-> 1, tokens |-> tokens, t |-> 1, steady |-> steady]
<1>1. conf \in Config
  BY DEF IInv, TypeOK, Send, Calls, Idle
<1>2. activeBase \in Bases \cup {None} /\ activeToken \in Tokens \cup {None}
  BY DEF IInv, TypeOK
<1>3. bases # <<>> /\ tokens # <<>>
  BY DEF Send
<1>4. conf.tokens # <<>> \/ activeToken # None
  BY <1>3 DEF CandidateTokens, Remembered
<1>5. call' = [call EXCEPT ![s] = d]
  BY DEF Send
<1>6. steady \in Pairs
  BY DEF ServedPairs, Pairs
<1> HIDE DEF conf, steady
<1>7. /\ bases \in Seq(Bases) /\ tokens \in Seq(Tokens)
      /\ \A i \in DOMAIN conf.urls : \E k \in DOMAIN bases :
            bases[k] = Normalize[conf.urls[i]]
      /\ \A i \in DOMAIN conf.tokens : \E k \in DOMAIN tokens :
            tokens[k] = conf.tokens[i]
  BY <1>1, <1>2, CandidatesHold
<1> HIDE DEF bases, tokens
<1>8. 1 \in DOMAIN bases /\ 1 \in DOMAIN tokens
  BY <1>3, <1>7
<1>9. d \in Trying
  BY <1>1, <1>6, <1>7 DEF Trying
<1>10. /\ d.pc = "trying" /\ d.conf = conf /\ d.bases = bases /\ d.tokens = tokens
       /\ d.b = 1 /\ d.t = 1 /\ d.steady = steady /\ d.path = path
  OBVIOUS
<1> HIDE DEF d
<1>11. Searching(d)
  <2>1. Covers(d)
    BY <1>7, <1>10 DEF Covers
  <2>2. 1..(d.b - 1) = {} /\ 1..(d.t - 1) = {}
    BY <1>10
  <2>3. SearchedBases(d) /\ SearchedTokens(d)
    BY <2>2 DEF SearchedBases, SearchedTokens
  <2> QED BY <1>8, <1>9, <1>10, <2>1, <2>3 DEF Searching
<1>12. d.steady \subseteq ServedPairs(serves, d.path)
  BY <1>10 DEF steady
<1>13. d \in Calls
  BY <1>9 DEF Trying, Calls
<1>14. Sound(d, serves, activeToken)
  BY <1>4, <1>10, <1>11, <1>12, <1>13 DEF Sound
<1> QED BY <1>5, <1>14, QuietStep DEF Send

(* The pair that answers is remembered, and known to have answered. *)
LEMMA AcceptStep ==
    ASSUME IInv, NEW s \in Slots, Accept(s)
    PROVE  IInv'
<1> DEFINE c == call[s]
           d == [pc |-> "ready", conf |-> c.conf]
<1>1. /\ c \in Trying /\ Base(c) \in Bases /\ Token(c) \in Tokens
  BY TryingIsSearching DEF IInv, Accept
<1>2. /\ activeBase' = Base(c) /\ activeToken' = Token(c)
      /\ worked' = worked \cup {<<Base(c), Token(c)>>}
      /\ call' = [call EXCEPT ![s] = d]
      /\ UNCHANGED <<config, serves, upsets>>
  BY DEF Accept
<1>3. d \in Calls /\ d.pc = "ready"
  BY <1>1 DEF Trying, Calls
<1>4. activeToken' # None
  BY <1>1, <1>2, NoneType
<1>5. Sound(d, serves', activeToken')
  BY <1>3 DEF Sound
<1> HIDE DEF d
<1>6. call' \in [Slots -> Calls] /\ SearchInv'
  BY <1>2, <1>4, <1>5, OneSlot DEF IInv
<1>7. ActivePairWorked'
  BY <1>2 DEF ActivePairWorked
<1>8. \A r \in Slots : call'[r].pc = "trying" =>
         call'[r].b \in DOMAIN call'[r].bases /\ call'[r].t \in DOMAIN call'[r].tokens
  BY <1>6 DEF SearchInv, Sound, Searching
<1>9. worked' \in Pairs
  BY <1>1, <1>2 DEF IInv, TypeOK, Pairs
<1>10. TypeOK'
  BY <1>1, <1>2, <1>6, <1>8, <1>9 DEF IInv, TypeOK
<1> QED BY <1>6, <1>7, <1>10 DEF IInv

(* What is sound stays sound when less is claimed to serve steadily. *)
LEMMA LessSteady ==
    ASSUME NEW c, Searching(c), NEW less, less \subseteq c.steady
    PROVE  /\ Searching([c EXCEPT !.steady = less])
           /\ [c EXCEPT !.steady = less].steady = less
           /\ [c EXCEPT !.steady = less].path = c.path
           /\ [c EXCEPT !.steady = less].conf = c.conf
           /\ Base([c EXCEPT !.steady = less]) = Base(c)
           /\ Token([c EXCEPT !.steady = less]) = Token(c)
<1> DEFINE e == [c EXCEPT !.steady = less]
<1>1. c \in Trying /\ less \in Pairs
  BY DEF Searching, Trying, Pairs
<1>2. /\ e \in Trying /\ e.steady = less /\ e.path = c.path /\ e.conf = c.conf
      /\ e.bases = c.bases /\ e.b = c.b /\ e.tokens = c.tokens /\ e.t = c.t
  BY <1>1 DEF Trying
<1> HIDE DEF e
<1>3. Covers(e) /\ SearchedBases(e) /\ SearchedTokens(e)
  BY <1>2 DEF Searching, Covers, SearchedBases, SearchedTokens
<1>4. Searching(e)
  BY <1>2, <1>3 DEF Searching
<1>5. Base(e) = Base(c) /\ Token(e) = Token(c)
  BY <1>2 DEF Base, Token
<1> QED BY <1>2, <1>4, <1>5 DEF e

(* A refused attempt moves the search on. *)
LEMMA RejectStep ==
    ASSUME IInv, NEW s \in Slots, Reject(s)
    PROVE  IInv'
<1> DEFINE c == call[s]
<1>1. /\ Searching(c) /\ c.steady \subseteq ServedPairs(serves, c.path)
      /\ c.conf.tokens # <<>> \/ activeToken # None
  BY TryingIsSearching DEF IInv, Reject
<1>2. <<Base(c), Token(c)>> \notin c.steady
  BY <1>1 DEF Reject, ServedPairs
<1>3. PICK d \in GiveUp(c) : call' = [call EXCEPT ![s] = d]
  BY DEF Reject
<1>4. Sound(d, serves, activeToken)
  BY <1>1, <1>2, GiveUpIsSound DEF IInv, TypeOK
<1> QED BY <1>3, <1>4, QuietStep DEF Reject

(* So does a timeout, whose pair no longer counts as steady. *)
LEMMA TimeOutStep ==
    ASSUME IInv, NEW s \in Slots, TimeOut(s)
    PROVE  IInv'
<1> DEFINE less == call[s].steady \ {<<Base(call[s]), Token(call[s])>>}
           c == [call[s] EXCEPT !.steady = less]
<1>1. /\ Searching(call[s]) /\ call[s].steady \subseteq ServedPairs(serves, call[s].path)
      /\ call[s].conf.tokens # <<>> \/ activeToken # None
  BY TryingIsSearching DEF IInv, TimeOut
<1>2. /\ Searching(c) /\ c.steady = less /\ c.path = call[s].path
      /\ c.conf = call[s].conf /\ Base(c) = Base(call[s]) /\ Token(c) = Token(call[s])
  BY <1>1, LessSteady
<1>3. PICK d \in GiveUp(c) : call' = [call EXCEPT ![s] = d]
  BY DEF TimeOut
<1>4. <<Base(c), Token(c)>> \notin less
  BY <1>2
<1> HIDE DEF c
<1>5. Sound(d, serves, activeToken)
  BY <1>1, <1>2, <1>4, GiveUpIsSound DEF IInv, TypeOK
<1>6. call' \in [Slots -> Calls] /\ SearchInv'
  BY <1>3, <1>5, OneSlot DEF IInv, TimeOut
<1>7. ActivePairWorked'
  BY DEF IInv, ActivePairWorked, TimeOut
<1>8. \A r \in Slots : call'[r].pc = "trying" =>
         call'[r].b \in DOMAIN call'[r].bases /\ call'[r].t \in DOMAIN call'[r].tokens
  BY <1>6 DEF SearchInv, Sound, Searching
<1>9. upsets' \in 0..MaxUpsets
  BY MaxUpsetsType DEF IInv, TypeOK, TimeOut, Upset
<1>10. TypeOK'
  BY <1>6, <1>8, <1>9 DEF IInv, TypeOK, TimeOut
<1> QED BY <1>6, <1>7, <1>10 DEF IInv

(* When the cluster changes what it serves, less is steady. *)
LEMMA ChangeServiceStep ==
    ASSUME IInv, NEW pattern \in Patterns, ChangeService(pattern)
    PROVE  IInv'
<1>1. /\ serves' = pattern /\ call \in [Slots -> Calls]
      /\ UNCHANGED <<config, activeBase, activeToken, worked>>
      /\ call' \in [Slots -> {call'[r] : r \in Slots}]
  BY DEF ChangeService, IInv, TypeOK
<1>2. ASSUME NEW r \in Slots PROVE Sound(call'[r], serves', activeToken')
  <2>1. Sound(call[r], serves, activeToken)
    BY DEF IInv, SearchInv
  <2>2. CASE call[r].pc # "trying"
    <3>1. call'[r] = call[r]
      BY <2>2 DEF ChangeService
    <3> QED BY <2>1, <2>2, <3>1 DEF Sound
  <2>3. CASE call[r].pc = "trying"
    <3> DEFINE less == call[r].steady \cap ServedPairs(pattern, call[r].path)
               e == [call[r] EXCEPT !.steady = less]
    <3>1. call'[r] = e
      BY <2>3 DEF ChangeService
    <3>2. Searching(call[r]) /\ (call[r].conf.tokens # <<>> \/ activeToken # None)
      BY <2>1, <2>3 DEF Sound
    <3>3. less \subseteq call[r].steady
      OBVIOUS
    <3>4. Searching(e) /\ e.steady = less /\ e.path = call[r].path /\ e.conf = call[r].conf
      BY <3>2, <3>3, LessSteady
    <3>5. e.steady \subseteq ServedPairs(pattern, e.path)
      BY <3>4
    <3> HIDE DEF e
    <3>6. e \in Calls /\ e.pc = "trying"
      BY <3>4 DEF Searching, Trying, Calls
    <3> QED BY <1>1, <3>1, <3>2, <3>4, <3>5, <3>6 DEF Sound
  <2> QED BY <2>2, <2>3
<1>3. SearchInv'
  BY <1>2 DEF SearchInv
<1>4. call' \in [Slots -> Calls]
  BY <1>1, <1>2 DEF Sound, ChangeService
<1>5. \A r \in Slots : call'[r].pc = "trying" =>
         call'[r].b \in DOMAIN call'[r].bases /\ call'[r].t \in DOMAIN call'[r].tokens
  BY <1>2 DEF Sound, Searching
<1>6. upsets' \in 0..MaxUpsets
  BY MaxUpsetsType DEF IInv, TypeOK, ChangeService, Upset
<1>7. TypeOK'
  BY <1>1, <1>4, <1>5, <1>6 DEF IInv, TypeOK
<1>8. ActivePairWorked'
  BY <1>1 DEF IInv, ActivePairWorked
<1> QED BY <1>3, <1>7, <1>8 DEF IInv

(* An edit of the kubeconfig reaches only the functions that begin later. *)
LEMMA EditKubeconfigStep ==
    ASSUME IInv, NEW conf \in Configs, EditKubeconfig(conf)
    PROVE  IInv'
<1>1. config' = conf /\ UNCHANGED <<serves, activeBase, activeToken, call, worked>>
  BY DEF EditKubeconfig
<1>2. SearchInv'
  BY <1>1 DEF IInv, SearchInv
<1>3. upsets' \in 0..MaxUpsets
  BY MaxUpsetsType DEF IInv, TypeOK, EditKubeconfig, Upset
<1>4. TypeOK'
  BY <1>1, <1>3 DEF IInv, TypeOK
<1>5. ActivePairWorked'
  BY <1>1 DEF IInv, ActivePairWorked
<1> QED BY <1>2, <1>4, <1>5 DEF IInv

(* Every step keeps the inductive invariant. *)
LEMMA NextHolds == IInv /\ [Next]_vars => IInv'
<1> SUFFICES ASSUME IInv, [Next]_vars PROVE IInv'
  OBVIOUS
<1>1. ASSUME NEW s \in Slots, Begin(s) \/ End(s) \/ GoOn(s) \/ RefuseUnconfigured(s)
      PROVE IInv'
  BY <1>1, OutsideRequests
<1>2. ASSUME NEW s \in Slots, NEW path \in Paths, Send(s, path) PROVE IInv'
  BY <1>2, SendStep
<1>3. ASSUME NEW s \in Slots, Accept(s) PROVE IInv'
  BY <1>3, AcceptStep
<1>4. ASSUME NEW s \in Slots, Reject(s) PROVE IInv'
  BY <1>4, RejectStep
<1>5. ASSUME NEW s \in Slots, TimeOut(s) PROVE IInv'
  BY <1>5, TimeOutStep
<1>6. ASSUME NEW pattern \in Patterns, ChangeService(pattern) PROVE IInv'
  BY <1>6, ChangeServiceStep
<1>7. ASSUME NEW conf \in Configs, EditKubeconfig(conf) PROVE IInv'
  BY <1>7, EditKubeconfigStep
<1>8. CASE UNCHANGED vars
  BY <1>8 DEF vars, IInv, TypeOK, SearchInv, ActivePairWorked
<1> QED BY <1>1, <1>2, <1>3, <1>4, <1>5, <1>6, <1>7, <1>8 DEF Next, Reply

LEMMA Invariance == Spec => []IInv
<1> QED BY InitHolds, NextHolds, PTL DEF Spec

(* The active pair, the searches of the requests in flight and the          *)
(* configuration have their types; a search never runs past its candidates. *)
THEOREM TypeCorrect == Spec => []TypeOK
<1>1. IInv => TypeOK
  BY DEF IInv
<1> QED BY <1>1, Invariance, PTL

(* However requests interleave and outages fall, a request fails only if no *)
(* configured URL and token served it all along.                            *)
THEOREM FailuresAreJustified == Spec => []FailsOnlyIfNothingServes
<1>1. IInv => FailsOnlyIfNothingServes
  BY DEF IInv, SearchInv, Sound, Exhausted, FailsOnlyIfNothingServes
<1> QED BY <1>1, Invariance, PTL

(* What requests remember for each other is always one pair that answered. *)
THEOREM ActivePairAnswered == Spec => []ActivePairWorked
<1>1. IInv => ActivePairWorked
  BY DEF IInv
<1> QED BY <1>1, Invariance, PTL
=============================================================================
