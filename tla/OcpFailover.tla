------------------------------ MODULE OcpFailover ------------------------------
(***************************************************************************)
(* requestJson and requestText of apps/api/src/ocpClient.ts: a request to   *)
(* the OpenShift API tries every configured URL with every configured token *)
(* until one answers, and remembers the pair that did.  The pair is shared  *)
(* by all the requests of the process, which interleave at every await; the *)
(* kubeconfig is read again by every function and may change; URLs and      *)
(* tokens stop or start to serve at any time.                               *)
(*                                                                          *)
(* A slot is one exported function that reads the configuration and makes   *)
(* requests with it.  What it calls or starts beside it (getOcpStatus under *)
(* discoverOcpResources, the branches of a Promise.all) is in another slot. *)
(***************************************************************************)
EXTENDS Naturals, Sequences

CONSTANTS
    Slots,      \* functions in flight
    Paths,      \* API paths
    Urls,       \* URLs as configured
    Bases,      \* URLs as normalizeBaseUrl writes them, and leaves them
    Normalize,  \* normalizeBaseUrl
    Tokens,
    Configs,    \* what the environment and the kubeconfig may say
    Patterns,   \* who may be served what: sets of <<path, base, token>>
    None,       \* undefined
    MaxUpsets   \* bound on outages, recoveries, timeouts and edits of the kubeconfig

Config == [urls : Seq(Urls), tokens : Seq(Tokens)]

ASSUME ConfigsType == Configs \subseteq Config
ASSUME NormalizeType == Normalize \in [Urls -> Bases]
ASSUME PatternsType == Patterns \subseteq SUBSET (Paths \X Bases \X Tokens)
ASSUME NoneType == None \notin Bases /\ None \notin Tokens
ASSUME MaxUpsetsType == MaxUpsets \in Nat

VARIABLES
    config,       \* what getOcpConfig answers now
    serves,       \* the <<path, base, token>> that the cluster answers with 2xx
    activeBase,   \* activeBaseUrl
    activeToken,
    call,         \* what each function is doing
    upsets,
    worked        \* history: the pairs that answered some request

vars == <<config, serves, activeBase, activeToken, call, upsets, worked>>

Idle == [pc |-> "idle"]

ServedPairs(who, path) == {p \in Bases \X Tokens : <<path, p[1], p[2]>> \in who}
-----------------------------------------------------------------------------
Remembered(active, seq) == IF active = None THEN seq ELSE <<active>> \o seq

CandidateBases(conf) ==
    Remembered(activeBase, [i \in DOMAIN conf.urls |-> Normalize[conf.urls[i]]])

CandidateTokens(conf) == Remembered(activeToken, conf.tokens)

\* The candidates are a Set: the positions whose value comes after position i
\* for the first time.
Unseen(seq, i) == {j \in DOMAIN seq : \A k \in 1..i : seq[k] # seq[j]}

IsNext(seq, i, j) == j \in Unseen(seq, i) /\ \A k \in Unseen(seq, i) : j <= k

Init ==
    /\ config \in Configs
    /\ serves \in Patterns
    /\ activeBase = None
    /\ activeToken = None
    /\ call = [s \in Slots |-> Idle]
    /\ upsets = 0
    /\ worked = {}

(* A function reads the configuration once, for all its requests. *)
Begin(s) ==
    /\ call[s] = Idle
    /\ call' = [call EXCEPT ![s] = [pc |-> "ready", conf |-> config]]
    /\ UNCHANGED <<config, serves, activeBase, activeToken, upsets, worked>>

End(s) ==
    /\ call[s].pc \in {"ready", "failed", "unconfigured"}
    /\ call' = [call EXCEPT ![s] = Idle]
    /\ UNCHANGED <<config, serves, activeBase, activeToken, upsets, worked>>

(* A function catches the error of a request and goes on with others. *)
GoOn(s) ==
    /\ call[s].pc = "failed"
    /\ call' = [call EXCEPT ![s] = [pc |-> "ready", conf |-> @.conf]]
    /\ UNCHANGED <<config, serves, activeBase, activeToken, upsets, worked>>

(* What was remembered counts as configured. *)
RefuseUnconfigured(s) ==
    /\ call[s].pc = "ready"
    /\ CandidateBases(call[s].conf) = <<>> \/ CandidateTokens(call[s].conf) = <<>>
    /\ call' = [call EXCEPT ![s] = [pc |-> "unconfigured"]]
    /\ UNCHANGED <<config, serves, activeBase, activeToken, upsets, worked>>

Send(s, path) ==
    /\ call[s].pc = "ready"
    /\ CandidateBases(call[s].conf) # <<>>
    /\ CandidateTokens(call[s].conf) # <<>>
    /\ call' = [call EXCEPT ![s] =
                  [pc |-> "trying", conf |-> @.conf, path |-> path,
                   bases |-> CandidateBases(@.conf), b |-> 1,
                   tokens |-> CandidateTokens(@.conf), t |-> 1,
                   steady |-> ServedPairs(serves, path)]]
    /\ UNCHANGED <<config, serves, activeBase, activeToken, upsets, worked>>

Base(c)  == c.bases[c.b]
Token(c) == c.tokens[c.t]

\* Fault: the token that answered is not remembered.
AcceptBaseOnly(s) ==
    LET c == call[s]
    IN  /\ c.pc = "trying"
        /\ <<c.path, Base(c), Token(c)>> \in serves
        /\ activeBase' = Base(c)
        /\ activeToken' = IF activeToken = None THEN Token(c) ELSE activeToken
        /\ worked' = worked \cup {<<Base(c), Token(c)>>}
        /\ call' = [call EXCEPT ![s] = [pc |-> "ready", conf |-> c.conf]]
        /\ UNCHANGED <<config, serves, upsets>>

\* Fault: nothing is remembered.
AcceptForgetting(s) ==
    LET c == call[s]
    IN  /\ c.pc = "trying"
        /\ <<c.path, Base(c), Token(c)>> \in serves
        /\ worked' = worked \cup {<<Base(c), Token(c)>>}
        /\ call' = [call EXCEPT ![s] = [pc |-> "ready", conf |-> c.conf]]
        /\ UNCHANGED <<config, serves, activeBase, activeToken, upsets>>

Accept(s) ==
    LET c == call[s]
    IN  /\ c.pc = "trying"
        /\ <<c.path, Base(c), Token(c)>> \in serves
        /\ activeBase' = Base(c)
        /\ activeToken' = Token(c)
        /\ worked' = worked \cup {<<Base(c), Token(c)>>}
        /\ call' = [call EXCEPT ![s] = [pc |-> "ready", conf |-> c.conf]]
        /\ UNCHANGED <<config, serves, upsets>>

\* Fault: the request fails after the first URL.
GiveUpAfterFirstUrl(c) ==
    IF Unseen(c.tokens, c.t) # {}
    THEN {[c EXCEPT !.t = j] : j \in {j \in DOMAIN c.tokens : IsNext(c.tokens, c.t, j)}}
    ELSE {[pc |-> "failed", conf |-> c.conf, steady |-> c.steady]}

\* Fault: the loop runs one past the last token.
GiveUpPastEnd(c) ==
    IF c.t <= Len(c.tokens)
    THEN {[c EXCEPT !.t = @ + 1]}
    ELSE {[pc |-> "failed", conf |-> c.conf, steady |-> c.steady]}

(* After an error: the next token; after the last, the next URL, with the   *)
(* tokens as they are remembered by then; after the last URL, the request   *)
(* fails.                                                                   *)
GiveUp(c) ==
    IF Unseen(c.tokens, c.t) # {}
    THEN {[c EXCEPT !.t = j] : j \in {j \in DOMAIN c.tokens : IsNext(c.tokens, c.t, j)}}
    ELSE IF Unseen(c.bases, c.b) # {}
    THEN {[c EXCEPT !.b = j, !.tokens = CandidateTokens(c.conf), !.t = 1]
             : j \in {j \in DOMAIN c.bases : IsNext(c.bases, c.b, j)}}
    ELSE {[pc |-> "failed", conf |-> c.conf, steady |-> c.steady]}

Reject(s) ==
    LET c == call[s]
    IN  /\ c.pc = "trying"
        /\ <<c.path, Base(c), Token(c)>> \notin serves
        /\ \E d \in GiveUp(c) : call' = [call EXCEPT ![s] = d]
        /\ UNCHANGED <<config, serves, activeBase, activeToken, upsets, worked>>

Upset == upsets < MaxUpsets /\ upsets' = upsets + 1

(* The answer does not come in time, or does not parse. *)
TimeOut(s) ==
    LET c == [call[s] EXCEPT !.steady = @ \ {<<Base(call[s]), Token(call[s])>>}]
    IN  /\ Upset
        /\ call[s].pc = "trying"
        /\ \E d \in GiveUp(c) : call' = [call EXCEPT ![s] = d]
        /\ UNCHANGED <<config, serves, activeBase, activeToken, worked>>

(* An outage, a recovery, a grant or a revocation in the cluster. *)
ChangeService(pattern) ==
    /\ Upset
    /\ pattern # serves
    /\ serves' = pattern
    /\ call' = [s \in Slots |->
                  IF call[s].pc = "trying"
                  THEN [call[s] EXCEPT !.steady = @ \cap ServedPairs(pattern, call[s].path)]
                  ELSE call[s]]
    /\ UNCHANGED <<config, activeBase, activeToken, worked>>

EditKubeconfig(conf) ==
    /\ Upset
    /\ conf # config
    /\ config' = conf
    /\ UNCHANGED <<serves, activeBase, activeToken, call, worked>>

Reply(s) == Accept(s) \/ Reject(s)

Next ==
    \/ \E s \in Slots :
          \/ Begin(s) \/ End(s) \/ GoOn(s) \/ RefuseUnconfigured(s)
          \/ \E path \in Paths : Send(s, path)
          \/ Reply(s) \/ TimeOut(s)
    \/ \E pattern \in Patterns : ChangeService(pattern)
    \/ \E conf \in Configs : EditKubeconfig(conf)

Spec == Init /\ [][Next]_vars

(* Every request gets an answer or its timeout; a function makes finitely   *)
(* many requests and ends.  Nobody owes a request.                          *)
FairSpec == Spec /\ \A s \in Slots : WF_vars(Reply(s)) /\ SF_vars(End(s))
-----------------------------------------------------------------------------
Pairs == SUBSET (Bases \X Tokens)

Calls ==
    {Idle} \cup [pc : {"unconfigured"}]
    \cup [pc : {"ready"}, conf : Config]
    \cup [pc : {"failed"}, conf : Config, steady : Pairs]
    \cup [pc : {"trying"}, conf : Config, path : Paths, steady : Pairs,
          bases : Seq(Bases), b : Nat, tokens : Seq(Tokens), t : Nat]

TypeOK ==
    /\ config \in Configs
    /\ serves \in Patterns
    /\ activeBase \in Bases \cup {None}
    /\ activeToken \in Tokens \cup {None}
    /\ call \in [Slots -> Calls]
    /\ \A s \in Slots : call[s].pc = "trying" =>
          call[s].b \in DOMAIN call[s].bases /\ call[s].t \in DOMAIN call[s].tokens
    /\ upsets \in 0..MaxUpsets
    /\ worked \in Pairs

(* A request fails only if no pair of a URL and a token of its configuration *)
(* served it all the time it lasted, whatever the other requests made the    *)
(* process remember meanwhile.                                               *)
FailsOnlyIfNothingServes ==
    \A s \in Slots : call[s].pc = "failed" =>
        \A i \in DOMAIN call[s].conf.urls, j \in DOMAIN call[s].conf.tokens :
            <<Normalize[call[s].conf.urls[i]], call[s].conf.tokens[j]>> \notin call[s].steady

(* The URL and the token that are remembered answered a request together. *)
ActivePairWorked ==
    activeBase # None \/ activeToken # None => <<activeBase, activeToken>> \in worked

(* The cluster serves every path to the same pairs, one of them configured. *)
Healthy ==
    /\ \A p, q \in Paths : ServedPairs(serves, p) = ServedPairs(serves, q)
    /\ \E i \in DOMAIN config.urls, j \in DOMAIN config.tokens : \A p \in Paths :
          <<p, Normalize[config.urls[i]], config.tokens[j]>> \in serves

(* Once the cluster stays healthy, requests end up being answered at the     *)
(* first attempt: concurrent requests do not make each other forget.         *)
Settles == <>[]Healthy => <>[][\A s \in Slots : ~Reject(s)]_vars
=============================================================================
