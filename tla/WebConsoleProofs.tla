---------------------------- MODULE WebConsoleProofs ----------------------------
(***************************************************************************)
(* Proofs about what the web console shows: the screen of ResourceExplorer, *)
(* for every number of loads in flight, pages and clicks; the analyses of   *)
(* IncidentAnalysis, for every set of pods, workloads and alerts; and the   *)
(* dashboards of AdminReview, for every number of them and of requests.     *)
(* Last, the types of all the parts that MCWebConsole puts together.        *)
(***************************************************************************)
EXTENDS OcpReadsProofs, MCWebConsole, SequenceTheorems

\* What a load of a list and a load of details are.
Tokens == [key : Resources \cup {Nothing}, page : 0..(MaxPages - 1)]
ListLoads ==
    [pc : {"list"}, n : Numbers, key : Resources, page : 0..(MaxPages - 1), index : Nat,
     reset : BOOLEAN]
DetailLoads ==
    [pc : {"detail", "logs"}, n : Numbers, key : Resources, item : Item, first : BOOLEAN]

ListsNow(l) == load[l].pc = "list"
DetailsNow(l) == load[l].pc \in {"detail", "logs"}

ExplorerTypes ==
    /\ discovered \subseteq Resources
    /\ preset \in Resources \cup {Nothing}
    /\ selected \in Resources \cup {Nothing}
    /\ list \in {Nothing} \cup Lists
    /\ detail \in Opened \cup {Nothing} /\ logs \in Opened \cup {Nothing}
    /\ listLoading \in BOOLEAN /\ detailLoading \in BOOLEAN
    /\ pageTokens \in Seq(Tokens)
    /\ pageIndex \in Nat
    /\ load \in [Loads -> {NoLoad} \cup ListLoads \cup DetailLoads]
    /\ clicks \in Numbers /\ applied \in Numbers
    /\ overtaken \in BOOLEAN /\ overlapped \in BOOLEAN

\* Loads are numbered by the clicks that began them.
Numbered ==
    /\ list # Nothing => list.n <= clicks /\ (list.more => list.page + 1 < MaxPages)
    /\ applied <= clicks
    /\ \A l \in Loads : load[l] # NoLoad => load[l].n <= clicks
    /\ \A k, l \in Loads :
          load[k] # NoLoad /\ load[l] # NoLoad /\ load[k].n = load[l].n => k = l

\* A flag that is set waits for a load.
FlagsAwait ==
    /\ listLoading => \E l \in Loads : AwaitsList(load[l])
    /\ detailLoading => \E l \in Loads : DetailsNow(l)

\* A list that is asked for later is of what is selected now.
Newer(n) ==
    \E l \in Loads : ListsNow(l) /\ load[l].key = selected /\ n < load[l].n

SelectedComes ==
    /\ \A l \in Loads : ListsNow(l) =>
          load[l].key = selected \/ load[l].n < applied \/ Newer(load[l].n)
    /\ ~overtaken /\ list # Nothing => list.key = selected \/ Newer(list.n)

\* Without overlaps, one list is awaited at a time, no item was opened since
\* it was asked for, and its page is one that was reached.
OneAtATime ==
    ~overlapped =>
        /\ \A k, l \in Loads : AwaitsList(load[k]) /\ AwaitsList(load[l]) => k = l
        /\ \A l \in Loads : AwaitsList(load[l]) => listLoading
        /\ \A k, l \in Loads : ListsNow(k) /\ DetailsNow(l) => load[l].n < load[k].n
        /\ \A l \in Loads : ListsNow(l) =>
              IF load[l].reset THEN load[l].page = 0
              ELSE load[l].page = load[l].index /\ load[l].index < Len(pageTokens)
        /\ pageIndex < Len(pageTokens)
        /\ \A i \in DOMAIN pageTokens : pageTokens[i].page = i - 1
        /\ list # Nothing => list.page = pageIndex

\* Without overlaps, what is loaded of an item is of the list on screen, or
\* comes after the answer of a later load.
ItemsOfList ==
    ~overtaken /\ ~overlapped =>
        /\ \A l \in Loads : DetailsNow(l) =>
              load[l].n < applied \/ (list # Nothing /\ load[l].item.of = list.n)
        /\ detail # Nothing =>
              list # Nothing /\ detail.item.of = list.n /\ detail.n <= applied
        /\ \A l \in Loads : load[l].pc = "logs" =>
              \/ load[l].n < applied
              \/ detail # Nothing /\ detail.n = load[l].n /\ detail.item = load[l].item
        /\ logs # Nothing =>
              /\ detail # Nothing
              /\ \/ logs.item = detail.item
                 \/ \E l \in Loads : load[l].pc = "logs" /\ load[l].n = detail.n

ExplorerInv ==
    ExplorerTypes /\ Numbered /\ FlagsAwait /\ SelectedComes /\ OneAtATime /\ ItemsOfList

-----------------------------------------------------------------------------
(* What a load is doing tells what it holds. *)
LEMMA LoadKinds ==
    ASSUME ExplorerTypes, NEW l \in Loads
    PROVE  /\ load[l] \in {NoLoad} \cup ListLoads \cup DetailLoads
           /\ ListsNow(l) => load[l] \in ListLoads /\ AwaitsList(load[l]) /\ load[l] # NoLoad
           /\ DetailsNow(l) => /\ load[l] \in DetailLoads /\ load[l] # NoLoad
                               /\ AwaitsList(load[l]) <=> load[l].first
           /\ load[l] = NoLoad => ~AwaitsList(load[l]) /\ ~ListsNow(l) /\ ~DetailsNow(l)
           /\ load[l] # NoLoad => load[l].n \in Nat /\ (ListsNow(l) \/ DetailsNow(l))
           /\ ~(ListsNow(l) /\ DetailsNow(l))
<1>1. load[l] \in {NoLoad} \cup ListLoads \cup DetailLoads
  BY DEF ExplorerTypes
<1>2. NoLoad.pc = "idle"
  BY DEF NoLoad
<1>3. \A c \in ListLoads : c.pc = "list" /\ c.n \in Nat
  BY DEF ListLoads, Numbers
<1>4. \A c \in DetailLoads : c.pc \in {"detail", "logs"} /\ c.n \in Nat
  BY DEF DetailLoads, Numbers
<1> QED BY <1>1, <1>2, <1>3, <1>4 DEF AwaitsList, ListsNow, DetailsNow

(* One load becomes something else. *)
LEMMA LoadBecomes ==
    ASSUME ExplorerTypes, NEW l \in Loads,
           NEW c \in {NoLoad} \cup ListLoads \cup DetailLoads,
           load' = [load EXCEPT ![l] = c]
    PROVE  /\ load' \in [Loads -> {NoLoad} \cup ListLoads \cup DetailLoads]
           /\ load'[l] = c
           /\ \A k \in Loads : k # l => load'[k] = load[k]
           /\ \A k \in Loads : k # l => /\ ListsNow(k)' <=> ListsNow(k)
                                        /\ DetailsNow(k)' <=> DetailsNow(k)
           /\ ListsNow(l)' <=> c.pc = "list"
           /\ DetailsNow(l)' <=> c.pc \in {"detail", "logs"}
BY DEF ExplorerTypes, ListsNow, DetailsNow

LEMMA Bounds == MaxClicks \in Nat /\ MaxPages \in Nat /\ MaxPages > 0
BY BoundsType

LEMMA ExplorerInvInit == ExplorerInit => ExplorerInv
<1> SUFFICES ASSUME ExplorerInit
             PROVE  ExplorerInv
  OBVIOUS
<1>1. FirstPage \in Tokens /\ FirstPage.page = 0
  BY Bounds DEF FirstPage, Tokens
<1>2. ExplorerTypes
  <2>1. <<FirstPage>> \in Seq(Tokens)
    BY <1>1
  <2>2. 0 \in Numbers
    BY Bounds DEF Numbers
  <2> QED BY <2>1, <2>2 DEF ExplorerInit, ExplorerTypes
<1>3. \A l \in Loads : load[l] = NoLoad
  BY DEF ExplorerInit
<1>4. \A l \in Loads : ~AwaitsList(load[l]) /\ ~ListsNow(l) /\ ~DetailsNow(l)
                       /\ load[l].pc # "logs"
  BY <1>3 DEF NoLoad, AwaitsList, ListsNow, DetailsNow
<1>5. Numbered /\ FlagsAwait /\ SelectedComes /\ ItemsOfList
  BY <1>3, <1>4 DEF ExplorerInit, Numbered, FlagsAwait, SelectedComes, ItemsOfList
<1>6. OneAtATime
  BY <1>1, <1>4 DEF ExplorerInit, OneAtATime
<1> QED BY <1>2, <1>5, <1>6 DEF ExplorerInv

(* A click after which no load begins. *)
LEMMA NothingBegins ==
    ASSUME ExplorerInv, Click,
           UNCHANGED <<selected, screen, load, applied, overtaken, overlapped>>,
           discovered' \subseteq Resources, preset' \in Resources \cup {Nothing}
    PROVE  ExplorerInv'
<1>1. /\ UNCHANGED <<selected, list, detail, logs, listLoading, detailLoading, pageTokens,
                     pageIndex, load, applied, overtaken, overlapped>>
      /\ clicks \in Nat /\ clicks' = clicks + 1 /\ clicks' \in Numbers
  BY Bounds DEF screen, Click, ExplorerInv, ExplorerTypes, Numbers
<1>2. ExplorerTypes'
  BY <1>1 DEF ExplorerInv, ExplorerTypes
<1>3. Numbered'
  <2>1. /\ list # Nothing => list.n \in Nat
        /\ applied \in Nat
        /\ \A l \in Loads : load[l] # NoLoad => load[l].n \in Nat
    BY LoadKinds DEF ExplorerInv, ExplorerTypes, Lists, Numbers
  <2> QED BY <1>1, <2>1 DEF ExplorerInv, Numbered
<1>4. FlagsAwait' /\ SelectedComes' /\ OneAtATime' /\ ItemsOfList'
  BY <1>1 DEF ExplorerInv, FlagsAwait, SelectedComes, Newer, OneAtATime, ItemsOfList,
              ListsNow, DetailsNow
<1> QED BY <1>2, <1>3, <1>4 DEF ExplorerInv

(* A click after which a page of the selected resource is loaded. *)
LEMMA ListBegins ==
    ASSUME ExplorerInv, Click, NEW key \in Resources, selected' = key,
           NEW token \in Tokens, NEW index \in Nat, NEW reset \in BOOLEAN,
           BeginList(key, token, index, reset),
           discovered' \subseteq Resources, preset' \in Resources \cup {Nothing},
           pageTokens' \in Seq(Tokens),
           ~overlapped' => /\ pageIndex < Len(pageTokens')
                           /\ \A i \in DOMAIN pageTokens' : pageTokens'[i].page = i - 1
                           /\ IF reset THEN token.page = 0
                              ELSE token.page = index /\ index < Len(pageTokens'),
           UNCHANGED <<list, detail, logs, detailLoading, pageIndex, applied, overtaken>>
    PROVE  ExplorerInv'
<1>1. PICK l \in Loads :
         /\ load[l] = NoLoad
         /\ load' = [load EXCEPT ![l] =
                       [pc |-> "list", n |-> clicks + 1, key |-> key, page |-> token.page,
                        index |-> index, reset |-> reset]]
  BY DEF BeginList
<1> DEFINE c == [pc |-> "list", n |-> clicks + 1, key |-> key, page |-> token.page,
                 index |-> index, reset |-> reset]
<1>2. /\ ExplorerTypes /\ Numbered /\ FlagsAwait /\ SelectedComes /\ OneAtATime /\ ItemsOfList
      /\ clicks \in Nat /\ clicks' = clicks + 1 /\ clicks' \in Numbers
      /\ listLoading' = TRUE
      /\ overlapped' = (overlapped \/ \E k \in Loads : AwaitsList(load[k]))
  BY Bounds DEF Click, ExplorerInv, ExplorerTypes, Numbers, BeginList
<1>3. /\ c \in ListLoads /\ c.pc = "list" /\ c.n = clicks + 1 /\ c.key = key
      /\ c.page = token.page /\ c.index = index /\ c.reset = reset
  BY <1>2 DEF ListLoads, Tokens, Click
<1> HIDE DEF c
<1>4. /\ load' \in [Loads -> {NoLoad} \cup ListLoads \cup DetailLoads]
      /\ load'[l] = c
      /\ \A k \in Loads : k # l => load'[k] = load[k]
      /\ \A k \in Loads : k # l => /\ ListsNow(k)' <=> ListsNow(k)
                                   /\ DetailsNow(k)' <=> DetailsNow(k)
      /\ ListsNow(l)' /\ ~DetailsNow(l)'
  BY <1>1, <1>2, <1>3, LoadBecomes DEF c
<1>5. ~ListsNow(l) /\ ~DetailsNow(l) /\ ~AwaitsList(load[l])
  BY <1>1, <1>2, LoadKinds
<1>6. AwaitsList(load'[l])
  BY <1>3, <1>4 DEF AwaitsList
<1>7. /\ list # Nothing => list.n \in Nat
      /\ applied \in Nat
      /\ \A k \in Loads : load[k] # NoLoad => load[k].n \in Nat
  BY <1>2, LoadKinds DEF ExplorerTypes, Lists, Numbers
<1>8. ExplorerTypes'
  BY <1>2, <1>4 DEF ExplorerTypes
<1>9. Numbered'
  <2>1. \A k \in Loads : k # l /\ load'[k] # NoLoad => load'[k].n <= clicks
    BY <1>2, <1>4 DEF Numbered
  <2>2. \A k \in Loads : load'[k] # NoLoad => load'[k].n <= clicks'
    BY <1>2, <1>3, <1>4, <1>7, <2>1
  <2>3. \A k \in Loads : k # l /\ load'[k] # NoLoad => load'[k].n # clicks + 1
    BY <1>2, <1>4, <1>7, <2>1
  <2>4. \A j, k \in Loads :
           load'[j] # NoLoad /\ load'[k] # NoLoad /\ load'[j].n = load'[k].n => j = k
    BY <1>2, <1>3, <1>4, <2>3 DEF Numbered
  <2>5. /\ list # Nothing => list.n <= clicks'
        /\ applied <= clicks'
    BY <1>2, <1>7 DEF Numbered
  <2> QED BY <1>2, <2>2, <2>4, <2>5 DEF Numbered
<1>10. FlagsAwait'
  <2>1. detailLoading => \E k \in Loads : DetailsNow(k)'
    BY <1>2, <1>4, <1>5 DEF FlagsAwait
  <2> QED BY <1>6, <2>1 DEF FlagsAwait
<1>11. SelectedComes'
  <2>1. \A k \in Loads : ListsNow(k)' =>
           \/ load'[k].key = selected'
           \/ \E j \in Loads : /\ ListsNow(j)' /\ load'[j].key = selected'
                               /\ load'[k].n < load'[j].n
    <3>1. ASSUME NEW k \in Loads, ListsNow(k)', k # l
          PROVE  load'[k].n < load'[l].n
      <4>1. load[k] # NoLoad /\ load'[k] = load[k]
        BY <1>2, <1>4, <3>1, LoadKinds
      <4>2. load[k].n \in Nat /\ load[k].n <= clicks
        BY <1>2, <1>7, <4>1 DEF Numbered
      <4> QED BY <1>2, <1>3, <1>4, <4>1, <4>2
    <3> QED BY <1>3, <1>4, <3>1
  <2>2. list # Nothing => list.n < load'[l].n
    BY <1>2, <1>3, <1>4, <1>7 DEF Numbered
  <2>3. list # Nothing =>
           \E j \in Loads : ListsNow(j)' /\ load'[j].key = selected' /\ list.n < load'[j].n
    BY <1>3, <1>4, <2>2
  <2> QED BY <2>1, <2>3 DEF SelectedComes, Newer
<1>12. OneAtATime'
  <2> SUFFICES ASSUME ~overlapped'
               PROVE  OneAtATime'
    BY DEF OneAtATime
  <2>1. ~overlapped /\ \A k \in Loads : ~AwaitsList(load[k])
    BY <1>2
  <2>2. \A k \in Loads : AwaitsList(load'[k]) => k = l
    BY <1>4, <2>1
  <2>3. \A k \in Loads : ListsNow(k)' => k = l
    BY <1>2, <1>4, <2>1, LoadKinds
  <2>4. \A k \in Loads : DetailsNow(k)' => load'[k].n < load'[l].n
    <3>1. ASSUME NEW k \in Loads, DetailsNow(k)'
          PROVE  load'[k].n < load'[l].n
      <4>1. k # l /\ load[k] # NoLoad /\ load'[k] = load[k]
        BY <1>2, <1>4, <3>1, LoadKinds
      <4>2. load[k].n <= clicks /\ load[k].n \in Nat
        BY <1>2, <1>7, <4>1 DEF Numbered
      <4> QED BY <1>2, <1>3, <1>4, <4>1, <4>2
    <3> QED BY <3>1
  <2>5. list # Nothing => list.page = pageIndex
    BY <1>2, <2>1 DEF OneAtATime
  <2> QED BY <1>2, <1>3, <1>4, <2>2, <2>3, <2>4, <2>5 DEF OneAtATime
<1>13. ItemsOfList'
  <2> SUFFICES ASSUME ~overtaken, ~overlapped
               PROVE  ItemsOfList'
    BY <1>2 DEF ItemsOfList
  <2>1. \A k \in Loads : DetailsNow(k)' => DetailsNow(k) /\ load'[k] = load[k]
    BY <1>4
  <2>2. \A k \in Loads : load'[k].pc = "logs" => load[k].pc = "logs" /\ load'[k] = load[k]
    BY <1>3, <1>4
  <2>3. \A k \in Loads : load[k].pc = "logs" => load'[k] = load[k]
    BY <1>4, <1>5 DEF DetailsNow
  <2> QED BY <1>2, <2>1, <2>2, <2>3 DEF ItemsOfList
<1> QED BY <1>8, <1>9, <1>10, <1>11, <1>12, <1>13 DEF ExplorerInv

LEMMA FirstPageToken == FirstPage \in Tokens /\ FirstPage.page = 0
BY Bounds DEF FirstPage, Tokens

LEMMA SelectKeeps ==
    ASSUME ExplorerInv, Click, NEW key \in Resources, Select(key),
           discovered' \subseteq Resources, preset' \in Resources \cup {Nothing}
    PROVE  ExplorerInv'
<1>1. CASE key # selected
  <2>1. /\ selected' = key /\ BeginList(key, FirstPage, 0, TRUE)
        /\ UNCHANGED <<list, detail, logs, detailLoading, pageTokens, pageIndex, applied,
                       overtaken>>
    BY <1>1 DEF Select
  <2>2. pageTokens' \in Seq(Tokens)
    BY <2>1 DEF ExplorerInv, ExplorerTypes
  <2>3. ~overlapped' => ~overlapped
    BY <2>1 DEF BeginList
  <2>4. ~overlapped' => /\ pageIndex < Len(pageTokens')
                        /\ \A i \in DOMAIN pageTokens' : pageTokens'[i].page = i - 1
    BY <2>1, <2>3 DEF ExplorerInv, OneAtATime
  <2>5. PICK token, reset : token = FirstPage /\ reset = TRUE
    OBVIOUS
  <2>6. /\ token \in Tokens /\ token.page = 0 /\ reset \in BOOLEAN /\ 0 \in Nat
        /\ BeginList(key, token, 0, reset)
    BY <2>1, <2>5, FirstPageToken
  <2> QED BY <2>1, <2>2, <2>4, <2>5, <2>6, ListBegins
<1>2. CASE key = selected
  BY <1>2, NothingBegins DEF Select, screen
<1> QED BY <1>1, <1>2

LEMMA ChoicesKeep ==
    ASSUME ExplorerInv,
           \/ \E key \in Resources : ChooseResource(key) \/ Navigate(key)
           \/ \E found \in SUBSET Resources : Discover(found)
    PROVE  ExplorerInv'
<1>1. discovered \subseteq Resources /\ preset \in Resources \cup {Nothing}
      /\ selected \in Resources \cup {Nothing}
  BY DEF ExplorerInv, ExplorerTypes
<1>2. ASSUME NEW key \in Resources, ChooseResource(key)
      PROVE  ExplorerInv'
  BY <1>1, <1>2, SelectKeeps DEF ChooseResource
<1>3. ASSUME NEW key \in Resources, Navigate(key)
      PROVE  ExplorerInv'
  <2>1. PICK k \in Resources : k = IF key \in discovered THEN key ELSE selected
    BY <1>1, <1>3 DEF Navigate
  <2> QED BY <1>1, <1>3, <2>1, SelectKeeps DEF Navigate
<1>4. ASSUME NEW found \in SUBSET Resources, Discover(found)
      PROVE  ExplorerInv'
  <2>1. Click /\ discovered' = found /\ preset' = preset
    BY <1>4 DEF Discover
  <2>2. CASE preset \in found
    BY <1>1, <1>4, <2>1, <2>2, SelectKeeps DEF Discover
  <2>3. CASE preset \notin found /\ selected = Nothing /\ found # {}
    <3>1. PICK key \in found : Select(key)
      BY <1>4, <2>3 DEF Discover
    <3> QED BY <1>1, <2>1, <3>1, SelectKeeps
  <2>4. CASE preset \notin found /\ ~(selected = Nothing /\ found # {})
    BY <1>1, <1>4, <2>1, <2>4, NothingBegins DEF Discover
  <2> QED BY <2>2, <2>3, <2>4
<1> QED BY <1>2, <1>3, <1>4

\* The tokens of the pages so far, and of the next one.
NextTokens(s, n, t) == SubSeq(s \o [i \in 1..(n + 1) |-> FirstPage], 1, n + 1) \o <<t>>

Extends(u, s, n, t) ==
    /\ u \in Seq(Tokens)
    /\ n < Len(s) => /\ Len(u) = n + 2
                     /\ \A i \in 1..(n + 1) : u[i] = s[i]
                     /\ u[n + 2] = t

LEMMA TokensKept ==
    ASSUME NEW s \in Seq(Tokens), NEW n \in Nat, NEW t \in Tokens
    PROVE  Extends(NextTokens(s, n, t), s, n, t)
<1> DEFINE p == [i \in 1..(n + 1) |-> FirstPage]
           v == s \o p
           w == SubSeq(v, 1, n + 1)
<1>1. p \in Seq(Tokens) /\ Len(p) = n + 1
  BY FirstPageToken
<1> HIDE DEF p
<1>2. v \in Seq(Tokens) /\ Len(v) = Len(s) + n + 1 /\ \A i \in 1..Len(s) : v[i] = s[i]
  <2>1. v \in Seq(Tokens)
    BY <1>1
  <2>2. Len(v) = Len(s) + Len(p)
    BY <1>1, ConcatProperties
  <2>3. \A i \in 1..Len(s) : v[i] = s[i]
    BY <1>1, ConcatProperties
  <2> QED BY <1>1, <2>1, <2>2, <2>3
<1> HIDE DEF v
<1>3. Len(s) \in Nat
  OBVIOUS
<1>4. w \in Seq(Tokens) /\ Len(w) = n + 1 /\ \A i \in 1..(n + 1) : w[i] = v[i]
  BY <1>2, <1>3
<1> HIDE DEF w
<1>5. /\ w \o <<t>> \in Seq(Tokens) /\ Len(w \o <<t>>) = n + 2
      /\ \A i \in 1..(n + 1) : (w \o <<t>>)[i] = w[i]
      /\ (w \o <<t>>)[n + 2] = t
  BY <1>4
<1>6. NextTokens(s, n, t) = w \o <<t>>
  BY DEF w, v, p, NextTokens
<1>7. n < Len(s) => \A i \in 1..(n + 1) : v[i] = s[i]
  BY <1>2, <1>3
<1> QED BY <1>4, <1>5, <1>6, <1>7 DEF Extends

LEMMA PagesKeep ==
    ASSUME ExplorerInv, LoadAgain \/ LoadNextPage \/ LoadPreviousPage
    PROVE  ExplorerInv'
<1>1. /\ Click /\ selected \in discovered
      /\ UNCHANGED <<discovered, preset, selected, list, detail, logs, detailLoading,
                     pageIndex, applied, overtaken>>
  BY DEF LoadAgain, LoadNextPage, LoadPreviousPage, Ready
<1>2. /\ selected \in Resources /\ discovered' \subseteq Resources
      /\ preset' \in Resources \cup {Nothing}
      /\ pageTokens \in Seq(Tokens) /\ pageIndex \in Nat
  BY <1>1 DEF ExplorerInv, ExplorerTypes
<1>3. ~overlapped' => ~overlapped
  BY DEF LoadAgain, LoadNextPage, LoadPreviousPage, BeginList
<1>4. ~overlapped => /\ pageIndex < Len(pageTokens)
                     /\ \A i \in DOMAIN pageTokens : pageTokens[i].page = i - 1
                     /\ list # Nothing => list.page = pageIndex
  BY DEF ExplorerInv, OneAtATime
<1>5. CASE LoadAgain
  <2>1. BeginList(selected, FirstPage, 0, TRUE) /\ UNCHANGED pageTokens
    BY <1>5 DEF LoadAgain
  <2>2. ~overlapped' => /\ pageIndex < Len(pageTokens')
                        /\ \A i \in DOMAIN pageTokens' : pageTokens'[i].page = i - 1
    BY <1>3, <1>4, <2>1
  <2>3. PICK token, reset : token = FirstPage /\ reset = TRUE
    OBVIOUS
  <2>4. /\ token \in Tokens /\ token.page = 0 /\ reset \in BOOLEAN /\ 0 \in Nat
        /\ BeginList(selected, token, 0, reset)
    BY <2>1, <2>3, FirstPageToken
  <2>5. pageTokens' \in Seq(Tokens)
    BY <1>2, <2>1
  <2> QED BY <1>1, <1>2, <2>2, <2>3, <2>4, <2>5, ListBegins
<1>6. CASE LoadNextPage
  <2>1. PICK token : token = [key |-> list.key, page |-> list.page + 1]
    OBVIOUS
  <2>2. /\ list # Nothing /\ list.more
        /\ pageTokens' = SubSeq(pageTokens \o [i \in 1..(pageIndex + 1) |-> FirstPage],
                                1, pageIndex + 1) \o <<token>>
        /\ BeginList(selected, token, pageIndex + 1, FALSE)
    BY <1>6, <2>1 DEF LoadNextPage
  <2>3. list \in Lists /\ list.page + 1 < MaxPages
    BY <2>2 DEF ExplorerInv, ExplorerTypes, Numbered
  <2>4. token \in Tokens /\ token.page = list.page + 1 /\ list.page \in Nat
    BY <2>1, <2>3, Bounds DEF Lists, Tokens
  <2>5. PICK u : u = pageTokens'
    OBVIOUS
  <2>6. /\ u \in Seq(Tokens)
        /\ pageIndex < Len(pageTokens) =>
             /\ Len(u) = pageIndex + 2
             /\ \A i \in 1..(pageIndex + 1) : u[i] = pageTokens[i]
             /\ u[pageIndex + 2] = token
    <3>1. u = NextTokens(pageTokens, pageIndex, token)
      BY <2>2, <2>5 DEF NextTokens
    <3>2. pageTokens \in Seq(Tokens) /\ pageIndex \in Nat /\ token \in Tokens
      BY <1>2, <2>4
    <3>3. Extends(u, pageTokens, pageIndex, token)
      BY <3>1, <3>2, TokensKept
    <3> QED BY <3>3 DEF Extends
  <2>7. ~overlapped => /\ pageIndex < Len(u)
                       /\ \A i \in DOMAIN u : u[i].page = i - 1
                       /\ token.page = pageIndex + 1 /\ pageIndex + 1 < Len(u)
    <3> HAVE ~overlapped
    <3>1. PICK m \in Nat : m = Len(pageTokens)
      BY <1>2
    <3>2. DOMAIN pageTokens = 1..m /\ pageIndex < m
      BY <1>2, <1>4, <3>1
    <3>3. DOMAIN u = 1..(pageIndex + 2)
      BY <2>6, <3>1, <3>2
    <3>4. \A i \in 1..(pageIndex + 1) : u[i].page = i - 1
      BY <1>2, <1>4, <2>6, <3>1, <3>2
    <3>5. u[pageIndex + 2].page = pageIndex + 1
      BY <1>4, <2>2, <2>4, <2>6, <3>1, <3>2
    <3>6. token.page = pageIndex + 1
      BY <1>4, <2>2, <2>4
    <3>7. Len(u) = pageIndex + 2
      BY <2>6, <3>1, <3>2
    <3>8. \A i \in 1..(pageIndex + 2) : i \in 1..(pageIndex + 1) \/ i = pageIndex + 2
      BY <1>2
    <3>9. \A i \in DOMAIN u : u[i].page = i - 1
      BY <1>2, <3>3, <3>4, <3>5, <3>8
    <3> QED BY <1>2, <3>6, <3>7, <3>9
  <2>8. ~overlapped' => /\ pageIndex < Len(pageTokens')
                        /\ \A i \in DOMAIN pageTokens' : pageTokens'[i].page = i - 1
                        /\ token.page = pageIndex + 1 /\ pageIndex + 1 < Len(pageTokens')
    BY <1>3, <2>5, <2>7
  <2>9. pageIndex + 1 \in Nat /\ pageTokens' \in Seq(Tokens)
    BY <1>2, <2>5, <2>6
  <2> QED BY <1>1, <1>2, <2>2, <2>4, <2>8, <2>9, ListBegins
<1>7. CASE LoadPreviousPage
  <2>1. PICK token : token = IF pageIndex \in DOMAIN pageTokens THEN pageTokens[pageIndex]
                             ELSE FirstPage
    OBVIOUS
  <2>2. /\ pageIndex > 0 /\ UNCHANGED pageTokens
        /\ BeginList(selected, token, pageIndex - 1, FALSE)
    BY <1>7, <2>1 DEF LoadPreviousPage
  <2>3. token \in Tokens
    BY <1>2, <2>1, FirstPageToken
  <2>4. pageIndex - 1 \in Nat
    BY <1>2, <2>2
  <2>5. ~overlapped => token.page = pageIndex - 1 /\ pageIndex - 1 < Len(pageTokens)
    <3> HAVE ~overlapped
    <3>1. PICK m \in Nat : m = Len(pageTokens)
      BY <1>2
    <3>2. DOMAIN pageTokens = 1..m /\ pageIndex < m
      BY <1>2, <1>4, <3>1
    <3> QED BY <1>2, <1>4, <2>1, <2>2, <3>1, <3>2
  <2>6. ~overlapped' => /\ pageIndex < Len(pageTokens')
                        /\ \A i \in DOMAIN pageTokens' : pageTokens'[i].page = i - 1
                        /\ token.page = pageIndex - 1 /\ pageIndex - 1 < Len(pageTokens')
    BY <1>3, <1>4, <2>2, <2>5
  <2>7. pageTokens' \in Seq(Tokens)
    BY <1>2, <2>2
  <2> QED BY <1>1, <1>2, <2>2, <2>3, <2>4, <2>6, <2>7, ListBegins
<1> QED BY <1>5, <1>6, <1>7

LEMMA OpenKeeps ==
    ASSUME ExplorerInv, NEW nth \in {1, 2}, OpenItem(nth)
    PROVE  ExplorerInv'
<1>1. PICK l \in Loads :
         /\ load[l] = NoLoad
         /\ load' = [load EXCEPT ![l] =
                       Details(clicks + 1, list.key, [of |-> list.n, nth |-> nth], FALSE)]
  BY DEF OpenItem
<1> DEFINE c == Details(clicks + 1, list.key, [of |-> list.n, nth |-> nth], FALSE)
<1>2. /\ Click /\ list # Nothing /\ ~listLoading
      /\ detailLoading' = TRUE
      /\ UNCHANGED <<discovered, preset, selected, list, detail, logs, listLoading,
                     pageTokens, pageIndex, applied, overtaken, overlapped>>
  BY DEF OpenItem
<1>3. /\ ExplorerTypes /\ Numbered /\ FlagsAwait /\ SelectedComes /\ OneAtATime /\ ItemsOfList
      /\ clicks \in Nat /\ clicks' = clicks + 1 /\ clicks' \in Numbers
      /\ list \in Lists
  BY <1>2, Bounds DEF Click, ExplorerInv, ExplorerTypes, Numbers
<1>4. /\ c \in DetailLoads /\ c.pc = "detail" /\ c.n = clicks + 1 /\ c.first = FALSE
      /\ c.item.of = list.n
  <2>1. list.key \in Resources /\ list.n \in Numbers /\ clicks + 1 \in Numbers
    BY <1>3 DEF Lists
  <2> QED BY <2>1 DEF DetailLoads, Details, Item
<1> HIDE DEF c
<1>5. /\ load' \in [Loads -> {NoLoad} \cup ListLoads \cup DetailLoads]
      /\ load'[l] = c
      /\ \A k \in Loads : k # l => load'[k] = load[k]
      /\ \A k \in Loads : k # l => /\ ListsNow(k)' <=> ListsNow(k)
                                   /\ DetailsNow(k)' <=> DetailsNow(k)
      /\ ~ListsNow(l)' /\ DetailsNow(l)'
  BY <1>1, <1>3, <1>4, LoadBecomes DEF c
<1>6. ~ListsNow(l) /\ ~DetailsNow(l) /\ ~AwaitsList(load[l])
  BY <1>1, <1>3, LoadKinds
<1>7. ~AwaitsList(load'[l])
  BY <1>4, <1>5 DEF AwaitsList
<1>8. /\ list.n \in Nat /\ applied \in Nat
      /\ \A k \in Loads : load[k] # NoLoad => load[k].n \in Nat
  BY <1>3, LoadKinds DEF ExplorerTypes, Lists, Numbers
<1>9. ExplorerTypes'
  BY <1>2, <1>3, <1>5 DEF ExplorerTypes
<1>10. Numbered'
  <2>1. \A k \in Loads : k # l /\ load'[k] # NoLoad => load'[k].n <= clicks
    BY <1>3, <1>5 DEF Numbered
  <2>2. \A k \in Loads : load'[k] # NoLoad => load'[k].n <= clicks'
    BY <1>3, <1>4, <1>5, <1>8, <2>1
  <2>3. \A k \in Loads : k # l /\ load'[k] # NoLoad => load'[k].n # clicks + 1
    BY <1>3, <1>5, <1>8, <2>1
  <2>4. \A j, k \in Loads :
           load'[j] # NoLoad /\ load'[k] # NoLoad /\ load'[j].n = load'[k].n => j = k
    BY <1>3, <1>4, <1>5, <2>3 DEF Numbered
  <2>5. list.n <= clicks' /\ applied <= clicks' /\ (list.more => list.page + 1 < MaxPages)
    BY <1>2, <1>3, <1>8 DEF Numbered
  <2> QED BY <1>2, <2>2, <2>4, <2>5 DEF Numbered
<1>11. FlagsAwait'
  <2>1. \A k \in Loads : AwaitsList(load[k]) => AwaitsList(load'[k])
    BY <1>5, <1>6
  <2> QED BY <1>2, <1>3, <1>5, <2>1 DEF FlagsAwait
<1>12. SelectedComes'
  <2>1. \A k \in Loads : ListsNow(k)' <=> ListsNow(k)
    BY <1>5, <1>6
  <2>2. \A k \in Loads : ListsNow(k) => load'[k] = load[k]
    BY <1>5, <1>6
  <2> QED BY <1>2, <1>3, <2>1, <2>2 DEF SelectedComes, Newer
<1>13. OneAtATime'
  <2> SUFFICES ASSUME ~overlapped
               PROVE  OneAtATime'
    BY <1>2 DEF OneAtATime
  <2>1. \A k \in Loads : ~AwaitsList(load[k])
    BY <1>2, <1>3 DEF OneAtATime
  <2>2. \A k \in Loads : ~ListsNow(k)
    BY <1>3, <2>1, LoadKinds
  <2>3. \A k \in Loads : ~AwaitsList(load'[k]) /\ ~ListsNow(k)'
    BY <1>5, <1>7, <2>1, <2>2
  <2> QED BY <1>2, <1>3, <2>3 DEF OneAtATime
<1>14. ItemsOfList'
  <2> SUFFICES ASSUME ~overtaken, ~overlapped
               PROVE  ItemsOfList'
    BY <1>2 DEF ItemsOfList
  <2>1. \A k \in Loads : load'[k].pc = "logs" <=> load[k].pc = "logs"
    <3>1. load[l].pc # "logs"
      BY <1>6 DEF DetailsNow
    <3> QED BY <1>4, <1>5, <3>1
  <2>2. \A k \in Loads : load[k].pc = "logs" => load'[k] = load[k]
    BY <1>4, <1>5, <1>6 DEF DetailsNow
  <2>3. \A k \in Loads : DetailsNow(k)' =>
           load'[k].n < applied \/ (list # Nothing /\ load'[k].item.of = list.n)
    BY <1>2, <1>3, <1>4, <1>5 DEF ItemsOfList
  <2> QED BY <1>2, <1>3, <2>1, <2>2, <2>3 DEF ItemsOfList
<1> QED BY <1>9, <1>10, <1>11, <1>12, <1>13, <1>14 DEF ExplorerInv
-----------------------------------------------------------------------------
(* The answer of a load that no later answer overtook is the last one now.  *)
LEMMA Applies ==
    ASSUME ExplorerInv, NEW l \in Loads, load[l] # NoLoad, Apply(load[l])
    PROVE  /\ load[l].n \in Nat /\ applied \in Nat /\ applied' \in Numbers /\ applied' \in Nat
           /\ applied <= applied' /\ load[l].n <= applied' /\ applied' <= clicks
           /\ overtaken' \in BOOLEAN
           /\ ~overtaken' => ~overtaken /\ applied <= load[l].n /\ applied' = load[l].n
           /\ UNCHANGED <<discovered, preset, selected, clicks, overlapped>>
<1>1. /\ load[l].n \in Nat /\ load[l].n <= clicks /\ applied \in Nat /\ applied <= clicks
      /\ overtaken \in BOOLEAN /\ clicks \in Nat /\ clicks <= MaxClicks /\ MaxClicks \in Nat
  BY LoadKinds, Bounds DEF ExplorerInv, ExplorerTypes, Numbered, Numbers
<1>2. /\ applied' = IF load[l].n > applied THEN load[l].n ELSE applied
      /\ overtaken' = (overtaken \/ load[l].n < applied)
      /\ UNCHANGED <<discovered, preset, selected, clicks, overlapped>>
  BY DEF Apply
<1>3. /\ applied' \in Nat /\ applied <= applied' /\ load[l].n <= applied' /\ applied' <= clicks
      /\ ~(load[l].n < applied) => applied' = load[l].n /\ applied <= load[l].n
  BY <1>1, <1>2
<1>4. applied' \in Numbers
  BY <1>1, <1>3 DEF Numbers
<1>5. /\ overtaken' \in BOOLEAN
      /\ ~overtaken' => ~overtaken /\ ~(load[l].n < applied)
  BY <1>1, <1>2
<1> QED BY <1>1, <1>2, <1>3, <1>4, <1>5

(* A load whose answer comes ends, or goes on as one of details, with the    *)
(* list that it brought, or none, on screen.                                *)
Continues(l, c) ==
    /\ load[l] # NoLoad
    /\ c = NoLoad \/ (c \in DetailLoads /\ c.n = load[l].n)
    /\ load' = [load EXCEPT ![l] = c]
    /\ Apply(load[l])
    /\ \/ ~ListsNow(l) /\ list' = list
       \/ list' = Nothing
       \/ /\ ListsNow(l) /\ list' \in Lists
          /\ list'.n = load[l].n /\ list'.key = load[l].key
          /\ list'.more => list'.page + 1 < MaxPages

LEMMA OthersGoOn ==
    ASSUME ExplorerInv, NEW l \in Loads, NEW c, Continues(l, c)
    PROVE  /\ load' \in [Loads -> {NoLoad} \cup ListLoads \cup DetailLoads]
           /\ load'[l] = c
           /\ \A k \in Loads : k # l => /\ load'[k] = load[k]
                                        /\ ListsNow(k)' <=> ListsNow(k)
                                        /\ DetailsNow(k)' <=> DetailsNow(k)
           /\ ~ListsNow(l)'
           /\ DetailsNow(l)' <=> c # NoLoad
           /\ DetailsNow(l)' => /\ c \in DetailLoads
                                /\ AwaitsList(c) <=> c.first
           /\ c = NoLoad => ~AwaitsList(c)
           /\ list' \in {Nothing} \cup Lists
<1>1. c \in {NoLoad} \cup ListLoads \cup DetailLoads /\ ExplorerTypes
      /\ load' = [load EXCEPT ![l] = c]
  BY DEF Continues, ExplorerInv
<1>2. /\ load' \in [Loads -> {NoLoad} \cup ListLoads \cup DetailLoads]
      /\ load'[l] = c
      /\ \A k \in Loads : k # l => load'[k] = load[k]
      /\ \A k \in Loads : k # l => /\ ListsNow(k)' <=> ListsNow(k)
                                   /\ DetailsNow(k)' <=> DetailsNow(k)
      /\ ListsNow(l)' <=> c.pc = "list"
      /\ DetailsNow(l)' <=> c.pc \in {"detail", "logs"}
  BY <1>1, LoadBecomes
<1>3. NoLoad.pc = "idle" /\ \A d \in DetailLoads : d.pc \in {"detail", "logs"}
  BY DEF NoLoad, DetailLoads
<1>4. list' \in {Nothing} \cup Lists
  BY <1>1 DEF Continues, ExplorerTypes
<1> QED BY <1>2, <1>3, <1>4 DEF Continues, AwaitsList

LEMMA StillNumbered ==
    ASSUME ExplorerInv, NEW l \in Loads, NEW c, Continues(l, c)
    PROVE  Numbered'
<1>1. Numbered /\ load[l] # NoLoad /\ Apply(load[l])
  BY DEF ExplorerInv, Continues
<1>2. applied' <= clicks /\ clicks' = clicks
  BY <1>1, Applies
<1>3. /\ load'[l] = c /\ (c # NoLoad => c.n = load[l].n)
      /\ \A k \in Loads : k # l => load'[k] = load[k]
  BY OthersGoOn DEF Continues
<1>4. \A k \in Loads : load'[k] # NoLoad => load[k] # NoLoad /\ load'[k].n = load[k].n
  BY <1>1, <1>3
<1>5. list' # Nothing => list'.n <= clicks /\ (list'.more => list'.page + 1 < MaxPages)
  BY <1>1 DEF Continues, Numbered
<1> QED BY <1>1, <1>2, <1>4, <1>5 DEF Numbered

LEMMA SelectedStillComes ==
    ASSUME ExplorerInv, NEW l \in Loads, NEW c, Continues(l, c)
    PROVE  SelectedComes'
<1>1. /\ SelectedComes /\ load[l] # NoLoad /\ Apply(load[l]) /\ ExplorerTypes
  BY DEF ExplorerInv, Continues
<1>2. /\ load[l].n \in Nat /\ applied \in Nat /\ applied' \in Nat
      /\ applied <= applied' /\ load[l].n <= applied'
      /\ ~overtaken' => ~overtaken /\ applied <= load[l].n /\ applied' = load[l].n
      /\ selected' = selected
  BY <1>1, Applies
<1>3. /\ \A k \in Loads : k # l => load'[k] = load[k] /\ (ListsNow(k)' <=> ListsNow(k))
      /\ ~ListsNow(l)'
  BY OthersGoOn
<1>4. /\ \A k \in Loads : load[k] # NoLoad => load[k].n \in Nat
      /\ \A k \in Loads : ListsNow(k) => load[k] # NoLoad
      /\ list # Nothing => list.n \in Nat
  BY <1>1, LoadKinds DEF ExplorerTypes, Lists, Numbers
<1>5. ASSUME NEW n \in Nat, Newer(n)
      PROVE  \/ n < applied'
             \/ \E j \in Loads : ListsNow(j)' /\ load'[j].key = selected' /\ n < load'[j].n
  <2>1. PICK j \in Loads : ListsNow(j) /\ load[j].key = selected /\ n < load[j].n
    BY <1>5 DEF Newer
  <2>2. CASE j = l
    BY <1>2, <1>5, <2>1, <2>2
  <2>3. CASE j # l
    BY <1>2, <1>3, <2>1, <2>3
  <2> QED BY <2>2, <2>3
<1>6. ASSUME NEW k \in Loads, ListsNow(k)'
      PROVE  \/ load'[k].key = selected' \/ load'[k].n < applied'
             \/ \E j \in Loads : /\ ListsNow(j)' /\ load'[j].key = selected'
                                 /\ load'[k].n < load'[j].n
  <2>1. k # l /\ ListsNow(k) /\ load'[k] = load[k] /\ load[k].n \in Nat
    BY <1>3, <1>4, <1>6
  <2>2. load[k].key = selected \/ load[k].n < applied \/ Newer(load[k].n)
    BY <1>1, <2>1 DEF SelectedComes
  <2>3. CASE load[k].n < applied
    BY <1>2, <2>1, <2>3
  <2>4. CASE Newer(load[k].n)
    BY <1>5, <2>1, <2>4
  <2> QED BY <1>2, <2>1, <2>2, <2>3, <2>4
<1>7. ASSUME ~overtaken', list' # Nothing
      PROVE  \/ list'.key = selected'
             \/ \E j \in Loads : ListsNow(j)' /\ load'[j].key = selected' /\ list'.n < load'[j].n
  <2>1. CASE ~ListsNow(l) /\ list' = list
    <3>1. list.key = selected \/ Newer(list.n)
      BY <1>1, <1>2, <1>7, <2>1 DEF SelectedComes
    <3>2. CASE Newer(list.n)
      <4>1. PICK j \in Loads : ListsNow(j) /\ load[j].key = selected /\ list.n < load[j].n
        BY <3>2 DEF Newer
      <4> QED BY <1>2, <1>3, <2>1, <4>1
    <3> QED BY <1>2, <2>1, <3>1, <3>2
  <2>2. CASE ListsNow(l) /\ list'.n = load[l].n /\ list'.key = load[l].key
    <3>1. load[l].key = selected \/ load[l].n < applied \/ Newer(load[l].n)
      BY <1>1, <2>2 DEF SelectedComes
    <3>2. ~(load[l].n < applied) /\ ~(load[l].n < applied')
      BY <1>2, <1>7
    <3>3. CASE Newer(load[l].n)
      BY <1>2, <1>5, <2>2, <3>2, <3>3
    <3> QED BY <1>2, <2>2, <3>1, <3>2, <3>3
  <2> QED BY <1>7, <2>1, <2>2 DEF Continues
<1> QED BY <1>6, <1>7 DEF SelectedComes, Newer

LEMMA StillOneAtATime ==
    ASSUME ExplorerInv, NEW l \in Loads, NEW c, Continues(l, c),
           c # NoLoad /\ c.first => AwaitsList(load[l]) /\ listLoading' = listLoading,
           ~AwaitsList(load[l]) => listLoading' = listLoading,
           pageTokens' = pageTokens \/ ListsNow(l),
           ~overlapped => /\ pageIndex' < Len(pageTokens')
                          /\ \A i \in DOMAIN pageTokens' : pageTokens'[i].page = i - 1
                          /\ list' # Nothing => list'.page = pageIndex'
    PROVE  OneAtATime'
<1>1. /\ OneAtATime /\ load[l] # NoLoad /\ Apply(load[l]) /\ ExplorerTypes
  BY DEF ExplorerInv, Continues
<1>2. overlapped' = overlapped
  BY <1>1, Applies
<1> SUFFICES ASSUME ~overlapped
             PROVE  OneAtATime'
  BY <1>2 DEF OneAtATime
<1>3. /\ load'[l] = c
      /\ \A k \in Loads : k # l => /\ load'[k] = load[k]
                                   /\ ListsNow(k)' <=> ListsNow(k)
                                   /\ DetailsNow(k)' <=> DetailsNow(k)
      /\ ~ListsNow(l)'
      /\ AwaitsList(c) => AwaitsList(load[l]) /\ listLoading' = listLoading
      /\ DetailsNow(l)' => c.n = load[l].n
  BY OthersGoOn DEF Continues
<1>4. \A k \in Loads : ListsNow(k) => AwaitsList(load[k])
  BY <1>1, LoadKinds
<1>5. \A k \in Loads : AwaitsList(load'[k]) => AwaitsList(load[k])
  BY <1>3
<1>6. \A j, k \in Loads : AwaitsList(load'[j]) /\ AwaitsList(load'[k]) => j = k
  BY <1>1, <1>5 DEF OneAtATime
<1>7. ASSUME NEW k \in Loads, AwaitsList(load'[k])
      PROVE  listLoading'
  <2>1. AwaitsList(load[k]) /\ listLoading
    BY <1>1, <1>5, <1>7 DEF OneAtATime
  <2>2. CASE k = l
    BY <1>3, <1>7, <2>1, <2>2
  <2>3. CASE k # l
    <3>1. ~AwaitsList(load[l])
      BY <1>1, <2>1, <2>3 DEF OneAtATime
    <3> QED BY <2>1, <3>1
  <2> QED BY <2>2, <2>3
<1>8. ASSUME NEW j \in Loads, NEW k \in Loads, ListsNow(j)', DetailsNow(k)'
      PROVE  load'[k].n < load'[j].n
  <2>1. j # l /\ ListsNow(j) /\ load'[j] = load[j]
    BY <1>3, <1>8
  <2>2. CASE k # l
    BY <1>1, <1>3, <1>8, <2>1, <2>2 DEF OneAtATime
  <2>3. CASE k = l
    <3>1. ~ListsNow(l)
      BY <1>1, <1>4, <2>1 DEF OneAtATime
    <3>2. DetailsNow(l)
      BY <1>1, <3>1, LoadKinds
    <3>3. load[l].n < load[j].n
      BY <1>1, <2>1, <3>2 DEF OneAtATime
    <3> QED BY <1>3, <1>8, <2>1, <2>3, <3>3
  <2> QED BY <2>2, <2>3
<1>9. ASSUME NEW k \in Loads, ListsNow(k)'
      PROVE  IF load'[k].reset THEN load'[k].page = 0
             ELSE load'[k].page = load'[k].index /\ load'[k].index < Len(pageTokens')
  <2>1. k # l /\ ListsNow(k) /\ load'[k] = load[k]
    BY <1>3, <1>9
  <2>2. pageTokens' = pageTokens
    BY <1>1, <1>4, <2>1 DEF OneAtATime
  <2> QED BY <1>1, <2>1, <2>2 DEF OneAtATime
<1> QED BY <1>6, <1>7, <1>8, <1>9 DEF OneAtATime
-----------------------------------------------------------------------------
LEMMA ListAnswersKeeps ==
    ASSUME ExplorerInv, NEW l \in Loads, NEW items \in BOOLEAN, NEW more \in BOOLEAN,
           ListAnswers(l, items, more)
    PROVE  ExplorerInv'
<1>1. /\ ExplorerTypes /\ Numbered /\ FlagsAwait /\ OneAtATime /\ ItemsOfList
  BY DEF ExplorerInv
<1>2. /\ ListsNow(l) /\ load[l] \in ListLoads /\ load[l] # NoLoad /\ AwaitsList(load[l])
      /\ ~DetailsNow(l)
  BY <1>1, LoadKinds DEF ListAnswers, ListsNow
<1>3. PICK c : c = IF items THEN Details(load[l].n, load[l].key, [of |-> load[l].n, nth |-> 1], TRUE)
                   ELSE NoLoad
  OBVIOUS
<1>4. /\ load' = [load EXCEPT ![l] = c]
      /\ list' = [n |-> load[l].n, key |-> load[l].key, page |-> load[l].page,
                  items |-> items, more |-> more]
      /\ more => load[l].page + 1 < MaxPages
      /\ detail' = Nothing /\ logs' = Nothing
      /\ detailLoading' = (detailLoading \/ items)
      /\ listLoading' = (listLoading /\ items)
      /\ pageTokens' = IF load[l].reset THEN <<FirstPage>> ELSE pageTokens
      /\ pageIndex' = IF load[l].reset THEN 0 ELSE load[l].index
      /\ Apply(load[l])
  BY <1>3 DEF ListAnswers, ShowList, PageOfLoad
<1>5. /\ list' \in Lists /\ list'.n = load[l].n /\ list'.key = load[l].key
      /\ list'.page = load[l].page /\ list'.more = more /\ list' # Nothing
  BY <1>2, <1>4, NothingShown DEF Lists, ListLoads
<1>6. /\ items => /\ c \in DetailLoads /\ c.n = load[l].n /\ c.pc = "detail" /\ c.first = TRUE
                  /\ c.item.of = load[l].n
      /\ ~items => c = NoLoad
      /\ c = NoLoad \/ c \in DetailLoads
      /\ c.pc # "logs"
  <2>1. NoLoad.pc # "logs"
    BY DEF NoLoad
  <2> QED BY <1>2, <1>3, <2>1 DEF Details, DetailLoads, ListLoads, Item
<1>7. Continues(l, c)
  BY <1>2, <1>4, <1>5, <1>6 DEF Continues
<1>8. /\ load' \in [Loads -> {NoLoad} \cup ListLoads \cup DetailLoads]
      /\ load'[l] = c
      /\ \A k \in Loads : k # l => /\ load'[k] = load[k]
                                   /\ ListsNow(k)' <=> ListsNow(k)
                                   /\ DetailsNow(k)' <=> DetailsNow(k)
      /\ DetailsNow(l)' <=> c # NoLoad
      /\ DetailsNow(l)' => (AwaitsList(c) <=> c.first)
  BY <1>7, OthersGoOn
<1>9. /\ applied' \in Numbers /\ overtaken' \in BOOLEAN /\ applied' \in Nat
      /\ applied <= applied' /\ load[l].n <= applied' /\ applied \in Nat
      /\ ~overtaken' => ~overtaken /\ applied' = load[l].n
      /\ UNCHANGED <<discovered, preset, selected, clicks, overlapped>>
  BY <1>2, <1>4, Applies
<1>10. ExplorerTypes'
  <2>1. pageTokens' \in Seq(Tokens) /\ pageIndex' \in Nat
    <3>1. <<FirstPage>> \in Seq(Tokens)
      BY FirstPageToken
    <3>2. load[l].index \in Nat
      BY <1>2 DEF ListLoads
    <3> QED BY <1>1, <1>4, <3>1, <3>2 DEF ExplorerTypes
  <2>2. detailLoading' \in BOOLEAN /\ listLoading' \in BOOLEAN
    BY <1>1, <1>4 DEF ExplorerTypes
  <2> QED BY <1>1, <1>4, <1>5, <1>8, <1>9, <2>1, <2>2 DEF ExplorerTypes
<1>11. FlagsAwait'
  <2>1. listLoading' => \E k \in Loads : AwaitsList(load'[k])
    <3>1. items => AwaitsList(load'[l])
      BY <1>6, <1>8 DEF AwaitsList
    <3> QED BY <1>4, <3>1
  <2>2. detailLoading' => \E k \in Loads : DetailsNow(k)'
    <3>1. items => DetailsNow(l)'
      BY <1>6, <1>8 DEF DetailsNow
    <3>2. detailLoading => \E k \in Loads : DetailsNow(k)'
      BY <1>1, <1>2, <1>8 DEF FlagsAwait
    <3> QED BY <1>4, <3>1, <3>2
  <2> QED BY <2>1, <2>2 DEF FlagsAwait
<1>12. OneAtATime'
  <2>1. ~overlapped => /\ pageIndex' < Len(pageTokens')
                       /\ \A i \in DOMAIN pageTokens' : pageTokens'[i].page = i - 1
                       /\ list' # Nothing => list'.page = pageIndex'
    <3> HAVE ~overlapped
    <3>1. IF load[l].reset THEN load[l].page = 0
          ELSE load[l].page = load[l].index /\ load[l].index < Len(pageTokens)
      BY <1>1, <1>2 DEF OneAtATime
    <3>2. CASE load[l].reset
      <4>1. pageTokens' = <<FirstPage>> /\ pageIndex' = 0 /\ list'.page = 0
        BY <1>4, <1>5, <3>1, <3>2
      <4> QED BY <4>1, FirstPageToken
    <3>3. CASE ~load[l].reset
      BY <1>1, <1>4, <1>5, <3>1, <3>3 DEF OneAtATime
    <3> QED BY <3>2, <3>3
  <2>2. c # NoLoad /\ c.first => AwaitsList(load[l]) /\ listLoading' = listLoading
    BY <1>1, <1>2, <1>4, <1>6 DEF ExplorerTypes
  <2> QED BY <1>2, <1>7, <2>1, <2>2, StillOneAtATime
<1>13. ItemsOfList'
  <2> SUFFICES ASSUME ~overtaken', ~overlapped
               PROVE  ItemsOfList'
    BY <1>9 DEF ItemsOfList
  <2>1. \A k \in Loads : k # l /\ DetailsNow(k)' => load'[k].n < applied'
    BY <1>1, <1>2, <1>8, <1>9 DEF OneAtATime
  <2>2. DetailsNow(l)' => load'[l].item.of = list'.n
    BY <1>5, <1>6, <1>8
  <2>3. load'[l].pc # "logs"
    BY <1>6, <1>8
  <2>4. \A k \in Loads : load'[k].pc = "logs" => load'[k].n < applied'
    BY <2>1, <2>3 DEF DetailsNow
  <2> QED BY <1>4, <1>5, <2>1, <2>2, <2>4 DEF ItemsOfList
<1> QED BY <1>7, <1>10, <1>11, <1>12, <1>13, StillNumbered, SelectedStillComes DEF ExplorerInv

LEMMA ListFailsKeeps ==
    ASSUME ExplorerInv, NEW l \in Loads, ListFails(l)
    PROVE  ExplorerInv'
<1>1. /\ ExplorerTypes /\ Numbered /\ FlagsAwait /\ OneAtATime /\ ItemsOfList
  BY DEF ExplorerInv
<1>2. /\ ListsNow(l) /\ load[l] # NoLoad /\ AwaitsList(load[l]) /\ ~DetailsNow(l)
  BY <1>1, LoadKinds DEF ListFails, ListsNow
<1>3. PICK c : c = NoLoad
  OBVIOUS
<1>4. /\ load' = [load EXCEPT ![l] = c]
      /\ list' = Nothing /\ detail' = Nothing /\ logs' = Nothing
      /\ listLoading' = FALSE
      /\ UNCHANGED <<detailLoading, pageTokens, pageIndex>>
      /\ Apply(load[l])
  BY <1>3 DEF ListFails
<1>5. Continues(l, c)
  BY <1>2, <1>3, <1>4 DEF Continues
<1>6. /\ load' \in [Loads -> {NoLoad} \cup ListLoads \cup DetailLoads]
      /\ load'[l] = c
      /\ \A k \in Loads : k # l => /\ load'[k] = load[k]
                                   /\ DetailsNow(k)' <=> DetailsNow(k)
      /\ ~DetailsNow(l)'
  BY <1>3, <1>5, OthersGoOn
<1>7. /\ applied' \in Numbers /\ overtaken' \in BOOLEAN
      /\ ~overtaken' => ~overtaken /\ applied' = load[l].n
      /\ UNCHANGED <<discovered, preset, selected, clicks, overlapped>>
  BY <1>2, <1>4, Applies
<1>8. ExplorerTypes'
  BY <1>1, <1>4, <1>6, <1>7 DEF ExplorerTypes
<1>9. FlagsAwait'
  BY <1>1, <1>2, <1>4, <1>6 DEF FlagsAwait
<1>10. OneAtATime'
  <2>1. ~overlapped => /\ pageIndex' < Len(pageTokens')
                       /\ \A i \in DOMAIN pageTokens' : pageTokens'[i].page = i - 1
                       /\ list' # Nothing => list'.page = pageIndex'
    BY <1>1, <1>4 DEF OneAtATime
  <2> QED BY <1>2, <1>3, <1>4, <1>5, <2>1, StillOneAtATime
<1>11. ItemsOfList'
  <2> SUFFICES ASSUME ~overtaken', ~overlapped
               PROVE  ItemsOfList'
    BY <1>7 DEF ItemsOfList
  <2>1. \A k \in Loads : DetailsNow(k)' => load'[k].n < applied'
    BY <1>1, <1>2, <1>6, <1>7 DEF OneAtATime
  <2>2. \A k \in Loads : load'[k].pc = "logs" => load'[k].n < applied'
    BY <2>1 DEF DetailsNow
  <2> QED BY <1>4, <2>1, <2>2 DEF ItemsOfList
<1> QED BY <1>5, <1>8, <1>9, <1>10, <1>11, StillNumbered, SelectedStillComes DEF ExplorerInv
-----------------------------------------------------------------------------
(* What holds of the screen when details, or logs, answer in time: they are  *)
(* of the list on screen, and what other loads of logs bring comes too late. *)
LEMMA InTime ==
    ASSUME ExplorerInv, NEW l \in Loads, NEW c, DetailsNow(l), Continues(l, c),
           list' = list, ~overtaken', ~overlapped
    PROVE  /\ ~overtaken /\ applied' = load[l].n /\ applied' \in Nat
           /\ list # Nothing /\ load[l].item.of = list.n
           /\ \A k \in Loads : k # l /\ DetailsNow(k)' =>
                 load'[k].n < applied' \/ load'[k].item.of = list.n
           /\ \A k \in Loads : k # l /\ load'[k].pc = "logs" => load'[k].n < applied'
           /\ load[l].pc = "logs" =>
                 detail # Nothing /\ detail.n = load[l].n /\ detail.item = load[l].item
<1>1. /\ ExplorerTypes /\ Numbered /\ ItemsOfList /\ load[l] # NoLoad /\ Apply(load[l])
  BY DEF ExplorerInv, Continues
<1>2. /\ load[l].n \in Nat /\ applied \in Nat /\ applied' \in Nat
      /\ ~overtaken /\ applied <= load[l].n /\ applied' = load[l].n
  BY <1>1, Applies
<1>3. \A k \in Loads : k # l => load'[k] = load[k] /\ (DetailsNow(k)' <=> DetailsNow(k))
  BY OthersGoOn
<1>4. list # Nothing /\ load[l].item.of = list.n
  BY <1>1, <1>2 DEF ItemsOfList
<1>5. ASSUME NEW k \in Loads, k # l, DetailsNow(k)'
      PROVE  load'[k].n < applied' \/ load'[k].item.of = list.n
  <2>1. DetailsNow(k) /\ load'[k] = load[k]
    BY <1>3, <1>5
  <2>2. load[k].n \in Nat
    BY <1>1, <2>1, LoadKinds
  <2> QED BY <1>1, <1>2, <2>1, <2>2 DEF ItemsOfList
<1>6. ASSUME NEW k \in Loads, k # l, load'[k].pc = "logs"
      PROVE  load'[k].n < applied'
  <2>1. load'[k] = load[k] /\ load[k].pc = "logs" /\ DetailsNow(k)
    BY <1>3, <1>6 DEF DetailsNow
  <2>2. load[k].n \in Nat /\ load[k] # NoLoad
    BY <1>1, <2>1, LoadKinds
  <2>3. load[k].n # load[l].n
    BY <1>1, <1>6, <2>2 DEF Numbered
  <2>4. load[k].n < applied \/ (detail # Nothing /\ detail.n = load[k].n)
    BY <1>1, <1>2, <2>1 DEF ItemsOfList
  <2>5. detail # Nothing => detail.n <= applied
    BY <1>1, <1>2 DEF ItemsOfList
  <2> QED BY <1>2, <2>1, <2>2, <2>3, <2>4, <2>5
<1>7. load[l].pc = "logs" =>
         detail # Nothing /\ detail.n = load[l].n /\ detail.item = load[l].item
  BY <1>1, <1>2 DEF ItemsOfList
<1> QED BY <1>2, <1>4, <1>5, <1>6, <1>7

(* The answer to a load of details keeps the rest: it ends, or its logs are  *)
(* asked for.                                                               *)
LEMMA DetailsKeep ==
    ASSUME ExplorerInv, NEW l \in Loads, NEW c, DetailsNow(l),
           c = NoLoad \/ (c \in DetailLoads /\ c.n = load[l].n /\ c.first = load[l].first),
           load' = [load EXCEPT ![l] = c],
           c = NoLoad => detailLoading' = FALSE /\ listLoading' = (listLoading /\ ~load[l].first),
           c # NoLoad => detailLoading' = detailLoading /\ listLoading' = listLoading,
           detail' \in Opened \cup {Nothing}, logs' \in Opened \cup {Nothing},
           UNCHANGED <<list, pageTokens, pageIndex>>,
           Apply(load[l])
    PROVE  /\ Continues(l, c)
           /\ ItemsOfList' => ExplorerInv'
<1>1. /\ ExplorerTypes /\ FlagsAwait /\ OneAtATime
  BY DEF ExplorerInv
<1>2. /\ ~ListsNow(l) /\ load[l] # NoLoad /\ load[l] \in DetailLoads
      /\ AwaitsList(load[l]) <=> load[l].first
  BY <1>1, LoadKinds
<1>3. Continues(l, c)
  BY <1>2 DEF Continues
<1>4. /\ load' \in [Loads -> {NoLoad} \cup ListLoads \cup DetailLoads]
      /\ load'[l] = c
      /\ \A k \in Loads : k # l => /\ load'[k] = load[k]
                                   /\ DetailsNow(k)' <=> DetailsNow(k)
      /\ DetailsNow(l)' <=> c # NoLoad
      /\ DetailsNow(l)' => (AwaitsList(c) <=> c.first)
  BY <1>3, OthersGoOn
<1>5. /\ applied' \in Numbers /\ overtaken' \in BOOLEAN
      /\ UNCHANGED <<discovered, preset, selected, clicks, overlapped>>
  BY <1>2, Applies
<1>6. listLoading' \in BOOLEAN /\ detailLoading' \in BOOLEAN /\ load[l].first \in BOOLEAN
  BY <1>1, <1>2 DEF ExplorerTypes, DetailLoads
<1>7. ExplorerTypes'
  BY <1>1, <1>4, <1>5, <1>6 DEF ExplorerTypes
<1>8. FlagsAwait'
  <2>1. listLoading' => \E k \in Loads : AwaitsList(load'[k])
    <3>1. ASSUME listLoading'
          PROVE  listLoading /\ (c = NoLoad => ~AwaitsList(load[l]))
      BY <1>2, <3>1
    <3>2. c # NoLoad /\ AwaitsList(load[l]) => AwaitsList(load'[l])
      BY <1>2, <1>4
    <3> QED BY <1>1, <1>4, <3>1, <3>2 DEF FlagsAwait
  <2>2. detailLoading' => \E k \in Loads : DetailsNow(k)'
    BY <1>4
  <2> QED BY <2>1, <2>2 DEF FlagsAwait
<1>9. OneAtATime'
  <2>1. ~overlapped => /\ pageIndex' < Len(pageTokens')
                       /\ \A i \in DOMAIN pageTokens' : pageTokens'[i].page = i - 1
                       /\ list' # Nothing => list'.page = pageIndex'
    BY <1>1 DEF OneAtATime
  <2>2. c # NoLoad /\ c.first => AwaitsList(load[l]) /\ listLoading' = listLoading
    BY <1>2
  <2>3. ~AwaitsList(load[l]) => listLoading' = listLoading
    BY <1>1, <1>2 DEF ExplorerTypes
  <2> QED BY <1>3, <2>1, <2>2, <2>3, StillOneAtATime
<1> QED BY <1>3, <1>7, <1>8, <1>9, StillNumbered, SelectedStillComes DEF ExplorerInv

LEMMA DetailAnswersKeeps ==
    ASSUME ExplorerInv, NEW l \in Loads, DetailAnswers(l)
    PROVE  ExplorerInv'
<1>1. /\ ExplorerTypes /\ DetailsNow(l) /\ load[l].pc = "detail"
  BY DEF ExplorerInv, DetailAnswers, DetailsNow
<1>2. load[l] \in DetailLoads
  BY <1>1, LoadKinds
<1>3. PICK c : c = IF load[l].key \in Pods THEN [load[l] EXCEPT !.pc = "logs"] ELSE NoLoad
  OBVIOUS
<1>4. NoLoad \notin DetailLoads /\ NoLoad.pc # "logs"
  BY DEF NoLoad, DetailLoads
<1>5. /\ load[l].key \in Pods =>
            /\ c \in DetailLoads /\ c.n = load[l].n /\ c.first = load[l].first
            /\ c.pc = "logs" /\ c.item = load[l].item
      /\ load[l].key \notin Pods => c = NoLoad
  BY <1>2, <1>3 DEF DetailLoads
<1>6. load' = [load EXCEPT ![l] = c]
  <2>1. CASE load[l].key \in Pods
    <3>1. load' = [load EXCEPT ![l].pc = "logs"]
      BY <2>1 DEF DetailAnswers
    <3> QED BY <1>1, <1>3, <2>1, <3>1 DEF ExplorerTypes
  <2>2. CASE load[l].key \notin Pods
    BY <1>3, <2>2 DEF DetailAnswers, EndLoad
  <2> QED BY <2>1, <2>2
<1>7. /\ detail' = [n |-> load[l].n, item |-> load[l].item]
      /\ load[l].key \in Pods => UNCHANGED <<logs, listLoading, detailLoading>>
      /\ load[l].key \notin Pods => /\ logs' = Nothing /\ detailLoading' = FALSE
                                    /\ listLoading' = (listLoading /\ ~load[l].first)
      /\ UNCHANGED <<list, pageTokens, pageIndex>>
      /\ Apply(load[l])
  BY DEF DetailAnswers, EndLoad
<1>8. /\ detail' \in Opened /\ detail' # Nothing /\ detail'.n = load[l].n
      /\ detail'.item = load[l].item
      /\ logs' \in Opened \cup {Nothing}
  BY <1>1, <1>2, <1>7, NothingShown DEF DetailLoads, Opened, ExplorerTypes
<1>9. Continues(l, c) /\ (ItemsOfList' => ExplorerInv')
  BY <1>1, <1>4, <1>5, <1>6, <1>7, <1>8, DetailsKeep
<1>10. ItemsOfList'
  <2> SUFFICES ASSUME ~overtaken', ~overlapped
               PROVE  ItemsOfList'
    BY <1>7 DEF ItemsOfList, Apply
  <2>1. /\ applied' = load[l].n /\ applied' \in Nat
        /\ list # Nothing /\ load[l].item.of = list.n
        /\ \A k \in Loads : k # l /\ DetailsNow(k)' =>
              load'[k].n < applied' \/ load'[k].item.of = list.n
        /\ \A k \in Loads : k # l /\ load'[k].pc = "logs" => load'[k].n < applied'
    BY <1>1, <1>7, <1>9, InTime
  <2>2. load'[l] = c
    BY <1>9, OthersGoOn
  <2>3. load[l].key \in Pods => /\ load'[l].pc = "logs" /\ load'[l].n = detail'.n
                                /\ load'[l].item = detail'.item
    BY <1>5, <1>8, <2>2
  <2>4. load[l].key \notin Pods => ~DetailsNow(l)' /\ load'[l].pc # "logs"
    BY <1>5, <2>2 DEF NoLoad, DetailsNow
  <2>5. \A k \in Loads : DetailsNow(k)' =>
           load'[k].n < applied' \/ (list' # Nothing /\ load'[k].item.of = list'.n)
    BY <1>7, <1>8, <2>1, <2>3, <2>4
  <2>6. detail' # Nothing =>
           list' # Nothing /\ detail'.item.of = list'.n /\ detail'.n <= applied'
    BY <1>7, <1>8, <2>1
  <2>7. \A k \in Loads : load'[k].pc = "logs" =>
           \/ load'[k].n < applied'
           \/ detail' # Nothing /\ detail'.n = load'[k].n /\ detail'.item = load'[k].item
    BY <1>8, <2>1, <2>3, <2>4
  <2>8. logs' # Nothing =>
           /\ detail' # Nothing
           /\ \/ logs'.item = detail'.item
              \/ \E k \in Loads : load'[k].pc = "logs" /\ load'[k].n = detail'.n
    BY <1>7, <1>8, <2>3
  <2> QED BY <2>5, <2>6, <2>7, <2>8 DEF ItemsOfList
<1> QED BY <1>9, <1>10

LEMMA DetailFailsKeeps ==
    ASSUME ExplorerInv, NEW l \in Loads, DetailFails(l)
    PROVE  ExplorerInv'
<1>1. /\ DetailsNow(l) /\ detail' = Nothing /\ logs' = Nothing
      /\ detailLoading' = FALSE /\ listLoading' = (listLoading /\ ~load[l].first)
      /\ UNCHANGED <<list, pageTokens, pageIndex>> /\ Apply(load[l])
  BY DEF DetailFails, EndLoad, DetailsNow
<1>2. PICK c : c = NoLoad
  OBVIOUS
<1>3. load' = [load EXCEPT ![l] = c]
  BY <1>2 DEF DetailFails, EndLoad
<1>4. Continues(l, c) /\ (ItemsOfList' => ExplorerInv')
  BY <1>1, <1>2, <1>3, DetailsKeep
<1>5. ItemsOfList'
  <2> SUFFICES ASSUME ~overtaken', ~overlapped
               PROVE  ItemsOfList'
    BY <1>1 DEF ItemsOfList, Apply
  <2>1. /\ list # Nothing
        /\ \A k \in Loads : k # l /\ DetailsNow(k)' =>
              load'[k].n < applied' \/ load'[k].item.of = list.n
        /\ \A k \in Loads : k # l /\ load'[k].pc = "logs" => load'[k].n < applied'
    BY <1>1, <1>4, InTime
  <2>2. ~DetailsNow(l)' /\ load'[l].pc # "logs"
    BY <1>2, <1>4, OthersGoOn DEF NoLoad
  <2> QED BY <1>1, <2>1, <2>2 DEF ItemsOfList
<1> QED BY <1>4, <1>5

LEMMA LogsAnswerKeeps ==
    ASSUME ExplorerInv, NEW l \in Loads, NEW ok \in BOOLEAN, LogsAnswer(l, ok)
    PROVE  ExplorerInv'
<1>1. /\ DetailsNow(l) /\ load[l].pc = "logs"
      /\ logs' = IF ok THEN [n |-> load[l].n, item |-> load[l].item] ELSE Nothing
      /\ detail' = detail
      /\ detailLoading' = FALSE /\ listLoading' = (listLoading /\ ~load[l].first)
      /\ UNCHANGED <<list, pageTokens, pageIndex>> /\ Apply(load[l])
  BY DEF LogsAnswer, EndLoad, DetailsNow
<1>2. PICK c : c = NoLoad
  OBVIOUS
<1>3. load' = [load EXCEPT ![l] = c]
  BY <1>2 DEF LogsAnswer, EndLoad
<1>4. ExplorerTypes /\ ItemsOfList /\ Numbered
  BY DEF ExplorerInv
<1>5. load[l] \in DetailLoads
  BY <1>1, <1>4, LoadKinds
<1>6. logs' \in Opened \cup {Nothing} /\ (logs' # Nothing => logs'.item = load[l].item)
  BY <1>1, <1>5 DEF DetailLoads, Opened
<1>7. detail' \in Opened \cup {Nothing}
  BY <1>1, <1>4 DEF ExplorerTypes
<1>8. Continues(l, c) /\ (ItemsOfList' => ExplorerInv')
  BY <1>1, <1>2, <1>3, <1>6, <1>7, DetailsKeep
<1>9. ItemsOfList'
  <2> SUFFICES ASSUME ~overtaken', ~overlapped
               PROVE  ItemsOfList'
    BY <1>1 DEF ItemsOfList, Apply
  <2>1. /\ ~overtaken /\ applied' = load[l].n /\ applied' \in Nat
        /\ list # Nothing
        /\ \A k \in Loads : k # l /\ DetailsNow(k)' =>
              load'[k].n < applied' \/ load'[k].item.of = list.n
        /\ \A k \in Loads : k # l /\ load'[k].pc = "logs" => load'[k].n < applied'
        /\ detail # Nothing /\ detail.n = load[l].n /\ detail.item = load[l].item
    BY <1>1, <1>8, InTime
  <2>2. ~DetailsNow(l)' /\ load'[l].pc # "logs"
    BY <1>2, <1>8, OthersGoOn DEF NoLoad
  <2>3. detail.item.of = list.n
    BY <1>4, <2>1 DEF ItemsOfList
  <2> QED BY <1>1, <1>6, <2>1, <2>2, <2>3 DEF ItemsOfList
<1> QED BY <1>8, <1>9
-----------------------------------------------------------------------------
LEMMA ExplorerInvStep ==
    ASSUME ExplorerInv, [ExplorerNext]_explorerVars
    PROVE  ExplorerInv'
<1>1. CASE UNCHANGED explorerVars
  BY <1>1 DEF ExplorerInv, ExplorerTypes, Numbered, FlagsAwait, SelectedComes, Newer,
              OneAtATime, ItemsOfList, ListsNow, DetailsNow, explorerVars, screen
<1>2. CASE \/ \E key \in Resources : ChooseResource(key) \/ Navigate(key)
           \/ \E found \in SUBSET Resources : Discover(found)
  BY <1>2, ChoicesKeep
<1>3. CASE LoadAgain \/ LoadNextPage \/ LoadPreviousPage
  BY <1>3, PagesKeep
<1>4. CASE \E nth \in {1, 2} : OpenItem(nth)
  BY <1>4, OpenKeeps
<1>5. CASE \E l \in Loads :
              \/ \E items, more \in BOOLEAN : ListAnswers(l, items, more)
              \/ ListFails(l) \/ DetailAnswers(l) \/ DetailFails(l)
              \/ \E ok \in BOOLEAN : LogsAnswer(l, ok)
  BY <1>5, ListAnswersKeeps, ListFailsKeeps, DetailAnswersKeeps, DetailFailsKeeps,
     LogsAnswerKeeps
<1> QED BY <1>1, <1>2, <1>3, <1>4, <1>5 DEF ExplorerNext

THEOREM ExplorerInvHolds == ExplorerSpec => []ExplorerInv
BY ExplorerInvInit, ExplorerInvStep, PTL DEF ExplorerSpec

(* The fields of the explorer have their types: in particular no page number *)
(* is ever negative.                                                        *)
THEOREM ExplorerTypesCorrect == ExplorerSpec => []ExplorerTypeOK
<1>1. ExplorerInv => ExplorerTypeOK
  <2> SUFFICES ASSUME ExplorerTypes
               PROVE  ExplorerTypeOK
    BY DEF ExplorerInv
  <2>1. 0..(MaxPages - 1) \subseteq 0..MaxPages
    BY Bounds
  <2>2. /\ Tokens \subseteq [key : Resources \cup {Nothing}, page : 0..MaxPages]
        /\ ListLoads \subseteq [pc : {"list"}, n : Numbers, key : Resources,
                                page : 0..MaxPages, index : Nat, reset : BOOLEAN]
    BY <2>1 DEF Tokens, ListLoads
  <2>3. pageTokens \in Seq([key : Resources \cup {Nothing}, page : 0..MaxPages])
    BY <2>2, SeqMonotonic DEF ExplorerTypes
  <2> QED BY <2>2, <2>3 DEF ExplorerTypes, ExplorerTypeOK, DetailLoads
<1> QED BY <1>1, ExplorerInvHolds, PTL

(* Whatever order the answers of the loads come in, and whichever fail, the  *)
(* screen is that of one load, as ScreenIsOfOneLoad says.                   *)
THEOREM ScreensAreOfOneLoad == ExplorerSpec => []ScreenIsOfOneLoad
<1>1. ExplorerInv => ScreenIsOfOneLoad
  <2> SUFFICES ASSUME ExplorerInv
               PROVE  ScreenIsOfOneLoad
    OBVIOUS
  <2>1. ExplorerTypes /\ FlagsAwait /\ SelectedComes /\ OneAtATime /\ ItemsOfList
    BY DEF ExplorerInv
  <2>2. ASSUME Quiet
        PROVE  /\ ~listLoading /\ ~detailLoading
               /\ ~overtaken /\ list # Nothing => list.key = selected
               /\ ~overtaken /\ ~overlapped =>
                     /\ detail # Nothing => list # Nothing /\ detail.item.of = list.n
                     /\ logs # Nothing => detail # Nothing /\ logs.item = detail.item
    <3>1. \A l \in Loads : /\ ~AwaitsList(load[l]) /\ ~ListsNow(l) /\ ~DetailsNow(l)
                           /\ load[l].pc # "logs"
      BY <2>1, <2>2, LoadKinds DEF Quiet, NoLoad
    <3>2. \A n : ~Newer(n)
      BY <3>1 DEF Newer
    <3> QED BY <2>1, <3>1, <3>2 DEF FlagsAwait, SelectedComes, ItemsOfList
  <2>3. ~overlapped /\ list # Nothing =>
           /\ pageIndex = list.page
           /\ pageIndex < Len(pageTokens)
           /\ pageTokens[pageIndex + 1].page = pageIndex
    <3> SUFFICES ASSUME ~overlapped, list # Nothing
                 PROVE  /\ pageIndex = list.page
                        /\ pageIndex < Len(pageTokens)
                        /\ pageTokens[pageIndex + 1].page = pageIndex
      OBVIOUS
    <3>1. /\ pageIndex \in Nat /\ pageIndex < Len(pageTokens) /\ list.page = pageIndex
          /\ \A i \in DOMAIN pageTokens : pageTokens[i].page = i - 1
      BY <2>1 DEF ExplorerTypes, OneAtATime
    <3>2. pageIndex + 1 \in DOMAIN pageTokens
      BY <2>1, <3>1 DEF ExplorerTypes
    <3>3. pageTokens[pageIndex + 1].page = (pageIndex + 1) - 1
      BY <3>1, <3>2
    <3> QED BY <3>1, <3>3
  <2> QED BY <2>2, <2>3 DEF ScreenIsOfOneLoad
<1> QED BY <1>1, ExplorerInvHolds, PTL
-----------------------------------------------------------------------------
(* The analysis of an incident. *)

\* What an analysis has set out to read by now.
SoFar(i) ==
    (IF i.pc # "detail" /\ i.alert.kind # "none" THEN {"resource detail"} ELSE {})
    \cup (IF i.pc \notin {"detail", "pods"} THEN {"pod candidates"} ELSE {})
    \cup (IF i.pc \notin {"detail", "pods", "logs"} THEN {"pod logs"} ELSE {})
    \cup (IF i.pc \notin {"detail", "pods", "logs", "previous"} /\ HasPod(i)
          THEN {"previous pod logs"} ELSE {})
    \cup (IF i.pc \in {"metrics", "embed", "search", "answered"} /\ HasEventsName(i)
          THEN {"events"} ELSE {})
    \cup (IF i.pc \in {"embed", "search", "answered"} THEN Queries(i) ELSE {})

\* What it found out agrees with its alert, and with what it read.
FoundOut(i) ==
    /\ i.alert.kind = "Pod" => i.alert.name \in AllPods /\ i.alert.pod \in {i.alert.name, Nobody}
    /\ i.pc \in {"detail", "pods"} => i.first = Nobody
    /\ i.first \in Listed(i.alert) \cup {Nobody}
    /\ i.owner # Nobody => i.alert.kind = "Pod" /\ i.owner = OwnedBy[i.alert.name]
    /\ i.limit => "resource detail" \in i.reads
    /\ i.pc = "previous" => HasPod(i)

Accounted(i) == i.reads \cup i.missing = SoFar(i) /\ i.reads \cap i.missing = {}

IncidentInv ==
    /\ incident \in Incidents
    /\ incident.pc \notin {"idle", "embed", "search", "answered"} => incident.analysis
    /\ incident.analysis => incident.pc # "idle" /\ FoundOut(incident) /\ Accounted(incident)
    /\ incident.pc = "answered" => (incident.cites = "runtime" <=> incident.rag = "ready")
-----------------------------------------------------------------------------
LEMMA IncidentInvInit == IncidentInit => IncidentInv
<1> SUFFICES ASSUME incident = NoIncident
             PROVE  IncidentInv
  BY DEF IncidentInit
<1>1. NoAlert \in AlertRecords
  BY DEF NoAlert, AlertRecords, KnownNames
<1>2. NoIncident \in Incidents /\ NoIncident.pc = "idle" /\ ~NoIncident.analysis
  BY <1>1 DEF NoIncident, Incidents
<1> QED BY <1>2 DEF IncidentInv

(* An analysis begins with nothing read.                                    *)
LEMMA AnalysisBegins ==
    ASSUME NEW a \in AlertRecords, NEW pc \in {"detail", "embed"}, NEW left \in Nat,
           a.kind = "Pod" => a.name \in AllPods /\ a.pod \in {a.name, Nobody},
           BeginAnalysis(a, pc, left)
    PROVE  IncidentInv'
<1>1. PICK proxy \in BOOLEAN, mode \in {"local", "runtime"} :
         incident' = [NoIncident EXCEPT !.pc = pc, !.analysis = (pc = "detail"),
                                        !.alert = a, !.proxy = proxy, !.mode = mode,
                                        !.left = left]
  BY DEF BeginAnalysis
<1>2. /\ incident'.pc = pc /\ incident'.analysis = (pc = "detail") /\ incident'.alert = a
      /\ incident'.owner = Nobody /\ incident'.limit = FALSE /\ incident'.first = Nobody
      /\ incident'.reads = {} /\ incident'.missing = {}
  BY <1>1 DEF NoIncident
<1>3. incident' \in Incidents
  BY <1>1 DEF NoIncident, Incidents
<1>4. pc = "detail" => FoundOut(incident') /\ SoFar(incident') = {}
  BY <1>2 DEF FoundOut, SoFar
<1> QED BY <1>2, <1>3, <1>4 DEF IncidentInv, Accounted

(* The request that is built of the labels of an alert is one of a pod, a    *)
(* workload, or nothing.                                                    *)
LEMMA RequestsAreAlerts ==
    ASSUME NEW l \in Received
    PROVE  /\ RequestOf(l) \in AlertRecords
           /\ RequestOf(l).kind = "Pod" =>
                 RequestOf(l).name \in AllPods /\ RequestOf(l).pod = RequestOf(l).name
<1>1. /\ l.pod \in AllPods \cup {Nobody} /\ l.app \in Workloads \cup {Nobody}
      /\ l.workload \in Workloads \cup {Nobody} /\ l.namespaced \in BOOLEAN
  BY LabelsType
<1> QED BY <1>1 DEF RequestOf, AlertRecords, KnownNames

LEMMA BeginningsKeep ==
    ASSUME IncidentInv, Analyze \/ Intake \/ NextAlert \/ CallTool
    PROVE  IncidentInv'
<1>1. PICK pc : pc = "detail"
  OBVIOUS
<1>2. CASE Analyze
  <2>1. PICK a \in Alerts : BeginAnalysis(a, pc, 0)
    BY <1>1, <1>2 DEF Analyze
  <2>2. a \in AlertRecords /\ (a.kind = "Pod" => a.name \in AllPods /\ a.pod \in {a.name, Nobody})
    BY AlertsType
  <2> QED BY <1>1, <2>1, <2>2, AnalysisBegins
<1>3. CASE Intake
  <2>1. PICK l \in Received, n \in BatchSizes : BeginAnalysis(RequestOf(l), pc, n - 1)
    BY <1>1, <1>3 DEF Intake
  <2>2. n - 1 \in Nat
    BY BatchType
  <2>3. PICK a, left : a = RequestOf(l) /\ left = n - 1
    OBVIOUS
  <2>4. a \in AlertRecords /\ (a.kind = "Pod" => a.name \in AllPods /\ a.pod \in {a.name, Nobody})
    BY <2>3, RequestsAreAlerts
  <2>5. left \in Nat /\ BeginAnalysis(a, pc, left)
    BY <2>1, <2>2, <2>3
  <2> QED BY <1>1, <2>4, <2>5, AnalysisBegins
<1>4. CASE NextAlert
  <2>1. PICK l \in Received :
           incident' = [NoIncident EXCEPT !.pc = "detail", !.analysis = TRUE,
                          !.alert = RequestOf(l), !.left = incident.left - 1,
                          !.proxy = incident.proxy, !.mode = incident.mode]
    BY <1>4 DEF NextAlert
  <2>2. PICK a, left : a = RequestOf(l) /\ left = incident.left - 1
    OBVIOUS
  <2>3. a \in AlertRecords /\ (a.kind = "Pod" => a.name \in AllPods /\ a.pod \in {a.name, Nobody})
    BY <2>2, RequestsAreAlerts
  <2>4. incident.left \in Nat /\ incident.left > 0
    BY <1>4 DEF IncidentInv, Incidents, NextAlert
  <2>5. left \in Nat
    BY <2>2, <2>4
  <2>6. incident.proxy \in BOOLEAN /\ incident.mode \in {"local", "runtime"}
    BY DEF IncidentInv, Incidents
  <2>7. incident' = [NoIncident EXCEPT !.pc = pc, !.analysis = (pc = "detail"), !.alert = a,
                       !.proxy = incident.proxy, !.mode = incident.mode, !.left = left]
    BY <1>1, <2>1, <2>2 DEF NoIncident
  <2>8. BeginAnalysis(a, pc, left)
    BY <2>6, <2>7 DEF BeginAnalysis
  <2> QED BY <1>1, <2>3, <2>5, <2>8, AnalysisBegins
<1>5. CASE CallTool
  <2>1. NoAlert \in AlertRecords /\ NoAlert.kind # "Pod"
    BY DEF NoAlert, AlertRecords, KnownNames
  <2>2. PICK a, tool : a = NoAlert /\ tool = "embed"
    OBVIOUS
  <2>3. BeginAnalysis(a, tool, 0)
    BY <1>5, <2>2 DEF CallTool
  <2> QED BY <2>1, <2>2, <2>3, AnalysisBegins
<1> QED BY <1>2, <1>3, <1>4, <1>5

(* What is captured is read or missing.                                     *)
LEMMA Captures ==
    ASSUME NEW i \in Incidents, NEW source \in Sources, NEW ok \in BOOLEAN,
           NEW c, c = Capture(i, source, ok)
    PROVE  /\ c \in Incidents
           /\ c.pc = i.pc /\ c.analysis = i.analysis /\ c.alert = i.alert
           /\ c.owner = i.owner /\ c.limit = i.limit /\ c.first = i.first
           /\ c.reads \cup c.missing = i.reads \cup i.missing \cup {source}
           /\ i.reads \subseteq c.reads
           /\ i.reads \cap i.missing = {} /\ source \notin i.reads \cup i.missing =>
                 c.reads \cap c.missing = {}
BY DEF Capture, Incidents
-----------------------------------------------------------------------------
\* What is looked for depends on the alert and on the first pod only.
LEMMA SameNames ==
    ASSUME NEW i, NEW j, j.alert = i.alert, j.first = i.first
    PROVE  /\ HasPod(j) = HasPod(i) /\ HasEventsName(j) = HasEventsName(i)
           /\ Queries(j) = Queries(i) /\ PodOf(j) = PodOf(i)
BY DEF HasPod, HasEventsName, Queries, PodOf

(* A source that is read, or missing, is one that was not accounted for.     *)
LEMMA SourceRead ==
    ASSUME IncidentInv, incident.pc \in {"logs", "previous", "events"},
           NEW source \in Sources, NEW ok \in BOOLEAN,
           NEW onward \in {"previous", "events", "metrics"},
           incident' = [Capture(incident, source, ok) EXCEPT !.pc = onward],
           source \notin SoFar(incident), SoFar(incident') = SoFar(incident) \cup {source},
           onward = "previous" => HasPod(incident)
    PROVE  IncidentInv'
<1>1. /\ incident \in Incidents /\ incident.analysis /\ FoundOut(incident)
      /\ Accounted(incident)
  BY DEF IncidentInv
<1>2. PICK c : c = Capture(incident, source, ok)
  OBVIOUS
<1>3. /\ c \in Incidents /\ c.analysis = incident.analysis /\ c.alert = incident.alert
      /\ c.owner = incident.owner /\ c.limit = incident.limit /\ c.first = incident.first
      /\ c.reads \cup c.missing = incident.reads \cup incident.missing \cup {source}
      /\ c.reads \cap c.missing = {}
      /\ incident.reads \subseteq c.reads
  <2>1. incident.reads \cap incident.missing = {}
        /\ source \notin incident.reads \cup incident.missing
    BY <1>1 DEF Accounted
  <2>2. c \in Incidents /\ c.reads \cup c.missing
                             = incident.reads \cup incident.missing \cup {source}
    BY <1>1, <1>2, Captures
  <2>3. incident.reads \subseteq c.reads
    BY <1>1, <1>2, Captures
  <2>4. c.reads \cap c.missing = {}
    BY <1>1, <1>2, <2>1, Captures
  <2>5. /\ c.analysis = incident.analysis /\ c.alert = incident.alert
        /\ c.owner = incident.owner /\ c.limit = incident.limit /\ c.first = incident.first
    BY <1>1, <1>2, Captures
  <2> QED BY <2>2, <2>3, <2>4, <2>5
<1>4. /\ incident' \in Incidents /\ incident'.pc = onward
      /\ incident'.analysis = c.analysis /\ incident'.alert = c.alert
      /\ incident'.owner = c.owner /\ incident'.limit = c.limit /\ incident'.first = c.first
      /\ incident'.reads = c.reads /\ incident'.missing = c.missing
  BY <1>2, <1>3 DEF Incidents
<1>5. HasPod(incident') = HasPod(incident)
  BY <1>3, <1>4, SameNames
<1>6. FoundOut(incident')
  BY <1>1, <1>3, <1>4, <1>5 DEF FoundOut
<1>7. Accounted(incident')
  BY <1>1, <1>3, <1>4 DEF Accounted
<1> QED BY <1>1, <1>3, <1>4, <1>6, <1>7 DEF IncidentInv

LEMMA ResourceKeeps ==
    ASSUME IncidentInv, ReadResource
    PROVE  IncidentInv'
<1>1. /\ incident \in Incidents /\ incident.analysis /\ FoundOut(incident)
      /\ Accounted(incident) /\ incident.pc = "detail"
  BY DEF IncidentInv, ReadResource
<1>2. incident.reads = {} /\ incident.missing = {}
  BY <1>1 DEF Accounted, SoFar
<1>3. CASE incident.alert.kind = "none" /\ incident' = [incident EXCEPT !.pc = "pods"]
  <2>1. /\ incident' \in Incidents /\ incident'.pc = "pods"
        /\ incident'.analysis = incident.analysis /\ incident'.alert = incident.alert
        /\ incident'.owner = incident.owner /\ incident'.limit = incident.limit
        /\ incident'.first = incident.first
        /\ incident'.reads = {} /\ incident'.missing = {}
    BY <1>1, <1>2, <1>3 DEF Incidents
  <2>2. FoundOut(incident')
    BY <1>1, <1>2, <2>1 DEF FoundOut
  <2>3. Accounted(incident')
    BY <1>3, <2>1 DEF Accounted, SoFar
  <2> QED BY <1>1, <2>1, <2>2, <2>3 DEF IncidentInv
<1>4. CASE /\ incident.alert.kind # "none"
           /\ \E limit \in IF incident.alert.kind = "Pod" THEN BOOLEAN ELSE {FALSE} :
                 incident' = [Capture([incident EXCEPT
                                !.owner = IF incident.alert.kind = "Pod"
                                          THEN OwnedBy[incident.alert.name] ELSE Nobody,
                                !.limit = limit], "resource detail", TRUE) EXCEPT !.pc = "pods"]
  <2>1. PICK limit \in BOOLEAN :
           incident' = [Capture([incident EXCEPT
                                !.owner = IF incident.alert.kind = "Pod"
                                          THEN OwnedBy[incident.alert.name] ELSE Nobody,
                                !.limit = limit], "resource detail", TRUE) EXCEPT !.pc = "pods"]
    BY <1>4
  <2>2. /\ incident.alert.kind = "Pod" => incident.alert.name \in AllPods
        /\ incident.first = Nobody
    BY <1>1 DEF FoundOut
  <2>3. PICK owner : owner = IF incident.alert.kind = "Pod" THEN OwnedBy[incident.alert.name]
                             ELSE Nobody
    OBVIOUS
  <2>4. owner \in Workloads \cup {Nobody}
    BY <2>2, <2>3, OwnersType
  <2>5. incident' = [Capture([incident EXCEPT !.owner = owner, !.limit = limit],
                             "resource detail", TRUE) EXCEPT !.pc = "pods"]
    BY <2>1, <2>3
  <2>6. /\ incident' \in Incidents /\ incident'.pc = "pods"
        /\ incident'.analysis = incident.analysis /\ incident'.alert = incident.alert
        /\ incident'.owner = owner /\ incident'.limit = limit
        /\ incident'.first = incident.first
        /\ incident'.reads = {"resource detail"} /\ incident'.missing = {}
    BY <1>1, <1>2, <2>4, <2>5 DEF Incidents, Capture, Sources
  <2>7. FoundOut(incident')
    BY <1>1, <2>2, <2>3, <2>6 DEF FoundOut
  <2>8. Accounted(incident')
    BY <1>4, <2>6 DEF Accounted, SoFar
  <2> QED BY <1>1, <2>6, <2>7, <2>8 DEF IncidentInv
<1>5. CASE /\ incident.alert.kind # "none"
           /\ incident' = [Capture(incident, "resource detail", FALSE) EXCEPT !.pc = "pods"]
  <2>1. /\ incident' \in Incidents /\ incident'.pc = "pods"
        /\ incident'.analysis = incident.analysis /\ incident'.alert = incident.alert
        /\ incident'.owner = incident.owner /\ incident'.limit = incident.limit
        /\ incident'.first = incident.first
        /\ incident'.reads = {} /\ incident'.missing = {"resource detail"}
    BY <1>1, <1>2, <1>5 DEF Incidents, Capture, Sources
  <2>2. FoundOut(incident')
    BY <1>1, <1>2, <2>1 DEF FoundOut
  <2>3. Accounted(incident')
    BY <1>5, <2>1 DEF Accounted, SoFar
  <2> QED BY <1>1, <2>1, <2>2, <2>3 DEF IncidentInv
<1> QED BY <1>3, <1>4, <1>5 DEF ReadResource

LEMMA PodsKeep ==
    ASSUME IncidentInv, ListPods
    PROVE  IncidentInv'
<1>1. /\ incident \in Incidents /\ incident.analysis /\ FoundOut(incident)
      /\ Accounted(incident) /\ incident.pc = "pods"
  BY DEF IncidentInv, ListPods
<1>2. "pod candidates" \in Sources /\ "pod candidates" \notin SoFar(incident)
  BY <1>1 DEF Sources, SoFar
<1>3. PICK p \in Listed(incident.alert) \cup {Nobody}, ok \in BOOLEAN :
         incident' = [Capture(incident, "pod candidates", ok) EXCEPT !.pc = "logs", !.first = p]
  <2>1. CASE \E p \in Listed(incident.alert) \cup {Nobody} :
                incident' = [Capture(incident, "pod candidates", TRUE)
                                EXCEPT !.pc = "logs", !.first = p]
    BY <2>1
  <2>2. CASE incident' = [Capture(incident, "pod candidates", FALSE) EXCEPT !.pc = "logs"]
    <3>1. PICK c, no, source : c = Capture(incident, source, no) /\ no = FALSE
                               /\ source = "pod candidates"
      OBVIOUS
    <3>2. c \in Incidents /\ c.first = Nobody
      BY <1>1, <1>2, <3>1, Captures DEF FoundOut
    <3>3. [c EXCEPT !.pc = "logs"] = [c EXCEPT !.pc = "logs", !.first = Nobody]
      BY <3>2 DEF Incidents
    <3> QED BY <2>2, <3>1, <3>3
  <2> QED BY <2>1, <2>2 DEF ListPods
<1>4. PICK source \in Sources : source = "pod candidates"
  BY <1>2
<1>5. PICK c : c = Capture(incident, source, ok)
  OBVIOUS
<1>6. /\ c \in Incidents /\ c.analysis = incident.analysis /\ c.alert = incident.alert
      /\ c.owner = incident.owner /\ c.limit = incident.limit
      /\ c.reads \cup c.missing = incident.reads \cup incident.missing \cup {source}
      /\ c.reads \cap c.missing = {}
      /\ incident.reads \subseteq c.reads
  <2>1. source \notin SoFar(incident)
    BY <1>2, <1>4
  <2>2. /\ incident.reads \cap incident.missing = {}
        /\ source \notin incident.reads \cup incident.missing
    BY <1>1, <2>1 DEF Accounted
  <2>3. c \in Incidents /\ c.reads \cup c.missing
                             = incident.reads \cup incident.missing \cup {source}
    BY <1>1, <1>5, Captures
  <2>4. incident.reads \subseteq c.reads
    BY <1>1, <1>5, Captures
  <2>5. c.reads \cap c.missing = {}
    BY <1>1, <1>5, <2>2, Captures
  <2>6. /\ c.analysis = incident.analysis /\ c.alert = incident.alert
        /\ c.owner = incident.owner /\ c.limit = incident.limit
    BY <1>1, <1>5, Captures
  <2> QED BY <2>3, <2>4, <2>5, <2>6
<1>7. p \in AllPods \cup {Nobody}
  BY DEF Listed
<1>8. /\ incident' \in Incidents /\ incident'.pc = "logs"
      /\ incident'.analysis = c.analysis /\ incident'.alert = c.alert
      /\ incident'.owner = c.owner /\ incident'.limit = c.limit /\ incident'.first = p
      /\ incident'.reads = c.reads /\ incident'.missing = c.missing
  BY <1>3, <1>4, <1>5, <1>6, <1>7 DEF Incidents
<1>9. FoundOut(incident')
  BY <1>1, <1>6, <1>8 DEF FoundOut
<1>10. SoFar(incident') = SoFar(incident) \cup {source}
  <2>1. SoFar(incident) = IF incident.alert.kind # "none" THEN {"resource detail"} ELSE {}
    BY <1>1 DEF SoFar
  <2>2. SoFar(incident') = (IF incident'.alert.kind # "none" THEN {"resource detail"} ELSE {})
                           \cup {"pod candidates"}
    BY <1>8 DEF SoFar
  <2> QED BY <1>4, <1>6, <1>8, <2>1, <2>2
<1>11. Accounted(incident')
  BY <1>1, <1>6, <1>8, <1>10 DEF Accounted
<1> QED BY <1>1, <1>6, <1>8, <1>9, <1>11 DEF IncidentInv

LEMMA ReadsKeep ==
    ASSUME IncidentInv,
           \/ ReadLogs("logs", "pod logs", "previous")
           \/ ReadLogs("previous", "previous pod logs", "events")
           \/ WithoutPod \/ ReadEvents
    PROVE  IncidentInv'
<1>1. incident \in Incidents
  BY DEF IncidentInv
<1>2. ASSUME NEW source \in Sources, NEW ok \in BOOLEAN,
             incident.pc \in {"logs", "previous", "events"},
             NEW onward \in {"previous", "events", "metrics"},
             incident' = [Capture(incident, source, ok) EXCEPT !.pc = onward]
      PROVE  /\ incident'.pc = onward
             /\ incident'.alert = incident.alert
             /\ HasPod(incident') = HasPod(incident)
             /\ HasEventsName(incident') = HasEventsName(incident)
  <2>1. PICK c : c = Capture(incident, source, ok)
    OBVIOUS
  <2>2. c \in Incidents
    BY <1>1, <2>1 DEF Capture, Incidents
  <2>3. c.alert = incident.alert /\ c.first = incident.first
    BY <1>1, <2>1 DEF Capture, Incidents
  <2>4. incident'.pc = onward /\ incident'.alert = c.alert /\ incident'.first = c.first
    BY <1>2, <2>1, <2>2 DEF Incidents
  <2> QED BY <2>3, <2>4, SameNames
<1>3. PICK recent, earlier, around : recent = "pod logs" /\ earlier = "previous pod logs"
                                    /\ around = "events"
  OBVIOUS
<1>4. recent \in Sources /\ earlier \in Sources /\ around \in Sources
  BY <1>3 DEF Sources
<1>5. CASE ReadLogs("logs", "pod logs", "previous")
  <2>1. PICK ok \in BOOLEAN, onward \in {"previous"} :
           incident' = [Capture(incident, recent, ok) EXCEPT !.pc = onward]
    BY <1>3, <1>5 DEF ReadLogs
  <2>2. incident.pc = "logs" /\ HasPod(incident)
    BY <1>5 DEF ReadLogs
  <2>3. incident'.pc = onward /\ incident'.alert = incident.alert
    BY <1>2, <1>4, <2>1, <2>2
  <2>4. recent \notin SoFar(incident) /\ SoFar(incident') = SoFar(incident) \cup {recent}
    BY <1>3, <2>1, <2>2, <2>3 DEF SoFar
  <2> QED BY <1>4, <2>1, <2>2, <2>4, SourceRead
<1>6. CASE ReadLogs("previous", "previous pod logs", "events")
  <2>1. PICK ok \in BOOLEAN, onward \in {"events"} :
           incident' = [Capture(incident, earlier, ok) EXCEPT !.pc = onward]
    BY <1>3, <1>6 DEF ReadLogs
  <2>2. incident.pc = "previous" /\ HasPod(incident)
    BY <1>6 DEF ReadLogs
  <2>3. /\ incident'.pc = onward /\ incident'.alert = incident.alert
        /\ HasPod(incident') = HasPod(incident)
    BY <1>2, <1>4, <2>1, <2>2
  <2>4. earlier \notin SoFar(incident) /\ SoFar(incident') = SoFar(incident) \cup {earlier}
    BY <1>3, <2>1, <2>2, <2>3 DEF SoFar
  <2> QED BY <1>4, <2>1, <2>2, <2>4, SourceRead
<1>7. CASE WithoutPod
  <2>1. PICK ok \in BOOLEAN, onward \in {"events"} :
           incident' = [Capture(incident, recent, ok) EXCEPT !.pc = onward]
    BY <1>3, <1>7 DEF WithoutPod
  <2>2. incident.pc = "logs" /\ ~HasPod(incident)
    BY <1>7 DEF WithoutPod
  <2>3. /\ incident'.pc = onward /\ incident'.alert = incident.alert
        /\ HasPod(incident') = HasPod(incident)
    BY <1>2, <1>4, <2>1, <2>2
  <2>4. recent \notin SoFar(incident) /\ SoFar(incident') = SoFar(incident) \cup {recent}
    BY <1>3, <2>1, <2>2, <2>3 DEF SoFar
  <2> QED BY <1>4, <2>1, <2>2, <2>4, SourceRead
<1>8. CASE /\ incident.pc = "events" /\ HasEventsName(incident)
           /\ \E ok \in BOOLEAN :
                 incident' = [Capture(incident, "events", ok) EXCEPT !.pc = "metrics"]
  <2>1. PICK ok \in BOOLEAN, onward \in {"metrics"} :
           incident' = [Capture(incident, around, ok) EXCEPT !.pc = onward]
    BY <1>3, <1>8
  <2>2. /\ incident'.pc = onward /\ incident'.alert = incident.alert
        /\ HasPod(incident') = HasPod(incident)
        /\ HasEventsName(incident') = HasEventsName(incident)
    BY <1>2, <1>4, <1>8, <2>1
  <2>3. around \notin SoFar(incident) /\ SoFar(incident') = SoFar(incident) \cup {around}
    BY <1>3, <1>8, <2>1, <2>2 DEF SoFar
  <2> QED BY <1>4, <1>8, <2>1, <2>3, SourceRead
<1>9. CASE /\ incident.pc = "events" /\ ~HasEventsName(incident)
           /\ incident' = [incident EXCEPT !.pc = "metrics"]
  <2>1. /\ incident \in Incidents /\ incident.analysis
        /\ FoundOut(incident) /\ Accounted(incident)
    BY <1>9 DEF IncidentInv
  <2>2. /\ incident' \in Incidents /\ incident'.pc = "metrics"
        /\ incident'.analysis = incident.analysis /\ incident'.alert = incident.alert
        /\ incident'.owner = incident.owner /\ incident'.limit = incident.limit
        /\ incident'.first = incident.first
        /\ incident'.reads = incident.reads /\ incident'.missing = incident.missing
    BY <1>9, <2>1 DEF Incidents
  <2>3. HasPod(incident') = HasPod(incident) /\ HasEventsName(incident') = HasEventsName(incident)
    BY <2>2, SameNames
  <2>4. FoundOut(incident')
    BY <1>9, <2>1, <2>2 DEF FoundOut
  <2>5. SoFar(incident') = SoFar(incident)
    BY <1>9, <2>2, <2>3 DEF SoFar
  <2> QED BY <2>1, <2>2, <2>4, <2>5 DEF IncidentInv, Accounted
<1> QED BY <1>5, <1>6, <1>7, <1>8, <1>9 DEF ReadEvents

LEMMA QueriesKeep ==
    ASSUME IncidentInv, QueryMetrics
    PROVE  IncidentInv'
<1>1. /\ incident \in Incidents /\ incident.analysis /\ incident.pc = "metrics"
      /\ FoundOut(incident) /\ Accounted(incident)
  BY DEF IncidentInv, QueryMetrics
<1>2. PICK answered \in SUBSET Queries(incident) :
         incident' = [incident EXCEPT !.pc = "embed", !.reads = @ \cup answered,
                                      !.missing = @ \cup (Queries(incident) \ answered)]
  BY DEF QueryMetrics
<1>3. Queries(incident) \subseteq Sources /\ Queries(incident) \cap SoFar(incident) = {}
  BY <1>1 DEF Queries, Sources, Metrics, SoFar
<1>4. /\ incident' \in Incidents /\ incident'.pc = "embed"
      /\ incident'.analysis = incident.analysis /\ incident'.alert = incident.alert
      /\ incident'.owner = incident.owner /\ incident'.limit = incident.limit
      /\ incident'.first = incident.first
      /\ incident'.reads = incident.reads \cup answered
      /\ incident'.missing = incident.missing \cup (Queries(incident) \ answered)
  BY <1>1, <1>2, <1>3 DEF Incidents
<1>5. /\ HasPod(incident') = HasPod(incident) /\ HasEventsName(incident') = HasEventsName(incident)
      /\ Queries(incident') = Queries(incident)
  BY <1>4, SameNames
<1>6. FoundOut(incident')
  BY <1>1, <1>4 DEF FoundOut
<1>7. SoFar(incident') = SoFar(incident) \cup Queries(incident)
  BY <1>1, <1>4, <1>5 DEF SoFar
<1>8. Accounted(incident')
  BY <1>1, <1>2, <1>3, <1>4, <1>7 DEF Accounted
<1> QED BY <1>1, <1>4, <1>6, <1>8 DEF IncidentInv

LEMMA AnswersKeep ==
    ASSUME IncidentInv, Embed \/ SearchVectors
    PROVE  IncidentInv'
<1>1. /\ incident \in Incidents /\ incident.pc \in {"embed", "search"}
      /\ incident.analysis => FoundOut(incident) /\ Accounted(incident)
  BY DEF IncidentInv, Embed, SearchVectors
<1>2. ASSUME NEW pc \in {"search", "answered"},
             incident' \in Incidents, incident'.pc = pc,
             incident'.analysis = incident.analysis, incident'.alert = incident.alert,
             incident'.owner = incident.owner, incident'.limit = incident.limit,
             incident'.first = incident.first,
             incident'.reads = incident.reads, incident'.missing = incident.missing
      PROVE  incident'.analysis => FoundOut(incident') /\ Accounted(incident')
  <2>1. /\ HasPod(incident') = HasPod(incident)
        /\ HasEventsName(incident') = HasEventsName(incident)
        /\ Queries(incident') = Queries(incident)
    BY <1>2, SameNames
  <2>2. SoFar(incident') = SoFar(incident)
    BY <1>1, <1>2, <2>1 DEF SoFar
  <2>3. FoundOut(incident) => FoundOut(incident')
    BY <1>1, <1>2 DEF FoundOut
  <2> QED BY <1>1, <1>2, <2>2, <2>3 DEF Accounted
<1>3. ASSUME NEW rag \in {"disabled", "failed", "needs-live-check", "ready"}, AnswerWith(rag)
      PROVE  IncidentInv'
  <2>1. PICK local \in LocalCitations :
           incident' = [incident EXCEPT !.pc = "answered", !.rag = rag,
                                        !.cites = IF rag = "ready" THEN "runtime" ELSE local]
    BY <1>3 DEF AnswerWith
  <2>2. /\ incident' \in Incidents /\ incident'.pc = "answered"
        /\ incident'.analysis = incident.analysis /\ incident'.alert = incident.alert
        /\ incident'.owner = incident.owner /\ incident'.limit = incident.limit
        /\ incident'.first = incident.first
        /\ incident'.reads = incident.reads /\ incident'.missing = incident.missing
        /\ incident'.rag = rag
        /\ incident'.cites = IF rag = "ready" THEN "runtime" ELSE local
    BY <1>1, <2>1 DEF Incidents
  <2>3. local # "runtime"
    BY DEF LocalCitations
  <2> QED BY <1>2, <2>2, <2>3 DEF IncidentInv
<1>4. CASE incident' = [incident EXCEPT !.pc = "search"]
  <2>1. /\ incident' \in Incidents /\ incident'.pc = "search"
        /\ incident'.analysis = incident.analysis /\ incident'.alert = incident.alert
        /\ incident'.owner = incident.owner /\ incident'.limit = incident.limit
        /\ incident'.first = incident.first
        /\ incident'.reads = incident.reads /\ incident'.missing = incident.missing
    BY <1>1, <1>4 DEF Incidents
  <2> QED BY <1>2, <2>1 DEF IncidentInv
<1>5. PICK disabled, failed : disabled = "disabled" /\ failed = "failed"
  OBVIOUS
<1>6. CASE Embed
  BY <1>3, <1>4, <1>5, <1>6 DEF Embed
<1>7. CASE SearchVectors
  <2>1. PICK rows \in Rows : AnswerWith(RagStatus(rows))
    BY <1>7 DEF SearchVectors
  <2>2. PICK rag : rag = RagStatus(rows)
    OBVIOUS
  <2>3. rag \in {"failed", "ready", "needs-live-check"}
    BY <2>2 DEF RagStatus
  <2> QED BY <1>3, <2>1, <2>2, <2>3
<1> QED BY <1>6, <1>7
-----------------------------------------------------------------------------
LEMMA IncidentInvStep ==
    ASSUME IncidentInv, [IncidentNext]_incidentVars
    PROVE  IncidentInv'
<1>1. CASE UNCHANGED incidentVars
  BY <1>1 DEF IncidentInv, incidentVars
<1>2. CASE IncidentNext
  BY <1>2, BeginningsKeep, ResourceKeeps, PodsKeep, ReadsKeep, QueriesKeep, AnswersKeep
     DEF IncidentNext
<1> QED BY <1>1, <1>2

THEOREM IncidentInvHolds == IncidentSpec => []IncidentInv
BY IncidentInvInit, IncidentInvStep, PTL DEF IncidentSpec

(* The record of an analysis has its type. *)
THEOREM IncidentTypesCorrect == IncidentSpec => []IncidentTypeOK
<1>1. IncidentInv => IncidentTypeOK
  BY DEF IncidentInv, IncidentTypeOK
<1> QED BY <1>1, IncidentInvHolds, PTL

(* The answer of an analysis accounts for everything that it set out to read, *)
(* and its proposal for the workload it names, whatever failed.              *)
THEOREM AnalysesAreComplete == IncidentSpec => []IncidentsAccountForAll
<1>1. IncidentInv => IncidentsAccountForAll
  <2> SUFFICES ASSUME IncidentInv
               PROVE  IncidentsAccountForAll
    OBVIOUS
  <2>1. incident \in Incidents
    BY DEF IncidentInv
  <2>2. ASSUME Analysed
        PROVE  LET p == Proposal(incident)
               IN  /\ incident.reads \cup incident.missing = SoughtBy(incident)
                   /\ incident.reads \cap incident.missing = {}
                   /\ p.read \cap p.missing = {}
                   /\ p.confidence # "low"
                         /\ (incident.alert.kind = "Pod" => incident.alert.pod # Nobody)
                      => OwnedBy[p.pod] = p.target
                   /\ p.observed => "resource detail" \in incident.reads
    <3>1. FoundOut(incident) /\ Accounted(incident) /\ incident.pc = "answered"
      BY <2>2 DEF IncidentInv, Analysed
    <3>2. SoFar(incident) = SoughtBy(incident)
      BY <3>1 DEF SoFar, SoughtBy
    <3>3. PICK p : p = Proposal(incident)
      OBVIOUS
    <3>4. /\ p.target = ControllerOf(incident) /\ p.confidence = Confidence(incident)
          /\ p.pod = PodOf(incident) /\ p.observed = incident.limit
          /\ p.read \subseteq incident.reads
          /\ p.missing \subseteq incident.missing \cup {"owner", "limit"}
      BY <3>3 DEF Proposal
    <3>5. p.read \cap p.missing = {}
      <4>1. incident.reads \subseteq Sources
        BY <2>1 DEF Incidents
      <4>2. "owner" \notin Sources /\ "limit" \notin Sources
        BY DEF Sources, Metrics
      <4> QED BY <3>1, <3>4, <4>1, <4>2 DEF Accounted
    <3>6. ASSUME p.confidence # "low",
                 incident.alert.kind = "Pod" => incident.alert.pod # Nobody
          PROVE  OwnedBy[p.pod] = p.target
      <4>1. ControllerOf(incident) # Nobody
        BY <3>4, <3>6 DEF Confidence
      <4>2. CASE incident.owner # Nobody
        BY <3>1, <3>4, <3>6, <4>2 DEF FoundOut, ControllerOf, PodOf
      <4>3. CASE incident.owner = Nobody
        <5>1. incident.first # Nobody /\ ControllerOf(incident) = OwnedBy[incident.first]
          BY <4>1, <4>3 DEF ControllerOf
        <5>2. incident.alert.pod \in {Nobody, incident.first}
          BY <3>1, <5>1 DEF FoundOut, Listed
        <5>3. PodOf(incident) = incident.first
          BY <3>6, <5>1, <5>2 DEF PodOf
        <5> QED BY <3>4, <5>1, <5>3
      <4> QED BY <4>2, <4>3
    <3>7. p.observed => "resource detail" \in incident.reads
      BY <3>1, <3>4 DEF FoundOut
    <3> QED BY <3>1, <3>2, <3>3, <3>5, <3>6, <3>7 DEF Accounted
  <2>3. incident.pc = "answered" => (incident.cites = "runtime" <=> incident.rag = "ready")
    BY DEF IncidentInv
  <2> QED BY <2>2, <2>3 DEF IncidentsAccountForAll
<1> QED BY <1>1, IncidentInvHolds, PTL
-----------------------------------------------------------------------------
(* The dashboards over the approval queue. *)

\* A pending item lacks a required approval.
Incomplete(item) == item.state = Pending => ~(RequiredRoles \subseteq RolesApproved(item))

\* What the files hold and what the handlers have yet to write.
FilesIncomplete == \A i \in Items : Incomplete(file[i])
WritersIncomplete ==
    \A f \in Flights : req[f] \in Queue!Saving => Incomplete(req[f].out)

QueueInv == Queue!TypeOK /\ FilesIncomplete /\ WritersIncomplete

ShowsIncomplete(items) ==
    DOMAIN items \subseteq Items /\ \A i \in DOMAIN items : Incomplete(items[i])

FlightTyped(r) ==
    /\ r.pc \in {"idle", "asked", "served", "fetching", "listing"}
    /\ r.pc = "asked" /\ r.op = "submit" => r.draft \in Drafts
    /\ r.pc = "asked" /\ r.op = "review" => JobOf(r) \in Queue!ReviewJob
    /\ r.pc = "listing" => r.left \subseteq Items /\ ShowsIncomplete(r.items)

FlightsTyped == DOMAIN flight = Flights /\ \A f \in Flights : FlightTyped(flight[f])

InventoriesTyped ==
    /\ DOMAIN inventory = Dashboards
    /\ \A d \in Dashboards : inventory[d] = Unset \/ ShowsIncomplete(inventory[d])

ReviewInv ==
    /\ QueueInv
    /\ FlightsTyped
    /\ InventoriesTyped
    /\ reviewing \in [Dashboards -> {Unset} \cup (Items \X {"approve", "reject"})]
    /\ failures \in 0..MaxFailures

LEMMA RolesRequired == RequiredRoles \subseteq Roles /\ RequiredRoles # {}
<1>1. RequiredRoles = {RequiredOrder[n] : n \in DOMAIN RequiredOrder}
  BY OrderType DEF ToSet
<1>2. RequiredOrder \in Seq(Roles) /\ RequiredOrder # <<>>
  BY OrderType
<1>3. Len(RequiredOrder) \in Nat \ {0} /\ DOMAIN RequiredOrder = 1..Len(RequiredOrder)
  BY <1>2
<1>4. 1 \in DOMAIN RequiredOrder
  BY <1>3
<1>5. \A n \in DOMAIN RequiredOrder : RequiredOrder[n] \in Roles
  BY <1>2, <1>3
<1> QED BY <1>1, <1>4, <1>5

\* What a dashboard asks for is a role.
LEMMA NextRoleIsARole == ASSUME NEW item PROVE NextRole(item) \subseteq Roles
<1>1. \A n \in DOMAIN RequiredOrder : RequiredOrder[n] \in Roles
  BY OrderType
<1> QED BY <1>1 DEF NextRole
-----------------------------------------------------------------------------
(* The steps of the queue.                                                   *)

\* What a slot holds at each point of its handler.
LEMMA HandlerStages ==
    ASSUME Queue!TypeOK, NEW f \in Flights
    PROVE  /\ req[f].pc = "reading" => req[f] \in Queue!Reading
           /\ req[f].pc = "planned" => req[f] \in Queue!Planned
           /\ req[f].pc \in {"opening", "writing", "unlinked", "closing"}
                => req[f] \in Queue!Saving
BY DEF Queue!TypeOK, Queue!Idle, Queue!Reading, Queue!Saving, Queue!Planned

\* A stored submission is one of the four contents of a file.
LEMMA StoredIsSubmission ==
    ASSUME NEW c \in Queue!FileContent, Queue!Readable(c)
    PROVE  c \in Queue!Submission
BY DEF Queue!FileContent, Queue!Readable, Queue!Absent, Queue!Empty, Queue!Garbage,
       Queue!Pending, Queue!Approved, Queue!Rejected

LEMMA UnreadableIsIncomplete ==
    Incomplete(Queue!Absent) /\ Incomplete(Queue!Empty) /\ Incomplete(Queue!Garbage)
BY DEF Incomplete, Pending, Queue!Absent, Queue!Empty, Queue!Garbage

\* A slot changes, and its handler has an incomplete item to write, or none.
LEMMA SlotMoves ==
    ASSUME QueueInv, NEW f \in Flights, NEW r, req' = [req EXCEPT ![f] = r],
           r \in {Queue!Idle} \cup Queue!Reading \cup Queue!Saving \cup Queue!Planned,
           r \in Queue!Saving => Incomplete(r.out)
    PROVE  /\ req' \in [Flights -> {Queue!Idle} \cup Queue!Reading \cup Queue!Saving
                                      \cup Queue!Planned]
           /\ WritersIncomplete'
BY DEF QueueInv, Queue!TypeOK, WritersIncomplete

LEMMA IdleIsNotSaving == Queue!Idle \notin Queue!Saving
BY DEF Queue!Idle, Queue!Saving

\* A file changes, to something incomplete.
LEMMA FileMoves ==
    ASSUME QueueInv, NEW i \in Items, NEW c \in Queue!FileContent, Incomplete(c),
           file' = [file EXCEPT ![i] = c]
    PROVE  file' \in [Items -> Queue!FileContent] /\ FilesIncomplete'
BY DEF QueueInv, Queue!TypeOK, FilesIncomplete

LEMMA ReceiveKeeps ==
    ASSUME QueueInv, NEW f \in Flights, NEW job \in Queue!ReviewJob, Queue!Receive(f, job)
    PROVE  QueueInv'
<1> DEFINE r == [pc |-> "reading", job |-> job]
<1>1. req' = [req EXCEPT ![f] = r] /\ UNCHANGED <<file, persistence, clock, given>>
  BY DEF Queue!Receive
<1>2. r \in Queue!Reading /\ r \notin Queue!Saving
  BY DEF Queue!Reading, Queue!Saving
<1> HIDE DEF r
<1>3. /\ req' \in [Flights -> {Queue!Idle} \cup Queue!Reading \cup Queue!Saving
                                \cup Queue!Planned]
      /\ WritersIncomplete'
  BY <1>1, <1>2, SlotMoves
<1> QED BY <1>1, <1>3 DEF QueueInv, Queue!TypeOK, FilesIncomplete

LEMMA SubmitKeeps ==
    ASSUME QueueInv, NEW f \in Flights, NEW draft \in Drafts, Queue!ReceiveSubmit(f, draft)
    PROVE  QueueInv'
<1> DEFINE new == Queue!FreshSubmission(draft, clock + 1)
           r == [pc |-> "opening", job |-> [op |-> "submit", item |-> ItemOf[draft]],
                 out |-> new]
<1>1. /\ req' = [req EXCEPT ![f] = r] /\ clock' = clock + 1
      /\ UNCHANGED <<file, persistence, given>>
  BY DEF Queue!ReceiveSubmit
<1>2. new \in Queue!Submission /\ Incomplete(new)
  BY RolesRequired
     DEF QueueInv, Queue!TypeOK, Queue!FreshSubmission, Queue!Submission, Queue!Pending,
         Incomplete, RolesApproved
<1>3. [op |-> "submit", item |-> ItemOf[draft]] \in Queue!SubmitJob
  BY ItemsType DEF Queue!SubmitJob
<1> HIDE DEF new
<1>4. r \in Queue!Saving /\ r.out = new
  BY <1>2, <1>3 DEF Queue!Saving
<1> HIDE DEF r
<1>5. /\ req' \in [Flights -> {Queue!Idle} \cup Queue!Reading \cup Queue!Saving
                                \cup Queue!Planned]
      /\ WritersIncomplete'
  BY <1>1, <1>2, <1>4, SlotMoves
<1> QED BY <1>1, <1>5 DEF QueueInv, Queue!TypeOK, FilesIncomplete

\* A review leaves an item pending only while a required approval is missing.
LEMMA ReviewedIncomplete ==
    ASSUME NEW sub \in Queue!Submission, NEW job \in Queue!ReviewJob
    PROVE  /\ Queue!Reviewed(sub, job) \in Queue!Submission
           /\ Incomplete(Queue!Reviewed(sub, job))
<1> DEFINE approvals == Queue!WithApproval(sub.approvals, job.role, job.reviewer)
           state == Queue!StateAfterApproval(approvals)
           new == [sub EXCEPT !.approvals = approvals, !.state = state]
<1>1. CASE job.decision = "approve"
  <2>1. approvals \in SUBSET Queue!Approval
    BY DEF Queue!WithApproval, Queue!Approval, Queue!Submission, Queue!ReviewJob
  <2>2. state \in {Queue!Pending, Queue!Approved}
    BY DEF Queue!StateAfterApproval
  <2>3. state = Queue!Pending => ~(RequiredRoles \subseteq {a.role : a \in approvals})
    BY DEF Queue!StateAfterApproval, Queue!RemainingApprovals, Queue!Pending, Queue!Approved
  <2>4. Queue!Reviewed(sub, job) = new
    BY <1>1 DEF Queue!Reviewed
  <2> HIDE DEF approvals, state
  <2>5. new \in Queue!Submission /\ new.state = state /\ new.approvals = approvals
    BY <2>1, <2>2 DEF Queue!Submission
  <2>6. Incomplete(new)
    BY <2>3, <2>5 DEF Incomplete, RolesApproved, Pending, Queue!Pending
  <2> QED BY <2>4, <2>5, <2>6
<1>2. CASE job.decision # "approve"
  <2>1. Queue!Reviewed(sub, job) = [sub EXCEPT !.state = Queue!Rejected]
    BY <1>2 DEF Queue!Reviewed
  <2> QED BY <2>1 DEF Queue!Submission, Incomplete, Pending, Queue!Rejected
<1> QED BY <1>1, <1>2

LEMMA ReviewReadKeeps ==
    ASSUME QueueInv, NEW f \in Flights, Queue!ReadForReview(f)
    PROVE  QueueInv'
<1> DEFINE job == req[f].job
           sub == file[job.item]
           r == [pc |-> "opening", job |-> job, out |-> Queue!Reviewed(sub, job)]
<1>1. job \in Queue!ReviewJob /\ job.item \in Items /\ sub \in Queue!FileContent
  BY HandlerStages
     DEF QueueInv, Queue!TypeOK, Queue!ReadForReview, Queue!Reading, Queue!ReviewJob,
         Queue!PlanJob
<1>2. UNCHANGED <<file, persistence, clock>>
  BY DEF Queue!ReadForReview
<1>3. CASE Queue!ReviewAllowed(sub, job)
  <2>1. sub \in Queue!Submission
    BY <1>1, <1>3, StoredIsSubmission DEF Queue!ReviewAllowed
  <2>2. /\ Queue!Reviewed(sub, job) \in Queue!Submission
        /\ Incomplete(Queue!Reviewed(sub, job))
    BY <1>1, <2>1, ReviewedIncomplete
  <2>3. req' = [req EXCEPT ![f] = r]
    BY <1>3 DEF Queue!ReadForReview
  <2>4. r \in Queue!Saving /\ Incomplete(r.out)
    BY <1>1, <2>2 DEF Queue!Saving
  <2>5. given' \subseteq Queue!Given
    <3>1. [item |-> job.item, at |-> sub.at, role |-> job.role,
           approver |-> job.reviewer] \in Queue!Given
      BY <1>1, <2>1 DEF Queue!Given, Queue!Submission, Queue!ReviewJob
    <3> QED BY <1>3, <3>1 DEF Queue!ReadForReview, QueueInv, Queue!TypeOK
  <2> HIDE DEF r
  <2>6. /\ req' \in [Flights -> {Queue!Idle} \cup Queue!Reading \cup Queue!Saving
                                  \cup Queue!Planned]
        /\ WritersIncomplete'
    BY <2>3, <2>4, SlotMoves
  <2> QED BY <1>2, <2>5, <2>6 DEF QueueInv, Queue!TypeOK, FilesIncomplete
<1>4. CASE ~Queue!ReviewAllowed(sub, job)
  <2>1. req' = [req EXCEPT ![f] = Queue!Idle] /\ given' = given
    BY <1>4 DEF Queue!ReadForReview
  <2>2. /\ req' \in [Flights -> {Queue!Idle} \cup Queue!Reading \cup Queue!Saving
                                  \cup Queue!Planned]
        /\ WritersIncomplete'
    BY <2>1, IdleIsNotSaving, SlotMoves
  <2> QED BY <1>2, <2>1, <2>2 DEF QueueInv, Queue!TypeOK, FilesIncomplete
<1> QED BY <1>3, <1>4

LEMMA PlanKeeps ==
    ASSUME QueueInv, NEW f \in Flights, Queue!ReadForPlan(f)
    PROVE  QueueInv'
<1> DEFINE job == req[f].job
           sub == file[job.item]
           r == IF Queue!Readable(sub)
                THEN [pc |-> "planned", job |-> job, at |-> sub.at,
                      verdict |-> Queue!PlanVerdict(sub)]
                ELSE Queue!Idle
<1>1. job \in Queue!PlanJob /\ job.item \in Items /\ sub \in Queue!FileContent
  BY HandlerStages
     DEF QueueInv, Queue!TypeOK, Queue!ReadForPlan, Queue!Reading, Queue!ReviewJob,
         Queue!PlanJob
<1>2. req' = [req EXCEPT ![f] = r] /\ UNCHANGED <<file, persistence, clock, given>>
  BY DEF Queue!ReadForPlan
<1>3. r \in {Queue!Idle} \cup Queue!Planned
  BY <1>1, StoredIsSubmission DEF Queue!Planned, Queue!Submission, Queue!PlanVerdict
<1>4. r \notin Queue!Saving
  BY <1>3 DEF Queue!Planned, Queue!Saving, Queue!Idle
<1> HIDE DEF r
<1>5. /\ req' \in [Flights -> {Queue!Idle} \cup Queue!Reading \cup Queue!Saving
                                \cup Queue!Planned]
      /\ WritersIncomplete'
  BY <1>2, <1>3, <1>4, SlotMoves
<1> QED BY <1>2, <1>5 DEF QueueInv, Queue!TypeOK, FilesIncomplete

\* A writer goes on, or ends.
LEMMA WriterMoves ==
    ASSUME QueueInv, NEW f \in Flights, req[f] \in Queue!Saving,
           \/ \E pc \in {"writing", "unlinked", "closing"} : req' = [req EXCEPT ![f].pc = pc]
           \/ req' = [req EXCEPT ![f] = Queue!Idle]
    PROVE  /\ req' \in [Flights -> {Queue!Idle} \cup Queue!Reading \cup Queue!Saving
                                      \cup Queue!Planned]
           /\ WritersIncomplete'
<1>1. ASSUME NEW pc \in {"writing", "unlinked", "closing"}, req' = [req EXCEPT ![f].pc = pc]
      PROVE  /\ req' \in [Flights -> {Queue!Idle} \cup Queue!Reading \cup Queue!Saving
                                      \cup Queue!Planned]
             /\ WritersIncomplete'
  <2> DEFINE r == [req[f] EXCEPT !.pc = pc]
  <2>1. r \in Queue!Saving /\ r.out = req[f].out
    BY DEF Queue!Saving
  <2>2. req' = [req EXCEPT ![f] = r]
    BY <1>1 DEF QueueInv, Queue!TypeOK
  <2> HIDE DEF r
  <2>3. Incomplete(r.out)
    BY <2>1 DEF QueueInv, WritersIncomplete
  <2> QED BY <2>1, <2>2, <2>3, SlotMoves
<1>2. CASE req' = [req EXCEPT ![f] = Queue!Idle]
  BY <1>2, IdleIsNotSaving, SlotMoves
<1> QED BY <1>1, <1>2

LEMMA WriterWritesIncomplete ==
    ASSUME QueueInv, NEW f \in Flights, req[f] \in Queue!Saving
    PROVE  /\ req[f].job.item \in Items
           /\ req[f].out \in Queue!FileContent
           /\ Incomplete(req[f].out)
BY DEF QueueInv, WritersIncomplete, Queue!Saving, Queue!SubmitJob, Queue!ReviewJob,
       Queue!FileContent

LEMMA WriteKeeps ==
    ASSUME QueueInv, NEW f \in Flights,
           Queue!OpenForWrite(f) \/ Queue!LandWrite(f) \/ Queue!FailWrite(f)
    PROVE  QueueInv'
<1>1. req[f] \in Queue!Saving
  BY HandlerStages DEF QueueInv, Queue!OpenForWrite, Queue!LandWrite, Queue!FailWrite
<1> DEFINE i == req[f].job.item
<1>2. /\ i \in Items /\ req[f].out \in Queue!FileContent /\ Incomplete(req[f].out)
      /\ Queue!Empty \in Queue!FileContent /\ Queue!Garbage \in Queue!FileContent
  BY <1>1, WriterWritesIncomplete DEF Queue!FileContent
<1>3. \/ file' = file
      \/ \E c \in {Queue!Empty, Queue!Garbage, req[f].out} : file' = [file EXCEPT ![i] = c]
  BY DEF Queue!OpenForWrite, Queue!LandWrite, Queue!FailWrite, Queue!Landed
<1>4. file' \in [Items -> Queue!FileContent] /\ FilesIncomplete'
  <2>1. CASE file' = file
    BY <2>1 DEF QueueInv, Queue!TypeOK, FilesIncomplete
  <2>2. ASSUME NEW c \in {Queue!Empty, Queue!Garbage, req[f].out},
               file' = [file EXCEPT ![i] = c]
        PROVE  file' \in [Items -> Queue!FileContent] /\ FilesIncomplete'
    <3>1. c \in Queue!FileContent /\ Incomplete(c)
      BY <1>2, UnreadableIsIncomplete
    <3> HIDE DEF i
    <3> QED BY <1>2, <2>2, <3>1, FileMoves
  <2> QED BY <1>3, <2>1, <2>2
<1>5. \/ \E pc \in {"writing", "unlinked", "closing"} : req' = [req EXCEPT ![f].pc = pc]
      \/ req' = [req EXCEPT ![f] = Queue!Idle]
  BY DEF Queue!OpenForWrite, Queue!LandWrite, Queue!FailWrite
<1>6. /\ req' \in [Flights -> {Queue!Idle} \cup Queue!Reading \cup Queue!Saving
                                \cup Queue!Planned]
      /\ WritersIncomplete'
  BY <1>1, <1>5, WriterMoves
<1>7. UNCHANGED <<persistence, clock, given>>
  BY DEF Queue!OpenForWrite, Queue!LandWrite, Queue!FailWrite
<1> QED BY <1>4, <1>6, <1>7 DEF QueueInv, Queue!TypeOK

LEMMA AnswerSentKeeps ==
    ASSUME QueueInv, NEW f \in Flights, Queue!Answer(f)
    PROVE  QueueInv'
<1>1. req' = [req EXCEPT ![f] = Queue!Idle] /\ UNCHANGED <<file, persistence, clock, given>>
  BY DEF Queue!Answer
<1>2. /\ req' \in [Flights -> {Queue!Idle} \cup Queue!Reading \cup Queue!Saving
                                \cup Queue!Planned]
      /\ WritersIncomplete'
  BY <1>1, IdleIsNotSaving, SlotMoves
<1> QED BY <1>1, <1>2 DEF QueueInv, Queue!TypeOK, FilesIncomplete

LEMMA HandlerKeeps ==
    ASSUME QueueInv, NEW f \in Flights, Queue!HandlerStep(f)
    PROVE  QueueInv'
BY ReviewReadKeeps, PlanKeeps, WriteKeeps, AnswerSentKeeps DEF Queue!HandlerStep

LEMMA WithdrawKeeps ==
    ASSUME QueueInv, NEW i \in Items, Queue!Withdraw(i)
    PROVE  QueueInv'
<1>1. file' = [file EXCEPT ![i] = Queue!Absent] /\ UNCHANGED <<persistence, clock, given>>
  BY DEF Queue!Withdraw
<1>2. file' \in [Items -> Queue!FileContent] /\ FilesIncomplete'
  BY <1>1, UnreadableIsIncomplete, FileMoves DEF Queue!FileContent
<1>3. ASSUME NEW f \in Flights
      PROVE  /\ req'[f] \in {Queue!Idle} \cup Queue!Reading \cup Queue!Saving
                              \cup Queue!Planned
             /\ req'[f] \in Queue!Saving => Incomplete(req'[f].out)
  <2>1. CASE req[f].pc = "writing" /\ req[f].job.item = i
    <3>1. req'[f] = [req[f] EXCEPT !.pc = "unlinked"]
      BY <2>1 DEF Queue!Withdraw
    <3>2. req[f] \in Queue!Saving /\ Incomplete(req[f].out)
      BY <2>1, HandlerStages DEF QueueInv, WritersIncomplete
    <3>3. req'[f] \in Queue!Saving /\ req'[f].out = req[f].out
      BY <3>1, <3>2 DEF Queue!Saving
    <3> QED BY <3>2, <3>3
  <2>2. CASE ~(req[f].pc = "writing" /\ req[f].job.item = i)
    <3>1. req'[f] = req[f]
      BY <2>2 DEF Queue!Withdraw
    <3> QED BY <3>1 DEF QueueInv, WritersIncomplete, Queue!TypeOK
  <2> QED BY <2>1, <2>2
<1>4. DOMAIN req' = Flights /\ req' = [f \in DOMAIN req' |-> req'[f]]
  BY DEF Queue!Withdraw
<1>5. req' \in [Flights -> {Queue!Idle} \cup Queue!Reading \cup Queue!Saving
                             \cup Queue!Planned]
  BY <1>3, <1>4
<1>6. WritersIncomplete'
  BY <1>3 DEF WritersIncomplete
<1> QED BY <1>1, <1>2, <1>5, <1>6 DEF QueueInv, Queue!TypeOK

LEMMA RestartKeeps ==
    ASSUME QueueInv, Queue!Restart(TRUE)
    PROVE  QueueInv'
BY IdleIsNotSaving
   DEF Queue!Restart, QueueInv, Queue!TypeOK, FilesIncomplete, WritersIncomplete
-----------------------------------------------------------------------------
(* The steps of the dashboards.                                              *)

LEMMA ReviewStarts == ASSUME ReviewInit PROVE ReviewInv
<1>1. QueueInv
  <2>1. Queue!TypeOK
    BY DEF ReviewInit, Queue!Init, Queue!TypeOK, Queue!FileContent, Queue!Given
  <2>2. \A i \in Items : file[i] = Queue!Absent
    BY DEF ReviewInit, Queue!Init
  <2>3. \A f \in Flights : req[f] = Queue!Idle
    BY DEF ReviewInit, Queue!Init
  <2> QED BY <2>1, <2>2, <2>3, UnreadableIsIncomplete, IdleIsNotSaving
          DEF QueueInv, FilesIncomplete, WritersIncomplete
<1>2. DOMAIN flight = Flights /\ \A f \in Flights : flight[f].pc \in {"idle", "fetching"}
  BY DEF ReviewInit, NotSent
<1>3. FlightsTyped
  BY <1>2 DEF FlightsTyped, FlightTyped
<1>4. InventoriesTyped
  BY DEF ReviewInit, InventoriesTyped
<1>5. reviewing \in [Dashboards -> {Unset} \cup (Items \X {"approve", "reject"})]
  BY DEF ReviewInit
<1>6. failures \in 0..MaxFailures
  BY FailuresType DEF ReviewInit
<1> QED BY <1>1, <1>3, <1>4, <1>5, <1>6 DEF ReviewInv

\* A request that is sent or moves on.
LEMMA FlightMoves ==
    ASSUME FlightsTyped, NEW f \in Flights, NEW r, FlightTyped(r),
           flight' = [flight EXCEPT ![f] = r]
    PROVE  FlightsTyped'
BY DEF FlightsTyped

LEMMA SentIsTyped ==
    ASSUME FlightsTyped, NEW d \in Dashboards, NEW r, FlightTyped(r), Send(d, r)
    PROVE  FlightsTyped'
BY FlightMoves DEF Send

LEMMA ReviewersEnd ==
    ASSUME ReviewInv, NEW f \in Flights, EndFlight(f)
    PROVE  /\ FlightsTyped'
           /\ reviewing' \in [Dashboards -> {Unset} \cup (Items \X {"approve", "reject"})]
<1>1. FlightTyped(NotSent)
  BY DEF FlightTyped, NotSent
<1>2. flight' = [flight EXCEPT ![f] = NotSent]
  BY DEF EndFlight
<1>3. FlightsTyped'
  BY <1>1, <1>2, FlightMoves DEF ReviewInv
<1>4. reviewing' = reviewing \/ reviewing' = [reviewing EXCEPT ![OwnerOf[f]] = Unset]
  BY DEF EndFlight
<1> QED BY <1>3, <1>4 DEF ReviewInv

\* A request that was served goes on to fetch the inventory.
LEMMA FetchMoves ==
    ASSUME FlightsTyped, NEW f \in Flights, Fetch(f)
    PROVE  FlightsTyped'
<1> DEFINE r == [pc |-> "fetching", op |-> flight[f].op]
<1>1. flight' = [flight EXCEPT ![f] = r]
  BY DEF Fetch, FlightsTyped
<1>2. FlightTyped(r)
  BY DEF FlightTyped
<1> HIDE DEF r
<1> QED BY <1>1, <1>2, FlightMoves

LEMMA HandOverMoves ==
    ASSUME FlightsTyped, NEW f \in Flights, HandedOver(f)
    PROVE  FlightsTyped'
<1> DEFINE r == [pc |-> "served", op |-> flight[f].op]
<1>1. flight' = [flight EXCEPT ![f] = r]
  BY DEF HandedOver, FlightsTyped
<1>2. FlightTyped(r)
  BY DEF FlightTyped
<1> HIDE DEF r
<1> QED BY <1>1, <1>2, FlightMoves

LEMMA AnsweredMoves ==
    ASSUME ReviewInv, NEW f \in Flights, Answered(f)
    PROVE  /\ FlightsTyped'
           /\ reviewing' \in [Dashboards -> {Unset} \cup (Items \X {"approve", "reject"})]
<1>1. CASE UNCHANGED <<flight, reviewing>>
  BY <1>1 DEF ReviewInv, FlightsTyped
<1>2. CASE Fetch(f) /\ UNCHANGED reviewing
  BY <1>2, FetchMoves DEF ReviewInv
<1>3. CASE EndFlight(f)
  BY <1>3, ReviewersEnd
<1> QED BY <1>1, <1>2, <1>3 DEF Answered

LEMMA FailingCounts ==
    ASSUME failures \in 0..MaxFailures, Failing
    PROVE  failures' \in 0..MaxFailures
BY FailuresType DEF Failing

\* A file that is listed is shown as it is when it is read.
LEMMA ListedIsIncomplete ==
    ASSUME QueueInv, NEW items, ShowsIncomplete(items), NEW i \in Items
    PROVE  ShowsIncomplete(WithItem(items, i))
BY DEF QueueInv, FilesIncomplete, ShowsIncomplete, WithItem

LEMMA QueueKept == ASSUME QueueInv, UNCHANGED queueVars PROVE QueueInv'
BY DEF QueueInv, queueVars, Queue!TypeOK, FilesIncomplete, WritersIncomplete

LEMMA ReviewStays == ASSUME ReviewInv, [ReviewNext]_reviewVars PROVE ReviewInv'
<1>i. QueueInv /\ FlightsTyped
  BY DEF ReviewInv
<1>1. ASSUME NEW d \in Dashboards, NEW draft \in Drafts, ClickSubmit(d, draft)
      PROVE  ReviewInv'
  <2> DEFINE r == [pc |-> "asked", op |-> "submit", draft |-> draft]
  <2>1. FlightTyped(r)
    BY DEF FlightTyped
  <2>2. Send(d, r) /\ UNCHANGED <<queueVars, inventory, reviewing, failures>>
    BY <1>1 DEF ClickSubmit
  <2> HIDE DEF r
  <2>3. FlightsTyped' /\ QueueInv'
    BY <1>i, <2>1, <2>2, SentIsTyped, QueueKept
  <2> QED BY <2>2, <2>3 DEF ReviewInv, InventoriesTyped
<1>2. ASSUME NEW d \in Dashboards, NEW i \in Items, NEW decision \in {"approve", "reject"},
             ClickReview(d, i, decision)
      PROVE  ReviewInv'
  <2>1. PICK role \in NextRole(inventory[d][i]) :
           Send(d, [pc |-> "asked", op |-> "review", item |-> i, decision |-> decision,
                    role |-> role])
    BY <1>2 DEF ClickReview
  <2> DEFINE r == [pc |-> "asked", op |-> "review", item |-> i, decision |-> decision,
                   role |-> role]
  <2>2. role \in Roles
    BY <2>1, NextRoleIsARole
  <2>3. FlightTyped(r)
    BY <2>2, ReviewerType DEF FlightTyped, JobOf, Queue!ReviewJob
  <2>4. Send(d, r)
    BY <2>1
  <2> HIDE DEF r
  <2>5. UNCHANGED <<queueVars, inventory, failures>>
    BY <1>2 DEF ClickReview
  <2>6. FlightsTyped' /\ QueueInv'
    BY <1>i, <2>3, <2>4, <2>5, SentIsTyped, QueueKept
  <2>7. reviewing' \in [Dashboards -> {Unset} \cup (Items \X {"approve", "reject"})]
    BY <1>2 DEF ClickReview, ReviewInv
  <2> QED BY <2>5, <2>6, <2>7 DEF ReviewInv, InventoriesTyped
<1>3. ASSUME NEW f \in Flights, ArriveReview(f) PROVE ReviewInv'
  <2>1. /\ flight[f].pc = "asked" /\ flight[f].op = "review" /\ HandedOver(f)
        /\ Queue!Receive(f, JobOf(flight[f])) /\ UNCHANGED <<inventory, reviewing, failures>>
    BY <1>3 DEF ArriveReview
  <2>2. JobOf(flight[f]) \in Queue!ReviewJob
    BY <2>1 DEF ReviewInv, FlightsTyped, FlightTyped
  <2>3. QueueInv'
    BY <1>i, <2>1, <2>2, ReceiveKeeps
  <2>4. FlightsTyped'
    BY <1>i, <2>1, HandOverMoves
  <2> QED BY <2>1, <2>3, <2>4 DEF ReviewInv, InventoriesTyped
<1>4. ASSUME NEW f \in Flights, ArriveSubmit(f) PROVE ReviewInv'
  <2>1. UNCHANGED <<inventory, reviewing, failures>> /\ flight[f].draft \in Drafts
    BY <1>4 DEF ArriveSubmit, ReviewInv, FlightsTyped, FlightTyped
  <2>2. CASE Queue!ReceiveSubmit(f, flight[f].draft) /\ HandedOver(f)
    <3>1. QueueInv' /\ FlightsTyped'
      BY <1>i, <2>1, <2>2, SubmitKeeps, HandOverMoves
    <3> QED BY <2>1, <3>1 DEF ReviewInv, InventoriesTyped
  <2>3. CASE Fetch(f) /\ UNCHANGED queueVars
    <3>1. QueueInv' /\ FlightsTyped'
      BY <1>i, <2>3, QueueKept, FetchMoves
    <3> QED BY <2>1, <3>1 DEF ReviewInv, InventoriesTyped
  <2> QED BY <1>4, <2>2, <2>3 DEF ArriveSubmit
<1>5. ASSUME NEW f \in Flights, Serve(f) PROVE ReviewInv'
  <2>1. Queue!HandlerStep(f) /\ Answered(f) /\ UNCHANGED <<inventory, failures>>
    BY <1>5 DEF Serve
  <2>2. QueueInv'
    BY <1>i, <2>1, HandlerKeeps
  <2> QED BY <2>1, <2>2, AnsweredMoves DEF ReviewInv, InventoriesTyped
<1>6. ASSUME NEW f \in Flights, ListFiles(f) PROVE ReviewInv'
  <2> DEFINE r == [pc |-> "listing", op |-> flight[f].op,
                   left |-> {i \in Items : file[i] # Queue!Absent}, items |-> <<>>]
  <2>1. flight' = [flight EXCEPT ![f] = r]
    BY <1>6 DEF ListFiles, ReviewInv, FlightsTyped
  <2>2. FlightTyped(r)
    BY DEF FlightTyped, ShowsIncomplete
  <2> HIDE DEF r
  <2>3. UNCHANGED <<queueVars, inventory, reviewing, failures>>
    BY <1>6 DEF ListFiles
  <2>4. FlightsTyped' /\ QueueInv'
    BY <1>i, <2>1, <2>2, <2>3, FlightMoves, QueueKept
  <2> QED BY <2>3, <2>4 DEF ReviewInv, InventoriesTyped
<1>7. ASSUME NEW f \in Flights, ReadItem(f) PROVE ReviewInv'
  <2>1. PICK i \in flight[f].left :
           flight' = [flight EXCEPT ![f].left = @ \ {i}, ![f].items = WithItem(@, i)]
    BY <1>7 DEF ReadItem
  <2> DEFINE items == WithItem(flight[f].items, i)
             r == [flight[f] EXCEPT !.left = @ \ {i}, !.items = items]
  <2>2. flight[f].pc = "listing" /\ FlightTyped(flight[f])
    BY <1>7 DEF ReadItem, ReviewInv, FlightsTyped
  <2>3. i \in Items /\ ShowsIncomplete(flight[f].items) /\ flight[f].left \subseteq Items
    BY <2>1, <2>2 DEF FlightTyped
  <2>4. ShowsIncomplete(items)
    BY <1>i, <2>3, ListedIsIncomplete
  <2>5. flight' = [flight EXCEPT ![f] = r]
    BY <2>1 DEF ReviewInv, FlightsTyped
  <2> HIDE DEF items
  <2>6. FlightTyped(r)
    BY <2>2, <2>3, <2>4 DEF FlightTyped
  <2> HIDE DEF r
  <2>7. UNCHANGED <<queueVars, inventory, reviewing, failures>>
    BY <1>7 DEF ReadItem
  <2>8. FlightsTyped' /\ QueueInv'
    BY <1>i, <2>5, <2>6, <2>7, FlightMoves, QueueKept
  <2> QED BY <2>7, <2>8 DEF ReviewInv, InventoriesTyped
<1>8. ASSUME NEW f \in Flights, ShowInventory(f) PROVE ReviewInv'
  <2>1. /\ EndFlight(f) /\ UNCHANGED <<queueVars, failures>>
        /\ inventory' = [inventory EXCEPT ![OwnerOf[f]] = flight[f].items]
        /\ ShowsIncomplete(flight[f].items)
    BY <1>8 DEF ShowInventory, ReviewInv, FlightsTyped, FlightTyped
  <2>2. InventoriesTyped'
    BY <2>1 DEF ReviewInv, InventoriesTyped
  <2>3. QueueInv'
    BY <1>i, <2>1, QueueKept
  <2> QED BY <2>1, <2>2, <2>3, ReviewersEnd DEF ReviewInv
<1>9. ASSUME NEW f \in Flights, Fail(f) PROVE ReviewInv'
  <2>1. EndFlight(f) /\ Failing /\ UNCHANGED <<queueVars, inventory>>
    BY <1>9 DEF Fail
  <2>2. failures' \in 0..MaxFailures /\ QueueInv'
    BY <1>i, <2>1, FailingCounts, QueueKept DEF ReviewInv
  <2> QED BY <2>1, <2>2, ReviewersEnd DEF ReviewInv, InventoriesTyped
<1>10. ASSUME NEW f \in Flights, FailToWrite(f) PROVE ReviewInv'
  <2>1. Failing /\ Queue!FailWrite(f) /\ Answered(f) /\ UNCHANGED inventory
    BY <1>10 DEF FailToWrite
  <2>2. failures' \in 0..MaxFailures /\ QueueInv'
    BY <1>i, <2>1, FailingCounts, WriteKeeps DEF ReviewInv
  <2> QED BY <2>1, <2>2, AnsweredMoves DEF ReviewInv, InventoriesTyped
<1>11. CASE RestartServer
  <2>1. /\ Failing /\ Queue!Restart(TRUE) /\ UNCHANGED inventory
        /\ flight' = [f \in Flights |-> NotSent]
        /\ reviewing' = [d \in Dashboards |-> Unset]
    BY <1>11 DEF RestartServer
  <2>2. failures' \in 0..MaxFailures /\ QueueInv'
    BY <1>i, <2>1, FailingCounts, RestartKeeps DEF ReviewInv
  <2>3. FlightsTyped'
    BY <2>1 DEF FlightsTyped, FlightTyped, NotSent
  <2> QED BY <2>1, <2>2, <2>3 DEF ReviewInv, InventoriesTyped
<1>12. ASSUME NEW i \in Items, DeleteFile(i) PROVE ReviewInv'
  <2>1. Queue!Withdraw(i) /\ UNCHANGED <<inventory, reviewing, flight, failures>>
    BY <1>12 DEF DeleteFile
  <2>2. QueueInv'
    BY <1>i, <2>1, WithdrawKeeps
  <2> QED BY <2>1, <2>2 DEF ReviewInv, InventoriesTyped, FlightsTyped
<1>13. CASE UNCHANGED reviewVars
  <2>1. UNCHANGED <<queueVars, inventory, reviewing, flight, failures>>
    BY <1>13 DEF reviewVars, queueVars
  <2>2. QueueInv'
    BY <1>i, <2>1, QueueKept
  <2> QED BY <2>1, <2>2 DEF ReviewInv, InventoriesTyped, FlightsTyped
<1> QED BY <1>1, <1>2, <1>3, <1>4, <1>5, <1>6, <1>7, <1>8, <1>9, <1>10, <1>11, <1>12, <1>13
        DEF ReviewNext, ClickApprove, GoesOn

LEMMA ReviewInvHolds == ReviewSpec => []ReviewInv
BY ReviewStarts, ReviewStays, PTL DEF ReviewSpec

LEMMA ReviewTypes == ReviewInv => ReviewTypeOK
BY DEF ReviewInv, QueueInv, FlightsTyped, InventoriesTyped, ReviewTypeOK, ShowsIncomplete,
       FlightTyped

(* The inventories on the dashboards, the requests on their way, their       *)
(* handlers and the files keep their types, for every number of dashboards   *)
(* and requests.                                                             *)
THEOREM ReviewTypesCorrect == ReviewSpec => []ReviewTypeOK
BY ReviewTypes, ReviewInvHolds, PTL

\* What a dashboard shows as pending.
OffersMissingRole ==
    \A d \in Dashboards : inventory[d] # Unset =>
        \A i \in DOMAIN inventory[d] :
            inventory[d][i].state = Pending =>
                \E role \in RequiredRoles : role \notin RolesApproved(inventory[d][i])

(* However old its inventory, read file by file while handlers overwrite     *)
(* each other's approvals, tear files and fail, a dashboard that offers to   *)
(* review an item shows a required role without an approval: the fallback of *)
(* reviewQueueItem to the first required role, approved already, is never    *)
(* taken.                                                                    *)
THEOREM ReviewsOfferMissingRole == ReviewSpec => []OffersMissingRole
<1>1. ReviewInv => OffersMissingRole
  BY DEF ReviewInv, InventoriesTyped, OffersMissingRole, ShowsIncomplete, Incomplete
<1> QED BY <1>1, ReviewInvHolds, PTL
-----------------------------------------------------------------------------
(* The parts together. *)

\* Each part does its own steps, or stays as it is.
LEMMA ConsoleParts ==
    ASSUME [Next]_<<part, readVars, coverageVars, diagnosisVars, explorerVars, reviewVars,
                    incidentVars>>
    PROVE  /\ [ReadNext]_readVars /\ [CoverageNext]_coverageVars
           /\ [DiagnosisNext]_diagnosisVars /\ [ExplorerNext]_explorerVars
           /\ [ReviewNext]_reviewVars /\ [IncidentNext]_incidentVars
BY DEF Next, Only

(* The variables of every part have their types, in every behaviour of the  *)
(* console and the API under it.                                            *)
THEOREM ConsoleTypesCorrect == Spec => []ConsoleTypeOK
<1> DEFINE vars == <<part, readVars, coverageVars, diagnosisVars, explorerVars, reviewVars,
                     incidentVars>>
<1>1. Init => /\ ReadInv /\ CoverageInit /\ DiagnosisInit /\ ExplorerInit /\ ReviewInv
              /\ IncidentInit
  BY InitHolds, ReviewStarts DEF Init
<1>2. [Next]_vars => /\ [CoverageNext]_coverageVars /\ [DiagnosisNext]_diagnosisVars
                     /\ [ExplorerNext]_explorerVars /\ [IncidentNext]_incidentVars
  BY ConsoleParts
<1>3. ReadInv /\ [Next]_vars => ReadInv'
  BY ConsoleParts, NextKeeps
<1>4. ReviewInv /\ [Next]_vars => ReviewInv'
  BY ConsoleParts, ReviewStays
<1>5. ReadInv => ReadTypeOK
  BY DEF ReadInv
<1>6. ReviewInv => ReviewTypeOK
  BY ReviewTypes
<1> HIDE DEF vars
<1>7. Init /\ [][Next]_vars => CoverageSpec /\ DiagnosisSpec /\ ExplorerSpec /\ IncidentSpec
  BY <1>1, <1>2, PTL DEF CoverageSpec, DiagnosisSpec, ExplorerSpec, IncidentSpec
<1>8. Init /\ [][Next]_vars => [](ReadTypeOK /\ ReviewTypeOK)
  BY <1>1, <1>3, <1>4, <1>5, <1>6, PTL
<1>9. Spec => Init /\ [][Next]_vars
  BY DEF Spec, vars
<1>10. ReadTypeOK /\ CoverageTypeOK /\ DiagnosisTypeOK /\ ExplorerTypeOK /\ ReviewTypeOK
         /\ IncidentTypeOK => ConsoleTypeOK
  BY DEF ConsoleTypeOK
<1> QED BY <1>7, <1>8, <1>9, <1>10, CoverageTypesCorrect, DiagnosisTypesCorrect,
           ExplorerTypesCorrect, IncidentTypesCorrect, PTL
=============================================================================
