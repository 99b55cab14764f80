---------------------------- MODULE ResourceExplorer ----------------------------
(***************************************************************************)
(* The resource explorer of the web console                                 *)
(* (apps/web/src/components/OcpResourceExplorer.tsx): the user selects a    *)
(* resource, loads pages of its list and opens items, while the answers of  *)
(* earlier loads are still on their way and may come in any order.          *)
(*                                                                          *)
(* A load is one call of loadSelectedResource, with the details of the      *)
(* first item that it awaits, or of loadItemDetails for an item the user    *)
(* opens.  The fetches of one Promise.all answer together: nothing is done  *)
(* with one of them before the others.  The API is any server that answers  *)
(* or fails.  What the form says (namespace, selectors, full read) goes into *)
(* the requests and is left out.                                            *)
(***************************************************************************)
EXTENDS Naturals, Sequences

CONSTANTS
    Resources,   \* resources that are safe to list
    Pods,        \* those whose items have logs
    Loads,       \* bound: loads in flight
    MaxPages,    \* bound on the pages of a list
    MaxClicks,   \* bound on what the user does
    Nothing         \* null, undefined, or nothing selected

ASSUME PodsType == Pods \subseteq Resources
ASSUME NothingType == Nothing \notin Resources
ASSUME BoundsType == MaxPages \in Nat \ {0} /\ MaxClicks \in Nat

VARIABLES
    discovered,     \* discovery.resources
    preset,         \* navigationPreset: the resource it asks for
    selected,       \* selectedKey
    list,           \* the list on screen, with the access matrix of its load
    detail,         \* the item on screen, with its events and related resources
    logs,
    listLoading,
    detailLoading,
    pageTokens,     \* the continue token of each page
    pageIndex,      \* from 0, as in the code
    load,           \* what each load in flight awaits
    clicks,         \* the number of clicks so far, and of the last load
    applied,        \* history: the last load that put an answer on screen
    overtaken,      \* history: an answer came after that of a later load
    overlapped      \* history: a list was asked for while another was awaited

screen == <<list, detail, logs, listLoading, detailLoading, pageTokens, pageIndex>>
explorerVars == <<discovered, preset, selected, screen, load, clicks,
                  applied, overtaken, overlapped>>

NoLoad == [pc |-> "idle"]
FirstPage == [key |-> Nothing, page |-> 0]      \* no token

ExplorerInit ==
    /\ discovered = {} /\ preset = Nothing /\ selected = Nothing
    /\ list = Nothing /\ detail = Nothing /\ logs = Nothing
    /\ listLoading = FALSE /\ detailLoading = FALSE
    /\ pageTokens = <<FirstPage>> /\ pageIndex = 0
    /\ load = [l \in Loads |-> NoLoad]
    /\ clicks = 0 /\ applied = 0
    /\ overtaken = FALSE /\ overlapped = FALSE

Click == clicks < MaxClicks /\ clicks' = clicks + 1

\* A load of a list lasts until the details of its first item are there.
AwaitsList(c) == IF c.pc \in {"detail", "logs"} THEN c.first ELSE c.pc = "list"

(* loadSelectedResource up to its await: a page of the list of a resource.   *)
BeginList(key, token, index, reset) ==
    /\ \E l \in Loads :
          /\ load[l] = NoLoad
          /\ load' = [load EXCEPT ![l] =
                        [pc |-> "list", n |-> clicks + 1, key |-> key, page |-> token.page,
                         index |-> index, reset |-> reset]]
    /\ overlapped' = (overlapped \/ \E l \in Loads : AwaitsList(load[l]))
    /\ listLoading' = TRUE

\* What selecting a resource does: its first page is loaded if it is another.
Select(key) ==
    /\ selected' = key
    /\ IF key # selected
       THEN BeginList(key, FirstPage, 0, TRUE)
       ELSE UNCHANGED <<load, overlapped, listLoading>>
    /\ UNCHANGED <<list, detail, logs, detailLoading, pageTokens, pageIndex, applied, overtaken>>

ChooseResource(key) ==
    /\ Click
    /\ key \in discovered
    /\ Select(key)
    /\ UNCHANGED <<discovered, preset>>

(* The navigation of the console asks for a resource; it is used only once   *)
(* a resource is selected.                                                  *)
Navigate(key) ==
    /\ Click
    /\ selected # Nothing
    /\ preset' = key
    /\ Select(IF key \in discovered THEN key ELSE selected)
    /\ UNCHANGED discovered

(* Discovery selects a resource if none is, and applies the last navigation *)
(* again.                                                                   *)
Discover(found) ==
    /\ Click
    /\ discovered' = found
    /\ IF preset \in found THEN Select(preset)
       ELSE IF selected = Nothing /\ found # {} THEN \E key \in found : Select(key)
       ELSE UNCHANGED <<selected, screen, load, applied, overtaken, overlapped>>
    /\ UNCHANGED preset

\* The buttons of the list need a selected resource and no list being loaded.
Ready == Click /\ selected \in discovered /\ ~listLoading

LoadAgain ==
    /\ Ready
    /\ BeginList(selected, FirstPage, 0, TRUE)
    /\ UNCHANGED <<discovered, preset, selected, list, detail, logs, detailLoading,
                   pageTokens, pageIndex, applied, overtaken>>

(* The token of the next page is recorded before the page is asked for.     *)
LoadNextPage ==
    LET token == [key |-> list.key, page |-> list.page + 1]
    IN  /\ Ready
        /\ list # Nothing
        /\ list.more
        /\ pageTokens' = SubSeq(pageTokens \o [i \in 1..(pageIndex + 1) |-> FirstPage],
                                1, pageIndex + 1) \o <<token>>
        /\ BeginList(selected, token, pageIndex + 1, FALSE)
        /\ UNCHANGED <<discovered, preset, selected, list, detail, logs, detailLoading,
                       pageIndex, applied, overtaken>>

\* Fault: the button is there on the first page too.
LoadPageBefore ==
    /\ Ready
    /\ BeginList(selected, FirstPage, pageIndex - 1, FALSE)
    /\ UNCHANGED <<discovered, preset, selected, list, detail, logs, detailLoading,
                   pageTokens, pageIndex, applied, overtaken>>

LoadPreviousPage ==
    /\ Ready
    /\ pageIndex > 0
    /\ BeginList(selected,
                 IF pageIndex \in DOMAIN pageTokens THEN pageTokens[pageIndex] ELSE FirstPage,
                 pageIndex - 1, FALSE)
    /\ UNCHANGED <<discovered, preset, selected, list, detail, logs, detailLoading,
                   pageTokens, pageIndex, applied, overtaken>>

\* loadItemDetails up to its await.
Details(n, key, item, first) ==
    [pc |-> "detail", n |-> n, key |-> key, item |-> item, first |-> first]

(* Lists are shown, and their items can be opened, while none is loading.   *)
OpenItem(nth) ==
    /\ Click
    /\ list # Nothing /\ list.items /\ ~listLoading
    /\ \E l \in Loads :
          /\ load[l] = NoLoad
          /\ load' = [load EXCEPT ![l] =
                        Details(clicks + 1, list.key, [of |-> list.n, nth |-> nth], FALSE)]
    /\ detailLoading' = TRUE
    /\ UNCHANGED <<discovered, preset, selected, list, detail, logs, listLoading,
                   pageTokens, pageIndex, applied, overtaken, overlapped>>
-----------------------------------------------------------------------------
\* An answer of load c is put on screen.
Apply(c) ==
    /\ overtaken' = (overtaken \/ c.n < applied)
    /\ applied' = IF c.n > applied THEN c.n ELSE applied
    /\ UNCHANGED <<discovered, preset, selected, clicks, overlapped>>

PageOfLoad(c) ==
    /\ pageTokens' = IF c.reset THEN <<FirstPage>> ELSE pageTokens
    /\ pageIndex' = IF c.reset THEN 0 ELSE c.index

\* Fault: the item that was on screen stays there.
ShowListOnly(c, items, more) ==
    /\ list' = [n |-> c.n, key |-> c.key, page |-> c.page,
                items |-> items, more |-> more]
    /\ UNCHANGED <<detail, logs>>

ShowList(c, items, more) ==
    /\ list' = [n |-> c.n, key |-> c.key, page |-> c.page,
                items |-> items, more |-> more]
    /\ detail' = Nothing /\ logs' = Nothing

(* The list and the access matrix replace what is on screen; the details of *)
(* the first item, if there is one, are asked for before the load ends.     *)
ListAnswers(l, items, more) ==
    LET c == load[l]
    IN  /\ c.pc = "list"
        /\ more => c.page + 1 < MaxPages
        /\ PageOfLoad(c)
        /\ ShowList(c, items, more)
        /\ load' = [load EXCEPT ![l] =
                      IF items THEN Details(c.n, c.key, [of |-> c.n, nth |-> 1], TRUE) ELSE NoLoad]
        /\ detailLoading' = (detailLoading \/ items)
        /\ listLoading' = (listLoading /\ items)
        /\ Apply(c)

(* The list fails: the screen is cleared, its page stays.                   *)
ListFails(l) ==
    /\ load[l].pc = "list"
    /\ list' = Nothing /\ detail' = Nothing /\ logs' = Nothing
    /\ load' = [load EXCEPT ![l] = NoLoad]
    /\ listLoading' = FALSE
    /\ UNCHANGED <<detailLoading, pageTokens, pageIndex>>
    /\ Apply(load[l])

\* A load of details ends, and with it the load of the list it belongs to.
EndLoad(l) ==
    /\ load' = [load EXCEPT ![l] = NoLoad]
    /\ detailLoading' = FALSE
    /\ listLoading' = (listLoading /\ ~load[l].first)

(* The details of a pod are shown before its logs are asked for.            *)
DetailAnswers(l) ==
    LET c == load[l]
    IN  /\ c.pc = "detail"
        /\ detail' = [n |-> c.n, item |-> c.item]
        /\ IF c.key \in Pods
           THEN /\ load' = [load EXCEPT ![l].pc = "logs"]
                /\ UNCHANGED <<logs, listLoading, detailLoading>>
           ELSE logs' = Nothing /\ EndLoad(l)
        /\ UNCHANGED <<list, pageTokens, pageIndex>>
        /\ Apply(c)

DetailFails(l) ==
    /\ load[l].pc = "detail"
    /\ detail' = Nothing /\ logs' = Nothing
    /\ EndLoad(l)
    /\ UNCHANGED <<list, pageTokens, pageIndex>>
    /\ Apply(load[l])

LogsAnswer(l, ok) ==
    /\ load[l].pc = "logs"
    /\ logs' = IF ok THEN [n |-> load[l].n, item |-> load[l].item] ELSE Nothing
    /\ EndLoad(l)
    /\ UNCHANGED <<list, detail, pageTokens, pageIndex>>
    /\ Apply(load[l])
-----------------------------------------------------------------------------
ExplorerNext ==
    \/ \E key \in Resources : ChooseResource(key) \/ Navigate(key)
    \/ \E found \in SUBSET Resources : Discover(found)
    \/ LoadAgain \/ LoadNextPage \/ LoadPreviousPage
    \/ \E nth \in {1, 2} : OpenItem(nth)
    \/ \E l \in Loads :
          \/ \E items, more \in BOOLEAN : ListAnswers(l, items, more)
          \/ ListFails(l) \/ DetailAnswers(l) \/ DetailFails(l)
          \/ \E ok \in BOOLEAN : LogsAnswer(l, ok)

ExplorerSpec == ExplorerInit /\ [][ExplorerNext]_explorerVars
-----------------------------------------------------------------------------
Numbers == 0..MaxClicks
Item == [of : Numbers, nth : {1, 2}]
Opened == [n : Numbers, item : Item]
Lists ==
    [n : Numbers, key : Resources, page : 0..(MaxPages - 1), items : BOOLEAN, more : BOOLEAN]

ASSUME NothingShown == Nothing \notin Lists /\ Nothing \notin Opened

ExplorerTypeOK ==
    /\ discovered \subseteq Resources
    /\ preset \in Resources \cup {Nothing}
    /\ selected \in Resources \cup {Nothing}
    /\ list \in {Nothing} \cup Lists
    /\ detail \in Opened \cup {Nothing} /\ logs \in Opened \cup {Nothing}
    /\ listLoading \in BOOLEAN /\ detailLoading \in BOOLEAN
    /\ pageTokens \in Seq([key : Resources \cup {Nothing}, page : 0..MaxPages])
    /\ pageIndex \in Nat
    /\ load \in [Loads -> {NoLoad}
          \cup [pc : {"list"}, n : Numbers, key : Resources,
                page : 0..MaxPages, index : Nat, reset : BOOLEAN]
          \cup [pc : {"detail", "logs"}, n : Numbers, key : Resources, item : Item,
                first : BOOLEAN]]
    /\ clicks \in Numbers /\ applied \in Numbers
    /\ overtaken \in BOOLEAN /\ overlapped \in BOOLEAN

Quiet == \A l \in Loads : load[l] = NoLoad

(* Whatever the user clicked and whatever failed, once nothing is awaited no *)
(* loading flag is left set.  If no answer overtook another, the list on     *)
(* screen is of the resource selected; if besides no list was asked for      *)
(* while another was awaited, the item on screen is of that list, the logs   *)
(* are of that item, and the page number is that of the list, with its token *)
(* kept, whichever loads failed on the way there.                            *)
ScreenIsOfOneLoad ==
    /\ Quiet =>
        /\ ~listLoading /\ ~detailLoading
        /\ ~overtaken /\ list # Nothing => list.key = selected
        /\ ~overtaken /\ ~overlapped =>
              /\ detail # Nothing => list # Nothing /\ detail.item.of = list.n
              /\ logs # Nothing => detail # Nothing /\ logs.item = detail.item
    /\ ~overlapped /\ list # Nothing =>
        /\ pageIndex = list.page
        /\ pageIndex < Len(pageTokens)
        /\ pageTokens[pageIndex + 1].page = pageIndex
=============================================================================
