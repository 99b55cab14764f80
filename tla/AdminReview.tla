------------------------------- MODULE AdminReview -------------------------------
(***************************************************************************)
(* Admin dashboards (apps/web/src/components/OpsLensAdminDashboard.tsx)     *)
(* over the approval queue: each shows the inventory it fetched last and    *)
(* submits drafts and reviews items from it, while other dashboards do the  *)
(* same, an operator deletes files, and answers are on their way.  The      *)
(* server is that of ApprovalQueue, with persistence on and one slot for    *)
(* each request; it goes on with a request whose dashboard gave up.  The    *)
(* panels that show the last answers, and the validation, the export and    *)
(* the plan that only fill panels, are left out.                            *)
(***************************************************************************)
EXTENDS Naturals, Sequences, SequencesExt, FiniteSets

CONSTANTS
    Drafts, AcceptedDrafts, Items, ItemOf, Roles, RequiredRoles, Reviewers,
    MaxSubmissions,  \* bound on the submissions
    RequiredOrder,   \* requiredApprovals, in their order
    Dashboards,
    Flights,         \* bound: requests in flight
    OwnerOf,         \* the dashboard of each flight
    Dashboard,       \* the reviewer that every dashboard names
    ShownItems,      \* how many items of an inventory are on screen
    Unset,           \* no inventory yet, no review under way
    MaxFailures      \* bound on failed writes, lost requests and restarts

ASSUME OrderType ==
    /\ RequiredOrder \in Seq(Roles) /\ RequiredOrder # <<>>
    /\ RequiredRoles = ToSet(RequiredOrder)
ASSUME ItemsType == ItemOf \in [Drafts -> Items]
ASSUME FailuresType == MaxFailures \in Nat
ASSUME FlightsType == OwnerOf \in [Flights -> Dashboards]
ASSUME ReviewerType == Dashboard \in Reviewers

VARIABLES
    file, req, persistence, clock, given,   \* the queue
    inventory,     \* queueInventory of each dashboard
    reviewing,     \* reviewingItemId
    flight,        \* requests in flight, as their dashboards see them
    failures

queueVars == <<file, req, persistence, clock, given>>
reviewVars == <<file, req, persistence, clock, given, inventory, reviewing, flight, failures>>

Queue == INSTANCE ApprovalQueue WITH Slots <- Flights

NotSent == [pc |-> "idle"]
Pending == "pending-human-approval"

FirstFlight(d) == CHOOSE f \in Flights : OwnerOf[f] = d

(* A dashboard fetches the inventory when it is opened.                     *)
ReviewInit ==
    /\ Queue!Init /\ persistence
    /\ inventory = [d \in Dashboards |-> Unset]
    /\ reviewing = [d \in Dashboards |-> Unset]
    /\ flight = [f \in Flights |->
                   IF f \in {FirstFlight(d) : d \in Dashboards}
                   THEN [pc |-> "fetching", op |-> "open"] ELSE NotSent]
    /\ failures = 0

\* The newest items of an inventory come first, and only some are shown.
OnScreen(d) ==
    IF inventory[d] = Unset THEN {}
    ELSE {i \in DOMAIN inventory[d] :
             Cardinality({j \in DOMAIN inventory[d] : inventory[d][j].at > inventory[d][i].at})
                 < ShownItems}

RolesApproved(item) == {a.role : a \in item.approvals}

\* Fault: the first role, approved or not.
FirstRole(item) == {Head(RequiredOrder)}

(* The role of a review: the first one the inventory shows no approval of,  *)
(* and the first of all when it shows them all.                             *)
NextRole(item) ==
    LET approved(n) == RequiredOrder[n] \in RolesApproved(item)
    IN  {RequiredOrder[n] : n \in {m \in DOMAIN RequiredOrder :
            IF RequiredRoles \subseteq RolesApproved(item) THEN m = 1
            ELSE ~approved(m) /\ \A k \in 1..(m - 1) : approved(k)}}

Send(d, request) ==
    \E f \in Flights :
        /\ OwnerOf[f] = d /\ flight[f] = NotSent /\ req[f] = Queue!Idle
        /\ flight' = [flight EXCEPT ![f] = request]

ClickSubmit(d, draft) ==
    /\ \A f \in Flights : OwnerOf[f] = d /\ flight[f] # NotSent => flight[f].op # "submit"
    /\ Send(d, [pc |-> "asked", op |-> "submit", draft |-> draft])
    /\ UNCHANGED <<queueVars, inventory, reviewing, failures>>

(* The buttons of an item are there while the inventory shows it pending;   *)
(* the one used last is disabled until a review of this dashboard ends.     *)
ClickReview(d, i, decision) ==
    /\ i \in OnScreen(d)
    /\ inventory[d][i].state = Pending
    /\ reviewing[d] # <<i, decision>>
    /\ reviewing' = [reviewing EXCEPT ![d] = <<i, decision>>]
    /\ \E role \in NextRole(inventory[d][i]) :
          Send(d, [pc |-> "asked", op |-> "review", item |-> i, decision |-> decision,
                   role |-> role])
    /\ UNCHANGED <<queueVars, inventory, failures>>
-----------------------------------------------------------------------------
\* After the answer of the queue, the dashboard fetches the inventory.
Fetch(f) == flight' = [flight EXCEPT ![f] = [pc |-> "fetching", op |-> @.op]]

\* A request ends, well or not; the end of any review enables the buttons.
EndFlight(f) ==
    /\ flight' = [flight EXCEPT ![f] = NotSent]
    /\ reviewing' = IF flight[f].op = "review" THEN [reviewing EXCEPT ![OwnerOf[f]] = Unset]
                    ELSE reviewing

JobOf(r) ==
    [op |-> "review", item |-> r.item, decision |-> r.decision, role |-> r.role,
     reviewer |-> Dashboard]

HandedOver(f) == flight' = [flight EXCEPT ![f] = [pc |-> "served", op |-> @.op]]

ArriveReview(f) ==
    /\ flight[f].pc = "asked" /\ flight[f].op = "review"
    /\ Queue!Receive(f, JobOf(flight[f]))
    /\ HandedOver(f)
    /\ UNCHANGED <<inventory, reviewing, failures>>

(* A draft that validation refuses (in the model, also one beyond the       *)
(* bound) is answered at once, and nothing is stored.                       *)
ArriveSubmit(f) ==
    /\ flight[f].pc = "asked" /\ flight[f].op = "submit"
    /\ IF flight[f].draft \in AcceptedDrafts /\ clock < MaxSubmissions
       THEN Queue!ReceiveSubmit(f, flight[f].draft) /\ HandedOver(f)
       ELSE Fetch(f) /\ UNCHANGED queueVars
    /\ UNCHANGED <<inventory, reviewing, failures>>

(* When a handler ends, its dashboard, if it still waits, gets 200 and       *)
(* fetches the inventory, or an error and keeps the one it has.              *)
Answered(f) ==
    IF req'[f] # Queue!Idle \/ flight[f].pc # "served" THEN UNCHANGED <<flight, reviewing>>
    ELSE IF req[f].pc = "closing" THEN Fetch(f) /\ UNCHANGED reviewing
    ELSE EndFlight(f)

Serve(f) ==
    /\ Queue!HandlerStep(f)
    /\ Answered(f)
    /\ UNCHANGED <<inventory, failures>>

(* The inventory is read file by file, each whatever it then holds; what    *)
(* does not parse is left out.                                              *)
ListFiles(f) ==
    /\ flight[f].pc = "fetching"
    /\ flight' = [flight EXCEPT ![f] =
                    [pc |-> "listing", op |-> @.op,
                     left |-> {i \in Items : file[i] # Queue!Absent}, items |-> <<>>]]
    /\ UNCHANGED <<queueVars, inventory, reviewing, failures>>

WithItem(items, i) ==
    IF Queue!Readable(file[i])
    THEN [j \in DOMAIN items \cup {i} |-> IF j = i THEN file[i] ELSE items[j]]
    ELSE items

ReadItem(f) ==
    /\ flight[f].pc = "listing"
    /\ \E i \in flight[f].left :
          flight' = [flight EXCEPT ![f].left = @ \ {i}, ![f].items = WithItem(@, i)]
    /\ UNCHANGED <<queueVars, inventory, reviewing, failures>>

ShowInventory(f) ==
    /\ flight[f].pc = "listing" /\ flight[f].left = {}
    /\ inventory' = [inventory EXCEPT ![OwnerOf[f]] = flight[f].items]
    /\ EndFlight(f)
    /\ UNCHANGED <<queueVars, failures>>
-----------------------------------------------------------------------------
Failing == failures < MaxFailures /\ failures' = failures + 1

(* A request fails for its dashboard, before or after it reached the server. *)
Fail(f) ==
    /\ Failing
    /\ flight[f] # NotSent
    /\ EndFlight(f)
    /\ UNCHANGED <<queueVars, inventory>>

FailToWrite(f) ==
    /\ Failing
    /\ Queue!FailWrite(f)
    /\ Answered(f)
    /\ UNCHANGED inventory

(* The server restarts: what it was asked fails.                            *)
RestartServer ==
    /\ Failing
    /\ Queue!Restart(TRUE)
    /\ flight' = [f \in Flights |-> NotSent]
    /\ reviewing' = [d \in Dashboards |-> Unset]
    /\ UNCHANGED inventory

DeleteFile(i) ==
    Queue!Withdraw(i) /\ UNCHANGED <<inventory, reviewing, flight, failures>>

GoesOn(f) ==
    \/ ArriveSubmit(f) \/ ArriveReview(f) \/ Serve(f)
    \/ ListFiles(f) \/ ReadItem(f) \/ ShowInventory(f)

ClickApprove(i) == \E d \in Dashboards : ClickReview(d, i, "approve")

ReviewNext ==
    \/ \E d \in Dashboards, draft \in Drafts : ClickSubmit(d, draft)
    \/ \E i \in Items : \/ ClickApprove(i) \/ \E d \in Dashboards : ClickReview(d, i, "reject")
                       \/ DeleteFile(i)
    \/ \E f \in Flights : GoesOn(f) \/ Fail(f) \/ FailToWrite(f)
    \/ RestartServer

(* Every request is answered; nobody owes a click.                          *)
ReviewFairness == \A f \in Flights : WF_reviewVars(GoesOn(f))

ReviewSpec == ReviewInit /\ [][ReviewNext]_reviewVars /\ ReviewFairness
-----------------------------------------------------------------------------
ReviewTypeOK ==
    /\ Queue!TypeOK
    /\ \A d \in Dashboards : inventory[d] = Unset \/ DOMAIN inventory[d] \subseteq Items
    /\ reviewing \in [Dashboards -> {Unset} \cup (Items \X {"approve", "reject"})]
    /\ \A f \in Flights : flight[f].pc \in {"idle", "asked", "served", "fetching", "listing"}
    /\ failures \in 0..MaxFailures

(* Whoever goes on approving an item from a dashboard gets it decided (or    *)
(* loses it to a torn file or a deletion), although dashboards work from     *)
(* inventories of different age, repeat approvals that are there already,    *)
(* lose requests, and overwrite each other's approvals: what is lost is made *)
(* up for, because each review that is answered brings a newer inventory.    *)
ApprovingDecides ==
    \A i \in Items :
        []<><<ClickApprove(i)>>_reviewVars => <>[](file[i].state # Pending)

(* Every request of a dashboard ends, with an inventory or an error, though  *)
(* files are torn or deleted between two steps of its handler and the        *)
(* server restarts: no request waits for another one.                        *)
RequestsEnd == \A f \in Flights : flight[f] # NotSent ~> flight[f] = NotSent
=============================================================================
