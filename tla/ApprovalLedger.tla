--------------------------- MODULE ApprovalLedger ---------------------------
(***************************************************************************)
(* What the approval queue promises: every item has one current submission, *)
(* reviews are atomic and act on that submission only, a decided submission *)
(* takes no further review, and only a new submission replaces it.  A       *)
(* failed or interrupted write may lose the item, never falsify it.         *)
(***************************************************************************)
EXTENDS Naturals

CONSTANTS Drafts, AcceptedDrafts, Items, ItemOf, Roles, RequiredRoles,
          Reviewers, Times

VARIABLES ledger, now

ledgerVars == <<ledger, now>>

NoItem == [state |-> "absent"]
Lost   == [state |-> "lost"]

LedgerInit ==
    /\ ledger = [i \in Items |-> NoItem]
    /\ now = 0

(* A submission starts the item anew, whatever it held. *)
Submit(d, t) ==
    /\ d \in AcceptedDrafts
    /\ t > now
    /\ now' = t
    /\ ledger' = [ledger EXCEPT ![ItemOf[d]] =
                    [draft |-> d, at |-> t, state |-> "pending-human-approval",
                     approvals |-> {}]]

(* A submission that fails before it reaches the queue. *)
Miss(t) == t > now /\ now' = t /\ UNCHANGED ledger

RolesOf(approvals) == {a.role : a \in approvals}

(* The item is approved by the approval that completes the required roles. *)
Approve(i, role, reviewer) ==
    /\ ledger[i].state = "pending-human-approval"
    /\ role \in RequiredRoles
    /\ LET others == {a \in ledger[i].approvals : a.role # role}
           approvals == others \cup {[role |-> role, approver |-> reviewer]}
       IN  ledger' = [ledger EXCEPT
                        ![i].approvals = approvals,
                        ![i].state = IF RequiredRoles \subseteq RolesOf(approvals)
                                     THEN "approved-for-ingestion"
                                     ELSE "pending-human-approval"]
    /\ UNCHANGED now

Reject(i) ==
    /\ ledger[i].state = "pending-human-approval"
    /\ ledger' = [ledger EXCEPT ![i].state = "rejected-by-reviewer"]
    /\ UNCHANGED now

Withdraw(i) == ledger' = [ledger EXCEPT ![i] = NoItem] /\ UNCHANGED now

Lose(i) == ledger' = [ledger EXCEPT ![i] = Lost] /\ UNCHANGED now

LedgerNext ==
    \/ \E d \in Drafts, t \in Times : Submit(d, t)
    \/ \E t \in Times : Miss(t)
    \/ \E i \in Items : Withdraw(i) \/ Lose(i) \/ Reject(i)
    \/ \E i \in Items, role \in Roles, reviewer \in Reviewers :
          Approve(i, role, reviewer)

LedgerSpec == LedgerInit /\ [][LedgerNext]_ledgerVars
=============================================================================
