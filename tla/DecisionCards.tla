------------------------------ MODULE DecisionCards ------------------------------
(***************************************************************************)
(* The decisions an administrator is handed: to approve the install         *)
(* (verify-install-approval-plan.mjs) and to approve the publication of the *)
(* images (verify-release-publish-plan.mjs).  Both scripts write a plan of  *)
(* commands with a ticket, a decision and a packet; the API                 *)
(* (apps/api/src/api.ts) builds the card of its dashboard anew from the     *)
(* commands of the plan, and falls back on what the script decided.         *)
(*                                                                          *)
(* A list is a set whose members say their place.  The artifacts are those  *)
(* of the scripts, which write every field: what the API puts in the place  *)
(* of a field that an artifact lacks is left out.                           *)
(***************************************************************************)
EXTENDS Naturals, FiniteSets

Before(c, d) == c.phase < d.phase \/ (c.phase = d.phase /\ c.place < d.place)
First(S) == {c \in S : \A d \in S : ~Before(d, c)}
FirstOf(wanted, others) == IF wanted # {} THEN First(wanted) ELSE First(others)
FirstThree(S) == {i \in S : Cardinality({j \in S : j.place < i.place}) < 3}

Named(commands, id) == {c \in commands : c.id = id}
Ids(commands) == {<<c.id, c.image>> : c \in commands}
Else(ids, fallback) == IF ids # {} THEN ids ELSE fallback

\* A command that only looks, and one that changes something.
Check(id, phase) ==
    [id |-> id, image |-> "none", phase |-> phase, place |-> 0,
     mutation |-> FALSE, approval |-> FALSE, setup |-> FALSE]
Change(id, image, phase, place) ==
    [id |-> id, image |-> image, phase |-> phase, place |-> place,
     mutation |-> TRUE, approval |-> TRUE, setup |-> FALSE]

Mutating(commands) == {c \in commands : c.mutation}
ReadOnly(commands) == {c \in commands : ~c.mutation}
Gated(commands)    == {c \in Mutating(commands) : c.approval}

\* What is handed over as a file.
Packet(ticket, decision, actions, commands, missing) ==
    [first    |-> ticket.first, gatedAction |-> ticket.gated, gated |-> decision.gated,
     actions  |-> {a.id : a \in actions}, mutating |-> Ids(Mutating(commands)),
     missing  |-> missing]

\* The first commands of a card: what is open, and the first mutating command
\* behind everything that is open.
GatedAction(commands, open) ==
    {[id |-> <<"approval-gated", c.id, c.image>>, mutation |-> TRUE, approval |-> TRUE,
      blockedBy |-> open] : c \in First(Mutating(commands))}
-----------------------------------------------------------------------------
(* The install plan.  "ready" is the set of items whose evidence is in order *)
(* (see InstallPlan of ReleaseArtifacts); nothing ever readies the last.     *)

InstallCommands ==
    {Check("run-operator-server-dry-run", 1), Check("preview-lightspeed-patch", 2),
     Change("apply-operator-namespace", "none", 3, 0), Change("apply-catalogsource", "none", 4, 0),
     Change("apply-subscription", "none", 5, 0), Change("approve-installplan", "none", 6, 0),
     Change("apply-opslensinstallation", "none", 7, 0), Check("verify-console-plugin", 8),
     Check("verify-lightspeed-registration", 9), Check("run-smoke-gates", 10)}

Evidenced == <<"current-worktree-clean", "mvp-gate-clean", "operator-server-dry-run",
               "lightspeed-patch-preview", "lightspeed-readiness-gap-known",
               "image-build-evidence", "rag-ingestion-plan-evidence">>

BuildApprovalChecklist(ready) ==
    {[id |-> Evidenced[n], place |-> n,
      status |-> IF Evidenced[n] \in ready THEN "pass" ELSE "needs-evidence"] : n \in 1..7}
    \cup {[id |-> "human-approval", place |-> 8, status |-> "approval-required"]}

OpenItems(checklist) == {i \in checklist : i.status # "pass"}
MissingItems(checklist) == {i \in checklist : i.status = "needs-evidence"}
StatusOf(checklist, id) == (CHOOSE i \in checklist : i.id = id).status

\* Whom an item is for; the gap of Lightspeed says who has to close it.
ChecklistOwner(id, gap) ==
    IF id = "lightspeed-readiness-gap-known"
    THEN (IF gap.owner = "cluster-admin"
             \/ gap.classification \in {"auth-failed", "auth-or-rbac", "token-missing"}
          THEN "cluster-admin"
          ELSE IF gap.classification = "tls-handshake-failed" THEN "cluster-sre"
          ELSE "network-sre")
    ELSE IF id \in {"current-worktree-clean", "mvp-gate-clean", "image-build-evidence"}
    THEN "release-manager"
    ELSE IF id = "operator-server-dry-run" THEN "cluster-sre"
    ELSE IF id = "rag-ingestion-plan-evidence" THEN "rag-owner"
    ELSE "cluster-admin"

InstallStatus(checklist, failed) ==
    IF failed THEN "BLOCKED"
    ELSE IF MissingItems(checklist) # {} THEN "NEEDS_EVIDENCE"
    ELSE "APPROVAL_REQUIRED"

FirstApprovalActions(checklist, commands, gap) ==
    {[id |-> <<i.id>>, mutation |-> FALSE, approval |-> FALSE, owner |-> ChecklistOwner(i.id, gap),
      blockedBy |-> IF i.status = "approval-required" THEN {} ELSE {i}]
        : i \in FirstThree(OpenItems(checklist))}
    \cup {[owner |-> "cluster-admin", id |-> a.id, mutation |-> a.mutation,
           approval |-> a.approval, blockedBy |-> a.blockedBy]
             : a \in GatedAction(commands, OpenItems(checklist))}

InstallPreflight(commands) ==
    FirstOf(Named(commands, "run-operator-server-dry-run"), ReadOnly(commands))
LightspeedCommands == {"preview-lightspeed-patch", "verify-lightspeed-registration"}
LightspeedPreview(commands) ==
    FirstOf(Named(commands, "preview-lightspeed-patch"),
            {c \in commands : c.id \in LightspeedCommands})

InstallTicket(checklist, commands) ==
    [classification |-> IF OpenItems(checklist) # {} THEN "install-evidence-gaps"
                                                     ELSE "install-approval-required",
     first     |-> Ids(FirstOf(ReadOnly(Named(commands, "run-operator-server-dry-run")),
                               ReadOnly(commands))),
     status    |-> StatusOf(checklist, "operator-server-dry-run"),
     gated     |-> {a.id : a \in GatedAction(commands, OpenItems(checklist))},
     blockedBy |-> OpenItems(checklist)]

InstallDecision(checklist, commands) ==
    [status   |-> IF OpenItems(checklist) # {} THEN "needs-evidence" ELSE "approval-required",
     first    |-> Ids(InstallPreflight(commands)),
     preview  |-> Ids(LightspeedPreview(commands)),
     gated    |-> Ids(Gated(commands)),
     evidence |-> OpenItems(checklist)]

\* The checks that fail after the status is decided do not change it.
InstallApprovalPlan(ready, gap, failed) ==
    LET checklist == BuildApprovalChecklist(ready)
        actions   == FirstApprovalActions(checklist, InstallCommands, gap)
        ticket    == InstallTicket(checklist, InstallCommands)
        decision  == InstallDecision(checklist, InstallCommands)
    IN  [status   |-> InstallStatus(checklist, failed),
         missing  |-> MissingItems(checklist), commands |-> InstallCommands,
         actions  |-> actions, ticket |-> ticket, decision |-> decision,
         packet   |-> Packet(ticket, decision, actions, InstallCommands,
                             MissingItems(checklist))]
-----------------------------------------------------------------------------
(* The publication.  An image is [name, source, place]; a gap is what is     *)
(* missing, with its place in the list.                                      *)

OwnedImages(images)   == {i \in images : i.source # "external-runtime"}
RuntimeImages(images) == {i \in images : i.source = "external-runtime"}

PublishCommands(images) ==
    {Check("run-release-preflight", 1),
     [Check("login-release-registry", 2) EXCEPT !.approval = TRUE, !.setup = TRUE],
     Check("verify-catalogsource-image", 6), Check("verify-subscription-contract", 7)}
    \cup {Change("push", i.name, 3, i.place) : i \in OwnedImages(images)}
    \cup {Change("sign", i.name, 4, i.place) : i \in OwnedImages(images)}
    \cup {Change("mirror", i.name, 5, i.place) : i \in RuntimeImages(images)}

PublishGaps == {"worktree", "images", "unbuilt", "no-provenance", "provenance",
                "runtime", "build", "catalog-build", "certification"}
PublishGapOwner(gap) ==
    IF gap \in {"runtime", "certification", "catalog-build"} THEN "registry-admin"
                                                             ELSE "release-manager"

\* For provenance that is absent the plan names only itself.
PublishGapNextCommand(gap) ==
    IF gap \in {"runtime", "certification"} THEN "verify:external-runtime-plan"
    ELSE IF gap = "provenance" THEN "verify:owned-image-provenance"
    ELSE IF gap \in {"images", "unbuilt", "build", "catalog-build"} THEN "verify:images:build"
    ELSE IF gap = "worktree" THEN "git status"
    ELSE "verify:release-plan"

PublishStatus(missing, failed) ==
    IF failed THEN "BLOCKED"
    ELSE IF missing # {} THEN "NEEDS_EVIDENCE"
    ELSE "PUBLISH_APPROVAL_REQUIRED"

\* A command that is neither mutating nor needs somebody's credentials.
Harmless(commands) == {c \in commands : ~c.mutation /\ ~c.setup}
PublishPreflight(commands) ==
    FirstOf(Named(commands, "run-release-preflight"), Harmless(commands))
HumanSetup(commands) == {c \in commands : c.setup \/ c.id = "login-release-registry"}

FirstPublishActions(missing, commands) ==
    {[id |-> <<"release-evidence-gap", g.kind, g.place>>, mutation |-> FALSE, approval |-> FALSE,
      owner |-> PublishGapOwner(g.kind), blockedBy |-> {g}] : g \in FirstThree(missing)}
    \cup {[id |-> <<c.id, c.image>>, mutation |-> FALSE, approval |-> FALSE,
           owner |-> "release-manager", blockedBy |-> missing]
             : c \in Named(commands, "run-release-preflight")}
    \cup {[owner |-> "registry-admin", id |-> a.id, mutation |-> a.mutation,
           approval |-> a.approval, blockedBy |-> a.blockedBy]
             : a \in GatedAction(commands, missing)}

PublishTicket(missing, commands) ==
    [classification |-> IF missing # {} THEN "publish-evidence-gaps"
                                        ELSE "publish-approval-required",
     first |-> {<<"run-release-preflight", "none">>},
     gated |-> Else({a.id : a \in GatedAction(commands, missing)},
                    {<<"approval-gated", "release-publish", "none">>})]

PublishDecision(missing, commands) ==
    [status |-> IF missing # {} THEN "needs-evidence" ELSE "approval-required",
     first  |-> Ids(PublishPreflight(commands)),
     setup  |-> Ids(HumanSetup(commands)),
     gated  |-> Ids(Gated(commands))]

ReleasePublishPlan(images, missing, failed) ==
    LET commands == PublishCommands(images)
        actions  == FirstPublishActions(missing, commands)
        ticket   == PublishTicket(missing, commands)
        decision == PublishDecision(missing, commands)
    IN  [status   |-> PublishStatus(missing, failed),
         missing  |-> missing, commands |-> commands,
         actions  |-> actions, ticket |-> ticket, decision |-> decision,
         packet   |-> Packet(ticket, decision, actions, commands, missing)]

\* The boundary the script checks once its status is decided.
PublishBoundaryHolds(plan) ==
    /\ plan.decision.first = {<<"run-release-preflight", "none">>}
    /\ <<"login-release-registry", "none">> \in plan.decision.setup
    /\ \E id \in plan.decision.gated : id[1] = "push"
-----------------------------------------------------------------------------
(* The API.                                                                  *)

ShownInstallDecision(plan) ==
    [status   |-> plan.decision.status,
     first    |-> Else(Ids(InstallPreflight(plan.commands)), plan.decision.first),
     preview  |-> Else(Ids(LightspeedPreview(plan.commands)), plan.decision.preview),
     gated    |-> Else(Ids(Gated(plan.commands)), plan.decision.gated),
     evidence |-> plan.missing \cup plan.decision.evidence]

ShownPublishDecision(plan) ==
    [status |-> plan.decision.status,
     first  |-> Else(Ids(PublishPreflight(plan.commands)), plan.decision.first),
     setup  |-> Else(Ids(HumanSetup(plan.commands)), plan.decision.setup),
     gated  |-> Else(Ids(Gated(plan.commands)), plan.decision.gated)]

\* Without a plan the only command is to make one.
NoInstallDecision ==
    [status   |-> "needs-evidence",
     first    |-> {<<"generate-install-approval-plan", "none">>},
     preview  |-> {<<"preview-lightspeed-patch", "none">>},
     gated    |-> {<<"approval-gated", "apply-operator-namespace", "none">>},
     evidence |-> {[id |-> "install-plan", place |-> 1, status |-> "missing"]}]
NoPublishDecision ==
    [status |-> "needs-evidence",
     first  |-> {<<"generate-release-publish-plan", "none">>},
     setup  |-> {},
     gated  |-> {<<"approval-gated", "release-publish", "none">>}]

InstallCard(plans) ==
    IF plans = {} THEN NoInstallDecision
    ELSE ShownInstallDecision(CHOOSE plan \in plans : TRUE)
PublishCard(plans) ==
    IF plans = {} THEN NoPublishDecision
    ELSE ShownPublishDecision(CHOOSE plan \in plans : TRUE)
=============================================================================
