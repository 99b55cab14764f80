--------------------------- MODULE EvidenceChainProofs ---------------------------
(***************************************************************************)
(* Proofs about the release evidence refresh and the overview of it, for    *)
(* every set of commits, tools, options and scripts run by hand, and every  *)
(* bound on refreshes and acts.                                             *)
(*                                                                          *)
(* TInv types the state.  Writes says what a step may do to test-results/:  *)
(* nothing, one verdict, or one of five composite writes; each invariant is *)
(* kept by case on that.  CInv: what is claimed now was recorded, claims    *)
(* rest on claims, and checkpoint and roadmap say no more than they know.   *)
(* GInv: a roadmap that passes leaves a critical path.  RInv: from the last *)
(* bundle of the chain on, the bundle copies the roadmap.  NInv: evidence   *)
(* of a runner is loose, or of an earlier commit.  FInv: how each script    *)
(* says that it failed.                                                     *)
(***************************************************************************)
EXTENDS AdminOverview, SequenceTheorems, TLAPS
-----------------------------------------------------------------------------
(* What a script writes is of the commit checked out, and as dirty as the   *)
(* worktree.                                                                *)
Verified == Scripts \ {"mvp-gate", "live-reader", "refresh"}

LEMMA VerdictIsOfNow ==
    ASSUME NEW a, NEW s \in Verified
    PROVE  Verdict(a, s).head = head /\ Verdict(a, s).dirty = Dirty
<1>1. CASE s = "opsbrain"
  <2>1. Verdict(a, s) = OpsBrain
    BY <1>1, Zenon DEF Verdict
  <2> QED BY <2>1 DEF OpsBrain, Report
<1>2. CASE s = "env-contract"
  <2>1. Verdict(a, s) = EnvContract
    BY <1>2, Zenon DEF Verdict
  <2> QED BY <2>1 DEF EnvContract
<1>3. CASE s = "target-profile"
  <2>1. Verdict(a, s) = TargetProfile
    BY <1>3, Zenon DEF Verdict
  <2> QED BY <2>1 DEF TargetProfile, Report
<1>4. CASE s = "runtime-readiness"
  <2>1. Verdict(a, s) = RuntimeReadiness
    BY <1>4, Zenon DEF Verdict
  <2> QED BY <2>1 DEF RuntimeReadiness, Report
<1>5. CASE s = "runtime-rag"
  <2>1. Verdict(a, s) = RuntimeRag
    BY <1>5, Zenon DEF Verdict
  <2> QED BY <2>1 DEF RuntimeRag, Report
<1>6. CASE s = "runtime-rag-fixture"
  <2>1. Verdict(a, s) = RuntimeRagFixture
    BY <1>6, Zenon DEF Verdict
  <2> QED BY <2>1 DEF RuntimeRagFixture, Report
<1>7. CASE s = "aiops"
  <2>1. Verdict(a, s) = Aiops
    BY <1>7, Zenon DEF Verdict
  <2> QED BY <2>1 DEF Aiops
<1>8. CASE s = "rag-queue"
  <2>1. Verdict(a, s) = RagQueue
    BY <1>8, Zenon DEF Verdict
  <2> QED BY <2>1 DEF RagQueue, Report
<1>9. CASE s = "rag-production"
  <2>1. Verdict(a, s) = RagProduction
    BY <1>9, Zenon DEF Verdict
  <2> QED BY <2>1 DEF RagProduction, Report
<1>10. CASE s = "console-plugin"
  <2>1. Verdict(a, s) = ConsolePlugin
    BY <1>10, Zenon DEF Verdict
  <2> QED BY <2>1 DEF ConsolePlugin, Report
<1>11. CASE s = "operator-package"
  <2>1. Verdict(a, s) = OperatorPackage
    BY <1>11, Zenon DEF Verdict
  <2> QED BY <2>1 DEF OperatorPackage, Contract, Report
<1>12. CASE s = "operator-reconcile"
  <2>1. Verdict(a, s) = OperatorReconcile
    BY <1>12, Zenon DEF Verdict
  <2> QED BY <2>1 DEF OperatorReconcile, Contract, Report
<1>13. CASE s = "operator-parity"
  <2>1. Verdict(a, s) = OperatorParity
    BY <1>13, Zenon DEF Verdict
  <2> QED BY <2>1 DEF OperatorParity, Contract, Report
<1>14. CASE s = "extension-point"
  <2>1. Verdict(a, s) = ExtensionPoint
    BY <1>14, Zenon DEF Verdict
  <2> QED BY <2>1 DEF ExtensionPoint, Report
<1>15. CASE s = "routing"
  <2>1. Verdict(a, s) = Routing
    BY <1>15, Zenon DEF Verdict
  <2> QED BY <2>1 DEF Routing, Contract, Report
<1>16. CASE s = "trojan-horse"
  <2>1. Verdict(a, s) = TrojanHorse
    BY <1>16, Zenon DEF Verdict
  <2> QED BY <2>1 DEF TrojanHorse, Contract, Report
<1>17. CASE s = "community"
  <2>1. Verdict(a, s) = Community
    BY <1>17, Zenon DEF Verdict
  <2> QED BY <2>1 DEF Community, Report
<1>18. CASE s = "certification"
  <2>1. Verdict(a, s) = Certification(a)
    BY <1>18, Zenon DEF Verdict
  <2> QED BY <2>1 DEF Certification, Report
<1>19. CASE s = "catalog"
  <2>1. Verdict(a, s) = CatalogToolchain
    BY <1>19, Zenon DEF Verdict
  <2> QED BY <2>1 DEF CatalogToolchain
<1>20. CASE s = "runner-draft"
  <2>1. Verdict(a, s) = RunnerDraft
    BY <1>20, Zenon DEF Verdict
  <2> QED BY <2>1 DEF RunnerDraft, Report
<1>21. CASE s = "ci-workflow"
  <2>1. Verdict(a, s) = CiWorkflow
    BY <1>21, Zenon DEF Verdict
  <2> QED BY <2>1 DEF CiWorkflow, Contract, Report
<1>22. CASE s = "images"
  <2>1. Verdict(a, s) = StaticImages(a)
    BY <1>22, Zenon DEF Verdict
  <2> QED BY <2>1 DEF StaticImages, ImageReport
<1>23. CASE s = "provenance"
  <2>1. Verdict(a, s) = Provenance(a)
    BY <1>23, Zenon DEF Verdict
  <2> QED BY <2>1 DEF Provenance, Report
<1>24. CASE s = "external-plan"
  <2>1. Verdict(a, s) = ExternalPlan(a)
    BY <1>24, Zenon DEF Verdict
  <2> QED BY <2>1 DEF ExternalPlan
<1>25. CASE s = "scan-runner"
  <2>1. Verdict(a, s) = ScanRunner(a)
    BY <1>25, Zenon DEF Verdict
  <2> QED BY <2>1 DEF ScanRunner, Report
<1>26. CASE s = "scan-plan"
  <2>1. Verdict(a, s) = ScanPlan(a)
    BY <1>26, Zenon DEF Verdict
  <2> QED BY <2>1 DEF ScanPlan
<1>27. CASE s = "connectivity"
  <2>1. Verdict(a, s) = Connectivity
    BY <1>27, Zenon DEF Verdict
  <2> QED BY <2>1 DEF Connectivity
<1>28. CASE s = "dry-run"
  <2>1. Verdict(a, s) = DryRun
    BY <1>28, Zenon DEF Verdict
  <2> QED BY <2>1 DEF DryRun, Report
<1>29. CASE s = "lightspeed"
  <2>1. Verdict(a, s) = Lightspeed
    BY <1>29, Zenon DEF Verdict
  <2> QED BY <2>1 DEF Lightspeed
<1>30. CASE s = "auth-rbac"
  <2>1. Verdict(a, s) = AuthRbac(a)
    BY <1>30, Zenon DEF Verdict
  <2> QED BY <2>1 DEF AuthRbac
<1>31. CASE s = "patch-preview"
  <2>1. Verdict(a, s) = PatchPreview
    BY <1>31, Zenon DEF Verdict
  <2> QED BY <2>1 DEF PatchPreview, Report
<1>32. CASE s = "release-plan"
  <2>1. Verdict(a, s) = ReleasePlan(a)
    BY <1>32, Zenon DEF Verdict
  <2> QED BY <2>1 DEF ReleasePlan, Report
<1>33. CASE s = "candidates"
  <2>1. Verdict(a, s) = CandidateMatrix
    BY <1>33, Zenon DEF Verdict
  <2> QED BY <2>1 DEF CandidateMatrix, Report
<1>34. CASE s = "review-packet"
  <2>1. Verdict(a, s) = ReviewPacket(a)
    BY <1>34, Zenon DEF Verdict
  <2> QED BY <2>1 DEF ReviewPacket
<1>35. CASE s = "install-plan"
  <2>1. Verdict(a, s) = InstallPlan(a)
    BY <1>35, Zenon DEF Verdict
  <2> QED BY <2>1 DEF InstallPlan, Report
<1>36. CASE s = "live-handoff"
  <2>1. Verdict(a, s) = LiveHandoff(a)
    BY <1>36, Zenon DEF Verdict
  <2> QED BY <2>1 DEF LiveHandoff, Report
<1>37. CASE s = "network-handoff"
  <2>1. Verdict(a, s) = NetworkHandoff(a)
    BY <1>37, Zenon DEF Verdict
  <2> QED BY <2>1 DEF NetworkHandoff
<1>38. CASE s = "api-fallback"
  <2>1. Verdict(a, s) = ApiFallback
    BY <1>38, Zenon DEF Verdict
  <2> QED BY <2>1 DEF ApiFallback, Report
<1>39. CASE s = "integration"
  <2>1. Verdict(a, s) = Integration(a)
    BY <1>39, Zenon DEF Verdict
  <2> QED BY <2>1 DEF Integration, Report
<1>40. CASE s = "checkpoint"
  <2>1. Verdict(a, s) = Checkpoint(a)
    BY <1>40, Zenon DEF Verdict
  <2> QED BY <2>1 DEF Checkpoint
<1>41. CASE s = "lab-images"
  <2>1. Verdict(a, s) = LabImageMap
    BY <1>41, Zenon DEF Verdict
  <2> QED BY <2>1 DEF LabImageMap, Report
<1>42. CASE s = "lab-handoff"
  <2>1. Verdict(a, s) = LabHandoff(a)
    BY <1>42, Zenon DEF Verdict
  <2> QED BY <2>1 DEF LabHandoff, Report
<1>43. CASE s = "lab-bootstrap"
  <2>1. Verdict(a, s) = LabBootstrap(a)
    BY <1>43, Zenon DEF Verdict
  <2> QED BY <2>1 DEF LabBootstrap, Report
<1>44. CASE s = "roadmap"
  <2>1. Verdict(a, s) = Roadmap(a)
    BY <1>44, Zenon DEF Verdict
  <2> QED BY <2>1 DEF Roadmap
<1>45. CASE s = "bundle"
  <2>1. Verdict(a, s) = Bundle(a)
    BY <1>45, Zenon DEF Verdict
  <2> QED BY <2>1 DEF Bundle
<1>46. CASE s = "queue"
  <2>1. Verdict(a, s) = ActionQueue(a)
    BY <1>46, Zenon DEF Verdict
  <2> QED BY <2>1 DEF ActionQueue
<1>47. CASE s = "completion"
  <2>1. Verdict(a, s) = CompletionGate(a)
    BY <1>47, Zenon DEF Verdict
  <2> QED BY <2>1 DEF CompletionGate, Report
<1>48. CASE s = "pre-cluster"
  <2>1. Verdict(a, s) = PreClusterGate(a)
    BY <1>48, Zenon DEF Verdict
  <2> QED BY <2>1 DEF PreClusterGate, Report
<1> QED
  BY <1>1, <1>2, <1>3, <1>4, <1>5, <1>6, <1>7, <1>8, <1>9, <1>10, <1>11, <1>12,
     <1>13, <1>14, <1>15, <1>16, <1>17, <1>18, <1>19, <1>20, <1>21, <1>22, <1>23,
     <1>24, <1>25, <1>26, <1>27, <1>28, <1>29, <1>30, <1>31, <1>32, <1>33, <1>34,
     <1>35, <1>36, <1>37, <1>38, <1>39, <1>40, <1>41, <1>42, <1>43, <1>44, <1>45,
     <1>46, <1>47, <1>48
     DEF Verified, Scripts, Lanes, PassLanes, OtherLanes

-----------------------------------------------------------------------------
(* The chain. *)

ChainScripts == (Scripts \ {"refresh"}) \cup DraftScripts

ChainSteps ==
    {step \in [script : ChainScripts, gate : BOOLEAN, live : BOOLEAN, expected : BOOLEAN] :
        step.gate => step.script \in Verified}

\* The kinds of steps are steps.
LEMMA StepKinds ==
    ASSUME NEW s \in ChainScripts
    PROVE  /\ Step(s) \in ChainSteps
           /\ Expected(s) \in ChainSteps
           /\ Live(s) \in ChainSteps
           /\ s \in Verified => OfGate(s) \in ChainSteps
           /\ Step(s).script = s /\ ~Step(s).gate /\ ~Step(s).live /\ ~Step(s).expected
BY DEF ChainSteps, Step, Expected, Live, OfGate

\* A row of scripts is a row of steps.
LEMMA StepsAreSteps ==
    ASSUME NEW ss \in Seq(ChainScripts)
    PROVE  /\ Steps(ss) \in Seq(ChainSteps)
           /\ Len(Steps(ss)) = Len(ss)
           /\ \A i \in 1..Len(ss) : Steps(ss)[i] = Step(ss[i])
<1>1. \A i \in 1..Len(ss) : Step(ss[i]) \in ChainSteps
  BY StepKinds
<1>2. DOMAIN ss = 1..Len(ss) /\ Len(ss) \in Nat
  OBVIOUS
<1>3. Steps(ss) = [i \in 1..Len(ss) |-> Step(ss[i])]
  BY <1>2 DEF Steps
<1> QED BY <1>1, <1>2, <1>3

\* The steps of the MVP gate.
LEMMA MvpStepsAre == MvpSteps \in Seq(Verified) /\ Len(MvpSteps) = 19
BY DEF MvpSteps, Verified, Scripts, Lanes, PassLanes, OtherLanes

\* Two rows, one after the other.
LEMMA InARow ==
    ASSUME NEW S, NEW r \in Seq(S), NEW t \in Seq(S)
    PROVE  /\ r \o t \in Seq(S) /\ Len(r \o t) = Len(r) + Len(t)
           /\ \A i \in 1..Len(t) : (r \o t)[Len(r) + i] = t[i]
<1>1. r \o t \in Seq(S) /\ Len(r \o t) = Len(r) + Len(t)
  BY ConcatProperties
<1>2. \A i \in 1..(Len(r) + Len(t)) :
          (r \o t)[i] = IF i <= Len(r) THEN r[i] ELSE t[i - Len(r)]
  BY ConcatProperties
<1> QED BY <1>1, <1>2

\* The second of two rows begins where the first ends.
LEMMA NextInARow ==
    ASSUME NEW S, NEW r \in Seq(S), NEW t \in Seq(S), NEW i \in 1..Len(t)
    PROVE  (r \o t)[Len(r) + i] = t[i]
BY InARow

\* How the chain ends.
LEMMA ChainEndIs ==
    /\ ChainEnd \in Seq(ChainSteps) /\ Len(ChainEnd) = 8
    /\ ChainEnd[5] = Step("bundle") /\ ChainEnd[6] = Step("queue")
    /\ ChainEnd[7] = Step("completion") /\ ChainEnd[8] = Step("pre-cluster")
<1> DEFINE first == <<"bundle", "queue">>
           last  == <<"bundle", "queue", "completion", "pre-cluster">>
           again == <<Expected("roadmap")>>
<1>1. first \in Seq(ChainScripts) /\ last \in Seq(ChainScripts) /\ "roadmap" \in ChainScripts
  BY DEF ChainScripts, DraftScripts, Scripts
<1>2. Len(first) = 2 /\ Len(last) = 4
  OBVIOUS
<1>3. again \in Seq(ChainSteps) /\ Len(again) = 1
  BY <1>1, StepKinds
<1>4. Steps(first) \in Seq(ChainSteps) /\ Len(Steps(first)) = 2
  BY <1>1, <1>2, StepsAreSteps
<1>5. /\ Steps(last) \in Seq(ChainSteps) /\ Len(Steps(last)) = 4
      /\ Steps(last)[1] = Step("bundle") /\ Steps(last)[2] = Step("queue")
      /\ Steps(last)[3] = Step("completion") /\ Steps(last)[4] = Step("pre-cluster")
  <2>1. /\ last[1] = "bundle" /\ last[2] = "queue"
        /\ last[3] = "completion" /\ last[4] = "pre-cluster"
    OBVIOUS
  <2> HIDE DEF last
  <2>2. \A i \in 1..4 : Steps(last)[i] = Step(last[i])
    BY <1>1, <1>2, StepsAreSteps
  <2>3. Steps(last) \in Seq(ChainSteps) /\ Len(Steps(last)) = 4
    BY <1>1, <1>2, StepsAreSteps
  <2> QED BY <2>1, <2>2, <2>3
<1>6. ChainEnd = ((again \o Steps(first)) \o again) \o Steps(last)
  BY DEF ChainEnd
<1> DEFINE three == again \o Steps(first)
           four  == three \o again
           all   == four \o Steps(last)
<1> HIDE DEF three, four, all, first, last, again
<1>7. three \in Seq(ChainSteps) /\ Len(three) = Len(again) + Len(Steps(first))
  BY <1>3, <1>4, InARow, Zenon DEF three
<1>8. four \in Seq(ChainSteps) /\ Len(four) = Len(three) + Len(again)
  BY <1>3, <1>7, InARow, Zenon DEF four
<1>9. /\ all \in Seq(ChainSteps) /\ Len(all) = Len(four) + Len(Steps(last))
      /\ \A i \in 1..Len(Steps(last)) : all[Len(four) + i] = Steps(last)[i]
  <2>1. all \in Seq(ChainSteps) /\ Len(all) = Len(four) + Len(Steps(last))
    BY <1>5, <1>8, InARow, Zenon DEF all
  <2>2. ASSUME NEW i \in 1..Len(Steps(last))
        PROVE  all[Len(four) + i] = Steps(last)[i]
    <3>1. four \in Seq(ChainSteps) /\ Steps(last) \in Seq(ChainSteps)
      BY <1>5, <1>8
    <3>2. (four \o Steps(last))[Len(four) + i] = Steps(last)[i]
      BY <3>1, NextInARow, Zenon
    <3> QED BY <3>2, Zenon DEF all
  <2> QED BY <2>1, <2>2
<1>10. Len(four) = 4 /\ Len(all) = 8
  BY <1>3, <1>4, <1>5, <1>7, <1>8, <1>9
<1>11. \A i \in 1..4 : all[4 + i] = Steps(last)[i]
  BY <1>5, <1>9, <1>10
<1>12. /\ all[5] = Steps(last)[1] /\ all[6] = Steps(last)[2]
       /\ all[7] = Steps(last)[3] /\ all[8] = Steps(last)[4]
  <2> DEFINE at(i) == all[i]
             ls(i) == Steps(last)[i]
  <2> HIDE DEF at, ls
  <2>1. \A i \in 1..4 : at(4 + i) = ls(i)
    BY <1>11 DEF at, ls
  <2>2. at(5) = ls(1) /\ at(6) = ls(2) /\ at(7) = ls(3) /\ at(8) = ls(4)
    <3>1. 5 = 4 + 1 /\ 6 = 4 + 2 /\ 7 = 4 + 3 /\ 8 = 4 + 4
      OBVIOUS
    <3> QED BY <2>1, <3>1
  <2> QED BY <2>2 DEF at, ls
<1>13. ChainEnd = all
  BY <1>6 DEF all, four, three
<1> QED BY <1>5, <1>9, <1>10, <1>12, <1>13

\* The chain has 75 steps; the last four follow the last roadmap.
LEMMA ChainIs ==
    /\ Chain \in Seq(ChainSteps) /\ Len(Chain) = 75
    /\ Chain[72] = Step("bundle") /\ Chain[73] = Step("queue")
    /\ Chain[74] = Step("completion") /\ Chain[75] = Step("pre-cluster")
<1> DEFINE gate == [i \in DOMAIN MvpSteps |-> OfGate(MvpSteps[i])]
           local == <<"mvp-gate", "opsbrain", "env-contract", "target-profile",
            "runtime-readiness", "runtime-rag", "runtime-rag-fixture", "aiops",
            "rag-queue", "rag-production", "console-plugin", "operator-package",
            "operator-reconcile", "operator-parity", "extension-point", "routing",
            "trojan-horse", "community", "certification", "catalog", "runner-draft",
            "ci-workflow", "images", "provenance", "external-drafts", "external-plan",
            "scan-runner", "security-drafts", "scan-plan">>
           live == <<Live("connectivity"), Live("dry-run"), Live("lightspeed"),
                     Live("live-reader")>>
           plans == <<"auth-rbac", "patch-preview", "release-plan", "candidates",
               "review-packet", "install-plan", "live-handoff", "network-handoff",
               "api-fallback", "integration", "checkpoint", "network-handoff",
               "lab-images", "lab-handoff", "lab-bootstrap">>
<1>1. gate \in Seq(ChainSteps) /\ Len(gate) = 19
  <2>1. DOMAIN MvpSteps = 1..19 /\ \A i \in 1..19 : MvpSteps[i] \in Verified
    BY MvpStepsAre
  <2>2. \A i \in 1..19 : OfGate(MvpSteps[i]) \in ChainSteps
    BY <2>1, StepKinds DEF Verified, ChainScripts
  <2> QED BY <2>1, <2>2
<1>2. local \in Seq(ChainScripts) /\ Len(local) = 29
  BY DEF ChainScripts, DraftScripts, Scripts, Lanes, PassLanes, OtherLanes
<1>3. plans \in Seq(ChainScripts) /\ Len(plans) = 15
  BY DEF ChainScripts, DraftScripts, Scripts, Lanes, PassLanes, OtherLanes
<1>4. Steps(local) \in Seq(ChainSteps) /\ Len(Steps(local)) = 29
  BY <1>2, StepsAreSteps
<1>5. Steps(plans) \in Seq(ChainSteps) /\ Len(Steps(plans)) = 15
  BY <1>3, StepsAreSteps
<1>6. live \in Seq(ChainSteps) /\ Len(live) = 4
  <2>1. {"connectivity", "dry-run", "lightspeed", "live-reader"} \subseteq ChainScripts
    BY DEF ChainScripts, DraftScripts, Scripts, Lanes, PassLanes, OtherLanes
  <2>2. /\ Live("connectivity") \in ChainSteps /\ Live("dry-run") \in ChainSteps
        /\ Live("lightspeed") \in ChainSteps /\ Live("live-reader") \in ChainSteps
    BY <2>1, StepKinds
  <2> QED BY <2>2
<1>7. Chain = (((gate \o Steps(local)) \o live) \o Steps(plans)) \o ChainEnd
  BY DEF Chain
<1> DEFINE one   == gate \o Steps(local)
           two   == one \o live
           front == two \o Steps(plans)
           all   == front \o ChainEnd
<1> HIDE DEF gate, local, live, plans, one, two, front, all
<1>8. one \in Seq(ChainSteps) /\ Len(one) = Len(gate) + Len(Steps(local))
  BY <1>1, <1>4, InARow, Zenon DEF one
<1>9. two \in Seq(ChainSteps) /\ Len(two) = Len(one) + Len(live)
  BY <1>6, <1>8, InARow, Zenon DEF two
<1>10. front \in Seq(ChainSteps) /\ Len(front) = Len(two) + Len(Steps(plans))
  BY <1>5, <1>9, InARow, Zenon DEF front
<1>11. /\ all \in Seq(ChainSteps) /\ Len(all) = Len(front) + Len(ChainEnd)
       /\ \A i \in 1..Len(ChainEnd) : all[Len(front) + i] = ChainEnd[i]
  <2>1. all \in Seq(ChainSteps) /\ Len(all) = Len(front) + Len(ChainEnd)
    BY <1>10, ChainEndIs, InARow, Zenon DEF all
  <2>2. ASSUME NEW i \in 1..Len(ChainEnd)
        PROVE  all[Len(front) + i] = ChainEnd[i]
    <3>1. front \in Seq(ChainSteps) /\ ChainEnd \in Seq(ChainSteps)
      BY <1>10, ChainEndIs
    <3>2. (front \o ChainEnd)[Len(front) + i] = ChainEnd[i]
      BY <3>1, NextInARow, Zenon
    <3> QED BY <3>2, Zenon DEF all
  <2> QED BY <2>1, <2>2
<1>12. Len(front) = 67 /\ Len(all) = 75
  BY <1>1, <1>4, <1>5, <1>6, <1>8, <1>9, <1>10, <1>11, ChainEndIs
<1>13. /\ all[72] = ChainEnd[5] /\ all[73] = ChainEnd[6]
       /\ all[74] = ChainEnd[7] /\ all[75] = ChainEnd[8]
  <2> DEFINE at(i) == all[i]
             end(i) == ChainEnd[i]
  <2> HIDE DEF at, end
  <2>1. \A i \in 1..8 : at(67 + i) = end(i)
    BY <1>11, <1>12, ChainEndIs DEF at, end
  <2>2. at(72) = end(5) /\ at(73) = end(6) /\ at(74) = end(7) /\ at(75) = end(8)
    <3>1. 72 = 67 + 5 /\ 73 = 67 + 6 /\ 74 = 67 + 7 /\ 75 = 67 + 8
      OBVIOUS
    <3> QED BY <2>1, <3>1
  <2> QED BY <2>2 DEF at, end
<1>14. Chain = all
  BY <1>7 DEF all, front, two, one
<1> QED BY <1>11, <1>12, <1>13, <1>14, ChainEndIs

-----------------------------------------------------------------------------
(* What a step writes. *)

ImagesAt == [head : Heads, dirty : BOOLEAN]

ChainType ==
    chain \in [pc : 0 .. Len(Chain) + 1,
               opts : [build : BOOLEAN, live : BOOLEAN, docker : BOOLEAN],
               at : Heads, wasDirty : BOOLEAN, image : ImagesAt \cup {None},
               gate : SUBSET Scripts, gaps : BOOLEAN, failed : BOOLEAN, quiet : BOOLEAN]

TInv == TypeOK /\ ChainType

Unwritten == artifacts' = artifacts

Rewrites == \E s \in Verified : artifacts' = Written(artifacts, s)

Rereads == artifacts' = AfterLiveReader(artifacts)

Builds ==
    \/ artifacts' = [artifacts EXCEPT !["images"] = NoDockerImages]
    \/ \E at \in ImagesAt, built \in BuildOutcomes :
          artifacts' = [artifacts EXCEPT !["images"] = ImageReport(at, built)]

Scans == artifacts' = [artifacts EXCEPT !["scan-runner"] = DockerScanRunner]

Gates == artifacts' = [artifacts EXCEPT !["mvp-gate"] = MvpGate]

Reports == artifacts' = [artifacts EXCEPT !["refresh"] = RefreshReport]

\* Where a refresh that runs is.
LEMMA StepInChain ==
    ASSUME TInv, InChain
    PROVE  CurrentStep \in ChainSteps /\ chain.pc \in 1..75
<1>1. chain.pc \in 1..75
  BY ChainIs DEF TInv, ChainType, InChain, Idle
<1>2. \A r \in Seq(ChainSteps) : \A i \in 1..Len(r) : r[i] \in ChainSteps
  BY ElementOfSeq
<1>3. Chain[chain.pc] \in ChainSteps
  BY <1>1, <1>2, ChainIs, Zenon
<1> QED BY <1>1, <1>3 DEF CurrentStep

\* A script run alone writes its verdict, or the three of the live reader.
LEMMA AfterIs ==
    ASSUME NEW s \in Scripts \ {"mvp-gate", "refresh"}, artifacts' = After(artifacts, s)
    PROVE  Rewrites \/ Rereads
BY DEF After, Rewrites, Rereads, Verified

\* What a step may do to the artifacts.
LEMMA Writes ==
    ASSUME TInv, [Next]_vars
    PROVE  Unwritten \/ Rewrites \/ Rereads \/ Builds \/ Scans \/ Gates \/ Reports
<1>1. CASE StartRefresh
  BY <1>1 DEF StartRefresh, Unwritten
<1>2. CASE RunStep
  <2>1. InChain /\ ~Special(CurrentStep.script)
        /\ artifacts' = After(artifacts, CurrentStep.script)
    BY <1>2 DEF RunStep
  <2>2. CurrentStep.script \in ChainScripts
    BY <2>1, StepInChain DEF ChainSteps
  <2>3. CurrentStep.script \in Scripts \ {"mvp-gate", "refresh"}
    BY <2>1, <2>2 DEF ChainScripts, Special
  <2> QED BY <2>1, <2>3, AfterIs
<1>3. CASE RunGateStep
  <2>1. InChain /\ CurrentStep.gate /\ artifacts' = After(artifacts, CurrentStep.script)
    BY <1>3 DEF RunGateStep
  <2>2. CurrentStep.script \in Verified
    BY <2>1, StepInChain DEF ChainSteps
  <2> QED BY <2>1, <2>2, AfterIs DEF Verified
<1>4. CASE FinishGate
  BY <1>4 DEF FinishGate, Gates
<1>5. CASE SkipStep
  BY <1>5 DEF SkipStep, Unwritten
<1>6. CASE RunDrafts
  BY <1>6 DEF RunDrafts, Unwritten
<1>7. CASE StartBuild
  BY <1>7 DEF StartBuild, Unwritten
<1>8. CASE FinishBuild
  <2>1. chain.image \in ImagesAt
    BY <1>8 DEF FinishBuild, TInv, ChainType
  <2> QED BY <1>8, <2>1 DEF FinishBuild, Builds
<1>9. CASE BuildWithoutDocker
  BY <1>9 DEF BuildWithoutDocker, Builds
<1>10. CASE RunScan
  BY <1>10 DEF RunScan, Scans
<1>11. CASE FinishRefresh
  BY <1>11 DEF FinishRefresh, Reports
<1>12. CASE RunByHand
  BY <1>12, AfterIs, ByHandAssumption DEF RunByHand
<1>13. CASE Edit \/ Commit \/ Supply \/ SupplyRunner \/ ChangeTools \/ TimeOut \/ StopChain
  BY <1>13 DEF Edit, Commit, Supply, SupplyRunner, ChangeTools, TimeOut, StopChain, Unwritten
<1>14. CASE UNCHANGED vars
  BY <1>14 DEF vars, Unwritten
<1> QED BY <1>1, <1>2, <1>3, <1>4, <1>5, <1>6, <1>7, <1>8, <1>9, <1>10, <1>11, <1>12,
           <1>13, <1>14 DEF Next, ChainStep

-----------------------------------------------------------------------------
(* Claims. *)

\* A clean artifact makes the claim c.
Makes(a, c) ==
    /\ StatusIs(a, ScriptOf(c), ClaimStatus(c))
    /\ ~a[ScriptOf(c)].dirty
    /\ c = "builds" => ActualBuilds(a, {"owned", "all"})

\* The claims of the artifacts, one by one.
LEMMA ClaimedIs ==
    ASSUME NEW a
    PROVE  /\ \A c \in Claims : Makes(a, c) => <<c, a[ScriptOf(c)].head>> \in Claimed(a)
           /\ \A g \in Claimed(a) :
                 \E c \in Claims : Makes(a, c) /\ g = <<c, a[ScriptOf(c)].head>>
<1>1. Claimed(a) = {<<c, a[ScriptOf(c)].head>> : c \in {c \in Claims : Makes(a, c)}}
  BY Zenon DEF Claimed, Makes
<1> QED BY <1>1

\* Every claim is made by a script.
LEMMA ScriptsOfClaims == \A c \in Claims : ScriptOf(c) \in Scripts
BY DEF Claims, ScriptOf, Scripts, Lanes, PassLanes, OtherLanes

\* A claim depends on one artifact only.
LEMMA MakesDepends ==
    ASSUME NEW a, NEW b, NEW c \in Claims, a[ScriptOf(c)] = b[ScriptOf(c)], Makes(a, c)
    PROVE  Makes(b, c)
<1>1. c = "builds" => ScriptOf(c) = "images"
  BY DEF ScriptOf
<1> QED BY <1>1 DEF Makes, StatusIs, Exists, ActualBuilds
-----------------------------------------------------------------------------
(* Types. *)

Typed(a) ==
    /\ DOMAIN a = Scripts
    /\ \A s \in Scripts : Exists(a, s) => a[s].head \in Heads /\ a[s].dirty \in BOOLEAN

\* An artifact about a commit may be written.
LEMMA TypedStays ==
    ASSUME NEW a, Typed(a), NEW s \in Scripts, NEW r, r.head \in Heads, r.dirty \in BOOLEAN
    PROVE  Typed([a EXCEPT ![s] = r])
BY DEF Typed, Exists

\* What every verdict is about.
LEMMA WorldTyped == ASSUME TInv PROVE head \in Heads /\ Dirty \in BOOLEAN
BY DEF TInv, TypeOK, Dirty

\* The three writes of the live reader are typed.
LEMMA LiveReaderTyped ==
    ASSUME TInv, NEW a, Typed(a)
    PROVE  Typed(AfterLiveReader(a))
<1> DEFINE one == [a EXCEPT !["connectivity"] = Connectivity]
           two == [one EXCEPT !["lightspeed"] = Lightspeed]
<1>1. {"connectivity", "lightspeed", "live-reader"} \subseteq Scripts
  BY DEF Scripts, Lanes, PassLanes, OtherLanes
<1>2. Typed(one)
  BY <1>1, TypedStays, WorldTyped DEF Connectivity
<1>3. Typed(two)
  <2> HIDE DEF one
  <2> QED BY <1>1, <1>2, TypedStays, WorldTyped DEF Lightspeed
<1>4. LiveReader(two).head = head /\ LiveReader(two).dirty = Dirty
  BY DEF LiveReader, Report
<1>5. Typed([two EXCEPT !["live-reader"] = LiveReader(two)])
  <2> HIDE DEF two
  <2> QED BY <1>1, <1>3, <1>4, TypedStays, WorldTyped
<1>6. AfterLiveReader(a) = [two EXCEPT !["live-reader"] = LiveReader(two)]
  BY DEF AfterLiveReader
<1> QED BY <1>5, <1>6

\* Artifacts stay typed.
LEMMA ArtifactsTyped ==
    ASSUME TInv, [Next]_vars
    PROVE  Typed(artifacts')
<1>1. Typed(artifacts) /\ head \in Heads /\ Dirty \in BOOLEAN
  BY WorldTyped DEF TInv, TypeOK, Typed
<1>2. {"images", "scan-runner", "mvp-gate", "refresh"} \subseteq Scripts
  BY DEF Scripts, Lanes, PassLanes, OtherLanes
<1>3. chain.at \in Heads /\ chain.wasDirty \in BOOLEAN
  BY DEF TInv, ChainType
<1>4. CASE Unwritten
  BY <1>1, <1>4 DEF Unwritten
<1>5. CASE Rewrites
  <2>1. PICK s \in Verified : artifacts' = Written(artifacts, s)
    BY <1>5 DEF Rewrites
  <2>2. s \in Scripts
    BY DEF Verified
  <2>3. Typed([artifacts EXCEPT ![s] = Verdict(artifacts, s)])
    BY <1>1, <2>2, VerdictIsOfNow, TypedStays
  <2> QED BY <2>1, <2>3 DEF Written
<1>6. CASE Rereads
  BY <1>1, <1>6, LiveReaderTyped DEF Rereads
<1>7. CASE Builds
  <2>1. NoDockerImages.head \in Heads /\ NoDockerImages.dirty \in BOOLEAN
    BY <1>1 DEF NoDockerImages
  <2>2. ASSUME NEW at \in ImagesAt, NEW built
        PROVE  ImageReport(at, built).head \in Heads /\ ImageReport(at, built).dirty \in BOOLEAN
    BY DEF ImageReport, ImagesAt
  <2> QED BY <1>1, <1>2, <1>7, <2>1, <2>2, TypedStays DEF Builds
<1>8. CASE Scans
  <2>1. DockerScanRunner.head \in Heads /\ DockerScanRunner.dirty \in BOOLEAN
    BY <1>1 DEF DockerScanRunner, Report
  <2> QED BY <1>1, <1>2, <1>8, <2>1, TypedStays DEF Scans
<1>9. CASE Gates
  <2>1. MvpGate.head \in Heads /\ MvpGate.dirty \in BOOLEAN
    BY <1>3 DEF MvpGate
  <2> QED BY <1>1, <1>2, <1>9, <2>1, TypedStays DEF Gates
<1>10. CASE Reports
  <2>1. RefreshReport.head \in Heads /\ RefreshReport.dirty \in BOOLEAN
    BY <1>3 DEF RefreshReport
  <2> QED BY <1>1, <1>2, <1>10, <2>1, TypedStays DEF Reports
<1> QED BY <1>4, <1>5, <1>6, <1>7, <1>8, <1>9, <1>10, Writes

\* The history of the claims stays typed.
LEMMA GoodTyped ==
    ASSUME TInv, [Next]_vars
    PROVE  good' \subseteq Claims \X Heads
<1>1. good \subseteq Claims \X Heads
  BY DEF TInv, TypeOK
<1>2. Claimed(artifacts') \subseteq Claims \X Heads
  <2> SUFFICES ASSUME NEW g \in Claimed(artifacts')
               PROVE  g \in Claims \X Heads
    OBVIOUS
  <2>1. PICK c \in Claims : Makes(artifacts', c) /\ g = <<c, artifacts'[ScriptOf(c)].head>>
    BY ClaimedIs
  <2>2. Exists(artifacts', ScriptOf(c)) /\ ScriptOf(c) \in Scripts
    BY <2>1, ScriptsOfClaims DEF Makes, StatusIs
  <2>3. artifacts'[ScriptOf(c)].head \in Heads
    BY <2>2, ArtifactsTyped DEF Typed
  <2> QED BY <2>1, <2>3
<1>3. good' = good \cup Claimed(artifacts') \/ good' = good
  BY DEF Next, vars
<1> QED BY <1>1, <1>2, <1>3

\* What happens at the chain, whatever else a step does.
ChainMoves ==
    \/ chain' = chain
    \/ chain' = IdleChain
    \/ Idle /\ \E opts \in Options :
          chain' = [IdleChain EXCEPT !.pc = 1, !.opts = opts, !.at = head,
                                     !.wasDirty = Dirty, !.quiet = TRUE]
    \/ InChain /\ \E nonzero \in BOOLEAN : Advance(nonzero)
    \/ /\ InChain /\ CurrentStep.gate
       /\ \E failed \in SUBSET Scripts :
             chain' = [chain EXCEPT !.pc = @ + 1, !.gate = @ \cup failed]
    \/ InChain /\ Skipped /\ chain' = [chain EXCEPT !.pc = @ + 1, !.gaps = TRUE]
    \/ AtStep("images") /\ chain' = [chain EXCEPT !.image = [head |-> head, dirty |-> Dirty]]
    \/ chain.pc > Len(Chain) /\ chain' = [IdleChain EXCEPT !.quiet = chain.quiet]
    \/ chain' = [chain EXCEPT !.quiet = FALSE]
    \/ /\ InChain /\ CurrentStep.gate
       /\ chain' = [chain EXCEPT !.pc = Len(MvpSteps) + 2, !.failed = TRUE, !.quiet = FALSE]
    \/ /\ InChain /\ CurrentStep.expected
       /\ chain' = [chain EXCEPT !.pc = @ + 1, !.gaps = TRUE]
    \/ /\ InChain
       /\ chain' = [chain EXCEPT !.pc = @ + 1, !.image = None, !.failed = TRUE,
                                 !.quiet = FALSE]

\* To fail is a condition.
LEMMA FailedIsBoolean == ASSUME NEW r PROVE Failed(r) \in BOOLEAN /\ \A s : Fails(s, r) \in BOOLEAN
BY DEF Failed, Fails

\* Whoever is at a step is in the chain.
LEMMA AtStepInChain == ASSUME NEW s, AtStep(s) PROVE InChain
BY DEF AtStep, InChain

\* Every step moves the chain in one of these ways.
LEMMA ChainMovesSo ==
    ASSUME TInv, [Next]_vars
    PROVE  ChainMoves
<1>1. CASE StartRefresh
  BY <1>1 DEF StartRefresh, ChainMoves
<1>2. CASE RunStep
  BY <1>2, FailedIsBoolean DEF RunStep, ChainMoves
<1>3. CASE RunGateStep
  <2>1. InChain /\ CurrentStep.gate
    BY <1>3 DEF RunGateStep
  <2>2. CurrentStep.script \in Scripts
    BY <2>1, StepInChain DEF ChainSteps, Verified
  <2>3. PICK r \in BOOLEAN :
           chain' = [chain EXCEPT !.pc = @ + 1,
                                  !.gate = @ \cup (IF r THEN {CurrentStep.script} ELSE {})]
    BY <1>3, FailedIsBoolean DEF RunGateStep
  <2>4. (IF r THEN {CurrentStep.script} ELSE {}) \in SUBSET Scripts
    BY <2>2
  <2> QED BY <2>1, <2>3, <2>4 DEF ChainMoves
<1>4. CASE FinishGate
  BY <1>4, FailedIsBoolean, AtStepInChain DEF FinishGate, ChainMoves
<1>5. CASE SkipStep
  BY <1>5 DEF SkipStep, ChainMoves
<1>6. CASE RunDrafts
  BY <1>6, AtStepInChain DEF RunDrafts, ChainMoves
<1>7. CASE StartBuild
  BY <1>7 DEF StartBuild, ChainMoves
<1>8. CASE FinishBuild
  BY <1>8, FailedIsBoolean, AtStepInChain DEF FinishBuild, ChainMoves
<1>9. CASE BuildWithoutDocker
  BY <1>9, AtStepInChain DEF BuildWithoutDocker, ChainMoves
<1>10. CASE RunScan
  BY <1>10, FailedIsBoolean, AtStepInChain DEF RunScan, ChainMoves
<1>11. CASE FinishRefresh
  BY <1>11 DEF FinishRefresh, ChainMoves
<1>12. CASE RunByHand \/ Edit \/ Commit \/ Supply \/ SupplyRunner \/ ChangeTools
  BY <1>12 DEF RunByHand, Edit, Commit, Supply, SupplyRunner, ChangeTools, Meanwhile, ChainMoves
<1>13. CASE TimeOut
  BY <1>13 DEF TimeOut, ChainMoves
<1>14. CASE StopChain
  BY <1>14 DEF StopChain, ChainMoves
<1>15. CASE UNCHANGED vars
  BY <1>15 DEF vars, ChainMoves
<1> QED BY <1>1, <1>2, <1>3, <1>4, <1>5, <1>6, <1>7, <1>8, <1>9, <1>10, <1>11, <1>12,
           <1>13, <1>14, <1>15 DEF Next, ChainStep

ChainRecord ==
    [pc : 0 .. Len(Chain) + 1,
     opts : [build : BOOLEAN, live : BOOLEAN, docker : BOOLEAN],
     at : Heads, wasDirty : BOOLEAN, image : ImagesAt \cup {None},
     gate : SUBSET Scripts, gaps : BOOLEAN, failed : BOOLEAN, quiet : BOOLEAN]

\* The chain at rest.
LEMMA IdleChainTyped == IdleChain \in ChainRecord /\ IdleChain.pc = 0 /\ ~IdleChain.quiet
<1>1. 0 \in 0 .. Len(Chain) + 1
  BY ChainIs
<1>2. NoOptions \in [build : BOOLEAN, live : BOOLEAN, docker : BOOLEAN]
  BY DEF NoOptions
<1> QED BY <1>1, <1>2, HeadsAssumption DEF IdleChain, ChainRecord

\* The chain stays typed.
LEMMA ChainTyped ==
    ASSUME TInv, [Next]_vars
    PROVE  ChainType'
<1>1. chain \in ChainRecord /\ head \in Heads /\ Dirty \in BOOLEAN
  BY WorldTyped DEF TInv, ChainType, ChainRecord
<1>2. Len(Chain) = 75 /\ Len(MvpSteps) = 19
  BY ChainIs, MvpStepsAre
<1>3. InChain => chain.pc + 1 \in 0 .. Len(Chain) + 1
  BY <1>2, StepInChain
<1>4. 21 \in 0 .. Len(Chain) + 1 /\ 1 \in 0 .. Len(Chain) + 1
  BY <1>2
<1>5. chain' \in ChainRecord
  <2>1. CASE chain' = chain \/ chain' = IdleChain
    BY <1>1, <2>1, IdleChainTyped
  <2>2. ASSUME NEW opts \in Options,
               chain' = [IdleChain EXCEPT !.pc = 1, !.opts = opts, !.at = head,
                                          !.wasDirty = Dirty, !.quiet = TRUE]
        PROVE  chain' \in ChainRecord
    BY <1>1, <1>4, <2>2, IdleChainTyped, OptionsAssumption DEF ChainRecord
  <2>3. ASSUME InChain, NEW nonzero \in BOOLEAN, Advance(nonzero)
        PROVE  chain' \in ChainRecord
    BY <1>1, <1>3, <2>3 DEF ChainRecord, Advance
  <2>4. ASSUME InChain, NEW failed \in SUBSET Scripts,
               chain' = [chain EXCEPT !.pc = @ + 1, !.gate = @ \cup failed]
        PROVE  chain' \in ChainRecord
    BY <1>1, <1>3, <2>4 DEF ChainRecord
  <2>5. CASE InChain /\ chain' = [chain EXCEPT !.pc = @ + 1, !.gaps = TRUE]
    BY <1>1, <1>3, <2>5 DEF ChainRecord
  <2>6. CASE chain' = [chain EXCEPT !.image = [head |-> head, dirty |-> Dirty]]
    BY <1>1, <2>6 DEF ChainRecord, ImagesAt
  <2>7. CASE chain' = [IdleChain EXCEPT !.quiet = chain.quiet]
    BY <1>1, <2>7, IdleChainTyped DEF ChainRecord
  <2>8. CASE chain' = [chain EXCEPT !.quiet = FALSE]
    BY <1>1, <2>8 DEF ChainRecord
  <2>9. CASE chain' = [chain EXCEPT !.pc = Len(MvpSteps) + 2, !.failed = TRUE, !.quiet = FALSE]
    <3>1. Len(MvpSteps) + 2 = 21
      BY <1>2
    <3> QED BY <1>1, <1>4, <2>9, <3>1 DEF ChainRecord
  <2>10. CASE /\ InChain
              /\ chain' = [chain EXCEPT !.pc = @ + 1, !.image = None, !.failed = TRUE,
                                        !.quiet = FALSE]
    BY <1>1, <1>3, <2>10 DEF ChainRecord
  <2> QED BY <2>1, <2>2, <2>3, <2>4, <2>5, <2>6, <2>7, <2>8, <2>9, <2>10, ChainMovesSo
          DEF ChainMoves
<1> QED BY <1>5 DEF ChainType, ChainRecord

\* The worktree, the machine and the evidence stay typed.
LEMMA WorldStaysTyped ==
    ASSUME TInv, [Next]_vars
    PROVE  /\ head' \in Heads /\ edited' \in BOOLEAN
           /\ loose' \subseteq {"security", "external", "runner"}
           /\ broken' \in Breakages \cup {None}
           /\ tools' \subseteq Tools /\ evidence' \subseteq Evidence
           /\ runnerHead' \in Heads \cup {None}
           /\ refreshes' \in 0 .. MaxRefreshes /\ acts' \in 0 .. MaxActs
<1> USE DEF TInv, TypeOK
<1>1. CASE StartRefresh
  BY <1>1, BoundsAssumption DEF StartRefresh, world
<1>2. CASE RunStep \/ RunGateStep \/ FinishGate \/ SkipStep \/ StartBuild
           \/ BuildWithoutDocker \/ FinishRefresh
  BY <1>2 DEF RunStep, RunGateStep, FinishGate, SkipStep, StartBuild, BuildWithoutDocker,
              FinishRefresh, world
<1>3. CASE RunDrafts
  BY <1>3 DEF RunDrafts
<1>4. CASE FinishBuild
  BY <1>4 DEF FinishBuild, Tools
<1>5. CASE RunScan
  BY <1>5 DEF RunScan, Evidence
<1>6. CASE RunByHand
  BY <1>6, BoundsAssumption DEF RunByHand, Meanwhile, Act, world
<1>7. CASE Edit
  BY <1>7, BoundsAssumption DEF Edit, Meanwhile, Act
<1>8. CASE Commit
  <2>1. head' \in Heads
    BY <1>8 DEF Commit
  <2>2. edited' = FALSE /\ loose' = {} /\ acts < MaxActs /\ acts' = acts + 1
        /\ UNCHANGED <<broken, tools, evidence, runnerHead, artifacts, refreshes>>
    BY <1>8, Zenon DEF Commit, Meanwhile, Act
  <2>3. edited' \in BOOLEAN /\ loose' \subseteq {"security", "external", "runner"}
    BY <2>2
  <2>4. /\ broken' \in Breakages \cup {None} /\ tools' \subseteq Tools
        /\ evidence' \subseteq Evidence /\ runnerHead' \in Heads \cup {None}
    BY <2>2
  <2>5. refreshes' \in 0 .. MaxRefreshes /\ acts' \in 0 .. MaxActs
    BY <2>2, BoundsAssumption
  <2> QED BY <2>1, <2>3, <2>4, <2>5, Zenon
<1>9. CASE Supply
  BY <1>9, BoundsAssumption DEF Supply, Meanwhile, Act
<1>10. CASE SupplyRunner
  BY <1>10, BoundsAssumption DEF SupplyRunner, Meanwhile, Act
<1>11. CASE ChangeTools
  BY <1>11, BoundsAssumption, ToolsAssumption DEF ChangeTools, Meanwhile, Act
<1>12. CASE TimeOut
  BY <1>12, BoundsAssumption DEF TimeOut, Act, world
<1>13. CASE StopChain
  BY <1>13, BoundsAssumption DEF StopChain, Act, world
<1>14. CASE UNCHANGED vars
  BY <1>14 DEF vars, world
<1> QED BY <1>1, <1>2, <1>3, <1>4, <1>5, <1>6, <1>7, <1>8, <1>9, <1>10, <1>11, <1>12,
           <1>13, <1>14 DEF Next, ChainStep

\* The type invariant is kept.
LEMMA TypesStay == ASSUME TInv, [Next]_vars PROVE TInv'
<1>1. chain'.pc \in 0 .. Len(Chain) + 1 /\ chain'.at \in Heads
  BY ChainTyped DEF ChainType
<1> QED BY <1>1, ArtifactsTyped, GoodTyped, ChainTyped, WorldStaysTyped
        DEF TInv, TypeOK, Typed, Exists

\* It holds at first.
LEMMA TypesStart == ASSUME Init PROVE TInv
<1>1. \A c \in Checkouts : c.tools \subseteq Tools /\ c.evidence \subseteq Evidence
  BY ToolsAssumption
<1>2. Len(Chain) = 75
  BY ChainIs
<1>3. ChainType
  BY IdleChainTyped DEF Init, ChainType, ChainRecord
<1>4. TypeOK
  <2>1. \A t \in Scripts : ~Exists(artifacts, t)
    BY DEF Init, Exists
  <2>2. chain.pc \in 0 .. Len(Chain) + 1 /\ chain.at \in Heads
    BY <1>3 DEF ChainType
  <2>3. tools \subseteq Tools /\ evidence \subseteq Evidence
    BY <1>1 DEF Init
  <2>4. /\ head = 1 /\ edited = FALSE /\ loose = {} /\ broken = None /\ runnerHead = None
        /\ good = {} /\ refreshes = 0 /\ acts = 0
    BY DEF Init
  <2>5. DOMAIN artifacts = Scripts
    BY DEF Init
  <2>6. /\ edited \in BOOLEAN /\ loose \subseteq {"security", "external", "runner"}
        /\ good \subseteq Claims \X Heads
    BY <2>4
  <2>7. head \in Heads /\ broken \in Breakages \cup {None} /\ runnerHead \in Heads \cup {None}
    BY <2>4, HeadsAssumption
  <2>8. refreshes \in 0 .. MaxRefreshes /\ acts \in 0 .. MaxActs
    BY <2>4, BoundsAssumption
  <2> QED BY <2>1, <2>2, <2>3, <2>5, <2>6, <2>7, <2>8, Zenon DEF TypeOK
<1> QED BY <1>3, <1>4 DEF TInv

(* The state of the refresh, its artifacts and everything they are written  *)
(* from keep their types.                                                   *)
THEOREM ChainTypes == Spec => []TypeOK
<1>1. Init => TInv
  BY TypesStart
<1>2. TInv /\ [Next]_vars => TInv'
  BY TypesStay
<1>3. TInv => TypeOK
  BY DEF TInv
<1> QED BY <1>1, <1>2, <1>3, PTL DEF Spec

-----------------------------------------------------------------------------
(* What a script finds when it makes a claim. *)

\* The status that makes each claim.
LEMMA StatusOfClaims ==
    /\ ClaimStatus("builds") = "PASS" /\ ClaimStatus("images") = "PASS"
    /\ ClaimStatus("provenance") = "PASS" /\ ClaimStatus("community") = "PASS"
    /\ ClaimStatus("mvp-gate") = "PASS" /\ ClaimStatus("rag-queue") = "PASS"
    /\ ClaimStatus("connectivity") = "PASS" /\ ClaimStatus("live-reader") = "PASS"
    /\ ClaimStatus("checkpoint") = "PASS" /\ ClaimStatus("roadmap") = "PASS"
    /\ ClaimStatus("completion") = "PASS"
    /\ ClaimStatus("external-plan") = "APPROVAL_REQUIRED"
    /\ ClaimStatus("install-plan") = "APPROVAL_REQUIRED"
    /\ ClaimStatus("release-plan") = "PUBLISH_APPROVAL_REQUIRED"
    /\ ClaimStatus("scan-plan") = "READY_FOR_SCAN"
    /\ ClaimStatus("certification") = "READY_FOR_REVIEW"
    /\ ClaimStatus("bundle") = "APPROVAL_READY"
<1>1. \A c : c \in {"builds", "images", "provenance", "community", "mvp-gate", "rag-queue",
                "connectivity", "live-reader", "checkpoint", "roadmap", "completion"}
         => ClaimStatus(c) = "PASS"
  BY Zenon DEF ClaimStatus
<1>2. \A c : c \in {"external-plan", "install-plan"} => ClaimStatus(c) = "APPROVAL_REQUIRED"
  BY Zenon DEF ClaimStatus
<1>3. ClaimStatus("release-plan") = "PUBLISH_APPROVAL_REQUIRED"
  BY Zenon DEF ClaimStatus
<1>4. ClaimStatus("scan-plan") = "READY_FOR_SCAN"
  BY Zenon DEF ClaimStatus
<1>5. ClaimStatus("certification") = "READY_FOR_REVIEW"
  BY Zenon DEF ClaimStatus
<1>6. ClaimStatus("bundle") = "APPROVAL_READY"
  BY Zenon DEF ClaimStatus
<1> QED BY <1>1, <1>2, <1>3, <1>4, <1>5, <1>6

\* A current artifact with that status makes the claim at the head.
LEMMA CurrentClaims ==
    ASSUME NEW a, NEW c \in Claims \ {"builds"}, Current(a, c, {ClaimStatus(c)})
    PROVE  <<c, head>> \in Claimed(a)
<1>1. ScriptOf(c) = c
  BY DEF ScriptOf
<1>2. Makes(a, c) /\ a[ScriptOf(c)].head = head
  BY <1>1 DEF Makes, StatusIs, Current, Fresh
<1> QED BY <1>2, ClaimedIs

\* Images that were built make two claims.
LEMMA BuiltClaims ==
    ASSUME NEW a, Current(a, "images", {"PASS"}), ActualBuilds(a, {"owned", "all"})
    PROVE  {<<"builds", head>>, <<"images", head>>} \subseteq Claimed(a)
<1>1. ScriptOf("builds") = "images" /\ "builds" \in Claims /\ "images" \in Claims \ {"builds"}
  BY DEF ScriptOf, Claims
<1>2. Makes(a, "builds") /\ a[ScriptOf("builds")].head = head
  BY <1>1, StatusOfClaims DEF Makes, StatusIs, Current, Fresh
<1>3. <<"builds", head>> \in Claimed(a)
  BY <1>1, <1>2, ClaimedIs
<1>4. <<"images", head>> \in Claimed(a)
  BY <1>1, StatusOfClaims, CurrentClaims
<1> QED BY <1>3, <1>4

\* What each script found when it made its claim.
LEMMA ProvenanceRests ==
    ASSUME NEW a, Provenance(a).status = "PASS", NEW d \in RestsOn("provenance")
    PROVE  <<d, head>> \in Claimed(a)
<1>1. Current(a, "images", {"PASS"}) /\ ActualBuilds(a, {"owned", "all"})
  BY DEF Provenance, Report
<1> QED BY <1>1, BuiltClaims DEF RestsOn

LEMMA ExternalPlanRests ==
    ASSUME NEW a, ExternalPlan(a).status = "APPROVAL_REQUIRED",
           NEW d \in RestsOn("external-plan")
    PROVE  <<d, head>> \in Claimed(a)
<1>1. Current(a, "images", {"PASS"})
  BY DEF ExternalPlan
<1>2. d = "images" /\ d \in Claims \ {"builds"}
  BY DEF RestsOn, Claims
<1> QED BY <1>1, <1>2, CurrentClaims, StatusOfClaims

LEMMA ScanPlanRests ==
    ASSUME NEW a, ScanPlan(a).status = "READY_FOR_SCAN", NEW d \in RestsOn("scan-plan")
    PROVE  <<d, head>> \in Claimed(a)
<1>1. Current(a, "provenance", {"PASS"})
  BY DEF ScanPlan
<1>2. d = "provenance" /\ d \in Claims \ {"builds"}
  BY DEF RestsOn, Claims
<1> QED BY <1>1, <1>2, CurrentClaims, StatusOfClaims

LEMMA ReleasePlanRests ==
    ASSUME NEW a, ReleasePlan(a).status = "PUBLISH_APPROVAL_REQUIRED",
           NEW d \in RestsOn("release-plan")
    PROVE  <<d, head>> \in Claimed(a)
<1>1. /\ Current(a, "images", {"PASS"}) /\ ActualBuilds(a, {"all"})
      /\ Current(a, "provenance", {"PASS"})
      /\ Current(a, "external-plan", {"APPROVAL_REQUIRED"})
  BY DEF ReleasePlan, Report
<1>2. d \in {"builds", "provenance", "external-plan"}
  BY DEF RestsOn
<1>3. ActualBuilds(a, {"owned", "all"})
  BY <1>1 DEF ActualBuilds
<1>4. <<"builds", head>> \in Claimed(a)
  BY <1>1, <1>3, BuiltClaims
<1>5. {"provenance", "external-plan"} \subseteq Claims \ {"builds"}
  BY DEF Claims
<1>6. <<"provenance", head>> \in Claimed(a)
  BY <1>1, <1>5, CurrentClaims, StatusOfClaims
<1>7. <<"external-plan", head>> \in Claimed(a)
  BY <1>1, <1>5, CurrentClaims, StatusOfClaims
<1> QED BY <1>2, <1>4, <1>6, <1>7

LEMMA InstallPlanRests ==
    ASSUME NEW a, InstallPlan(a).status = "APPROVAL_REQUIRED",
           NEW d \in RestsOn("install-plan")
    PROVE  <<d, head>> \in Claimed(a)
<1>1. /\ Current(a, "mvp-gate", {"PASS"})
      /\ Current(a, "images", {"PASS"}) /\ ActualBuilds(a, {"owned", "all"})
      /\ Current(a, "rag-queue", {"PASS"})
  BY DEF InstallPlan, Report
<1>2. d \in {"mvp-gate", "builds", "rag-queue"}
  BY DEF RestsOn
<1>3. <<"builds", head>> \in Claimed(a)
  BY <1>1, BuiltClaims
<1>4. {"mvp-gate", "rag-queue"} \subseteq Claims \ {"builds"}
  BY DEF Claims
<1>5. <<"mvp-gate", head>> \in Claimed(a)
  BY <1>1, <1>4, CurrentClaims, StatusOfClaims
<1>6. <<"rag-queue", head>> \in Claimed(a)
  BY <1>1, <1>4, CurrentClaims, StatusOfClaims
<1> QED BY <1>2, <1>3, <1>5, <1>6

LEMMA CertificationRests ==
    ASSUME NEW a, Certification(a).status = "READY_FOR_REVIEW",
           NEW d \in RestsOn("certification")
    PROVE  <<d, head>> \in Claimed(a)
<1>1. Current(a, "community", {"PASS"})
  BY DEF Certification, Report, CommunityReady
<1>2. d = "community" /\ d \in Claims \ {"builds"}
  BY DEF RestsOn, Claims
<1> QED BY <1>1, <1>2, CurrentClaims, StatusOfClaims

\* The checkpoint wants the statuses that are claims.
LEMMA WantedClaims == \A s \in RestsOn("checkpoint") : Wanted(s) = {ClaimStatus(s)}
<1>1. Wanted("mvp-gate") = {"PASS"} /\ Wanted("provenance") = {"PASS"}
  BY Zenon DEF Wanted, PassLanes
<1>2. Wanted("connectivity") = {"PASS"} /\ Wanted("community") = {"PASS"}
  BY Zenon DEF Wanted, PassLanes
<1>3. Wanted("certification") = {"READY_FOR_REVIEW"}
  BY Zenon DEF Wanted, PassLanes
<1>4. Wanted("release-plan") = {"PUBLISH_APPROVAL_REQUIRED"}
  BY Zenon DEF Wanted, PassLanes
<1>5. Wanted("install-plan") = {"APPROVAL_REQUIRED"}
  BY Zenon DEF Wanted, PassLanes
<1>6. RestsOn("checkpoint") = {"mvp-gate", "provenance", "connectivity", "community",
                               "certification", "release-plan", "install-plan"}
  BY DEF RestsOn
<1> QED BY <1>1, <1>2, <1>3, <1>4, <1>5, <1>6, StatusOfClaims

\* A lane that is not open is current and as wanted.
LEMMA CheckpointPasses ==
    ASSUME NEW a, NEW s \in Lanes, s \notin Checkpoint(a).open
    PROVE  Current(a, s, Wanted(s))
<1>1. ~LaneBlocked(a, s) /\ ~LaneWaits(a, s)
  BY DEF Checkpoint
<1> QED BY <1>1 DEF LaneBlocked, LaneWaits, Current, Fresh

\* The checkpoint has a lane for every claim it rests on.
LEMMA CheckpointLanes ==
    RestsOn("checkpoint") \subseteq Lanes \cap (Claims \ {"builds"})
BY DEF RestsOn, Lanes, PassLanes, OtherLanes, Claims

\* What the checkpoint passes is claimed at the head.
LEMMA CheckpointRests ==
    ASSUME NEW a, NEW d \in RestsOn("checkpoint"), d \notin Checkpoint(a).open
    PROVE  <<d, head>> \in Claimed(a)
<1>1. d \in Lanes /\ d \in Claims \ {"builds"}
  BY CheckpointLanes
<1>2. Current(a, d, {ClaimStatus(d)})
  BY <1>1, CheckpointPasses, WantedClaims
<1> QED BY <1>1, <1>2, CurrentClaims

\* What a roadmap that passes found.
LEMMA RoadmapPasses ==
    ASSUME NEW a, Roadmap(a).status = "PASS"
    PROVE  /\ Roadmap(a).remaining = {}
           /\ \A s \in FreshSources : Fresh(a, s)
           /\ \A s \in StageLanes : ~Open(a, s)
           /\ CriticalPathSafe(a)
<1>1. Remaining(a) = {} /\ Roadmap(a).remaining = {}
  BY DEF Roadmap
<1>2. {"fresh"} \X {s \in FreshSources : ~Fresh(a, s)} = {}
  BY <1>1, Zenon DEF Remaining
<1>3. {"lane"} \X {s \in StageLanes : ~Exists(a, "checkpoint") \/ Open(a, s)} = {}
  BY <1>1, Zenon DEF Remaining
<1>4. (IF CriticalPathSafe(a) THEN {} ELSE {<<"queue", "critical-path">>}) = {}
  BY <1>1, Zenon DEF Remaining
<1>5. \A s \in FreshSources : Fresh(a, s)
  <2> SUFFICES ASSUME NEW s \in FreshSources, ~Fresh(a, s) PROVE FALSE
    OBVIOUS
  <2>1. <<"fresh", s>> \in {"fresh"} \X {t \in FreshSources : ~Fresh(a, t)}
    OBVIOUS
  <2> QED BY <1>2, <2>1
<1>6. \A s \in StageLanes : ~Open(a, s)
  <2> SUFFICES ASSUME NEW s \in StageLanes, Open(a, s) PROVE FALSE
    OBVIOUS
  <2>1. <<"lane", s>> \in {"lane"} \X {t \in StageLanes : ~Exists(a, "checkpoint") \/ Open(a, t)}
    OBVIOUS
  <2> QED BY <1>3, <2>1
<1>7. CriticalPathSafe(a)
  BY <1>4
<1> QED BY <1>1, <1>5, <1>6, <1>7

\* What a bundle that may be approved found.
LEMMA BundleRests ==
    ASSUME NEW a, Bundle(a).status = "APPROVAL_READY", NEW d \in RestsOn("bundle")
    PROVE  <<d, head>> \in Claimed(a)
<1>1. ~EvidenceGaps(a) /\ AllReady(ReleaseDecision(a))
  BY DEF Bundle
<1>2. \A s \in BundleSources : Current(a, s, Acceptable(s))
  BY <1>1 DEF EvidenceGaps
<1>3. {"roadmap", "release-plan", "install-plan", "mvp-gate"} \subseteq BundleSources
  BY DEF BundleSources
<1>4. {"roadmap", "release-plan", "install-plan", "mvp-gate"} \subseteq Claims \ {"builds"}
  BY DEF Claims
<1>5. \A s \in {"roadmap", "release-plan", "install-plan", "mvp-gate"} : Fresh(a, s)
  BY <1>2, <1>3 DEF Current
<1>6. /\ a["roadmap"].status = "PASS"
      /\ a["release-plan"].status = "PUBLISH_APPROVAL_REQUIRED"
      /\ a["install-plan"].status = "APPROVAL_REQUIRED"
  BY <1>1 DEF AllReady, ReleaseDecision, StatusIs
<1>7. a["mvp-gate"].status = "PASS"
  BY <1>2, <1>3 DEF Current, Acceptable
<1>8. \A s \in {"roadmap", "release-plan", "install-plan", "mvp-gate"} :
         Current(a, s, {ClaimStatus(s)})
  BY <1>5, <1>6, <1>7, StatusOfClaims DEF Current
<1>9. RestsOn("bundle") = {"roadmap", "release-plan", "install-plan", "mvp-gate"}
  BY DEF RestsOn
<1> QED BY <1>4, <1>8, <1>9, CurrentClaims

\* What the completion would need.
LEMMA CompletionRests ==
    ASSUME NEW a, CompletionGate(a).status = "PASS", NEW d \in RestsOn("completion")
    PROVE  <<d, head>> \in Claimed(a) /\ ~Dirty
<1>1. ReadyToClaim(a)
  BY DEF CompletionGate, Report
<1>2. d \in {"roadmap", "bundle"} /\ d \in Claims \ {"builds"}
  BY DEF RestsOn, Claims
<1>3. Current(a, d, {ClaimStatus(d)}) /\ ~Dirty
  BY <1>1, <1>2, StatusOfClaims DEF Current, ReadyToClaim
<1> QED BY <1>2, <1>3, CurrentClaims

-----------------------------------------------------------------------------
(* Claims rest on claims. *)

PassIsClean ==
    \A s \in {"connectivity", "community", "checkpoint"} :
        StatusIs(artifacts, s, "PASS") => ~artifacts[s].dirty

\* What a clean checkpoint passes was claimed.
CheckpointKnows ==
    LET r == artifacts["checkpoint"]
    IN  Exists(artifacts, "checkpoint") /\ ~r.dirty
          => \A d \in RestsOn("checkpoint") \ r.open : <<d, r.head>> \in good

\* What a roadmap that passes rests on was claimed, be it dirty or not.
RoadmapKnows ==
    StatusIs(artifacts, "roadmap", "PASS")
      => \A d \in RestsOn("roadmap") : <<d, artifacts["roadmap"].head>> \in good

CInv ==
    /\ Claimed(artifacts) \subseteq good
    /\ ClaimsRest
    /\ PassIsClean
    /\ CheckpointKnows
    /\ RoadmapKnows

\* A roadmap that passes rests on what its checkpoint knows.
LEMMA RoadmapRests ==
    ASSUME CInv, Roadmap(artifacts).status = "PASS", NEW d \in RestsOn("roadmap")
    PROVE  <<d, head>> \in good
<1> DEFINE r == artifacts["checkpoint"]
<1>1. "checkpoint" \in FreshSources
  BY DEF FreshSources
<1>2. Exists(artifacts, "checkpoint") /\ r.head = head /\ ~r.dirty
  BY <1>1, RoadmapPasses DEF Fresh
<1>3. d \in RestsOn("checkpoint") /\ d \in StageLanes
  BY DEF RestsOn, StageLanes
<1>4. d \notin r.open
  BY <1>2, <1>3, RoadmapPasses DEF Open
<1> QED BY <1>2, <1>3, <1>4 DEF CInv, CheckpointKnows

\* A claim of any script rests on what was claimed at the head.
LEMMA VerdictRests ==
    ASSUME CInv, NEW c \in Claims, ScriptOf(c) \in Verified,
           Verdict(artifacts, ScriptOf(c)).status = ClaimStatus(c),
           NEW d \in RestsOn(c)
    PROVE  <<d, head>> \in good
<1> DEFINE a == artifacts
<1>1. Claimed(a) \subseteq good
  BY DEF CInv
<1> HIDE DEF a
<1>2. CASE c = "provenance"
  <2>1. Verdict(a, "provenance") = Provenance(a)
    BY Zenon DEF Verdict
  <2> QED BY <1>1, <1>2, <2>1, ProvenanceRests, StatusOfClaims DEF ScriptOf, a
<1>3. CASE c = "external-plan"
  <2>1. Verdict(a, "external-plan") = ExternalPlan(a)
    BY Zenon DEF Verdict
  <2> QED BY <1>1, <1>3, <2>1, ExternalPlanRests, StatusOfClaims DEF ScriptOf, a
<1>4. CASE c = "scan-plan"
  <2>1. Verdict(a, "scan-plan") = ScanPlan(a)
    BY Zenon DEF Verdict
  <2> QED BY <1>1, <1>4, <2>1, ScanPlanRests, StatusOfClaims DEF ScriptOf, a
<1>5. CASE c = "release-plan"
  <2>1. Verdict(a, "release-plan") = ReleasePlan(a)
    BY Zenon DEF Verdict
  <2> QED BY <1>1, <1>5, <2>1, ReleasePlanRests, StatusOfClaims DEF ScriptOf, a
<1>6. CASE c = "install-plan"
  <2>1. Verdict(a, "install-plan") = InstallPlan(a)
    BY Zenon DEF Verdict
  <2> QED BY <1>1, <1>6, <2>1, InstallPlanRests, StatusOfClaims DEF ScriptOf, a
<1>7. CASE c = "certification"
  <2>1. Verdict(a, "certification") = Certification(a)
    BY Zenon DEF Verdict
  <2> QED BY <1>1, <1>7, <2>1, CertificationRests, StatusOfClaims DEF ScriptOf, a
<1>8. CASE c = "checkpoint"
  <2>1. Verdict(a, "checkpoint") = Checkpoint(a)
    BY Zenon DEF Verdict
  <2>2. Checkpoint(a).status = "PASS"
    BY <1>8, <2>1, StatusOfClaims DEF ScriptOf, a
  <2>3. Checkpoint(a).open = {}
    BY <2>2 DEF Checkpoint
  <2> QED BY <1>1, <1>8, <2>3, CheckpointRests
<1>9. CASE c = "roadmap"
  <2>1. Verdict(a, "roadmap") = Roadmap(a)
    BY Zenon DEF Verdict
  <2> QED BY <1>9, <2>1, RoadmapRests, StatusOfClaims DEF ScriptOf, a
<1>10. CASE c = "bundle"
  <2>1. Verdict(a, "bundle") = Bundle(a)
    BY Zenon DEF Verdict
  <2> QED BY <1>1, <1>10, <2>1, BundleRests, StatusOfClaims DEF ScriptOf, a
<1>11. CASE c = "completion"
  <2>1. Verdict(a, "completion") = CompletionGate(a)
    BY Zenon DEF Verdict
  <2> QED BY <1>1, <1>11, <2>1, CompletionRests, StatusOfClaims DEF ScriptOf, a
<1>12. c # "live-reader"
  BY DEF Verified, ScriptOf
<1> QED BY <1>2, <1>3, <1>4, <1>5, <1>6, <1>7, <1>8, <1>9, <1>10, <1>11, <1>12 DEF RestsOn

\* What is claimed anew rests on claims: so do all.
LEMMA RestAfter ==
    ASSUME CInv, good' = good \cup Claimed(artifacts'), NEW S,
           \A s \in Scripts \ S : artifacts'[s] = artifacts[s],
           \A c \in Claims : ScriptOf(c) \in S /\ Makes(artifacts', c) =>
               \A d \in RestsOn(c) : <<d, artifacts'[ScriptOf(c)].head>> \in good'
    PROVE  ClaimsRest' /\ Claimed(artifacts') \subseteq good'
<1> SUFFICES ASSUME NEW g \in good', NEW d \in RestsOn(g[1])
             PROVE  <<d, g[2]>> \in good'
  BY DEF ClaimsRest
<1>1. CASE g \in good
  BY <1>1 DEF CInv, ClaimsRest
<1>2. CASE g \in Claimed(artifacts')
  <2>1. PICK c \in Claims : Makes(artifacts', c) /\ g = <<c, artifacts'[ScriptOf(c)].head>>
    BY <1>2, ClaimedIs
  <2>2. CASE ScriptOf(c) \in S
    BY <2>1, <2>2
  <2>3. CASE ScriptOf(c) \notin S
    <3>1. artifacts'[ScriptOf(c)] = artifacts[ScriptOf(c)]
      BY <2>3, ScriptsOfClaims
    <3>2. Makes(artifacts, c)
      BY <2>1, <3>1, MakesDepends
    <3>3. g \in good
      BY <2>1, <3>1, <3>2, ClaimedIs DEF CInv
    <3> QED BY <3>3, <1>1
  <2> QED BY <2>2, <2>3
<1> QED BY <1>1, <1>2

\* Every step records what is claimed then.
LEMMA GoodGrows ==
    ASSUME CInv, [Next]_vars
    PROVE  good' = good \cup Claimed(artifacts')
<1>1. CASE Next
  BY <1>1 DEF Next
<1>2. CASE UNCHANGED vars
  BY <1>2 DEF vars, CInv
<1> QED BY <1>1, <1>2

\* Checkpoint and roadmap know what they say, however they are written.
LEMMA KnownAfter ==
    ASSUME CInv, good \subseteq good',
           \A s \in {"connectivity", "community", "checkpoint"} :
               \/ artifacts'[s] = artifacts[s]
               \/ artifacts'[s].status = "PASS" => ~artifacts'[s].dirty,
           \/ artifacts'["checkpoint"] = artifacts["checkpoint"]
           \/ artifacts'["checkpoint"] = Checkpoint(artifacts),
           \/ artifacts'["roadmap"] = artifacts["roadmap"]
           \/ artifacts'["roadmap"] = Roadmap(artifacts)
    PROVE  PassIsClean' /\ CheckpointKnows' /\ RoadmapKnows'
<1>1. PassIsClean'
  BY DEF CInv, PassIsClean, StatusIs, Exists
<1>2. CheckpointKnows'
  <2>1. CASE artifacts'["checkpoint"] = artifacts["checkpoint"]
    BY <2>1 DEF CInv, CheckpointKnows, Exists
  <2>2. CASE artifacts'["checkpoint"] = Checkpoint(artifacts)
    <3>1. Checkpoint(artifacts).head = head
      BY DEF Checkpoint
    <3>2. \A d \in RestsOn("checkpoint") \ Checkpoint(artifacts).open : <<d, head>> \in good
      BY CheckpointRests DEF CInv
    <3> QED BY <2>2, <3>1, <3>2 DEF CheckpointKnows
  <2> QED BY <2>1, <2>2
<1>3. RoadmapKnows'
  <2>1. CASE artifacts'["roadmap"] = artifacts["roadmap"]
    BY <2>1 DEF CInv, RoadmapKnows, StatusIs, Exists
  <2>2. CASE artifacts'["roadmap"] = Roadmap(artifacts)
    <3>1. Roadmap(artifacts).head = head
      BY DEF Roadmap
    <3> QED BY <2>2, <3>1, RoadmapRests DEF RoadmapKnows, StatusIs
  <2> QED BY <2>1, <2>2
<1> QED BY <1>1, <1>2, <1>3

\* A script that writes its own artifact keeps the invariant.
LEMMA ClaimsAfterRewrite ==
    ASSUME TInv, CInv, good' = good \cup Claimed(artifacts'), Rewrites
    PROVE  CInv'
<1>1. PICK s \in Verified : artifacts' = Written(artifacts, s)
  BY DEF Rewrites
<1>2. DOMAIN artifacts = Scripts /\ s \in Scripts
  BY DEF TInv, TypeOK, Verified
<1>3. /\ artifacts'[s] = Verdict(artifacts, s)
      /\ \A t \in Scripts \ {s} : artifacts'[t] = artifacts[t]
  BY <1>1, <1>2 DEF Written
<1>4. ASSUME NEW c \in Claims, ScriptOf(c) \in {s}, Makes(artifacts', c),
             NEW d \in RestsOn(c)
      PROVE  <<d, artifacts'[ScriptOf(c)].head>> \in good'
  <2>1. artifacts'[s].head = head
    BY <1>3, VerdictIsOfNow
  <2>2. Verdict(artifacts, s).status = ClaimStatus(c)
    BY <1>3, <1>4 DEF Makes, StatusIs
  <2>3. <<d, head>> \in good
    BY <1>4, <2>2, VerdictRests
  <2> QED BY <1>4, <2>1, <2>3
<1>5. ClaimsRest' /\ Claimed(artifacts') \subseteq good'
  BY <1>3, <1>4, RestAfter
<1>6. {"connectivity", "community", "checkpoint", "roadmap"} \subseteq Scripts
  BY DEF Scripts, Lanes, PassLanes, OtherLanes
<1>7. Verdict(artifacts, "connectivity").status = "PASS" => ~Dirty
  <2>1. Verdict(artifacts, "connectivity") = Connectivity
    BY Zenon DEF Verdict
  <2> QED BY <2>1 DEF Connectivity
<1>8. Verdict(artifacts, "community").status = "PASS" => ~Dirty
  <2>1. Verdict(artifacts, "community") = Community
    BY Zenon DEF Verdict
  <2> QED BY <2>1 DEF Community, Report
<1>9. Verdict(artifacts, "checkpoint") = Checkpoint(artifacts)
  BY Zenon DEF Verdict
<1>10. Checkpoint(artifacts).status = "PASS" => ~Dirty
  BY DEF Checkpoint
<1>11. Verdict(artifacts, "roadmap") = Roadmap(artifacts)
  BY Zenon DEF Verdict
<1>12. artifacts'[s].dirty = Dirty
  BY <1>3, VerdictIsOfNow
<1>13. \A t \in {"connectivity", "community", "checkpoint"} :
           \/ artifacts'[t] = artifacts[t]
           \/ artifacts'[t].status = "PASS" => ~artifacts'[t].dirty
  BY <1>3, <1>6, <1>7, <1>8, <1>9, <1>10, <1>12
<1>14. /\ \/ artifacts'["checkpoint"] = artifacts["checkpoint"]
          \/ artifacts'["checkpoint"] = Checkpoint(artifacts)
       /\ \/ artifacts'["roadmap"] = artifacts["roadmap"]
          \/ artifacts'["roadmap"] = Roadmap(artifacts)
  BY <1>3, <1>6, <1>9, <1>11
<1>15. PassIsClean' /\ CheckpointKnows' /\ RoadmapKnows'
  BY <1>13, <1>14, KnownAfter
<1> QED BY <1>5, <1>15 DEF CInv

\* The artifacts of the live reader.
LEMMA LiveReaderWrites ==
    ASSUME NEW a, DOMAIN a = Scripts
    PROVE  LET b == AfterLiveReader(a)
               two == [a EXCEPT !["connectivity"] = Connectivity, !["lightspeed"] = Lightspeed]
           IN  /\ b["connectivity"] = Connectivity /\ b["lightspeed"] = Lightspeed
               /\ b["live-reader"] = LiveReader(two)
               /\ two["connectivity"] = Connectivity /\ two["lightspeed"] = Lightspeed
               /\ \A s \in Scripts \ {"connectivity", "lightspeed", "live-reader"} :
                     b[s] = a[s]
<1>1. {"connectivity", "lightspeed", "live-reader"} \subseteq Scripts
  BY DEF Scripts, Lanes, PassLanes, OtherLanes
<1> DEFINE two == [a EXCEPT !["connectivity"] = Connectivity, !["lightspeed"] = Lightspeed]
<1>2. /\ DOMAIN two = Scripts
      /\ two["connectivity"] = Connectivity /\ two["lightspeed"] = Lightspeed
      /\ \A s \in Scripts \ {"connectivity", "lightspeed"} : two[s] = a[s]
  BY <1>1
<1> HIDE DEF two
<1>3. AfterLiveReader(a) = [two EXCEPT !["live-reader"] = LiveReader(two)]
  BY DEF AfterLiveReader, two
<1>4. LET b == AfterLiveReader(a)
      IN  /\ b["connectivity"] = Connectivity /\ b["lightspeed"] = Lightspeed
          /\ b["live-reader"] = LiveReader(two)
          /\ \A s \in Scripts \ {"connectivity", "lightspeed", "live-reader"} : b[s] = a[s]
  BY <1>1, <1>2, <1>3
<1> QED BY <1>2, <1>4 DEF two

\* So does the live reader, which claims what its diagnostic found.
LEMMA ClaimsAfterReread ==
    ASSUME TInv, CInv, good' = good \cup Claimed(artifacts'), Rereads
    PROVE  CInv'
<1> DEFINE two == [artifacts EXCEPT !["connectivity"] = Connectivity,
                                    !["lightspeed"] = Lightspeed]
<1>1. /\ artifacts'["connectivity"] = Connectivity
      /\ artifacts'["live-reader"] = LiveReader(two)
      /\ two["connectivity"] = Connectivity
      /\ \A s \in Scripts \ {"connectivity", "lightspeed", "live-reader"} :
            artifacts'[s] = artifacts[s]
  BY LiveReaderWrites DEF TInv, TypeOK, Rereads
<1> HIDE DEF two
<1>2. ASSUME NEW c \in Claims, ScriptOf(c) \in {"connectivity", "lightspeed", "live-reader"},
             Makes(artifacts', c), NEW d \in RestsOn(c)
      PROVE  <<d, artifacts'[ScriptOf(c)].head>> \in good'
  <2>1. c = "live-reader" /\ d = "connectivity" /\ ScriptOf(c) = "live-reader"
    BY <1>2 DEF RestsOn, ScriptOf, Claims
  <2>2. LiveReader(two).status = "PASS" /\ LiveReader(two).head = head
    BY <1>1, <1>2, <2>1, StatusOfClaims DEF Makes, StatusIs, LiveReader, Report
  <2>3. Fresh(two, "connectivity") /\ ClassOf(two) = "api-ready" /\ ~Dirty
    BY <2>2 DEF LiveReader, Report
  <2>4. Exists(two, "connectivity") /\ ConnectivityClass = "api-ready"
    BY <1>1, <2>3 DEF ClassOf, Fresh, Connectivity
  <2>5. Connectivity.status = "PASS" /\ Connectivity.head = head /\ ~Connectivity.dirty
    BY <2>3, <2>4 DEF Connectivity
  <2>6. Current(artifacts', "connectivity", {"PASS"})
    BY <1>1, <2>4, <2>5 DEF Current, Fresh, Exists
  <2>7. "connectivity" \in Claims \ {"builds"}
    BY DEF Claims
  <2>8. <<"connectivity", head>> \in Claimed(artifacts')
    BY <2>6, <2>7, CurrentClaims, StatusOfClaims
  <2> QED BY <1>1, <2>1, <2>2, <2>8
<1>3. ClaimsRest' /\ Claimed(artifacts') \subseteq good'
  BY <1>1, <1>2, RestAfter
<1>4. {"community", "checkpoint", "roadmap"} \subseteq
         Scripts \ {"connectivity", "lightspeed", "live-reader"}
  BY DEF Scripts, Lanes, PassLanes, OtherLanes
<1>5. Connectivity.status = "PASS" => ~Connectivity.dirty
  BY DEF Connectivity
<1>6. \A t \in {"connectivity", "community", "checkpoint"} :
          \/ artifacts'[t] = artifacts[t]
          \/ artifacts'[t].status = "PASS" => ~artifacts'[t].dirty
  BY <1>1, <1>4, <1>5
<1>7. PassIsClean' /\ CheckpointKnows' /\ RoadmapKnows'
  BY <1>1, <1>4, <1>6, KnownAfter
<1> QED BY <1>3, <1>7 DEF CInv

\* What rests on nothing may be written as it likes.
LEMMA ClaimsAfterOther ==
    ASSUME TInv, CInv, good' = good \cup Claimed(artifacts'),
           NEW s \in {"images", "scan-runner", "mvp-gate", "refresh"},
           \A t \in Scripts \ {s} : artifacts'[t] = artifacts[t]
    PROVE  CInv'
<1>1. \A c \in Claims : ScriptOf(c) \in {s} => RestsOn(c) = {}
  BY DEF Claims, ScriptOf, RestsOn
<1>2. ClaimsRest' /\ Claimed(artifacts') \subseteq good'
  BY <1>1, RestAfter
<1>3. {"connectivity", "community", "checkpoint", "roadmap"} \subseteq Scripts \ {s}
  BY DEF Scripts, Lanes, PassLanes, OtherLanes
<1>4. PassIsClean' /\ CheckpointKnows' /\ RoadmapKnows'
  BY <1>3, KnownAfter
<1> QED BY <1>2, <1>4 DEF CInv

\* The invariant of the claims is kept.
LEMMA ClaimsStay == ASSUME TInv, CInv, [Next]_vars PROVE CInv'
<1>1. good' = good \cup Claimed(artifacts')
  BY GoodGrows
<1>2. DOMAIN artifacts = Scripts
  BY DEF TInv, TypeOK
<1>3. CASE Unwritten
  <2>1. good' = good
    BY <1>1, <1>3 DEF CInv, Unwritten
  <2> QED BY <1>3, <2>1 DEF Unwritten, CInv, ClaimsRest, PassIsClean, CheckpointKnows,
             RoadmapKnows, StatusIs, Exists
<1>4. CASE Builds
  <2>1. \A t \in Scripts \ {"images"} : artifacts'[t] = artifacts[t]
    BY <1>2, <1>4 DEF Builds
  <2> QED BY <1>1, <2>1, ClaimsAfterOther
<1>5. CASE Scans
  <2>1. \A t \in Scripts \ {"scan-runner"} : artifacts'[t] = artifacts[t]
    BY <1>2, <1>5 DEF Scans
  <2> QED BY <1>1, <2>1, ClaimsAfterOther
<1>6. CASE Gates
  <2>1. \A t \in Scripts \ {"mvp-gate"} : artifacts'[t] = artifacts[t]
    BY <1>2, <1>6 DEF Gates
  <2> QED BY <1>1, <2>1, ClaimsAfterOther
<1>7. CASE Reports
  <2>1. \A t \in Scripts \ {"refresh"} : artifacts'[t] = artifacts[t]
    BY <1>2, <1>7 DEF Reports
  <2> QED BY <1>1, <2>1, ClaimsAfterOther
<1> QED BY <1>1, <1>3, <1>4, <1>5, <1>6, <1>7, Writes, ClaimsAfterRewrite, ClaimsAfterReread

\* It holds at first.
LEMMA ClaimsStart == ASSUME Init PROVE CInv
<1>1. \A s \in Scripts : ~Exists(artifacts, s)
  BY DEF Init, Exists
<1>2. Claimed(artifacts) = {}
  <2> SUFFICES ASSUME NEW g \in Claimed(artifacts) PROVE FALSE
    OBVIOUS
  <2>1. PICK c \in Claims : Makes(artifacts, c)
    BY ClaimedIs
  <2> QED BY <1>1, <2>1, ScriptsOfClaims DEF Makes, StatusIs
<1>3. {"connectivity", "community", "checkpoint", "roadmap"} \subseteq Scripts
  BY DEF Scripts, Lanes, PassLanes, OtherLanes
<1>4. ClaimsRest
  BY DEF Init, ClaimsRest
<1> QED BY <1>1, <1>2, <1>3, <1>4 DEF CInv, PassIsClean, CheckpointKnows, RoadmapKnows, StatusIs

(* However scripts run by hand, timeouts, edits, commits and the chain      *)
(* interleave, an artifact of a clean commit makes no claim but after every *)
(* claim it rests on was made of that commit.                               *)
THEOREM ClaimsAlwaysRest == Spec => []ClaimsRest
<1>1. Init => TInv /\ CInv
  BY TypesStart, ClaimsStart
<1>2. TInv /\ CInv /\ [Next]_vars => (TInv /\ CInv)'
  BY TypesStay, ClaimsStay
<1>3. CInv => ClaimsRest
  BY DEF CInv
<1> QED BY <1>1, <1>2, <1>3, PTL DEF Spec

-----------------------------------------------------------------------------
(* The gates. *)

ReviewLane == "external-runtime-review"

\* Only the items for the reviewers are of their lane.
LEMMA OtherItems ==
    ASSUME NEW a
    PROVE  \A i \in QueueItems(a) \ ExternalRuntimeItems(a) : i.lane # ReviewLane
<1>1. \A i \in EnvContractItems(a) : i.lane # ReviewLane
  BY NoneAssumption DEF EnvContractItems, When, Item, ReviewLane, StageTickets
<1>2. \A i \in TargetProfileItems(a) : i.lane # ReviewLane
  BY DEF TargetProfileItems, When, Item, ReviewLane
<1>3. \A i \in CheckpointItems(a) : i.lane # ReviewLane
  <2>1. ConnectivityItem(a).lane # ReviewLane /\ LightspeedItem(a).lane # ReviewLane
    BY DEF ConnectivityItem, LightspeedItem, Item, ReviewLane
  <2> QED BY <2>1 DEF CheckpointItems, When, Item, ReviewLane
<1>4. \A i \in SecurityScanItems(a) : i.lane # ReviewLane
  BY DEF SecurityScanItems, When, Item, ReviewLane
<1>5. \A i \in BundleDecisionItems(a) : i.lane # ReviewLane
  BY DEF BundleDecisionItems, When, Item, ReviewLane
<1>6. \A i \in CatalogToolchainItems(a) : i.lane # ReviewLane
  <2>1. \A offers : Item("catalog-registry-auth", 11, "registry-admin", offers).lane # ReviewLane
    BY DEF Item, ReviewLane
  <2>2. \A i \in CatalogToolchainItems(a) :
            i = Item("catalog-registry-auth", 11, "registry-admin",
                     OffersOf(a["bundle"].decision.catalog, TRUE))
    BY Zenon DEF CatalogToolchainItems, When
  <2> QED BY <2>1, <2>2
<1>7. \A i \in RuntimeLiveItems(a) : i.lane # ReviewLane
  BY DEF RuntimeLiveItems, When, Item, ReviewLane
<1>8. \A i \in AiopsMonitoringItems(a) : i.lane # ReviewLane
  BY DEF AiopsMonitoringItems, When, Item, ReviewLane
<1>9. \A i \in NetworkItems(a) : i.lane # ReviewLane
  BY DEF NetworkItems, When, Item, ReviewLane
<1>10. \A i \in AuthRbacItems(a) : i.lane # ReviewLane
  BY DEF AuthRbacItems, When, Item, ReviewLane
<1>11. \A i \in QueueItems(a) :
           \/ i \in EnvContractItems(a) \/ i \in TargetProfileItems(a)
           \/ i \in CheckpointItems(a) \/ i \in ExternalRuntimeItems(a)
           \/ i \in SecurityScanItems(a) \/ i \in BundleDecisionItems(a)
           \/ i \in CatalogToolchainItems(a) \/ i \in RuntimeLiveItems(a)
           \/ i \in AiopsMonitoringItems(a) \/ i \in NetworkItems(a)
           \/ i \in AuthRbacItems(a)
  BY DEF QueueItems
<1> QED BY <1>1, <1>2, <1>3, <1>4, <1>5, <1>6, <1>7, <1>8, <1>9, <1>10, <1>11

\* The reviewers are always asked for something.
LEMMA ReviewIsOnPath ==
    ASSUME NEW a, Exists(a, "review-packet")
    PROVE  ReviewLane \in ActionQueue(a).path
<1> DEFINE first == IF a["review-packet"].asks
                    THEN Item(ReviewLane, 1, "registry-admin", Handoff)
                    ELSE Item(ReviewLane, 13, "security-reviewer", {"read-only"})
<1>1. first \in ExternalRuntimeItems(a)
  BY DEF ExternalRuntimeItems, When, ReviewLane
<1>2. \A j \in ExternalRuntimeItems(a) : j.lane = ReviewLane => first.place <= j.place
  BY DEF ExternalRuntimeItems, When, ReviewLane, Item
<1>3. first.lane = ReviewLane /\ ReviewLane # None
  BY NoneAssumption DEF Item, ReviewLane, StageTickets
<1>4. ExternalRuntimeItems(a) \subseteq QueueItems(a)
  BY DEF QueueItems
<1> HIDE DEF first
<1>5. \A j \in QueueItems(a) : j.lane = first.lane => first.place <= j.place
  BY <1>2, <1>3, OtherItems
<1>6. first \in CriticalPath(QueueItems(a))
  BY <1>1, <1>3, <1>4, <1>5 DEF CriticalPath
<1>7. ReviewLane \in LanesOf(CriticalPath(QueueItems(a)))
  BY <1>3, <1>6 DEF LanesOf
<1> QED BY <1>7 DEF ActionQueue

\* A review packet that was written is there.
LEMMA ReviewPacketIsThere == ASSUME NEW a, TInv PROVE ReviewPacket(a) # None
<1> DEFINE Statuses == {"REVIEW_PACKET_READY", "BLOCKED"}
           status == IF Exists(a, "external-plan") THEN "REVIEW_PACKET_READY" ELSE "BLOCKED"
           asks   == "drafts" \notin evidence
           gaps   == \/ ~Fresh(a, "external-plan")
                     \/ asks
                     \/ ~Current(a, "candidates", {"CANDIDATE_REVIEW_READY"})
                     \/ ~FinalsPresent
<1>1. status \in Statuses
  BY Zenon
<1>2. gaps \in BOOLEAN /\ asks \in BOOLEAN
  BY Zenon
<1>3. ReviewPacket(a) = [head |-> head, dirty |-> Dirty, status |-> status, gaps |-> gaps,
                         asks |-> asks]
  BY Zenon DEF ReviewPacket
<1>4. None \notin [head : Heads, dirty : BOOLEAN, gaps : BOOLEAN, asks : BOOLEAN,
                   status : Statuses]
  BY NoneAssumption, Zenon
<1> HIDE DEF status, gaps, asks, Statuses
<1>5. ReviewPacket(a) \in [head : Heads, dirty : BOOLEAN, gaps : BOOLEAN, asks : BOOLEAN,
                           status : Statuses]
  BY <1>1, <1>2, <1>3, WorldTyped
<1> QED BY <1>4, <1>5

\* What the closing gates rest on: a checkpoint that passes the review packet
\* has seen one, a roadmap that passes leaves a queue that is not empty.
GInv ==
    /\ Exists(artifacts, "checkpoint") /\ "review-packet" \notin artifacts["checkpoint"].open
         => Exists(artifacts, "review-packet")
    /\ StatusIs(artifacts, "roadmap", "PASS")
         => /\ Exists(artifacts, "review-packet")
            /\ Exists(artifacts, "queue") => artifacts["queue"].path # {}
    /\ GatesStayClosed

\* The roadmap that passes contradicts the queue that is empty.
LEMMA CompletionIsNotGranted == ASSUME GInv PROVE CompletionGate(artifacts).status # "PASS"
<1> SUFFICES ASSUME CompletionGate(artifacts).status = "PASS" PROVE FALSE
  OBVIOUS
<1>1. ReadyToClaim(artifacts)
  BY DEF CompletionGate, Report
<1>2. /\ Exists(artifacts, "roadmap") /\ artifacts["roadmap"].status = "PASS"
      /\ Exists(artifacts, "queue") /\ artifacts["queue"].path = {}
  BY <1>1 DEF ReadyToClaim, Fresh
<1> QED BY <1>2 DEF GInv, StatusIs

\* The gate never finds the class it asks for.
LEMMA InstallIsNotGranted ==
    ASSUME NEW a
    PROVE  PreClusterGate(a).status # "READY_FOR_CLUSTER_INSTALL"
BY DEF PreClusterGate, Report, SafeToInstall, ClassAtTopLevel

\* Who writes none of the six keeps the invariant.
LEMMA GatesAfterOther ==
    ASSUME GInv,
           \A s \in {"checkpoint", "review-packet", "roadmap", "queue", "completion",
                     "pre-cluster"} : artifacts'[s] = artifacts[s]
    PROVE  GInv'
BY DEF GInv, GatesStayClosed, StatusIs, Exists

\* Who writes one of them keeps it too.
LEMMA GatesAfterRewrite ==
    ASSUME TInv, GInv, Rewrites
    PROVE  GInv'
<1> DEFINE Closing == {"checkpoint", "review-packet", "roadmap", "queue", "completion",
                       "pre-cluster"}
<1>1. PICK s \in Verified : artifacts' = Written(artifacts, s)
  BY DEF Rewrites
<1>2. DOMAIN artifacts = Scripts /\ s \in Scripts /\ Closing \subseteq Scripts
  BY DEF TInv, TypeOK, Verified, Scripts, Lanes, PassLanes, OtherLanes
<1>3. /\ artifacts'[s] = Verdict(artifacts, s)
      /\ \A t \in Closing \ {s} : artifacts'[t] = artifacts[t]
  BY <1>1, <1>2 DEF Written
<1>4. CASE s \notin Closing
  BY <1>3, <1>4, GatesAfterOther
<1>5. CASE s = "checkpoint"
  <2>1. artifacts'["checkpoint"] = Checkpoint(artifacts)
    <3>1. Verdict(artifacts, "checkpoint") = Checkpoint(artifacts)
      BY Zenon DEF Verdict
    <3> QED BY <1>3, <1>5, <3>1
  <2>2. "review-packet" \in Lanes
    BY DEF Lanes, OtherLanes
  <2>3. "review-packet" \notin Checkpoint(artifacts).open => Exists(artifacts, "review-packet")
    BY <2>2, CheckpointPasses DEF Current, Fresh
  <2> QED BY <1>3, <1>5, <2>1, <2>3 DEF GInv, GatesStayClosed, StatusIs, Exists
<1>6. CASE s = "review-packet"
  <2>1. artifacts'["review-packet"] = ReviewPacket(artifacts)
    <3>1. Verdict(artifacts, "review-packet") = ReviewPacket(artifacts)
      BY Zenon DEF Verdict
    <3> QED BY <1>3, <1>6, <3>1
  <2>2. Exists(artifacts', "review-packet")
    BY <2>1, ReviewPacketIsThere DEF Exists
  <2> QED BY <1>3, <1>6, <2>2 DEF GInv, GatesStayClosed, StatusIs, Exists
<1>7. CASE s = "roadmap"
  <2>1. artifacts'["roadmap"] = Roadmap(artifacts)
    <3>1. Verdict(artifacts, "roadmap") = Roadmap(artifacts)
      BY Zenon DEF Verdict
    <3> QED BY <1>3, <1>7, <3>1
  <2>2. ASSUME Roadmap(artifacts).status = "PASS"
        PROVE  Exists(artifacts, "review-packet") /\ artifacts["queue"].path # {}
    <3>1. Fresh(artifacts, "checkpoint") /\ ~Open(artifacts, "review-packet")
      BY <2>2, RoadmapPasses DEF FreshSources, StageLanes
    <3>2. artifacts["queue"].path # {}
      BY <2>2, RoadmapPasses DEF CriticalPathSafe
    <3> QED BY <3>1, <3>2 DEF GInv, Fresh, Open
  <2> QED BY <1>3, <1>7, <2>1, <2>2 DEF GInv, GatesStayClosed, StatusIs, Exists
<1>8. CASE s = "queue"
  <2>1. artifacts'["queue"] = ActionQueue(artifacts)
    <3>1. Verdict(artifacts, "queue") = ActionQueue(artifacts)
      BY Zenon DEF Verdict
    <3> QED BY <1>3, <1>8, <3>1
  <2>2. Exists(artifacts, "review-packet") => artifacts'["queue"].path # {}
    BY <2>1, ReviewIsOnPath
  <2> QED BY <1>3, <1>8, <2>2 DEF GInv, GatesStayClosed, StatusIs, Exists
<1>9. CASE s = "completion"
  <2>1. Verdict(artifacts, "completion") = CompletionGate(artifacts)
    BY Zenon DEF Verdict
  <2>2. artifacts'["completion"].status # "PASS"
    BY <1>3, <1>9, <2>1, CompletionIsNotGranted
  <2> QED BY <1>3, <1>9, <2>2 DEF GInv, GatesStayClosed, StatusIs, Exists
<1>10. CASE s = "pre-cluster"
  <2>1. Verdict(artifacts, "pre-cluster") = PreClusterGate(artifacts)
    BY Zenon DEF Verdict
  <2>2. artifacts'["pre-cluster"].status # "READY_FOR_CLUSTER_INSTALL"
    BY <1>3, <1>10, <2>1, InstallIsNotGranted
  <2> QED BY <1>3, <1>10, <2>2 DEF GInv, GatesStayClosed, StatusIs, Exists
<1> QED BY <1>4, <1>5, <1>6, <1>7, <1>8, <1>9, <1>10

\* The invariant of the gates is kept.
LEMMA GatesStay == ASSUME TInv, GInv, [Next]_vars PROVE GInv'
<1>1. {"checkpoint", "review-packet", "roadmap", "queue", "completion", "pre-cluster"}
         \subseteq Scripts \ {"connectivity", "lightspeed", "live-reader", "images",
                              "scan-runner", "mvp-gate", "refresh"}
  BY DEF Scripts, Lanes, PassLanes, OtherLanes
<1>2. DOMAIN artifacts = Scripts
  BY DEF TInv, TypeOK
<1>3. CASE Unwritten
  BY <1>3, GatesAfterOther DEF Unwritten
<1>4. CASE Rereads
  BY <1>1, <1>2, <1>4, LiveReaderWrites, GatesAfterOther DEF Rereads
<1>5. CASE Builds
  BY <1>1, <1>2, <1>5, GatesAfterOther DEF Builds
<1>6. CASE Scans
  BY <1>1, <1>2, <1>6, GatesAfterOther DEF Scans
<1>7. CASE Gates
  BY <1>1, <1>2, <1>7, GatesAfterOther DEF Gates
<1>8. CASE Reports
  BY <1>1, <1>2, <1>8, GatesAfterOther DEF Reports
<1> QED BY <1>3, <1>4, <1>5, <1>6, <1>7, <1>8, Writes, GatesAfterRewrite

\* It holds at first.
LEMMA GatesStart == ASSUME Init PROVE GInv
<1>1. \A s \in Scripts : ~Exists(artifacts, s)
  BY DEF Init, Exists
<1>2. {"checkpoint", "roadmap", "completion", "pre-cluster"} \subseteq Scripts
  BY DEF Scripts
<1> QED BY <1>1, <1>2 DEF GInv, GatesStayClosed, StatusIs

(* However the scripts and the people around them interleave, the claim     *)
(* that everything is done is never granted, and neither is the permission  *)
(* to install.                                                              *)
THEOREM GatesAlwaysClosed == Spec => []GatesStayClosed
<1>1. Init => TInv /\ GInv
  BY TypesStart, GatesStart
<1>2. TInv /\ GInv /\ [Next]_vars => (TInv /\ GInv)'
  BY TypesStay, GatesStay
<1>3. GInv => GatesStayClosed
  BY DEF GInv
<1> QED BY <1>1, <1>2, <1>3, PTL DEF Spec

-----------------------------------------------------------------------------
(* Roadmap and bundle. *)

\* From the last bundle of the chain on, and after a refresh nobody disturbed.
RInv ==
    /\ Exists(artifacts, "roadmap") => artifacts["roadmap"].remaining \subseteq Requirements
    /\ chain.quiet /\ (Idle \/ chain.pc > 72) => BundleMatchesRoadmap(artifacts)

\* The last four steps, one by one.
LEMMA LateSteps ==
    ASSUME TInv, InChain, chain.pc > 71
    PROVE  /\ ~CurrentStep.gate /\ ~CurrentStep.live /\ ~CurrentStep.expected
           /\ CurrentStep.script \in {"bundle", "queue", "completion", "pre-cluster"}
           /\ chain.pc = 72 => CurrentStep.script = "bundle"
           /\ chain.pc > 72 => CurrentStep.script # "bundle"
<1>1. chain.pc \in 72..75
  BY StepInChain
<1>2. {"bundle", "queue", "completion", "pre-cluster"} \subseteq ChainScripts
  BY DEF ChainScripts, DraftScripts, Scripts
<1>3. \A s \in {"bundle", "queue", "completion", "pre-cluster"} :
         Step(s).script = s /\ ~Step(s).gate /\ ~Step(s).live /\ ~Step(s).expected
  BY <1>2, StepKinds
<1>4. /\ chain.pc = 72 => CurrentStep = Step("bundle")
      /\ chain.pc = 73 => CurrentStep = Step("queue")
      /\ chain.pc = 74 => CurrentStep = Step("completion")
      /\ chain.pc = 75 => CurrentStep = Step("pre-cluster")
  BY ChainIs, Zenon DEF CurrentStep
<1>5. chain.pc = 72 \/ chain.pc = 73 \/ chain.pc = 74 \/ chain.pc = 75
  BY <1>1
<1> QED BY <1>3, <1>4, <1>5

\* What a roadmap lists.
LEMMA RemainingTyped == ASSUME NEW a PROVE Remaining(a) \subseteq Requirements
<1>1. Blockers(a) \subseteq Requirements
  BY DEF Blockers, Requirements
<1>2. ({"lane"} \X {s \in StageLanes : ~Exists(a, "checkpoint") \/ Open(a, s)})
         \subseteq Requirements
  BY DEF Requirements
<1>3. ({"step"} \X {s \in StageSteps : ~Exists(a, "mvp-gate")}) \subseteq Requirements
  BY DEF Requirements
<1>4. ({"proof"} \X {s \in ProofStatuses : ~Exists(a, s) \/ a[s].status # "PASS"})
         \subseteq Requirements
  BY DEF Requirements
<1>5. ({"fresh"} \X {s \in FreshSources : ~Fresh(a, s)}) \subseteq Requirements
  BY DEF Requirements
<1>6. ({"ticket"} \X {l \in StageTickets : ~Ticketed(a, l)}) \subseteq Requirements
  BY DEF Requirements
<1>7. /\ (IF CriticalPathSafe(a) THEN {} ELSE {<<"queue", "critical-path">>}) \subseteq Requirements
      /\ (IF TargetGuarded(a) THEN {} ELSE {<<"guard", "target-profile">>}) \subseteq Requirements
      /\ (IF ActualBuilds(a, {"owned", "all"}) THEN {} ELSE {<<"builds", "images">>})
            \subseteq Requirements
      /\ (IF Exists(a, "install-plan") THEN {} ELSE {<<"registration", "install-plan">>})
            \subseteq Requirements
  BY DEF Requirements
<1> QED BY <1>1, <1>2, <1>3, <1>4, <1>5, <1>6, <1>7, Zenon DEF Remaining

\* A bundle that was written is there.
LEMMA BundleIsThere ==
    ASSUME TInv, NEW a, Exists(a, "roadmap") => a["roadmap"].remaining \subseteq Requirements
    PROVE  Bundle(a) # None
<1> DEFINE Statuses == {"NEEDS_EVIDENCE", "APPROVAL_READY"}
           d        == ReleaseDecision(a)
           gaps     == EvidenceGaps(a) \/ ~QueueSafe(a)
           status   == IF Dirty \/ gaps \/ ~AllReady(d) THEN "NEEDS_EVIDENCE"
                       ELSE "APPROVAL_READY"
           known    == Exists(a, "catalog")
           registry == Exists(a, "catalog") /\ a["catalog"].registry
           publish  == StatusIs(a, "release-plan", "PUBLISH_APPROVAL_REQUIRED")
           install  == StatusIs(a, "install-plan", "APPROVAL_REQUIRED")
           complete == StatusIs(a, "roadmap", "PASS")
           listed   == IF Exists(a, "roadmap") THEN a["roadmap"].remaining ELSE {}
<1>1. Bundle(a) = [head |-> head, dirty |-> Dirty, gaps |-> gaps, decision |-> d,
                   status |-> status]
  BY Zenon DEF Bundle
<1>2. d = [catalog |-> known, registry |-> registry, publishReady |-> publish,
           installReady |-> install, roadmapComplete |-> complete, remaining |-> listed]
  BY Zenon DEF ReleaseDecision
<1>3. status \in Statuses
  BY Zenon
<1>4. gaps \in BOOLEAN
  BY Zenon
<1>5. known \in BOOLEAN
  BY Zenon DEF Exists
<1>6. registry \in BOOLEAN
  BY Zenon
<1>7. publish \in BOOLEAN /\ install \in BOOLEAN /\ complete \in BOOLEAN
  BY Zenon DEF StatusIs
<1>8. listed \in SUBSET Requirements
  BY Zenon
<1>9. None \notin [head : Heads, dirty : BOOLEAN, gaps : BOOLEAN, decision : Decisions,
                   status : Statuses]
  BY NoneAssumption, Zenon
<1> HIDE DEF Statuses, d, gaps, status, known, registry, publish, install, complete, listed
<1>10. d \in Decisions
  BY <1>2, <1>5, <1>6, <1>7, <1>8 DEF Decisions
<1>11. Bundle(a) \in [head : Heads, dirty : BOOLEAN, gaps : BOOLEAN, decision : Decisions,
                      status : Statuses]
  BY <1>1, <1>3, <1>4, <1>10, WorldTyped
<1> QED BY <1>9, <1>11

\* A bundle copies the roadmap it finds.
LEMMA BundleCopies ==
    ASSUME TInv, RInv, artifacts' = Written(artifacts, "bundle")
    PROVE  BundleMatchesRoadmap(artifacts')
<1>1. Verdict(artifacts, "bundle") = Bundle(artifacts)
  BY Zenon DEF Verdict
<1>2. DOMAIN artifacts = Scripts /\ {"bundle", "roadmap"} \subseteq Scripts
  BY DEF TInv, TypeOK, Scripts
<1>3. /\ artifacts'["bundle"] = Bundle(artifacts)
      /\ artifacts'["roadmap"] = artifacts["roadmap"]
  BY <1>1, <1>2 DEF Written
<1>4. Exists(artifacts', "bundle")
  BY <1>3, BundleIsThere DEF RInv, Exists
<1>5. Bundle(artifacts).decision.remaining
         = IF Exists(artifacts, "roadmap") THEN artifacts["roadmap"].remaining ELSE {}
  BY DEF Bundle, ReleaseDecision
<1>6. Exists(artifacts', "roadmap") <=> Exists(artifacts, "roadmap")
  BY <1>3 DEF Exists
<1> QED BY <1>3, <1>4, <1>5, <1>6 DEF BundleMatchesRoadmap

\* The list of the roadmap stays typed.
LEMMA RoadmapStaysTyped ==
    ASSUME TInv, RInv, [Next]_vars, Exists(artifacts', "roadmap")
    PROVE  artifacts'["roadmap"].remaining \subseteq Requirements
<1>1. DOMAIN artifacts = Scripts
  BY DEF TInv, TypeOK
<1>2. "roadmap" \in Scripts \ {"connectivity", "lightspeed", "live-reader", "images",
                              "scan-runner", "mvp-gate", "refresh"}
  BY DEF Scripts
<1>3. CASE artifacts'["roadmap"] = artifacts["roadmap"]
  BY <1>3 DEF RInv, Exists
<1>4. CASE artifacts'["roadmap"] = Roadmap(artifacts)
  <2>1. Roadmap(artifacts).remaining = Remaining(artifacts)
    BY DEF Roadmap
  <2> QED BY <1>4, <2>1, RemainingTyped
<1>5. Rewrites => \/ artifacts'["roadmap"] = artifacts["roadmap"]
                  \/ artifacts'["roadmap"] = Roadmap(artifacts)
  <2> SUFFICES ASSUME NEW s \in Verified, artifacts' = Written(artifacts, s)
               PROVE  \/ artifacts'["roadmap"] = artifacts["roadmap"]
                      \/ artifacts'["roadmap"] = Roadmap(artifacts)
    BY DEF Rewrites
  <2>1. Verdict(artifacts, "roadmap") = Roadmap(artifacts)
    BY Zenon DEF Verdict
  <2> QED BY <1>1, <1>2, <2>1 DEF Written
<1>6. Unwritten \/ Rereads \/ Builds \/ Scans \/ Gates \/ Reports
         => artifacts'["roadmap"] = artifacts["roadmap"]
  BY <1>1, <1>2, LiveReaderWrites DEF Unwritten, Rereads, Builds, Scans, Gates, Reports
<1> QED BY <1>3, <1>4, <1>5, <1>6, Writes

\* What is written after the last bundle leaves both alone.
LEMMA LateWrites ==
    ASSUME TInv, BundleMatchesRoadmap(artifacts),
           artifacts'["bundle"] = artifacts["bundle"],
           artifacts'["roadmap"] = artifacts["roadmap"]
    PROVE  BundleMatchesRoadmap(artifacts')
BY DEF BundleMatchesRoadmap, Exists

\* The steps with an action of their own come earlier.
LEMMA EarlyAt ==
    ASSUME TInv, NEW s \in {"mvp-gate", "images", "scan-runner"} \cup DraftScripts, AtStep(s)
    PROVE  InChain /\ chain.pc \in 1..71
<1>1. InChain /\ CurrentStep.script = s
  BY DEF AtStep, InChain
<1>2. s \notin {"bundle", "queue", "completion", "pre-cluster"}
  BY DEF DraftScripts
<1> QED BY <1>1, <1>2, LateSteps, StepInChain

\* The agreement is kept.
LEMMA AgreementStays == ASSUME TInv, RInv, [Next]_vars PROVE RInv'
<1> USE DEF Idle
<1>1. Exists(artifacts', "roadmap") => artifacts'["roadmap"].remaining \subseteq Requirements
  BY RoadmapStaysTyped
<1> SUFFICES ASSUME chain'.quiet, chain'.pc = 0 \/ chain'.pc > 72
             PROVE  BundleMatchesRoadmap(artifacts')
  BY <1>1 DEF RInv
<1>2. chain \in ChainRecord
  BY DEF TInv, ChainType, ChainRecord
<1>3. chain.pc \in Nat
  <2>1. Len(Chain) = 75
    BY ChainIs
  <2>2. chain.pc \in 0 .. Len(Chain) + 1
    BY <1>2 DEF ChainRecord
  <2> QED BY <2>1, <2>2
<1>4. DOMAIN artifacts = Scripts /\ {"bundle", "roadmap", "refresh"} \subseteq Scripts
  BY DEF TInv, TypeOK, Scripts
<1>5. CASE StartRefresh
  BY <1>5, IdleChainTyped DEF StartRefresh, ChainRecord
<1>6. CASE RunStep
  <2>1. InChain /\ chain'.pc = chain.pc + 1 /\ chain'.quiet = chain.quiet
    BY <1>2, <1>6 DEF RunStep, Advance, ChainRecord
  <2>2. chain.pc > 71
    BY <1>3, <2>1
  <2>3. artifacts' = After(artifacts, CurrentStep.script)
    BY <1>6 DEF RunStep
  <2>4. CurrentStep.script \in {"bundle", "queue", "completion", "pre-cluster"}
    BY <2>1, <2>2, LateSteps
  <2>5. artifacts' = Written(artifacts, CurrentStep.script)
    BY <2>3, <2>4 DEF After
  <2>6. CASE chain.pc = 72
    BY <2>1, <2>2, <2>5, <2>6, LateSteps, BundleCopies
  <2>7. CASE chain.pc > 72
    <3>1. CurrentStep.script \notin {"bundle", "roadmap"}
      BY <2>1, <2>2, <2>4, <2>7, LateSteps
    <3>2. BundleMatchesRoadmap(artifacts)
      BY <2>1, <2>7 DEF RInv
    <3> QED BY <1>4, <2>5, <3>1, <3>2, LateWrites DEF Written
  <2> QED BY <1>3, <2>2, <2>6, <2>7
<1>7. CASE RunGateStep
  <2>1. InChain /\ CurrentStep.gate /\ chain'.pc = chain.pc + 1
    BY <1>2, <1>7 DEF RunGateStep, ChainRecord
  <2>2. ~(chain.pc > 71)
    BY <2>1, LateSteps
  <2> QED BY <1>3, <2>1, <2>2
<1>8. CASE FinishGate \/ RunDrafts \/ FinishBuild \/ BuildWithoutDocker \/ RunScan
  <2>1. PICK s \in {"mvp-gate", "images", "scan-runner"} \cup DraftScripts : AtStep(s)
    BY <1>8 DEF FinishGate, RunDrafts, FinishBuild, BuildWithoutDocker, RunScan
  <2>2. chain'.pc = chain.pc + 1
    BY <1>2, <1>8 DEF FinishGate, RunDrafts, FinishBuild, BuildWithoutDocker, RunScan,
                      Advance, ChainRecord
  <2> QED BY <1>3, <2>1, <2>2, EarlyAt
<1>9. CASE StartBuild
  <2>1. AtStep("images") /\ chain'.pc = chain.pc
    BY <1>2, <1>9 DEF StartBuild, ChainRecord
  <2> QED BY <1>3, <2>1, EarlyAt
<1>10. CASE SkipStep
  <2>1. InChain /\ CurrentStep.live /\ chain'.pc = chain.pc + 1
    BY <1>2, <1>10 DEF SkipStep, Skipped, ChainRecord
  <2>2. ~(chain.pc > 71)
    BY <2>1, LateSteps
  <2> QED BY <1>3, <2>1, <2>2
<1>11. CASE FinishRefresh
  <2>1. chain'.quiet = chain.quiet /\ chain.pc > 75
    BY <1>11, IdleChainTyped, ChainIs DEF FinishRefresh, ChainRecord
  <2>2. BundleMatchesRoadmap(artifacts)
    BY <1>3, <2>1 DEF RInv
  <2> QED BY <1>4, <1>11, <2>2, LateWrites DEF FinishRefresh
<1>12. CASE RunByHand \/ Edit \/ Commit \/ Supply \/ SupplyRunner \/ ChangeTools
  <2>1. chain' = [chain EXCEPT !.quiet = FALSE]
    BY <1>12 DEF RunByHand, Edit, Commit, Supply, SupplyRunner, ChangeTools, Meanwhile
  <2> QED BY <1>2, <2>1 DEF ChainRecord
<1>13. CASE TimeOut
  <2>1. InChain /\ CurrentStep.expected /\ chain' = [chain EXCEPT !.pc = @ + 1, !.gaps = TRUE]
    BY <1>2, <1>13 DEF TimeOut, ChainRecord
  <2>2. ~(chain.pc > 71)
    BY <2>1, LateSteps
  <2>3. chain'.pc = chain.pc + 1
    BY <1>2, <2>1 DEF ChainRecord
  <2> QED BY <1>3, <2>2, <2>3
<1>14. CASE StopChain
  BY <1>14, IdleChainTyped DEF StopChain
<1>15. CASE UNCHANGED vars
  BY <1>15 DEF vars, RInv
<1> QED BY <1>5, <1>6, <1>7, <1>8, <1>9, <1>10, <1>11, <1>12, <1>13, <1>14, <1>15
        DEF Next, ChainStep

\* It holds at first.
LEMMA AgreementStart == ASSUME Init PROVE RInv
<1>1. ~Exists(artifacts, "roadmap")
  BY DEF Init, Exists, Scripts
<1> QED BY <1>1, IdleChainTyped DEF Init, RInv

(* After a refresh nobody disturbed the roadmap and the copy of it in the   *)
(* bundle agree: the second pass of the chain over roadmap, bundle and      *)
(* queue suffices, whatever its steps find and whichever of them fails.     *)
THEOREM RefreshAlwaysAgrees == Spec => []RefreshAgrees
<1>1. Init => TInv /\ RInv
  BY TypesStart, AgreementStart
<1>2. TInv /\ RInv /\ [Next]_vars => (TInv /\ RInv)'
  BY TypesStay, AgreementStays
<1>3. RInv => RefreshAgrees
  BY DEF RInv, RefreshAgrees
<1> QED BY <1>1, <1>2, <1>3, PTL DEF Spec

-----------------------------------------------------------------------------
(* The certified runner. *)

NInv ==
    runnerHead \in Heads => runnerHead <= head /\ (runnerHead = head => "runner" \in loose)

\* A commit moves the head past the evidence of a runner.
LEMMA RunnerStays == ASSUME TInv, NInv, [Next]_vars PROVE NInv'
<1>1. Heads \subseteq Nat /\ None \notin Heads /\ head \in Heads
  BY HeadsAssumption DEF TInv, TypeOK
<1>2. CASE head' = head /\ loose \subseteq loose' /\ runnerHead' = runnerHead
  BY <1>2 DEF NInv
<1>3. CASE Commit
  <2>1. head' > head /\ runnerHead' = runnerHead
    BY <1>3 DEF Commit
  <2>2. head' \in Heads
    BY <1>3 DEF Commit
  <2> QED BY <1>1, <2>1, <2>2 DEF NInv
<1>4. CASE SupplyRunner
  <2>1. runnerHead' = head /\ "runner" \in loose' /\ head' = head
    BY <1>4 DEF SupplyRunner
  <2> QED BY <1>1, <2>1 DEF NInv
<1>5. CASE StartRefresh \/ RunStep \/ RunGateStep \/ FinishGate \/ SkipStep \/ StartBuild
           \/ BuildWithoutDocker \/ FinishRefresh \/ RunByHand \/ TimeOut \/ StopChain
  BY <1>2, <1>5 DEF StartRefresh, RunStep, RunGateStep, FinishGate, SkipStep, StartBuild,
     BuildWithoutDocker, FinishRefresh, RunByHand, TimeOut, StopChain, world
<1>6. CASE RunDrafts \/ FinishBuild \/ RunScan \/ Edit \/ Supply \/ ChangeTools
  BY <1>2, <1>6 DEF RunDrafts, FinishBuild, RunScan, Edit, Supply, ChangeTools
<1>7. CASE UNCHANGED vars
  BY <1>2, <1>7 DEF vars, world
<1> QED BY <1>3, <1>4, <1>5, <1>6, <1>7 DEF Next, ChainStep

RunnerStep ==
    LET r == artifacts'["certification"]
    IN  r # artifacts["certification"] /\ r.status = "READY_FOR_REVIEW" /\ ~r.dirty
          => {"certifiers", "docker"} \subseteq tools

\* Who writes a readiness for review has the tools.
LEMMA RunnerSteps == ASSUME TInv, NInv, [Next]_vars PROVE RunnerStep
<1> SUFFICES ASSUME artifacts'["certification"] # artifacts["certification"],
                    artifacts'["certification"].status = "READY_FOR_REVIEW",
                    ~artifacts'["certification"].dirty
             PROVE  {"certifiers", "docker"} \subseteq tools
  BY DEF RunnerStep
<1>1. DOMAIN artifacts = Scripts
  BY DEF TInv, TypeOK
<1>2. "certification" \in Scripts \ {"connectivity", "lightspeed", "live-reader", "images",
                                    "scan-runner", "mvp-gate", "refresh"}
  BY DEF Scripts, Lanes, OtherLanes
<1>3. ~(Unwritten \/ Rereads \/ Builds \/ Scans \/ Gates \/ Reports)
  BY <1>1, <1>2, LiveReaderWrites DEF Unwritten, Rereads, Builds, Scans, Gates, Reports
<1>4. PICK s \in Verified : artifacts' = Written(artifacts, s)
  BY <1>3, Writes DEF Rewrites
<1>5. Verdict(artifacts, "certification") = Certification(artifacts)
  BY Zenon DEF Verdict
<1>6. artifacts'["certification"] = Certification(artifacts)
  BY <1>1, <1>2, <1>4, <1>5 DEF Written
<1>7. ToolsOrRunner /\ ~Dirty
  BY <1>6 DEF Certification, Report
<1>8. ~RunnerReady
  BY <1>7, HeadsAssumption DEF RunnerReady, NInv, Dirty, TInv, TypeOK
<1> QED BY <1>7, <1>8 DEF ToolsOrRunner

(* Evidence of a certified runner never counts for a clean commit: while it *)
(* is not committed the worktree is dirty, and once it is committed it is   *)
(* evidence of an earlier commit.                                           *)
THEOREM RunnerNeverCounts == Spec => RunnerEvidenceNeverCounts
<1>1. Init => TInv /\ NInv
  <2>1. Init => NInv
    BY HeadsAssumption DEF Init, NInv
  <2> QED BY <2>1, TypesStart
<1>2. TInv /\ NInv /\ [Next]_vars => (TInv /\ NInv)'
  BY TypesStay, RunnerStays
<1>3. TInv /\ NInv /\ [Next]_vars => [RunnerStep]_vars
  BY RunnerSteps
<1> QED BY <1>1, <1>2, <1>3, PTL DEF Spec, RunnerEvidenceNeverCounts, RunnerStep

-----------------------------------------------------------------------------
(* What the overview shows. *)

\* A part that is favourable was read from an artifact.
LEMMA ShownAs ==
    ASSUME NEW a, NEW s, NEW absent, NEW unread, NEW status,
           absent.status \notin Favourable, unread.status \notin Favourable,
           Shown(a, s, absent, unread, status).status \in Favourable
    PROVE  Exists(a, s) /\ status \in Favourable
BY DEF Shown

\* A judgement that is favourable is of a clean artifact.
LEMMA JudgedAs ==
    ASSUME NEW r, NEW failures, NEW failed, failed \notin Favourable, NEW ready,
           Judged(r, failures, failed, ready) \in Favourable
    PROVE  ~r.dirty /\ r.status \in DOMAIN ready /\ ready[r.status] \in Favourable
<1>1. "needs-evidence" \notin Favourable
  BY DEF Favourable
<1> QED BY <1>1 DEF Judged

\* What is shown as ready, or as ready to be approved, is the claim.
LEMMA FavourableClaims ==
    ASSUME NEW a, NEW c \in Claims \cap Parts, Part(a, c).status \in Favourable
    PROVE  /\ StatusIs(a, c, ClaimStatus(c))
           /\ c \notin {"connectivity", "community", "checkpoint", "roadmap", "completion"}
                => ~a[c].dirty
<1>0. {"failed", "blocked", "needs-evidence"} \cap Favourable = {}
  BY DEF Favourable
<1>1. CASE c = "images"
  <2>1. Part(a, "images") = ImageBuildReadiness(a)
    BY Zenon DEF Part
  <2>2. Exists(a, "images") /\ ImageBuildStatus(a["images"]) \in Favourable
    BY <1>0, <1>1, <2>1, ShownAs DEF ImageBuildReadiness, Unknown
  <2>3. a["images"].status = ClaimStatus("images") /\ ~a["images"].dirty
    BY <1>0, <2>2, JudgedAs, StatusOfClaims DEF ImageBuildStatus, Favourable
  <2> QED BY <1>1, <2>2, <2>3 DEF StatusIs
<1>2. CASE c = "provenance"
  <2>1. Part(a, "provenance") = OwnedProvenanceReadiness(a)
    BY Zenon DEF Part
  <2>2. Exists(a, "provenance") /\ OwnedProvenanceStatus(a["provenance"]) \in Favourable
    BY <1>0, <1>2, <2>1, ShownAs DEF OwnedProvenanceReadiness, MissingOwnedProvenance,
       Unknown
  <2>3. a["provenance"].status = ClaimStatus("provenance") /\ ~a["provenance"].dirty
    BY <1>0, <2>2, JudgedAs, StatusOfClaims DEF OwnedProvenanceStatus, Favourable
  <2> QED BY <1>2, <2>2, <2>3 DEF StatusIs
<1>3. CASE c = "community"
  <2>1. Part(a, "community") = CommunityReadiness(a)
    BY Zenon DEF Part
  <2>2. Exists(a, "community") /\ CommunityStatus(a["community"]) \in Favourable
    BY <1>0, <1>3, <2>1, ShownAs DEF CommunityReadiness, MissingCommunity, Unknown
  <2>3. a["community"].status = ClaimStatus("community")
    BY <1>0, <2>2, StatusOfClaims DEF CommunityStatus, Favourable
  <2> QED BY <1>3, <2>2, <2>3 DEF StatusIs
<1>4. CASE c = "connectivity"
  <2>1. Part(a, "connectivity") = ConnectivityReadiness(a)
    BY Zenon DEF Part
  <2>2. Exists(a, "connectivity") /\ ConnectivityStatus(a["connectivity"]) \in Favourable
    BY <1>0, <1>4, <2>1, ShownAs DEF ConnectivityReadiness, Unknown
  <2>3. a["connectivity"].status = ClaimStatus("connectivity")
    BY <1>0, <2>2, StatusOfClaims DEF ConnectivityStatus, Favourable
  <2> QED BY <1>4, <2>2, <2>3 DEF StatusIs
<1>5. CASE c = "checkpoint"
  <2>1. Part(a, "checkpoint") = CheckpointReadiness(a)
    BY Zenon DEF Part
  <2>2. Exists(a, "checkpoint") /\ CheckpointStatus(a["checkpoint"]) \in Favourable
    BY <1>0, <1>5, <2>1, ShownAs DEF CheckpointReadiness, Unknown
  <2>3. a["checkpoint"].status = ClaimStatus("checkpoint")
    BY <1>0, <2>2, StatusOfClaims DEF CheckpointStatus, ReadyIn, Favourable
  <2> QED BY <1>5, <2>2, <2>3 DEF StatusIs
<1>6. CASE c = "roadmap"
  <2>1. Part(a, "roadmap") = RoadmapCompletion(a)
    BY Zenon DEF Part
  <2>2. Exists(a, "roadmap") /\ RoadmapStatus(a["roadmap"]) \in Favourable
    BY <1>0, <1>6, <2>1, ShownAs DEF RoadmapCompletion, MissingRoadmap, Unknown
  <2>3. a["roadmap"].status = ClaimStatus("roadmap")
    BY <1>0, <2>2, StatusOfClaims DEF RoadmapStatus, Favourable
  <2> QED BY <1>6, <2>2, <2>3 DEF StatusIs
<1>7. CASE c = "completion"
  <2>1. Part(a, "completion") = CompletionGateSummary(a)
    BY Zenon DEF Part
  <2>2. Exists(a, "completion") /\ CompletionGateStatus(a["completion"]) \in Favourable
    BY <1>0, <1>7, <2>1, ShownAs DEF CompletionGateSummary, MissingCompletionGate, Unknown
  <2>3. a["completion"].status = ClaimStatus("completion")
    BY <1>0, <2>2, StatusOfClaims DEF CompletionGateStatus, ReadyIn, Favourable
  <2> QED BY <1>7, <2>2, <2>3 DEF StatusIs
<1>8. CASE c = "external-plan"
  <2>1. Part(a, "external-plan") = ExternalPlanReadiness(a)
    BY Zenon DEF Part
  <2>2. Exists(a, "external-plan") /\ ExternalPlanStatus(a["external-plan"]) \in Favourable
    BY <1>0, <1>8, <2>1, ShownAs DEF ExternalPlanReadiness, Unknown
  <2>3. a["external-plan"].status = ClaimStatus("external-plan") /\ ~a["external-plan"].dirty
    BY <1>0, <2>2, JudgedAs, StatusOfClaims DEF ExternalPlanStatus, Favourable
  <2> QED BY <1>8, <2>2, <2>3 DEF StatusIs
<1>9. CASE c = "install-plan"
  <2>1. Part(a, "install-plan") = InstallPlanReadiness(a)
    BY Zenon DEF Part
  <2>2. Exists(a, "install-plan") /\ InstallPlanStatus(a["install-plan"]) \in Favourable
    BY <1>0, <1>9, <2>1, ShownAs DEF InstallPlanReadiness, Unknown
  <2>3. a["install-plan"].status = ClaimStatus("install-plan") /\ ~a["install-plan"].dirty
    BY <1>0, <2>2, JudgedAs, StatusOfClaims DEF InstallPlanStatus, Favourable
  <2> QED BY <1>9, <2>2, <2>3 DEF StatusIs
<1>10. CASE c = "release-plan"
  <2>1. Part(a, "release-plan") = ReleasePublishReadiness(a)
    BY Zenon DEF Part
  <2>2. Exists(a, "release-plan") /\ ReleasePublishStatus(a["release-plan"]) \in Favourable
    BY <1>0, <1>10, <2>1, ShownAs DEF ReleasePublishReadiness, Unknown
  <2>3. a["release-plan"].status = ClaimStatus("release-plan") /\ ~a["release-plan"].dirty
    BY <1>0, <2>2, JudgedAs, StatusOfClaims DEF ReleasePublishStatus, Favourable
  <2> QED BY <1>10, <2>2, <2>3 DEF StatusIs
<1>11. CASE c = "scan-plan"
  <2>1. Part(a, "scan-plan") = SecurityScanReadiness(a)
    BY Zenon DEF Part
  <2>2. Exists(a, "scan-plan") /\ SecurityScanStatus(a["scan-plan"]) \in Favourable
    BY <1>0, <1>11, <2>1, ShownAs DEF SecurityScanReadiness, MissingSecurityScan, Unknown
  <2>3. a["scan-plan"].status = ClaimStatus("scan-plan") /\ ~a["scan-plan"].dirty
    BY <1>0, <2>2, JudgedAs, StatusOfClaims DEF SecurityScanStatus, Favourable
  <2> QED BY <1>11, <2>2, <2>3 DEF StatusIs
<1>12. CASE c = "certification"
  <2>1. Part(a, "certification") = CertificationReadiness(a)
    BY Zenon DEF Part
  <2>2. Exists(a, "certification") /\ CertificationStatus(a["certification"]) \in Favourable
    BY <1>0, <1>12, <2>1, ShownAs DEF CertificationReadiness, MissingCertification,
       Unknown
  <2>3. a["certification"].status = ClaimStatus("certification") /\ ~a["certification"].dirty
    BY <1>0, <2>2, JudgedAs, StatusOfClaims DEF CertificationStatus, Favourable
  <2> QED BY <1>12, <2>2, <2>3 DEF StatusIs
<1>13. CASE c = "bundle"
  <2>1. Part(a, "bundle") = BundleReadiness(a)
    BY Zenon DEF Part
  <2>2. Exists(a, "bundle") /\ BundleStatus(a["bundle"]) \in Favourable
    BY <1>0, <1>13, <2>1, ShownAs DEF BundleReadiness, MissingBundle, Unknown
  <2>3. a["bundle"].status = ClaimStatus("bundle") /\ ~a["bundle"].dirty
    BY <1>0, <2>2, JudgedAs, StatusOfClaims DEF BundleStatus, Favourable
  <2> QED BY <1>13, <2>2, <2>3 DEF StatusIs
<1>14. c \in {"images", "provenance", "community", "connectivity", "checkpoint", "roadmap",
              "completion", "external-plan", "install-plan", "release-plan", "scan-plan",
              "certification", "bundle"}
  BY DEF Claims, Parts
<1> QED BY <1>1, <1>2, <1>3, <1>4, <1>5, <1>6, <1>7, <1>8, <1>9, <1>10, <1>11,
           <1>12, <1>13, <1>14

-----------------------------------------------------------------------------
(* Failures. *)

\* How a script says that it failed.
FailScripts ==
    {"images", "operator-package", "dry-run", "operator-parity", "env-contract",
    "extension-point", "api-fallback", "aiops", "lightspeed", "routing", "trojan-horse"}

BlockedScripts ==
    {"provenance", "external-plan", "review-packet", "install-plan", "release-plan",
    "catalog", "refresh", "roadmap", "completion", "queue", "rag-production",
    "network-handoff", "auth-rbac", "checkpoint", "integration"}

FailuresOf(s) ==
    IF s \in FailScripts THEN {"FAIL"}
    ELSE IF s \in BlockedScripts THEN {"BLOCKED"}
    ELSE IF s = "community" THEN {"FAILED"}
    ELSE {}

Shows(a, s) == Part(a, s).status \in {"failed", "blocked"}

\* Every part shows a failure, and an artifact that does not parse.
LEMMA FailureIsShown ==
    ASSUME NEW a, NEW s \in Parts
    PROVE  /\ a[s] = Torn => Shows(a, s)
           /\ a[s] = Torn /\ s # "review-packet" => Part(a, s).found # "missing"
           /\ Exists(a, s) /\ a[s].status \in FailuresOf(s) => Shows(a, s)
<1>1. CASE s = "lightspeed"
  <2>1. Part(a, "lightspeed") = LightspeedMcpReadiness(a)
    BY Zenon DEF Part
  <2>2. FailuresOf("lightspeed") = {"FAIL"}
    BY DEF FailuresOf, FailScripts
  <2>3. a["lightspeed"].status = "FAIL" => LightspeedStatus(a["lightspeed"]) = "failed"
    BY Zenon DEF LightspeedStatus
  <2> QED BY <1>1, <2>1, <2>2, <2>3 DEF Shows, LightspeedMcpReadiness, Shown, Unknown
<1>2. CASE s = "routing"
  <2>1. Part(a, "routing") = RoutingScore(a)
    BY Zenon DEF Part
  <2>2. FailuresOf("routing") = {"FAIL"}
    BY DEF FailuresOf, FailScripts
  <2> QED BY <1>2, <2>1, <2>2 DEF Shows, RoutingScore, Shown, Unknown, RoutingStatus
<1>3. CASE s = "trojan-horse"
  <2>1. Part(a, "trojan-horse") = TrojanHorseProof(a)
    BY Zenon DEF Part
  <2>2. FailuresOf("trojan-horse") = {"FAIL"}
    BY DEF FailuresOf, FailScripts
  <2> QED BY <1>3, <2>1, <2>2 DEF Shows, TrojanHorseProof, Shown, Unknown,
             TrojanHorseStatus, RoutingStatus
<1>4. CASE s = "images"
  <2>1. Part(a, "images") = ImageBuildReadiness(a)
    BY Zenon DEF Part
  <2>2. FailuresOf("images") = {"FAIL"}
    BY DEF FailuresOf, FailScripts
  <2> QED BY <1>4, <2>1, <2>2 DEF Shows, ImageBuildReadiness, Shown, Unknown,
             ImageBuildStatus, Judged
<1>5. CASE s = "provenance"
  <2>1. Part(a, "provenance") = OwnedProvenanceReadiness(a)
    BY Zenon DEF Part
  <2>2. FailuresOf("provenance") = {"BLOCKED"}
    BY DEF FailuresOf, FailScripts, BlockedScripts
  <2> QED BY <1>5, <2>1, <2>2 DEF Shows, OwnedProvenanceReadiness, Shown,
             MissingOwnedProvenance, Unknown, OwnedProvenanceStatus, Judged
<1>6. CASE s = "external-plan"
  <2>1. Part(a, "external-plan") = ExternalPlanReadiness(a)
    BY Zenon DEF Part
  <2>2. FailuresOf("external-plan") = {"BLOCKED"}
    BY DEF FailuresOf, FailScripts, BlockedScripts
  <2> QED BY <1>6, <2>1, <2>2 DEF Shows, ExternalPlanReadiness, Shown, Unknown,
             ExternalPlanStatus, Judged
<1>7. CASE s = "review-packet"
  <2>1. Part(a, "review-packet") = ReviewPacketReadiness(a)
    BY Zenon DEF Part
  <2>2. FailuresOf("review-packet") = {"BLOCKED"}
    BY DEF FailuresOf, FailScripts, BlockedScripts
  <2> QED BY <1>7, <2>1, <2>2 DEF Shows, ReviewPacketReadiness, Shown,
             MissingReviewPacket, ReviewPacketStatus, Judged
<1>8. CASE s = "operator-package"
  <2>1. Part(a, "operator-package") = OperatorPackageReadiness(a)
    BY Zenon DEF Part
  <2>2. FailuresOf("operator-package") = {"FAIL"}
    BY DEF FailuresOf, FailScripts
  <2> QED BY <1>8, <2>1, <2>2 DEF Shows, OperatorPackageReadiness, Shown,
             MissingOperatorPackage, OperatorPackageStatus, Judged
<1>9. CASE s = "dry-run"
  <2>1. Part(a, "dry-run") = DryRunReadiness(a)
    BY Zenon DEF Part
  <2>2. FailuresOf("dry-run") = {"FAIL"}
    BY DEF FailuresOf, FailScripts
  <2> QED BY <1>9, <2>1, <2>2 DEF Shows, DryRunReadiness, Shown, Unknown,
             DryRunStatus, Judged
<1>10. CASE s = "operator-parity"
  <2>1. Part(a, "operator-parity") = RuntimeBoundaryReadiness(a)
    BY Zenon DEF Part
  <2>2. FailuresOf("operator-parity") = {"FAIL"}
    BY DEF FailuresOf, FailScripts
  <2> QED BY <1>10, <2>1, <2>2 DEF Shows, RuntimeBoundaryReadiness, Shown,
             Unknown, RuntimeBoundaryStatus, Judged
<1>11. CASE s = "env-contract"
  <2>1. Part(a, "env-contract") = EnvContractReadiness(a)
    BY Zenon DEF Part
  <2>2. FailuresOf("env-contract") = {"FAIL"}
    BY DEF FailuresOf, FailScripts
  <2> QED BY <1>11, <2>1, <2>2 DEF Shows, EnvContractReadiness, Shown, Unknown,
             EnvContractStatus
<1>12. CASE s = "connectivity"
  <2>1. Part(a, "connectivity") = ConnectivityReadiness(a)
    BY Zenon DEF Part
  <2>2. FailuresOf("connectivity") = {}
    BY DEF FailuresOf, FailScripts, BlockedScripts
  <2> QED BY <1>12, <2>1, <2>2 DEF Shows, ConnectivityReadiness, Shown,
             Unknown, ConnectivityStatus
<1>13. CASE s = "install-plan"
  <2>1. Part(a, "install-plan") = InstallPlanReadiness(a)
    BY Zenon DEF Part
  <2>2. FailuresOf("install-plan") = {"BLOCKED"}
    BY DEF FailuresOf, FailScripts, BlockedScripts
  <2> QED BY <1>13, <2>1, <2>2 DEF Shows, InstallPlanReadiness, Shown, Unknown,
             InstallPlanStatus, Judged
<1>14. CASE s = "release-plan"
  <2>1. Part(a, "release-plan") = ReleasePublishReadiness(a)
    BY Zenon DEF Part
  <2>2. FailuresOf("release-plan") = {"BLOCKED"}
    BY DEF FailuresOf, FailScripts, BlockedScripts
  <2> QED BY <1>14, <2>1, <2>2 DEF Shows, ReleasePublishReadiness, Shown,
             Unknown, ReleasePublishStatus, Judged
<1>15. CASE s = "community"
  <2>1. Part(a, "community") = CommunityReadiness(a)
    BY Zenon DEF Part
  <2>2. FailuresOf("community") = {"FAILED"}
    BY DEF FailuresOf, FailScripts, BlockedScripts
  <2> QED BY <1>15, <2>1, <2>2 DEF Shows, CommunityReadiness, Shown,
             MissingCommunity, Unknown, CommunityStatus
<1>16. CASE s = "certification"
  <2>1. Part(a, "certification") = CertificationReadiness(a)
    BY Zenon DEF Part
  <2>2. FailuresOf("certification") = {}
    BY DEF FailuresOf, FailScripts, BlockedScripts
  <2> QED BY <1>16, <2>1, <2>2 DEF Shows, CertificationReadiness, Shown,
             MissingCertification, Unknown, CertificationStatus, Judged
<1>17. CASE s = "catalog"
  <2>1. Part(a, "catalog") = CatalogReadiness(a)
    BY Zenon DEF Part
  <2>2. FailuresOf("catalog") = {"BLOCKED"}
    BY DEF FailuresOf, FailScripts, BlockedScripts
  <2> QED BY <1>17, <2>1, <2>2 DEF Shows, CatalogReadiness, Shown,
             MissingCatalogToolchain, Unknown, CatalogStatus, Judged
<1>18. CASE s = "lab-bootstrap"
  <2>1. Part(a, "lab-bootstrap") = LabBootstrapReadiness(a)
    BY Zenon DEF Part
  <2>2. FailuresOf("lab-bootstrap") = {}
    BY DEF FailuresOf, FailScripts, BlockedScripts
  <2> QED BY <1>18, <2>1, <2>2 DEF Shows, LabBootstrapReadiness, Shown,
             MissingLabBootstrap, Unknown
<1>19. CASE s = "lab-handoff"
  <2>1. Part(a, "lab-handoff") = LabHandoffReadiness(a)
    BY Zenon DEF Part
  <2>2. FailuresOf("lab-handoff") = {}
    BY DEF FailuresOf, FailScripts, BlockedScripts
  <2> QED BY <1>19, <2>1, <2>2 DEF Shows, LabHandoffReadiness, Shown,
             MissingLabHandoff, Unknown
<1>20. CASE s = "scan-plan"
  <2>1. Part(a, "scan-plan") = SecurityScanReadiness(a)
    BY Zenon DEF Part
  <2>2. FailuresOf("scan-plan") = {}
    BY DEF FailuresOf, FailScripts, BlockedScripts
  <2> QED BY <1>20, <2>1, <2>2 DEF Shows, SecurityScanReadiness, Shown,
             MissingSecurityScan, Unknown, SecurityScanStatus, Judged
<1>21. CASE s = "refresh"
  <2>1. Part(a, "refresh") = RefreshReadiness(a)
    BY Zenon DEF Part
  <2>2. FailuresOf("refresh") = {"BLOCKED"}
    BY DEF FailuresOf, FailScripts, BlockedScripts
  <2> QED BY <1>21, <2>1, <2>2 DEF Shows, RefreshReadiness, Shown,
             MissingRefresh, Unknown, RefreshStatus, Judged
<1>22. CASE s = "bundle"
  <2>1. Part(a, "bundle") = BundleReadiness(a)
    BY Zenon DEF Part
  <2>2. FailuresOf("bundle") = {}
    BY DEF FailuresOf, FailScripts, BlockedScripts
  <2> QED BY <1>22, <2>1, <2>2 DEF Shows, BundleReadiness, Shown,
             MissingBundle, Unknown, BundleStatus, Judged
<1>23. CASE s = "roadmap"
  <2>1. Part(a, "roadmap") = RoadmapCompletion(a)
    BY Zenon DEF Part
  <2>2. FailuresOf("roadmap") = {"BLOCKED"}
    BY DEF FailuresOf, FailScripts, BlockedScripts
  <2> QED BY <1>23, <2>1, <2>2 DEF Shows, RoadmapCompletion, Shown,
             MissingRoadmap, Unknown, RoadmapStatus
<1>24. CASE s = "completion"
  <2>1. Part(a, "completion") = CompletionGateSummary(a)
    BY Zenon DEF Part
  <2>2. FailuresOf("completion") = {"BLOCKED"}
    BY DEF FailuresOf, FailScripts, BlockedScripts
  <2> QED BY <1>24, <2>1, <2>2 DEF Shows, CompletionGateSummary, Shown,
             MissingCompletionGate, Unknown, CompletionGateStatus, ReadyIn
<1>25. CASE s = "pre-cluster"
  <2>1. Part(a, "pre-cluster") = PreClusterSummary(a)
    BY Zenon DEF Part
  <2>2. FailuresOf("pre-cluster") = {}
    BY DEF FailuresOf, FailScripts, BlockedScripts
  <2> QED BY <1>25, <2>1, <2>2 DEF Shows, PreClusterSummary, Shown,
             MissingPreCluster, Unknown, PreClusterStatus, ReadyIn
<1>26. CASE s = "queue"
  <2>1. Part(a, "queue") = ActionQueueReadiness(a)
    BY Zenon DEF Part
  <2>2. FailuresOf("queue") = {"BLOCKED"}
    BY DEF FailuresOf, FailScripts, BlockedScripts
  <2> QED BY <1>26, <2>1, <2>2 DEF Shows, ActionQueueReadiness, Shown,
             MissingActionQueue, Unknown, ActionQueueStatus, Judged
<1>27. CASE s = "rag-production"
  <2>1. Part(a, "rag-production") = RagProductionReadiness(a)
    BY Zenon DEF Part
  <2>2. FailuresOf("rag-production") = {"BLOCKED"}
    BY DEF FailuresOf, FailScripts, BlockedScripts
  <2> QED BY <1>27, <2>1, <2>2 DEF Shows, RagProductionReadiness, Shown,
             MissingRagProduction, Unknown, RagProductionStatus, Judged
<1>28. CASE s = "extension-point"
  <2>1. Part(a, "extension-point") = ExtensionPointReadiness(a)
    BY Zenon DEF Part
  <2>2. FailuresOf("extension-point") = {"FAIL"}
    BY DEF FailuresOf, FailScripts
  <2> QED BY <1>28, <2>1, <2>2 DEF Shows, ExtensionPointReadiness, Shown,
             MissingExtensionPoint, ExtensionPointStatus
<1>29. CASE s = "live-handoff"
  <2>1. Part(a, "live-handoff") = LiveHandoffReadiness(a)
    BY Zenon DEF Part
  <2>2. FailuresOf("live-handoff") = {}
    BY DEF FailuresOf, FailScripts, BlockedScripts
  <2> QED BY <1>29, <2>1, <2>2 DEF Shows, LiveHandoffReadiness, Shown,
             MissingLiveHandoff, Unknown, LiveHandoffStatus, ReadyIn
<1>30. CASE s = "network-handoff"
  <2>1. Part(a, "network-handoff") = NetworkHandoffReadiness(a)
    BY Zenon DEF Part
  <2>2. FailuresOf("network-handoff") = {"BLOCKED"}
    BY DEF FailuresOf, FailScripts, BlockedScripts
  <2> QED BY <1>30, <2>1, <2>2 DEF Shows, NetworkHandoffReadiness, Shown,
             MissingNetworkHandoff, Unknown, NetworkHandoffStatus, ReadyIn
<1>31. CASE s = "api-fallback"
  <2>1. Part(a, "api-fallback") = ApiFallbackReadiness(a)
    BY Zenon DEF Part
  <2>2. FailuresOf("api-fallback") = {"FAIL"}
    BY DEF FailuresOf, FailScripts
  <2> QED BY <1>31, <2>1, <2>2 DEF Shows, ApiFallbackReadiness, Shown,
             MissingApiFallback, Unknown, ApiFallbackStatus, ReadyIn
<1>32. CASE s = "auth-rbac"
  <2>1. Part(a, "auth-rbac") = AuthRbacReadiness(a)
    BY Zenon DEF Part
  <2>2. FailuresOf("auth-rbac") = {"BLOCKED"}
    BY DEF FailuresOf, FailScripts, BlockedScripts
  <2> QED BY <1>32, <2>1, <2>2 DEF Shows, AuthRbacReadiness, Shown,
             MissingAuthRbac, Unknown, AuthRbacStatus, ReadyIn
<1>33. CASE s = "checkpoint"
  <2>1. Part(a, "checkpoint") = CheckpointReadiness(a)
    BY Zenon DEF Part
  <2>2. FailuresOf("checkpoint") = {"BLOCKED"}
    BY DEF FailuresOf, FailScripts, BlockedScripts
  <2> QED BY <1>33, <2>1, <2>2 DEF Shows, CheckpointReadiness, Shown, Unknown,
             CheckpointStatus, ReadyIn
<1>34. CASE s = "aiops"
  <2>1. Part(a, "aiops") = AiopsReadiness(a)
    BY Zenon DEF Part
  <2>2. FailuresOf("aiops") = {"FAIL"}
    BY DEF FailuresOf, FailScripts
  <2> QED BY <1>34, <2>1, <2>2 DEF Shows, AiopsReadiness, Shown, Unknown, AiopsStatus
<1>35. CASE s = "integration"
  <2>1. Part(a, "integration") = IntegrationHandoff(a)
    BY Zenon DEF Part
  <2>2. FailuresOf("integration") = {"BLOCKED"}
    BY DEF FailuresOf, FailScripts, BlockedScripts
  <2> QED BY <1>35, <2>1, <2>2 DEF Shows, IntegrationHandoff, Shown,
             MissingIntegrationHandoff, IntegrationStatus
<1> QED BY <1>1, <1>2, <1>3, <1>4, <1>5, <1>6, <1>7, <1>8, <1>9, <1>10, <1>11,
           <1>12, <1>13, <1>14, <1>15, <1>16, <1>17, <1>18, <1>19, <1>20, <1>21, <1>22,
           <1>23, <1>24, <1>25, <1>26, <1>27, <1>28, <1>29, <1>30, <1>31, <1>32, <1>33,
           <1>34, <1>35 DEF Parts

\* Every script fails with a status of its own.
LEMMA VerdictFailures ==
    ASSUME NEW a, NEW s \in (Verified \cap Parts) \ {"certification"}, Failed(Verdict(a, s))
    PROVE  Verdict(a, s).status \in FailuresOf(s)
<1>1. CASE s = "lightspeed"
  <2>1. Verdict(a, "lightspeed") = Lightspeed
    BY Zenon DEF Verdict
  <2>2. FailuresOf("lightspeed") = {"FAIL"}
    BY DEF FailuresOf, FailScripts, BlockedScripts
  <2>3. Failed(Lightspeed) => Lightspeed.status \in {"FAIL"}
    BY DEF Failed, Lightspeed
  <2> QED BY <1>1, <2>1, <2>2, <2>3
<1>2. CASE s = "routing"
  <2>1. Verdict(a, "routing") = Routing
    BY Zenon DEF Verdict
  <2>2. FailuresOf("routing") = {"FAIL"}
    BY DEF FailuresOf, FailScripts, BlockedScripts
  <2>3. Failed(Routing) => Routing.status \in {"FAIL"}
    BY DEF Failed, Routing, Contract, Report
  <2> QED BY <1>2, <2>1, <2>2, <2>3
<1>3. CASE s = "trojan-horse"
  <2>1. Verdict(a, "trojan-horse") = TrojanHorse
    BY Zenon DEF Verdict
  <2>2. FailuresOf("trojan-horse") = {"FAIL"}
    BY DEF FailuresOf, FailScripts, BlockedScripts
  <2>3. Failed(TrojanHorse) => TrojanHorse.status \in {"FAIL"}
    BY DEF Failed, TrojanHorse, Contract, Report
  <2> QED BY <1>3, <2>1, <2>2, <2>3
<1>4. CASE s = "images"
  <2>1. Verdict(a, "images") = StaticImages(a)
    BY Zenon DEF Verdict
  <2>2. FailuresOf("images") = {"FAIL"}
    BY DEF FailuresOf, FailScripts, BlockedScripts
  <2>3. Failed(StaticImages(a)) => StaticImages(a).status \in {"FAIL"}
    BY DEF Failed, StaticImages, ImageReport
  <2> QED BY <1>4, <2>1, <2>2, <2>3
<1>5. CASE s = "provenance"
  <2>1. Verdict(a, "provenance") = Provenance(a)
    BY Zenon DEF Verdict
  <2>2. FailuresOf("provenance") = {"BLOCKED"}
    BY DEF FailuresOf, FailScripts, BlockedScripts
  <2>3. Failed(Provenance(a)) => Provenance(a).status \in {"BLOCKED"}
    BY DEF Failed, Provenance, Report
  <2> QED BY <1>5, <2>1, <2>2, <2>3
<1>6. CASE s = "external-plan"
  <2>1. Verdict(a, "external-plan") = ExternalPlan(a)
    BY Zenon DEF Verdict
  <2>2. FailuresOf("external-plan") = {"BLOCKED"}
    BY DEF FailuresOf, FailScripts, BlockedScripts
  <2>3. Failed(ExternalPlan(a)) => ExternalPlan(a).status \in {"BLOCKED"}
    BY DEF Failed, ExternalPlan
  <2> QED BY <1>6, <2>1, <2>2, <2>3
<1>7. CASE s = "review-packet"
  <2>1. Verdict(a, "review-packet") = ReviewPacket(a)
    BY Zenon DEF Verdict
  <2>2. FailuresOf("review-packet") = {"BLOCKED"}
    BY DEF FailuresOf, FailScripts, BlockedScripts
  <2>3. Failed(ReviewPacket(a)) => ReviewPacket(a).status \in {"BLOCKED"}
    BY DEF Failed, ReviewPacket
  <2> QED BY <1>7, <2>1, <2>2, <2>3
<1>8. CASE s = "operator-package"
  <2>1. Verdict(a, "operator-package") = OperatorPackage
    BY Zenon DEF Verdict
  <2>2. FailuresOf("operator-package") = {"FAIL"}
    BY DEF FailuresOf, FailScripts, BlockedScripts
  <2>3. Failed(OperatorPackage) => OperatorPackage.status \in {"FAIL"}
    BY DEF Failed, OperatorPackage, Contract, Report
  <2> QED BY <1>8, <2>1, <2>2, <2>3
<1>9. CASE s = "dry-run"
  <2>1. Verdict(a, "dry-run") = DryRun
    BY Zenon DEF Verdict
  <2>2. FailuresOf("dry-run") = {"FAIL"}
    BY DEF FailuresOf, FailScripts, BlockedScripts
  <2>3. Failed(DryRun) => DryRun.status \in {"FAIL"}
    BY DEF Failed, DryRun, Report
  <2> QED BY <1>9, <2>1, <2>2, <2>3
<1>10. CASE s = "operator-parity"
  <2>1. Verdict(a, "operator-parity") = OperatorParity
    BY Zenon DEF Verdict
  <2>2. FailuresOf("operator-parity") = {"FAIL"}
    BY DEF FailuresOf, FailScripts, BlockedScripts
  <2>3. Failed(OperatorParity) => OperatorParity.status \in {"FAIL"}
    BY DEF Failed, OperatorParity, Contract, Report
  <2> QED BY <1>10, <2>1, <2>2, <2>3
<1>11. CASE s = "env-contract"
  <2>1. Verdict(a, "env-contract") = EnvContract
    BY Zenon DEF Verdict
  <2>2. FailuresOf("env-contract") = {"FAIL"}
    BY DEF FailuresOf, FailScripts, BlockedScripts
  <2>3. Failed(EnvContract) => EnvContract.status \in {"FAIL"}
    BY DEF Failed, EnvContract
  <2> QED BY <1>11, <2>1, <2>2, <2>3
<1>12. CASE s = "connectivity"
  <2>1. Verdict(a, "connectivity") = Connectivity
    BY Zenon DEF Verdict
  <2>2. FailuresOf("connectivity") = {}
    BY DEF FailuresOf, FailScripts, BlockedScripts
  <2>3. Failed(Connectivity) => Connectivity.status \in {}
    BY DEF Failed, Connectivity
  <2> QED BY <1>12, <2>1, <2>2, <2>3
<1>13. CASE s = "install-plan"
  <2>1. Verdict(a, "install-plan") = InstallPlan(a)
    BY Zenon DEF Verdict
  <2>2. FailuresOf("install-plan") = {"BLOCKED"}
    BY DEF FailuresOf, FailScripts, BlockedScripts
  <2>3. Failed(InstallPlan(a)) => InstallPlan(a).status \in {"BLOCKED"}
    BY DEF Failed, InstallPlan, Report
  <2> QED BY <1>13, <2>1, <2>2, <2>3
<1>14. CASE s = "release-plan"
  <2>1. Verdict(a, "release-plan") = ReleasePlan(a)
    BY Zenon DEF Verdict
  <2>2. FailuresOf("release-plan") = {"BLOCKED"}
    BY DEF FailuresOf, FailScripts, BlockedScripts
  <2>3. Failed(ReleasePlan(a)) => ReleasePlan(a).status \in {"BLOCKED"}
    BY DEF Failed, ReleasePlan, Report
  <2> QED BY <1>14, <2>1, <2>2, <2>3
<1>15. CASE s = "community"
  <2>1. Verdict(a, "community") = Community
    BY Zenon DEF Verdict
  <2>2. FailuresOf("community") = {"FAILED"}
    BY DEF FailuresOf, FailScripts, BlockedScripts
  <2>3. Failed(Community) => Community.status \in {"FAILED"}
    BY DEF Failed, Community, Report
  <2> QED BY <1>15, <2>1, <2>2, <2>3
<1>16. CASE s = "catalog"
  <2>1. Verdict(a, "catalog") = CatalogToolchain
    BY Zenon DEF Verdict
  <2>2. FailuresOf("catalog") = {"BLOCKED"}
    BY DEF FailuresOf, FailScripts, BlockedScripts
  <2>3. Failed(CatalogToolchain) => CatalogToolchain.status \in {"BLOCKED"}
    BY DEF Failed, CatalogToolchain
  <2> QED BY <1>16, <2>1, <2>2, <2>3
<1>17. CASE s = "lab-bootstrap"
  <2>1. Verdict(a, "lab-bootstrap") = LabBootstrap(a)
    BY Zenon DEF Verdict
  <2>2. FailuresOf("lab-bootstrap") = {}
    BY DEF FailuresOf, FailScripts, BlockedScripts
  <2>3. Failed(LabBootstrap(a)) => LabBootstrap(a).status \in {}
    BY DEF Failed, LabBootstrap, Report
  <2> QED BY <1>17, <2>1, <2>2, <2>3
<1>18. CASE s = "lab-handoff"
  <2>1. Verdict(a, "lab-handoff") = LabHandoff(a)
    BY Zenon DEF Verdict
  <2>2. FailuresOf("lab-handoff") = {}
    BY DEF FailuresOf, FailScripts, BlockedScripts
  <2>3. Failed(LabHandoff(a)) => LabHandoff(a).status \in {}
    BY DEF Failed, LabHandoff, Report
  <2> QED BY <1>18, <2>1, <2>2, <2>3
<1>19. CASE s = "scan-plan"
  <2>1. Verdict(a, "scan-plan") = ScanPlan(a)
    BY Zenon DEF Verdict
  <2>2. FailuresOf("scan-plan") = {}
    BY DEF FailuresOf, FailScripts, BlockedScripts
  <2>3. Failed(ScanPlan(a)) => ScanPlan(a).status \in {}
    BY DEF Failed, ScanPlan
  <2> QED BY <1>19, <2>1, <2>2, <2>3
<1>20. CASE s = "bundle"
  <2>1. Verdict(a, "bundle") = Bundle(a)
    BY Zenon DEF Verdict
  <2>2. FailuresOf("bundle") = {}
    BY DEF FailuresOf, FailScripts, BlockedScripts
  <2>3. Failed(Bundle(a)) => Bundle(a).status \in {}
    BY DEF Failed, Bundle
  <2> QED BY <1>20, <2>1, <2>2, <2>3
<1>21. CASE s = "roadmap"
  <2>1. Verdict(a, "roadmap") = Roadmap(a)
    BY Zenon DEF Verdict
  <2>2. FailuresOf("roadmap") = {"BLOCKED"}
    BY DEF FailuresOf, FailScripts, BlockedScripts
  <2>3. Failed(Roadmap(a)) => Roadmap(a).status \in {"BLOCKED"}
    BY DEF Failed, Roadmap
  <2> QED BY <1>21, <2>1, <2>2, <2>3
<1>22. CASE s = "completion"
  <2>1. Verdict(a, "completion") = CompletionGate(a)
    BY Zenon DEF Verdict
  <2>2. FailuresOf("completion") = {"BLOCKED"}
    BY DEF FailuresOf, FailScripts, BlockedScripts
  <2>3. Failed(CompletionGate(a)) => CompletionGate(a).status \in {"BLOCKED"}
    BY DEF Failed, CompletionGate, Report
  <2> QED BY <1>22, <2>1, <2>2, <2>3
<1>23. CASE s = "pre-cluster"
  <2>1. Verdict(a, "pre-cluster") = PreClusterGate(a)
    BY Zenon DEF Verdict
  <2>2. FailuresOf("pre-cluster") = {}
    BY DEF FailuresOf, FailScripts, BlockedScripts
  <2>3. Failed(PreClusterGate(a)) => PreClusterGate(a).status \in {}
    BY DEF Failed, PreClusterGate, Report
  <2> QED BY <1>23, <2>1, <2>2, <2>3
<1>24. CASE s = "queue"
  <2>1. Verdict(a, "queue") = ActionQueue(a)
    BY Zenon DEF Verdict
  <2>2. FailuresOf("queue") = {"BLOCKED"}
    BY DEF FailuresOf, FailScripts, BlockedScripts
  <2>3. Failed(ActionQueue(a)) => ActionQueue(a).status \in {"BLOCKED"}
    BY DEF Failed, ActionQueue
  <2> QED BY <1>24, <2>1, <2>2, <2>3
<1>25. CASE s = "rag-production"
  <2>1. Verdict(a, "rag-production") = RagProduction
    BY Zenon DEF Verdict
  <2>2. FailuresOf("rag-production") = {"BLOCKED"}
    BY DEF FailuresOf, FailScripts, BlockedScripts
  <2>3. Failed(RagProduction) => RagProduction.status \in {"BLOCKED"}
    BY DEF Failed, RagProduction, Report
  <2> QED BY <1>25, <2>1, <2>2, <2>3
<1>26. CASE s = "extension-point"
  <2>1. Verdict(a, "extension-point") = ExtensionPoint
    BY Zenon DEF Verdict
  <2>2. FailuresOf("extension-point") = {"FAIL"}
    BY DEF FailuresOf, FailScripts, BlockedScripts
  <2>3. Failed(ExtensionPoint) => ExtensionPoint.status \in {"FAIL"}
    BY DEF Failed, ExtensionPoint, Report
  <2> QED BY <1>26, <2>1, <2>2, <2>3
<1>27. CASE s = "live-handoff"
  <2>1. Verdict(a, "live-handoff") = LiveHandoff(a)
    BY Zenon DEF Verdict
  <2>2. FailuresOf("live-handoff") = {}
    BY DEF FailuresOf, FailScripts, BlockedScripts
  <2>3. Failed(LiveHandoff(a)) => LiveHandoff(a).status \in {}
    BY DEF Failed, LiveHandoff, Report
  <2> QED BY <1>27, <2>1, <2>2, <2>3
<1>28. CASE s = "network-handoff"
  <2>1. Verdict(a, "network-handoff") = NetworkHandoff(a)
    BY Zenon DEF Verdict
  <2>2. FailuresOf("network-handoff") = {"BLOCKED"}
    BY DEF FailuresOf, FailScripts, BlockedScripts
  <2>3. Failed(NetworkHandoff(a)) => NetworkHandoff(a).status \in {"BLOCKED"}
    BY DEF Failed, NetworkHandoff
  <2> QED BY <1>28, <2>1, <2>2, <2>3
<1>29. CASE s = "api-fallback"
  <2>1. Verdict(a, "api-fallback") = ApiFallback
    BY Zenon DEF Verdict
  <2>2. FailuresOf("api-fallback") = {"FAIL"}
    BY DEF FailuresOf, FailScripts, BlockedScripts
  <2>3. Failed(ApiFallback) => ApiFallback.status \in {"FAIL"}
    BY DEF Failed, ApiFallback, Report
  <2> QED BY <1>29, <2>1, <2>2, <2>3
<1>30. CASE s = "auth-rbac"
  <2>1. Verdict(a, "auth-rbac") = AuthRbac(a)
    BY Zenon DEF Verdict
  <2>2. FailuresOf("auth-rbac") = {"BLOCKED"}
    BY DEF FailuresOf, FailScripts, BlockedScripts
  <2>3. Failed(AuthRbac(a)) => AuthRbac(a).status \in {"BLOCKED"}
    BY DEF Failed, AuthRbac
  <2> QED BY <1>30, <2>1, <2>2, <2>3
<1>31. CASE s = "checkpoint"
  <2>1. Verdict(a, "checkpoint") = Checkpoint(a)
    BY Zenon DEF Verdict
  <2>2. FailuresOf("checkpoint") = {"BLOCKED"}
    BY DEF FailuresOf, FailScripts, BlockedScripts
  <2>3. Failed(Checkpoint(a)) => Checkpoint(a).status \in {"BLOCKED"}
    BY DEF Failed, Checkpoint
  <2> QED BY <1>31, <2>1, <2>2, <2>3
<1>32. CASE s = "aiops"
  <2>1. Verdict(a, "aiops") = Aiops
    BY Zenon DEF Verdict
  <2>2. FailuresOf("aiops") = {"FAIL"}
    BY DEF FailuresOf, FailScripts, BlockedScripts
  <2>3. Failed(Aiops) => Aiops.status \in {"FAIL"}
    BY DEF Failed, Aiops
  <2> QED BY <1>32, <2>1, <2>2, <2>3
<1>33. CASE s = "integration"
  <2>1. Verdict(a, "integration") = Integration(a)
    BY Zenon DEF Verdict
  <2>2. FailuresOf("integration") = {"BLOCKED"}
    BY DEF FailuresOf, FailScripts, BlockedScripts
  <2>3. Failed(Integration(a)) => Integration(a).status \in {"BLOCKED"}
    BY DEF Failed, Integration, Report
  <2> QED BY <1>33, <2>1, <2>2, <2>3
<1> QED BY <1>1, <1>2, <1>3, <1>4, <1>5, <1>6, <1>7, <1>8, <1>9, <1>10, <1>11,
           <1>12, <1>13, <1>14, <1>15, <1>16, <1>17, <1>18, <1>19, <1>20, <1>21, <1>22,
           <1>23, <1>24, <1>25, <1>26, <1>27, <1>28, <1>29, <1>30, <1>31, <1>32, <1>33 DEF
           Parts, Verified

FInv ==
    \A s \in Parts \ {"certification"} :
        Exists(artifacts, s) /\ Failed(artifacts[s]) => artifacts[s].status \in FailuresOf(s)

\* How scripts fail is kept.
LEMMA FailuresStay == ASSUME TInv, FInv, [Next]_vars PROVE FInv'
<1> DEFINE Known(s) == Exists(artifacts', s) /\ Failed(artifacts'[s])
                         => artifacts'[s].status \in FailuresOf(s)
<1> SUFFICES ASSUME NEW s \in Parts \ {"certification"} PROVE Known(s)
  BY DEF FInv
<1>1. DOMAIN artifacts = Scripts /\ s \in Scripts
  BY DEF TInv, TypeOK, Parts, Scripts, Lanes, PassLanes, OtherLanes
<1>2. CASE artifacts'[s] = artifacts[s]
  BY <1>2 DEF FInv, Exists
<1>3. CASE Rewrites
  <2>1. PICK t \in Verified : artifacts' = Written(artifacts, t)
    BY <1>3 DEF Rewrites
  <2>2. artifacts'[s] = artifacts[s] \/ (t = s /\ artifacts'[s] = Verdict(artifacts, s))
    BY <1>1, <2>1 DEF Written
  <2> QED BY <1>2, <2>2, VerdictFailures
<1>4. CASE Rereads
  <2>1. /\ artifacts'["connectivity"] = Connectivity /\ artifacts'["lightspeed"] = Lightspeed
        /\ \A t \in Scripts \ {"connectivity", "lightspeed", "live-reader"} :
              artifacts'[t] = artifacts[t]
    BY <1>1, <1>4, LiveReaderWrites DEF Rereads
  <2>2. s # "live-reader"
    BY DEF Parts
  <2>3. Verdict(artifacts, "connectivity") = Connectivity
    BY Zenon DEF Verdict
  <2>4. Verdict(artifacts, "lightspeed") = Lightspeed
    BY Zenon DEF Verdict
  <2>5. {"connectivity", "lightspeed"} \subseteq (Verified \cap Parts) \ {"certification"}
    BY DEF Verified, Scripts, Lanes, PassLanes, OtherLanes, Parts
  <2>6. CASE s \in {"connectivity", "lightspeed"}
    BY <2>1, <2>3, <2>4, <2>5, <2>6, VerdictFailures
  <2>7. CASE s \notin {"connectivity", "lightspeed"}
    BY <1>1, <1>2, <2>1, <2>2, <2>7
  <2> QED BY <2>6, <2>7
<1>5. CASE Builds
  <2>1. \/ artifacts'[s] = artifacts[s]
        \/ s = "images" /\ artifacts'["images"].status \in {"PASS", "FAIL"}
    BY <1>1, <1>5 DEF Builds, NoDockerImages, ImageReport
  <2>2. FailuresOf("images") = {"FAIL"}
    BY DEF FailuresOf, FailScripts
  <2> QED BY <1>2, <2>1, <2>2 DEF Failed
<1>6. CASE Reports
  <2>1. \/ artifacts'[s] = artifacts[s]
        \/ s = "refresh" /\ artifacts'["refresh"] = RefreshReport
    BY <1>1, <1>6 DEF Reports
  <2>2. FailuresOf("refresh") = {"BLOCKED"}
    BY DEF FailuresOf, FailScripts, BlockedScripts
  <2>3. Failed(RefreshReport) => RefreshReport.status = "BLOCKED"
    BY DEF RefreshReport, Failed
  <2> QED BY <1>2, <2>1, <2>2, <2>3
<1>7. CASE Unwritten \/ Scans \/ Gates
  <2>1. s \notin {"scan-runner", "mvp-gate"}
    BY DEF Parts
  <2> QED BY <1>1, <1>2, <1>7, <2>1 DEF Unwritten, Scans, Gates
<1> QED BY <1>3, <1>4, <1>5, <1>6, <1>7, Writes

\* It holds at first.
LEMMA FailuresStart == ASSUME Init PROVE FInv
<1>1. \A s \in Scripts : ~Exists(artifacts, s)
  BY DEF Init, Exists
<1> QED BY <1>1 DEF FInv, Parts, Scripts, Lanes, PassLanes, OtherLanes

\* Every failure is shown.
LEMMA OverviewShowsFailures == ASSUME FInv PROVE FailuresShown
<1> SUFFICES ASSUME NEW torn \in {{}, BeingWritten},
                    NEW s \in ({t \in Scripts \ {"certification"} :
                                   Exists(artifacts, t) /\ Failed(artifacts[t])}
                               \cup torn) \cap Parts
             PROVE  LET overview == Overview(ReadWhile(artifacts, torn))
                    IN  /\ overview[s].status \in {"failed", "blocked"}
                        /\ s \in torn \ {"review-packet"} => overview[s].found # "missing"
  BY Zenon DEF FailuresShown
<1> DEFINE b == ReadWhile(artifacts, torn)
<1>1. s \in Scripts
  BY DEF Parts, Scripts, Lanes, PassLanes, OtherLanes
<1>2. b[s] = IF s \in torn THEN Torn ELSE artifacts[s]
  BY <1>1 DEF ReadWhile
<1> HIDE DEF b
<1>3. Overview(b)[s] = Part(b, s)
  BY DEF Overview
<1>4. CASE s \in torn
  BY <1>2, <1>3, <1>4, FailureIsShown DEF Shows, b
<1>5. CASE s \notin torn
  <2>1. b[s] = artifacts[s] /\ Exists(artifacts, s) /\ artifacts[s].status \in FailuresOf(s)
    BY <1>2, <1>5 DEF FInv
  <2>2. Exists(b, s) /\ b[s].status \in FailuresOf(s)
    BY <2>1 DEF Exists
  <2> QED BY <1>3, <1>5, <2>2, FailureIsShown DEF Shows, b
<1> QED BY <1>4, <1>5

(* Whatever a request of the overview meets, a script that failed and an    *)
(* artifact that is being written are shown as failed or blocked.           *)
THEOREM FailuresAlwaysShown == Spec => []FailuresShown
<1>1. Init => TInv /\ FInv
  BY TypesStart, FailuresStart
<1>2. TInv /\ FInv /\ [Next]_vars => (TInv /\ FInv)'
  BY TypesStay, FailuresStay
<1>3. FInv => FailuresShown
  BY OverviewShowsFailures
<1> QED BY <1>1, <1>2, <1>3, PTL DEF Spec

-----------------------------------------------------------------------------
(* What the overview says rests on claims. *)

\* What is shown as favourable was claimed, with what it rests on.
LEMMA OverviewRestsOnClaims == ASSUME CInv, GInv PROVE OverviewRests
<1> SUFFICES ASSUME NEW c \in Claims \cap Parts,
                    Overview(artifacts)[c].status \in Favourable,
                    NEW d \in (IF c = "roadmap" /\ artifacts[c].dirty THEN {} ELSE {c})
                                 \cup RestsOn(c)
             PROVE  <<d, artifacts[c].head>> \in good
  BY Zenon DEF OverviewRests
<1>1. Part(artifacts, c).status \in Favourable
  BY DEF Overview
<1>2. StatusIs(artifacts, c, ClaimStatus(c))
  BY <1>1, FavourableClaims
<1>3. CASE artifacts[c].dirty
  <2>1. c # "completion"
    BY <1>2, StatusOfClaims DEF GInv, GatesStayClosed
  <2>2. c \notin {"connectivity", "community", "checkpoint"}
    BY <1>2, <1>3, StatusOfClaims DEF CInv, PassIsClean
  <2>3. c = "roadmap"
    BY <1>1, <1>3, <2>1, <2>2, FavourableClaims
  <2>4. d \in RestsOn("roadmap") /\ StatusIs(artifacts, "roadmap", "PASS")
    BY <1>2, <1>3, <2>3, StatusOfClaims
  <2> QED BY <2>3, <2>4 DEF CInv, RoadmapKnows
<1>4. CASE ~artifacts[c].dirty
  <2>1. c # "builds" /\ ScriptOf(c) = c
    BY DEF Parts, ScriptOf
  <2>2. Makes(artifacts, c)
    BY <1>2, <1>4, <2>1 DEF Makes
  <2>3. <<c, artifacts[c].head>> \in good
    BY <2>1, <2>2, ClaimedIs DEF CInv
  <2>4. \A g \in good : \A e \in RestsOn(g[1]) : <<e, g[2]>> \in good
    BY DEF CInv, ClaimsRest
  <2> QED BY <2>3, <2>4
<1> QED BY <1>3, <1>4

(* What the overview shows as ready or as ready to be approved was claimed  *)
(* of a commit, with everything it rests on; only a roadmap may be shown so *)
(* that was written in an edited worktree, and what it rests on was claimed *)
(* all the same.                                                            *)
THEOREM OverviewAlwaysRests == Spec => []OverviewRests
<1>1. Init => TInv /\ CInv /\ GInv
  BY TypesStart, ClaimsStart, GatesStart
<1>2. TInv /\ CInv /\ GInv /\ [Next]_vars => (TInv /\ CInv /\ GInv)'
  BY TypesStay, ClaimsStay, GatesStay
<1>3. CInv /\ GInv => OverviewRests
  BY OverviewRestsOnClaims
<1> QED BY <1>1, <1>2, <1>3, PTL DEF Spec
=============================================================================
