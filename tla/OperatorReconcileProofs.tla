----------------------- MODULE OperatorReconcileProofs -----------------------
(***************************************************************************)
(* What the reconciler of the operator keeps true for every set of specs,   *)
(* however users, failures and reconciles interleave; last, that the        *)
(* planner and the controller agree: what verify-operator-runtime-parity    *)
(* compares by looking for words in the Go source, for every specification  *)
(* and every OLSConfig.                                                     *)
(***************************************************************************)
EXTENDS LightspeedPlan, TLAPS

LEMMA Stages ==
    /\ DOMAIN ObjectOrder = 1..14
    /\ ReadStage = 15 /\ PatchStage = 16 /\ StatusStage = 17
  BY DEF ObjectOrder, ReadStage, PatchStage, StatusStage

LEMMA ObjectOfStage == \A k \in DOMAIN ObjectOrder : ObjectOrder[k] \in Objects
  BY DEF Objects

LEMMA NamedObjects == {"PostgresAuthSecret", "VectorStore", "APIDeployment", "ConsolePlugin"} \subseteq Objects
<1>1. ObjectOrder[3] = "PostgresAuthSecret" /\ ObjectOrder[10] = "VectorStore"
      /\ ObjectOrder[4] = "APIDeployment" /\ ObjectOrder[14] = "ConsolePlugin"
  BY DEF ObjectOrder
<1>2. {3, 10, 4, 14} \subseteq DOMAIN ObjectOrder
  BY Stages
<1> QED
  BY <1>1, <1>2, ObjectOfStage
-----------------------------------------------------------------------------
WorkType == {NoWork} \cup [stage : (1..StatusStage) \ {PatchStage}, seen : Installation]
            \cup [stage : {PatchStage}, seen : Installation, read : OLSConfig]

LEMMA WorkTyped == TypeOK => work \in WorkType
  BY DEF TypeOK, WorkType

LEMMA AtObjectShape ==
  ASSUME TypeOK, AtObject
  PROVE  /\ work.stage \in 1..14
         /\ work \in [stage : (1..StatusStage) \ {PatchStage}, seen : Installation]
  BY Stages DEF TypeOK, AtObject, NoWork

LEMMA AdvanceObject ==
  ASSUME TypeOK, AtObject, Advance(work.stage + 1)
  PROVE  work' \in WorkType /\ work'.seen = work.seen /\ work'.stage # PatchStage
  BY Stages, AtObjectShape DEF Advance, WorkType

LEMMA AtReadShape ==
  ASSUME TypeOK, work.stage = ReadStage
  PROVE  work \in [stage : (1..StatusStage) \ {PatchStage}, seen : Installation]
  BY Stages DEF TypeOK, NoWork

LEMMA AdvanceRead ==
  ASSUME TypeOK, work.stage = ReadStage, Advance(StatusStage)
  PROVE  work' \in WorkType /\ work'.seen = work.seen /\ work'.stage # PatchStage
  BY Stages, AtReadShape DEF Advance, WorkType

LEMMA AtPatchShape ==
  ASSUME TypeOK, work.stage = PatchStage
  PROVE  work \in [stage : {PatchStage}, seen : Installation, read : OLSConfig]
  BY Stages DEF TypeOK, NoWork

LEMMA AbortType == Abort => work' \in WorkType /\ queued' \in BOOLEAN
  BY DEF Abort, WorkType

LEMMA EntryType == \A s \in InstallSpecs : Entry(s) \in Entries
  BY InstallSpecsType DEF Entry, Entries, InstallSpec

LEMMA ForeignApart == ForeignServers \cap Entries = {}
  BY ForeignNames DEF Entries

LEMMA MergedType ==
  ASSUME NEW now \in OLSConfig, NEW read \in OLSConfig, NEW s \in InstallSpecs
  PROVE  Merged(now, read, s) \in OLSConfig
<1>1. Upsert(read.servers, Entry(s)) \in SUBSET (ForeignServers \cup Entries)
  BY EntryType DEF Upsert, OLSConfig
<1>2. read.gates \cup {"MCPServer"} \in SUBSET Gates
  BY DEF OLSConfig, Gates
<1> QED
  BY <1>1, <1>2 DEF Merged, OLSConfig

LEMMA ContentType ==
  ASSUME TypeOK, NEW o \in Objects, NEW s \in InstallSpecs
  PROVE  /\ Content(o, s) \in Contents
         /\ o = "PostgresAuthSecret" =>
               \/ cluster[o] = Absent /\ Content(o, s) = [password |-> secrets + 1]
               \/ cluster[o] # Absent /\ Content(o, s) \in [password : 1..secrets]
<1>1. CASE o = "PostgresAuthSecret"
  <2>1. secrets \in Nat /\ [password : 1..secrets] \subseteq [password : Nat]
    BY DEF TypeOK
  <2>2. [password : Nat] \subseteq Contents
    BY DEF Contents
  <2>3. CASE cluster[o] = Absent
    <3>1. Content(o, s) = [password |-> secrets + 1]
      BY <1>1, <2>3 DEF Content
    <3>2. [password |-> secrets + 1] \in [password : Nat]
      BY <2>1
    <3> QED
      BY <1>1, <2>2, <2>3, <3>1, <3>2
  <2>4. CASE cluster[o] # Absent
    <3>1. Content(o, s) = cluster[o].content
      BY <1>1, <2>4 DEF Content
    <3>2. cluster[o].content \in [password : 1..secrets]
      BY <1>1, <2>4 DEF TypeOK
    <3> QED
      BY <1>1, <2>1, <2>2, <2>4, <3>1, <3>2
  <2> QED
    BY <2>3, <2>4
<1>2. CASE o # "PostgresAuthSecret"
  <2>1. s.size \in Sizes /\ s.provider \in {"pgvector", "inmemory"}
        /\ s.model \in {"vllm", "external", "mock-local"}
    BY InstallSpecsType DEF InstallSpec
  <2> QED
    BY <1>2, <2>1 DEF Content, Contents
<1> QED
  BY <1>1, <1>2
-----------------------------------------------------------------------------
LEMMA TypeInit == Init => TypeOK
<1> SUFFICES ASSUME Init PROVE TypeOK
  OBVIOUS
<1>1. cluster \in [Objects -> Object \cup {Absent}] /\ cluster["PostgresAuthSecret"] = Absent
  BY NamedObjects DEF Init
<1>2. ols \in OLSConfig \cup {NoOLS}
  BY DEF Init, OLSConfig, Gates
<1>3. work \in WorkType
  BY DEF Init, WorkType
<1>4. upsets \in 0..MaxUpsets /\ volume \in 0..secrets /\ rev \in Nat /\ secrets \in Nat
  BY MaxUpsetsType DEF Init
<1>5. /\ inst = NoInst /\ status = NoStatus /\ queued \in BOOLEAN
      /\ asked \subseteq Entries /\ lost \subseteq Losses
      /\ sameNamespace \in BOOLEAN
  BY SettingsType DEF Init
<1> QED
  BY <1>1, <1>2, <1>3, <1>4, <1>5 DEF TypeOK, WorkType

LEMMA WriteType ==
  ASSUME TypeOK, WriteObject
  PROVE  /\ cluster' \in [Objects -> Object \cup {Absent}]
         /\ secrets' \in Nat /\ volume' \in 0..secrets'
         /\ cluster'["PostgresAuthSecret"] # Absent
               => cluster'["PostgresAuthSecret"].content \in [password : 1..secrets']
<1> DEFINE o == ObjectOrder[work.stage]
           s == work.seen.spec
           new == [content |-> Content(o, s), owner |-> OwnerOf(o, work.seen)]
<1>1. o \in Objects /\ work.seen \in Installation /\ s \in InstallSpecs
  BY AtObjectShape, Stages, ObjectOfStage DEF WriteObject, Installation
<1>2. cluster' = [cluster EXCEPT ![o] = new] /\ volume' = volume
  BY DEF WriteObject
<1>3. secrets' = IF o = "PostgresAuthSecret" /\ cluster[o] = Absent THEN secrets + 1 ELSE secrets
  BY DEF WriteObject
<1>4. OwnerOf(o, work.seen) \in Nat
  BY <1>1 DEF OwnerOf, Installation
<1>5. /\ Content(o, s) \in Contents
      /\ o = "PostgresAuthSecret" =>
            \/ cluster[o] = Absent /\ Content(o, s) = [password |-> secrets + 1]
            \/ cluster[o] # Absent /\ Content(o, s) \in [password : 1..secrets]
  BY <1>1, ContentType
<1>6. new \in Object
  BY <1>4, <1>5 DEF Object
<1> HIDE DEF o, s
<1>7. cluster' \in [Objects -> Object \cup {Absent}]
  BY <1>1, <1>2, <1>6 DEF TypeOK
<1>8. secrets \in Nat /\ secrets' \in Nat /\ secrets' \in {secrets, secrets + 1} /\ volume' \in 0..secrets'
  BY <1>2, <1>3 DEF TypeOK
<1>9. CASE o = "PostgresAuthSecret"
  <2>1. cluster'["PostgresAuthSecret"].content = Content(o, s)
    BY <1>2, <1>9, NamedObjects DEF TypeOK
  <2>2. Content(o, s) \in [password : 1..secrets']
    BY <1>3, <1>5, <1>8, <1>9
  <2> QED
    BY <1>7, <1>8, <2>1, <2>2
<1>10. CASE o # "PostgresAuthSecret"
  <2>1. cluster'["PostgresAuthSecret"] = cluster["PostgresAuthSecret"] /\ secrets' = secrets
    BY <1>2, <1>3, <1>10, NamedObjects DEF TypeOK
  <2> QED
    BY <1>7, <1>8, <2>1 DEF TypeOK
<1> QED
  BY <1>9, <1>10

LEMMA LostType ==
  ASSUME TypeOK, NEW o, NEW how \in Losses, Lost(o, how)
  PROVE  lost' \subseteq Losses
  BY DEF Lost, TypeOK

LEMMA LossNames == {"by hand", "collected"} \subseteq Losses
  BY DEF Losses

\* What somebody makes of an object by hand.
Handmade == [fixed : {"by hand"}] \cup [password : 1..secrets + 1]

LEMMA HandmadeContents == TypeOK => Handmade \subseteq Contents
<1>1. TypeOK => [password : 1..secrets + 1] \subseteq [password : Nat]
  BY DEF TypeOK
<1>2. [fixed : {"by hand"}] \subseteq [fixed : {"by the code", "by hand"}]
  OBVIOUS
<1> QED
  BY <1>1, <1>2 DEF Handmade, Contents

\* A drift deletes the object, or replaces its content; a password counts as made.
LEMMA DriftShape ==
  ASSUME TypeOK, NEW o, Drift(o)
  PROVE  /\ secrets' \in {secrets, secrets + 1}
         /\ \/ cluster' = [cluster EXCEPT ![o] = Absent]
            \/ \E c \in Handmade :
                  /\ cluster' = [cluster EXCEPT ![o].content = c]
                  /\ o = "PostgresAuthSecret" => c \in [password : 1..secrets']
<1>1. secrets \in Nat
  BY DEF TypeOK
<1>2. CASE cluster' = [cluster EXCEPT ![o] = Absent] /\ secrets' = secrets
  BY <1>2
<1>3. CASE /\ o # "PostgresAuthSecret" /\ secrets' = secrets
           /\ cluster' = [cluster EXCEPT ![o].content = [fixed |-> "by hand"]]
  <2>1. [fixed |-> "by hand"] \in Handmade
    BY DEF Handmade
  <2> QED
    BY <1>3, <2>1
<1>4. ASSUME NEW p \in 1..secrets + 1,
             cluster' = [cluster EXCEPT ![o].content = [password |-> p]],
             secrets' = IF p > secrets THEN p ELSE secrets
      PROVE  /\ secrets' \in {secrets, secrets + 1}
             /\ \E c \in Handmade :
                  /\ cluster' = [cluster EXCEPT ![o].content = c]
                  /\ o = "PostgresAuthSecret" => c \in [password : 1..secrets']
  <2>1. secrets' \in {secrets, secrets + 1} /\ p \in 1..secrets'
    BY <1>1, <1>4
  <2>2. [password |-> p] \in Handmade /\ [password |-> p] \in [password : 1..secrets']
    BY <2>1 DEF Handmade
  <2> QED
    BY <1>4, <2>1, <2>2
<1> QED
  BY <1>2, <1>3, <1>4 DEF Drift

LEMMA DriftType ==
  ASSUME TypeOK, NEW o, Drift(o), sameNamespace' = sameNamespace
  PROVE  TypeOK'
<1>1. secrets \in Nat /\ secrets' \in Nat /\ secrets <= secrets'
  BY DriftShape DEF TypeOK
<1>d. /\ UNCHANGED <<inst, status, volume, ols, work, rev, asked>>
      /\ Upset /\ queued' = (queued \/ Watched(o))
  BY DEF Drift
<1>a. volume' \in 0..secrets'
  BY <1>1, <1>d DEF TypeOK
<1>b. lost' \subseteq Losses
  BY LostType, LossNames DEF Drift
<1>c. upsets' \in 0..MaxUpsets /\ queued' \in BOOLEAN
  BY <1>d, MaxUpsetsType DEF Upset, TypeOK
<1>2. CASE cluster' = [cluster EXCEPT ![o] = Absent]
  <2>1. /\ cluster' \in [Objects -> Object \cup {Absent}]
        /\ cluster'["PostgresAuthSecret"] \in {Absent, cluster["PostgresAuthSecret"]}
    BY <1>2, NamedObjects DEF TypeOK
  <2>2. cluster'["PostgresAuthSecret"] # Absent
           => cluster'["PostgresAuthSecret"].content \in [password : 1..secrets']
    BY <1>1, <2>1 DEF TypeOK
  <2> QED
    BY <1>1, <1>a, <1>b, <1>c, <1>d, <2>1, <2>2 DEF TypeOK, Installation
<1>3. ASSUME NEW c \in Handmade, cluster' = [cluster EXCEPT ![o].content = c],
             o = "PostgresAuthSecret" => c \in [password : 1..secrets']
      PROVE  TypeOK'
  <2>1. c \in Contents /\ cluster[o] # Absent
    BY HandmadeContents DEF Drift
  <2>2. o \in Objects => cluster[o] \in Object /\ [cluster[o] EXCEPT !.content = c] \in Object
    BY <2>1 DEF Object, TypeOK
  <2>3. cluster' \in [Objects -> Object \cup {Absent}]
    BY <1>3, <2>2 DEF TypeOK
  <2>4. cluster'["PostgresAuthSecret"] # Absent
           => cluster'["PostgresAuthSecret"].content \in [password : 1..secrets']
    <3>1. CASE o = "PostgresAuthSecret"
      <4>1. cluster'[o].content = c
        BY <1>3, <2>2, <3>1, NamedObjects DEF Object, TypeOK
      <4> QED
        BY <1>3, <3>1, <4>1
    <3>2. CASE o # "PostgresAuthSecret"
      <4>1. cluster'["PostgresAuthSecret"] = cluster["PostgresAuthSecret"]
        BY <1>3, <3>2, NamedObjects DEF TypeOK
      <4> QED
        BY <1>1, <4>1 DEF TypeOK
    <3> QED
      BY <3>1, <3>2
  <2> QED
    BY <1>1, <1>a, <1>b, <1>c, <1>d, <2>3, <2>4 DEF TypeOK, Installation
<1> QED
  BY <1>2, <1>3, DriftShape

LEMMA TypeStep == TypeOK /\ [Next]_vars => TypeOK'
<1> SUFFICES ASSUME TypeOK, [Next]_vars PROVE TypeOK'
  OBVIOUS
<1>0. sameNamespace' = sameNamespace
  BY DEF Next, vars
<1> USE <1>0
<1>1. ASSUME work' \in WorkType, queued' \in BOOLEAN,
             UNCHANGED <<inst, status, cluster, volume, ols, rev, secrets, upsets, asked, lost>>
      PROVE  TypeOK'
  BY <1>1 DEF TypeOK, WorkType, Installation
<1>2. CASE Begin
  <2>1. inst = NoInst => work' \in WorkType
    BY <1>2 DEF Begin, WorkType
  <2>2. inst # NoInst => work' \in WorkType
    <3>1. inst # NoInst => inst \in Installation /\ work' = [stage |-> 1, seen |-> inst]
      BY <1>2 DEF Begin, TypeOK
    <3>2. 1 \in (1..StatusStage) \ {PatchStage}
      BY Stages
    <3> QED
      BY <3>1, <3>2 DEF WorkType
  <2>3. work' \in WorkType /\ queued' \in BOOLEAN
    BY <1>2, <2>1, <2>2 DEF Begin
  <2> QED
    BY <1>1, <1>2, <2>3 DEF Begin
<1>3. CASE SkipObject
  BY <1>1, <1>3, AdvanceObject DEF SkipObject, TypeOK
<1>4. CASE WriteObject
  <2>1. work' \in WorkType
    BY <1>4, AdvanceObject DEF WriteObject
  <2>2. queued' \in BOOLEAN
    BY <1>4 DEF WriteObject, TypeOK
  <2>3. UNCHANGED <<inst, status, volume, ols, rev, upsets, asked, lost>>
    BY <1>4 DEF WriteObject
  <2> QED
    BY <1>4, <2>1, <2>2, <2>3, WriteType DEF TypeOK, WorkType, Installation
<1>5. CASE RefuseObject
  BY <1>1, <1>5, AbortType DEF RefuseObject
<1>6. CASE SkipRegistration
  BY <1>1, <1>6, AdvanceRead DEF SkipRegistration, TypeOK
<1>7. CASE RefuseRegistration
  BY <1>1, <1>7, AbortType DEF RefuseRegistration
<1>8. CASE ReadOLSConfig
  <2>1. ols \in OLSConfig /\ work.seen \in Installation
    BY <1>8, AtReadShape DEF ReadOLSConfig, TypeOK
  <2>2. work' \in WorkType
    BY <1>8, <2>1, AdvanceRead DEF ReadOLSConfig, WorkType
  <2> QED
    BY <1>1, <1>8, <2>2 DEF ReadOLSConfig, TypeOK
<1>9. CASE PatchOLSConfig
  <2>1. ols \in OLSConfig /\ work.read \in OLSConfig /\ work.seen \in Installation
    BY <1>9, AtPatchShape DEF PatchOLSConfig, TypeOK
  <2>2. work.seen.spec \in InstallSpecs
    BY <2>1 DEF Installation
  <2>3. ols' \in OLSConfig
    BY <1>9, <2>1, <2>2, MergedType DEF PatchOLSConfig
  <2>4. work' \in WorkType
    BY <1>9, <2>1, Stages DEF PatchOLSConfig, WorkType
  <2> QED
    BY <1>9, <2>3, <2>4 DEF PatchOLSConfig, TypeOK, WorkType, Installation
<1>10. CASE UpdateStatus
  <2>1. inst \in Installation
    BY <1>10, Stages DEF UpdateStatus, TypeOK, NoWork, NoInst
  <2>2. status' \in [lightspeed : {"Ready", "PatchPlanned"}, on : Nat]
    BY <1>10, <2>1 DEF UpdateStatus, LightspeedPhase, Installation
  <2>3. queued' \in BOOLEAN /\ work' = NoWork
    BY <1>10 DEF UpdateStatus, TypeOK
  <2> QED
    BY <1>10, <2>2, <2>3 DEF UpdateStatus, TypeOK, Installation
<1>11. CASE StatusConflict
  BY <1>1, <1>11, AbortType DEF StatusConflict
<1>12. CASE Interrupt
  <2>1. work' \in WorkType /\ queued' \in BOOLEAN
    BY <1>12, AbortType DEF Interrupt
  <2>2. upsets' \in 0..MaxUpsets
    BY <1>12, MaxUpsetsType DEF Interrupt, Upset, TypeOK
  <2> QED
    BY <1>12, <2>1, <2>2 DEF Interrupt, TypeOK, WorkType, Installation
<1>13. CASE Resync
  BY <1>13 DEF Resync, TypeOK, Installation
<1>14. CASE UserStep
  <2>1. ASSUME NEW s \in InstallSpecs, CreateInstallation(s) \/ EditInstallation(s) PROVE TypeOK'
    <3>1. asked' \subseteq Entries
      BY <2>1, EntryType DEF CreateInstallation, EditInstallation, Ask, TypeOK
    <3>2. inst' \in Installation /\ rev' \in Nat
      <4>1. rev \in Nat /\ rev + 1 \in Nat \ {0}
        BY DEF TypeOK
      <4>2. CASE CreateInstallation(s)
        BY <4>1, <4>2 DEF CreateInstallation, Installation
      <4>3. CASE EditInstallation(s)
        <5>1. inst \in Installation
          BY <4>3 DEF EditInstallation, TypeOK
        <5> QED
          BY <4>1, <4>3, <5>1 DEF EditInstallation, Installation
      <4> QED
        BY <2>1, <4>2, <4>3
    <3>3. upsets' \in 0..MaxUpsets
      BY <2>1, MaxUpsetsType DEF CreateInstallation, EditInstallation, Upset, TypeOK
    <3> QED
      BY <2>1, <3>1, <3>2, <3>3 DEF CreateInstallation, EditInstallation, TypeOK, Installation
  <2>2. CASE DeleteInstallation
    BY <1>14, <2>2, MaxUpsetsType DEF DeleteInstallation, Upset, TypeOK, Installation
  <2>3. ASSUME NEW o \in Driftable, Drift(o) PROVE TypeOK'
    BY <2>3, DriftType
  <2>4. CASE EditOLSConfig
    <3>1. ols' \in OLSConfig \cup {NoOLS}
      BY <2>4 DEF EditOLSConfig, TypeOK, OLSConfig, Gates
    <3> QED
      BY <2>4, <3>1, MaxUpsetsType DEF EditOLSConfig, Upset, TypeOK, Installation
  <2>5. CASE RestoreOLSConfig
    <3>1. ols' \in OLSConfig
      BY <2>5 DEF RestoreOLSConfig, TypeOK, OLSConfig, Gates
    <3> QED
      BY <2>5, <3>1, MaxUpsetsType DEF RestoreOLSConfig, Upset, TypeOK, Installation
  <2> QED
    BY <1>14, <2>1, <2>2, <2>3, <2>4, <2>5 DEF UserStep
<1>15. ASSUME NEW o \in Objects, Collect(o) PROVE TypeOK'
  <2>1. cluster' = [cluster EXCEPT ![o] = Absent]
    BY <1>15 DEF Collect
  <2>2. /\ cluster' \in [Objects -> Object \cup {Absent}]
        /\ cluster'["PostgresAuthSecret"] \in {Absent, cluster["PostgresAuthSecret"]}
    BY <2>1, NamedObjects DEF TypeOK
  <2>3. lost' \subseteq Losses
    BY <1>15, LostType, LossNames DEF Collect
  <2> QED
    BY <1>15, <2>2, <2>3 DEF Collect, TypeOK, Installation
<1>16. CASE StartDatabase
  BY <1>16 DEF StartDatabase, TypeOK, Installation
<1>17. CASE UNCHANGED vars
  BY <1>17 DEF vars, TypeOK, Installation
<1> QED
  BY <1>2, <1>3, <1>4, <1>5, <1>6, <1>7, <1>8, <1>9, <1>10, <1>11, <1>12, <1>13, <1>14,
     <1>15, <1>16, <1>17 DEF Next, Step, ReconcileStep

(* Type correctness of the reconciler: the installation a reconcile holds,  *)
(* the OLSConfig it has read and the password in the Secret are ones that   *)
(* exist or have existed.                                                   *)
THEOREM TypeCorrect == Spec => []TypeOK
  BY TypeInit, TypeStep, PTL DEF Spec
-----------------------------------------------------------------------------
AskedFor(s) ==
    (s.mode = "PatchOLSConfig" /\ s.endpoint \in McpEndpoints) => Entry(s) \in asked

(* RegistrationsWereAsked is not inductive: the patch writes what the       *)
(* reconcile holds, so the spec it has seen and the OLSConfig it has read   *)
(* must be vouched for as well.                                             *)
RInv ==
    /\ TypeOK
    /\ RegistrationsWereAsked
    /\ inst # NoInst => AskedFor(inst.spec)
    /\ work # NoWork => AskedFor(work.seen.spec)
    /\ work.stage = PatchStage =>
          MayRegister(work.seen.spec) /\ work.read.servers \ ForeignServers \subseteq asked

LEMMA RInvInit == Init => RInv
<1> SUFFICES ASSUME Init PROVE RInv
  OBVIOUS
<1>1. work.stage # PatchStage
  BY Stages DEF Init, NoWork
<1>2. RegistrationsWereAsked
  BY DEF Init, RegistrationsWereAsked
<1> QED
  BY <1>1, <1>2, TypeInit DEF Init, RInv

LEMMA MergedAsked ==
  ASSUME NEW now, NEW read, NEW s, NEW A,
         now.servers \ ForeignServers \subseteq A, read.servers \ ForeignServers \subseteq A,
         Entry(s) \in A
  PROVE  Merged(now, read, s).servers \ ForeignServers \subseteq A
  BY DEF Merged, Upsert

LEMMA RInvStep == RInv /\ [Next]_vars => RInv'
<1> SUFFICES ASSUME RInv, [Next]_vars PROVE RInv'
  OBVIOUS
<1> USE DEF RInv
<1>0. TypeOK'
  BY TypeStep
<1>1. ASSUME UNCHANGED <<ols, asked>> PROVE RegistrationsWereAsked'
  BY <1>1 DEF RegistrationsWereAsked
<1>2. ASSUME UNCHANGED <<inst, ols, asked>>, work' # NoWork => AskedFor(work'.seen.spec),
             work'.stage # PatchStage
      PROVE  RInv'
  BY <1>0, <1>1, <1>2 DEF AskedFor
<1>3. ASSUME UNCHANGED <<inst, ols, work, asked>> PROVE RInv'
  BY <1>0, <1>1, <1>3 DEF AskedFor
<1>4. Abort => work' = NoWork /\ work'.stage # PatchStage
  BY Stages DEF Abort, NoWork
<1>5. CASE Begin
  <2>1. work' = NoWork \/ (work' = [stage |-> 1, seen |-> inst] /\ inst # NoInst)
    BY <1>5 DEF Begin
  <2>2. work'.stage # PatchStage
    BY <2>1, Stages DEF NoWork
  <2> QED
    BY <1>2, <1>5, <2>1, <2>2 DEF Begin
<1>6. CASE SkipObject
  BY <1>2, <1>6, AdvanceObject, AtObjectShape DEF SkipObject, NoWork
<1>7. CASE WriteObject
  BY <1>2, <1>7, AdvanceObject, AtObjectShape DEF WriteObject, NoWork
<1>8. CASE RefuseObject
  BY <1>2, <1>4, <1>8 DEF RefuseObject
<1>9. CASE SkipRegistration
  BY <1>2, <1>9, AdvanceRead, AtReadShape, Stages DEF SkipRegistration, NoWork
<1>10. CASE RefuseRegistration
  BY <1>2, <1>4, <1>10 DEF RefuseRegistration
<1>11. CASE ReadOLSConfig
  <2>1. work # NoWork
    BY <1>11, Stages DEF ReadOLSConfig, NoWork
  <2>2. CASE Advance(StatusStage)
    BY <1>2, <1>11, <2>1, <2>2, AdvanceRead DEF ReadOLSConfig
  <2>3. CASE work' = [stage |-> PatchStage, seen |-> work.seen, read |-> ols]
    <3>1. ols.servers \ ForeignServers \subseteq asked
      BY <1>11 DEF ReadOLSConfig, RegistrationsWereAsked
    <3> QED
      BY <1>0, <1>1, <1>11, <2>1, <2>3, <3>1 DEF ReadOLSConfig, AskedFor, MayRegister
  <2> QED
    BY <1>11, <2>2, <2>3 DEF ReadOLSConfig
<1>12. CASE PatchOLSConfig
  <2>1. work # NoWork /\ Entry(work.seen.spec) \in asked
    BY <1>12, Stages DEF PatchOLSConfig, NoWork, AskedFor, MayRegister
  <2>2. ols.servers \ ForeignServers \subseteq asked /\ work.read.servers \ ForeignServers \subseteq asked
    BY <1>12 DEF PatchOLSConfig, RegistrationsWereAsked
  <2>3. ols'.servers \ ForeignServers \subseteq asked
    BY <1>12, <2>1, <2>2, MergedAsked DEF PatchOLSConfig
  <2>4. RegistrationsWereAsked'
    BY <1>12, <2>3 DEF PatchOLSConfig, RegistrationsWereAsked
  <2>5. work' = [stage |-> StatusStage, seen |-> work.seen]
    BY <1>12 DEF PatchOLSConfig
  <2> QED
    BY <1>0, <1>12, <2>1, <2>4, <2>5, Stages DEF PatchOLSConfig, AskedFor
<1>13. CASE UpdateStatus
  BY <1>2, <1>13, Stages DEF UpdateStatus, NoWork
<1>14. CASE StatusConflict
  BY <1>2, <1>4, <1>14 DEF StatusConflict
<1>15. CASE Interrupt
  BY <1>2, <1>4, <1>15 DEF Interrupt
<1>16. CASE Resync
  BY <1>3, <1>16 DEF Resync
<1>17. CASE UserStep
  <2>1. ASSUME NEW s \in InstallSpecs, CreateInstallation(s) \/ EditInstallation(s) PROVE RInv'
    <3>1. asked \subseteq asked' /\ ((s.mode = "PatchOLSConfig" /\ s.endpoint \in McpEndpoints)
                                        => Entry(s) \in asked')
      BY <2>1 DEF CreateInstallation, EditInstallation, Ask
    <3>2. inst'.spec = s
      <4>1. CASE CreateInstallation(s)
        BY <4>1 DEF CreateInstallation
      <4>2. CASE EditInstallation(s)
        BY <4>2 DEF EditInstallation, TypeOK, Installation
      <4> QED
        BY <2>1, <4>1, <4>2
    <3>3. UNCHANGED <<ols, work>>
      BY <2>1 DEF CreateInstallation, EditInstallation
    <3>4. RegistrationsWereAsked'
      BY <3>1, <3>3 DEF RegistrationsWereAsked
    <3> QED
      BY <1>0, <3>1, <3>2, <3>3, <3>4 DEF AskedFor
  <2>2. CASE DeleteInstallation
    BY <1>0, <1>1, <2>2 DEF DeleteInstallation, AskedFor
  <2>3. ASSUME NEW o \in Driftable, Drift(o) PROVE RInv'
    <3>1. UNCHANGED <<inst, ols, work, asked>>
      BY <2>3 DEF Drift
    <3> QED BY <1>3, <3>1
  <2>4. CASE EditOLSConfig
    <3>1. ols' # NoOLS => ols'.servers \ ForeignServers \subseteq asked
      BY <2>4 DEF EditOLSConfig, RegistrationsWereAsked
    <3> QED
      BY <1>0, <2>4, <3>1 DEF EditOLSConfig, RegistrationsWereAsked, AskedFor
  <2>5. CASE RestoreOLSConfig
    BY <1>0, <2>5 DEF RestoreOLSConfig, RegistrationsWereAsked, AskedFor
  <2> QED
    BY <1>17, <2>1, <2>2, <2>3, <2>4, <2>5 DEF UserStep
<1>18. ASSUME NEW o \in Objects, Collect(o) PROVE RInv'
  <2>1. UNCHANGED <<inst, ols, work, asked>>
    BY <1>18 DEF Collect
  <2> QED BY <1>3, <2>1
<1>19. CASE StartDatabase
  BY <1>3, <1>19 DEF StartDatabase
<1>20. CASE UNCHANGED vars
  BY <1>3, <1>20 DEF vars
<1> QED
  BY <1>5, <1>6, <1>7, <1>8, <1>9, <1>10, <1>11, <1>12, <1>13, <1>14, <1>15, <1>16, <1>17,
     <1>18, <1>19, <1>20 DEF Next, Step, ReconcileStep

(* The operator puts in the OLSConfig only registrations that some          *)
(* installation asked for in PatchOLSConfig mode with an endpoint that ends *)
(* with /mcp (reconcileLightspeedRegistration).                             *)
THEOREM RegistrationsAreAskedFor == Spec => []RegistrationsWereAsked
<1>1. RInv => RegistrationsWereAsked
  BY DEF RInv
<1> QED
  BY <1>1, RInvInit, RInvStep, PTL DEF Spec
-----------------------------------------------------------------------------
LEMMA MergedKeeps ==
  ASSUME NEW now \in OLSConfig, NEW read \in OLSConfig, NEW s \in InstallSpecs
  PROVE  /\ now.servers \cap read.servers \cap ForeignServers \subseteq Merged(now, read, s).servers
         /\ now.gates \cap read.gates \subseteq Merged(now, read, s).gates
<1>1. \A e \in ForeignServers : e.name # Entry(s).name
  BY ForeignNames, InstallSpecsType DEF Entry, InstallSpec
<1>2. now.servers \cap read.servers \cap ForeignServers \subseteq Merged(now, read, s).servers
  BY <1>1 DEF Merged, Upsert
<1>3. now.gates \cap read.gates \subseteq Merged(now, read, s).gates
  BY DEF Merged
<1> QED
  BY <1>2, <1>3

(* A merge patch built from an older read takes nothing from the OLSConfig  *)
(* that was in it at the read and still is (Patch with MergeFrom).          *)
THEOREM PatchesKeepWhatTheyRead == Spec => PatchKeepsWhatItRead
<1> DEFINE Keeps == work.stage = PatchStage /\ work' # work /\ ols' # ols =>
                       /\ ols.servers \cap work.read.servers \cap ForeignServers \subseteq ols'.servers
                       /\ ols.gates \cap work.read.gates \subseteq ols'.gates
<1>1. ASSUME TypeOK, [Next]_vars, work.stage = PatchStage, work' # work, ols' # ols
      PROVE  PatchOLSConfig
  BY <1>1 DEF Next, Step, ReconcileStep, UserStep, Begin, SkipObject, WriteObject, RefuseObject,
     SkipRegistration, RefuseRegistration, ReadOLSConfig, UpdateStatus, StatusConflict, Interrupt,
     Resync, CreateInstallation, EditInstallation, DeleteInstallation, Drift, EditOLSConfig,
     RestoreOLSConfig, Collect, StartDatabase, vars
<1>2. ASSUME TypeOK, PatchOLSConfig PROVE Keeps
  <2>1. ols \in OLSConfig /\ work.read \in OLSConfig /\ work.seen.spec \in InstallSpecs
    BY <1>2, AtPatchShape DEF PatchOLSConfig, TypeOK, Installation
  <2>2. ols' = Merged(ols, work.read, work.seen.spec)
    BY <1>2 DEF PatchOLSConfig
  <2> QED
    BY <2>1, <2>2, MergedKeeps
<1>3. TypeOK /\ [Next]_vars => [Keeps]_vars
  BY <1>1, <1>2
<1> QED
  BY <1>3, TypeCorrect, PTL DEF Spec, PatchKeepsWhatItRead
-----------------------------------------------------------------------------
Secret == "PostgresAuthSecret"

(* The volume can only have been initialised from the Secret, and no         *)
(* reconcile changes its password; without owner references nothing collects *)
(* it.                                                                       *)
PInv ==
    /\ TypeOK
    /\ volume # 0 /\ lost = {}
          => cluster[Secret] # Absent /\ cluster[Secret].content.password = volume
    /\ ~sameNamespace =>
          /\ \A o \in Objects : cluster[o] # Absent => cluster[o].owner = 0
          /\ "collected" \notin lost

LEMMA PInvStep ==
  ASSUME PInv, [Next]_vars
  PROVE  PInv'
<1> USE DEF PInv
<1>0. TypeOK' /\ sameNamespace' = sameNamespace
  BY TypeStep DEF Next, vars
<1>1. ASSUME UNCHANGED <<cluster, volume, lost>> PROVE PInv'
  BY <1>0, <1>1
<1>2. CASE WriteObject
  <2> DEFINE o == ObjectOrder[work.stage]
             new == [content |-> Content(o, work.seen.spec), owner |-> OwnerOf(o, work.seen)]
  <2>1. o \in Objects
    BY <1>2, AtObjectShape, Stages, ObjectOfStage DEF WriteObject
  <2>2. cluster' = [cluster EXCEPT ![o] = new] /\ volume' = volume /\ lost' = lost
    BY <1>2 DEF WriteObject
  <2>3. ~sameNamespace => new.owner = 0
    BY DEF OwnerOf
  <2>4. o = Secret /\ cluster[o] # Absent => new.content = cluster[o].content
    BY DEF Content, Secret
  <2>5. o = Secret => new # Absent
    BY <1>0, <2>1, <2>2 DEF TypeOK, Object, Absent
  <2> HIDE DEF new, o
  <2>6. \A x \in Objects : cluster'[x] = IF x = o THEN new ELSE cluster[x]
    BY <2>2 DEF TypeOK
  <2> QED
    BY <1>0, <2>1, <2>2, <2>3, <2>4, <2>5, <2>6, NamedObjects DEF Secret
<1>3. ASSUME NEW o \in Driftable, Drift(o) PROVE PInv'
  <2>1. /\ volume' = volume
        /\ lost' = IF o = Secret /\ volume # 0 THEN lost \cup {"by hand"} ELSE lost
    BY <1>3 DEF Drift, Lost, Secret
  <2>2. \A x \in Objects : x # o => cluster'[x] = cluster[x]
    BY <1>3, DriftShape DEF TypeOK
  <2>3. o \in Objects /\ cluster'[o] # Absent => cluster'[o].owner = cluster[o].owner /\ cluster[o] # Absent
    BY <1>3 DEF Drift, TypeOK, Object
  <2>4. volume' # 0 /\ lost' = {} => o # Secret /\ volume # 0 /\ lost = {}
    BY <2>1
  <2> QED
    BY <1>0, <2>1, <2>2, <2>3, <2>4, NamedObjects DEF Secret
<1>4. ASSUME NEW o \in Objects, Collect(o) PROVE PInv'
  <2>1. /\ volume' = volume /\ cluster' = [cluster EXCEPT ![o] = Absent]
        /\ lost' = IF o = Secret /\ volume # 0 THEN lost \cup {"collected"} ELSE lost
    BY <1>4 DEF Collect, Lost, Secret
  <2>2. sameNamespace
    BY <1>4 DEF Collect
  <2>3. volume' # 0 /\ lost' = {} => o # Secret /\ volume # 0 /\ lost = {}
    BY <2>1
  <2>4. \A x \in Objects : x # o => cluster'[x] = cluster[x]
    BY <2>1 DEF TypeOK
  <2> QED
    BY <1>0, <2>1, <2>2, <2>3, <2>4, NamedObjects DEF Secret
<1>5. CASE StartDatabase
  <2>1. /\ cluster[Secret] # Absent /\ volume' = cluster[Secret].content.password
        /\ cluster' = cluster /\ lost' = lost
    BY <1>5 DEF StartDatabase, Secret
  <2> QED
    BY <1>0, <2>1
<1>6. CASE \E s \in InstallSpecs : CreateInstallation(s) \/ EditInstallation(s)
  BY <1>1, <1>6 DEF CreateInstallation, EditInstallation
<1>7. CASE UNCHANGED vars
  BY <1>1, <1>7 DEF vars
<1> QED
  BY <1>1, <1>2, <1>3, <1>4, <1>5, <1>6, <1>7 DEF Next, Step, ReconcileStep, UserStep, Begin,
     SkipObject, RefuseObject, SkipRegistration, RefuseRegistration, ReadOLSConfig, PatchOLSConfig,
     UpdateStatus, StatusConflict, Interrupt, Resync, DeleteInstallation, EditOLSConfig, RestoreOLSConfig

(* The generated password goes on opening the database through edits,        *)
(* deletions and installations, unless somebody deleted the Secret or changed *)
(* its password, or it was collected with its installation, as it can be     *)
(* where they share a namespace (reconcilePostgresAuthSecret,                *)
(* setControllerReferenceIfSameNamespace).                                   *)
THEOREM PasswordStaysGood == Spec => []PasswordOpensDatabase
<1>1. Init => PInv
  BY TypeInit DEF Init, PInv
<1>2. PInv /\ [Next]_vars => PInv'
  BY PInvStep
<1>3. PInv => PasswordOpensDatabase
  <2> SUFFICES ASSUME PInv, volume # 0, "by hand" \notin lost,
                      "collected" \notin lost \/ ~sameNamespace
               PROVE  cluster[Secret].content.password = volume
    BY DEF PasswordOpensDatabase, Secret
  <2>1. lost = {}
    BY DEF PInv, TypeOK, Losses
  <2> QED
    BY <2>1 DEF PInv
<1> QED
  BY <1>1, <1>2, <1>3, PTL DEF Spec
-----------------------------------------------------------------------------
(* The first n - 1 objects are as the installation asks, but for those        *)
(* somebody may change by hand.                                             *)
WrittenBefore(n) ==
    \A k \in DOMAIN ObjectOrder :
        (/\ k < n
         /\ ObjectOrder[k] \notin Driftable
         /\ Included(ObjectOrder[k], inst.spec)) => Applied(ObjectOrder[k])

(* A status is of the installation as it now is only until the next edit,    *)
(* since every edit draws a revision that was never there; the same goes for *)
(* the installation a reconcile has seen.                                   *)
WInv ==
    /\ TypeOK
    /\ inst # NoInst => inst.rev <= rev
    /\ work # NoWork => work.seen.rev <= rev
    /\ status # NoStatus => status.on <= rev
    /\ (inst # NoInst /\ status # NoStatus /\ status.on = inst.rev) =>
          /\ WrittenBefore(StatusStage)
          /\ work # NoWork => work.seen = inst
    /\ (inst # NoInst /\ work # NoWork /\ work.seen = inst) => WrittenBefore(work.stage)

(* Garbage collection and the writes of the same installation leave alone    *)
(* what is as the installation asks.                                         *)
LEMMA AppliedStays ==
  ASSUME TypeOK, TypeOK', UNCHANGED <<inst, sameNamespace>>, inst # NoInst,
         NEW o \in Objects, Applied(o),
         \/ cluster'[o] = cluster[o]
         \/ cluster'[o] = [content |-> Content(o, inst.spec), owner |-> OwnerOf(o, inst)]
  PROVE  Applied(o)'
<1>1. cluster'[o] # Absent
  <2>1. [content |-> Content(o, inst.spec), owner |-> OwnerOf(o, inst)] # Absent
    BY DEF Absent
  <2> QED BY <2>1 DEF Applied
<1>2. /\ cluster'[o].content = Content(o, inst.spec)
      /\ cluster'[o].owner = OwnerOf(o, inst)
  BY DEF Applied
<1>3. Content(o, inst.spec)' = cluster'[o].content
  BY <1>1, <1>2 DEF Content, Applied
<1> QED
  BY <1>1, <1>2, <1>3 DEF Applied, OwnerOf

LEMMA WrittenIsApplied ==
  ASSUME TypeOK, TypeOK', UNCHANGED <<inst, sameNamespace>>, inst # NoInst,
         NEW o \in Objects,
         cluster'[o] = [content |-> Content(o, inst.spec), owner |-> OwnerOf(o, inst)]
  PROVE  Applied(o)'
<1>1. cluster'[o] # Absent
  <2>1. [content |-> Content(o, inst.spec), owner |-> OwnerOf(o, inst)] # Absent
    BY DEF Absent
  <2> QED BY <2>1
<1>2. /\ cluster'[o].content = Content(o, inst.spec)
      /\ cluster'[o].owner = OwnerOf(o, inst)
  OBVIOUS
<1>3. Content(o, inst.spec)' = Content(o, inst.spec)
  BY <1>1, <1>2 DEF Content
<1> QED
  BY <1>1, <1>2, <1>3 DEF Applied, OwnerOf

(* A step that leaves each object as it is, or takes or changes one that is  *)
(* not as the installation asks or that somebody may change.                *)
LEMMA WrittenStays ==
  ASSUME TypeOK, TypeOK', UNCHANGED <<inst, sameNamespace>>, inst # NoInst, NEW n,
         \A o \in Objects : o \notin Driftable /\ Applied(o) =>
            \/ cluster'[o] = cluster[o]
            \/ cluster'[o] = [content |-> Content(o, inst.spec), owner |-> OwnerOf(o, inst)],
         WrittenBefore(n)
  PROVE  WrittenBefore(n)'
<1> SUFFICES ASSUME NEW k \in DOMAIN ObjectOrder, k < n, ObjectOrder[k] \notin Driftable,
                    Included(ObjectOrder[k], inst.spec)
             PROVE  Applied(ObjectOrder[k])'
  BY DEF WrittenBefore
<1>1. ObjectOrder[k] \in Objects /\ Applied(ObjectOrder[k])
  BY ObjectOfStage DEF WrittenBefore
<1> HIDE DEF ObjectOrder
<1> QED
  BY <1>1, AppliedStays

LEMMA WInvInit == Init => WInv
  BY TypeInit DEF Init, WInv

LEMMA WInvStep == WInv /\ [Next]_vars => WInv'
<1> SUFFICES ASSUME WInv, [Next]_vars PROVE WInv'
  OBVIOUS
<1>0. TypeOK /\ TypeOK' /\ sameNamespace' = sameNamespace
  BY TypeStep DEF WInv, Next, vars
<1>r. rev \in Nat /\ (inst # NoInst => inst \in Installation)
  BY <1>0 DEF TypeOK
<1> DEFINE Calm == \A o \in Objects : o \notin Driftable /\ Applied(o) =>
                      \/ cluster'[o] = cluster[o]
                      \/ cluster'[o] = [content |-> Content(o, inst.spec),
                                        owner |-> OwnerOf(o, inst)]
(* Steps that leave users' edits and the status alone. *)
<1>1. ASSUME UNCHANGED <<inst, status, rev>>,
             (inst # NoInst /\ (work # NoWork => work.seen = inst)) => Calm,
             \/ work' = work
             \/ work' = NoWork
             \/ /\ work # NoWork
                /\ work'.seen = work.seen
                /\ \A n : (/\ n = work'.stage
                           /\ inst # NoInst /\ work.seen = inst
                           /\ WrittenBefore(work.stage)) => WrittenBefore(n)'
      PROVE  WInv'
  <2>1. ASSUME inst # NoInst, work # NoWork => work.seen = inst, NEW n, WrittenBefore(n)
        PROVE  WrittenBefore(n)'
    <3>1. Calm
      BY <1>1, <2>1
    <3> HIDE DEF Calm
    <3> QED BY <1>0, <1>1, <2>1, <3>1, WrittenStays DEF Calm
  <2>2. ASSUME inst # NoInst, work' # NoWork, work'.seen = inst
        PROVE  (WrittenBefore(work.stage))'
    <3>1. PICK n : n = work'.stage
      OBVIOUS
    <3>2. WrittenBefore(n)'
      <4>1. CASE work' = work
        <5>1. WrittenBefore(work.stage)
          BY <2>2, <4>1 DEF WInv
        <5>2. WrittenBefore(n)
          BY <3>1, <4>1, <5>1 DEF WrittenBefore
        <5> QED BY <2>1, <2>2, <4>1, <5>2
      <4>2. CASE work' # work
        <5>1. work # NoWork /\ work.seen = inst
          BY <1>1, <2>2, <4>2
        <5>2. WrittenBefore(work.stage)
          BY <2>2, <5>1 DEF WInv
        <5> QED BY <1>1, <2>2, <3>1, <4>2, <5>1, <5>2
      <4> QED BY <4>1, <4>2
    <3> QED BY <3>1, <3>2 DEF WrittenBefore
  <2>3. ASSUME inst # NoInst, status # NoStatus, status.on = inst.rev
        PROVE  /\ WrittenBefore(StatusStage)'
               /\ work' # NoWork => work'.seen = inst
    <3>1. WrittenBefore(StatusStage) /\ (work # NoWork => work.seen = inst)
      BY <2>3 DEF WInv
    <3> QED BY <1>1, <2>1, <2>3, <3>1
  <2> HIDE DEF Calm
  <2> QED BY <1>0, <1>1, <2>2, <2>3 DEF WInv, StatusStage
<1>a. Abort => work' = NoWork
  BY DEF Abort
<1>c. cluster' = cluster => Calm
  OBVIOUS
<1> HIDE DEF Calm
<1>2. CASE Begin
  <2>1. UNCHANGED <<inst, status, rev, cluster>>
    BY <1>2 DEF Begin
  <2>2. CASE inst = NoInst
    BY <1>1, <1>2, <1>c, <2>1, <2>2 DEF Begin
  <2>3. CASE inst # NoInst
    <3>1. work' = [stage |-> 1, seen |-> inst]
      BY <1>2, <2>3 DEF Begin
    <3>2. work'.stage = 1 /\ work'.seen = inst
      BY <3>1
    <3>3. (WrittenBefore(work.stage))'
      BY <3>2, Stages DEF WrittenBefore
    <3>4. ASSUME status # NoStatus, status.on = inst.rev PROVE WrittenBefore(StatusStage)'
      <4>1. WrittenBefore(StatusStage)
        BY <2>3, <3>4 DEF WInv
      <4>2. Calm
        BY <1>c, <2>1
      <4> QED BY <1>0, <2>1, <2>3, <4>1, <4>2, WrittenStays DEF Calm
    <3> QED BY <1>0, <2>1, <2>3, <3>2, <3>3, <3>4 DEF WInv
  <2> QED BY <2>2, <2>3
<1>3. CASE SkipObject
  <2>1. UNCHANGED <<inst, status, rev, cluster>>
    BY <1>3 DEF SkipObject
  <2>2. /\ work # NoWork /\ work'.seen = work.seen /\ work.stage \in 1..14
        /\ work'.stage = work.stage + 1
    BY <1>0, <1>3, AtObjectShape, Stages DEF SkipObject, Advance, NoWork
  <2>3. ASSUME NEW n, n = work'.stage, inst # NoInst, work.seen = inst,
               WrittenBefore(work.stage)
        PROVE  WrittenBefore(n)'
    <3>1. ~Included(ObjectOrder[work.stage], inst.spec)
      BY <1>3, <2>3 DEF SkipObject
    <3>2. \A k \in DOMAIN ObjectOrder : k < n => k < work.stage \/ k = work.stage
      BY <2>2, <2>3, Stages
    <3>3. WrittenBefore(n)
      <4> HIDE DEF ObjectOrder
      <4> QED BY <2>3, <3>1, <3>2 DEF WrittenBefore
    <3> QED BY <1>0, <1>c, <2>1, <2>3, <3>3, WrittenStays DEF Calm
  <2> QED BY <1>1, <1>c, <2>1, <2>2, <2>3
<1>4. CASE WriteObject
  <2>0. PICK m, o : m = work.stage /\ o = ObjectOrder[m]
    OBVIOUS
  <2>1. UNCHANGED <<inst, status, rev>>
    BY <1>4 DEF WriteObject
  <2>2. /\ work # NoWork /\ work'.seen = work.seen /\ work.stage \in 1..14
        /\ work'.stage = work.stage + 1
    BY <1>0, <1>4, AtObjectShape, Stages DEF WriteObject, Advance, NoWork
  <2>3. /\ o \in Objects
        /\ \A x \in Objects : x # o => cluster'[x] = cluster[x]
        /\ cluster'[o] = [content |-> Content(o, work.seen.spec),
                          owner |-> OwnerOf(o, work.seen)]
    BY <1>0, <1>4, <2>0, <2>2, Stages, ObjectOfStage DEF WriteObject, TypeOK
  <2>4. (inst # NoInst /\ work.seen = inst) => Calm
    BY <2>3 DEF Calm
  <2>5. ASSUME NEW n, n = work'.stage, inst # NoInst, work.seen = inst,
               WrittenBefore(work.stage)
        PROVE  WrittenBefore(n)'
    <3>2. WrittenBefore(m)'
      <4>1. WrittenBefore(m) /\ Calm
        BY <2>0, <2>4, <2>5
      <4> QED BY <1>0, <2>1, <2>5, <4>1, WrittenStays DEF Calm
    <3>3. Applied(o)'
      BY <1>0, <2>1, <2>3, <2>5, WrittenIsApplied
    <3>4. \A k \in DOMAIN ObjectOrder : k < n => k < m \/ k = m
      BY <2>0, <2>2, <2>5, Stages
    <3> HIDE DEF ObjectOrder
    <3> QED BY <2>0, <3>2, <3>3, <3>4 DEF WrittenBefore
  <2> QED BY <1>1, <2>1, <2>2, <2>4, <2>5
<1>5. CASE RefuseObject \/ RefuseRegistration \/ StatusConflict \/ Interrupt
  BY <1>1, <1>5, <1>a, <1>c
     DEF RefuseObject, RefuseRegistration, StatusConflict, Interrupt
(* The stages after the objects: nothing more to write. *)
<1>6. ASSUME UNCHANGED <<inst, status, rev, cluster>>, work # NoWork,
             work'.seen = work.seen, work.stage \in {ReadStage, PatchStage}
      PROVE  WInv'
  <2>1. ASSUME NEW n, n = work'.stage, inst # NoInst, work.seen = inst,
               WrittenBefore(work.stage)
        PROVE  WrittenBefore(n)'
    <3>1. \A k \in DOMAIN ObjectOrder : k < work.stage
      BY <1>6, Stages
    <3>2. WrittenBefore(n)
      <4> HIDE DEF ObjectOrder
      <4> QED BY <2>1, <3>1 DEF WrittenBefore
    <3> QED BY <1>0, <1>6, <1>c, <2>1, <3>2, WrittenStays DEF Calm
  <2> QED BY <1>1, <1>6, <1>c, <2>1
<1>7. CASE SkipRegistration
  BY <1>0, <1>6, <1>7, AtReadShape, AdvanceRead, Stages DEF SkipRegistration, NoWork
<1>8. CASE ReadOLSConfig
  <2>1. work.stage = ReadStage /\ work # NoWork /\ work'.seen = work.seen
    BY <1>0, <1>8, AdvanceRead, Stages DEF ReadOLSConfig, NoWork
  <2> QED BY <1>6, <1>8, <2>1 DEF ReadOLSConfig
<1>9. CASE PatchOLSConfig
  <2>1. work # NoWork /\ work'.seen = work.seen
    BY <1>9, Stages DEF PatchOLSConfig, NoWork
  <2> QED BY <1>6, <1>9, <2>1 DEF PatchOLSConfig
<1>10. CASE UpdateStatus
  <2>1. /\ UNCHANGED <<inst, rev, cluster>> /\ work' = NoWork
        /\ work # NoWork /\ inst = work.seen /\ work.stage = StatusStage
        /\ status' = [lightspeed |-> LightspeedPhase(work.seen.spec), on |-> inst.rev]
    BY <1>10, Stages DEF UpdateStatus, NoWork
  <2>2. inst # NoInst => WrittenBefore(StatusStage)
    BY <2>1 DEF WInv
  <2>3. inst # NoInst => WrittenBefore(StatusStage)'
    BY <1>0, <1>c, <2>1, <2>2, WrittenStays DEF Calm
  <2>4. inst # NoInst
    BY <1>0, <2>1, Stages DEF TypeOK, NoWork, NoInst, Installation
  <2>5. status'.on = inst.rev /\ inst.rev <= rev
    BY <2>1, <2>4 DEF WInv
  <2> QED BY <1>0, <2>1, <2>3, <2>5 DEF WInv, StatusStage
<1>11. CASE Resync \/ StartDatabase \/ EditOLSConfig \/ RestoreOLSConfig
  BY <1>1, <1>11, <1>c DEF Resync, StartDatabase, EditOLSConfig, RestoreOLSConfig
(* An edit is of a revision that no status and no reconcile has. *)
<1>12. ASSUME NEW s \in InstallSpecs, CreateInstallation(s) PROVE WInv'
  <2>1. /\ status' = NoStatus /\ work' = work /\ rev' = rev + 1
        /\ inst'.rev = rev + 1
    BY <1>12 DEF CreateInstallation
  <2>2. work # NoWork => work.seen.rev <= rev /\ work.seen # inst'
    BY <1>r, <2>1 DEF WInv
  <2>3. work # NoWork => work.seen.rev \in Nat
    BY <1>0 DEF TypeOK, Installation
  <2> QED BY <1>0, <1>r, <2>1, <2>2, <2>3 DEF WInv
<1>13. ASSUME NEW s \in InstallSpecs, EditInstallation(s) PROVE WInv'
  <2>1. /\ status' = status /\ work' = work /\ rev' = rev + 1 /\ inst # NoInst
        /\ inst' = [inst EXCEPT !.spec = s, !.rev = rev + 1]
    BY <1>13 DEF EditInstallation
  <2>2. inst'.rev = rev + 1
    BY <1>r, <2>1 DEF Installation
  <2>3. work # NoWork => work.seen.rev \in Nat /\ work.seen.rev <= rev /\ work.seen # inst'
    BY <1>0, <1>r, <2>2 DEF WInv, TypeOK, Installation
  <2>4. status # NoStatus => status.on \in Nat /\ status.on <= rev /\ status.on # inst'.rev
    BY <1>0, <1>r, <2>2 DEF WInv, TypeOK
  <2> QED BY <1>0, <1>r, <2>1, <2>2, <2>3, <2>4 DEF WInv
<1>14. CASE DeleteInstallation
  BY <1>0, <1>14 DEF DeleteInstallation, WInv
<1>15. ASSUME NEW o \in Driftable, Drift(o) PROVE WInv'
  <2>1. \A x \in Objects : x # o => cluster'[x] = cluster[x]
    BY <1>0, <1>15 DEF Drift, TypeOK
  <2>2. Calm
    BY <2>1 DEF Calm
  <2> QED BY <1>1, <1>15, <2>2 DEF Drift
(* What is as the installation asks has no owner but the installation. *)
<1>16. ASSUME NEW o \in Objects, Collect(o) PROVE WInv'
  <2>1. inst # NoInst => ~Applied(o)
    BY <1>16 DEF Collect, Applied, OwnerOf
  <2>2. \A x \in Objects : x # o => cluster'[x] = cluster[x]
    BY <1>0, <1>16 DEF Collect, TypeOK
  <2>3. inst # NoInst => Calm
    BY <2>1, <2>2 DEF Calm
  <2> QED BY <1>1, <1>16, <2>3 DEF Collect
<1>17. CASE UNCHANGED vars
  BY <1>1, <1>17, <1>c DEF vars
<1> QED
  BY <1>2, <1>3, <1>4, <1>5, <1>7, <1>8, <1>9, <1>10, <1>11, <1>12, <1>13, <1>14, <1>15,
     <1>16, <1>17 DEF Next, Step, ReconcileStep, UserStep

(* A status on the current revision is true of every object that nobody      *)
(* changes by hand, whatever else others change (Reconcile, Status().Update  *)
(* with the resource version that was read).                                *)
THEOREM StatusIsTrue == Spec => []ReadyMeansApplied
<1>1. WInv => ReadyMeansApplied
  <2> SUFFICES ASSUME WInv, inst # NoInst, status # NoStatus, status.on = inst.rev,
                      NEW o \in Objects \ Driftable, Included(o, inst.spec)
               PROVE  Applied(o)
    BY DEF ReadyMeansApplied
  <2>1. PICK k \in DOMAIN ObjectOrder : o = ObjectOrder[k]
    BY DEF Objects
  <2>2. k < StatusStage
    BY Stages
  <2> HIDE DEF ObjectOrder
  <2> QED BY <2>1, <2>2 DEF WInv, WrittenBefore
<1> QED
  BY <1>1, WInvInit, WInvStep, PTL DEF Spec
-----------------------------------------------------------------------------
(* The planner of the Lightspeed registration. *)

LEMMA ServersAgree ==
  ASSUME NEW s, NEW config
  PROVE  PlannedServers(s, config) = Upsert(config.servers, Entry(s))
  BY DEF PlannedServers, PlannedEntry, Upsert, Entry

LEMMA ChangeIsUnregistered ==
  ASSUME NEW s, NEW config
  PROVE  Changed(s, config, TRUE) <=> ~Registered(config, s)
  BY ServersAgree DEF Changed, Registered, PlannedGates

LEMMA OLSConfigsExist == \A config \in OLSConfig : config # NoOLS
  BY DEF OLSConfig, NoOLS

(* The planner says that the OLSConfig will be patched exactly where the    *)
(* controller may and has to patch it (the entry of OpsLens being the last  *)
(* of the list), and then plans what the controller's patch leaves.         *)
THEOREM PlannerAgreesOnRegistration ==
  ASSUME NEW s \in InstallSpecs, NEW config \in OLSConfig
  PROVE  LET plan == RegistrationPlan(s, config, TRUE)
         IN  /\ plan.willPatch <=> MayRegister(s) /\ ~Registered(config, s)
             /\ plan.mutationAllowed <=> MayRegister(s)
             /\ plan.willPatch =>
                   Merged(config, config, s) = [servers |-> PlannedServers(s, config),
                                                gates   |-> PlannedGates(config)]
<1> DEFINE plan == RegistrationPlan(s, config, TRUE)
<1>1. config # NoOLS /\ s.mode \in {"ValidateOnly", "PatchOLSConfig"}
  BY OLSConfigsExist, InstallSpecsType DEF InstallSpec
<1>2. CASE s.endpoint \notin McpEndpoints
  <2>1. ~plan.willPatch /\ ~plan.mutationAllowed
    BY <1>2 DEF RegistrationPlan, NoPatch
  <2> QED
    BY <1>2, <2>1 DEF MayRegister
<1>3. CASE s.endpoint \in McpEndpoints /\ s.mode = "ValidateOnly"
  <2>1. ~plan.willPatch /\ ~plan.mutationAllowed
    BY <1>1, <1>3 DEF RegistrationPlan, NoPatch
  <2> QED
    BY <1>3, <2>1 DEF MayRegister
<1>4. CASE s.endpoint \in McpEndpoints /\ s.mode = "PatchOLSConfig"
  <2>1. (plan.willPatch <=> Changed(s, config, TRUE)) /\ plan.mutationAllowed
    BY <1>1, <1>4 DEF RegistrationPlan
  <2>2. Merged(config, config, s) = [servers |-> PlannedServers(s, config),
                                     gates   |-> PlannedGates(config)]
    BY ServersAgree DEF Merged, PlannedGates
  <2> QED
    BY <1>4, <2>1, <2>2, ChangeIsUnregistered DEF MayRegister
<1> QED
  BY <1>1, <1>2, <1>3, <1>4

(* The planner plans the objects the controller writes, and the namespace,  *)
(* which the controller never creates.                                      *)
THEOREM PlannerAgreesOnObjects ==
  ASSUME NEW s \in InstallSpecs, Kept = Objects
  PROVE  PlannedObjects(s) = {o \in Objects : Included(o, s)} \cup {"Namespace"}
<1>1. Objects = {"APIServiceAccount", "RAGPolicy", "PostgresAuthSecret", "APIDeployment",
                 "APIService", "APINetworkPolicy", "DashboardDeployment", "DashboardService",
                 "DashboardNetworkPolicy", "VectorStore", "VectorService", "ModelRuntime",
                 "ModelRuntimeService", "ConsolePlugin"}
  <2>1. Objects = {ObjectOrder[k] : k \in 1..14}
    BY Stages DEF Objects
  <2> QED
    BY <2>1 DEF ObjectOrder
<1>2. s.provider = "pgvector" <=> s.provider # "inmemory"
  BY InstallSpecsType DEF InstallSpec
<1> QED
  BY <1>1, <1>2 DEF PlannedObjects, PlannedApi, PlannedSecret, PlannedDashboard,
     PlannedVectorStore, PlannedModelRuntime, PlannedConsolePlugin, Included

(* On the RAG policy they agree only about a spec that leaves the export of *)
(* evidence on and the queue in design: the controller looks at neither.    *)
THEOREM PlannerAgreesOnRag ==
  ASSUME NEW s, NEW r \in RagSpec
  PROVE  /\ PlannedRag(r) = RagSettings(r)
               <=> r.evidenceExport # "false" /\ r.queue = "DesignOnly"
         /\ PlannedRag(r) = RagSettings(r) => PlannedApiEnv(s, r) = ApiEnv(s, r)
         /\ ~PlannedRag(r).rawReturn /\ ~PlannedRag(r).enqueue
<1>1. PlannedRag(r) = RagSettings(r)
         <=> r.evidenceExport # "false" /\ r.queue = "DesignOnly"
  BY DEF PlannedRag, RagSettings
<1>2. PlannedRag(r) = RagSettings(r) => PlannedApiEnv(s, r) = ApiEnv(s, r)
  BY DEF PlannedApiEnv, ApiEnv
<1> QED
  BY <1>1, <1>2 DEF PlannedRag
-----------------------------------------------------------------------------
(* A reconcile that is about to patch holds a spec that may register and an *)
(* OLSConfig that was not registered when it was read.                      *)
PlanInv ==
    /\ TypeOK
    /\ work.stage = PatchStage =>
          MayRegister(work.seen.spec) /\ ~Registered(work.read, work.seen.spec)

LEMMA PlanInvInit == Init => PlanInv
<1> SUFFICES ASSUME Init PROVE PlanInv
  OBVIOUS
<1>1. work.stage # PatchStage
  BY Stages DEF Init, NoWork
<1> QED
  BY <1>1, TypeInit DEF PlanInv

LEMMA PlanInvStep == PlanInv /\ [Next]_vars => PlanInv'
<1> SUFFICES ASSUME PlanInv, [Next]_vars PROVE PlanInv'
  OBVIOUS
<1> USE DEF PlanInv
<1>0. TypeOK'
  BY TypeStep
<1>1. ASSUME work'.stage # PatchStage PROVE PlanInv'
  BY <1>0, <1>1
<1>2. ASSUME UNCHANGED work PROVE PlanInv'
  BY <1>0, <1>2 DEF MayRegister, Registered, Upsert, Entry
<1>3. Abort => work'.stage # PatchStage
  BY Stages DEF Abort, NoWork
<1>4. CASE Begin
  <2>1. work' = NoWork \/ work' = [stage |-> 1, seen |-> inst]
    BY <1>4 DEF Begin
  <2> QED
    BY <1>1, <2>1, Stages DEF NoWork
<1>5. CASE SkipObject \/ WriteObject
  BY <1>1, <1>5, AdvanceObject DEF SkipObject, WriteObject
<1>6. CASE RefuseObject \/ RefuseRegistration \/ StatusConflict \/ Interrupt
  BY <1>1, <1>3, <1>6 DEF RefuseObject, RefuseRegistration, StatusConflict, Interrupt
<1>7. CASE SkipRegistration
  BY <1>1, <1>7, AdvanceRead DEF SkipRegistration
<1>8. CASE ReadOLSConfig
  <2>1. CASE Registered(ols, work.seen.spec)
    BY <1>1, <1>8, <2>1, AdvanceRead DEF ReadOLSConfig
  <2>2. CASE ~Registered(ols, work.seen.spec)
    <3>1. work' = [stage |-> PatchStage, seen |-> work.seen, read |-> ols]
      BY <1>8, <2>2 DEF ReadOLSConfig
    <3> QED
      BY <1>0, <1>8, <2>2, <3>1 DEF ReadOLSConfig, MayRegister, Registered, Upsert, Entry
  <2> QED
    BY <2>1, <2>2
<1>9. CASE PatchOLSConfig \/ UpdateStatus
  BY <1>1, <1>9, Stages DEF PatchOLSConfig, UpdateStatus, NoWork
<1>10. CASE Resync \/ UserStep \/ (\E o \in Objects : Collect(o)) \/ StartDatabase
  BY <1>2, <1>10 DEF Resync, UserStep, CreateInstallation, EditInstallation, DeleteInstallation,
     Drift, EditOLSConfig, RestoreOLSConfig, Collect, StartDatabase
<1>11. CASE UNCHANGED vars
  BY <1>2, <1>11 DEF vars
<1> QED
  BY <1>4, <1>5, <1>6, <1>7, <1>8, <1>9, <1>10, <1>11 DEF Next, Step, ReconcileStep

(* The controller patches only where the planner, given the OLSConfig the   *)
(* controller read, says that it would (planLightspeedRegistration against  *)
(* reconcileLightspeedRegistration).                                        *)
THEOREM PatchesArePlanned == Spec => []PatchesAsPlanned
<1>1. PlanInv => PatchesAsPlanned
  <2> SUFFICES ASSUME PlanInv, work.stage = PatchStage, NEW last \in BOOLEAN
               PROVE  RegistrationPlan(work.seen.spec, work.read, last).phase = "PatchPlanned"
                      /\ RegistrationPlan(work.seen.spec, work.read, last).willPatch
    BY DEF PatchesAsPlanned
  <2>1. work.read # NoOLS
    BY AtPatchShape, OLSConfigsExist DEF PlanInv
  <2>2. Changed(work.seen.spec, work.read, last)
    BY ServersAgree DEF PlanInv, Changed, Registered, PlannedGates
  <2>3. work.seen.spec.endpoint \in McpEndpoints /\ work.seen.spec.mode = "PatchOLSConfig"
    BY DEF PlanInv, MayRegister
  <2> QED
    BY <2>1, <2>2, <2>3 DEF RegistrationPlan
<1> QED
  BY <1>1, PlanInvInit, PlanInvStep, PTL DEF Spec

(* A patch that lands on the OLSConfig as it was read leaves what the       *)
(* planner planned for it.                                                  *)
THEOREM PatchesAreThePlan == Spec => PatchIsThePlan
<1> DEFINE Same == work.stage = PatchStage /\ ols = work.read /\ work' # work /\ ols' # ols =>
                      /\ ols'.servers = PlannedServers(work.seen.spec, work.read)
                      /\ ols'.gates = PlannedGates(work.read)
<1>1. ASSUME TypeOK, [Next]_vars, work.stage = PatchStage, work' # work, ols' # ols
      PROVE  PatchOLSConfig
  BY <1>1 DEF Next, Step, ReconcileStep, UserStep, Begin, SkipObject, WriteObject, RefuseObject,
     SkipRegistration, RefuseRegistration, ReadOLSConfig, UpdateStatus, StatusConflict, Interrupt,
     Resync, CreateInstallation, EditInstallation, DeleteInstallation, Drift, EditOLSConfig,
     RestoreOLSConfig, Collect, StartDatabase, vars
<1>2. ASSUME TypeOK, PatchOLSConfig, ols = work.read PROVE Same
  <2>1. ols' = Merged(ols, ols, work.seen.spec)
    BY <1>2 DEF PatchOLSConfig
  <2> QED
    BY <1>2, <2>1, ServersAgree DEF Merged, PlannedGates
<1>3. TypeOK /\ [Next]_vars => [Same]_vars
  BY <1>1, <1>2
<1> QED
  BY <1>3, TypeCorrect, PTL DEF Spec, PatchIsThePlan
=============================================================================
