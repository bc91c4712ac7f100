---------------------- MODULE KubernetesExecutionProofs ----------------------
(***************************************************************************)
(* What an execution job on Kubernetes keeps to for any number of          *)
(* controllers and claims, any lease and any faults.  Each conjunct of     *)
(* IndInv has a lemma with one step per action.                            *)
(***************************************************************************)
EXTENDS KubernetesExecution, FiniteSetTheorems, TLAPS

(* The job is queued, and the cluster knows nothing of it. *)
LEMMA InitIndInv == Init => IndInv
<1> SUFFICES ASSUME Init PROVE IndInv
  OBVIOUS
<1> USE KubernetesAssumption DEF Init, JobRow, NoKJob
<1>1. TypeOK
  BY DEF TypeOK, JobStatuses, PCs
<1>2. PodsShape /\ ControllerShape
  BY DEF PodsShape, ControllerShape
<1>3. ResultShape(job.status) /\ RunShape /\ UploadShape
  BY DEF ResultShape, RunShape, UploadShape
<1> QED
  BY <1>1, <1>2, <1>3 DEF IndInv

(* Pod u has become q, and the other Pods are what they were. *)
Becomes(u, q) ==
    /\ pods' \in Seq(PodType) /\ Len(pods') = Len(pods)
    /\ pods'[u] = q
    /\ \A v \in 1 .. Len(pods) : v # u => pods'[v] = pods[v]

LEMMA PodBecomes ==
    ASSUME pods \in Seq(PodType), NEW u \in 1 .. Len(pods), NEW q \in PodType,
           pods' = [pods EXCEPT ![u] = q]
    PROVE  Becomes(u, q)
  BY DEF Becomes

(* The helpers and the kubelet change one Pod at a time. *)
LEMMA PodUpdates ==
    ASSUME TypeOK, NEW u \in 1 .. Len(pods)
    PROVE  /\ pods[u] \in PodType
           /\ \A ph \in PodPhases :
                SetPhase(u, ph) => Becomes(u, [pods[u] EXCEPT !.phase = ph])
           /\ \A up \in UploadPhases :
                SetUpload(u, up) => Becomes(u, [pods[u] EXCEPT !.upload = up])
           /\ pods' = [pods EXCEPT ![u].phase = "build", ![u].ran = TRUE]
                => Becomes(u, [pods[u] EXCEPT !.phase = "build", !.ran = TRUE])
           /\ pods' = [pods EXCEPT ![u].phase = "publish", ![u].passed = TRUE]
                => Becomes(u, [pods[u] EXCEPT !.phase = "publish", !.passed = TRUE])
<1>1. pods \in Seq(PodType) /\ pods[u] \in PodType
  BY DEF TypeOK
<1>2. ASSUME NEW ph \in PodPhases, SetPhase(u, ph)
      PROVE  Becomes(u, [pods[u] EXCEPT !.phase = ph])
  <2>1. [pods[u] EXCEPT !.phase = ph] \in PodType
    BY <1>1 DEF PodType
  <2> QED
    BY <1>1, <1>2, <2>1, PodBecomes DEF SetPhase
<1>3. ASSUME NEW up \in UploadPhases, SetUpload(u, up)
      PROVE  Becomes(u, [pods[u] EXCEPT !.upload = up])
  <2>1. [pods[u] EXCEPT !.upload = up] \in PodType
    BY <1>1 DEF PodType
  <2> QED
    BY <1>1, <1>3, <2>1, PodBecomes DEF SetUpload
<1>4. ASSUME pods' = [pods EXCEPT ![u].phase = "build", ![u].ran = TRUE]
      PROVE  Becomes(u, [pods[u] EXCEPT !.phase = "build", !.ran = TRUE])
  <2>1. [pods[u] EXCEPT !.phase = "build", !.ran = TRUE] \in PodType
    BY <1>1 DEF PodType, PodPhases
  <2>2. pods' = [pods EXCEPT ![u] = [pods[u] EXCEPT !.phase = "build", !.ran = TRUE]]
    BY <1>1, <1>4
  <2> QED
    BY <1>1, <2>1, <2>2, PodBecomes
<1>5. ASSUME pods' = [pods EXCEPT ![u].phase = "publish", ![u].passed = TRUE]
      PROVE  Becomes(u, [pods[u] EXCEPT !.phase = "publish", !.passed = TRUE])
  <2>1. [pods[u] EXCEPT !.phase = "publish", !.passed = TRUE] \in PodType
    BY <1>1 DEF PodType, PodPhases
  <2>2. pods' = [pods EXCEPT ![u] = [pods[u] EXCEPT !.phase = "publish", !.passed = TRUE]]
    BY <1>1, <1>5
  <2> QED
    BY <1>1, <2>1, <2>2, PodBecomes
<1> QED
  BY <1>1, <1>2, <1>3, <1>4, <1>5

(* A Job that is created brings a Pod with the claim of its creator. *)
LEMMA PodCreated ==
    ASSUME TypeOK, ControllerShape, NEW c \in Controllers, pc[c] = "create", CreateKJob(c)
    PROVE  /\ pods' \in Seq(PodType) /\ Len(pods') = Len(pods) + 1
           /\ kjob' = [uid |-> Len(pods) + 1, condition |-> "none"]
           /\ pods'[Len(pods) + 1] = [tok |-> step[c], phase |-> "prepare", upload |-> "none",
                                       ran |-> FALSE, passed |-> FALSE]
           /\ \A v \in 1 .. Len(pods) : pods'[v] = pods[v]
<1> DEFINE pod == [tok |-> step[c], phase |-> "prepare", upload |-> "none",
                   ran |-> FALSE, passed |-> FALSE]
<1>1. pod \in PodType
  BY KubernetesAssumption DEF TypeOK, ControllerShape, PodType, PodPhases, UploadPhases, Claims
<1> HIDE DEF pod
<1>2. pods \in Seq(PodType) /\ pods' = Append(pods, pod)
  BY DEF TypeOK, CreateKJob, pod
<1>3. /\ pods' \in Seq(PodType) /\ Len(pods') = Len(pods) + 1
      /\ pods'[Len(pods) + 1] = pod
      /\ \A v \in 1 .. Len(pods) : pods'[v] = pods[v]
  BY <1>1, <1>2
<1> QED
  BY <1>3 DEF CreateKJob, pod

(* A step keeps the types. *)
LEMMA TypeStep == TypeOK /\ ControllerShape /\ [Next]_vars => TypeOK'
<1> SUFFICES ASSUME TypeOK, ControllerShape, [Next]_vars PROVE TypeOK'
  OBVIOUS
<1> USE KubernetesAssumption
     DEF TypeOK, ControllerShape, JobStatuses, PCs, PodPhases, UploadPhases, Claims
<1>1. ASSUME NEW c \in Controllers, ClaimRunnableStep(c) PROVE TypeOK'
  BY <1>1 DEF ClaimRunnableStep, Claimable, JobRow, Goto, cluster
<1>2. ASSUME NEW c \in Controllers, ReconcileClaimed(c) PROVE TypeOK'
  <2>1. pc' \in [Controllers -> PCs]
    BY <1>2 DEF ReconcileClaimed, Goto
  <2>2. active' = active \/ active' = [active EXCEPT ![c] = step[c]]
    BY <1>2 DEF ReconcileClaimed
  <2>3. seen' = seen \/ seen' = [seen EXCEPT ![c] = "failed"]
    BY <1>2 DEF ReconcileClaimed
  <2>4. active' \in [Controllers -> 0 .. MaxClaims] /\ seen' \in [Controllers -> {"none", "success", "failed"}]
    <3>1. step[c] \in 0 .. MaxClaims
      OBVIOUS
    <3>2. active' \in [Controllers -> 0 .. MaxClaims]
      BY <2>2, <3>1
    <3> QED
      BY <2>3, <3>2
  <2> QED
    BY <2>1, <2>4, <1>2 DEF ReconcileClaimed, durable, cluster
<1>3. ASSUME NEW c \in Controllers, GetExecutionJob(c) PROVE TypeOK'
  <2>1. pc' \in [Controllers -> PCs]
    BY <1>3 DEF GetExecutionJob, Goto
  <2>2. active' \in [Controllers -> 0 .. MaxClaims]
    BY <1>3 DEF GetExecutionJob, Drop
  <2>3. step' \in [Controllers -> 0 .. MaxClaims]
    BY <1>3 DEF GetExecutionJob
  <2> QED
    BY <2>1, <2>2, <2>3, <1>3 DEF GetExecutionJob, durable, cluster
<1>4. ASSUME NEW c \in Controllers, GetJob(c) PROVE TypeOK'
  BY <1>4 DEF GetJob, TerminalResult, Goto, durable, cluster
<1>5. ASSUME NEW c \in Controllers, CreateJob(c) PROVE TypeOK'
  <2>1. pc' \in [Controllers -> PCs]
    BY <1>5 DEF CreateJob, Goto
  <2>2. /\ kjob' \in [uid : 0 .. Len(pods'), condition : {"none", "success", "failed"}]
        /\ pods' \in Seq(PodType)
    <3>1. CASE pc[c] = "create" /\ CreateKJob(c)
      <4>1. pods' \in Seq(PodType) /\ Len(pods') = Len(pods) + 1
            /\ kjob' = [uid |-> Len(pods) + 1, condition |-> "none"]
        BY <3>1, PodCreated
      <4>2. Len(pods) + 1 \in 0 .. Len(pods')
        BY <4>1
      <4> QED
        BY <4>1, <4>2
    <3>2. CASE UNCHANGED cluster
      BY <3>2 DEF cluster
    <3> QED
      BY <1>5, <3>1, <3>2 DEF CreateJob
  <2> QED
    BY <2>1, <2>2, <1>5 DEF CreateJob, durable, memory
<1>6. ASSUME NEW c \in Controllers, Complete(c) PROVE TypeOK'
  BY <1>6 DEF Complete, CompleteStepAndJob, HoldsUnexpired, Holds, JobRow, Drop, Goto, cluster
<1>7. ASSUME NEW c \in Controllers, RenewRunnableStepLease(c) PROVE TypeOK'
  <2>1. job' = job \/ job' = [job EXCEPT !.left = Lease]
    BY <1>7 DEF RenewRunnableStepLease
  <2>2. job' \in [status : JobStatuses, tok : 0 .. MaxClaims, left : 0 .. Lease]
    BY <2>1
  <2>3. active' = active \/ active' = [active EXCEPT ![c] = 0]
    BY <1>7 DEF RenewRunnableStepLease, Drop
  <2>4. active' \in [Controllers -> 0 .. MaxClaims]
    <3>1. 0 \in 0 .. MaxClaims /\ active \in [Controllers -> 0 .. MaxClaims]
      OBVIOUS
    <3> QED
      BY <2>3, <3>1
  <2>5. pc' \in [Controllers -> PCs]
    BY <1>7 DEF RenewRunnableStepLease, Goto
  <2> QED
    BY <2>2, <2>4, <2>5, <1>7 DEF RenewRunnableStepLease, cluster
<1>8. ASSUME NEW c \in Controllers, Refresh(c) PROVE TypeOK'
  BY <1>8 DEF Refresh, Goto, durable, cluster, memory
<1>9. ASSUME NEW c \in Controllers, DeleteJob(c) PROVE TypeOK'
  BY <1>9 DEF DeleteJob, NoKJob, Goto, durable, memory
<1>10. ASSUME NEW c \in Controllers, SweepJob(c) PROVE TypeOK'
  BY <1>10 DEF SweepJob, Goto, durable, cluster, memory
<1>11. ASSUME NEW c \in Controllers, ListJobs(c) PROVE TypeOK'
  BY <1>11 DEF ListJobs, Goto, durable, cluster, memory
<1>12. ASSUME NEW c \in Controllers, CallFails(c) PROVE TypeOK'
  BY <1>12 DEF CallFails, Goto, durable, cluster, memory
<1>13. ASSUME NEW c \in Controllers, AnswerFails(c) PROVE TypeOK'
  <2>1. job' \in [status : JobStatuses, tok : 0 .. MaxClaims, left : 0 .. Lease]
    BY <1>13 DEF AnswerFails, CompleteStepAndJob, JobRow
  <2>2. /\ kjob' \in [uid : 0 .. Len(pods'), condition : {"none", "success", "failed"}]
        /\ pods' \in Seq(PodType)
    <3>1. CASE pc[c] = "create" /\ CreateKJob(c)
      <4>1. pods' \in Seq(PodType) /\ Len(pods') = Len(pods) + 1
            /\ kjob' = [uid |-> Len(pods) + 1, condition |-> "none"]
        BY <3>1, PodCreated
      <4>2. Len(pods) + 1 \in 0 .. Len(pods')
        BY <4>1
      <4> QED
        BY <4>1, <4>2
    <3>2. CASE UNCHANGED cluster
      BY <3>2 DEF cluster
    <3> QED
      BY <1>13, <3>1, <3>2 DEF AnswerFails
  <2>3. pc' \in [Controllers -> PCs] /\ faults' \in 0 .. MaxFaults
    BY <1>13 DEF AnswerFails, Goto
  <2> QED
    BY <2>1, <2>2, <2>3, <1>13 DEF AnswerFails, memory
<1>14. ASSUME NEW c \in Controllers, Crash(c) PROVE TypeOK'
  BY <1>14 DEF Crash, Drop, Goto, durable, cluster
<1>15. ASSUME NEW u \in 1 .. Len(pods), WorkspacePrepare(u) PROVE TypeOK'
  BY <1>15, PodUpdates
       DEF WorkspacePrepare, Authorized, HoldsUnexpired, Holds, PodUnchanged, memory, Becomes
<1>16. ASSUME NEW u \in 1 .. Len(pods), BuildExits(u) PROVE TypeOK'
  BY <1>16, PodUpdates DEF BuildExits, PodUnchanged, memory, Becomes
<1>17. ASSUME NEW u \in 1 .. Len(pods), PublishAuthorize(u) PROVE TypeOK'
  BY <1>17, PodUpdates DEF PublishAuthorize, PodUnchanged, memory, Becomes
<1>18. ASSUME NEW u \in 1 .. Len(pods), CreatePublishing(u) PROVE TypeOK'
  <2>1. pods' \in Seq(PodType) /\ Len(pods') = Len(pods)
    BY <1>18, PodUpdates DEF CreatePublishing, Becomes
  <2>2. revision' = revision \/ revision' = [revision EXCEPT !.status = "publishing"]
    BY <1>18 DEF CreatePublishing
  <2>3. revision' \in [status : {"none", "publishing", "published"}, object : 0 .. MaxClaims]
    BY <2>2
  <2> QED
    BY <2>1, <2>3, <1>18 DEF CreatePublishing, PodUnchanged, memory
<1>19. ASSUME NEW u \in 1 .. Len(pods), StorePublish(u) PROVE TypeOK'
  <2>1. kjob' \in [uid : 0 .. Len(pods'), condition : {"none", "success", "failed"}] /\ pods' \in Seq(PodType)
    BY <1>19, PodUpdates DEF StorePublish, PodUnchanged, Becomes
  <2>2. objects' \subseteq Claims
    BY <1>19, PodUpdates DEF StorePublish, PodType
  <2> QED
    BY <2>1, <2>2, <1>19 DEF StorePublish, PodUnchanged, memory
<1>20. ASSUME NEW u \in 1 .. Len(pods), MarkPublishedIfClaimed(u) PROVE TypeOK'
  <2>1. kjob' = kjob /\ pods' \in Seq(PodType) /\ Len(pods') = Len(pods)
    BY <1>20, PodUpdates DEF MarkPublishedIfClaimed, PodUnchanged, Becomes
  <2>2. pods[u].tok \in 0 .. MaxClaims
    <3>1. pods[u] \in PodType
      BY PodUpdates
    <3> QED
      BY <3>1 DEF PodType
  <2>3. revision' = revision \/ revision' = [status |-> "published", object |-> pods[u].tok]
    BY <1>20 DEF MarkPublishedIfClaimed
  <2>4. revision' \in [status : {"none", "publishing", "published"}, object : 0 .. MaxClaims]
    BY <2>2, <2>3
  <2> QED
    BY <2>1, <2>4, <1>20 DEF MarkPublishedIfClaimed, PodUnchanged, memory
<1>21. ASSUME NEW u \in 1 .. Len(pods), PublishExits(u) PROVE TypeOK'
  BY <1>21, PodUpdates DEF PublishExits, PodUnchanged, memory, Becomes
<1>22. ASSUME NEW u \in 1 .. Len(pods), JobCondition(u) PROVE TypeOK'
  BY <1>22 DEF JobCondition, durable, memory
<1>23. ASSUME NEW u \in 1 .. Len(pods), CollectPod(u) PROVE TypeOK'
  BY <1>23, PodUpdates DEF CollectPod, PodUnchanged, memory, Becomes
<1>24. ASSUME NEW u \in 1 .. Len(pods), PublishFails(u) PROVE TypeOK'
  BY <1>24, PodUpdates DEF PublishFails, PodUnchanged, memory, Becomes
<1>25. ASSUME NEW u \in 1 .. Len(pods), PodFails(u) PROVE TypeOK'
  BY <1>25, PodUpdates DEF PodFails, PodUnchanged, memory, Becomes
<1>26. CASE Tick
  <2>1. job.left - 1 \in 0 .. Lease /\ job' = [job EXCEPT !.left = job.left - 1]
    BY <1>26 DEF Tick
  <2>2. job' \in [status : JobStatuses, tok : 0 .. MaxClaims, left : 0 .. Lease]
    BY <2>1
  <2> QED
    BY <2>2, <1>26 DEF Tick, cluster, memory
<1>27. CASE CancelBuild
  BY <1>27 DEF CancelBuild, JobRow, cluster, memory
<1>28. CASE UNCHANGED vars
  BY <1>28 DEF vars
<1> QED
  BY <1>1, <1>2, <1>3, <1>4, <1>5, <1>6, <1>7, <1>8, <1>9, <1>10, <1>11, <1>12, <1>13,
     <1>14, <1>15, <1>16, <1>17, <1>18, <1>19, <1>20, <1>21, <1>22, <1>23, <1>24, <1>25,
     <1>26, <1>27, <1>28 DEF Next, ControllerStep, HelperStep

(* What the helpers and the kubelet leave alone: the other Pods, and the   *)
(* claim of Pod u.                                                         *)
Same(u) ==
    /\ Len(pods') = Len(pods)
    /\ pods'[u].tok = pods[u].tok
    /\ \A v \in 1 .. Len(pods) : v # u => pods'[v] = pods[v]

LEMMA PodsCounted == TypeOK => Len(pods) \in Nat
  BY DEF TypeOK

(* Until it is canceled, the execution has one Pod at most. *)
LEMMA TheOnlyPod ==
    ASSUME TypeOK, PodsShape, kjob.uid # 0, job.status # "canceled"
    PROVE  Len(pods) = 1 /\ kjob.uid = 1
<1>1. Len(pods) <= 1 /\ kjob.uid = Len(pods) /\ Len(pods) # 0
  BY DEF PodsShape
<1>2. Len(pods) \in Nat
  BY PodsCounted
<1>3. Len(pods) = 1
  BY <1>1, <1>2
<1> QED
  BY <1>1, <1>3

(* A new Pod is the last one, and its helpers have done nothing yet. *)
Created ==
    /\ Len(pods') = Len(pods) + 1 /\ kjob'.uid = Len(pods) + 1 /\ kjob'.condition = "none"
    /\ pods'[Len(pods) + 1].phase = "prepare" /\ pods'[Len(pods) + 1].upload = "none"
    /\ ~pods'[Len(pods) + 1].ran
    /\ \A v \in 1 .. Len(pods) : pods'[v] = pods[v]

LEMMA CreateSets ==
    ASSUME TypeOK, ControllerShape, NEW c \in Controllers, pc[c] = "create", CreateKJob(c)
    PROVE  Created
<1>1. /\ Len(pods') = Len(pods) + 1
      /\ kjob' = [uid |-> Len(pods) + 1, condition |-> "none"]
      /\ pods'[Len(pods) + 1] = [tok |-> step[c], phase |-> "prepare", upload |-> "none",
                                  ran |-> FALSE, passed |-> FALSE]
      /\ \A v \in 1 .. Len(pods) : pods'[v] = pods[v]
  BY PodCreated
<1> QED
  BY <1>1 DEF Created

(* The Pod fails, ends or is collected ... *)
LEMMA PhaseSets ==
    ASSUME TypeOK, NEW u \in 1 .. Len(pods), NEW ph, SetPhase(u, ph)
    PROVE  /\ Same(u) /\ pods'[u].phase = ph /\ pods'[u].upload = pods[u].upload
           /\ pods'[u].ran = pods[u].ran /\ pods'[u].passed = pods[u].passed
  BY DEF TypeOK, SetPhase, Same, PodType

(* ... its upload goes on ... *)
LEMMA UploadSets ==
    ASSUME TypeOK, NEW u \in 1 .. Len(pods), NEW up, SetUpload(u, up)
    PROVE  /\ Same(u) /\ pods'[u].upload = up /\ pods'[u].phase = pods[u].phase
           /\ pods'[u].ran = pods[u].ran /\ pods'[u].passed = pods[u].passed
  BY DEF TypeOK, SetUpload, Same, PodType

(* ... its build starts, while the execution is running ... *)
LEMMA PrepareSets ==
    ASSUME TypeOK, NEW u \in 1 .. Len(pods), WorkspacePrepare(u)
    PROVE  /\ Same(u) /\ pods'[u].phase \in {"build", "failed"}
           /\ pods'[u].upload = pods[u].upload /\ pods'[u].passed = pods[u].passed
           /\ pods'[u].ran = pods[u].ran \/ job.status = "running"
<1>1. CASE HoldsUnexpired(pods[u].tok)
           /\ pods' = [pods EXCEPT ![u].phase = "build", ![u].ran = TRUE]
  <2>1. pods[u] \in PodType /\ Becomes(u, [pods[u] EXCEPT !.phase = "build", !.ran = TRUE])
    BY <1>1, PodUpdates
  <2> QED
    BY <1>1, <2>1 DEF Becomes, Same, PodType, HoldsUnexpired, Holds
<1>2. CASE SetPhase(u, "failed")
  BY <1>2, PhaseSets DEF Same
<1> QED
  BY <1>1, <1>2 DEF WorkspacePrepare, Authorized

(* ... and passes or not. *)
LEMMA BuildSets ==
    ASSUME TypeOK, NEW u \in 1 .. Len(pods), BuildExits(u)
    PROVE  /\ Same(u) /\ pods'[u].upload = pods[u].upload /\ pods'[u].ran = pods[u].ran
           /\ \/ pods'[u].phase = "publish" /\ pods'[u].passed
              \/ pods'[u].phase = "failed" /\ pods'[u].passed = pods[u].passed
<1>1. CASE pods' = [pods EXCEPT ![u].phase = "publish", ![u].passed = TRUE]
  <2>1. pods[u] \in PodType /\ Becomes(u, [pods[u] EXCEPT !.phase = "publish", !.passed = TRUE])
    BY <1>1, PodUpdates
  <2> QED
    BY <2>1 DEF Becomes, Same, PodType
<1>2. CASE SetPhase(u, "failed")
  BY <1>2, PhaseSets DEF Same
<1> QED
  BY <1>1, <1>2 DEF BuildExits

(* The steps of the helpers, the uploads and the kubelet. *)
PodStep(u) ==
    \/ WorkspacePrepare(u) \/ BuildExits(u) \/ PublishAuthorize(u) \/ CreatePublishing(u)
    \/ StorePublish(u) \/ MarkPublishedIfClaimed(u) \/ PublishExits(u) \/ CollectPod(u)
    \/ PublishFails(u) \/ PodFails(u)

(* None of them changes how the Pod of the Job ended. *)
LEMMA EndsStay ==
    ASSUME TypeOK, NEW u \in 1 .. Len(pods), PodStep(u)
    PROVE  /\ Same(u)
           /\ UNCHANGED <<job, kjob, supported, pc, step, seen>>
           /\ pods[u].phase \in {"succeeded", "failed"} /\ kjob.uid = u
                => pods'[u].phase = pods[u].phase
<1>1. UNCHANGED <<job, kjob, supported, pc, step, seen>>
  BY DEF PodStep, WorkspacePrepare, BuildExits, PublishAuthorize, CreatePublishing, StorePublish,
     MarkPublishedIfClaimed, PublishExits, CollectPod, PublishFails, PodFails, PodUnchanged, memory
<1>2. CASE WorkspacePrepare(u)
  BY <1>1, <1>2, PrepareSets DEF WorkspacePrepare
<1>3. CASE BuildExits(u)
  BY <1>1, <1>3, BuildSets DEF BuildExits
<1>4. CASE PublishExits(u) \/ CollectPod(u) \/ PodFails(u)
  BY <1>1, <1>4, PhaseSets DEF PublishExits, CollectPod, PodFails
<1>5. CASE \/ PublishAuthorize(u) \/ CreatePublishing(u) \/ StorePublish(u)
           \/ MarkPublishedIfClaimed(u) \/ PublishFails(u)
  <2>1. \E up \in UploadPhases : SetUpload(u, up)
    BY <1>5 DEF PublishAuthorize, CreatePublishing, StorePublish, MarkPublishedIfClaimed,
       PublishFails, UploadPhases
  <2> QED
    BY <1>1, <2>1, UploadSets
<1> QED
  BY <1>2, <1>3, <1>4, <1>5 DEF PodStep

(* Only a canceled execution has its Kubernetes Job deleted, and a          *)
(* condition is reported of a Pod that stays as it ended.                  *)
LEMMA PodsKept == TypeOK /\ ControllerShape /\ PodsShape /\ [Next]_vars => PodsShape'
<1> SUFFICES ASSUME TypeOK, ControllerShape, PodsShape, [Next]_vars PROVE PodsShape'
  OBVIOUS
<1> USE KubernetesAssumption DEF PodsShape
<1>1. ASSUME NEW c \in Controllers, ClaimRunnableStep(c) PROVE PodsShape'
  BY <1>1, PodsCounted DEF ClaimRunnableStep, Claimable, JobRow, Goto, cluster
<1>2. ASSUME NEW c \in Controllers, ReconcileClaimed(c) PROVE PodsShape'
  BY <1>2, PodsCounted DEF ReconcileClaimed, Goto, durable, cluster
<1>3. ASSUME NEW c \in Controllers, GetExecutionJob(c) PROVE PodsShape'
  BY <1>3, PodsCounted DEF GetExecutionJob, Drop, Goto, durable, cluster
<1>4. ASSUME NEW c \in Controllers, GetJob(c) PROVE PodsShape'
  BY <1>4, PodsCounted DEF GetJob, TerminalResult, Goto, durable, cluster
<1>5. ASSUME NEW c \in Controllers, CreateJob(c) PROVE PodsShape'
  <2>1. CASE pc[c] = "create" /\ kjob.uid = 0 /\ CreateKJob(c)
    <3>1. Created /\ UNCHANGED <<job, revision, objects>>
      BY <1>5, <2>1, CreateSets DEF CreateJob, durable
    <3> QED
      BY <3>1, <2>1, PodsCounted DEF Created
  <2>2. CASE UNCHANGED cluster
    BY <1>5, <2>2, PodsCounted DEF CreateJob, Goto, durable, memory, cluster
  <2> QED
    BY <1>5, <2>1, <2>2 DEF CreateJob
<1>6. ASSUME NEW c \in Controllers, Complete(c) PROVE PodsShape'
  BY <1>6, PodsCounted
       DEF Complete, CompleteStepAndJob, HoldsUnexpired, Holds, JobRow, Drop, Goto, cluster
<1>7. ASSUME NEW c \in Controllers, RenewRunnableStepLease(c) PROVE PodsShape'
  BY <1>7, PodsCounted DEF RenewRunnableStepLease, Holds, Drop, Goto, cluster
<1>8. ASSUME NEW c \in Controllers, Refresh(c) PROVE PodsShape'
  BY <1>8, PodsCounted DEF Refresh, Goto, durable, cluster, memory
<1>9. ASSUME NEW c \in Controllers, DeleteJob(c) PROVE PodsShape'
  BY <1>9, PodsCounted DEF DeleteJob, NoKJob, Goto, durable, memory, ControllerShape
<1>10. ASSUME NEW c \in Controllers, SweepJob(c) PROVE PodsShape'
  BY <1>10, PodsCounted DEF SweepJob, Goto, durable, cluster, memory
<1>11. ASSUME NEW c \in Controllers, ListJobs(c) PROVE PodsShape'
  BY <1>11, PodsCounted DEF ListJobs, Goto, durable, cluster, memory
<1>12. ASSUME NEW c \in Controllers, CallFails(c) PROVE PodsShape'
  BY <1>12, PodsCounted DEF CallFails, Goto, durable, cluster, memory
<1>13. ASSUME NEW c \in Controllers, AnswerFails(c) PROVE PodsShape'
  <2>1. CASE pc[c] = "create" /\ kjob.uid = 0 /\ CreateKJob(c) /\ UNCHANGED job
    <3>1. Created /\ UNCHANGED <<revision, objects>>
      BY <1>13, <2>1, CreateSets DEF AnswerFails
    <3> QED
      BY <3>1, <2>1, PodsCounted DEF Created
  <2>2. CASE pc[c] = "complete" /\ CompleteStepAndJob(c) /\ UNCHANGED cluster
    BY <1>13, <2>2, PodsCounted DEF AnswerFails, CompleteStepAndJob, HoldsUnexpired, Holds, JobRow,
       Goto, cluster, memory
  <2> QED
    BY <1>13, <2>1, <2>2 DEF AnswerFails
<1>14. ASSUME NEW c \in Controllers, Crash(c) PROVE PodsShape'
  BY <1>14, PodsCounted DEF Crash, Drop, Goto, durable, cluster
<1>15. ASSUME NEW u \in 1 .. Len(pods), JobCondition(u) PROVE PodsShape'
  BY <1>15, PodsCounted DEF JobCondition, durable, memory
<1>16. CASE Tick
  BY <1>16, PodsCounted DEF Tick, cluster, memory
<1>17. CASE CancelBuild
  BY <1>17, PodsCounted DEF CancelBuild, JobRow, cluster, memory
<1>18. ASSUME NEW u \in 1 .. Len(pods), PodStep(u) PROVE PodsShape'
  BY <1>18, EndsStay, PodsCounted DEF Same
<1>19. CASE UNCHANGED vars
  BY <1>19 DEF vars
<1> QED
  BY <1>1, <1>2, <1>3, <1>4, <1>5, <1>6, <1>7, <1>8, <1>9, <1>10, <1>11, <1>12, <1>13,
     <1>14, <1>15, <1>16, <1>17, <1>18, <1>19 DEF Next, ControllerStep, HelperStep, PodStep

(* workspace-prepare lets a Pod pass only while the execution is running,   *)
(* and a running execution has no second Pod.                              *)
LEMMA RunKept == TypeOK /\ ControllerShape /\ PodsShape /\ RunShape /\ [Next]_vars => RunShape'
<1> SUFFICES ASSUME TypeOK, ControllerShape, PodsShape, RunShape, [Next]_vars PROVE RunShape'
  OBVIOUS
<1> USE KubernetesAssumption DEF PodsShape, RunShape
<1>1. ASSUME NEW c \in Controllers, ClaimRunnableStep(c) PROVE RunShape'
  BY <1>1, PodsCounted DEF ClaimRunnableStep, Claimable, JobRow, Goto, cluster
<1>2. ASSUME NEW c \in Controllers, ReconcileClaimed(c) PROVE RunShape'
  BY <1>2, PodsCounted DEF ReconcileClaimed, Goto, durable, cluster
<1>3. ASSUME NEW c \in Controllers, GetExecutionJob(c) PROVE RunShape'
  BY <1>3, PodsCounted DEF GetExecutionJob, Drop, Goto, durable, cluster
<1>4. ASSUME NEW c \in Controllers, GetJob(c) PROVE RunShape'
  BY <1>4, PodsCounted DEF GetJob, TerminalResult, Goto, durable, cluster
<1>5. ASSUME NEW c \in Controllers, CreateJob(c) PROVE RunShape'
  <2>1. CASE pc[c] = "create" /\ kjob.uid = 0 /\ CreateKJob(c)
    <3>1. Created /\ UNCHANGED <<job, revision, objects>>
      BY <1>5, <2>1, CreateSets DEF CreateJob, durable
    <3> QED
      BY <3>1, <2>1, PodsCounted DEF Created
  <2>2. CASE UNCHANGED cluster
    BY <1>5, <2>2, PodsCounted DEF CreateJob, Goto, durable, memory, cluster
  <2> QED
    BY <1>5, <2>1, <2>2 DEF CreateJob
<1>6. ASSUME NEW c \in Controllers, Complete(c) PROVE RunShape'
  BY <1>6, PodsCounted
       DEF Complete, CompleteStepAndJob, HoldsUnexpired, Holds, JobRow, Drop, Goto, cluster
<1>7. ASSUME NEW c \in Controllers, RenewRunnableStepLease(c) PROVE RunShape'
  BY <1>7, PodsCounted DEF RenewRunnableStepLease, Holds, Drop, Goto, cluster
<1>8. ASSUME NEW c \in Controllers, Refresh(c) PROVE RunShape'
  BY <1>8, PodsCounted DEF Refresh, Goto, durable, cluster, memory
<1>9. ASSUME NEW c \in Controllers, DeleteJob(c) PROVE RunShape'
  BY <1>9, PodsCounted DEF DeleteJob, NoKJob, Goto, durable, memory
<1>10. ASSUME NEW c \in Controllers, SweepJob(c) PROVE RunShape'
  BY <1>10, PodsCounted DEF SweepJob, Goto, durable, cluster, memory
<1>11. ASSUME NEW c \in Controllers, ListJobs(c) PROVE RunShape'
  BY <1>11, PodsCounted DEF ListJobs, Goto, durable, cluster, memory
<1>12. ASSUME NEW c \in Controllers, CallFails(c) PROVE RunShape'
  BY <1>12, PodsCounted DEF CallFails, Goto, durable, cluster, memory
<1>13. ASSUME NEW c \in Controllers, AnswerFails(c) PROVE RunShape'
  <2>1. CASE pc[c] = "create" /\ kjob.uid = 0 /\ CreateKJob(c) /\ UNCHANGED job
    <3>1. Created /\ UNCHANGED <<revision, objects>>
      BY <1>13, <2>1, CreateSets DEF AnswerFails
    <3> QED
      BY <3>1, <2>1, PodsCounted DEF Created
  <2>2. CASE pc[c] = "complete" /\ CompleteStepAndJob(c) /\ UNCHANGED cluster
    BY <1>13, <2>2, PodsCounted DEF AnswerFails, CompleteStepAndJob, HoldsUnexpired, Holds, JobRow,
       Goto, cluster, memory
  <2> QED
    BY <1>13, <2>1, <2>2 DEF AnswerFails
<1>14. ASSUME NEW c \in Controllers, Crash(c) PROVE RunShape'
  BY <1>14, PodsCounted DEF Crash, Drop, Goto, durable, cluster
<1>15. ASSUME NEW u \in 1 .. Len(pods), WorkspacePrepare(u) PROVE RunShape'
  <2>1. Same(u) /\ (pods'[u].ran = pods[u].ran \/ job.status = "running")
    BY <1>15, PrepareSets
  <2> QED
    BY <2>1, PodsCounted DEF Same
<1>16. ASSUME NEW u \in 1 .. Len(pods), BuildExits(u) PROVE RunShape'
  BY <1>16, BuildSets, PodsCounted DEF BuildExits, PodUnchanged, memory, Same
<1>17. ASSUME NEW u \in 1 .. Len(pods), PublishAuthorize(u) PROVE RunShape'
  <2>1. SetUpload(u, "create") \/ SetUpload(u, "refused")
    BY <1>17 DEF PublishAuthorize
  <2> QED
    BY <1>17, <2>1, UploadSets, PodsCounted DEF PublishAuthorize, PodUnchanged, memory, Same
<1>18. ASSUME NEW u \in 1 .. Len(pods), CreatePublishing(u) PROVE RunShape'
  <2>1. SetUpload(u, "store") \/ SetUpload(u, "refused")
    BY <1>18 DEF CreatePublishing
  <2>2. revision' = revision \/ revision.status = "none"
    BY <1>18 DEF CreatePublishing
  <2> QED
    BY <1>18, <2>1, <2>2, UploadSets, PodsCounted DEF CreatePublishing, PodUnchanged, memory, Same
<1>19. ASSUME NEW u \in 1 .. Len(pods), StorePublish(u) PROVE RunShape'
  BY <1>19, UploadSets, PodsCounted DEF StorePublish, PodUnchanged, memory, Same
<1>20. ASSUME NEW u \in 1 .. Len(pods), MarkPublishedIfClaimed(u) PROVE RunShape'
  <2>1. \/ SetUpload(u, "refused") /\ UNCHANGED revision
        \/ SetUpload(u, "done") /\ revision'.status = "published" /\ revision'.object = pods[u].tok
    BY <1>20 DEF MarkPublishedIfClaimed
  <2> QED
    BY <1>20, <2>1, UploadSets, PodsCounted DEF MarkPublishedIfClaimed, PodUnchanged, memory, Same
<1>21. ASSUME NEW u \in 1 .. Len(pods), PublishExits(u) PROVE RunShape'
  BY <1>21, PhaseSets, PodsCounted DEF PublishExits, PodUnchanged, memory, Same
<1>22. ASSUME NEW u \in 1 .. Len(pods), JobCondition(u) PROVE RunShape'
  BY <1>22, PodsCounted DEF JobCondition, durable, memory
<1>23. ASSUME NEW u \in 1 .. Len(pods), CollectPod(u) PROVE RunShape'
  BY <1>23, PhaseSets, PodsCounted DEF CollectPod, PodUnchanged, memory, Same
<1>24. ASSUME NEW u \in 1 .. Len(pods), PublishFails(u) PROVE RunShape'
  BY <1>24, UploadSets, PodsCounted DEF PublishFails, PodUnchanged, memory, Same
<1>25. ASSUME NEW u \in 1 .. Len(pods), PodFails(u) PROVE RunShape'
  BY <1>25, PhaseSets, PodsCounted DEF PodFails, PodUnchanged, memory, Same
<1>26. CASE Tick
  BY <1>26, PodsCounted DEF Tick, cluster, memory
<1>27. CASE CancelBuild
  BY <1>27, PodsCounted DEF CancelBuild, JobRow, cluster, memory
<1>28. CASE UNCHANGED vars
  BY <1>28 DEF vars
<1> QED
  BY <1>1, <1>2, <1>3, <1>4, <1>5, <1>6, <1>7, <1>8, <1>9, <1>10, <1>11, <1>12, <1>13,
     <1>14, <1>15, <1>16, <1>17, <1>18, <1>19, <1>20, <1>21, <1>22, <1>23, <1>24, <1>25,
     <1>26, <1>27, <1>28 DEF Next, ControllerStep, HelperStep

(* A revision is published once, with an object that is in the store. *)
LEMMA UploadKept ==
  TypeOK /\ ControllerShape /\ PodsShape /\ UploadShape /\ [Next]_vars => UploadShape'
<1> SUFFICES ASSUME TypeOK, ControllerShape, PodsShape, UploadShape, [Next]_vars PROVE UploadShape'
  OBVIOUS
<1> USE KubernetesAssumption DEF UploadShape
<1>1. ASSUME NEW c \in Controllers, ClaimRunnableStep(c) PROVE UploadShape'
  BY <1>1, PodsCounted DEF ClaimRunnableStep, Claimable, JobRow, Goto, cluster
<1>2. ASSUME NEW c \in Controllers, ReconcileClaimed(c) PROVE UploadShape'
  BY <1>2, PodsCounted DEF ReconcileClaimed, Goto, durable, cluster
<1>3. ASSUME NEW c \in Controllers, GetExecutionJob(c) PROVE UploadShape'
  BY <1>3, PodsCounted DEF GetExecutionJob, Drop, Goto, durable, cluster
<1>4. ASSUME NEW c \in Controllers, GetJob(c) PROVE UploadShape'
  BY <1>4, PodsCounted DEF GetJob, TerminalResult, Goto, durable, cluster
<1>5. ASSUME NEW c \in Controllers, CreateJob(c) PROVE UploadShape'
  <2>1. CASE pc[c] = "create" /\ kjob.uid = 0 /\ CreateKJob(c)
    <3>1. Created /\ UNCHANGED <<job, revision, objects>>
      BY <1>5, <2>1, CreateSets DEF CreateJob, durable
    <3> QED
      BY <3>1, <2>1, PodsCounted DEF Created
  <2>2. CASE UNCHANGED cluster
    BY <1>5, <2>2, PodsCounted DEF CreateJob, Goto, durable, memory, cluster
  <2> QED
    BY <1>5, <2>1, <2>2 DEF CreateJob
<1>6. ASSUME NEW c \in Controllers, Complete(c) PROVE UploadShape'
  BY <1>6, PodsCounted
       DEF Complete, CompleteStepAndJob, HoldsUnexpired, Holds, JobRow, Drop, Goto, cluster
<1>7. ASSUME NEW c \in Controllers, RenewRunnableStepLease(c) PROVE UploadShape'
  BY <1>7, PodsCounted DEF RenewRunnableStepLease, Holds, Drop, Goto, cluster
<1>8. ASSUME NEW c \in Controllers, Refresh(c) PROVE UploadShape'
  BY <1>8, PodsCounted DEF Refresh, Goto, durable, cluster, memory
<1>9. ASSUME NEW c \in Controllers, DeleteJob(c) PROVE UploadShape'
  BY <1>9, PodsCounted DEF DeleteJob, NoKJob, Goto, durable, memory
<1>10. ASSUME NEW c \in Controllers, SweepJob(c) PROVE UploadShape'
  BY <1>10, PodsCounted DEF SweepJob, Goto, durable, cluster, memory
<1>11. ASSUME NEW c \in Controllers, ListJobs(c) PROVE UploadShape'
  BY <1>11, PodsCounted DEF ListJobs, Goto, durable, cluster, memory
<1>12. ASSUME NEW c \in Controllers, CallFails(c) PROVE UploadShape'
  BY <1>12, PodsCounted DEF CallFails, Goto, durable, cluster, memory
<1>13. ASSUME NEW c \in Controllers, AnswerFails(c) PROVE UploadShape'
  <2>1. CASE pc[c] = "create" /\ kjob.uid = 0 /\ CreateKJob(c) /\ UNCHANGED job
    <3>1. Created /\ UNCHANGED <<revision, objects>>
      BY <1>13, <2>1, CreateSets DEF AnswerFails
    <3> QED
      BY <3>1, <2>1, PodsCounted DEF Created
  <2>2. CASE pc[c] = "complete" /\ CompleteStepAndJob(c) /\ UNCHANGED cluster
    BY <1>13, <2>2, PodsCounted DEF AnswerFails, CompleteStepAndJob, HoldsUnexpired, Holds, JobRow,
       Goto, cluster, memory
  <2> QED
    BY <1>13, <2>1, <2>2 DEF AnswerFails
<1>14. ASSUME NEW c \in Controllers, Crash(c) PROVE UploadShape'
  BY <1>14, PodsCounted DEF Crash, Drop, Goto, durable, cluster
<1>15. ASSUME NEW u \in 1 .. Len(pods), WorkspacePrepare(u) PROVE UploadShape'
  BY <1>15, PrepareSets, PodsCounted DEF WorkspacePrepare, PodUnchanged, memory, Same
<1>16. ASSUME NEW u \in 1 .. Len(pods), BuildExits(u) PROVE UploadShape'
  BY <1>16, BuildSets, PodsCounted DEF BuildExits, PodUnchanged, memory, Same
<1>17. ASSUME NEW u \in 1 .. Len(pods), PublishAuthorize(u) PROVE UploadShape'
  <2>1. SetUpload(u, "create") \/ SetUpload(u, "refused")
    BY <1>17 DEF PublishAuthorize
  <2> QED
    BY <1>17, <2>1, UploadSets, PodsCounted DEF PublishAuthorize, PodUnchanged, memory, Same
<1>18. ASSUME NEW u \in 1 .. Len(pods), CreatePublishing(u) PROVE UploadShape'
  <2>1. SetUpload(u, "store") \/ SetUpload(u, "refused")
    BY <1>18 DEF CreatePublishing
  <2>2. revision' = revision \/ revision.status = "none"
    BY <1>18 DEF CreatePublishing
  <2> QED
    BY <1>18, <2>1, <2>2, UploadSets, PodsCounted DEF CreatePublishing, PodUnchanged, memory, Same
<1>19. ASSUME NEW u \in 1 .. Len(pods), StorePublish(u) PROVE UploadShape'
  BY <1>19, UploadSets, PodsCounted DEF StorePublish, PodUnchanged, memory, Same
<1>20. ASSUME NEW u \in 1 .. Len(pods), MarkPublishedIfClaimed(u) PROVE UploadShape'
  <2> DEFINE rev == [status |-> "published", object |-> pods[u].tok]
  <2>1. pods[u].upload = "mark" /\ UNCHANGED objects
    BY <1>20 DEF MarkPublishedIfClaimed
  <2>2. CASE SetUpload(u, "refused") /\ UNCHANGED revision
    BY <2>1, <2>2, UploadSets, PodsCounted DEF Same
  <2>3. CASE SetUpload(u, "done") /\ revision.status = "published"
             /\ revision.object = pods[u].tok /\ UNCHANGED revision
    <3>1. revision = rev
      BY <2>3 DEF TypeOK
    <3> QED
      BY <2>1, <2>3, <3>1, UploadSets, PodsCounted DEF Same
  <2>4. CASE SetUpload(u, "done") /\ revision.status = "publishing" /\ revision' = rev
    <3>1. \A v \in 1 .. Len(pods) : pods[v].upload # "done"
      BY <2>4
    <3> QED
      BY <2>1, <2>4, <3>1, UploadSets, PodsCounted DEF Same
  <2> QED
    BY <1>20, <2>2, <2>3, <2>4 DEF MarkPublishedIfClaimed
<1>21. ASSUME NEW u \in 1 .. Len(pods), PublishExits(u) PROVE UploadShape'
  BY <1>21, PhaseSets, PodsCounted DEF PublishExits, PodUnchanged, memory, Same
<1>22. ASSUME NEW u \in 1 .. Len(pods), JobCondition(u) PROVE UploadShape'
  BY <1>22, PodsCounted DEF JobCondition, durable, memory
<1>23. ASSUME NEW u \in 1 .. Len(pods), CollectPod(u) PROVE UploadShape'
  BY <1>23, PhaseSets, PodsCounted DEF CollectPod, PodUnchanged, memory, Same
<1>24. ASSUME NEW u \in 1 .. Len(pods), PublishFails(u) PROVE UploadShape'
  BY <1>24, UploadSets, PodsCounted DEF PublishFails, PodUnchanged, memory, Same
<1>25. ASSUME NEW u \in 1 .. Len(pods), PodFails(u) PROVE UploadShape'
  BY <1>25, PhaseSets, PodsCounted DEF PodFails, PodUnchanged, memory, Same
<1>26. CASE Tick
  BY <1>26, PodsCounted DEF Tick, cluster, memory
<1>27. CASE CancelBuild
  BY <1>27, PodsCounted DEF CancelBuild, JobRow, cluster, memory
<1>28. CASE UNCHANGED vars
  BY <1>28 DEF vars
<1> QED
  BY <1>1, <1>2, <1>3, <1>4, <1>5, <1>6, <1>7, <1>8, <1>9, <1>10, <1>11, <1>12, <1>13,
     <1>14, <1>15, <1>16, <1>17, <1>18, <1>19, <1>20, <1>21, <1>22, <1>23, <1>24, <1>25,
     <1>26, <1>27, <1>28 DEF Next, ControllerStep, HelperStep

(* Controllers act on their claims, complete with the result of the Pod     *)
(* and delete only what is canceled.                                       *)
LEMMA ControllersKept == TypeOK /\ PodsShape /\ ControllerShape /\ [Next]_vars => ControllerShape'
<1> SUFFICES ASSUME TypeOK, PodsShape, ControllerShape, [Next]_vars PROVE ControllerShape'
  OBVIOUS
<1>a. /\ pc \in [Controllers -> PCs] /\ seen \in [Controllers -> {"none", "success", "failed"}]
      /\ active \in [Controllers -> 0 .. MaxClaims] /\ step \in [Controllers -> 0 .. MaxClaims]
      /\ claims \in Nat /\ kjob.condition \in {"none", "success", "failed"}
  BY KubernetesAssumption DEF TypeOK
<1> USE KubernetesAssumption DEF ControllerShape, ResultShape, PodEnded
<1>1. ASSUME NEW c \in Controllers, ClaimRunnableStep(c) PROVE ControllerShape'
  BY <1>1, <1>a, PodsCounted DEF ClaimRunnableStep, Claimable, JobRow, Goto, cluster
<1>2. ASSUME NEW c \in Controllers, ReconcileClaimed(c) PROVE ControllerShape'
  <2>1. CASE supported
    BY <1>2, <2>1, <1>a DEF ReconcileClaimed, ValidateKubernetesRunnableStep, Goto, durable, cluster
  <2>2. CASE ~supported
    BY <1>2, <2>2, <1>a DEF ReconcileClaimed, ValidateKubernetesRunnableStep, Goto, durable, cluster
  <2> QED
    BY <2>1, <2>2
<1>3. ASSUME NEW c \in Controllers, GetExecutionJob(c) PROVE ControllerShape'
  BY <1>3, <1>a, PodsCounted DEF GetExecutionJob, Drop, Goto, durable, cluster
<1>4. ASSUME NEW c \in Controllers, GetJob(c) PROVE ControllerShape'
  <2>1. UNCHANGED <<job, supported, step, pods>>
    BY <1>4 DEF GetJob, durable, cluster
  <2>2. CASE kjob.uid # 0
    <3>1. job.status # "canceled" => ResultShape(kjob.condition)
      <4> SUFFICES ASSUME job.status # "canceled" PROVE ResultShape(kjob.condition)
        OBVIOUS
      <4>1. Len(pods) = 1 /\ kjob.uid = 1
        BY <2>2, TheOnlyPod
      <4> QED
        BY <4>1 DEF PodsShape
    <3>2. /\ seen' = [seen EXCEPT ![c] = kjob.condition]
          /\ pc' = [pc EXCEPT ![c] = IF kjob.condition = "none" THEN "renew" ELSE "complete"]
          /\ pc[c] \in {"getJob", "getExisting"}
      BY <1>4, <2>2 DEF GetJob, TerminalResult, Goto
    <3> QED
      BY <2>1, <3>1, <3>2, <1>a
  <2>3. CASE kjob.uid = 0
    BY <1>4, <2>1, <2>3, <1>a DEF GetJob, Goto
  <2> QED
    BY <2>2, <2>3
<1>5. ASSUME NEW c \in Controllers, CreateJob(c) PROVE ControllerShape'
  <2>1. UNCHANGED <<job, supported, step, seen>> /\ (Goto(c, "renew") \/ Goto(c, "getExisting"))
    BY <1>5 DEF CreateJob, durable, memory
  <2>2. CASE kjob.uid = 0 /\ Created
    BY <1>5, <2>1, <2>2, <1>a, PodsCounted DEF CreateJob, Goto, Created, PodsShape
  <2>3. CASE UNCHANGED cluster
    BY <1>5, <2>1, <2>3, <1>a, PodsCounted DEF CreateJob, Goto, cluster
  <2> QED
    BY <1>5, <2>2, <2>3, CreateSets DEF CreateJob
<1>6. ASSUME NEW c \in Controllers, Complete(c) PROVE ControllerShape'
  BY <1>6, <1>a, PodsCounted
       DEF Complete, CompleteStepAndJob, HoldsUnexpired, Holds, JobRow, Drop, Goto, cluster
<1>7. ASSUME NEW c \in Controllers, RenewRunnableStepLease(c) PROVE ControllerShape'
  <2>1. job'.status = job.status /\ UNCHANGED <<supported, pods, step, seen>>
    BY <1>7 DEF RenewRunnableStepLease, cluster, TypeOK
  <2>2. Goto(c, "idle") \/ Goto(c, "refresh")
    BY <1>7 DEF RenewRunnableStepLease
  <2> QED
    BY <2>1, <2>2, <1>a DEF Goto
<1>8. ASSUME NEW c \in Controllers, Refresh(c) PROVE ControllerShape'
  BY <1>8, <1>a, PodsCounted DEF Refresh, Goto, durable, cluster, memory
<1>9. ASSUME NEW c \in Controllers, DeleteJob(c) PROVE ControllerShape'
  BY <1>9, <1>a, PodsCounted DEF DeleteJob, NoKJob, Goto, durable, memory
<1>10. ASSUME NEW c \in Controllers, SweepJob(c) PROVE ControllerShape'
  BY <1>10, <1>a, PodsCounted DEF SweepJob, Goto, durable, cluster, memory
<1>11. ASSUME NEW c \in Controllers, ListJobs(c) PROVE ControllerShape'
  BY <1>11, <1>a, PodsCounted DEF ListJobs, Goto, durable, cluster, memory
<1>12. ASSUME NEW c \in Controllers, CallFails(c) PROVE ControllerShape'
  BY <1>12, <1>a, PodsCounted DEF CallFails, Goto, durable, cluster, memory
<1>13. ASSUME NEW c \in Controllers, AnswerFails(c) PROVE ControllerShape'
  <2>1. UNCHANGED <<supported, step, seen>> /\ Goto(c, "idle")
    BY <1>13 DEF AnswerFails, memory
  <2>2. CASE kjob.uid = 0 /\ Created /\ UNCHANGED job
    BY <2>1, <2>2, <1>a, PodsCounted DEF Goto, Created, PodsShape
  <2>3. CASE CompleteStepAndJob(c) /\ UNCHANGED cluster
    BY <2>1, <2>3, <1>a, PodsCounted
         DEF CompleteStepAndJob, HoldsUnexpired, Holds, JobRow, Goto, cluster
  <2> QED
    BY <1>13, <2>2, <2>3, CreateSets DEF AnswerFails
<1>14. ASSUME NEW c \in Controllers, Crash(c) PROVE ControllerShape'
  BY <1>14, <1>a, PodsCounted DEF Crash, Drop, Goto, durable, cluster
<1>15. ASSUME NEW u \in 1 .. Len(pods), JobCondition(u) PROVE ControllerShape'
  BY <1>15, <1>a, PodsCounted DEF JobCondition, durable, memory
<1>16. CASE Tick
  BY <1>16, <1>a, PodsCounted DEF Tick, cluster, memory
<1>17. CASE CancelBuild
  BY <1>17, <1>a, PodsCounted DEF CancelBuild, JobRow, cluster, memory
<1>18. ASSUME NEW u \in 1 .. Len(pods), PodStep(u) PROVE ControllerShape'
  BY <1>18, EndsStay, <1>a, PodsCounted DEF Same, PodsShape
<1>19. CASE UNCHANGED vars
  BY <1>19 DEF vars
<1> QED
  BY <1>1, <1>2, <1>3, <1>4, <1>5, <1>6, <1>7, <1>8, <1>9, <1>10, <1>11, <1>12, <1>13,
     <1>14, <1>15, <1>16, <1>17, <1>18, <1>19 DEF Next, ControllerStep, HelperStep, PodStep

(* The job gets the result of its Pod, which no reclaim or restart changes. *)
LEMMA OutcomeKept ==
  TypeOK /\ PodsShape /\ ControllerShape /\ ResultShape(job.status) /\ [Next]_vars
    => ResultShape(job.status)'
<1> SUFFICES ASSUME TypeOK, PodsShape, ControllerShape, ResultShape(job.status), [Next]_vars
             PROVE  ResultShape(job.status)'
  OBVIOUS
<1> USE KubernetesAssumption DEF ResultShape, PodEnded
<1>1. ASSUME NEW c \in Controllers, ClaimRunnableStep(c) PROVE ResultShape(job.status)'
  BY <1>1, PodsCounted DEF ClaimRunnableStep, Claimable, JobRow, Goto, cluster
<1>2. ASSUME NEW c \in Controllers, ReconcileClaimed(c) PROVE ResultShape(job.status)'
  BY <1>2, PodsCounted DEF ReconcileClaimed, Goto, durable, cluster
<1>3. ASSUME NEW c \in Controllers, GetExecutionJob(c) PROVE ResultShape(job.status)'
  BY <1>3, PodsCounted DEF GetExecutionJob, Drop, Goto, durable, cluster
<1>4. ASSUME NEW c \in Controllers, GetJob(c) PROVE ResultShape(job.status)'
  BY <1>4, PodsCounted DEF GetJob, TerminalResult, Goto, durable, cluster
<1>5. ASSUME NEW c \in Controllers, CreateJob(c) PROVE ResultShape(job.status)'
  <2>1. UNCHANGED <<job, supported>>
    BY <1>5 DEF CreateJob, durable
  <2>2. CASE kjob.uid = 0 /\ Created
    BY <2>1, <2>2, PodsCounted DEF Created, PodsShape
  <2>3. CASE UNCHANGED cluster
    BY <2>1, <2>3 DEF cluster
  <2> QED
    BY <1>5, <2>2, <2>3, CreateSets DEF CreateJob
<1>6. ASSUME NEW c \in Controllers, Complete(c) PROVE ResultShape(job.status)'
  <2>1. UNCHANGED <<supported, pods>> /\ pc[c] = "complete" /\ CompleteStepAndJob(c)
    BY <1>6 DEF Complete, cluster
  <2>2. job'.status = job.status \/ (job.status = "running" /\ job'.status = seen[c])
    BY <2>1 DEF CompleteStepAndJob, HoldsUnexpired, Holds, JobRow
  <2> QED
    BY <2>1, <2>2 DEF ControllerShape
<1>7. ASSUME NEW c \in Controllers, RenewRunnableStepLease(c) PROVE ResultShape(job.status)'
  <2>1. UNCHANGED <<supported, pods>> /\ job'.status = job.status
    BY <1>7 DEF RenewRunnableStepLease, cluster, TypeOK
  <2> QED
    BY <2>1
<1>8. ASSUME NEW c \in Controllers, Refresh(c) PROVE ResultShape(job.status)'
  BY <1>8, PodsCounted DEF Refresh, Goto, durable, cluster, memory
<1>9. ASSUME NEW c \in Controllers, DeleteJob(c) PROVE ResultShape(job.status)'
  BY <1>9, PodsCounted DEF DeleteJob, NoKJob, Goto, durable, memory
<1>10. ASSUME NEW c \in Controllers, SweepJob(c) PROVE ResultShape(job.status)'
  BY <1>10, PodsCounted DEF SweepJob, Goto, durable, cluster, memory
<1>11. ASSUME NEW c \in Controllers, ListJobs(c) PROVE ResultShape(job.status)'
  BY <1>11, PodsCounted DEF ListJobs, Goto, durable, cluster, memory
<1>12. ASSUME NEW c \in Controllers, CallFails(c) PROVE ResultShape(job.status)'
  BY <1>12, PodsCounted DEF CallFails, Goto, durable, cluster, memory
<1>13. ASSUME NEW c \in Controllers, AnswerFails(c) PROVE ResultShape(job.status)'
  <2>1. UNCHANGED supported
    BY <1>13 DEF AnswerFails
  <2>2. CASE kjob.uid = 0 /\ Created /\ UNCHANGED job
    BY <2>1, <2>2, PodsCounted DEF Created, PodsShape
  <2>3. CASE pc[c] = "complete" /\ CompleteStepAndJob(c) /\ UNCHANGED cluster
    <3>1. job'.status = job.status \/ (job.status = "running" /\ job'.status = seen[c])
      BY <2>3 DEF CompleteStepAndJob, HoldsUnexpired, Holds, JobRow
    <3> QED
      BY <2>1, <2>3, <3>1 DEF ControllerShape, cluster
  <2> QED
    BY <1>13, <2>2, <2>3, CreateSets DEF AnswerFails
<1>14. ASSUME NEW c \in Controllers, Crash(c) PROVE ResultShape(job.status)'
  BY <1>14, PodsCounted DEF Crash, Drop, Goto, durable, cluster
<1>15. ASSUME NEW u \in 1 .. Len(pods), JobCondition(u) PROVE ResultShape(job.status)'
  BY <1>15, PodsCounted DEF JobCondition, durable, memory
<1>16. CASE Tick
  BY <1>16, PodsCounted DEF Tick, cluster, memory
<1>17. CASE CancelBuild
  BY <1>17, PodsCounted DEF CancelBuild, JobRow, cluster, memory
<1>18. ASSUME NEW u \in 1 .. Len(pods), PodStep(u) PROVE ResultShape(job.status)'
  BY <1>18, EndsStay, PodsCounted DEF Same, PodsShape
<1>19. CASE UNCHANGED vars
  BY <1>19 DEF vars
<1> QED
  BY <1>1, <1>2, <1>3, <1>4, <1>5, <1>6, <1>7, <1>8, <1>9, <1>10, <1>11, <1>12, <1>13,
     <1>14, <1>15, <1>16, <1>17, <1>18, <1>19 DEF Next, ControllerStep, HelperStep, PodStep

(* Every action preserves every conjunct. *)
LEMMA NextIndInv == IndInv /\ [Next]_vars => IndInv'
  BY TypeStep, PodsKept, ControllersKept, OutcomeKept, RunKept, UploadKept DEF IndInv

(* IndInv holds in every reachable state, whatever calls fail, whatever    *)
(* controllers restart and whatever becomes of the Pods.                   *)
THEOREM Inductive == Spec => []IndInv
  BY InitIndInv, NextIndInv, PTL DEF Spec

(* The controller completes a job as success only when the revision that   *)
(* its build uploaded is published and in the store.                       *)
THEOREM SuccessPublished == Spec => []SuccessMeansPublished
<1>1. IndInv => SuccessMeansPublished
  <2> SUFFICES ASSUME IndInv, job.status = "success" PROVE SuccessMeansPublished
    BY DEF SuccessMeansPublished
  <2>1. 1 \in 1 .. Len(pods) /\ pods[1].phase = "succeeded"
    BY DEF IndInv, ResultShape, PodEnded
  <2>2. /\ pods[1].passed /\ pods[1].tok \in objects
        /\ revision = [status |-> "published", object |-> pods[1].tok]
    BY <2>1 DEF IndInv, UploadShape
  <2> QED
    BY <2>1, <2>2 DEF SuccessMeansPublished
<1> QED
  BY <1>1, Inductive, PTL

(* The controller completes a supported step as failed only when its Pod   *)
(* failed: an expired claim, a lost response or a restart does not.        *)
THEOREM FailureIsThePods == Spec => []FailureMeansPodFailed
<1>1. IndInv => FailureMeansPodFailed
  <2> SUFFICES ASSUME IndInv, job.status = "failed", supported PROVE FailureMeansPodFailed
    BY DEF FailureMeansPodFailed
  <2>1. Len(pods) = 1 /\ pods[1].phase = "failed"
    BY DEF IndInv, ResultShape, PodEnded
  <2> QED
    BY <2>1 DEF FailureMeansPodFailed
<1> QED
  BY <1>1, Inductive, PTL

(* Authorize refuses the prepare helper of any Pod but the first: the      *)
(* build container runs at most once, however often the Job is created.    *)
THEOREM BuildRunsOnce == Spec => []RunsOnce
<1>1. IndInv => RunsOnce
  <2> SUFFICES ASSUME IndInv PROVE RunsOnce
    OBVIOUS
  <2> DEFINE R == {u \in 1 .. Len(pods) : pods[u].ran}
  <2>1. R \subseteq {1}
    BY DEF IndInv, RunShape
  <2>2. IsFiniteSet({1}) /\ Cardinality({1}) = 1
    BY FS_Singleton
  <2>3. Cardinality(R) <= 1
    BY <2>1, <2>2, FS_Subset
  <2> QED
    BY <2>3 DEF RunsOnce
<1> QED
  BY <1>1, Inductive, PTL
=============================================================================
