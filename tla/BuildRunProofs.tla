--------------------------- MODULE BuildRunProofs ---------------------------
(***************************************************************************)
(* Proofs about BuildRun, for any number of workers, steps and tokens, any *)
(* dependency order, lease and time bound, and both completion modes, and  *)
(* about BuildControl, which adds other writers of the build's status.     *)
(*                                                                         *)
(* Each conjunct of IndInv has a lemma that says a step preserves it, with *)
(* one case per action; Inductive puts them together.                      *)
(***************************************************************************)
EXTENDS BuildControl, TLAPS

(* What the statements write has the type of the rows and claims. *)
LEMMA ClaimedTypes ==
    ASSUME TypeOK, NEW w \in Workers
    PROVE  /\ Claimed(w) \in RowType(StepStatuses)
           /\ Claimed(w) \in RowType(JobRowStatuses)
  BY TimeAssumption DEF TypeOK, Claimed, Row, RowType, ClaimType, StepStatuses, JobRowStatuses, JobStatuses

(* Giving a claim its step and its job keeps it a claim. *)
LEMMA ClaimTargetTypes ==
    ASSUME TypeOK, NEW w \in Workers, NEW s \in Steps \cup {0}
    PROVE  /\ [claim EXCEPT ![w].step = s, ![w].job = s] \in [Workers -> ClaimType]
           /\ [claim EXCEPT ![w].job = s] \in [Workers -> ClaimType]
<1>1. claim \in [Workers -> ClaimType] /\ claim[w] \in ClaimType
  BY DEF TypeOK
<1>2. /\ [claim[w] EXCEPT !.step = s, !.job = s] \in ClaimType
      /\ [claim[w] EXCEPT !.job = s] \in ClaimType
  BY <1>1 DEF ClaimType
<1> QED
  BY <1>1, <1>2

(* A completed or canceled row. *)
LEMMA UnclaimedTypes ==
    ASSUME NEW res \in StepResults
    PROVE  /\ Unclaimed(res) \in RowType(StepStatuses)
           /\ Unclaimed(res) \in RowType(JobRowStatuses)
           /\ Unclaimed("canceled") \in RowType(StepStatuses)
           /\ Unclaimed("canceled") \in RowType(JobRowStatuses)
  BY DEF Unclaimed, Row, RowType, StepStatuses, JobRowStatuses, JobStatuses, StepResults

(* A process that is back at the start of its loop. *)
LEMMA ForgetTypes ==
    ASSUME TypeOK, NEW w \in Workers, Forget(w)
    PROVE  /\ pc' \in [Workers -> PCs]
           /\ claim' \in [Workers -> ClaimType]
           /\ renewal' \in [Workers -> Nat]
           /\ result' \in [Workers -> StepResults \cup {"none"}]
           /\ holders' \subseteq Workers
<1>1. NoClaim \in ClaimType
  BY DEF NoClaim, ClaimType
<1>2. "idle" \in PCs
  BY DEF PCs
<1> QED
  BY <1>1, <1>2 DEF TypeOK, Forget, EndTx, Goto

(* A claim that has just been drawn. *)
LEMMA NewStepClaimTypes ==
    ASSUME TypeOK, NEW w \in Workers, NEW s \in Steps \cup {0}, NewStepClaim(w, s)
    PROVE  claim' \in [Workers -> ClaimType]
<1>1. PICK t \in Tokens :
        claim' = [claim EXCEPT ![w] = [tok |-> t, at |-> now, step |-> s, job |-> 0]]
  BY DEF NewStepClaim
<1>2. [tok |-> t, at |-> now, step |-> s, job |-> 0] \in ClaimType
  BY DEF ClaimType, TypeOK
<1> QED
  BY <1>1, <1>2 DEF TypeOK

(* Moving on to another statement. *)
LEMMA GotoTypes ==
    ASSUME TypeOK, NEW w \in Workers, NEW next \in PCs, Goto(w, next)
    PROVE  pc' \in [Workers -> PCs]
  BY DEF TypeOK, Goto

(* The result an open completion has written to its step. *)
LEMMA OpenResult ==
    ASSUME TypeOK, TxShape, NEW w \in Workers, pc[w] \in TxPCs
    PROVE  result[w] \in StepResults /\ HoldsStep(w) /\ InTx(w)
  BY DEF TypeOK, TxShape, InTx, TxPCs

(* What the commit of a completion writes. *)
LEMMA CommitTypes ==
    ASSUME TypeOK, TxShape, NEW w \in Workers, pc[w] \in TxPCs, Commit(w)
    PROVE  /\ cursor' \in Nat
           /\ steps' \in [Steps -> RowType(StepStatuses)]
           /\ jobs' \in [Steps -> RowType(JobRowStatuses)]
           /\ pc' \in [Workers -> PCs]
           /\ claim' \in [Workers -> ClaimType]
           /\ renewal' \in [Workers -> Nat]
           /\ result' \in [Workers -> StepResults \cup {"none"}]
           /\ holders' \subseteq Workers
           /\ now' = now
<1>0. result[w] \in StepResults
  BY OpenResult
<1>1. cursor' \in Nat
  BY DEF TypeOK, Commit, AdvancedCursor, ClaimType, Steps
<1>2. steps' \in [Steps -> RowType(StepStatuses)]
  BY <1>0, UnclaimedTypes DEF TypeOK, Commit, View
<1>3. jobs' \in [Steps -> RowType(JobRowStatuses)]
  BY <1>0, UnclaimedTypes DEF TypeOK, Commit
<1>4. CASE Forget(w)
  BY <1>1, <1>2, <1>3, <1>4, ForgetTypes DEF Commit
<1>5. CASE /\ Goto(w, IF result[w] = "success" THEN "completeJobSuccess" ELSE "completeJobFailure")
           /\ EndTx(w) /\ UNCHANGED <<jobs, claim, renewal>>
  BY <1>1, <1>2, <1>3, <1>5, GotoTypes DEF Commit, PCs, EndTx, TypeOK
<1> QED
  BY <1>4, <1>5 DEF Commit

(* Every statement writes rows and claims of the right type. *)
LEMMA TypeStep == TypeOK /\ TxShape /\ [Next]_vars => TypeOK'
<1> SUFFICES ASSUME TypeOK, TxShape, [Next]_vars PROVE TypeOK'
  OBVIOUS
<1> USE DEF PCs, rows, procs, tx
<1>1. ASSUME NEW w \in Workers, Poll(w) PROVE TypeOK'
  BY <1>1, NewStepClaimTypes, GotoTypes DEF Poll, TypeOK
<1>2. ASSUME NEW w \in Workers, ClaimNextRunnableJob(w) PROVE TypeOK'
  <2>1. PICK s \in Steps : /\ jobs' = [jobs EXCEPT ![s] = Claimed(w)]
                           /\ claim' = [claim EXCEPT ![w].step = s, ![w].job = s]
    BY <1>2 DEF ClaimNextRunnableJob
  <2>2. jobs' \in [Steps -> RowType(JobRowStatuses)]
    BY <2>1, ClaimedTypes DEF TypeOK
  <2>3. claim' \in [Workers -> ClaimType]
    BY <2>1, ClaimTargetTypes
  <2> QED
    BY <1>2, <2>2, <2>3, GotoTypes DEF ClaimNextRunnableJob, TypeOK
<1>3. ASSUME NEW w \in Workers, ClaimNextRunnableJobMiss(w) PROVE TypeOK'
  BY <1>3, ForgetTypes, GotoTypes DEF ClaimNextRunnableJobMiss, TypeOK
<1>4. ASSUME NEW w \in Workers, ClaimPendingStep(w) PROVE TypeOK'
  BY <1>4, ClaimedTypes, GotoTypes DEF ClaimPendingStep, TypeOK
<1>5. ASSUME NEW w \in Workers, ReclaimExpiredStep(w) PROVE TypeOK'
  BY <1>5, ClaimedTypes, GotoTypes DEF ReclaimExpiredStep, TypeOK
<1>6. ASSUME NEW w \in Workers, ReclaimExpiredStepMiss(w) PROVE TypeOK'
  BY <1>6, ForgetTypes DEF ReclaimExpiredStepMiss, TypeOK
<1>7. ASSUME NEW w \in Workers, ScanPending(w) PROVE TypeOK'
  BY <1>7, NewStepClaimTypes, GotoTypes DEF ScanPending, TypeOK
<1>8. ASSUME NEW w \in Workers, ScanExpired(w) PROVE TypeOK'
  BY <1>8, NewStepClaimTypes, GotoTypes, ForgetTypes DEF ScanExpired, TypeOK
<1>9. ASSUME NEW w \in Workers, ClaimJobByStepID(w) PROVE TypeOK'
  <2>1. jobs' \in [Steps -> RowType(JobRowStatuses)]
    BY <1>9, ClaimedTypes DEF ClaimJobByStepID, TypeOK
  <2>2. claim[w].step \in Steps \cup {0}
    BY DEF TypeOK, ClaimType
  <2>3. claim' = claim \/ claim' = [claim EXCEPT ![w].job = claim[w].step]
    BY <1>9 DEF ClaimJobByStepID
  <2>4. [claim EXCEPT ![w].job = claim[w].step] \in [Workers -> ClaimType]
    <3> DEFINE s == claim[w].step
    <3>1. s \in Steps \cup {0}
      BY <2>2
    <3> HIDE DEF s
    <3>2. [claim EXCEPT ![w].job = s] \in [Workers -> ClaimType]
      BY <3>1, ClaimTargetTypes
    <3> QED
      BY <3>2 DEF s
  <2>5. claim' \in [Workers -> ClaimType]
    BY <2>3, <2>4 DEF TypeOK
  <2> QED
    BY <1>9, <2>1, <2>5, GotoTypes DEF ClaimJobByStepID, TypeOK
<1>10. ASSUME NEW w \in Workers, ExecuteRunnableStep(w) PROVE TypeOK'
  BY <1>10, ForgetTypes, GotoTypes DEF ExecuteRunnableStep, TypeOK
<1>11. ASSUME NEW w \in Workers, RenewJobLease(w) PROVE TypeOK'
  <2>1. claim[w] \in ClaimType /\ now + Lease \in Nat
    BY TimeAssumption DEF TypeOK
  <2>2. Row("running", claim[w].tok, now + Lease) \in RowType(JobRowStatuses)
    BY <2>1 DEF Row, RowType, ClaimType, JobRowStatuses, JobStatuses
  <2>3. jobs' \in [Steps -> RowType(JobRowStatuses)]
    BY <1>11, <2>2 DEF RenewJobLease, TypeOK
  <2>4. renewal' \in [Workers -> Nat]
    BY <1>11, <2>1 DEF RenewJobLease, TypeOK
  <2> QED
    BY <1>11, <2>3, <2>4 DEF RenewJobLease, TypeOK, tx
<1>12. ASSUME NEW w \in Workers, RenewStepLease(w) PROVE TypeOK'
  BY <1>12 DEF RenewStepLease, TypeOK, RowType, Row, ClaimType, StepStatuses
<1>13. ASSUME NEW w \in Workers, NEW res \in StepResults, ApplyStepCompletion(w, res)
       PROVE TypeOK'
  <2>1. AfterCounts(View(w, res)) \in PCs
    BY DEF AfterCounts
  <2>2. Goto(w, AfterCounts(View(w, res)))
    BY <1>13 DEF ApplyStepCompletion
  <2>3. pc' \in [Workers -> PCs]
    BY <2>1, <2>2 DEF Goto, TypeOK
  <2> QED
    BY <1>13, <2>3 DEF ApplyStepCompletion, TypeOK
<1>14. ASSUME NEW w \in Workers, Forget(w), UNCHANGED <<rows, now>>
       PROVE TypeOK'
  BY <1>14, ForgetTypes DEF TypeOK
<1>15. ASSUME NEW w \in Workers, HasRunnablePendingStep(w) PROVE TypeOK'
  BY <1>15, GotoTypes DEF HasRunnablePendingStep, TypeOK
<1>16. ASSUME NEW w \in Workers, CommitStep(w) \/ UpdateBuild(w) PROVE TypeOK'
  <2>1. pc[w] \in TxPCs /\ Commit(w)
    BY <1>16 DEF CommitStep, UpdateBuild, TxPCs
  <2>2. status' \in BuildStatuses
    BY <1>16 DEF CommitStep, UpdateBuild, TypeOK, BuildStatuses
  <2> QED
    BY <2>1, <2>2, CommitTypes DEF TypeOK
<1>17. ASSUME NEW w \in Workers, CompleteJob(w) PROVE TypeOK'
  BY <1>17, ForgetTypes, UnclaimedTypes DEF CompleteJob, TypeOK, StepResults
<1>19. CASE CancelBuild
  BY <1>19, UnclaimedTypes DEF CancelBuild, TypeOK, BuildStatuses, RowType, StepStatuses,
                         JobRowStatuses, JobStatuses, Unclaimed, Row
<1>20. CASE Tick
  BY <1>20 DEF Tick, TypeOK
<1>21. CASE UNCHANGED vars
  BY <1>21 DEF vars, TypeOK
<1> QED
  BY <1>1, <1>2, <1>3, <1>4, <1>5, <1>6, <1>7, <1>8, <1>9, <1>10, <1>11, <1>12, <1>13,
     <1>14, <1>15, <1>16, <1>17, <1>19, <1>20, <1>21
     DEF Next, WorkerNext, CompletionRefused, UpdateBuildNoop, Abandon

(* So do the inserts of a new build. *)
LEMMA TypeInit == Init => TypeOK
  BY DEF Init, RowsInit, TypeOK, BuildStatuses, StepStatuses, JobRowStatuses, JobStatuses, RowType,
         ClaimType, NoClaim, Unclaimed, Row, PCs

-----------------------------------------------------------------------------
(* A row carries a token exactly while it is running *)

(* Claims and renewals write a token and running together; completions and *)
(* cancellations clear the one and leave the other.                        *)
LEMMA RowShapeStep == TypeOK /\ RowShape /\ WorkerShape /\ TxShape /\ [Next]_vars => RowShape'
<1> SUFFICES ASSUME TypeOK, RowShape, WorkerShape, TxShape, [Next]_vars PROVE RowShape'
  OBVIOUS
<1> USE DEF RowShape, rows, procs, TypeOK, Unclaimed, Row
<1>1. ASSUME NEW w \in Workers, ClaimNextRunnableJob(w) PROVE RowShape'
  BY <1>1 DEF ClaimNextRunnableJob, Claimed, WorkerShape
<1>2. ASSUME NEW w \in Workers, ClaimPendingStep(w) PROVE RowShape'
  BY <1>2 DEF ClaimPendingStep, Claimed, WorkerShape
<1>3. ASSUME NEW w \in Workers, ReclaimExpiredStep(w) PROVE RowShape'
  BY <1>3 DEF ReclaimExpiredStep, Claimed, WorkerShape
<1>4. ASSUME NEW w \in Workers, ClaimJobByStepID(w) PROVE RowShape'
  BY <1>4 DEF ClaimJobByStepID, Claimed, WorkerShape
<1>5. ASSUME NEW w \in Workers, RenewJobLease(w) PROVE RowShape'
  BY <1>5 DEF RenewJobLease, HoldsJob
<1>6. ASSUME NEW w \in Workers, RenewStepLease(w) PROVE RowShape'
  BY <1>6 DEF RenewStepLease, HoldsStep
<1>7. ASSUME NEW w \in Workers, pc[w] \in TxPCs, Commit(w) PROVE RowShape'
  BY <1>7, OpenResult DEF Commit, View, StepResults
<1>8. ASSUME NEW w \in Workers, CompleteJob(w) PROVE RowShape'
  BY <1>8 DEF CompleteJob
<1>9. CASE CancelBuild
  BY <1>9 DEF CancelBuild
<1>10. CASE UNCHANGED <<steps, jobs>>
  BY <1>10
<1> QED
  BY <1>1, <1>2, <1>3, <1>4, <1>5, <1>6, <1>7, <1>8, <1>9, <1>10
     DEF Next, WorkerNext, vars, Poll, ClaimNextRunnableJobMiss, ReclaimExpiredStepMiss,
         ScanPending, ScanExpired, ExecuteRunnableStep, ApplyStepCompletion, CompletionRefused,
         HasRunnablePendingStep, CommitStep, UpdateBuild, UpdateBuildNoop, Abandon, Tick, TxPCs

-----------------------------------------------------------------------------
(* What a step does to the processes *)

(* Forgetting a claim leaves every other process alone. *)
LEMMA ForgetFacts ==
    ASSUME TypeOK, NEW w \in Workers, Forget(w)
    PROVE  /\ pc'[w] = "idle" /\ renewal'[w] = 0
           /\ claim'[w].tok = NoToken /\ claim'[w].at = 0
           /\ claim'[w].step = 0 /\ claim'[w].job = 0
           /\ result'[w] = "none" /\ w \notin holders'
           /\ \A v \in Workers \ {w} :
                 /\ pc'[v] = pc[v] /\ claim'[v] = claim[v] /\ renewal'[v] = renewal[v]
                 /\ result'[v] = result[v] /\ (v \in holders' <=> v \in holders)
  BY DEF TypeOK, Forget, EndTx, Goto, NoClaim

(* A new claim has a token that no row and no process has. *)
LEMMA NewStepClaimFacts ==
    ASSUME TypeOK, NEW w \in Workers, NEW s \in Steps \cup {0}, NewStepClaim(w, s)
    PROVE  /\ claim'[w].tok \in Tokens /\ claim'[w].at = now
           /\ claim'[w].step = s /\ claim'[w].job = 0
           /\ \A r \in Steps : steps[r].tok # claim'[w].tok /\ jobs[r].tok # claim'[w].tok
           /\ \A v \in Workers : claim[v].tok # claim'[w].tok
           /\ \A v \in Workers \ {w} : claim'[v] = claim[v]
  BY DEF TypeOK, NewStepClaim, FreshToken

(* Moving on leaves every other process where it is. *)
LEMMA GotoFacts ==
    ASSUME TypeOK, NEW w \in Workers, NEW next, Goto(w, next)
    PROVE  pc'[w] = next /\ \A v \in Workers \ {w} : pc'[v] = pc[v]
  BY DEF TypeOK, Goto

(* A claimed job is the step's, and the claim keeps its token. *)
LEMMA JobClaimFacts ==
    ASSUME TypeOK, NEW w \in Workers, ClaimNextRunnableJob(w)
    PROVE  \E s \in Steps :
             /\ CanClaimJob(s, claim[w].at) /\ ~JobLocked(s)
             /\ jobs' = [jobs EXCEPT ![s] = Claimed(w)]
             /\ claim'[w].step = s /\ claim'[w].job = s
             /\ claim'[w].tok = claim[w].tok /\ claim'[w].at = claim[w].at
             /\ pc[w] \in {"claimJob", "claimJobOnly"} /\ pc'[w] = "mirrorPending"
             /\ \A v \in Workers \ {w} : claim'[v] = claim[v] /\ pc'[v] = pc[v]
             /\ UNCHANGED <<status, cursor, steps, renewal, result, holders, now>>
<1>1. PICK s \in Steps : /\ CanClaimJob(s, claim[w].at) /\ ~JobLocked(s)
                         /\ jobs' = [jobs EXCEPT ![s] = Claimed(w)]
                         /\ claim' = [claim EXCEPT ![w].step = s, ![w].job = s]
  BY DEF ClaimNextRunnableJob
<1>2. /\ claim'[w].step = s /\ claim'[w].job = s
      /\ claim'[w].tok = claim[w].tok /\ claim'[w].at = claim[w].at
      /\ \A v \in Workers \ {w} : claim'[v] = claim[v]
  BY <1>1 DEF TypeOK, ClaimType
<1>3. /\ pc[w] \in {"claimJob", "claimJobOnly"} /\ pc'[w] = "mirrorPending"
      /\ \A v \in Workers \ {w} : pc'[v] = pc[v]
  BY GotoFacts DEF ClaimNextRunnableJob
<1> QED
  BY <1>1, <1>2, <1>3 DEF ClaimNextRunnableJob, tx

(* Binding a step to its job: the job row takes the token, or nothing      *)
(* happens.                                                                *)
LEMMA BindFacts ==
    ASSUME TypeOK, NEW w \in Workers, ClaimJobByStepID(w)
    PROVE  /\ pc[w] = "bind" /\ pc'[w] = "start"
           /\ \A v \in Workers \ {w} : claim'[v] = claim[v] /\ pc'[v] = pc[v]
           /\ claim'[w].tok = claim[w].tok /\ claim'[w].step = claim[w].step
           /\ claim'[w].at = claim[w].at
           /\ UNCHANGED <<status, cursor, steps, renewal, result, holders, now>>
           /\ \/ UNCHANGED <<jobs, claim>>
              \/ /\ status = "running" /\ ~JobLocked(claim[w].step)
                 /\ jobs[claim[w].step].status \in {"queued", "running"}
                 /\ jobs' = [jobs EXCEPT ![claim[w].step] = Claimed(w)]
                 /\ claim'[w].job = claim[w].step
  BY DEF TypeOK, ClaimJobByStepID, Goto, ClaimType, tx

(* The commit of a completion writes the step it holds, and in one         *)
(* transaction with it the job, or nothing else; then the process is done  *)
(* or goes on to the job.                                                  *)
LEMMA CommitFacts ==
    ASSUME TypeOK, WorkerShape, TxShape, NEW w \in Workers, pc[w] \in TxPCs, Commit(w)
    PROVE  LET s == claim[w].step
           IN  /\ s \in Steps
               /\ steps[s].status = "running" /\ steps[s].tok = claim[w].tok
               /\ steps'[s] = Unclaimed(result[w])
               /\ \A r \in Steps \ {s} : steps'[r] = steps[r] /\ jobs'[r] = jobs[r]
               /\ \/ jobs'[s] = jobs[s]
                  \/ jobs'[s] = Unclaimed(result[w]) /\ IsAtomic(w, result[w])
               /\ IsAtomic(w, result[w]) => jobs'[s] = Unclaimed(result[w])
               /\ result'[w] = "none" /\ w \notin holders'
               /\ \A v \in Workers \ {w} :
                     /\ pc'[v] = pc[v] /\ claim'[v] = claim[v] /\ renewal'[v] = renewal[v]
                     /\ result'[v] = result[v] /\ (v \in holders' <=> v \in holders)
               /\ \/ Forget(w)
                  \/ /\ claim[w].job # 0 /\ ~IsAtomic(w, result[w])
                     /\ claim'[w] = claim[w] /\ renewal'[w] = renewal[w]
                     /\ pc'[w] = IF result[w] = "success" THEN "completeJobSuccess"
                                                          ELSE "completeJobFailure"
                     /\ jobs' = jobs
<1> DEFINE s == claim[w].step
<1>1. s \in Steps
  BY DEF WorkerShape, TypeOK, ClaimType, TxPCs
<1>2. steps[s].status = "running" /\ steps[s].tok = claim[w].tok
  BY OpenResult DEF HoldsStep
<1>3. steps'[s] = Unclaimed(result[w]) /\ \A r \in Steps \ {s} : steps'[r] = steps[r]
  BY <1>1 DEF Commit, View, TypeOK
<1>4. claim[w].job # 0 => claim[w].job = s
  BY DEF WorkerShape
<1>5. /\ \A r \in Steps \ {s} : jobs'[r] = jobs[r]
      /\ IsAtomic(w, result[w]) => jobs'[s] = Unclaimed(result[w])
      /\ ~IsAtomic(w, result[w]) => jobs' = jobs
  BY <1>1, <1>4 DEF Commit, TypeOK, IsAtomic
<1>6. CASE Forget(w)
  BY <1>1, <1>2, <1>3, <1>5, <1>6, ForgetFacts
<1>7. CASE /\ claim[w].job # 0 /\ ~IsAtomic(w, result[w])
           /\ Goto(w, IF result[w] = "success" THEN "completeJobSuccess" ELSE "completeJobFailure")
           /\ EndTx(w) /\ UNCHANGED <<jobs, claim, renewal>>
  <2>1. /\ result'[w] = "none" /\ w \notin holders'
        /\ \A v \in Workers \ {w} :
              result'[v] = result[v] /\ (v \in holders' <=> v \in holders)
    BY <1>7 DEF EndTx, TypeOK
  <2> QED
    BY <1>1, <1>2, <1>3, <1>5, <1>7, <2>1, GotoFacts
<1> QED
  BY <1>6, <1>7 DEF Commit

(* What that comes to, column by column. *)
LEMMA CommitWrites ==
    ASSUME TypeOK, WorkerShape, TxShape, NEW w \in Workers, pc[w] \in TxPCs, Commit(w)
    PROVE  /\ claim[w].step \in Steps /\ result[w] \in StepResults
           /\ \A r \in Steps : r # claim[w].step => steps'[r] = steps[r] /\ jobs'[r] = jobs[r]
           /\ steps[claim[w].step].status = "running"
           /\ steps[claim[w].step].tok = claim[w].tok
           /\ steps'[claim[w].step].status = result[w]
           /\ steps'[claim[w].step].tok = NoToken /\ steps'[claim[w].step].exp = 0
           /\ IsAtomic(w, result[w]) => jobs'[claim[w].step].status = result[w]
           /\ \/ jobs'[claim[w].step] = jobs[claim[w].step]
              \/ /\ jobs'[claim[w].step].status = result[w]
                 /\ jobs'[claim[w].step].tok = NoToken /\ jobs'[claim[w].step].exp = 0
<1>1. result[w] \in StepResults
  BY OpenResult
<1>2. /\ Unclaimed(result[w]).status = result[w] /\ Unclaimed(result[w]).tok = NoToken
      /\ Unclaimed(result[w]).exp = 0
  BY DEF Unclaimed, Row
<1> QED
  BY <1>1, <1>2, CommitFacts

(* Each of them keeps the shape of the processes. *)
LEMMA WorkerShapeForget ==
    ASSUME TypeOK, WorkerShape, NEW w \in Workers, Forget(w)
    PROVE  WorkerShape'
  BY ForgetFacts DEF WorkerShape

(* ... and so does a claim drawn by a process that held no job. *)
LEMMA WorkerShapeNewClaim ==
    ASSUME TypeOK, WorkerShape, NEW w \in Workers, NEW s \in Steps \cup {0}, NEW next,
           NewStepClaim(w, s), Goto(w, next), UNCHANGED renewal,
           pc[w] \in {"idle", "scanPending", "scanExpired"},
           next \in {"claimJob", "claimJobOnly"} \/ (next \in {"claimPending", "claimExpired"} /\ s # 0)
    PROVE  WorkerShape'
<1>1. pc'[w] = next /\ \A v \in Workers \ {w} : pc'[v] = pc[v]
  BY GotoFacts
<1>2. renewal[w] = 0
  BY DEF WorkerShape, Executing, TxPCs, TypeOK
<1> QED
  BY <1>1, <1>2, NewStepClaimFacts, TokenAssumption DEF WorkerShape

(* A process past the poll has a token, and past the scan a step. *)
LEMMA WorkerShapeStep == TypeOK /\ WorkerShape /\ TxShape /\ [Next]_vars => WorkerShape'
<1> SUFFICES ASSUME TypeOK, WorkerShape, TxShape, [Next]_vars PROVE WorkerShape'
  OBVIOUS
<1> USE DEF rows, procs, tx
<1>1. ASSUME NEW w \in Workers, Poll(w) PROVE WorkerShape'
  BY <1>1, WorkerShapeNewClaim DEF Poll
<1>2. ASSUME NEW w \in Workers, ClaimNextRunnableJob(w) PROVE WorkerShape'
  BY <1>2, JobClaimFacts, StepsAssumption DEF WorkerShape, Steps, Executing, TxPCs
<1>3. ASSUME NEW w \in Workers, ClaimNextRunnableJobMiss(w) PROVE WorkerShape'
  BY <1>3, WorkerShapeForget DEF ClaimNextRunnableJobMiss, WorkerShape, Goto, TypeOK, Executing, TxPCs
<1>4. ASSUME NEW w \in Workers, ClaimPendingStep(w) PROVE WorkerShape'
  BY <1>4 DEF ClaimPendingStep, WorkerShape, Goto, TypeOK, Executing, TxPCs
<1>5. ASSUME NEW w \in Workers, ReclaimExpiredStep(w) PROVE WorkerShape'
  BY <1>5 DEF ReclaimExpiredStep, WorkerShape, Goto, TypeOK, Executing, TxPCs
<1>6. ASSUME NEW w \in Workers, ScanPending(w) PROVE WorkerShape'
  <2>1. CASE Goto(w, "scanExpired") /\ UNCHANGED claim
    BY <1>6, <2>1 DEF ScanPending, WorkerShape, Goto, TypeOK, Executing, TxPCs
  <2>2. ASSUME NEW s \in Steps, NewStepClaim(w, s), Goto(w, "claimPending") PROVE WorkerShape'
    BY <1>6, <2>2, WorkerShapeNewClaim DEF ScanPending, Steps
  <2> QED
    BY <1>6, <2>1, <2>2 DEF ScanPending
<1>7. ASSUME NEW w \in Workers, ScanExpired(w) PROVE WorkerShape'
  <2>1. ASSUME NEW s \in Steps, NewStepClaim(w, s), Goto(w, "claimExpired"), UNCHANGED renewal
        PROVE WorkerShape'
    BY <1>7, <2>1, WorkerShapeNewClaim DEF ScanExpired, Steps
  <2> QED
    BY <1>7, <2>1, WorkerShapeForget DEF ScanExpired
<1>8. ASSUME NEW w \in Workers, ClaimJobByStepID(w) PROVE WorkerShape'
  BY <1>8, BindFacts DEF WorkerShape, Executing, TxPCs
<1>9. ASSUME NEW w \in Workers, ExecuteRunnableStep(w) PROVE WorkerShape'
  BY <1>9, WorkerShapeForget DEF ExecuteRunnableStep, WorkerShape, Goto, TypeOK, Executing, TxPCs
<1>10. ASSUME NEW w \in Workers, RenewJobLease(w) PROVE WorkerShape'
  BY <1>10 DEF RenewJobLease, WorkerShape, TypeOK
<1>11. ASSUME NEW w \in Workers, RenewStepLease(w) PROVE WorkerShape'
  BY <1>11 DEF RenewStepLease, WorkerShape, TypeOK
<1>12. ASSUME NEW w \in Workers, pc[w] \in Executing, NEW next \in Executing,
              claim[w].job # 0 \/ next \notin {"completeJobSuccess", "completeJobFailure"},
              Goto(w, next), UNCHANGED <<claim, renewal>>
       PROVE WorkerShape'
  BY <1>12, GotoFacts DEF WorkerShape, Executing, TxPCs
<1>15. ASSUME NEW w \in Workers, NEW res \in StepResults, ApplyStepCompletion(w, res)
       PROVE WorkerShape'
  <2>1. AfterCounts(View(w, res)) \in TxPCs
    BY DEF AfterCounts, TxPCs
  <2> QED
    BY <1>12, <1>15, <2>1 DEF ApplyStepCompletion, Executing, TxPCs
<1>16. ASSUME NEW w \in Workers, HasRunnablePendingStep(w) PROVE WorkerShape'
  BY <1>12, <1>16 DEF HasRunnablePendingStep, Executing, TxPCs
<1>17. ASSUME NEW w \in Workers, CommitStep(w) \/ UpdateBuild(w) PROVE WorkerShape'
  <2>1. pc[w] \in TxPCs /\ Commit(w)
    BY <1>17 DEF CommitStep, UpdateBuild, TxPCs
  <2> QED
    BY <1>12, <2>1, WorkerShapeForget DEF Commit, Executing, TxPCs
<1>13. ASSUME NEW w \in Workers, Forget(w) PROVE WorkerShape'
  BY <1>13, WorkerShapeForget
<1>14. CASE UNCHANGED procs
  BY <1>14 DEF WorkerShape
<1> QED
  BY <1>1, <1>2, <1>3, <1>4, <1>5, <1>6, <1>7, <1>8, <1>9, <1>10, <1>11, <1>13, <1>14, <1>15,
     <1>16, <1>17
     DEF Next, WorkerNext, vars, ReclaimExpiredStepMiss, CompletionRefused, UpdateBuildNoop,
         CompleteJob, Abandon, CancelBuild, Tick

-----------------------------------------------------------------------------
(* Tokens stay with the process that drew them *)

(* A forgotten token has no owner left to speak of. *)
LEMMA TokenOwnershipForget ==
    ASSUME TypeOK, TokenOwnership, NEW w \in Workers, Forget(w),
           \A s \in Steps : /\ steps'[s].tok \in {steps[s].tok, NoToken}
                            /\ jobs'[s].tok \in {jobs[s].tok, NoToken}
    PROVE  TokenOwnership'
  BY ForgetFacts DEF TokenOwnership, Executing, TxPCs

(* A fresh token is on no row. *)
LEMMA TokenOwnershipNewClaim ==
    ASSUME TypeOK, TokenOwnership, NEW w \in Workers, NEW s \in Steps \cup {0}, NEW next,
           NewStepClaim(w, s), Goto(w, next), UNCHANGED <<steps, jobs>>
    PROVE  TokenOwnership'
  BY NewStepClaimFacts, GotoFacts DEF TokenOwnership

(* A row takes a token only from the process that holds it. *)
LEMMA TokenOwnershipStep ==
    TypeOK /\ RowShape /\ WorkerShape /\ TokenOwnership /\ TxShape /\ [Next]_vars
        => TokenOwnership'
<1> SUFFICES ASSUME TypeOK, RowShape, WorkerShape, TokenOwnership, TxShape, [Next]_vars
             PROVE  TokenOwnership'
  OBVIOUS
<1> USE DEF rows, procs, tx, TxPCs
<1>1. ASSUME NEW w \in Workers, Poll(w) PROVE TokenOwnership'
  BY <1>1, TokenOwnershipNewClaim DEF Poll
<1>2. ASSUME NEW w \in Workers, ClaimNextRunnableJob(w) PROVE TokenOwnership'
  BY <1>2, JobClaimFacts DEF TokenOwnership, WorkerShape, Claimed, Row, TypeOK, Executing, TxPCs
<1>3. ASSUME NEW w \in Workers, ClaimNextRunnableJobMiss(w) PROVE TokenOwnership'
  <2>1. CASE Forget(w)
    BY <1>3, <2>1, TokenOwnershipForget DEF ClaimNextRunnableJobMiss
  <2>2. CASE Goto(w, "scanPending") /\ UNCHANGED claim
    BY <1>3, <2>2 DEF ClaimNextRunnableJobMiss, TokenOwnership, Goto, TypeOK, Executing, TxPCs
  <2> QED
    BY <1>3, <2>1, <2>2 DEF ClaimNextRunnableJobMiss
<1>4. ASSUME NEW w \in Workers, ClaimPendingStep(w) PROVE TokenOwnership'
  BY <1>4 DEF ClaimPendingStep, TokenOwnership, WorkerShape, Goto, TypeOK, Claimed, Row, Executing, TxPCs
<1>5. ASSUME NEW w \in Workers, ReclaimExpiredStep(w) PROVE TokenOwnership'
  BY <1>5 DEF ReclaimExpiredStep, TokenOwnership, WorkerShape, Goto, TypeOK, Claimed, Row, Executing, TxPCs
<1>6. ASSUME NEW w \in Workers, ScanPending(w) PROVE TokenOwnership'
  <2>1. CASE Goto(w, "scanExpired") /\ UNCHANGED claim
    BY <1>6, <2>1 DEF ScanPending, TokenOwnership, Goto, TypeOK, Executing, TxPCs
  <2> QED
    BY <1>6, <2>1, TokenOwnershipNewClaim DEF ScanPending
<1>7. ASSUME NEW w \in Workers, ScanExpired(w) PROVE TokenOwnership'
  <2>1. CASE Forget(w)
    BY <1>7, <2>1, TokenOwnershipForget DEF ScanExpired
  <2> QED
    BY <1>7, <2>1, TokenOwnershipNewClaim DEF ScanExpired
<1>8. ASSUME NEW w \in Workers, ClaimJobByStepID(w) PROVE TokenOwnership'
  <2>1. CASE UNCHANGED <<jobs, claim>>
    BY <1>8, <2>1, BindFacts DEF TokenOwnership, Executing, TxPCs
  <2>2. CASE /\ jobs' = [jobs EXCEPT ![claim[w].step] = Claimed(w)]
             /\ claim'[w].job = claim[w].step
    BY <1>8, <2>2, BindFacts DEF TokenOwnership, WorkerShape, TypeOK, Claimed, Row, Executing, TxPCs
  <2> QED
    BY <1>8, <2>1, <2>2, BindFacts
<1>9. ASSUME NEW w \in Workers, ExecuteRunnableStep(w) PROVE TokenOwnership'
  <2>1. CASE Forget(w)
    BY <1>9, <2>1, TokenOwnershipForget DEF ExecuteRunnableStep
  <2>2. CASE Goto(w, "exec") /\ UNCHANGED claim
    BY <1>9, <2>2 DEF ExecuteRunnableStep, TokenOwnership, Goto, TypeOK, Executing, TxPCs
  <2> QED
    BY <1>9, <2>1, <2>2 DEF ExecuteRunnableStep
<1>10. ASSUME NEW w \in Workers, RenewJobLease(w) PROVE TokenOwnership'
  BY <1>10 DEF RenewJobLease, HoldsJob, TokenOwnership, TypeOK, Row
<1>11. ASSUME NEW w \in Workers, RenewStepLease(w) PROVE TokenOwnership'
  BY <1>11 DEF RenewStepLease, HoldsStep, TokenOwnership, TypeOK, Row
<1>12. ASSUME NEW w \in Workers, CommitStep(w) \/ UpdateBuild(w) PROVE TokenOwnership'
  <2>0. pc[w] \in TxPCs /\ Commit(w)
    BY <1>12 DEF CommitStep, UpdateBuild
  <2>1. \A s \in Steps : /\ steps'[s].tok \in {steps[s].tok, NoToken}
                         /\ s = claim[w].step => steps'[s].tok = NoToken
                         /\ jobs'[s].tok \in {jobs[s].tok, NoToken}
    BY <2>0, CommitWrites
  <2>2. CASE Forget(w)
    BY <2>1, <2>2, TokenOwnershipForget
  <2>3. CASE ~Forget(w)
    <3>1. /\ claim' = claim /\ jobs' = jobs
          /\ pc'[w] \in {"completeJobSuccess", "completeJobFailure"}
          /\ \A v \in Workers \ {w} : pc'[v] = pc[v]
      BY <2>0, <2>3, GotoFacts DEF Commit
    <3> QED
      BY <2>0, <2>1, <3>1 DEF TokenOwnership, Executing, TxPCs
  <2> QED
    BY <2>2, <2>3
<1>13. ASSUME NEW w \in Workers, NEW next \in TxPCs, pc[w] \in {"exec", "runnable"},
              Goto(w, next), UNCHANGED <<claim, steps, jobs>>
       PROVE TokenOwnership'
  BY <1>13, GotoFacts DEF TokenOwnership, Executing, TxPCs
<1>18. ASSUME NEW w \in Workers, NEW res \in StepResults, ApplyStepCompletion(w, res)
       PROVE TokenOwnership'
  <2>1. AfterCounts(View(w, res)) \in TxPCs
    BY DEF AfterCounts
  <2> QED
    BY <1>13, <1>18, <2>1 DEF ApplyStepCompletion
<1>19. ASSUME NEW w \in Workers, HasRunnablePendingStep(w) PROVE TokenOwnership'
  BY <1>13, <1>19 DEF HasRunnablePendingStep
<1>14. ASSUME NEW w \in Workers, CompleteJob(w) PROVE TokenOwnership'
  BY <1>14, TokenOwnershipForget DEF CompleteJob, Unclaimed, Row, TypeOK
<1>15. ASSUME NEW w \in Workers, Forget(w), UNCHANGED rows PROVE TokenOwnership'
  BY <1>15, TokenOwnershipForget
<1>16. CASE CancelBuild
  BY <1>16 DEF CancelBuild, TokenOwnership, Unclaimed, Row
<1>17. CASE UNCHANGED <<steps, jobs, procs>>
  BY <1>17 DEF TokenOwnership
<1> QED
  BY <1>1, <1>2, <1>3, <1>4, <1>5, <1>6, <1>7, <1>8, <1>9, <1>10, <1>11, <1>12, <1>14, <1>15,
     <1>16, <1>17, <1>18, <1>19
     DEF Next, WorkerNext, vars, ReclaimExpiredStepMiss, CompletionRefused, UpdateBuildNoop,
         Abandon, Tick

-----------------------------------------------------------------------------
(* How a step row may change, and the order of dependencies *)

(* The only moves of a step's status: claim, completion, cancellation. *)
StepMove(s) ==
    \/ steps'[s].status = steps[s].status
    \/ /\ steps[s].status = "pending" /\ DepsSucceeded(s)
       /\ steps'[s].status = "running"
    \/ steps[s].status = "running" /\ steps'[s].status \in StepResults
    \/ /\ CanCancelStep(steps[s].status)
       /\ steps'[s].status = "canceled" /\ status' = "canceled"

(* Every step of the system makes one of these moves, on every row. *)
LEMMA StepMoves ==
    TypeOK /\ WorkerShape /\ TxShape /\ [Next]_vars => \A s \in Steps : StepMove(s)
<1> SUFFICES ASSUME TypeOK, WorkerShape, TxShape, [Next]_vars
             PROVE  \A s \in Steps : StepMove(s)
  OBVIOUS
<1> USE DEF rows, procs, TypeOK, StepMove, Row
<1>1. ASSUME NEW w \in Workers, ClaimPendingStep(w) PROVE \A s \in Steps : StepMove(s)
  BY <1>1 DEF ClaimPendingStep, CanClaimPendingStep, Claimed
<1>2. ASSUME NEW w \in Workers, ReclaimExpiredStep(w) PROVE \A s \in Steps : StepMove(s)
  BY <1>2 DEF ReclaimExpiredStep, CanReclaimExpiredStep, Claimed
<1>3. ASSUME NEW w \in Workers, RenewStepLease(w) PROVE \A s \in Steps : StepMove(s)
  BY <1>3 DEF RenewStepLease, HoldsStep
<1>4. ASSUME NEW w \in Workers, pc[w] \in TxPCs, Commit(w)
      PROVE \A s \in Steps : StepMove(s)
  BY <1>4, CommitWrites
<1>5. CASE CancelBuild
  BY <1>5 DEF CancelBuild, Unclaimed
<1>6. CASE UNCHANGED steps
  BY <1>6
<1>7. ASSUME NEW w \in Workers, CommitStep(w) \/ UpdateBuild(w)
      PROVE  pc[w] \in TxPCs /\ Commit(w)
  BY <1>7 DEF CommitStep, UpdateBuild, TxPCs
<1>10. ASSUME NEW w \in Workers, NEW res \in StepResults,
              ApplyStepCompletion(w, res) \/ CompletionRefused(w, res)
       PROVE  UNCHANGED steps
  BY <1>10 DEF ApplyStepCompletion, CompletionRefused
<1>8. ASSUME NEW w \in Workers,
             \/ Poll(w) \/ ClaimNextRunnableJob(w) \/ ClaimNextRunnableJobMiss(w)
             \/ ReclaimExpiredStepMiss(w) \/ ScanPending(w) \/ ScanExpired(w)
             \/ ClaimJobByStepID(w) \/ ExecuteRunnableStep(w) \/ RenewJobLease(w)
             \/ HasRunnablePendingStep(w) \/ UpdateBuildNoop(w)
             \/ CompleteJob(w) \/ Abandon(w)
      PROVE  UNCHANGED steps
  BY <1>8 DEF Poll, ClaimNextRunnableJob, ClaimNextRunnableJobMiss, ReclaimExpiredStepMiss,
         ScanPending, ScanExpired, ClaimJobByStepID, ExecuteRunnableStep, RenewJobLease,
         HasRunnablePendingStep, UpdateBuildNoop, CompleteJob, Abandon
<1>9. CASE Tick
  BY <1>6, <1>9 DEF Tick
<1> HIDE DEF StepMove
<1> QED
  BY <1>1, <1>2, <1>3, <1>4, <1>5, <1>6, <1>7, <1>8, <1>9, <1>10 DEF Next, WorkerNext, vars

(* A step starts when its dependencies are successes, and a success stays. *)
LEMMA DependencyOrderStep ==
    TypeOK /\ WorkerShape /\ TxShape /\ DependencyOrder /\ [Next]_vars => DependencyOrder'
<1> SUFFICES ASSUME TypeOK, WorkerShape, TxShape, DependencyOrder, [Next]_vars, NEW s \in Steps,
                    steps'[s].status \in {"running", "success", "failed"},
                    NEW d \in Deps[s]
             PROVE  steps'[d].status = "success"
  BY DEF DependencyOrder, DepsSucceeded
<1>1. d \in Steps
  BY DepsAssumption
<1>2. StepMove(s) /\ StepMove(d)
  BY <1>1, StepMoves
<1>3. DepsSucceeded(s)
  BY <1>2 DEF StepMove, DependencyOrder, CanCancelStep
<1>4. steps[d].status = "success"
  BY <1>3 DEF DepsSucceeded
<1> QED
  BY <1>2, <1>4 DEF StepMove, CanCancelStep

-----------------------------------------------------------------------------
(* Open completions *)

(* What an open completion has locked stays as it is: a reclaim waits for  *)
(* the step, the claims of jobs pass the job over, and every other         *)
(* statement asks for a token, which another process does not have.        *)
LEMMA LockedRowsKept ==
    ASSUME TypeOK, RowShape, WorkerShape, TxShape, [Next]_vars,
           NEW v \in Workers, InTx(v), result'[v] # "none"
    PROVE  LET s == claim[v].step
           IN  /\ steps'[s].status = "running" /\ steps'[s].tok = claim[v].tok
               /\ IsAtomic(v, result[v]) =>
                     jobs'[s].status = "running" /\ jobs'[s].tok = claim[v].tok
<1> DEFINE s == claim[v].step
           Kept == /\ steps'[s].status = "running" /\ steps'[s].tok = claim[v].tok
                   /\ IsAtomic(v, result[v]) =>
                         jobs'[s].status = "running" /\ jobs'[s].tok = claim[v].tok
<1>1. /\ s \in Steps /\ pc[v] \in TxPCs /\ claim[v].tok # NoToken
      /\ claim[v].job # 0 => claim[v].job = s
  BY DEF TxShape, TxPCs, WorkerShape, TypeOK, ClaimType
<1>2. /\ steps[s].status = "running" /\ steps[s].tok = claim[v].tok
      /\ IsAtomic(v, result[v]) => /\ jobs[s].status = "running" /\ jobs[s].tok = claim[v].tok
                                   /\ claim[v].job = s
  BY <1>1 DEF TxShape, HoldsStep, HoldsJob, IsAtomic
<1>3. StepLocked(s) /\ (IsAtomic(v, result[v]) => JobLocked(s))
  BY <1>2 DEF StepLocked, JobLocked
<1> USE DEF rows, procs
<1>4. ASSUME NEW w \in Workers, ClaimNextRunnableJob(w) PROVE Kept
  BY <1>1, <1>2, <1>3, <1>4, JobClaimFacts DEF TypeOK
<1>5. ASSUME NEW w \in Workers, ClaimPendingStep(w) PROVE Kept
  BY <1>1, <1>2, <1>5 DEF ClaimPendingStep, CanClaimPendingStep, TypeOK
<1>6. ASSUME NEW w \in Workers, ReclaimExpiredStep(w) PROVE Kept
  BY <1>1, <1>2, <1>3, <1>6 DEF ReclaimExpiredStep, TypeOK
<1>7. ASSUME NEW w \in Workers, ClaimJobByStepID(w) PROVE Kept
  BY <1>1, <1>2, <1>3, <1>7, BindFacts DEF TypeOK
<1>8. ASSUME NEW w \in Workers, RenewJobLease(w) PROVE Kept
  BY <1>1, <1>2, <1>8 DEF RenewJobLease, HoldsJob, TypeOK, Row
<1>9. ASSUME NEW w \in Workers, RenewStepLease(w) PROVE Kept
  BY <1>1, <1>2, <1>9 DEF RenewStepLease, HoldsStep, TypeOK, Row
<1>10. ASSUME NEW w \in Workers \ {v} PROVE claim[w].tok # claim[v].tok
  BY <1>1, <1>10 DEF WorkerShape
<1>11. ASSUME NEW w \in Workers, CommitStep(w) \/ UpdateBuild(w) PROVE Kept
  <2>1. pc[w] \in TxPCs /\ Commit(w)
    BY <1>11 DEF CommitStep, UpdateBuild, TxPCs
  <2>2. w # v
    BY <2>1, CommitFacts
  <2>3. claim[w].step # s
    BY <1>2, <1>10, <2>1, <2>2, CommitFacts
  <2> QED
    BY <1>1, <1>2, <2>1, <2>3, CommitFacts
<1>12. ASSUME NEW w \in Workers, CompleteJob(w) PROVE Kept
  <2>1. w # v
    BY <1>1, <1>12 DEF CompleteJob, TxPCs
  <2> QED
    BY <1>1, <1>2, <1>10, <1>12, <2>1 DEF CompleteJob, HoldsJob, TypeOK
<1>13. ~CancelBuild
  BY DEF CancelBuild
<1>14. CASE UNCHANGED <<steps, jobs>>
  BY <1>2, <1>14
<1> QED
  BY <1>4, <1>5, <1>6, <1>7, <1>8, <1>9, <1>11, <1>12, <1>13, <1>14
     DEF Next, WorkerNext, vars, Poll, ClaimNextRunnableJobMiss, ReclaimExpiredStepMiss,
         ScanPending, ScanExpired, ExecuteRunnableStep, ApplyStepCompletion, CompletionRefused,
         HasRunnablePendingStep, UpdateBuildNoop, Abandon, Tick

(* A process goes on with its completion or stays without one, ends it, or *)
(* begins it.                                                              *)
TxMove(v) ==
    \/ /\ result'[v] = result[v] /\ (v \in holders' <=> v \in holders)
       /\ pc'[v] \in TxPCs <=> pc[v] \in TxPCs
       /\ pc[v] \in TxPCs => claim'[v] = claim[v]
       /\ pc'[v] = "updateSuccess" => pc[v] = "updateSuccess"
       /\ pc[v] = "updateSuccess" => pc'[v] = "updateSuccess"
    \/ result'[v] = "none" /\ v \notin holders' /\ pc'[v] \notin TxPCs
    \/ \E res \in StepResults : ApplyStepCompletion(v, res)

(* Every step of the system makes one of these moves, in every process. *)
LEMMA TxMoves ==
    TypeOK /\ WorkerShape /\ TxShape /\ [Next]_vars => \A v \in Workers : TxMove(v)
<1> SUFFICES ASSUME TypeOK, WorkerShape, TxShape, [Next]_vars
             PROVE  \A v \in Workers : TxMove(v)
  OBVIOUS
<1> USE DEF rows, procs, tx, TxPCs
<1>1. ASSUME NEW w \in Workers, Forget(w) PROVE \A v \in Workers : TxMove(v)
  BY <1>1, ForgetFacts DEF TxMove
<1>2. ASSUME NEW w \in Workers, NEW next, Goto(w, next), UNCHANGED <<result, holders>>,
             \/ pc[w] \notin TxPCs /\ next \notin TxPCs
             \/ pc[w] = "runnable" /\ next \in {"commit", "updateFailed"} /\ claim' = claim,
             \A v \in Workers \ {w} : claim'[v] = claim[v]
      PROVE  \A v \in Workers : TxMove(v)
  BY <1>2, GotoFacts DEF TxMove
<1>3. ASSUME NEW w \in Workers, Poll(w) PROVE \A v \in Workers : TxMove(v)
  BY <1>2, <1>3, NewStepClaimFacts DEF Poll
<1>4. ASSUME NEW w \in Workers, ClaimNextRunnableJob(w) PROVE \A v \in Workers : TxMove(v)
  BY <1>4, JobClaimFacts DEF TxMove
<1>5. ASSUME NEW w \in Workers, ClaimNextRunnableJobMiss(w) PROVE \A v \in Workers : TxMove(v)
  BY <1>1, <1>2, <1>5 DEF ClaimNextRunnableJobMiss
<1>6. ASSUME NEW w \in Workers, ClaimPendingStep(w) PROVE \A v \in Workers : TxMove(v)
  BY <1>2, <1>6 DEF ClaimPendingStep
<1>7. ASSUME NEW w \in Workers, ReclaimExpiredStep(w) PROVE \A v \in Workers : TxMove(v)
  BY <1>2, <1>7 DEF ReclaimExpiredStep
<1>8. ASSUME NEW w \in Workers, ScanPending(w) PROVE \A v \in Workers : TxMove(v)
  BY <1>2, <1>8, NewStepClaimFacts DEF ScanPending
<1>9. ASSUME NEW w \in Workers, ScanExpired(w) PROVE \A v \in Workers : TxMove(v)
  BY <1>1, <1>2, <1>9, NewStepClaimFacts DEF ScanExpired
<1>10. ASSUME NEW w \in Workers, ClaimJobByStepID(w) PROVE \A v \in Workers : TxMove(v)
  BY <1>10, BindFacts DEF TxMove
<1>11. ASSUME NEW w \in Workers, ExecuteRunnableStep(w) PROVE \A v \in Workers : TxMove(v)
  BY <1>1, <1>2, <1>11 DEF ExecuteRunnableStep
<1>12. ASSUME NEW w \in Workers, NEW res \in StepResults, ApplyStepCompletion(w, res)
       PROVE  \A v \in Workers : TxMove(v)
  <2>1. /\ \A v \in Workers \ {w} : pc'[v] = pc[v] /\ result'[v] = result[v]
        /\ UNCHANGED claim
    BY <1>12, GotoFacts DEF ApplyStepCompletion, TypeOK
  <2>2. \A v \in Workers \ {w} : v \in holders' <=> v \in holders
    BY <1>12 DEF ApplyStepCompletion, BuildLocked
  <2> QED
    BY <1>12, <2>1, <2>2 DEF TxMove
<1>13. ASSUME NEW w \in Workers, HasRunnablePendingStep(w) PROVE \A v \in Workers : TxMove(v)
  BY <1>2, <1>13 DEF HasRunnablePendingStep
<1>14. ASSUME NEW w \in Workers, CommitStep(w) \/ UpdateBuild(w)
       PROVE  \A v \in Workers : TxMove(v)
  <2>1. pc[w] \in TxPCs /\ Commit(w)
    BY <1>14 DEF CommitStep, UpdateBuild
  <2> QED
    BY <1>1, <2>1, CommitFacts DEF TxMove
<1>15. CASE UNCHANGED <<pc, claim, result, holders>>
  BY <1>15 DEF TxMove
<1> QED
  BY <1>1, <1>3, <1>4, <1>5, <1>6, <1>7, <1>8, <1>9, <1>10, <1>11, <1>12, <1>13, <1>14, <1>15
     DEF Next, WorkerNext, vars, ReclaimExpiredStepMiss, RenewJobLease, RenewStepLease,
         CompletionRefused, UpdateBuildNoop, CompleteJob, Abandon, CancelBuild, Tick

(* What the first statements of a completion establish. *)
LEMMA ApplyFacts ==
    ASSUME TypeOK, WorkerShape, NEW w \in Workers, NEW res \in StepResults,
           ApplyStepCompletion(w, res)
    PROVE  /\ pc[w] = "exec" /\ HoldsStep(w) /\ (IsAtomic(w, res) => HoldsJob(w))
           /\ pc'[w] = AfterCounts(View(w, res)) /\ pc'[w] \in TxPCs
           /\ result'[w] = res /\ UNCHANGED <<status, steps, jobs, claim>>
           /\ \/ res = "success" /\ status = "running" /\ holders = {} /\ holders' = {w}
              \/ (res # "success" \/ status # "running") /\ holders' = holders
<1>1. pc'[w] = AfterCounts(View(w, res))
  BY GotoFacts DEF ApplyStepCompletion
<1>2. AfterCounts(View(w, res)) \in TxPCs
  BY DEF AfterCounts, TxPCs
<1>3. result'[w] = res
  BY DEF ApplyStepCompletion, TypeOK
<1> QED
  BY <1>1, <1>2, <1>3 DEF ApplyStepCompletion, CanComplete, HasLiveJob, BuildLocked, rows

(* An open completion has its step and job, and one at most the build. *)
LEMMA TxShapeStep ==
    TypeOK /\ RowShape /\ WorkerShape /\ TxShape /\ [Next]_vars => TxShape'
<1> SUFFICES ASSUME TypeOK, RowShape, WorkerShape, TxShape, [Next]_vars PROVE TxShape'
  OBVIOUS
<1>1. ASSUME NEW v \in Workers
      PROVE  /\ InTx(v)' <=> pc'[v] \in TxPCs
             /\ InTx(v)' => HoldsStep(v)' /\ (IsAtomic(v, result[v])' => HoldsJob(v)')
             /\ v \in holders' => result'[v] = "success"
  <2>1. CASE /\ result'[v] = result[v] /\ (v \in holders' <=> v \in holders)
             /\ pc'[v] \in TxPCs <=> pc[v] \in TxPCs
             /\ pc[v] \in TxPCs => claim'[v] = claim[v]
    <3>1. InTx(v)' <=> InTx(v)
      BY <2>1 DEF InTx
    <3>2. CASE InTx(v)
      <4>1. claim'[v] = claim[v] /\ (claim[v].job # 0 => claim[v].job = claim[v].step)
        BY <2>1, <3>2 DEF TxShape, WorkerShape
      <4>2. /\ steps'[claim[v].step].status = "running"
            /\ steps'[claim[v].step].tok = claim[v].tok
            /\ IsAtomic(v, result[v]) =>
                  /\ jobs'[claim[v].step].status = "running"
                  /\ jobs'[claim[v].step].tok = claim[v].tok
        BY <2>1, <3>2, LockedRowsKept DEF InTx
      <4> QED
        BY <2>1, <3>1, <3>2, <4>1, <4>2 DEF TxShape, HoldsStep, HoldsJob, IsAtomic
    <3> QED
      BY <2>1, <3>1, <3>2 DEF TxShape
  <2>2. CASE result'[v] = "none" /\ v \notin holders' /\ pc'[v] \notin TxPCs
    BY <2>2 DEF InTx
  <2>3. ASSUME NEW res \in StepResults, ApplyStepCompletion(v, res)
        PROVE  /\ InTx(v)' <=> pc'[v] \in TxPCs
               /\ InTx(v)' => HoldsStep(v)' /\ (IsAtomic(v, result[v])' => HoldsJob(v)')
               /\ v \in holders' => result'[v] = "success"
    <3>1. result[v] = "none" /\ v \notin holders
      BY <2>3, ApplyFacts DEF TxShape, InTx, TxPCs
    <3> QED
      BY <2>3, <3>1, ApplyFacts DEF InTx, StepResults, HoldsStep, HoldsJob, IsAtomic
  <2> QED
    BY <2>1, <2>2, <2>3, TxMoves DEF TxMove
<1>2. ASSUME NEW u \in holders', NEW v \in holders' PROVE u = v
  <2>0. u \in Workers /\ v \in Workers
    BY TypeStep DEF TypeOK
  <2>1. ASSUME NEW w \in Workers, NEW res \in StepResults, ApplyStepCompletion(w, res)
        PROVE  u = v
    BY <1>2, <2>1, ApplyFacts DEF TxShape
  <2>2. CASE ~\E w \in Workers : \E res \in StepResults : ApplyStepCompletion(w, res)
    BY <1>2, <2>0, <2>2, TxMoves DEF TxMove, TxShape
  <2> QED
    BY <2>1, <2>2
<1> QED
  BY <1>1, <1>2 DEF TxShape

-----------------------------------------------------------------------------
(* The verdict on the build *)

(* The build's status changes with the completion that decides it, or with *)
(* the cancellation.                                                       *)
LEMMA StatusMoves ==
    ASSUME [Next]_vars
    PROVE  \/ UNCHANGED status
           \/ CancelBuild
           \/ \E w \in Workers : UpdateBuild(w)
  BY DEF Next, WorkerNext, vars, rows, Poll, ClaimNextRunnableJob, ClaimNextRunnableJobMiss,
         ClaimPendingStep, ReclaimExpiredStep, ReclaimExpiredStepMiss, ScanPending, ScanExpired,
         ClaimJobByStepID, ExecuteRunnableStep, RenewJobLease, RenewStepLease,
         ApplyStepCompletion, CompletionRefused, HasRunnablePendingStep, CommitStep,
         UpdateBuildNoop, CompleteJob, Abandon, Tick

(* A step becomes a success with the commit of its completion. *)
LEMMA SuccessMoves ==
    ASSUME TypeOK, WorkerShape, TxShape, [Next]_vars, NEW s \in Steps,
           steps[s].status # "success", steps'[s].status = "success"
    PROVE  \E w \in Workers :
              /\ CommitStep(w) \/ UpdateBuild(w)
              /\ claim[w].step = s /\ result[w] = "success"
<1> USE DEF rows, procs, TypeOK, Row
<1>1. ASSUME NEW w \in Workers, ClaimPendingStep(w) PROVE FALSE
  BY <1>1 DEF ClaimPendingStep, Claimed
<1>2. ASSUME NEW w \in Workers, ReclaimExpiredStep(w) PROVE FALSE
  BY <1>2 DEF ReclaimExpiredStep, Claimed
<1>3. ASSUME NEW w \in Workers, RenewStepLease(w) PROVE FALSE
  BY <1>3 DEF RenewStepLease
<1>4. ASSUME NEW w \in Workers, CommitStep(w) \/ UpdateBuild(w)
      PROVE  claim[w].step = s /\ result[w] = "success"
  <2>1. pc[w] \in TxPCs /\ Commit(w)
    BY <1>4 DEF CommitStep, UpdateBuild, TxPCs
  <2> QED
    BY <2>1, CommitWrites
<1>5. ~CancelBuild
  BY DEF CancelBuild, Unclaimed
<1>6. ~UNCHANGED steps
  OBVIOUS
<1> QED
  BY <1>1, <1>2, <1>3, <1>4, <1>5, <1>6
     DEF Next, WorkerNext, vars, Poll, ClaimNextRunnableJob, ClaimNextRunnableJobMiss,
         ReclaimExpiredStepMiss, ScanPending, ScanExpired, ClaimJobByStepID,
         ExecuteRunnableStep, RenewJobLease, ApplyStepCompletion, CompletionRefused,
         HasRunnablePendingStep, UpdateBuildNoop, CompleteJob, Abandon, Tick

(* The rows as the completion of w sees them. *)
LEMMA ViewFacts ==
    ASSUME TypeOK, WorkerShape, NEW w \in Workers, pc[w] \in {"exec"} \cup TxPCs, NEW res
    PROVE  /\ claim[w].step \in Steps
           /\ View(w, res)[claim[w].step].status = res
           /\ \A s \in Steps \ {claim[w].step} : View(w, res)[s] = steps[s]
  BY DEF View, Unclaimed, Row, TypeOK, WorkerShape, ClaimType, TxPCs

(* A completion commits with or without a verdict on the build, and what   *)
(* it saw becomes the rows.                                                *)
LEMMA CommitView ==
    ASSUME NEW w \in Workers, CommitStep(w) \/ UpdateBuild(w)
    PROVE  /\ pc[w] \in TxPCs /\ Commit(w) /\ steps' = View(w, result[w])
  BY DEF CommitStep, UpdateBuild, Commit, TxPCs

(* What was counted under the lock of the builds row holds until the       *)
(* transaction ends, and a count without it decides only about a failure.  *)
LEMMA DecisionShapeStep ==
    TypeOK /\ RowShape /\ WorkerShape /\ TxShape /\ DecisionShape /\ [Next]_vars
        => DecisionShape'
<1> SUFFICES ASSUME TypeOK, RowShape, WorkerShape, TxShape, DecisionShape, [Next]_vars
             PROVE  DecisionShape'
  OBVIOUS
<1>0. TypeOK' /\ WorkerShape'
  BY TypeStep, WorkerShapeStep
<1>1. \A s \in Steps : steps[s].status = "success" => steps'[s].status = "success"
  BY StepMoves DEF StepMove, StepResults, CanCancelStep
<1>2. status' = "running" => status = "running"
  BY StatusMoves DEF CancelBuild, UpdateBuild
<1>3. holders' # {} => status' = "running"
  <2>1. CASE CancelBuild
    <3>1. holders = {}
      BY <2>1 DEF CancelBuild, TxShape, InTx, TypeOK
    <3> QED
      BY <2>1, <3>1 DEF CancelBuild, procs
  <2>2. ASSUME NEW w \in Workers, UpdateBuild(w) PROVE holders' = {}
    <3>1. w \notin holders' /\ \A v \in Workers \ {w} : v \in holders' <=> v \in holders
      BY <2>2, CommitView, CommitFacts
    <3>2. holders \subseteq {w}
      BY <2>2 DEF UpdateBuild
    <3> QED
      BY <1>0, <3>1, <3>2 DEF TypeOK
  <2>3. CASE UNCHANGED status
    <3>1. ASSUME NEW w \in holders' PROVE status = "running"
      <4>1. w \in Workers
        BY <1>0 DEF TypeOK
      <4>2. ASSUME NEW res \in StepResults, ApplyStepCompletion(w, res) PROVE status = "running"
        BY <4>1, <4>2, ApplyFacts DEF DecisionShape
      <4> QED
        BY <4>1, <4>2, TxMoves DEF TxMove, DecisionShape
    <3> QED
      BY <2>3, <3>1
  <2> QED
    BY <2>1, <2>2, <2>3, StatusMoves
<1>4. ASSUME NEW w \in Workers, pc'[w] = "updateSuccess", NEW s \in Steps
      PROVE  View(w, result[w])'[s].status = "success"
  <2>1. CASE /\ result'[w] = result[w] /\ claim'[w] = claim[w] /\ pc[w] = "updateSuccess"
    <3>1. View(w, result[w])[s].status = "success"
      BY <2>1 DEF DecisionShape
    <3> QED
      BY <1>0, <1>1, <1>4, <2>1, <3>1 DEF View, Unclaimed, Row, TypeOK
  <2>2. ASSUME NEW res \in StepResults, ApplyStepCompletion(w, res)
        PROVE  View(w, result[w])'[s].status = "success"
    <3>1. AfterCounts(View(w, res)) = "updateSuccess"
      BY <1>4, <2>2, ApplyFacts
    <3>2. View(w, res)[s].status = "success"
      BY <3>1 DEF AfterCounts
    <3>3. View(w, result[w])' = View(w, res)
      BY <2>2, ApplyFacts DEF View
    <3> QED
      BY <3>2, <3>3
  <2> QED
    BY <1>4, <2>1, <2>2, TxMoves DEF TxMove, TxPCs
<1>5. ASSUME NEW w \in Workers, status' = "running", result'[w] = "success"
      PROVE  w \in holders'
  <2>1. ASSUME NEW res \in StepResults, ApplyStepCompletion(w, res) PROVE w \in holders'
    BY <1>2, <1>5, <2>1, ApplyFacts
  <2> QED
    BY <1>2, <1>5, <2>1, TxMoves DEF TxMove, DecisionShape
<1>6. ASSUME NEW w \in Workers, status' = "running", pc'[w] \in TxPCs \ {"updateSuccess"}
      PROVE  \E s \in Steps : View(w, result[w])'[s].status # "success"
  <2>1. CASE /\ result'[w] = result[w] /\ claim'[w] = claim[w]
             /\ pc[w] \in TxPCs \ {"updateSuccess"} /\ (w \in holders' <=> w \in holders)
    <3>0. claim[w].step \in Steps
      BY <2>1, ViewFacts
    <3>1. PICK s \in Steps : View(w, result[w])[s].status # "success"
      BY <1>2, <1>6, <2>1 DEF DecisionShape
    <3>2. CASE result[w] # "success"
      BY <1>0, <2>1, <3>0, <3>2 DEF View, Unclaimed, Row, TypeOK
    <3>3. CASE result[w] = "success"
      <4>1. w \in holders /\ s # claim[w].step /\ steps[s].status # "success"
        BY <1>2, <1>6, <2>1, <3>1, <3>3, ViewFacts DEF DecisionShape
      <4>2. ASSUME steps'[s].status = "success" PROVE FALSE
        <5>1. PICK v \in Workers : /\ CommitStep(v) \/ UpdateBuild(v)
                                   /\ claim[v].step = s /\ result[v] = "success"
          BY <4>1, <4>2, SuccessMoves
        <5>2. v \in holders
          BY <1>2, <1>6, <5>1 DEF DecisionShape
        <5>3. v = w
          BY <4>1, <5>2 DEF TxShape
        <5> QED
          BY <4>1, <5>1, <5>3
      <4> QED
        BY <1>0, <2>1, <3>0, <4>1, <4>2 DEF View, TypeOK
    <3> QED
      BY <3>2, <3>3
  <2>2. ASSUME NEW res \in StepResults, ApplyStepCompletion(w, res)
        PROVE  \E s \in Steps : View(w, result[w])'[s].status # "success"
    <3>1. AfterCounts(View(w, res)) # "updateSuccess"
      BY <1>6, <2>2, ApplyFacts
    <3>2. \E s \in Steps : View(w, res)[s].status # "success"
      BY <3>1 DEF AfterCounts
    <3>3. View(w, result[w])' = View(w, res)
      BY <2>2, ApplyFacts DEF View
    <3> QED
      BY <3>2, <3>3
  <2> QED
    BY <1>6, <2>1, <2>2, TxMoves DEF TxMove
<1> QED
  BY <1>3, <1>4, <1>5, <1>6 DEF DecisionShape

(* The build is a success with its last step, and canceled with what was   *)
(* open.                                                                   *)
LEMMA BuildShapeStep ==
    (/\ TypeOK /\ RowShape /\ WorkerShape /\ TxShape /\ DecisionShape /\ BuildShape
     /\ [Next]_vars)
        => BuildShape'
<1> SUFFICES ASSUME TypeOK, RowShape, WorkerShape, TxShape, DecisionShape, BuildShape,
                    [Next]_vars
             PROVE  BuildShape'
  OBVIOUS
<1>0. status' \in BuildStatuses /\ steps' \in [Steps -> RowType(StepStatuses)]
  BY TypeStep DEF TypeOK
<1>1. \A s \in Steps : StepMove(s)
  BY StepMoves
<1>2. status' = status \/ (status = "running" /\ status' \in {"success", "failed", "canceled"})
  BY StatusMoves DEF CancelBuild, CanCancelBuild, UpdateBuild, BuildShape
<1>3. \A s \in Steps : steps'[s].status = "canceled" => status' = "canceled"
  BY <1>1, <1>2 DEF StepMove, BuildShape, StepResults
<1>4. status' = "running" => \E s \in Steps : steps'[s].status # "success"
  <2> SUFFICES ASSUME status' = "running" PROVE \E s \in Steps : steps'[s].status # "success"
    OBVIOUS
  <2>1. PICK s \in Steps : steps[s].status # "success"
    BY <1>2 DEF BuildShape
  <2>2. CASE steps'[s].status = "success"
    <3>1. PICK w \in Workers : CommitStep(w) \/ UpdateBuild(w)
      BY <2>1, <2>2, SuccessMoves
    <3>2. CommitStep(w) /\ status = "running"
      BY <1>2, <3>1 DEF UpdateBuild
    <3>3. \E t \in Steps : View(w, result[w])[t].status # "success"
      BY <3>2 DEF CommitStep, DecisionShape, TxPCs
    <3> QED
      BY <3>1, <3>3, CommitView
  <2> QED
    BY <2>2
<1>5. status' = "success" => \A s \in Steps : steps'[s].status = "success"
  <2> SUFFICES ASSUME status' = "success", NEW s \in Steps PROVE steps'[s].status = "success"
    OBVIOUS
  <2>1. CASE status = "success"
    BY <1>1, <2>1 DEF BuildShape, SuccessIsEarned, StepMove, CanCancelStep, StepResults
  <2>2. ASSUME NEW w \in Workers, UpdateBuild(w) PROVE steps'[s].status = "success"
    <3>1. pc[w] = "updateSuccess"
      BY <2>2 DEF UpdateBuild
    <3> QED
      BY <2>2, <3>1, CommitView DEF DecisionShape
  <2> QED
    BY <2>1, <2>2, StatusMoves DEF CancelBuild
<1>6. status' = "canceled" => \A s \in Steps : IsTerminalStepStatus(steps'[s].status)
  <2> SUFFICES ASSUME status' = "canceled", NEW s \in Steps
               PROVE  IsTerminalStepStatus(steps'[s].status)
    OBVIOUS
  <2>1. CASE status = "canceled"
    BY <1>1, <2>1 DEF BuildShape, StepMove, IsTerminalStepStatus, TerminalStatuses, StepResults
  <2>2. CASE CancelBuild
    BY <2>2 DEF CancelBuild, CanCancelStep, Unclaimed, Row, TypeOK, RowType, StepStatuses,
                IsTerminalStepStatus, TerminalStatuses
  <2> QED
    BY <2>1, <2>2, StatusMoves DEF UpdateBuild
<1> QED
  BY <1>2, <1>3, <1>4, <1>5, <1>6 DEF BuildShape, SuccessIsEarned

(* Dependencies have no cycle, so where nothing runs or has failed, the    *)
(* steps that wait include one that waits for none of the others.          *)
LEMMA WorkLeft ==
    ASSUME TypeOK, BuildShape
    PROVE  RunningHasWork
<1> SUFFICES ASSUME status = "running",
                    \A s \in Steps : steps[s].status \notin {"running", "failed"}
             PROVE  \E s \in Steps : Runnable(steps, s)
  BY DEF RunningHasWork
<1> DEFINE Waiting == {s \in Steps : steps[s].status = "pending"}
<1>1. \A s \in Steps : steps[s].status \in {"pending", "success"}
  BY DEF BuildShape, TypeOK, RowType, StepStatuses
<1>2. Waiting # {} /\ Waiting \in SUBSET Steps
  BY <1>1 DEF BuildShape
<1>3. PICK s \in Waiting : Deps[s] \cap Waiting = {}
  BY <1>2, DepsAssumption
<1>4. \A d \in Deps[s] : d \in Steps /\ steps[d].status = "success"
  BY <1>1, <1>3, DepsAssumption
<1> QED
  BY <1>3, <1>4 DEF Runnable

-----------------------------------------------------------------------------
(* Jobs report the outcome of their steps *)

(* A job row that reaches an outcome reaches the one its step then has. *)
JobMove(s) ==
    \/ jobs'[s].status = jobs[s].status
    \/ jobs'[s].status \notin StepResults
    \/ jobs'[s].status = steps'[s].status

(* Every statement that writes a job row makes such a move. *)
LEMMA JobMoves ==
    TypeOK /\ WorkerShape /\ TxShape /\ JobShape /\ [Next]_vars => \A s \in Steps : JobMove(s)
<1> SUFFICES ASSUME TypeOK, WorkerShape, TxShape, JobShape, [Next]_vars
             PROVE  \A s \in Steps : JobMove(s)
  OBVIOUS
<1> USE DEF rows, procs, TypeOK, JobMove, Row, StepResults
<1>1. ASSUME NEW w \in Workers, ClaimNextRunnableJob(w) PROVE \A s \in Steps : JobMove(s)
  BY <1>1 DEF ClaimNextRunnableJob, Claimed
<1>2. ASSUME NEW w \in Workers, ClaimJobByStepID(w) PROVE \A s \in Steps : JobMove(s)
  BY <1>2 DEF ClaimJobByStepID, Claimed
<1>3. ASSUME NEW w \in Workers, RenewJobLease(w) PROVE \A s \in Steps : JobMove(s)
  BY <1>3 DEF RenewJobLease
<1>4. ASSUME NEW w \in Workers, CompleteJob(w) PROVE \A s \in Steps : JobMove(s)
  BY <1>4 DEF CompleteJob, JobShape, WorkerShape, Unclaimed
<1>5. ASSUME NEW w \in Workers, CommitStep(w) \/ UpdateBuild(w)
      PROVE \A s \in Steps : JobMove(s)
  <2>1. pc[w] \in TxPCs /\ Commit(w)
    BY <1>5 DEF CommitStep, UpdateBuild, TxPCs
  <2> QED
    BY <2>1, CommitWrites
<1>6. CASE CancelBuild
  BY <1>6 DEF CancelBuild, Unclaimed
<1>7. CASE UNCHANGED jobs
  BY <1>7
<1> QED
  BY <1>1, <1>2, <1>3, <1>4, <1>5, <1>6, <1>7
     DEF Next, WorkerNext, vars, Poll, ClaimNextRunnableJobMiss, ClaimPendingStep,
         ReclaimExpiredStep, ReclaimExpiredStepMiss, ScanPending, ScanExpired,
         ExecuteRunnableStep, RenewStepLease, ApplyStepCompletion, CompletionRefused,
         HasRunnablePendingStep, UpdateBuildNoop, Abandon, Tick

(* A process that has a job left to complete keeps its claim, and has just *)
(* given its step that outcome or had done so before.                      *)
Completing(w) ==
    pc'[w] \in {"completeJobSuccess", "completeJobFailure"} =>
        \/ pc'[w] = pc[w] /\ claim'[w] = claim[w]
        \/ steps'[claim'[w].step].status
              = IF pc'[w] = "completeJobSuccess" THEN "success" ELSE "failed"

(* Only CompleteStep sends a process on to complete a job. *)
LEMMA CompletingStep ==
    TypeOK /\ WorkerShape /\ TxShape /\ [Next]_vars => \A w \in Workers : Completing(w)
<1> SUFFICES ASSUME TypeOK, WorkerShape, TxShape, [Next]_vars
             PROVE  \A w \in Workers : Completing(w)
  OBVIOUS
<1> USE DEF rows, procs, Completing
<1>1. ASSUME NEW v \in Workers, NEW next,
             next \notin {"completeJobSuccess", "completeJobFailure"},
             Goto(v, next), \A w \in Workers \ {v} : claim'[w] = claim[w]
      PROVE  \A w \in Workers : Completing(w)
  BY <1>1, GotoFacts
<1>2. ASSUME NEW v \in Workers, Forget(v) PROVE \A w \in Workers : Completing(w)
  BY <1>2, ForgetFacts
<1>3. ASSUME NEW v \in Workers, Poll(v) PROVE \A w \in Workers : Completing(w)
  BY <1>1, <1>3, NewStepClaimFacts DEF Poll
<1>4. ASSUME NEW v \in Workers, ClaimNextRunnableJob(v) PROVE \A w \in Workers : Completing(w)
  BY <1>4, JobClaimFacts
<1>5. ASSUME NEW v \in Workers, ClaimNextRunnableJobMiss(v)
      PROVE \A w \in Workers : Completing(w)
  BY <1>1, <1>2, <1>5 DEF ClaimNextRunnableJobMiss
<1>6. ASSUME NEW v \in Workers, ClaimPendingStep(v) PROVE \A w \in Workers : Completing(w)
  BY <1>1, <1>6 DEF ClaimPendingStep
<1>7. ASSUME NEW v \in Workers, ReclaimExpiredStep(v) PROVE \A w \in Workers : Completing(w)
  BY <1>1, <1>7 DEF ReclaimExpiredStep
<1>8. ASSUME NEW v \in Workers, ScanPending(v) PROVE \A w \in Workers : Completing(w)
  BY <1>1, <1>8, NewStepClaimFacts DEF ScanPending
<1>9. ASSUME NEW v \in Workers, ScanExpired(v) PROVE \A w \in Workers : Completing(w)
  BY <1>1, <1>2, <1>9, NewStepClaimFacts DEF ScanExpired
<1>10. ASSUME NEW v \in Workers, ClaimJobByStepID(v) PROVE \A w \in Workers : Completing(w)
  BY <1>10, BindFacts
<1>11. ASSUME NEW v \in Workers, ExecuteRunnableStep(v) PROVE \A w \in Workers : Completing(w)
  BY <1>1, <1>2, <1>11 DEF ExecuteRunnableStep
<1>12. ASSUME NEW v \in Workers, CommitStep(v) \/ UpdateBuild(v)
       PROVE \A w \in Workers : Completing(w)
  <2>1. pc[v] \in TxPCs /\ Commit(v)
    BY <1>12 DEF CommitStep, UpdateBuild, TxPCs
  <2> QED
    BY <1>2, <2>1, CommitFacts, CommitWrites DEF StepResults
<1>14. ASSUME NEW v \in Workers, NEW res \in StepResults, ApplyStepCompletion(v, res)
       PROVE \A w \in Workers : Completing(w)
  <2>1. AfterCounts(View(v, res)) \notin {"completeJobSuccess", "completeJobFailure"}
    BY DEF AfterCounts
  <2> QED
    BY <1>1, <1>14, <2>1 DEF ApplyStepCompletion
<1>15. ASSUME NEW v \in Workers, HasRunnablePendingStep(v)
       PROVE \A w \in Workers : Completing(w)
  BY <1>1, <1>15 DEF HasRunnablePendingStep
<1>13. CASE UNCHANGED <<pc, claim>>
  BY <1>13
<1> QED
  BY <1>2, <1>3, <1>4, <1>5, <1>6, <1>7, <1>8, <1>9, <1>10, <1>11, <1>12, <1>13, <1>14, <1>15
     DEF Next, WorkerNext, vars, ReclaimExpiredStepMiss, RenewJobLease, RenewStepLease,
         CompletionRefused, UpdateBuildNoop, CompleteJob, Abandon, CancelBuild, Tick

(* A process that is completing a job has had its token on the job for as  *)
(* long as it holds it.                                                    *)
LEMMA StillHolds ==
    ASSUME TypeOK, RowShape, WorkerShape, TokenOwnership, TxShape, [Next]_vars, NEW w \in Workers,
           pc[w] \in {"completeJobSuccess", "completeJobFailure"},
           claim'[w] = claim[w], HoldsJob(w)'
    PROVE  HoldsJob(w)
<1> DEFINE s == claim[w].job
<1>1. s \in Steps /\ claim[w].tok # NoToken
  BY DEF WorkerShape, TypeOK, ClaimType
<1>2. jobs'[s].status = "running" /\ jobs'[s].tok = claim[w].tok
  BY DEF HoldsJob
<1>3. SUFFICES jobs'[s] = jobs[s] \/ jobs[s].tok = claim[w].tok
  BY <1>1, <1>2 DEF HoldsJob, RowShape
<1> USE DEF rows, procs
<1>4. ASSUME NEW v \in Workers \ {w}, NEW r \in Steps, NEW e,
             jobs' = [jobs EXCEPT ![r] = Row("running", claim[v].tok, e)]
      PROVE  jobs'[s] = jobs[s]
  <2>1. claim[v].tok # claim[w].tok
    BY <1>1 DEF WorkerShape
  <2> QED
    BY <1>1, <1>2, <1>4, <2>1 DEF TypeOK, Row
<1>5. ASSUME NEW v \in Workers, ClaimNextRunnableJob(v) PROVE jobs'[s] = jobs[s]
  <2>1. v # w
    BY <1>5 DEF ClaimNextRunnableJob
  <2> QED
    BY <1>4, <1>5, <2>1, JobClaimFacts DEF Claimed
<1>6. ASSUME NEW v \in Workers, ClaimJobByStepID(v) PROVE jobs'[s] = jobs[s]
  <2>1. v # w /\ claim[v].step \in Steps
    BY <1>6 DEF ClaimJobByStepID, WorkerShape, TypeOK, ClaimType
  <2> QED
    BY <1>4, <1>6, <2>1 DEF ClaimJobByStepID, Claimed
<1>7. ASSUME NEW v \in Workers, RenewJobLease(v)
      PROVE  jobs'[s] = jobs[s] \/ jobs[s].tok = claim[w].tok
  BY <1>1, <1>2, <1>7 DEF RenewJobLease, HoldsJob, TypeOK, Row
<1>8. ASSUME NEW v \in Workers, CompleteJob(v) PROVE jobs'[s] = jobs[s]
  BY <1>1, <1>2, <1>8 DEF CompleteJob, TypeOK, Unclaimed, Row
<1>9. ASSUME NEW v \in Workers, CommitStep(v) \/ UpdateBuild(v) PROVE jobs'[s] = jobs[s]
  <2>1. pc[v] \in TxPCs /\ Commit(v)
    BY <1>9 DEF CommitStep, UpdateBuild, TxPCs
  <2> QED
    BY <1>1, <1>2, <2>1, CommitWrites DEF StepResults
<1>10. CASE CancelBuild
  BY <1>1, <1>2, <1>10 DEF CancelBuild, Unclaimed, Row
<1>11. CASE UNCHANGED jobs
  BY <1>11
<1> QED
  BY <1>5, <1>6, <1>7, <1>8, <1>9, <1>10, <1>11
     DEF Next, WorkerNext, vars, Poll, ClaimNextRunnableJobMiss, ClaimPendingStep,
         ReclaimExpiredStep, ReclaimExpiredStepMiss, ScanPending, ScanExpired,
         ExecuteRunnableStep, RenewStepLease, ApplyStepCompletion, CompletionRefused,
         HasRunnablePendingStep, UpdateBuildNoop, Abandon, Tick

(* A step that a job reports on is terminal, so its status stays. *)
LEMMA JobShapeStep ==
    TypeOK /\ RowShape /\ WorkerShape /\ TokenOwnership /\ TxShape /\ JobShape /\ [Next]_vars
        => JobShape'
<1> SUFFICES ASSUME TypeOK, RowShape, WorkerShape, TokenOwnership, TxShape, JobShape, [Next]_vars
             PROVE  JobShape'
  OBVIOUS
<1>1. \A s \in Steps : steps[s].status \in StepResults => steps'[s].status = steps[s].status
  BY StepMoves DEF StepMove, StepResults, CanCancelStep
<1>2. JobOutcomeAgrees'
  BY <1>1, JobMoves DEF JobMove, JobShape, JobOutcomeAgrees
<1>3. ASSUME NEW w \in Workers, pc'[w] \in {"completeJobSuccess", "completeJobFailure"},
             HoldsJob(w)'
      PROVE  steps'[claim'[w].step].status
               = IF pc'[w] = "completeJobSuccess" THEN "success" ELSE "failed"
  <2>1. CASE pc'[w] = pc[w] /\ claim'[w] = claim[w]
    <3>1. claim[w].step \in Steps /\ claim[w].job # 0
      BY <1>3, <2>1 DEF WorkerShape, TypeOK, ClaimType
    <3>2. HoldsJob(w)
      BY <1>3, <2>1, StillHolds
    <3> QED
      BY <1>1, <1>3, <2>1, <3>1, <3>2 DEF JobShape, StepResults
  <2> QED
    BY <1>3, <2>1, CompletingStep DEF Completing
<1> QED
  BY <1>2, <1>3 DEF JobShape

-----------------------------------------------------------------------------
(* Leases *)

(* A process that forgets its claim, while rows only lose their tokens,    *)
(* leaves the leases in order.                                             *)
LEMMA LeaseShapeForget ==
    ASSUME TypeOK, WorkerShape, LeaseShape, NEW w \in Workers, Forget(w), UNCHANGED now,
           \A s \in Steps :
              /\ steps'[s] = steps[s] \/ (steps'[s].tok = NoToken /\ steps'[s].exp = 0)
              /\ jobs'[s] = jobs[s] \/ (jobs'[s].tok = NoToken /\ jobs'[s].exp = 0)
    PROVE  LeaseShape'
<1>1. StepLeaseCovered'
  BY DEF LeaseShape, StepLeaseCovered
<1>2. \A s \in Steps : steps'[s].exp <= now' + Lease
  BY TimeAssumption DEF LeaseShape, TypeOK
<1>3. ASSUME NEW v \in Workers \ {w}
      PROVE  pc'[v] = pc[v] /\ claim'[v] = claim[v] /\ renewal'[v] = renewal[v]
  BY <1>3, ForgetFacts
<1>4. pc'[w] = "idle" /\ renewal'[w] = 0 /\ claim'[w].at = 0
  BY ForgetFacts
<1>5. \A v \in Workers : claim'[v].at <= now' /\ renewal'[v] <= now' + Lease
  BY <1>3, <1>4, TimeAssumption DEF LeaseShape, TypeOK
<1>6. ASSUME NEW v \in Workers, pc[v] # "idle"
      PROVE  claim[v].tok # NoToken /\ (claim[v].step # 0 => claim[v].step \in Steps)
  BY <1>6 DEF WorkerShape, TypeOK, ClaimType
<1>7. ASSUME NEW v \in Workers,
             pc'[v] \in {"mirrorPending", "mirrorExpired"},
             jobs'[claim'[v].step].tok = claim'[v].tok
      PROVE  jobs'[claim'[v].step].exp = claim'[v].at + Lease
  BY <1>3, <1>4, <1>6, <1>7 DEF LeaseShape, WorkerShape
<1>8. ASSUME NEW v \in Workers, pc'[v] = "bind", steps'[claim'[v].step].tok = claim'[v].tok
      PROVE  steps'[claim'[v].step].exp = claim'[v].at + Lease
  BY <1>3, <1>4, <1>6, <1>8 DEF LeaseShape, WorkerShape
<1>9. ASSUME NEW v \in Workers, renewal'[v] # 0, jobs'[claim'[v].step].tok = claim'[v].tok
      PROVE  renewal'[v] <= jobs'[claim'[v].step].exp
  BY <1>3, <1>4, <1>6, <1>9 DEF LeaseShape, WorkerShape, Executing, TxPCs
<1> QED
  BY <1>1, <1>2, <1>5, <1>7, <1>8, <1>9 DEF LeaseShape

(* Drawing a new claim. *)
LEMMA LeaseShapeNewClaim ==
    ASSUME TypeOK, WorkerShape, LeaseShape, NEW w \in Workers, NEW s \in Steps \cup {0},
           NEW next \in {"claimJob", "claimJobOnly", "claimPending", "claimExpired"},
           NewStepClaim(w, s), Goto(w, next), UNCHANGED <<rows, renewal, now>>,
           pc[w] \in {"idle", "scanPending", "scanExpired"}
    PROVE  LeaseShape'
<1>1. pc'[w] = next /\ \A v \in Workers \ {w} : pc'[v] = pc[v]
  BY GotoFacts
<1>2. renewal[w] = 0
  BY DEF WorkerShape, Executing, TxPCs, TypeOK
<1>3. claim'[w].at = now /\ \A v \in Workers \ {w} : claim'[v] = claim[v]
  BY NewStepClaimFacts
<1> QED
  BY <1>1, <1>2, <1>3 DEF LeaseShape, StepLeaseCovered, rows, TypeOK

(* A row is claimed or renewed by w, with w's token. *)
LEMMA OtherTokens ==
    ASSUME TypeOK, WorkerShape, NEW w \in Workers, claim[w].tok # NoToken
    PROVE  \A v \in Workers \ {w} : claim[v].tok # claim[w].tok
  BY DEF WorkerShape

(* Claiming a step row under the claim's token and lease. *)
LEMMA LeaseShapeClaimStep ==
    ASSUME TypeOK, WorkerShape, TokenOwnership, LeaseShape, NEW w \in Workers, NEW next,
           claim[w].step # 0, claim[w].tok # NoToken,
           steps' = [steps EXCEPT ![claim[w].step] = Claimed(w)], Goto(w, next),
           \/ pc[w] \in {"mirrorPending", "mirrorExpired"} /\ next = "start"
           \/ pc[w] \in {"claimPending", "claimExpired"} /\ next = "bind",
           UNCHANGED <<jobs, claim, renewal, now>>
    PROVE  LeaseShape'
<1> DEFINE s == claim[w].step
<1>1. s \in Steps
  BY DEF TypeOK, ClaimType
<1>2. /\ steps'[s].tok = claim[w].tok /\ steps'[s].exp = claim[w].at + Lease
      /\ \A r \in Steps \ {s} : steps'[r] = steps[r]
  BY <1>1 DEF Claimed, Row, TypeOK
<1>3. jobs[s].tok = claim[w].tok => jobs[s].exp = claim[w].at + Lease
  BY <1>1 DEF TokenOwnership, LeaseShape, Executing, TxPCs
<1>4. claim[w].at + Lease \in Nat
  BY TimeAssumption DEF TypeOK, ClaimType
<1>5. StepLeaseCovered'
  BY <1>1, <1>2, <1>3, <1>4 DEF LeaseShape, StepLeaseCovered
<1>6. \A r \in Steps : steps'[r].exp <= now' + Lease
  BY <1>1, <1>2, TimeAssumption DEF LeaseShape, TypeOK, ClaimType
<1>7. pc'[w] = next /\ \A v \in Workers \ {w} : pc'[v] = pc[v]
  BY GotoFacts
<1>8. ASSUME NEW v \in Workers, pc'[v] = "bind", steps'[claim[v].step].tok = claim[v].tok
      PROVE  steps'[claim[v].step].exp = claim[v].at + Lease
  <2>1. CASE v = w
    BY <1>2, <2>1
  <2>2. CASE v # w
    <3>1. claim[v].step \in Steps /\ pc[v] = "bind" /\ claim[v].tok # claim[w].tok
      BY <1>7, <1>8, <2>2, OtherTokens DEF WorkerShape, TypeOK, ClaimType
    <3> QED
      BY <1>2, <1>8, <3>1 DEF LeaseShape
  <2> QED
    BY <2>1, <2>2
<1> QED
  BY <1>5, <1>6, <1>7, <1>8 DEF LeaseShape

(* Claiming or renewing a job row under the claim's token. *)
LEMMA JobTokenStep ==
    ASSUME TypeOK, WorkerShape, NEW w \in Workers, claim[w].tok # NoToken, NEW s \in Steps,
           NEW exp, jobs' = [jobs EXCEPT ![s] = Row("running", claim[w].tok, exp)]
    PROVE  /\ jobs'[s].tok = claim[w].tok /\ jobs'[s].exp = exp
           /\ \A r \in Steps \ {s} : jobs'[r] = jobs[r]
           /\ \A v \in Workers \ {w} : \A r \in Steps :
                 (jobs'[r].tok = claim[v].tok /\ claim[v].tok # NoToken)
                     => jobs'[r] = jobs[r]
  BY OtherTokens DEF Row, TypeOK

(* A claim writes its lease to the job before the step, and so does a      *)
(* renewal; a stolen job takes the lease its step already has.             *)
LEMMA LeaseShapeStep ==
    TypeOK /\ RowShape /\ WorkerShape /\ TokenOwnership /\ TxShape /\ LeaseShape /\ [Next]_vars
        => LeaseShape'
<1> SUFFICES ASSUME TypeOK, RowShape, WorkerShape, TokenOwnership, TxShape, LeaseShape,
                    [Next]_vars
             PROVE  LeaseShape'
  OBVIOUS
<1> USE DEF rows, procs
<1>1. ASSUME NEW w \in Workers, Poll(w) PROVE LeaseShape'
  BY <1>1, LeaseShapeNewClaim DEF Poll
<1>2. ASSUME NEW w \in Workers, ClaimNextRunnableJob(w) PROVE LeaseShape'
  <2>1. PICK s \in Steps :
             /\ jobs' = [jobs EXCEPT ![s] = Claimed(w)]
             /\ claim'[w].step = s
             /\ claim'[w].tok = claim[w].tok /\ claim'[w].at = claim[w].at
             /\ pc[w] \in {"claimJob", "claimJobOnly"} /\ pc'[w] = "mirrorPending"
             /\ \A v \in Workers \ {w} : claim'[v] = claim[v] /\ pc'[v] = pc[v]
             /\ UNCHANGED <<steps, renewal, now>>
    BY <1>2, JobClaimFacts
  <2>2. claim[w].tok # NoToken /\ renewal[w] = 0
    BY <2>1 DEF WorkerShape, Executing, TxPCs
  <2>3. /\ jobs'[s].tok = claim[w].tok /\ jobs'[s].exp = claim[w].at + Lease
        /\ \A r \in Steps \ {s} : jobs'[r] = jobs[r]
        /\ \A v \in Workers \ {w} : \A r \in Steps :
              (jobs'[r].tok = claim[v].tok /\ claim[v].tok # NoToken) => jobs'[r] = jobs[r]
    BY <2>1, <2>2, JobTokenStep DEF Claimed
  <2>4. steps[s].tok # claim[w].tok
    BY <2>1, <2>2 DEF TokenOwnership, TxPCs
  <2>5. StepLeaseCovered'
    BY <2>1, <2>3, <2>4 DEF LeaseShape, StepLeaseCovered
  <2>6. ASSUME NEW v \in Workers \ {w}, pc[v] # "idle", claim[v].step # 0
        PROVE  claim[v].tok # NoToken /\ claim[v].step \in Steps
    BY <2>6 DEF WorkerShape, TypeOK, ClaimType
  <2> QED
    BY <2>1, <2>2, <2>3, <2>5, <2>6 DEF LeaseShape, WorkerShape, Executing, TxPCs
<1>3. ASSUME NEW w \in Workers, ClaimNextRunnableJobMiss(w) PROVE LeaseShape'
  <2>1. CASE Forget(w)
    BY <1>3, <2>1, LeaseShapeForget DEF ClaimNextRunnableJobMiss
  <2>2. CASE Goto(w, "scanPending") /\ UNCHANGED <<claim, renewal>>
    BY <1>3, <2>2 DEF ClaimNextRunnableJobMiss, LeaseShape, StepLeaseCovered, Goto, TypeOK
  <2> QED
    BY <1>3, <2>1, <2>2 DEF ClaimNextRunnableJobMiss
<1>4. ASSUME NEW w \in Workers, ClaimPendingStep(w) PROVE LeaseShape'
  <2>1. claim[w].step # 0 /\ claim[w].tok # NoToken
    BY <1>4 DEF ClaimPendingStep, WorkerShape
  <2>2. CASE steps' = [steps EXCEPT ![claim[w].step] = Claimed(w)]
             /\ (\/ pc[w] = "mirrorPending" /\ Goto(w, "start")
                 \/ pc[w] = "claimPending" /\ Goto(w, "bind"))
    BY <1>4, <2>1, <2>2, LeaseShapeClaimStep DEF ClaimPendingStep
  <2>3. CASE UNCHANGED steps
             /\ (\/ pc[w] = "mirrorPending" /\ Goto(w, "mirrorExpired")
                 \/ pc[w] = "claimPending" /\ Goto(w, "scanExpired"))
    BY <1>4, <2>3 DEF ClaimPendingStep, LeaseShape, StepLeaseCovered, Goto, TypeOK
  <2> QED
    BY <1>4, <2>2, <2>3 DEF ClaimPendingStep
<1>5. ASSUME NEW w \in Workers, ReclaimExpiredStep(w) PROVE LeaseShape'
  <2>1. claim[w].step # 0 /\ claim[w].tok # NoToken
    BY <1>5 DEF ReclaimExpiredStep, WorkerShape
  <2> QED
    BY <1>5, <2>1, LeaseShapeClaimStep DEF ReclaimExpiredStep
<1>6. ASSUME NEW w \in Workers, ScanPending(w) PROVE LeaseShape'
  <2>1. CASE Goto(w, "scanExpired") /\ UNCHANGED claim
    BY <1>6, <2>1 DEF ScanPending, LeaseShape, StepLeaseCovered, Goto, TypeOK
  <2> QED
    BY <1>6, <2>1, LeaseShapeNewClaim DEF ScanPending
<1>7. ASSUME NEW w \in Workers, ScanExpired(w) PROVE LeaseShape'
  <2>1. CASE Forget(w)
    BY <1>7, <2>1, LeaseShapeForget DEF ScanExpired
  <2> QED
    BY <1>7, <2>1, LeaseShapeNewClaim DEF ScanExpired
<1>8. ASSUME NEW w \in Workers, ClaimJobByStepID(w) PROVE LeaseShape'
  <2> DEFINE s == claim[w].step
  <2>1. s \in Steps /\ claim[w].tok # NoToken /\ renewal[w] = 0
    BY <1>8 DEF ClaimJobByStepID, WorkerShape, Executing, TxPCs, TypeOK, ClaimType
  <2>2. CASE UNCHANGED <<jobs, claim>>
    BY <1>8, <2>2, BindFacts DEF LeaseShape, StepLeaseCovered
  <2>3. CASE jobs' = [jobs EXCEPT ![s] = Claimed(w)]
    <3>1. /\ jobs'[s].tok = claim[w].tok /\ jobs'[s].exp = claim[w].at + Lease
          /\ \A r \in Steps \ {s} : jobs'[r] = jobs[r]
          /\ \A v \in Workers \ {w} : \A r \in Steps :
                (jobs'[r].tok = claim[v].tok /\ claim[v].tok # NoToken) => jobs'[r] = jobs[r]
      BY <2>1, <2>3, JobTokenStep DEF Claimed
    <3>2. /\ pc[w] = "bind" /\ pc'[w] = "start"
          /\ \A v \in Workers \ {w} : claim'[v] = claim[v] /\ pc'[v] = pc[v]
          /\ claim'[w].tok = claim[w].tok /\ claim'[w].step = s /\ claim'[w].at = claim[w].at
          /\ UNCHANGED <<steps, renewal, now>>
      BY <1>8, BindFacts
    <3>3. claim[w].at + Lease \in Nat
      BY TimeAssumption DEF TypeOK, ClaimType
    <3>4. StepLeaseCovered'
      BY <2>1, <3>1, <3>2, <3>3 DEF LeaseShape, StepLeaseCovered
    <3>5. ASSUME NEW v \in Workers \ {w}, pc[v] # "idle", claim[v].step # 0
          PROVE  claim[v].tok # NoToken /\ claim[v].step \in Steps
      BY <3>5 DEF WorkerShape, TypeOK, ClaimType
    <3> QED
      BY <2>1, <3>1, <3>2, <3>4, <3>5 DEF LeaseShape, WorkerShape, Executing, TxPCs
  <2> QED
    BY <1>8, <2>2, <2>3, BindFacts
<1>9. ASSUME NEW w \in Workers, ExecuteRunnableStep(w) PROVE LeaseShape'
  <2>1. CASE Forget(w)
    BY <1>9, <2>1, LeaseShapeForget DEF ExecuteRunnableStep
  <2>2. CASE Goto(w, "exec") /\ UNCHANGED <<claim, renewal>>
    BY <1>9, <2>2 DEF ExecuteRunnableStep, LeaseShape, StepLeaseCovered, Goto, TypeOK
  <2> QED
    BY <1>9, <2>1, <2>2 DEF ExecuteRunnableStep
<1>10. ASSUME NEW w \in Workers, RenewJobLease(w) PROVE LeaseShape'
  <2> DEFINE s == claim[w].step
  <2>1. s \in Steps /\ claim[w].tok # NoToken /\ pc[w] \in Executing
    BY <1>10 DEF RenewJobLease, WorkerShape, Executing, TxPCs, TypeOK, ClaimType
  <2>2. /\ renewal'[w] = now + Lease /\ now + Lease \in Nat
        /\ \A v \in Workers \ {w} : renewal'[v] = renewal[v]
        /\ UNCHANGED <<steps, pc, claim, now>>
    BY <1>10, TimeAssumption DEF RenewJobLease, TypeOK
  <2>3. ASSUME NEW v \in Workers, pc[v] # "idle", claim[v].step # 0
        PROVE  claim[v].tok # NoToken /\ claim[v].step \in Steps
    BY <2>3 DEF WorkerShape, TypeOK, ClaimType
  <2>4. CASE claim[w].job = 0 /\ UNCHANGED jobs
    <3>1. jobs[s].tok # claim[w].tok
      BY <2>1, <2>4, StepsAssumption DEF TokenOwnership, Steps
    <3> QED
      BY <2>1, <2>2, <2>4, <3>1 DEF LeaseShape, StepLeaseCovered
  <2>5. CASE /\ claim[w].job # 0
             /\ jobs' = [jobs EXCEPT ![claim[w].job] = Row("running", claim[w].tok, now + Lease)]
    <3>1. claim[w].job = s
      BY <2>5 DEF WorkerShape
    <3>2. /\ jobs'[s].tok = claim[w].tok /\ jobs'[s].exp = now + Lease
          /\ \A r \in Steps \ {s} : jobs'[r] = jobs[r]
          /\ \A v \in Workers \ {w} : \A r \in Steps :
                (jobs'[r].tok = claim[v].tok /\ claim[v].tok # NoToken) => jobs'[r] = jobs[r]
      BY <2>1, <2>5, <3>1, JobTokenStep
    <3>3. StepLeaseCovered'
      BY <2>1, <2>2, <3>2 DEF LeaseShape, StepLeaseCovered
    <3>4. pc[w] \notin {"mirrorPending", "mirrorExpired", "bind"}
      BY <2>1 DEF Executing, TxPCs
    <3> QED
      BY <2>1, <2>2, <2>3, <3>2, <3>3, <3>4 DEF LeaseShape, WorkerShape, Executing, TxPCs
  <2> QED
    BY <1>10, <2>4, <2>5 DEF RenewJobLease
<1>11. ASSUME NEW w \in Workers, RenewStepLease(w) PROVE LeaseShape'
  <2> DEFINE s == claim[w].step
  <2>1. s \in Steps /\ claim[w].tok # NoToken /\ pc[w] \in Executing /\ renewal[w] \in Nat
    BY <1>11 DEF RenewStepLease, WorkerShape, Executing, TxPCs, TypeOK, ClaimType
  <2>2. /\ renewal[w] # 0 /\ renewal'[w] = 0
        /\ \A v \in Workers \ {w} : renewal'[v] = renewal[v]
        /\ UNCHANGED <<jobs, pc, claim, now>>
    BY <1>11 DEF RenewStepLease, TypeOK
  <2>3. CASE UNCHANGED steps
    BY <2>2, <2>3, TimeAssumption DEF LeaseShape, StepLeaseCovered, TypeOK
  <2>4. CASE steps' = [steps EXCEPT ![s] = Row("running", claim[w].tok, renewal[w])]
    <3>1. /\ steps'[s].tok = claim[w].tok /\ steps'[s].exp = renewal[w]
          /\ \A r \in Steps \ {s} : steps'[r] = steps[r]
      BY <2>1, <2>4 DEF Row, TypeOK
    <3>2. StepLeaseCovered'
      BY <2>1, <2>2, <3>1 DEF LeaseShape, StepLeaseCovered
    <3>3. \A r \in Steps : steps'[r].exp <= now' + Lease
      BY <2>1, <2>2, <3>1 DEF LeaseShape
    <3>4. ASSUME NEW v \in Workers, pc[v] = "bind", steps'[claim[v].step].tok = claim[v].tok
          PROVE  steps'[claim[v].step].exp = claim[v].at + Lease
      <4>1. v # w /\ claim[v].step \in Steps
        BY <2>1, <3>4 DEF Executing, TxPCs, WorkerShape, TypeOK, ClaimType
      <4>2. claim[v].tok # claim[w].tok
        BY <2>1, <4>1, OtherTokens
      <4> QED
        BY <3>1, <3>4, <4>1, <4>2 DEF LeaseShape
    <3>5. \A v \in Workers : renewal'[v] <= now' + Lease
      BY <2>2, TimeAssumption DEF LeaseShape, TypeOK
    <3> QED
      BY <2>2, <3>2, <3>3, <3>4, <3>5 DEF LeaseShape
  <2> QED
    BY <1>11, <2>3, <2>4 DEF RenewStepLease
<1>12. ASSUME NEW w \in Workers, CommitStep(w) \/ UpdateBuild(w) PROVE LeaseShape'
  <2>0. pc[w] \in TxPCs /\ Commit(w)
    BY <1>12, CommitView
  <2>1. /\ \A s \in Steps :
              /\ steps'[s] = steps[s] \/ (steps'[s].tok = NoToken /\ steps'[s].exp = 0)
              /\ jobs'[s] = jobs[s] \/ (jobs'[s].tok = NoToken /\ jobs'[s].exp = 0)
        /\ UNCHANGED now
    BY <2>0, CommitWrites DEF Commit
  <2>2. CASE Forget(w)
    BY <2>1, <2>2, LeaseShapeForget
  <2>3. CASE ~Forget(w)
    <3>0. UNCHANGED <<jobs, claim, renewal>>
      BY <2>0, <2>3 DEF Commit
    <3>1. StepLeaseCovered'
      BY <2>1, <3>0 DEF LeaseShape, StepLeaseCovered
    <3>2. \A s \in Steps : steps'[s].exp <= now' + Lease
      BY <2>1, TimeAssumption DEF LeaseShape, TypeOK
    <3>3. /\ pc'[w] \in {"completeJobSuccess", "completeJobFailure"}
          /\ \A v \in Workers \ {w} : pc'[v] = pc[v]
      BY <2>0, <2>3, CommitFacts
    <3>4. ASSUME NEW v \in Workers, pc'[v] = "bind", steps'[claim[v].step].tok = claim[v].tok
          PROVE  steps'[claim[v].step].exp = claim[v].at + Lease
      <4>1. pc[v] = "bind" /\ claim[v].step \in Steps /\ claim[v].tok # NoToken
        BY <3>3, <3>4 DEF WorkerShape, TypeOK, ClaimType
      <4> QED
        BY <2>1, <3>4, <4>1 DEF LeaseShape
    <3> QED
      BY <2>1, <3>0, <3>1, <3>2, <3>3, <3>4 DEF LeaseShape
  <2> QED
    BY <2>2, <2>3
<1>13. ASSUME NEW w \in Workers, NEW next \in TxPCs, Goto(w, next),
              UNCHANGED <<rows, claim, renewal, now>>
       PROVE  LeaseShape'
  BY <1>13, GotoFacts DEF LeaseShape, StepLeaseCovered, TxPCs
<1>18. ASSUME NEW w \in Workers, NEW res \in StepResults, ApplyStepCompletion(w, res)
       PROVE LeaseShape'
  <2>1. AfterCounts(View(w, res)) \in TxPCs
    BY DEF AfterCounts, TxPCs
  <2> QED
    BY <1>13, <1>18, <2>1 DEF ApplyStepCompletion
<1>19. ASSUME NEW w \in Workers, HasRunnablePendingStep(w) PROVE LeaseShape'
  BY <1>13, <1>19 DEF HasRunnablePendingStep, TxPCs
<1>14. ASSUME NEW w \in Workers, CompleteJob(w) PROVE LeaseShape'
  BY <1>14, LeaseShapeForget DEF CompleteJob, Unclaimed, Row, TypeOK
<1>15. ASSUME NEW w \in Workers, Forget(w), UNCHANGED <<rows, now>> PROVE LeaseShape'
  BY <1>15, LeaseShapeForget
<1>16. CASE CancelBuild
  <2>1. /\ \A s \in Steps :
              /\ steps'[s] = steps[s] \/ (steps'[s].tok = NoToken /\ steps'[s].exp = 0)
              /\ jobs'[s] = jobs[s] \/ (jobs'[s].tok = NoToken /\ jobs'[s].exp = 0)
        /\ UNCHANGED <<procs, now>>
    BY <1>16 DEF CancelBuild, Unclaimed, Row
  <2>2. StepLeaseCovered'
    BY <2>1 DEF LeaseShape, StepLeaseCovered
  <2>3. \A s \in Steps : steps'[s].exp <= now' + Lease
    BY <2>1, TimeAssumption DEF LeaseShape, TypeOK
  <2>4. ASSUME NEW v \in Workers, pc[v] # "idle", claim[v].step # 0
        PROVE  claim[v].tok # NoToken /\ claim[v].step \in Steps
    BY <2>4 DEF WorkerShape, TypeOK, ClaimType
  <2> QED
    BY <2>1, <2>2, <2>3, <2>4 DEF LeaseShape, WorkerShape, Executing, TxPCs
<1>17. CASE UNCHANGED <<rows, procs>> /\ now' \in {now, now + 1}
  BY <1>17, TimeAssumption DEF LeaseShape, StepLeaseCovered, TypeOK, RowType, ClaimType
<1> QED
  BY <1>1, <1>2, <1>3, <1>4, <1>5, <1>6, <1>7, <1>8, <1>9, <1>10, <1>11, <1>12, <1>13, <1>14,
     <1>15, <1>16, <1>17, <1>18, <1>19
     DEF Next, WorkerNext, vars, ReclaimExpiredStepMiss, CompletionRefused, UpdateBuildNoop,
         Abandon, Tick

-----------------------------------------------------------------------------
(* The theorems *)

(* A build that has just been prepared. *)
LEMMA InitIndInv == Init => IndInv
<1> SUFFICES ASSUME Init PROVE IndInv
  OBVIOUS
<1> USE DEF Init, RowsInit, Unclaimed, Row, NoClaim
<1>1. TypeOK
  BY TypeInit
<1>2. RowShape
  BY DEF RowShape
<1>3. WorkerShape
  BY DEF WorkerShape
<1>4. TokenOwnership
  BY DEF TokenOwnership
<1>5. TxShape /\ DecisionShape
  BY DEF TxShape, DecisionShape, InTx, TxPCs
<1>6. DependencyOrder
  BY DEF DependencyOrder
<1>7. BuildShape
  <2>1. 1 \in Steps
    BY StepsAssumption DEF Steps
  <2> QED
    BY <2>1 DEF BuildShape, SuccessIsEarned
<1>8. JobShape
  BY DEF JobShape, JobOutcomeAgrees, StepResults
<1>9. LeaseShape
  BY TimeAssumption DEF LeaseShape, StepLeaseCovered
<1> QED
  BY <1>1, <1>2, <1>3, <1>4, <1>5, <1>6, <1>7, <1>8, <1>9 DEF IndInv

(* Every statement of every worker, a cancellation, a crash and a tick     *)
(* preserve the inductive invariant.                                       *)
LEMMA NextIndInv == IndInv /\ [Next]_vars => IndInv'
  BY TypeStep, RowShapeStep, WorkerShapeStep, TokenOwnershipStep, TxShapeStep,
     DecisionShapeStep, DependencyOrderStep, BuildShapeStep, JobShapeStep, LeaseShapeStep
     DEF IndInv

(* IndInv holds in every reachable state, whatever the workers do and      *)
(* however the statements of their completions interleave.                 *)
THEOREM Inductive == Spec => []IndInv
  BY InitIndInv, NextIndInv, PTL DEF Spec

(* Rows, claims and open transactions keep their types. *)
THEOREM TypeCorrect == Spec => []TypeOK
<1>1. IndInv => TypeOK
  BY DEF IndInv
<1> QED
  BY <1>1, Inductive, PTL

(* No claim path starts a step ahead of its dependencies. *)
THEOREM DependencyOrderHolds == Spec => []DependencyOrder
<1>1. IndInv => DependencyOrder
  BY DEF IndInv
<1> QED
  BY <1>1, Inductive, PTL

(* The completion transactions declare success only when every step row is *)
(* a success.                                                              *)
THEOREM SuccessIsEarnedHolds == Spec => []SuccessIsEarned
<1>1. IndInv => SuccessIsEarned
  BY DEF IndInv, BuildShape
<1> QED
  BY <1>1, Inductive, PTL

(* The lock of the builds row makes successes count one after the other,   *)
(* so a running build in which nothing failed always has work.             *)
THEOREM RunningHasWorkHolds == Spec => []RunningHasWork
<1>1. IndInv => RunningHasWork
  BY WorkLeft DEF IndInv
<1> QED
  BY <1>1, Inductive, PTL

(* A job never reports an outcome its step does not have. *)
THEOREM JobOutcomeAgreesHolds == Spec => []JobOutcomeAgrees
<1>1. IndInv => JobOutcomeAgrees
  BY DEF IndInv, JobShape
<1> QED
  BY <1>1, Inductive, PTL

(* The order of the two renewals keeps the step's lease within the job's. *)
THEOREM StepLeaseCoveredHolds == Spec => []StepLeaseCovered
<1>1. IndInv => StepLeaseCovered
  BY DEF IndInv, LeaseShape
<1> QED
  BY <1>1, Inductive, PTL

(* Every guard of build_steps asks for a pending or a running row. *)
LEMMA TerminalRowsKept ==
    ASSUME TypeOK, WorkerShape, TxShape, [Next]_vars
    PROVE  \A s \in Steps : IsTerminalStepStatus(steps[s].status) => steps'[s] = steps[s]
<1> DEFINE Final == \A s \in Steps :
                       IsTerminalStepStatus(steps[s].status) => steps'[s] = steps[s]
<1> USE DEF rows, procs, TypeOK, IsTerminalStepStatus, TerminalStatuses
<1>1. ASSUME NEW w \in Workers, ClaimPendingStep(w) PROVE Final
  BY <1>1 DEF ClaimPendingStep, CanClaimPendingStep
<1>2. ASSUME NEW w \in Workers, ReclaimExpiredStep(w) PROVE Final
  BY <1>2 DEF ReclaimExpiredStep, CanReclaimExpiredStep
<1>3. ASSUME NEW w \in Workers, RenewStepLease(w) PROVE Final
  BY <1>3 DEF RenewStepLease, HoldsStep
<1>4. ASSUME NEW w \in Workers, CommitStep(w) \/ UpdateBuild(w) PROVE Final
  BY <1>4, CommitView, CommitFacts
<1>5. CASE CancelBuild
  BY <1>5 DEF CancelBuild, CanCancelStep
<1>6. CASE UNCHANGED steps
  BY <1>6
<1> QED
  BY <1>1, <1>2, <1>3, <1>4, <1>5, <1>6
     DEF Next, WorkerNext, vars, Poll, ClaimNextRunnableJob, ClaimNextRunnableJobMiss,
         ReclaimExpiredStepMiss, ScanPending, ScanExpired, ClaimJobByStepID,
         ExecuteRunnableStep, RenewJobLease, ApplyStepCompletion, CompletionRefused,
         HasRunnablePendingStep, UpdateBuildNoop, CompleteJob, Abandon, Tick

(* No statement of any worker writes to a terminal step row. *)
THEOREM StepOutcomeFinalHolds == Spec => StepOutcomeFinal
<1>1. IndInv /\ [Next]_vars =>
        [\A s \in Steps :
            IsTerminalStepStatus(steps[s].status) => steps'[s] = steps[s]]_vars
  BY TerminalRowsKept DEF IndInv
<1> QED
  BY <1>1, Inductive, PTL DEF Spec, StepOutcomeFinal

(* A reclaim compares the lease with a moment that has passed, so a step   *)
(* is only taken from a worker whose lease is over.                        *)
THEOREM LeaseRespectedHolds == Spec => LeaseRespected
<1> DEFINE Respected == \A s \in Steps :
              (/\ steps[s].status = "running" /\ steps'[s].status = "running"
               /\ steps'[s].tok # steps[s].tok) => steps[s].exp <= now
<1>1. IndInv /\ [Next]_vars => Respected
  <2> SUFFICES ASSUME TypeOK, WorkerShape, TxShape, LeaseShape, [Next]_vars PROVE Respected
    BY DEF IndInv
  <2> USE DEF rows, procs, TypeOK
  <2>1. ASSUME NEW w \in Workers, ClaimPendingStep(w) PROVE Respected
    BY <2>1 DEF ClaimPendingStep, CanClaimPendingStep
  <2>2. ASSUME NEW w \in Workers, ReclaimExpiredStep(w) PROVE Respected
    <3>1. claim[w].at <= now /\ claim[w].at \in Nat
      BY DEF LeaseShape, ClaimType
    <3>2. \A s \in Steps : steps[s].exp \in Nat
      BY DEF RowType
    <3>3. \A s \in Steps : s # claim[w].step => steps'[s] = steps[s]
      BY <2>2 DEF ReclaimExpiredStep
    <3>4. steps[claim[w].step].exp <= claim[w].at
      BY <2>2 DEF ReclaimExpiredStep, CanReclaimExpiredStep
    <3> QED
      BY <3>1, <3>2, <3>3, <3>4
  <2>3. ASSUME NEW w \in Workers, RenewStepLease(w) PROVE Respected
    BY <2>3 DEF RenewStepLease, HoldsStep, Row
  <2>4. ASSUME NEW w \in Workers, CommitStep(w) \/ UpdateBuild(w) PROVE Respected
    BY <2>4, CommitView, CommitWrites DEF StepResults
  <2>5. CASE CancelBuild
    BY <2>5 DEF CancelBuild, Unclaimed, Row
  <2>6. CASE UNCHANGED steps
    BY <2>6
  <2> QED
    BY <2>1, <2>2, <2>3, <2>4, <2>5, <2>6
       DEF Next, WorkerNext, vars, Poll, ClaimNextRunnableJob, ClaimNextRunnableJobMiss,
           ReclaimExpiredStepMiss, ScanPending, ScanExpired, ClaimJobByStepID,
           ExecuteRunnableStep, RenewJobLease, ApplyStepCompletion, CompletionRefused,
           HasRunnablePendingStep, UpdateBuildNoop, CompleteJob, Abandon, Tick
<1> QED
  BY <1>1, Inductive, PTL DEF Spec, LeaseRespected

(* CompleteSuccessfulStepAndJob and CompleteFailedStepAndJob are the only  *)
(* way such a result reaches a step that shares a token with its job.      *)
THEOREM AtomicCompletionPairsHolds == Spec => AtomicCompletionPairs
<1> DEFINE Paired == \A s \in Steps :
              (/\ steps[s].status = "running" /\ steps[s].tok = jobs[s].tok
               /\ steps'[s].status \in AtomicResults) => jobs'[s].status = steps'[s].status
<1>1. IndInv /\ [Next]_vars => Paired
  <2> SUFFICES ASSUME TypeOK, RowShape, WorkerShape, TokenOwnership, TxShape, [Next]_vars,
                      NEW s \in Steps, steps[s].status = "running",
                      steps[s].tok = jobs[s].tok, steps'[s].status \in AtomicResults
               PROVE  jobs'[s].status = steps'[s].status
    BY DEF IndInv
  <2> USE DEF rows, procs, TypeOK
  <2>1. steps'[s].status \in StepResults
    BY AtomicAssumption
  <2>2. ASSUME NEW w \in Workers, CommitStep(w) \/ UpdateBuild(w)
        PROVE  jobs'[s].status = steps'[s].status
    <3>0. pc[w] \in TxPCs /\ Commit(w)
      BY <2>2, CommitView
    <3>1. s = claim[w].step /\ result[w] = steps'[s].status
      BY <2>1, <3>0, CommitWrites DEF StepResults
    <3>2. jobs[s].tok = claim[w].tok /\ claim[w].tok # NoToken
      BY <3>0, <3>1, CommitFacts DEF WorkerShape, TxPCs
    <3>3. claim[w].job = s
      BY <3>2 DEF TokenOwnership
    <3>4. claim[w].job # 0
      BY <3>3, StepsAssumption DEF Steps
    <3> QED
      BY <3>0, <3>1, <3>4, CommitWrites DEF IsAtomic
  <2>4. ASSUME NEW w \in Workers, ClaimPendingStep(w) PROVE FALSE
    BY <2>1, <2>4 DEF ClaimPendingStep, Claimed, Row, StepResults
  <2>5. ASSUME NEW w \in Workers, ReclaimExpiredStep(w) PROVE FALSE
    BY <2>1, <2>5 DEF ReclaimExpiredStep, Claimed, Row, StepResults
  <2>6. ASSUME NEW w \in Workers, RenewStepLease(w) PROVE FALSE
    BY <2>1, <2>6 DEF RenewStepLease, Row, StepResults
  <2>7. CASE CancelBuild
    BY <2>1, <2>7 DEF CancelBuild, Unclaimed, Row, StepResults
  <2>8. CASE UNCHANGED steps
    BY <2>1, <2>8 DEF StepResults
  <2> QED
    BY <2>2, <2>4, <2>5, <2>6, <2>7, <2>8
       DEF Next, WorkerNext, vars, Poll, ClaimNextRunnableJob, ClaimNextRunnableJobMiss,
           ReclaimExpiredStepMiss, ScanPending, ScanExpired, ClaimJobByStepID,
           ExecuteRunnableStep, RenewJobLease, ApplyStepCompletion, CompletionRefused,
           HasRunnablePendingStep, UpdateBuildNoop, CompleteJob, Abandon, Tick
<1> QED
  BY <1>1, Inductive, PTL DEF Spec, AtomicCompletionPairs

-----------------------------------------------------------------------------
(* BuildRun implements BuildOutcome *)

(* A completion that commits gives its step the one outcome it will have,  *)
(* in a build that is running or has failed; the build becomes a success   *)
(* with the last one.                                                      *)
LEMMA CompletionIsFinish ==
    ASSUME IndInv, NEW w \in Workers, CommitStep(w) \/ UpdateBuild(w)
    PROVE  LET s == claim[w].step
           IN  /\ s \in Steps /\ result[w] \in StepResults
               /\ Abstract!Finish(s, result[w]) \/ Abstract!FinishLate(s, result[w])
<1> DEFINE s == claim[w].step
           res == result[w]
<1>0. /\ TypeOK /\ WorkerShape /\ TxShape /\ DecisionShape /\ DependencyOrder /\ BuildShape
      /\ pc[w] \in TxPCs /\ Commit(w) /\ steps' = View(w, res)
  BY CommitView DEF IndInv
<1>1. /\ s \in Steps /\ res \in StepResults /\ steps[s].status = "running"
      /\ steps'[s].status = res /\ \A r \in Steps \ {s} : steps'[r] = steps[r]
  BY <1>0, CommitWrites
<1>2. status \in {"running", "failed"}
  BY <1>0, <1>1 DEF BuildShape, SuccessIsEarned, IsTerminalStepStatus, TerminalStatuses
<1>3. Outcomes' = [Outcomes EXCEPT ![s] = res]
  <2>1. \A t \in Steps : Outcomes'[t] = IF t = s THEN res ELSE Outcomes[t]
    BY <1>1 DEF Outcomes, IsTerminalStepStatus, TerminalStatuses, StepResults
  <2> QED
    BY <1>1, <2>1 DEF Outcomes
<1>4. Abstract!Ready(Outcomes, s)
  <2>1. \A d \in Deps[s] : d \in Steps /\ steps[d].status = "success"
    BY <1>0, <1>1, DepsAssumption DEF DependencyOrder, DepsSucceeded
  <2> QED
    BY <1>1, <2>1 DEF Abstract!Ready, Outcomes, IsTerminalStepStatus, TerminalStatuses
<1>5. Abstract!AllSucceeded(Outcomes') <=> \A t \in Steps : steps'[t].status = "success"
  BY DEF Abstract!AllSucceeded, Abstract!Steps, Steps, Outcomes, IsTerminalStepStatus,
         TerminalStatuses
<1>6. CASE CommitStep(w) /\ status = "running"
  <2>1. ~Abstract!AllSucceeded(Outcomes')
    BY <1>0, <1>5, <1>6 DEF CommitStep, DecisionShape, TxPCs
  <2> QED
    BY <1>1, <1>3, <1>4, <1>6, <2>1 DEF Abstract!Finish, CommitStep
<1>7. CASE CommitStep(w) /\ status = "failed"
  BY <1>1, <1>3, <1>4, <1>7 DEF Abstract!FinishLate, CommitStep
<1>8. CASE UpdateBuild(w)
  <2>1. CASE pc[w] = "updateSuccess"
    <3>1. Abstract!AllSucceeded(Outcomes')
      BY <1>0, <1>5, <2>1 DEF DecisionShape
    <3> QED
      BY <1>1, <1>3, <1>4, <1>8, <2>1, <3>1 DEF Abstract!Finish, UpdateBuild
  <2>2. CASE pc[w] = "updateFailed"
    <3>1. ~Abstract!AllSucceeded(Outcomes')
      BY <1>0, <1>5, <1>8, <2>2 DEF DecisionShape, UpdateBuild, TxPCs
    <3> QED
      BY <1>1, <1>3, <1>4, <1>8, <2>2, <3>1 DEF Abstract!Finish, UpdateBuild
  <2> QED
    BY <1>8, <2>1, <2>2 DEF UpdateBuild
<1> QED
  BY <1>1, <1>2, <1>6, <1>7, <1>8

(* A claim, a reclaim and a renewal leave the outcomes alone. *)
LEMMA UnfinishedRows ==
    ASSUME TypeOK, steps' \in [Steps -> RowType(StepStatuses)],
           \A s \in Steps : \/ steps'[s].status = steps[s].status
                            \/ /\ ~IsTerminalStepStatus(steps[s].status)
                               /\ ~IsTerminalStepStatus(steps'[s].status)
    PROVE  Outcomes' = Outcomes
BY DEF Outcomes

(* Every statement of the workers is a step of the abstract build or       *)
(* changes nothing of it.                                                  *)
LEMMA RefinementStep == IndInv /\ [Next]_vars => [Abstract!Next]_(Abstract!vars)
<1> SUFFICES ASSUME IndInv, [Next]_vars PROVE Abstract!Next \/ UNCHANGED <<status, Outcomes>>
  BY DEF Abstract!vars
<1> USE DEF rows, procs
<1>0. TypeOK /\ TypeOK'
  BY TypeStep DEF IndInv
<1>1. ASSUME NEW w \in Workers, ClaimPendingStep(w) PROVE UNCHANGED <<status, Outcomes>>
  BY <1>0, <1>1, UnfinishedRows
     DEF ClaimPendingStep, CanClaimPendingStep, Claimed, Row, TypeOK,
         IsTerminalStepStatus, TerminalStatuses
<1>2. ASSUME NEW w \in Workers, ReclaimExpiredStep(w) PROVE UNCHANGED <<status, Outcomes>>
  BY <1>0, <1>2, UnfinishedRows
     DEF ReclaimExpiredStep, CanReclaimExpiredStep, Claimed, Row, TypeOK,
         IsTerminalStepStatus, TerminalStatuses
<1>3. ASSUME NEW w \in Workers, RenewStepLease(w) PROVE UNCHANGED <<status, Outcomes>>
  BY <1>0, <1>3, UnfinishedRows
     DEF RenewStepLease, HoldsStep, Row, TypeOK, IsTerminalStepStatus, TerminalStatuses
<1>4. ASSUME NEW w \in Workers, CommitStep(w) \/ UpdateBuild(w) PROVE Abstract!Next
  BY <1>4, CompletionIsFinish DEF Abstract!Next, Abstract!Steps, Steps, StepResults
<1>5. CASE CancelBuild
  <2>1. status = "running"
    BY <1>5 DEF IndInv, BuildShape, CancelBuild, CanCancelBuild
  <2>2. \A s \in Steps : Outcomes'[s] = IF Outcomes[s] = "open" THEN "canceled" ELSE Outcomes[s]
    BY <1>0, <1>5 DEF CancelBuild, CanCancelStep, Unclaimed, Row, Outcomes, TypeOK, RowType,
                      StepStatuses, IsTerminalStepStatus, TerminalStatuses
  <2>3. Outcomes' = [s \in Steps |-> IF Outcomes[s] = "open" THEN "canceled" ELSE Outcomes[s]]
    BY <2>2 DEF Outcomes
  <2> QED
    BY <1>5, <2>1, <2>3 DEF CancelBuild, Abstract!Next, Abstract!Cancel, Abstract!Steps, Steps
<1>6. CASE UNCHANGED <<status, steps>>
  BY <1>6 DEF Outcomes
<1> QED
  BY <1>1, <1>2, <1>3, <1>4, <1>5, <1>6
     DEF Next, WorkerNext, vars, Poll, ClaimNextRunnableJob, ClaimNextRunnableJobMiss,
         ReclaimExpiredStepMiss, ScanPending, ScanExpired, ClaimJobByStepID,
         ExecuteRunnableStep, RenewJobLease, ApplyStepCompletion, CompletionRefused,
         HasRunnablePendingStep, UpdateBuildNoop, CompleteJob, Abandon, Tick

(* The workers, their claims, leases, durable jobs and the statements of   *)
(* their transactions implement the abstract build: one outcome for each   *)
(* step, in order, and a success that comes with the last of them, for any *)
(* number of workers and steps.                                            *)
THEOREM ImplementsBuildOutcomeHolds == Spec => ImplementsBuildOutcome
<1>1. Init => Abstract!Init
  BY DEF Init, RowsInit, Abstract!Init, Abstract!Steps, Steps, Outcomes, Unclaimed, Row,
         IsTerminalStepStatus, TerminalStatuses
<1> QED
  BY <1>1, RefinementStep, Inductive, PTL DEF Spec, ImplementsBuildOutcome, Abstract!Spec

-----------------------------------------------------------------------------
(* BuildControl: what the rows of a build keep to under the writers of     *)
(* builds.status that check nothing when they write.  The lemmas above     *)
(* that do not speak of the build's status serve again, with three more    *)
(* kinds of step.                                                          *)

(* A queued build has the rows of a prepared one. *)
LEMMA ControlInitRowInv == ControlInit => RowInv
<1> SUFFICES ASSUME ControlInit PROVE RowInv
  OBVIOUS
<1> USE DEF ControlInit, RowsInit, Unclaimed, Row, NoClaim
<1>1. TypeOK
  BY DEF TypeOK, BuildStatuses, RowType, StepStatuses, JobRowStatuses, JobStatuses, PCs, ClaimType
<1>2. RowShape /\ WorkerShape /\ TokenOwnership /\ TxShape
  BY DEF RowShape, WorkerShape, TokenOwnership, TxShape, InTx, TxPCs
<1>3. DependencyOrder
  BY DEF DependencyOrder
<1>4. JobShape
  BY DEF JobShape, JobOutcomeAgrees, StepResults
<1>5. LeaseShape
  BY TimeAssumption DEF LeaseShape, StepLeaseCovered
<1> QED
  BY <1>1, <1>2, <1>3, <1>4, <1>5 DEF RowInv

(* A step of the workers, a cancellation or a tick. *)
LEMMA RunRowInv == RowInv /\ [Next]_vars => RowInv'
  BY TypeStep, RowShapeStep, WorkerShapeStep, TokenOwnershipStep, TxShapeStep,
     DependencyOrderStep, JobShapeStep, LeaseShapeStep
     DEF RowInv

(* UpdateStatus touches nothing but the build's status. *)
LEMMA UpdateStatusRowInv ==
    ASSUME RowInv, NEW to \in BuildStatuses, UpdateStatus(to)
    PROVE  RowInv'
<1> USE DEF UpdateStatus, procs, RowInv
<1>1. TypeOK'
  BY DEF TypeOK
<1>2. RowShape' /\ WorkerShape' /\ TokenOwnership'
  BY DEF RowShape, WorkerShape, TokenOwnership
<1>3. TxShape'
  BY DEF TxShape, InTx, HoldsStep, HoldsJob, IsAtomic
<1>4. DependencyOrder'
  BY DEF DependencyOrder, DepsSucceeded
<1>5. JobShape'
  BY DEF JobShape, JobOutcomeAgrees, HoldsJob
<1>6. LeaseShape'
  BY DEF LeaseShape, StepLeaseCovered
<1> QED
  BY <1>1, <1>2, <1>3, <1>4, <1>5, <1>6

(* The rows that QueueBuild writes are nobody's, whatever a worker still   *)
(* has in memory.                                                          *)
LEMMA QueueBuildRowInv ==
    ASSUME RowInv, NEW c \in Clients, QueueBuild(c)
    PROVE  RowInv'
<1>0. /\ TypeOK /\ WorkerShape /\ TxShape /\ LeaseShape
      /\ \A w \in Workers : result[w] = "none" /\ pc[w] \notin TxPCs
      /\ holders = {}
  BY DEF RowInv, QueueBuild, TxShape, InTx, TypeOK
<1>1. /\ \A s \in Steps :
            /\ steps'[s].status = "pending" /\ steps'[s].tok = NoToken /\ steps'[s].exp = 0
            /\ jobs'[s].status = "absent" /\ jobs'[s].tok = NoToken /\ jobs'[s].exp = 0
      /\ \A w \in Workers : pc'[w] = IF pc[w] = "bind" THEN "start" ELSE pc[w]
      /\ UNCHANGED <<claim, renewal, result, holders, now>>
  BY DEF QueueBuild, Unclaimed, Row, tx
<1>2. TypeOK'
  BY <1>0 DEF QueueBuild, tx, TypeOK, BuildStatuses, RowType, StepStatuses, JobRowStatuses,
              Unclaimed, Row, PCs
<1>3. RowShape' /\ TokenOwnership' /\ DependencyOrder'
  BY <1>1 DEF RowShape, TokenOwnership, DependencyOrder
<1>4. WorkerShape'
  BY <1>0, <1>1 DEF WorkerShape, Executing, TxPCs
<1>5. TxShape'
  BY <1>0, <1>1 DEF TxShape, InTx, TxPCs
<1>6. ASSUME NEW w \in Workers, pc[w] # "idle", claim[w].step # 0
      PROVE  claim[w].step \in Steps /\ claim[w].tok # NoToken
  BY <1>0, <1>6 DEF WorkerShape, TypeOK, ClaimType
<1>7. JobShape'
  <2>1. ASSUME NEW w \in Workers, claim[w].job # 0 PROVE jobs'[claim[w].job].status = "absent"
    BY <1>0, <1>1, <2>1 DEF TypeOK, ClaimType
  <2> QED
    BY <1>1, <2>1 DEF JobShape, JobOutcomeAgrees, StepResults, HoldsJob
<1>8. LeaseShape'
  <2>1. StepLeaseCovered' /\ \A s \in Steps : steps'[s].exp <= now' + Lease
    BY <1>0, <1>1, TimeAssumption DEF StepLeaseCovered, TypeOK
  <2>2. ASSUME NEW w \in Workers, pc'[w] \in {"mirrorPending", "mirrorExpired", "bind"}
        PROVE  jobs'[claim'[w].step].tok # claim'[w].tok /\ pc'[w] # "bind"
    BY <1>0, <1>1, <1>6, <2>2 DEF WorkerShape
  <2>3. ASSUME NEW w \in Workers, renewal'[w] # 0
        PROVE  jobs'[claim'[w].step].tok # claim'[w].tok
    BY <1>0, <1>1, <1>6, <2>3 DEF WorkerShape, Executing, TxPCs
  <2> QED
    BY <1>0, <1>1, <2>1, <2>2, <2>3 DEF LeaseShape
<1> QED
  BY <1>2, <1>3, <1>4, <1>5, <1>7, <1>8 DEF RowInv

(* A request that has still to create jobs finds none. *)
JobsAwaited ==
    /\ \A c \in Clients : request[c] = "jobs" => \A s \in Steps : jobs[s].status = "absent"
    /\ \A c, d \in Clients : request[c] = "jobs" /\ request[d] = "jobs" => c = d

(* So its inserts disturb nobody. *)
LEMMA CreateDurableJobsRowInv ==
    ASSUME RowInv, JobsAwaited, NEW c \in Clients, CreateDurableJobs(c)
    PROVE  RowInv'
<1> USE DEF procs
<1>0. /\ TypeOK /\ RowShape /\ WorkerShape /\ TokenOwnership /\ TxShape /\ DependencyOrder
      /\ JobShape /\ LeaseShape
  BY DEF RowInv
<1>1. /\ \A s \in Steps :
            /\ jobs[s].status = "absent" /\ jobs[s].tok = NoToken
            /\ jobs'[s].status = "queued" /\ jobs'[s].tok = NoToken /\ jobs'[s].exp = 0
      /\ UNCHANGED <<status, cursor, steps, pc, claim, renewal, result, holders, now>>
  BY <1>0 DEF CreateDurableJobs, JobsAwaited, Unclaimed, Row, RowShape
<1>2. TypeOK'
  BY <1>0 DEF CreateDurableJobs, TypeOK, RowType, JobRowStatuses, JobStatuses, Unclaimed, Row
<1>3. RowShape' /\ TokenOwnership' /\ WorkerShape'
  BY <1>0, <1>1 DEF RowShape, TokenOwnership, WorkerShape
<1>4. ASSUME NEW w \in Workers, claim[w].job # 0 PROVE ~HoldsJob(w) /\ ~HoldsJob(w)'
  <2>1. claim[w].job \in Steps
    BY <1>0, <1>4 DEF TypeOK, ClaimType
  <2> QED
    BY <1>1, <2>1 DEF HoldsJob
<1>5. TxShape'
  BY <1>0, <1>1, <1>4 DEF TxShape, InTx, HoldsStep, IsAtomic
<1>6. DependencyOrder'
  BY <1>0, <1>1 DEF DependencyOrder, DepsSucceeded
<1>7. JobShape'
  BY <1>1, <1>4 DEF JobShape, JobOutcomeAgrees, StepResults
<1>8. ASSUME NEW w \in Workers, pc[w] # "idle", claim[w].step # 0
      PROVE  claim[w].step \in Steps /\ claim[w].tok # NoToken
  BY <1>0, <1>8 DEF WorkerShape, TypeOK, ClaimType
<1>9. LeaseShape'
  <2>1. StepLeaseCovered'
    BY <1>1 DEF StepLeaseCovered
  <2>2. ASSUME NEW w \in Workers, pc[w] \in {"mirrorPending", "mirrorExpired"} \/ renewal[w] # 0
        PROVE  jobs'[claim'[w].step].tok # claim'[w].tok
    BY <1>0, <1>1, <1>8, <2>2 DEF WorkerShape, Executing, TxPCs
  <2> QED
    BY <1>0, <1>1, <2>1, <2>2 DEF LeaseShape
<1> QED
  BY <1>2, <1>3, <1>5, <1>6, <1>7, <1>9 DEF RowInv

(* A step of the control code writes the status, replaces the rows, or     *)
(* leaves the database alone; the rest is a step of BuildRun.              *)
LEMMA ControlSteps ==
    ASSUME [ControlNext]_controlVars
    PROVE  \/ [Next]_vars /\ UNCHANGED ready
           \/ \E to \in BuildStatuses : UpdateStatus(to)
           \/ \E c \in Clients : QueueBuild(c) \/ CreateDurableJobs(c)
<1>1. ASSUME NEW p \in Preparers, PreparePersist(p)
      PROVE  \E to \in BuildStatuses : UpdateStatus(to)
  BY <1>1 DEF PreparePersist, BuildStatuses
<1>2. ASSUME NEW p \in Preparers, PrepareFail(p)
      PROVE  \E to \in BuildStatuses : UpdateStatus(to)
  BY <1>2 DEF PrepareFail, BuildStatuses
<1>3. ASSUME NEW p \in Preparers, PrepareRun(p)
      PROVE  \E to \in BuildStatuses : UpdateStatus(to)
  BY <1>3 DEF PrepareRun, BuildStatuses
<1>4. ASSUME NEW c \in Clients, TransitionPersist(c)
      PROVE  \E to \in BuildStatuses : UpdateStatus(to)
  <2>1. request[c] \in BuildStatuses
    BY <1>4, ManualAssumption DEF TransitionPersist, BuildStatuses
  <2> QED
    BY <1>4, <2>1 DEF TransitionPersist
<1> QED
  BY <1>1, <1>2, <1>3, <1>4
     DEF ControlNext, controlVars, PrepareCheck, PrepareReady, PrepareCrash, TransitionCheck

(* A job that is not there is not claimed, completed or canceled. *)
LEMMA AbsentJobsStay ==
    ASSUME TypeOK, WorkerShape, TxShape, [Next]_vars, \A s \in Steps : jobs[s].status = "absent"
    PROVE  \A s \in Steps : jobs'[s].status = "absent"
<1> USE DEF rows, procs, TypeOK
<1>1. ASSUME NEW w \in Workers, claim[w].job # 0 PROVE ~HoldsJob(w)
  BY <1>1 DEF HoldsJob, ClaimType
<1>2. ASSUME NEW w \in Workers PROVE ~ClaimNextRunnableJob(w)
  BY DEF ClaimNextRunnableJob, CanClaimJob
<1>3. ASSUME NEW w \in Workers, ClaimJobByStepID(w) PROVE UNCHANGED jobs
  BY <1>3 DEF ClaimJobByStepID, WorkerShape, ClaimType
<1>4. ASSUME NEW w \in Workers, RenewJobLease(w) PROVE UNCHANGED jobs
  BY <1>1, <1>4 DEF RenewJobLease
<1>5. ASSUME NEW w \in Workers, CommitStep(w) \/ UpdateBuild(w) PROVE UNCHANGED jobs
  <2>1. pc[w] \in TxPCs /\ Commit(w)
    BY <1>5, CommitView
  <2>2. ~IsAtomic(w, result[w])
    BY <1>1, <2>1, OpenResult DEF TxShape, IsAtomic
  <2> QED
    BY <2>1, <2>2 DEF Commit
<1>6. ASSUME NEW w \in Workers, CompleteJob(w) PROVE UNCHANGED jobs
  BY <1>1, <1>6 DEF CompleteJob, WorkerShape
<1>7. CASE CancelBuild
  BY <1>7 DEF CancelBuild, CanCancelExecutionJob
<1>8. CASE UNCHANGED jobs
  BY <1>8
<1> QED
  BY <1>2, <1>3, <1>4, <1>5, <1>6, <1>7, <1>8
     DEF Next, WorkerNext, vars, Poll, ClaimNextRunnableJobMiss, ClaimPendingStep,
         ReclaimExpiredStep, ReclaimExpiredStepMiss, ScanPending, ScanExpired,
         ExecuteRunnableStep, RenewStepLease, ApplyStepCompletion, CompletionRefused,
         HasRunnablePendingStep, UpdateBuildNoop, Abandon, Tick

(* A later QueueBuild takes away the steps whose jobs were still missing. *)
LEMMA JobsAwaitedStep ==
    ASSUME ControlTypeOK, RowInv, JobsAwaited, [ControlNext]_controlVars
    PROVE  JobsAwaited'
<1> USE DEF JobsAwaited
<1>1. CASE [Next]_vars /\ UNCHANGED request
  BY <1>1, AbsentJobsStay DEF RowInv
<1>2. CASE UNCHANGED <<jobs, request>>
  BY <1>2
<1>3. ASSUME NEW c \in Clients, QueueBuild(c) PROVE JobsAwaited'
  BY <1>3 DEF QueueBuild, Unclaimed, Row
<1>4. ASSUME NEW c \in Clients, CreateDurableJobs(c) PROVE JobsAwaited'
  BY <1>4 DEF CreateDurableJobs, ControlTypeOK
<1>5. ASSUME NEW c \in Clients, NEW to \in Manual, TransitionCheck(c, to) PROVE JobsAwaited'
  BY <1>5, ManualAssumption DEF TransitionCheck, ControlTypeOK, vars
<1>6. ASSUME NEW c \in Clients, TransitionPersist(c) PROVE JobsAwaited'
  BY <1>6 DEF TransitionPersist, UpdateStatus, ControlTypeOK
<1> QED
  BY <1>1, <1>2, <1>3, <1>4, <1>5, <1>6
     DEF ControlNext, controlVars, vars, PrepareCheck, PreparePersist, PrepareFail, PrepareReady,
         PrepareRun, PrepareCrash, UpdateStatus

(* What the rows and the requests keep to. *)
ControlInv == ControlTypeOK /\ RowInv /\ JobsAwaited

(* Every step of the composed system keeps it. *)
LEMMA ControlInvStep == ControlInv /\ [ControlNext]_controlVars => ControlInv'
<1> SUFFICES ASSUME ControlInv, [ControlNext]_controlVars PROVE ControlInv'
  OBVIOUS
<1>1. RowInv'
  BY ControlSteps, RunRowInv, UpdateStatusRowInv, QueueBuildRowInv, CreateDurableJobsRowInv
     DEF ControlInv
<1>2. JobsAwaited'
  BY JobsAwaitedStep DEF ControlInv
<1>3. /\ prep' \in [Preparers -> {"idle", "toPreparing", "preparing", "toRunning"}]
      /\ ready' \in BOOLEAN
  BY DEF ControlInv, ControlTypeOK, ControlNext, controlVars, PrepAt, PrepareCheck,
         PreparePersist, PrepareFail, PrepareReady, PrepareRun, PrepareCrash, TransitionCheck,
         TransitionPersist, QueueBuild, CreateDurableJobs
<1>4. request' \in [Clients -> Manual \cup {"none", "queue", "jobs"}]
  <2> USE DEF ControlInv, ControlTypeOK
  <2>1. ASSUME NEW c \in Clients, QueueBuild(c)
        PROVE  request' \in [Clients -> Manual \cup {"none", "queue", "jobs"}]
    BY <2>1 DEF QueueBuild
  <2>2. ASSUME NEW c \in Clients, CreateDurableJobs(c)
        PROVE  request' \in [Clients -> Manual \cup {"none", "queue", "jobs"}]
    BY <2>2 DEF CreateDurableJobs
  <2> QED
    BY <2>1, <2>2
       DEF ControlNext, controlVars, PrepareCheck, PreparePersist, PrepareFail, PrepareReady,
           PrepareRun, PrepareCrash, TransitionCheck, TransitionPersist
<1> QED
  BY <1>1, <1>2, <1>3, <1>4 DEF ControlInv, ControlTypeOK, RowInv

(* Whatever the preparations and the API do to the build's status and to   *)
(* its rows, and however often, the types, the invariant of the step and   *)
(* job rows, and the gap between steps and jobs that QueueBuild leaves,    *)
(* stand.                                                                  *)
THEOREM ControlInductive == ControlSpec => []ControlInv
<1>1. ControlInit => ControlInv
  BY ControlInitRowInv DEF ControlInit, ControlInv, ControlTypeOK, RowInv, JobsAwaited
<1> QED
  BY <1>1, ControlInvStep, PTL DEF ControlSpec

(* No step gets ahead of its dependencies, in a build of any status. *)
THEOREM ControlDependencyOrder == ControlSpec => []DependencyOrder
<1>1. ControlInv => DependencyOrder
  BY DEF ControlInv, RowInv
<1> QED
  BY <1>1, ControlInductive, PTL

(* No job reports an outcome its step does not have, in a build of any     *)
(* status.                                                                 *)
THEOREM ControlJobOutcomeAgrees == ControlSpec => []JobOutcomeAgrees
<1>1. ControlInv => JobOutcomeAgrees
  BY DEF ControlInv, RowInv, JobShape
<1> QED
  BY <1>1, ControlInductive, PTL

(* Before the build runs, its workers can only poll, and find no job. *)
LEMMA NotYetRunStep ==
  ASSUME TypeOK, WorkerShape, NotYetRun, [Next]_vars
  PROVE  /\ NotYetRun'
         /\ \A s \in Steps : steps[s].status = "pending" => steps'[s].status # "running"
<1> DEFINE NoStart ==
      \A s \in Steps : steps[s].status = "pending" => steps'[s].status # "running"
<1> USE DEF NotYetRun, Executing, TxPCs
<1>1. CASE UNCHANGED <<status, pc, steps>>
  BY <1>1
<1>2. ASSUME NEW w \in Workers, Poll(w) PROVE NotYetRun' /\ NoStart
  BY <1>2 DEF Poll, Goto, rows, TypeOK
<1>3. ASSUME NEW w \in Workers, ClaimNextRunnableJobMiss(w) PROVE NotYetRun' /\ NoStart
  BY <1>3 DEF ClaimNextRunnableJobMiss, Goto, Forget, rows, TypeOK
<1>4. ASSUME NEW w \in Workers PROVE ~RenewStepLease(w)
  BY <1>4 DEF RenewStepLease, WorkerShape, TypeOK
<1>5. ASSUME NEW w \in Workers, Abandon(w) PROVE NotYetRun' /\ NoStart
  BY <1>5 DEF Abandon, Forget, Goto, rows, TypeOK
<1>6. CASE CancelBuild
  BY <1>6 DEF CancelBuild, procs, Unclaimed, Row
<1>7. ASSUME NEW w \in Workers, WorkerNext(w)
      PROVE  Poll(w) \/ ClaimNextRunnableJobMiss(w) \/ Abandon(w)
  BY <1>4, <1>7 DEF WorkerNext, ClaimNextRunnableJob, CanClaimJob, ClaimPendingStep,
     ReclaimExpiredStep, ReclaimExpiredStepMiss, ScanPending, ScanExpired, ClaimJobByStepID,
     ExecuteRunnableStep, RenewJobLease, ApplyStepCompletion, CompletionRefused,
     HasRunnablePendingStep, CommitStep, UpdateBuild, UpdateBuildNoop, CompleteJob
<1> QED
  BY <1>1, <1>2, <1>3, <1>5, <1>6, <1>7 DEF Next, vars, Tick, rows, procs

(* Of the writers of the status only a preparation that has gone through   *)
(* makes the build run.                                                    *)
LEMMA PreparedFirstStep ==
  ASSUME ControlInv, PreparedFirst, [ControlNext]_controlVars
  PROVE  PreparedFirst'
<1> SUFFICES ASSUME NotYetRun, ready' # TRUE PROVE NotYetRun'
  BY DEF PreparedFirst, ControlInv, ControlTypeOK, ControlNext, controlVars, PrepareCheck,
         PreparePersist, PrepareFail, PrepareReady, PrepareRun, PrepareCrash, TransitionCheck,
         TransitionPersist, QueueBuild, CreateDurableJobs
<1>1. CASE [Next]_vars
  BY <1>1, NotYetRunStep DEF ControlInv, RowInv
<1>2. ASSUME NEW to \in BuildStatuses \ {"running"}, UpdateStatus(to) PROVE NotYetRun'
  BY <1>2 DEF UpdateStatus, NotYetRun, procs
<1>3. ASSUME NEW p \in Preparers, PreparePersist(p) \/ PrepareFail(p) PROVE NotYetRun'
  BY <1>2, <1>3 DEF PreparePersist, PrepareFail, BuildStatuses
<1>4. ASSUME NEW c \in Clients, TransitionPersist(c) PROVE NotYetRun'
  <2>1. request[c] \in BuildStatuses \ {"running"}
    BY <1>4, ManualAssumption DEF TransitionPersist, BuildStatuses
  <2> QED
    BY <1>2, <1>4, <2>1 DEF TransitionPersist
<1>5. ASSUME NEW c \in Clients, QueueBuild(c) \/ CreateDurableJobs(c) PROVE NotYetRun'
  BY <1>5 DEF QueueBuild, CreateDurableJobs, NotYetRun, procs
<1> QED
  BY <1>1, <1>3, <1>4, <1>5
     DEF ControlNext, controlVars, PrepareCheck, PrepareReady, PrepareRun, PrepareCrash,
         TransitionCheck

(* PrepareBuildExecution, QueueBuild and the claims: however many          *)
(* processes prepare the build, fail or die over it, and whatever requests *)
(* do to its status and rows, no step starts before a preparation has gone *)
(* through.                                                                *)
THEOREM NoStepBeforePreparationHolds == ControlSpec => NoStepBeforePreparation
<1> DEFINE Prepared ==
      \A s \in Steps : (steps[s].status = "pending" /\ steps'[s].status = "running") => ready
<1>1. ControlInit => PreparedFirst
  BY DEF ControlInit, RowsInit, PreparedFirst, NotYetRun
<1>2. ControlInv /\ PreparedFirst /\ [ControlNext]_controlVars => PreparedFirst'
  BY PreparedFirstStep
<1>3. ControlInv /\ PreparedFirst /\ [ControlNext]_controlVars => [Prepared]_controlVars
  <2> SUFFICES ASSUME ControlInv, NotYetRun, [ControlNext]_controlVars PROVE Prepared
    BY DEF PreparedFirst
  <2>1. CASE [Next]_vars
    BY <2>1, NotYetRunStep DEF ControlInv, RowInv
  <2>2. ASSUME NEW to \in BuildStatuses, UpdateStatus(to) PROVE Prepared
    BY <2>2 DEF UpdateStatus
  <2>3. ASSUME NEW c \in Clients, QueueBuild(c) \/ CreateDurableJobs(c) PROVE Prepared
    BY <2>3 DEF QueueBuild, CreateDurableJobs, Unclaimed, Row
  <2> QED
    BY <2>1, <2>2, <2>3, ControlSteps
<1> QED
  BY <1>1, <1>2, <1>3, ControlInductive, PTL DEF ControlSpec, NoStepBeforePreparation
=============================================================================
