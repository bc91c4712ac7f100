----------------------- MODULE StepCompletionTxProofs -----------------------
(***************************************************************************)
(* What the transactions of CompleteStep and CancelBuild keep to for any   *)
(* number of steps, any dependencies between them and any crashes.  Each   *)
(* conjunct of IndInv has a lemma with one step per statement.  And the    *)
(* publication of the cache that a step saves, for any number of savers    *)
(* and contents, any lease and any faults: its names begin with Cache.     *)
(***************************************************************************)
EXTENDS StepCompletionTx, CachePublication, TLAPS

(* No transaction is open, and every step is pending. *)
LEMMA InitIndInv == Init => IndInv
<1> SUFFICES ASSUME Init PROVE IndInv
  OBVIOUS
<1> USE StepsAssumption, ResultsAssumption DEF Init
<1>1. TypeOK
  BY DEF TypeOK, BuildStatuses, StepStatuses, Steps
<1>2. RowShape /\ LockShape /\ CountingShape /\ DecisionShape
  BY DEF RowShape, LockShape, CountingShape, DecisionShape, Free, Canceler, Steps
<1>3. 1 \in Steps
  BY DEF Steps
<1>4. OutcomeShape /\ SuccessIsEarned /\ CancelIsComplete
  BY <1>3 DEF OutcomeShape, SuccessIsEarned, CancelIsComplete
<1> QED
  BY <1>1, <1>2, <1>4 DEF IndInv

(* A completion reads its own result for its step, and what is committed   *)
(* for the others.                                                         *)
LEMMA ViewReads ==
    ASSUME TypeOK, NEW s \in Steps, tx[s] # "none"
    PROVE  /\ View(s) = [t \in Steps |-> IF t = s THEN result[s] ELSE steps[t]]
           /\ RowShape => View(s) \in [Steps -> StepStatuses]
  BY DEF View, TypeOK, RowShape, StepResults, StepStatuses

(* The three parties that may hold the builds row differ. *)
LEMMA HoldersDiffer == Free \notin Steps /\ Canceler \notin Steps /\ Free # Canceler
  BY StepsAssumption DEF Free, Canceler, Steps

(* A step keeps the types. *)
LEMMA TypeStep == TypeOK /\ RowShape /\ [Next]_vars => TypeOK'
<1> SUFFICES ASSUME TypeOK, RowShape, [Next]_vars PROVE TypeOK'
  OBVIOUS
<1> USE StepsAssumption DEF TypeOK
<1>1. ASSUME NEW s \in Steps, ClaimNextRunnableJob(s) PROVE TypeOK'
  BY <1>1 DEF ClaimNextRunnableJob
<1>2. ASSUME NEW s \in Steps, ClaimPendingStep(s) PROVE TypeOK'
  BY <1>2 DEF ClaimPendingStep, Runnable, RowLocked, StepStatuses
<1>3. ASSUME NEW s \in Steps, NEW res \in Results, ApplyStepCompletion(s, res) PROVE TypeOK'
  BY <1>3, ResultsAssumption DEF ApplyStepCompletion, RowLocked, Goto, StepResults
<1>4. ASSUME NEW s \in Steps, AdvanceBuildCurrentStep(s) PROVE TypeOK'
  BY <1>4 DEF AdvanceBuildCurrentStep, Goto
<1>5. ASSUME NEW s \in Steps, LoadBuildStepProgress(s) PROVE TypeOK'
  BY <1>5 DEF LoadBuildStepProgress, Goto
<1>6. ASSUME NEW s \in Steps, HasRunnablePendingStep(s) PROVE TypeOK'
  BY <1>6 DEF HasRunnablePendingStep, Goto
<1>7. ASSUME NEW s \in Steps, UpdateBuild(s) PROVE TypeOK'
  BY <1>7, ViewReads DEF UpdateBuild, End, Goto, BuildStatuses
<1>8. ASSUME NEW s \in Steps, UpdateBuildNoop(s) PROVE TypeOK'
  BY <1>8 DEF UpdateBuildNoop, End, Goto
<1>9. ASSUME NEW s \in Steps, CommitStep(s) PROVE TypeOK'
  BY <1>9, ViewReads DEF CommitStep, End, Goto
<1>10. ASSUME NEW s \in Steps, CancelStep(s) PROVE TypeOK'
  BY <1>10 DEF CancelStep, RowLocked
<1>11. ASSUME NEW s \in Steps, AbortCompletion(s) PROVE TypeOK'
  BY <1>11 DEF AbortCompletion, Deadlocked, End, Goto
<1>12. ASSUME NEW s \in Steps, Crash(s) PROVE TypeOK'
  BY <1>12, ResultsAssumption DEF Crash, End, Goto
<1>13. CASE RequestCancel
  BY <1>13 DEF RequestCancel
<1>14. CASE LockBuild
  BY <1>14 DEF LockBuild, CanCancelBuild
<1>15. CASE CommitCancel
  BY <1>15 DEF CommitCancel, BuildStatuses, StepStatuses
<1>16. CASE AbortCancel
  BY <1>16 DEF AbortCancel, Deadlocked
<1>17. CASE UNCHANGED vars
  BY <1>17 DEF vars
<1> QED
  BY <1>1, <1>2, <1>3, <1>4, <1>5, <1>6, <1>7, <1>8, <1>9, <1>10, <1>11, <1>12,
     <1>13, <1>14, <1>15, <1>16, <1>17 DEF Next, Statement

(* The row of a step has one writer at a time. *)
LEMMA RowStep == TypeOK /\ RowShape /\ [Next]_vars => RowShape'
<1> SUFFICES ASSUME TypeOK, RowShape, [Next]_vars PROVE RowShape'
  OBVIOUS
<1> USE StepsAssumption DEF TypeOK, RowShape
<1>1. ASSUME NEW s \in Steps, ClaimNextRunnableJob(s) PROVE RowShape'
  BY <1>1 DEF ClaimNextRunnableJob
<1>2. ASSUME NEW s \in Steps, ClaimPendingStep(s) PROVE RowShape'
  BY <1>2 DEF ClaimPendingStep, Runnable, RowLocked, CanCancelStep
<1>3. ASSUME NEW s \in Steps, NEW res \in Results, ApplyStepCompletion(s, res) PROVE RowShape'
  BY <1>3, ResultsAssumption DEF ApplyStepCompletion, RowLocked, Goto, StepResults
<1>4. ASSUME NEW s \in Steps, AdvanceBuildCurrentStep(s) PROVE RowShape'
  BY <1>4 DEF AdvanceBuildCurrentStep, Goto
<1>5. ASSUME NEW s \in Steps, LoadBuildStepProgress(s) PROVE RowShape'
  BY <1>5 DEF LoadBuildStepProgress, Goto
<1>6. ASSUME NEW s \in Steps, HasRunnablePendingStep(s) PROVE RowShape'
  BY <1>6 DEF HasRunnablePendingStep, Goto
<1>7. ASSUME NEW s \in Steps, UpdateBuild(s) PROVE RowShape'
  <2>1. View(s) = [t \in Steps |-> IF t = s THEN result[s] ELSE steps[t]]
    BY <1>7, ViewReads DEF UpdateBuild
  <2> QED
    BY <2>1, <1>7 DEF UpdateBuild, End, Goto
<1>8. ASSUME NEW s \in Steps, UpdateBuildNoop(s) PROVE RowShape'
  BY <1>8 DEF UpdateBuildNoop, End, Goto
<1>9. ASSUME NEW s \in Steps, CommitStep(s) PROVE RowShape'
  <2>1. View(s) = [t \in Steps |-> IF t = s THEN result[s] ELSE steps[t]]
    BY <1>9, ViewReads DEF CommitStep
  <2> QED
    BY <2>1, <1>9 DEF CommitStep, End, Goto
<1>10. ASSUME NEW s \in Steps, CancelStep(s) PROVE RowShape'
  BY <1>10 DEF CancelStep, RowLocked
<1>11. ASSUME NEW s \in Steps, AbortCompletion(s) PROVE RowShape'
  BY <1>11 DEF AbortCompletion, Deadlocked, End, Goto
<1>12. ASSUME NEW s \in Steps, Crash(s) PROVE RowShape'
  BY <1>12 DEF Crash, End, Goto
<1>13. CASE RequestCancel
  BY <1>13 DEF RequestCancel
<1>14. CASE LockBuild
  BY <1>14 DEF LockBuild, CanCancelBuild
<1>15. CASE CommitCancel
  BY <1>15 DEF CommitCancel
<1>16. CASE AbortCancel
  BY <1>16 DEF AbortCancel, Deadlocked
<1>17. CASE UNCHANGED vars
  BY <1>17 DEF vars
<1> QED
  BY <1>1, <1>2, <1>3, <1>4, <1>5, <1>6, <1>7, <1>8, <1>9, <1>10, <1>11, <1>12,
     <1>13, <1>14, <1>15, <1>16, <1>17 DEF Next, Statement

(* The builds row has one holder at a time, and only its holder ends the    *)
(* build.                                                                  *)
LEMMA LockStep == TypeOK /\ OutcomeShape /\ LockShape /\ [Next]_vars => LockShape'
<1> SUFFICES ASSUME TypeOK, OutcomeShape, LockShape, [Next]_vars PROVE LockShape'
  OBVIOUS
<1> USE StepsAssumption DEF TypeOK, LockShape, OutcomeShape
<1>1. ASSUME NEW s \in Steps, ClaimNextRunnableJob(s) PROVE LockShape'
  BY <1>1, HoldersDiffer DEF ClaimNextRunnableJob
<1>2. ASSUME NEW s \in Steps, ClaimPendingStep(s) PROVE LockShape'
  BY <1>2, HoldersDiffer DEF ClaimPendingStep, Runnable, RowLocked
<1>3. ASSUME NEW s \in Steps, NEW res \in Results, ApplyStepCompletion(s, res) PROVE LockShape'
  BY <1>3, HoldersDiffer DEF ApplyStepCompletion, RowLocked, Goto, StepResults
<1>4. ASSUME NEW s \in Steps, AdvanceBuildCurrentStep(s) PROVE LockShape'
  BY <1>4, HoldersDiffer DEF AdvanceBuildCurrentStep, Goto
<1>5. ASSUME NEW s \in Steps, LoadBuildStepProgress(s) PROVE LockShape'
  BY <1>5, HoldersDiffer DEF LoadBuildStepProgress, Goto
<1>6. ASSUME NEW s \in Steps, HasRunnablePendingStep(s) PROVE LockShape'
  BY <1>6, HoldersDiffer DEF HasRunnablePendingStep, Goto
<1>7. ASSUME NEW s \in Steps, UpdateBuild(s) PROVE LockShape'
  BY <1>7, HoldersDiffer DEF UpdateBuild, End, Goto
<1>8. ASSUME NEW s \in Steps, UpdateBuildNoop(s) PROVE LockShape'
  BY <1>8, HoldersDiffer DEF UpdateBuildNoop, End, Goto
<1>9. ASSUME NEW s \in Steps, CommitStep(s) PROVE LockShape'
  BY <1>9, HoldersDiffer DEF CommitStep, End, Goto
<1>10. ASSUME NEW s \in Steps, CancelStep(s) PROVE LockShape'
  BY <1>10, HoldersDiffer DEF CancelStep, RowLocked
<1>11. ASSUME NEW s \in Steps, AbortCompletion(s) PROVE LockShape'
  BY <1>11, HoldersDiffer DEF AbortCompletion, Deadlocked, End, Goto
<1>12. ASSUME NEW s \in Steps, Crash(s) PROVE LockShape'
  BY <1>12, HoldersDiffer DEF Crash, End, Goto
<1>13. CASE RequestCancel
  BY <1>13, HoldersDiffer DEF RequestCancel
<1>14. CASE LockBuild
  BY <1>14, HoldersDiffer DEF LockBuild, CanCancelBuild
<1>15. CASE CommitCancel
  BY <1>15, HoldersDiffer DEF CommitCancel
<1>16. CASE AbortCancel
  BY <1>16, HoldersDiffer DEF AbortCancel, Deadlocked
<1>17. CASE UNCHANGED vars
  BY <1>17 DEF vars
<1> QED
  BY <1>1, <1>2, <1>3, <1>4, <1>5, <1>6, <1>7, <1>8, <1>9, <1>10, <1>11, <1>12,
     <1>13, <1>14, <1>15, <1>16, <1>17 DEF Next, Statement

(* The cursor is what makes successes count one after the other. *)
LEMMA CountingStep ==
  TypeOK /\ RowShape /\ LockShape /\ CountingShape /\ [Next]_vars => CountingShape'
<1> SUFFICES ASSUME TypeOK, RowShape, LockShape, CountingShape, [Next]_vars PROVE CountingShape'
  OBVIOUS
<1> USE StepsAssumption DEF TypeOK, RowShape, LockShape, CountingShape
<1>1. ASSUME NEW s \in Steps, ClaimNextRunnableJob(s) PROVE CountingShape'
  BY <1>1, HoldersDiffer DEF ClaimNextRunnableJob
<1>2. ASSUME NEW s \in Steps, ClaimPendingStep(s) PROVE CountingShape'
  BY <1>2, HoldersDiffer DEF ClaimPendingStep, Runnable, RowLocked
<1>3. ASSUME NEW s \in Steps, NEW res \in Results, ApplyStepCompletion(s, res) PROVE CountingShape'
  BY <1>3, HoldersDiffer DEF ApplyStepCompletion, RowLocked, Goto, StepResults
<1>4. ASSUME NEW s \in Steps, AdvanceBuildCurrentStep(s) PROVE CountingShape'
  BY <1>4, HoldersDiffer DEF AdvanceBuildCurrentStep, Goto
<1>5. ASSUME NEW s \in Steps, LoadBuildStepProgress(s) PROVE CountingShape'
  BY <1>5, HoldersDiffer DEF LoadBuildStepProgress, Goto
<1>6. ASSUME NEW s \in Steps, HasRunnablePendingStep(s) PROVE CountingShape'
  BY <1>6, HoldersDiffer DEF HasRunnablePendingStep, Goto
<1>7. ASSUME NEW s \in Steps, UpdateBuild(s) PROVE CountingShape'
  BY <1>7, HoldersDiffer DEF UpdateBuild, End, Goto
<1>8. ASSUME NEW s \in Steps, UpdateBuildNoop(s) PROVE CountingShape'
  BY <1>8, HoldersDiffer DEF UpdateBuildNoop, End, Goto
<1>9. ASSUME NEW s \in Steps, CommitStep(s) PROVE CountingShape'
  BY <1>9, HoldersDiffer DEF CommitStep, End, Goto
<1>10. ASSUME NEW s \in Steps, CancelStep(s) PROVE CountingShape'
  BY <1>10, HoldersDiffer DEF CancelStep, RowLocked
<1>11. ASSUME NEW s \in Steps, AbortCompletion(s) PROVE CountingShape'
  BY <1>11, HoldersDiffer DEF AbortCompletion, Deadlocked, End, Goto
<1>12. ASSUME NEW s \in Steps, Crash(s) PROVE CountingShape'
  BY <1>12, HoldersDiffer DEF Crash, End, Goto
<1>13. CASE RequestCancel
  BY <1>13, HoldersDiffer DEF RequestCancel
<1>14. CASE LockBuild
  BY <1>14, HoldersDiffer DEF LockBuild, CanCancelBuild
<1>15. CASE CommitCancel
  BY <1>15, HoldersDiffer DEF CommitCancel
<1>16. CASE AbortCancel
  BY <1>16, HoldersDiffer DEF AbortCancel, Deadlocked
<1>17. CASE UNCHANGED vars
  BY <1>17 DEF vars
<1> QED
  BY <1>1, <1>2, <1>3, <1>4, <1>5, <1>6, <1>7, <1>8, <1>9, <1>10, <1>11, <1>12,
     <1>13, <1>14, <1>15, <1>16, <1>17 DEF Next, Statement

(* No other transaction takes back what a completion decided from its      *)
(* count: a success is never undone, and a success that would complete a   *)
(* sibling's count needs the builds row that the sibling has.              *)
LEMMA DecisionStep ==
  TypeOK /\ RowShape /\ LockShape /\ CountingShape /\ DecisionShape /\ [Next]_vars
    => DecisionShape'
<1> SUFFICES ASSUME TypeOK, RowShape, LockShape, CountingShape, DecisionShape, [Next]_vars
             PROVE  DecisionShape'
  OBVIOUS
<1>a. \A s \in Steps : tx[s] # "none" =>
        View(s) = [t \in Steps |-> IF t = s THEN result[s] ELSE steps[t]]
  BY ViewReads
<1>c. TypeOK'
  BY TypeStep
<1>b. (\A s \in Steps : tx[s] # "none" =>
        View(s) = [t \in Steps |-> IF t = s THEN result[s] ELSE steps[t]])'
  BY <1>c DEF TypeOK, View
<1> USE HoldersDiffer DEF TypeOK, RowShape, LockShape, CountingShape, DecisionShape, StepResults
<1>1. ASSUME NEW s \in Steps, ClaimNextRunnableJob(s) PROVE DecisionShape'
  BY <1>1, <1>a, <1>b DEF ClaimNextRunnableJob
<1>2. ASSUME NEW s \in Steps, ClaimPendingStep(s) PROVE DecisionShape'
  BY <1>2, <1>a, <1>b DEF ClaimPendingStep, Runnable, RowLocked
<1>3. ASSUME NEW s \in Steps, NEW res \in Results, ApplyStepCompletion(s, res) PROVE DecisionShape'
  BY <1>3, <1>a, <1>b DEF ApplyStepCompletion, RowLocked, Goto, StepResults
<1>4. ASSUME NEW s \in Steps, AdvanceBuildCurrentStep(s) PROVE DecisionShape'
  BY <1>4, <1>a, <1>b DEF AdvanceBuildCurrentStep, Goto
<1>5. ASSUME NEW s \in Steps, LoadBuildStepProgress(s) PROVE DecisionShape'
  BY <1>5, <1>a, <1>b, SMTT(30) DEF LoadBuildStepProgress, Goto
<1>6. ASSUME NEW s \in Steps, HasRunnablePendingStep(s) PROVE DecisionShape'
  BY <1>6, <1>a, <1>b DEF HasRunnablePendingStep, Goto
<1>7. ASSUME NEW s \in Steps, UpdateBuild(s) PROVE DecisionShape'
  BY <1>7, <1>a, <1>b DEF UpdateBuild, End, Goto
<1>8. ASSUME NEW s \in Steps, UpdateBuildNoop(s) PROVE DecisionShape'
  BY <1>8, <1>a, <1>b DEF UpdateBuildNoop, End, Goto
<1>9. ASSUME NEW s \in Steps, CommitStep(s) PROVE DecisionShape'
  BY <1>9, <1>a, <1>b DEF CommitStep, End, Goto
<1>10. ASSUME NEW s \in Steps, CancelStep(s) PROVE DecisionShape'
  BY <1>10, <1>a, <1>b DEF CancelStep, RowLocked
<1>11. ASSUME NEW s \in Steps, AbortCompletion(s) PROVE DecisionShape'
  BY <1>11, <1>a, <1>b DEF AbortCompletion, Deadlocked, End, Goto
<1>12. ASSUME NEW s \in Steps, Crash(s) PROVE DecisionShape'
  BY <1>12, <1>a, <1>b DEF Crash, End, Goto
<1>13. CASE RequestCancel
  BY <1>13, <1>a, <1>b DEF RequestCancel
<1>14. CASE LockBuild
  BY <1>14, <1>a, <1>b DEF LockBuild, CanCancelBuild
<1>15. CASE CommitCancel
  BY <1>15, <1>a, <1>b DEF CommitCancel
<1>16. CASE AbortCancel
  BY <1>16, <1>a, <1>b DEF AbortCancel, Deadlocked
<1>17. CASE UNCHANGED vars
  BY <1>17, <1>a, <1>b DEF vars
<1> QED
  BY <1>1, <1>2, <1>3, <1>4, <1>5, <1>6, <1>7, <1>8, <1>9, <1>10, <1>11, <1>12,
     <1>13, <1>14, <1>15, <1>16, <1>17 DEF Next, Statement

(* The last step of a running build is not committed without its end. *)
LEMMA OutcomeStep ==
  TypeOK /\ RowShape /\ LockShape /\ DecisionShape /\ OutcomeShape /\ [Next]_vars => OutcomeShape'
<1> SUFFICES ASSUME TypeOK, RowShape, LockShape, DecisionShape, OutcomeShape, [Next]_vars
             PROVE  OutcomeShape'
  OBVIOUS
<1>a. \A s \in Steps : tx[s] # "none" =>
        View(s) = [t \in Steps |-> IF t = s THEN result[s] ELSE steps[t]]
  BY ViewReads
<1> USE StepsAssumption
     DEF TypeOK, RowShape, LockShape, DecisionShape, OutcomeShape, CanCancelStep, StepResults
<1>1. ASSUME NEW s \in Steps, ClaimNextRunnableJob(s) PROVE OutcomeShape'
  BY <1>1, <1>a, HoldersDiffer DEF ClaimNextRunnableJob
<1>2. ASSUME NEW s \in Steps, ClaimPendingStep(s) PROVE OutcomeShape'
  BY <1>2, <1>a, HoldersDiffer DEF ClaimPendingStep, Runnable, RowLocked
<1>3. ASSUME NEW s \in Steps, NEW res \in Results, ApplyStepCompletion(s, res) PROVE OutcomeShape'
  BY <1>3, <1>a, HoldersDiffer DEF ApplyStepCompletion, RowLocked, Goto, StepResults
<1>4. ASSUME NEW s \in Steps, AdvanceBuildCurrentStep(s) PROVE OutcomeShape'
  BY <1>4, <1>a, HoldersDiffer DEF AdvanceBuildCurrentStep, Goto
<1>5. ASSUME NEW s \in Steps, LoadBuildStepProgress(s) PROVE OutcomeShape'
  BY <1>5, <1>a, HoldersDiffer DEF LoadBuildStepProgress, Goto
<1>6. ASSUME NEW s \in Steps, HasRunnablePendingStep(s) PROVE OutcomeShape'
  BY <1>6, <1>a, HoldersDiffer DEF HasRunnablePendingStep, Goto
<1>7. ASSUME NEW s \in Steps, UpdateBuild(s) PROVE OutcomeShape'
  BY <1>7, <1>a, HoldersDiffer DEF UpdateBuild, End, Goto
<1>8. ASSUME NEW s \in Steps, UpdateBuildNoop(s) PROVE OutcomeShape'
  BY <1>8, <1>a, HoldersDiffer DEF UpdateBuildNoop, End, Goto
<1>9. ASSUME NEW s \in Steps, CommitStep(s) PROVE OutcomeShape'
  BY <1>9, <1>a, HoldersDiffer DEF CommitStep, End, Goto
<1>10. ASSUME NEW s \in Steps, CancelStep(s) PROVE OutcomeShape'
  BY <1>10, <1>a, HoldersDiffer DEF CancelStep, RowLocked
<1>11. ASSUME NEW s \in Steps, AbortCompletion(s) PROVE OutcomeShape'
  BY <1>11, <1>a, HoldersDiffer DEF AbortCompletion, Deadlocked, End, Goto
<1>12. ASSUME NEW s \in Steps, Crash(s) PROVE OutcomeShape'
  BY <1>12, <1>a, HoldersDiffer DEF Crash, End, Goto
<1>13. CASE RequestCancel
  BY <1>13, <1>a, HoldersDiffer DEF RequestCancel
<1>14. CASE LockBuild
  BY <1>14, <1>a, HoldersDiffer DEF LockBuild, CanCancelBuild
<1>15. CASE CommitCancel
  BY <1>15, <1>a, HoldersDiffer DEF CommitCancel
<1>16. CASE AbortCancel
  BY <1>16, <1>a, HoldersDiffer DEF AbortCancel, Deadlocked
<1>17. CASE UNCHANGED vars
  BY <1>17 DEF vars
<1> QED
  BY <1>1, <1>2, <1>3, <1>4, <1>5, <1>6, <1>7, <1>8, <1>9, <1>10, <1>11, <1>12,
     <1>13, <1>14, <1>15, <1>16, <1>17 DEF Next, Statement

(* A build succeeds with its steps, and a success is not taken back. *)
LEMMA SuccessStep ==
  TypeOK /\ RowShape /\ LockShape /\ DecisionShape /\ SuccessIsEarned /\ [Next]_vars
    => SuccessIsEarned'
<1> SUFFICES ASSUME TypeOK, RowShape, LockShape, DecisionShape, SuccessIsEarned, [Next]_vars
             PROVE  SuccessIsEarned'
  OBVIOUS
<1>a. \A s \in Steps : tx[s] # "none" =>
        View(s) = [t \in Steps |-> IF t = s THEN result[s] ELSE steps[t]]
  BY ViewReads
<1> USE StepsAssumption
     DEF TypeOK, RowShape, LockShape, DecisionShape, SuccessIsEarned, CanCancelStep, StepResults
<1>1. ASSUME NEW s \in Steps, ClaimNextRunnableJob(s) PROVE SuccessIsEarned'
  BY <1>1, <1>a DEF ClaimNextRunnableJob
<1>2. ASSUME NEW s \in Steps, ClaimPendingStep(s) PROVE SuccessIsEarned'
  BY <1>2, <1>a DEF ClaimPendingStep, Runnable, RowLocked
<1>3. ASSUME NEW s \in Steps, NEW res \in Results, ApplyStepCompletion(s, res)
      PROVE  SuccessIsEarned'
  BY <1>3, <1>a DEF ApplyStepCompletion, RowLocked, Goto, StepResults
<1>4. ASSUME NEW s \in Steps, AdvanceBuildCurrentStep(s) PROVE SuccessIsEarned'
  BY <1>4, <1>a DEF AdvanceBuildCurrentStep, Goto
<1>5. ASSUME NEW s \in Steps, LoadBuildStepProgress(s) PROVE SuccessIsEarned'
  BY <1>5, <1>a DEF LoadBuildStepProgress, Goto
<1>6. ASSUME NEW s \in Steps, HasRunnablePendingStep(s) PROVE SuccessIsEarned'
  BY <1>6, <1>a DEF HasRunnablePendingStep, Goto
<1>7. ASSUME NEW s \in Steps, UpdateBuild(s) PROVE SuccessIsEarned'
  BY <1>7, <1>a DEF UpdateBuild, End, Goto
<1>8. ASSUME NEW s \in Steps, UpdateBuildNoop(s) PROVE SuccessIsEarned'
  BY <1>8, <1>a DEF UpdateBuildNoop, End, Goto
<1>9. ASSUME NEW s \in Steps, CommitStep(s) PROVE SuccessIsEarned'
  BY <1>9, <1>a DEF CommitStep, End, Goto
<1>10. ASSUME NEW s \in Steps, CancelStep(s) PROVE SuccessIsEarned'
  BY <1>10, <1>a DEF CancelStep, RowLocked
<1>11. ASSUME NEW s \in Steps, AbortCompletion(s) PROVE SuccessIsEarned'
  BY <1>11, <1>a DEF AbortCompletion, Deadlocked, End, Goto
<1>12. ASSUME NEW s \in Steps, Crash(s) PROVE SuccessIsEarned'
  BY <1>12, <1>a DEF Crash, End, Goto
<1>13. CASE RequestCancel
  BY <1>13, <1>a DEF RequestCancel
<1>14. CASE LockBuild
  BY <1>14, <1>a DEF LockBuild, CanCancelBuild
<1>15. CASE CommitCancel
  BY <1>15, <1>a DEF CommitCancel
<1>16. CASE AbortCancel
  BY <1>16, <1>a DEF AbortCancel, Deadlocked
<1>17. CASE UNCHANGED vars
  BY <1>17 DEF vars
<1> QED
  BY <1>1, <1>2, <1>3, <1>4, <1>5, <1>6, <1>7, <1>8, <1>9, <1>10, <1>11, <1>12,
     <1>13, <1>14, <1>15, <1>16, <1>17 DEF Next, Statement

(* A build is canceled with every step that was not done. *)
LEMMA CancelCommitStep ==
  TypeOK /\ RowShape /\ LockShape /\ CancelIsComplete /\ [Next]_vars => CancelIsComplete'
<1> SUFFICES ASSUME TypeOK, RowShape, LockShape, CancelIsComplete, [Next]_vars
             PROVE  CancelIsComplete'
  OBVIOUS
<1>a. \A s \in Steps : tx[s] # "none" =>
        View(s) = [t \in Steps |-> IF t = s THEN result[s] ELSE steps[t]]
  BY ViewReads
<1> USE StepsAssumption
     DEF TypeOK, RowShape, LockShape, CancelIsComplete, CanCancelStep, StepResults, IsTerminalStepStatus, TerminalStatuses
<1>1. ASSUME NEW s \in Steps, ClaimNextRunnableJob(s) PROVE CancelIsComplete'
  BY <1>1, <1>a DEF ClaimNextRunnableJob
<1>2. ASSUME NEW s \in Steps, ClaimPendingStep(s) PROVE CancelIsComplete'
  BY <1>2, <1>a DEF ClaimPendingStep, Runnable, RowLocked
<1>3. ASSUME NEW s \in Steps, NEW res \in Results, ApplyStepCompletion(s, res)
      PROVE  CancelIsComplete'
  BY <1>3, <1>a DEF ApplyStepCompletion, RowLocked, Goto, StepResults
<1>4. ASSUME NEW s \in Steps, AdvanceBuildCurrentStep(s) PROVE CancelIsComplete'
  BY <1>4, <1>a DEF AdvanceBuildCurrentStep, Goto
<1>5. ASSUME NEW s \in Steps, LoadBuildStepProgress(s) PROVE CancelIsComplete'
  BY <1>5, <1>a DEF LoadBuildStepProgress, Goto
<1>6. ASSUME NEW s \in Steps, HasRunnablePendingStep(s) PROVE CancelIsComplete'
  BY <1>6, <1>a DEF HasRunnablePendingStep, Goto
<1>7. ASSUME NEW s \in Steps, UpdateBuild(s) PROVE CancelIsComplete'
  BY <1>7, <1>a DEF UpdateBuild, End, Goto
<1>8. ASSUME NEW s \in Steps, UpdateBuildNoop(s) PROVE CancelIsComplete'
  BY <1>8, <1>a DEF UpdateBuildNoop, End, Goto
<1>9. ASSUME NEW s \in Steps, CommitStep(s) PROVE CancelIsComplete'
  BY <1>9, <1>a DEF CommitStep, End, Goto
<1>10. ASSUME NEW s \in Steps, CancelStep(s) PROVE CancelIsComplete'
  BY <1>10, <1>a DEF CancelStep, RowLocked
<1>11. ASSUME NEW s \in Steps, AbortCompletion(s) PROVE CancelIsComplete'
  BY <1>11, <1>a DEF AbortCompletion, Deadlocked, End, Goto
<1>12. ASSUME NEW s \in Steps, Crash(s) PROVE CancelIsComplete'
  BY <1>12, <1>a DEF Crash, End, Goto
<1>13. CASE RequestCancel
  BY <1>13, <1>a DEF RequestCancel
<1>14. CASE LockBuild
  BY <1>14, <1>a DEF LockBuild, CanCancelBuild
<1>15. CASE CommitCancel
  BY <1>15, <1>a DEF CommitCancel, StepStatuses
<1>16. CASE AbortCancel
  BY <1>16, <1>a DEF AbortCancel, Deadlocked
<1>17. CASE UNCHANGED vars
  BY <1>17 DEF vars
<1> QED
  BY <1>1, <1>2, <1>3, <1>4, <1>5, <1>6, <1>7, <1>8, <1>9, <1>10, <1>11, <1>12,
     <1>13, <1>14, <1>15, <1>16, <1>17 DEF Next, Statement

(* Every statement preserves every conjunct. *)
LEMMA NextIndInv == IndInv /\ [Next]_vars => IndInv'
  BY TypeStep, RowStep, LockStep, CountingStep, DecisionStep, OutcomeStep, SuccessStep,
     CancelCommitStep DEF IndInv

(* IndInv holds in every reachable state, however the statements of the    *)
(* transactions interleave and whichever of them are cut off.              *)
THEOREM Inductive == Spec => []IndInv
  BY InitIndInv, NextIndInv, PTL DEF Spec

(* updateBuildSuccessTx: a build is only ever "success" when every one of  *)
(* its steps is, although loadBuildStepProgressTx counted them in an       *)
(* earlier statement of a READ COMMITTED transaction.                      *)
THEOREM SuccessEarned == Spec => []SuccessIsEarned
<1>1. IndInv => SuccessIsEarned
  BY DEF IndInv
<1> QED
  BY <1>1, Inductive, PTL

(* CancelBuild: when the cancellation is committed no step of the build is *)
(* pending or running, whatever was claimed or completed while its update  *)
(* waited for the rows one by one.                                         *)
THEOREM CancelComplete == Spec => []CancelIsComplete
<1>1. IndInv => CancelIsComplete
  BY DEF IndInv
<1> QED
  BY <1>1, Inductive, PTL

(* Without a failure, the steps that are left in a running build have a    *)
(* first one, and its dependencies have succeeded.                         *)
LEMMA WorkIsLeft == IndInv => RunningHasWork
<1> SUFFICES ASSUME IndInv, status = "running",
                    \A s \in Steps : steps[s] \notin {"running", "failed"}
             PROVE  \E s \in Steps : Runnable(steps, s)
  BY DEF RunningHasWork
<1> DEFINE Left == {s \in Steps : steps[s] # "success"}
<1>1. \A s \in Left : steps[s] = "pending"
  BY DEF IndInv, TypeOK, OutcomeShape, StepStatuses
<1>2. Left \in SUBSET Steps /\ Left # {}
  BY DEF IndInv, OutcomeShape
<1>3. PICK s \in Left : Deps[s] \cap Left = {}
  BY <1>2, DepsAssumption
<1>4. \A d \in Deps[s] : steps[d] = "success"
  BY <1>3, DepsAssumption
<1> QED
  BY <1>1, <1>3, <1>4 DEF Runnable

(* advanceBuildCurrentStepTx and what follows: the completions of a        *)
(* running build never leave it with its steps done and nobody to end it;  *)
(* only a failed step can.  This is the safety half of BuildTerminates.    *)
THEOREM BuildNotForgotten == Spec => []RunningHasWork
  BY WorkIsLeft, Inductive, PTL

(* updateBuildSuccessTx, updateBuildFailedTx and CancelBuild's update: the *)
(* first of them to commit decides the build, and no later one changes it. *)
THEOREM TerminalFinal == Spec => TerminalBuildFinal
<1> DEFINE Kept == IsTerminalBuildStatus(status) => status' = status
<1>1. IndInv /\ [Next]_vars => Kept
  <2> SUFFICES ASSUME IndInv, [Next]_vars PROVE Kept
    OBVIOUS
  <2>1. ASSUME NEW s \in Steps, UpdateBuild(s) PROVE Kept
    BY <2>1 DEF UpdateBuild, IsTerminalBuildStatus, TerminalStatuses
  <2>2. CASE CommitCancel
    BY <2>2, HoldersDiffer
         DEF CommitCancel, IndInv, LockShape, IsTerminalBuildStatus, TerminalStatuses
  <2>3. CASE UNCHANGED status
    BY <2>3
  <2> QED
    BY <2>1, <2>2, <2>3 DEF Next, Statement, vars, ClaimNextRunnableJob, ClaimPendingStep,
       ApplyStepCompletion, AdvanceBuildCurrentStep, LoadBuildStepProgress, HasRunnablePendingStep,
       UpdateBuildNoop, CommitStep, RequestCancel, LockBuild, CancelStep, AbortCompletion,
       AbortCancel, Crash
<1>2. IndInv /\ [Next]_vars => [Kept]_vars
  BY <1>1
<1> QED
  BY <1>2, Inductive, PTL DEF Spec, TerminalBuildFinal
-----------------------------------------------------------------------------
(* The publication of a cache key *)


(* The key is new: no row, no claim, no archive. *)
LEMMA CacheInitIndInv == CacheInit => CacheIndInv
  BY CacheAssumption
     DEF CacheInit, CacheIndInv, CacheTypeOK, NoClaim, SaverPCs, SaverShape, ClaimShape, PromotedKept, EntryAvailable

(* A step keeps the types and the shape of the savers. *)
LEMMA CacheTypeStep == CacheTypeOK /\ SaverShape /\ [CacheNext]_cacheVars => (CacheTypeOK /\ SaverShape)'
<1> SUFFICES ASSUME CacheTypeOK, SaverShape, [CacheNext]_cacheVars PROVE (CacheTypeOK /\ SaverShape)'
  OBVIOUS
<1> USE CacheAssumption DEF CacheTypeOK, SaverShape, SaverPCs
<1>1. ASSUME NEW s \in Savers, ClaimPublish(s) PROVE (CacheTypeOK /\ SaverShape)'
  BY <1>1 DEF ClaimPublish, TryAcquirePublishClaim, SaverGoto, ClaimFree
<1>2. ASSUME NEW s \in Savers, AcquireUnclaimed(s) PROVE (CacheTypeOK /\ SaverShape)'
  BY <1>2 DEF AcquireUnclaimed, TryAcquirePublishClaim, SaverGoto, ClaimFree
<1>3. ASSUME NEW s \in Savers, NEW d \in Digests, SaveUnclaimed(s, d) PROVE (CacheTypeOK /\ SaverShape)'
  BY <1>3 DEF SaveUnclaimed, SaverGoto
<1>4. ASSUME NEW s \in Savers, NEW d \in Digests, SaveClaimed(s, d) PROVE (CacheTypeOK /\ SaverShape)'
  BY <1>4 DEF SaveClaimed, SaverGoto, SaverFault
<1>5. ASSUME NEW s \in Savers, CacheContentIsReady(s) PROVE (CacheTypeOK /\ SaverShape)'
  BY <1>5 DEF CacheContentIsReady, SaverGoto, SaverFault
<1>6. ASSUME NEW s \in Savers, FindPrevious(s) PROVE (CacheTypeOK /\ SaverShape)'
  BY <1>6 DEF FindPrevious, SaverGoto, SaverFault
<1>7. ASSUME NEW s \in Savers, SaveArchive(s) PROVE (CacheTypeOK /\ SaverShape)'
  BY <1>7 DEF SaveArchive, SaverGoto, SaverFault
<1>8. ASSUME NEW s \in Savers, PromoteArchive(s) PROVE (CacheTypeOK /\ SaverShape)'
  BY <1>8 DEF PromoteArchive, SaverGoto, SaverFault
<1>9. ASSUME NEW s \in Savers, CompletePublishClaim(s) PROVE (CacheTypeOK /\ SaverShape)'
  BY <1>9 DEF CompletePublishClaim, SaverGoto, SaverFault, NoClaim
<1>10. ASSUME NEW s \in Savers, DeletePrevious(s) PROVE (CacheTypeOK /\ SaverShape)'
  BY <1>10 DEF DeletePrevious, SaverGoto, SaverFault, InUse
<1>11. ASSUME NEW s \in Savers, ReleasePublishClaim(s) PROVE (CacheTypeOK /\ SaverShape)'
  BY <1>11 DEF ReleasePublishClaim, SaverGoto, SaverFault, NoClaim
<1>12. ASSUME NEW s \in Savers, ClientRelease(s) PROVE (CacheTypeOK /\ SaverShape)'
  BY <1>12 DEF ClientRelease, SaverGoto, SaverFault, NoClaim
<1>13. ASSUME NEW s \in Savers, SaverDies(s) PROVE (CacheTypeOK /\ SaverShape)'
  BY <1>13 DEF SaverDies, SaverGoto, SaverFault
<1>14. CASE ClaimTick
  BY <1>14 DEF ClaimTick
<1>15. CASE UNCHANGED cacheVars
  BY <1>15 DEF cacheVars
<1> QED
  BY <1>1, <1>2, <1>3, <1>4, <1>5, <1>6, <1>7, <1>8, <1>9, <1>10, <1>11, <1>12, <1>13,
     <1>14, <1>15 DEF CacheNext, SaverStep

(* The claim belongs to the saver that claimed last. *)
LEMMA CacheClaimStep == CacheTypeOK /\ ClaimShape /\ [CacheNext]_cacheVars => ClaimShape'
<1> SUFFICES ASSUME CacheTypeOK, ClaimShape, [CacheNext]_cacheVars PROVE ClaimShape'
  OBVIOUS
<1> USE CacheAssumption DEF CacheTypeOK, ClaimShape
<1>1. ASSUME NEW s \in Savers, ClaimPublish(s) PROVE ClaimShape'
  BY <1>1 DEF ClaimPublish, TryAcquirePublishClaim, SaverGoto, ClaimFree
<1>2. ASSUME NEW s \in Savers, AcquireUnclaimed(s) PROVE ClaimShape'
  BY <1>2 DEF AcquireUnclaimed, TryAcquirePublishClaim, SaverGoto, ClaimFree
<1>3. ASSUME NEW s \in Savers, NEW d \in Digests, SaveUnclaimed(s, d) PROVE ClaimShape'
  BY <1>3 DEF SaveUnclaimed, SaverGoto
<1>4. ASSUME NEW s \in Savers, NEW d \in Digests, SaveClaimed(s, d) PROVE ClaimShape'
  BY <1>4 DEF SaveClaimed, SaverGoto, SaverFault
<1>5. ASSUME NEW s \in Savers, CacheContentIsReady(s) PROVE ClaimShape'
  BY <1>5 DEF CacheContentIsReady, SaverGoto, SaverFault
<1>6. ASSUME NEW s \in Savers, FindPrevious(s) PROVE ClaimShape'
  BY <1>6 DEF FindPrevious, SaverGoto, SaverFault
<1>7. ASSUME NEW s \in Savers, SaveArchive(s) PROVE ClaimShape'
  BY <1>7 DEF SaveArchive, SaverGoto, SaverFault
<1>8. ASSUME NEW s \in Savers, PromoteArchive(s) PROVE ClaimShape'
  BY <1>8 DEF PromoteArchive, SaverGoto, SaverFault
<1>9. ASSUME NEW s \in Savers, CompletePublishClaim(s) PROVE ClaimShape'
  BY <1>9 DEF CompletePublishClaim, SaverGoto, SaverFault, NoClaim
<1>10. ASSUME NEW s \in Savers, DeletePrevious(s) PROVE ClaimShape'
  BY <1>10 DEF DeletePrevious, SaverGoto, SaverFault, InUse
<1>11. ASSUME NEW s \in Savers, ReleasePublishClaim(s) PROVE ClaimShape'
  BY <1>11 DEF ReleasePublishClaim, SaverGoto, SaverFault, NoClaim
<1>12. ASSUME NEW s \in Savers, ClientRelease(s) PROVE ClaimShape'
  BY <1>12 DEF ClientRelease, SaverGoto, SaverFault, NoClaim
<1>13. ASSUME NEW s \in Savers, SaverDies(s) PROVE ClaimShape'
  BY <1>13 DEF SaverDies, SaverGoto, SaverFault
<1>14. CASE ClaimTick
  BY <1>14 DEF ClaimTick
<1>15. CASE UNCHANGED cacheVars
  BY <1>15 DEF cacheVars
<1> QED
  BY <1>1, <1>2, <1>3, <1>4, <1>5, <1>6, <1>7, <1>8, <1>9, <1>10, <1>11, <1>12, <1>13,
     <1>14, <1>15 DEF CacheNext, SaverStep

(* Only a deletion takes away an archive, and it records whose. *)
LEMMA CacheArchiveStep ==
  CacheTypeOK /\ SaverShape /\ PromotedKept /\ EntryAvailable /\ [CacheNext]_cacheVars
    => (PromotedKept /\ EntryAvailable)'
<1> SUFFICES ASSUME CacheTypeOK, SaverShape, PromotedKept, EntryAvailable, [CacheNext]_cacheVars
             PROVE  (PromotedKept /\ EntryAvailable)'
  OBVIOUS
<1> USE CacheAssumption DEF CacheTypeOK, SaverShape, PromotedKept, EntryAvailable
<1>1. ASSUME NEW s \in Savers, ClaimPublish(s) PROVE (PromotedKept /\ EntryAvailable)'
  BY <1>1 DEF ClaimPublish, TryAcquirePublishClaim, SaverGoto, ClaimFree
<1>2. ASSUME NEW s \in Savers, AcquireUnclaimed(s) PROVE (PromotedKept /\ EntryAvailable)'
  BY <1>2 DEF AcquireUnclaimed, TryAcquirePublishClaim, SaverGoto, ClaimFree
<1>3. ASSUME NEW s \in Savers, NEW d \in Digests, SaveUnclaimed(s, d)
      PROVE  (PromotedKept /\ EntryAvailable)'
  BY <1>3 DEF SaveUnclaimed, SaverGoto
<1>4. ASSUME NEW s \in Savers, NEW d \in Digests, SaveClaimed(s, d)
      PROVE  (PromotedKept /\ EntryAvailable)'
  BY <1>4 DEF SaveClaimed, SaverGoto, SaverFault
<1>5. ASSUME NEW s \in Savers, CacheContentIsReady(s) PROVE (PromotedKept /\ EntryAvailable)'
  BY <1>5 DEF CacheContentIsReady, SaverGoto, SaverFault
<1>6. ASSUME NEW s \in Savers, FindPrevious(s) PROVE (PromotedKept /\ EntryAvailable)'
  BY <1>6 DEF FindPrevious, SaverGoto, SaverFault
<1>7. ASSUME NEW s \in Savers, SaveArchive(s) PROVE (PromotedKept /\ EntryAvailable)'
  BY <1>7 DEF SaveArchive, SaverGoto, SaverFault
<1>8. ASSUME NEW s \in Savers, PromoteArchive(s) PROVE (PromotedKept /\ EntryAvailable)'
  BY <1>8 DEF PromoteArchive, SaverGoto, SaverFault
<1>9. ASSUME NEW s \in Savers, CompletePublishClaim(s) PROVE (PromotedKept /\ EntryAvailable)'
  BY <1>9 DEF CompletePublishClaim, SaverGoto, SaverFault, NoClaim
<1>10. ASSUME NEW s \in Savers, DeletePrevious(s) PROVE (PromotedKept /\ EntryAvailable)'
  BY <1>10 DEF DeletePrevious, SaverGoto, SaverFault, InUse
<1>11. ASSUME NEW s \in Savers, ReleasePublishClaim(s) PROVE (PromotedKept /\ EntryAvailable)'
  BY <1>11 DEF ReleasePublishClaim, SaverGoto, SaverFault, NoClaim
<1>12. ASSUME NEW s \in Savers, ClientRelease(s) PROVE (PromotedKept /\ EntryAvailable)'
  BY <1>12 DEF ClientRelease, SaverGoto, SaverFault, NoClaim
<1>13. ASSUME NEW s \in Savers, SaverDies(s) PROVE (PromotedKept /\ EntryAvailable)'
  BY <1>13 DEF SaverDies, SaverGoto, SaverFault
<1>14. CASE ClaimTick
  BY <1>14 DEF ClaimTick
<1>15. CASE UNCHANGED cacheVars
  BY <1>15 DEF cacheVars
<1> QED
  BY <1>1, <1>2, <1>3, <1>4, <1>5, <1>6, <1>7, <1>8, <1>9, <1>10, <1>11, <1>12, <1>13,
     <1>14, <1>15 DEF CacheNext, SaverStep

(* Every call preserves every conjunct. *)
LEMMA CacheNextIndInv == CacheIndInv /\ [CacheNext]_cacheVars => CacheIndInv'
  BY CacheTypeStep, CacheClaimStep, CacheArchiveStep DEF CacheIndInv

(* CacheIndInv holds in every reachable state, whatever calls fail and whatever *)
(* savers die.                                                             *)
THEOREM CacheInductive == CacheSpec => []CacheIndInv
  BY CacheInitIndInv, CacheNextIndInv, PTL DEF CacheSpec

(* CompletePublishClaim and the deletion of the replaced archive: the      *)
(* ready row names an archive that is in the store, except one deleted as  *)
(* a replaced row's after its content had come back.                       *)
THEOREM EntryStaysAvailable == CacheSpec => []EntryAvailable
<1>1. CacheIndInv => EntryAvailable
  BY DEF CacheIndInv
<1> QED
  BY <1>1, CacheInductive, PTL

(* CompletePublishClaim compares the token under the row's lock: a saver   *)
(* whose claim was taken over changes neither the row nor the new claim.   *)
THEOREM NewestPublishes == CacheSpec => NewestClaimPublishes
<1> DEFINE Yields == \A s \in Savers : pc[s] = "complete" /\ pc'[s] # "complete" /\ s \in superseded
                        => UNCHANGED <<entry, claim>>
<1>1. CacheIndInv /\ [CacheNext]_cacheVars => Yields
  <2> SUFFICES ASSUME CacheIndInv, [CacheNext]_cacheVars, NEW s \in Savers,
                      pc[s] = "complete", pc'[s] # "complete", s \in superseded
               PROVE  UNCHANGED <<entry, claim>>
    OBVIOUS
  <2>1. claim.owner # s
    BY DEF CacheIndInv, ClaimShape
  <2>2. CASE CompletePublishClaim(s)
    BY <2>1, <2>2 DEF CompletePublishClaim
  <2>3. CASE SaverDies(s)
    BY <2>3 DEF SaverDies
  <2>4. \A t \in Savers : SaverStep(t) \/ SaverDies(t) \/ (\E d \in Digests : SaveUnclaimed(t, d))
            => t = s
    BY DEF CacheIndInv, CacheTypeOK, SaverStep, ClaimPublish, AcquireUnclaimed, SaveClaimed, SaveUnclaimed,
       CacheContentIsReady, FindPrevious, SaveArchive, PromoteArchive, CompletePublishClaim,
       DeletePrevious, ReleasePublishClaim, ClientRelease, SaverDies, TryAcquirePublishClaim,
       SaverGoto, SaverFault
  <2>5. CacheNext
    BY DEF cacheVars
  <2> QED
    BY <2>2, <2>3, <2>4, <2>5
       DEF CacheNext, SaverStep, ClaimTick, ClaimPublish, AcquireUnclaimed, SaveClaimed, SaveUnclaimed,
       CacheContentIsReady, FindPrevious, SaveArchive, PromoteArchive, DeletePrevious,
       ReleasePublishClaim, ClientRelease
<1>2. CacheIndInv /\ [CacheNext]_cacheVars => [Yields]_cacheVars
  BY <1>1
<1> QED
  BY <1>2, CacheInductive, PTL DEF CacheSpec, NewestClaimPublishes
=============================================================================
