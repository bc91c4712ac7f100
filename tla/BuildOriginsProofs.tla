------------------------- MODULE BuildOriginsProofs -------------------------
(***************************************************************************)
(* Where builds come from: proofs about BuildAttempts, for any pipeline    *)
(* and dependencies, any template, any number of builds, requests, workers *)
(* and scanners, and any faults; and about TriggerDelivery, for any jobs   *)
(* and consumers, any number of handlers and retriers, and any faults.     *)
(*                                                                         *)
(* The two specifications have nothing in common but the names of          *)
(* Processes: a theorem is about Spec or about TriggerSpec.                *)
(***************************************************************************)
EXTENDS BuildAttempts, TriggerDelivery, TLAPS

-----------------------------------------------------------------------------
(* BuildAttempts: tables of steps and jobs *)

(* The steps and the jobs of a build are functions of some of its nodes. *)
LEMMA TableRows ==
  ASSUME NEW statuses, NEW rows \in Table(statuses)
  PROVE  /\ DOMAIN rows \subseteq Nodes
         /\ rows \in [DOMAIN rows -> RowType(statuses)]
         /\ \A n \in DOMAIN rows : rows[n] \in RowType(statuses)
<1>1. PICK ns \in SUBSET Nodes : rows \in [ns -> RowType(statuses)]
  BY DEF Table
<1> QED
  BY <1>1

LEMMA RowsTable ==
  ASSUME NEW statuses, NEW ns \in SUBSET Nodes, NEW rows \in [ns -> RowType(statuses)]
  PROVE  rows \in Table(statuses)
  BY DEF Table

(* Rows that are claimed, ended or expire. *)
LEMMA ClaimedRow ==
  ASSUME NEW statuses, NEW rec \in RowType(statuses), NEW w \in Workers, "running" \in statuses
  PROVE  /\ Claimed(rec, w) \in RowType(statuses)
         /\ Claimed(rec, w).status = "running" /\ Claimed(rec, w).deps = rec.deps
         /\ Claimed(rec, w).owner = w
  BY DEF RowType, Claimed

LEMMA EndedRow ==
  ASSUME NEW statuses, NEW rec \in RowType(statuses), NEW st \in statuses
  PROVE  /\ Ended(rec, st) \in RowType(statuses)
         /\ Ended(rec, st).status = st /\ Ended(rec, st).deps = rec.deps
         /\ Ended(rec, st).owner = None
  BY DEF RowType, Ended

LEMMA LapsedRow ==
  ASSUME NEW statuses, NEW rec \in RowType(statuses)
  PROVE  /\ [rec EXCEPT !.live = FALSE] \in RowType(statuses)
         /\ [rec EXCEPT !.live = FALSE].status = rec.status
         /\ [rec EXCEPT !.live = FALSE].deps = rec.deps
         /\ [rec EXCEPT !.live = FALSE].owner = rec.owner
  BY DEF RowType

LEMMA NewRowTyped ==
  ASSUME NEW statuses, NEW st \in statuses, NEW deps \in SUBSET Nodes
  PROVE  /\ NewRow(st, deps) \in RowType(statuses)
         /\ NewRow(st, deps).status = st /\ NewRow(st, deps).owner = None
  BY DEF NewRow, RowType

(* A row of a table is replaced by another one. *)
LEMMA TableExcept ==
  ASSUME NEW statuses, NEW rows \in Table(statuses), NEW s \in DOMAIN rows,
         NEW rec \in RowType(statuses)
  PROVE  /\ [rows EXCEPT ![s] = rec] \in Table(statuses)
         /\ DOMAIN [rows EXCEPT ![s] = rec] = DOMAIN rows
         /\ [rows EXCEPT ![s] = rec][s] = rec
         /\ \A n \in DOMAIN rows : n # s => [rows EXCEPT ![s] = rec][n] = rows[n]
<1>1. DOMAIN rows \in SUBSET Nodes /\ rows \in [DOMAIN rows -> RowType(statuses)]
  BY TableRows
<1>2. [rows EXCEPT ![s] = rec] \in [DOMAIN rows -> RowType(statuses)]
  BY <1>1
<1>3. [rows EXCEPT ![s] = rec] \in Table(statuses)
  BY <1>1, <1>2, RowsTable
<1> QED
  BY <1>1, <1>3

LEMMA NoRowsTable == \A statuses : NoRows \in Table(statuses) /\ DOMAIN NoRows = {}
<1> TAKE statuses
<1>1. NoRows \in [{} -> RowType(statuses)]
  BY DEF NoRows
<1> QED
  BY <1>1, RowsTable DEF NoRows

-----------------------------------------------------------------------------
(* Planning *)

(* What a step waits for without a depends_on are steps of the pipeline. *)
LEMMA FrontierNodes == \A n : Frontier(n) \subseteq PipelineNodes
<1> SUFFICES ASSUME NEW n, NEW i \in DOMAIN Pipeline, i # 1
             PROVE  Pipeline[i - 1] \subseteq PipelineNodes
  BY DEF Frontier
<1>1. i - 1 \in DOMAIN Pipeline
  BY AttemptsAssumption
<1> QED
  BY <1>1 DEF PipelineNodes, Range

(* A pipeline that LoadAndResolve accepts gives steps that wait for steps  *)
(* of the pipeline.                                                        *)
LEMMA PipelineStepsTyped ==
  ASSUME NEW d, ValidDependencies(d)
  PROVE  /\ PipelineSteps(d) \in Table(StepStatuses)
         /\ \A n \in DOMAIN PipelineSteps(d) : PipelineSteps(d)[n].status = "pending"
<1>1. \A n \in PipelineNodes : Resolve(d)[n] \in SUBSET Nodes
  BY FrontierNodes DEF ValidDependencies, Resolve, Nodes
<1>2. \A n \in PipelineNodes : /\ NewRow("pending", Resolve(d)[n]) \in RowType(StepStatuses)
                               /\ NewRow("pending", Resolve(d)[n]).status = "pending"
  BY <1>1, NewRowTyped DEF StepStatuses
<1>3. PipelineSteps(d) \in [PipelineNodes -> RowType(StepStatuses)]
  BY <1>2 DEF PipelineSteps
<1> QED
  BY <1>2, <1>3, RowsTable DEF PipelineSteps, Nodes

LEMMA TemplateStepsTyped ==
  /\ TemplateSteps \in Table(StepStatuses)
  /\ \A n \in DOMAIN TemplateSteps : TemplateSteps[n].status = "pending"
<1>1. NewRow("pending", {}) \in RowType(StepStatuses) /\ NewRow("pending", {}).status = "pending"
  BY NewRowTyped DEF StepStatuses
<1>2. TemplateSteps \in [Template -> RowType(StepStatuses)]
  BY <1>1 DEF TemplateSteps
<1> QED
  BY <1>1, <1>2, RowsTable DEF TemplateSteps, Nodes

LEMMA CloneStepsTyped ==
  ASSUME TypeOK, NEW src \in Builds, NEW ns, ns \subseteq DOMAIN steps[src]
  PROVE  /\ CloneSteps(src, ns) \in Table(StepStatuses)
         /\ \A n \in DOMAIN CloneSteps(src, ns) : CloneSteps(src, ns)[n].status = "pending"
<1>1. steps[src] \in Table(StepStatuses)
  BY DEF TypeOK
<1>2. ns \in SUBSET Nodes /\ \A n \in ns : steps[src][n].deps \in SUBSET Nodes
  BY <1>1, TableRows DEF RowType
<1>3. \A n \in ns : /\ NewRow("pending", steps[src][n].deps) \in RowType(StepStatuses)
                    /\ NewRow("pending", steps[src][n].deps).status = "pending"
  BY <1>2, NewRowTyped DEF StepStatuses
<1>4. CloneSteps(src, ns) \in [ns -> RowType(StepStatuses)]
  BY <1>3 DEF CloneSteps
<1> QED
  BY <1>2, <1>3, <1>4, RowsTable DEF CloneSteps

(* The jobs of new steps: queued, nobody's, and one for each. *)
NewJobs(rows, new) ==
    /\ new \in Table(JobStatuses)
    /\ DOMAIN new = DOMAIN rows
    /\ \A n \in DOMAIN new : new[n].status = "queued" /\ new[n].owner = None

LEMMA NewJobsTyped ==
  ASSUME NEW rows \in Table(StepStatuses)
  PROVE  NewJobs(rows, PlannedJobs(rows)) /\ NewJobs(rows, ClonedJobs(rows))
<1>1. DOMAIN rows \in SUBSET Nodes /\ \A n \in DOMAIN rows : rows[n].deps \in SUBSET Nodes
  BY TableRows DEF RowType
<1>2. \A n \in DOMAIN rows : /\ NewRow("queued", rows[n].deps) \in RowType(JobStatuses)
                             /\ NewRow("queued", rows[n].deps).status = "queued"
                             /\ NewRow("queued", rows[n].deps).owner = None
  BY <1>1, NewRowTyped DEF JobStatuses
<1>3. /\ NewRow("queued", {}) \in RowType(JobStatuses)
      /\ NewRow("queued", {}).status = "queued" /\ NewRow("queued", {}).owner = None
  BY NewRowTyped DEF JobStatuses
<1>4. PlannedJobs(rows) \in [DOMAIN rows -> RowType(JobStatuses)]
  BY <1>2 DEF PlannedJobs
<1>5. ClonedJobs(rows) \in [DOMAIN rows -> RowType(JobStatuses)]
  BY <1>3 DEF ClonedJobs
<1>6. PlannedJobs(rows) \in Table(JobStatuses) /\ ClonedJobs(rows) \in Table(JobStatuses)
  BY <1>1, <1>4, <1>5, RowsTable
<1> QED
  BY <1>2, <1>3, <1>6 DEF NewJobs, PlannedJobs, ClonedJobs

-----------------------------------------------------------------------------
(* What a step does *)

(* What TypeOK says of each variable. *)
LEMMA Typed ==
  TypeOK <=>
    /\ status \in [Builds -> BuildStatuses \cup {"none"}]
    /\ steps \in [Builds -> Table(StepStatuses)]
    /\ jobs \in [Builds -> Table(JobStatuses)]
    /\ gen \in [Builds -> Nat]
    /\ pc \in [Procs -> PCs]
    /\ loc \in [Procs -> LocType]
    /\ faults \in 0 .. MaxFaults
  BY DEF TypeOK

(* A fault is counted. *)
LEMMA FaultTyped == faults \in 0 .. MaxFaults /\ Fault => faults' \in 0 .. MaxFaults
  BY AttemptsAssumption DEF Fault

LEMMA IdleTyped == Idle \in LocType
  BY NoRowsTable DEF Idle, LocType

(* A build or the steps of a build are new: its steps wait, and it has no  *)
(* jobs.                                                                   *)
Rewritten(b) ==
    /\ status'[b] = "queued" /\ gen'[b] = gen[b] + 1
    /\ \A n \in DOMAIN steps'[b] : steps'[b][n].status = "pending"
    /\ DOMAIN jobs'[b] = {}

(* A step starts or ends; it has not ended before, and may run. *)
StepMoves(b, n) ==
    /\ steps'[b][n].deps = steps[b][n].deps
    /\ \/ steps'[b][n].status = steps[b][n].status
       \/ /\ steps[b][n].status \in {"pending", "running"}
          /\ steps'[b][n].status # "pending"
          /\ Met(b, steps[b][n].deps)

(* A job ends with its step. *)
JobMoves(b, n) ==
    \/ jobs'[b][n].status = jobs[b][n].status
    \/ jobs'[b][n].status \notin TerminalStatuses
    \/ n \in DOMAIN steps[b] /\ jobs'[b][n].status = steps'[b][n].status

JobsWritten(b) ==
    \E p \in Procs : At(p, "jobs") /\ loc[p].b = b /\ loc[p].g = gen[b] /\ jobs'[b] = loc[p].jobs

(* A build that goes on as it is. *)
Advances(b) ==
    /\ gen'[b] = gen[b] /\ (status'[b] = "none" => status[b] = "none")
    /\ DOMAIN steps'[b] = DOMAIN steps[b]
    /\ \A n \in DOMAIN steps[b] : StepMoves(b, n)
    /\ \/ DOMAIN jobs'[b] = DOMAIN jobs[b] /\ \A n \in DOMAIN jobs[b] : JobMoves(b, n)
       \/ JobsWritten(b)

(* A process that is about to write jobs was so before, or has just        *)
(* written the steps.                                                      *)
WriterMoves(p) ==
    pc'[p] = "jobs" =>
        \/ pc[p] = "jobs" /\ loc'[p] = loc[p]
        \/ /\ Rewritten(loc'[p].b) /\ loc'[p].g = gen'[loc'[p].b]
           /\ NewJobs(steps'[loc'[p].b], loc'[p].jobs)

Effect ==
    /\ TypeOK' /\ Places'
    /\ \A b \in Builds : Rewritten(b) \/ Advances(b)
    /\ \A p \in Procs : WriterMoves(p)

(* Most steps change neither steps nor jobs of a build. *)
Same(b) == UNCHANGED <<steps[b], jobs[b], gen[b]>> /\ (status'[b] = "none" => status[b] = "none")

LEMMA SameAdvances == \A b \in Builds : Same(b) => Advances(b)
  BY DEF Same, Advances, StepMoves, JobMoves

(* The transaction of CreateQueuedBuild. *)
LEMMA CreateEffect ==
  ASSUME IndInv, NEW r \in Procs, NEW b \in Builds, NEW rows \in Table(StepStatuses), NEW new,
         \A n \in DOMAIN rows : rows[n].status = "pending",
         NewJobs(rows, new), CreateQueuedBuild(r, b, rows, new)
  PROVE  Effect
<1> USE DEF CreateQueuedBuild, Goto
<1>1. TypeOK /\ status[b] = "none" /\ gen[b] = 0 /\ DOMAIN jobs[b] = {}
  BY DEF IndInv, NothingBefore
<1>2. PICK m : m = [Idle EXCEPT !.b = b, !.g = 1, !.jobs = new]
  OBVIOUS
<1>3. /\ loc' = [loc EXCEPT ![r] = m]
      /\ m \in LocType /\ m.b = b /\ m.g = 1 /\ m.jobs = new
  <2>1. new \in Table(JobStatuses)
    BY DEF NewJobs
  <2>2. m \in LocType /\ m.b = b /\ m.g = 1 /\ m.jobs = new
    BY <1>2, <2>1 DEF LocType, Idle
  <2> QED
    BY <1>2, <2>2
<1>4. TypeOK'
  BY <1>1, <1>2, <1>3 DEF TypeOK, PCs, BuildStatuses
<1>5. loc'[r].b = b /\ loc'[r].g = 1 /\ loc'[r].jobs = new /\ pc'[r] = "jobs"
  BY <1>1, <1>2, <1>3 DEF TypeOK
<1>6. \A p \in Procs : p # r => pc'[p] = pc[p] /\ loc'[p] = loc[p]
  BY <1>1 DEF TypeOK
<1>7. Places'
  BY <1>5, <1>6 DEF IndInv, Places, StepPCs, TxPCs
<1>8. Rewritten(b) /\ gen'[b] = 1 /\ steps'[b] = rows
  BY <1>1 DEF TypeOK, Rewritten
<1>9. \A c \in Builds : c # b => Same(c)
  BY <1>1 DEF TypeOK, Same
<1>10. \A p \in Procs : WriterMoves(p)
  BY <1>5, <1>6, <1>8 DEF WriterMoves
<1> QED
  BY <1>4, <1>7, <1>8, <1>9, <1>10, SameAdvances DEF Effect

(* The transaction of QueueBuild. *)
LEMMA QueueEffect ==
  ASSUME IndInv, NEW p \in Procs, QueueBuild(p)
  PROVE  Effect
<1> DEFINE b == loc[p].b
           new == PlannedJobs(TemplateSteps)
<1>1. TypeOK /\ pc[p] = "queue" /\ b \in Builds /\ loc[p] \in LocType
  BY DEF IndInv, Places, QueueBuild, At, TypeOK
<1>2. NewJobs(TemplateSteps, new) /\ TemplateSteps \in Table(StepStatuses)
  BY NewJobsTyped, TemplateStepsTyped
<1>3. /\ status' = [status EXCEPT ![b] = "queued"]
      /\ steps' = [steps EXCEPT ![b] = TemplateSteps]
      /\ jobs' = [jobs EXCEPT ![b] = NoRows]
      /\ gen' = [gen EXCEPT ![b] = gen[b] + 1]
      /\ pc' = [pc EXCEPT ![p] = "jobs"]
      /\ loc' = [loc EXCEPT ![p].g = gen[b] + 1, ![p].jobs = new]
      /\ faults' = faults
  BY <1>1 DEF QueueBuild, CascadeJobs, Goto, TypeOK
<1>4. PICK m : m = [loc[p] EXCEPT !.g = gen[b] + 1, !.jobs = new]
  OBVIOUS
<1> HIDE DEF new, b
<1>5. loc' = [loc EXCEPT ![p] = m] /\ m \in LocType /\ m.b = b /\ m.g = gen[b] + 1 /\ m.jobs = new
  <2>1. new \in Table(JobStatuses) /\ gen[b] + 1 \in Nat
    BY <1>1, <1>2 DEF NewJobs, TypeOK
  <2>2. m \in LocType /\ m.b = loc[p].b /\ m.g = gen[b] + 1 /\ m.jobs = new
    BY <1>1, <1>4, <2>1 DEF LocType
  <2>3. loc' = [loc EXCEPT ![p] = m]
    BY <1>3, <1>4
  <2> QED
    BY <2>2, <2>3 DEF b
<1>6. TypeOK'
  <2>1. status' \in [Builds -> BuildStatuses \cup {"none"}]
    BY <1>1, <1>3 DEF TypeOK, BuildStatuses
  <2>2. steps' \in [Builds -> Table(StepStatuses)] /\ jobs' \in [Builds -> Table(JobStatuses)]
    BY <1>1, <1>2, <1>3, NoRowsTable DEF TypeOK
  <2>3. gen' \in [Builds -> Nat] /\ faults' \in 0 .. MaxFaults
    BY <1>1, <1>3 DEF TypeOK
  <2>4. pc' \in [Procs -> PCs]
    BY <1>1, <1>3 DEF TypeOK, PCs
  <2>5. loc \in [Procs -> LocType] /\ loc' = [loc EXCEPT ![p] = m] /\ m \in LocType
    BY <1>1, <1>5 DEF TypeOK
  <2>6. loc' \in [Procs -> LocType]
    BY <2>5
  <2> QED
    BY <2>1, <2>2, <2>3, <2>4, <2>6 DEF TypeOK
<1>7. loc'[p].b = b /\ loc'[p].g = gen[b] + 1 /\ loc'[p].jobs = new /\ pc'[p] = "jobs"
  BY <1>1, <1>3, <1>4, <1>5 DEF TypeOK
<1>8. \A q \in Procs : q # p => pc'[q] = pc[q] /\ loc'[q] = loc[q]
  BY <1>1, <1>3, <1>5 DEF TypeOK
<1>9. Places'
  BY <1>1, <1>7, <1>8 DEF IndInv, Places, StepPCs, TxPCs
<1>10. Rewritten(b) /\ gen'[b] = gen[b] + 1 /\ steps'[b] = TemplateSteps
  BY <1>1, <1>3, NoRowsTable, TemplateStepsTyped DEF TypeOK, Rewritten
<1>11. \A c \in Builds : c # b => Same(c)
  BY <1>1, <1>3 DEF TypeOK, Same
<1>12. \A q \in Procs : WriterMoves(q)
  BY <1>2, <1>7, <1>8, <1>10 DEF WriterMoves
<1> QED
  BY <1>6, <1>9, <1>10, <1>11, <1>12, SameAdvances DEF Effect

(* The other steps: no process sets out to write jobs. *)
NoNewWriter ==
    /\ pc' \in [Procs -> PCs] /\ loc' \in [Procs -> LocType] /\ Places'
    /\ \A p \in Procs : pc'[p] = "jobs" => pc[p] = "jobs" /\ loc'[p] = loc[p]

LEMMA DoneMoves ==
  ASSUME IndInv, NEW p \in Procs, Done(p)
  PROVE  NoNewWriter
<1>1. pc \in [Procs -> PCs] /\ loc \in [Procs -> LocType]
  BY DEF IndInv, TypeOK
<1>2. pc' = [pc EXCEPT ![p] = "idle"] /\ loc' = [loc EXCEPT ![p] = Idle]
  BY DEF Done, Goto
<1>3. pc' \in [Procs -> PCs] /\ loc' \in [Procs -> LocType]
  BY <1>1, <1>2, IdleTyped DEF PCs
<1> QED
  BY <1>1, <1>2, <1>3 DEF NoNewWriter, IndInv, Places, StepPCs, TxPCs

(* A process takes up a build. *)
LEMMA TakeUpMoves ==
  ASSUME IndInv, NEW p \in Procs, NEW b \in Builds, NEW next \in {"queue", "prepare"},
         Goto(p, next), loc' = [loc EXCEPT ![p].b = b]
  PROVE  NoNewWriter
<1>1. pc \in [Procs -> PCs] /\ loc \in [Procs -> LocType]
  BY DEF IndInv, TypeOK
<1>2. PICK m : m = [loc[p] EXCEPT !.b = b]
  OBVIOUS
<1>3. m \in LocType /\ m.b = b
  BY <1>1, <1>2 DEF LocType
<1>4. pc' = [pc EXCEPT ![p] = next] /\ loc' = [loc EXCEPT ![p] = m]
  BY <1>2 DEF Goto
<1>5. pc' \in [Procs -> PCs] /\ loc' \in [Procs -> LocType]
  <2>1. pc' \in [Procs -> PCs]
    BY <1>1, <1>4 DEF PCs
  <2>2. loc' \in [Procs -> LocType]
    BY <1>1, <1>3, <1>4
  <2> QED
    BY <2>1, <2>2
<1> QED
  BY <1>1, <1>3, <1>4, <1>5 DEF NoNewWriter, IndInv, Places, StepPCs, TxPCs

(* A worker takes up a step, or goes on with it. *)
LEMMA StepPCMoves ==
  ASSUME IndInv, NEW p \in Procs, NEW next \in StepPCs, NEW m \in LocType,
         m.b \in Builds, m.s \in Nodes, Goto(p, next), loc' = [loc EXCEPT ![p] = m]
  PROVE  NoNewWriter
<1>1. pc \in [Procs -> PCs] /\ loc \in [Procs -> LocType]
  BY DEF IndInv, TypeOK
<1>2. next \in PCs /\ next # "jobs"
  BY DEF PCs, StepPCs, TxPCs
<1>3. pc' = [pc EXCEPT ![p] = next] /\ pc' \in [Procs -> PCs]
  BY <1>1, <1>2 DEF Goto
<1>4. loc' \in [Procs -> LocType]
  BY <1>1
<1> QED
  BY <1>1, <1>2, <1>3, <1>4 DEF NoNewWriter, IndInv, Places

LEMMA SameLocMoves ==
  ASSUME IndInv, NEW p \in Procs, pc[p] \in StepPCs, NEW next \in StepPCs, Goto(p, next),
         UNCHANGED loc
  PROVE  NoNewWriter
<1>1. loc \in [Procs -> LocType] /\ loc[p].b \in Builds /\ loc[p].s \in Nodes
  BY DEF IndInv, TypeOK, Places, StepPCs, TxPCs
<1>2. loc[p] \in LocType /\ loc' = [loc EXCEPT ![p] = loc[p]]
  BY <1>1
<1>3. PICK m : m = loc[p]
  OBVIOUS
<1> QED
  BY <1>1, <1>2, <1>3, StepPCMoves

(* A worker is started. *)
LEMMA StartMoves ==
  ASSUME IndInv, NEW w \in Helpers, StartWorker(w)
  PROVE  NoNewWriter
<1>1. pc \in [Procs -> PCs] /\ loc \in [Procs -> LocType] /\ w \in Procs
  BY AttemptsAssumption DEF IndInv, TypeOK, Procs
<1>2. pc' = [pc EXCEPT ![w] = "idle"] /\ UNCHANGED loc
  BY DEF StartWorker, Goto
<1>3. pc' \in [Procs -> PCs]
  BY <1>1, <1>2 DEF PCs
<1> QED
  BY <1>1, <1>2, <1>3 DEF NoNewWriter, IndInv, Places, StepPCs, TxPCs

LEMMA RestMoves ==
  ASSUME IndInv, UNCHANGED <<pc, loc>>
  PROVE  NoNewWriter
  BY DEF NoNewWriter, IndInv, Places, TypeOK

(* What is left to show of such a step. *)
RowsMove ==
    /\ status' \in [Builds -> BuildStatuses \cup {"none"}]
    /\ steps' \in [Builds -> Table(StepStatuses)]
    /\ jobs' \in [Builds -> Table(JobStatuses)]
    /\ gen' \in [Builds -> Nat]
    /\ faults' \in 0 .. MaxFaults
    /\ \A b \in Builds : Advances(b)

LEMMA MovesEffect == NoNewWriter /\ RowsMove => Effect
  BY DEF NoNewWriter, RowsMove, Effect, TypeOK, WriterMoves

(* The status of one build becomes st. *)
LEMMA StatusRows ==
  ASSUME IndInv, NEW b \in Builds, NEW st \in BuildStatuses,
         status' = [status EXCEPT ![b] = st] \/ status' = status,
         UNCHANGED <<steps, jobs, gen>>, faults' \in 0 .. MaxFaults
  PROVE  RowsMove
<1>1. status' \in [Builds -> BuildStatuses \cup {"none"}]
  BY DEF IndInv, TypeOK
<1>2. "none" # st
  BY DEF BuildStatuses
<1>3. \A c \in Builds : Same(c)
  BY <1>2 DEF IndInv, TypeOK, Same
<1> QED
  BY <1>1, <1>3, SameAdvances DEF RowsMove, IndInv, TypeOK

LEMMA UnchangedRows ==
  ASSUME IndInv, UNCHANGED <<status, steps, jobs, gen>>, faults' \in 0 .. MaxFaults
  PROVE  RowsMove
<1>1. \A c \in Builds : Same(c)
  BY DEF IndInv, TypeOK, Same
<1> QED
  BY <1>1, SameAdvances DEF RowsMove, IndInv, TypeOK

(* The row s of build b becomes row. *)
LEMMA StepRow ==
  ASSUME IndInv, NEW b \in Builds, NEW s \in DOMAIN steps[b], NEW rec \in RowType(StepStatuses),
         steps' = [steps EXCEPT ![b] = [steps[b] EXCEPT ![s] = rec]]
  PROVE  /\ steps' \in [Builds -> Table(StepStatuses)]
         /\ DOMAIN steps'[b] = DOMAIN steps[b]
         /\ steps'[b][s] = rec
         /\ \A n \in DOMAIN steps[b] : n # s => steps'[b][n] = steps[b][n]
         /\ \A c \in Builds : c # b => steps'[c] = steps[c]
<1>1. steps \in [Builds -> Table(StepStatuses)]
  BY DEF IndInv, TypeOK
<1>2. PICK rows : rows = [steps[b] EXCEPT ![s] = rec]
  OBVIOUS
<1>3. /\ rows \in Table(StepStatuses) /\ DOMAIN rows = DOMAIN steps[b] /\ rows[s] = rec
      /\ \A n \in DOMAIN steps[b] : n # s => rows[n] = steps[b][n]
  BY <1>1, <1>2, TableExcept
<1>4. steps' = [steps EXCEPT ![b] = rows]
  BY <1>2
<1> QED
  BY <1>1, <1>3, <1>4

LEMMA JobRow ==
  ASSUME IndInv, NEW b \in Builds, NEW s \in DOMAIN jobs[b], NEW rec \in RowType(JobStatuses),
         jobs' = [jobs EXCEPT ![b] = [jobs[b] EXCEPT ![s] = rec]]
  PROVE  /\ jobs' \in [Builds -> Table(JobStatuses)]
         /\ DOMAIN jobs'[b] = DOMAIN jobs[b]
         /\ jobs'[b][s] = rec
         /\ \A n \in DOMAIN jobs[b] : n # s => jobs'[b][n] = jobs[b][n]
         /\ \A c \in Builds : c # b => jobs'[c] = jobs[c]
<1>1. jobs \in [Builds -> Table(JobStatuses)]
  BY DEF IndInv, TypeOK
<1>2. PICK rows : rows = [jobs[b] EXCEPT ![s] = rec]
  OBVIOUS
<1>3. /\ rows \in Table(JobStatuses) /\ DOMAIN rows = DOMAIN jobs[b] /\ rows[s] = rec
      /\ \A n \in DOMAIN jobs[b] : n # s => rows[n] = jobs[b][n]
  BY <1>1, <1>2, TableExcept
<1>4. jobs' = [jobs EXCEPT ![b] = rows]
  BY <1>2
<1> QED
  BY <1>1, <1>3, <1>4

StepsMove ==
    /\ steps' \in [Builds -> Table(StepStatuses)]
    /\ \A b \in Builds : /\ DOMAIN steps'[b] = DOMAIN steps[b]
                         /\ \A n \in DOMAIN steps[b] : StepMoves(b, n)

JobsMove ==
    /\ jobs' \in [Builds -> Table(JobStatuses)]
    /\ \A b \in Builds : /\ DOMAIN jobs'[b] = DOMAIN jobs[b]
                         /\ \A n \in DOMAIN jobs[b] : JobMoves(b, n)

LEMMA BothMove ==
  ASSUME IndInv, StepsMove, JobsMove, UNCHANGED <<status, gen>>, faults' \in 0 .. MaxFaults
  PROVE  RowsMove
  BY DEF IndInv, TypeOK, StepsMove, JobsMove, RowsMove, Advances

LEMMA SameSteps == ASSUME IndInv, UNCHANGED steps PROVE StepsMove
  BY DEF IndInv, TypeOK, StepsMove, StepMoves

LEMMA SameJobs == ASSUME IndInv, UNCHANGED jobs PROVE JobsMove
  BY DEF IndInv, TypeOK, JobsMove, JobMoves

(* A row of a build's steps or jobs is a row. *)
LEMMA RowOf ==
  ASSUME IndInv, NEW b \in Builds
  PROVE  /\ \A s \in DOMAIN steps[b] : steps[b][s] \in RowType(StepStatuses)
         /\ \A s \in DOMAIN jobs[b] : jobs[b][s] \in RowType(JobStatuses)
<1>1. steps[b] \in Table(StepStatuses) /\ jobs[b] \in Table(JobStatuses)
  BY DEF IndInv, TypeOK
<1> QED
  BY <1>1, TableRows

(* A step that may run is claimed. *)
LEMMA TakeStepMoves ==
  ASSUME IndInv, NEW w \in Workers, NEW b \in Builds, NEW s, TakeStep(w, b, s),
         ReadyStep(b, s) \/ LapsedStep(b, s)
  PROVE  StepsMove
<1>1. s \in DOMAIN steps[b] /\ steps[b][s].status \in {"pending", "running"}
  BY DEF ReadyStep, LapsedStep
<1>2. Met(b, steps[b][s].deps)
  BY <1>1 DEF ReadyStep, LapsedStep, IndInv, OrderKept
<1>3. PICK rec : rec = Claimed(steps[b][s], w)
  OBVIOUS
<1>4. rec \in RowType(StepStatuses) /\ rec.status = "running" /\ rec.deps = steps[b][s].deps
  <2>1. steps[b][s] \in RowType(StepStatuses) /\ "running" \in StepStatuses
    BY <1>1, RowOf DEF StepStatuses
  <2> QED
    BY <1>3, <2>1, ClaimedRow
<1>5. steps' = [steps EXCEPT ![b] = [steps[b] EXCEPT ![s] = rec]]
  BY <1>3 DEF TakeStep
<1> QED
  BY <1>1, <1>2, <1>4, <1>5, StepRow DEF StepsMove, StepMoves

(* A job is claimed. *)
LEMMA ClaimJobMoves ==
  ASSUME IndInv, NEW w \in Workers, NEW b \in Builds, NEW s \in DOMAIN jobs[b],
         jobs' = [jobs EXCEPT ![b][s] = Claimed(@, w)]
  PROVE  JobsMove
<1>1. PICK rec : rec = Claimed(jobs[b][s], w)
  OBVIOUS
<1>2. rec \in RowType(JobStatuses) /\ rec.status = "running"
  <2>1. jobs[b][s] \in RowType(JobStatuses) /\ "running" \in JobStatuses
    BY RowOf DEF JobStatuses
  <2> QED
    BY <1>1, <2>1, ClaimedRow
<1>3. jobs' = [jobs EXCEPT ![b] = [jobs[b] EXCEPT ![s] = rec]]
  BY <1>1
<1>4. /\ jobs' \in [Builds -> Table(JobStatuses)]
      /\ DOMAIN jobs'[b] = DOMAIN jobs[b]
      /\ jobs'[b][s] = rec
      /\ \A n \in DOMAIN jobs[b] : n # s => jobs'[b][n] = jobs[b][n]
      /\ \A c \in Builds : c # b => jobs'[c] = jobs[c]
  BY <1>2, <1>3, JobRow
<1> QED
  BY <1>2, <1>4 DEF JobsMove, JobMoves, TerminalStatuses

(* A claim expires. *)
LEMMA LapsedMoves ==
  ASSUME IndInv, NEW b \in Builds, NEW s
  PROVE  /\ steps' = Lapsed(steps, b, s) => StepsMove
         /\ jobs' = Lapsed(jobs, b, s) => JobsMove
<1>1. ASSUME steps' = Lapsed(steps, b, s), Live(steps, b, s) PROVE StepsMove
  <2>1. s \in DOMAIN steps[b]
    BY <1>1 DEF Live
  <2>2. PICK rec : rec = [steps[b][s] EXCEPT !.live = FALSE]
    OBVIOUS
  <2>3. rec \in RowType(StepStatuses) /\ rec.status = steps[b][s].status /\ rec.deps = steps[b][s].deps
    BY <2>1, <2>2, RowOf, LapsedRow
  <2>4. steps' = [steps EXCEPT ![b] = [steps[b] EXCEPT ![s] = rec]]
    BY <1>1, <2>2 DEF Lapsed
  <2> QED
    BY <2>1, <2>3, <2>4, StepRow DEF StepsMove, StepMoves
<1>2. ASSUME jobs' = Lapsed(jobs, b, s), Live(jobs, b, s) PROVE JobsMove
  <2>1. s \in DOMAIN jobs[b]
    BY <1>2 DEF Live
  <2>2. PICK rec : rec = [jobs[b][s] EXCEPT !.live = FALSE]
    OBVIOUS
  <2>3. rec \in RowType(JobStatuses) /\ rec.status = jobs[b][s].status
    BY <2>1, <2>2, RowOf, LapsedRow
  <2>4. jobs' = [jobs EXCEPT ![b] = [jobs[b] EXCEPT ![s] = rec]]
    BY <1>2, <2>2 DEF Lapsed
  <2> QED
    BY <2>1, <2>3, <2>4, JobRow DEF JobsMove, JobMoves
<1> QED
  BY <1>1, <1>2, SameSteps, SameJobs DEF Lapsed

(* The step that a completion commits. *)
LEMMA CommitStepsMove ==
  ASSUME IndInv, NEW w \in Workers, pc[w] \in TxPCs, Commit(w)
  PROVE  /\ StepsMove /\ loc[w].res \in StepResults
         /\ loc[w].s \in DOMAIN steps[loc[w].b]
         /\ steps[loc[w].b][loc[w].s].status = "running" /\ steps[loc[w].b][loc[w].s].owner = w
         /\ steps'[loc[w].b][loc[w].s].status = loc[w].res
         /\ \A c \in Builds : \A n \in DOMAIN steps[c] :
              (c # loc[w].b \/ n # loc[w].s) => steps'[c][n] = steps[c][n]
<1>1. PICK b \in Builds : b = loc[w].b
  BY DEF IndInv, Places, Procs, TxPCs
<1>2. PICK s : s = loc[w].s
  OBVIOUS
<1>3. PICK res \in StepResults : res = loc[w].res
  BY DEF IndInv, OpenCompletions
<1>4. s \in DOMAIN steps[b] /\ steps[b][s].status = "running" /\ steps[b][s].owner = w
  BY <1>1, <1>2 DEF IndInv, OpenCompletions, HoldsClaim
<1>5. Met(b, steps[b][s].deps)
  BY <1>1, <1>4 DEF IndInv, OrderKept
<1>6. PICK rec : rec = Ended(steps[b][s], res)
  OBVIOUS
<1>7. res \in StepStatuses /\ res # "pending"
  BY DEF StepResults, StepStatuses
<1>8. rec \in RowType(StepStatuses) /\ rec.status = res /\ rec.deps = steps[b][s].deps
  <2>1. steps[b][s] \in RowType(StepStatuses)
    BY <1>1, <1>4, RowOf
  <2> QED
    BY <1>6, <1>7, <2>1, EndedRow
<1>9. steps' = [steps EXCEPT ![b] = [steps[b] EXCEPT ![s] = rec]]
  BY <1>1, <1>2, <1>3, <1>6 DEF Commit, View
<1>10. /\ steps' \in [Builds -> Table(StepStatuses)]
       /\ DOMAIN steps'[b] = DOMAIN steps[b]
       /\ steps'[b][s] = rec
       /\ \A n \in DOMAIN steps[b] : n # s => steps'[b][n] = steps[b][n]
       /\ \A c \in Builds : c # b => steps'[c] = steps[c]
  BY <1>1, <1>4, <1>8, <1>9, StepRow
<1>11. StepsMove
  BY <1>1, <1>4, <1>5, <1>7, <1>8, <1>10 DEF StepsMove, StepMoves
<1> QED
  BY <1>1, <1>2, <1>3, <1>4, <1>8, <1>10, <1>11

(* ... and with it, perhaps, the build. *)
LEMMA CommitRows ==
  ASSUME IndInv, NEW w \in Workers, CommitStep(w) \/ UpdateBuild(w)
  PROVE  RowsMove /\ pc[w] \in TxPCs /\ Commit(w)
<1>1. pc[w] \in TxPCs /\ Commit(w)
  BY DEF CommitStep, UpdateBuild, At, TxPCs
<1>2. PICK b \in Builds : b = loc[w].b
  BY <1>1 DEF IndInv, Places, Procs, TxPCs
<1>3. StepsMove /\ JobsMove /\ UNCHANGED <<gen, faults>>
  BY <1>1, CommitStepsMove, SameJobs DEF Commit
<1>4. \/ status' = status
      \/ status' = [status EXCEPT ![b] = "success"]
      \/ status' = [status EXCEPT ![b] = "failed"]
  BY <1>2 DEF CommitStep, UpdateBuild
<1>5. /\ status' \in [Builds -> BuildStatuses \cup {"none"}]
      /\ \A c \in Builds : status'[c] = "none" => status[c] = "none"
  BY <1>2, <1>4 DEF IndInv, TypeOK, BuildStatuses
<1> QED
  BY <1>1, <1>3, <1>5 DEF IndInv, StepsMove, JobsMove, RowsMove, Advances, TypeOK

(* The job that a worker ends after its step. *)
LEMMA EndJobMoves ==
  ASSUME IndInv, NEW w \in Workers, CompleteJob(w)
  PROVE  JobsMove
<1>1. PICK b \in Builds : b = loc[w].b
  BY DEF IndInv, Places, Procs, CompleteJob, At
<1>2. PICK s : s = loc[w].s
  OBVIOUS
<1>3. PICK res : res = loc[w].res
  OBVIOUS
<1>4. CASE UNCHANGED jobs
  BY <1>4, SameJobs
<1>5. CASE /\ s \in DOMAIN jobs[b] /\ jobs[b][s].owner = w
           /\ jobs' = [jobs EXCEPT ![b][s] = Ended(@, res)]
  <2>1. res \in StepResults /\ steps[b][s].status = res /\ UNCHANGED steps
    BY <1>1, <1>2, <1>3, <1>5 DEF IndInv, OpenCompletions, CompleteJob, At
  <2>2. s \in DOMAIN steps[b] /\ res \in JobStatuses
    BY <1>1, <1>5, <2>1 DEF IndInv, JobsHaveSteps, StepResults, JobStatuses
  <2>3. PICK rec : rec = Ended(jobs[b][s], res)
    OBVIOUS
  <2>4. rec \in RowType(JobStatuses) /\ rec.status = res
    <3>1. jobs[b][s] \in RowType(JobStatuses)
      BY <1>1, <1>5, RowOf
    <3> QED
      BY <2>2, <2>3, <3>1, EndedRow
  <2>5. jobs' = [jobs EXCEPT ![b] = [jobs[b] EXCEPT ![s] = rec]]
    BY <1>5, <2>3
  <2>6. /\ jobs' \in [Builds -> Table(JobStatuses)]
        /\ DOMAIN jobs'[b] = DOMAIN jobs[b]
        /\ jobs'[b][s] = rec
        /\ \A n \in DOMAIN jobs[b] : n # s => jobs'[b][n] = jobs[b][n]
        /\ \A c \in Builds : c # b => jobs'[c] = jobs[c]
    <3>1. s \in DOMAIN jobs[b] /\ rec \in RowType(JobStatuses)
      BY <1>5, <2>4
    <3> QED
      BY <2>5, <3>1, JobRow, Zenon
  <2>7. JobMoves(b, s)
    BY <2>1, <2>2, <2>4, <2>6 DEF JobMoves
  <2> QED
    BY <2>6, <2>7 DEF JobsMove, JobMoves
<1> QED
  BY <1>1, <1>2, <1>3, <1>4, <1>5 DEF CompleteJob

(* The jobs of a build are written. *)
LEMMA WriteRows ==
  ASSUME IndInv, NEW p \in Procs, CreateDurableJobs(p)
  PROVE  RowsMove
<1> DEFINE b == loc[p].b
<1>1. UNCHANGED <<status, steps, gen, faults>> /\ b \in Builds /\ TypeOK /\ At(p, "jobs")
  BY DEF CreateDurableJobs, IndInv, Places, At
<1>2. CASE gen[b] = loc[p].g
  <2>1. jobs' = [jobs EXCEPT ![b] = loc[p].jobs]
    BY <1>2 DEF CreateDurableJobs
  <2>2. loc[p].jobs \in Table(JobStatuses)
    BY <1>1 DEF TypeOK, LocType
  <2>3. jobs' \in [Builds -> Table(JobStatuses)]
    BY <1>1, <2>1, <2>2 DEF TypeOK
  <2>4. JobsWritten(b)
    BY <1>1, <1>2, <2>1 DEF JobsWritten, TypeOK
  <2>5. \A c \in Builds : c # b => Same(c)
    BY <1>1, <2>1 DEF Same, TypeOK
  <2>6. Advances(b)
    BY <1>1, <2>4 DEF Advances, StepMoves
  <2> QED
    BY <1>1, <2>3, <2>5, <2>6, SameAdvances DEF RowsMove, TypeOK
<1>3. CASE gen[b] # loc[p].g
  <2>1. jobs' = jobs
    BY <1>3 DEF CreateDurableJobs
  <2> QED
    BY <1>1, <2>1, UnchangedRows DEF TypeOK
<1> QED
  BY <1>2, <1>3

-----------------------------------------------------------------------------
(* The invariant *)

(* Nothing has been created. *)
LEMMA InitIndInv == Init => IndInv
<1> SUFFICES ASSUME Init PROVE IndInv
  OBVIOUS
<1> USE DEF Init
<1>1. TypeOK
  BY AttemptsAssumption, NoRowsTable, IdleTyped DEF TypeOK, PCs
<1>2. \A b \in Builds : DOMAIN steps[b] = {} /\ DOMAIN jobs[b] = {} /\ gen[b] = 0
  BY NoRowsTable
<1>3. \A p \in Procs : pc[p] \in {"off", "idle"}
  OBVIOUS
<1>4. Places /\ OpenCompletions /\ JobsToWrite
  BY <1>3 DEF Places, OpenCompletions, JobsToWrite, At, Procs, StepPCs, TxPCs
<1> QED
  BY <1>1, <1>2, <1>4 DEF IndInv, NothingBefore, JobsHaveSteps, OrderKept, JobOutcomeAgrees

(* What each action does. *)
LEMMA RequestEffect ==
  ASSUME IndInv, NEW r \in Requests, Request(r)
  PROVE  Effect
<1>1. r \in Procs /\ TypeOK
  BY DEF Procs, IndInv
<1>2. ASSUME NEW b \in Builds, CreateBuild(r, b) PROVE Effect
  <2>1. RowsMove
    BY <1>1, <1>2, StatusRows DEF CreateBuild, TypeOK, BuildStatuses
  <2> QED
    BY <1>2, <2>1, RestMoves, MovesEffect DEF CreateBuild
<1>3. ASSUME NEW b \in Builds, CreateBuildFromPipeline(r, b) PROVE Effect
  <2>1. PICK d \in DependsOn :
            /\ ValidDependencies(d)
            /\ CreateQueuedBuild(r, b, PipelineSteps(d), PlannedJobs(PipelineSteps(d)))
    BY <1>3 DEF CreateBuildFromPipeline
  <2> QED
    BY <1>1, <2>1, PipelineStepsTyped, NewJobsTyped, CreateEffect
<1>4. ASSUME NEW b \in Builds, QueueCheck(r, b) PROVE Effect
  <2>1. RowsMove /\ NoNewWriter
    BY <1>1, <1>4, UnchangedRows, TakeUpMoves DEF QueueCheck, TypeOK
  <2> QED
    BY <2>1, MovesEffect
<1>5. ASSUME NEW b \in Builds, NEW src \in Builds, RerunBuild(r, src, b) PROVE Effect
  <2> DEFINE rows == CloneSteps(src, DOMAIN steps[src])
  <2>1. CreateQueuedBuild(r, b, rows, PlannedJobs(rows))
    BY <1>5 DEF RerunBuild
  <2>2. rows \in Table(StepStatuses) /\ \A n \in DOMAIN rows : rows[n].status = "pending"
    BY <1>1, CloneStepsTyped
  <2> HIDE DEF rows
  <2> QED
    BY <1>1, <2>1, <2>2, NewJobsTyped, CreateEffect
<1>6. ASSUME NEW b \in Builds, NEW src \in Builds, NEW s \in Nodes, RetryJob(r, src, s, b)
      PROVE  Effect
  <2> DEFINE rows == CloneSteps(src, {s})
  <2>1. CreateQueuedBuild(r, b, rows, ClonedJobs(rows)) /\ {s} \subseteq DOMAIN steps[src]
    BY <1>6 DEF RetryJob, IndInv, JobsHaveSteps
  <2>2. rows \in Table(StepStatuses) /\ \A n \in DOMAIN rows : rows[n].status = "pending"
    BY <1>1, <2>1, CloneStepsTyped
  <2> HIDE DEF rows
  <2> QED
    BY <1>1, <2>1, <2>2, NewJobsTyped, CreateEffect
<1>7. ASSUME NEW b \in Builds, NEW src \in Builds, NEW s \in Nodes, RerunBuildFromStep(r, src, s, b)
      PROVE  Effect
  <2> DEFINE ns == {n \in DOMAIN steps[src] : n >= s}
             rows == CloneSteps(src, ns)
  <2>1. CreateQueuedBuild(r, b, rows, ClonedJobs(rows))
    BY <1>7 DEF RerunBuildFromStep
  <2>2. rows \in Table(StepStatuses) /\ \A n \in DOMAIN rows : rows[n].status = "pending"
    <3>1. ns \subseteq DOMAIN steps[src]
      OBVIOUS
    <3> HIDE DEF ns
    <3> QED
      BY <1>1, <3>1, CloneStepsTyped
  <2> HIDE DEF rows
  <2> QED
    BY <1>1, <2>1, <2>2, NewJobsTyped, CreateEffect
<1> QED
  BY <1>2, <1>3, <1>4, <1>5, <1>6, <1>7 DEF Request

LEMMA PollEffect ==
  ASSUME IndInv, NEW w \in Workers, NEW b \in Builds
  PROVE  /\ Poll(w, b) => Effect
         /\ \A s \in Nodes : ClaimJob(w, b, s) => Effect
<1>1. w \in Procs /\ TypeOK
  BY DEF Procs, IndInv
<1>2. ASSUME QueueCheck(w, b) PROVE Effect
  <2>1. RowsMove /\ NoNewWriter
    BY <1>1, <1>2, UnchangedRows, TakeUpMoves DEF QueueCheck, TypeOK
  <2> QED
    BY <2>1, MovesEffect
<1>3. ASSUME Prepare(w, b) PROVE Effect
  <2>1. RowsMove
    BY <1>1, <1>3, StatusRows DEF Prepare, TypeOK, BuildStatuses
  <2>2. NoNewWriter
    BY <1>1, <1>3, TakeUpMoves DEF Prepare
  <2> QED
    BY <2>1, <2>2, MovesEffect
<1>4. ASSUME NEW s \in Nodes, ClaimStep(w, b, s) PROVE Effect
  <2>1. StepsMove /\ JobsMove
    BY <1>4, TakeStepMoves, SameJobs DEF ClaimStep
  <2>2. RowsMove
    BY <1>1, <1>4, <2>1, BothMove DEF ClaimStep, TypeOK
  <2>3. NoNewWriter
    <3>1. PICK m : m = [loc[w] EXCEPT !.b = b, !.s = s]
      OBVIOUS
    <3>2. loc[w] \in LocType
      BY <1>1 DEF TypeOK
    <3>3. m \in LocType /\ m.b = b /\ m.s = s
      BY <3>1, <3>2 DEF LocType
    <3>4. loc' = [loc EXCEPT ![w] = m] /\ Goto(w, "bind") /\ "bind" \in StepPCs
      BY <1>4, <3>1 DEF ClaimStep, StepPCs
    <3> QED
      BY <1>1, <3>3, <3>4, StepPCMoves
  <2> QED
    BY <2>2, <2>3, MovesEffect
<1>5. ASSUME NEW s \in Nodes, ClaimJob(w, b, s) PROVE Effect
  <2>1. StepsMove /\ JobsMove
    BY <1>5, ClaimJobMoves, SameSteps DEF ClaimJob, Claimable
  <2>2. RowsMove
    BY <1>1, <1>5, <2>1, BothMove DEF ClaimJob, TypeOK
  <2>3. NoNewWriter
    <3>1. PICK m : m = [loc[w] EXCEPT !.b = b, !.s = s, !.bound = TRUE]
      OBVIOUS
    <3>2. loc[w] \in LocType
      BY <1>1 DEF TypeOK
    <3>3. m \in LocType /\ m.b = b /\ m.s = s
      BY <3>1, <3>2 DEF LocType
    <3>4. loc' = [loc EXCEPT ![w] = m] /\ Goto(w, "mirror") /\ "mirror" \in StepPCs
      BY <1>5, <3>1 DEF ClaimJob, StepPCs
    <3> QED
      BY <1>1, <3>3, <3>4, StepPCMoves
  <2> QED
    BY <2>2, <2>3, MovesEffect
<1> QED
  BY <1>2, <1>3, <1>4, <1>5 DEF Poll

(* The statements that only read, and those that are rolled back. *)
LEMMA CompleteEffect ==
  ASSUME IndInv, NEW w \in Workers, Complete(w)
  PROVE  Effect
<1>1. w \in Procs /\ TypeOK /\ Places
  BY DEF IndInv, Procs
<1>2. ASSUME NEW res \in StepResults, ApplyStepCompletion(w, res) PROVE Effect
  <2>1. RowsMove
    BY <1>1, <1>2, UnchangedRows DEF ApplyStepCompletion, TypeOK
  <2>2. PICK held \in BOOLEAN : loc' = [loc EXCEPT ![w].res = res, ![w].lock = held]
    BY <1>2 DEF ApplyStepCompletion
  <2>3. PICK m : m = [loc[w] EXCEPT !.res = res, !.lock = held]
    OBVIOUS
  <2>4. loc[w] \in LocType /\ loc[w].b \in Builds /\ loc[w].s \in Nodes
    BY <1>1, <1>2 DEF TypeOK, Places, ApplyStepCompletion, At, StepPCs
  <2>5. m \in LocType /\ m.b = loc[w].b /\ m.s = loc[w].s /\ loc' = [loc EXCEPT ![w] = m]
    BY <2>2, <2>3, <2>4 DEF LocType
  <2>6. PICK next \in StepPCs : Goto(w, next)
    BY <1>2 DEF ApplyStepCompletion, AfterCounts, StepPCs, TxPCs
  <2>7. NoNewWriter
    BY <1>1, <2>4, <2>5, <2>6, StepPCMoves
  <2> QED
    BY <2>1, <2>7, MovesEffect
<1>3. CASE CompletionRefused(w) \/ UpdateBuildNoop(w)
  <2>1. RowsMove /\ NoNewWriter
    BY <1>1, <1>3, UnchangedRows, DoneMoves DEF CompletionRefused, UpdateBuildNoop, TypeOK
  <2> QED
    BY <2>1, MovesEffect
<1>4. CASE HasRunnablePendingStep(w)
  <2>1. RowsMove
    BY <1>1, <1>4, UnchangedRows DEF HasRunnablePendingStep, TypeOK
  <2>2. PICK next \in StepPCs : Goto(w, next)
    BY <1>4 DEF HasRunnablePendingStep, StepPCs, TxPCs
  <2>3. pc[w] \in StepPCs /\ UNCHANGED loc
    BY <1>4 DEF HasRunnablePendingStep, At, StepPCs, TxPCs
  <2> QED
    BY <1>1, <2>1, <2>2, <2>3, SameLocMoves, MovesEffect
<1>5. CASE CommitStep(w) \/ UpdateBuild(w)
  <2>1. RowsMove /\ pc[w] \in TxPCs /\ Commit(w)
    BY <1>5, CommitRows
  <2>2. pc[w] \in StepPCs /\ "endJob" \in StepPCs /\ Goto(w, "endJob") /\ UNCHANGED loc
    BY <2>1 DEF Commit, StepPCs
  <2> QED
    BY <1>1, <2>1, <2>2, SameLocMoves, MovesEffect
<1>6. CASE CompleteJob(w)
  <2>1. RowsMove
    BY <1>1, <1>6, EndJobMoves, SameSteps, BothMove DEF CompleteJob, TypeOK
  <2> QED
    BY <1>1, <1>6, <2>1, DoneMoves, MovesEffect DEF CompleteJob
<1> QED
  BY <1>2, <1>3, <1>4, <1>5, <1>6 DEF Complete

LEMMA ProceedEffect ==
  ASSUME IndInv, NEW p \in Procs, Proceed(p)
  PROVE  Effect
<1>1. TypeOK /\ Places
  BY DEF IndInv
<1>2. CASE QueueBuild(p)
  BY <1>2, QueueEffect
<1>3. CASE CreateDurableJobs(p)
  BY <1>3, WriteRows, DoneMoves, MovesEffect DEF CreateDurableJobs
<1>4. CASE PrepareEnds(p)
  <2>1. loc[p].b \in Builds /\ "running" \in BuildStatuses /\ "failed" \in BuildStatuses
    BY <1>1, <1>4 DEF PrepareEnds, At, Places, BuildStatuses
  <2>2. RowsMove
    BY <1>1, <1>4, <2>1, StatusRows DEF PrepareEnds, TypeOK
  <2> QED
    BY <1>4, <2>2, DoneMoves, MovesEffect DEF PrepareEnds
<1>5. CASE p \in Workers /\ MirrorJobClaim(p)
  <2> DEFINE b == loc[p].b
             s == loc[p].s
  <2>1. b \in Builds /\ UNCHANGED <<status, jobs, gen, faults>> /\ pc[p] = "mirror"
    BY <1>1, <1>5 DEF MirrorJobClaim, At, Places
  <2>2. CASE /\ ReadyStep(b, s) \/ LapsedStep(b, s)
             /\ TakeStep(p, b, s)
             /\ Goto(p, "exec")
             /\ UNCHANGED loc
    <3>1. StepsMove /\ JobsMove
      BY <1>5, <2>1, <2>2, TakeStepMoves, SameJobs
    <3>2. RowsMove
      BY <1>1, <2>1, <3>1, BothMove DEF TypeOK
    <3> QED
      BY <2>1, <2>2, <3>2, SameLocMoves, MovesEffect DEF StepPCs
  <2>3. CASE Done(p) /\ UNCHANGED steps
    <3>1. RowsMove
      BY <1>1, <2>1, <2>3, UnchangedRows DEF TypeOK
    <3> QED
      BY <2>3, <3>1, DoneMoves, MovesEffect
  <2> QED
    BY <1>5, <2>2, <2>3 DEF MirrorJobClaim
<1>6. CASE p \in Workers /\ BindJob(p)
  <2> DEFINE b == loc[p].b
             s == loc[p].s
  <2>1. /\ b \in Builds /\ s \in Nodes /\ UNCHANGED <<status, steps, gen, faults>>
        /\ pc[p] = "bind" /\ Goto(p, "exec") /\ {"bind", "exec"} \subseteq StepPCs
    BY <1>1, <1>6 DEF BindJob, At, Places, StepPCs
  <2>2. CASE /\ s \in DOMAIN jobs[b] /\ jobs' = [jobs EXCEPT ![b][s] = Claimed(@, p)]
             /\ loc' = [loc EXCEPT ![p].bound = TRUE]
    <3>1. JobsMove
      BY <1>6, <2>1, <2>2, ClaimJobMoves
    <3>2. RowsMove
      BY <1>1, <2>1, <3>1, SameSteps, BothMove DEF TypeOK
    <3>3. PICK m : m = [loc[p] EXCEPT !.bound = TRUE]
      OBVIOUS
    <3>4. loc[p] \in LocType
      BY <1>1 DEF TypeOK
    <3>5. m \in LocType /\ m.b = b /\ m.s = s /\ loc' = [loc EXCEPT ![p] = m]
      BY <2>2, <3>3, <3>4 DEF LocType
    <3>6. NoNewWriter
      BY <2>1, <3>5, StepPCMoves
    <3> QED
      BY <3>2, <3>6, MovesEffect
  <2>3. CASE UNCHANGED <<jobs, loc>>
    <3>1. RowsMove
      BY <1>1, <2>1, <2>3, UnchangedRows DEF TypeOK
    <3> QED
      BY <2>1, <2>3, <3>1, SameLocMoves, MovesEffect
  <2> QED
    BY <1>6, <2>2, <2>3 DEF BindJob
<1>7. CASE p \in Workers /\ Complete(p)
  BY <1>7, CompleteEffect
<1> QED
  BY <1>2, <1>3, <1>4, <1>5, <1>6, <1>7 DEF Proceed

LEMMA NextEffect == IndInv /\ [Next]_vars => Effect
<1> SUFFICES ASSUME IndInv, [Next]_vars PROVE Effect
  OBVIOUS
<1>1. ASSUME NEW p \in Procs, Dies(p) PROVE Effect
  <2>1. faults' \in 0 .. MaxFaults
    BY <1>1, FaultTyped DEF Dies, IndInv, TypeOK
  <2> QED
    BY <1>1, <2>1, UnchangedRows, DoneMoves, MovesEffect DEF Dies
<1>2. ASSUME NEW b \in Builds, NEW s \in Nodes, LeaseExpires(b, s) PROVE Effect
  <2>1. faults' \in 0 .. MaxFaults
    BY <1>2, FaultTyped DEF LeaseExpires, IndInv, TypeOK
  <2>2. RowsMove
    BY <1>2, <2>1, LapsedMoves, BothMove DEF LeaseExpires
  <2> QED
    BY <1>2, <2>2, RestMoves, MovesEffect DEF LeaseExpires
<1>3. CASE UNCHANGED vars
  <2>1. RowsMove
    BY <1>3, UnchangedRows DEF vars, IndInv, TypeOK
  <2> QED
    BY <1>3, <2>1, RestMoves, MovesEffect DEF vars
<1>4. ASSUME NEW w \in Helpers, StartWorker(w) PROVE Effect
  <2>1. RowsMove
    BY <1>4, UnchangedRows DEF StartWorker, IndInv, TypeOK
  <2> QED
    BY <1>4, <2>1, StartMoves, MovesEffect
<1> QED
  BY <1>1, <1>2, <1>3, <1>4, RequestEffect, PollEffect, ProceedEffect DEF Next

-----------------------------------------------------------------------------
(* Open completions *)

(* A completion keeps its step while it is open, and a worker does not     *)
(* come by a job while it has yet to end one.                              *)
HeldKept(w) == LET b == loc[w].b  s == loc[w].s IN
    pc[w] \in TxPCs =>
        s \in DOMAIN steps'[b] /\ steps'[b][s].status = "running" /\ steps'[b][s].owner = w

OwnerKept(w) == LET b == loc[w].b  s == loc[w].s IN
    pc[w] = "endJob" /\ s \in DOMAIN jobs'[b] /\ jobs'[b][s].owner = w
        => s \in DOMAIN jobs[b] /\ jobs[b][s].owner = w

(* A worker that takes no part in the step, or opens a completion, or      *)
(* commits it, or is not completing.                                       *)
Stays(w) == pc'[w] = pc[w] /\ loc'[w] = loc[w] /\ HeldKept(w) /\ OwnerKept(w)

Opens(w) == LET b == loc'[w].b  s == loc'[w].s IN
    /\ pc'[w] \in TxPCs /\ loc'[w].res \in StepResults
    /\ s \in DOMAIN steps'[b] /\ steps'[b][s].status = "running" /\ steps'[b][s].owner = w

Commits(w) == LET b == loc'[w].b  s == loc'[w].s IN
    pc'[w] = "endJob" /\ loc'[w].res \in StepResults /\ steps'[b][s].status = loc'[w].res

Elsewhere(w) == pc'[w] \notin TxPCs /\ pc'[w] # "endJob"

CompletionMoves == \A w \in Workers : Stays(w) \/ Opens(w) \/ Commits(w) \/ Elsewhere(w)

(* Rows that nobody touches, and a step or a job of another worker's. *)
LEMMA SameHeld ==
  ASSUME IndInv, NEW w \in Workers
  PROVE  /\ steps' = steps => HeldKept(w)
         /\ jobs' = jobs => OwnerKept(w)
  BY DEF IndInv, OpenCompletions, HoldsClaim, HeldKept, OwnerKept

LEMMA StepHeld ==
  ASSUME IndInv, NEW b \in Builds, NEW s \in DOMAIN steps[b], NEW rec \in RowType(StepStatuses),
         steps' = [steps EXCEPT ![b] = [steps[b] EXCEPT ![s] = rec]],
         NEW w \in Workers,
         Completing(w, b) /\ loc[w].s = s => rec.status = "running" /\ rec.owner = w
  PROVE  HeldKept(w)
<1> SUFFICES ASSUME pc[w] \in TxPCs
             PROVE  /\ loc[w].s \in DOMAIN steps'[loc[w].b]
                    /\ steps'[loc[w].b][loc[w].s].status = "running"
                    /\ steps'[loc[w].b][loc[w].s].owner = w
  BY DEF HeldKept
<1>1. PICK c \in Builds : c = loc[w].b
  BY DEF IndInv, Places, Procs, TxPCs
<1>2. PICK n : n = loc[w].s
  OBVIOUS
<1>3. n \in DOMAIN steps[c] /\ steps[c][n].status = "running" /\ steps[c][n].owner = w
  BY <1>1, <1>2 DEF IndInv, OpenCompletions, HoldsClaim
<1>4. c = b /\ n = s => rec.status = "running" /\ rec.owner = w
  BY <1>1, <1>2 DEF Completing
<1>5. /\ DOMAIN steps'[b] = DOMAIN steps[b]
      /\ steps'[b][s] = rec
      /\ \A k \in DOMAIN steps[b] : k # s => steps'[b][k] = steps[b][k]
      /\ \A k \in Builds : k # b => steps'[k] = steps[k]
  BY StepRow
<1>6. n \in DOMAIN steps'[c] /\ steps'[c][n].status = "running" /\ steps'[c][n].owner = w
  BY <1>1, <1>3, <1>4, <1>5
<1> QED
  BY <1>1, <1>2, <1>6

LEMMA JobOwner ==
  ASSUME IndInv, NEW b \in Builds, NEW s \in DOMAIN jobs[b], NEW rec \in RowType(JobStatuses),
         jobs' = [jobs EXCEPT ![b] = [jobs[b] EXCEPT ![s] = rec]],
         NEW w \in Workers, rec.owner = w => jobs[b][s].owner = w
  PROVE  OwnerKept(w)
<1> SUFFICES ASSUME pc[w] = "endJob",
                    loc[w].s \in DOMAIN jobs'[loc[w].b], jobs'[loc[w].b][loc[w].s].owner = w
             PROVE  loc[w].s \in DOMAIN jobs[loc[w].b] /\ jobs[loc[w].b][loc[w].s].owner = w
  BY DEF OwnerKept
<1>1. PICK c \in Builds : c = loc[w].b
  BY DEF IndInv, Places, Procs
<1>2. /\ DOMAIN jobs'[b] = DOMAIN jobs[b]
      /\ jobs'[b][s] = rec
      /\ \A k \in DOMAIN jobs[b] : k # s => jobs'[b][k] = jobs[b][k]
      /\ \A k \in Builds : k # b => jobs'[k] = jobs[k]
  BY JobRow
<1> QED
  BY <1>1, <1>2

(* One process moves. *)
LEMMA OneMoves ==
  ASSUME IndInv, NEW p \in Procs, NEW next, NEW m,
         pc' = [pc EXCEPT ![p] = next], loc' = [loc EXCEPT ![p] = m],
         \A w \in Workers : w # p => HeldKept(w) /\ OwnerKept(w),
         p \in Workers => Opens(p) \/ Commits(p) \/ (next \notin TxPCs /\ next # "endJob")
  PROVE  CompletionMoves
<1>1. pc'[p] = next /\ \A w \in Workers : w # p => pc'[w] = pc[w] /\ loc'[w] = loc[w]
  BY DEF IndInv, TypeOK, Procs
<1>2. next \notin TxPCs /\ next # "endJob" => Elsewhere(p)
  BY <1>1 DEF Elsewhere
<1> QED
  BY <1>1, <1>2 DEF CompletionMoves, Stays

LEMMA DoneCompletions ==
  ASSUME IndInv, NEW p \in Procs, Done(p), \A w \in Workers : w # p => HeldKept(w) /\ OwnerKept(w)
  PROVE  CompletionMoves
<1>1. pc' = [pc EXCEPT ![p] = "idle"] /\ loc' = [loc EXCEPT ![p] = Idle]
  BY DEF Done, Goto
<1>2. "idle" \notin TxPCs
  BY DEF TxPCs
<1> QED
  BY <1>1, <1>2, OneMoves

(* The rows of a build that had none, and of one that nobody completes. *)
LEMMA CreateCompletions ==
  ASSUME IndInv, NEW r \in Requests, NEW b \in Builds, NEW rows, NEW new,
         CreateQueuedBuild(r, b, rows, new)
  PROVE  CompletionMoves
<1> USE DEF CreateQueuedBuild, Goto
<1>1. TypeOK /\ DOMAIN steps[b] = {} /\ r \in Procs
  BY DEF IndInv, NothingBefore, Procs
<1>2. ASSUME NEW w \in Workers PROVE HeldKept(w) /\ OwnerKept(w)
  <2>1. ASSUME pc[w] \in TxPCs
        PROVE  /\ loc[w].s \in DOMAIN steps'[loc[w].b]
               /\ steps'[loc[w].b][loc[w].s].status = "running"
               /\ steps'[loc[w].b][loc[w].s].owner = w
    <3>1. PICK c \in Builds : c = loc[w].b
      BY <2>1 DEF IndInv, Places, Procs, TxPCs
    <3>2. /\ loc[w].s \in DOMAIN steps[c] /\ steps[c][loc[w].s].status = "running"
          /\ steps[c][loc[w].s].owner = w
      BY <2>1, <3>1 DEF IndInv, OpenCompletions, HoldsClaim
    <3>3. steps'[c] = steps[c]
      BY <1>1, <3>2 DEF TypeOK
    <3> QED
      BY <3>1, <3>2, <3>3
  <2> QED
    BY <2>1, SameHeld DEF HeldKept
<1>3. PICK m : m = [Idle EXCEPT !.b = b, !.g = 1, !.jobs = new]
  OBVIOUS
<1>4. pc' = [pc EXCEPT ![r] = "jobs"] /\ loc' = [loc EXCEPT ![r] = m] /\ r \notin Workers
  BY <1>3, AttemptsAssumption
<1> QED
  BY <1>1, <1>2, <1>4, OneMoves

LEMMA QueueCompletions ==
  ASSUME IndInv, NEW p \in Procs, QueueBuild(p)
  PROVE  CompletionMoves
<1>1. PICK b \in Builds : b = loc[p].b
  BY DEF IndInv, Places, QueueBuild, At
<1>2. /\ TypeOK /\ steps' = [steps EXCEPT ![b] = TemplateSteps] /\ jobs' = [jobs EXCEPT ![b] = NoRows]
      /\ \A w \in Workers : ~Completing(w, b)
  BY <1>1 DEF IndInv, QueueBuild, CascadeJobs
<1>3. ASSUME NEW w \in Workers PROVE HeldKept(w) /\ OwnerKept(w)
  <2>1. ASSUME pc[w] \in TxPCs
        PROVE  /\ loc[w].s \in DOMAIN steps'[loc[w].b]
               /\ steps'[loc[w].b][loc[w].s].status = "running"
               /\ steps'[loc[w].b][loc[w].s].owner = w
    <3>1. PICK c \in Builds : c = loc[w].b
      BY <2>1 DEF IndInv, Places, Procs, TxPCs
    <3>2. steps'[c] = steps[c]
      BY <1>2, <2>1, <3>1 DEF TypeOK, Completing
    <3> QED
      BY <2>1, <3>1, <3>2 DEF IndInv, OpenCompletions, HoldsClaim
  <2>2. ASSUME pc[w] = "endJob", loc[w].s \in DOMAIN jobs'[loc[w].b]
        PROVE  jobs'[loc[w].b] = jobs[loc[w].b]
    <3>1. PICK c \in Builds : c = loc[w].b
      BY <2>2 DEF IndInv, Places, Procs
    <3>2. c # b
      BY <1>2, <2>2, <3>1, NoRowsTable DEF TypeOK
    <3> QED
      BY <1>2, <3>1, <3>2 DEF TypeOK
  <2> QED
    BY <2>1, <2>2 DEF HeldKept, OwnerKept
<1>4. PICK m : m = [loc[p] EXCEPT !.g = gen[b] + 1, !.jobs = PlannedJobs(TemplateSteps)]
  OBVIOUS
<1>5. pc' = [pc EXCEPT ![p] = "jobs"] /\ loc' = [loc EXCEPT ![p] = m]
  BY <1>1, <1>4 DEF QueueBuild, Goto
<1>6. "jobs" \notin TxPCs
  BY DEF TxPCs
<1> QED
  BY <1>3, <1>5, <1>6, OneMoves

(* New jobs are nobody's. *)
LEMMA WriteCompletions ==
  ASSUME IndInv, NEW p \in Procs, CreateDurableJobs(p)
  PROVE  CompletionMoves
<1>1. PICK b \in Builds : b = loc[p].b
  BY DEF IndInv, Places, CreateDurableJobs, At
<1>2. /\ TypeOK /\ steps' = steps /\ Done(p)
      /\ \A n \in DOMAIN loc[p].jobs : loc[p].jobs[n].owner = None
      /\ jobs' = jobs \/ jobs' = [jobs EXCEPT ![b] = loc[p].jobs]
  BY <1>1 DEF IndInv, CreateDurableJobs, JobsToWrite
<1>3. ASSUME NEW w \in Workers PROVE OwnerKept(w)
  <2> SUFFICES ASSUME pc[w] = "endJob", loc[w].s \in DOMAIN jobs'[loc[w].b],
                      jobs'[loc[w].b][loc[w].s].owner = w
               PROVE  loc[w].s \in DOMAIN jobs[loc[w].b] /\ jobs[loc[w].b][loc[w].s].owner = w
    BY DEF OwnerKept
  <2>1. PICK c \in Builds : c = loc[w].b
    BY DEF IndInv, Places, Procs
  <2>2. w # None
    BY AttemptsAssumption DEF Procs
  <2> QED
    BY <1>2, <2>1, <2>2 DEF TypeOK
<1> QED
  BY <1>2, <1>3, SameHeld, DoneCompletions

(* A step that another worker completes is neither ready nor free. *)
LEMMA TakeStepHeld ==
  ASSUME IndInv, NEW v \in Workers, NEW b \in Builds, NEW s, TakeStep(v, b, s),
         ReadyStep(b, s) \/ (LapsedStep(b, s) /\ ~StepLocked(b, s)),
         NEW w \in Workers
  PROVE  HeldKept(w)
<1>1. s \in DOMAIN steps[b] /\ ~(Completing(w, b) /\ loc[w].s = s)
  <2>1. CASE ReadyStep(b, s)
    BY <2>1 DEF ReadyStep, Completing, IndInv, OpenCompletions, HoldsClaim
  <2>2. CASE LapsedStep(b, s) /\ ~StepLocked(b, s)
    BY <2>2 DEF LapsedStep, StepLocked
  <2> QED
    BY <2>1, <2>2
<1>2. PICK rec : rec = Claimed(steps[b][s], v)
  OBVIOUS
<1>3. rec \in RowType(StepStatuses)
  <2>1. steps[b][s] \in RowType(StepStatuses) /\ "running" \in StepStatuses
    BY <1>1, RowOf DEF StepStatuses
  <2> QED
    BY <1>2, <2>1, ClaimedRow
<1>4. steps' = [steps EXCEPT ![b] = [steps[b] EXCEPT ![s] = rec]]
  BY <1>2 DEF TakeStep
<1> QED
  BY <1>1, <1>3, <1>4, StepHeld

LEMMA ClaimJobOwner ==
  ASSUME IndInv, NEW v \in Workers, NEW b \in Builds, NEW s \in DOMAIN jobs[b],
         jobs' = [jobs EXCEPT ![b][s] = Claimed(@, v)], NEW w \in Workers, w # v
  PROVE  OwnerKept(w)
<1>1. PICK rec : rec = Claimed(jobs[b][s], v)
  OBVIOUS
<1>2. rec \in RowType(JobStatuses) /\ rec.owner = v
  <2>1. jobs[b][s] \in RowType(JobStatuses) /\ "running" \in JobStatuses
    BY RowOf DEF JobStatuses
  <2> QED
    BY <1>1, <2>1, ClaimedRow
<1>3. jobs' = [jobs EXCEPT ![b] = [jobs[b] EXCEPT ![s] = rec]]
  BY <1>1
<1> QED
  BY <1>2, <1>3, JobOwner

(* A process that reads, or writes a build's status. *)
LEMMA QuietCompletions ==
  ASSUME IndInv, NEW p \in Procs, NEW next, next \notin TxPCs, next # "endJob", NEW m,
         pc' = [pc EXCEPT ![p] = next], loc' = [loc EXCEPT ![p] = m], UNCHANGED <<steps, jobs>>
  PROVE  CompletionMoves
  BY SameHeld, OneMoves

LEMMA PollCompletions ==
  ASSUME IndInv, NEW p \in Procs, NEW b \in Builds
  PROVE  /\ QueueCheck(p, b) => CompletionMoves
         /\ p \in Workers /\ Prepare(p, b) => CompletionMoves
         /\ \A s \in Nodes : p \in Workers /\ ClaimStep(p, b, s) => CompletionMoves
         /\ \A s \in Nodes : p \in Workers /\ ClaimJob(p, b, s) => CompletionMoves
<1>1. ASSUME QueueCheck(p, b) PROVE CompletionMoves
  <2>1. PICK m : m = [loc[p] EXCEPT !.b = b]
    OBVIOUS
  <2>2. /\ pc' = [pc EXCEPT ![p] = "queue"] /\ loc' = [loc EXCEPT ![p] = m]
        /\ UNCHANGED <<steps, jobs>> /\ "queue" \notin TxPCs
    BY <1>1, <2>1 DEF QueueCheck, Goto, TxPCs
  <2> QED
    BY <2>2, QuietCompletions
<1>2. ASSUME p \in Workers, Prepare(p, b) PROVE CompletionMoves
  <2>1. PICK m : m = [loc[p] EXCEPT !.b = b]
    OBVIOUS
  <2>2. /\ pc' = [pc EXCEPT ![p] = "prepare"] /\ loc' = [loc EXCEPT ![p] = m]
        /\ UNCHANGED <<steps, jobs>> /\ "prepare" \notin TxPCs
    BY <1>2, <2>1 DEF Prepare, Goto, TxPCs
  <2> QED
    BY <2>2, QuietCompletions
<1>3. ASSUME NEW s \in Nodes, p \in Workers, ClaimStep(p, b, s) PROVE CompletionMoves
  <2>1. PICK m : m = [loc[p] EXCEPT !.b = b, !.s = s]
    OBVIOUS
  <2>2. /\ pc' = [pc EXCEPT ![p] = "bind"] /\ loc' = [loc EXCEPT ![p] = m]
        /\ UNCHANGED jobs /\ TakeStep(p, b, s) /\ "bind" \notin TxPCs
        /\ ReadyStep(b, s) \/ (LapsedStep(b, s) /\ ~StepLocked(b, s))
    BY <1>3, <2>1 DEF ClaimStep, Goto, TxPCs
  <2>3. \A w \in Workers : HeldKept(w) /\ OwnerKept(w)
    BY <1>3, <2>2, TakeStepHeld, SameHeld
  <2> QED
    BY <2>2, <2>3, OneMoves
<1>4. ASSUME NEW s \in Nodes, p \in Workers, ClaimJob(p, b, s) PROVE CompletionMoves
  <2>1. PICK m : m = [loc[p] EXCEPT !.b = b, !.s = s, !.bound = TRUE]
    OBVIOUS
  <2>2. /\ pc' = [pc EXCEPT ![p] = "mirror"] /\ loc' = [loc EXCEPT ![p] = m]
        /\ UNCHANGED steps /\ "mirror" \notin TxPCs
        /\ s \in DOMAIN jobs[b] /\ jobs' = [jobs EXCEPT ![b][s] = Claimed(@, p)]
    BY <1>4, <2>1 DEF ClaimJob, Claimable, Goto, TxPCs
  <2>3. \A w \in Workers : w # p => HeldKept(w) /\ OwnerKept(w)
    BY <1>4, <2>2, ClaimJobOwner, SameHeld
  <2> QED
    BY <2>2, <2>3, OneMoves
<1> QED
  BY <1>1, <1>2, <1>3, <1>4

LEMMA StartCompletions ==
  ASSUME IndInv, NEW w \in Workers
  PROVE  /\ StartWorker(w) => CompletionMoves
         /\ PrepareEnds(w) => CompletionMoves
         /\ MirrorJobClaim(w) => CompletionMoves
         /\ BindJob(w) => CompletionMoves
<1>1. w \in Procs /\ TypeOK /\ "idle" \notin TxPCs /\ "exec" \notin TxPCs
  BY DEF Procs, IndInv, TxPCs
<1>2. PICK m : m = loc[w]
  OBVIOUS
<1>3. loc = [loc EXCEPT ![w] = m]
  BY <1>1, <1>2 DEF TypeOK
<1>4. ASSUME StartWorker(w) PROVE CompletionMoves
  <2>1. pc' = [pc EXCEPT ![w] = "idle"] /\ loc' = [loc EXCEPT ![w] = m] /\ UNCHANGED <<steps, jobs>>
    BY <1>3, <1>4 DEF StartWorker, Goto
  <2> QED
    BY <1>1, <2>1, QuietCompletions
<1>5. ASSUME PrepareEnds(w) PROVE CompletionMoves
  BY <1>1, <1>5, SameHeld, DoneCompletions DEF PrepareEnds
<1>6. ASSUME MirrorJobClaim(w) PROVE CompletionMoves
  <2> DEFINE b == loc[w].b
             s == loc[w].s
  <2>1. b \in Builds /\ UNCHANGED jobs /\ (LapsedStep(b, s) => ~StepLocked(b, s))
    BY <1>1, <1>6 DEF MirrorJobClaim, At, IndInv, Places
  <2>2. CASE /\ ReadyStep(b, s) \/ LapsedStep(b, s)
             /\ TakeStep(w, b, s)
             /\ Goto(w, "exec")
             /\ UNCHANGED loc
    <3>1. \A v \in Workers : HeldKept(v) /\ OwnerKept(v)
      BY <2>1, <2>2, TakeStepHeld, SameHeld
    <3>2. pc' = [pc EXCEPT ![w] = "exec"] /\ loc' = [loc EXCEPT ![w] = m]
      BY <1>3, <2>2 DEF Goto
    <3> QED
      BY <1>1, <3>1, <3>2, OneMoves
  <2>3. CASE Done(w) /\ UNCHANGED steps
    BY <1>1, <2>1, <2>3, SameHeld, DoneCompletions
  <2> QED
    BY <1>6, <2>2, <2>3 DEF MirrorJobClaim
<1>7. ASSUME BindJob(w) PROVE CompletionMoves
  <2> DEFINE b == loc[w].b
             s == loc[w].s
  <2>1. b \in Builds /\ UNCHANGED steps /\ pc' = [pc EXCEPT ![w] = "exec"]
    BY <1>1, <1>7 DEF BindJob, At, IndInv, Places, Goto
  <2>2. CASE /\ s \in DOMAIN jobs[b] /\ jobs' = [jobs EXCEPT ![b][s] = Claimed(@, w)]
             /\ loc' = [loc EXCEPT ![w].bound = TRUE]
    <3>1. \A v \in Workers : v # w => HeldKept(v) /\ OwnerKept(v)
      BY <2>1, <2>2, ClaimJobOwner, SameHeld
    <3>2. PICK k : k = [loc[w] EXCEPT !.bound = TRUE]
      OBVIOUS
    <3>3. loc' = [loc EXCEPT ![w] = k]
      BY <2>2, <3>2
    <3> QED
      BY <1>1, <2>1, <3>1, <3>3, OneMoves
  <2>3. CASE UNCHANGED <<jobs, loc>>
    <3>1. loc' = [loc EXCEPT ![w] = m] /\ UNCHANGED <<steps, jobs>>
      BY <1>3, <2>1, <2>3
    <3> QED
      BY <1>1, <2>1, <3>1, QuietCompletions
  <2> QED
    BY <1>7, <2>2, <2>3 DEF BindJob
<1> QED
  BY <1>4, <1>5, <1>6, <1>7

(* The statements of a completion. *)
LEMMA CompleteCompletions ==
  ASSUME IndInv, NEW w \in Workers, Complete(w)
  PROVE  CompletionMoves
<1>1. w \in Procs /\ TypeOK
  BY DEF Procs, IndInv
<1>2. PICK m : m = loc[w]
  OBVIOUS
<1>3. loc = [loc EXCEPT ![w] = m]
  BY <1>1, <1>2 DEF TypeOK
<1>4. ASSUME NEW res \in StepResults, ApplyStepCompletion(w, res) PROVE CompletionMoves
  <2>1. PICK held \in BOOLEAN : loc' = [loc EXCEPT ![w].res = res, ![w].lock = held]
    BY <1>4 DEF ApplyStepCompletion
  <2>2. PICK k : k = [loc[w] EXCEPT !.res = res, !.lock = held]
    OBVIOUS
  <2>3. loc[w] \in LocType
    BY <1>1 DEF TypeOK
  <2>4. loc' = [loc EXCEPT ![w] = k] /\ k.res = res /\ k.b = loc[w].b /\ k.s = loc[w].s
    BY <2>1, <2>2, <2>3 DEF LocType
  <2>5. PICK next \in TxPCs : pc' = [pc EXCEPT ![w] = next]
    BY <1>4 DEF ApplyStepCompletion, AfterCounts, TxPCs, Goto
  <2>6. HoldsClaim(w) /\ UNCHANGED <<steps, jobs>>
    BY <1>4 DEF ApplyStepCompletion
  <2>7. pc'[w] = next /\ loc'[w] = k
    BY <1>1, <2>4, <2>5 DEF TypeOK
  <2>8. Opens(w)
    BY <2>4, <2>5, <2>6, <2>7 DEF Opens, HoldsClaim
  <2>9. \A v \in Workers : HeldKept(v) /\ OwnerKept(v)
    BY <2>6, SameHeld
  <2> QED
    BY <1>1, <2>4, <2>5, <2>8, <2>9, OneMoves
<1>5. CASE CompletionRefused(w) \/ UpdateBuildNoop(w)
  BY <1>1, <1>5, SameHeld, DoneCompletions DEF CompletionRefused, UpdateBuildNoop
<1>6. CASE HasRunnablePendingStep(w)
  <2>1. PICK next \in TxPCs : pc' = [pc EXCEPT ![w] = next]
    BY <1>6 DEF HasRunnablePendingStep, TxPCs, Goto
  <2>2. pc[w] \in TxPCs /\ UNCHANGED <<steps, jobs, loc>>
    BY <1>6 DEF HasRunnablePendingStep, At, TxPCs
  <2>3. loc[w].res \in StepResults /\ HoldsClaim(w)
    BY <2>2 DEF IndInv, OpenCompletions
  <2>4. pc'[w] = next
    BY <1>1, <2>1 DEF TypeOK
  <2>5. Opens(w)
    BY <2>1, <2>2, <2>3, <2>4 DEF Opens, HoldsClaim
  <2>6. loc' = [loc EXCEPT ![w] = m] /\ \A v \in Workers : HeldKept(v) /\ OwnerKept(v)
    BY <1>3, <2>2, SameHeld
  <2> QED
    BY <1>1, <2>1, <2>5, <2>6, OneMoves
<1>7. CASE CommitStep(w) \/ UpdateBuild(w)
  <2>1. pc[w] \in TxPCs /\ Commit(w)
    BY <1>7, CommitRows
  <2>2. pc' = [pc EXCEPT ![w] = "endJob"] /\ UNCHANGED <<jobs, loc>>
    BY <2>1 DEF Commit, Goto
  <2>3. pc'[w] = "endJob"
    BY <1>1, <2>2 DEF TypeOK
  <2>4. Commits(w)
    BY <2>1, <2>2, <2>3, CommitStepsMove DEF Commits
  <2>5. ASSUME NEW v \in Workers, v # w PROVE HeldKept(v)
    <3> SUFFICES ASSUME pc[v] \in TxPCs
                 PROVE  /\ loc[v].s \in DOMAIN steps'[loc[v].b]
                        /\ steps'[loc[v].b][loc[v].s].status = "running"
                        /\ steps'[loc[v].b][loc[v].s].owner = v
      BY DEF HeldKept
    <3>1. PICK c \in Builds : c = loc[v].b
      BY DEF IndInv, Places, Procs, TxPCs
    <3>2. PICK n : n = loc[v].s
      OBVIOUS
    <3>3. n \in DOMAIN steps[c] /\ steps[c][n].status = "running" /\ steps[c][n].owner = v
      BY <3>1, <3>2 DEF IndInv, OpenCompletions, HoldsClaim
    <3>4. /\ StepsMove /\ steps[loc[w].b][loc[w].s].owner = w
          /\ \A d \in Builds : \A k \in DOMAIN steps[d] :
               (d # loc[w].b \/ k # loc[w].s) => steps'[d][k] = steps[d][k]
      BY <2>1, CommitStepsMove
    <3>5. c # loc[w].b \/ n # loc[w].s
      BY <2>5, <3>3, <3>4
    <3>6. n \in DOMAIN steps'[c] /\ steps'[c][n] = steps[c][n]
      BY <3>1, <3>3, <3>4, <3>5 DEF StepsMove
    <3> QED
      BY <3>1, <3>2, <3>3, <3>6
  <2>6. loc' = [loc EXCEPT ![w] = m] /\ \A v \in Workers : OwnerKept(v)
    BY <1>3, <2>2, SameHeld
  <2> QED
    BY <1>1, <2>2, <2>4, <2>5, <2>6, OneMoves
<1>8. CASE CompleteJob(w)
  <2>1. PICK b \in Builds : b = loc[w].b
    BY <1>8 DEF IndInv, Places, Procs, CompleteJob, At
  <2>2. PICK s : s = loc[w].s
    OBVIOUS
  <2>3. PICK res \in StepResults : res = loc[w].res
    BY <1>8 DEF IndInv, OpenCompletions, CompleteJob, At
  <2>4. UNCHANGED steps /\ Done(w)
    BY <1>8 DEF CompleteJob
  <2>5. CASE UNCHANGED jobs
    BY <1>1, <2>4, <2>5, SameHeld, DoneCompletions
  <2>6. CASE s \in DOMAIN jobs[b] /\ jobs' = [jobs EXCEPT ![b][s] = Ended(@, res)]
    <3>1. PICK rec : rec = Ended(jobs[b][s], res)
      OBVIOUS
    <3>2. rec \in RowType(JobStatuses) /\ rec.owner = None
      <4>1. jobs[b][s] \in RowType(JobStatuses) /\ res \in JobStatuses
        BY <2>6, RowOf DEF StepResults, JobStatuses
      <4> QED
        BY <3>1, <4>1, EndedRow
    <3>3. jobs' = [jobs EXCEPT ![b] = [jobs[b] EXCEPT ![s] = rec]]
      BY <2>6, <3>1
    <3>4. \A v \in Workers : rec.owner # v
      BY <3>2, AttemptsAssumption DEF Procs
    <3>5. \A v \in Workers : HeldKept(v) /\ OwnerKept(v)
      BY <2>4, <2>6, <3>2, <3>3, <3>4, JobOwner, SameHeld
    <3> QED
      BY <1>1, <2>4, <3>5, DoneCompletions
  <2> QED
    BY <1>8, <2>1, <2>2, <2>3, <2>5, <2>6 DEF CompleteJob
<1> QED
  BY <1>4, <1>5, <1>6, <1>7, <1>8 DEF Complete

LEMMA LapsedCompletions ==
  ASSUME IndInv, NEW b \in Builds, NEW s, LeaseExpires(b, s)
  PROVE  CompletionMoves
<1>1. ASSUME NEW w \in Workers PROVE HeldKept(w)
  <2>1. CASE Live(steps, b, s)
    <3>1. s \in DOMAIN steps[b]
      BY <2>1 DEF Live
    <3>2. PICK rec : rec = [steps[b][s] EXCEPT !.live = FALSE]
      OBVIOUS
    <3>3. /\ rec \in RowType(StepStatuses) /\ rec.status = steps[b][s].status
          /\ rec.owner = steps[b][s].owner
      BY <3>1, <3>2, RowOf, LapsedRow
    <3>4. steps' = [steps EXCEPT ![b] = [steps[b] EXCEPT ![s] = rec]]
      BY <2>1, <3>2 DEF LeaseExpires, Lapsed
    <3>5. Completing(w, b) /\ loc[w].s = s => rec.status = "running" /\ rec.owner = w
      BY <3>3 DEF Completing, IndInv, OpenCompletions, HoldsClaim
    <3> QED
      BY <3>1, <3>3, <3>4, <3>5, StepHeld
  <2>2. CASE ~Live(steps, b, s)
    BY <2>2, SameHeld DEF LeaseExpires, Lapsed
  <2> QED
    BY <2>1, <2>2
<1>2. ASSUME NEW w \in Workers PROVE OwnerKept(w)
  <2>1. CASE Live(jobs, b, s)
    <3>1. s \in DOMAIN jobs[b]
      BY <2>1 DEF Live
    <3>2. PICK rec : rec = [jobs[b][s] EXCEPT !.live = FALSE]
      OBVIOUS
    <3>3. rec \in RowType(JobStatuses) /\ rec.owner = jobs[b][s].owner
      BY <3>1, <3>2, RowOf, LapsedRow
    <3>4. jobs' = [jobs EXCEPT ![b] = [jobs[b] EXCEPT ![s] = rec]]
      BY <2>1, <3>2 DEF LeaseExpires, Lapsed
    <3> QED
      BY <3>1, <3>3, <3>4, JobOwner
  <2>2. CASE ~Live(jobs, b, s)
    BY <2>2, SameHeld DEF LeaseExpires, Lapsed
  <2> QED
    BY <2>1, <2>2
<1>3. UNCHANGED <<pc, loc>>
  BY DEF LeaseExpires
<1> QED
  BY <1>1, <1>2, <1>3 DEF CompletionMoves, Stays

LEMMA RestCompletions ==
  ASSUME IndInv, UNCHANGED <<steps, jobs, pc, loc>>
  PROVE  CompletionMoves
  BY SameHeld DEF CompletionMoves, Stays

LEMMA RequestCompletions ==
  ASSUME IndInv, NEW r \in Requests, Request(r)
  PROVE  CompletionMoves
<1>1. r \in Procs
  BY DEF Procs
<1>2. ASSUME NEW b \in Builds, CreateBuild(r, b) PROVE CompletionMoves
  BY <1>2, RestCompletions DEF CreateBuild
<1>3. ASSUME NEW b \in Builds, CreateBuildFromPipeline(r, b) PROVE CompletionMoves
  BY <1>3, CreateCompletions DEF CreateBuildFromPipeline
<1>4. ASSUME NEW b \in Builds, QueueCheck(r, b) PROVE CompletionMoves
  BY <1>1, <1>4, PollCompletions
<1>5. ASSUME NEW b \in Builds, NEW src \in Builds, RerunBuild(r, src, b) PROVE CompletionMoves
  BY <1>5, CreateCompletions DEF RerunBuild
<1>6. ASSUME NEW b \in Builds, NEW src \in Builds, NEW s \in Nodes, RetryJob(r, src, s, b)
      PROVE  CompletionMoves
  BY <1>6, CreateCompletions DEF RetryJob
<1>7. ASSUME NEW b \in Builds, NEW src \in Builds, NEW s \in Nodes, RerunBuildFromStep(r, src, s, b)
      PROVE  CompletionMoves
  BY <1>7, CreateCompletions DEF RerunBuildFromStep
<1> QED
  BY <1>2, <1>3, <1>4, <1>5, <1>6, <1>7 DEF Request

LEMMA NextCompletions == IndInv /\ [Next]_vars => CompletionMoves
<1> SUFFICES ASSUME IndInv, [Next]_vars PROVE CompletionMoves
  OBVIOUS
<1>1. Workers \subseteq Procs /\ Helpers \subseteq Workers
  BY AttemptsAssumption DEF Procs
<1>2. ASSUME NEW p \in Procs, Dies(p) PROVE CompletionMoves
  BY <1>2, SameHeld, DoneCompletions DEF Dies
<1>3. ASSUME NEW b \in Builds, NEW s \in Nodes, LeaseExpires(b, s) PROVE CompletionMoves
  BY <1>3, LapsedCompletions
<1>4. CASE UNCHANGED vars
  BY <1>4, RestCompletions DEF vars
<1>5. ASSUME NEW w \in Helpers, StartWorker(w) PROVE CompletionMoves
  BY <1>1, <1>5, StartCompletions
<1>6. ASSUME NEW w \in Workers, NEW b \in Builds,
             Poll(w, b) \/ \E s \in Nodes : ClaimJob(w, b, s)
      PROVE  CompletionMoves
  BY <1>1, <1>6, PollCompletions DEF Poll
<1>7. ASSUME NEW p \in Procs, Proceed(p) PROVE CompletionMoves
  BY <1>7, QueueCompletions, WriteCompletions, StartCompletions, CompleteCompletions DEF Proceed
<1> QED
  BY <1>2, <1>3, <1>4, <1>5, <1>6, <1>7, RequestCompletions DEF Next

(* An ended step keeps its status as long as it has a job. *)
LEMMA OpenCompletionsKept ==
  ASSUME IndInv, Effect, CompletionMoves
  PROVE  OpenCompletions'
<1> SUFFICES ASSUME NEW w \in Workers
             PROVE  /\ pc'[w] \in TxPCs =>
                         /\ loc'[w].res \in StepResults
                         /\ loc'[w].s \in DOMAIN steps'[loc'[w].b]
                         /\ steps'[loc'[w].b][loc'[w].s].status = "running"
                         /\ steps'[loc'[w].b][loc'[w].s].owner = w
                    /\ pc'[w] = "endJob" =>
                         /\ loc'[w].res \in StepResults
                         /\ (/\ loc'[w].s \in DOMAIN jobs'[loc'[w].b]
                             /\ jobs'[loc'[w].b][loc'[w].s].owner = w)
                               => steps'[loc'[w].b][loc'[w].s].status = loc'[w].res
  BY DEF OpenCompletions, HoldsClaim
<1>1. "endJob" \notin TxPCs
  BY DEF TxPCs
<1>2. CASE Stays(w)
  <2>1. CASE pc[w] \in TxPCs
    BY <1>1, <1>2, <2>1 DEF Stays, HeldKept, IndInv, OpenCompletions
  <2>2. CASE pc[w] = "endJob"
    <3>1. PICK b \in Builds : b = loc[w].b
      BY <2>2 DEF IndInv, Places, Procs
    <3>2. PICK s : s = loc[w].s
      OBVIOUS
    <3>3. pc'[w] = "endJob" /\ loc'[w] = loc[w] /\ loc[w].res \in StepResults
      BY <1>2, <2>2 DEF Stays, IndInv, OpenCompletions
    <3>4. ASSUME s \in DOMAIN jobs'[b], jobs'[b][s].owner = w PROVE steps'[b][s].status = loc[w].res
      <4>1. s \in DOMAIN jobs[b] /\ jobs[b][s].owner = w
        BY <1>2, <2>2, <3>1, <3>2, <3>4 DEF Stays, OwnerKept
      <4>2. steps[b][s].status = loc[w].res /\ s \in DOMAIN steps[b]
        BY <2>2, <3>1, <3>2, <4>1 DEF IndInv, OpenCompletions, JobsHaveSteps
      <4>3. Advances(b)
        BY <3>4 DEF Effect, Rewritten
      <4>4. StepMoves(b, s)
        BY <4>2, <4>3 DEF Advances
      <4> QED
        BY <3>3, <4>2, <4>4 DEF StepMoves, StepResults
    <3> QED
      BY <1>1, <3>1, <3>2, <3>3, <3>4
  <2>3. CASE pc[w] \notin TxPCs /\ pc[w] # "endJob"
    BY <1>2, <2>3 DEF Stays
  <2> QED
    BY <2>1, <2>2, <2>3
<1>3. CASE Opens(w)
  BY <1>1, <1>3 DEF Opens
<1>4. CASE Commits(w)
  BY <1>1, <1>4 DEF Commits
<1>5. CASE Elsewhere(w)
  BY <1>5 DEF Elsewhere
<1> QED
  BY <1>2, <1>3, <1>4, <1>5 DEF CompletionMoves

(* The parts of the invariant, from what a step may do. *)
LEMMA NextIndInv == IndInv /\ [Next]_vars => IndInv'
<1> SUFFICES ASSUME IndInv, Effect, CompletionMoves PROVE IndInv'
  BY NextEffect, NextCompletions
<1>1. TypeOK' /\ Places' /\ TypeOK
  BY DEF Effect, IndInv
<1>2. \A b \in Builds : gen[b] \in Nat /\ gen'[b] \in Nat
  BY <1>1 DEF TypeOK
<1>3. NothingBefore'
  <2> SUFFICES ASSUME NEW b \in Builds, status'[b] = "none"
               PROVE  gen'[b] = 0 /\ DOMAIN steps'[b] = {} /\ DOMAIN jobs'[b] = {}
    BY DEF NothingBefore
  <2>1. Advances(b) /\ status[b] = "none"
    BY DEF Effect, Rewritten, Advances
  <2>2. gen[b] = 0 /\ DOMAIN steps[b] = {} /\ DOMAIN jobs[b] = {} /\ gen'[b] = gen[b]
    BY <2>1 DEF IndInv, NothingBefore, Advances
  <2>3. ~JobsWritten(b)
    BY <2>2 DEF JobsWritten, IndInv, JobsToWrite
  <2> QED
    BY <2>1, <2>2, <2>3 DEF Advances
<1>4. JobsToWrite'
  <2> SUFFICES ASSUME NEW p \in Procs, pc'[p] = "jobs"
               PROVE  /\ loc'[p].g \in 1 .. gen'[loc'[p].b]
                      /\ \A n \in DOMAIN loc'[p].jobs :
                           loc'[p].jobs[n].status = "queued" /\ loc'[p].jobs[n].owner = None
                      /\ loc'[p].g = gen'[loc'[p].b]
                            => DOMAIN loc'[p].jobs \subseteq DOMAIN steps'[loc'[p].b]
    BY DEF JobsToWrite, At
  <2>1. PICK b \in Builds : b = loc'[p].b
    BY <1>1 DEF Places
  <2>2. CASE pc[p] = "jobs" /\ loc'[p] = loc[p]
    <3>1. /\ loc[p].b = b /\ loc[p].g \in 1 .. gen[b]
          /\ \A n \in DOMAIN loc[p].jobs :
               loc[p].jobs[n].status = "queued" /\ loc[p].jobs[n].owner = None
          /\ loc[p].g = gen[b] => DOMAIN loc[p].jobs \subseteq DOMAIN steps[b]
      BY <2>1, <2>2 DEF IndInv, JobsToWrite, At
    <3>2. CASE Rewritten(b)
      <4>1. gen'[b] = gen[b] + 1
        BY <3>2 DEF Rewritten
      <4> QED
        BY <1>2, <2>1, <2>2, <3>1, <4>1
    <3>3. CASE Advances(b)
      <4>1. gen'[b] = gen[b] /\ DOMAIN steps'[b] = DOMAIN steps[b]
        BY <3>3 DEF Advances
      <4> QED
        BY <1>2, <2>1, <2>2, <3>1, <4>1
    <3> QED
      BY <3>2, <3>3 DEF Effect
  <2>3. CASE /\ Rewritten(b) /\ loc'[p].g = gen'[b]
             /\ NewJobs(steps'[b], loc'[p].jobs)
    <3>1. gen'[b] = gen[b] + 1
      BY <2>3 DEF Rewritten
    <3> QED
      BY <1>2, <2>1, <2>3, <3>1 DEF NewJobs
  <2> QED
    BY <2>1, <2>2, <2>3 DEF Effect, WriterMoves
<1>5. JobsHaveSteps'
  <2> SUFFICES ASSUME NEW b \in Builds PROVE DOMAIN jobs'[b] \subseteq DOMAIN steps'[b]
    BY DEF JobsHaveSteps
  <2>1. CASE Rewritten(b)
    BY <2>1 DEF Rewritten
  <2>2. CASE Advances(b)
    BY <2>2 DEF Advances, JobsWritten, IndInv, JobsToWrite, JobsHaveSteps
  <2> QED
    BY <2>1, <2>2 DEF Effect
<1>6. OrderKept'
  <2> SUFFICES ASSUME NEW b \in Builds, NEW s \in DOMAIN steps'[b], steps'[b][s].status # "pending"
               PROVE  \A d \in steps'[b][s].deps :
                        d \in DOMAIN steps'[b] /\ steps'[b][d].status = "success"
    BY DEF OrderKept, Met
  <2>1. Advances(b)
    BY DEF Effect, Rewritten
  <2>2. /\ DOMAIN steps'[b] = DOMAIN steps[b] /\ StepMoves(b, s)
        /\ \A n \in DOMAIN steps[b] : StepMoves(b, n)
    BY <2>1 DEF Advances
  <2>3. Met(b, steps[b][s].deps) /\ steps'[b][s].deps = steps[b][s].deps
    BY <2>2 DEF StepMoves, IndInv, OrderKept
  <2> QED
    BY <2>2, <2>3 DEF StepMoves, Met
<1>7. JobOutcomeAgrees'
  <2> SUFFICES ASSUME NEW b \in Builds, NEW s \in DOMAIN jobs'[b],
                      jobs'[b][s].status \in TerminalStatuses
               PROVE  steps'[b][s].status = jobs'[b][s].status
    BY DEF JobOutcomeAgrees, IsTerminalExecutionJobStatus
  <2>1. Advances(b)
    BY DEF Effect, Rewritten
  <2>2. ~JobsWritten(b)
    BY DEF JobsWritten, IndInv, JobsToWrite, TerminalStatuses
  <2>3. s \in DOMAIN jobs[b] /\ s \in DOMAIN steps[b] /\ JobMoves(b, s) /\ StepMoves(b, s)
    BY <2>1, <2>2 DEF Advances, IndInv, JobsHaveSteps
  <2>4. CASE jobs'[b][s].status = jobs[b][s].status
    <3>1. steps[b][s].status = jobs[b][s].status
      BY <2>3, <2>4 DEF IndInv, JobOutcomeAgrees, IsTerminalExecutionJobStatus
    <3> QED
      BY <2>3, <2>4, <3>1 DEF StepMoves, TerminalStatuses
  <2> QED
    BY <2>3, <2>4 DEF JobMoves
<1>8. OpenCompletions'
  BY OpenCompletionsKept
<1> QED
  BY <1>1, <1>3, <1>4, <1>5, <1>6, <1>7, <1>8 DEF IndInv

(* IndInv holds in every reachable state. *)
THEOREM Inductive == Spec => []IndInv
  BY InitIndInv, NextIndInv, PTL DEF Spec

(* The claim of a step looks at the dependencies that its row kept, and a  *)
(* step that has succeeded stays so until the steps are replaced: in every *)
(* attempt a step runs only after what it waits for.                       *)
THEOREM AttemptsKeepOrder == Spec => []OrderKept
<1>1. IndInv => OrderKept
  BY DEF IndInv
<1> QED
  BY <1>1, Inductive, PTL

(* A worker ends its job after its step, and a job goes with the steps     *)
(* that QueueBuild replaces: what a job says of its end is its step's.     *)
THEOREM AttemptJobsAgree == Spec => []JobOutcomeAgrees
<1>1. IndInv => JobOutcomeAgrees
  BY DEF IndInv
<1> QED
  BY <1>1, Inductive, PTL

-----------------------------------------------------------------------------
(* TriggerDelivery: types *)

(* What TriggerTypeOK says of each variable. *)
LEMMA TriggerTyped ==
  TriggerTypeOK =>
    /\ hook \in HookRow \cup {None}
    /\ copy \in [Handlers -> HookRow \cup {None}]
    /\ hookBuilds \in [Range(Jobs) -> Nat]
    /\ row \in [Range(Consumers) -> TriggerRow \cup {None}]
    /\ downstream \in [Range(Consumers) -> Nat]
    /\ halfway \in [Range(Consumers) -> Nat]
    /\ pc \in [TriggerProcs -> TriggerPCs]
    /\ todo \in [TriggerProcs -> SUBSET (Range(Jobs) \cup Range(Consumers))]
    /\ faults \in 0 .. MaxFaults
  BY DEF TriggerTypeOK

LEMMA TriggerFaultTyped == faults \in 0 .. MaxFaults /\ Fault => faults' \in 0 .. MaxFaults
  BY TriggerAssumption DEF Fault

(* One job at most is next. *)
LEMMA TurnUnique ==
  ASSUME NEW list, NEW left, NEW i, NEW j, NEW n \in Nat, DOMAIN list = 1 .. n,
         Turn(list, left, i), Turn(list, left, j)
  PROVE  i = j
<1>1. PICK k \in DOMAIN list : list[k] = i /\ \A h \in 1 .. k - 1 : list[h] \notin left
  BY DEF Turn
<1>2. PICK m \in DOMAIN list : list[m] = j /\ \A h \in 1 .. m - 1 : list[h] \notin left
  BY DEF Turn
<1>3. i \in left /\ j \in left
  BY DEF Turn
<1>4. ~(k \in 1 .. m - 1) /\ ~(m \in 1 .. k - 1)
  BY <1>1, <1>2, <1>3
<1>5. k = m
  BY <1>4
<1> QED
  BY <1>1, <1>2, <1>5

(* The rows that are written. *)
LEMMA HookRows ==
  /\ [status |-> "received", meta |-> FALSE, build |-> None] \in HookRow
  /\ \A r \in HookRow : /\ \A st \in HookStatuses : [r EXCEPT !.status = st] \in HookRow
                        /\ [r EXCEPT !.status = "unsupported", !.meta = TRUE] \in HookRow
                        /\ [r EXCEPT !.status = "verified", !.meta = TRUE] \in HookRow
                        /\ [r EXCEPT !.build = None] \in HookRow
                        /\ \A j \in Range(Jobs) :
                            [r EXCEPT !.build = IF @ = None THEN j ELSE @] \in HookRow
  BY DEF HookRow, HookStatuses

-----------------------------------------------------------------------------
(* TriggerDelivery: what a step leaves alone *)

(* The invariant of the webhook and that of the artifact, each of its own  *)
(* variables and processes.                                                *)
HookInv ==
    /\ hook \in HookRow \cup {None}
    /\ copy \in [Handlers -> HookRow \cup {None}]
    /\ hookBuilds \in [Range(Jobs) -> Nat]
    /\ RowFirst /\ OneBuilder /\ DeliveryBuildsOnce

ArtifactInv ==
    /\ row \in [Range(Consumers) -> TriggerRow \cup {None}]
    /\ downstream \in [Range(Consumers) -> Nat]
    /\ halfway \in [Range(Consumers) -> Nat]
    /\ OneWorker /\ CollectorAhead /\ NotBuilt /\ DownstreamExplained

ProcInv ==
    /\ pc \in [TriggerProcs -> TriggerPCs]
    /\ todo \in [TriggerProcs -> SUBSET (Range(Jobs) \cup Range(Consumers))]
    /\ faults \in 0 .. MaxFaults

LEMMA TriggerParts ==
  /\ TriggerIndInv <=> HookInv /\ ArtifactInv /\ ProcInv
  /\ HookInv' /\ ArtifactInv' /\ ProcInv' => TriggerIndInv'
  BY DEF TriggerIndInv, TriggerTypeOK, HookInv, ArtifactInv, ProcInv

LEMMA HookKept ==
  ASSUME HookInv, UNCHANGED hookVars,
         \A h \in Handlers : pc'[h] = pc[h] /\ todo'[h] = todo[h]
  PROVE  HookInv'
  BY DEF HookInv, hookVars, RowFirst, OneBuilder, MayBuild, DeliveryBuildsOnce

LEMMA ArtifactKept ==
  ASSUME ArtifactInv, UNCHANGED artifactVars,
         \A p \in Triggers : pc'[p] = pc[p] /\ todo'[p] = todo[p]
  PROVE  ArtifactInv'
<1>1. UNCHANGED <<row, downstream, halfway>> /\ pc'[Collector] = pc[Collector]
      /\ todo'[Collector] = todo[Collector]
  BY DEF artifactVars, Triggers
<1>2. \A p \in Triggers, c \in Range(Consumers) : WorksOn(p, c)' <=> WorksOn(p, c)
  BY DEF WorksOn, Turn
<1>3. OneWorker' /\ NotBuilt'
  BY <1>1, <1>2 DEF ArtifactInv, OneWorker, NotBuilt
<1>4. CollectorAhead'
  BY <1>1 DEF ArtifactInv, CollectorAhead, Turn
<1> QED
  BY <1>1, <1>3, <1>4 DEF ArtifactInv, DownstreamExplained

(* One process moves. *)
Moves(p) ==
    /\ ProcInv'
    /\ \A q \in TriggerProcs : q # p => pc'[q] = pc[q] /\ todo'[q] = todo[q]

LEMMA MovesTyped ==
  ASSUME ProcInv, NEW p \in TriggerProcs, NEW next \in TriggerPCs, Goto(p, next),
         NEW ids \in SUBSET (Range(Jobs) \cup Range(Consumers)),
         Left(p, ids) \/ (UNCHANGED todo /\ ids = todo[p]), faults' \in 0 .. MaxFaults
  PROVE  Moves(p) /\ pc'[p] = next /\ todo'[p] = ids
  BY DEF ProcInv, Moves, Goto, Left

LEMMA HandlerMoves ==
  ASSUME ArtifactInv, NEW h \in Handlers, Moves(h), UNCHANGED artifactVars
  PROVE  ArtifactInv'
<1>1. \A p \in Triggers : p \in TriggerProcs /\ p # h
  BY TriggerAssumption DEF TriggerProcs
<1> QED
  BY <1>1, ArtifactKept DEF Moves

LEMMA TriggerMoves ==
  ASSUME HookInv, NEW p \in Triggers, Moves(p), UNCHANGED hookVars
  PROVE  HookInv'
<1>1. \A h \in Handlers : h \in TriggerProcs /\ h # p
  BY TriggerAssumption DEF TriggerProcs
<1> QED
  BY <1>1, HookKept DEF Moves

-----------------------------------------------------------------------------
(* TriggerDelivery: the webhook *)

(* A handler moves to where it may not build, and the row stays a row. *)
LEMMA HookWritten ==
  ASSUME HookInv, NEW h \in Handlers, Moves(h), UNCHANGED hookBuilds, NEW new \in HookRow,
         hook # None, hook' \in {hook, new}, copy' = [copy EXCEPT ![h] = new],
         pc'[h] \notin {"idle", "classify", "list", "build"}
  PROVE  HookInv'
<1>1. new # None /\ hook' # None /\ hook' \in HookRow \cup {None}
  BY TriggerAssumption DEF HookInv
<1>2. copy' \in [Handlers -> HookRow \cup {None}] /\ copy'[h] = new
      /\ \A g \in Handlers : g # h => copy'[g] = copy[g]
  BY DEF HookInv
<1>3. \A g \in Handlers : g # h => pc'[g] = pc[g] /\ todo'[g] = todo[g]
  BY DEF Moves, TriggerProcs
<1>4. RowFirst'
  BY <1>1, <1>2, <1>3 DEF HookInv, RowFirst
<1>5. OneBuilder'
  BY <1>1, <1>3 DEF HookInv, OneBuilder, MayBuild
<1> QED
  BY <1>1, <1>2, <1>4, <1>5 DEF HookInv, DeliveryBuildsOnce

(* A handler moves on, and nothing is written. *)
LEMMA HookRead ==
  ASSUME HookInv, NEW h \in Handlers, Moves(h), UNCHANGED hookVars, hook # None,
         \/ pc'[h] \in {"get", "end"}
         \/ pc'[h] \in {"ignore", "fail"} /\ copy[h] # None
         \/ pc'[h] = "build" /\ pc[h] = "list"
  PROVE  HookInv'
<1>1. \A g \in Handlers : g # h => pc'[g] = pc[g] /\ todo'[g] = todo[g]
  BY DEF Moves, TriggerProcs
<1>2. RowFirst'
  BY <1>1 DEF HookInv, RowFirst, hookVars
<1>3. OneBuilder'
  BY <1>1 DEF HookInv, OneBuilder, MayBuild, hookVars
<1> QED
  BY <1>2, <1>3 DEF HookInv, DeliveryBuildsOnce, hookVars

(* The row is created, or exists already. *)
LEMMA RegisterStep ==
  ASSUME TriggerIndInv, NEW h \in Handlers, RegisterReceived(h)
  PROVE  TriggerIndInv'
<1>1. HookInv /\ ArtifactInv /\ ProcInv /\ h \in TriggerProcs
  BY TriggerParts DEF TriggerProcs
<1>2. UNCHANGED <<hookBuilds, artifactVars, todo, faults>> /\ faults' \in 0 .. MaxFaults
  BY <1>1 DEF RegisterReceived, ProcInv
<1>3. todo[h] \in SUBSET (Range(Jobs) \cup Range(Consumers))
  BY <1>1 DEF ProcInv
<1>4. CASE IsNew /\ Goto(h, "classify")
           /\ Update(h, [status |-> "received", meta |-> FALSE, build |-> None])
  <2>1. Moves(h) /\ pc'[h] = "classify"
    BY <1>1, <1>2, <1>3, <1>4, MovesTyped DEF TriggerPCs
  <2>2. PICK new \in HookRow : new # None /\ Update(h, new)
    BY <1>4, HookRows, TriggerAssumption
  <2>3. hook = None /\ hook' = new /\ copy' = [copy EXCEPT ![h] = new]
    BY <1>4, <2>2 DEF IsNew, Update
  <2>4. \A g \in Handlers : pc[g] = "idle" /\ (g # h => pc'[g] = "idle")
    BY <1>1, <2>1, <2>3 DEF HookInv, RowFirst, Moves, TriggerProcs
  <2>5. \A j \in Range(Jobs) : hookBuilds'[j] = 0
    BY <1>1, <1>2, <2>3 DEF HookInv, OneBuilder
  <2>6. copy' \in [Handlers -> HookRow \cup {None}] /\ copy'[h] = new
    BY <1>1, <2>3 DEF HookInv
  <2>7. RowFirst'
    BY <2>1, <2>2, <2>3, <2>4, <2>6 DEF RowFirst
  <2>8. OneBuilder' /\ DeliveryBuildsOnce'
    BY <2>1, <2>4, <2>5 DEF OneBuilder, MayBuild, DeliveryBuildsOnce
  <2>9. HookInv'
    BY <1>1, <1>2, <2>3, <2>6, <2>7, <2>8 DEF HookInv
  <2> QED
    BY <1>1, <1>2, <2>1, <2>9, HandlerMoves, TriggerParts DEF Moves
<1>5. CASE ~IsNew /\ Goto(h, "get") /\ UNCHANGED <<hook, copy>>
  <2>1. Moves(h) /\ pc'[h] = "get"
    BY <1>1, <1>2, <1>3, <1>5, MovesTyped DEF TriggerPCs
  <2>2. HookInv'
    BY <1>1, <1>2, <1>5, <2>1, HookRead DEF IsNew, hookVars
  <2> QED
    BY <1>1, <1>2, <2>1, <2>2, HandlerMoves, TriggerParts DEF Moves
<1> QED
  BY <1>4, <1>5 DEF RegisterReceived

LEMMA GetStep ==
  ASSUME TriggerIndInv, NEW h \in Handlers, GetExisting(h)
  PROVE  TriggerIndInv'
<1>1. HookInv /\ ArtifactInv /\ ProcInv /\ h \in TriggerProcs
  BY TriggerParts DEF TriggerProcs
<1>2. UNCHANGED <<hook, hookBuilds, artifactVars, todo, faults>> /\ faults' \in 0 .. MaxFaults
  BY <1>1 DEF GetExisting, ProcInv
<1>3. Moves(h) /\ pc'[h] = "duplicate"
  BY <1>1, <1>2, MovesTyped DEF GetExisting, ProcInv, TriggerPCs
<1>4. hook # None /\ hook \in HookRow
  BY <1>1 DEF GetExisting, At, HookInv, RowFirst
<1>5. HookInv'
  BY <1>1, <1>2, <1>3, <1>4, HookWritten DEF GetExisting
<1> QED
  BY <1>1, <1>2, <1>3, <1>5, HandlerMoves, TriggerParts DEF Moves

(* updateDelivery *)
LEMMA WriteStep ==
  ASSUME TriggerIndInv, NEW h \in Handlers, NEW here, NEW new, NEW next \in TriggerPCs,
         here \notin {"idle", "get", "end"}, copy[h] \in HookRow => new \in HookRow,
         next \in {"queue", "end"} \/ (here = "classify" /\ next = "list"),
         Write(h, here, new, next)
  PROVE  TriggerIndInv'
<1>1. HookInv /\ ArtifactInv /\ ProcInv /\ h \in TriggerProcs
  BY TriggerParts DEF TriggerProcs
<1>2. UNCHANGED <<hookBuilds, artifactVars, todo, faults>> /\ faults' \in 0 .. MaxFaults
  BY <1>1 DEF Write, ProcInv
<1>3. Moves(h) /\ pc'[h] = next /\ pc[h] = here
  BY <1>1, <1>2, MovesTyped DEF Write, ProcInv, At
<1>4. hook # None /\ new \in HookRow /\ hook' = new /\ copy' = [copy EXCEPT ![h] = new]
  BY <1>1, <1>3 DEF Write, Update, HookInv, RowFirst
<1>5. CASE next \in {"queue", "end"}
  <2>1. HookInv'
    BY <1>1, <1>2, <1>3, <1>4, <1>5, HookWritten
  <2> QED
    BY <1>1, <1>2, <1>3, <2>1, HandlerMoves, TriggerParts DEF Moves
<1>6. CASE here = "classify" /\ next = "list"
  <2>1. new # None
    BY <1>4, TriggerAssumption
  <2>2. \A g \in Handlers : g # h => pc'[g] = pc[g] /\ todo'[g] = todo[g]
    BY <1>3 DEF Moves, TriggerProcs
  <2>3. copy' \in [Handlers -> HookRow \cup {None}] /\ copy'[h] = new
        /\ \A g \in Handlers : g # h => copy'[g] = copy[g]
    BY <1>1, <1>4 DEF HookInv
  <2>4. RowFirst'
    BY <1>1, <1>3, <1>4, <1>6, <2>1, <2>2, <2>3 DEF HookInv, RowFirst
  <2>5. OneBuilder'
    BY <1>1, <1>2, <1>3, <1>4, <1>6, <2>1, <2>2 DEF HookInv, OneBuilder, MayBuild
  <2>6. HookInv'
    BY <1>1, <1>2, <1>4, <2>3, <2>4, <2>5 DEF HookInv, DeliveryBuildsOnce
  <2> QED
    BY <1>1, <1>2, <1>3, <2>6, HandlerMoves, TriggerParts DEF Moves
<1> QED
  BY <1>5, <1>6

LEMMA ListStep ==
  ASSUME TriggerIndInv, NEW h \in Handlers, ListJobs(h)
  PROVE  TriggerIndInv'
<1>1. HookInv /\ ArtifactInv /\ ProcInv /\ h \in TriggerProcs
  BY TriggerParts DEF TriggerProcs
<1>2. UNCHANGED <<hookVars, artifactVars, faults>> /\ faults' \in 0 .. MaxFaults /\ pc[h] = "list"
  BY <1>1 DEF ListJobs, ProcInv, At
<1>3. hook # None /\ copy[h] # None
  BY <1>1, <1>2 DEF HookInv, RowFirst
<1>4. Moves(h) /\ pc'[h] \in {"ignore", "build", "fail"}
  <2>1. ASSUME NEW accepted \in SUBSET Range(Jobs), Left(h, accepted),
               Goto(h, IF accepted = {} THEN "ignore" ELSE "build")
        PROVE  Moves(h) /\ pc'[h] \in {"ignore", "build", "fail"}
    <3>1. PICK next \in {"ignore", "build"} : Goto(h, next)
      BY <2>1
    <3> QED
      BY <1>1, <1>2, <2>1, <3>1, MovesTyped DEF TriggerPCs
  <2>2. ASSUME Goto(h, "fail"), UNCHANGED todo
        PROVE  Moves(h) /\ pc'[h] \in {"ignore", "build", "fail"}
    BY <1>1, <1>2, <2>2, MovesTyped DEF TriggerPCs, ProcInv
  <2> QED
    BY <2>1, <2>2 DEF ListJobs
<1>5. HookInv'
  BY <1>1, <1>2, <1>3, <1>4, HookRead
<1> QED
  BY <1>1, <1>2, <1>4, <1>5, HandlerMoves, TriggerParts DEF Moves

(* One handler builds, and a job that it has left was not built. *)
LEMMA BuildJobStep ==
  ASSUME TriggerIndInv, NEW h \in Handlers, BuildJob(h)
  PROVE  TriggerIndInv'
<1>1. HookInv /\ ArtifactInv /\ ProcInv /\ h \in TriggerProcs
  BY TriggerParts DEF TriggerProcs
<1>2. PICK job \in Range(Jobs) :
        /\ pc[h] = "build" /\ Turn(Jobs, todo[h], job)
        /\ \/ /\ hookBuilds' = [hookBuilds EXCEPT ![job] = @ + 1]
              /\ copy' = [copy EXCEPT ![h].build = IF @ = None THEN job ELSE @]
              /\ Left(h, todo[h] \ {job})
              /\ Goto(h, IF todo[h] = {job} THEN "match" ELSE "build")
           \/ /\ hookBuilds' \in {[hookBuilds EXCEPT ![job] = @ + 1], hookBuilds}
              /\ copy' = [copy EXCEPT ![h].build = None]
              /\ Goto(h, "fail")
              /\ UNCHANGED todo
        /\ UNCHANGED <<hook, artifactVars, faults>>
  BY DEF BuildJob, At
<1>3. hook # None /\ copy[h] \in HookRow /\ faults' \in 0 .. MaxFaults
  BY <1>1, <1>2 DEF HookInv, RowFirst, ProcInv
<1>4. Moves(h) /\ \/ pc'[h] \in {"match", "fail"}
                  \/ pc'[h] = "build" /\ todo'[h] = todo[h] \ {job}
  <2>1. ASSUME Left(h, todo[h] \ {job}), Goto(h, IF todo[h] = {job} THEN "match" ELSE "build")
        PROVE  Moves(h) /\ pc'[h] \in {"match", "build"} /\ todo'[h] = todo[h] \ {job}
    <3>1. PICK next \in {"match", "build"} : Goto(h, next)
      BY <2>1
    <3>2. todo[h] \ {job} \in SUBSET (Range(Jobs) \cup Range(Consumers))
      BY <1>1 DEF ProcInv
    <3> QED
      BY <1>1, <1>3, <2>1, <3>1, <3>2, MovesTyped DEF TriggerPCs
  <2>2. ASSUME Goto(h, "fail"), UNCHANGED todo
        PROVE  Moves(h) /\ pc'[h] = "fail"
    BY <1>1, <1>3, <2>2, MovesTyped DEF TriggerPCs, ProcInv
  <2> QED
    BY <1>2, <2>1, <2>2
<1>5. PICK new \in HookRow : copy' = [copy EXCEPT ![h] = new] /\ new # None
  <2>1. CASE copy' = [copy EXCEPT ![h].build = IF @ = None THEN job ELSE @]
    BY <1>3, <2>1, HookRows, TriggerAssumption
  <2>2. CASE copy' = [copy EXCEPT ![h].build = None]
    BY <1>3, <2>2, HookRows, TriggerAssumption
  <2> QED
    BY <1>2, <2>1, <2>2
<1>6. /\ hookBuilds[job] = 0 /\ hookBuilds' \in [Range(Jobs) -> Nat]
      /\ hookBuilds'[job] <= 1
      /\ \A j \in Range(Jobs) : j # job => hookBuilds'[j] = hookBuilds[j]
  <2>1. hookBuilds[job] = 0
    BY <1>1, <1>2 DEF HookInv, OneBuilder, Turn
  <2> QED
    BY <1>1, <1>2, <2>1 DEF HookInv
<1>7. \A g \in Handlers : g # h => /\ pc'[g] = pc[g] /\ todo'[g] = todo[g]
                                   /\ pc[g] \notin {"classify", "list", "build"}
  BY <1>1, <1>2, <1>4 DEF Moves, TriggerProcs, HookInv, OneBuilder, MayBuild
<1>8. copy' \in [Handlers -> HookRow \cup {None}] /\ copy'[h] = new
      /\ \A g \in Handlers : g # h => copy'[g] = copy[g]
  BY <1>1, <1>5 DEF HookInv
<1>9. RowFirst'
  BY <1>1, <1>2, <1>3, <1>4, <1>5, <1>7, <1>8 DEF HookInv, RowFirst
<1>10. OneBuilder'
  <2>1. \A j \in todo'[h] \cap Range(Jobs) : pc'[h] = "build" => hookBuilds'[j] = 0
    BY <1>1, <1>2, <1>4, <1>6 DEF HookInv, OneBuilder
  <2> QED
    BY <1>2, <1>3, <1>4, <1>7, <2>1 DEF OneBuilder, MayBuild
<1>11. DeliveryBuildsOnce'
  BY <1>1, <1>6 DEF HookInv, DeliveryBuildsOnce
<1>12. HookInv'
  BY <1>1, <1>2, <1>6, <1>8, <1>9, <1>10, <1>11 DEF HookInv
<1> QED
  BY <1>1, <1>2, <1>4, <1>12, HandlerMoves, TriggerParts DEF Moves

LEMMA HandleStep ==
  ASSUME TriggerIndInv, NEW h \in Handlers, Handle(h)
  PROVE  TriggerIndInv'
<1> USE HookRows, WriteStep DEF HookStatuses, TriggerPCs
<1>1. CASE MarkDuplicate(h)
  BY <1>1 DEF MarkDuplicate
<1>2. CASE MarkUnsupported(h)
  BY <1>2 DEF MarkUnsupported
<1>3. CASE MarkInvalid(h)
  BY <1>3 DEF MarkInvalid
<1>4. CASE MarkVerified(h)
  BY <1>4 DEF MarkVerified
<1>5. CASE MarkIgnored(h)
  BY <1>5 DEF MarkIgnored
<1>6. CASE MarkFailed(h)
  BY <1>6 DEF MarkFailed
<1>7. CASE MarkMatched(h)
  BY <1>7 DEF MarkMatched
<1>8. CASE MarkQueued(h)
  BY <1>8 DEF MarkQueued
<1> QED
  BY <1>1, <1>2, <1>3, <1>4, <1>5, <1>6, <1>7, <1>8, RegisterStep, GetStep, ListStep, BuildJobStep
     DEF Handle

-----------------------------------------------------------------------------
(* TriggerDelivery: the artifact *)

(* A step of one process that writes nothing, and takes nothing up. *)
LEMMA ArtifactRead ==
  ASSUME ArtifactInv, NEW p \in Triggers, Moves(p), UNCHANGED artifactVars, CollectorAhead',
         \A c \in Range(Consumers) : WorksOn(p, c)' => WorksOn(p, c) /\ pc[p] # "queue"
  PROVE  ArtifactInv'
<1>1. UNCHANGED <<row, downstream, halfway>>
  BY DEF artifactVars
<1>2. \A q \in Triggers : q # p => /\ pc'[q] = pc[q]
                                   /\ \A c \in Range(Consumers) : WorksOn(q, c)' <=> WorksOn(q, c)
  BY DEF Moves, TriggerProcs, WorksOn, Turn
<1>3. OneWorker'
  BY <1>1, <1>2 DEF ArtifactInv, OneWorker
<1>4. NotBuilt'
  BY <1>1, <1>2 DEF ArtifactInv, NotBuilt
<1> QED
  BY <1>1, <1>3, <1>4 DEF ArtifactInv, DownstreamExplained

(* A step of one process on the delivery to c, on which no other works. *)
LEMMA ArtifactWritten ==
  ASSUME ArtifactInv, NEW p \in Triggers, NEW c \in Range(Consumers), Moves(p),
         row' \in [Range(Consumers) -> TriggerRow \cup {None}],
         downstream' \in [Range(Consumers) -> Nat], halfway' \in [Range(Consumers) -> Nat],
         \A d \in Range(Consumers) : d # c =>
            row'[d] = row[d] /\ downstream'[d] = downstream[d] /\ halfway'[d] = halfway[d],
         \A q \in Triggers : q # p => ~WorksOn(q, c),
         \A d \in Range(Consumers) : WorksOn(p, d)' => d = c,
         WorksOn(p, c)' => row'[c] # None /\ row'[c].status = "pending",
         \/ row'[c] = None
         \/ row'[c] # None /\ row'[c].status = "failed"
         \/ WorksOn(p, c)' /\ pc'[p] # "queue"
         => downstream'[c] <= halfway'[c],
         downstream'[c] <= 1 + halfway'[c],
         CollectorAhead'
  PROVE  ArtifactInv'
<1>1. \A q \in Triggers : q # p => /\ pc'[q] = pc[q]
                                   /\ \A d \in Range(Consumers) : WorksOn(q, d)' <=> WorksOn(q, d)
  BY DEF Moves, TriggerProcs, WorksOn, Turn
<1>2. OneWorker'
  BY <1>1 DEF ArtifactInv, OneWorker
<1>3. NotBuilt'
  BY <1>1 DEF ArtifactInv, NotBuilt
<1> QED
  BY <1>2, <1>3 DEF ArtifactInv, DownstreamExplained

(* What the collector has ahead when another process writes. *)
LEMMA AheadOfOthers ==
  ASSUME CollectorAhead, NEW p \in Triggers, p # Collector, Moves(p), NEW c \in Range(Consumers),
         row[c] # None, \A d \in Range(Consumers) : d # c => row'[d] = row[d]
  PROVE  CollectorAhead'
<1>1. pc'[Collector] = pc[Collector] /\ todo'[Collector] = todo[Collector]
  BY DEF Moves, TriggerProcs, Triggers
<1> QED
  BY <1>1 DEF CollectorAhead, Turn

LEMMA ConsumersTurn ==
  ASSUME NEW left, NEW c, NEW d, Turn(Consumers, left, c), Turn(Consumers, left, d)
  PROVE  c = d
<1>1. Len(Consumers) \in Nat /\ DOMAIN Consumers = 1 .. Len(Consumers)
  BY TriggerAssumption
<1> QED
  BY <1>1, TurnUnique

LEMMA SetRowTyped ==
  ASSUME ArtifactInv, NEW c \in Range(Consumers), NEW st \in {"pending", "queued", "failed"},
         NEW build \in BOOLEAN, SetRow(c, st, build)
  PROVE  /\ row' \in [Range(Consumers) -> TriggerRow \cup {None}]
         /\ row'[c] # None /\ row'[c].status = st
         /\ \A d \in Range(Consumers) : d # c => row'[d] = row[d]
<1>1. PICK new : new = [status |-> st, build |-> build]
  OBVIOUS
<1>2. new \in TriggerRow /\ new.status = st
  BY <1>1 DEF TriggerRow
<1>3. new # None
  BY <1>2, TriggerAssumption
<1>4. row' = [row EXCEPT ![c] = new]
  BY <1>1 DEF SetRow
<1> QED
  BY <1>2, <1>3, <1>4 DEF ArtifactInv

LEMMA DispatchStep ==
  ASSUME TriggerIndInv, Dispatch
  PROVE  TriggerIndInv'
<1>1. HookInv /\ ArtifactInv /\ ProcInv /\ Collector \in TriggerProcs /\ Collector \in Triggers
  BY TriggerParts DEF TriggerProcs, Triggers
<1>2. UNCHANGED <<hookVars, artifactVars, faults>> /\ faults' \in 0 .. MaxFaults
      /\ pc[Collector] = "idle"
  BY <1>1 DEF Dispatch, ProcInv, At
<1>3. PICK next \in {"end", "create"} : Goto(Collector, next)
  BY DEF Dispatch
<1>4. Moves(Collector) /\ pc'[Collector] = next
  BY <1>1, <1>2, <1>3, MovesTyped DEF Dispatch, TriggerPCs
<1>5. \A c \in Range(Consumers) : row'[c] = None
  BY <1>1, <1>2 DEF ArtifactInv, CollectorAhead, artifactVars
<1>6. CollectorAhead' /\ \A c \in Range(Consumers) : ~WorksOn(Collector, c)'
  BY <1>4, <1>5 DEF CollectorAhead, WorksOn
<1>7. ArtifactInv' /\ HookInv'
  BY <1>1, <1>2, <1>4, <1>6, ArtifactRead, TriggerMoves
<1> QED
  BY <1>4, <1>7, TriggerParts DEF Moves

LEMMA CreateDeliveryStep ==
  ASSUME TriggerIndInv, CreateDelivery
  PROVE  TriggerIndInv'
<1>1. HookInv /\ ArtifactInv /\ ProcInv /\ Collector \in TriggerProcs /\ Collector \in Triggers
  BY TriggerParts DEF TriggerProcs, Triggers
<1>2. PICK c \in Range(Consumers) : Turn(Consumers, todo[Collector], c) /\ SetRow(c, "pending", FALSE)
  BY DEF CreateDelivery
<1>3. UNCHANGED <<hookVars, downstream, halfway, todo, faults>> /\ faults' \in 0 .. MaxFaults
      /\ pc[Collector] = "create"
  BY <1>1 DEF CreateDelivery, ProcInv, At
<1>4. Moves(Collector) /\ pc'[Collector] = "build" /\ todo'[Collector] = todo[Collector]
  BY <1>1, <1>3, MovesTyped DEF CreateDelivery, TriggerPCs, ProcInv
<1>5. \A d \in todo[Collector] \cap Range(Consumers) : row[d] = None
  BY <1>1, <1>3 DEF ArtifactInv, CollectorAhead
<1>6. row[c] = None /\ downstream[c] <= halfway[c] /\ downstream[c] \in Nat /\ halfway[c] \in Nat
  BY <1>1, <1>2, <1>5 DEF ArtifactInv, NotBuilt, Turn
<1>7. /\ row' \in [Range(Consumers) -> TriggerRow \cup {None}]
      /\ row'[c] # None /\ row'[c].status = "pending"
      /\ \A d \in Range(Consumers) : d # c => row'[d] = row[d]
  BY <1>1, <1>2, SetRowTyped
<1>8. \A q \in Triggers : ~WorksOn(q, c)
  BY <1>1, <1>6 DEF ArtifactInv, OneWorker
<1>9. \A d \in Range(Consumers) : Turn(Consumers, todo[Collector], d) <=> d = c
  BY <1>2, ConsumersTurn
<1>10. \A d \in Range(Consumers) : WorksOn(Collector, d)' => d = c
  BY <1>4, <1>9 DEF WorksOn, Turn
<1>11. CollectorAhead'
  <2>1. \A d \in Range(Consumers) : d \in todo[Collector] /\ d # c => row'[d] = None
    BY <1>5, <1>7
  <2>2. \A d \in Range(Consumers) : d # c \/ Turn(Consumers, todo'[Collector], d)
    BY <1>4, <1>9
  <2> QED
    BY <1>4, <2>1, <2>2 DEF CollectorAhead, Turn
<1>12. ArtifactInv'
  BY <1>1, <1>3, <1>4, <1>6, <1>7, <1>8, <1>10, <1>11, ArtifactWritten DEF ArtifactInv
<1> QED
  BY <1>1, <1>3, <1>4, <1>12, TriggerMoves, TriggerParts DEF Moves

(* ClaimFailedForRetry takes only what nobody works on. *)
LEMMA ClaimFailedStep ==
  ASSUME TriggerIndInv, NEW r \in Retriers, NEW c \in Range(Consumers), ClaimFailedForRetry(r, c)
  PROVE  TriggerIndInv'
<1>1. HookInv /\ ArtifactInv /\ ProcInv /\ r \in TriggerProcs /\ r \in Triggers /\ r # Collector
  BY TriggerParts, TriggerAssumption DEF TriggerProcs, Triggers
<1>2. UNCHANGED <<hookVars, downstream, halfway, faults>> /\ faults' \in 0 .. MaxFaults
      /\ SetRow(c, "pending", FALSE)
  BY <1>1 DEF ClaimFailedForRetry, ProcInv
<1>3. Moves(r) /\ pc'[r] = "load" /\ todo'[r] = {c}
  <2>1. {c} \in SUBSET (Range(Jobs) \cup Range(Consumers))
    OBVIOUS
  <2> QED
    BY <1>1, <1>2, <2>1, MovesTyped DEF ClaimFailedForRetry, TriggerPCs
<1>4. row[c] # None /\ row[c].status = "failed"
  BY DEF ClaimFailedForRetry, FailedDelivery
<1>5. downstream[c] <= halfway[c] /\ downstream[c] \in Nat /\ halfway[c] \in Nat
  BY <1>1, <1>4 DEF ArtifactInv, NotBuilt
<1>6. /\ row' \in [Range(Consumers) -> TriggerRow \cup {None}]
      /\ row'[c] # None /\ row'[c].status = "pending"
      /\ \A d \in Range(Consumers) : d # c => row'[d] = row[d]
  BY <1>1, <1>2, SetRowTyped
<1>7. \A q \in Triggers : ~WorksOn(q, c)
  BY <1>1, <1>4 DEF ArtifactInv, OneWorker
<1>8. \A d \in Range(Consumers) : WorksOn(r, d)' => d = c
  BY <1>3 DEF WorksOn, Turn
<1>9. CollectorAhead'
  BY <1>1, <1>3, <1>4, <1>6, AheadOfOthers DEF ArtifactInv
<1>10. ArtifactInv'
  BY <1>1, <1>2, <1>3, <1>5, <1>6, <1>7, <1>8, <1>9, ArtifactWritten DEF ArtifactInv
<1> QED
  BY <1>1, <1>2, <1>3, <1>10, TriggerMoves, TriggerParts DEF Moves

LEMMA LoadStep ==
  ASSUME TriggerIndInv, NEW r \in Retriers, LoadForRetry(r)
  PROVE  TriggerIndInv'
<1>1. HookInv /\ ArtifactInv /\ ProcInv /\ r \in TriggerProcs /\ r \in Triggers /\ r # Collector
  BY TriggerParts, TriggerAssumption DEF TriggerProcs, Triggers
<1>2. UNCHANGED <<hookVars, artifactVars, todo, faults>> /\ faults' \in 0 .. MaxFaults
      /\ pc[r] = "load"
  BY <1>1 DEF LoadForRetry, ProcInv, At
<1>3. PICK next \in {"build", "fail"} : Goto(r, next)
  BY DEF LoadForRetry
<1>4. Moves(r) /\ pc'[r] = next
  BY <1>1, <1>2, <1>3, MovesTyped DEF TriggerPCs, ProcInv
<1>5. \A c \in Range(Consumers) : WorksOn(r, c)' => WorksOn(r, c)
  BY <1>2 DEF WorksOn, Turn
<1>6. CollectorAhead'
  <2>1. pc'[Collector] = pc[Collector]
    BY <1>1, <1>4 DEF Moves, TriggerProcs, Triggers
  <2> QED
    BY <1>1, <1>2, <2>1 DEF ArtifactInv, CollectorAhead, artifactVars, Turn
<1>7. ArtifactInv' /\ HookInv'
  BY <1>1, <1>2, <1>4, <1>5, <1>6, ArtifactRead, TriggerMoves
<1> QED
  BY <1>4, <1>7, TriggerParts DEF Moves

(* Who works on a delivery works on it alone, and on no other. *)
LEMMA WorksAlone ==
  ASSUME ArtifactInv, NEW p \in Triggers, NEW c \in Range(Consumers), WorksOn(p, c)
  PROVE  /\ row[c] # None /\ row[c].status = "pending"
         /\ \A q \in Triggers : q # p => ~WorksOn(q, c)
         /\ \A d \in Range(Consumers) : Turn(Consumers, todo[p], d) <=> d = c
         /\ downstream[c] \in Nat /\ halfway[c] \in Nat
         /\ downstream[c] <= 1 + halfway[c]
         /\ pc[p] # "queue" => downstream[c] <= halfway[c]
<1>1. Turn(Consumers, todo[p], c)
  BY DEF WorksOn
<1>2. \A d \in Range(Consumers) : Turn(Consumers, todo[p], d) <=> d = c
  BY <1>1, ConsumersTurn
<1> QED
  BY <1>2 DEF ArtifactInv, OneWorker, NotBuilt, DownstreamExplained

LEMMA BuildConsumerStep ==
  ASSUME TriggerIndInv, NEW p \in Triggers, NEW c \in Range(Consumers), BuildConsumer(p, c)
  PROVE  TriggerIndInv'
<1>1. HookInv /\ ArtifactInv /\ ProcInv /\ p \in TriggerProcs
  BY TriggerParts DEF TriggerProcs
<1>2. UNCHANGED <<hookVars, row, todo>> /\ pc[p] = "build" /\ WorksOn(p, c)
  BY DEF BuildConsumer, At, WorksOn
<1>3. /\ row[c] # None /\ row[c].status = "pending"
      /\ \A q \in Triggers : q # p => ~WorksOn(q, c)
      /\ \A d \in Range(Consumers) : Turn(Consumers, todo[p], d) <=> d = c
      /\ downstream[c] \in Nat /\ halfway[c] \in Nat
      /\ downstream[c] <= halfway[c]
  BY <1>1, <1>2, WorksAlone
<1>4. faults' \in 0 .. MaxFaults
  BY <1>1, TriggerFaultTyped DEF BuildConsumer, ProcInv
<1>5. PICK next \in {"queue", "fail"} : Goto(p, next)
  BY DEF BuildConsumer
<1>6. Moves(p) /\ pc'[p] = next
  BY <1>1, <1>2, <1>4, <1>5, MovesTyped DEF TriggerPCs, ProcInv
<1>7. /\ downstream' \in [Range(Consumers) -> Nat] /\ halfway' \in [Range(Consumers) -> Nat]
      /\ \A d \in Range(Consumers) : d # c => downstream'[d] = downstream[d] /\ halfway'[d] = halfway[d]
      /\ downstream'[c] <= 1 + halfway'[c]
      /\ pc'[p] = "fail" => downstream'[c] <= halfway'[c]
  <2>1. downstream \in [Range(Consumers) -> Nat] /\ halfway \in [Range(Consumers) -> Nat]
    BY <1>1 DEF ArtifactInv
  <2>2. pc \in [TriggerProcs -> TriggerPCs]
    BY <1>1 DEF ProcInv
  <2>3. CASE downstream' = [downstream EXCEPT ![c] = @ + 1] /\ Goto(p, "queue") /\ UNCHANGED halfway
    BY <1>1, <1>3, <2>1, <2>2, <2>3 DEF Goto
  <2>4. CASE UNCHANGED <<downstream, halfway>>
    BY <1>3, <2>1, <2>4
  <2>5. CASE downstream' = [downstream EXCEPT ![c] = @ + 1] /\ halfway' = [halfway EXCEPT ![c] = @ + 1]
    BY <1>3, <2>1, <2>5
  <2> QED
    BY <2>3, <2>4, <2>5 DEF BuildConsumer
<1>8. \A d \in Range(Consumers) : WorksOn(p, d)' => d = c
  BY <1>2, <1>3 DEF WorksOn, Turn
<1>9. CollectorAhead'
  <2>1. CASE p = Collector
    BY <1>1, <1>2, <1>6, <2>1 DEF ArtifactInv, CollectorAhead, Turn
  <2>2. CASE p # Collector
    BY <1>1, <1>2, <1>3, <1>6, <2>2, AheadOfOthers DEF ArtifactInv
  <2> QED
    BY <2>1, <2>2
<1>10. row' \in [Range(Consumers) -> TriggerRow \cup {None}]
  BY <1>1, <1>2 DEF ArtifactInv
<1>11. ArtifactInv'
  BY <1>1, <1>2, <1>3, <1>6, <1>7, <1>8, <1>9, <1>10, ArtifactWritten
<1> QED
  BY <1>1, <1>2, <1>6, <1>11, TriggerMoves, TriggerParts DEF Moves

LEMMA WriteQueuedStep ==
  ASSUME TriggerIndInv, NEW p \in Triggers, NEW c \in Range(Consumers), WriteQueued(p, c)
  PROVE  TriggerIndInv'
<1>1. HookInv /\ ArtifactInv /\ ProcInv /\ p \in TriggerProcs
  BY TriggerParts DEF TriggerProcs
<1>2. UNCHANGED <<hookVars, downstream, halfway, faults>> /\ pc[p] = "queue" /\ WorksOn(p, c)
      /\ faults' \in 0 .. MaxFaults
  BY <1>1 DEF WriteQueued, At, WorksOn, ProcInv
<1>3. /\ row[c] # None
      /\ \A q \in Triggers : q # p => ~WorksOn(q, c)
      /\ \A d \in Range(Consumers) : Turn(Consumers, todo[p], d) <=> d = c
      /\ downstream[c] <= 1 + halfway[c]
  BY <1>1, <1>2, WorksAlone
<1>4. PICK next \in {"idle", "end", "create"} : Goto(p, next) /\ (p = Collector => next # "idle")
  BY DEF WriteQueued
<1>5. Moves(p) /\ pc'[p] = next /\ todo'[p] = todo[p] \ {c}
  <2>1. todo[p] \ {c} \in SUBSET (Range(Jobs) \cup Range(Consumers))
    BY <1>1 DEF ProcInv
  <2> QED
    BY <1>1, <1>2, <1>4, <2>1, MovesTyped DEF WriteQueued, TriggerPCs
<1>6. /\ row' \in [Range(Consumers) -> TriggerRow \cup {None}]
      /\ row'[c] # None /\ row'[c].status = "queued"
      /\ \A d \in Range(Consumers) : d # c => row'[d] = row[d]
  BY <1>1, SetRowTyped DEF WriteQueued
<1>7. \A d \in Range(Consumers) : ~WorksOn(p, d)'
  BY <1>5 DEF WorksOn
<1>8. CollectorAhead'
  <2>1. CASE p = Collector
    <3>1. \A d \in todo'[p] \cap Range(Consumers) : row'[d] = None
      BY <1>1, <1>3, <1>5, <1>6, <2>1 DEF ArtifactInv, CollectorAhead
    <3> QED
      BY <1>4, <1>5, <2>1, <3>1 DEF CollectorAhead
  <2>2. CASE p # Collector
    BY <1>1, <1>3, <1>5, <1>6, <2>2, AheadOfOthers DEF ArtifactInv
  <2> QED
    BY <2>1, <2>2
<1>9. ArtifactInv'
  BY <1>1, <1>2, <1>3, <1>5, <1>6, <1>7, <1>8, ArtifactWritten DEF ArtifactInv
<1> QED
  BY <1>1, <1>2, <1>5, <1>9, TriggerMoves, TriggerParts DEF Moves

LEMMA WriteFailedStep ==
  ASSUME TriggerIndInv, NEW p \in Triggers, NEW c \in Range(Consumers), WriteFailed(p, c)
  PROVE  TriggerIndInv'
<1>1. HookInv /\ ArtifactInv /\ ProcInv /\ p \in TriggerProcs
  BY TriggerParts DEF TriggerProcs
<1>2. UNCHANGED <<hookVars, downstream, halfway, faults>> /\ pc[p] = "fail" /\ WorksOn(p, c)
      /\ faults' \in 0 .. MaxFaults
  BY <1>1 DEF WriteFailed, At, WorksOn, ProcInv
<1>3. /\ row[c] # None
      /\ \A q \in Triggers : q # p => ~WorksOn(q, c)
      /\ downstream[c] <= 1 + halfway[c] /\ downstream[c] <= halfway[c]
  BY <1>1, <1>2, WorksAlone
<1>4. PICK next \in {"idle", "end"} : Goto(p, next) /\ (p = Collector => next # "idle")
  BY DEF WriteFailed
<1>5. Moves(p) /\ pc'[p] = next /\ todo'[p] = {}
  <2>1. {} \in SUBSET (Range(Jobs) \cup Range(Consumers))
    OBVIOUS
  <2> QED
    BY <1>1, <1>2, <1>4, <2>1, MovesTyped DEF WriteFailed, TriggerPCs
<1>6. /\ row' \in [Range(Consumers) -> TriggerRow \cup {None}]
      /\ row'[c] # None /\ row'[c].status = "failed"
      /\ \A d \in Range(Consumers) : d # c => row'[d] = row[d]
  BY <1>1, SetRowTyped DEF WriteFailed
<1>7. \A d \in Range(Consumers) : ~WorksOn(p, d)'
  BY <1>5 DEF WorksOn
<1>8. CollectorAhead'
  <2>1. CASE p = Collector
    BY <1>4, <1>5, <2>1 DEF CollectorAhead
  <2>2. CASE p # Collector
    BY <1>1, <1>3, <1>5, <1>6, <2>2, AheadOfOthers DEF ArtifactInv
  <2> QED
    BY <2>1, <2>2
<1>9. ArtifactInv'
  BY <1>1, <1>2, <1>3, <1>5, <1>6, <1>7, <1>8, ArtifactWritten DEF ArtifactInv
<1> QED
  BY <1>1, <1>2, <1>5, <1>9, TriggerMoves, TriggerParts DEF Moves

LEMMA DiesStep ==
  ASSUME TriggerIndInv, NEW p \in TriggerProcs, TriggerDies(p)
  PROVE  TriggerIndInv'
<1>1. HookInv /\ ArtifactInv /\ ProcInv
  BY TriggerParts
<1>2. UNCHANGED <<hookVars, artifactVars>> /\ pc[p] # "idle" /\ faults' \in 0 .. MaxFaults
  BY <1>1, TriggerFaultTyped DEF TriggerDies, ProcInv
<1>3. Moves(p) /\ pc'[p] = "end" /\ todo'[p] = {}
  <2>1. {} \in SUBSET (Range(Jobs) \cup Range(Consumers))
    OBVIOUS
  <2> QED
    BY <1>1, <1>2, <2>1, MovesTyped DEF TriggerDies, TriggerPCs
<1>4. CASE p \in Handlers
  <2>1. hook # None
    BY <1>1, <1>2, <1>4 DEF HookInv, RowFirst
  <2>2. HookInv' /\ ArtifactInv'
    BY <1>1, <1>2, <1>3, <1>4, <2>1, HookRead, HandlerMoves
  <2> QED
    BY <1>3, <2>2, TriggerParts DEF Moves
<1>5. CASE p \in Triggers
  <2>1. \A c \in Range(Consumers) : ~WorksOn(p, c)'
    BY <1>3 DEF WorksOn
  <2>2. CollectorAhead'
    <3>1. CASE p = Collector
      BY <1>3, <3>1 DEF CollectorAhead
    <3>2. CASE p # Collector
      <4>1. pc'[Collector] = pc[Collector] /\ todo'[Collector] = todo[Collector]
        BY <1>3, <3>2 DEF Moves, TriggerProcs, Triggers
      <4> QED
        BY <1>1, <1>2, <4>1 DEF ArtifactInv, CollectorAhead, artifactVars, Turn
    <3> QED
      BY <3>1, <3>2
  <2>3. HookInv' /\ ArtifactInv'
    BY <1>1, <1>2, <1>3, <1>5, <2>1, <2>2, ArtifactRead, TriggerMoves
  <2> QED
    BY <1>3, <2>3, TriggerParts DEF Moves
<1> QED
  BY <1>4, <1>5 DEF TriggerProcs

-----------------------------------------------------------------------------
(* TriggerDelivery: the invariant *)

(* Nothing has been delivered. *)
LEMMA TriggerInitInv == TriggerInit => TriggerIndInv
<1> SUFFICES ASSUME TriggerInit PROVE TriggerIndInv
  OBVIOUS
<1> USE DEF TriggerInit
<1>1. TriggerTypeOK
  BY TriggerAssumption DEF TriggerTypeOK, TriggerPCs
<1>2. \A p \in TriggerProcs : pc[p] = "idle"
  OBVIOUS
<1>3. RowFirst /\ OneBuilder /\ DeliveryBuildsOnce
  BY <1>2 DEF RowFirst, OneBuilder, MayBuild, DeliveryBuildsOnce, TriggerProcs
<1>4. \A p \in Triggers, c \in Range(Consumers) : ~WorksOn(p, c)
  BY <1>2 DEF WorksOn, TriggerProcs
<1>5. OneWorker /\ CollectorAhead /\ NotBuilt /\ DownstreamExplained
  BY <1>4 DEF OneWorker, CollectorAhead, NotBuilt, DownstreamExplained
<1> QED
  BY <1>1, <1>3, <1>5 DEF TriggerIndInv

LEMMA TriggerNextInv == TriggerIndInv /\ [TriggerNext]_triggerVars => TriggerIndInv'
<1> SUFFICES ASSUME TriggerIndInv, [TriggerNext]_triggerVars PROVE TriggerIndInv'
  OBVIOUS
<1>1. CASE UNCHANGED triggerVars
  <2>1. HookInv /\ ArtifactInv /\ ProcInv
    BY TriggerParts
  <2>2. UNCHANGED <<hookVars, artifactVars, pc, todo, faults>>
    BY <1>1 DEF triggerVars
  <2>3. HookInv' /\ ArtifactInv'
    BY <2>1, <2>2, HookKept, ArtifactKept
  <2>4. ProcInv'
    BY <2>1, <2>2 DEF ProcInv
  <2> QED
    BY <2>3, <2>4, TriggerParts
<1>2. ASSUME NEW p \in Triggers, Process(p) PROVE TriggerIndInv'
  BY <1>2, BuildConsumerStep, WriteQueuedStep, WriteFailedStep DEF Process
<1> QED
  BY <1>1, <1>2, HandleStep, DispatchStep, CreateDeliveryStep, LoadStep, ClaimFailedStep, DiesStep
     DEF TriggerNext

(* TriggerIndInv holds in every reachable state. *)
THEOREM TriggerInductive == TriggerSpec => []TriggerIndInv
  BY TriggerInitInv, TriggerNextInv, PTL DEF TriggerSpec

(* RegisterReceived inserts under a unique index, and only the request     *)
(* whose insert succeeds goes on to build: no job is built twice for a     *)
(* delivery, whatever is sent again, overwritten or lost.                  *)
THEOREM DeliveriesBuildOnce == TriggerSpec => []DeliveryBuildsOnce
<1>1. TriggerIndInv => DeliveryBuildsOnce
  BY DEF TriggerIndInv
<1> QED
  BY <1>1, TriggerInductive, PTL

(* ClaimFailedForRetry makes a failed delivery pending in one statement,   *)
(* so that whoever builds for it does so alone: a second build of a        *)
(* consumer follows one that was committed and reported as failed.         *)
THEOREM DownstreamStaysExplained == TriggerSpec => []DownstreamExplained
<1>1. TriggerIndInv => DownstreamExplained
  BY DEF TriggerIndInv
<1> QED
  BY <1>1, TriggerInductive, PTL
=============================================================================
