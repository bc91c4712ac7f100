-------------------------- MODULE ImageBuildProofs --------------------------
(***************************************************************************)
(* What a remote image build keeps to for any number of controllers and    *)
(* claims, any lease and any faults.  Each conjunct of IndInv has a lemma  *)
(* with one step per action.                                               *)
(***************************************************************************)
EXTENDS ImageBuild, TLAPS

(* The job is queued, and the provider knows nothing of it. *)
LEMMA InitIndInv == Init => IndInv
<1> SUFFICES ASSUME Init PROVE IndInv
  OBVIOUS
<1> USE ImageBuildAssumption DEF Init, JobRow, NoRecord, Record
<1>1. TypeOK
  BY DEF TypeOK, JobStatuses, PCs, RecordType
<1>2. CopyShape /\ ClaimShape /\ SubmitShape
  BY DEF CopyShape, ClaimShape, SubmitShape
<1>3. OneBuildPerClaim /\ TagShape /\ VerdictShape /\ SuccessHasImage
  BY DEF OneBuildPerClaim, TagShape, VerdictShape, SuccessHasImage
<1> QED
  BY <1>1, <1>2, <1>3 DEF IndInv

(* The builds are numbered. *)
LEMMA BuildsCounted == TypeOK => Len(builds) \in Nat
  BY DEF TypeOK

(* Claim c has one more build, which is running. *)
Grown(c) ==
    /\ builds' \in Seq(BuildType) /\ Len(builds') = Len(builds) + 1
    /\ builds'[Len(builds) + 1].tok = active[c]
    /\ builds'[Len(builds) + 1].status = "running"
    /\ \A b \in 1 .. Len(builds) : builds'[b] = builds[b]

LEMMA SubmissionGrows ==
    ASSUME TypeOK, NEW c \in Controllers, active[c] # 0, ProviderCreates(c)
    PROVE  Grown(c)
<1> DEFINE new == [status |-> "running", tok |-> active[c], stop |-> FALSE]
<1>1. new \in BuildType
  BY ImageBuildAssumption DEF TypeOK, BuildType, ProviderStatuses
<1>2. builds \in Seq(BuildType) /\ builds' = Append(builds, new)
  BY DEF TypeOK, ProviderCreates
<1>3. new.tok = active[c] /\ new.status = "running"
  OBVIOUS
<1> HIDE DEF new
<1> QED
  BY <1>1, <1>2, <1>3 DEF Grown

(* The builds are the same, and their claims; those that ended stay so. *)
Kept ==
    /\ builds' \in Seq(BuildType) /\ Len(builds') = Len(builds)
    /\ \A b \in 1 .. Len(builds) :
        /\ builds'[b].tok = builds[b].tok
        /\ builds[b].status # "running" => builds'[b].status = builds[b].status

LEMMA BuildBecomes ==
    ASSUME TypeOK, NEW b \in 1 .. Len(builds), NEW q \in BuildType,
           builds' = [builds EXCEPT ![b] = q]
    PROVE  /\ builds' \in Seq(BuildType) /\ Len(builds') = Len(builds)
           /\ builds'[b] = q /\ \A a \in 1 .. Len(builds) : a # b => builds'[a] = builds[a]
  BY DEF TypeOK

LEMMA StopKeeps ==
    ASSUME TypeOK, CopyShape, NEW c \in Controllers, CancelExternal(c)
    PROVE  /\ Kept
           /\ \A b \in 1 .. Len(builds) : builds'[b].status = builds[b].status
<1> DEFINE e == mem[c].ext
           new == [builds[e] EXCEPT !.stop = TRUE]
<1>1. e \in 1 .. Len(builds)
  <2>1. e \in Nat /\ e # 0 /\ e <= Len(builds)
    BY DEF CopyShape, CancelExternal, TypeOK, RecordType
  <2> QED
    BY <2>1, BuildsCounted
<1>2. builds[e] \in BuildType
  BY <1>1 DEF TypeOK
<1>3. new \in BuildType /\ new.tok = builds[e].tok /\ new.status = builds[e].status
  BY <1>2 DEF BuildType
<1>4. builds' = [builds EXCEPT ![e] = new]
  BY DEF CancelExternal
<1> HIDE DEF e, new
<1>5. /\ builds' \in Seq(BuildType) /\ Len(builds') = Len(builds)
      /\ builds'[e] = new /\ \A a \in 1 .. Len(builds) : a # e => builds'[a] = builds[a]
  BY <1>1, <1>3, <1>4, BuildBecomes
<1> QED
  BY <1>3, <1>5 DEF Kept

(* Build b ends: a success moves the tag. *)
LEMMA EndKeeps ==
    ASSUME TypeOK, NEW b \in 1 .. Len(builds), BuildEnds(b)
    PROVE  /\ Kept
           /\ \A a \in 1 .. Len(builds) : a # b => builds'[a] = builds[a]
           /\ \/ tag' = b /\ (versioned => tag = 0)
              \/ tag' = tag /\ builds'[b].status # "success"
<1>1. builds \in Seq(BuildType) /\ builds[b] \in BuildType /\ builds[b].status = "running"
  BY DEF TypeOK, BuildEnds
<1>2. ASSUME NEW st \in ProviderStatuses, builds' = [builds EXCEPT ![b].status = st]
      PROVE  /\ Kept /\ builds'[b].status = st
             /\ \A a \in 1 .. Len(builds) : a # b => builds'[a] = builds[a]
  <2> DEFINE new == [builds[b] EXCEPT !.status = st]
  <2>1. new \in BuildType /\ new.tok = builds[b].tok /\ new.status = st
    BY <1>1 DEF BuildType
  <2>2. builds' = [builds EXCEPT ![b] = new]
    BY <1>2
  <2> HIDE DEF new
  <2>3. /\ builds' \in Seq(BuildType) /\ Len(builds') = Len(builds)
        /\ builds'[b] = new /\ \A a \in 1 .. Len(builds) : a # b => builds'[a] = builds[a]
    BY <2>1, <2>2, BuildBecomes
  <2> QED
    BY <1>1, <2>1, <2>3 DEF Kept
<1>3. \/ /\ builds' = [builds EXCEPT ![b].status = "success"]
         /\ tag' = b /\ (versioned => tag = 0)
      \/ /\ \E st \in {"unproven", "failed", "canceled"} : builds' = [builds EXCEPT ![b].status = st]
         /\ tag' = tag
  BY DEF BuildEnds
<1> QED
  BY <1>2, <1>3 DEF ProviderStatuses

(* What a controller has in memory has its type. *)
MemoryTypes ==
    /\ pc' \in [Controllers -> PCs]
    /\ active' \in [Controllers -> 0 .. MaxClaims]
    /\ mem' \in [Controllers -> RecordType]
    /\ verdict' \in [Controllers -> {"none", "success", "failed"}]

(* The updates of a copy. *)
LEMMA RecordTypes ==
    ASSUME NEW r \in RecordType, NEW b \in Nat, NEW st \in {"success", "failed", "canceled"}
    PROVE  /\ [r EXCEPT !.state = "terminal", !.result = st] \in RecordType
           /\ [r EXCEPT !.state = "staged"] \in RecordType
           /\ [r EXCEPT !.state = "submitted", !.ext = b] \in RecordType
  BY DEF RecordType

(* The ways a reconciliation ends, or is about to. *)
LEMMA EndTypes ==
    ASSUME TypeOK, NEW c \in Controllers
    PROVE  /\ Leave(c) => MemoryTypes
           /\ Again(c) => MemoryTypes
           /\ GiveUp(c) /\ UNCHANGED <<active, mem>> => MemoryTypes
           /\ FailPublication(c) /\ UNCHANGED active => MemoryTypes
<1> USE ImageBuildAssumption
<1>1. NoRecord \in RecordType
  BY DEF NoRecord, Record, RecordType
<1>2. mem[c] \in RecordType /\ 0 \in 0 .. MaxClaims
  BY DEF TypeOK
<1>3. Leave(c) => MemoryTypes
  BY <1>1, <1>2 DEF Leave, Goto, PCs, MemoryTypes, TypeOK
<1>4. Again(c) => MemoryTypes
  BY <1>1 DEF Again, Goto, PCs, MemoryTypes, TypeOK
<1>5. GiveUp(c) /\ UNCHANGED <<active, mem>> => MemoryTypes
  BY DEF GiveUp, Goto, PCs, MemoryTypes, TypeOK
<1>6. FailPublication(c) /\ UNCHANGED active => MemoryTypes
  <2> SUFFICES ASSUME FailPublication(c), UNCHANGED active PROVE MemoryTypes
    OBVIOUS
  <2>1. mem' = [mem EXCEPT ![c] = [mem[c] EXCEPT !.state = "terminal", !.result = "failed"]]
    BY DEF FailPublication, TypeOK
  <2>2. mem' \in [Controllers -> RecordType]
    BY <1>2, <2>1, RecordTypes DEF TypeOK
  <2> QED
    BY <2>2 DEF FailPublication, Goto, PCs, MemoryTypes, TypeOK
<1> QED
  BY <1>3, <1>4, <1>5, <1>6

(* A controller takes over a record, or moves its copy on. *)
LEMMA CopyTypes ==
    ASSUME TypeOK, NEW c \in Controllers, NEW next \in PCs, Goto(c, next),
           UNCHANGED <<active, verdict>>,
           \/ UNCHANGED mem
           \/ mem' = [mem EXCEPT ![c] = record]
           \/ mem' = [mem EXCEPT ![c].state = "staged"]
           \/ \E b \in Nat : mem' = [mem EXCEPT ![c].state = "submitted", ![c].ext = b]
    PROVE  MemoryTypes
<1>1. mem[c] \in RecordType /\ record \in RecordType
  BY DEF TypeOK
<1>2. mem' \in [Controllers -> RecordType]
  <2>1. CASE UNCHANGED mem \/ mem' = [mem EXCEPT ![c] = record]
    BY <1>1, <2>1 DEF TypeOK
  <2>2. CASE mem' = [mem EXCEPT ![c].state = "staged"]
    <3>1. mem' = [mem EXCEPT ![c] = [mem[c] EXCEPT !.state = "staged"]]
      BY <2>2
    <3>2. [mem[c] EXCEPT !.state = "staged"] \in RecordType
      BY <1>1 DEF RecordType
    <3> QED
      BY <3>1, <3>2 DEF TypeOK
  <2>3. ASSUME NEW b \in Nat, mem' = [mem EXCEPT ![c].state = "submitted", ![c].ext = b]
        PROVE  mem' \in [Controllers -> RecordType]
    <3>1. mem' = [mem EXCEPT ![c] = [mem[c] EXCEPT !.state = "submitted", !.ext = b]]
      BY <2>3 DEF TypeOK
    <3>2. [mem[c] EXCEPT !.state = "submitted", !.ext = b] \in RecordType
      BY <1>1, RecordTypes
    <3> QED
      BY <3>1, <3>2 DEF TypeOK
  <2> QED
    BY <2>1, <2>2, <2>3
<1> QED
  BY <1>2 DEF TypeOK, MemoryTypes, Goto

(* A step keeps the types. *)
LEMMA TypeStep == TypeOK /\ CopyShape /\ ClaimShape /\ VerdictShape /\ [Next]_vars => TypeOK'
<1> SUFFICES ASSUME TypeOK, CopyShape, ClaimShape, VerdictShape, [Next]_vars PROVE TypeOK'
  OBVIOUS
<1> USE ImageBuildAssumption DEF TypeOK
<1>1. ASSUME NEW c \in Controllers, Claim(c) PROVE TypeOK'
  <2>1. MemoryTypes
    <3>1. claims + 1 \in 0 .. MaxClaims /\ active[c] \in 0 .. MaxClaims
      BY <1>1 DEF Claim
    <3> QED
      BY <1>1, <3>1 DEF Claim, Goto, MemoryTypes, PCs
  <2>2. claims + 1 \in 0 .. MaxClaims /\ Lease \in 0 .. Lease
    BY <1>1 DEF Claim
  <2>3. job' \in [status : JobStatuses, tok : 0 .. MaxClaims, left : 0 .. Lease]
    BY <1>1, <2>2 DEF Claim, JobRow, JobStatuses
  <2> QED
    BY <1>1, <2>1, <2>2, <2>3 DEF Claim, MemoryTypes, external
<1>2. ASSUME NEW c \in Controllers, GetExecutionJob(c) PROVE TypeOK'
  <2>1. MemoryTypes
    BY <1>2, EndTypes, CopyTypes DEF GetExecutionJob, PCs
  <2> QED
    BY <1>2, <2>1 DEF GetExecutionJob, MemoryTypes, external
<1>3. ASSUME NEW c \in Controllers, LoadRecordToCancel(c) PROVE TypeOK'
  <2>1. MemoryTypes
    <3>1. CASE Leave(c)
      BY <3>1, EndTypes
    <3>2. CASE Goto(c, "cancelExternal") /\ mem' = [mem EXCEPT ![c] = record] /\ UNCHANGED <<active, verdict>>
      BY <3>2, CopyTypes DEF PCs
    <3> QED
      BY <1>3, <3>1, <3>2 DEF LoadRecordToCancel
  <2> QED
    BY <1>3, <2>1 DEF LoadRecordToCancel, MemoryTypes, external
<1>4. ASSUME NEW c \in Controllers, CancelExternal(c) PROVE TypeOK'
  <2>1. MemoryTypes
    BY <1>4, EndTypes DEF CancelExternal
  <2>2. builds' \in Seq(BuildType) /\ Len(builds') = Len(builds)
    BY <1>4, StopKeeps DEF Kept
  <2> QED
    BY <1>4, <2>1, <2>2 DEF CancelExternal, MemoryTypes
<1>5. ASSUME NEW c \in Controllers, CreateIntent(c) PROVE TypeOK'
  <2> DEFINE row == IF record = NoRecord THEN Record("intent", 0, "none") ELSE record
  <2>1. row \in RecordType /\ row.ext <= Len(builds)
    BY BuildsCounted DEF Record, RecordType
  <2>2. /\ record' = row /\ mem' = [mem EXCEPT ![c] = row]
        /\ pc' \in [Controllers -> PCs] /\ verdict' \in [Controllers -> {"none", "success", "failed"}]
    BY <1>5 DEF CreateIntent, GiveUp, Goto, PCs
  <2> HIDE DEF row
  <2>3. record' \in RecordType /\ record'.ext <= Len(builds) /\ mem' \in [Controllers -> RecordType]
    BY <2>1, <2>2
  <2> QED
    BY <1>5, <2>2, <2>3 DEF CreateIntent, external
<1>6. ASSUME NEW c \in Controllers, Stage(c) PROVE TypeOK'
  <2>1. MemoryTypes
    <3>1. CASE FailPublication(c) /\ UNCHANGED active
      BY <3>1, EndTypes
    <3>2. CASE GiveUp(c) /\ UNCHANGED <<active, mem>>
      BY <3>2, EndTypes
    <3>3. CASE Goto(c, "saveStaged") /\ mem' = [mem EXCEPT ![c].state = "staged"] /\ UNCHANGED <<active, verdict>>
      BY <3>3, CopyTypes DEF PCs
    <3> QED
      BY <1>6, <3>1, <3>2, <3>3 DEF Stage
  <2> QED
    BY <1>6, <2>1 DEF Stage, MemoryTypes, external
<1>7. ASSUME NEW c \in Controllers, Save(c) PROVE TypeOK'
  <2>1. record' \in RecordType /\ record'.ext <= Len(builds)
    BY <1>7 DEF Save, CopyShape
  <2>2. pc' \in [Controllers -> PCs]
    BY <1>7 DEF Save, Goto, PCs
  <2> QED
    BY <1>7, <2>1, <2>2 DEF Save, external, memory
<1>8. ASSUME NEW c \in Controllers, Find(c) PROVE TypeOK'
  <2>1. MemoryTypes
    <3>1. CASE Goto(c, "submit") /\ UNCHANGED <<active, verdict, mem>>
      BY <3>1, CopyTypes DEF PCs
    <3>2. ASSUME NEW b \in 1 .. Len(builds), Submitted(c, b), UNCHANGED <<active, verdict>>
          PROVE  MemoryTypes
      <4>1. b \in Nat
        BY BuildsCounted
      <4>2. Goto(c, "saveSubmitted") /\ mem' = [mem EXCEPT ![c].state = "submitted", ![c].ext = b]
        BY <3>2 DEF Submitted
      <4> QED
        BY <3>2, <4>1, <4>2, CopyTypes DEF PCs
    <3> QED
      BY <1>8, <3>1, <3>2 DEF Find
  <2> QED
    BY <1>8, <2>1 DEF Find, MemoryTypes, external
<1>9. ASSUME NEW c \in Controllers, Submit(c) PROVE TypeOK'
  <2>1. MemoryTypes
    <3>1. Len(builds) + 1 \in Nat
      BY BuildsCounted
    <3>2. /\ mem' = [mem EXCEPT ![c].state = "submitted", ![c].ext = Len(builds) + 1]
          /\ Goto(c, "saveSubmitted") /\ UNCHANGED <<active, verdict>>
      BY <1>9 DEF Submit, Submitted
    <3> QED
      BY <3>1, <3>2, CopyTypes DEF PCs
  <2>2. builds' \in Seq(BuildType) /\ Len(builds') = Len(builds) + 1
    BY <1>9, SubmissionGrows DEF Submit, ClaimShape, Grown
  <2>3. tag \in 0 .. Len(builds') /\ record.ext <= Len(builds')
    BY <2>2, BuildsCounted DEF RecordType
  <2> QED
    BY <1>9, <2>1, <2>2, <2>3 DEF Submit, MemoryTypes
<1>10. ASSUME NEW c \in Controllers, SubmitFails(c) PROVE TypeOK'
  <2>1. MemoryTypes
    <3>1. CASE GiveUp(c) /\ UNCHANGED <<active, mem>>
      BY <3>1, EndTypes
    <3>2. CASE Goto(c, "renewUnsubmitted") /\ UNCHANGED <<active, verdict, mem>>
      BY <3>2, CopyTypes DEF PCs
    <3> QED
      BY <1>10, <3>1, <3>2 DEF SubmitFails
  <2>2. builds' \in Seq(BuildType) /\ Len(builds) <= Len(builds')
    BY <1>10, SubmissionGrows, BuildsCounted DEF SubmitFails, ClaimShape, Grown
  <2>3. tag \in 0 .. Len(builds') /\ record.ext <= Len(builds')
    BY <2>2, BuildsCounted DEF RecordType
  <2> QED
    BY <1>10, <2>1, <2>2, <2>3 DEF SubmitFails, MemoryTypes
<1>11. ASSUME NEW c \in Controllers, Renew(c) PROVE TypeOK'
  <2>1. MemoryTypes
    BY <1>11, EndTypes DEF Renew
  <2>2. job' = job \/ job' = [job EXCEPT !.left = Lease]
    BY <1>11 DEF Renew
  <2>3. job' \in [status : JobStatuses, tok : 0 .. MaxClaims, left : 0 .. Lease]
    <3>1. Lease \in 0 .. Lease
      OBVIOUS
    <3>2. [job EXCEPT !.left = Lease] \in [status : JobStatuses, tok : 0 .. MaxClaims, left : 0 .. Lease]
      BY <3>1
    <3> QED
      BY <2>2, <3>2
  <2> QED
    BY <1>11, <2>1, <2>3 DEF Renew, MemoryTypes, external
<1>12. ASSUME NEW c \in Controllers, Get(c) PROVE TypeOK'
  <2>1. MemoryTypes
    <3>1. CASE Goto(c, "saveProgress") /\ UNCHANGED <<active, mem, verdict>>
      BY <3>1, CopyTypes DEF PCs
    <3>2. CASE FailPublication(c) /\ UNCHANGED active
      BY <3>2, EndTypes
    <3>3. CASE Goto(c, "resolve") /\ UNCHANGED <<active, mem, verdict>>
      BY <3>3, CopyTypes DEF PCs
    <3>4. ASSUME NEW st \in {"success", "failed", "canceled"}, UNCHANGED active, Goto(c, "saveTerminal"),
                 mem' = [mem EXCEPT ![c].state = "terminal", ![c].result = st],
                 verdict' = [verdict EXCEPT ![c] = IF st = "success" THEN st ELSE "failed"]
          PROVE  MemoryTypes
      <4>1. mem[c] \in RecordType
        OBVIOUS
      <4>2. mem' \in [Controllers -> RecordType]
        BY <3>4, <4>1 DEF RecordType
      <4> QED
        BY <3>4, <4>2 DEF Goto, PCs, MemoryTypes
    <3> QED
      BY <1>12, <3>1, <3>2, <3>3, <3>4 DEF Get
  <2> QED
    BY <1>12, <2>1 DEF Get, MemoryTypes, external
<1>13. ASSUME NEW c \in Controllers, ResolvePublishedDigest(c) PROVE TypeOK'
  <2>1. MemoryTypes
    <3>1. CASE FailPublication(c) /\ UNCHANGED active
      BY <3>1, EndTypes
    <3>2. CASE /\ mem' = [mem EXCEPT ![c].state = "terminal", ![c].result = "success"]
               /\ verdict' = [verdict EXCEPT ![c] = "success"]
               /\ Goto(c, "saveTerminal") /\ UNCHANGED active
      <4>1. mem[c] \in RecordType
        OBVIOUS
      <4>2. mem' \in [Controllers -> RecordType]
        BY <3>2, <4>1 DEF RecordType
      <4> QED
        BY <3>2, <4>2 DEF Goto, PCs, MemoryTypes
    <3> QED
      BY <1>13, <3>1, <3>2 DEF ResolvePublishedDigest
  <2> QED
    BY <1>13, <2>1 DEF ResolvePublishedDigest, MemoryTypes, external
<1>14. ASSUME NEW c \in Controllers, SaveTerminal(c) PROVE TypeOK'
  <2>1. record' \in RecordType /\ record'.ext <= Len(builds)
    BY <1>14 DEF SaveTerminal, CopyShape
  <2>2. pc' \in [Controllers -> PCs]
    BY <1>14 DEF SaveTerminal, Goto, PCs
  <2> QED
    BY <1>14, <2>1, <2>2 DEF SaveTerminal, external, memory
<1>15. ASSUME NEW c \in Controllers, Complete(c) PROVE TypeOK'
  <2>1. MemoryTypes
    BY <1>15, EndTypes DEF Complete
  <2>2. job' \in [status : JobStatuses, tok : 0 .. MaxClaims, left : 0 .. Lease]
    BY <1>15 DEF Complete, CompleteStepAndJob, JobRow, VerdictShape, JobStatuses
  <2> QED
    BY <1>15, <2>1, <2>2 DEF Complete, MemoryTypes, external
<1>16. ASSUME NEW c \in Controllers, CallFails(c) PROVE TypeOK'
  <2>1. MemoryTypes
    BY <1>16, EndTypes DEF CallFails
  <2> QED
    BY <1>16, <2>1 DEF CallFails, MemoryTypes, external
<1>17. ASSUME NEW c \in Controllers, Crash(c) PROVE TypeOK'
  <2>1. MemoryTypes
    BY <1>17, EndTypes DEF Crash
  <2> QED
    BY <1>17, <2>1 DEF Crash, MemoryTypes, external
<1>18. ASSUME NEW b \in 1 .. Len(builds), BuildEnds(b) PROVE TypeOK'
  <2>1. builds' \in Seq(BuildType) /\ Len(builds') = Len(builds) /\ tag' \in 0 .. Len(builds)
    <3>1. Kept /\ (tag' = b \/ tag' = tag)
      BY <1>18, EndKeeps
    <3> QED
      BY <3>1, BuildsCounted DEF Kept
  <2> QED
    BY <1>18, <2>1 DEF BuildEnds, memory
<1>19. CASE Tick
  <2>1. job.left - 1 \in 0 .. Lease /\ job' = [job EXCEPT !.left = job.left - 1]
    BY <1>19 DEF Tick
  <2>2. job' \in [status : JobStatuses, tok : 0 .. MaxClaims, left : 0 .. Lease]
    BY <2>1
  <2> QED
    BY <1>19, <2>2 DEF Tick, external, memory
<1>20. CASE CancelBuild
  <2>1. job' \in [status : JobStatuses, tok : 0 .. MaxClaims, left : 0 .. Lease]
    BY <1>20 DEF CancelBuild, JobRow, JobStatuses
  <2> QED
    BY <1>20, <2>1 DEF CancelBuild, external, memory
<1>21. CASE UNCHANGED vars
  BY <1>21 DEF vars
<1> QED
  BY <1>1, <1>2, <1>3, <1>4, <1>5, <1>6, <1>7, <1>8, <1>9, <1>10, <1>11, <1>12, <1>13,
     <1>14, <1>15, <1>16, <1>17, <1>18, <1>19, <1>20, <1>21 DEF Next, ControllerStep

(* Controllers other than c go on with what they had. *)
OthersSame(c) ==
    \A d \in Controllers : d # c =>
        pc'[d] = pc[d] /\ mem'[d] = mem[d] /\ active'[d] = active[d] /\ verdict'[d] = verdict[d]

(* The controller has forgotten what it worked on. *)
Forgot(c) ==
    /\ pc'[c] = "idle" /\ mem'[c].ext = 0 /\ verdict'[c] = "none" /\ active'[c] \in {0, active[c]}
    /\ OthersSame(c)

LEMMA EndForgets ==
    ASSUME TypeOK, NEW c \in Controllers, Leave(c) \/ Again(c)
    PROVE  Forgot(c)
  BY DEF TypeOK, Leave, Again, Goto, NoRecord, Record, Forgot, OthersSame

(* The controller is about to report a failure. *)
Gave(c) ==
    /\ pc'[c] \in {"complete", "saveTerminal"} /\ mem'[c].ext = mem[c].ext
    /\ verdict'[c] = "failed" /\ active'[c] = active[c]
    /\ OthersSame(c)

LEMMA FailureGives ==
    ASSUME TypeOK, NEW c \in Controllers, UNCHANGED active,
           FailPublication(c) \/ (GiveUp(c) /\ UNCHANGED mem)
    PROVE  Gave(c)
<1>1. mem[c] \in RecordType
  BY DEF TypeOK
<1>2. CASE FailPublication(c)
  <2>1. /\ pc' = [pc EXCEPT ![c] = "saveTerminal"] /\ verdict' = [verdict EXCEPT ![c] = "failed"]
        /\ mem' = [mem EXCEPT ![c] = [mem[c] EXCEPT !.state = "terminal", !.result = "failed"]]
    BY <1>2 DEF FailPublication, Goto, TypeOK
  <2>2. [mem[c] EXCEPT !.state = "terminal", !.result = "failed"].ext = mem[c].ext
    BY <1>1 DEF RecordType
  <2> QED
    BY <2>1, <2>2 DEF TypeOK, Gave, OthersSame
<1>3. CASE GiveUp(c) /\ UNCHANGED mem
  BY <1>3 DEF GiveUp, Goto, TypeOK, Gave, OthersSame
<1> QED
  BY <1>2, <1>3

(* The provider's builds while controller c takes a step: one more for a   *)
(* submission, else the same ones with the same statuses.                  *)
BuildsMoved(c) ==
    \/ pc[c] = "submit" /\ pc'[c] # "submit" /\ Grown(c)
    \/ Kept /\ \A b \in 1 .. Len(builds) : builds'[b].status = builds[b].status

(* What controller c has in memory after a step other than a claim. *)
CopyMoved(c) ==
    /\ \/ active'[c] = active[c] /\ active[c] # 0
       \/ active'[c] = 0 /\ pc'[c] = "idle"
    /\ mem'[c].ext \in Nat /\ mem'[c].ext <= Len(builds')
    /\ pc'[c] \in {"cancelExternal", "saveReference", "saveSubmitted", "get", "resolve"} => mem'[c].ext # 0
    /\ pc'[c] = "submit" => builds = <<>>
    /\ pc'[c] \in {"saveTerminal", "complete"} => verdict'[c] # "none"
    /\ verdict'[c] = "success" => pc'[c] \in {"saveTerminal", "complete"}
    /\ pc'[c] = "resolve" \/ verdict'[c] = "success" =>
        mem'[c].ext \in 1 .. Len(builds) /\ builds[mem'[c].ext].status = "success"

Moved(c) ==
    /\ OthersSame(c)
    /\ BuildsMoved(c)
    /\ CopyMoved(c)
    /\ UNCHANGED <<claims, versioned, tag>>

Invariants == TypeOK /\ CopyShape /\ ClaimShape /\ SubmitShape /\ VerdictShape

(* What the invariants say of one controller. *)
LEMMA CopyNow ==
    ASSUME Invariants, NEW c \in Controllers
    PROVE  /\ mem[c].ext \in Nat /\ mem[c].ext <= Len(builds) /\ Len(builds) \in Nat
           /\ pc[c] \in {"cancelExternal", "saveReference", "saveSubmitted", "get", "resolve"} =>
                mem[c].ext \in 1 .. Len(builds)
           /\ pc[c] # "idle" => active[c] # 0
           /\ pc[c] \in {"saveTerminal", "complete"} => verdict[c] # "none"
           /\ verdict[c] = "success" =>
                /\ pc[c] \in {"saveTerminal", "complete"}
                /\ mem[c].ext \in 1 .. Len(builds) /\ builds[mem[c].ext].status = "success"
           /\ pc[c] = "resolve" => builds[mem[c].ext].status = "success"
<1>1. mem[c].ext \in Nat /\ mem[c].ext <= Len(builds) /\ Len(builds) \in Nat
  BY BuildsCounted DEF Invariants, TypeOK, RecordType, CopyShape
<1>2. mem[c].ext # 0 => mem[c].ext \in 1 .. Len(builds)
  BY <1>1
<1> QED
  BY <1>1, <1>2 DEF Invariants, CopyShape, ClaimShape, VerdictShape

(* Builds that nobody touches. *)
LEMMA SameKept == ASSUME TypeOK, NEW c \in Controllers, UNCHANGED builds PROVE BuildsMoved(c)
  BY DEF BuildsMoved, Kept, TypeOK

(* A reconciliation that ends moves a controller as stated. *)
LEMMA ForgottenMoves ==
    ASSUME Invariants, NEW c \in Controllers, Forgot(c), pc[c] # "idle" \/ active'[c] = 0,
           BuildsMoved(c), UNCHANGED <<claims, versioned, tag>>
    PROVE  Moved(c)
<1>1. Len(builds') \in Nat
  BY CopyNow DEF BuildsMoved, Grown, Kept
<1>2. CopyMoved(c)
  BY <1>1, CopyNow DEF Forgot, CopyMoved
<1> QED
  BY <1>2 DEF Forgot, Moved

(* So does a failure that is about to be reported. *)
LEMMA FailureMoves ==
    ASSUME Invariants, NEW c \in Controllers, Gave(c), active[c] # 0,
           BuildsMoved(c), UNCHANGED <<claims, versioned, tag>>
    PROVE  Moved(c)
<1>1. mem[c].ext <= Len(builds') /\ mem[c].ext \in Nat
  BY CopyNow DEF BuildsMoved, Grown, Kept
<1>2. mem'[c].ext \in Nat /\ mem'[c].ext <= Len(builds')
  BY <1>1 DEF Gave
<1>3. /\ pc'[c] \notin {"cancelExternal", "saveReference", "saveSubmitted", "get", "resolve", "submit"}
      /\ verdict'[c] \notin {"none", "success"} /\ active'[c] = active[c]
  BY DEF Gave
<1>4. CopyMoved(c)
  BY <1>2, <1>3 DEF CopyMoved
<1> QED
  BY <1>4 DEF Gave, Moved

(* A controller goes on to call n with copy r and result v. *)
Goes(c, n, r, v) ==
    /\ pc' = [pc EXCEPT ![c] = n]
    /\ mem' = [mem EXCEPT ![c] = r]
    /\ verdict' = [verdict EXCEPT ![c] = v]
    /\ UNCHANGED active

LEMMA GoingMoves ==
    ASSUME Invariants, NEW c \in Controllers, NEW n, NEW r, NEW v, Goes(c, n, r, v), active[c] # 0,
           BuildsMoved(c), UNCHANGED <<claims, versioned, tag>>,
           r.ext \in Nat, r.ext <= Len(builds'),
           n \in {"cancelExternal", "saveReference", "saveSubmitted", "get", "resolve"} => r.ext # 0,
           n = "submit" => builds = <<>>,
           n \in {"saveTerminal", "complete"} => v # "none",
           v = "success" => n \in {"saveTerminal", "complete"},
           n = "resolve" \/ v = "success" =>
               r.ext \in 1 .. Len(builds) /\ builds[r.ext].status = "success"
    PROVE  Moved(c)
<1>1. /\ pc \in [Controllers -> PCs] /\ mem \in [Controllers -> RecordType]
      /\ verdict \in [Controllers -> {"none", "success", "failed"}]
  BY DEF Invariants, TypeOK
<1>2. /\ pc'[c] = n /\ mem'[c] = r /\ verdict'[c] = v /\ active'[c] = active[c]
      /\ OthersSame(c)
  BY <1>1 DEF Goes, OthersSame
<1>3. CopyMoved(c)
  BY <1>2 DEF CopyMoved
<1> QED
  BY <1>2, <1>3 DEF Moved

(* The updates of a copy keep its build; the handle of a submission is in  *)
(* the copy.                                                               *)
LEMMA CopyFields ==
    ASSUME NEW r \in RecordType, NEW b \in Nat, NEW st \in {"success", "failed", "canceled"}
    PROVE  /\ [r EXCEPT !.state = "terminal", !.result = st].ext = r.ext
           /\ [r EXCEPT !.state = "staged"].ext = r.ext
           /\ [r EXCEPT !.state = "submitted", !.ext = b].ext = b
  BY DEF RecordType

(* A variable of the controllers that c leaves alone. *)
LEMMA MemorySame ==
    ASSUME Invariants, NEW c \in Controllers
    PROVE  /\ UNCHANGED mem => mem' = [mem EXCEPT ![c] = mem[c]]
           /\ UNCHANGED verdict => verdict' = [verdict EXCEPT ![c] = verdict[c]]
           /\ mem[c] \in RecordType /\ record \in RecordType
           /\ record.ext \in Nat /\ record.ext <= Len(builds)
<1>1. /\ mem \in [Controllers -> RecordType] /\ record \in RecordType
      /\ verdict \in [Controllers -> {"none", "success", "failed"}] /\ record.ext <= Len(builds)
  BY DEF Invariants, TypeOK
<1>2. record.ext \in Nat
  BY <1>1 DEF RecordType
<1> QED
  BY <1>1, <1>2

(* Every step of a controller but its claim moves it as stated. *)
LEMMA ControllerMoves ==
    ASSUME Invariants, NEW c \in Controllers,
           \/ ControllerStep(c) /\ ~Claim(c)
           \/ SubmitFails(c) \/ CallFails(c) \/ Crash(c)
    PROVE  Moved(c)
<1>a. TypeOK
  BY DEF Invariants
<1>1. CASE GetExecutionJob(c)
  <2>1. /\ active[c] # 0 /\ pc[c] \in {"durable", "idle"}
        /\ UNCHANGED <<claims, versioned, builds, tag, active, mem>>
    BY <1>1, CopyNow DEF GetExecutionJob, external
  <2>2. BuildsMoved(c) /\ verdict[c] # "success" /\ builds' = builds
    BY <1>a, <2>1, SameKept, CopyNow
  <2>3. CASE GiveUp(c)
    BY <1>a, <2>1, <2>2, <2>3, FailureGives, FailureMoves
  <2>4. ASSUME NEW n \in {"loadRecord", "intent"}, Goto(c, n), UNCHANGED verdict PROVE Moved(c)
    <3>1. Goes(c, n, mem[c], verdict[c])
      BY <2>1, <2>4, MemorySame DEF Goes, Goto
    <3> QED
      BY <2>1, <2>2, <3>1, CopyNow, GoingMoves
  <2> QED
    BY <1>1, <2>3, <2>4 DEF GetExecutionJob
<1>2. CASE LoadRecordToCancel(c)
  <2>1. active[c] # 0 /\ pc[c] = "loadRecord" /\ UNCHANGED <<claims, versioned, builds, tag>>
    BY <1>2, CopyNow DEF LoadRecordToCancel, external
  <2>2. BuildsMoved(c) /\ verdict[c] # "success" /\ builds' = builds
    BY <1>a, <2>1, SameKept, CopyNow
  <2>3. CASE Leave(c)
    BY <1>a, <2>1, <2>2, <2>3, EndForgets, ForgottenMoves
  <2>4. CASE /\ record.ext # 0 /\ Goto(c, "cancelExternal") /\ mem' = [mem EXCEPT ![c] = record]
             /\ UNCHANGED <<active, verdict>>
    <3>1. Goes(c, "cancelExternal", record, verdict[c])
      BY <2>4, MemorySame DEF Goes, Goto
    <3> QED
      BY <2>1, <2>2, <2>4, <3>1, MemorySame, GoingMoves
  <2> QED
    BY <1>2, <2>3, <2>4 DEF LoadRecordToCancel
<1>3. CASE CancelExternal(c)
  <2>1. /\ pc[c] = "cancelExternal" /\ UNCHANGED <<claims, versioned, tag>> /\ Leave(c)
    BY <1>3 DEF CancelExternal
  <2>2. BuildsMoved(c)
    BY <1>3, <1>a, StopKeeps DEF BuildsMoved, Invariants
  <2> QED
    BY <1>a, <2>1, <2>2, EndForgets, ForgottenMoves
<1>4. CASE CreateIntent(c)
  <2> DEFINE row == IF record = NoRecord THEN Record("intent", 0, "none") ELSE record
  <2>1. /\ active[c] # 0 /\ pc[c] = "intent" /\ mem' = [mem EXCEPT ![c] = row]
        /\ UNCHANGED <<claims, versioned, builds, tag, active>>
    BY <1>4, CopyNow DEF CreateIntent, external
  <2>2. BuildsMoved(c) /\ verdict[c] # "success" /\ builds' = builds
    BY <1>a, <2>1, SameKept, CopyNow
  <2>3. row.ext \in Nat /\ row.ext <= Len(builds)
    BY MemorySame, CopyNow DEF Record
  <2>4. \/ GiveUp(c)
        \/ /\ UNCHANGED verdict
           /\ \E n \in {"stage", "find", "get", "saveReference"} :
                 Goto(c, n) /\ (n \in {"get", "saveReference"} => row.ext # 0)
    BY <1>4 DEF CreateIntent
  <2> HIDE DEF row
  <2>5. CASE GiveUp(c)
    <3>1. Goes(c, "complete", row, "failed")
      BY <2>1, <2>5 DEF Goes, Goto, GiveUp
    <3> QED
      BY <2>1, <2>2, <2>3, <3>1, GoingMoves
  <2>6. ASSUME NEW n \in {"stage", "find", "get", "saveReference"}, Goto(c, n),
               n \in {"get", "saveReference"} => row.ext # 0, UNCHANGED verdict
        PROVE  Moved(c)
    <3>1. Goes(c, n, row, verdict[c])
      BY <2>1, <2>6, MemorySame DEF Goes, Goto
    <3> QED
      BY <2>1, <2>2, <2>3, <2>6, <3>1, GoingMoves
  <2> QED
    BY <2>4, <2>5, <2>6
<1>5. CASE Stage(c)
  <2>1. /\ active[c] # 0 /\ pc[c] = "stage"
        /\ UNCHANGED <<claims, versioned, builds, tag, active>>
    BY <1>5, CopyNow DEF Stage, external
  <2>2. BuildsMoved(c) /\ verdict[c] # "success" /\ builds' = builds
    BY <1>a, <2>1, SameKept, CopyNow
  <2>3. CASE FailPublication(c) \/ (GiveUp(c) /\ UNCHANGED mem)
    BY <1>a, <2>1, <2>2, <2>3, FailureGives, FailureMoves
  <2>4. CASE Goto(c, "saveStaged") /\ mem' = [mem EXCEPT ![c].state = "staged"] /\ UNCHANGED verdict
    <3> DEFINE r == [mem[c] EXCEPT !.state = "staged"]
    <3>1. Goes(c, "saveStaged", r, verdict[c])
      BY <2>1, <2>4, MemorySame DEF Goes, Goto
    <3>2. r.ext = mem[c].ext
      BY MemorySame DEF RecordType
    <3> HIDE DEF r
    <3> QED
      BY <2>1, <2>2, <3>1, <3>2, CopyNow, GoingMoves
  <2> QED
    BY <1>5, <2>3, <2>4 DEF Stage
<1>6. CASE Save(c)
  <2>1. /\ active[c] # 0 /\ UNCHANGED <<claims, versioned, builds, tag, active, mem, verdict>>
        /\ pc[c] \in {"saveReference", "saveStaged", "saveSubmitted", "saveProgress"}
        /\ \E n \in {"find", "get", "renew"} :
              Goto(c, n) /\ (n = "get" => pc[c] \in {"saveReference", "saveSubmitted"})
    BY <1>6, CopyNow DEF Save, external, memory
  <2>2. BuildsMoved(c) /\ verdict[c] # "success" /\ builds' = builds
    BY <1>a, <2>1, SameKept, CopyNow
  <2>3. PICK n \in {"find", "get", "renew"} :
            Goto(c, n) /\ (n = "get" => pc[c] \in {"saveReference", "saveSubmitted"})
    BY <2>1
  <2>4. Goes(c, n, mem[c], verdict[c])
    BY <2>1, <2>3, MemorySame DEF Goes, Goto
  <2>5. n = "get" => mem[c].ext # 0
    BY <2>3, CopyNow
  <2> QED
    BY <2>1, <2>2, <2>4, <2>5, CopyNow, GoingMoves
<1>7. CASE Find(c)
  <2>1. /\ active[c] # 0 /\ pc[c] = "find"
        /\ UNCHANGED <<claims, versioned, builds, tag, active, verdict>>
    BY <1>7, CopyNow DEF Find, external
  <2>2. BuildsMoved(c) /\ verdict[c] # "success" /\ builds' = builds
    BY <1>a, <2>1, SameKept, CopyNow
  <2>3. CASE builds = <<>> /\ Goto(c, "submit") /\ UNCHANGED mem
    <3>1. Goes(c, "submit", mem[c], verdict[c])
      BY <2>1, <2>3, MemorySame DEF Goes, Goto
    <3> QED
      BY <2>1, <2>2, <2>3, <3>1, CopyNow, GoingMoves
  <2>4. ASSUME NEW b \in 1 .. Len(builds), Submitted(c, b) PROVE Moved(c)
    <3> DEFINE r == [mem[c] EXCEPT !.state = "submitted", !.ext = b]
    <3>1. Goes(c, "saveSubmitted", r, verdict[c])
      BY <2>1, <2>4, MemorySame DEF Goes, Goto, Submitted
    <3>2. r.ext = b /\ b \in Nat /\ b <= Len(builds) /\ b # 0
      BY MemorySame, CopyNow DEF RecordType
    <3> HIDE DEF r
    <3> QED
      BY <2>1, <2>2, <3>1, <3>2, GoingMoves
  <2> QED
    BY <1>7, <2>3, <2>4 DEF Find
<1>8. CASE Submit(c)
  <2>1. /\ active[c] # 0 /\ pc[c] = "submit" /\ ProviderCreates(c)
        /\ UNCHANGED <<claims, versioned, tag, active, verdict>>
    BY <1>8, CopyNow DEF Submit
  <2>2. Grown(c) /\ verdict[c] # "success" /\ Len(builds) + 1 \in Nat
    BY <1>a, <2>1, SubmissionGrows, CopyNow
  <2> DEFINE r == [mem[c] EXCEPT !.state = "submitted", !.ext = Len(builds) + 1]
  <2>3. Goes(c, "saveSubmitted", r, verdict[c])
    BY <1>8, <2>1, MemorySame DEF Goes, Goto, Submit, Submitted
  <2>4. r.ext = Len(builds) + 1
    BY MemorySame, CopyFields, <2>2
  <2> HIDE DEF r
  <2>5. pc'[c] = "saveSubmitted"
    BY <2>3, <1>a DEF Goes, TypeOK
  <2>6. BuildsMoved(c)
    BY <2>1, <2>2, <2>5 DEF BuildsMoved
  <2>7. r.ext \in Nat /\ r.ext <= Len(builds') /\ r.ext # 0
    BY <2>2, <2>4, CopyNow DEF Grown
  <2> QED
    BY <2>1, <2>2, <2>3, <2>6, <2>7, GoingMoves
<1>9. CASE SubmitFails(c)
  <2>1. /\ active[c] # 0 /\ pc[c] = "submit"
        /\ UNCHANGED <<claims, versioned, tag, active, mem>>
    BY <1>9, CopyNow DEF SubmitFails
  <2>2. Grown(c) \/ UNCHANGED builds
    BY <1>9, <1>a, <2>1, SubmissionGrows DEF SubmitFails
  <2>3. GiveUp(c) \/ (Goto(c, "renewUnsubmitted") /\ UNCHANGED verdict)
    BY <1>9 DEF SubmitFails
  <2>4. pc'[c] # "submit"
    BY <2>3, <1>a DEF Goto, GiveUp, TypeOK
  <2>5. BuildsMoved(c)
    BY <1>a, <2>1, <2>2, <2>4, SameKept DEF BuildsMoved
  <2>6. CASE GiveUp(c)
    BY <1>a, <2>1, <2>5, <2>6, FailureGives, FailureMoves
  <2>7. CASE Goto(c, "renewUnsubmitted") /\ UNCHANGED verdict
    <3>1. Goes(c, "renewUnsubmitted", mem[c], verdict[c])
      BY <2>1, <2>7, MemorySame DEF Goes, Goto
    <3>2. mem[c].ext \in Nat /\ mem[c].ext <= Len(builds') /\ verdict[c] # "success"
      BY <2>1, <2>2, CopyNow DEF Grown
    <3> QED
      BY <2>1, <2>5, <3>1, <3>2, GoingMoves
  <2> QED
    BY <2>3, <2>6, <2>7
<1>10. CASE Renew(c) \/ Complete(c) \/ CallFails(c)
  <2>1. pc[c] # "idle" /\ UNCHANGED <<claims, versioned, builds, tag>> /\ (Leave(c) \/ Again(c))
    BY <1>10 DEF Renew, Complete, CallFails, external
  <2> QED
    BY <1>a, <2>1, SameKept, EndForgets, ForgottenMoves
<1>11. CASE Crash(c)
  <2>1. Leave(c) /\ UNCHANGED <<claims, versioned, builds, tag>>
    BY <1>11 DEF Crash, external
  <2>2. active'[c] = 0
    BY <1>a, <2>1 DEF Leave, TypeOK
  <2> QED
    BY <1>a, <2>1, <2>2, SameKept, EndForgets, ForgottenMoves
<1>12. CASE Get(c)
  <2> DEFINE st == builds[mem[c].ext].status
  <2>1. /\ active[c] # 0 /\ pc[c] = "get" /\ mem[c].ext \in 1 .. Len(builds)
        /\ UNCHANGED <<claims, versioned, builds, tag, active>>
    BY <1>12, CopyNow DEF Get, external
  <2>2. BuildsMoved(c) /\ verdict[c] # "success" /\ builds' = builds
    BY <1>a, <2>1, SameKept, CopyNow
  <2>3. CASE FailPublication(c)
    BY <1>a, <2>1, <2>2, <2>3, FailureGives, FailureMoves
  <2>4. ASSUME NEW n \in {"saveProgress", "resolve"}, Goto(c, n), UNCHANGED <<mem, verdict>>,
               n = "resolve" => st = "success"
        PROVE  Moved(c)
    <3>1. Goes(c, n, mem[c], verdict[c])
      BY <2>1, <2>4, MemorySame DEF Goes, Goto
    <3> QED
      BY <2>1, <2>2, <2>4, <3>1, CopyNow, GoingMoves
  <2>5. ASSUME st \in {"success", "failed", "canceled"}, Goto(c, "saveTerminal"),
               mem' = [mem EXCEPT ![c].state = "terminal", ![c].result = st],
               verdict' = [verdict EXCEPT ![c] = IF st = "success" THEN st ELSE "failed"]
        PROVE  Moved(c)
    <3> DEFINE r == [mem[c] EXCEPT !.state = "terminal", !.result = st]
               v == IF st = "success" THEN st ELSE "failed"
    <3>1. Goes(c, "saveTerminal", r, v)
      BY <2>1, <2>5, MemorySame DEF Goes, Goto
    <3>2. r.ext = mem[c].ext /\ v # "none" /\ (v = "success" => st = "success")
      BY <2>5, MemorySame DEF RecordType
    <3> HIDE DEF r, v
    <3> QED
      BY <2>1, <2>2, <3>1, <3>2, CopyNow, GoingMoves
  <2> QED
    BY <1>12, <2>3, <2>4, <2>5 DEF Get
<1>13. CASE ResolvePublishedDigest(c)
  <2>1. /\ active[c] # 0 /\ pc[c] = "resolve" /\ mem[c].ext \in 1 .. Len(builds)
        /\ builds[mem[c].ext].status = "success"
        /\ UNCHANGED <<claims, versioned, builds, tag, active>>
    BY <1>13, CopyNow DEF ResolvePublishedDigest, external
  <2>2. BuildsMoved(c) /\ verdict[c] # "success" /\ builds' = builds
    BY <1>a, <2>1, SameKept, CopyNow
  <2>3. CASE FailPublication(c)
    BY <1>a, <2>1, <2>2, <2>3, FailureGives, FailureMoves
  <2>4. CASE /\ mem' = [mem EXCEPT ![c].state = "terminal", ![c].result = "success"]
             /\ verdict' = [verdict EXCEPT ![c] = "success"] /\ Goto(c, "saveTerminal")
    <3> DEFINE r == [mem[c] EXCEPT !.state = "terminal", !.result = "success"]
    <3>1. Goes(c, "saveTerminal", r, "success")
      BY <2>1, <2>4, MemorySame DEF Goes, Goto
    <3>2. r.ext = mem[c].ext
      BY MemorySame DEF RecordType
    <3> HIDE DEF r
    <3> QED
      BY <2>1, <2>2, <3>1, <3>2, CopyNow, GoingMoves
  <2> QED
    BY <1>13, <2>3, <2>4 DEF ResolvePublishedDigest
<1>14. CASE SaveTerminal(c)
  <2>1. /\ active[c] # 0 /\ pc[c] = "saveTerminal"
        /\ UNCHANGED <<claims, versioned, builds, tag, active, mem, verdict>>
        /\ Goto(c, "complete")
    BY <1>14, CopyNow DEF SaveTerminal, external, memory
  <2>2. BuildsMoved(c) /\ builds' = builds
    BY <1>a, <2>1, SameKept
  <2>3. Goes(c, "complete", mem[c], verdict[c])
    BY <2>1, MemorySame DEF Goes, Goto
  <2> QED
    BY <2>1, <2>2, <2>3, CopyNow, GoingMoves
<1> QED
  BY <1>1, <1>2, <1>3, <1>4, <1>5, <1>6, <1>7, <1>8, <1>9, <1>10, <1>11, <1>12, <1>13, <1>14
     DEF ControllerStep

(* A claim, the provider and the rest of the system leave the copies alone. *)
LEMMA StepKinds ==
    ASSUME Invariants, [Next]_vars
    PROVE  \/ \E c \in Controllers : Moved(c)
           \/ \E c \in Controllers : Claim(c)
           \/ \E b \in 1 .. Len(builds) : BuildEnds(b)
           \/ UNCHANGED <<claims, versioned, builds, tag, pc, active, mem, verdict>>
<1>1. ASSUME NEW c \in Controllers,
             ControllerStep(c) \/ SubmitFails(c) \/ CallFails(c) \/ Crash(c), ~Claim(c)
      PROVE  Moved(c)
  BY <1>1, ControllerMoves
<1>2. Tick \/ CancelBuild \/ UNCHANGED vars =>
        UNCHANGED <<claims, versioned, builds, tag, pc, active, mem, verdict>>
  BY DEF Tick, CancelBuild, external, memory, vars
<1> QED
  BY <1>1, <1>2 DEF Next

(* A new claim: the number is fresh. *)
LEMMA ClaimIsNew ==
    ASSUME Invariants, NEW c \in Controllers, Claim(c)
    PROVE  /\ pc[c] = "idle" /\ active[c] = 0
           /\ pc'[c] = "durable" /\ active'[c] = claims + 1 /\ claims' = claims + 1
           /\ \A d \in Controllers : d # c => pc'[d] = pc[d] /\ active'[d] = active[d]
           /\ UNCHANGED <<builds, tag, mem, verdict, versioned>>
  BY DEF Claim, Goto, Invariants, TypeOK, external

LEMMA CopyKept == Invariants /\ [Next]_vars => CopyShape'
<1> SUFFICES ASSUME Invariants, [Next]_vars, NEW d \in Controllers
             PROVE  /\ mem'[d].ext <= Len(builds')
                    /\ pc'[d] \in {"cancelExternal", "saveReference", "saveSubmitted", "get", "resolve"} =>
                        mem'[d].ext # 0
  BY DEF CopyShape
<1>1. ASSUME NEW c \in Controllers, Moved(c) PROVE Len(builds') >= Len(builds)
  BY <1>1, CopyNow DEF Moved, BuildsMoved, Grown, Kept
<1>2. ASSUME NEW c \in Controllers, Moved(c), d # c
      PROVE  pc'[d] = pc[d] /\ mem'[d] = mem[d] /\ Len(builds') \in Nat
  BY <1>2, CopyNow DEF Moved, OthersSame, BuildsMoved, Grown, Kept
<1>3. ASSUME NEW c \in Controllers, Moved(c), d = c
      PROVE  /\ mem'[d].ext <= Len(builds')
             /\ pc'[d] \in {"cancelExternal", "saveReference", "saveSubmitted", "get", "resolve"} => mem'[d].ext # 0
  BY <1>3 DEF Moved, CopyMoved
<1>4. ASSUME NEW c \in Controllers, Claim(c)
      PROVE  /\ UNCHANGED <<builds, mem>> /\ (pc'[d] = pc[d] \/ pc'[d] = "durable")
  BY <1>4, ClaimIsNew
<1>5. ASSUME NEW b \in 1 .. Len(builds), BuildEnds(b)
      PROVE  Len(builds') = Len(builds) /\ UNCHANGED <<mem, pc>>
  BY <1>5, EndKeeps DEF BuildEnds, Kept, memory, Invariants
<1>6. CASE \E c \in Controllers : Moved(c)
  BY <1>1, <1>2, <1>3, <1>6, CopyNow
<1>7. CASE \E c \in Controllers : Claim(c)
  BY <1>4, <1>7, CopyNow
<1>8. CASE \E b \in 1 .. Len(builds) : BuildEnds(b)
  BY <1>5, <1>8, CopyNow
<1>9. CASE UNCHANGED <<claims, versioned, builds, tag, pc, active, mem, verdict>>
  BY <1>9, CopyNow
<1> QED
  BY <1>6, <1>7, <1>8, <1>9, StepKinds

(* A claim is new when it is handed out, and given to one controller. *)
LEMMA ClaimKept == Invariants /\ [Next]_vars => ClaimShape'
<1> SUFFICES ASSUME Invariants, [Next]_vars PROVE ClaimShape'
  OBVIOUS
<1>a. /\ claims \in Nat /\ \A d \in Controllers : active[d] \in Nat /\ active[d] <= claims
      /\ \A d \in Controllers : pc[d] # "idle" => active[d] # 0
      /\ \A d, e \in Controllers : active[d] = active[e] /\ active[d] # 0 => d = e
  BY ImageBuildAssumption DEF Invariants, TypeOK, ClaimShape
<1>1. ASSUME NEW c \in Controllers, Moved(c) PROVE ClaimShape'
  <2>1. /\ claims' = claims
        /\ \A d \in Controllers : active'[d] \in {0, active[d]} /\ (pc'[d] # "idle" => active'[d] # 0)
    BY <1>1, <1>a DEF Moved, OthersSame, CopyMoved
  <2> QED
    BY <1>a, <2>1 DEF ClaimShape
<1>2. ASSUME NEW c \in Controllers, Claim(c) PROVE ClaimShape'
  <2>1. /\ active'[c] = claims + 1 /\ claims' = claims + 1
        /\ \A d \in Controllers : d # c => pc'[d] = pc[d] /\ active'[d] = active[d]
    BY <1>2, ClaimIsNew
  <2>2. \A d \in Controllers : d # c => active'[d] # claims + 1
    BY <1>a, <2>1
  <2> QED
    BY <1>a, <2>1, <2>2 DEF ClaimShape
<1>3. ASSUME NEW b \in 1 .. Len(builds), BuildEnds(b) PROVE ClaimShape'
  <2>1. UNCHANGED <<claims, pc, active>>
    BY <1>3 DEF BuildEnds, memory
  <2> QED
    BY <1>a, <2>1 DEF ClaimShape
<1>4. CASE UNCHANGED <<claims, versioned, builds, tag, pc, active, mem, verdict>>
  BY <1>a, <1>4 DEF ClaimShape
<1> QED
  BY <1>1, <1>2, <1>3, <1>4, StepKinds

(* What happens to the claims of the builds: one more for a submission. *)
LEMMA TokensKept ==
    ASSUME Invariants, NEW c \in Controllers, Moved(c),
           NEW b \in 1 .. Len(builds')
    PROVE  \/ b \in 1 .. Len(builds) /\ builds'[b].tok = builds[b].tok
           \/ /\ pc[c] = "submit" /\ pc'[c] # "submit" /\ active[c] # 0
              /\ b = Len(builds) + 1 /\ Len(builds') = Len(builds) + 1 /\ builds'[b].tok = active[c]
<1>1. CASE Kept
  BY <1>1 DEF Kept
<1>2. CASE pc[c] = "submit" /\ pc'[c] # "submit" /\ Grown(c)
  <2>1. b \in 1 .. Len(builds) \/ b = Len(builds) + 1
    BY <1>2, CopyNow DEF Grown
  <2> QED
    BY <1>2, <2>1, CopyNow DEF Grown
<1> QED
  BY <1>1, <1>2 DEF Moved, BuildsMoved

(* Only the claim that found no build at all submits. *)
LEMMA SubmitKept == Invariants /\ [Next]_vars => SubmitShape'
<1> SUFFICES ASSUME Invariants, [Next]_vars, NEW d \in Controllers, pc'[d] = "submit",
                    NEW b \in 1 .. Len(builds')
             PROVE  builds'[b].tok # active'[d]
  BY DEF SubmitShape
<1>a. /\ pc[d] = "submit" => \A a \in 1 .. Len(builds) : builds[a].tok # active[d]
      /\ \A c \in Controllers : active[c] = active[d] /\ active[c] # 0 => c = d
  BY DEF Invariants, SubmitShape, ClaimShape
<1>1. ASSUME NEW c \in Controllers, Moved(c) PROVE builds'[b].tok # active'[d]
  <2>1. CASE d = c
    <3>1. builds = <<>> /\ Kept
      BY <1>1, <2>1 DEF Moved, CopyMoved, BuildsMoved
    <3>2. Len(builds') = 0
      BY <3>1 DEF Kept
    <3> QED
      BY <3>2
  <2>2. CASE d # c
    <3>1. pc[d] = "submit" /\ active'[d] = active[d]
      BY <1>1, <2>2 DEF Moved, OthersSame
    <3> QED
      BY <1>1, <1>a, <2>2, <3>1, TokensKept
  <2> QED
    BY <2>1, <2>2
<1>2. ASSUME NEW c \in Controllers, Claim(c) PROVE builds'[b].tok # active'[d]
  <2>1. builds' = builds /\ pc[d] = "submit" /\ active'[d] = active[d]
    BY <1>2, ClaimIsNew
  <2> QED
    BY <1>a, <2>1
<1>3. ASSUME NEW e \in 1 .. Len(builds), BuildEnds(e) PROVE builds'[b].tok # active'[d]
  <2>1. Kept /\ UNCHANGED <<pc, active>>
    BY <1>3, EndKeeps DEF BuildEnds, memory, Invariants
  <2>2. b \in 1 .. Len(builds) /\ builds'[b].tok = builds[b].tok
    BY <2>1 DEF Kept
  <2> QED
    BY <1>a, <2>1, <2>2
<1>4. CASE UNCHANGED <<claims, versioned, builds, tag, pc, active, mem, verdict>>
  BY <1>a, <1>4
<1> QED
  BY <1>1, <1>2, <1>3, <1>4, StepKinds

(* So no claim has two builds. *)
LEMMA OneBuildKept == Invariants /\ OneBuildPerClaim /\ [Next]_vars => OneBuildPerClaim'
<1> SUFFICES ASSUME Invariants, OneBuildPerClaim, [Next]_vars,
                    NEW a \in 1 .. Len(builds'), NEW b \in 1 .. Len(builds'),
                    builds'[a].tok = builds'[b].tok
             PROVE  a = b
  BY DEF OneBuildPerClaim
<1>a. \A e, f \in 1 .. Len(builds) : builds[e].tok = builds[f].tok => e = f
  BY DEF OneBuildPerClaim
<1>1. ASSUME NEW c \in Controllers, Moved(c) PROVE a = b
  <2>1. pc[c] = "submit" => \A e \in 1 .. Len(builds) : builds[e].tok # active[c]
    BY DEF Invariants, SubmitShape
  <2> QED
    BY <1>1, <1>a, <2>1, TokensKept
<1>2. ASSUME NEW c \in Controllers, Claim(c) PROVE a = b
  <2>1. builds' = builds
    BY <1>2, ClaimIsNew
  <2> QED
    BY <1>a, <2>1
<1>3. ASSUME NEW e \in 1 .. Len(builds), BuildEnds(e) PROVE a = b
  <2>1. Kept
    BY <1>3, EndKeeps DEF Invariants
  <2>2. /\ a \in 1 .. Len(builds) /\ builds'[a].tok = builds[a].tok
        /\ b \in 1 .. Len(builds) /\ builds'[b].tok = builds[b].tok
    BY <2>1 DEF Kept
  <2> QED
    BY <1>a, <2>2
<1>4. CASE UNCHANGED <<claims, versioned, builds, tag, pc, active, mem, verdict>>
  BY <1>a, <1>4
<1> QED
  BY <1>1, <1>2, <1>3, <1>4, StepKinds

(* A build that succeeded was there before and had succeeded, or ends now. *)
LEMMA SuccessesKept ==
    ASSUME Invariants, NEW c \in Controllers, Moved(c)
    PROVE  /\ \A b \in 1 .. Len(builds') : builds'[b].status = "success" =>
                b \in 1 .. Len(builds) /\ builds[b].status = "success"
           /\ \A b \in 1 .. Len(builds) : builds[b].status = "success" =>
                b \in 1 .. Len(builds') /\ builds'[b].status = "success"
<1>1. CASE Kept /\ \A b \in 1 .. Len(builds) : builds'[b].status = builds[b].status
  BY <1>1 DEF Kept
<1>2. CASE Grown(c)
  <2>1. \A b \in 1 .. Len(builds') : b \in 1 .. Len(builds) \/ b = Len(builds) + 1
    BY <1>2, CopyNow DEF Grown
  <2>2. \A b \in 1 .. Len(builds) : b \in 1 .. Len(builds')
    BY <1>2, CopyNow DEF Grown
  <2> QED
    BY <1>2, <2>1, <2>2 DEF Grown
<1> QED
  BY <1>1, <1>2 DEF Moved, BuildsMoved

(* The tag of a version moves once, to the build that succeeds. *)
LEMMA TagKept == Invariants /\ TagShape /\ [Next]_vars => TagShape'
<1> SUFFICES ASSUME Invariants, TagShape, [Next]_vars, versioned',
                    NEW b \in 1 .. Len(builds'), builds'[b].status = "success"
             PROVE  tag' = b
  BY DEF TagShape
<1>a. versioned => \A e \in 1 .. Len(builds) : builds[e].status = "success" => tag = e
  BY DEF TagShape
<1>1. ASSUME NEW c \in Controllers, Moved(c) PROVE tag' = b
  BY <1>1, <1>a, SuccessesKept DEF Moved
<1>2. ASSUME NEW c \in Controllers, Claim(c) PROVE tag' = b
  <2>1. UNCHANGED <<builds, tag, versioned>>
    BY <1>2, ClaimIsNew
  <2> QED
    BY <1>a, <2>1
<1>3. ASSUME NEW e \in 1 .. Len(builds), BuildEnds(e) PROVE tag' = b
  <2>1. /\ Kept /\ \A a \in 1 .. Len(builds) : a # e => builds'[a] = builds[a]
        /\ \/ tag' = e /\ (versioned => tag = 0)
           \/ tag' = tag /\ builds'[e].status # "success"
    BY <1>3, EndKeeps DEF Invariants
  <2>2. b \in 1 .. Len(builds) /\ UNCHANGED versioned
    BY <1>3, <2>1 DEF Kept, BuildEnds
  <2>3. b # e => tag = b /\ tag # 0
    BY <1>a, <2>1, <2>2
  <2> QED
    BY <2>1, <2>2, <2>3
<1>4. CASE UNCHANGED <<claims, versioned, builds, tag, pc, active, mem, verdict>>
  BY <1>a, <1>4
<1> QED
  BY <1>1, <1>2, <1>3, <1>4, StepKinds

(* What a controller has seen succeed stays a success. *)
LEMMA VerdictKept == Invariants /\ [Next]_vars => VerdictShape'
<1> SUFFICES ASSUME Invariants, [Next]_vars, NEW d \in Controllers
             PROVE  /\ pc'[d] \in {"saveTerminal", "complete"} => verdict'[d] # "none"
                    /\ verdict'[d] = "success" =>
                        pc'[d] \in {"saveTerminal", "complete"} /\ mem'[d].ext # 0
                    /\ pc'[d] = "resolve" \/ verdict'[d] = "success" =>
                        builds'[mem'[d].ext].status = "success"
  BY DEF VerdictShape
<1> DEFINE Fine == /\ pc'[d] \in {"saveTerminal", "complete"} => verdict'[d] # "none"
                   /\ verdict'[d] = "success" => pc'[d] \in {"saveTerminal", "complete"}
                   /\ pc'[d] = "resolve" \/ verdict'[d] = "success" =>
                        mem'[d].ext \in 1 .. Len(builds) /\ builds'[mem'[d].ext].status = "success"
<1>1. ASSUME NEW c \in Controllers, Moved(c) PROVE Fine
  <2>1. CASE d = c
    BY <1>1, <2>1, SuccessesKept DEF Moved, CopyMoved
  <2>2. CASE d # c
    <3>1. pc'[d] = pc[d] /\ verdict'[d] = verdict[d] /\ mem'[d] = mem[d]
      BY <1>1, <2>2 DEF Moved, OthersSame
    <3> QED
      BY <1>1, <3>1, CopyNow, SuccessesKept
  <2> QED
    BY <2>1, <2>2
<1>2. ASSUME NEW c \in Controllers, Claim(c) PROVE Fine
  <2>1. /\ UNCHANGED <<builds, mem, verdict>> /\ (pc'[d] = pc[d] \/ pc'[d] = "durable")
        /\ pc'[d] = "durable" => pc[d] \in {"durable", "idle"}
    BY <1>2, ClaimIsNew
  <2> QED
    BY <2>1, CopyNow
<1>3. ASSUME NEW b \in 1 .. Len(builds), BuildEnds(b) PROVE Fine
  <2>1. Kept /\ UNCHANGED <<mem, pc, verdict>>
    BY <1>3, EndKeeps DEF BuildEnds, memory, Invariants
  <2>2. \A a \in 1 .. Len(builds) : builds[a].status = "success" => builds'[a].status = "success"
    BY <2>1 DEF Kept
  <2> QED
    BY <2>1, <2>2, CopyNow
<1>4. CASE UNCHANGED <<claims, versioned, builds, tag, pc, active, mem, verdict>>
  <2>1. Fine
    BY <1>4, CopyNow
  <2> QED
    BY <2>1, CopyNow
<1>5. Fine
  BY <1>1, <1>2, <1>3, <1>4, CopyNow, StepKinds
<1>6. mem'[d].ext \in 1 .. Len(builds) => mem'[d].ext # 0
  OBVIOUS
<1> QED
  BY <1>5, <1>6

(* The job turns a success only by a controller that saw its build succeed. *)
LEMMA SuccessFromVerdict ==
    ASSUME Invariants, [Next]_vars, job'.status = "success", job.status # "success"
    PROVE  \E c \in Controllers : Complete(c) /\ verdict[c] = "success"
<1>1. job \in [status : JobStatuses, tok : 0 .. MaxClaims, left : 0 .. Lease]
  BY DEF Invariants, TypeOK
<1>2. ASSUME NEW c \in Controllers, Claim(c) PROVE FALSE
  BY <1>2 DEF Claim, JobRow
<1>3. ASSUME NEW c \in Controllers, Renew(c) PROVE FALSE
  BY <1>1, <1>3 DEF Renew
<1>4. ASSUME NEW c \in Controllers, Complete(c) PROVE verdict[c] = "success"
  BY <1>4 DEF Complete, CompleteStepAndJob, JobRow
<1>5. ASSUME NEW c \in Controllers,
             ControllerStep(c) \/ SubmitFails(c) \/ CallFails(c) \/ Crash(c),
             ~Claim(c), ~Renew(c), ~Complete(c)
      PROVE  FALSE
  <2>1. UNCHANGED job
    BY <1>5 DEF ControllerStep, SubmitFails, CallFails, Crash, GetExecutionJob, LoadRecordToCancel,
       CancelExternal, CreateIntent, Stage, Save, Find, Submit, Get, ResolvePublishedDigest,
       SaveTerminal
  <2> QED
    BY <2>1
<1>6. ASSUME NEW b \in 1 .. Len(builds), BuildEnds(b) PROVE FALSE
  BY <1>6 DEF BuildEnds
<1>7. CASE Tick
  BY <1>1, <1>7 DEF Tick
<1>8. CASE CancelBuild
  BY <1>8 DEF CancelBuild, JobRow
<1>9. CASE UNCHANGED vars
  BY <1>9 DEF vars
<1> QED
  BY <1>2, <1>3, <1>4, <1>5, <1>6, <1>7, <1>8, <1>9 DEF Next

(* The image of a success stays. *)
LEMMA SuccessKept ==
    Invariants /\ TagShape /\ SuccessHasImage /\ [Next]_vars => SuccessHasImage'
<1> SUFFICES ASSUME Invariants, TagShape, SuccessHasImage, [Next]_vars, job'.status = "success"
             PROVE  \E b \in 1 .. Len(builds') :
                        builds'[b].status = "success" /\ (versioned' => tag' = b)
  BY DEF SuccessHasImage
<1>1. \E b \in 1 .. Len(builds) : builds[b].status = "success" /\ (versioned => tag = b)
  <2>1. CASE job.status = "success"
    BY <2>1 DEF SuccessHasImage
  <2>2. CASE job.status # "success"
    <3>1. PICK c \in Controllers : Complete(c) /\ verdict[c] = "success"
      BY <2>2, SuccessFromVerdict
    <3>2. mem[c].ext \in 1 .. Len(builds) /\ builds[mem[c].ext].status = "success"
      BY <3>1, CopyNow
    <3> QED
      BY <3>2 DEF TagShape
  <2> QED
    BY <2>1, <2>2
<1>2. PICK b \in 1 .. Len(builds) : builds[b].status = "success" /\ (versioned => tag = b)
  BY <1>1
<1> SUFFICES /\ b \in 1 .. Len(builds') /\ builds'[b].status = "success"
             /\ versioned' = versioned /\ (versioned => tag' = b)
  BY DEF TagShape
<1>3. ASSUME NEW c \in Controllers, Moved(c)
      PROVE  /\ b \in 1 .. Len(builds') /\ builds'[b].status = "success"
             /\ versioned' = versioned /\ tag' = tag
  BY <1>2, <1>3, SuccessesKept DEF Moved
<1>4. ASSUME NEW c \in Controllers, Claim(c) PROVE UNCHANGED <<builds, versioned, tag>>
  BY <1>4, ClaimIsNew
<1>5. ASSUME NEW e \in 1 .. Len(builds), BuildEnds(e)
      PROVE  /\ b \in 1 .. Len(builds') /\ builds'[b].status = "success"
             /\ versioned' = versioned /\ (versioned => tag' = b)
  <2>1. /\ Kept /\ UNCHANGED versioned /\ b # 0
        /\ (versioned => tag = 0) \/ tag' = tag
    BY <1>5, EndKeeps DEF Invariants, BuildEnds
  <2> QED
    BY <1>2, <2>1 DEF Kept
<1>6. CASE UNCHANGED <<claims, versioned, builds, tag, pc, active, mem, verdict>>
  BY <1>2, <1>6
<1> QED
  BY <1>2, <1>3, <1>4, <1>5, <1>6, StepKinds

LEMMA NextIndInv == IndInv /\ [Next]_vars => IndInv'
<1> SUFFICES ASSUME IndInv, [Next]_vars PROVE IndInv'
  OBVIOUS
<1>1. Invariants
  BY DEF IndInv, Invariants
<1>2. TypeOK' /\ CopyShape' /\ ClaimShape' /\ SubmitShape'
  BY <1>1, TypeStep, CopyKept, ClaimKept, SubmitKept DEF Invariants
<1>3. OneBuildPerClaim' /\ TagShape' /\ VerdictShape' /\ SuccessHasImage'
  BY <1>1, OneBuildKept, TagKept, VerdictKept, SuccessKept DEF IndInv
<1> QED
  BY <1>2, <1>3 DEF IndInv

(* The types, and what relates the controllers' copies, the claims, the    *)
(* provider's builds and the tag, hold in every reachable state.           *)
THEOREM Inductive == Spec => []IndInv
<1>1. Init => IndInv
  BY InitIndInv
<1>2. IndInv /\ [Next]_vars => IndInv'
  BY NextIndInv
<1> QED
  BY <1>1, <1>2, PTL DEF Spec

(* A step reported as success stands for an image that a provider build    *)
(* published, and a version's tag resolves to it: no stale controller,     *)
(* takeover, lost answer or crash makes the report without the image.      *)
THEOREM SuccessIsPublished == Spec => []SuccessHasImage
<1>1. IndInv => SuccessHasImage
  BY DEF IndInv
<1> QED
  BY <1>1, Inductive, PTL

(* A claim submits at most one build, however often its submission is      *)
(* retried: FindByExecutionJobID before every submission, and one          *)
(* controller per claim.                                                   *)
THEOREM ClaimSubmitsOnce == Spec => []OneBuildPerClaim
<1>1. IndInv => OneBuildPerClaim
  BY DEF IndInv
<1> QED
  BY <1>1, Inductive, PTL
=============================================================================
