---------------------- MODULE ApplicationReleasesProofs ----------------------
(***************************************************************************)
(* Proofs about ApplicationReleases, for any number of builds, versions,   *)
(* outputs, preparers, servers and clients, any limit of a round, and any  *)
(* bounds.                                                                 *)
(*                                                                         *)
(* TypeOK has one step per action.  The other conjuncts of IndInv look at  *)
(* releases, channels and transactions only, which few actions change:     *)
(* StepKinds says what each kind of step does to them, and each conjunct   *)
(* has a lemma with one step per kind.                                     *)
(***************************************************************************)
EXTENDS ApplicationReleases, SequenceTheorems, TLAPS

PrepType ==
    [at : {"idle", "toPreparing", "get", "create", "toRunning"}, b : Builds \cup {None}]
LocType == [b : Builds \cup {None}, todo : SUBSET Builds]
ReleaseStatuses == {"none", "pending", "complete", "failed"}

(* What TypeOK says of each variable. *)
LEMMA Typed ==
  TypeOK =>
    /\ build \in [Builds -> BuildStatuses]
    /\ version \in [Builds -> Versions \cup {None}]
    /\ durable \in [Builds -> SUBSET Outputs]
    /\ tagging \in [Builds -> SUBSET Artifacts]
    /\ ended \in [Builds -> BuildStatuses \cup {None}]
    /\ prep \in [Preparers -> PrepType]
    /\ release \in [Builds -> ReleaseStatuses]
    /\ plan \in [Builds -> Plans \cup {NoPlan}]
    /\ created \in Seq(Builds)
    /\ Range(created) = {b \in Builds : release[b] # "none"}
    /\ published \in [Builds -> SUBSET Outputs]
    /\ channel \in [Channels -> Builds \cup {None}]
    /\ events \in [Channels -> Seq(Builds)]
    /\ pc \in [Procs -> {"idle", "next", "move", "insert"}]
    /\ loc \in [Procs -> LocType]
    /\ faults \in 0 .. MaxFaults
  BY DEF TypeOK, PrepType, LocType, ReleaseStatuses

(* A fault is counted. *)
LEMMA FaultTyped == faults \in 0 .. MaxFaults /\ Fault => faults' \in 0 .. MaxFaults
  BY ReleaseAssumption DEF Fault

(* A release expects outputs. *)
LEMMA PlanTyped == TypeOK => \A b \in Builds : plan[b].outputs \subseteq Outputs
<1> SUFFICES ASSUME TypeOK, NEW b \in Builds PROVE plan[b].outputs \subseteq Outputs
  OBVIOUS
<1>1. plan[b] \in Plans \/ plan[b] = NoPlan
  BY Typed
<1> QED
  BY <1>1, ReleaseAssumption DEF NoPlan

(* What a preparer does next keeps it a preparer. *)
LEMMA PrepTyped ==
  ASSUME prep \in [Preparers -> PrepType], NEW p \in Preparers
  PROVE  /\ \A here : \A next \in {"get", "create", "toRunning"} :
                PrepGoto(p, here, next) => prep' \in [Preparers -> PrepType]
         /\ \A here : PrepDone(p, here) => prep' \in [Preparers -> PrepType]
         /\ \A b \in Builds : prep' = [prep EXCEPT ![p] = [at |-> "toPreparing", b |-> b]]
                => prep' \in [Preparers -> PrepType]
  BY DEF PrepType, PrepGoto, PrepDone, Free

(* The end of a build. *)
LEMMA EndsTyped ==
  ASSUME build \in [Builds -> BuildStatuses], ended \in [Builds -> BuildStatuses \cup {None}],
         NEW b \in Builds, NEW st \in {"success", "failed", "canceled"}, Ends(b, st)
  PROVE  build' \in [Builds -> BuildStatuses] /\ ended' \in [Builds -> BuildStatuses \cup {None}]
  BY DEF Ends, BuildStatuses

(* The history of a channel grows by one. *)
LEMMA Appended ==
  ASSUME NEW s \in Seq(Builds), NEW b \in Builds
  PROVE  /\ Append(s, b) \in Seq(Builds)
         /\ Last(Append(s, b)) = b
         /\ Range(Append(s, b)) = Range(s) \cup {b}
<1>1. /\ Append(s, b) \in Seq(Builds) /\ Len(Append(s, b)) = Len(s) + 1
      /\ \A i \in 1 .. Len(s) : Append(s, b)[i] = s[i]
      /\ Append(s, b)[Len(s) + 1] = b
  BY AppendProperties
<1>2. DOMAIN Append(s, b) = 1 .. Len(s) + 1 /\ DOMAIN s = 1 .. Len(s) /\ Len(s) \in Nat
  BY <1>1, LenProperties
<1>3. Last(Append(s, b)) = b
  BY <1>1 DEF Last
<1>4. \A x : x \in Range(Append(s, b)) <=> x \in Range(s) \/ x = b
  <2>1. \A x : x \in Range(Append(s, b)) <=> \E i \in 1 .. Len(s) + 1 : Append(s, b)[i] = x
    BY <1>2 DEF Range
  <2>2. \A x : x \in Range(s) <=> \E i \in 1 .. Len(s) : s[i] = x
    BY <1>2 DEF Range
  <2>3. 1 .. Len(s) + 1 = (1 .. Len(s)) \cup {Len(s) + 1}
    BY <1>2
  <2> QED
    BY <1>1, <2>1, <2>2, <2>3
<1> QED
  BY <1>1, <1>3, <1>4

(* The channels after a transaction that moves one. *)
LEMMA PointTyped ==
  ASSUME TypeOK, NEW p \in Procs, loc[p].b \in Builds, Point(p)
  PROVE  /\ channel' \in [Channels -> Builds \cup {None}] /\ events' \in [Channels -> Seq(Builds)]
         /\ ChannelOf(p) \in Channels
         /\ channel'[ChannelOf(p)] = loc[p].b /\ Last(events'[ChannelOf(p)]) = loc[p].b
         /\ \A ch \in Channels \ {ChannelOf(p)} :
               channel'[ch] = channel[ch] /\ events'[ch] = events[ch]
<1>1. ChannelOf(p) \in Channels
  BY DEF ChannelOf, Channels
<1>2. events[ChannelOf(p)] \in Seq(Builds)
  BY <1>1, Typed
<1>3. /\ Append(events[ChannelOf(p)], loc[p].b) \in Seq(Builds)
      /\ Last(Append(events[ChannelOf(p)], loc[p].b)) = loc[p].b
  BY <1>2, Appended
<1> DEFINE grown == Append(events[ChannelOf(p)], loc[p].b)
<1>4. /\ channel' = [channel EXCEPT ![ChannelOf(p)] = loc[p].b]
      /\ events' = [events EXCEPT ![ChannelOf(p)] = grown]
      /\ grown \in Seq(Builds) /\ Last(grown) = loc[p].b
  BY <1>3 DEF Point
<1> HIDE DEF grown
<1>5. channel \in [Channels -> Builds \cup {None}] /\ events \in [Channels -> Seq(Builds)]
  BY Typed
<1> QED
  BY <1>1, <1>4, <1>5

(* A transaction goes to its next release, or ends its round. *)
LEMMA RoundTyped ==
  ASSUME TypeOK, NEW p \in Procs, NEW b, NextRelease(p, b)
  PROVE  /\ pc' \in [Procs -> {"idle", "next", "move", "insert"}] /\ loc' \in [Procs -> LocType]
         /\ pc'[p] \in {"idle", "next"}
         /\ \A q \in Procs \ {p} : pc'[q] = pc[q] /\ loc'[q] = loc[q]
<1>1. pc \in [Procs -> {"idle", "next", "move", "insert"}] /\ loc \in [Procs -> LocType]
  BY Typed
<1>2. [b |-> None, todo |-> loc[p].todo \ {b}] \in LocType
  BY <1>1 DEF LocType
<1> QED
  BY <1>1, <1>2 DEF NextRelease

-----------------------------------------------------------------------------
(* Types *)

BuildTypes ==
    /\ build \in [Builds -> BuildStatuses]
    /\ version \in [Builds -> Versions \cup {None}]
    /\ durable \in [Builds -> SUBSET Outputs]
    /\ tagging \in [Builds -> SUBSET Artifacts]
    /\ ended \in [Builds -> BuildStatuses \cup {None}]
    /\ prep \in [Preparers -> PrepType]

ReleaseTypes ==
    /\ release \in [Builds -> ReleaseStatuses]
    /\ plan \in [Builds -> Plans \cup {NoPlan}]
    /\ created \in Seq(Builds)
    /\ Range(created) = {b \in Builds : release[b] # "none"}
    /\ published \in [Builds -> SUBSET Outputs]
    /\ channel \in [Channels -> Builds \cup {None}]
    /\ events \in [Channels -> Seq(Builds)]

ProcTypes ==
    /\ pc \in [Procs -> {"idle", "next", "move", "insert"}]
    /\ loc \in [Procs -> LocType]

LEMMA TypeParts ==
  /\ TypeOK <=> BuildTypes /\ ReleaseTypes /\ ProcTypes /\ faults \in 0 .. MaxFaults
  /\ TypeOK' <=> BuildTypes' /\ ReleaseTypes' /\ ProcTypes' /\ faults' \in 0 .. MaxFaults
  BY DEF TypeOK, BuildTypes, ReleaseTypes, ProcTypes, PrepType, LocType, ReleaseStatuses

(* The worker's and the preparer's actions, which leave the releases and   *)
(* the transactions alone, but for the creation of a release.              *)
LEMMA BuildStepTyped ==
  ASSUME TypeOK, PrepShape, NEW b \in Builds,
         \/ BuildSucceeds(b) \/ TaggingLost(b) \/ PostTerminalLost(b)
         \/ \E st \in {"failed", "canceled"} : BuildEndsOtherwise(b, st)
         \/ \E o \in Images : PublishImage(b, o)
         \/ \E o \in Artifacts : TagArtifact(b, o)
  PROVE  TypeOK'
<1>a. /\ BuildTypes /\ ReleaseTypes /\ ProcTypes /\ faults \in 0 .. MaxFaults
      /\ build \in [Builds -> BuildStatuses]
      /\ ended \in [Builds -> BuildStatuses \cup {None}]
  BY TypeParts DEF BuildTypes
<1>b. ASSUME UNCHANGED <<releaseVars, pc, loc>> PROVE ReleaseTypes' /\ ProcTypes'
  BY <1>a, <1>b DEF releaseVars, ReleaseTypes, ProcTypes
<1>1. CASE BuildSucceeds(b)
  <2>1. build' \in [Builds -> BuildStatuses] /\ ended' \in [Builds -> BuildStatuses \cup {None}]
    BY <1>1, <1>a, EndsTyped DEF BuildSucceeds
  <2>2. BuildTypes'
    BY <1>1, <1>a, <2>1 DEF BuildSucceeds, BuildTypes
  <2>3. UNCHANGED <<releaseVars, pc, loc>> /\ faults' \in 0 .. MaxFaults
    BY <1>1, <1>a DEF BuildSucceeds
  <2> QED
    BY <2>2, <2>3, <1>b, TypeParts
<1>2. CASE TaggingLost(b)
  <2>1. BuildTypes'
    BY <1>2, <1>a DEF TaggingLost, BuildTypes
  <2>2. UNCHANGED <<releaseVars, pc, loc>> /\ faults' \in 0 .. MaxFaults
    BY <1>2, <1>a, FaultTyped DEF TaggingLost
  <2> QED
    BY <2>1, <2>2, <1>b, TypeParts
<1>3. CASE PostTerminalLost(b)
  <2>1. BuildTypes'
    BY <1>3, <1>a DEF PostTerminalLost, BuildTypes
  <2>2. UNCHANGED <<releaseVars, pc, loc>> /\ faults' \in 0 .. MaxFaults
    BY <1>3, <1>a, FaultTyped DEF PostTerminalLost
  <2> QED
    BY <2>1, <2>2, <1>b, TypeParts
<1>4. ASSUME NEW st \in {"failed", "canceled"}, BuildEndsOtherwise(b, st) PROVE TypeOK'
  <2>1. build' \in [Builds -> BuildStatuses] /\ ended' \in [Builds -> BuildStatuses \cup {None}]
    BY <1>4, <1>a, EndsTyped DEF BuildEndsOtherwise
  <2>2. BuildTypes'
    BY <1>4, <1>a, <2>1 DEF BuildEndsOtherwise, BuildTypes
  <2>3. UNCHANGED <<releaseVars, pc, loc>> /\ faults' \in 0 .. MaxFaults
    BY <1>4, <1>a DEF BuildEndsOtherwise
  <2> QED
    BY <2>2, <2>3, <1>b, TypeParts
<1>5. ASSUME NEW o \in Images, PublishImage(b, o) PROVE TypeOK'
  <2>1. BuildTypes'
    BY <1>5, <1>a DEF PublishImage, BuildTypes, Outputs
  <2>2. UNCHANGED <<releaseVars, pc, loc>> /\ faults' \in 0 .. MaxFaults
    BY <1>5, <1>a DEF PublishImage
  <2> QED
    BY <2>1, <2>2, <1>b, TypeParts
<1>6. ASSUME NEW o \in Artifacts, TagArtifact(b, o) PROVE TypeOK'
  <2>1. BuildTypes'
    BY <1>6, <1>a DEF TagArtifact, BuildTypes, Outputs
  <2>2. UNCHANGED <<releaseVars, pc, loc>> /\ faults' \in 0 .. MaxFaults
    BY <1>6, <1>a DEF TagArtifact
  <2> QED
    BY <2>1, <2>2, <1>b, TypeParts
<1> QED
  BY <1>1, <1>2, <1>3, <1>4, <1>5, <1>6

LEMMA PrepareStepTyped ==
  ASSUME TypeOK, PrepShape, NEW p \in Preparers,
         Prepares(p) \/ \E b \in Builds : PrepareCheck(p, b)
  PROVE  TypeOK'
<1>a. /\ BuildTypes /\ ReleaseTypes /\ ProcTypes /\ faults \in 0 .. MaxFaults
      /\ build \in [Builds -> BuildStatuses]
      /\ ended \in [Builds -> BuildStatuses \cup {None}]
      /\ prep \in [Preparers -> PrepType]
  BY TypeParts DEF BuildTypes
<1>b. ASSUME UNCHANGED <<releaseVars, pc, loc, faults>>
      PROVE  ReleaseTypes' /\ ProcTypes' /\ faults' \in 0 .. MaxFaults
  BY <1>a, <1>b DEF releaseVars, ReleaseTypes, ProcTypes
<1>c. prep[p].at # "idle" => prep[p].b \in Builds
  BY DEF PrepShape
<1>1. ASSUME NEW b \in Builds, PrepareCheck(p, b) PROVE TypeOK'
  <2>1. prep' \in [Preparers -> PrepType]
    BY <1>1, <1>a, PrepTyped DEF PrepareCheck
  <2>2. BuildTypes'
    BY <1>1, <1>a, <2>1 DEF PrepareCheck, BuildTypes
  <2> QED
    BY <1>1, <2>2, <1>b, TypeParts DEF PrepareCheck
<1>2. CASE PreparePersist(p)
  <2>1. prep' \in [Preparers -> PrepType]
    BY <1>2, <1>a, PrepTyped DEF PreparePersist
  <2>2. BuildTypes'
    BY <1>2, <1>a, <1>c, <2>1 DEF PreparePersist, PrepGoto, BuildTypes, BuildStatuses
  <2> QED
    BY <1>2, <2>2, <1>b, TypeParts DEF PreparePersist
<1>3. CASE GetSnapshot(p)
  <2>1. prep' \in [Preparers -> PrepType]
    BY <1>3, <1>a, PrepTyped DEF GetSnapshot
  <2>2. version' \in [Builds -> Versions \cup {None}]
    BY <1>3, <1>a, <1>c DEF GetSnapshot, PrepGoto, BuildTypes
  <2>3. BuildTypes'
    BY <1>3, <1>a, <2>1, <2>2 DEF GetSnapshot, BuildTypes
  <2> QED
    BY <1>3, <2>3, <1>b, TypeParts DEF GetSnapshot
<1>4. CASE CreateSnapshot(p)
  <2> DEFINE b == prep[p].b
  <2>0. b \in Builds
    BY <1>4, <1>c DEF CreateSnapshot, PrepGoto
  <2>1. prep' \in [Preparers -> PrepType]
    BY <1>4, <1>a, PrepTyped DEF CreateSnapshot
  <2>2. BuildTypes'
    BY <1>4, <1>a, <2>1 DEF CreateSnapshot, BuildTypes
  <2>3. created' = Append(created, b) /\ release' = [release EXCEPT ![b] = "pending"]
    BY <1>4 DEF CreateSnapshot
  <2>4. created' \in Seq(Builds) /\ Range(created') = Range(created) \cup {b}
    BY <1>a, <2>0, <2>3, Appended DEF ReleaseTypes
  <2> HIDE DEF b
  <2>p. plan' \in [Builds -> Plans \cup {NoPlan}]
    BY <1>4, <1>a DEF CreateSnapshot, ReleaseTypes
  <2>5. release' \in [Builds -> ReleaseStatuses] /\ \A a \in Builds : release'[a] # "none" <=> (release[a] # "none" \/ a = b)
    BY <1>a, <2>0, <2>3 DEF ReleaseTypes, ReleaseStatuses
  <2>6. Range(created') = {a \in Builds : release'[a] # "none"}
    BY <1>a, <2>0, <2>4, <2>5 DEF ReleaseTypes
  <2>7. ReleaseTypes'
    BY <1>4, <1>a, <2>p, <2>4, <2>5, <2>6 DEF CreateSnapshot, ReleaseTypes
  <2>8. ProcTypes' /\ faults' \in 0 .. MaxFaults
    BY <1>4, <1>a DEF CreateSnapshot, ProcTypes
  <2> QED
    BY <2>2, <2>7, <2>8, TypeParts
<1>5. CASE SnapshotConflict(p)
  <2>0. prep[p].b \in Builds
    BY <1>5, <1>c DEF SnapshotConflict, PrepDone
  <2>1. prep' \in [Preparers -> PrepType]
    BY <1>5, <1>a, PrepTyped DEF SnapshotConflict
  <2>2. build' \in [Builds -> BuildStatuses] /\ ended' \in [Builds -> BuildStatuses \cup {None}]
    BY <1>5, <1>a, <2>0, EndsTyped DEF SnapshotConflict
  <2>3. BuildTypes'
    BY <1>5, <1>a, <2>1, <2>2 DEF SnapshotConflict, BuildTypes
  <2> QED
    BY <1>5, <2>3, <1>b, TypeParts DEF SnapshotConflict
<1>6. CASE PrepareEnds(p)
  <2>1. prep' \in [Preparers -> PrepType]
    BY <1>6, <1>a, PrepTyped DEF PrepareEnds
  <2>2. build' \in [Builds -> BuildStatuses]
    BY <1>6, <1>a DEF PrepareEnds, BuildStatuses
  <2>3. BuildTypes'
    BY <1>6, <1>a, <2>1, <2>2 DEF PrepareEnds, BuildTypes
  <2> QED
    BY <1>6, <2>3, <1>b, TypeParts DEF PrepareEnds
<1> QED
  BY <1>1, <1>2, <1>3, <1>4, <1>5, <1>6 DEF Prepares

(* What a transaction does to the releases and its own state. *)
LEMMA ReleaseStepTyped ==
  ASSUME TypeOK, NEW b \in Builds, ReleaseTypes, ProcTypes
  PROVE  /\ FailBuildRelease(b) => BuildTypes' /\ ReleaseTypes'
         /\ \A s \in Servers : ReconcileWaits(s, b) => ReleaseTypes' /\ ProcTypes'
<1>a. /\ release \in [Builds -> ReleaseStatuses] /\ published \in [Builds -> SUBSET Outputs]
      /\ durable \in [Builds -> SUBSET Outputs]
      /\ ended \in [Builds -> BuildStatuses \cup {None}]
  BY Typed
<1>b. ASSUME \/ release' = release
             \/ release[b] = "pending" /\ release' = [release EXCEPT ![b] = "failed"]
      PROVE  /\ release' \in [Builds -> ReleaseStatuses]
             /\ {a \in Builds : release'[a] # "none"} = {a \in Builds : release[a] # "none"}
  BY <1>a, <1>b DEF ReleaseStatuses
<1>1. ASSUME FailBuildRelease(b) PROVE BuildTypes' /\ ReleaseTypes'
  <2>1. ended' \in [Builds -> BuildStatuses \cup {None}]
    BY <1>1, <1>a DEF FailBuildRelease
  <2>2. BuildTypes'
    BY <1>1, <2>1, TypeParts DEF FailBuildRelease, BuildTypes
  <2>3. \/ release' = release
        \/ release[b] = "pending" /\ release' = [release EXCEPT ![b] = "failed"]
    BY <1>1 DEF FailBuildRelease
  <2>4. ReleaseTypes'
    BY <1>1, <1>b, <2>3 DEF FailBuildRelease, ReleaseTypes
  <2> QED
    BY <2>2, <2>4
<1>2. ASSUME NEW s \in Servers, ReconcileWaits(s, b) PROVE ReleaseTypes' /\ ProcTypes'
  <2>1. \/ release' = release
        \/ release[b] = "pending" /\ release' = [release EXCEPT ![b] = "failed"]
    BY <1>2 DEF ReconcileWaits
  <2>2. published' \in [Builds -> SUBSET Outputs]
    BY <1>2, <1>a DEF ReconcileWaits
  <2>3. ReleaseTypes'
    BY <1>2, <1>b, <2>1, <2>2 DEF ReconcileWaits, ReleaseTypes
  <2>4. ProcTypes'
    BY <1>2, RoundTyped DEF ReconcileWaits, ProcTypes, Procs
  <2> QED
    BY <2>3, <2>4
<1> QED
  BY <1>1, <1>2

(* A transaction comes to the channel, or to the insertion of its row. *)
LEMMA EnterTyped ==
  ASSUME ProcTypes, NEW p \in Procs, NEW b \in Builds,
         \/ pc' = [pc EXCEPT ![p] = "move"] /\ loc' = [loc EXCEPT ![p].b = b]
         \/ pc' = [pc EXCEPT ![p] = "insert"] /\ loc' = loc
         \/ pc' = [pc EXCEPT ![p] = "idle"] /\ loc' = [loc EXCEPT ![p] = Idle]
         \/ /\ pc' = [pc EXCEPT ![p] = "next"]
            /\ \E S \in SUBSET Builds : loc' = [loc EXCEPT ![p].todo = S]
  PROVE  ProcTypes'
<1>1. loc' \in [Procs -> LocType]
  BY DEF ProcTypes, LocType, Idle
<1> QED
  BY <1>1 DEF ProcTypes

(* A release is completed, with a channel moved or not. *)
LEMMA CompleteTyped ==
  ASSUME TypeOK, NEW b \in Builds, Complete(b), release[b] # "none", ProcTypes',
         channel' \in [Channels -> Builds \cup {None}], events' \in [Channels -> Seq(Builds)]
  PROVE  TypeOK'
<1>a. /\ release \in [Builds -> ReleaseStatuses] /\ published \in [Builds -> SUBSET Outputs]
      /\ durable \in [Builds -> SUBSET Outputs]
      /\ BuildTypes /\ ReleaseTypes /\ faults \in 0 .. MaxFaults
  BY Typed, TypeParts
<1>b. /\ release' = [release EXCEPT ![b] = "complete"]
      /\ published' = [published EXCEPT ![b] = @ \cup (durable[b] \cap plan[b].outputs)]
      /\ UNCHANGED <<buildVars, plan, created, faults>>
  BY DEF Complete
<1>e. /\ release' \in [Builds -> ReleaseStatuses]
      /\ {a \in Builds : release'[a] # "none"} = {a \in Builds : release[a] # "none"}
      /\ published' \in [Builds -> SUBSET Outputs]
  BY <1>a, <1>b DEF ReleaseStatuses
<1>1. ReleaseTypes'
  BY <1>a, <1>b, <1>e DEF ReleaseTypes
<1>2. BuildTypes' /\ faults' \in 0 .. MaxFaults
  BY <1>a, <1>b DEF BuildTypes, buildVars
<1> QED
  BY <1>1, <1>2, TypeParts

LEMMA CommitTyped ==
  ASSUME TypeOK, NEW p \in Procs, loc[p].b \in Builds, Commit(p),
         release[loc[p].b] # "none", Point(p) \/ UNCHANGED <<channel, events>>
  PROVE  TypeOK'
<1>1. channel' \in [Channels -> Builds \cup {None}] /\ events' \in [Channels -> Seq(Builds)]
  BY Typed, PointTyped
<1>2. ProcTypes'
  BY RoundTyped DEF Commit, ProcTypes
<1> QED
  BY <1>1, <1>2, CompleteTyped DEF Commit

(* A transaction that has come to the channel has a release. *)
LEMMA HasRelease ==
  ASSUME TransactionShape, NEW p \in Procs, InChannel(p)
  PROVE  loc[p].b \in Builds /\ release[loc[p].b] \in {"pending", "complete"}
  BY DEF TransactionShape, Procs

LEMMA TypeKept == TypeOK /\ PrepShape /\ TransactionShape /\ [Next]_vars => TypeOK'
<1> SUFFICES ASSUME TypeOK, PrepShape, TransactionShape, [Next]_vars PROVE TypeOK'
  OBVIOUS
<1>a. BuildTypes /\ ReleaseTypes /\ ProcTypes /\ faults \in 0 .. MaxFaults
  BY TypeParts
<1>b. ASSUME UNCHANGED <<buildVars, releaseVars, faults>>, ProcTypes' PROVE TypeOK'
  <2>1. BuildTypes' /\ ReleaseTypes' /\ faults' \in 0 .. MaxFaults
    BY <1>a, <1>b DEF BuildTypes, ReleaseTypes, buildVars, releaseVars
  <2> QED
    BY <1>b, <2>1, TypeParts
<1>c. Builds # {} /\ Servers \subseteq Procs /\ Clients \subseteq Procs
  BY ReleaseAssumption DEF Builds, Procs
<1>1. ASSUME NEW p \in Preparers, Prepares(p) \/ \E b \in Builds : PrepareCheck(p, b) PROVE TypeOK'
  BY <1>1, PrepareStepTyped
<1>2. ASSUME NEW b \in Builds,
             \/ BuildSucceeds(b) \/ TaggingLost(b) \/ PostTerminalLost(b)
             \/ \E st \in {"failed", "canceled"} : BuildEndsOtherwise(b, st)
             \/ \E o \in Images : PublishImage(b, o)
             \/ \E o \in Artifacts : TagArtifact(b, o)
      PROVE  TypeOK'
  BY <1>2, BuildStepTyped
<1>3. ASSUME NEW b \in Builds, FailBuildRelease(b) PROVE TypeOK'
  <2>1. BuildTypes' /\ ReleaseTypes'
    BY <1>3, <1>a, ReleaseStepTyped
  <2>2. ProcTypes' /\ faults' \in 0 .. MaxFaults
    BY <1>3, <1>a DEF FailBuildRelease, ProcTypes
  <2> QED
    BY <2>1, <2>2, TypeParts
<1>4. ASSUME NEW s \in Servers, ListPending(s) PROVE TypeOK'
  <2> DEFINE listed == {b \in {b \in Builds : release[b] = "pending"} :
                          Cardinality({a \in {a \in Builds : release[a] = "pending"} : Older(a, b)}) < Limit}
  <2>1. /\ pc' = [pc EXCEPT ![s] = "next"] /\ loc' = [loc EXCEPT ![s].todo = listed]
        /\ listed \in SUBSET Builds
    BY <1>4 DEF ListPending
  <2>2. PICK b : b \in Builds
    BY <1>c
  <2>3. ProcTypes'
    BY <1>a, <1>c, <2>1, <2>2, EnterTyped
  <2> QED
    BY <1>4, <1>b, <2>3 DEF ListPending
<1>5. ASSUME NEW s \in Servers, NEW b \in Builds, ReconcileWaits(s, b) PROVE TypeOK'
  <2>1. ReleaseTypes' /\ ProcTypes'
    BY <1>5, <1>a, ReleaseStepTyped
  <2>2. BuildTypes' /\ faults' \in 0 .. MaxFaults
    BY <1>5, <1>a DEF ReconcileWaits, BuildTypes, buildVars
  <2> QED
    BY <2>1, <2>2, TypeParts
<1>r. ASSUME NEW s \in Servers, NEW b \in Builds, ReconcileRefused(s, b) PROVE TypeOK'
  BY <1>r, <1>b, <1>c, RoundTyped DEF ReconcileRefused, ProcTypes
<1>s. ASSUME NEW s \in Servers, NEW b \in Builds, ReconcileCompletes(s, b) PROVE TypeOK'
  <2>1. ProcTypes'
    BY <1>s, <1>c, RoundTyped DEF ReconcileCompletes, ProcTypes
  <2>2. channel' \in [Channels -> Builds \cup {None}] /\ events' \in [Channels -> Seq(Builds)]
    BY <1>s, Typed DEF ReconcileCompletes
  <2>3. Complete(b) /\ release[b] # "none"
    BY <1>s DEF ReconcileCompletes, Completes
  <2> QED
    BY <2>1, <2>2, <2>3, CompleteTyped
<1>6. ASSUME NEW s \in Servers, NEW b \in Builds, ReconcileToLatest(s, b) PROVE TypeOK'
  <2>1. ProcTypes'
    BY <1>6, <1>a, <1>c, EnterTyped DEF ReconcileToLatest
  <2> QED
    BY <1>6, <1>b, <2>1 DEF ReconcileToLatest
<1>7. ASSUME NEW c \in Clients, NEW b \in Builds, PromoteStable(c, b) PROVE TypeOK'
  <2>1. ProcTypes'
    BY <1>7, <1>a, <1>c, EnterTyped DEF PromoteStable
  <2> QED
    BY <1>7, <1>b, <2>1 DEF PromoteStable
<1>8. ASSUME NEW p \in Procs, Transacts(p) PROVE TypeOK'
  <2>1. InChannel(p)
    BY <1>8 DEF Transacts, MoveChannel, NoChannel, InsertChannel, InChannel
  <2>2. loc[p].b \in Builds /\ release[loc[p].b] # "none"
    BY <2>1, HasRelease
  <2>3. CASE MoveChannel(p)
    BY <2>2, <2>3, CommitTyped DEF MoveChannel
  <2>4. CASE NoChannel(p)
    <3>1. ProcTypes'
      BY <2>2, <2>4, <1>a, EnterTyped DEF NoChannel
    <3> QED
      BY <2>4, <1>b, <3>1 DEF NoChannel
  <2>5. CASE InsertChannel(p)
    <3>1. CASE Point(p) /\ Commit(p)
      BY <2>2, <3>1, CommitTyped
    <3>2. CASE NextRelease(p, loc[p].b) /\ UNCHANGED <<buildVars, releaseVars, faults>>
      BY <3>2, <1>b, RoundTyped DEF ProcTypes
    <3> QED
      BY <2>5, <3>1, <3>2 DEF InsertChannel
  <2> QED
    BY <1>8, <2>3, <2>4, <2>5 DEF Transacts
<1>9. ASSUME NEW p \in Procs, Aborts(p) PROVE TypeOK'
  <2>1. PICK b : b \in Builds
    BY <1>c
  <2>2. ProcTypes'
    BY <1>9, <1>a, <2>1, EnterTyped DEF Aborts
  <2>3. BuildTypes' /\ ReleaseTypes' /\ faults' \in 0 .. MaxFaults
    BY <1>9, <1>a, FaultTyped DEF Aborts, BuildTypes, ReleaseTypes, buildVars, releaseVars
  <2> QED
    BY <2>2, <2>3, TypeParts
<1>10. CASE UNCHANGED vars
  <2>1. UNCHANGED <<buildVars, releaseVars, faults>> /\ ProcTypes'
    BY <1>10, <1>a DEF vars, ProcTypes
  <2> QED
    BY <2>1, <1>b
<1> QED
  BY <1>c, <1>1, <1>2, <1>3, <1>4, <1>5, <1>r, <1>s, <1>6, <1>7, <1>8, <1>9, <1>10 DEF Next, Reconciles

-----------------------------------------------------------------------------
(* What a step may do to the releases, the channels and the transactions   *)

(* Nobody comes to the channel. *)
NobodyEnters ==
    \A p \in Procs : pc'[p] \in {"move", "insert"} => InChannel(p) /\ loc'[p].b = loc[p].b

(* Nobody comes to the channel, no release is created or completed; one    *)
(* that nobody has locked may fail, and pending ones may publish.          *)
Keeps ==
    /\ \A b \in Builds :
        /\ durable[b] \subseteq durable'[b]
        /\ version[b] # None => version'[b] = version[b]
        /\ \/ release'[b] = release[b]
           \/ release[b] = "pending" /\ release'[b] = "failed" /\ ~Locked(b)
        /\ \/ published'[b] = published[b]
           \/ release[b] = "pending" /\ published'[b] \subseteq durable'[b] \cap plan[b].outputs
    /\ UNCHANGED <<plan, channel, events>>
    /\ NobodyEnters

(* A transaction has locked a release and comes to the channel. *)
Enters(p, b) ==
    /\ ~Locked(b)
    /\ p \in Servers => release[b] = "pending" /\ AllOutputs(b) /\ plan[b].auto
    /\ p \in Clients => release[b] = "complete"
    /\ pc' = [pc EXCEPT ![p] = "move"]
    /\ loc' = [loc EXCEPT ![p].b = b]
    /\ UNCHANGED <<buildVars, releaseVars>>

(* A release that nobody has locked is completed without a channel. *)
Settles(b) ==
    /\ ~Locked(b)
    /\ release[b] = "pending" /\ AllOutputs(b) /\ ~plan[b].auto
    /\ Complete(b)
    /\ UNCHANGED <<channel, events>>
    /\ NobodyEnters

(* A transaction commits. *)
Commits(p) ==
    /\ InChannel(p)
    /\ \/ channel[ChannelOf(p)] # None /\ Moves(p) /\ Point(p)
       \/ channel[ChannelOf(p)] # None /\ ~Moves(p) /\ UNCHANGED <<channel, events>>
       \/ channel[ChannelOf(p)] = None /\ Point(p)
    /\ Commit(p)

(* Most steps leave releases and transactions alone. *)
LEMMA AloneKeeps ==
  ASSUME TypeOK, UNCHANGED <<releaseVars, pc, loc>>, version' = version,
         \A b \in Builds : durable[b] \subseteq durable'[b]
  PROVE  Keeps
  BY DEF Keeps, NobodyEnters, releaseVars, InChannel

(* As does a transaction that leaves the channel. *)
LEMMA LeavingKeeps ==
  ASSUME UNCHANGED <<buildVars, releaseVars>>, NobodyEnters
  PROVE  Keeps
  BY DEF Keeps, releaseVars, buildVars

LEMMA RoundKeeps ==
  ASSUME TypeOK, NEW p \in Procs, NEW b, NextRelease(p, b)
  PROVE  NobodyEnters
  BY RoundTyped DEF InChannel, NobodyEnters

LEMMA StepKinds ==
  ASSUME TypeOK, PrepShape, ReleaseShape, TransactionShape, [Next]_vars
  PROVE  \/ Keeps
         \/ \E p \in Preparers : CreateSnapshot(p)
         \/ \E p \in Procs, b \in Builds : Enters(p, b)
         \/ \E b \in Builds : Settles(b)
         \/ \E p \in Procs : Commits(p)
<1>a. Servers \subseteq Procs /\ Clients \subseteq Procs /\ Servers \cap Clients = {}
  BY ReleaseAssumption DEF Procs
<1>t. /\ durable \in [Builds -> SUBSET Outputs] /\ version \in [Builds -> Versions \cup {None}]
      /\ release \in [Builds -> ReleaseStatuses] /\ published \in [Builds -> SUBSET Outputs]
      /\ pc \in [Procs -> {"idle", "next", "move", "insert"}] /\ loc \in [Procs -> LocType]
  BY Typed
<1>1. ASSUME NEW p \in Preparers, Prepares(p) \/ \E b \in Builds : PrepareCheck(p, b)
      PROVE  Keeps \/ CreateSnapshot(p)
  <2>1. CASE GetSnapshot(p)
    <3>1. prep[p].b \in Builds
      BY <2>1 DEF GetSnapshot, PrepGoto, PrepShape
    <3>2. \A b \in Builds : version[b] # None => version'[b] = version[b]
      BY <1>t, <2>1, <3>1 DEF GetSnapshot
    <3>3. UNCHANGED <<durable, releaseVars, pc, loc>>
      BY <2>1 DEF GetSnapshot
    <3> QED
      BY <3>2, <3>3 DEF Keeps, NobodyEnters, releaseVars, InChannel
  <2>2. CASE \/ PreparePersist(p) \/ SnapshotConflict(p) \/ PrepareEnds(p)
             \/ \E b \in Builds : PrepareCheck(p, b)
    <3>1. UNCHANGED <<version, durable, releaseVars, pc, loc>>
      BY <2>2 DEF PreparePersist, SnapshotConflict, PrepareEnds, PrepareCheck
    <3> QED
      BY <3>1, AloneKeeps
  <2> QED
    BY <1>1, <2>1, <2>2 DEF Prepares
<1>2. ASSUME NEW b \in Builds,
             \/ BuildSucceeds(b) \/ TaggingLost(b) \/ PostTerminalLost(b)
             \/ \E st \in {"failed", "canceled"} : BuildEndsOtherwise(b, st)
             \/ \E o \in Images : PublishImage(b, o)
             \/ \E o \in Artifacts : TagArtifact(b, o)
      PROVE  Keeps
  <2>1. UNCHANGED <<version, releaseVars, pc, loc>>
    BY <1>2 DEF BuildSucceeds, TaggingLost, PostTerminalLost, BuildEndsOtherwise, PublishImage,
                TagArtifact
  <2>2. durable' = durable \/ \E o : durable' = [durable EXCEPT ![b] = @ \cup {o}]
    BY <1>2 DEF BuildSucceeds, TaggingLost, PostTerminalLost, BuildEndsOtherwise, PublishImage,
                TagArtifact
  <2>3. \A a \in Builds : durable[a] \subseteq durable'[a]
    BY <1>t, <2>2
  <2> QED
    BY <2>1, <2>3, AloneKeeps
<1>3. ASSUME NEW b \in Builds, FailBuildRelease(b) PROVE Keeps
  <2>1. /\ UNCHANGED <<durable, version, plan, published, channel, events, pc, loc>>
        /\ ~Locked(b)
        /\ \/ release' = release
           \/ release[b] = "pending" /\ release' = [release EXCEPT ![b] = "failed"]
    BY <1>3 DEF FailBuildRelease
  <2> QED
    BY <1>t, <2>1 DEF Keeps, NobodyEnters, InChannel
<1>4. ASSUME NEW s \in Servers, ListPending(s) PROVE Keeps
  <2>1. NobodyEnters
    BY <1>a, <1>t, <1>4 DEF ListPending, InChannel, NobodyEnters
  <2> QED
    BY <1>4, <2>1, LeavingKeeps DEF ListPending
<1>5. ASSUME NEW s \in Servers, NEW b \in Builds, ReconcileWaits(s, b) PROVE Keeps
  <2>1. NobodyEnters
    BY <1>a, <1>5, RoundKeeps DEF ReconcileWaits
  <2>2. /\ UNCHANGED <<durable, version, plan, channel, events>>
        /\ ~Locked(b)
        /\ \/ release' = release
           \/ release[b] = "pending" /\ release' = [release EXCEPT ![b] = "failed"]
        /\ \/ published' = published
           \/ /\ release[b] = "pending"
              /\ published' = [published EXCEPT ![b] = published[b] \cup (durable[b] \cap plan[b].outputs)]
    BY <1>5 DEF ReconcileWaits, Turn, buildVars
  <2>3. \A a \in Builds : \/ published'[a] = published[a]
                          \/ /\ release[a] = "pending"
                             /\ published'[a] \subseteq durable'[a] \cap plan[a].outputs
    BY <1>t, <2>2 DEF ReleaseShape
  <2> QED
    BY <1>t, <2>1, <2>2, <2>3 DEF Keeps
<1>r. ASSUME NEW s \in Servers, NEW b \in Builds, ReconcileRefused(s, b) PROVE Keeps
  BY <1>r, <1>a, RoundKeeps, LeavingKeeps DEF ReconcileRefused
<1>s. ASSUME NEW s \in Servers, NEW b \in Builds, ReconcileCompletes(s, b) PROVE Settles(b)
  BY <1>s, <1>a, RoundKeeps DEF ReconcileCompletes, Completes, Turn, Settles
<1>6. ASSUME NEW s \in Servers, NEW b \in Builds, ReconcileToLatest(s, b) PROVE Enters(s, b)
  BY <1>6, <1>a DEF ReconcileToLatest, Completes, Turn, Enters
<1>7. ASSUME NEW c \in Clients, NEW b \in Builds, PromoteStable(c, b) PROVE Enters(c, b)
  BY <1>7, <1>a DEF PromoteStable, Enters
<1>8. ASSUME NEW p \in Procs, Transacts(p) PROVE Keeps \/ Commits(p)
  <2>1. CASE MoveChannel(p)
    BY <2>1 DEF MoveChannel, Commits, InChannel
  <2>2. CASE NoChannel(p)
    <3>1. NobodyEnters
      BY <1>t, <2>2 DEF NoChannel, InChannel, NobodyEnters
    <3> QED
      BY <2>2, <3>1, LeavingKeeps DEF NoChannel
  <2>3. CASE InsertChannel(p)
    <3>1. CASE channel[ChannelOf(p)] = None /\ Point(p) /\ Commit(p)
      BY <2>3, <3>1 DEF InsertChannel, Commits, InChannel
    <3>2. CASE NextRelease(p, loc[p].b) /\ UNCHANGED <<buildVars, releaseVars>>
      BY <3>2, RoundKeeps, LeavingKeeps
    <3> QED
      BY <2>3, <3>1, <3>2 DEF InsertChannel
  <2> QED
    BY <1>8, <2>1, <2>2, <2>3 DEF Transacts
<1>9. ASSUME NEW p \in Procs, Aborts(p) PROVE Keeps
  <2>1. NobodyEnters
    BY <1>t, <1>9 DEF Aborts, InChannel, NobodyEnters
  <2> QED
    BY <1>9, <2>1, LeavingKeeps DEF Aborts
<1>10. CASE UNCHANGED vars
  <2>1. UNCHANGED <<buildVars, releaseVars, pc, loc>>
    BY <1>10 DEF vars
  <2> QED
    BY <2>1, LeavingKeeps DEF InChannel, NobodyEnters
<1> QED
  BY <1>a, <1>1, <1>2, <1>3, <1>4, <1>5, <1>r, <1>s, <1>6, <1>7, <1>8, <1>9, <1>10 DEF Next, Reconciles

-----------------------------------------------------------------------------
(* The conjuncts *)

LEMMA PrepKept == TypeOK /\ PrepShape /\ [Next]_vars => PrepShape'
<1> SUFFICES ASSUME TypeOK, PrepShape, [Next]_vars PROVE PrepShape'
  OBVIOUS
<1>t. prep \in [Preparers -> PrepType] /\ version \in [Builds -> Versions \cup {None}]
  BY Typed
<1>v. None \notin Versions
  BY ReleaseAssumption
<1>1. ASSUME NEW p \in Preparers, Prepares(p) \/ \E b \in Builds : PrepareCheck(p, b)
      PROVE  PrepShape'
  <2>1. ASSUME NEW b \in Builds, PrepareCheck(p, b) PROVE PrepShape'
    BY <1>t, <2>1 DEF PrepareCheck, PrepShape
  <2>2. CASE GetSnapshot(p)
    <3> DEFINE b == prep[p].b
    <3>1. b \in Builds /\ prep[p].at = "get"
      BY <2>2 DEF GetSnapshot, PrepGoto, PrepShape
    <3>2. \E v \in Versions : version' = [version EXCEPT ![b] = IF @ = None THEN v ELSE @]
      BY <2>2 DEF GetSnapshot
    <3>3. \E next \in {"create", "toRunning"} : prep' = [prep EXCEPT ![p].at = next]
      BY <2>2 DEF GetSnapshot, PrepGoto
    <3>4. prep'[p].b = b /\ \A q \in Preparers \ {p} : prep'[q] = prep[q]
      BY <1>t, <3>3 DEF PrepType
    <3> HIDE DEF b
    <3>5. version'[b] # None /\ \A a \in Builds : version[a] # None => version'[a] # None
      BY <1>t, <1>v, <3>1, <3>2
    <3> QED
      BY <3>1, <3>4, <3>5 DEF PrepShape
  <2>3. CASE PreparePersist(p) \/ CreateSnapshot(p)
    <3>1. \/ PrepGoto(p, "toPreparing", "get")
          \/ PrepGoto(p, "create", "toRunning")
      BY <2>3 DEF PreparePersist, CreateSnapshot
    <3>2. version' = version
      BY <2>3 DEF PreparePersist, CreateSnapshot
    <3> QED
      BY <1>t, <3>1, <3>2 DEF PrepGoto, PrepShape, PrepType
  <2>4. CASE SnapshotConflict(p) \/ PrepareEnds(p)
    <3>1. PrepDone(p, "create") \/ PrepDone(p, "toRunning")
      BY <2>4 DEF SnapshotConflict, PrepareEnds
    <3>2. version' = version
      BY <2>4 DEF SnapshotConflict, PrepareEnds
    <3> QED
      BY <1>t, <3>1, <3>2 DEF PrepDone, PrepShape, Free
  <2> QED
    BY <1>1, <2>1, <2>2, <2>3, <2>4 DEF Prepares
<1>2. ASSUME UNCHANGED <<prep, version>> PROVE PrepShape'
  BY <1>2 DEF PrepShape
<1>3. ASSUME NEW b \in Builds,
             \/ BuildSucceeds(b) \/ TaggingLost(b) \/ FailBuildRelease(b) \/ PostTerminalLost(b)
             \/ \E st \in {"failed", "canceled"} : BuildEndsOtherwise(b, st)
             \/ \E o \in Images : PublishImage(b, o)
             \/ \E o \in Artifacts : TagArtifact(b, o)
      PROVE  UNCHANGED <<prep, version>>
  BY <1>3 DEF BuildSucceeds, TaggingLost, FailBuildRelease, PostTerminalLost, BuildEndsOtherwise,
              PublishImage, TagArtifact
<1>4. ASSUME NEW p \in Procs,
             \/ Reconciles(p) \/ Transacts(p) \/ Aborts(p)
             \/ \E b \in Builds : PromoteStable(p, b)
      PROVE  UNCHANGED <<prep, version>>
  BY <1>4 DEF Reconciles, ListPending, ReconcileWaits, ReconcileRefused, ReconcileCompletes,
              ReconcileToLatest, Transacts, MoveChannel, NoChannel, InsertChannel, Commit, Complete,
              Aborts, PromoteStable, buildVars
<1>5. CASE UNCHANGED vars
  BY <1>2, <1>5 DEF vars, buildVars
<1> QED
  BY <1>1, <1>2, <1>3, <1>4, <1>5 DEF Next, Procs

(* What a completion does to its release, and to no other. *)
LEMMA CompleteEffect ==
  ASSUME TypeOK, ReleaseShape, NEW b \in Builds, Complete(b), AllOutputs(b)
  PROVE  /\ release'[b] = "complete" /\ published'[b] = plan[b].outputs
         /\ \A a \in Builds \ {b} : release'[a] = release[a] /\ published'[a] = published[a]
         /\ UNCHANGED <<version, durable, plan>>
<1>1. /\ release' = [release EXCEPT ![b] = "complete"]
      /\ published' = [published EXCEPT ![b] = published[b] \cup (durable[b] \cap plan[b].outputs)]
      /\ UNCHANGED <<version, durable, plan>>
  BY DEF Complete, buildVars
<1>2. published[b] \cup (durable[b] \cap plan[b].outputs) = plan[b].outputs
  BY DEF ReleaseShape, AllOutputs
<1>3. release \in [Builds -> ReleaseStatuses] /\ published \in [Builds -> SUBSET Outputs]
  BY Typed
<1> QED
  BY <1>1, <1>2, <1>3

LEMMA CommitEffect ==
  ASSUME TypeOK, ReleaseShape, TransactionShape, NEW p \in Procs, Commits(p)
  PROVE  /\ loc[p].b \in Builds
         /\ release[loc[p].b] \in {"pending", "complete"} /\ AllOutputs(loc[p].b)
         /\ release'[loc[p].b] = "complete" /\ published'[loc[p].b] = plan[loc[p].b].outputs
         /\ \A a \in Builds \ {loc[p].b} : release'[a] = release[a] /\ published'[a] = published[a]
         /\ UNCHANGED <<version, durable, plan>>
         /\ ~(pc'[p] \in {"move", "insert"})
         /\ \A q \in Procs \ {p} : pc'[q] = pc[q] /\ loc'[q] = loc[q]
<1>1. loc[p].b \in Builds /\ release[loc[p].b] \in {"pending", "complete"} /\ InChannel(p)
  BY HasRelease DEF Commits
<1>2. AllOutputs(loc[p].b)
  BY <1>1 DEF TransactionShape, ReleaseShape, AllOutputs, Procs
<1>3. Complete(loc[p].b) /\ NextRelease(p, loc[p].b)
  BY DEF Commits, Commit
<1>4. /\ ~(pc'[p] \in {"move", "insert"})
      /\ \A q \in Procs \ {p} : pc'[q] = pc[q] /\ loc'[q] = loc[q]
  BY <1>3, RoundTyped
<1> QED
  BY <1>1, <1>2, <1>3, <1>4, CompleteEffect

(* A release that is completed with all its outputs. *)
LEMMA CompletedShape ==
  ASSUME TypeOK, ReleaseShape, NEW b \in Builds, release[b] # "none", AllOutputs(b),
         release'[b] = "complete", published'[b] = plan[b].outputs,
         \A a \in Builds \ {b} : release'[a] = release[a] /\ published'[a] = published[a],
         UNCHANGED <<version, durable, plan>>
  PROVE  ReleaseShape'
<1>1. \A a \in Builds : release'[a] # "none" => release[a] # "none"
  OBVIOUS
<1>2. \A a \in Builds : published'[a] \subseteq durable[a] /\ published'[a] \subseteq plan[a].outputs
  BY DEF ReleaseShape, AllOutputs
<1>3. \A a \in Builds : /\ release'[a] = "none" => published'[a] = {}
                        /\ release'[a] = "complete" => published'[a] = plan[a].outputs
  BY DEF ReleaseShape
<1> QED
  BY <1>1, <1>2, <1>3 DEF ReleaseShape

LEMMA ReleaseKept ==
  TypeOK /\ PrepShape /\ ReleaseShape /\ TransactionShape /\ [Next]_vars => ReleaseShape'
<1> SUFFICES ASSUME TypeOK, PrepShape, ReleaseShape, TransactionShape, [Next]_vars
             PROVE  ReleaseShape'
  OBVIOUS
<1>1. CASE Keeps
  <2>1. \A b \in Builds : release'[b] # "none" => release[b] # "none" /\ version'[b] = version[b]
    BY <1>1 DEF Keeps, ReleaseShape
  <2>2. \A b \in Builds : release'[b] \in {"none", "complete"} =>
           release'[b] = release[b] /\ published'[b] = published[b]
    BY <1>1 DEF Keeps
  <2>3. \A b \in Builds : published'[b] \subseteq durable'[b] /\ published'[b] \subseteq plan[b].outputs
    BY <1>1 DEF Keeps, ReleaseShape
  <2>4. plan' = plan
    BY <1>1 DEF Keeps
  <2>5. \A b \in Builds : /\ release'[b] = "none" => published'[b] = {}
                          /\ release'[b] = "complete" => published'[b] = plan[b].outputs
    BY <2>2 DEF ReleaseShape
  <2> QED
    BY <2>1, <2>3, <2>4, <2>5 DEF ReleaseShape
<1>2. ASSUME NEW p \in Preparers, CreateSnapshot(p) PROVE ReleaseShape'
  <2> DEFINE b == prep[p].b
  <2>1. b \in Builds /\ version[b] # None /\ ~Conflicts(b)
    BY <1>2 DEF CreateSnapshot, PrepGoto, PrepShape
  <2>2. /\ UNCHANGED <<version, durable, published>> /\ release' = [release EXCEPT ![b] = "pending"]
        /\ \E declared \in Plans : plan' = [plan EXCEPT ![b] = declared]
    BY <1>2 DEF CreateSnapshot
  <2>3. release \in [Builds -> ReleaseStatuses] /\ plan \in [Builds -> Plans \cup {NoPlan}]
    BY Typed
  <2> HIDE DEF b
  <2>4. /\ release'[b] = "pending" /\ \A a \in Builds \ {b} : release'[a] = release[a]
        /\ \A a \in Builds \ {b} : plan'[a] = plan[a]
    BY <2>1, <2>2, <2>3
  <2>5. \A a \in Builds : release[a] # "none" => version[a] # version[b]
    BY <2>1 DEF Conflicts
  <2>6. published[b] = {}
    BY <2>1 DEF Conflicts, ReleaseShape
  <2>7. \A a \in Builds : /\ published'[a] \subseteq plan'[a].outputs
                          /\ release'[a] = "none" => published'[a] = {}
                          /\ release'[a] = "complete" => published'[a] = plan'[a].outputs
    BY <2>2, <2>4, <2>6 DEF ReleaseShape
  <2> QED
    BY <2>1, <2>2, <2>4, <2>5, <2>7 DEF ReleaseShape
<1>3. ASSUME NEW p \in Procs, NEW b \in Builds, Enters(p, b) PROVE ReleaseShape'
  BY <1>3 DEF Enters, ReleaseShape, buildVars, releaseVars
<1>4. ASSUME NEW b \in Builds, Settles(b) PROVE ReleaseShape'
  BY <1>4, CompleteEffect, CompletedShape DEF Settles
<1>5. ASSUME NEW p \in Procs, Commits(p) PROVE ReleaseShape'
  BY <1>5, CommitEffect, CompletedShape
<1> QED
  BY <1>1, <1>2, <1>3, <1>4, <1>5, StepKinds

LEMMA TransactionKept ==
  TypeOK /\ PrepShape /\ ReleaseShape /\ TransactionShape /\ [Next]_vars => TransactionShape'
<1> SUFFICES ASSUME TypeOK, PrepShape, ReleaseShape, TransactionShape, [Next]_vars
             PROVE  TransactionShape'
  OBVIOUS
<1> DEFINE In(p) == pc'[p] \in {"move", "insert"}
           Fine(p) == In(p) =>
              /\ loc'[p].b \in Builds
              /\ p \in Servers => /\ release'[loc'[p].b] = "pending"
                                  /\ plan'[loc'[p].b].outputs \subseteq durable'[loc'[p].b]
                                  /\ plan'[loc'[p].b].auto
              /\ p \in Clients => release'[loc'[p].b] = "complete"
           Alone == \A p, q \in Procs : In(p) /\ In(q) /\ loc'[p].b = loc'[q].b => p = q
<1>a. ASSUME \A p \in Procs : Fine(p), Alone PROVE TransactionShape'
  BY <1>a DEF TransactionShape, InChannel, AllOutputs, Procs
<1>b. ASSUME NEW p \in Procs, InChannel(p)
      PROVE  /\ loc[p].b \in Builds
             /\ p \in Servers => /\ release[loc[p].b] = "pending"
                                 /\ plan[loc[p].b].outputs \subseteq durable[loc[p].b]
                                 /\ plan[loc[p].b].auto
             /\ p \in Clients => release[loc[p].b] = "complete"
  BY <1>b DEF TransactionShape, AllOutputs
<1>1. CASE Keeps
  <2>1. ASSUME NEW p \in Procs, In(p) PROVE InChannel(p) /\ loc'[p].b = loc[p].b
    BY <1>1, <2>1 DEF Keeps, NobodyEnters
  <2>2. ASSUME NEW p \in Procs, In(p) PROVE release'[loc[p].b] = release[loc[p].b]
    BY <1>1, <1>b, <2>1, <2>2 DEF Keeps, Locked, InChannel
  <2>3. \A p \in Procs : Fine(p)
    BY <1>1, <1>b, <2>1, <2>2 DEF Keeps
  <2>4. Alone
    BY <2>1 DEF TransactionShape
  <2> QED
    BY <1>a, <2>3, <2>4
<1>2. ASSUME NEW p \in Preparers, CreateSnapshot(p) PROVE TransactionShape'
  <2>1. /\ ~Conflicts(prep[p].b) /\ release' = [release EXCEPT ![prep[p].b] = "pending"]
        /\ \E declared \in Plans : plan' = [plan EXCEPT ![prep[p].b] = declared]
    BY <1>2 DEF CreateSnapshot
  <2>2. UNCHANGED <<durable, pc, loc>>
    BY <1>2 DEF CreateSnapshot
  <2>3. release \in [Builds -> ReleaseStatuses] /\ plan \in [Builds -> Plans \cup {NoPlan}]
    BY Typed
  <2>4. \A q \in Procs : InChannel(q) =>
           release'[loc[q].b] = release[loc[q].b] /\ plan'[loc[q].b] = plan[loc[q].b]
    BY <2>1, <2>3, HasRelease DEF Conflicts
  <2>5. \A q \in Procs : Fine(q)
    BY <1>b, <2>2, <2>4 DEF InChannel
  <2>6. Alone
    BY <2>2 DEF TransactionShape, InChannel
  <2> QED
    BY <1>a, <2>5, <2>6
<1>3. ASSUME NEW p \in Procs, NEW b \in Builds, Enters(p, b) PROVE TransactionShape'
  <2>1. pc \in [Procs -> {"idle", "next", "move", "insert"}] /\ loc \in [Procs -> LocType]
    BY Typed
  <2>2. /\ loc'[p].b = b
        /\ \A q \in Procs \ {p} : pc'[q] = pc[q] /\ loc'[q] = loc[q]
        /\ UNCHANGED <<release, plan, durable>>
    BY <1>3, <2>1 DEF Enters, LocType, buildVars, releaseVars
  <2>3. \A q \in Procs \ {p} : Fine(q)
    BY <1>b, <2>2 DEF InChannel
  <2>4. Fine(p)
    BY <1>3, <2>2 DEF Enters, AllOutputs
  <2>5. \A q \in Procs \ {p} : In(q) => loc'[q].b # b
    BY <1>3, <2>2 DEF Enters, Locked
  <2>6. Alone
    <3>1. ASSUME NEW q \in Procs, NEW r \in Procs, In(q), In(r), loc'[q].b = loc'[r].b,
                 q # p, r # p
          PROVE  q = r
      BY <2>2, <3>1 DEF TransactionShape, InChannel
    <3> QED
      BY <2>2, <2>5, <3>1
  <2> QED
    BY <1>a, <2>3, <2>4, <2>6
<1>s. ASSUME NEW b \in Builds, Settles(b) PROVE TransactionShape'
  <2>1. /\ \A a \in Builds \ {b} : release'[a] = release[a]
        /\ UNCHANGED <<plan, durable>> /\ ~Locked(b)
    BY <1>s, CompleteEffect DEF Settles
  <2>2. ASSUME NEW q \in Procs, In(q) PROVE InChannel(q) /\ loc'[q].b = loc[q].b
    BY <1>s, <2>2 DEF Settles, NobodyEnters
  <2>3. ASSUME NEW q \in Procs, In(q) PROVE loc[q].b # b
    BY <2>1, <2>2, <2>3 DEF Locked, InChannel
  <2>4. \A q \in Procs : Fine(q)
    BY <1>b, <2>1, <2>2, <2>3
  <2>5. Alone
    BY <2>2 DEF TransactionShape
  <2> QED
    BY <1>a, <2>4, <2>5
<1>4. ASSUME NEW p \in Procs, Commits(p) PROVE TransactionShape'
  <2>1. /\ \A a \in Builds \ {loc[p].b} : release'[a] = release[a]
        /\ UNCHANGED <<plan, durable>>
        /\ ~In(p)
        /\ \A q \in Procs \ {p} : pc'[q] = pc[q] /\ loc'[q] = loc[q]
    BY <1>4, CommitEffect
  <2>2. \A q \in Procs : In(q) => InChannel(q) /\ loc'[q].b = loc[q].b /\ q # p
    BY <2>1 DEF InChannel
  <2>3. ASSUME NEW q \in Procs, In(q) PROVE loc[q].b # loc[p].b
    BY <1>4, <2>2, <2>3 DEF TransactionShape, Commits
  <2>4. \A q \in Procs : Fine(q)
    BY <1>b, <2>1, <2>2, <2>3
  <2>5. Alone
    BY <2>2 DEF TransactionShape
  <2> QED
    BY <1>a, <2>4, <2>5
<1> QED
  BY <1>1, <1>2, <1>3, <1>s, <1>4, StepKinds

(* Build numbers are compared as integers. *)
LEMMA Newer == \A a, b, c \in Builds : /\ a >= a /\ (a > b => a >= b) /\ (~(a > b) => b >= a)
                                       /\ (a >= b /\ b >= c => a >= c)
  BY ReleaseAssumption DEF Builds

LEMMA LatestKept ==
  TypeOK /\ PrepShape /\ ReleaseShape /\ TransactionShape /\ LatestIsNewest /\ [Next]_vars
    => LatestIsNewest'
<1> SUFFICES ASSUME TypeOK, PrepShape, ReleaseShape, TransactionShape, LatestIsNewest, [Next]_vars
             PROVE  LatestIsNewest'
  OBVIOUS
<1>t. /\ channel \in [Channels -> Builds \cup {None}] /\ None \notin Builds
      /\ "latest" \in Channels
  BY Typed, ReleaseAssumption DEF Channels
<1>a. ASSUME UNCHANGED <<channel, events>>,
             \A b \in Builds : /\ release[b] = "complete" =>
                                  release'[b] = "complete" /\ plan'[b] = plan[b]
                               /\ release'[b] = "complete" => release[b] = "complete" \/ ~plan'[b].auto
      PROVE  LatestIsNewest'
  <2>1. \A b \in Builds : release'[b] = "complete" /\ plan'[b].auto =>
           channel["latest"] # None /\ channel["latest"] >= b
    <3> SUFFICES ASSUME NEW b \in Builds, release'[b] = "complete", plan'[b].auto
                 PROVE  channel["latest"] # None /\ channel["latest"] >= b
      OBVIOUS
    <3>1. release[b] = "complete" /\ plan'[b] = plan[b]
      BY <1>a
    <3>2. plan[b].auto
      BY <3>1
    <3> QED
      BY <3>1, <3>2 DEF LatestIsNewest
  <2>2. ASSUME NEW ch \in Channels, channel[ch] # None
        PROVE  /\ release'[channel[ch]] = "complete" /\ Last(events[ch]) = channel[ch]
               /\ ch = "latest" => plan'[channel[ch]].auto
    <3>1. /\ channel[ch] \in Builds /\ release[channel[ch]] = "complete"
          /\ Last(events[ch]) = channel[ch] /\ (ch = "latest" => plan[channel[ch]].auto)
      BY <1>t, <2>2 DEF LatestIsNewest
    <3>2. release'[channel[ch]] = "complete" /\ plan'[channel[ch]] = plan[channel[ch]]
      BY <1>a, <3>1
    <3>3. ch = "latest" => plan'[channel[ch]].auto
      BY <3>1, <3>2
    <3> QED
      BY <3>1, <3>2, <3>3
  <2>3. \A ch \in Channels : channel[ch] = None => events[ch] = <<>>
    BY DEF LatestIsNewest
  <2> QED
    BY <1>a, <2>1, <2>2, <2>3 DEF LatestIsNewest
<1>1. CASE Keeps
  BY <1>1, <1>a DEF Keeps
<1>2. ASSUME NEW p \in Preparers, CreateSnapshot(p) PROVE LatestIsNewest'
  <2>1. /\ ~Conflicts(prep[p].b) /\ release' = [release EXCEPT ![prep[p].b] = "pending"]
        /\ \E declared \in Plans : plan' = [plan EXCEPT ![prep[p].b] = declared]
        /\ UNCHANGED <<channel, events>>
    BY <1>2 DEF CreateSnapshot
  <2>2. release \in [Builds -> ReleaseStatuses] /\ plan \in [Builds -> Plans \cup {NoPlan}]
    BY Typed
  <2>3. \A b \in Builds : /\ release'[b] = "complete" => release[b] = "complete"
                          /\ release[b] = "complete" => release'[b] = "complete" /\ plan'[b] = plan[b]
    BY <2>1, <2>2 DEF Conflicts
  <2> QED
    BY <1>a, <2>1, <2>3
<1>3. ASSUME NEW p \in Procs, NEW b \in Builds, Enters(p, b) PROVE LatestIsNewest'
  BY <1>3, <1>a DEF Enters, releaseVars
<1>s. ASSUME NEW b \in Builds, Settles(b) PROVE LatestIsNewest'
  <2>1. /\ \A a \in Builds \ {b} : release'[a] = release[a]
        /\ plan' = plan /\ release'[b] = "complete"
    BY <1>s, CompleteEffect DEF Settles
  <2>2. release[b] # "complete" /\ ~plan[b].auto /\ UNCHANGED <<channel, events>>
    BY <1>s DEF Settles
  <2> QED
    BY <1>a, <2>1, <2>2
<1>4. ASSUME NEW p \in Procs, Commits(p) PROVE LatestIsNewest'
  <2> DEFINE b == loc[p].b
             ch == ChannelOf(p)
  <2>1. /\ b \in Builds /\ release'[b] = "complete"
        /\ \A a \in Builds \ {b} : release'[a] = release[a]
        /\ plan' = plan
    BY <1>4, CommitEffect
  <2>a. p \in Servers => plan[b].auto
    BY <1>4 DEF Commits, TransactionShape
  <2>2. ch \in Channels /\ (p \in Servers <=> ch = "latest")
    BY DEF ChannelOf, Channels
  <2>3. p \notin Servers => release[b] = "complete"
    BY <1>4 DEF Commits, TransactionShape, Procs
  <2>4. CASE UNCHANGED <<channel, events>> /\ channel[ch] # None /\ ~Moves(p)
    <3>1. p \in Servers => channel["latest"] # None /\ channel["latest"] >= b
      BY <1>t, <2>1, <2>2, <2>4, Newer DEF Moves, ChannelOf
    <3>2. p \notin Servers /\ plan[b].auto => channel["latest"] # None /\ channel["latest"] >= b
      BY <2>1, <2>3 DEF LatestIsNewest
    <3>3. \A a \in Builds : release'[a] = "complete" /\ plan[a].auto =>
             channel["latest"] # None /\ channel["latest"] >= a
      BY <2>1, <3>1, <3>2 DEF LatestIsNewest
    <3>4. \A c \in Channels : channel[c] # None => release'[channel[c]] = "complete"
      BY <1>t, <2>1 DEF LatestIsNewest
    <3> QED
      BY <2>1, <2>4, <3>3, <3>4 DEF LatestIsNewest
  <2>5. CASE Point(p) /\ (channel[ch] = None \/ Moves(p))
    <3>1. /\ channel' \in [Channels -> Builds \cup {None}]
          /\ channel'[ch] = b /\ Last(events'[ch]) = b
          /\ \A c \in Channels \ {ch} : channel'[c] = channel[c] /\ events'[c] = events[c]
      BY <2>1, <2>5, PointTyped
    <3>2. \A c \in Channels : LET cur == channel'[c] IN
             /\ cur # None => /\ release'[cur] = "complete" /\ Last(events'[c]) = cur
                              /\ c = "latest" => plan'[cur].auto
             /\ cur = None => events'[c] = <<>>
      <4> SUFFICES ASSUME NEW c \in Channels
                   PROVE  /\ channel'[c] # None => /\ release'[channel'[c]] = "complete"
                                                   /\ Last(events'[c]) = channel'[c]
                                                   /\ c = "latest" => plan'[channel'[c]].auto
                          /\ channel'[c] = None => events'[c] = <<>>
        OBVIOUS
      <4>1. CASE c = ch
        BY <1>t, <2>1, <2>2, <2>a, <3>1, <4>1
      <4>2. CASE c # ch
        <5>1. channel'[c] = channel[c] /\ events'[c] = events[c]
          BY <3>1, <4>2
        <5>2. channel[c] # None => channel[c] \in Builds /\ release[channel[c]] = "complete"
          BY <1>t DEF LatestIsNewest
        <5> QED
          BY <2>1, <5>1, <5>2 DEF LatestIsNewest
      <4> QED
        BY <4>1, <4>2
    <3>3. CASE p \in Servers
      <4>1. channel'["latest"] = b
        BY <2>2, <3>1, <3>3
      <4>2. \A a \in Builds : release[a] = "complete" /\ plan[a].auto => b >= a
        <5> SUFFICES ASSUME NEW a \in Builds, release[a] = "complete", plan[a].auto PROVE b >= a
          OBVIOUS
        <5>1. channel["latest"] \in Builds /\ channel["latest"] >= a
          BY <1>t DEF LatestIsNewest
        <5>2. b > channel["latest"]
          BY <1>t, <2>2, <2>5, <3>3, <5>1 DEF Moves
        <5> QED
          BY <2>1, <5>1, <5>2, Newer
      <4>3. b >= b /\ b # None
        BY <1>t, <2>1, Newer
      <4>4. \A a \in Builds : release'[a] = "complete" /\ plan'[a].auto =>
               channel'["latest"] # None /\ channel'["latest"] >= a
        BY <2>1, <4>1, <4>2, <4>3
      <4> QED
        BY <3>2, <4>4 DEF LatestIsNewest
    <3>4. CASE p \notin Servers
      <4>1. channel'["latest"] = channel["latest"]
        BY <1>t, <2>2, <3>1, <3>4
      <4>2. \A a \in Builds : release'[a] = "complete" /\ plan'[a].auto =>
               channel'["latest"] # None /\ channel'["latest"] >= a
        BY <2>1, <2>3, <3>4, <4>1 DEF LatestIsNewest
      <4> QED
        BY <3>2, <4>2 DEF LatestIsNewest
    <3> QED
      BY <3>3, <3>4
  <2> QED
    BY <1>4, <2>4, <2>5 DEF Commits
<1> QED
  BY <1>1, <1>2, <1>3, <1>s, <1>4, StepKinds

-----------------------------------------------------------------------------

LEMMA InitIndInv == Init => IndInv
<1> SUFFICES ASSUME Init PROVE IndInv
  OBVIOUS
<1>1. /\ \A b \in Builds : release[b] = "none" /\ published[b] = {} /\ durable[b] = {}
      /\ \A p \in Procs : pc[p] = "idle"
      /\ \A p \in Preparers : prep[p].at = "idle"
      /\ \A c \in Channels : channel[c] = None /\ events[c] = <<>>
  BY DEF Init, Free
<1>2. << >> \in Seq(Builds) /\ Range(<< >>) = {}
  BY DEF Range
<1>3. ReleaseTypes
  BY <1>1, <1>2 DEF Init, ReleaseTypes, ReleaseStatuses
<1>4. BuildTypes /\ ProcTypes /\ faults \in 0 .. MaxFaults
  BY ReleaseAssumption
     DEF Init, BuildTypes, ProcTypes, BuildStatuses, PrepType, LocType, Free, Idle
<1>5. TypeOK
  BY <1>3, <1>4, TypeParts
<1>6. PrepShape /\ ReleaseShape /\ TransactionShape /\ LatestIsNewest
  BY <1>1 DEF PrepShape, ReleaseShape, TransactionShape, LatestIsNewest, InChannel, Procs
<1> QED
  BY <1>5, <1>6 DEF IndInv

LEMMA NextIndInv == IndInv /\ [Next]_vars => IndInv'
  BY TypeKept, PrepKept, ReleaseKept, TransactionKept, LatestKept DEF IndInv

(* The types, the versions, who has locked which release and the channels  *)
(* agree in every reachable state, whichever transactions roll back.       *)
THEOREM Inductive == Spec => []IndInv
  BY InitIndInv, NextIndInv, PTL DEF Spec

(* Reconcile completes a release only when every output that its pipeline  *)
(* declared is durable, which it then stays, and the unique index gives it *)
(* a version of its own: no failure of a build or of a tag undoes a        *)
(* complete release.                                                       *)
THEOREM CompleteReleaseDurable == Spec => []CompleteIsDurable
<1>1. IndInv => CompleteIsDurable
  <2> SUFFICES ASSUME IndInv, NEW b \in Builds, release[b] = "complete"
               PROVE  /\ published[b] = plan[b].outputs /\ plan[b].outputs \subseteq durable[b]
                      /\ \A a \in Builds : release[a] # "none" /\ version[a] = version[b] => a = b
    BY DEF CompleteIsDurable, AllOutputs
  <2> QED
    BY DEF IndInv, ReleaseShape
<1> QED
  BY <1>1, Inductive, PTL

(* moveChannel: however many servers complete releases at the same time,   *)
(* in whatever order, and whether or not the channel had a row when they   *)
(* looked, latest is the complete release with the highest build number    *)
(* of those whose pipeline declared latest as their channel, whatever the  *)
(* others do; stable is a complete one, and the last event of each channel *)
(* names its release.                                                      *)
THEOREM LatestIsTheNewest == Spec => []LatestIsNewest
<1>1. IndInv => LatestIsNewest
  BY DEF IndInv
<1> QED
  BY <1>1, Inductive, PTL
=============================================================================
