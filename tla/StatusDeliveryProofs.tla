----------------------- MODULE StatusDeliveryProofs -------------------------
(***************************************************************************)
(* What the delivery of commit statuses keeps to for any number of builds, *)
(* reporters and attempts, whatever faults there are.  Each conjunct of    *)
(* IndInv has a lemma with one step per action.                            *)
(***************************************************************************)
EXTENDS StatusDelivery, TLAPS

(* Nothing has been reported. *)
LEMMA InitIndInv == Init => IndInv
<1> SUFFICES ASSUME Init PROVE IndInv
  OBVIOUS
<1> USE BuildsAssumption, TimesAssumption DEF Init, NoRow, NoDelivery
<1>1. TypeOK
  BY DEF TypeOK, RowType, DeliveryType, DeliveryStatuses, PCs
<1>2. DeliveryShape /\ PublishedWasServed
  BY DEF DeliveryShape, PublishedWasServed, Claiming
<1>3. ClaimFences /\ RowShape
  BY DEF ClaimFences, RowShape
<1>4. RowValid /\ SentWasServed
  BY DEF RowValid, SentWasServed
<1> QED
  BY <1>1, <1>2, <1>3, <1>4 DEF IndInv

(* A reporter goes on. *)
LEMMA GotoTypes ==
    ASSUME TypeOK, NEW p \in Reporters, NEW next \in PCs, Goto(p, next)
    PROVE  pc' \in [Reporters -> PCs]
  BY DEF TypeOK, Goto

(* A reporter plans a delivery. *)
LEMMA PlanTypes ==
    ASSUME NEW b \in Builds \cup {0}, NEW state \in TerminalStates \cup {"none", "pending"}
    PROVE  [NoDelivery EXCEPT !.build = b, !.state = state] \in DeliveryType
<1>1. NoDelivery \in DeliveryType
  BY TimesAssumption DEF NoDelivery, DeliveryType
<1> QED
  BY <1>1 DEF DeliveryType

(* A reporter is done. *)
LEMMA DoneTypes ==
    ASSUME TypeOK, NEW p \in Reporters, Done(p)
    PROVE  pc' \in [Reporters -> PCs] /\ mem' \in [Reporters -> DeliveryType]
<1>1. NoDelivery \in DeliveryType
  BY TimesAssumption DEF NoDelivery, DeliveryType
<1>2. "idle" \in PCs
  BY DEF PCs
<1> QED
  BY <1>1, <1>2, GotoTypes DEF Done, TypeOK

(* The updates that release a claim, or move its time. *)
LEMMA RowTypes ==
    ASSUME TypeOK
    PROVE  /\ \A st \in DeliveryStatuses, n \in Nat : Released(st, n) \in RowType
           /\ [Released("sent", 0) EXCEPT !.last = row.desired] \in RowType
           /\ \A n \in Nat : [row EXCEPT !.due = n] \in RowType
  BY DEF TypeOK, RowType, Released, DeliveryStatuses

(* What a claim writes and remembers. *)
LEMMA AcquiredTypes ==
    ASSUME TypeOK, NEW p \in Reporters, NEW r \in RowType, NEW n \in Nat, Acquired(p, r, n)
    PROVE  /\ row' \in RowType
           /\ mem' \in [Reporters -> DeliveryType]
           /\ pc' \in [Reporters -> PCs]
<1>0. /\ mem[p] \in DeliveryType
      /\ r.attempts \in 0 .. MaxAttempts /\ r.tok \in Tokens \cup {NoToken}
  BY DEF TypeOK, RowType
<1>1. [mem[p] EXCEPT !.attempts = r.attempts, !.tok = r.tok, !.reassert = n]
        \in DeliveryType
  BY <1>0 DEF DeliveryType
<1>2. "check" \in PCs
  BY DEF PCs
<1> QED
  BY <1>1, <1>2, GotoTypes DEF Acquired, TypeOK

(* What the provider accepts. *)
LEMMA ServeTypes ==
    ASSUME TypeOK, NEW req, Serve(req),
           req.identity => req.build \in Builds /\ req.state \in ReportedStates
    PROVE  served' \subseteq [build : Builds, state : TerminalStates \cup {"pending"}]
  BY DEF Serve, TypeOK, ReportedStates

(* A step of a reporter, or of the clock, keeps the types; a claim counts  *)
(* one more attempt only while there are attempts left.                    *)
LEMMA TypeStep == TypeOK /\ DeliveryShape /\ RowShape /\ [Next]_vars => TypeOK'
<1> SUFFICES ASSUME TypeOK, DeliveryShape, RowShape, [Next]_vars PROVE TypeOK'
  OBVIOUS
<1> USE DEF PCs
<1>1. ASSUME NEW p \in Reporters, NEW b \in Builds, NEW state \in {"pending"} \cup Outcomes,
             NotifyBuildStatus(p, b, state)
      PROVE  TypeOK'
  <2>1. [NoDelivery EXCEPT !.build = b, !.state = state] \in DeliveryType
    BY OutcomesAssumption, PlanTypes
  <2>2. mem' \in [Reporters -> DeliveryType]
    BY <1>1, <2>1 DEF NotifyBuildStatus, TypeOK
  <2>3. events' \in 0 .. MaxEvents
    BY <1>1, TimesAssumption DEF NotifyBuildStatus, Happens, TypeOK
  <2> QED
    BY <1>1, <2>2, <2>3, GotoTypes DEF NotifyBuildStatus, TypeOK
<1>2. ASSUME NEW p \in Reporters, RecoverDelivery(p) PROVE TypeOK'
  <2>1. [NoDelivery EXCEPT !.build = row.build, !.state = row.desired] \in DeliveryType
    BY PlanTypes DEF TypeOK, RowType
  <2>2. mem' \in [Reporters -> DeliveryType]
    BY <1>2, <2>1 DEF RecoverDelivery, TypeOK
  <2> QED
    BY <1>2, <2>2, GotoTypes DEF RecoverDelivery, TypeOK
<1>3. ASSUME NEW p \in Reporters, Acquire(p) PROVE TypeOK'
  <2>1. mem[p].build \in Builds /\ mem[p].state \in ReportedStates
    BY <1>3 DEF Acquire, DeliveryShape
  <2>2. ReassertAfterReplacement \in Nat
    BY DEF ReassertAfterReplacement, TypeOK, RowType
  <2>3. ASSUME NEW t \in Tokens
        PROVE  Replacement(mem[p], t) \in RowType
    BY <2>1, TimesAssumption DEF Replacement, TypeOK, RowType, DeliveryStatuses, ReportedStates
  <2>4. ASSUME NEW t \in Tokens, IsClaimable
        PROVE  Reclaimed(t) \in RowType
    <3>1. row \in RowType /\ row.attempts + 1 \in 0 .. MaxAttempts
      BY <2>4, TimesAssumption DEF TypeOK, RowType, IsClaimable
    <3>2. "sending" \in DeliveryStatuses /\ ClaimDuration \in Nat
      BY TimesAssumption DEF DeliveryStatuses
    <3> QED
      BY <3>1, <3>2 DEF Reclaimed, RowType
  <2>5. CASE Done(p) /\ UNCHANGED row
    BY <1>3, <2>5, DoneTypes DEF Acquire, TypeOK
  <2>6. ASSUME NEW t \in Tokens, NEW r \in RowType, NEW n \in Nat, Acquired(p, r, n)
        PROVE  TypeOK'
    BY <1>3, <2>6, AcquiredTypes DEF Acquire, TypeOK
  <2> QED
    BY <1>3, <2>2, <2>3, <2>4, <2>5, <2>6 DEF Acquire, Reclaims
<1>4. ASSUME NEW p \in Reporters, Check(p) PROVE TypeOK'
  BY <1>4, GotoTypes DEF Check, TypeOK
<1>5. ASSUME NEW p \in Reporters, MarkSuperseded(p) PROVE TypeOK'
  <2>1. row' \in RowType
    BY <1>5, RowTypes DEF MarkSuperseded, TypeOK, DeliveryStatuses
  <2> QED
    BY <1>5, <2>1, DoneTypes DEF MarkSuperseded, TypeOK
<1>6. ASSUME NEW p \in Reporters, PublishCommitStatus(p) \/ PublishFails(p) PROVE TypeOK'
  <2>1. mem[p].build \in Builds /\ mem[p].state \in ReportedStates
    BY <1>6 DEF PublishCommitStatus, PublishFails, DeliveryShape
  <2>2. Serve(Request(mem[p])) \/ UNCHANGED served
    BY <1>6 DEF PublishCommitStatus, PublishFails
  <2>3. served' \subseteq [build : Builds, state : TerminalStates \cup {"pending"}]
    BY <2>1, <2>2, ServeTypes DEF Request, TypeOK
  <2>4. pc' \in [Reporters -> PCs]
    BY <1>6, GotoTypes DEF PublishCommitStatus, PublishFails
  <2> QED
    BY <1>6, <2>3, <2>4 DEF PublishCommitStatus, PublishFails, TypeOK
<1>7. ASSUME NEW p \in Reporters, Answered(p) PROVE TypeOK'
  BY <1>7, GotoTypes DEF Answered, TypeOK
<1>8. ASSUME NEW p \in Reporters, Mark(p) PROVE TypeOK'
  <2>1. mem[p].reassert \in Nat
    BY DEF TypeOK, DeliveryType
  <2>2. Marked(p) \in RowType
    BY <2>1, RowTypes DEF Marked, DeliveryStatuses
  <2> QED
    BY <1>8, <2>2, DoneTypes, GotoTypes DEF Mark, TypeOK
<1>9. ASSUME NEW p \in Reporters, MarkDeliveryFailed(p) PROVE TypeOK'
  <2>1. mem[p].attempts \in 1 .. MaxAttempts
    BY <1>9, TimesAssumption DEF MarkDeliveryFailed, DeliveryShape, Claiming, TypeOK, DeliveryType
  <2>2. DelayForAttempt(mem[p].attempts) \in Nat
    BY <2>1, DelayAssumption
  <2>3. row' = row \/ \E st \in DeliveryStatuses, n \in Nat :
                        row' = Released(st, n)
    BY <1>9, <2>2 DEF MarkDeliveryFailed, DeliveryStatuses
  <2>4. row' \in RowType
    BY <2>3, RowTypes DEF TypeOK
  <2> QED
    BY <1>9, <2>4, DoneTypes DEF MarkDeliveryFailed, TypeOK
<1>10. ASSUME NEW p \in Reporters, ReassertAuthoritativeDelivery(p) PROVE TypeOK'
  <2>1. served' \subseteq [build : Builds, state : TerminalStates \cup {"pending"}]
    BY <1>10, ServeTypes DEF ReassertAuthoritativeDelivery, ScmStatusPublishRequest, TypeOK
  <2> QED
    BY <1>10, <2>1, DoneTypes DEF ReassertAuthoritativeDelivery, TypeOK
<1>11. ASSUME NEW p \in Reporters, Cut(p) PROVE TypeOK'
  <2>1. mem[p].build \in Builds /\ mem[p].state \in ReportedStates
    BY <1>11 DEF Cut, DeliveryShape
  <2>2. served' \subseteq [build : Builds, state : TerminalStates \cup {"pending"}]
    BY <1>11, <2>1, ServeTypes DEF Cut, Request, TypeOK
  <2>3. events' \in 0 .. MaxEvents
    BY <1>11, TimesAssumption DEF Cut, Happens, TypeOK
  <2> QED
    BY <1>11, <2>2, <2>3, DoneTypes DEF Cut, TypeOK
<1>12. ASSUME Tick PROVE TypeOK'
  <2>1. \A n \in Nat : Less(n) \in Nat
    BY DEF Less
  <2>2. row' \in RowType
    BY <1>12, <2>1, RowTypes DEF Tick, TypeOK, RowType
  <2>3. ASSUME NEW p \in Reporters
        PROVE  [mem[p] EXCEPT !.reassert = Less(@)] \in DeliveryType
    <3>1. mem[p] \in DeliveryType
      BY DEF TypeOK
    <3>2. Less(mem[p].reassert) \in Nat
      BY <2>1, <3>1 DEF DeliveryType
    <3> QED
      BY <3>1, <3>2 DEF DeliveryType
  <2> QED
    BY <1>12, <2>2, <2>3 DEF Tick, TypeOK
<1>13. CASE CreateBuild
  BY <1>13, BuildsAssumption DEF CreateBuild, TypeOK
<1>14. CASE StrandAnother
  BY <1>14, TimesAssumption DEF StrandAnother, Happens, TypeOK
<1>15. CASE UNCHANGED vars
  BY <1>15 DEF vars, TypeOK
<1> QED
  BY <1>1, <1>2, <1>3, <1>4, <1>5, <1>6, <1>7, <1>8, <1>9, <1>10, <1>11, <1>12, <1>13,
     <1>14, <1>15
     DEF Next, Deliver

(* A reporter that is done has forgotten its delivery. *)
LEMMA DoneEffects ==
    ASSUME TypeOK, NEW p \in Reporters, Done(p)
    PROVE  /\ pc' = [pc EXCEPT ![p] = "idle"]
           /\ \A q \in Reporters : mem'[q] = IF q = p THEN NoDelivery ELSE mem[q]
  BY DEF TypeOK, Done, Goto

(* A claim, or nothing. *)
LEMMA AcquireEffects ==
    ASSUME TypeOK, NEW p \in Reporters, Acquire(p)
    PROVE  \/ Done(p) /\ UNCHANGED row
           \/ /\ pc' = [pc EXCEPT ![p] = "check"]
              /\ \A q \in Reporters : q # p => mem'[q] = mem[q]
              /\ mem'[p].build = mem[p].build /\ mem'[p].state = mem[p].state
              /\ mem'[p].attempts = row'.attempts /\ mem'[p].tok = row'.tok
              /\ row'.tok \in Tokens /\ FreshToken(row'.tok)
              /\ row'.build = mem[p].build /\ row'.desired = mem[p].state
              /\ row'.status = "sending"
              /\ row'.attempts \in 1 .. MaxAttempts
              /\ mem'[p].reassert > 0 => row'.attempts = 1
              /\ \/ Replaces(mem[p])
                 \/ row.build = mem[p].build /\ row.desired = mem[p].state
<1>1. mem[p] \in DeliveryType /\ row \in RowType
  BY DEF TypeOK
<1>2. ASSUME NEW r, NEW n, Acquired(p, r, n)
      PROVE  /\ row' = r
             /\ pc' = [pc EXCEPT ![p] = "check"]
             /\ \A q \in Reporters : q # p => mem'[q] = mem[q]
             /\ mem'[p].build = mem[p].build /\ mem'[p].state = mem[p].state
             /\ mem'[p].attempts = r.attempts /\ mem'[p].tok = r.tok /\ mem'[p].reassert = n
  <2>1. mem'[p] = [mem[p] EXCEPT !.attempts = r.attempts, !.tok = r.tok, !.reassert = n]
    BY <1>2 DEF Acquired, TypeOK
  <2>2. /\ mem'[p].build = mem[p].build /\ mem'[p].state = mem[p].state
        /\ mem'[p].attempts = r.attempts /\ mem'[p].tok = r.tok /\ mem'[p].reassert = n
    BY <1>1, <2>1 DEF DeliveryType
  <2> QED
    BY <1>2, <2>2 DEF Acquired, Goto, TypeOK
<1>3. ASSUME NEW t \in Tokens, FreshToken(t), Replaces(mem[p]),
             Acquired(p, Replacement(mem[p], t), ReassertAfterReplacement)
      PROVE  \/ /\ pc' = [pc EXCEPT ![p] = "check"]
                /\ \A q \in Reporters : q # p => mem'[q] = mem[q]
                /\ mem'[p].build = mem[p].build /\ mem'[p].state = mem[p].state
                /\ mem'[p].attempts = row'.attempts /\ mem'[p].tok = row'.tok
                /\ row'.tok \in Tokens /\ FreshToken(row'.tok)
                /\ row'.build = mem[p].build /\ row'.desired = mem[p].state
                /\ row'.status = "sending"
                /\ row'.attempts \in 1 .. MaxAttempts
                /\ mem'[p].reassert > 0 => row'.attempts = 1
  <2>1. row' = Replacement(mem[p], t)
    BY <1>2, <1>3
  <2>2. /\ row'.status = "sending" /\ row'.build = mem[p].build /\ row'.desired = mem[p].state
        /\ row'.attempts = 1 /\ row'.tok = t
    BY <2>1 DEF Replacement
  <2>3. row'.attempts \in 1 .. MaxAttempts
    BY <2>2, TimesAssumption
  <2> QED
    BY <1>2, <1>3, <2>1, <2>2, <2>3
<1>4. ASSUME NEW t \in Tokens, FreshToken(t), Reclaims(mem[p]), Acquired(p, Reclaimed(t), 0)
      PROVE  \/ /\ pc' = [pc EXCEPT ![p] = "check"]
                /\ \A q \in Reporters : q # p => mem'[q] = mem[q]
                /\ mem'[p].build = mem[p].build /\ mem'[p].state = mem[p].state
                /\ mem'[p].attempts = row'.attempts /\ mem'[p].tok = row'.tok
                /\ row'.tok \in Tokens /\ FreshToken(row'.tok)
                /\ row'.build = mem[p].build /\ row'.desired = mem[p].state
                /\ row'.status = "sending"
                /\ row'.attempts \in 1 .. MaxAttempts
                /\ mem'[p].reassert > 0 => row'.attempts = 1
  <2>1. row' = Reclaimed(t)
    BY <1>2, <1>4
  <2>2. /\ row'.status = "sending" /\ row'.build = row.build /\ row'.desired = row.desired
        /\ row'.attempts = row.attempts + 1 /\ row'.tok = t
    BY <1>1, <2>1 DEF Reclaimed, RowType
  <2>3. row'.attempts \in 1 .. MaxAttempts
    BY <1>1, <1>4, <2>2, TimesAssumption DEF RowType, Reclaims, IsClaimable
  <2>4. row'.build = mem[p].build /\ row'.desired = mem[p].state
    BY <1>4, <2>2 DEF Reclaims
  <2>5. mem'[p].reassert = 0
    BY <1>2, <1>4
  <2> QED
    BY <1>2, <1>4, <2>1, <2>2, <2>3, <2>4, <2>5
<1> QED
  BY <1>3, <1>4 DEF Acquire, Reclaims

(* The statements that end a delivery, fenced by its claim. *)
LEMMA MarkEffects ==
    ASSUME TypeOK, NEW p \in Reporters,
           MarkSuperseded(p) \/ Mark(p) \/ MarkDeliveryFailed(p)
    PROVE  \/ UNCHANGED row
           \/ /\ HoldsClaim(p)
              /\ row'.build = row.build /\ row'.desired = row.desired
              /\ row'.attempts = row.attempts /\ row'.tok = NoToken
              /\ \/ row'.status \in {"superseded", "failed_permanent"}
                 \/ row'.status = "sent" /\ row'.last = row.desired /\ pc[p] = "markSent"
                 \/ row'.status = "retry_waiting" /\ pc[p] = "markReassertPending"
                 \/ row'.status = "retry_waiting" /\ mem[p].attempts < MaxAttempts
                 \/ row'.status = "failed_exhausted" /\ mem[p].attempts >= MaxAttempts
<1>1. row \in RowType
  BY DEF TypeOK
<1>2. ASSUME NEW st, NEW n
      PROVE  /\ Released(st, n).build = row.build /\ Released(st, n).desired = row.desired
             /\ Released(st, n).attempts = row.attempts /\ Released(st, n).tok = NoToken
             /\ Released(st, n).status = st
  BY <1>1 DEF Released, RowType
<1>3. LET r == [Released("sent", 0) EXCEPT !.last = row.desired]
      IN  /\ r.build = row.build /\ r.desired = row.desired /\ r.attempts = row.attempts
          /\ r.tok = NoToken /\ r.status = "sent" /\ r.last = row.desired
  BY <1>1 DEF Released, RowType
<1>4. CASE MarkSuperseded(p)
  BY <1>2, <1>4 DEF MarkSuperseded
<1>5. CASE Mark(p)
  <2>1. CASE pc[p] = "markSent" /\ row' = Marked(p)
    BY <1>3, <1>5, <2>1 DEF Mark, Marked
  <2>2. CASE pc[p] = "markReassertPending" /\ row' = Marked(p)
    BY <1>2, <1>5, <2>2 DEF Mark, Marked
  <2> QED
    BY <1>5, <2>1, <2>2 DEF Mark
<1>6. CASE MarkDeliveryFailed(p)
  BY <1>2, <1>6 DEF MarkDeliveryFailed
<1> QED
  BY <1>4, <1>5, <1>6

(* What those statements leave of the reporter. *)
LEMMA MarkGoesOn ==
    ASSUME NEW p \in Reporters,
           MarkSuperseded(p) \/ Mark(p) \/ MarkDeliveryFailed(p)
    PROVE  /\ UNCHANGED <<builds, served>>
           /\ pc[p] \notin Claiming
           /\ \/ Done(p)
              \/ /\ pc[p] \in {"markSent", "markReassertPending"}
                 /\ pc' = [pc EXCEPT ![p] = "reassert"] /\ UNCHANGED <<row, mem>>
  BY DEF MarkSuperseded, Mark, MarkDeliveryFailed, Goto, Claiming

(* For the holder of the claim, the row is what it has in memory. *)
LEMMA HolderMarks ==
    ASSUME TypeOK, DeliveryShape, ClaimFences, RowValid, NEW p \in Reporters,
           MarkSuperseded(p) \/ Mark(p) \/ MarkDeliveryFailed(p)
    PROVE  \/ UNCHANGED row
           \/ /\ row.status = "sending"
              /\ row.build = mem[p].build /\ row.desired = mem[p].state
              /\ row'.build = row.build /\ row'.desired = row.desired
              /\ row'.attempts = row.attempts /\ row'.tok = NoToken
              /\ \/ row'.status \in {"superseded", "failed_permanent"}
                 \/ row'.status = "sent" /\ row'.last = row.desired /\ pc[p] = "markSent"
                 \/ row'.status = "retry_waiting" /\ row.attempts < MaxAttempts
                 \/ row'.status = "failed_exhausted" /\ row.attempts = MaxAttempts
<1>1. mem[p].tok \in Tokens /\ mem[p].tok # NoToken
  BY MarkGoesOn, TokensAssumption DEF DeliveryShape
<1>2. ASSUME HoldsClaim(p)
      PROVE  /\ row.status = "sending" /\ row.build = mem[p].build /\ row.desired = mem[p].state
             /\ row.attempts = mem[p].attempts
  BY <1>1, <1>2 DEF HoldsClaim, ClaimFences, RowValid
<1>3. row.attempts \in 0 .. MaxAttempts
  BY DEF TypeOK, RowType
<1>4. pc[p] = "markReassertPending" => mem[p].attempts < MaxAttempts
  BY TimesAssumption DEF DeliveryShape
<1> QED
  BY <1>2, <1>3, <1>4, MarkEffects, TimesAssumption

(* Time changes nothing but the times. *)
LEMMA TickEffects ==
    ASSUME TypeOK, Tick
    PROVE  /\ UNCHANGED <<builds, pc, served>>
           /\ row'.status = row.status /\ row'.build = row.build /\ row'.desired = row.desired
           /\ row'.last = row.last /\ row'.attempts = row.attempts /\ row'.tok = row.tok
           /\ \A p \in Reporters :
                 /\ mem'[p].build = mem[p].build /\ mem'[p].state = mem[p].state
                 /\ mem'[p].attempts = mem[p].attempts /\ mem'[p].tok = mem[p].tok
                 /\ mem[p].reassert = 0 => mem'[p].reassert = 0
                 /\ mem'[p].reassert > 0 => mem[p].reassert > 0
<1>1. /\ row'.status = row.status /\ row'.build = row.build /\ row'.desired = row.desired
      /\ row'.last = row.last /\ row'.attempts = row.attempts /\ row'.tok = row.tok
  BY DEF Tick, TypeOK, RowType
<1>2. ASSUME NEW p \in Reporters
      PROVE  /\ mem'[p].build = mem[p].build /\ mem'[p].state = mem[p].state
             /\ mem'[p].attempts = mem[p].attempts /\ mem'[p].tok = mem[p].tok
             /\ mem[p].reassert = 0 => mem'[p].reassert = 0
             /\ mem'[p].reassert > 0 => mem[p].reassert > 0
  <2>1. mem[p] \in DeliveryType
    BY DEF TypeOK
  <2>2. mem'[p] = [mem[p] EXCEPT !.reassert = Less(@)]
    BY DEF Tick
  <2>3. Less(0) = 0
    BY DEF Less
  <2>4. \A n \in Nat : Less(n) > 0 => n > 0
    BY DEF Less
  <2> QED
    BY <2>1, <2>2, <2>3, <2>4 DEF DeliveryType
<1> QED
  BY <1>1, <1>2 DEF Tick

(* What a reporter carries stays what its next statement expects. *)
LEMMA DeliveryShapeStep ==
    ASSUME TypeOK, DeliveryShape, RowShape, TokensAssumption, OutcomesAssumption,
           TimesAssumption, [Next]_vars
    PROVE  DeliveryShape'
<1> USE DEF DeliveryShape, TypeOK, RowType, DeliveryType, ReportedStates,
            TerminalStates, Claiming
<1>1. ASSUME NEW p \in Reporters, NEW b \in Builds, NEW state \in {"pending"} \cup Outcomes,
             NotifyBuildStatus(p, b, state)
      PROVE  DeliveryShape'
  BY <1>1 DEF NotifyBuildStatus, NoDelivery, Goto
<1>2. ASSUME NEW p \in Reporters, RecoverDelivery(p) PROVE DeliveryShape'
  BY <1>2 DEF RecoverDelivery, NoDelivery, Goto, IsRecoverable, RowShape
<1>3. ASSUME NEW p \in Reporters, Acquire(p) PROVE DeliveryShape'
  <2>1. CASE Done(p)
    BY <2>1, DoneEffects DEF NoDelivery
  <2>2. CASE ~Done(p)
    BY <1>3, <2>2, AcquireEffects DEF Acquire
  <2> QED
    BY <2>1, <2>2
<1>4. ASSUME NEW p \in Reporters, Check(p) PROVE DeliveryShape'
  BY <1>4 DEF Check, Goto
<1>5. ASSUME NEW p \in Reporters, MarkSuperseded(p) PROVE DeliveryShape'
  BY <1>5, MarkGoesOn, DoneEffects DEF NoDelivery
<1>6. ASSUME NEW p \in Reporters, PublishCommitStatus(p) PROVE DeliveryShape'
  BY <1>6 DEF PublishCommitStatus, Serve, Request, Goto
<1>7. ASSUME NEW p \in Reporters, PublishFails(p) PROVE DeliveryShape'
  BY <1>7 DEF PublishFails, Serve, Request, Goto
<1>8. ASSUME NEW p \in Reporters, Answered(p) PROVE DeliveryShape'
  BY <1>8 DEF Answered, Goto
<1>9. ASSUME NEW p \in Reporters, Mark(p) PROVE DeliveryShape'
  BY <1>9, MarkGoesOn, DoneEffects DEF NoDelivery
<1>10. ASSUME NEW p \in Reporters, MarkDeliveryFailed(p) PROVE DeliveryShape'
  BY <1>10, MarkGoesOn, DoneEffects DEF NoDelivery
<1>11. ASSUME NEW p \in Reporters, ReassertAuthoritativeDelivery(p) PROVE DeliveryShape'
  BY <1>11
     DEF ReassertAuthoritativeDelivery, Serve, ScmStatusPublishRequest, Done, NoDelivery, Goto
<1>12. ASSUME NEW p \in Reporters, Cut(p) PROVE DeliveryShape'
  BY <1>12 DEF Cut, Serve, Request, Done, NoDelivery, Goto
<1>13. ASSUME Tick PROVE DeliveryShape'
  BY <1>13, TickEffects
<1>14. CASE CreateBuild \/ StrandAnother \/ UNCHANGED vars
  BY <1>14 DEF CreateBuild, StrandAnother, vars
<1> QED
  BY <1>1, <1>2, <1>3, <1>4, <1>5, <1>6, <1>7, <1>8, <1>9, <1>10, <1>11, <1>12,
     <1>13, <1>14
     DEF Next, Deliver

(* Only a publication that was served leads past it, and nothing is ever   *)
(* unserved.                                                               *)
LEMMA PublishedWasServedStep ==
    ASSUME TypeOK, PublishedWasServed, [Next]_vars
    PROVE  PublishedWasServed'
<1> USE DEF PublishedWasServed, TypeOK, RowType, DeliveryType
<1>1. ASSUME NEW p \in Reporters, NEW b \in Builds, NEW state \in {"pending"} \cup Outcomes,
             NotifyBuildStatus(p, b, state)
      PROVE  PublishedWasServed'
  BY <1>1 DEF NotifyBuildStatus, NoDelivery, Goto
<1>2. ASSUME NEW p \in Reporters, RecoverDelivery(p) PROVE PublishedWasServed'
  BY <1>2 DEF RecoverDelivery, NoDelivery, Goto, IsRecoverable
<1>3. ASSUME NEW p \in Reporters, Acquire(p) PROVE PublishedWasServed'
  BY <1>3, AcquireEffects, DoneEffects DEF NoDelivery, Acquire
<1>4. ASSUME NEW p \in Reporters, Check(p) PROVE PublishedWasServed'
  BY <1>4 DEF Check, Goto
<1>5. ASSUME NEW p \in Reporters, MarkSuperseded(p) PROVE PublishedWasServed'
  BY <1>5, MarkGoesOn, DoneEffects DEF NoDelivery
<1>6. ASSUME NEW p \in Reporters, PublishCommitStatus(p) PROVE PublishedWasServed'
  BY <1>6 DEF PublishCommitStatus, Serve, Request, Goto
<1>7. ASSUME NEW p \in Reporters, PublishFails(p) PROVE PublishedWasServed'
  BY <1>7 DEF PublishFails, Serve, Request, Goto
<1>8. ASSUME NEW p \in Reporters, Answered(p) PROVE PublishedWasServed'
  BY <1>8 DEF Answered, Goto
<1>9. ASSUME NEW p \in Reporters, Mark(p) PROVE PublishedWasServed'
  BY <1>9, MarkGoesOn, DoneEffects DEF NoDelivery
<1>10. ASSUME NEW p \in Reporters, MarkDeliveryFailed(p) PROVE PublishedWasServed'
  BY <1>10, MarkGoesOn, DoneEffects DEF NoDelivery
<1>11. ASSUME NEW p \in Reporters, ReassertAuthoritativeDelivery(p)
      PROVE  PublishedWasServed'
  BY <1>11
     DEF ReassertAuthoritativeDelivery, Serve, ScmStatusPublishRequest, Done, NoDelivery, Goto
<1>12. ASSUME NEW p \in Reporters, Cut(p) PROVE PublishedWasServed'
  BY <1>12 DEF Cut, Serve, Request, Done, NoDelivery, Goto
<1>13. ASSUME Tick PROVE PublishedWasServed'
  BY <1>13, TickEffects
<1>14. CASE CreateBuild \/ StrandAnother \/ UNCHANGED vars
  BY <1>14 DEF CreateBuild, StrandAnother, vars
<1> QED
  BY <1>1, <1>2, <1>3, <1>4, <1>5, <1>6, <1>7, <1>8, <1>9, <1>10, <1>11, <1>12,
     <1>13, <1>14
     DEF Next, Deliver

(* A claim draws a token that nobody has; only its holder changes the row. *)
LEMMA ClaimFencesStep ==
    ASSUME TypeOK, DeliveryShape, ClaimFences, TokensAssumption, [Next]_vars
    PROVE  ClaimFences'
<1> USE DEF ClaimFences, DeliveryShape, Claiming, TypeOK, RowType, DeliveryType
<1>1. ASSUME NEW p \in Reporters, NEW b \in Builds, NEW state \in {"pending"} \cup Outcomes,
             NotifyBuildStatus(p, b, state)
      PROVE  ClaimFences'
  BY <1>1 DEF NotifyBuildStatus, NoDelivery, Goto
<1>2. ASSUME NEW p \in Reporters, RecoverDelivery(p) PROVE ClaimFences'
  BY <1>2 DEF RecoverDelivery, NoDelivery, Goto, IsRecoverable
<1>3. ASSUME NEW p \in Reporters, Acquire(p) PROVE ClaimFences'
  <2>1. CASE Done(p) /\ UNCHANGED row
    BY <2>1, DoneEffects DEF NoDelivery
  <2>2. CASE ~(Done(p) /\ UNCHANGED row)
    <3>1. /\ \A q \in Reporters : q # p => mem'[q] = mem[q]
          /\ mem'[p].build = mem[p].build /\ mem'[p].state = mem[p].state
          /\ mem'[p].attempts = row'.attempts /\ mem'[p].tok = row'.tok
          /\ row'.build = mem[p].build /\ row'.desired = mem[p].state
          /\ FreshToken(row'.tok)
      BY <1>3, <2>2, AcquireEffects
    <3>2. \A q \in Reporters : mem[q].tok # row'.tok
      BY <3>1 DEF FreshToken
    <3> QED
      BY <3>1, <3>2
  <2> QED
    BY <2>1, <2>2
<1>4. ASSUME NEW p \in Reporters, Check(p) PROVE ClaimFences'
  BY <1>4 DEF Check, Goto
<1>5. ASSUME NEW p \in Reporters, MarkSuperseded(p) PROVE ClaimFences'
  BY <1>5, MarkEffects, MarkGoesOn, DoneEffects DEF NoDelivery, HoldsClaim
<1>6. ASSUME NEW p \in Reporters, PublishCommitStatus(p) PROVE ClaimFences'
  BY <1>6 DEF PublishCommitStatus, Serve, Request, Goto
<1>7. ASSUME NEW p \in Reporters, PublishFails(p) PROVE ClaimFences'
  BY <1>7 DEF PublishFails, Serve, Request, Goto
<1>8. ASSUME NEW p \in Reporters, Answered(p) PROVE ClaimFences'
  BY <1>8 DEF Answered, Goto
<1>9. ASSUME NEW p \in Reporters, Mark(p) PROVE ClaimFences'
  BY <1>9, MarkEffects, MarkGoesOn, DoneEffects DEF NoDelivery, HoldsClaim
<1>10. ASSUME NEW p \in Reporters, MarkDeliveryFailed(p) PROVE ClaimFences'
  BY <1>10, MarkEffects, MarkGoesOn, DoneEffects DEF NoDelivery, HoldsClaim
<1>11. ASSUME NEW p \in Reporters, ReassertAuthoritativeDelivery(p) PROVE ClaimFences'
  BY <1>11
     DEF ReassertAuthoritativeDelivery, Serve, ScmStatusPublishRequest, Done, NoDelivery, Goto
<1>12. ASSUME NEW p \in Reporters, Cut(p) PROVE ClaimFences'
  BY <1>12 DEF Cut, Serve, Request, Done, NoDelivery, Goto
<1>13. ASSUME Tick PROVE ClaimFences'
  BY <1>13, TickEffects
<1>14. CASE CreateBuild \/ StrandAnother \/ UNCHANGED vars
  BY <1>14 DEF CreateBuild, StrandAnother, vars
<1> QED
  BY <1>1, <1>2, <1>3, <1>4, <1>5, <1>6, <1>7, <1>8, <1>9, <1>10, <1>11, <1>12,
     <1>13, <1>14
     DEF Next, Deliver

(* The row is made by a claim and never deleted. *)
LEMMA RowShapeStep ==
    ASSUME TypeOK, DeliveryShape, ClaimFences, RowShape, RowValid, BuildsAssumption, [Next]_vars
    PROVE  RowShape'
<1> USE DEF RowShape, TypeOK, RowType, DeliveryType, ReportedStates
<1>1. ASSUME NEW p \in Reporters, NEW b \in Builds, NEW state \in {"pending"} \cup Outcomes,
             NotifyBuildStatus(p, b, state)
      PROVE  RowShape'
  BY <1>1 DEF NotifyBuildStatus, NoDelivery, Goto
<1>2. ASSUME NEW p \in Reporters, RecoverDelivery(p) PROVE RowShape'
  BY <1>2 DEF RecoverDelivery, NoDelivery, Goto, IsRecoverable
<1>3. ASSUME NEW p \in Reporters, Acquire(p) PROVE RowShape'
  <2>1. /\ mem[p].build \in Builds /\ mem[p].state \in ReportedStates
        /\ 0 \notin Builds
    BY <1>3, BuildsAssumption DEF Acquire, DeliveryShape, Builds
  <2> QED
    BY <1>3, <2>1, AcquireEffects
<1>4. ASSUME NEW p \in Reporters, Check(p) PROVE RowShape'
  BY <1>4 DEF Check, Goto
<1>5. ASSUME NEW p \in Reporters, MarkSuperseded(p) PROVE RowShape'
  BY <1>5, HolderMarks, MarkGoesOn
<1>6. ASSUME NEW p \in Reporters, PublishCommitStatus(p) PROVE RowShape'
  BY <1>6 DEF PublishCommitStatus, Serve, Request, Goto
<1>7. ASSUME NEW p \in Reporters, PublishFails(p) PROVE RowShape'
  BY <1>7 DEF PublishFails, Serve, Request, Goto
<1>8. ASSUME NEW p \in Reporters, Answered(p) PROVE RowShape'
  BY <1>8 DEF Answered, Goto
<1>9. ASSUME NEW p \in Reporters, Mark(p) PROVE RowShape'
  BY <1>9, HolderMarks, MarkGoesOn
<1>10. ASSUME NEW p \in Reporters, MarkDeliveryFailed(p) PROVE RowShape'
  BY <1>10, HolderMarks, MarkGoesOn
<1>11. ASSUME NEW p \in Reporters, ReassertAuthoritativeDelivery(p) PROVE RowShape'
  BY <1>11
     DEF ReassertAuthoritativeDelivery, Serve, ScmStatusPublishRequest, Done, NoDelivery, Goto
<1>12. ASSUME NEW p \in Reporters, Cut(p) PROVE RowShape'
  BY <1>12 DEF Cut, Serve, Request, Done, NoDelivery, Goto
<1>13. ASSUME Tick PROVE RowShape'
  BY <1>13, TickEffects
<1>14. CASE CreateBuild \/ StrandAnother \/ UNCHANGED vars
  BY <1>14 DEF CreateBuild, StrandAnother, vars
<1> QED
  BY <1>1, <1>2, <1>3, <1>4, <1>5, <1>6, <1>7, <1>8, <1>9, <1>10, <1>11, <1>12,
     <1>13, <1>14
     DEF Next, Deliver

(* The statements keep to the constraint of the table. *)
LEMMA RowValidStep ==
    ASSUME TypeOK, DeliveryShape, ClaimFences, RowValid, TokensAssumption,
           TimesAssumption, [Next]_vars
    PROVE  RowValid'
<1> USE DEF RowValid, DeliveryShape, ClaimFences, Claiming, TypeOK, RowType, DeliveryType
<1>1. ASSUME NEW p \in Reporters, NEW b \in Builds, NEW state \in {"pending"} \cup Outcomes,
             NotifyBuildStatus(p, b, state)
      PROVE  RowValid'
  BY <1>1 DEF NotifyBuildStatus, NoDelivery, Goto
<1>2. ASSUME NEW p \in Reporters, RecoverDelivery(p) PROVE RowValid'
  BY <1>2 DEF RecoverDelivery, NoDelivery, Goto, IsRecoverable
<1>3. ASSUME NEW p \in Reporters, Acquire(p) PROVE RowValid'
  BY <1>3, AcquireEffects DEF Acquire
<1>4. ASSUME NEW p \in Reporters, Check(p) PROVE RowValid'
  BY <1>4 DEF Check, Goto
<1>5. ASSUME NEW p \in Reporters, MarkSuperseded(p) PROVE RowValid'
  BY <1>5, HolderMarks, MarkGoesOn
<1>6. ASSUME NEW p \in Reporters, PublishCommitStatus(p) PROVE RowValid'
  BY <1>6 DEF PublishCommitStatus, Serve, Request, Goto
<1>7. ASSUME NEW p \in Reporters, PublishFails(p) PROVE RowValid'
  BY <1>7 DEF PublishFails, Serve, Request, Goto
<1>8. ASSUME NEW p \in Reporters, Answered(p) PROVE RowValid'
  BY <1>8 DEF Answered, Goto
<1>9. ASSUME NEW p \in Reporters, Mark(p) PROVE RowValid'
  BY <1>9, HolderMarks, MarkGoesOn
<1>10. ASSUME NEW p \in Reporters, MarkDeliveryFailed(p) PROVE RowValid'
  BY <1>10, HolderMarks, MarkGoesOn
<1>11. ASSUME NEW p \in Reporters, ReassertAuthoritativeDelivery(p) PROVE RowValid'
  BY <1>11
     DEF ReassertAuthoritativeDelivery, Serve, ScmStatusPublishRequest, Done, NoDelivery, Goto
<1>12. ASSUME NEW p \in Reporters, Cut(p) PROVE RowValid'
  BY <1>12 DEF Cut, Serve, Request, Done, NoDelivery, Goto
<1>13. ASSUME Tick PROVE RowValid'
  BY <1>13, TickEffects
<1>14. CASE CreateBuild \/ StrandAnother \/ UNCHANGED vars
  BY <1>14 DEF CreateBuild, StrandAnother, vars
<1> QED
  BY <1>1, <1>2, <1>3, <1>4, <1>5, <1>6, <1>7, <1>8, <1>9, <1>10, <1>11, <1>12,
     <1>13, <1>14
     DEF Next, Deliver

(* The holder of the claim records as sent what it has published itself. *)
LEMMA SentWasServedStep ==
    ASSUME TypeOK, DeliveryShape, PublishedWasServed, ClaimFences, RowValid,
           SentWasServed, TokensAssumption, [Next]_vars
    PROVE  SentWasServed'
<1> USE DEF SentWasServed, TypeOK, RowType, DeliveryType
<1>1. ASSUME NEW p \in Reporters, NEW b \in Builds, NEW state \in {"pending"} \cup Outcomes,
             NotifyBuildStatus(p, b, state)
      PROVE  SentWasServed'
  BY <1>1 DEF NotifyBuildStatus, NoDelivery, Goto
<1>2. ASSUME NEW p \in Reporters, RecoverDelivery(p) PROVE SentWasServed'
  BY <1>2 DEF RecoverDelivery, NoDelivery, Goto, IsRecoverable
<1>3. ASSUME NEW p \in Reporters, Acquire(p) PROVE SentWasServed'
  BY <1>3, AcquireEffects DEF Acquire
<1>4. ASSUME NEW p \in Reporters, Check(p) PROVE SentWasServed'
  BY <1>4 DEF Check, Goto
<1>5. ASSUME NEW p \in Reporters, MarkSuperseded(p) PROVE SentWasServed'
  BY <1>5, HolderMarks, MarkGoesOn DEF PublishedWasServed
<1>6. ASSUME NEW p \in Reporters, PublishCommitStatus(p) PROVE SentWasServed'
  BY <1>6 DEF PublishCommitStatus, Serve, Request, Goto
<1>7. ASSUME NEW p \in Reporters, PublishFails(p) PROVE SentWasServed'
  BY <1>7 DEF PublishFails, Serve, Request, Goto
<1>8. ASSUME NEW p \in Reporters, Answered(p) PROVE SentWasServed'
  BY <1>8 DEF Answered, Goto
<1>9. ASSUME NEW p \in Reporters, Mark(p) PROVE SentWasServed'
  BY <1>9, HolderMarks, MarkGoesOn DEF PublishedWasServed
<1>10. ASSUME NEW p \in Reporters, MarkDeliveryFailed(p) PROVE SentWasServed'
  BY <1>10, HolderMarks, MarkGoesOn DEF PublishedWasServed
<1>11. ASSUME NEW p \in Reporters, ReassertAuthoritativeDelivery(p) PROVE SentWasServed'
  BY <1>11
     DEF ReassertAuthoritativeDelivery, Serve, ScmStatusPublishRequest, Done, NoDelivery, Goto
<1>12. ASSUME NEW p \in Reporters, Cut(p) PROVE SentWasServed'
  BY <1>12 DEF Cut, Serve, Request, Done, NoDelivery, Goto
<1>13. ASSUME Tick PROVE SentWasServed'
  BY <1>13, TickEffects
<1>14. CASE CreateBuild \/ StrandAnother \/ UNCHANGED vars
  BY <1>14 DEF CreateBuild, StrandAnother, vars
<1> QED
  BY <1>1, <1>2, <1>3, <1>4, <1>5, <1>6, <1>7, <1>8, <1>9, <1>10, <1>11, <1>12,
     <1>13, <1>14
     DEF Next, Deliver

(* The invariant is inductive. *)
LEMMA NextIndInv == IndInv /\ [Next]_vars => IndInv'
  BY OutcomesAssumption, TokensAssumption, TimesAssumption, BuildsAssumption,
     TypeStep, DeliveryShapeStep, PublishedWasServedStep, ClaimFencesStep, RowShapeStep,
     RowValidStep, SentWasServedStep
     DEF IndInv

(* The inductive invariant, for every instance. *)
THEOREM DeliveryInvariant == Spec => []IndInv
  BY InitIndInv, NextIndInv, PTL DEF Spec

(* Every row that AcquireForDelivery and the marks of a delivery write      *)
(* meets the CHECK constraint of scm_status_deliveries.                     *)
THEOREM RowsAreValid == Spec => []RowValid
<1>1. IndInv => RowValid
  BY DEF IndInv
<1> QED
  BY <1>1, DeliveryInvariant, PTL

(* MarkSent vouches only for a state of a build that the provider accepted: *)
(* the fence on claimed_by and claimed_at is enough for that.               *)
THEOREM SentOnlyWhatWasServed == Spec => []SentWasServed
<1>1. IndInv => SentWasServed
  BY DEF IndInv
<1> QED
  BY <1>1, DeliveryInvariant, PTL

(* A row only changes its build or its state when a claim replaces it. *)
LEMMA StepNeverGoesBack ==
    ASSUME IndInv, Next
    PROVE  /\ row'.build >= row.build
           /\ row'.build = row.build /\ IsTerminal(row.desired) => IsTerminal(row'.desired)
<1> USE DEF IndInv, TypeOK, RowType, DeliveryType, Builds
<1>1. ASSUME NEW p \in Reporters, Acquire(p)
      PROVE  /\ row'.build >= row.build
             /\ row'.build = row.build /\ IsTerminal(row.desired) => IsTerminal(row'.desired)
  <2>1. CASE row' = row
    BY <2>1, BuildsAssumption
  <2>2. CASE row' # row
    <3>1. row'.build = mem[p].build /\ row'.desired = mem[p].state
      BY <1>1, <2>2, AcquireEffects
    <3>2. Replaces(mem[p]) \/ (row.build = mem[p].build /\ row.desired = mem[p].state)
      BY <1>1, <2>2, AcquireEffects
    <3>3. row.build \in Int /\ mem[p].build \in Int
      BY BuildsAssumption
    <3>4. CASE row.build < mem[p].build
      BY <3>1, <3>3, <3>4
    <3>5. CASE row.build = mem[p].build
      BY <3>1, <3>2, <3>3, <3>5 DEF Replaces, IsTerminal
    <3> QED
      BY <3>2, <3>3, <3>4, <3>5 DEF Replaces
  <2> QED
    BY <2>1, <2>2
<1>2. ASSUME row'.build = row.build, row'.desired = row.desired
      PROVE  /\ row'.build >= row.build
             /\ row'.build = row.build /\ IsTerminal(row.desired) => IsTerminal(row'.desired)
  BY <1>2, BuildsAssumption
<1>3. ASSUME NEW p \in Reporters, MarkSuperseded(p) \/ Mark(p) \/ MarkDeliveryFailed(p)
      PROVE  row'.build = row.build /\ row'.desired = row.desired
  BY <1>3 DEF MarkSuperseded, Mark, Marked, MarkDeliveryFailed, Released
<1>4. ASSUME Tick PROVE row'.build = row.build /\ row'.desired = row.desired
  BY <1>4 DEF Tick
<1> QED
  BY <1>1, <1>2, <1>3, <1>4
     DEF Next, Deliver, CreateBuild, StrandAnother, NotifyBuildStatus, RecoverDelivery, Check, PublishCommitStatus,
         PublishFails, Answered, ReassertAuthoritativeDelivery, Cut

(* The row of a commit never goes back to an older build, nor from a build's *)
(* outcome back to pending, in whatever order the reports of its builds are  *)
(* claimed.                                                                  *)
THEOREM RowNeverGoesBack == Spec => NeverGoesBack
<1>1. IndInv /\ [Next]_vars =>
        [/\ row'.build >= row.build
         /\ row'.build = row.build /\ IsTerminal(row.desired) => IsTerminal(row'.desired)]_vars
  BY StepNeverGoesBack
<1> QED
  BY <1>1, DeliveryInvariant, PTL DEF Spec, NeverGoesBack
=============================================================================
