--------------------- MODULE NotificationDeliveryProofs ---------------------
(***************************************************************************)
(* What the notification ledger keeps to for any number of destinations,   *)
(* notifiers, drains and attempts.                                         *)
(***************************************************************************)
EXTENDS NotificationDelivery, SequenceTheorems, FiniteSetTheorems, TLAPS

(* Arithmetic that the sequences and the counting below need. *)
LEMMA MovedUp ==
    \A i, k, l \in Nat : 1 <= i /\ i <= l /\ k <= l - 1 /\ ~(k < i) =>
        ~(k <= i - 1) /\ k - (i - 1) \in 1 .. l - i /\ i + (k - (i - 1)) = k + 1
  OBVIOUS

LEMMA CountingOne ==
    /\ \A m, k, n, x \in Nat : m + k <= x /\ n <= k + 1 => m + n <= x + 1
    /\ \A m, k, n, x \in Nat : m + k <= x /\ n <= k - 1 => m + 1 + n <= x
    /\ \A m, k, n, x \in Nat : m + k <= x /\ n = k - 1 => m + 1 <= x
  OBVIOUS

(* A sequence without one of its elements: the ones before it stay where   *)
(* they are, the ones behind it move up.                                   *)
LEMMA ElementRemoved ==
    ASSUME NEW S, NEW s \in Seq(S), NEW i \in 1 .. Len(s)
    PROVE  /\ RemoveAt(s, i) \in Seq(S)
           /\ Len(RemoveAt(s, i)) = Len(s) - 1
           /\ \A k \in 1 .. Len(s) - 1 : RemoveAt(s, i)[k] = IF k < i THEN s[k] ELSE s[k + 1]
<1> DEFINE m == SubSeq(s, 1, i - 1)
           n == SubSeq(s, i + 1, Len(s))
<1>1. Len(s) \in Nat /\ i \in Nat /\ i >= 1 /\ i <= Len(s)
  OBVIOUS
<1>2. m \in Seq(S) /\ Len(m) = i - 1 /\ \A k \in 1 .. i - 1 : m[k] = s[k]
  <2>1. m \in Seq(S) /\ Len(m) = i - 1
    BY <1>1, SubSeqProperties
  <2>2. \A k \in 1 .. i - 1 : m[k] = s[1 + k - 1]
    BY <1>1, SubSeqProperties
  <2> QED
    BY <2>1, <2>2
<1>3. n \in Seq(S) /\ Len(n) = Len(s) - i /\ \A k \in 1 .. Len(s) - i : n[k] = s[i + k]
  <2>1. CASE i = Len(s)
    <3>1. n = << >>
      BY <1>1, <2>1, SubSeqEmpty
    <3> QED
      BY <1>1, <2>1, <3>1
  <2>2. CASE i < Len(s)
    <3>1. n \in Seq(S) /\ Len(n) = Len(s) - i
      BY <1>1, <2>2, SubSeqProperties
    <3>2. \A k \in 1 .. Len(n) : n[k] = s[i + 1 + k - 1]
      BY <1>1, <2>2, SubSeqProperties
    <3> QED
      BY <1>1, <3>1, <3>2
  <2> QED
    BY <1>1, <2>1, <2>2
<1>4. RemoveAt(s, i) = m \o n
  BY DEF RemoveAt
<1> HIDE DEF m, n
<1>5. /\ m \o n \in Seq(S) /\ Len(m \o n) = Len(m) + Len(n)
      /\ \A k \in 1 .. Len(m) + Len(n) : (m \o n)[k] = IF k <= Len(m) THEN m[k] ELSE n[k - Len(m)]
  BY <1>2, <1>3, ConcatProperties
<1>6. Len(m) + Len(n) = Len(s) - 1
  BY <1>1, <1>2, <1>3
<1>7. ASSUME NEW k \in 1 .. Len(s) - 1
      PROVE  (m \o n)[k] = IF k < i THEN s[k] ELSE s[k + 1]
  <2>1. k \in 1 .. Len(m) + Len(n) /\ k \in Nat
    BY <1>1, <1>6
  <2>2. (m \o n)[k] = IF k <= Len(m) THEN m[k] ELSE n[k - Len(m)]
    BY <1>5, <2>1
  <2>3. CASE k < i
    <3>1. k <= Len(m) /\ k \in 1 .. i - 1
      BY <1>1, <1>2, <2>1, <2>3
    <3> QED
      BY <1>2, <2>2, <2>3, <3>1
  <2>4. CASE ~(k < i)
    <3>1. ~(k <= Len(m)) /\ k - Len(m) \in 1 .. Len(s) - i /\ i + (k - Len(m)) = k + 1
      <4>1. k <= Len(s) - 1 /\ Len(m) = i - 1
        BY <1>1, <1>2
      <4> QED
        BY <1>1, <2>1, <2>4, <4>1, MovedUp
    <3>2. n[k - Len(m)] = s[i + (k - Len(m))]
      BY <1>3, <3>1
    <3> QED
      BY <2>2, <2>4, <3>1, <3>2
  <2> QED
    BY <2>3, <2>4
<1> QED
  BY <1>4, <1>5, <1>6, <1>7

LEMMA FirstRemoved ==
    ASSUME NEW S, NEW s \in Seq(S), IsInjective(s), NEW e
    PROVE  /\ RemoveFirst(s, e) \in Seq(S)
           /\ IsInjective(RemoveFirst(s, e))
           /\ \A k \in 1 .. Len(RemoveFirst(s, e)) :
                /\ RemoveFirst(s, e)[k] # e
                /\ \E j \in 1 .. Len(s) : RemoveFirst(s, e)[k] = s[j]
<1>1. CASE \A i \in 1 .. Len(s) : s[i] # e
  <2>1. RemoveFirst(s, e) = s
    BY <1>1 DEF RemoveFirst
  <2> QED
    BY <1>1, <2>1
<1>2. CASE \E i \in 1 .. Len(s) : s[i] = e
  <2>1. PICK i \in 1 .. Len(s) : s[i] = e
    BY <1>2
  <2>2. \A k \in 1 .. Len(s) : s[k] = e => k = i
    BY <2>1 DEF IsInjective
  <2>3. {k \in 1 .. Len(s) : s[k] = e} = {i}
    BY <2>1, <2>2
  <2>4. Min({i}) = i
    BY DEF Min
  <2>5. SelectInSeq(s, LAMBDA v : v = e) = i
    BY <2>3, <2>4 DEF SelectInSeq
  <2>6. RemoveFirst(s, e) = RemoveAt(s, i)
    BY <1>2, <2>5 DEF RemoveFirst
  <2>7. /\ RemoveAt(s, i) \in Seq(S)
        /\ Len(RemoveAt(s, i)) = Len(s) - 1
        /\ \A k \in 1 .. Len(s) - 1 : RemoveAt(s, i)[k] = IF k < i THEN s[k] ELSE s[k + 1]
    BY ElementRemoved
  <2> DEFINE r == RemoveAt(s, i)
  <2> HIDE DEF r
  <2>8. /\ r \in Seq(S) /\ Len(r) = Len(s) - 1
        /\ \A k \in 1 .. Len(s) - 1 : r[k] = IF k < i THEN s[k] ELSE s[k + 1]
    BY <2>7 DEF r
  <2>9. IsInjective(r)
    <3>1. \A k, j \in 1 .. Len(s) : s[k] = s[j] => k = j
      BY DEF IsInjective
    <3>2. ASSUME NEW k \in 1 .. Len(r), NEW j \in 1 .. Len(r), r[k] = r[j] PROVE k = j
      <4>1. /\ k \in 1 .. Len(s) - 1 /\ j \in 1 .. Len(s) - 1 /\ Len(s) \in Nat
            /\ k \in 1 .. Len(s) /\ k + 1 \in 1 .. Len(s)
            /\ j \in 1 .. Len(s) /\ j + 1 \in 1 .. Len(s)
        BY <2>8
      <4>2. /\ r[k] = IF k < i THEN s[k] ELSE s[k + 1]
            /\ r[j] = IF j < i THEN s[j] ELSE s[j + 1]
        BY <2>8, <4>1
      <4>3. CASE k < i /\ j < i
        BY <3>1, <3>2, <4>1, <4>2, <4>3
      <4>4. CASE k < i /\ ~(j < i)
        <5>1. k = j + 1
          BY <3>1, <3>2, <4>1, <4>2, <4>4
        <5> QED
          BY <4>1, <4>4, <5>1
      <4>5. CASE ~(k < i) /\ j < i
        <5>1. k + 1 = j
          BY <3>1, <3>2, <4>1, <4>2, <4>5
        <5> QED
          BY <4>1, <4>5, <5>1
      <4>6. CASE ~(k < i) /\ ~(j < i)
        <5>1. k + 1 = j + 1
          BY <3>1, <3>2, <4>1, <4>2, <4>6
        <5> QED
          BY <4>1, <5>1
      <4> QED
        BY <4>3, <4>4, <4>5, <4>6
    <3>3. DOMAIN r = 1 .. Len(r)
      BY <2>8
    <3> QED
      BY <3>2, <3>3 DEF IsInjective
  <2>10. \A k \in 1 .. Len(r) : r[k] # e /\ \E j \in 1 .. Len(s) : r[k] = s[j]
    BY <2>2, <2>8
  <2> QED
    BY <2>6, <2>8, <2>9, <2>10 DEF r
<1> QED
  BY <1>1, <1>2

(* A round over all destinations. *)
LEMMA DestinationsInOrder == SetToSeq(Deliveries) \in Seq(Deliveries)
<1> DEFINE n == Cardinality(Deliveries)
<1>1. n \in Nat /\ ExistsBijection(1 .. n, Deliveries)
  BY FS_CardinalityType, NotificationAssumption
<1> HIDE DEF n
<1>2. \E f \in [1 .. n -> Deliveries] : IsInjective(f)
  BY <1>1 DEF ExistsBijection, Bijection, Injection
<1>3. SetToSeq(Deliveries) \in [1 .. n -> Deliveries]
  BY <1>2 DEF SetToSeq, n
<1> QED
  BY <1>1, <1>3, IsASeq

(* A round of a drain. *)
LEMMA BatchInOrder ==
    ASSUME TypeOK PROVE SubSeq(due, 1, Min({BatchSize, Len(due)})) \in Seq(Deliveries)
<1>1. due \in Seq(Deliveries) /\ Len(due) \in Nat /\ BatchSize \in Nat
  BY NotificationAssumption DEF TypeOK
<1>2. Min({BatchSize, Len(due)}) \in Int /\ Min({BatchSize, Len(due)}) <= Len(due)
  <2>1. \E x \in {BatchSize, Len(due)} : \A y \in {BatchSize, Len(due)} : x <= y
    BY <1>1
  <2>2. /\ Min({BatchSize, Len(due)}) \in {BatchSize, Len(due)}
        /\ \A y \in {BatchSize, Len(due)} : Min({BatchSize, Len(due)}) <= y
    BY <2>1 DEF Min
  <2> QED
    BY <1>1, <2>2
<1> DEFINE m == Min({BatchSize, Len(due)})
<1> HIDE DEF m
<1>3. m \in Int /\ m <= Len(due)
  BY <1>2 DEF m
<1>4. \A i \in 1 .. m : due[i] \in Deliveries
  BY <1>1, <1>3
<1>5. SubSeq(due, 1, m) \in Seq(Deliveries)
  BY <1>3, <1>4, SubSeqProperties
<1> QED
  BY <1>5 DEF m

-----------------------------------------------------------------------------
(* What a step does, in the terms of the invariant *)

ActorTypes ==
    /\ pc' \in [Actors -> {"new", "acquire", "send", "markSent", "markFailed", "idle"}]
    /\ todo' \in [Actors -> Seq(Deliveries)]
    /\ cur' \in [Actors -> Deliveries \cup {None}]
    /\ tok' \in [Actors -> 0 .. MaxAttempts]
    /\ verdict' \in [Actors -> {"none", "retryable", "permanent"}]

OthersSame(a) ==
    \A b \in Actors : b # a =>
        pc'[b] = pc[b] /\ todo'[b] = todo[b] /\ cur'[b] = cur[b] /\ tok'[b] = tok[b]

(* The actor has let go of its delivery. *)
Released(a) ==
    /\ cur'[a] = None /\ pc'[a] \in {"idle", "acquire"}
    /\ pc'[a] = "acquire" => todo'[a] # <<>>
    /\ OthersSame(a)
    /\ ActorTypes

(* It keeps its claim and goes on. *)
Goes(a, next) ==
    /\ pc'[a] = next /\ cur'[a] = cur[a] /\ tok'[a] = tok[a] /\ todo'[a] = todo[a]
    /\ OthersSame(a)
    /\ ActorTypes

(* A step that shows in no row. *)
Quiet(a) ==
    /\ Released(a)
    /\ doubt \subseteq doubt' /\ doubt' \subseteq Deliveries
    /\ UNCHANGED <<row, due, received>>

Acquires(a, d) ==
    /\ pc[a] = "acquire" /\ cur[a] = None /\ todo[a] # <<>>
    /\ row[d].status = "none" \/ Claimable(row[d])
    /\ row' = [row EXCEPT ![d] = [status |-> "sending", attempts |-> row[d].attempts + 1, left |-> Lease]]
    /\ due' = RemoveFirst(due, d)
    /\ doubt' = IF row[d].status = "sending" /\ row[d].left = 0 THEN doubt \cup {d} ELSE doubt
    /\ pc'[a] = "send" /\ cur'[a] = d /\ tok'[a] = row[d].attempts + 1 /\ todo'[a] = todo[a]
    /\ OthersSame(a)
    /\ ActorTypes
    /\ UNCHANGED received

(* A message goes out. *)
Sends(a, d) ==
    /\ pc[a] = "send" /\ cur[a] = d
    /\ received' = [received EXCEPT ![d] = @ + 1]
    /\ \/ Goes(a, "markSent") /\ doubt' = doubt
       \/ Goes(a, "markFailed") /\ doubt' = doubt \cup {d}
       \/ Released(a) /\ doubt' = doubt
    /\ UNCHANGED <<row, due>>

(* None goes out, or nobody will know. *)
Fails(a, d) ==
    /\ Goes(a, "markFailed") /\ cur[a] = d
    /\ \/ pc[a] = "send" /\ doubt' = doubt
       \/ pc[a] = "markSent" /\ doubt' = doubt \cup {d}
    /\ UNCHANGED <<row, due, received>>

(* The holder of the claim writes the row. *)
Records(a, d, r) ==
    /\ cur[a] = d /\ HoldsClaim(a)
    /\ r.attempts = row[d].attempts
    /\ \/ r.status = "sent" /\ pc[a] = "markSent"
       \/ r.status \in {"retry_waiting", "failed_permanent", "failed_exhausted"} /\ pc[a] = "markFailed"
    /\ row' = [row EXCEPT ![d] = r]
    /\ due' = RemoveFirst(due, d)
    /\ Released(a)
    /\ UNCHANGED <<received, doubt>>

LEMMA ContinueReleases ==
    ASSUME TypeOK, NEW a \in Actors, NEW rest \in Seq(Deliveries), Continue(a, rest)
    PROVE  Released(a)
<1>1. ActorTypes
  BY NotificationAssumption DEF TypeOK, Continue, Goto, ActorTypes
<1> QED
  BY <1>1 DEF TypeOK, Continue, Goto, Released, OthersSame

LEMMA GotoGoes ==
    ASSUME TypeOK, NEW a \in Actors, NEW next \in {"markSent", "markFailed"}, Goto(a, next),
           UNCHANGED <<todo, cur, tok>>,
           UNCHANGED verdict \/ \E v \in {"retryable", "permanent"} : verdict' = [verdict EXCEPT ![a] = v]
    PROVE  Goes(a, next)
<1>1. ActorTypes
  BY DEF TypeOK, Goto, ActorTypes
<1> QED
  BY <1>1 DEF TypeOK, Goto, Goes, OthersSame

(* What is left of a round behind its first delivery. *)
LEMMA RestOfRound ==
    ASSUME TypeOK, ActorShape, NEW a \in Actors,
           pc[a] \in {"acquire", "send", "markSent", "markFailed"}
    PROVE  Head(todo[a]) \in Deliveries /\ Tail(todo[a]) \in Seq(Deliveries) /\ <<>> \in Seq(Deliveries)
<1>1. todo[a] \in Seq(Deliveries) /\ todo[a] # <<>>
  BY DEF TypeOK, ActorShape
<1> QED
  BY <1>1, HeadTailProperties, EmptySeq

Moves(a) ==
    \/ Quiet(a)
    \/ \E d \in Deliveries :
        \/ Acquires(a, d) \/ Sends(a, d) \/ Fails(a, d)
        \/ \E r \in RowType : Records(a, d, r)

(* The delivery an actor works on. *)
LEMMA CurrentDelivery ==
    ASSUME TypeOK, ActorShape, NEW a \in Actors, pc[a] \in {"send", "markSent", "markFailed"}
    PROVE  cur[a] \in Deliveries
  BY DEF TypeOK, ActorShape

LEMMA RoundBegins ==
    ASSUME TypeOK, NEW a \in Actors, NotifyTerminalBuild(a) \/ RunIteration(a)
    PROVE  Quiet(a)
<1>1. UNCHANGED <<row, due, received, doubt>> /\ doubt \subseteq Deliveries
  BY DEF NotifyTerminalBuild, RunIteration, TypeOK
<1>2. \E rest \in Seq(Deliveries) : Continue(a, rest)
  BY DestinationsInOrder, BatchInOrder, EmptySeq DEF NotifyTerminalBuild, RunIteration
<1> QED
  BY <1>1, <1>2, ContinueReleases DEF Quiet

LEMMA AcquireMoves ==
    ASSUME TypeOK, RowShape, ActorShape, NEW a \in Actors, AcquireForDelivery(a) PROVE Moves(a)
<1> DEFINE d == Head(todo[a])
<1>1. d \in Deliveries
  BY RestOfRound DEF AcquireForDelivery
<1>2. /\ pc[a] = "acquire" /\ cur[a] = None /\ todo[a] # <<>>
      /\ row[d].status = "none" \/ Claimable(row[d])
      /\ row' = [row EXCEPT ![d] = [status |-> "sending", attempts |-> row[d].attempts + 1, left |-> Lease]]
      /\ due' = RemoveFirst(due, d)
      /\ doubt' = IF row[d].status = "sending" /\ row[d].left = 0 THEN doubt \cup {d} ELSE doubt
      /\ UNCHANGED <<received, todo, verdict>>
      /\ cur' = [cur EXCEPT ![a] = d] /\ tok' = [tok EXCEPT ![a] = row[d].attempts + 1]
      /\ pc' = [pc EXCEPT ![a] = "send"]
  BY DEF AcquireForDelivery, ActorShape, Goto
<1> HIDE DEF d
<1>3. row[d].attempts + 1 \in 0 .. MaxAttempts
  <2>1. row[d] \in RowType
    BY <1>1 DEF TypeOK
  <2>2. row[d].attempts \in 0 .. MaxAttempts /\ MaxAttempts \in Nat \ {0}
    BY <2>1, NotificationAssumption DEF RowType
  <2>3. CASE Claimable(row[d])
    BY <2>2, <2>3 DEF Claimable
  <2>4. CASE row[d].status = "none"
    BY <1>1, <2>2, <2>4 DEF RowShape
  <2> QED
    BY <1>2, <2>3, <2>4
<1>4. ActorTypes
  BY <1>1, <1>2, <1>3 DEF TypeOK, ActorTypes
<1>5. Acquires(a, d)
  BY <1>1, <1>2, <1>4 DEF TypeOK, Acquires, OthersSame
<1> QED
  BY <1>1, <1>5 DEF Moves

LEMMA SkipMoves ==
    ASSUME TypeOK, ActorShape, NEW a \in Actors, SkipDelivery(a) PROVE Quiet(a)
<1>1. UNCHANGED <<row, due, received, doubt>> /\ doubt \subseteq Deliveries /\ pc[a] = "acquire"
  BY DEF SkipDelivery, TypeOK
<1>2. \E rest \in Seq(Deliveries) : Continue(a, rest)
  BY <1>1, RestOfRound DEF SkipDelivery
<1> QED
  BY <1>1, <1>2, ContinueReleases DEF Quiet

LEMMA SendMoves ==
    ASSUME TypeOK, ActorShape, NEW a \in Actors, SendDestination(a) PROVE Moves(a)
<1> DEFINE d == cur[a]
<1>1. d \in Deliveries /\ Tail(todo[a]) \in Seq(Deliveries) /\ doubt \subseteq Deliveries
  BY CurrentDelivery, RestOfRound DEF SendDestination, TypeOK
<1>2. pc[a] = "send" /\ UNCHANGED <<row, due>>
  BY DEF SendDestination
<1>3. CASE /\ received' = [received EXCEPT ![d] = @ + 1] /\ Goto(a, "markSent")
           /\ UNCHANGED <<doubt, actorVars>>
  <2>1. Goes(a, "markSent")
    BY <1>3, GotoGoes DEF actorVars
  <2>2. Sends(a, d)
    BY <1>2, <1>3, <2>1 DEF Sends
  <2> QED
    BY <1>1, <2>2 DEF Moves
<1>4. ASSUME NEW v \in {"retryable", "permanent"}, Goto(a, "markFailed"),
             verdict' = [verdict EXCEPT ![a] = v], UNCHANGED <<received, doubt, todo, cur, tok>>
      PROVE  Moves(a)
  <2>1. Goes(a, "markFailed")
    BY <1>4, GotoGoes
  <2>2. Fails(a, d)
    BY <1>2, <1>4, <2>1 DEF Fails
  <2> QED
    BY <1>1, <2>2 DEF Moves
<1>5. CASE /\ received' = [received EXCEPT ![d] = @ + 1] /\ Goto(a, "markFailed")
           /\ doubt' = doubt \cup {d}
           /\ verdict' = [verdict EXCEPT ![a] = "retryable"] /\ UNCHANGED <<todo, cur, tok>>
  <2>1. Goes(a, "markFailed")
    BY <1>5, GotoGoes
  <2>2. Sends(a, d)
    BY <1>2, <1>5, <2>1 DEF Sends
  <2> QED
    BY <1>1, <2>2 DEF Moves
<1>6. CASE /\ received' \in {received, [received EXCEPT ![d] = @ + 1]}
           /\ Continue(a, Tail(todo[a])) /\ UNCHANGED doubt
  <2>1. Released(a)
    BY <1>1, <1>6, ContinueReleases
  <2>2. UNCHANGED received => Quiet(a)
    BY <1>1, <1>2, <1>6, <2>1 DEF Quiet
  <2>3. received' = [received EXCEPT ![d] = @ + 1] => Sends(a, d)
    BY <1>2, <1>6, <2>1 DEF Sends
  <2> QED
    BY <1>1, <1>6, <2>2, <2>3 DEF Moves
<1> QED
  BY <1>3, <1>4, <1>5, <1>6 DEF SendDestination

(* A row that its holder writes. *)
LEMMA RecordMoves ==
    ASSUME TypeOK, NEW a \in Actors, NEW st \in Statuses, NEW left \in 0 .. Lease + MaxDelay,
           cur[a] \in Deliveries, Record(a, st, left)
    PROVE  \E r \in RowType :
                /\ r.status = st /\ r.attempts = row[cur[a]].attempts
                /\ row' = [row EXCEPT ![cur[a]] = r] /\ due' = RemoveFirst(due, cur[a])
<1> DEFINE d == cur[a]
           r == [row[d] EXCEPT !.status = st, !.left = left]
<1>1. row[d] \in RowType
  BY DEF TypeOK
<1>2. r \in RowType /\ r.status = st /\ r.attempts = row[d].attempts
  BY <1>1 DEF RowType
<1>3. row' = [row EXCEPT ![d] = r] /\ due' = RemoveFirst(due, d)
  BY DEF Record, TypeOK
<1> QED
  BY <1>2, <1>3

LEMMA MarkSentMoves ==
    ASSUME TypeOK, ActorShape, NEW a \in Actors, MarkSent(a) PROVE Moves(a)
<1> DEFINE d == cur[a]
<1>1. /\ d \in Deliveries /\ Tail(todo[a]) \in Seq(Deliveries) /\ doubt \subseteq Deliveries
      /\ pc[a] = "markSent" /\ UNCHANGED received
  BY CurrentDelivery, RestOfRound DEF MarkSent, TypeOK
<1>2. CASE /\ HoldsClaim(a) /\ Record(a, "sent", 0)
           /\ Continue(a, Tail(todo[a])) /\ UNCHANGED doubt
  <2>1. Released(a)
    BY <1>1, <1>2, ContinueReleases
  <2>2. PICK r \in RowType :
            /\ r.status = "sent" /\ r.attempts = row[d].attempts
            /\ row' = [row EXCEPT ![d] = r] /\ due' = RemoveFirst(due, d)
    BY <1>1, <1>2, RecordMoves, NotificationAssumption DEF Statuses, Terminal
  <2>3. Records(a, d, r)
    BY <1>1, <1>2, <2>1, <2>2 DEF Records
  <2> QED
    BY <1>1, <2>3 DEF Moves
<1>3. CASE UNCHANGED <<row, due, doubt>> /\ Continue(a, Tail(todo[a]))
  <2>1. Released(a)
    BY <1>1, <1>3, ContinueReleases
  <2> QED
    BY <1>1, <1>3, <2>1 DEF Quiet, Moves
<1>4. CASE /\ Goto(a, "markFailed") /\ verdict' = [verdict EXCEPT ![a] = "retryable"]
           /\ doubt' = doubt \cup {d} /\ UNCHANGED <<row, due, todo, cur, tok>>
  <2>1. Goes(a, "markFailed")
    BY <1>4, GotoGoes
  <2>2. Fails(a, d)
    BY <1>1, <1>4, <2>1 DEF Fails
  <2> QED
    BY <1>1, <2>2 DEF Moves
<1> QED
  BY <1>2, <1>3, <1>4 DEF MarkSent

LEMMA MarkFailedMoves ==
    ASSUME TypeOK, ActorShape, ClaimShape, NEW a \in Actors, MarkFailed(a) PROVE Moves(a)
<1> DEFINE d == cur[a]
<1>1. /\ d \in Deliveries /\ Tail(todo[a]) \in Seq(Deliveries) /\ doubt \subseteq Deliveries
      /\ pc[a] = "markFailed" /\ UNCHANGED <<received, doubt>> /\ Continue(a, Tail(todo[a]))
  BY CurrentDelivery, RestOfRound DEF MarkFailed, TypeOK
<1>2. Released(a)
  BY <1>1, ContinueReleases
<1>3. CASE UNCHANGED <<row, due>>
  BY <1>1, <1>2, <1>3 DEF Quiet, Moves
<1>4. ASSUME HoldsClaim(a),
             NEW st \in {"retry_waiting", "failed_permanent", "failed_exhausted"},
             NEW left \in 0 .. Lease + MaxDelay, Record(a, st, left)
      PROVE  Moves(a)
  <2>1. PICK r \in RowType :
            /\ r.status = st /\ r.attempts = row[d].attempts
            /\ row' = [row EXCEPT ![d] = r] /\ due' = RemoveFirst(due, d)
    BY <1>1, <1>4, RecordMoves DEF Statuses, Terminal
  <2>2. Records(a, d, r)
    BY <1>1, <1>2, <1>4, <2>1 DEF Records
  <2> QED
    BY <1>1, <2>2 DEF Moves
<1>5. 0 \in 0 .. Lease + MaxDelay
  BY NotificationAssumption
<1>6. HoldsClaim(a) /\ tok[a] < MaxAttempts => DelayForAttempt(tok[a]) \in 0 .. Lease + MaxDelay
  <2>1. cur[a] # None => tok[a] \in Nat /\ tok[a] >= 1
    BY DEF ClaimShape
  <2>2. tok[a] < MaxAttempts => tok[a] \in 1 .. MaxAttempts
    BY <1>1, <2>1, NotificationAssumption
  <2>3. tok[a] < MaxAttempts => DelayForAttempt(tok[a]) \in 1 .. MaxDelay
    BY <2>2, DelayAssumption
  <2> QED
    BY <2>3, NotificationAssumption
<1> QED
  BY <1>3, <1>4, <1>5, <1>6 DEF MarkFailed

LEMMA CrashMoves ==
    ASSUME TypeOK, ActorShape, NEW a \in Actors, Crash(a) PROVE Quiet(a)
<1>1. doubt \subseteq doubt' /\ doubt' \subseteq Deliveries /\ UNCHANGED <<row, due, received>>
  BY CurrentDelivery DEF Crash, TypeOK
<1>2. Released(a)
  BY ContinueReleases, EmptySeq DEF Crash
<1> QED
  BY <1>1, <1>2 DEF Quiet

(* Every step of an actor is one of these. *)
LEMMA StepKinds ==
    ASSUME TypeOK, RowShape, ActorShape, ClaimShape, [Next]_vars
    PROVE  \/ \E a \in Actors : Moves(a)
           \/ Tick
           \/ UNCHANGED <<row, due, received, doubt, pc, todo, cur, tok, verdict>>
<1>1. ASSUME NEW a \in Actors, NotifyTerminalBuild(a) \/ RunIteration(a) \/ Step(a) \/ Crash(a)
      PROVE  Moves(a)
  BY <1>1, RoundBegins, AcquireMoves, SkipMoves, SendMoves, MarkSentMoves,
     MarkFailedMoves, CrashMoves
     DEF Step, Moves
<1>2. Notifiers \subseteq Actors /\ Drains \subseteq Actors
  BY DEF Actors
<1>3. UNCHANGED vars => UNCHANGED <<row, due, received, doubt, pc, todo, cur, tok, verdict>>
  BY DEF vars
<1> QED
  BY <1>1, <1>2, <1>3 DEF Next

(* A tick keeps status and attempts of every row, and lists those that     *)
(* fall due behind the others.                                             *)
Ticked ==
    /\ row' \in [Deliveries -> RowType]
    /\ \A d \in Deliveries :
        /\ row'[d].status = row[d].status /\ row'[d].attempts = row[d].attempts
        /\ row[d].status \in Terminal => row'[d] = row[d]
    /\ due' \in Seq(Deliveries) /\ IsInjective(due')
    /\ \A i \in 1 .. Len(due') : ~Waiting(row'[due'[i]])
    /\ UNCHANGED <<received, doubt, pc, todo, cur, tok, verdict>>

LEMMA TickTicks == ASSUME TypeOK, RowShape, Tick PROVE Ticked
<1>a. /\ row \in [Deliveries -> RowType] /\ due \in Seq(Deliveries) /\ IsInjective(due)
      /\ \A i \in 1 .. Len(due) : ~Waiting(row[due[i]])
  BY DEF TypeOK, RowShape
<1>1. UNCHANGED <<received, doubt, pc, todo, cur, tok, verdict>>
  BY DEF Tick, actorVars
<1>2. row' = [d \in Deliveries |-> IF Waiting(row[d]) THEN [row[d] EXCEPT !.left = @ - 1] ELSE row[d]]
  BY DEF Tick
<1>3. ASSUME NEW d \in Deliveries
      PROVE  /\ row'[d] \in RowType
             /\ row'[d].status = row[d].status /\ row'[d].attempts = row[d].attempts
             /\ ~Waiting(row[d]) => row'[d] = row[d]
  <2>1. CASE ~Waiting(row[d])
    BY <1>a, <1>2, <2>1
  <2>2. CASE Waiting(row[d])
    <3>1. row'[d] = [row[d] EXCEPT !.left = row[d].left - 1]
      BY <1>2, <2>2
    <3>2. row[d] \in RowType /\ row[d].left > 0
      BY <1>a, <2>2 DEF Waiting
    <3>3. row[d].left - 1 \in 0 .. Lease + MaxDelay
      BY <3>2, NotificationAssumption DEF RowType
    <3> QED
      BY <2>2, <3>1, <3>2, <3>3 DEF RowType
  <2> QED
    BY <2>1, <2>2
<1>4. row' \in [Deliveries -> RowType]
  BY <1>2, <1>3
<1>5. \A d \in Deliveries : row[d].status \in Terminal => ~Waiting(row[d])
  BY DEF Waiting, Terminal
<1> DEFINE B == {d \in Deliveries : Waiting(row[d]) /\ ~Waiting(row'[d])}
           n == Cardinality(B)
<1>6. PICK batch \in SetToSeqs(B) : due' = due \o batch
  BY DEF Tick
<1>7. n \in Nat
  BY FS_Subset, FS_CardinalityType, NotificationAssumption
<1>8. /\ batch \in [1 .. n -> B]
      /\ \A i, j \in 1 .. n : i # j => batch[i] # batch[j]
  BY DEF SetToSeqs
<1> HIDE DEF n
<1>9. /\ batch \in Seq(Deliveries) /\ Len(batch) = n
      /\ \A i \in 1 .. n : batch[i] \in B
  BY <1>7, <1>8, IsASeq
<1>10. /\ due' \in Seq(Deliveries) /\ Len(due') = Len(due) + n
       /\ \A i \in 1 .. Len(due) + n : due'[i] = IF i <= Len(due) THEN due[i] ELSE batch[i - Len(due)]
  BY <1>a, <1>6, <1>9, ConcatProperties
<1>11. Len(due) \in Nat /\ \A i \in 1 .. Len(due) : due[i] \in Deliveries
  BY <1>a
<1>12. \A i \in 1 .. Len(due) + n : i <= Len(due) \/ i - Len(due) \in 1 .. n
  BY <1>7, <1>11
<1>13. \A i \in 1 .. Len(due') : ~Waiting(row'[due'[i]])
  <2>1. \A i \in 1 .. Len(due) : ~Waiting(row'[due[i]])
    BY <1>a, <1>3, <1>11
  <2>2. \A i \in 1 .. n : ~Waiting(row'[batch[i]])
    BY <1>9
  <2> QED
    BY <1>7, <1>10, <1>11, <1>12, <2>1, <2>2
<1>14. IsInjective(due')
  <2>1. \A i, j \in 1 .. Len(due) : due[i] = due[j] => i = j
    BY <1>a DEF IsInjective
  <2>2. \A i \in 1 .. Len(due), j \in 1 .. n : due[i] # batch[j]
    BY <1>a, <1>9
  <2> HIDE DEF B
  <2>3. \A i, j \in 1 .. Len(due) + n : due'[i] = due'[j] => i = j
    <3> SUFFICES ASSUME NEW i \in 1 .. Len(due) + n, NEW j \in 1 .. Len(due) + n, due'[i] = due'[j]
                 PROVE  i = j
      OBVIOUS
    <3>1. CASE i <= Len(due) /\ j <= Len(due)
      BY <1>10, <1>11, <2>1, <3>1
    <3>2. CASE i <= Len(due) /\ j > Len(due)
      BY <1>10, <1>11, <1>12, <2>2, <3>2
    <3>3. CASE i > Len(due) /\ j <= Len(due)
      BY <1>10, <1>11, <1>12, <2>2, <3>3
    <3>4. CASE i > Len(due) /\ j > Len(due)
      <4>1. i - Len(due) \in 1 .. n /\ j - Len(due) \in 1 .. n
        BY <1>7, <1>11, <3>4
      <4>2. batch[i - Len(due)] = batch[j - Len(due)]
        BY <1>10, <1>11, <3>4
      <4>3. i - Len(due) = j - Len(due)
        BY <1>8, <4>1, <4>2
      <4> QED
        BY <1>7, <1>11, <4>3
    <3> QED
      BY <1>7, <1>11, <3>1, <3>2, <3>3, <3>4
  <2> QED
    BY <1>10, <2>3 DEF IsInjective
<1> QED
  BY <1>1, <1>3, <1>4, <1>5, <1>10, <1>13, <1>14 DEF Ticked

-----------------------------------------------------------------------------
(* The conjuncts of the invariant, one by one *)

(* The types, variable by variable. *)
LEMMA Typed ==
    ASSUME IndInv
    PROVE  /\ row \in [Deliveries -> RowType] /\ due \in Seq(Deliveries) /\ IsInjective(due)
           /\ received \in [Deliveries -> 0 .. MaxAttempts] /\ doubt \subseteq Deliveries
           /\ MaxAttempts \in Nat \ {0} /\ Lease \in Nat \ {0} /\ MaxDelay \in Nat \ {0}
           /\ None \notin Deliveries
           /\ \A d \in Deliveries :
                row[d].attempts \in 0 .. MaxAttempts /\ row[d].attempts \in Nat /\ received[d] \in Nat
  BY NotificationAssumption DEF IndInv, TypeOK, RowType

LEMMA Kinds ==
    ASSUME IndInv, [Next]_vars
    PROVE  \/ \E a \in Actors : Quiet(a)
           \/ \E a \in Actors, d \in Deliveries : Acquires(a, d)
           \/ \E a \in Actors, d \in Deliveries : Sends(a, d)
           \/ \E a \in Actors, d \in Deliveries : Fails(a, d)
           \/ \E a \in Actors, d \in Deliveries, r \in RowType : Records(a, d, r)
           \/ Ticked
           \/ UNCHANGED <<row, due, received, doubt, pc, todo, cur, tok, verdict>>
  BY StepKinds, TickTicks DEF IndInv, Moves

(* Sets of actors are finite. *)
LEMMA ActorsFinite ==
    ASSUME NEW T \in SUBSET Actors
    PROVE  /\ IsFiniteSet(T) /\ Cardinality(T) \in Nat
           /\ \A U \in SUBSET T : Cardinality(U) \in Nat /\ Cardinality(U) <= Cardinality(T)
<1>1. IsFiniteSet(Actors)
  BY NotificationAssumption DEF Actors
<1>2. IsFiniteSet(T)
  BY <1>1, FS_Subset
<1> QED
  BY <1>2, FS_Subset, FS_CardinalityType

(* An actor that is about to send has an attempt that no message used yet. *)
LEMMA AttemptLeft ==
    ASSUME IndInv, NEW a \in Actors, NEW d \in Deliveries, pc[a] = "send", cur[a] = d
    PROVE  /\ received[d] + 1 <= row[d].attempts
           /\ Cardinality(Senders(d) \ {a}) = Cardinality(Senders(d)) - 1
<1>1. a \in Senders(d) /\ Senders(d) \in SUBSET Actors
  BY DEF Senders
<1>2. /\ IsFiniteSet(Senders(d)) /\ Cardinality(Senders(d)) \in Nat
      /\ Cardinality(Senders(d) \ {a}) \in Nat
  BY <1>1, ActorsFinite
<1>3. Cardinality(Senders(d) \ {a}) = Cardinality(Senders(d)) - 1
  BY <1>1, <1>2, FS_RemoveElement
<1>4. received[d] + Cardinality(Senders(d)) <= row[d].attempts
  BY DEF IndInv, MessagesCounted
<1>5. received[d] \in Nat /\ row[d].attempts \in Nat
  BY Typed
<1>6. received[d] + 1 <= row[d].attempts
  BY <1>2, <1>3, <1>4, <1>5, CountingOne
<1> QED
  BY <1>3, <1>6

LEMMA TypeKept == IndInv /\ [Next]_vars => TypeOK'
<1> SUFFICES ASSUME IndInv, [Next]_vars PROVE TypeOK'
  OBVIOUS
<1>1. faults' \in 0 .. MaxFaults
  <2>1. faults \in 0 .. MaxFaults /\ MaxFaults \in Nat
    BY NotificationAssumption DEF IndInv, TypeOK
  <2>2. UNCHANGED faults \/ Fault
    BY DEF Next, Step, NotifyTerminalBuild, RunIteration, AcquireForDelivery, SkipDelivery,
       SendDestination, MarkSent, MarkFailed, Crash, Tick, vars
  <2> QED
    BY <2>1, <2>2 DEF Fault
<1> SUFFICES /\ row' \in [Deliveries -> RowType] /\ due' \in Seq(Deliveries) /\ IsInjective(due')
             /\ received' \in [Deliveries -> 0 .. MaxAttempts] /\ doubt' \subseteq Deliveries
             /\ ActorTypes
  BY <1>1 DEF TypeOK, ActorTypes
<1>2. CASE \E a \in Actors : Quiet(a)
  BY <1>2, Typed DEF Quiet, Released
<1>3. ASSUME NEW a \in Actors, NEW d \in Deliveries, Acquires(a, d)
      PROVE  /\ row' \in [Deliveries -> RowType] /\ due' \in Seq(Deliveries) /\ IsInjective(due')
             /\ received' \in [Deliveries -> 0 .. MaxAttempts] /\ doubt' \subseteq Deliveries
             /\ ActorTypes
  <2>1. row[d].attempts + 1 \in 0 .. MaxAttempts
    BY <1>3 DEF Acquires, ActorTypes
  <2>2. [status |-> "sending", attempts |-> row[d].attempts + 1, left |-> Lease] \in RowType
    BY <2>1, Typed DEF RowType, Statuses
  <2>3. row' \in [Deliveries -> RowType]
    BY <1>3, <2>2, Typed DEF Acquires
  <2>4. due' \in Seq(Deliveries) /\ IsInjective(due')
    BY <1>3, Typed, FirstRemoved DEF Acquires
  <2>5. received' = received /\ doubt' \subseteq Deliveries /\ ActorTypes
    BY <1>3, Typed DEF Acquires
  <2> QED
    BY <2>3, <2>4, <2>5, Typed
<1>4. ASSUME NEW a \in Actors, NEW d \in Deliveries, Sends(a, d)
      PROVE  /\ row' \in [Deliveries -> RowType] /\ due' \in Seq(Deliveries) /\ IsInjective(due')
             /\ received' \in [Deliveries -> 0 .. MaxAttempts] /\ doubt' \subseteq Deliveries
             /\ ActorTypes
  <2>1. received[d] + 1 \in 0 .. MaxAttempts
    <3>1. received[d] + 1 <= row[d].attempts
      BY <1>4, AttemptLeft DEF Sends
    <3> QED
      BY <3>1, Typed
  <2>2. received' \in [Deliveries -> 0 .. MaxAttempts]
    BY <1>4, <2>1, Typed DEF Sends
  <2>3. UNCHANGED <<row, due>> /\ doubt' \subseteq Deliveries /\ ActorTypes
    BY <1>4, Typed DEF Sends, Goes, Released
  <2> QED
    BY <2>2, <2>3, Typed
<1>5. CASE \E a \in Actors, d \in Deliveries : Fails(a, d)
  BY <1>5, Typed DEF Fails, Goes
<1>6. ASSUME NEW a \in Actors, NEW d \in Deliveries, NEW r \in RowType, Records(a, d, r)
      PROVE  /\ row' \in [Deliveries -> RowType] /\ due' \in Seq(Deliveries) /\ IsInjective(due')
             /\ received' \in [Deliveries -> 0 .. MaxAttempts] /\ doubt' \subseteq Deliveries
             /\ ActorTypes
  <2>1. row' \in [Deliveries -> RowType]
    BY <1>6, Typed DEF Records
  <2>2. due' \in Seq(Deliveries) /\ IsInjective(due')
    BY <1>6, Typed, FirstRemoved DEF Records
  <2> QED
    BY <1>6, <2>1, <2>2, Typed DEF Records, Released
<1>7. CASE Ticked \/ UNCHANGED <<row, due, received, doubt, pc, todo, cur, tok, verdict>>
  <2>1. UNCHANGED <<received, doubt, pc, todo, cur, tok, verdict>>
    BY <1>7 DEF Ticked
  <2>2. ActorTypes
    BY <2>1 DEF ActorTypes, IndInv, TypeOK
  <2> QED
    BY <1>7, <2>1, <2>2, Typed DEF Ticked
<1> QED
  BY <1>2, <1>3, <1>4, <1>5, <1>6, <1>7, Kinds

(* Every message has its attempt: a claim adds one, and sends once. *)
LEMMA MessagesKept == IndInv /\ [Next]_vars => MessagesCounted'
<1> SUFFICES ASSUME IndInv, [Next]_vars, NEW e \in Deliveries
             PROVE  received'[e] + Cardinality(Senders(e)') <= row'[e].attempts
  BY DEF MessagesCounted
<1> DEFINE S == Senders(e)
           T == {b \in Actors : cur'[b] = e /\ pc'[b] = "send"}
<1>a. S \in SUBSET Actors /\ T \in SUBSET Actors /\ T = Senders(e)'
  BY DEF Senders
<1>b. Cardinality(S) \in Nat /\ Cardinality(T) \in Nat
  BY <1>a, ActorsFinite
<1>c. received[e] + Cardinality(S) <= row[e].attempts
  BY DEF IndInv, MessagesCounted
<1>d. ASSUME T \subseteq S, received'[e] = received[e], row'[e].attempts = row[e].attempts
      PROVE  received'[e] + Cardinality(T) <= row'[e].attempts
  <2>1. Cardinality(T) <= Cardinality(S)
    BY <1>a, <1>d, ActorsFinite
  <2> QED
    BY <1>b, <1>c, <1>d, <2>1, Typed
<1>e. ASSUME NEW a \in Actors, OthersSame(a), cur'[a] # e \/ pc'[a] # "send"
      PROVE  T \subseteq S \ {a}
  BY <1>e DEF OthersSame, Senders
<1>f. received[e] \in Nat /\ row[e].attempts \in Nat
  BY Typed
<1> SUFFICES received'[e] + Cardinality(T) <= row'[e].attempts
  BY <1>a
<1> HIDE DEF S, T
<1>1. ASSUME NEW a \in Actors, Quiet(a) PROVE received'[e] + Cardinality(T) <= row'[e].attempts
  <2>1. T \subseteq S
    BY <1>1, <1>e, Typed DEF Quiet, Released
  <2> QED
    BY <1>1, <1>d, <2>1 DEF Quiet
<1>2. ASSUME NEW a \in Actors, NEW d \in Deliveries, Acquires(a, d)
      PROVE  received'[e] + Cardinality(T) <= row'[e].attempts
  <2>1. CASE e # d
    <3>1. T \subseteq S
      BY <1>2, <1>e, <2>1 DEF Acquires
    <3>2. received'[e] = received[e] /\ row'[e].attempts = row[e].attempts
      BY <1>2, <2>1, Typed DEF Acquires
    <3> QED
      BY <1>d, <3>1, <3>2
  <2>2. CASE e = d
    <3>1. T \subseteq S \cup {a}
      BY <1>2 DEF Acquires, OthersSame, Senders, S, T
    <3>2. /\ IsFiniteSet(S) /\ Cardinality(S \cup {a}) \in Nat
          /\ Cardinality(T) <= Cardinality(S \cup {a})
      <4>1. S \cup {a} \in SUBSET Actors
        BY <1>a
      <4> QED
        BY <1>a, <3>1, <4>1, ActorsFinite
    <3>3. Cardinality(S \cup {a}) \in {Cardinality(S), Cardinality(S) + 1}
      BY <3>2, FS_AddElement
    <3>5. Cardinality(T) <= Cardinality(S) + 1
      BY <1>b, <3>2, <3>3
    <3>4. received'[e] = received[e] /\ row'[e].attempts = row[e].attempts + 1
      BY <1>2, <2>2, Typed DEF Acquires
    <3> QED
      BY <1>b, <1>c, <1>f, <3>4, <3>5, CountingOne
  <2> QED
    BY <2>1, <2>2
<1>3. ASSUME NEW a \in Actors, NEW d \in Deliveries, Sends(a, d)
      PROVE  received'[e] + Cardinality(T) <= row'[e].attempts
  <2>1. T \subseteq S \ {a}
    <3>1. OthersSame(a) /\ pc'[a] # "send"
      BY <1>3 DEF Sends, Goes, Released
    <3> QED
      BY <1>e, <3>1
  <2>2. CASE e # d
    BY <1>3, <1>d, <2>1, <2>2, Typed DEF Sends
  <2>3. CASE e = d
    <3>1. Cardinality(S \ {a}) = Cardinality(S) - 1
      BY <1>3, <2>3, AttemptLeft DEF Sends, S
    <3>2. Cardinality(T) <= Cardinality(S \ {a})
      <4>1. S \ {a} \in SUBSET Actors
        BY <1>a
      <4> QED
        BY <2>1, <4>1, ActorsFinite
    <3>3. received'[e] = received[e] + 1 /\ row'[e].attempts = row[e].attempts
      BY <1>3, <2>3, Typed DEF Sends
    <3>4. Cardinality(T) <= Cardinality(S) - 1
      BY <3>1, <3>2
    <3> QED
      BY <1>b, <1>c, <1>f, <3>3, <3>4, CountingOne
  <2> QED
    BY <2>2, <2>3
<1>4. ASSUME NEW a \in Actors, NEW d \in Deliveries, Fails(a, d)
      PROVE  received'[e] + Cardinality(T) <= row'[e].attempts
  <2>1. T \subseteq S
    BY <1>4, <1>e DEF Fails, Goes
  <2> QED
    BY <1>4, <1>d, <2>1 DEF Fails
<1>5. ASSUME NEW a \in Actors, NEW d \in Deliveries, NEW r \in RowType, Records(a, d, r)
      PROVE  received'[e] + Cardinality(T) <= row'[e].attempts
  <2>1. T \subseteq S
    BY <1>5, <1>e, Typed DEF Records, Released
  <2>2. received'[e] = received[e] /\ row'[e].attempts = row[e].attempts
    BY <1>5, Typed DEF Records
  <2> QED
    BY <1>d, <2>1, <2>2
<1>6. CASE Ticked \/ UNCHANGED <<row, due, received, doubt, pc, todo, cur, tok, verdict>>
  <2>1. T \subseteq S
    BY <1>6 DEF Ticked, Senders, S, T
  <2>2. received'[e] = received[e] /\ row'[e].attempts = row[e].attempts
    BY <1>6 DEF Ticked
  <2> QED
    BY <1>d, <2>1, <2>2
<1> QED
  BY <1>1, <1>2, <1>3, <1>4, <1>5, <1>6, Kinds

(* No row that waits is listed, and a row that says sent had its message. *)
LEMMA RowKept == IndInv /\ [Next]_vars => RowShape'
<1> SUFFICES ASSUME IndInv, [Next]_vars
             PROVE  /\ \A i \in 1 .. Len(due') : ~Waiting(row'[due'[i]])
                    /\ \A d \in Deliveries :
                        /\ row'[d].status = "none" => row'[d].attempts = 0
                        /\ row'[d].status = "sent" => received'[d] > 0
  BY DEF RowShape, Waiting
<1>a. /\ \A i \in 1 .. Len(due) : ~Waiting(row[due[i]]) /\ due[i] \in Deliveries
      /\ \A d \in Deliveries :
            /\ row[d].status = "none" => row[d].attempts = 0
            /\ row[d].status = "sent" => received[d] > 0
  BY Typed DEF IndInv, RowShape
<1> DEFINE Fine == /\ \A i \in 1 .. Len(due') : ~Waiting(row'[due'[i]])
                   /\ \A d \in Deliveries :
                        /\ row'[d].status = "none" => row'[d].attempts = 0
                        /\ row'[d].status = "sent" => received'[d] > 0
<1>b. ASSUME NEW d \in Deliveries, NEW r \in RowType, row' = [row EXCEPT ![d] = r],
             due' = RemoveFirst(due, d)
      PROVE  \A i \in 1 .. Len(due') : ~Waiting(row'[due'[i]])
  <2> SUFFICES ASSUME NEW i \in 1 .. Len(due') PROVE ~Waiting(row'[due'[i]])
    OBVIOUS
  <2>1. due'[i] # d /\ \E j \in 1 .. Len(due) : due'[i] = due[j]
    <3>1. due \in Seq(Deliveries) /\ IsInjective(due) /\ i \in 1 .. Len(RemoveFirst(due, d))
      BY <1>b, Typed
    <3>2. /\ RemoveFirst(due, d)[i] # d
          /\ \E j \in 1 .. Len(due) : RemoveFirst(due, d)[i] = due[j]
      BY <3>1, FirstRemoved
    <3> QED
      BY <1>b, <3>2
  <2>2. PICK j \in 1 .. Len(due) : due'[i] = due[j]
    BY <2>1
  <2>3. row'[due[j]] = row[due[j]]
    BY <1>a, <1>b, <2>1, <2>2, Typed
  <2> QED
    BY <1>a, <2>2, <2>3
<1>1. CASE \E a \in Actors : Quiet(a)
  BY <1>a, <1>1 DEF Quiet
<1>2. ASSUME NEW a \in Actors, NEW d \in Deliveries, Acquires(a, d) PROVE Fine
  <2> DEFINE r == [status |-> "sending", attempts |-> row[d].attempts + 1, left |-> Lease]
  <2>1. r \in RowType /\ r.status = "sending"
    <3>1. row[d].attempts + 1 \in 0 .. MaxAttempts
      BY <1>2 DEF Acquires, ActorTypes
    <3> QED
      BY <3>1, Typed DEF RowType, Statuses
  <2>2. row' = [row EXCEPT ![d] = r] /\ due' = RemoveFirst(due, d) /\ received' = received
    BY <1>2 DEF Acquires
  <2> HIDE DEF r
  <2> QED
    BY <1>a, <1>b, <2>1, <2>2, Typed
<1>3. ASSUME NEW a \in Actors, NEW d \in Deliveries, Sends(a, d) PROVE Fine
  <2>1. UNCHANGED <<row, due>> /\ \A e \in Deliveries : received'[e] >= received[e] /\ received'[e] \in Nat
    BY <1>3, Typed DEF Sends
  <2> QED
    BY <1>a, <2>1, Typed
<1>4. CASE \E a \in Actors, d \in Deliveries : Fails(a, d)
  BY <1>a, <1>4 DEF Fails
<1>5. ASSUME NEW a \in Actors, NEW d \in Deliveries, NEW r \in RowType, Records(a, d, r) PROVE Fine
  <2>1. /\ row' = [row EXCEPT ![d] = r] /\ due' = RemoveFirst(due, d) /\ received' = received
        /\ r.status # "none" /\ (r.status = "sent" => pc[a] = "markSent" /\ cur[a] = d)
    BY <1>5 DEF Records
  <2>2. r.status = "sent" => received[d] > 0
    BY <2>1 DEF IndInv, ActorShape
  <2> QED
    BY <1>a, <1>b, <2>1, <2>2, Typed
<1>6. CASE Ticked
  BY <1>a, <1>6 DEF Ticked
<1>7. CASE UNCHANGED <<row, due, received, doubt, pc, todo, cur, tok, verdict>>
  BY <1>a, <1>7
<1> QED
  BY <1>1, <1>2, <1>3, <1>4, <1>5, <1>6, <1>7, Kinds

(* What an actor carries goes with where it is. *)
LEMMA ActorKept == IndInv /\ [Next]_vars => ActorShape'
<1> DEFINE Fine(b) ==
        /\ pc'[b] \in {"send", "markSent", "markFailed"} <=> cur'[b] # None
        /\ pc'[b] \in {"acquire", "send", "markSent", "markFailed"} => todo'[b] # <<>>
        /\ pc'[b] = "markSent" => received'[cur'[b]] > 0
<1> SUFFICES ASSUME IndInv, [Next]_vars, NEW b \in Actors PROVE Fine(b)
  BY DEF ActorShape
<1>a. /\ pc[b] \in {"send", "markSent", "markFailed"} <=> cur[b] # None
      /\ pc[b] \in {"acquire", "send", "markSent", "markFailed"} => todo[b] # <<>>
      /\ pc[b] = "markSent" => received[cur[b]] > 0
      /\ cur[b] # None => cur[b] \in Deliveries
  BY DEF IndInv, ActorShape, TypeOK
<1>b. ASSUME NEW a \in Actors, OthersSame(a), b # a,
             \A e \in Deliveries : received'[e] >= received[e] /\ received'[e] \in Nat
      PROVE  Fine(b)
  <2>1. pc'[b] = pc[b] /\ todo'[b] = todo[b] /\ cur'[b] = cur[b]
    BY <1>b DEF OthersSame
  <2>2. pc[b] = "markSent" => received'[cur[b]] > 0
    BY <1>a, <1>b, Typed
  <2> QED
    BY <1>a, <2>1, <2>2
<1>c. UNCHANGED received => \A e \in Deliveries : received'[e] >= received[e] /\ received'[e] \in Nat
  BY Typed
<1>1. ASSUME NEW a \in Actors, Quiet(a) PROVE Fine(b)
  <2>1. CASE b = a
    BY <1>1, <2>1 DEF Quiet, Released
  <2>2. CASE b # a
    BY <1>1, <1>b, <1>c, <2>2 DEF Quiet, Released
  <2> QED
    BY <2>1, <2>2
<1>2. ASSUME NEW a \in Actors, NEW d \in Deliveries, Acquires(a, d) PROVE Fine(b)
  <2>1. CASE b = a
    BY <1>2, <2>1, Typed DEF Acquires
  <2>2. CASE b # a
    BY <1>2, <1>b, <1>c, <2>2 DEF Acquires
  <2> QED
    BY <2>1, <2>2
<1>3. ASSUME NEW a \in Actors, NEW d \in Deliveries, Sends(a, d) PROVE Fine(b)
  <2>1. /\ \A e \in Deliveries : received'[e] >= received[e] /\ received'[e] \in Nat
        /\ received'[d] > 0 /\ OthersSame(a) /\ pc[a] = "send" /\ cur[a] = d
    BY <1>3, Typed DEF Sends, Goes, Released
  <2>2. CASE b = a /\ Released(a)
    BY <2>2 DEF Released
  <2>3. ASSUME b = a, NEW next \in {"markSent", "markFailed"}, Goes(a, next) PROVE Fine(b)
    BY <1>a, <2>1, <2>3 DEF Goes
  <2>4. CASE b # a
    BY <1>b, <2>1, <2>4
  <2> QED
    BY <1>3, <2>2, <2>3, <2>4 DEF Sends
<1>4. ASSUME NEW a \in Actors, NEW d \in Deliveries, Fails(a, d) PROVE Fine(b)
  <2>1. CASE b = a
    BY <1>4, <1>a, <2>1, Typed DEF Fails, Goes
  <2>2. CASE b # a
    BY <1>4, <1>b, <1>c, <2>2 DEF Fails, Goes
  <2> QED
    BY <2>1, <2>2
<1>5. ASSUME NEW a \in Actors, NEW d \in Deliveries, NEW r \in RowType, Records(a, d, r)
      PROVE  Fine(b)
  <2>1. CASE b = a
    BY <1>5, <2>1 DEF Records, Released
  <2>2. CASE b # a
    BY <1>5, <1>b, <1>c, <2>2 DEF Records, Released
  <2> QED
    BY <2>1, <2>2
<1>6. CASE Ticked \/ UNCHANGED <<row, due, received, doubt, pc, todo, cur, tok, verdict>>
  BY <1>a, <1>6 DEF Ticked
<1> QED
  BY <1>1, <1>2, <1>3, <1>4, <1>5, <1>6, Kinds

(* A claim is numbered by the row and never given twice. *)
LEMMA ClaimKept == IndInv /\ [Next]_vars => ClaimShape'
<1> SUFFICES ASSUME IndInv, [Next]_vars PROVE ClaimShape'
  OBVIOUS
<1>a. /\ \A a \in Actors : cur[a] # None => tok[a] \in 1 .. row[cur[a]].attempts /\ cur[a] \in Deliveries
      /\ \A a, b \in Actors : cur[a] # None /\ cur[a] = cur[b] /\ tok[a] = tok[b] => a = b
  BY DEF IndInv, ClaimShape, TypeOK
(* Claims that are kept or given up, on rows whose attempts only grow. *)
<1>b. ASSUME \A a \in Actors : cur'[a] # None => cur'[a] = cur[a] /\ tok'[a] = tok[a],
             \A d \in Deliveries : row'[d].attempts = row[d].attempts
      PROVE  ClaimShape'
  <2>1. \A a \in Actors : cur'[a] # None => tok'[a] \in 1 .. row'[cur'[a]].attempts
    BY <1>a, <1>b
  <2>2. \A a, b \in Actors : cur'[a] # None /\ cur'[a] = cur'[b] /\ tok'[a] = tok'[b] => a = b
    BY <1>a, <1>b
  <2> QED
    BY <2>1, <2>2 DEF ClaimShape
<1>1. ASSUME NEW a \in Actors, Quiet(a) PROVE ClaimShape'
  BY <1>1, <1>b DEF Quiet, Released, OthersSame
<1>2. ASSUME NEW a \in Actors, NEW d \in Deliveries, Acquires(a, d) PROVE ClaimShape'
  <2>1. /\ cur'[a] = d /\ tok'[a] = row[d].attempts + 1 /\ row[d].attempts \in Nat
        /\ \A b \in Actors : b # a => cur'[b] = cur[b] /\ tok'[b] = tok[b]
        /\ row'[d].attempts = row[d].attempts + 1
        /\ \A e \in Deliveries : e # d => row'[e] = row[e]
    BY <1>2, Typed DEF Acquires, OthersSame
  <2>2. \A b \in Actors : b # a /\ cur[b] = d => tok[b] # tok'[a]
    <3> SUFFICES ASSUME NEW b \in Actors, b # a, cur[b] = d PROVE tok[b] # tok'[a]
      OBVIOUS
    <3>1. tok[b] \in 1 .. row[d].attempts
      BY <1>a, Typed
    <3> QED
      BY <2>1, <3>1
  <2>3. \A b \in Actors : cur'[b] # None => tok'[b] \in 1 .. row'[cur'[b]].attempts
    <3> SUFFICES ASSUME NEW b \in Actors, cur'[b] # None
                 PROVE  tok'[b] \in 1 .. row'[cur'[b]].attempts
      OBVIOUS
    <3>1. CASE b = a
      BY <2>1, <3>1
    <3>2. CASE b # a
      <4>1. tok[b] \in 1 .. row[cur[b]].attempts /\ cur[b] \in Deliveries
        BY <1>a, <2>1, <3>2
      <4>2. CASE cur[b] = d
        BY <2>1, <3>2, <4>1, <4>2
      <4>3. CASE cur[b] # d
        BY <2>1, <3>2, <4>1, <4>3
      <4> QED
        BY <4>2, <4>3
    <3> QED
      BY <3>1, <3>2
  <2>4. \A b, c \in Actors : cur'[b] # None /\ cur'[b] = cur'[c] /\ tok'[b] = tok'[c] => b = c
    BY <1>a, <2>1, <2>2
  <2> QED
    BY <2>3, <2>4 DEF ClaimShape
<1>3. ASSUME NEW a \in Actors, NEW d \in Deliveries, Sends(a, d) PROVE ClaimShape'
  <2>1. \A b \in Actors : cur'[b] # None => cur'[b] = cur[b] /\ tok'[b] = tok[b]
    BY <1>3 DEF Sends, Goes, Released, OthersSame
  <2> QED
    BY <1>3, <1>b, <2>1 DEF Sends
<1>4. ASSUME NEW a \in Actors, NEW d \in Deliveries, Fails(a, d) PROVE ClaimShape'
  BY <1>4, <1>b DEF Fails, Goes, OthersSame
<1>5. ASSUME NEW a \in Actors, NEW d \in Deliveries, NEW r \in RowType, Records(a, d, r)
      PROVE  ClaimShape'
  <2>1. \A b \in Actors : cur'[b] # None => cur'[b] = cur[b] /\ tok'[b] = tok[b]
    BY <1>5 DEF Records, Released, OthersSame
  <2>2. \A e \in Deliveries : row'[e].attempts = row[e].attempts
    BY <1>5, Typed DEF Records
  <2> QED
    BY <1>b, <2>1, <2>2
<1>6. CASE Ticked \/ UNCHANGED <<row, due, received, doubt, pc, todo, cur, tok, verdict>>
  BY <1>6, <1>b DEF Ticked
<1> QED
  BY <1>1, <1>2, <1>3, <1>4, <1>5, <1>6, Kinds

(* Without doubt there is one claim at most, and one message. *)
LEMMA NoDoubtKept == IndInv /\ [Next]_vars => NoDoubt'
<1> DEFINE Sure(e) ==
        /\ received'[e] <= 1
        /\ row'[e].status \in {"none", "retry_waiting"} => received'[e] = 0
        /\ \A b \in Actors : cur'[b] = e =>
            /\ row'[e].status = "sending" /\ row'[e].attempts = tok'[b]
            /\ pc'[b] # "markSent" => received'[e] = 0
<1> SUFFICES ASSUME IndInv, [Next]_vars, NEW e \in Deliveries, e \notin doubt' PROVE Sure(e)
  BY DEF NoDoubt, HoldsClaim
<1>a. e \notin doubt =>
        /\ received[e] <= 1
        /\ row[e].status \in {"none", "retry_waiting"} => received[e] = 0
        /\ \A b \in Actors : cur[b] = e =>
            /\ row[e].status = "sending" /\ row[e].attempts = tok[b]
            /\ pc[b] # "markSent" => received[e] = 0
  BY DEF IndInv, NoDoubt, HoldsClaim
<1>b. /\ \A a, b \in Actors : cur[a] # None /\ cur[a] = cur[b] /\ tok[a] = tok[b] => a = b
      /\ None \notin Deliveries
  BY Typed DEF IndInv, ClaimShape
(* Nothing happens to the row of e, and nobody else claims it. *)
<1>c. ASSUME e \notin doubt, received'[e] = received[e],
             row'[e].status = row[e].status, row'[e].attempts = row[e].attempts,
             \A b \in Actors : cur'[b] = e =>
                cur[b] = e /\ tok'[b] = tok[b] /\ (pc'[b] # "markSent" => pc[b] # "markSent")
      PROVE  Sure(e)
  BY <1>a, <1>c
<1>1. ASSUME NEW a \in Actors, Quiet(a) PROVE Sure(e)
  <2>1. /\ e \notin doubt /\ UNCHANGED <<row, received>>
        /\ \A b \in Actors : cur'[b] = e => cur[b] = e /\ tok'[b] = tok[b] /\ pc'[b] = pc[b]
    BY <1>1, <1>b DEF Quiet, Released, OthersSame
  <2> QED
    BY <1>c, <2>1
<1>2. ASSUME NEW a \in Actors, NEW d \in Deliveries, Acquires(a, d) PROVE Sure(e)
  <2>1. /\ e \notin doubt /\ received' = received
        /\ cur'[a] = d /\ tok'[a] = row[d].attempts + 1
        /\ \A b \in Actors : b # a => cur'[b] = cur[b] /\ tok'[b] = tok[b] /\ pc'[b] = pc[b]
    BY <1>2 DEF Acquires, OthersSame
  <2>2. CASE e # d
    <3>1. row'[e] = row[e]
      BY <1>2, <2>2, Typed DEF Acquires
    <3>2. \A b \in Actors : cur'[b] = e => cur[b] = e /\ tok'[b] = tok[b] /\ pc'[b] = pc[b]
      BY <2>1, <2>2
    <3> QED
      BY <1>c, <2>1, <3>1, <3>2
  <2>3. CASE e = d
    <3>1. row[e].status \in {"none", "retry_waiting"}
      BY <1>2, <2>3 DEF Acquires, Claimable
    <3>2. row'[e].status = "sending" /\ row'[e].attempts = row[e].attempts + 1
      BY <1>2, <2>3, Typed DEF Acquires
    <3>3. received'[e] = 0 /\ \A b \in Actors : cur[b] # e
      BY <1>a, <2>1, <3>1
    <3>4. \A b \in Actors : cur'[b] = e => row'[e].attempts = tok'[b]
      BY <2>1, <2>3, <3>2, <3>3
    <3> QED
      BY <3>2, <3>3, <3>4
  <2> QED
    BY <2>2, <2>3
<1>3. ASSUME NEW a \in Actors, NEW d \in Deliveries, Sends(a, d) PROVE Sure(e)
  <2>1. /\ e \notin doubt /\ UNCHANGED row /\ pc[a] = "send" /\ cur[a] = d
        /\ OthersSame(a) /\ (cur'[a] = None \/ (cur'[a] = d /\ tok'[a] = tok[a]))
    BY <1>3 DEF Sends, Goes, Released
  <2>2. CASE e # d
    <3>1. received'[e] = received[e]
      BY <1>3, <2>2, Typed DEF Sends
    <3>2. \A b \in Actors : cur'[b] = e => cur[b] = e /\ tok'[b] = tok[b] /\ pc'[b] = pc[b]
      BY <1>b, <2>1, <2>2 DEF OthersSame
    <3> QED
      BY <1>c, <2>1, <3>1, <3>2
  <2>3. CASE e = d
    <3>1. /\ received[e] = 0 /\ row[e].status = "sending" /\ row[e].attempts = tok[a]
          /\ \A b \in Actors : cur[b] = e => tok[b] = tok[a]
      BY <1>a, <2>1, <2>3
    <3>2. \A b \in Actors : cur[b] = e => b = a
      BY <1>b, <2>1, <2>3, <3>1
    <3>3. received'[e] = 1
      BY <1>3, <2>3, <3>1, Typed DEF Sends
    <3>4. pc'[a] = "markSent" \/ cur'[a] = None
      BY <1>3, <2>3 DEF Sends, Goes, Released
    <3>5. \A b \in Actors : cur'[b] = e => b = a
      BY <2>1, <3>2 DEF OthersSame
    <3> QED
      BY <1>b, <2>1, <2>3, <3>1, <3>3, <3>4, <3>5
  <2> QED
    BY <2>2, <2>3
<1>4. ASSUME NEW a \in Actors, NEW d \in Deliveries, Fails(a, d) PROVE Sure(e)
  <2>1. /\ e \notin doubt /\ UNCHANGED <<row, received>> /\ OthersSame(a)
        /\ cur'[a] = d /\ cur[a] = d /\ tok'[a] = tok[a] /\ (e = d => pc[a] = "send")
    BY <1>4 DEF Fails, Goes
  <2>2. \A b \in Actors : cur'[b] = e =>
            cur[b] = e /\ tok'[b] = tok[b] /\ (pc'[b] # "markSent" => pc[b] # "markSent")
    BY <2>1 DEF OthersSame
  <2> QED
    BY <1>c, <2>1, <2>2
<1>5. ASSUME NEW a \in Actors, NEW d \in Deliveries, NEW r \in RowType, Records(a, d, r)
      PROVE  Sure(e)
  <2>1. /\ e \notin doubt /\ received' = received /\ cur[a] = d
        /\ cur'[a] = None /\ OthersSame(a)
        /\ row[d].status = "sending" /\ row[d].attempts = tok[a]
    BY <1>5 DEF Records, Released, HoldsClaim
  <2>2. CASE e # d
    <3>1. row'[e] = row[e]
      BY <1>5, <2>2, Typed DEF Records
    <3>2. \A b \in Actors : cur'[b] = e => cur[b] = e /\ tok'[b] = tok[b] /\ pc'[b] = pc[b]
      BY <1>b, <2>1 DEF OthersSame
    <3> QED
      BY <1>c, <2>1, <3>1, <3>2
  <2>3. CASE e = d
    <3>1. \A b \in Actors : cur[b] = e => b = a
      BY <1>a, <1>b, <2>1, <2>3
    <3>2. \A b \in Actors : cur'[b] # e
      BY <1>b, <2>1, <3>1 DEF OthersSame
    <3>3. row'[e] = r
      BY <1>5, <2>3, Typed DEF Records
    <3>4. r.status # "none" /\ (r.status = "retry_waiting" => pc[a] = "markFailed")
      BY <1>5 DEF Records
    <3>5. r.status = "retry_waiting" => received[e] = 0
      BY <1>a, <2>1, <2>3, <3>4
    <3> QED
      BY <1>a, <2>1, <3>2, <3>3, <3>4, <3>5
  <2> QED
    BY <2>2, <2>3
<1>6. CASE Ticked \/ UNCHANGED <<row, due, received, doubt, pc, todo, cur, tok, verdict>>
  <2>1. UNCHANGED <<received, doubt, pc, cur, tok>>
    BY <1>6 DEF Ticked
  <2>2. row'[e].status = row[e].status /\ row'[e].attempts = row[e].attempts
    BY <1>6 DEF Ticked
  <2> QED
    BY <1>c, <2>1, <2>2
<1> QED
  BY <1>1, <1>2, <1>3, <1>4, <1>5, <1>6, Kinds

-----------------------------------------------------------------------------
LEMMA NothingCounted ==
  ASSUME NEW d, received[d] = 0, row[d].attempts = 0, Senders(d) = {}
  PROVE  received[d] + Cardinality(Senders(d)) <= row[d].attempts
<1>1. Cardinality(Senders(d)) = 0
  BY FS_EmptySet
<1> QED
  BY <1>1

LEMMA InitIndInv == Init => IndInv
<1> SUFFICES ASSUME Init PROVE IndInv
  OBVIOUS
<1> USE NotificationAssumption DEF Init
<1>1. /\ \A d \in Deliveries : /\ row[d].status = "none" /\ row[d].attempts = 0 /\ row[d].left = 0
                               /\ received[d] = 0
      /\ \A a \in Actors : cur[a] = None /\ pc[a] \in {"new", "idle"} /\ todo[a] = <<>>
      /\ due = <<>>
  OBVIOUS
<1>2. row \in [Deliveries -> RowType]
  BY DEF RowType, Statuses
<1>3. IsInjective(<< >>) /\ << >> \in Seq(Deliveries) /\ Len(<< >>) = 0
  BY EmptySeq DEF IsInjective
<1>4. TypeOK
  BY <1>2, <1>3 DEF TypeOK
<1>5. RowShape /\ ActorShape /\ ClaimShape /\ NoDoubt
  BY <1>1, <1>3 DEF RowShape, ActorShape, ClaimShape, NoDoubt
<1>6. MessagesCounted
  <2>1. \A d \in Deliveries : Senders(d) = {}
    BY <1>1 DEF Senders
  <2> QED
    BY <1>1, <2>1, NothingCounted DEF MessagesCounted
<1> QED
  BY <1>4, <1>5, <1>6 DEF IndInv

LEMMA NextIndInv == IndInv /\ [Next]_vars => IndInv'
  BY TypeKept, RowKept, ActorKept, ClaimKept, MessagesKept, NoDoubtKept DEF IndInv

(* Types, claims, the count of messages and what is certain of a delivery  *)
(* hold in every reachable state, for any number of destinations and       *)
(* servers.                                                                *)
THEOREM Inductive == Spec => []IndInv
<1>1. Init => IndInv
  BY InitIndInv
<1>2. IndInv /\ [Next]_vars => IndInv'
  BY NextIndInv
<1> QED
  BY <1>1, <1>2, PTL DEF Spec

(* No destination gets the message twice unless an expired claim was taken *)
(* over or the record of a message was lost: AcquireForDelivery lets one   *)
(* actor at a time work on a row, and a row that waits for a retry has     *)
(* sent nothing.                                                           *)
THEOREM DuplicatesHaveAReason == Spec => []DuplicatesExplained
<1>1. IndInv => DuplicatesExplained
  <2> SUFFICES ASSUME IndInv, NEW d \in Deliveries, received[d] > 1, d \notin doubt PROVE FALSE
    BY DEF DuplicatesExplained
  <2>1. received[d] <= 1 /\ received[d] \in Nat
    BY Typed DEF IndInv, NoDoubt
  <2> QED
    BY <2>1
<1> QED
  BY <1>1, Inductive, PTL

(* However often claims are lost, a destination gets no more messages than *)
(* the row has counted attempts, and so at most maxAttempts.               *)
THEOREM MessagesBounded == Spec => [](\A d \in Deliveries : received[d] <= MaxAttempts)
<1>1. IndInv => \A d \in Deliveries : received[d] <= MaxAttempts
  BY Typed
<1> QED
  BY <1>1, Inductive, PTL

(* The row of a delivery that is sent or has failed never changes again,   *)
(* and says sent only of a message that went out: every update demands     *)
(* status = 'sending' and the writer's own claim.                          *)
THEOREM OutcomeIsFinal == Spec => OutcomeFinal
<1> DEFINE Final == \A d \in Deliveries :
                        /\ row[d].status \in Terminal => row'[d] = row[d]
                        /\ row'[d].status = "sent" => received[d] > 0
<1>1. ASSUME IndInv, [Next]_vars, NEW d \in Deliveries
      PROVE  /\ row[d].status \in Terminal => row'[d] = row[d]
             /\ row'[d].status = "sent" => received[d] > 0
  <2>a. row[d].status = "sent" => received[d] > 0
    BY <1>1 DEF IndInv, RowShape
  <2>b. row'[d] = row[d] => /\ row[d].status \in Terminal => row'[d] = row[d]
                            /\ row'[d].status = "sent" => received[d] > 0
    BY <2>a
  <2>1. ASSUME NEW a \in Actors, NEW e \in Deliveries, Acquires(a, e)
        PROVE  row'[d] = row[d] \/ (row[d].status \notin Terminal /\ row'[d].status = "sending")
    <3>1. row[e].status \notin Terminal
      BY <2>1 DEF Acquires, Claimable, Terminal
    <3>2. row'[d] = row[d] \/ (d = e /\ row'[d].status = "sending")
      BY <1>1, <2>1, Typed DEF Acquires
    <3> QED
      BY <3>1, <3>2
  <2>2. ASSUME NEW a \in Actors, NEW e \in Deliveries, NEW r \in RowType, Records(a, e, r)
        PROVE  \/ row'[d] = row[d]
               \/ row[d].status \notin Terminal /\ (row'[d].status = "sent" => received[d] > 0)
    <3>1. row[e].status \notin Terminal
      BY <2>2 DEF Records, HoldsClaim, Terminal
    <3>2. row'[d] = row[d] \/ (d = e /\ row'[d] = r)
      BY <1>1, <2>2, Typed DEF Records
    <3>3. r.status = "sent" => received[e] > 0
      BY <1>1, <2>2 DEF Records, IndInv, ActorShape
    <3> QED
      BY <3>1, <3>2, <3>3
  <2>3. CASE Ticked
    BY <2>3, <2>a DEF Ticked
  <2>4. CASE \/ \E a \in Actors : Quiet(a)
             \/ \E a \in Actors, e \in Deliveries : Sends(a, e) \/ Fails(a, e)
             \/ UNCHANGED <<row, due, received, doubt, pc, todo, cur, tok, verdict>>
    <3>1. row' = row
      BY <2>4 DEF Quiet, Sends, Fails
    <3> QED
      BY <2>b, <3>1
  <2> QED
    BY <1>1, <2>b, <2>1, <2>2, <2>3, <2>4, Kinds
<1>2. IndInv /\ [Next]_vars => [Final]_vars
  BY <1>1
<1> QED
  BY <1>2, Inductive, PTL DEF Spec, OutcomeFinal
=============================================================================
