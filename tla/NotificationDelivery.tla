------------------------ MODULE NotificationDelivery ------------------------
(***************************************************************************)
(* The notification ledger of one terminal build event: one row of         *)
(* notification_deliveries per destination (service/build/notification_*,  *)
(* notification_delivery_repository.go).  Notifiers are the processes that *)
(* post the terminal build and send inline; drains are the servers'        *)
(* recovery loops.  Both claim a row, prepare and send the message, and    *)
(* record what became of it.  A claim is identified by claimed_by and      *)
(* claimed_at; every claim adds one to attempts, so attempts names it.     *)
(* Email and Slack are known by what their answers do to the row.          *)
(***************************************************************************)
EXTENDS Integers, Sequences, FiniteSets, SequencesExt

CONSTANTS
    Deliveries,    \* destinations of the event, dedupeDestinations applied
    Notifiers,     \* calls of NotifyTerminalBuild
    Drains,        \* servers running NotificationRecoveryDrain
    MaxAttempts,   \* retryPolicy.maxAttempts
    Lease,         \* claimDuration, in ticks
    InitialDelay,  \* retryPolicy.initialDelay, in ticks
    MaxDelay,      \* retryPolicy.maxDelay, in ticks
    BatchSize,     \* rows a drain takes per iteration
    MaxFaults,     \* bound on crashes and failed queries
    None           \* no delivery

ASSUME NotificationAssumption ==
    /\ {MaxAttempts, Lease, InitialDelay, MaxDelay, BatchSize} \subseteq Nat \ {0}
    /\ InitialDelay <= MaxDelay
    /\ MaxFaults \in Nat
    /\ None \notin Deliveries
    /\ Notifiers \cap Drains = {}
    /\ IsFiniteSet(Deliveries) /\ IsFiniteSet(Notifiers \cup Drains)

VARIABLES
    row,       \* status, attempts, ticks to claim_expires_at or next_attempt_at
    due,       \* rows ListRecoverable returns, by recover_at
    received,  \* messages the destination has got
    doubt,     \* deliveries that may have gone out without the row saying so
    pc,        \* where each actor is
    todo,      \* deliveries left in its round, in order
    cur,       \* the delivery it has claimed
    tok,       \* its claim on it
    verdict,   \* retryable or permanent failure
    faults

actorVars == <<todo, cur, tok, verdict>>
vars == <<row, due, received, doubt, pc, todo, cur, tok, verdict, faults>>

Actors == Notifiers \cup Drains
Terminal == {"sent", "failed_permanent", "failed_exhausted"}
Statuses == {"none", "sending", "retry_waiting"} \cup Terminal

RowType == [status : Statuses, attempts : 0 .. MaxAttempts, left : 0 .. Lease + MaxDelay]

TypeOK ==
    /\ row \in [Deliveries -> RowType]
    /\ due \in Seq(Deliveries) /\ IsInjective(due)
    /\ received \in [Deliveries -> 0 .. MaxAttempts]
    /\ doubt \subseteq Deliveries
    /\ pc \in [Actors -> {"new", "acquire", "send", "markSent", "markFailed", "idle"}]
    /\ todo \in [Actors -> Seq(Deliveries)]
    /\ cur \in [Actors -> Deliveries \cup {None}]
    /\ tok \in [Actors -> 0 .. MaxAttempts]
    /\ verdict \in [Actors -> {"none", "retryable", "permanent"}]
    /\ faults \in 0 .. MaxFaults

Init ==
    /\ row = [d \in Deliveries |-> [status |-> "none", attempts |-> 0, left |-> 0]]
    /\ due = <<>>
    /\ received = [d \in Deliveries |-> 0]
    /\ doubt = {}
    /\ pc = [a \in Actors |-> IF a \in Notifiers THEN "new" ELSE "idle"]
    /\ todo = [a \in Actors |-> <<>>]
    /\ cur = [a \in Actors |-> None]
    /\ tok = [a \in Actors |-> 0]
    /\ verdict = [a \in Actors |-> "none"]
    /\ faults = 0

Goto(a, next) == pc' = [pc EXCEPT ![a] = next]

(* The actor is done with its delivery and goes on with those in rest. *)
Continue(a, rest) ==
    /\ todo' = [todo EXCEPT ![a] = rest]
    /\ Goto(a, IF rest = <<>> THEN "idle" ELSE "acquire")
    /\ cur' = [cur EXCEPT ![a] = None]
    /\ tok' = [tok EXCEPT ![a] = 0]
    /\ verdict' = [verdict EXCEPT ![a] = "none"]

Fault == faults < MaxFaults /\ faults' = faults + 1

-----------------------------------------------------------------------------
(* Rounds *)

(* NotifyTerminalBuild up to resolveTerminalDestinations; no row exists    *)
(* before the destination's turn comes, so that a failed lookup notifies   *)
(* nobody.                                                                 *)
NotifyTerminalBuild(n) ==
    /\ pc[n] = "new"
    /\ \/ Continue(n, SetToSeq(Deliveries)) /\ UNCHANGED faults
       \/ Continue(n, <<>>) /\ Fault
    /\ UNCHANGED <<row, due, received, doubt>>

(* RunIteration: the BatchSize rows due longest. *)
RunIteration(s) ==
    /\ pc[s] = "idle"
    /\ due # <<>>
    /\ Continue(s, SubSeq(due, 1, Min({BatchSize, Len(due)})))
    /\ UNCHANGED <<row, due, received, doubt, faults>>

-----------------------------------------------------------------------------
(* AcquireForDelivery *)

(* Mutant: any row that has not ended is claimed, its status alone being   *)
(* looked at.                                                              *)
ClaimableAnyTime(r) == r.status \in {"sending", "retry_waiting"}

(* Mutant: an expired sending claim is never taken over. *)
ClaimableRetries(r) == r.status = "retry_waiting" /\ r.left = 0 /\ r.attempts < MaxAttempts

(* NotificationDeliveryClaimOutcomeFromExisting: retry_claimed or          *)
(* stale_claim_reclaimed.  A row that is sending its last attempt is       *)
(* attempts_exhausted whether or not the claim has expired, and stays as   *)
(* it is.                                                                  *)
Claimable(r) ==
    /\ r.status \in {"sending", "retry_waiting"}
    /\ r.left = 0
    /\ r.attempts < MaxAttempts

AcquireForDelivery(a) == LET d == Head(todo[a]) IN
    /\ pc[a] = "acquire"
    /\ row[d].status = "none" \/ Claimable(row[d])
    /\ row' = [row EXCEPT ![d] = [status |-> "sending", attempts |-> @.attempts + 1, left |-> Lease]]
    /\ due' = RemoveFirst(due, d)
    /\ doubt' = IF row[d].status = "sending" /\ row[d].left = 0 THEN doubt \cup {d} ELSE doubt
    /\ cur' = [cur EXCEPT ![a] = d]
    /\ tok' = [tok EXCEPT ![a] = row[d].attempts + 1]
    /\ Goto(a, "send")
    /\ UNCHANGED <<received, todo, verdict, faults>>

(* Sent, failed, exhausted, not due or claimed by another: next one.  A    *)
(* failed query ends an inline round and skips the row in a drain's.       *)
SkipDelivery(a) == LET d == Head(todo[a]) IN
    /\ pc[a] = "acquire"
    /\ \/ /\ row[d].status # "none" /\ ~Claimable(row[d])
          /\ Continue(a, Tail(todo[a]))
          /\ UNCHANGED faults
       \/ /\ Continue(a, IF a \in Notifiers THEN <<>> ELSE Tail(todo[a]))
          /\ Fault
    /\ UNCHANGED <<row, due, received, doubt>>

-----------------------------------------------------------------------------
(* The claimed delivery *)

(* rehydrateDelivery and renderNotificationContent read target, identity,  *)
(* workspace and build again, any of which may have gone or changed; then  *)
(* sendDestination.  An error may hide a message that went out.  A         *)
(* deadline exceeded, which is how the mail sender reports its own         *)
(* timeout, leaves the claim active for stale recovery.                    *)
SendDestination(a) ==
    /\ pc[a] = "send"
    /\ \/ /\ received' = [received EXCEPT ![cur[a]] = @ + 1]
          /\ Goto(a, "markSent")
          /\ UNCHANGED <<doubt, actorVars, faults>>
       \/ \E v \in {"retryable", "permanent"} :
            /\ Goto(a, "markFailed")
            /\ verdict' = [verdict EXCEPT ![a] = v]
            /\ UNCHANGED <<received, doubt, todo, cur, tok, faults>>
       \/ /\ received' = [received EXCEPT ![cur[a]] = @ + 1]
          /\ doubt' = doubt \cup {cur[a]}
          /\ Goto(a, "markFailed")
          /\ verdict' = [verdict EXCEPT ![a] = "retryable"]
          /\ UNCHANGED <<todo, cur, tok, faults>>
       \/ /\ received' \in {received, [received EXCEPT ![cur[a]] = @ + 1]}
          /\ Continue(a, Tail(todo[a]))
          /\ UNCHANGED <<doubt, faults>>
    /\ UNCHANGED <<row, due>>

(* Mutant: a writer that lost its claim overwrites the row all the same. *)
NotTerminalYet(a) == row[cur[a]].status # "none"

(* WHERE status = 'sending' AND claimed_by = ... AND claimed_at = ... *)
HoldsClaim(a) == row[cur[a]].status = "sending" /\ row[cur[a]].attempts = tok[a]

(* The row takes the state r; nothing else in the table moves. *)
Record(a, status, left) ==
    /\ row' = [row EXCEPT ![cur[a]].status = status, ![cur[a]].left = left]
    /\ due' = RemoveFirst(due, cur[a])

(* MarkSent.  When the query fails, the delivery is recorded as a          *)
(* retryable failure although the message is out.                          *)
MarkSent(a) ==
    /\ pc[a] = "markSent"
    /\ \/ /\ IF HoldsClaim(a) THEN Record(a, "sent", 0) ELSE UNCHANGED <<row, due>>
          /\ Continue(a, Tail(todo[a]))
          /\ UNCHANGED <<doubt, faults>>
       \/ /\ Fault
          /\ Goto(a, "markFailed")
          /\ verdict' = [verdict EXCEPT ![a] = "retryable"]
          /\ doubt' = doubt \cup {cur[a]}
          /\ UNCHANGED <<row, due, todo, cur, tok>>
    /\ UNCHANGED received

DelayForAttempt(n) ==
    LET delay == InitialDelay * 2 ^ (n - 1)
    IN  IF n <= 1 THEN InitialDelay ELSE IF delay > MaxDelay THEN MaxDelay ELSE delay

(* The provers know nothing of powers. *)
ASSUME DelayAssumption == \A n \in 1 .. MaxAttempts : DelayForAttempt(n) \in 1 .. MaxDelay

(* markDeliveryFailed: RecordRetryableFailure, RecordExhaustedFailure or   *)
(* RecordPermanentFailure.                                                 *)
MarkFailed(a) ==
    /\ pc[a] = "markFailed"
    /\ \/ /\ IF ~HoldsClaim(a) THEN UNCHANGED <<row, due>>
             ELSE IF verdict[a] = "permanent" THEN Record(a, "failed_permanent", 0)
             ELSE IF tok[a] < MaxAttempts THEN Record(a, "retry_waiting", DelayForAttempt(tok[a]))
             ELSE Record(a, "failed_exhausted", 0)
          /\ UNCHANGED faults
       \/ Fault /\ UNCHANGED <<row, due>>
    /\ Continue(a, Tail(todo[a]))
    /\ UNCHANGED <<received, doubt>>

-----------------------------------------------------------------------------
(* The process dies; a drain starts anew with its server. *)
Crash(a) ==
    /\ pc[a] \notin {"new", "idle"}
    /\ Fault
    /\ doubt' = IF pc[a] = "markSent" THEN doubt \cup {cur[a]} ELSE doubt
    /\ Continue(a, <<>>)
    /\ UNCHANGED <<row, due, received>>

Waiting(r) == r.status \in {"sending", "retry_waiting"} /\ r.left > 0

(* A tick of the clock; rows that fall due at the same instant are in the  *)
(* order of their ids, which are random.                                   *)
Tick ==
    /\ \E d \in Deliveries : Waiting(row[d])
    /\ row' = [d \in Deliveries |-> IF Waiting(row[d]) THEN [row[d] EXCEPT !.left = @ - 1] ELSE row[d]]
    /\ \E batch \in SetToSeqs({d \in Deliveries : Waiting(row[d]) /\ ~Waiting(row'[d])}) : due' = due \o batch
    /\ UNCHANGED <<received, doubt, pc, actorVars, faults>>

Step(a) ==
    \/ AcquireForDelivery(a) \/ SkipDelivery(a)
    \/ SendDestination(a) \/ MarkSent(a) \/ MarkFailed(a)

Next ==
    \/ \E n \in Notifiers : NotifyTerminalBuild(n)
    \/ \E s \in Drains : RunIteration(s)
    \/ \E a \in Actors : Step(a) \/ Crash(a)
    \/ Tick

(* Processes keep running their code, the recovery interval elapses again  *)
(* and again, and time passes.                                             *)
Fairness ==
    /\ WF_vars(Tick)
    /\ \A a \in Actors : WF_vars(Step(a))
    /\ \A s \in Drains : WF_vars(RunIteration(s))

Spec == Init /\ [][Next]_vars /\ Fairness

-----------------------------------------------------------------------------
(* Properties *)

(* A claim on the last attempt that nobody works on any more. *)
Stranded ==
    {d \in Deliveries :
        /\ row[d].status = "sending" /\ row[d].attempts = MaxAttempts /\ row[d].left = 0
        /\ \A a \in Actors : cur[a] # d}

(* A destination gets the message twice only when an expired claim was     *)
(* taken over, or the record of a message that went out was lost: never    *)
(* because inline notifiers and drains of several processes work on the    *)
(* ledger at the same time.                                                *)
DuplicatesExplained == \A d \in Deliveries : received[d] > 1 => d \in doubt

(* A delivery that is sent or has failed stays so, and a row marked sent   *)
(* had a message go out: a writer that comes back after its claim was      *)
(* taken over changes nothing.                                             *)
OutcomeFinal ==
    [][\A d \in Deliveries :
        /\ row[d].status \in Terminal => row'[d] = row[d]
        /\ row'[d].status = "sent" => received[d] > 0]_vars

(* Every delivery that has a row ends sent or failed, whatever processes   *)
(* die, unless it is stranded itself or BatchSize stranded rows stand      *)
(* before it in every scan of the drains.                                  *)
DeliverySettles ==
    \A d \in Deliveries :
        row[d].status # "none"
            ~> \/ row[d].status \in Terminal
               \/ d \in Stranded
               \/ Cardinality(Stranded) >= BatchSize

-----------------------------------------------------------------------------
(* The inductive invariant *)

(* No row that is waiting is listed as due; a row is new until it is       *)
(* claimed, and one that says sent had a message go out.                   *)
RowShape ==
    /\ \A i \in 1 .. Len(due) : ~Waiting(row[due[i]])
    /\ \A d \in Deliveries :
        /\ row[d].status = "none" => row[d].attempts = 0
        /\ row[d].status = "sent" => received[d] > 0

(* What an actor carries at which point of its round. *)
ActorShape ==
    \A a \in Actors :
        /\ pc[a] \in {"send", "markSent", "markFailed"} <=> cur[a] # None
        /\ pc[a] \in {"acquire", "send", "markSent", "markFailed"} => todo[a] # <<>>
        /\ pc[a] = "markSent" => received[cur[a]] > 0

(* Claims are counted by the row: no two actors have the same one. *)
ClaimShape ==
    /\ \A a \in Actors : cur[a] # None => tok[a] \in 1 .. row[cur[a]].attempts
    /\ \A a, b \in Actors : cur[a] # None /\ cur[a] = cur[b] /\ tok[a] = tok[b] => a = b

(* Every message, sent or about to be, has an attempt of its own. *)
Senders(d) == {a \in Actors : cur[a] = d /\ pc[a] = "send"}
MessagesCounted ==
    \A d \in Deliveries : received[d] + Cardinality(Senders(d)) <= row[d].attempts

(* Without doubt about a delivery, its one actor holds the claim, and has  *)
(* not sent anything unless it is about to say so.                         *)
NoDoubt ==
    \A d \in Deliveries \ doubt :
        /\ received[d] <= 1
        /\ row[d].status \in {"none", "retry_waiting"} => received[d] = 0
        /\ \A a \in Actors : cur[a] = d =>
            HoldsClaim(a) /\ (pc[a] # "markSent" => received[d] = 0)

IndInv ==
    /\ TypeOK
    /\ RowShape
    /\ ActorShape
    /\ ClaimShape
    /\ MessagesCounted
    /\ NoDoubt
=============================================================================
