--------------------------- MODULE StatusDelivery ---------------------------
(***************************************************************************)
(* The delivery of commit statuses to the SCM provider                     *)
(* (service/build/scm_status_*.go, the repositories of                     *)
(* scm_status_deliveries).  One row stands for one commit and context; the *)
(* builds of a job for that commit, one newer than the other, compete for  *)
(* it.  A reporter is a goroutine of a server: it reports a change of a    *)
(* build's status, or recovers a delivery for the drain, and between two   *)
(* of its statements, and around its call to the provider, anything else   *)
(* may happen.                                                             *)
(*                                                                         *)
(* Times are kept as the ticks that are left, so the clock needs no bound. *)
(***************************************************************************)
EXTENDS Integers

CONSTANTS
    NumBuilds,      \* builds of the commit, numbered by attempt, age and id
    Reporters,      \* goroutines that report or recover
    Outcomes,       \* the terminal states that builds may reach
    Tokens,         \* the claims: claimed_by and claimed_at of a claim
    NoToken,        \* no claim
    MaxAttempts,    \* defaultSCMStatusDeliveryMaxAttempts
    ClaimDuration,  \* defaultSCMStatusDeliveryClaimDuration, in ticks
    InitialDelay,   \* defaultSCMStatusRetryInitialDelay
    MaxDelay,       \* defaultSCMStatusRetryMaxDelay
    BatchSize,      \* defaultSCMStatusRecoveryDrainBatchSize
    Faults,         \* what may go wrong: {"error", "cut"}
    MaxEvents       \* bound on reports, cut deliveries and stranded rows together

Builds == 1 .. NumBuilds

TerminalStates == {"success", "failure", "error"}

ASSUME BuildsAssumption == NumBuilds \in Nat

ASSUME OutcomesAssumption == Outcomes \subseteq TerminalStates

ASSUME TokensAssumption == NoToken \notin Tokens

(* A reassertion is scheduled on the first attempt, and the row of a       *)
(* waiting delivery must have attempts left.                               *)
ASSUME TimesAssumption ==
    /\ MaxAttempts \in Nat /\ MaxAttempts > 1
    /\ ClaimDuration \in Nat \ {0} /\ InitialDelay \in Nat /\ MaxDelay \in Nat
    /\ BatchSize \in Nat \ {0}
    /\ MaxEvents \in Nat

VARIABLES
    builds,      \* the number of builds created so far
    row,         \* the row of scm_status_deliveries
    pc,          \* where each reporter is
    mem,         \* the delivery each reporter has in memory
    served,      \* the statuses the provider has accepted so far
    stranded,    \* rows of other commits that stay before this one in every batch
    events       \* reports, cut deliveries and stranded rows so far

vars == <<builds, row, pc, mem, served, stranded, events>>

IsTerminal(state) == state \in TerminalStates

DeliveryStatuses == {"none", "sending", "retry_waiting", "sent", "failed_permanent",
                     "failed_exhausted", "superseded"}

Settled == {"sent", "failed_permanent", "failed_exhausted", "superseded"}

(* due: the ticks until the claim expires or the retry is due. *)
NoRow == [status |-> "none", build |-> 0, desired |-> "none", last |-> "none",
          attempts |-> 0, due |-> 0, tok |-> NoToken]

(* reassert: the ticks until the claim that the reporter replaced expires  *)
(* (ReassertAfter), 0 for none.                                            *)
NoDelivery == [build |-> 0, state |-> "none", attempts |-> 0, tok |-> NoToken,
               reassert |-> 0]

PCs == {"idle", "acquire", "check", "supersede", "publish", "answered", "markSent",
        "markReassertPending", "failRetryable", "failPermanent", "reassert"}

Init ==
    /\ builds = 0
    /\ row = NoRow
    /\ pc = [p \in Reporters |-> "idle"]
    /\ mem = [p \in Reporters |-> NoDelivery]
    /\ served = {}
    /\ stranded = 0 /\ events = 0

Goto(p, next) == pc' = [pc EXCEPT ![p] = next]

Happens == events < MaxEvents /\ events' = events + 1

Done(p) == Goto(p, "idle") /\ mem' = [mem EXCEPT ![p] = NoDelivery]

-----------------------------------------------------------------------------
(* Deliveries begin *)

(* A trigger, a retry or a rerun of the commit. *)
CreateBuild ==
    /\ builds < NumBuilds
    /\ builds' = builds + 1
    /\ UNCHANGED <<row, pc, mem, served, stranded, events>>

(* A request changes the status of a build and reports what it has written *)
(* (queued, preparing and running are all pending).  It reads the status   *)
(* to see whether it may change it and writes later, without a guard       *)
(* (transitionBuildStatus, UpdateStatus), and reports later still: the     *)
(* statuses of a build may be reported in any order, an outcome after      *)
(* another and a pending one after an outcome.                             *)
NotifyBuildStatus(p, b, state) ==
    /\ pc[p] = "idle"
    /\ b <= builds
    /\ Happens
    /\ mem' = [mem EXCEPT ![p] = [NoDelivery EXCEPT !.build = b, !.state = state]]
    /\ Goto(p, "acquire")
    /\ UNCHANGED <<builds, row, served, stranded>>

(* Mutant: expired claims are not recoverable. *)
IsRecoverableWaiting == row.status = "retry_waiting" /\ row.due = 0

(* ListRecoverable *)
IsRecoverable == row.status \in {"retry_waiting", "sending"} /\ row.due = 0

(* The delivery of another commit is cut off on its last attempt.  Nobody  *)
(* may claim it again, but it is listed for ever, before every delivery    *)
(* that becomes due after its claim has expired.                           *)
StrandAnother ==
    /\ ~IsRecoverable
    /\ stranded < BatchSize
    /\ Happens
    /\ stranded' = stranded + 1
    /\ UNCHANGED <<builds, row, pc, mem, served>>

(* The drain lists a batch, with the row in it unless others fill it, and  *)
(* tries to acquire what it read.                                          *)
RecoverDelivery(p) ==
    /\ pc[p] = "idle"
    /\ IsRecoverable
    /\ stranded < BatchSize
    /\ mem' = [mem EXCEPT ![p] = [NoDelivery EXCEPT !.build = row.build, !.state = row.desired]]
    /\ Goto(p, "acquire")
    /\ UNCHANGED <<builds, row, served, stranded, events>>

-----------------------------------------------------------------------------
(* AcquireForDelivery: one transaction that inserts the row or locks it.   *)
(* The row that does not exist yet has build 0, which is older than any.   *)

(* Mutant: a late pending report replaces the outcome. *)
ReplacesObsolete(d) ==
    row.build < d.build \/ (row.build = d.build /\ row.desired # d.state)

(* A newer build takes the row over (CompareSCMStatusDeliveryOwners), and  *)
(* so does a new state of the same build, unless it is obsolete.           *)
Replaces(d) ==
    \/ row.build < d.build
    \/ /\ row.build = d.build /\ row.desired # d.state
       /\ ~((IsTerminal(row.desired) \/ IsTerminal(row.last)) /\ ~IsTerminal(d.state))

(* SCMStatusDeliveryClaimOutcomeFromExisting: retry_claimed or             *)
(* stale_claim_reclaimed.                                                  *)
IsClaimable ==
    /\ row.status \in {"sending", "retry_waiting"} /\ row.due = 0
    /\ row.attempts < MaxAttempts

Reclaims(d) == row.build = d.build /\ row.desired = d.state /\ IsClaimable

(* Two claims never carry the same claimed_at, which has microseconds.     *)
(* Only equality matters, so any fresh token will do.                      *)
FreshToken(t) == row.tok # t /\ \A p \in Reporters : mem[p].tok # t

NewToken == CHOOSE t \in Tokens : FreshToken(t)

(* SCMStatusDeliveryReassertAfterReplacement: the claim replaced may still *)
(* be used to publish, until it expires.                                   *)
ReassertAfterReplacement == IF row.status = "sending" THEN row.due ELSE 0

(* scmStatusDeliveryReplaceClaimQuery *)
Replacement(d, t) ==
    [status |-> "sending", build |-> d.build, desired |-> d.state,
     last |-> IF row.build = d.build THEN row.last ELSE "none",
     attempts |-> 1, due |-> ClaimDuration, tok |-> t]

(* scmStatusDeliveryUpdateClaimQuery *)
Reclaimed(t) ==
    [row EXCEPT !.status = "sending", !.attempts = @ + 1, !.due = ClaimDuration, !.tok = t]

Acquired(p, r, reassert) ==
    /\ row' = r
    /\ mem' = [mem EXCEPT ![p] = [@ EXCEPT !.attempts = r.attempts, !.tok = r.tok,
                                           !.reassert = reassert]]
    /\ Goto(p, "check")

Acquire(p) ==
    LET d == mem[p]
    IN  /\ pc[p] = "acquire"
        /\ \/ \E t \in Tokens :
                /\ FreshToken(t) /\ t = NewToken
                /\ \/ /\ Replaces(d)
                      /\ Acquired(p, Replacement(d, t), ReassertAfterReplacement)
                   \/ /\ ~Replaces(d) /\ Reclaims(d)
                      /\ Acquired(p, Reclaimed(t), 0)
           \/ /\ ~Replaces(d) /\ ~Reclaims(d)
              /\ Done(p)
              /\ UNCHANGED row
        /\ UNCHANGED <<builds, served, stranded, events>>

-----------------------------------------------------------------------------
(* executeClaimedDelivery *)

IsSuperseded(d) == d.build < builds

(* The reads of the builds, any of which may fail. *)
Check(p) ==
    /\ pc[p] = "check"
    /\ \/ IsSuperseded(mem[p]) /\ Goto(p, "supersede")
       \/ ~IsSuperseded(mem[p]) /\ Goto(p, "publish")
       \/ "error" \in Faults /\ Goto(p, "failRetryable")
    /\ UNCHANGED <<builds, row, mem, served, stranded, events>>

HoldsClaim(p) == row.tok = mem[p].tok

(* What the last statement of a delivery writes: the claim is gone. *)
Released(status, due) == [row EXCEPT !.status = status, !.due = due, !.tok = NoToken]

MarkSuperseded(p) ==
    /\ pc[p] = "supersede"
    /\ \/ /\ HoldsClaim(p)
          /\ row' = Released("superseded", 0)
       \/ ~HoldsClaim(p) /\ UNCHANGED row
    /\ Done(p)
    /\ UNCHANGED <<builds, served, stranded, events>>

(* The request of a delivery carries the repository's identity; the one    *)
(* that scmStatusPublishRequest makes for a reassertion does not.          *)
Request(d) == [build |-> d.build, state |-> d.state, identity |-> TRUE]

ScmStatusPublishRequest == [build |-> row.build, state |-> row.desired, identity |-> FALSE]

(* GitHubAppCommitStatusPublisher refuses a request without identity. *)
Serve(req) ==
    \/ /\ req.identity
       /\ served' = served \cup {[build |-> req.build, state |-> req.state]}
    \/ ~req.identity /\ UNCHANGED served

PublishCommitStatus(p) ==
    /\ pc[p] = "publish"
    /\ Serve(Request(mem[p]))
    /\ Goto(p, "answered")
    /\ UNCHANGED <<builds, row, mem, stranded, events>>

(* An error answer; a retryable one may hide that the request was served. *)
PublishFails(p) ==
    /\ pc[p] = "publish" /\ "error" \in Faults
    /\ \/ Goto(p, "failRetryable") /\ (Serve(Request(mem[p])) \/ UNCHANGED served)
       \/ Goto(p, "failPermanent") /\ UNCHANGED served
    /\ UNCHANGED <<builds, row, mem, stranded, events>>

(* attemptedAt is drawn: is the replaced claim still alive? *)
Answered(p) ==
    /\ pc[p] = "answered"
    /\ Goto(p, IF mem[p].reassert > 0 THEN "markReassertPending" ELSE "markSent")
    /\ UNCHANGED <<builds, row, mem, served, stranded, events>>

(* The row after a publication, for the holder of the claim: sent, or      *)
(* waiting for the moment the replaced claim expires.                      *)
Marked(p) ==
    IF pc[p] = "markSent"
    THEN [Released("sent", 0) EXCEPT !.last = row.desired]
    ELSE Released("retry_waiting", mem[p].reassert)

(* Mutant: the claim is not compared. *)
MarkUnfenced(p) ==
    /\ pc[p] \in {"markSent", "markReassertPending"}
    /\ row' = Marked(p)
    /\ Done(p)
    /\ UNCHANGED <<builds, served, stranded, events>>

(* markDeliverySent and markDeliveryReassertPending: an update fenced by   *)
(* the claim; who has lost it goes on to reassert the row's state.         *)
Mark(p) ==
    /\ pc[p] \in {"markSent", "markReassertPending"}
    /\ \/ HoldsClaim(p) /\ row' = Marked(p) /\ Done(p)
       \/ ~HoldsClaim(p) /\ Goto(p, "reassert") /\ UNCHANGED <<row, mem>>
    /\ UNCHANGED <<builds, served, stranded, events>>

DelayForAttempt(n) ==
    LET d == InitialDelay * 2 ^ (n - 1)
    IN  IF d < MaxDelay THEN d ELSE MaxDelay

(* The provers know nothing of powers. *)
ASSUME DelayAssumption == \A n \in 1 .. MaxAttempts : DelayForAttempt(n) \in Nat

(* Mutant: one attempt too many is scheduled. *)
MarkDeliveryFailedOffByOne(p) ==
    /\ pc[p] = "failRetryable" /\ HoldsClaim(p)
    /\ row' = Released("retry_waiting", DelayForAttempt(mem[p].attempts))
    /\ Done(p)
    /\ UNCHANGED <<builds, served, stranded, events>>

(* markDeliveryFailed *)
MarkDeliveryFailed(p) ==
    /\ pc[p] \in {"failRetryable", "failPermanent"}
    /\ \/ /\ HoldsClaim(p) /\ pc[p] = "failRetryable" /\ mem[p].attempts < MaxAttempts
          /\ row' = Released("retry_waiting", DelayForAttempt(mem[p].attempts))
       \/ /\ HoldsClaim(p) /\ pc[p] = "failRetryable" /\ mem[p].attempts >= MaxAttempts
          /\ row' = Released("failed_exhausted", 0)
       \/ /\ HoldsClaim(p) /\ pc[p] = "failPermanent"
          /\ row' = Released("failed_permanent", 0)
       \/ ~HoldsClaim(p) /\ UNCHANGED row
    /\ Done(p)
    /\ UNCHANGED <<builds, served, stranded, events>>

(* reassertAuthoritativeDelivery, unless the row asks for the same. *)
ReassertAuthoritativeDelivery(p) ==
    /\ pc[p] = "reassert"
    /\ \/ row.build = mem[p].build /\ row.desired = mem[p].state /\ UNCHANGED served
       \/ /\ row.build # mem[p].build \/ row.desired # mem[p].state
          /\ Serve(ScmStatusPublishRequest)
    /\ Done(p)
    /\ UNCHANGED <<builds, row, stranded, events>>

-----------------------------------------------------------------------------
(* Interruptions and time *)

(* The context of the request ends, the client times out, a statement      *)
(* fails or the server dies: the row stays as it is.  A request under way  *)
(* may have been served.                                                   *)
Cut(p) ==
    /\ pc[p] # "idle" /\ "cut" \in Faults
    /\ Happens
    /\ \/ UNCHANGED served
       \/ pc[p] = "publish" /\ Serve(Request(mem[p]))
    /\ Done(p)
    /\ UNCHANGED <<builds, row, stranded>>

Less(n) == IF n > 0 THEN n - 1 ELSE 0

(* Nothing holds time up: a claim lasts for two minutes and the client     *)
(* gives up after 30 seconds, but a request may be late all the same.      *)
Tick ==
    /\ row' = [row EXCEPT !.due = Less(@)]
    /\ mem' = [p \in Reporters |-> [mem[p] EXCEPT !.reassert = Less(@)]]
    /\ <<row, mem>>' # <<row, mem>>
    /\ UNCHANGED <<builds, pc, served, stranded, events>>

-----------------------------------------------------------------------------

Deliver(p) ==
    \/ Acquire(p)
    \/ Check(p)
    \/ MarkSuperseded(p)
    \/ PublishCommitStatus(p)
    \/ PublishFails(p)
    \/ Answered(p)
    \/ Mark(p)
    \/ MarkDeliveryFailed(p)
    \/ ReassertAuthoritativeDelivery(p)

Next ==
    \/ \E p \in Reporters :
          \/ \E b \in Builds, state \in {"pending"} \cup Outcomes : NotifyBuildStatus(p, b, state)
          \/ RecoverDelivery(p)
          \/ Deliver(p)
          \/ Cut(p)
    \/ CreateBuild
    \/ StrandAnother
    \/ Tick

(* A delivery that has begun goes on, the drain runs every few seconds and *)
(* goes through its batch whatever fails in it, and time passes.  Nothing  *)
(* has to be reported.                                                     *)
Fairness ==
    /\ \A p \in Reporters : WF_vars(Deliver(p))
    /\ SF_vars(\E p \in Reporters : RecoverDelivery(p))
    /\ WF_vars(Tick)

Spec == Init /\ [][Next]_vars /\ Fairness

-----------------------------------------------------------------------------
(* Properties *)

RowType ==
    [status : DeliveryStatuses, build : Builds \cup {0},
     desired : TerminalStates \cup {"none", "pending"},
     last : TerminalStates \cup {"none", "pending"},
     attempts : 0 .. MaxAttempts, due : Nat, tok : Tokens \cup {NoToken}]

DeliveryType ==
    [build : Builds \cup {0}, state : TerminalStates \cup {"none", "pending"},
     attempts : 0 .. MaxAttempts, tok : Tokens \cup {NoToken}, reassert : Nat]

TypeOK ==
    /\ builds \in 0 .. NumBuilds
    /\ row \in RowType
    /\ pc \in [Reporters -> PCs]
    /\ mem \in [Reporters -> DeliveryType]
    /\ served \subseteq [build : Builds, state : TerminalStates \cup {"pending"}]
    /\ stranded \in 0 .. BatchSize
    /\ events \in 0 .. MaxEvents

(* The CHECK constraint of the table (and SCMStatusDelivery.Validate): a   *)
(* statement that broke it would fail and leave the delivery claimed.      *)
RowValid ==
    /\ row.tok # NoToken <=> row.status = "sending"
    /\ row.status = "retry_waiting" => row.attempts < MaxAttempts
    /\ row.status = "failed_exhausted" => row.attempts = MaxAttempts
    /\ row.status = "sent" => row.last = row.desired

(* The row never goes back to an older build, and within a build never     *)
(* from an outcome back to pending, whatever order the reports arrive in.  *)
(* One outcome of a build may replace another.                             *)
NeverGoesBack ==
    [][/\ row'.build >= row.build
       /\ row'.build = row.build /\ IsTerminal(row.desired) => IsTerminal(row'.desired)]_vars

(* The last attempt was cut off: the row stays claimed, since nobody may   *)
(* claim it again.                                                         *)
StrandedItself == row.status = "sending" /\ row.attempts = MaxAttempts

(* Every batch of the drain is full of rows like that. *)
Starved == stranded = BatchSize

(* A reporter is about to replace an outcome of the build by another one,  *)
(* as the drain does with a candidate that has been replaced since it was  *)
(* listed.  Each replacement begins with a new first attempt, so two       *)
(* drains with old candidates may go on replacing each other's for ever.   *)
Contested ==
    \E p \in Reporters :
       /\ pc[p] = "acquire" /\ Replaces(mem[p])
       /\ row.build = mem[p].build /\ IsTerminal(row.desired)

(* Every delivery is settled in the end, however many reporters were cut   *)
(* off and whatever order the reports arrive in, with these exceptions.    *)
DeliverySettles ==
    []<>(\/ row.status \in Settled \cup {"none"}
         \/ StrandedItself \/ Starved \/ Contested)

(* A delivery is recorded as sent only if the provider has accepted that   *)
(* state of that build: a reporter whose claim was replaced while it was   *)
(* publishing does not vouch for the state that replaced its own.          *)
SentWasServed ==
    row.status = "sent" => [build |-> row.build, state |-> row.desired] \in served

-----------------------------------------------------------------------------
(* The inductive invariant of the proofs *)

ReportedStates == {"pending"} \cup TerminalStates

Claiming == {"idle", "acquire"}

(* What a reporter carries from one of its statements to the next. *)
DeliveryShape ==
    \A p \in Reporters :
       /\ pc[p] # "idle" => mem[p].build \in Builds /\ mem[p].state \in ReportedStates
       /\ pc[p] \in Claiming => mem[p].tok = NoToken /\ mem[p].reassert = 0
       /\ pc[p] \notin Claiming => mem[p].tok \in Tokens /\ mem[p].attempts > 0
       /\ mem[p].reassert > 0 \/ pc[p] = "markReassertPending" => mem[p].attempts = 1

(* A reporter past its publication has been served. *)
PublishedWasServed ==
    \A p \in Reporters :
       pc[p] \in {"answered", "markSent", "markReassertPending", "reassert"} =>
          [build |-> mem[p].build, state |-> mem[p].state] \in served

(* The row is claimed for what the holder of the claim has in memory, and  *)
(* one reporter at most holds a claim.                                     *)
ClaimFences ==
    /\ \A p \in Reporters :
          mem[p].tok # NoToken /\ mem[p].tok = row.tok =>
             /\ row.build = mem[p].build /\ row.desired = mem[p].state
             /\ row.attempts = mem[p].attempts
    /\ \A p, q \in Reporters : p # q /\ mem[p].tok # NoToken => mem[p].tok # mem[q].tok

RowShape ==
    /\ row.build # 0 <=> row.status # "none"
    /\ row.build # 0 => row.desired \in ReportedStates

IndInv ==
    /\ TypeOK /\ DeliveryShape /\ PublishedWasServed /\ ClaimFences /\ RowShape
    /\ RowValid /\ SentWasServed
=============================================================================
