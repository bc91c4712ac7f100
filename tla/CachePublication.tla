-------------------------- MODULE CachePublication --------------------------
(***************************************************************************)
(* One cache key: its ready row in cache_entries, its publish claim in     *)
(* cache_publish_claims, and its digest-addressed archives in the store    *)
(* (workspace_helper_cache_service.go, cache_entry_repository.go,          *)
(* cmd/worker/cache_helper.go).  Savers are the cache-save helpers of      *)
(* Pods: each saves once and its place is taken by the next one.  A saver  *)
(* claims the key, uploads to a staging key that only its token names,     *)
(* promotes the archive to its final key, publishes the row and removes    *)
(* the archive of the row it replaced.  Every database or store call is    *)
(* one action.  The store is the bucket: nothing is evicted.               *)
(***************************************************************************)
EXTENDS Integers, FiniteSets

CONSTANTS
    Savers,      \* cache-save helpers running at the same time
    Digests,     \* contents of the cache directory
    Lease,       \* the publish lease, in ticks
    MaxFaults,   \* bound on failed calls and crashes
    None         \* no saver, no digest

ASSUME CacheAssumption ==
    /\ Lease \in Nat \ {0}
    /\ MaxFaults \in Nat
    /\ None \notin Savers /\ None \notin Digests

VARIABLES
    entry,       \* content_digest of the ready row, None if there is none
    claim,       \* the claim row: the saver whose token it holds, ticks left
    objects,     \* digests whose archive is at its final key
    pc,          \* the call each saver makes next
    digest,      \* what the saver archived
    previous,    \* the row it is about to replace
    superseded,  \* savers after whose claim somebody else claimed the key
    republished, \* digests deleted as a replaced row's after being put there again
    faults       \* failed calls and crashes so far

cacheVars == <<entry, claim, objects, pc, digest, previous, superseded, republished, faults>>

NoClaim == [owner |-> None, left |-> 0]

SaverPCs == {"idle", "acquire", "archive", "ready", "previous", "upload", "promote", "complete",
        "cleanup", "release", "releaseFailed", "clientRelease"}

CacheTypeOK ==
    /\ entry \in Digests \cup {None}
    /\ claim \in [owner : Savers \cup {None}, left : 0 .. Lease]
    /\ objects \subseteq Digests
    /\ pc \in [Savers -> SaverPCs]
    /\ digest \in [Savers -> Digests \cup {None}]
    /\ previous \in [Savers -> Digests \cup {None}]
    /\ superseded \subseteq Savers
    /\ republished \subseteq Digests
    /\ faults \in 0 .. MaxFaults

CacheInit ==
    /\ entry = None
    /\ claim = NoClaim
    /\ objects = {}
    /\ pc = [s \in Savers |-> "idle"]
    /\ digest = [s \in Savers |-> None]
    /\ previous = [s \in Savers |-> None]
    /\ superseded = {}
    /\ republished = {}
    /\ faults = 0

SaverGoto(s, next) == pc' = [pc EXCEPT ![s] = next]

(* A call that errs: the caller carries on at next. *)
SaverFault(s, next) ==
    /\ faults < MaxFaults
    /\ faults' = faults + 1
    /\ SaverGoto(s, next)

-----------------------------------------------------------------------------
(* The claim *)

(* Mutant: a row whose lease ran out still counts as a busy writer. *)
NeverExpires(c) == c.owner = None

(* ON CONFLICT ... WHERE claim_expires_at <= now *)
ClaimFree(c) == c.owner = None \/ c.left = 0

(* TryAcquirePublishClaim, the claim token being a new uuid. *)
TryAcquirePublishClaim(s, next) ==
    \/ /\ ClaimFree(claim)
       /\ claim' = [owner |-> s, left |-> Lease]
       /\ superseded' = (superseded \cup Savers) \ {s}
       /\ SaverGoto(s, next)
    \/ /\ ~ClaimFree(claim)
       /\ SaverGoto(s, "idle")
       /\ UNCHANGED <<claim, superseded>>

(* The helper claims before it archives (ClaimPublish, claimCachePublish); *)
(* a busy key ends the save.                                               *)
ClaimPublish(s) ==
    /\ pc[s] = "idle"
    /\ TryAcquirePublishClaim(s, "archive")
    /\ digest' = [digest EXCEPT ![s] = None]
    /\ previous' = [previous EXCEPT ![s] = None]
    /\ UNCHANGED <<entry, objects, republished, faults>>

(* Save: an upload without a claim token looks whether the content is      *)
(* there already, and claims only then.                                    *)
SaveUnclaimed(s, d) ==
    /\ pc[s] = "idle"
    /\ d # entry
    /\ SaverGoto(s, "acquire")
    /\ digest' = [digest EXCEPT ![s] = d]
    /\ previous' = [previous EXCEPT ![s] = None]
    /\ UNCHANGED <<entry, claim, objects, superseded, republished, faults>>

AcquireUnclaimed(s) ==
    /\ pc[s] = "acquire"
    /\ TryAcquirePublishClaim(s, "ready")
    /\ UNCHANGED <<entry, objects, digest, previous, republished, faults>>

(* archiveCacheDirectory, then SaveClaimed up to                           *)
(* ValidatePublishClaimOwnership: an expired claim that nobody took over   *)
(* is still good.                                                          *)
SaveClaimed(s, d) ==
    /\ pc[s] = "archive"
    /\ digest' = [digest EXCEPT ![s] = d]
    /\ \/ SaverGoto(s, IF claim.owner = s THEN "ready" ELSE "clientRelease") /\ UNCHANGED faults
       \/ SaverFault(s, "clientRelease")
    /\ UNCHANGED <<entry, claim, objects, previous, superseded, republished>>

-----------------------------------------------------------------------------
(* saveWithClaim *)

(* cacheContentIsReady; a failed query counts as not ready. *)
CacheContentIsReady(s) ==
    /\ pc[s] = "ready"
    /\ \/ SaverGoto(s, IF entry = digest[s] THEN "release" ELSE "previous") /\ UNCHANGED faults
       \/ SaverFault(s, "previous")
    /\ UNCHANGED <<entry, claim, objects, digest, previous, superseded, republished>>

FindPrevious(s) ==
    /\ pc[s] = "previous"
    /\ \/ /\ previous' = [previous EXCEPT ![s] = entry]
          /\ SaverGoto(s, "upload")
          /\ UNCHANGED faults
       \/ SaverFault(s, "releaseFailed") /\ UNCHANGED previous
    /\ UNCHANGED <<entry, claim, objects, digest, superseded, republished>>

(* saveArchive up to the promotion: upload to the staging key while the    *)
(* archive is validated.  A failure removes the staging object again.      *)
SaveArchive(s) ==
    /\ pc[s] = "upload"
    /\ \/ SaverGoto(s, "promote") /\ UNCHANGED faults
       \/ SaverFault(s, "releaseFailed")
    /\ UNCHANGED <<entry, claim, objects, digest, previous, superseded, republished>>

(* PromoteArchive copies, then deletes the staging object: it may fail     *)
(* with the final object in place.                                         *)
PromoteArchive(s) ==
    /\ pc[s] = "promote"
    /\ \/ /\ objects' = objects \cup {digest[s]}
          /\ republished' = republished \ {digest[s]}
          /\ SaverGoto(s, "complete")
          /\ UNCHANGED faults
       \/ /\ objects' \in {objects, objects \cup {digest[s]}}
          /\ republished' = republished \ objects'
          /\ SaverFault(s, "releaseFailed")
    /\ UNCHANGED <<entry, claim, digest, previous, superseded>>

(* Mutant: the row is published without comparing the claim token. *)
CompleteAnyClaim(s) ==
    /\ pc[s] = "complete"
    /\ entry' = digest[s]
    /\ claim' = NoClaim
    /\ SaverGoto(s, "cleanup")
    /\ UNCHANGED <<objects, digest, previous, superseded, republished, faults>>

(* CompletePublishClaim: one transaction on the locked claim row.  A       *)
(* missing row is an error, another token (replaced) is not.               *)
CompletePublishClaim(s) ==
    /\ pc[s] = "complete"
    /\ \/ /\ claim.owner = s
          /\ entry' = digest[s]
          /\ claim' = NoClaim
          /\ SaverGoto(s, "cleanup")
          /\ UNCHANGED faults
       \/ /\ claim.owner # s
          /\ SaverGoto(s, IF claim.owner = None THEN "releaseFailed" ELSE "release")
          /\ UNCHANGED <<entry, claim, faults>>
       \/ /\ SaverFault(s, "releaseFailed")
          /\ UNCHANGED <<entry, claim>>
    /\ UNCHANGED <<objects, digest, previous, superseded, republished>>

(* Mutant: whatever else is at the key's prefix is swept. *)
DeleteAllOthers(s) ==
    /\ pc[s] = "cleanup"
    /\ objects' = objects \cap {digest[s]}
    /\ SaverGoto(s, "release")
    /\ UNCHANGED <<entry, claim, digest, previous, superseded, republished, faults>>

(* Digests of the row and of saves between promotion and publication. *)
InUse == {entry} \cup {digest[t] : t \in {u \in Savers : pc[u] = "complete"}}

(* The archive of the replaced row goes, unless it is the same; an error   *)
(* is logged.                                                              *)
DeletePrevious(s) ==
    /\ pc[s] = "cleanup"
    /\ \/ /\ objects' = objects \ ({previous[s]} \ {digest[s]})
          /\ republished' = republished \cup (({previous[s]} \ {digest[s]}) \cap InUse)
          /\ SaverGoto(s, "release")
          /\ UNCHANGED faults
       \/ SaverFault(s, "release") /\ UNCHANGED <<objects, republished>>
    /\ UNCHANGED <<entry, claim, digest, previous, superseded>>

(* The deferred ReleasePublishClaim: by token, expired or not. *)
ReleasePublishClaim(s) ==
    LET next == IF pc[s] = "release" THEN "idle" ELSE "clientRelease"
    IN  /\ pc[s] \in {"release", "releaseFailed"}
        /\ \/ /\ claim' = IF claim.owner = s THEN NoClaim ELSE claim
              /\ SaverGoto(s, next)
              /\ UNCHANGED faults
           \/ SaverFault(s, next) /\ UNCHANGED claim
        /\ UNCHANGED <<entry, objects, digest, previous, superseded, republished>>

(* The helper's own release after a failed save: only of a valid claim. *)
ClientRelease(s) ==
    /\ pc[s] = "clientRelease"
    /\ \/ /\ claim' = IF claim.owner = s /\ claim.left > 0 THEN NoClaim ELSE claim
          /\ SaverGoto(s, "idle")
          /\ UNCHANGED faults
       \/ SaverFault(s, "idle") /\ UNCHANGED claim
    /\ UNCHANGED <<entry, objects, digest, previous, superseded, republished>>

(* The Pod or the API dies with the save: its claim stays, and the next    *)
(* helper in its place has a token of its own.                             *)
SaverDies(s) ==
    /\ pc[s] # "idle"
    /\ SaverFault(s, "idle")
    /\ UNCHANGED <<entry, claim, objects, digest, previous, superseded, republished>>

ClaimTick ==
    /\ claim.left > 0
    /\ claim' = [claim EXCEPT !.left = @ - 1]
    /\ UNCHANGED <<entry, objects, pc, digest, previous, superseded, republished, faults>>

SaverStep(s) ==
    \/ ClaimPublish(s) \/ AcquireUnclaimed(s)
    \/ \E d \in Digests : SaveClaimed(s, d)
    \/ CacheContentIsReady(s) \/ FindPrevious(s)
    \/ SaveArchive(s) \/ PromoteArchive(s) \/ CompletePublishClaim(s)
    \/ DeletePrevious(s) \/ ReleasePublishClaim(s) \/ ClientRelease(s)

CacheNext ==
    \/ \E s \in Savers :
        \/ SaverStep(s) \/ SaverDies(s)
        \/ \E d \in Digests : SaveUnclaimed(s, d)
    \/ ClaimTick

(* Time passes, running savers go on, and later builds keep saving the     *)
(* key.                                                                    *)
CacheSpec ==
    /\ CacheInit /\ [][CacheNext]_cacheVars
    /\ WF_cacheVars(ClaimTick)
    /\ \A s \in Savers : WF_cacheVars(SaverStep(s))

-----------------------------------------------------------------------------
(* Properties *)

(* The ready row points at an archive that exists, whatever savers were    *)
(* delayed past their lease, replaced, failed or died.  The one exception: *)
(* a save deletes the archive of the row it replaced when its claim is     *)
(* gone, so that content which has returned to that digest meanwhile loses *)
(* its archive.                                                            *)
EntryAvailable == entry # None /\ entry \notin objects => entry \in republished

(* A save never publishes over a claim taken after its own: once another   *)
(* saver has claimed the key, the late one changes neither row nor claim.  *)
NewestClaimPublishes ==
    [][\A s \in Savers : pc[s] = "complete" /\ pc'[s] # "complete" /\ s \in superseded
            => UNCHANGED <<entry, claim>>]_cacheVars

(* No claim is kept for ever: a saver that died, or whose release failed,  *)
(* loses the key when the lease runs out and the next save comes along.    *)
ClaimMovesOn == \A s \in Savers : claim.owner = s ~> claim.owner # s

-----------------------------------------------------------------------------
(* The inductive invariant *)

(* A saver between archiving and publication knows what it archived, and   *)
(* one that cleans up has published.                                       *)
SaverShape ==
    \A s \in Savers :
        /\ pc[s] \in {"acquire", "ready", "previous", "upload", "promote", "complete", "cleanup"}
            => digest[s] \in Digests
        /\ pc[s] = "cleanup" => entry # None

(* Nobody has claimed the key after the holder of the claim. *)
ClaimShape == claim.owner \notin superseded

(* The archive of a save that is about to be published is in the store,    *)
(* but for the same exception as that of the row.                          *)
PromotedKept == \A s \in Savers : pc[s] = "complete" => digest[s] \in objects \cup republished

CacheIndInv ==
    /\ CacheTypeOK
    /\ SaverShape
    /\ ClaimShape
    /\ PromotedKept
    /\ EntryAvailable
=============================================================================
