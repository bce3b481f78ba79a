---------------------------- MODULE OwnerDeletion ----------------------------
(***************************************************************************)
(* The end of an Office job: deletion by its owner, expiry and quarantine  *)
(* by a purge, restoration from and deletion in the quarantine, and the    *)
(* recovery of what a crash or an I/O error left half done                 *)
(* (backend/app/modules/office_tools/core/job_store.py).                   *)
(*                                                                         *)
(* One job and its owner.  Beside the job directory the store keeps an     *)
(* owner identity (a sidecar file that says whose job it is) and, from the *)
(* start of a deletion on, a tombstone.  The tombstone's intent says who   *)
(* asked: the owner, whose deletion must be audited, or the store itself   *)
(* ("external": the clean-up of the sidecar after a purge or quarantine).  *)
(* Each action is one durable step; the maintenance lock is held from the  *)
(* first step of an operation to its last.  An unreadable sidecar or       *)
(* tombstone is not modelled.                                              *)
(***************************************************************************)
EXTENDS Naturals

CONSTANTS Failing,    \* durable steps may fail with an I/O error
          StaleReads  \* a request may read the job before it takes the lock

ASSUME FailingAssumption == Failing \in BOOLEAN /\ StaleReads \in BOOLEAN

VARIABLES
  dir,     \* the job directory: "valid", "artless" (manifest readable, files
           \* not as it says), "bare" (no readable manifest) or "none"
  ident,   \* whether the owner identity exists
  tomb,    \* state of the tombstone
  ext,     \* its intent is external
  src,     \* where the external intent's source is: "root" or "quarantine"
  audited, \* audit_acknowledged_at is set
  quar,    \* the payload in .quarantine: as dir
  step, doing, \* the running operation
  reply,   \* what the owner's last DELETE answered
  hit,     \* an I/O error struck during that request
  ever,    \* an I/O error struck at any time
  stale    \* another request has read the job and waits for the lock

tombstone == <<tomb, ext, src, audited>>
answer == <<reply, hit, ever>>
ownerVars == <<dir, ident, tomb, ext, src, audited, quar, step, doing, reply, hit,
               ever, stale>>

DirStates == {"valid", "artless", "bare", "none"}
Rank == [s \in {"none", "sidecar", "deletion", "finalization", "completed"} |->
           CASE s = "none" -> 0 [] s = "sidecar" -> 1 [] s = "deletion" -> 2
             [] s = "finalization" -> 3 [] s = "completed" -> 4]
TombStates == DOMAIN Rank
Readable(d) == d \in {"valid", "artless"}      \* _read_record succeeds
SourceExists == IF src = "root" THEN dir # "none" ELSE quar # "none"

Recovering == {"startup", "purgeRecovery"}
Modes == Recovering \cup {"touch", "stale", "delete", "purgeQuarantine",
                          "purgeJob", "quarantine", "quarantineDelete",
                          "restore"}
\* The steps of _complete_owner_deletion_unlocked.
Completing == {"rmtree", "finalization", "unlink", "complete", "discard"}
Durable == Completing \cup {"ensure", "sidecar", "pending", "prepare", "move",
                            "rmQuarantine", "publish"}
Steps == Durable \cup {"idle", "down", "retain", "reconcile", "gc", "expire",
                     "job", "judge"}

OwnerInit ==
  /\ dir = "valid" /\ ident \in BOOLEAN
  /\ tomb = "none" /\ ext = FALSE /\ src = "root" /\ audited = FALSE
  /\ quar = "none"
  /\ step = "idle" /\ doing = "touch"
  /\ reply = "none" /\ hit = FALSE /\ ever = FALSE
  /\ stale = FALSE

-----------------------------------------------------------------------------
\* Where an exception is caught: the owner's deletion retains what it has
\* done, recovery goes on with the next tombstone, the others end.
OnError == IF doing = "delete" /\ step \in Completing THEN "retain"
           ELSE IF doing \in Recovering THEN "gc" ELSE "idle"

Raise ==
  /\ Failing
  /\ step' = OnError /\ hit' = TRUE /\ ever' = TRUE
  /\ reply' = IF doing = "delete" /\ OnError = "idle" THEN "failed" ELSE reply

Goto(next) == step' = next /\ UNCHANGED answer

\* A durable step: it is done and the operation goes on, or the fsync after
\* it failed.
GoOn(next) == Goto(next) \/ Raise

\* The operation's part that ends with the removal of the identity is over.
Ended == IF doing \in Recovering THEN Goto("gc")
         ELSE IF doing = "purgeQuarantine" THEN Goto("job")
         ELSE IF doing = "delete"
              THEN step' = "idle" /\ reply' = "done" /\ UNCHANGED <<hit, ever>>
         ELSE Goto("idle")

NoTombstone == tomb' = "none" /\ ext' = FALSE /\ src' = "root"
               /\ audited' = FALSE

-----------------------------------------------------------------------------
\* Mutant: a stored outcome is returned although it says retry_required.
Delete_returnsStored ==
  /\ step = "idle"
  /\ doing' = "delete" /\ hit' = FALSE
  /\ IF tomb \in {"none", "sidecar"}
     THEN step' = (IF dir = "none" THEN "sidecar" ELSE "ensure") /\ reply' = "none"
     ELSE step' = "idle" /\ reply' = "done"
  /\ UNCHANGED <<dir, ident, tombstone, quar, ever, stale>>

\* DELETE /jobs/{id}: delete_for_owner_outcome up to the first write.
Delete ==
  /\ step = "idle"
  /\ doing' = "delete" /\ hit' = FALSE
  /\ \/ /\ tomb \in {"deletion", "finalization"}
        /\ step' = "rmtree" /\ reply' = "none"
     \/ tomb = "completed" /\ step' = "idle" /\ reply' = "done"
     \/ /\ tomb \in {"none", "sidecar"} /\ dir = "none"
        /\ IF ident \/ tomb = "sidecar"
           THEN step' = "sidecar" /\ reply' = "none"
           ELSE step' = "idle" /\ reply' = "refused"
     \/ /\ tomb \in {"none", "sidecar"} /\ dir # "none"
        /\ IF Readable(dir) THEN step' = "ensure" /\ reply' = "none"
           ELSE step' = "idle" /\ reply' = "refused"
  /\ UNCHANGED <<dir, ident, tombstone, quar, ever, stale>>

\* _ensure_owner_identity, which every operation on a readable job runs.
AfterEnsure == CASE doing \in {"touch", "stale"} -> "idle"
                 [] doing = "delete" -> "sidecar"
                 [] doing = "purgeJob" -> "judge"
                 [] doing = "restore" -> "publish"

\* Mutant: the identity is written whatever the tombstone says.
Ensure_ignoresTombstone ==
  /\ step = "ensure"
  /\ ident' = TRUE /\ GoOn(AfterEnsure)
  /\ UNCHANGED <<dir, tombstone, quar, doing, stale>>

Ensure ==
  /\ step = "ensure"
  /\ \/ \* the identity is there: corrupt if the deletion is complete
        /\ ident
        /\ IF tomb # "completed" THEN Goto(AfterEnsure) /\ UNCHANGED doing
           ELSE IF doing = "purgeJob" THEN Goto("prepare") /\ doing' = "quarantine"
           ELSE Goto("idle") /\ UNCHANGED doing
        /\ UNCHANGED <<ident, tombstone>>
     \/ \* a deletion that came to nothing, or an old one: forget it
        /\ ~ ident /\ ext
        /\ tomb = "completed" \/ (tomb = "sidecar" /\ SourceExists)
        /\ NoTombstone /\ GoOn("ensure")
        /\ UNCHANGED <<ident, doing>>
     \/ \* OSError: owner deletion remains unresolved
        /\ ~ ident /\ tomb # "none"
        /\ ~ (ext /\ (tomb = "completed" \/ (tomb = "sidecar" /\ SourceExists)))
        /\ Goto("idle")
        /\ UNCHANGED <<ident, tombstone, doing>>
     \/ \* first use: write the identity
        /\ ~ ident /\ tomb = "none"
        /\ ident' = TRUE /\ GoOn(AfterEnsure)
        /\ UNCHANGED <<tombstone, doing>>
  /\ UNCHANGED <<dir, quar, stale>>

\* _ensure_owner_deletion_tombstone: an existing one is kept as it is.
Sidecar ==
  /\ step = "sidecar"
  /\ IF tomb = "none"
     THEN tomb' = "sidecar" /\ UNCHANGED <<ext, src, audited>>
     ELSE UNCHANGED tombstone
  /\ GoOn(IF dir = "none" THEN "finalization" ELSE "pending")
  /\ UNCHANGED <<dir, ident, quar, doing, stale>>

\* The baseline of the deletion is on disk before anything is removed.
MarkPending ==
  /\ step = "pending"
  /\ tomb' = "deletion"
  /\ GoOn("rmtree")
  /\ UNCHANGED <<dir, ident, ext, src, audited, quar, doing, stale>>

\* _safe_delete_job_dir: rmtree removes files in any order, then the
\* directory.
Rmtree ==
  /\ step = "rmtree"
  /\ \/ dir = "none" /\ Goto("finalization") /\ UNCHANGED dir
     \/ dir = "valid" /\ dir' \in {"artless", "bare"} /\ GoOn("rmtree")
     \/ dir = "artless" /\ dir' = "bare" /\ GoOn("rmtree")
     \/ dir = "bare" /\ dir' = "none" /\ GoOn("finalization")
  /\ UNCHANGED <<ident, tombstone, quar, doing, stale>>

\* _remove_owner_identity_after_resolution: the outcome is recorded, ...
Finalization ==
  /\ step = "finalization"
  /\ \/ /\ dir # "none"                 \* OSError: job has not been resolved
        /\ Goto(OnError) /\ UNCHANGED tombstone
     \/ /\ dir = "none" /\ tomb = "none" /\ ~ ident
        /\ Ended /\ UNCHANGED tombstone
     \/ /\ dir = "none" /\ tomb = "none" /\ ident
        /\ tomb' = "sidecar" /\ ext' = TRUE /\ src' = "root"
        /\ GoOn("finalization") /\ UNCHANGED audited
     \/ /\ dir = "none" /\ tomb # "none"
        /\ tomb' = IF tomb = "completed" THEN tomb ELSE "finalization"
        /\ GoOn("unlink") /\ UNCHANGED <<ext, src, audited>>
  /\ UNCHANGED <<dir, ident, quar, doing, stale>>

\* ... the identity is unlinked, ...
UnlinkIdentity ==
  /\ step = "unlink"
  /\ ident' = FALSE
  /\ GoOn("complete")
  /\ UNCHANGED <<dir, tombstone, quar, doing, stale>>

\* ... the deletion is marked complete, ...
Complete ==
  /\ step = "complete"
  /\ tomb' = "completed"
  /\ \/ IF ext THEN Goto("discard") ELSE Ended
     \/ Raise
  /\ UNCHANGED <<dir, ident, ext, src, audited, quar, doing, stale>>

\* ... and a tombstone that nobody has to audit is discarded.  The owner's
\* deletion, back in _complete_owner_deletion_unlocked, then misses it.
Discard ==
  /\ step = "discard"
  /\ NoTombstone
  /\ \/ IF doing = "delete" THEN Goto("retain") ELSE Ended
     \/ Raise
  /\ UNCHANGED <<dir, ident, quar, doing, stale>>

\* Mutant: the phase that is on disk is not looked at.
Retain_anyPhase ==
  /\ step = "retain"
  /\ tomb' = "deletion"
  /\ step' = "idle" /\ reply' = "failed" /\ UNCHANGED <<hit, ever>>
  /\ UNCHANGED <<dir, ident, ext, src, audited, quar, doing, stale>>

\* retain_failure: record how far the deletion got, never going back.
Retain ==
  LET reached == IF dir = "none" THEN "finalization" ELSE "deletion" IN
  /\ step = "retain"
  /\ \/ /\ tomb = "none"
        /\ tomb' = "sidecar" /\ step' = "retain" /\ UNCHANGED answer
     \/ /\ tomb # "none"
        /\ tomb' = IF Rank[reached] >= Rank[tomb] THEN reached ELSE tomb
        /\ step' = "idle" /\ reply' = "failed" /\ UNCHANGED <<hit, ever>>
     \/ /\ Failing
        /\ step' = "idle" /\ reply' = "failed" /\ hit' = TRUE /\ ever' = TRUE
        /\ UNCHANGED tomb
  /\ UNCHANGED <<dir, ident, ext, src, audited, quar, doing, stale>>

-----------------------------------------------------------------------------
\* Mutant: recovery takes up only the deletions that the store itself began.
Reconcile_externalOnly ==
  /\ step = "reconcile"
  /\ \/ /\ ~ ext \/ tomb = "none"
        /\ Goto("gc") /\ UNCHANGED tombstone
     \/ /\ tomb # "none" /\ ext /\ (dir # "none" \/ SourceExists)
        /\ NoTombstone /\ GoOn("gc")
     \/ /\ tomb # "none" /\ ext /\ dir = "none" /\ ~ SourceExists
        /\ Goto("finalization") /\ UNCHANGED tombstone
  /\ UNCHANGED <<dir, ident, quar, doing, stale>>

\* The recovery of the tombstone, at start-up and at the head of a purge.
Reconcile ==
  /\ step = "reconcile"
  /\ \/ /\ tomb = "none" \/ (dir # "none" /\ ~ ext)
        /\ Goto("gc") /\ UNCHANGED tombstone
     \/ /\ tomb # "none" /\ ext /\ (dir # "none" \/ SourceExists)
        /\ NoTombstone /\ GoOn("gc")
     \/ /\ tomb # "none" /\ dir = "none" /\ (ext => ~ SourceExists)
        /\ Goto("finalization") /\ UNCHANGED tombstone
  /\ UNCHANGED <<dir, ident, quar, doing, stale>>

\* Mutant: completed tombstones are collected without their audit.
CollectTombstone_unaudited ==
  /\ step = "gc"
  /\ \/ UNCHANGED tombstone
     \/ tomb = "completed" /\ dir = "none" /\ ~ ident /\ NoTombstone
  /\ Goto(IF doing = "startup" THEN "idle" ELSE "expire")
  /\ UNCHANGED <<dir, ident, quar, doing, stale>>

\* _collect_completed_owner_deletion_tombstones_unlocked: audited long ago.
CollectTombstone ==
  /\ step = "gc"
  /\ \/ UNCHANGED tombstone
     \/ /\ tomb = "completed" /\ audited /\ dir = "none" /\ ~ ident
        /\ NoTombstone
  /\ Goto(IF doing = "startup" THEN "idle" ELSE "expire")
  /\ UNCHANGED <<dir, ident, quar, doing, stale>>

PurgeExpired ==
  /\ step = "idle"
  /\ doing' = "purgeRecovery" /\ Goto("reconcile")
  /\ UNCHANGED <<dir, ident, tombstone, quar, stale>>

\* _purge_expired_quarantine_unlocked: payloads with a readable manifest go
\* after their retention.
ExpireQuarantine ==
  /\ step = "expire"
  /\ \/ Readable(quar) /\ doing' = "purgeQuarantine" /\ Goto("prepare")
     \/ doing' = "purgeJob" /\ Goto("job")
  /\ UNCHANGED <<dir, ident, tombstone, quar, stale>>

\* The loop of _purge_expired_locked, for this job.
PurgeJob ==
  /\ step = "job"
  /\ \/ dir = "none" /\ Goto("idle") /\ UNCHANGED doing
     \/ dir = "bare" /\ Goto("prepare") /\ doing' = "quarantine"
     \/ Readable(dir) /\ Goto("ensure") /\ doing' = "purgeJob"
  /\ UNCHANGED <<dir, ident, tombstone, quar, stale>>

\* Past its retention the job is removed; one whose files cannot be matched
\* with the manifest, be it for a transient read error, is quarantined.
Judge ==
  /\ step = "judge"
  /\ \/ dir = "valid" /\ Goto("idle") /\ UNCHANGED doing
     \/ dir = "valid" /\ Goto("prepare") /\ UNCHANGED doing
     \/ /\ dir = "valid" /\ Failing
        /\ step' = "prepare" /\ doing' = "quarantine"
        /\ ever' = TRUE /\ UNCHANGED <<reply, hit>>
     \/ dir = "artless" /\ Goto("prepare") /\ doing' = "quarantine"
  /\ UNCHANGED <<dir, ident, tombstone, quar, stale>>

\* Mutant: the source is removed without a word on disk.
Prepare_skipsIntent ==
  /\ step = "prepare"
  /\ Goto(CASE doing \in {"purgeQuarantine", "quarantineDelete"} -> "rmQuarantine"
            [] doing = "purgeJob" -> "rmtree"
            [] doing = "quarantine" -> "move")
  /\ UNCHANGED <<dir, ident, tombstone, quar, doing, stale>>

\* _prepare_owner_identity_cleanup_tombstone: the intent to clean up the
\* identity, before its last source goes.  A deletion by the owner that has
\* an outcome keeps its own intent.
PrepareCleanup ==
  /\ step = "prepare"
  /\ IF tomb \in {"none", "sidecar"} /\ (doing = "quarantine" => ident)
     THEN /\ tomb' = "sidecar" /\ ext' = TRUE
          /\ src' = IF doing \in {"purgeQuarantine", "quarantineDelete"}
                    THEN "quarantine" ELSE "root"
          /\ UNCHANGED audited
     ELSE UNCHANGED tombstone
  /\ GoOn(CASE doing \in {"purgeQuarantine", "quarantineDelete"} -> "rmQuarantine"
            [] doing = "purgeJob" -> "rmtree"
            [] doing = "quarantine" -> "move")
  /\ UNCHANGED <<dir, ident, quar, doing, stale>>

\* _quarantine_corrupt_job_mutation: after an error the payload is moved back
\* if that is possible.
Move ==
  /\ step = "move"
  /\ \/ quar' = dir /\ dir' = "none" /\ GoOn("finalization")
     \/ Raise /\ UNCHANGED <<dir, quar>>
  /\ UNCHANGED <<ident, tombstone, doing, stale>>

\* Mutant: a partial removal leaves what no reader of the entry expects.
RmQuarantine_partial ==
  /\ step = "rmQuarantine"
  /\ \/ Readable(quar) /\ quar' = "partial" /\ GoOn("rmQuarantine")
     \/ quar' = "none" /\ GoOn("finalization")
  /\ UNCHANGED <<dir, ident, tombstone, doing, stale>>

\* _safe_delete_quarantine_entry; a partial removal leaves a corrupt entry.
RmQuarantine ==
  /\ step = "rmQuarantine"
  /\ \/ Readable(quar) /\ quar' = "bare" /\ GoOn("rmQuarantine")
     \/ quar' = "none" /\ GoOn("finalization")
  /\ UNCHANGED <<dir, ident, tombstone, doing, stale>>

\* Administrators: delete or restore a quarantined job, or dispose of corrupt
\* evidence by its token.
QuarantineDelete ==
  /\ step = "idle" /\ Readable(quar)
  /\ doing' = "quarantineDelete" /\ Goto("prepare")
  /\ UNCHANGED <<dir, ident, tombstone, quar, stale>>

Restore ==
  /\ step = "idle" /\ quar = "valid" /\ dir = "none"
  /\ doing' = "restore" /\ Goto("ensure")
  /\ UNCHANGED <<dir, ident, tombstone, quar, stale>>

PublishRestored ==
  /\ step = "publish"
  /\ dir' = quar /\ quar' = "none"
  /\ GoOn("idle")
  /\ UNCHANGED <<ident, tombstone, doing, stale>>

Dispose ==
  /\ step = "idle" /\ quar = "bare"
  /\ quar' = "none"
  /\ UNCHANGED <<dir, ident, tombstone, step, doing, answer, stale>>

-----------------------------------------------------------------------------
\* Any other request for a readable job.
Touch ==
  /\ step = "idle" /\ Readable(dir)
  /\ doing' = "touch" /\ Goto("ensure")
  /\ UNCHANGED <<dir, ident, tombstone, quar, stale>>

\* write_bytes and create_temporary_bundle read the record before they take
\* the lock, and ensure the identity of what they read before they read it
\* again.
StaleRead ==
  /\ StaleReads /\ step # "down" /\ ~ stale /\ Readable(dir)
  /\ stale' = TRUE
  /\ UNCHANGED <<dir, ident, tombstone, quar, step, doing, answer>>

StaleUse ==
  /\ step = "idle" /\ stale
  /\ stale' = FALSE /\ doing' = "stale" /\ Goto("ensure")
  /\ UNCHANGED <<dir, ident, tombstone, quar>>

\* The audit of the owner's deletion is in the database: the receipt is
\* acknowledged in the tombstone.
MarkAudited ==
  /\ step = "idle"
  /\ tomb \in {"deletion", "finalization", "completed"}
  /\ audited' = TRUE
  /\ UNCHANGED <<dir, ident, tomb, ext, src, quar, step, doing, answer, stale>>

\* Files of the job are damaged, or an artifact transaction is unresolved.
Rot ==
  /\ step = "idle" /\ dir = "valid"
  /\ dir' \in {"artless", "bare"}
  /\ UNCHANGED <<ident, tombstone, quar, step, doing, answer, stale>>

\* An I/O error before the step took effect.
StepFails ==
  /\ step \in Durable /\ Raise
  /\ UNCHANGED <<dir, ident, tombstone, quar, doing, stale>>

StoreCrash ==
  /\ step # "down"
  /\ step' = "down" /\ stale' = FALSE /\ reply' = "none"
  /\ UNCHANGED <<dir, ident, tombstone, quar, doing, hit, ever>>

StartUp ==
  /\ step = "down"
  /\ doing' = "startup" /\ Goto("reconcile")
  /\ UNCHANGED <<dir, ident, tombstone, quar, stale>>

OwnerStep ==
  \/ Ensure \/ Sidecar \/ MarkPending \/ Rmtree \/ Finalization \/ UnlinkIdentity
  \/ Complete \/ Discard \/ Retain \/ Reconcile \/ CollectTombstone
  \/ ExpireQuarantine \/ PurgeJob \/ Judge \/ PrepareCleanup \/ Move
  \/ RmQuarantine \/ PublishRestored

OwnerNext ==
  \/ Delete \/ PurgeExpired \/ QuarantineDelete \/ Restore \/ Dispose \/ Touch
  \/ StaleRead \/ StaleUse \/ MarkAudited \/ Rot
  \/ OwnerStep \/ StepFails \/ StoreCrash \/ StartUp

OwnerSpec == OwnerInit /\ [][OwnerNext]_ownerVars

-----------------------------------------------------------------------------
\* Every variable stays within the values its part of the code can produce.
OwnerTyped ==
  /\ dir \in DirStates /\ quar \in DirStates
  /\ ident \in BOOLEAN /\ ext \in BOOLEAN /\ audited \in BOOLEAN
  /\ tomb \in TombStates /\ src \in {"root", "quarantine"}
  /\ step \in Steps /\ doing \in Modes
  /\ reply \in {"none", "done", "failed", "refused"}
  /\ hit \in BOOLEAN /\ ever \in BOOLEAN /\ stale \in BOOLEAN

\* A completed tombstone is true, and stays true: neither a restoration nor
\* any other request brings the job or its identity back next to it.
CompletedMeansGone == tomb = "completed" => dir = "none" /\ ~ ident

\* The owner is told that the job is gone only when neither it nor its
\* identity is left in the store.
DoneMeansRemoved ==
  [][(reply' = "done" /\ reply # "done") => (dir' = "none" /\ ~ ident')]_ownerVars

\* What a tombstone says never goes back to an earlier phase, through
\* failures, retries, purges and restarts.
PhaseMonotone ==
  [][tomb' # "none" => Rank[tomb'] >= Rank[tomb]]_ownerVars

\* An owner's deletion that has begun leaves its tombstone until it has been
\* audited, whoever finishes it.
AuditKept ==
  [][(~ ext /\ Rank[tomb] > Rank["sidecar"] /\ Rank[tomb'] < Rank[tomb])
       => audited]_ownerVars

\* Crashes alone leave no deletion half done: the store serves again only
\* when the tombstone of a removed job is complete or gone.
CrashResolved ==
  step = "idle" /\ ~ ever /\ dir = "none" => tomb \in {"none", "completed"}

\* "Persist sidecar cleanup intent before deleting its last durable source"
\* (_prepare_owner_identity_cleanup_tombstone): an owner identity without a
\* job has a tombstone, or a quarantined payload, that leads to its removal.
NoOrphanIdentity ==
  step = "idle" /\ ident /\ dir = "none" => tomb # "none" \/ quar # "none"

\* The runbook: a failure response reports an actual failure of an fsync or
\* of the sidecar clean-up.
FailureMeansFault == reply = "failed" => hit
=============================================================================
