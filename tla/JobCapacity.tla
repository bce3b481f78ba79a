----------------------------- MODULE JobCapacity -----------------------------
(***************************************************************************)
(* The create transaction of OfficeJobStore and the limits every growing   *)
(* operation is checked against, for one owner.  create stages a job, keeps *)
(* a journal of it, publishes it by a rename and cleans up; an error rolls *)
(* back, a crash leaves the journal for the recovery each process runs     *)
(* before it serves.  All of it happens under the store's maintenance lock, *)
(* which several processes share: op is what its holder is doing.          *)
(***************************************************************************)
EXTENDS Integers, FiniteSets, FiniteSetsExt

CONSTANTS Jobs,        \* job identifiers that can be drawn
          Procs,       \* server processes on the same storage
          Bundles,     \* identifiers of temporary bundles
          Sizes,       \* sizes of a job's artifacts, in units
          MaxJobs,     \* max_jobs_per_owner
          MaxBytes,    \* max_bytes_per_owner
          MaxBundles,  \* max_temporary_bundles
          MinFree,     \* min_free_bytes
          Disk,        \* size of the volume
          MaxFaults    \* bound: errors and crashes

\* What the constants are assumed to be.
CapacityAssumption ==
    /\ Sizes \subseteq Nat /\ 0 \notin Sizes
    /\ {MaxJobs, MaxBytes, MaxBundles, MinFree, Disk, MaxFaults} \subseteq Nat

None == "none"

VARIABLES job,      \* "none", "live" or "quar" (in the quarantine)
          bytes,    \* size of its artifacts
          pend,     \* size a crashed artifact write may still publish
          stage,    \* "none", "dir", "torn" (no record yet) or "full"
          jrn,      \* create journal: "none", "prepared" or "published"
          ident,    \* the owner's identity sidecar exists
          kept,     \* evidence was moved to the recovery quarantine
          told,     \* what the client of create was told
          zip,      \* size of each published bundle
          other,    \* space other programs use on the volume
          up, boot, \* processes alive, and those still to recover
          op,       \* what the holder of the maintenance lock is doing
          faults

disk == <<job, bytes, pend, stage, jrn, ident, kept, zip>>
vars == <<job, bytes, pend, stage, jrn, ident, kept, told, zip, other, up, boot, op, faults>>

Idle == [proc |-> None, kind |-> None, on |-> None, pc |-> None, n |-> 0]

Init ==
    /\ job = [j \in Jobs |-> "none"]
    /\ bytes = [j \in Jobs |-> 0]
    /\ pend = [j \in Jobs |-> 0]
    /\ stage = [j \in Jobs |-> "none"]
    /\ jrn = [j \in Jobs |-> "none"]
    /\ ident = [j \in Jobs |-> FALSE]
    /\ kept = [j \in Jobs |-> FALSE]
    /\ told = [j \in Jobs |-> "none"]
    /\ zip = [b \in Bundles |-> 0]
    /\ other = 0
    /\ up = Procs /\ boot = Procs
    /\ op = Idle
    /\ faults = 0

-----------------------------------------------------------------------------
\* Quarantined jobs are not the owner's usage, unreadable ones are.
Usage == [jobs |-> Cardinality({j \in Jobs : job[j] = "live"}),
          total |-> MapThenSumSet(LAMBDA j : bytes[j], {j \in Jobs : job[j] = "live"})]

\* Everything the store occupies, quarantine and bundles included.
Accounted == MapThenSumSet(LAMBDA j : bytes[j], {j \in Jobs : job[j] # "none"})
             + MapThenSumSet(LAMBDA b : zip[b], Bundles)
Free == Disk - other - Accounted
Published == {b \in Bundles : zip[b] > 0}

\* _ensure_capacity
Fits(jobs, more, temporary) ==
    /\ Usage.jobs + jobs <= MaxJobs
    /\ Usage.total + more <= MaxBytes
    /\ Free - temporary >= MinFree

\* DEFLATE may expand what it packs; the archive's headers come on top.
UpperBound(n) == n + 1

FitsBundle(n) ==
    /\ Cardinality(Published) + 1 <= MaxBundles
    /\ Free - UpperBound(n) >= MinFree

Goto(l) == op' = [op EXCEPT !.pc = l]
At(l) == op.pc = l

\* Journal and stage move to the recovery quarantine for an administrator.
Preserve(j) ==
    /\ kept' = [kept EXCEPT ![j] = TRUE]
    /\ stage' = [stage EXCEPT ![j] = "none"]
    /\ jrn' = [jrn EXCEPT ![j] = "none"]

-----------------------------------------------------------------------------
\* create: the steps of the transaction.
Create(p, j) ==
    /\ op = Idle /\ p \in up \ boot
    /\ job[j] = "none" /\ told[j] = "none" /\ ~kept[j] /\ stage[j] = "none"
    /\ Fits(1, 0, 0)
    /\ op' = [Idle EXCEPT !.proc = p, !.kind = "create", !.on = j, !.pc = "mkdir"]
    /\ UNCHANGED <<disk, told, other, up, boot, faults>>

MakeStage ==
    /\ At("mkdir")
    /\ stage' = [stage EXCEPT ![op.on] = "dir"]
    /\ Goto("mkjob")
    /\ UNCHANGED <<job, bytes, pend, jrn, ident, kept, told, zip, other, up, boot, faults>>

MakeStagedJob ==
    /\ At("mkjob")
    /\ stage' = [stage EXCEPT ![op.on] = "torn"]
    /\ Goto("record")
    /\ UNCHANGED <<job, bytes, pend, jrn, ident, kept, told, zip, other, up, boot, faults>>

WriteRecord ==
    /\ At("record")
    /\ stage' = [stage EXCEPT ![op.on] = "full"]
    /\ Goto("journal")
    /\ UNCHANGED <<job, bytes, pend, jrn, ident, kept, told, zip, other, up, boot, faults>>

WriteJournal ==
    /\ At("journal") \/ At("mark")
    /\ jrn' = [jrn EXCEPT ![op.on] = IF At("journal") THEN "prepared" ELSE "published"]
    /\ Goto(IF At("journal") THEN "identity" ELSE "stage")
    /\ UNCHANGED <<job, bytes, pend, stage, ident, kept, told, zip, other, up, boot, faults>>

EnsureIdentity ==
    /\ At("identity")
    /\ ident' = [ident EXCEPT ![op.on] = TRUE]
    /\ Goto(IF job[op.on] = "live" THEN "stage" ELSE "publish")
    /\ UNCHANGED <<job, bytes, pend, stage, jrn, kept, told, zip, other, up, boot, faults>>

Publish ==
    /\ At("publish")
    /\ job' = [job EXCEPT ![op.on] = "live"]
    /\ stage' = [stage EXCEPT ![op.on] = "dir"]
    /\ Goto(IF op.kind = "create" THEN "mark" ELSE "stage")
    /\ UNCHANGED <<bytes, pend, jrn, ident, kept, told, zip, other, up, boot, faults>>

RemoveStage ==
    /\ At("stage")
    /\ stage' = [stage EXCEPT ![op.on] = "none"]
    /\ Goto("unjournal")
    /\ UNCHANGED <<job, bytes, pend, jrn, ident, kept, told, zip, other, up, boot, faults>>

RemoveJournal ==
    /\ At("unjournal")
    /\ jrn' = [jrn EXCEPT ![op.on] = "none"]
    /\ told' = IF op.kind = "create" THEN [told EXCEPT ![op.on] = "ok"]
               ELSE IF op.kind = "undo" THEN [told EXCEPT ![op.on] = "error"] ELSE told
    /\ op' = IF op.kind = "recover" THEN [op EXCEPT !.on = None, !.pc = "next"] ELSE Idle
    /\ UNCHANGED <<job, bytes, pend, stage, ident, kept, zip, other, up, boot, faults>>

\* An error in create.  Making the stage is outside of its try block; up to
\* the second journal write it is rolled back, afterwards the evidence is kept.
CreateError ==
    /\ op.kind = "create" /\ faults < MaxFaults
    /\ faults' = faults + 1
    /\ \/ /\ At("mkdir")
          /\ \E made \in {"none", "dir"} : stage' = [stage EXCEPT ![op.on] = made]
          /\ told' = [told EXCEPT ![op.on] = "error"]
          /\ op' = Idle
          /\ UNCHANGED <<jrn, kept>>
       \/ /\ op.pc \in {"mkjob", "record", "journal", "identity", "publish", "mark"}
          /\ op' = [op EXCEPT !.kind = "undo", !.pc = "undo"]
          /\ UNCHANGED <<stage, jrn, kept, told>>
       \/ /\ op.pc \in {"stage", "unjournal"}
          /\ Preserve(op.on)
          /\ told' = [told EXCEPT ![op.on] = "error"]
          /\ op' = Idle
    /\ UNCHANGED <<job, bytes, pend, ident, zip, other, up, boot>>

\* _rollback_create_transaction: the published job goes first; a stage that
\* holds something else than the staged job cannot be rolled back.
Rollback ==
    /\ At("undo")
    /\ IF stage[op.on] = "torn"
       THEN /\ Preserve(op.on)
            /\ told' = [told EXCEPT ![op.on] = "error"]
            /\ op' = Idle
            /\ UNCHANGED job
       ELSE \/ /\ job[op.on] = "live"
               /\ job' = [job EXCEPT ![op.on] = "none"]
               /\ UNCHANGED <<stage, jrn, kept, told, op>>
            \/ /\ job[op.on] = "none"
               /\ stage' = [stage EXCEPT ![op.on] = "none"]
               /\ Goto("unident")
               /\ UNCHANGED <<job, jrn, kept, told>>
    /\ UNCHANGED <<bytes, pend, ident, zip, other, up, boot, faults>>

RollbackIdentity ==
    /\ At("unident")
    /\ ident' = [ident EXCEPT ![op.on] = @ /\ job[op.on] # "none"]
    /\ Goto("unjournal")
    /\ UNCHANGED <<job, bytes, pend, stage, jrn, kept, told, zip, other, up, boot, faults>>

\* An error in the rollback or in the recovery of one journal.
UndoError ==
    /\ op.kind \in {"undo", "recover"} /\ op.on # None /\ faults < MaxFaults
    /\ faults' = faults + 1
    /\ Preserve(op.on)
    /\ IF op.kind = "undo"
       THEN told' = [told EXCEPT ![op.on] = "error"] /\ op' = Idle
       ELSE op' = [op EXCEPT !.on = None, !.pc = "next"] /\ UNCHANGED told
    /\ UNCHANGED <<job, bytes, pend, ident, zip, other, up, boot>>

-----------------------------------------------------------------------------
\* Recovery runs in each process before it serves, over all journals and then
\* over the stages nobody has a journal for.
Recover(p) ==
    /\ op = Idle /\ p \in up \cap boot
    /\ op' = [Idle EXCEPT !.proc = p, !.kind = "recover", !.pc = "next"]
    /\ UNCHANGED <<disk, told, other, up, boot, faults>>

\* Mutant: a staged job is dropped instead of published.
RecoverCreate_drops(j) ==
    /\ At("next") /\ jrn[j] # "none"
    /\ IF job[j] = "live"
       THEN op' = [op EXCEPT !.on = j, !.pc = "identity"] /\ UNCHANGED <<stage, jrn, kept, ident>>
       ELSE /\ op' = [op EXCEPT !.on = j, !.pc = "stage"]
            /\ UNCHANGED <<stage, jrn, kept, ident>>
    /\ UNCHANGED <<job, bytes, pend, told, zip, other, up, boot, faults>>

\* _recover_create_transaction.  A journal's phase is never consulted.
RecoverCreate(j) ==
    /\ At("next") /\ jrn[j] # "none"
    /\ \/ /\ job[j] = "live" \/ stage[j] = "full"
          /\ op' = [op EXCEPT !.on = j, !.pc = "identity"]
          /\ UNCHANGED <<stage, jrn, kept, ident>>
       \/ /\ job[j] # "live" /\ stage[j] = "none"
          /\ ident' = [ident EXCEPT ![j] = FALSE]
          /\ op' = [op EXCEPT !.on = j, !.pc = "unjournal"]
          /\ UNCHANGED <<stage, jrn, kept>>
       \/ /\ job[j] # "live" /\ stage[j] \in {"dir", "torn"}
          /\ Preserve(j)
          /\ UNCHANGED <<op, ident>>
    /\ UNCHANGED <<job, bytes, pend, told, zip, other, up, boot, faults>>

\* The journal of an interrupted artifact write: published or rolled back.
RecoverWrite(j) ==
    /\ At("next") /\ pend[j] > 0
    /\ \E n \in {bytes[j], pend[j]} :
          bytes' = [bytes EXCEPT ![j] = IF job[j] = "live" THEN n ELSE @]
    /\ pend' = [pend EXCEPT ![j] = 0]
    /\ UNCHANGED <<job, stage, jrn, ident, kept, told, zip, other, up, boot, op, faults>>

RecoverOrphanStage(j) ==
    /\ At("next")
    /\ \A k \in Jobs : jrn[k] = "none" /\ pend[k] = 0
    /\ stage[j] # "none"
    /\ Preserve(j)
    /\ UNCHANGED <<job, bytes, pend, ident, told, zip, other, up, boot, op, faults>>

RecoverDone ==
    /\ At("next")
    /\ \A k \in Jobs : jrn[k] = "none" /\ pend[k] = 0 /\ stage[k] = "none"
    /\ boot' = boot \ {op.proc}
    /\ op' = Idle
    /\ UNCHANGED <<disk, told, other, up, faults>>

-----------------------------------------------------------------------------
\* The other operations that grow what the owner or the volume holds.
Serving(p) == op = Idle /\ p \in up \ boot

\* write_bytes: the old artifact stays on disk until the new one is committed.
WriteBytes(p, j, n) ==
    /\ Serving(p) /\ job[j] = "live" /\ told[j] = "ok" /\ pend[j] = 0
    /\ Fits(0, n - bytes[j], n)
    /\ bytes' = [bytes EXCEPT ![j] = n]
    /\ UNCHANGED <<job, pend, stage, jrn, ident, kept, told, zip, other, up, boot, op, faults>>

WriteBytesCrash(p, j, n) ==
    /\ Serving(p) /\ job[j] = "live" /\ told[j] = "ok" /\ pend[j] = 0 /\ faults < MaxFaults
    /\ Fits(0, n - bytes[j], n)
    /\ faults' = faults + 1
    /\ pend' = [pend EXCEPT ![j] = n]
    /\ up' = up \ {p}
    /\ UNCHANGED <<job, bytes, stage, jrn, ident, kept, told, zip, other, boot, op>>

\* A job that fails its checks (an unreadable artifact will do) goes to the
\* quarantine in a purge; an administrator restores it.
Quarantine(p, j) ==
    /\ Serving(p) /\ job[j] = "live" /\ jrn[j] = "none" /\ pend[j] = 0
    /\ job' = [job EXCEPT ![j] = "quar"]
    /\ UNCHANGED <<bytes, pend, stage, jrn, ident, kept, told, zip, other, up, boot, op, faults>>

\* Mutant: restoring asks for the bytes only.
RestoreQuarantine_noCount(p, j) ==
    /\ Serving(p) /\ job[j] = "quar"
    /\ Fits(0, bytes[j], 0)
    /\ job' = [job EXCEPT ![j] = "live"]
    /\ ident' = [ident EXCEPT ![j] = TRUE]
    /\ UNCHANGED <<bytes, pend, stage, jrn, kept, told, zip, other, up, boot, op, faults>>

RestoreQuarantine(p, j) ==
    /\ Serving(p) /\ job[j] = "quar"
    /\ Fits(1, bytes[j], 0)
    /\ job' = [job EXCEPT ![j] = "live"]
    /\ ident' = [ident EXCEPT ![j] = TRUE]
    /\ UNCHANGED <<bytes, pend, stage, jrn, kept, told, zip, other, up, boot, op, faults>>

\* A user's deletion or an expiry takes the job and its sidecar.
DeleteJob(p, j) ==
    /\ Serving(p) /\ job[j] = "live"
    /\ job' = [job EXCEPT ![j] = "none"]
    /\ bytes' = [bytes EXCEPT ![j] = 0]
    /\ ident' = [ident EXCEPT ![j] = FALSE]
    /\ told' = [told EXCEPT ![j] = "deleted"]
    /\ UNCHANGED <<pend, stage, jrn, kept, zip, other, up, boot, op, faults>>

\* A bundle is written to a temporary file, measured and renamed.
CreateBundle(p, j, b) ==
    /\ Serving(p) /\ job[j] = "live" /\ bytes[j] > 0 /\ pend[j] = 0 /\ zip[b] = 0
    /\ FitsBundle(bytes[j])
    /\ \E n \in 1..UpperBound(bytes[j]) :
          op' = [proc |-> p, kind |-> "bundle", on |-> b, pc |-> "measure", n |-> n]
    /\ UNCHANGED <<disk, told, other, up, boot, faults>>

PublishBundle ==
    /\ At("measure")
    /\ LET fits == Cardinality(Published) + 1 <= MaxBundles /\ Free - op.n >= MinFree
       IN zip' = [zip EXCEPT ![op.on] = IF fits THEN op.n ELSE 0]
    /\ op' = Idle
    /\ UNCHANGED <<job, bytes, pend, stage, jrn, ident, kept, told, other, up, boot, faults>>

\* The download is over, or the bundle is stale.
RemoveBundle(p, b) ==
    /\ Serving(p) /\ zip[b] > 0
    /\ zip' = [zip EXCEPT ![b] = 0]
    /\ UNCHANGED <<job, bytes, pend, stage, jrn, ident, kept, told, other, up, boot, op, faults>>

\* Other programs fill the volume, without ever taking the last unit.
OtherUses ==
    /\ Free > 1
    /\ other' = other + 1
    /\ UNCHANGED <<disk, told, up, boot, op, faults>>

-----------------------------------------------------------------------------
\* A process dies with whatever it was doing, and starts again.
Crash(p) ==
    /\ p \in up /\ faults < MaxFaults
    /\ faults' = faults + 1
    /\ up' = up \ {p}
    /\ boot' = boot \cup {p}
    /\ op' = IF op.proc = p THEN Idle ELSE op
    /\ UNCHANGED <<disk, told, other>>

Restart(p) ==
    /\ p \notin up
    /\ up' = up \cup {p} /\ boot' = boot \cup {p}
    /\ UNCHANGED <<disk, told, other, op, faults>>

Step ==
    \/ MakeStage \/ MakeStagedJob \/ WriteRecord \/ WriteJournal \/ EnsureIdentity \/ Publish
    \/ RemoveStage \/ RemoveJournal \/ CreateError \/ Rollback \/ RollbackIdentity \/ UndoError
    \/ PublishBundle \/ RecoverDone
    \/ \E j \in Jobs : RecoverCreate(j) \/ RecoverWrite(j) \/ RecoverOrphanStage(j)

Next ==
    \/ Step \/ OtherUses
    \/ \E p \in Procs : Recover(p) \/ Crash(p) \/ Restart(p)
    \/ \E p \in Procs, j \in Jobs :
          Create(p, j) \/ Quarantine(p, j) \/ RestoreQuarantine(p, j) \/ DeleteJob(p, j)
    \/ \E p \in Procs, j \in Jobs, n \in Sizes : WriteBytes(p, j, n) \/ WriteBytesCrash(p, j, n)
    \/ \E p \in Procs, j \in Jobs, b \in Bundles : CreateBundle(p, j, b)
    \/ \E p \in Procs, b \in Bundles : RemoveBundle(p, b)

Spec == Init /\ [][Next]_vars

-----------------------------------------------------------------------------
\* Type correctness of the stored state and of the operation under the lock.
TypeOK ==
    /\ job \in [Jobs -> {"none", "live", "quar"}]
    /\ bytes \in [Jobs -> Sizes \cup {0}] /\ pend \in [Jobs -> Sizes \cup {0}]
    /\ stage \in [Jobs -> {"none", "dir", "torn", "full"}]
    /\ jrn \in [Jobs -> {"none", "prepared", "published"}]
    /\ ident \in [Jobs -> BOOLEAN] /\ kept \in [Jobs -> BOOLEAN]
    /\ told \in [Jobs -> {"none", "ok", "error", "deleted"}]
    /\ zip \in [Bundles -> Nat] /\ other \in Nat
    /\ up \subseteq Procs /\ boot \subseteq Procs
    /\ faults \in 0..MaxFaults

\* "사용자당 100개/1GiB" (docs/runbook/office-tools.md): an owner never holds more
\* jobs or bytes than the quotas, whatever was created, written, restored,
\* interrupted and recovered (_ensure_capacity and its callers).
QuotaKept == Usage.jobs <= MaxJobs /\ Usage.total <= MaxBytes

\* No bundle is published when the volume is, or would be, below the minimum
\* free space or above the number of bundles, although other programs fill it
\* meanwhile (_verify_temporary_bundle_capacity_after_write).
BundleLimit ==
    \A b \in Bundles : zip[b] = 0 /\ zip'[b] > 0 =>
            Free' >= MinFree /\ Cardinality(Published') <= MaxBundles

\* Between operations of processes that have recovered, every create is
\* settled: no stage or journal is left, a sidecar without a job has evidence
\* in the recovery quarantine, and a live job has its sidecar
\* (_recover_create_transaction, _rollback_create_transaction).
CreateResolved ==
    (op = Idle /\ up = Procs /\ boot = {}) =>
        \A j \in Jobs :
            /\ jrn[j] = "none" /\ (stage[j] # "none" => told[j] = "error")
            /\ ident[j] => job[j] # "none" \/ kept[j]
            /\ job[j] = "live" => ident[j]

\* A job whose creation was acknowledged stays until a user deletes it, and a
\* create that was refused with everything rolled back leaves no job.
CreatedStays ==
    \A j \in Jobs :
        /\ told[j] = "ok" => job[j] # "none"
        /\ (told[j] = "error" /\ job[j] # "none") => kept[j]

\* A crash never loses a staged job: once its journal is there it is published
\* by the recovery, kept for an administrator, or rolled back by an error.
StagedSurvives ==
    \A j \in Jobs : (jrn[j] # "none" /\ stage[j] = "full" /\ stage'[j] # "full") =>
            job'[j] = "live" \/ kept'[j] \/ op.kind = "undo"
=============================================================================
