------------------------------ MODULE MCOffice -------------------------------
(****************************************************************************)
(* Receipts, the create transaction and the limits of the Office job store  *)
(* on small instances. One behaviour is about one part only, which is       *)
(* chosen in the initial state: the parts share no data, and each run of    *)
(* TLC covers all of them. A name that two parts use is each part's own     *)
(* variable.                                                                *)
(****************************************************************************)
EXTENDS Naturals, TLC

CONSTANTS Receipts, Kind, Chunked,  \* requests of one process, one after the other
          LoneFaults,               \* bound on their errors and crashes
          Others, OtherKind,        \* requests of several processes
          OtherChunked, OtherProcs,
          OtherFaults,
          Jobs, Bundles, Sizes,     \* the store of one owner, and its limits
          MaxJobs, MaxBytes, MaxBundles, MinFree, Disk, MaxFaults,
          r1, r2, r3, p1            \* requests, and the one process of the other parts

VARIABLES part,    \* the part that a behaviour is about
          rcpt, chunks, rows, target, did, tomb, born, pc, own, at, todo, snap, out,
          faults, job, bytes, pend, stage, jrn, ident, kept, told, zip, other, up,
          boot, op

vars == <<part, rcpt, chunks, rows, target, did, tomb, born, pc, own, at, todo, snap,
                out, faults, job, bytes, pend, stage, jrn, ident, kept, told, zip,
                other, up, boot, op>>

\* What the requests of the run do.
KindAlone == r1 :> "restore" @@ r2 :> "owner" @@ r3 :> "purge"
KindTogether == r1 :> "bundle" @@ r2 :> "recovery"

Alone == INSTANCE JobReceipts_proofs WITH
    Procs <- {p1}, MaxFaults <- LoneFaults

Together == INSTANCE JobReceipts_proofs WITH
    Receipts <- Others, Kind <- OtherKind, Chunked <- OtherChunked, Procs <- OtherProcs,
    MaxFaults <- OtherFaults

Capacity == INSTANCE JobCapacity WITH Procs <- {p1}

ASSUME OfficeAssumption ==
    /\ Alone!ReceiptAssumption
    /\ Together!ReceiptAssumption
    /\ Capacity!CapacityAssumption

\* The variables of the other parts have the value 0 and keep it.
Init ==
    \/ /\ part = "alone" /\ Alone!Init
       /\ job = 0 /\ bytes = 0 /\ pend = 0 /\ stage = 0 /\ jrn = 0 /\ ident = 0
       /\ kept = 0 /\ told = 0 /\ zip = 0 /\ other = 0 /\ up = 0 /\ boot = 0 /\ op = 0
    \/ /\ part = "together" /\ Together!Init
       /\ job = 0 /\ bytes = 0 /\ pend = 0 /\ stage = 0 /\ jrn = 0 /\ ident = 0
       /\ kept = 0 /\ told = 0 /\ zip = 0 /\ other = 0 /\ up = 0 /\ boot = 0 /\ op = 0
    \/ /\ part = "capacity" /\ Capacity!Init
       /\ rcpt = 0 /\ chunks = 0 /\ rows = 0 /\ target = 0 /\ did = 0 /\ tomb = 0
       /\ born = 0 /\ pc = 0 /\ own = 0 /\ at = 0 /\ todo = 0 /\ snap = 0 /\ out = 0

\* What the parts leave alone.
NotJobReceipts == <<part, job, bytes, pend, stage, jrn, ident, kept, told, zip, other,
                    up, boot, op>>
NotJobCapacity == <<part, rcpt, chunks, rows, target, did, tomb, born, pc, own, at,
                    todo, snap, out>>

Next ==
    \/ part = "alone" /\ Alone!Next /\ UNCHANGED NotJobReceipts
    \/ part = "together" /\ Together!Next /\ UNCHANGED NotJobReceipts
    \/ part = "capacity" /\ Capacity!Next /\ UNCHANGED NotJobCapacity

Spec == Init /\ [][Next]_vars

Symmetry == Permutations(Jobs) \cup Permutations(Bundles)

------------------------------------------------------------------------------
\* The audit table and the receipts tell what happened: no crash and no failed
\* write leaves a receipt that can never be read, a mutation said not to have
\* started did not happen (both with one request at a time), and when two requests
\* replay each other's receipts whatever was done is told by a row or by a receipt,
\* which goes only after intent and result are committed
\* (_reconcile_pending_result_audit, acknowledge_pending_result).
AuditHonest ==
    /\ [](part = "alone" => Alone!TypeOK /\ Alone!ReceiptsReadable /\ Alone!AuditTellsEffect)
    /\ [](part = "together" => Together!TypeOK /\ Together!EffectHasReceipt)
    /\ [][part = "together" => Together!AckedMeansAudited]_vars

\* A replay removes only the entry its receipt is about, never one that took its
\* place, and with one request at a time a receipt is given up only when the
\* removal is on disk (_replay_entry_matches_identity,
\* _replay_pending_durability_evidence).
RemovalBound ==
    /\ [][part = "together" => Together!EvidenceBound]_vars
    /\ [][part = "alone" => Alone!SyncedBeforeAck]_vars

\* An owner's jobs and bytes stay within the quota over creations, updates,
\* bundles, quarantine, restoration, crashes and recovery, and a bundle is
\* published only within the number of bundles and the free space of the volume
\* (_ensure_capacity, create_temporary_bundle).
WithinLimits ==
    /\ [](part = "capacity" => Capacity!QuotaKept)
    /\ [][part = "capacity" => Capacity!BundleLimit]_vars

\* A create is finished, undone or kept as evidence when nothing is under way, a
\* job whose creation was reported stays, and recovery never drops a fully staged
\* job (create, _rollback_create_transaction, _recover_create_transaction).
CreateAtomic ==
    /\ [](part = "capacity" => Capacity!TypeOK /\ Capacity!CreateResolved /\ Capacity!CreatedStays)
    /\ [][part = "capacity" => Capacity!StagedSurvives]_vars
==============================================================================
