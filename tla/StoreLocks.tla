----------------------------- MODULE StoreLocks -----------------------------
(***************************************************************************)
(* The locks of OfficeJobStore and the read lease of a streamed artifact   *)
(* (backend/app/modules/office_tools/core/job_store.py and api/jobs.py).   *)
(*                                                                         *)
(* Every operation takes the maintenance lock, then the lock of the job's  *)
(* owner, and, to remove the job or to open a read lease on it, the file   *)
(* lock of the job.  The first two are a threading.RLock of the process    *)
(* and a file lock; the third is only a file lock, because the lease is    *)
(* opened by one thread and closed by another, when the response has been  *)
(* streamed.  Requests are synchronous handlers: they run on the thread    *)
(* pool of their process, and so does each read of a streamed chunk.       *)
(***************************************************************************)
EXTENDS Naturals, FiniteSets

CONSTANTS Requests,  \* the requests in flight
          Procs,     \* server processes on one storage root
          ProcOf,    \* the process of each request
          Jobs,
          Owners,
          OwnerOf,   \* the owner of each job
          PoolSize,  \* threads per process (40 in anyio)
          Chunks,    \* 64 KiB chunks of an artifact
          Windows,   \* file locks time out (msvcrt) or block (flock)
          Nobody     \* a free lock

\* What the constants are assumed to be: processes and owners are fixed, and the
\* keys of the locks are distinct.
ASSUME LockAssumption ==
    /\ ProcOf \in [Requests -> Procs] /\ OwnerOf \in [Jobs -> Owners]
    /\ PoolSize \in Nat \ {0} /\ Chunks \in Nat /\ Windows \in BOOLEAN
    /\ Nobody \notin Requests
    /\ "maint" \notin Jobs \cup Owners /\ Jobs \cap Owners = {}

VARIABLES at,     \* where each request is
          op,     \* what it does: read, write, delete, purge or none
          job,    \* to which job
          todo,   \* purge: the jobs still to look at
          left,   \* chunks still to be streamed
          plock,  \* the holder of each process lock
          flock,  \* the holder of each file lock
          place   \* the job's directory

lockVars == <<at, op, job, todo, left, plock, flock, place>>
locks == <<plock, flock>>

Maint == "maint"
Keys == {Maint} \cup Owners \cup Jobs
Ops == {"read", "write", "delete", "purge"}
PlaceStates == {"present", "corrupt", "partial", "gone", "quarantined"}

Acquiring == {"maintLock", "maintFile", "ownerLock", "ownerFile", "jobFile"}
Working == {"validate", "work", "leave", "nextJob"}
Streaming == {"stream", "chunk"}
LockPCs == {"idle"} \cup Acquiring \cup Working \cup Streaming

\* The pool thread of a request: it is in its handler, or reads a chunk.
Running(r) == at[r] \notin {"idle", "stream"}
FreeThread(p) ==
  Cardinality({r \in Requests : ProcOf[r] = p /\ Running(r)}) < PoolSize

\* The lock that a request is about to take.
Key(r) == IF at[r] \in {"maintLock", "maintFile"} THEN Maint
          ELSE IF at[r] = "jobFile" THEN job[r]
          ELSE OwnerOf[job[r]]

GoesTo(r, next) == at' = [at EXCEPT ![r] = next]

LockInit ==
  /\ at = [r \in Requests |-> "idle"]
  /\ op = [r \in Requests |-> "none"] /\ job \in [Requests -> Jobs]
  /\ todo = [r \in Requests |-> {}] /\ left = [r \in Requests |-> 0]
  /\ plock = [p \in Procs |-> [k \in Keys |-> Nobody]]
  /\ flock = [k \in Keys |-> Nobody]
  /\ place = [j \in Jobs |-> "present"]

-----------------------------------------------------------------------------
\* A request arrives and its handler gets a thread of the pool.
Call(r, o, j) ==
  /\ at[r] = "idle" /\ FreeThread(ProcOf[r])
  /\ GoesTo(r, "maintLock")
  /\ op' = [op EXCEPT ![r] = o] /\ job' = [job EXCEPT ![r] = j]
  /\ todo' = [todo EXCEPT ![r] = IF o = "purge" THEN Jobs \ {j} ELSE {}]
  /\ UNCHANGED <<left, locks, place>>

\* The requests rs are over.
Finish(rs) ==
  /\ at' = [r \in Requests |-> IF r \in rs THEN "idle" ELSE at[r]]
  /\ op' = [r \in Requests |-> IF r \in rs THEN "none" ELSE op[r]]
  /\ todo' = [r \in Requests |-> IF r \in rs THEN {} ELSE todo[r]]
  /\ left' = [r \in Requests |-> IF r \in rs THEN 0 ELSE left[r]]
  /\ UNCHANGED job

\* with process_lock: _maintenance_lock and _owner_capacity_lock.
TakeProcessLock(r) ==
  /\ at[r] \in {"maintLock", "ownerLock"}
  /\ plock[ProcOf[r]][Key(r)] = Nobody
  /\ plock' = [plock EXCEPT ![ProcOf[r]][Key(r)] = r]
  /\ GoesTo(r, IF at[r] = "maintLock" THEN "maintFile" ELSE "ownerFile")
  /\ UNCHANGED <<op, job, todo, left, flock, place>>

\* Mutant: maintenance and owner are locked within the process only.
TakeFileLock_processOnly(r) ==
  /\ at[r] \in {"maintFile", "ownerFile", "jobFile"}
  /\ flock[Key(r)] = Nobody \/ at[r] # "jobFile"
  /\ flock' = [flock EXCEPT ![Key(r)] = r]
  /\ GoesTo(r, CASE at[r] = "maintFile" -> "ownerLock"
               [] at[r] = "ownerFile" -> "validate"
               [] at[r] = "jobFile"   -> "work")
  /\ UNCHANGED <<op, job, todo, left, plock, place>>

\* _lock_file: fcntl.flock, or msvcrt.locking in at most 100 attempts.
TakeFileLock(r) ==
  /\ at[r] \in {"maintFile", "ownerFile", "jobFile"}
  /\ flock[Key(r)] = Nobody
  /\ flock' = [flock EXCEPT ![Key(r)] = r]
  /\ GoesTo(r, CASE at[r] = "maintFile" -> "ownerLock"
               [] at[r] = "ownerFile" -> "validate"
               [] at[r] = "jobFile"   -> "work")
  /\ UNCHANGED <<op, job, todo, left, plock, place>>

LockTimeout(r) ==
  /\ Windows
  /\ at[r] \in {"maintFile", "ownerFile", "jobFile"}
  /\ flock[Key(r)] # Nobody
  /\ GoesTo(r, "leave")
  /\ UNCHANGED <<op, job, todo, left, locks, place>>

\* Mutant: the deletion of a job does not wait for its read lease.
Validate_deletesUnlocked(r) ==
  LET state == place[job[r]] IN
  /\ at[r] = "validate" /\ op[r] # "purge"
  /\ GoesTo(r, IF op[r] = "read"
             THEN IF state = "present" THEN "jobFile" ELSE "leave"
             ELSE IF state \in {"present", "partial"} THEN "work" ELSE "leave")
  /\ UNCHANGED <<op, job, todo, left, locks, place>>

\* The record is read again under both locks; what follows depends on what
\* it says.  A job that is past its retention (a free choice here) is removed
\* by a purge under the job's lock, a broken one is quarantined without it.
Validate(r) ==
  LET state == place[job[r]] IN
  /\ at[r] = "validate"
  /\ \/ /\ op[r] = "read"
        /\ GoesTo(r, IF state = "present" THEN "jobFile" ELSE "leave")
     \/ /\ op[r] = "write"
        /\ GoesTo(r, IF state \in {"present", "corrupt"} THEN "work" ELSE "leave")
     \/ /\ op[r] = "delete"
        /\ GoesTo(r, IF state \in {"present", "partial"} THEN "jobFile"
                   ELSE "leave")
     \/ /\ op[r] = "purge"
        /\ \/ state = "present" /\ GoesTo(r, "jobFile")
           \/ state \in {"corrupt", "partial"} /\ GoesTo(r, "work")
           \/ state \notin {"corrupt", "partial"} /\ GoesTo(r, "nextJob")
  /\ UNCHANGED <<op, job, todo, left, locks, place>>

\* The work done under the locks.  A write may end in an unresolved
\* transaction; shutil.rmtree removes file after file and may fail half way.
Work(r) ==
  LET j == job[r] IN
  /\ at[r] = "work"
  /\ \/ /\ op[r] = "read"
        /\ left' = [left EXCEPT ![r] = Chunks]
        /\ GoesTo(r, "leave") /\ UNCHANGED place
     \/ /\ op[r] = "write"
        /\ place' \in {place, [place EXCEPT ![j] = "corrupt"]}
        /\ GoesTo(r, "leave") /\ UNCHANGED left
     \/ /\ op[r] = "delete" \/ (op[r] = "purge" /\ flock[j] = r)
        /\ \/ /\ place[j] # "partial"
              /\ place' = [place EXCEPT ![j] = "partial"]
              /\ at' \in {at, [at EXCEPT ![r] = "leave"]}
           \/ /\ place[j] = "partial"
              /\ place' = [place EXCEPT ![j] = "gone"]
              /\ GoesTo(r, IF op[r] = "purge" THEN "nextJob" ELSE "leave")
        /\ UNCHANGED left
     \/ /\ op[r] = "purge" /\ flock[j] # r
        /\ place' = [place EXCEPT ![j] = "quarantined"]
        /\ GoesTo(r, "nextJob") /\ UNCHANGED left
  /\ UNCHANGED <<op, job, todo, locks>>

\* Locks of r other than the maintenance lock, and all of them.
Drop(lock, r, keys) == [k \in Keys |-> IF k \in keys /\ lock[k] = r
                                       THEN Nobody ELSE lock[k]]

\* purge: the owner's lock (and the job's) is released, the next job taken.
NextJob(r) ==
  /\ at[r] = "nextJob"
  /\ plock' = [plock EXCEPT ![ProcOf[r]] = Drop(@, r, Owners)]
  /\ flock' = Drop(flock, r, Owners \cup Jobs)
  /\ IF todo[r] = {} THEN GoesTo(r, "leave") /\ UNCHANGED <<job, todo>>
     ELSE \E j \in todo[r] :
            /\ job' = [job EXCEPT ![r] = j]
            /\ todo' = [todo EXCEPT ![r] = @ \ {j}]
            /\ GoesTo(r, "ownerLock")
  /\ UNCHANGED <<op, left, place>>

\* A reader that got the job's lock keeps it: it is the lease.
Leased(r) == op[r] = "read" /\ flock[job[r]] = r

\* Mutant: the lease is handed out from within the with blocks.
Leave_keepsLocks(r) ==
  /\ at[r] = "leave"
  /\ IF Leased(r)
     THEN GoesTo(r, "stream") /\ UNCHANGED <<locks, op, job, todo, left>>
     ELSE /\ plock' = [plock EXCEPT ![ProcOf[r]] = Drop(@, r, Keys)]
          /\ flock' = Drop(flock, r, Keys) /\ Finish({r})
  /\ UNCHANGED place

\* The with blocks end: the handler returns or raises, its thread is free.
Leave(r) ==
  /\ at[r] = "leave"
  /\ plock' = [plock EXCEPT ![ProcOf[r]] = Drop(@, r, Keys)]
  /\ IF Leased(r)
     THEN /\ flock' = Drop(flock, r, {Maint} \cup Owners)
          /\ GoesTo(r, "stream") /\ UNCHANGED <<op, job, todo, left>>
     ELSE flock' = Drop(flock, r, Keys) /\ Finish({r})
  /\ UNCHANGED place

-----------------------------------------------------------------------------
\* StreamingResponse: next() of _stream_artifact runs on the pool.
ReadChunk(r) ==
  /\ at[r] = "stream" /\ FreeThread(ProcOf[r])
  /\ GoesTo(r, "chunk")
  /\ UNCHANGED <<op, job, todo, left, locks, place>>

\* Mutant: the end of the file is not noticed.
ChunkDone_pastEnd(r) ==
  /\ at[r] = "chunk"
  /\ GoesTo(r, "stream") /\ left' = [left EXCEPT ![r] = @ - 1]
  /\ UNCHANGED <<op, job, todo, locks, place>>

\* The chunk is sent and another one is wanted.
ChunkDone(r) ==
  /\ at[r] = "chunk" /\ left[r] > 0
  /\ GoesTo(r, "stream") /\ left' = [left EXCEPT ![r] = @ - 1]
  /\ UNCHANGED <<op, job, todo, locks, place>>

\* Mutant: a stream that ends does not close the lease.
StreamEnds_keepsLease(r) ==
  /\ at[r] = "chunk" /\ left[r] = 0
  /\ Finish({r})
  /\ UNCHANGED <<locks, place>>

\* The end of the file: lease.close in the iterator's finally clause.
StreamEnds(r) ==
  /\ at[r] = "chunk" /\ left[r] = 0
  /\ flock' = Drop(flock, r, Jobs)
  /\ Finish({r})
  /\ UNCHANGED <<plock, place>>

\* The client goes away between two chunks: the iterator's finally clause, or
\* the background task, closes the lease.
Disconnect(r) ==
  /\ at[r] = "stream"
  /\ flock' = Drop(flock, r, Jobs)
  /\ Finish({r})
  /\ UNCHANGED <<plock, place>>

\* A process dies: the operating system releases its file locks.
ProcessDies(p) ==
  LET dead == {r \in Requests : ProcOf[r] = p} IN
  /\ \E r \in dead : at[r] # "idle"
  /\ Finish(dead)
  /\ plock' = [plock EXCEPT ![p] = [k \in Keys |-> Nobody]]
  /\ flock' = [k \in Keys |-> IF flock[k] \in dead THEN Nobody ELSE flock[k]]
  /\ UNCHANGED place

LockStep(r) ==
  \/ TakeProcessLock(r) \/ TakeFileLock(r) \/ LockTimeout(r)
  \/ Validate(r) \/ Work(r) \/ NextJob(r) \/ Leave(r)
  \/ ReadChunk(r) \/ ChunkDone(r) \/ StreamEnds(r)

LockNext ==
  \/ \E r \in Requests, o \in Ops, j \in Jobs : Call(r, o, j)
  \/ \E r \in Requests : LockStep(r) \/ Disconnect(r)
  \/ \E p \in Procs : ProcessDies(p)

LockSpec == LockInit /\ [][LockNext]_lockVars

\* A thread that can go on does; the pool serves its queue in order, so that
\* a chunk for which threads become free again and again gets one.  Nothing
\* is assumed of clients (Call, Disconnect), crashes, or the order in which
\* waiting threads get a lock.
FairSpec == /\ LockSpec
            /\ \A r \in Requests : WF_lockVars(LockStep(r)) /\ SF_lockVars(ReadChunk(r))

-----------------------------------------------------------------------------
\* Every variable stays within the values its part of the code can produce.
LocksTyped ==
  /\ at \in [Requests -> LockPCs] /\ op \in [Requests -> Ops \cup {"none"}]
  /\ job \in [Requests -> Jobs] /\ todo \in [Requests -> SUBSET Jobs]
  /\ left \in [Requests -> 0 .. Chunks]
  /\ plock \in [Procs -> [Keys -> Requests \cup {Nobody}]]
  /\ flock \in [Keys -> Requests \cup {Nobody}]
  /\ place \in [Jobs -> PlaceStates]

\* A job is not removed, not even in part, while one of its artifacts is
\* being streamed, by whatever process, to a client however slow.
StreamSafe ==
  \A r \in Requests :
    at[r] \in Streaming => place[job[r]] \notin {"partial", "gone"}

\* What a request has read of a job under the locks is still true when it
\* acts on it, although it may have waited for the job's lock in between.
CheckStillTrue ==
  \A r \in Requests :
    /\ at[r] = "jobFile" => place[job[r]] \in {"present", "partial"}
    /\ at[r] = "work" /\ op[r] = "read" => place[job[r]] = "present"
    /\ at[r] = "work" => place[job[r]] \notin {"gone", "quarantined"}

\* The maintenance lock is released again, although its holder may wait for
\* the lease of a stream.
MaintReleased ==
  \A r \in Requests : flock[Maint] = r ~> flock[Maint] # r

\* "Release the read lease even when streaming disconnects or fails"
\* (_stream_artifact): a lease that was given out is given back.
LeaseReleased ==
  \A r \in Requests, j \in Jobs :
    flock[j] = r ~> flock[j] # r
=============================================================================
