--------------------------- MODULE JobStore_proofs ---------------------------
(****************************************************************************)
(* Proofs about how the job store keeps and removes a job. The first part   *)
(* is about ArtifactTransaction, for every set of names and contents, every *)
(* number of updates and every choice of faults: types, the invariants of   *)
(* the journal protocol, and that it implements AtomicUpdate. Each part     *)
(* states the strengthening that makes its claim inductive.                 *)
(*                                                                          *)
(* The second part is about what the end of a job guarantees                *)
(* (MCOwnerDeletion), for every choice of its faults and for behaviours of  *)
(* any length. The inductive invariant OwnerInv says in which states of the *)
(* tombstone each step of an operation can be. TidyInv adds what holds      *)
(* until the first I/O error, Owned what holds when crashes are all that    *)
(* goes wrong (the second instance of MCOwnerDeletion).                     *)
(*                                                                          *)
(* The last part is about the locks that a removal takes (StoreLocks): for  *)
(* any number of requests, processes, jobs and pool threads, on either      *)
(* platform, a streamed job is not removed and a request acts on what it    *)
(* has checked.                                                             *)
(****************************************************************************)
EXTENDS ArtifactTransaction, MCOwnerDeletion, StoreLocks, TLAPS

\* The fields of a transaction's journal have their types.
LEMMA IntentType ==
  ASSUME TypeOK, NEW t \in Txns
  PROVE  /\ intent[t].name \in Names
         /\ intent[t].old \in Record /\ intent[t].new \in Record
         /\ intent[t].old.arts[intent[t].name] \in FileState
         /\ intent[t].new.arts[intent[t].name] \in FileState
         /\ intent[t].old.rev \in 0 .. MaxRev
         /\ intent[t].new.rev \in 0 .. MaxRev
<1>1. intent[t] \in Intent
  BY DEF TypeOK
<1>2. /\ intent[t].name \in Names
      /\ intent[t].old \in Record /\ intent[t].new \in Record
  BY <1>1 DEF Intent
<1> QED
  BY <1>2 DEF Record

\* Type correctness of the journal protocol of write_bytes and its recovery.
LEMMA TypeStep == TypeOK /\ [Next]_vars => TypeOK'
<1> SUFFICES ASSUME TypeOK, [Next]_vars PROVE TypeOK'
  OBVIOUS
<1> USE NoneAssumption, RevAssumption, FaultsAssumption
<1> USE DEF TypeOK, Txns, Phases, PCs,
            TryBlock, Restoring, Publishing, Cleanup, Keeping,
            disk, local, stage, kept
<1>1. ASSUME NEW n \in Names, NEW c \in Contents, Begin(n, c) PROVE TypeOK'
  <2> DEFINE upd == [rev |-> clock + 1, status |-> rec.status,
                     arts |-> [rec.arts EXCEPT ![n] = c]]
             int == [name |-> n, old |-> rec, new |-> upd]
  <2>1. clock + 1 \in Txns /\ clock + 1 \in 0 .. MaxRev
    BY <1>1 DEF Begin
  <2>2. upd \in Record
    BY <2>1 DEF Record, FileState
  <2>3. int \in Intent
    BY <2>2 DEF Intent
  <2>4. intent' = [intent EXCEPT ![clock + 1] = int]
    BY <1>1 DEF Begin
  <2>5. intent' \in [Txns -> Intent]
    BY <2>1, <2>3, <2>4
  <2> QED
    BY <1>1, <2>1, <2>5 DEF Begin, Then
<1>2. ASSUME NEW s \in {"completed", "failed"}, SetStatus(s) PROVE TypeOK'
  <2>1. clock + 1 \in 0 .. MaxRev
    BY <1>2 DEF SetStatus
  <2>2. rec' \in Record
    BY <1>2, <2>1 DEF SetStatus, Record
  <2> QED
    BY <1>2, <2>1, <2>2 DEF SetStatus
<1>3. CASE Purge
  BY <1>3 DEF Purge
<1>4. CASE IoError
  BY <1>4 DEF IoError, Handler, KeepFailed
<1>5. CASE Crash
  BY <1>5 DEF Crash
<1>6. CASE Start
  BY <1>6 DEF Start
<1>7. CASE Recover
  <2>1. CASE Recovered \/ Decide
    BY <2>1 DEF Recovered, Decide
  <2>2. ASSUME NEW t \in Txns, TakeJournal(t) PROVE TypeOK'
    BY <2>2 DEF TakeJournal
  <2>3. ASSUME NEW t \in Txns, TakeOrphan(t) PROVE TypeOK'
    BY <2>3 DEF TakeOrphan
  <2> QED BY <1>7, <2>1, <2>2, <2>3 DEF Recover
<1>8. CASE WriteStep
  <2>1. CASE StageNew
    BY <2>1, IntentType DEF StageNew, Then, NewArt, Name
  <2>2. CASE Prepare \/ MarkBackup \/ MarkPublished \/ MarkCommitted
    BY <2>2 DEF Prepare, MarkBackup, MarkPublished, MarkCommitted,
                WriteJournal, Then
  <2>3. CASE Backup
    BY <2>3, IntentType DEF FileState, Backup, Then, Name
  <2>4. CASE Publish
    BY <2>4, IntentType DEF FileState, Publish, Then, Name
  <2>5. CASE CommitRecord
    BY <2>5, IntentType DEF CommitRecord, Then
  <2>6. CASE Verify
    BY <2>6 DEF Verify
  <2> QED BY <1>8, <2>1, <2>2, <2>3, <2>4, <2>5, <2>6 DEF WriteStep
<1>9. CASE ResolveStep
  <2>1. CASE Rollback
    BY <2>1 DEF Rollback
  <2>2. CASE Unlink
    BY <2>2, IntentType DEF FileState, Unlink, Then, Name, OldArt, NewArt
  <2>3. CASE PutBytes
    BY <2>3, IntentType DEF FileState, PutBytes, Then, Name
  <2>4. CASE OldRecord \/ NewRecord
    BY <2>4, IntentType DEF OldRecord, NewRecord, Then
  <2>5. CASE Clear
    BY <2>5, IntentType DEF FileState, Clear, Then, Name, OldArt, NewArt
  <2>6. CASE RemoveStage
    BY <2>6 DEF RemoveStage, Then, FileState
  <2>7. CASE RemoveJournal
    BY <2>7, IntentType DEF RemoveJournal, Then, Return
  <2>8. CASE KeepEntry \/ KeepJournal \/ KeepStage
    BY <2>8 DEF FileState, KeepEntry, KeepJournal, KeepStage, ThenKeep, KeepFailed,
                Return
  <2> QED BY <1>9, <2>1, <2>2, <2>3, <2>4, <2>5, <2>6, <2>7, <2>8
          DEF ResolveStep
<1>10. CASE UNCHANGED vars
  BY <1>10 DEF vars
<1> QED
  BY <1>1, <1>2, <1>3, <1>4, <1>5, <1>6, <1>7, <1>8, <1>9, <1>10
  DEF Next, Step

\* The initial store is well-typed.
LEMMA TypeInit == Init => TypeOK
<1> SUFFICES ASSUME Init PROVE TypeOK
  OBVIOUS
<1>1. (CHOOSE n \in Names : TRUE) \in Names
  BY NamesAssumption
<1>2. rec \in Record
  BY RevAssumption DEF Init, Record, FileState
<1>3. intent \in [Txns -> Intent]
  <2> DEFINE int == [name |-> CHOOSE n \in Names : TRUE, old |-> rec, new |-> rec]
  <2>1. int \in Intent
    BY <1>1, <1>2 DEF Intent
  <2>2. intent = [t \in Txns |-> int]
    BY DEF Init
  <2> QED
    BY <2>1, <2>2
<1>4. /\ files \in [Names -> FileState] /\ phase \in [Txns -> Phases \cup {"none"}]
      /\ new \in [Txns -> FileState] /\ backup \in [Txns -> FileState]
      /\ evBackup \in [Txns -> FileState]
  BY DEF Init, FileState
<1>5. /\ staged \subseteq Txns /\ entries \subseteq Txns /\ evidence \subseteq Txns
  BY DEF Init
<1>6. /\ pc = "idle" /\ mode = "write" /\ faulted = FALSE
      /\ cur \in 0 .. MaxRev /\ clock \in 0 .. MaxRev /\ ack \in 0 .. MaxRev
  BY RevAssumption DEF Init
<1> QED
  BY <1>2, <1>3, <1>4, <1>5, <1>6 DEF TypeOK, PCs

\* Every reachable store is well-typed, whatever crashes and errors occur.
THEOREM TypeCorrect == Spec => []TypeOK
<1> QED
  BY TypeInit, TypeStep, PTL DEF Spec

-----------------------------------------------------------------------------
(***************************************************************************)
(* NeverSilent is not inductive: a cleanup that removes the journal of a   *)
(* job in disagreement, or a rollback started from an unexpected manifest, *)
(* would break it.  SilentInv says where the journal protects the job and  *)
(* that cleanup starts only from agreement.                                *)
(***************************************************************************)
SilentInv ==
  /\ NeverSilent
  /\ pc \in Cleanup => files = rec.arts
  /\ pc \in (TryBlock \ {"stageNew", "prepare"}) \cup {"verify", "decide"}
       => phase[cur] # "none"
  /\ pc \in {"stageNew", "prepare"} => rec = intent[cur].old
  /\ pc = "rollback" => phase[cur] # "none" \/ rec = intent[cur].old
  /\ pc \in Restoring \cup Publishing => Noted
  /\ pc \in {"keepJournal", "keepStage"} => cur \in entries

\* Every step keeps a job in disagreement with its manifest on record.
LEMMA SilentStep == TypeOK /\ SilentInv /\ [Next]_vars => SilentInv'
<1> SUFFICES ASSUME TypeOK, SilentInv, [Next]_vars PROVE SilentInv'
  OBVIOUS
<1> USE DEF SilentInv, NeverSilent, Noted, TryBlock, Restoring, Publishing,
            Cleanup, Keeping, stage, kept, local, disk
<1>0. pc \notin {"idle", "down", "scan"} => cur \in DOMAIN phase
  BY DEF TypeOK
<1>1. ASSUME NEW n \in Names, NEW c \in Contents, Begin(n, c) PROVE SilentInv'
  <2>1. clock + 1 \in DOMAIN intent
    BY <1>1, RevAssumption DEF Begin, TypeOK, Txns
  <2>2. intent'[cur'].old = rec
    BY <1>1, <2>1 DEF Begin
  <2> QED BY <1>1, <2>2 DEF Begin, Then
<1>2. ASSUME NEW s \in {"completed", "failed"}, SetStatus(s) PROVE SilentInv'
  BY <1>2 DEF SetStatus
<1>3. CASE Purge
  BY <1>3 DEF Purge
<1>4. CASE IoError
  BY <1>4 DEF IoError, Handler, KeepFailed
<1>5. CASE Crash
  BY <1>5 DEF Crash
<1>6. CASE Start
  BY <1>6 DEF Start
<1>7. CASE Recover
  <2>1. CASE Recovered
    BY <2>1 DEF Recovered
  <2>2. CASE Decide
    BY <2>2, <1>0 DEF Decide, ActiveMatches, TypeOK
  <2>3. ASSUME NEW t \in Txns, TakeJournal(t) PROVE SilentInv'
    BY <2>3 DEF TakeJournal
  <2>4. ASSUME NEW t \in Txns, TakeOrphan(t) PROVE SilentInv'
    BY <2>4 DEF TakeOrphan
  <2> QED BY <1>7, <2>1, <2>2, <2>3, <2>4 DEF Recover
<1>8. CASE WriteStep
  <2>1. CASE StageNew
    BY <2>1 DEF StageNew, Then
  <2>2. CASE Prepare \/ MarkBackup \/ MarkPublished \/ MarkCommitted
    BY <2>2, <1>0 DEF Prepare, MarkBackup, MarkPublished, MarkCommitted,
                WriteJournal, Then, TypeOK
  <2>3. CASE Backup
    BY <2>3, <1>0 DEF Backup, Then, TypeOK
  <2>4. CASE Publish
    BY <2>4, <1>0 DEF Publish, Then, TypeOK
  <2>5. CASE CommitRecord
    BY <2>5, <1>0 DEF CommitRecord, Then, TypeOK
  <2>6. CASE Verify
    BY <2>6 DEF Verify, ActiveMatches
  <2> QED BY <1>8, <2>1, <2>2, <2>3, <2>4, <2>5, <2>6 DEF WriteStep
<1>9. CASE ResolveStep
  <2>1. CASE Rollback
    BY <2>1, <1>0 DEF Rollback, ActiveMatches, TypeOK
  <2>2. CASE Unlink
    BY <2>2 DEF Unlink, Then
  <2>3. CASE PutBytes
    BY <2>3 DEF PutBytes, Then
  <2>4. CASE OldRecord \/ NewRecord
    BY <2>4 DEF OldRecord, NewRecord, Then
  <2>5. CASE Clear
    BY <2>5 DEF Clear, Then
  <2>6. CASE RemoveStage
    BY <2>6 DEF RemoveStage, Then
  <2>7. CASE RemoveJournal
    BY <2>7 DEF RemoveJournal, Then, Return
  <2>8. CASE KeepEntry
    BY <2>8 DEF KeepEntry, ThenKeep, KeepFailed
  <2>9. CASE KeepJournal
    BY <2>9 DEF KeepJournal, ThenKeep, KeepFailed
  <2>10. CASE KeepStage
    BY <2>10 DEF KeepStage, ThenKeep, KeepFailed, Return
  <2> QED BY <1>9, <2>1, <2>2, <2>3, <2>4, <2>5, <2>6, <2>7, <2>8, <2>9, <2>10
          DEF ResolveStep
<1>10. CASE UNCHANGED vars
  BY <1>10 DEF vars
<1> QED
  BY <1>1, <1>2, <1>3, <1>4, <1>5, <1>6, <1>7, <1>8, <1>9, <1>10
  DEF Next, Step

\* A job whose files and manifest disagree is never silent, for any faults:
\* a journal or a quarantine entry of the recovery speaks of it.
THEOREM NeverSilentInvariant == Spec => []NeverSilent
<1>1. Init => SilentInv
  BY DEF Init, SilentInv, NeverSilent, TryBlock, Restoring, Publishing, Cleanup
<1>2. SilentInv => NeverSilent
  BY DEF SilentInv
<1> QED
  BY <1>1, <1>2, SilentStep, TypeCorrect, PTL DEF Spec

-----------------------------------------------------------------------------
(***************************************************************************)
(* Reported updates.  AckInv says that at most one transaction is open at  *)
(* a time, so that no journal older than the last reported update is left  *)
(* for a rollback or a recovery to apply.  It needs the quarantine move    *)
(* not to fail: a journal it leaves behind outlives later updates.         *)
(***************************************************************************)
Busy == pc \notin {"idle", "down", "scan"}

\* What transaction t may write is no older than what was reported.
Fresh(t) == /\ intent[t].old.rev >= ack /\ intent[t].new.rev >= ack
            /\ intent[t].new.rev <= clock /\ intent[t].old.rev <= clock

AckInv ==
  /\ AckNeverReverted
  /\ rec.rev <= clock
  /\ \A t, u \in Txns : phase[t] # "none" /\ phase[u] # "none" => t = u
  /\ \A t \in Txns : phase[t] # "none" => Fresh(t)
  /\ pc = "idle" => \A t \in Txns : phase[t] = "none"
  /\ Busy => \A t \in Txns : t # cur => phase[t] = "none"
  /\ Busy /\ pc \notin Keeping => Fresh(cur)
  /\ pc = "keepStage" => phase[cur] = "none"
  /\ pc \in {"scan", "decide"} => mode \in {"startup", "purge"}
  /\ pc \in Restoring \cup Publishing => mode # "write"
  /\ pc \in Cleanup /\ mode = "write" => rec = intent[cur].new

\* Revisions are numbers.
LEMMA RevType ==
  ASSUME TypeOK
  PROVE  /\ rec.rev \in Nat /\ ack \in Nat /\ clock \in Nat
         /\ \A t \in Txns : intent[t].old.rev \in Nat /\ intent[t].new.rev \in Nat
<1>1. rec.rev \in 0 .. MaxRev
  BY DEF TypeOK, Record
<1>2. \A t \in Txns : intent[t].old.rev \in 0 .. MaxRev
                     /\ intent[t].new.rev \in 0 .. MaxRev
  BY IntentType
<1> QED
  BY <1>1, <1>2, RevAssumption DEF TypeOK

\* No step takes back an update that was reported, if no quarantine move fails.
LEMMA AckStep ==
  ASSUME "keep" \notin Faults
  PROVE  TypeOK /\ AckInv /\ [Next]_vars => AckInv'
<1> SUFFICES ASSUME TypeOK, AckInv, [Next]_vars PROVE AckInv'
  OBVIOUS
<1> USE RevType DEF AckInv, AckNeverReverted, Fresh, Busy, TryBlock, Restoring,
            Publishing, Cleanup, Keeping, stage, kept, local, disk
<1>0. /\ Busy => cur \in Txns
      /\ phase \in [Txns -> Phases \cup {"none"}]
      /\ intent \in [Txns -> Intent]
  BY DEF TypeOK
<1>1. ASSUME NEW n \in Names, NEW c \in Contents, Begin(n, c) PROVE AckInv'
  <2>1. clock + 1 \in Txns
    BY <1>1, RevAssumption DEF Begin, TypeOK, Txns
  <2>2. intent'[cur'].old = rec /\ intent'[cur'].new.rev = clock + 1
    BY <1>0, <1>1, <2>1 DEF Begin
  <2>3. \A t \in Txns : phase'[t] = "none"
    BY <1>1 DEF Begin
  <2> QED BY <1>1, <2>2, <2>3 DEF Begin, Then
<1>2. ASSUME NEW s \in {"completed", "failed"}, SetStatus(s) PROVE AckInv'
  BY <1>2 DEF SetStatus
<1>3. CASE Purge
  BY <1>3 DEF Purge
<1>4. CASE IoError
  BY <1>4 DEF IoError, Handler, KeepFailed
<1>5. CASE Crash
  BY <1>5 DEF Crash
<1>6. CASE Start
  BY <1>6 DEF Start
<1>7. CASE Recover
  <2>1. CASE Recovered
    BY <2>1 DEF Recovered
  <2>2. CASE Decide
    BY <2>2, <1>0 DEF Decide
  <2>3. ASSUME NEW t \in Txns, TakeJournal(t) PROVE AckInv'
    BY <2>3 DEF TakeJournal
  <2>4. ASSUME NEW t \in Txns, TakeOrphan(t) PROVE AckInv'
    BY <2>4 DEF TakeOrphan
  <2> QED BY <1>7, <2>1, <2>2, <2>3, <2>4 DEF Recover
<1>8. CASE WriteStep
  <2>1. CASE StageNew
    BY <2>1 DEF StageNew, Then
  <2>2. CASE Prepare \/ MarkBackup \/ MarkPublished \/ MarkCommitted
    BY <2>2, <1>0 DEF Prepare, MarkBackup, MarkPublished, MarkCommitted,
                WriteJournal, Then
  <2>3. CASE Backup
    BY <2>3, <1>0 DEF Backup, Then
  <2>4. CASE Publish
    BY <2>4, <1>0 DEF Publish, Then
  <2>5. CASE CommitRecord
    BY <2>5, <1>0 DEF CommitRecord, Then
  <2>6. CASE Verify
    BY <2>6 DEF Verify, ActiveMatches
  <2> QED BY <1>8, <2>1, <2>2, <2>3, <2>4, <2>5, <2>6 DEF WriteStep
<1>9. CASE ResolveStep
  <2>1. CASE Rollback
    BY <2>1, <1>0 DEF Rollback
  <2>2. CASE Unlink
    BY <2>2 DEF Unlink, Then
  <2>3. CASE PutBytes
    BY <2>3 DEF PutBytes, Then
  <2>4. CASE OldRecord \/ NewRecord
    BY <2>4, <1>0 DEF OldRecord, NewRecord, Then
  <2>5. CASE Clear
    BY <2>5 DEF Clear, Then
  <2>6. CASE RemoveStage
    BY <2>6 DEF RemoveStage, Then
  <2>7. CASE RemoveJournal
    <3>1. \A t \in Txns : phase'[t] = "none"
      BY <2>7, <1>0 DEF RemoveJournal
    <3>2. ack' = intent[cur].new.rev => rec.rev >= ack'
      BY <2>7, <1>0 DEF RemoveJournal
    <3> QED BY <2>7, <1>0, <3>1, <3>2 DEF RemoveJournal, Then, Return
  <2>8. CASE KeepEntry
    BY <2>8 DEF KeepEntry, ThenKeep, KeepFailed
  <2>9. CASE KeepJournal
    BY <2>9, <1>0 DEF KeepJournal, ThenKeep, KeepFailed
  <2>10. CASE KeepStage
    BY <2>10, <1>0 DEF KeepStage, ThenKeep, KeepFailed, Return
  <2> QED BY <1>9, <2>1, <2>2, <2>3, <2>4, <2>5, <2>6, <2>7, <2>8, <2>9, <2>10
          DEF ResolveStep
<1>10. CASE UNCHANGED vars
  BY <1>10 DEF vars
<1> QED
  BY <1>1, <1>2, <1>3, <1>4, <1>5, <1>6, <1>7, <1>8, <1>9, <1>10
  DEF Next, Step

\* An update reported by write_bytes, complete or fail is never taken back by
\* a rollback or a recovery, as long as the quarantine move itself works.
THEOREM ReportedUpdatesStay ==
  ASSUME "keep" \notin Faults
  PROVE  Spec => []AckNeverReverted
<1>1. Init => AckInv
  BY DEF Init, AckInv, AckNeverReverted, Busy, Fresh, Restoring, Publishing,
         Cleanup
<1>2. AckInv => AckNeverReverted
  BY DEF AckInv
<1> QED
  BY <1>1, <1>2, AckStep, TypeCorrect, PTL DEF Spec

-----------------------------------------------------------------------------
(***************************************************************************)
(* The refinement.  Beside SilentInv and AckInv it needs to know that a    *)
(* transaction is cleaned up only where one of its two versions is in      *)
(* place.                                                                  *)
(***************************************************************************)
CleanInv == pc \in Cleanup => rec \in {intent[cur].old, intent[cur].new}

\* Cleanup starts after a check of the manifest and changes no manifest.
LEMMA CleanStep == TypeOK /\ CleanInv /\ [Next]_vars => CleanInv'
<1> SUFFICES ASSUME TypeOK, CleanInv, [Next]_vars PROVE CleanInv'
  OBVIOUS
<1> USE DEF CleanInv, TryBlock, Restoring, Publishing, Cleanup, Keeping, stage,
            kept, local, disk, Then, ThenKeep, KeepFailed, Return
<1>1. ASSUME NEW n \in Names, NEW c \in Contents, Begin(n, c) PROVE CleanInv'
  BY <1>1 DEF Begin
<1>2. ASSUME NEW s \in {"completed", "failed"}, SetStatus(s) PROVE CleanInv'
  BY <1>2 DEF SetStatus
<1>3. CASE Purge \/ IoError \/ Crash \/ Start
  BY <1>3 DEF Purge, IoError, Handler, Crash, Start
<1>4. CASE Recover
  BY <1>4 DEF Recover, Recovered, Decide, ActiveMatches, TakeJournal, TakeOrphan
<1>5. CASE WriteStep
  BY <1>5 DEF WriteStep, StageNew, Prepare, MarkBackup, MarkPublished,
              MarkCommitted, WriteJournal, Backup, Publish, CommitRecord, Verify,
              ActiveMatches
<1>6. CASE ResolveStep
  BY <1>6 DEF ResolveStep, Rollback, ActiveMatches, Unlink, PutBytes, OldRecord,
              Clear, NewRecord, RemoveStage, RemoveJournal, KeepEntry,
              KeepJournal, KeepStage
<1>7. CASE UNCHANGED vars
  BY <1>7 DEF vars
<1> QED
  BY <1>1, <1>2, <1>3, <1>4, <1>5, <1>6, <1>7 DEF Next, Step

RefInv == TypeOK /\ SilentInv /\ AckInv /\ CleanInv

\* While no evidence is in quarantine, a job without a pending journal agrees
\* with its manifest.
LEMMA Agreement ==
  ASSUME SilentInv, entries = {}, Pending = {}
  PROVE  files = rec.arts /\ JobValue = {rec} /\ JobUpdate = {}
BY DEF SilentInv, NeverSilent, Noted, Pending, JobValue, JobUpdate

\* The abstract job after a step that leaves the journals alone, and the job
\* too unless a journal is pending.
LEMMA SameJob ==
  ASSUME phase' = phase, intent' = intent, entries' = entries,
         Pending # {} \/ (rec' = rec /\ files' = files)
  PROVE  UNCHANGED Atomic!avars
<1>1. Pending' = Pending
  BY DEF Pending
<1>2. JobValue' = JobValue /\ JobUpdate' = JobUpdate
  BY <1>1 DEF JobValue, JobUpdate
<1> QED
  BY <1>2 DEF Atomic!avars

\* Once evidence is in quarantine it stays there, and nothing more is promised.
LEMMA DegradedStep ==
  ASSUME Next, entries # {}
  PROVE  Atomic!Degraded
<1>1. entries \subseteq entries'
  BY DEF Next, Step, Begin, SetStatus, Purge, IoError, Crash, Start, Recover,
         Recovered, TakeJournal, TakeOrphan, Decide, WriteStep, StageNew, Prepare,
         MarkBackup, MarkPublished, MarkCommitted, WriteJournal, Backup, Publish,
         CommitRecord, Verify, ResolveStep, Rollback, Unlink, PutBytes, OldRecord,
         Clear, NewRecord, RemoveStage, RemoveJournal, KeepEntry, KeepJournal,
         KeepStage, disk, local, stage, kept
<1> QED
  BY <1>1 DEF Atomic!Degraded

\* Every step of the journal protocol is one of the atomic update, or leaves
\* it as it is.
LEMMA RefinementStep ==
  ASSUME RefInv, [Next]_vars
  PROVE  [Atomic!Next]_(Atomic!avars)
<1> USE DEF stage, kept, local, disk
<1>0. /\ pc \notin {"idle", "down", "scan"} => cur \in Txns
      /\ phase \in [Txns -> Phases \cup {"none"}]
      /\ intent \in [Txns -> Intent]
  BY DEF RefInv, TypeOK
<1>1. CASE entries # {} /\ Next
  BY <1>1, DegradedStep DEF Atomic!Next
<1>2. CASE UNCHANGED vars
  BY <1>2, SameJob DEF vars
<1>3. CASE entries = {} /\ Next
  <2>0. SilentInv /\ entries = {}
    BY <1>3 DEF RefInv
  <2>1. ASSUME NEW n \in Names, NEW c \in Contents, Begin(n, c)
        PROVE  UNCHANGED Atomic!avars
    <3>1. Pending = {} /\ Pending' = {}
      BY <2>1 DEF Begin, Pending, RefInv, AckInv
    <3>2. JobValue' = JobValue /\ JobUpdate' = JobUpdate
      BY <3>1, <2>1 DEF Begin, JobValue, JobUpdate
    <3> QED BY <3>2, <2>1 DEF Begin, Atomic!avars
  <2>2. ASSUME NEW s \in {"completed", "failed"}, SetStatus(s)
        PROVE  Atomic!Rewrite
    <3>1. Pending = {} /\ Pending' = {}
      BY <2>2 DEF SetStatus, Pending, RefInv, AckInv
    <3>2. files = rec.arts
      BY <2>0, <3>1, Agreement
    <3>3. files' = rec'.arts
      BY <2>2, <3>2 DEF SetStatus
    <3>4. JobValue' = {rec'} /\ JobUpdate' = {} /\ JobUpdate = {}
      BY <3>1, <3>3 DEF JobValue, JobUpdate
    <3>5. TypeOK'
      BY <1>3, TypeStep DEF RefInv
    <3> QED
      BY <2>2, <2>0, <3>4, <3>5
      DEF SetStatus, Atomic!Rewrite, Atomic!Jobs, TypeOK
  <2>3. CASE Purge \/ IoError \/ Crash \/ Start
    BY <2>3, SameJob DEF Purge, IoError, Crash, Start
  <2>4. CASE Recover
    BY <2>4, SameJob DEF Recover, Recovered, TakeJournal, TakeOrphan, Decide
  <2>5. CASE StageNew \/ Verify \/ Rollback \/ RemoveStage
    BY <2>5, SameJob DEF StageNew, Verify, Rollback, RemoveStage
  <2>6. CASE Prepare
    <3>1. \A t \in Txns : t # cur => phase[t] = "none"
      BY <2>6 DEF Prepare, WriteJournal, RefInv, AckInv, Busy
    <3>2. rec = intent[cur].old
      BY <2>6 DEF Prepare, WriteJournal, RefInv, SilentInv
    <3>3. Pending' = {cur} /\ Pending \subseteq {cur}
      BY <1>0, <2>6, <3>1 DEF Prepare, WriteJournal, Pending
    <3>4. JobValue' = {intent[cur].old} /\ JobUpdate' = {intent[cur].new}
      BY <2>6, <3>3 DEF JobValue, JobUpdate, Prepare, WriteJournal
    <3>5. CASE Pending = {}
      <4>1. JobValue = {rec} /\ JobUpdate = {}
        BY <2>0, <3>5, Agreement
      <4>2. {intent[cur].new} \in {{v} : v \in Record}
        BY <1>0, <2>6, IntentType DEF RefInv, Prepare, WriteJournal
      <4> QED
        BY <2>0, <2>6, <3>2, <3>4, <4>1, <4>2
        DEF Atomic!Next, Atomic!Propose, Atomic!Jobs, Prepare, WriteJournal
    <3>6. CASE Pending = {cur}
      BY <2>6, <3>4, <3>6
      DEF JobValue, JobUpdate, Atomic!avars, Prepare, WriteJournal
    <3> QED BY <3>3, <3>5, <3>6
  <2>7. CASE MarkBackup \/ MarkPublished \/ MarkCommitted
    <3>1. phase[cur] # "none"
      BY <2>7 DEF MarkBackup, MarkPublished, MarkCommitted, WriteJournal, RefInv,
                  SilentInv, TryBlock
    <3>2. Pending' = Pending /\ Pending # {}
      BY <1>0, <2>7, <3>1 DEF MarkBackup, MarkPublished, MarkCommitted,
                              WriteJournal, Pending
    <3>3. JobValue' = JobValue /\ JobUpdate' = JobUpdate
      BY <2>7, <3>2 DEF MarkBackup, MarkPublished, MarkCommitted, WriteJournal,
                        JobValue, JobUpdate
    <3> QED
      BY <2>7, <3>3 DEF MarkBackup, MarkPublished, MarkCommitted, WriteJournal,
                        Atomic!avars
  <2>8. CASE Backup \/ Publish \/ CommitRecord
    <3>1. Pending # {}
      BY <1>0, <2>8 DEF Backup, Publish, CommitRecord, RefInv, SilentInv,
                        TryBlock, Pending
    <3> QED BY <2>8, <3>1, SameJob DEF Backup, Publish, CommitRecord
  <2>9. CASE Unlink \/ PutBytes \/ OldRecord \/ Clear \/ NewRecord
    <3>1. Noted
      BY <2>9 DEF Unlink, PutBytes, OldRecord, Clear, NewRecord, RefInv,
                  SilentInv, Restoring, Publishing
    <3>2. Pending # {}
      BY <2>0, <3>1 DEF Noted, Pending
    <3> QED BY <2>9, <3>2, SameJob
            DEF Unlink, PutBytes, OldRecord, Clear, NewRecord
  <2>10. CASE RemoveJournal
    <3>1. /\ files = rec.arts /\ rec \in {intent[cur].old, intent[cur].new}
          /\ \A t \in Txns : t # cur => phase[t] = "none"
      BY <2>10 DEF RemoveJournal, RefInv, SilentInv, CleanInv, AckInv, Busy,
                   Cleanup
    <3>2. Pending \subseteq {cur} /\ Pending' = {}
      BY <1>0, <2>10, <3>1 DEF RemoveJournal, Pending
    <3>3. JobValue' = {rec} /\ JobUpdate' = {}
      BY <2>10, <3>1, <3>2 DEF JobValue, JobUpdate, RemoveJournal
    <3>4. CASE Pending = {}
      <4>1. JobValue = {rec} /\ JobUpdate = {}
        BY <2>0, <3>4, Agreement
      <4> QED BY <2>10, <3>3, <4>1 DEF Atomic!avars, RemoveJournal
    <3>5. CASE Pending = {cur}
      <4>1. JobValue = {intent[cur].old} /\ JobUpdate = {intent[cur].new}
        BY <3>5 DEF JobValue, JobUpdate
      <4>2. CASE rec = intent[cur].new
        BY <2>0, <2>10, <3>3, <4>1, <4>2
        DEF Atomic!Next, Atomic!Accept, RemoveJournal
      <4>3. CASE rec = intent[cur].old
        BY <2>0, <2>10, <3>3, <4>1, <4>3
        DEF Atomic!Next, Atomic!Reject, RemoveJournal
      <4> QED BY <3>1, <4>2, <4>3
    <3> QED BY <3>2, <3>4, <3>5
  <2>11. CASE KeepEntry
    <3>1. Pending' = Pending
      BY <2>11 DEF KeepEntry, Pending
    <3>2. JobValue' = JobValue /\ JobUpdate' = JobUpdate
      BY <2>11, <3>1 DEF KeepEntry, JobValue, JobUpdate
    <3> QED BY <2>0, <2>11, <3>2 DEF KeepEntry, Atomic!Next, Atomic!Degrade
  <2>12. CASE KeepJournal \/ KeepStage
    BY <2>0, <2>12 DEF KeepJournal, KeepStage, RefInv, SilentInv
  <2> QED
    BY <1>3, <2>1, <2>2, <2>3, <2>4, <2>5, <2>6, <2>7, <2>8, <2>9, <2>10, <2>11,
       <2>12
    DEF Next, Step, WriteStep, ResolveStep, Atomic!Next
<1> QED BY <1>1, <1>2, <1>3

\* The journal protocol of write_bytes, its rollback and its recovery implement
\* an atomic update of manifest and file, as long as the quarantine move itself
\* works: every crash and every failed step ends in the old job or the new one,
\* or leaves evidence in the recovery quarantine.
THEOREM Refinement ==
  ASSUME "keep" \notin Faults
  PROVE  Spec => ImplementsAtomicUpdate
<1>1. Init => RefInv
  BY TypeInit
  DEF Init, RefInv, SilentInv, NeverSilent, AckInv, AckNeverReverted, CleanInv,
      Busy, Fresh, TryBlock, Restoring, Publishing, Cleanup
<1>2. Init => Atomic!Init
  <2> SUFFICES ASSUME Init PROVE Atomic!Init
    OBVIOUS
  <2>1. rec \in Record
    BY TypeInit DEF TypeOK
  <2>2. Pending = {} /\ files = rec.arts /\ entries = {}
    BY DEF Init, Pending
  <2> QED BY <2>1, <2>2 DEF Atomic!Init, Atomic!Jobs, JobValue, JobUpdate
<1>3. RefInv /\ [Next]_vars => RefInv'
  BY TypeStep, SilentStep, AckStep, CleanStep DEF RefInv
<1>4. RefInv /\ [Next]_vars => [Atomic!Next]_(Atomic!avars)
  BY RefinementStep
<1> QED
  BY <1>1, <1>2, <1>3, <1>4, PTL DEF Spec, ImplementsAtomicUpdate, Atomic!Spec

-----------------------------------------------------------------------------
(***************************************************************************)
(* Transaction numbers.  They grow with the clock, nothing on disk is      *)
(* ahead of it, and bytes are staged only in a staging directory.          *)
(***************************************************************************)
LedgerInv ==
  /\ cur <= clock
  /\ \A t \in Txns : t > clock => /\ phase[t] = "none" /\ t \notin staged
                                  /\ t \notin entries /\ t \notin evidence
  /\ \A t \in Txns : t \notin staged => new[t] = None /\ backup[t] = None
  /\ evidence \subseteq entries
  /\ pc \in TryBlock => cur \in staged
  /\ pc \in TryBlock \cup {"verify", "rollback"} => cur = clock

\* Every step keeps the numbers in order.
LEMMA LedgerStep == TypeOK /\ SilentInv /\ LedgerInv /\ [Next]_vars => LedgerInv'
<1> SUFFICES ASSUME TypeOK, SilentInv, LedgerInv, [Next]_vars PROVE LedgerInv'
  OBVIOUS
<1> USE DEF LedgerInv, TryBlock, Restoring, Publishing, Cleanup, Keeping, stage,
            kept, local, disk, Then, ThenKeep, KeepFailed, Return
<1>0. /\ pc \notin {"idle", "down", "scan"} => cur \in Txns
      /\ cur \in Nat /\ clock \in Nat /\ Txns \subseteq Nat
      /\ phase \in [Txns -> Phases \cup {"none"}]
      /\ new \in [Txns -> FileState] /\ backup \in [Txns -> FileState]
      /\ pc \in {"keepJournal", "keepStage"} => cur \in entries
  BY RevType, RevAssumption DEF TypeOK, Txns, SilentInv
<1>1. ASSUME NEW n \in Names, NEW c \in Contents, Begin(n, c) PROVE LedgerInv'
  BY <1>0, <1>1 DEF Begin
<1>2. ASSUME NEW s \in {"completed", "failed"}, SetStatus(s) PROVE LedgerInv'
  <2>1. /\ clock' = clock + 1 /\ pc' = "idle" /\ cur' = cur
        /\ UNCHANGED <<phase, staged, entries, evidence, new, backup>>
    BY <1>2 DEF SetStatus
  <2>2. \A t \in Txns : t > clock' => t > clock
    <3> SUFFICES ASSUME NEW t \in Txns, t > clock + 1 PROVE t > clock
      BY <2>1
    <3>1. t \in Nat /\ clock \in Nat
      BY <1>0
    <3> QED BY <3>1
  <2>3. cur' <= clock'
    BY <1>0, <2>1
  <2> QED BY <2>1, <2>2, <2>3
<1>3. CASE Purge \/ IoError \/ Crash \/ Start
  BY <1>0, <1>3 DEF Purge, IoError, Handler, Crash, Start
<1>4. CASE Recover
  <2>1. CASE Recovered \/ Decide
    BY <1>0, <2>1 DEF Recovered, Decide
  <2>2. ASSUME NEW t \in Txns, TakeJournal(t) \/ TakeOrphan(t) PROVE LedgerInv'
    BY <1>0, <2>2 DEF TakeJournal, TakeOrphan
  <2> QED BY <1>4, <2>1, <2>2 DEF Recover
<1>5. CASE WriteStep
  <2>1. CASE StageNew
    BY <1>0, <2>1 DEF StageNew
  <2>2. CASE Prepare \/ MarkBackup \/ MarkPublished \/ MarkCommitted
    BY <1>0, <2>2 DEF Prepare, MarkBackup, MarkPublished, MarkCommitted,
                      WriteJournal
  <2>3. CASE Backup
    BY <1>0, <2>3 DEF Backup
  <2>4. CASE Publish
    BY <1>0, <2>4 DEF Publish
  <2>5. CASE CommitRecord \/ Verify
    BY <1>0, <2>5 DEF CommitRecord, Verify
  <2> QED BY <1>5, <2>1, <2>2, <2>3, <2>4, <2>5 DEF WriteStep
<1>6. CASE ResolveStep
  <2>1. CASE Rollback \/ Unlink \/ OldRecord \/ Clear \/ NewRecord
    BY <1>0, <2>1 DEF Rollback, Unlink, OldRecord, Clear, NewRecord
  <2>2. CASE PutBytes
    BY <1>0, <2>2 DEF PutBytes
  <2>3. CASE RemoveStage
    BY <1>0, <2>3 DEF RemoveStage
  <2>4. CASE RemoveJournal
    BY <1>0, <2>4 DEF RemoveJournal
  <2>5. CASE KeepEntry
    BY <1>0, <2>5 DEF KeepEntry
  <2>6. CASE KeepJournal
    BY <1>0, <2>6 DEF KeepJournal
  <2>7. CASE KeepStage
    BY <1>0, <2>7 DEF KeepStage
  <2> QED BY <1>6, <2>1, <2>2, <2>3, <2>4, <2>5, <2>6, <2>7 DEF ResolveStep
<1>7. CASE UNCHANGED vars
  BY <1>7 DEF vars
<1> QED
  BY <1>1, <1>2, <1>3, <1>4, <1>5, <1>6, <1>7 DEF Next, Step

-----------------------------------------------------------------------------
(***************************************************************************)
(* Crashes alone.  As long as no I/O error has struck, the journal's phase *)
(* tells the recovery which of four situations it finds: the old job, the  *)
(* replaced file set aside, the new file in its place under the old        *)
(* manifest, or the new job.  Calm adds where in write_bytes and in the    *)
(* recovery each situation occurs.                                         *)
(***************************************************************************)
NameOf(t) == intent[t].name
OldOf(t) == intent[t].old.arts[NameOf(t)]
NewOf(t) == intent[t].new.arts[NameOf(t)]

\* The new manifest differs from the old one in the artifact written.
Edit(t) ==
  intent[t].new.arts = [intent[t].old.arts EXCEPT ![NameOf(t)] = NewOf(t)]

ValidOf(t) == new[t] \in {None, NewOf(t)} /\ backup[t] \in {None, OldOf(t)}

OldIn(t) == rec = intent[t].old /\ files = intent[t].old.arts
NewIn(t) == rec = intent[t].new /\ files = intent[t].new.arts
SetAside(t) ==
  /\ rec = intent[t].old /\ t \in staged /\ backup[t] = OldOf(t)
  /\ files = [intent[t].old.arts EXCEPT ![NameOf(t)] = None]
Replaced(t) ==
  /\ rec = intent[t].old /\ t \in staged /\ backup[t] = OldOf(t)
  /\ files = intent[t].new.arts

Situation(t) ==
  \/ OldIn(t) \/ NewIn(t)
  \/ SetAside(t) /\ phase[t] \in {"prepared", "backup_created"}
  \/ Replaced(t) /\ phase[t] \in {"backup_created", "artifact_published"}

\* At most one journal is open, and it describes what is on disk.
CalmDisk ==
  /\ \A t \in Txns : phase[t] # "none" => Edit(t) /\ ValidOf(t) /\ Situation(t)
  /\ \A t, u \in Txns : phase[t] # "none" /\ phase[u] # "none" => t = u
  /\ (\A t \in Txns : phase[t] = "none") => files = rec.arts
  /\ pc = "idle" => \A t \in Txns : phase[t] = "none"
  /\ Busy => \A t \in Txns : t # cur => phase[t] = "none"

\* Where write_bytes is, ...
CalmWrite ==
  /\ pc = "stageNew" => /\ phase[cur] = "none" /\ OldIn(cur) /\ cur \in staged
                        /\ new[cur] = None /\ backup[cur] = None
  /\ pc \in {"prepare", "backup"} => /\ OldIn(cur) /\ cur \in staged
                                     /\ new[cur] = NewArt /\ backup[cur] = None
  /\ pc = "prepare" => phase[cur] = "none"
  /\ pc = "backup" => phase[cur] = "prepared"
  /\ pc \in {"markBackup", "publish"} => SetAside(cur) /\ new[cur] = NewArt
  /\ pc = "markBackup" => phase[cur] = "prepared"
  /\ pc = "publish" => phase[cur] = "backup_created"
  /\ pc = "markPublished" => Replaced(cur) /\ phase[cur] = "backup_created"
  /\ pc = "commitRecord" => Replaced(cur) /\ phase[cur] = "artifact_published"
  /\ pc \in {"markCommitted", "verify"} => NewIn(cur) /\ phase[cur] # "none"
  /\ pc # "rollback"

\* ... and where the recovery is; only what has no journal is quarantined.
CalmResolve ==
  /\ pc \in Cleanup => OldIn(cur) \/ NewIn(cur)
  /\ pc = "decide" => phase[cur] # "none"
  /\ pc = "unlink" => /\ phase[cur] \in {"prepared", "backup_created"}
                      /\ \/ SetAside(cur)
                         \/ Replaced(cur) /\ phase[cur] = "backup_created"
  /\ pc = "putBack" => SetAside(cur) /\ phase[cur] \in {"prepared", "backup_created"}
  /\ pc = "oldRecord" => OldIn(cur) /\ phase[cur] # "none"
  /\ pc \in {"clear", "newRecord"} =>
       Replaced(cur) /\ phase[cur] = "artifact_published"
  /\ pc # "putNew"
  /\ pc \in Keeping => phase[cur] = "none"

Calm ==
  /\ CalmDisk /\ CalmWrite /\ CalmResolve
  /\ Busy /\ pc \notin Keeping => Edit(cur) /\ ValidOf(cur)

CalmInv == faulted = FALSE => Calm

\* Writing one entry of a function twice, or as it is.
LEMMA ExceptFacts ==
  ASSUME NEW S, NEW T, NEW f \in [S -> T], NEW n \in S, NEW a, NEW b
  PROVE  /\ [[f EXCEPT ![n] = a] EXCEPT ![n] = b] = [f EXCEPT ![n] = b]
         /\ [f EXCEPT ![n] = f[n]] = f
         /\ [f EXCEPT ![n] = a][n] = a
OBVIOUS

\* The facts about the current transaction that the steps below rest on.
LEMMA CurFacts ==
  ASSUME TypeOK, Busy
  PROVE  /\ cur \in Txns /\ Name \in Names
         /\ intent[cur].old.arts \in [Names -> FileState]
         /\ intent[cur].new.arts \in [Names -> FileState]
<1>1. cur \in Txns
  BY DEF TypeOK, Busy
<1> QED BY <1>1, IntentType DEF Record, Name

\* A step that strikes no I/O error keeps the journal true to the disk.
LEMMA CalmStep ==
  ASSUME TypeOK, LedgerInv, Calm, faulted = FALSE, Next, faulted' = FALSE
  PROVE  Calm'
<1> USE DEF Calm, CalmDisk, CalmWrite, CalmResolve, Busy, Situation, OldIn, NewIn,
            SetAside, Replaced, ValidOf, Edit, NameOf, OldOf, NewOf, Name,
            OldArt, NewArt, Keeping, Cleanup, stage, kept, local, disk, Then,
            ThenKeep, Return
<1>0. /\ Busy => cur \in Txns
      /\ phase \in [Txns -> Phases \cup {"none"}]
      /\ intent \in [Txns -> Intent]
      /\ new \in [Txns -> FileState] /\ backup \in [Txns -> FileState]
      /\ files \in [Names -> FileState]
  BY DEF TypeOK
<1>1. ASSUME NEW n \in Names, NEW c \in Contents, Begin(n, c) PROVE Calm'
  <2>1. clock + 1 \in Txns
    BY <1>1, RevAssumption DEF Begin, TypeOK, Txns
  <2>2. new[clock + 1] = None /\ backup[clock + 1] = None
    BY <2>1, RevType DEF LedgerInv
  <2>3. \A t \in Txns : phase[t] = "none"
    BY <1>1 DEF Begin
  <2>4. files = rec.arts
    BY <2>3
  <2>5. rec.arts \in [Names -> FileState]
    BY DEF TypeOK, Record
  <2>6. /\ intent'[cur'].old = rec /\ intent'[cur'].name = n
        /\ intent'[cur'].new.arts = [rec.arts EXCEPT ![n] = c]
    BY <1>0, <1>1, <2>1 DEF Begin
  <2>7. Edit(cur)'
    BY <2>5, <2>6
  <2>8. pc' = "stageNew" /\ cur' \in staged' /\ cur' = clock + 1
    BY <1>1 DEF Begin
  <2>9. /\ phase' = phase /\ new' = new /\ backup' = backup
        /\ files' = files /\ rec' = rec
    BY <1>1 DEF Begin
  <2> QED BY <1>0, <2>1, <2>2, <2>3, <2>4, <2>6, <2>7, <2>8, <2>9
<1>2. ASSUME NEW s \in {"completed", "failed"}, SetStatus(s) PROVE Calm'
  BY <1>0, <1>2 DEF SetStatus
<1>3. CASE Purge \/ IoError \/ Crash \/ Start
  BY <1>0, <1>3 DEF Purge, IoError, Crash, Start
<1>4. CASE Recover
  <2>1. CASE Recovered
    BY <1>0, <2>1 DEF Recovered
  <2>2. ASSUME NEW t \in Txns, TakeJournal(t) PROVE Calm'
    BY <1>0, <2>2 DEF TakeJournal
  <2>3. ASSUME NEW t \in Txns, TakeOrphan(t) PROVE Calm'
    BY <1>0, <2>3 DEF TakeOrphan
  <2>4. CASE Decide
    BY <1>0, <2>4 DEF Decide, ActiveMatches, ValidStage
  <2> QED BY <1>4, <2>1, <2>2, <2>3, <2>4 DEF Recover
<1>5. CASE WriteStep
  <2>1. CASE StageNew
    BY <1>0, <2>1, CurFacts DEF StageNew
  <2>2. CASE Prepare
    BY <1>0, <2>2 DEF Prepare, WriteJournal
  <2>3. CASE Backup
    BY <1>0, <2>3, CurFacts, ExceptFacts DEF Backup
  <2>4. CASE MarkBackup
    BY <1>0, <2>4 DEF MarkBackup, WriteJournal
  <2>5. CASE Publish
    <3>1. files' = [[intent[cur].old.arts EXCEPT ![Name] = None]
                      EXCEPT ![Name] = NewArt]
      BY <2>5 DEF Publish
    <3>2. files' = intent[cur].new.arts
      BY <2>5, <3>1, CurFacts, ExceptFacts DEF Publish
    <3>3. Replaced(cur)' /\ ValidOf(cur)' /\ Edit(cur)'
      BY <1>0, <2>5, <3>2, CurFacts DEF Publish
    <3>4. /\ pc = "publish" /\ pc' = "markPublished" /\ cur' = cur
          /\ phase' = phase /\ phase[cur] = "backup_created"
      BY <2>5 DEF Publish
    <3> HIDE DEF Replaced, ValidOf, Edit, OldIn, NewIn, SetAside
    <3> QED BY <1>0, <3>3, <3>4
  <2>6. CASE MarkPublished
    BY <1>0, <2>6 DEF MarkPublished, WriteJournal
  <2>7. CASE CommitRecord
    BY <1>0, <2>7 DEF CommitRecord
  <2>8. CASE MarkCommitted
    BY <1>0, <2>8 DEF MarkCommitted, WriteJournal
  <2>9. CASE Verify
    BY <1>0, <2>9 DEF Verify, ActiveMatches
  <2> QED BY <1>5, <2>1, <2>2, <2>3, <2>4, <2>5, <2>6, <2>7, <2>8, <2>9
          DEF WriteStep
<1>6. CASE ResolveStep
  <2>1. CASE Rollback \/ KeepEntry \/ KeepJournal \/ KeepStage
    BY <1>0, <2>1 DEF Rollback, KeepEntry, KeepJournal, KeepStage
  <2>2. CASE Unlink
    <3>1. CASE SetAside(cur)
      <4>1. files[Name] = None
        BY <2>2, <3>1, CurFacts, ExceptFacts DEF Unlink
      <4>2. UNCHANGED files
        BY <2>2, <4>1 DEF Unlink
      <4>3. CASE backup[cur] # None
        BY <1>0, <2>2, <3>1, <4>1, <4>2, <4>3 DEF Unlink
      <4>4. CASE backup[cur] = None
        <5>1. files = intent[cur].old.arts
          BY <2>2, <3>1, <4>4, CurFacts, ExceptFacts DEF Unlink
        <5> QED BY <1>0, <2>2, <3>1, <4>1, <4>2, <4>4, <5>1 DEF Unlink
      <4> QED BY <4>3, <4>4
    <3>2. CASE Replaced(cur) /\ phase[cur] = "backup_created"
      <4>1. files[Name] = NewArt
        BY <2>2, <3>2 DEF Unlink
      <4>2. files' = [files EXCEPT ![Name] = None] \/ (files' = files /\ NewArt = None)
        BY <2>2, <3>2, <4>1 DEF Unlink
      <4>3. files' = [intent[cur].old.arts EXCEPT ![Name] = None]
        BY <2>2, <3>2, <4>2, CurFacts, ExceptFacts DEF Unlink
      <4>4. CASE backup[cur] # None
        <5>1. SetAside(cur)' /\ ValidOf(cur)' /\ Edit(cur)'
          BY <1>0, <2>2, <3>2, <4>3 DEF Unlink
        <5>2. /\ pc = "unlink" /\ pc' = "putBack" /\ cur' = cur
              /\ phase' = phase /\ phase[cur] = "backup_created"
          BY <2>2, <3>2, <4>1, <4>4 DEF Unlink
        <5> HIDE DEF Replaced, ValidOf, Edit, OldIn, NewIn, SetAside
        <5> QED BY <1>0, <5>1, <5>2
      <4>5. CASE backup[cur] = None
        <5>1. files' = intent[cur].old.arts
          <6>1. OldArt = None
            BY <3>2, <4>5
          <6>2. Busy
            BY <2>2 DEF Unlink
          <6> QED BY <4>3, <6>1, <6>2, CurFacts, ExceptFacts
        <5> QED BY <1>0, <2>2, <3>2, <4>1, <4>5, <5>1 DEF Unlink
      <4> QED BY <4>4, <4>5
    <3> QED BY <2>2, <3>1, <3>2 DEF Unlink
  <2>3. CASE PutBytes
    <3>1. pc = "putBack" /\ SetAside(cur)
      BY <2>3 DEF PutBytes
    <3>2. files' = [[intent[cur].old.arts EXCEPT ![Name] = None]
                      EXCEPT ![Name] = OldArt]
      BY <2>3, <3>1 DEF PutBytes
    <3>3. files' = intent[cur].old.arts
      BY <3>1, <3>2, CurFacts, ExceptFacts
    <3> QED BY <1>0, <2>3, <3>1, <3>3 DEF PutBytes
  <2>4. CASE OldRecord
    BY <1>0, <2>4 DEF OldRecord
  <2>5. CASE Clear
    BY <1>0, <2>5, CurFacts, ExceptFacts DEF Clear
  <2>6. CASE NewRecord
    BY <1>0, <2>6 DEF NewRecord
  <2>7. CASE RemoveStage
    BY <1>0, <2>7 DEF RemoveStage
  <2>8. CASE RemoveJournal
    BY <1>0, <2>8 DEF RemoveJournal
  <2> QED BY <1>6, <2>1, <2>2, <2>3, <2>4, <2>5, <2>6, <2>7, <2>8
          DEF ResolveStep
<1> QED
  BY <1>1, <1>2, <1>3, <1>4, <1>5, <1>6 DEF Next, Step

\* Crashes alone, at any step of write_bytes and of the recovery itself, are
\* always resolved: a store that serves has every file as its manifest says
\* (_recover_artifact_transaction), whatever the constants.
THEOREM CrashesAreAtomic == Spec => []CrashAtomic
<1> DEFINE Inv == TypeOK /\ SilentInv /\ LedgerInv /\ CalmInv
<1>1. Init => Inv
  <2> SUFFICES ASSUME Init PROVE SilentInv /\ LedgerInv /\ CalmInv
    BY TypeInit
  <2>1. Txns \subseteq Nat
    BY DEF Txns
  <2>2. SilentInv /\ LedgerInv
    BY <2>1 DEF Init, SilentInv, NeverSilent, LedgerInv, TryBlock, Restoring,
                Publishing, Cleanup
  <2>3. CalmInv
    BY DEF Init, CalmInv, Calm, CalmDisk, CalmWrite, CalmResolve, Busy, Keeping,
           Cleanup
  <2> QED BY <2>2, <2>3
<1>2. Inv /\ [Next]_vars => Inv'
  <2> SUFFICES ASSUME Inv, [Next]_vars PROVE CalmInv'
    BY TypeStep, SilentStep, LedgerStep
  <2>1. CASE Next
    <3> SUFFICES ASSUME faulted' = FALSE PROVE Calm'
      BY DEF CalmInv
    <3>1. faulted = FALSE
      BY <2>1 DEF Next, Step, Begin, SetStatus, Purge, IoError, Crash, Start,
         Recover, Recovered, TakeJournal, TakeOrphan, Decide, WriteStep, StageNew,
         Prepare, MarkBackup, MarkPublished, MarkCommitted, WriteJournal, Backup,
         Publish, CommitRecord, Verify, ResolveStep, Rollback, Unlink, PutBytes,
         OldRecord, Clear, NewRecord, RemoveStage, RemoveJournal, KeepEntry,
         KeepJournal, KeepStage, Then, ThenKeep, disk, local
    <3> QED BY <2>1, <3>1, CalmStep DEF CalmInv
  <2>2. CASE UNCHANGED vars
    BY <2>2 DEF vars, CalmInv, Calm, CalmDisk, CalmWrite, CalmResolve, Busy,
                Situation, OldIn, NewIn, SetAside, Replaced, ValidOf, Edit,
                NameOf, OldOf, NewOf, NewArt, Name
  <2> QED BY <2>1, <2>2
<1>3. Inv => CrashAtomic
  <2> SUFFICES ASSUME Inv, ~ faulted, pc = "idle" PROVE files = rec.arts
    BY DEF CrashAtomic
  <2>1. faulted = FALSE
    BY DEF TypeOK
  <2> QED BY <2>1 DEF CalmInv, Calm, CalmDisk
<1> QED BY <1>1, <1>2, <1>3, PTL DEF Spec

-----------------------------------------------------------------------------
(***************************************************************************)
(* The old bytes.  If the quarantine move works, the only open journal is  *)
(* that of the last update.  KeptInv follows the bytes it replaces: they   *)
(* leave the job directory only for the backup, and the backup only when   *)
(* one of the two versions is in place or for the quarantine.              *)
(***************************************************************************)
Earlier == \A u \in Txns : u < clock => phase[u] = "none" /\ u \notin entries

Bytes(t) == \/ ActiveMatches(intent[t].new)
            \/ OldOf(t) \in {None, files[NameOf(t)], backup[t], evBackup[t]}

\* Where the bytes that the last update replaces are.
Kept ==
  /\ phase[clock] # "none" \/ clock \in evidence => Bytes(clock)
  /\ pc \in {"stageNew", "prepare", "backup"} =>
       files = intent[clock].old.arts /\ backup[clock] = None
  /\ pc \in {"markBackup", "publish", "markPublished", "commitRecord",
             "markCommitted", "verify"} => OldOf(clock) \in {None, backup[clock]}
  /\ pc \in {"rollback", "unlink", "clear", "newRecord"} => Bytes(clock)
  /\ pc = "putBack" => OldOf(clock) \in {None, backup[clock]}
  /\ pc = "oldRecord" => OldOf(clock) \in {None, files[NameOf(clock)]}

KeptInv ==
  /\ \A t \in Txns : phase[t] # "none" => t = clock
  /\ Busy /\ pc \notin Keeping => cur = clock
  /\ \A t \in Txns : t \in staged \/ t > clock => evBackup[t] = None
  /\ \A t \in Txns : phase[t] \in {"artifact_published", "manifest_committed"}
                       => new[t] = None
  /\ pc \in {"markPublished", "commitRecord", "markCommitted", "clear"}
       => new[cur] = None
  /\ pc \in Restoring \cup Publishing => ValidStage /\ cur \in staged
  /\ pc # "putNew"
  /\ pc = "stageNew" => phase[cur] = "none"
  /\ clock \in Txns /\ Earlier => Kept

BytesInv == TypeOK /\ SilentInv /\ AckInv /\ CleanInv /\ LedgerInv /\ KeptInv

\* No step loses the bytes that the last update replaces.
LEMMA KeptStep ==
  ASSUME "keep" \notin Faults, BytesInv, Next
  PROVE  KeptInv'
<1> USE DEF KeptInv, Kept, Earlier, Bytes, NameOf, OldOf, Name, OldArt, NewArt,
            Keeping, Cleanup, Restoring, Publishing, Busy, ActiveMatches,
            ValidStage, stage, kept, local, disk, Then, ThenKeep, Return
<1>0. /\ Busy => cur \in Txns
      /\ cur \in Nat /\ clock \in Nat /\ Txns \subseteq Nat
      /\ phase \in [Txns -> Phases \cup {"none"}]
      /\ intent \in [Txns -> Intent]
      /\ new \in [Txns -> FileState] /\ backup \in [Txns -> FileState]
      /\ evBackup \in [Txns -> FileState]
      /\ files \in [Names -> FileState]
      /\ Busy => Name \in Names
      /\ KeptInv
  BY CurFacts, RevType DEF BytesInv, TypeOK, Txns
<1>1. ASSUME NEW n \in Names, NEW c \in Contents, Begin(n, c) PROVE KeptInv'
  <2>1. /\ clock' = clock + 1 /\ cur' = clock + 1 /\ clock + 1 \in Txns
        /\ pc' \in {"stageNew", "idle"} /\ staged' = staged \cup {clock + 1}
        /\ UNCHANGED <<rec, files, phase, new, backup, entries, evidence, evBackup>>
    BY <1>1, RevAssumption DEF Begin, BytesInv, TypeOK, Txns
  <2>2. \A t \in Txns : phase[t] = "none"
    BY <1>1 DEF Begin, BytesInv, AckInv
  <2>3. /\ clock + 1 \notin staged /\ clock + 1 \notin evidence
        /\ clock + 1 \notin entries /\ backup[clock + 1] = None
        /\ evBackup[clock + 1] = None
    BY <1>0, <2>1 DEF BytesInv, LedgerInv
  <2>4. \A t \in Txns : t \in staged' \/ t > clock' => evBackup[t] = None
    BY <1>0, <2>1, <2>3
  <2>5. intent'[clock'].old = rec
    BY <1>0, <1>1, <2>1 DEF Begin
  <2>6. Earlier' => files = rec.arts
    <3> SUFFICES ASSUME Earlier' PROVE entries = {}
      BY <2>2 DEF BytesInv, SilentInv, NeverSilent, Noted
    <3>1. \A t \in Txns : t <= clock \/ t > clock
      BY <1>0
    <3>2. \A t \in Txns : t <= clock => t < clock'
      BY <1>0, <2>1
    <3>3. entries \subseteq Txns
      BY DEF BytesInv, TypeOK
    <3> QED BY <2>1, <3>1, <3>2, <3>3 DEF BytesInv, LedgerInv
  <2> QED BY <1>0, <2>1, <2>2, <2>3, <2>4, <2>5, <2>6
<1>2. ASSUME NEW s \in {"completed", "failed"}, SetStatus(s) PROVE KeptInv'
  BY <1>0, <1>2 DEF SetStatus, BytesInv, LedgerInv, AckInv
<1>3. CASE Purge \/ Crash \/ Start
  BY <1>0, <1>3 DEF Purge, Crash, Start
<1>4. CASE IoError
  BY <1>0, <1>4 DEF IoError, Handler, TryBlock
<1>5. CASE Recover
  <2>1. CASE Recovered
    BY <1>0, <2>1 DEF Recovered
  <2>2. ASSUME NEW t \in Txns, TakeJournal(t) PROVE KeptInv'
    BY <1>0, <2>2 DEF TakeJournal
  <2>3. ASSUME NEW t \in Txns, TakeOrphan(t) PROVE KeptInv'
    BY <1>0, <2>3 DEF TakeOrphan
  <2>4. CASE Decide
    BY <1>0, <2>4 DEF Decide, BytesInv, SilentInv, Phases
  <2> QED BY <1>5, <2>1, <2>2, <2>3, <2>4 DEF Recover
<1>6. CASE WriteStep
  <2>1. CASE StageNew
    BY <1>0, <2>1 DEF StageNew, BytesInv, AckInv
  <2>2. CASE Prepare
    BY <1>0, <2>2 DEF Prepare, WriteJournal
  <2>3. CASE Backup
    BY <1>0, <2>3 DEF Backup, BytesInv, LedgerInv
  <2>4. CASE MarkBackup
    BY <1>0, <2>4 DEF MarkBackup, WriteJournal
  <2>5. CASE Publish
    BY <1>0, <2>5 DEF Publish
  <2>6. CASE MarkPublished
    BY <1>0, <2>6 DEF MarkPublished, WriteJournal
  <2>7. CASE CommitRecord
    BY <1>0, <2>7 DEF CommitRecord
  <2>8. CASE MarkCommitted
    BY <1>0, <2>8 DEF MarkCommitted, WriteJournal
  <2>9. CASE Verify
    BY <1>0, <2>9 DEF Verify
  <2> QED BY <1>6, <2>1, <2>2, <2>3, <2>4, <2>5, <2>6, <2>7, <2>8, <2>9
          DEF WriteStep
<1>7. CASE ResolveStep
  <2>1. CASE Rollback
    BY <1>0, <2>1 DEF Rollback
  <2>2. CASE Unlink
    BY <1>0, <2>2 DEF Unlink
  <2>3. CASE PutBytes
    BY <1>0, <2>3 DEF PutBytes
  <2>4. CASE OldRecord
    BY <1>0, <2>4 DEF OldRecord
  <2>5. CASE Clear
    BY <1>0, <2>5 DEF Clear
  <2>6. CASE NewRecord
    BY <1>0, <2>6 DEF NewRecord
  <2>7. CASE RemoveStage
    BY <1>0, <2>7 DEF RemoveStage, BytesInv, SilentInv, CleanInv
  <2>8. CASE RemoveJournal
    BY <1>0, <2>8 DEF RemoveJournal
  <2>9. CASE KeepEntry
    BY <1>0, <2>9 DEF KeepEntry
  <2>10. CASE KeepJournal
    BY <1>0, <2>10 DEF KeepJournal, BytesInv, SilentInv, LedgerInv
  <2>11. CASE KeepStage
    BY <1>0, <2>11 DEF KeepStage, BytesInv, LedgerInv, AckInv
  <2> QED BY <1>7, <2>1, <2>2, <2>3, <2>4, <2>5, <2>6, <2>7, <2>8, <2>9, <2>10,
             <2>11
          DEF ResolveStep
<1> QED
  BY <1>1, <1>2, <1>3, <1>4, <1>5, <1>6, <1>7 DEF Next, Step

\* Until the next update, a transaction that did not end well has either left
\* the new version in place, complete, or the bytes of the old artifact are
\* still in the job directory, the staging directory or the quarantine: no
\* rollback, recovery or clean-up of write_bytes destroys the last copy, as
\* long as the quarantine move itself works.
THEOREM OldBytesAreKept ==
  ASSUME "keep" \notin Faults
  PROVE  Spec => []OldBytesSurvive
<1>1. Init => BytesInv
  <2> SUFFICES ASSUME Init
               PROVE  SilentInv /\ AckInv /\ CleanInv /\ LedgerInv /\ KeptInv
    BY TypeInit DEF BytesInv
  <2>1. Txns \subseteq Nat /\ 0 \notin Txns
    BY DEF Txns
  <2>2. SilentInv /\ AckInv /\ CleanInv
    BY DEF Init, SilentInv, NeverSilent, AckInv, AckNeverReverted, CleanInv,
           Busy, Fresh, TryBlock, Restoring, Publishing, Cleanup
  <2>3. LedgerInv /\ KeptInv
    BY <2>1 DEF Init, LedgerInv, KeptInv, Busy, TryBlock, Restoring, Publishing
  <2> QED BY <2>2, <2>3
<1>2. BytesInv /\ [Next]_vars => BytesInv'
  <2> SUFFICES ASSUME BytesInv, [Next]_vars PROVE KeptInv'
    BY TypeStep, SilentStep, AckStep, CleanStep, LedgerStep DEF BytesInv
  <2>1. CASE Next
    BY <2>1, KeptStep
  <2>2. CASE UNCHANGED vars
    BY <2>2 DEF vars, BytesInv, KeptInv, Kept, Earlier, Bytes, NameOf, OldOf,
                Busy, ActiveMatches, ValidStage, OldArt, NewArt, Name
  <2> QED BY <2>1, <2>2
<1>3. BytesInv => OldBytesSurvive
  <2> SUFFICES ASSUME BytesInv, NEW t \in Txns, clock = t,
                      phase[t] # "none" \/ t \in evidence,
                      \A u \in 1 .. t - 1 : phase[u] = "none" /\ u \notin entries
               PROVE  Bytes(t)
    BY DEF OldBytesSurvive, Bytes, OldOf, NameOf
  <2>1. \A u \in Txns : u < t => u \in 1 .. t - 1
    BY RevAssumption DEF Txns
  <2> QED BY <2>1 DEF BytesInv, KeptInv, Kept, Earlier
<1> QED BY <1>1, <1>2, <1>3, PTL DEF Spec

-----------------------------------------------------------------------------
(* The end of a job.                                                       *)

\* The operations that pass through each of the shared steps.
ModeOK ==
  /\ step = "ensure" => doing \in {"touch", "stale", "delete", "purgeJob",
                                "restore"}
  /\ step = "prepare" => doing \in {"purgeQuarantine", "quarantineDelete",
                                 "purgeJob", "quarantine"}
  /\ step = "judge" => doing = "purgeJob"

\* What the steps that come before a step have made sure of.
StepOK ==
  /\ step = "ensure" /\ doing = "delete" => tomb \in {"none", "sidecar"}
  /\ step = "sidecar" => tomb \in {"none", "sidecar"}
  /\ step = "pending" => tomb = "sidecar"
  /\ step = "publish" => tomb # "completed"
  /\ step = "unlink" => dir = "none"
  /\ step = "complete" => dir = "none" /\ ident = FALSE
  /\ step = "discard" => ext = TRUE

\* The inductive invariant.
OwnerInv == OwnerTyped /\ ModeOK /\ StepOK /\ CompletedMeansGone

\* The three action properties as formulas on one step.
MonotoneStep == tomb' # "none" => Rank[tomb'] >= Rank[tomb]
AuditStep ==
  (~ ext /\ Rank[tomb] > Rank["sidecar"]
         /\ Rank[tomb'] < Rank[tomb]) => audited
DoneStep == (reply' = "done" /\ reply # "done") => (dir' = "none" /\ ~ ident')

\* The order of the phases, spelled out for the provers.
LEMMA RankValues ==
  /\ TombStates = {"none", "sidecar", "deletion", "finalization", "completed"}
  /\ Rank["none"] = 0 /\ Rank["sidecar"] = 1 /\ Rank["deletion"] = 2
  /\ Rank["finalization"] = 3 /\ Rank["completed"] = 4
BY DEF TombStates, Rank

\* The initial states satisfy the invariant.
LEMMA OwnerBegins == OwnerInit => OwnerInv
BY RankValues DEF OwnerInit, OwnerInv, OwnerTyped, ModeOK, StepOK, CompletedMeansGone,
                  DirStates, Steps, Modes, Durable, Completing,
                  Recovering

Replies == {"none", "done", "failed", "refused"}

\* An exception ends the operation, leads to the failure record of the owner's
\* deletion or to the next tombstone; it never reports success.
LEMMA RaiseFacts ==
  ASSUME OwnerTyped, Raise
  PROVE /\ step' \in {"retain", "gc", "idle"}
        /\ reply' \in Replies /\ hit' \in BOOLEAN /\ ever' \in BOOLEAN
        /\ reply' = "done" => reply = "done"
BY DEF OwnerTyped, Raise, OnError, Replies

\* The end of the part that all removals share.
LEMMA EndedFacts ==
  ASSUME OwnerTyped, Ended
  PROVE /\ step' \in {"gc", "job", "idle"}
        /\ reply' \in Replies /\ hit' \in BOOLEAN /\ ever' \in BOOLEAN
        /\ reply' = "done" => reply = "done" \/ doing = "delete"
BY DEF OwnerTyped, Ended, Goto, answer, Replies

\* The two halves of the type invariant.
Flags == /\ ident \in BOOLEAN /\ ext \in BOOLEAN /\ audited \in BOOLEAN
         /\ hit \in BOOLEAN /\ ever \in BOOLEAN /\ stale \in BOOLEAN
Places == /\ dir \in DirStates /\ quar \in DirStates
          /\ tomb \in TombStates /\ src \in {"root", "quarantine"}
          /\ step \in Steps /\ doing \in Modes /\ reply \in Replies

\* They make up the type invariant.
LEMMA Halves == OwnerTyped <=> Flags /\ Places
BY DEF OwnerTyped, Flags, Places, Replies

\* The flags stay Boolean.
LEMMA FlagStep == ASSUME Flags, OwnerNext PROVE Flags'
<1> USE DEF Flags, Goto, GoOn, Raise, Ended, NoTombstone,
            tombstone, answer
<1>1. CASE Delete BY <1>1, Zenon DEF Delete
<1>2. CASE PurgeExpired BY <1>2, Zenon DEF PurgeExpired
<1>3. CASE QuarantineDelete BY <1>3, Zenon DEF QuarantineDelete
<1>4. CASE Restore BY <1>4, Zenon DEF Restore
<1>5. CASE Dispose BY <1>5, Zenon DEF Dispose
<1>6. CASE Touch BY <1>6, Zenon DEF Touch
<1>7. CASE StaleRead BY <1>7, Zenon DEF StaleRead
<1>8. CASE StaleUse BY <1>8, Zenon DEF StaleUse
<1>9. CASE MarkAudited BY <1>9, Zenon DEF MarkAudited
<1>10. CASE Rot BY <1>10, Zenon DEF Rot
<1>11. CASE StepFails BY <1>11, Zenon DEF StepFails
<1>12. CASE StoreCrash BY <1>12, Zenon DEF StoreCrash
<1>13. CASE StartUp BY <1>13, Zenon DEF StartUp
<1>14. CASE Ensure BY <1>14, Zenon DEF Ensure
<1>15. CASE Sidecar BY <1>15, Zenon DEF Sidecar
<1>16. CASE MarkPending BY <1>16, Zenon DEF MarkPending
<1>17. CASE Rmtree BY <1>17, Zenon DEF Rmtree
<1>18. CASE Finalization BY <1>18, Zenon DEF Finalization
<1>19. CASE UnlinkIdentity BY <1>19, Zenon DEF UnlinkIdentity
<1>20. CASE Complete BY <1>20, Zenon DEF Complete
<1>21. CASE Discard BY <1>21, Zenon DEF Discard
<1>22. CASE Retain BY <1>22, Zenon DEF Retain
<1>23. CASE Reconcile BY <1>23, Zenon DEF Reconcile
<1>24. CASE CollectTombstone BY <1>24, Zenon DEF CollectTombstone
<1>25. CASE ExpireQuarantine BY <1>25, Zenon DEF ExpireQuarantine
<1>26. CASE PurgeJob BY <1>26, Zenon DEF PurgeJob
<1>27. CASE Judge BY <1>27, Zenon DEF Judge
<1>28. CASE PrepareCleanup BY <1>28, Zenon DEF PrepareCleanup
<1>29. CASE Move BY <1>29, Zenon DEF Move
<1>30. CASE RmQuarantine BY <1>30, Zenon DEF RmQuarantine
<1>31. CASE PublishRestored BY <1>31, Zenon DEF PublishRestored
<1> QED BY <1>1, <1>2, <1>3, <1>4, <1>5, <1>6, <1>7, <1>8, <1>9, <1>10,
           <1>11, <1>12, <1>13, <1>14, <1>15, <1>16, <1>17, <1>18, <1>19,
           <1>20, <1>21, <1>22, <1>23, <1>24, <1>25, <1>26, <1>27, <1>28,
           <1>29, <1>30, <1>31
        DEF OwnerNext, OwnerStep

\* The other types, and which operation is at which step, are preserved.
LEMMA PlaceStep == ASSUME OwnerTyped, ModeOK, OwnerNext PROVE Places' /\ ModeOK'
<1> USE RankValues, RaiseFacts, EndedFacts
    DEF OwnerTyped, ModeOK, Places, DirStates, Steps, Modes, Durable,
        Completing,
        Recovering, Goto, GoOn, NoTombstone, tombstone,
        answer, Replies
<1>1. CASE Delete BY <1>1 DEF Delete
<1>2. CASE PurgeExpired BY <1>2 DEF PurgeExpired
<1>3. CASE QuarantineDelete BY <1>3 DEF QuarantineDelete
<1>4. CASE Restore BY <1>4 DEF Restore
<1>5. CASE Dispose BY <1>5 DEF Dispose
<1>6. CASE Touch BY <1>6 DEF Touch
<1>7. CASE StaleRead BY <1>7 DEF StaleRead
<1>8. CASE StaleUse BY <1>8 DEF StaleUse
<1>9. CASE MarkAudited BY <1>9 DEF MarkAudited
<1>10. CASE Rot BY <1>10 DEF Rot
<1>11. CASE StepFails BY <1>11 DEF StepFails
<1>12. CASE StoreCrash BY <1>12 DEF StoreCrash
<1>13. CASE StartUp BY <1>13 DEF StartUp
<1>14. CASE Ensure BY <1>14 DEF Ensure, AfterEnsure
<1>15. CASE Sidecar BY <1>15 DEF Sidecar
<1>16. CASE MarkPending BY <1>16 DEF MarkPending
<1>17. CASE Rmtree BY <1>17 DEF Rmtree
<1>18. CASE Finalization BY <1>18 DEF Finalization, OnError
<1>19. CASE UnlinkIdentity BY <1>19 DEF UnlinkIdentity
<1>20. CASE Complete BY <1>20 DEF Complete
<1>21. CASE Discard BY <1>21 DEF Discard
<1>22. CASE Retain BY <1>22 DEF Retain
<1>23. CASE Reconcile BY <1>23 DEF Reconcile
<1>24. CASE CollectTombstone BY <1>24 DEF CollectTombstone
<1>25. CASE ExpireQuarantine BY <1>25 DEF ExpireQuarantine
<1>26. CASE PurgeJob BY <1>26 DEF PurgeJob
<1>27. CASE Judge BY <1>27 DEF Judge
<1>28. CASE PrepareCleanup BY <1>28 DEF PrepareCleanup
<1>29. CASE Move BY <1>29 DEF Move
<1>30. CASE RmQuarantine BY <1>30 DEF RmQuarantine
<1>31. CASE PublishRestored BY <1>31 DEF PublishRestored
<1> QED BY <1>1, <1>2, <1>3, <1>4, <1>5, <1>6, <1>7, <1>8, <1>9, <1>10,
           <1>11, <1>12, <1>13, <1>14, <1>15, <1>16, <1>17, <1>18, <1>19,
           <1>20, <1>21, <1>22, <1>23, <1>24, <1>25, <1>26, <1>27, <1>28,
           <1>29, <1>30, <1>31
        DEF OwnerNext, OwnerStep

\* The rest of the invariant is preserved, and the step is one that the
\* action properties allow.
LEMMA StepGood ==
  ASSUME OwnerInv, OwnerNext
  PROVE StepOK' /\ CompletedMeansGone' /\ MonotoneStep /\ AuditStep /\ DoneStep
<1> USE RankValues, RaiseFacts, EndedFacts
    DEF OwnerInv, OwnerTyped, ModeOK, StepOK, CompletedMeansGone, MonotoneStep,
        AuditStep,
        DoneStep, Durable, Completing, Goto, GoOn, NoTombstone,
        tombstone, answer
<1>1. CASE Delete BY <1>1 DEF Delete
<1>2. CASE PurgeExpired BY <1>2 DEF PurgeExpired
<1>3. CASE QuarantineDelete BY <1>3 DEF QuarantineDelete
<1>4. CASE Restore BY <1>4 DEF Restore
<1>5. CASE Dispose BY <1>5 DEF Dispose
<1>6. CASE Touch BY <1>6 DEF Touch
<1>7. CASE StaleRead BY <1>7 DEF StaleRead
<1>8. CASE StaleUse BY <1>8 DEF StaleUse
<1>9. CASE MarkAudited BY <1>9 DEF MarkAudited
<1>10. CASE Rot BY <1>10 DEF Rot
<1>11. CASE StepFails BY <1>11 DEF StepFails
<1>12. CASE StoreCrash BY <1>12 DEF StoreCrash
<1>13. CASE StartUp BY <1>13 DEF StartUp
<1>14. CASE Ensure BY <1>14 DEF Ensure, AfterEnsure
<1>15. CASE Sidecar BY <1>15 DEF Sidecar
<1>16. CASE MarkPending BY <1>16 DEF MarkPending
<1>17. CASE Rmtree BY <1>17 DEF Rmtree
<1>18. CASE Finalization BY <1>18 DEF Finalization, OnError
<1>19. CASE UnlinkIdentity BY <1>19 DEF UnlinkIdentity
<1>20. CASE Complete BY <1>20 DEF Complete
<1>21. CASE Discard BY <1>21 DEF Discard
<1>22. CASE Retain BY <1>22 DEF Retain
<1>23. CASE Reconcile BY <1>23 DEF Reconcile
<1>24. CASE CollectTombstone BY <1>24 DEF CollectTombstone
<1>25. CASE ExpireQuarantine BY <1>25 DEF ExpireQuarantine
<1>26. CASE PurgeJob BY <1>26 DEF PurgeJob
<1>27. CASE Judge BY <1>27 DEF Judge
<1>28. CASE PrepareCleanup BY <1>28 DEF PrepareCleanup
<1>29. CASE Move BY <1>29 DEF Move
<1>30. CASE RmQuarantine BY <1>30 DEF RmQuarantine
<1>31. CASE PublishRestored BY <1>31 DEF PublishRestored
<1> QED BY <1>1, <1>2, <1>3, <1>4, <1>5, <1>6, <1>7, <1>8, <1>9, <1>10,
           <1>11, <1>12, <1>13, <1>14, <1>15, <1>16, <1>17, <1>18, <1>19,
           <1>20, <1>21, <1>22, <1>23, <1>24, <1>25, <1>26, <1>27, <1>28,
           <1>29, <1>30, <1>31
        DEF OwnerNext, OwnerStep

\* The invariant is inductive.
LEMMA OwnerInductive == OwnerInv /\ [OwnerNext]_ownerVars => OwnerInv'
<1> SUFFICES ASSUME OwnerInv, [OwnerNext]_ownerVars PROVE OwnerInv'
  OBVIOUS
<1>1. CASE OwnerNext
  <2>1. OwnerTyped'
    BY <1>1, FlagStep, PlaceStep, Halves DEF OwnerInv, OwnerTyped, Flags, Places, Replies
  <2> QED BY <1>1, <2>1, PlaceStep, StepGood DEF OwnerInv
<1>2. CASE UNCHANGED ownerVars
  BY <1>2 DEF OwnerInv, ownerVars, OwnerTyped, ModeOK, StepOK, CompletedMeansGone
<1> QED BY <1>1, <1>2

\* It holds in every reachable state.
LEMMA OwnerInvariant == OwnerSpec => []OwnerInv
<1>1. OwnerInit => OwnerInv
  BY OwnerBegins
<1>2. OwnerInv /\ [OwnerNext]_ownerVars => OwnerInv'
  BY OwnerInductive
<1> QED BY <1>1, <1>2, PTL DEF OwnerSpec

\* Type correctness of the deletion protocol.
THEOREM TypesHold == OwnerSpec => []OwnerTyped
<1>1. OwnerInv => OwnerTyped
  BY DEF OwnerInv
<1> QED BY <1>1, OwnerInvariant, PTL

\* Neither a restoration nor any other request puts the job or its owner
\* identity back beside a completed tombstone (_ensure_owner_identity).
THEOREM CompletedStaysTrue == OwnerSpec => []CompletedMeansGone
<1>1. OwnerInv => CompletedMeansGone
  BY DEF OwnerInv
<1> QED BY <1>1, OwnerInvariant, PTL

\* A tombstone never returns to an earlier phase, through failures, retries,
\* purges and restarts (_record_owner_deletion_tombstone_outcome).
THEOREM PhasesAreMonotone == OwnerSpec => PhaseMonotone
<1>1. OwnerInv /\ [OwnerNext]_ownerVars => [MonotoneStep]_ownerVars
  BY StepGood
<1> QED BY <1>1, OwnerInvariant, PTL DEF OwnerSpec, PhaseMonotone, MonotoneStep

\* The tombstone of an owner's deletion is not dropped before its audit is
\* acknowledged (_collect_completed_owner_deletion_tombstones_unlocked).
THEOREM AuditIsKept == OwnerSpec => AuditKept
<1>1. OwnerInv /\ [OwnerNext]_ownerVars => [AuditStep]_ownerVars
  BY StepGood
<1> QED BY <1>1, OwnerInvariant, PTL DEF OwnerSpec, AuditKept, AuditStep

\* The owner is told of success only when job and identity are out of the
\* store (delete_for_owner_outcome).
THEOREM SuccessIsTrue == OwnerSpec => DoneMeansRemoved
<1>1. OwnerInv /\ [OwnerNext]_ownerVars => [DoneStep]_ownerVars
  BY StepGood
<1> QED BY <1>1, OwnerInvariant, PTL DEF OwnerSpec, DoneMeansRemoved, DoneStep
-----------------------------------------------------------------------------
\* The steps of an operation at which nothing is half removed: between two
\* operations, or before the first write of the next one.
Resting == {"idle", "ensure", "expire", "gc", "job", "judge", "prepare",
            "sidecar", "publish"}
OfQuarantine == {"purgeQuarantine", "quarantineDelete"}

\* A job is in the root or in the quarantine, never in both.
Apart ==
  /\ quar = "none" \/ dir = "none"
  /\ step = "rmQuarantine" => dir = "none"
  /\ step = "prepare" /\ doing \in OfQuarantine => dir = "none"
  /\ step = "publish" => quar # "none"
  /\ step = "ensure" /\ doing = "restore" => quar # "none"

\* Only a tombstone has an external intent.
IntentKept == tomb = "none" => ext = FALSE

\* While no I/O error has struck: recovery has consumed every external intent
\* and every deletion whose directory is gone, and the owner's own deletion
\* never runs on an external intent, so it has no failure to record.
Tidy ==
  /\ step # "retain"
  /\ step \in Resting => ext = FALSE /\ (dir = "none" => tomb \in {"none", "completed"})
  /\ step = "finalization" => dir = "none"
  /\ step \in {"reconcile", "move", "rmQuarantine"} => doing # "delete"
  /\ doing = "delete" /\ step \in Completing \cup {"pending"}
       => ext = FALSE /\ tomb # "none"

TidyInv == Apart /\ IntentKept /\ (ever = FALSE => Tidy)

\* An I/O error is remembered for good.
LEMMA EverFacts ==
  /\ Raise => ever' = TRUE
  /\ Ended => ever' = ever
BY DEF Raise, Ended, Goto, answer

\* Every step keeps a job out of the quarantine it is restored from, and a
\* store without I/O errors tidy.
LEMMA TidyStep == ASSUME OwnerInv, TidyInv, OwnerNext PROVE TidyInv'
<1> USE RankValues, RaiseFacts, EndedFacts, EverFacts
    DEF OwnerInv, OwnerTyped, ModeOK, StepOK, CompletedMeansGone, TidyInv, Apart,
        IntentKept, Tidy,
        Resting, OfQuarantine, Completing, Goto, GoOn, NoTombstone,
        tombstone,
        answer
<1>1. CASE Delete BY <1>1 DEF Delete, Readable
<1>2. CASE PurgeExpired BY <1>2 DEF PurgeExpired
<1>3. CASE QuarantineDelete BY <1>3 DEF QuarantineDelete, Readable
<1>4. CASE Restore BY <1>4 DEF Restore
<1>5. CASE Dispose BY <1>5 DEF Dispose
<1>6. CASE Touch BY <1>6 DEF Touch
<1>7. CASE StaleRead BY <1>7 DEF StaleRead
<1>8. CASE StaleUse BY <1>8 DEF StaleUse
<1>9. CASE MarkAudited BY <1>9 DEF MarkAudited
<1>10. CASE Rot BY <1>10 DEF Rot
<1>11. CASE StepFails BY <1>11 DEF StepFails, Durable
<1>12. CASE StoreCrash BY <1>12 DEF StoreCrash
<1>13. CASE StartUp BY <1>13 DEF StartUp
<1>14. CASE Ensure BY <1>14 DEF Ensure, AfterEnsure, SourceExists
<1>15. CASE Sidecar BY <1>15 DEF Sidecar
<1>16. CASE MarkPending BY <1>16 DEF MarkPending
<1>17. CASE Rmtree BY <1>17 DEF Rmtree
<1>18. CASE Finalization BY <1>18 DEF Finalization, OnError, Ended
<1>19. CASE UnlinkIdentity BY <1>19 DEF UnlinkIdentity
<1>20. CASE Complete BY <1>20 DEF Complete, Ended
<1>21. CASE Discard BY <1>21 DEF Discard, Ended
<1>22. CASE Retain BY <1>22 DEF Retain
<1>23. CASE Reconcile BY <1>23 DEF Reconcile, SourceExists
<1>24. CASE CollectTombstone BY <1>24 DEF CollectTombstone
<1>25. CASE ExpireQuarantine BY <1>25 DEF ExpireQuarantine, Readable
<1>26. CASE PurgeJob BY <1>26 DEF PurgeJob
<1>27. CASE Judge BY <1>27 DEF Judge
<1>28. CASE PrepareCleanup BY <1>28 DEF PrepareCleanup
<1>29. CASE Move BY <1>29 DEF Move
<1>30. CASE RmQuarantine BY <1>30 DEF RmQuarantine
<1>31. CASE PublishRestored BY <1>31 DEF PublishRestored
<1> QED BY <1>1, <1>2, <1>3, <1>4, <1>5, <1>6, <1>7, <1>8, <1>9, <1>10,
           <1>11, <1>12, <1>13, <1>14, <1>15, <1>16, <1>17, <1>18, <1>19,
           <1>20, <1>21, <1>22, <1>23, <1>24, <1>25, <1>26, <1>27, <1>28,
           <1>29, <1>30, <1>31
        DEF OwnerNext, OwnerStep

\* Crashes alone.  The identity outlives its job only beside a tombstone that
\* recovery will follow; an intact job is never taken for a corrupt one, so no
\* restoration can put it back.
Owned ==
  /\ ever = FALSE /\ stale = FALSE
  /\ quar # "valid" /\ step # "publish" /\ doing # "restore"
  /\ step = "move" => dir # "valid"
  /\ step = "prepare" /\ doing = "quarantine" => dir # "valid"
  /\ step = "ensure" => dir # "none"
  /\ dir = "none" /\ ident = TRUE => tomb # "none"
  /\ dir = "none" /\ step \in Resting => ident = FALSE
  /\ step = "discard" => ident = FALSE
  /\ step \in {"rmtree", "unlink", "complete"} => tomb # "none"
  /\ step = "move" /\ ident = TRUE => tomb # "none"
  /\ src = "quarantine" => tomb # "none" /\ ident = FALSE

\* A step without an I/O error and without a stale request keeps it so.
LEMMA OwnedStep ==
  ASSUME OwnerInv, TidyInv, Owned, OwnerNext, ever' = FALSE, stale' = FALSE
  PROVE Owned'
<1> USE RankValues, RaiseFacts, EndedFacts, EverFacts
    DEF OwnerInv, OwnerTyped, ModeOK, StepOK, CompletedMeansGone, TidyInv, Apart,
        IntentKept, Tidy, Owned, Resting, OfQuarantine, Completing, Goto,
        GoOn,
        NoTombstone, tombstone, answer
<1>1. CASE Delete BY <1>1 DEF Delete, Readable
<1>2. CASE PurgeExpired BY <1>2 DEF PurgeExpired
<1>3. CASE QuarantineDelete BY <1>3 DEF QuarantineDelete, Readable
<1>4. CASE Restore BY <1>4 DEF Restore
<1>5. CASE Dispose BY <1>5 DEF Dispose
<1>6. CASE Touch BY <1>6 DEF Touch, Readable
<1>7. CASE StaleRead BY <1>7 DEF StaleRead
<1>8. CASE StaleUse BY <1>8 DEF StaleUse
<1>9. CASE MarkAudited BY <1>9 DEF MarkAudited
<1>10. CASE Rot BY <1>10 DEF Rot
<1>11. CASE StepFails BY <1>11 DEF StepFails, Durable
<1>12. CASE StoreCrash BY <1>12 DEF StoreCrash
<1>13. CASE StartUp BY <1>13 DEF StartUp
<1>14. CASE Ensure BY <1>14 DEF Ensure, AfterEnsure, SourceExists
<1>15. CASE Sidecar BY <1>15 DEF Sidecar
<1>16. CASE MarkPending BY <1>16 DEF MarkPending
<1>17. CASE Rmtree BY <1>17 DEF Rmtree
<1>18. CASE Finalization BY <1>18 DEF Finalization, OnError, Ended
<1>19. CASE UnlinkIdentity BY <1>19 DEF UnlinkIdentity
<1>20. CASE Complete BY <1>20 DEF Complete, Ended
<1>21. CASE Discard BY <1>21 DEF Discard, Ended
<1>22. CASE Retain BY <1>22 DEF Retain
<1>23. CASE Reconcile BY <1>23 DEF Reconcile, SourceExists
<1>24. CASE CollectTombstone BY <1>24 DEF CollectTombstone
<1>25. CASE ExpireQuarantine BY <1>25 DEF ExpireQuarantine, Readable
<1>26. CASE PurgeJob BY <1>26 DEF PurgeJob, Readable
<1>27. CASE Judge BY <1>27 DEF Judge
<1>28. CASE PrepareCleanup BY <1>28 DEF PrepareCleanup
<1>29. CASE Move BY <1>29 DEF Move
<1>30. CASE RmQuarantine BY <1>30 DEF RmQuarantine
<1>31. CASE PublishRestored BY <1>31 DEF PublishRestored
<1> QED BY <1>1, <1>2, <1>3, <1>4, <1>5, <1>6, <1>7, <1>8, <1>9, <1>10,
           <1>11, <1>12, <1>13, <1>14, <1>15, <1>16, <1>17, <1>18, <1>19,
           <1>20, <1>21, <1>22, <1>23, <1>24, <1>25, <1>26, <1>27, <1>28,
           <1>29, <1>30, <1>31
        DEF OwnerNext, OwnerStep

\* In the instance without I/O errors a step is one of the general
\* specification that raises none.
LEMMA CrashesStep ==
  ASSUME Crashes!OwnerNext, ever = FALSE, stale = FALSE
  PROVE OwnerNext /\ ever' = FALSE /\ stale' = FALSE
<1> USE DEF Crashes!Goto, Goto, Crashes!GoOn, GoOn, Crashes!Raise,
            Crashes!Ended, Ended, Crashes!NoTombstone, NoTombstone,
            Crashes!tombstone, tombstone, Crashes!answer, answer,
            Crashes!OnError, OnError, Crashes!Recovering, Recovering,
            Crashes!Completing, Completing, Crashes!Readable, Readable,
            Crashes!SourceExists, SourceExists, OwnerNext, OwnerStep
<1>1. CASE Crashes!Delete BY <1>1 DEF Crashes!Delete, Delete
<1>2. CASE Crashes!PurgeExpired BY <1>2 DEF Crashes!PurgeExpired, PurgeExpired
<1>3. CASE Crashes!QuarantineDelete BY <1>3 DEF Crashes!QuarantineDelete,
                                                      QuarantineDelete
<1>4. CASE Crashes!Restore BY <1>4 DEF Crashes!Restore, Restore
<1>5. CASE Crashes!Dispose BY <1>5 DEF Crashes!Dispose, Dispose
<1>6. CASE Crashes!Touch BY <1>6 DEF Crashes!Touch, Touch
<1>7. CASE Crashes!StaleRead BY <1>7 DEF Crashes!StaleRead, StaleRead
<1>8. CASE Crashes!StaleUse BY <1>8 DEF Crashes!StaleUse, StaleUse
<1>9. CASE Crashes!MarkAudited BY <1>9 DEF Crashes!MarkAudited, MarkAudited
<1>10. CASE Crashes!Rot BY <1>10 DEF Crashes!Rot, Rot
<1>11. CASE Crashes!StepFails BY <1>11 DEF Crashes!StepFails, StepFails,
                                               Crashes!Durable
<1>12. CASE Crashes!StoreCrash BY <1>12 DEF Crashes!StoreCrash, StoreCrash
<1>13. CASE Crashes!StartUp BY <1>13 DEF Crashes!StartUp, StartUp
<1>14. CASE Crashes!Ensure BY <1>14 DEF Crashes!Ensure, Ensure,
       Crashes!AfterEnsure, AfterEnsure
<1>15. CASE Crashes!Sidecar BY <1>15 DEF Crashes!Sidecar, Sidecar
<1>16. CASE Crashes!MarkPending BY <1>16 DEF Crashes!MarkPending, MarkPending
<1>17. CASE Crashes!Rmtree BY <1>17 DEF Crashes!Rmtree, Rmtree
<1>18. CASE Crashes!Finalization BY <1>18 DEF Crashes!Finalization,
                                                    Finalization
<1>19. CASE Crashes!UnlinkIdentity BY <1>19 DEF Crashes!UnlinkIdentity, UnlinkIdentity
<1>20. CASE Crashes!Complete BY <1>20 DEF Crashes!Complete, Complete
<1>21. CASE Crashes!Discard BY <1>21 DEF Crashes!Discard, Discard
<1>22. CASE Crashes!Retain BY <1>22 DEF Crashes!Retain, Retain,
       Crashes!Rank, Rank
<1>23. CASE Crashes!Reconcile BY <1>23 DEF Crashes!Reconcile, Reconcile
<1>24. CASE Crashes!CollectTombstone BY <1>24 DEF Crashes!CollectTombstone,
                                                        CollectTombstone
<1>25. CASE Crashes!ExpireQuarantine BY <1>25 DEF Crashes!ExpireQuarantine,
                                                        ExpireQuarantine
<1>26. CASE Crashes!PurgeJob BY <1>26 DEF Crashes!PurgeJob, PurgeJob
<1>27. CASE Crashes!Judge BY <1>27 DEF Crashes!Judge, Judge
<1>28. CASE Crashes!PrepareCleanup BY <1>28 DEF Crashes!PrepareCleanup, PrepareCleanup
<1>29. CASE Crashes!Move BY <1>29 DEF Crashes!Move, Move
<1>30. CASE Crashes!RmQuarantine BY <1>30 DEF Crashes!RmQuarantine,
                                                    RmQuarantine
<1>31. CASE Crashes!PublishRestored BY <1>31 DEF Crashes!PublishRestored, PublishRestored
<1> QED BY <1>1, <1>2, <1>3, <1>4, <1>5, <1>6, <1>7, <1>8, <1>9, <1>10,
           <1>11, <1>12, <1>13, <1>14, <1>15, <1>16, <1>17, <1>18, <1>19,
           <1>20, <1>21, <1>22, <1>23, <1>24, <1>25, <1>26, <1>27, <1>28,
           <1>29, <1>30, <1>31
        DEF Crashes!OwnerNext, Crashes!OwnerStep

-----------------------------------------------------------------------------
\* The invariant of a store without I/O errors, beside the general one.
LEMMA TidyInvariant == OwnerSpec => [](OwnerInv /\ TidyInv)
<1>1. OwnerInit => OwnerInv /\ TidyInv
  <2>1. OwnerInit => TidyInv
    BY DEF OwnerInit, TidyInv, Apart, IntentKept, Tidy, Resting, OfQuarantine,
           Completing
  <2> QED BY <2>1, OwnerBegins
<1>2. (OwnerInv /\ TidyInv) /\ [OwnerNext]_ownerVars => (OwnerInv /\ TidyInv)'
  <2> SUFFICES ASSUME OwnerInv, TidyInv, [OwnerNext]_ownerVars PROVE TidyInv'
    BY OwnerInductive
  <2>1. CASE OwnerNext
    BY <2>1, TidyStep
  <2>2. CASE UNCHANGED ownerVars
    BY <2>2 DEF ownerVars, TidyInv, Apart, IntentKept, Tidy, Resting, OfQuarantine,
                Completing
  <2> QED BY <2>1, <2>2
<1> QED BY <1>1, <1>2, PTL DEF OwnerSpec

\* Crashes at any point of any operation leave no deletion half done: when the
\* store serves again, the start-up recovery
\* (_reconcile_owner_deletions_unlocked) has completed the tombstone of every
\* removed job or discarded it.
THEOREM CrashesAreResolved == OwnerSpec => []CrashResolved
<1>1. OwnerInv /\ TidyInv => CrashResolved
  <2> SUFFICES ASSUME OwnerInv, TidyInv, step = "idle", ~ ever, dir = "none"
               PROVE tomb \in {"none", "completed"}
    BY DEF CrashResolved
  <2>1. ever = FALSE
    BY DEF OwnerInv, OwnerTyped
  <2> QED BY <2>1 DEF TidyInv, Tidy, Resting
<1> QED BY <1>1, TidyInvariant, PTL

\* The invariant of the instance where crashes are all that goes wrong.
CrashInv == part = "crashes" => OwnerInv /\ TidyInv /\ Owned

\* Crashes at any step of a deletion, purge, quarantine or restoration leave no
\* owner identity without a job, a tombstone or a quarantined payload that
\* leads to its removal (_prepare_owner_identity_cleanup_tombstone writes the
\* intent before the last source goes, recovery follows it).
THEOREM CrashesLeaveNoOrphan == MCSpec => []CrashLeavesNoOrphan
<1>1. MCInit => CrashInv
  <2>1. OwnerInit => TidyInv /\ Owned
    BY DEF OwnerInit, TidyInv, Apart, IntentKept, Tidy, Owned, Resting, OfQuarantine,
           Completing
  <2> QED BY <2>1, OwnerBegins DEF MCInit, CrashInv
<1>2. CrashInv /\ [MCNext]_<<ownerVars, part>> => CrashInv'
  <2> SUFFICES ASSUME CrashInv, [MCNext]_<<ownerVars, part>>, part' = "crashes"
               PROVE (OwnerInv /\ TidyInv /\ Owned)'
    BY DEF CrashInv
  <2>1. part = "crashes" /\ OwnerInv /\ TidyInv /\ Owned
    BY DEF CrashInv, MCNext
  <2>2. CASE Crashes!OwnerNext
    <3>1. OwnerNext /\ ever' = FALSE /\ stale' = FALSE
      BY <2>1, <2>2, CrashesStep DEF Owned
    <3>2. OwnerInv'
      BY <2>1, <3>1, OwnerInductive
    <3> QED BY <2>1, <3>1, <3>2, TidyStep, OwnedStep
  <2>3. CASE UNCHANGED ownerVars
    <3>1. OwnerInv'
      BY <2>1, <2>3, OwnerInductive
    <3>2. TidyInv'
      BY <2>1, <2>3 DEF ownerVars, TidyInv, Apart, IntentKept, Tidy, Resting,
                        OfQuarantine, Completing
    <3>3. Owned'
      BY <2>1, <2>3 DEF ownerVars, Owned, Resting
    <3> QED BY <3>1, <3>2, <3>3
  <2> QED BY <2>1, <2>2, <2>3 DEF MCNext
<1>3. CrashInv => CrashLeavesNoOrphan
  <2> SUFFICES ASSUME CrashInv, part = "crashes", ident, dir = "none"
               PROVE tomb # "none"
    BY DEF CrashLeavesNoOrphan, NoOrphanIdentity
  <2>1. ident = TRUE
    BY DEF CrashInv, OwnerInv, OwnerTyped
  <2> QED BY <2>1 DEF CrashInv, Owned
<1> QED BY <1>1, <1>2, <1>3, PTL DEF MCSpec

-----------------------------------------------------------------------------
(* The locks.                                                              *)

\* The states in which a request is inside the maintenance lock.
Inside == {"ownerLock", "ownerFile", "validate", "jobFile", "work", "nextJob"}

\* Every request inside holds the maintenance file lock, so it is alone.
Exclusive == \A r \in Requests : at[r] \in Inside => flock[Maint] = r

\* The lease of a stream is the job's file lock, and it protects the job from
\* the moment the reader has it.
Lease ==
  \A r \in Requests :
    /\ at[r] \in Streaming => Leased(r)
    /\ at[r] = "leave" /\ Leased(r) => place[job[r]] \notin {"partial", "gone"}

\* A job is removed by a request that has the job's lock.
Removal ==
  \A r \in Requests :
    /\ at[r] = "jobFile" => op[r] \in {"read", "delete", "purge"}
    /\ at[r] # "idle" => op[r] \in Ops
    /\ at[r] = "nextJob" => op[r] = "purge"
    /\ at[r] = "work" /\ op[r] \in {"read", "delete"} => flock[job[r]] = r
    /\ at[r] = "validate" => flock[job[r]] # r
    /\ at[r] = "work" /\ op[r] = "write" => place[job[r]] \notin {"partial", "gone"}
    /\ at[r] = "jobFile" /\ op[r] # "delete" => place[job[r]] = "present"
    /\ at[r] \in {"ownerLock", "ownerFile", "validate", "jobFile", "maintLock",
                  "maintFile", "idle"}
         => \A j \in Jobs : flock[j] # r

LockInv ==
  /\ LocksTyped /\ Exclusive /\ Lease /\ Removal
  /\ StreamSafe /\ CheckStillTrue

\* The lock keys are distinct: a job's lock is neither the maintenance lock
\* nor the lock of an owner.
KeysApart ==
  /\ Maint \in Keys /\ Maint \notin Jobs /\ Maint \notin Owners
  /\ Jobs \subseteq Keys /\ Owners \subseteq Keys
  /\ \A j \in Jobs : j \notin Owners /\ OwnerOf[j] \in Owners
  /\ \A r \in Requests : ProcOf[r] \in Procs
  /\ Nobody \notin Requests
  /\ PoolSize \in Nat \ {0} /\ Chunks \in Nat

\* That is so under what the constants are assumed to be.
LEMMA KeyFacts == KeysApart
  BY LockAssumption DEF KeysApart, Keys, Maint

\* The initial state satisfies the invariant.
LEMMA LocksBegin == LockInit => LockInv
  BY KeyFacts
     DEF KeysApart, LockInit, LockInv, LocksTyped, Exclusive, Lease, Removal,
         StreamSafe, CheckStillTrue, Inside, Streaming, LockPCs,
         Acquiring, Working, Ops, PlaceStates, Leased

\* Types are preserved by every step.
LEMMA LockType ==
  ASSUME LocksTyped, [LockNext]_lockVars
  PROVE  LocksTyped'
<1> USE KeyFacts
    DEF KeysApart, LocksTyped, LockPCs, Acquiring, Working,
        Streaming, Ops, PlaceStates, GoesTo, locks,
        Key, Drop, Finish
<1>1. ASSUME NEW r \in Requests, NEW o \in Ops, NEW j \in Jobs, Call(r, o, j)
      PROVE LocksTyped'
  BY <1>1 DEF Call
<1>2. ASSUME NEW r \in Requests, TakeProcessLock(r) PROVE LocksTyped'
  BY <1>2 DEF TakeProcessLock
<1>3. ASSUME NEW r \in Requests, TakeFileLock(r) PROVE LocksTyped'
  BY <1>3 DEF TakeFileLock
<1>4. ASSUME NEW r \in Requests, LockTimeout(r) PROVE LocksTyped'
  BY <1>4 DEF LockTimeout
<1>5. ASSUME NEW r \in Requests, Validate(r) PROVE LocksTyped'
  BY <1>5 DEF Validate
<1>6. ASSUME NEW r \in Requests, Work(r) PROVE LocksTyped'
<2>1. at' \in [Requests -> LockPCs]
  BY <1>6 DEF Work
<2>2. left' \in [Requests -> 0 .. Chunks]
  BY <1>6 DEF Work
<2>3. place' \in [Jobs -> PlaceStates]
  BY <1>6 DEF Work
<2> QED
  BY <1>6, <2>1, <2>2, <2>3 DEF Work
<1>7. ASSUME NEW r \in Requests, NextJob(r) PROVE LocksTyped'
<2>1. plock' \in [Procs -> [Keys -> Requests \cup {Nobody}]]
  BY <1>7 DEF NextJob
<2>2. flock' \in [Keys -> Requests \cup {Nobody}]
  BY <1>7 DEF NextJob
<2>3. CASE todo[r] = {}
  BY <1>7, <2>1, <2>2, <2>3 DEF NextJob
<2>4. CASE todo[r] # {}
  <3>1. PICK j \in todo[r] : /\ job' = [job EXCEPT ![r] = j]
                             /\ todo' = [todo EXCEPT ![r] = @ \ {j}]
                             /\ GoesTo(r, "ownerLock")
    BY <1>7, <2>4 DEF NextJob
  <3> QED
    BY <1>7, <2>1, <2>2, <3>1 DEF NextJob
<2> QED
  BY <2>3, <2>4
<1>8. ASSUME NEW r \in Requests, Leave(r) PROVE LocksTyped'
<2>1. plock' \in [Procs -> [Keys -> Requests \cup {Nobody}]]
  BY <1>8 DEF Leave
<2>2. flock' \in [Keys -> Requests \cup {Nobody}]
  BY <1>8 DEF Leave
<2>3. CASE Leased(r)
  BY <1>8, <2>1, <2>2, <2>3 DEF Leave
<2>4. CASE ~Leased(r)
  <3>1. Finish({r}) /\ UNCHANGED place
    BY <1>8, <2>4 DEF Leave
  <3>2. at' \in [Requests -> LockPCs] /\ op' \in [Requests -> Ops \cup {"none"}]
    BY <3>1
  <3>3. todo' \in [Requests -> SUBSET Jobs] /\ left' \in [Requests -> 0 .. Chunks]
    BY <3>1
  <3> QED
    BY <2>1, <2>2, <3>1, <3>2, <3>3
<2> QED
  BY <2>3, <2>4
<1>9. ASSUME NEW r \in Requests, ReadChunk(r) \/ ChunkDone(r) PROVE LocksTyped'
<2>1. CASE ReadChunk(r)
  BY <2>1 DEF ReadChunk
<2>2. CASE ChunkDone(r)
  <3>1. left[r] \in 0 .. Chunks /\ left[r] > 0 /\ left[r] - 1 \in 0 .. Chunks
    BY <2>2 DEF ChunkDone
  <3>2. left' \in [Requests -> 0 .. Chunks]
    BY <2>2, <3>1 DEF ChunkDone
  <3> QED
    BY <2>2, <3>2 DEF ChunkDone
<2> QED
  BY <1>9, <2>1, <2>2
<1>10. ASSUME NEW r \in Requests, StreamEnds(r) \/ Disconnect(r) PROVE LocksTyped'
  BY <1>10 DEF StreamEnds, Disconnect
<1>11. ASSUME NEW p \in Procs, ProcessDies(p) PROVE LocksTyped'
  BY <1>11 DEF ProcessDies
<1>12. CASE UNCHANGED lockVars
  BY <1>12 DEF lockVars
<1> QED
  BY <1>1, <1>2, <1>3, <1>4, <1>5, <1>6, <1>7, <1>8, <1>9, <1>10, <1>11,
     <1>12 DEF LockNext, LockStep

\* The invariant is preserved by every step.
LEMMA LocksKept ==
  ASSUME LockInv, [LockNext]_lockVars
  PROVE  LockInv'
<1>0. LocksTyped'
  BY LockType DEF LockInv
<1> USE KeyFacts, <1>0
    DEF KeysApart, LockInv, Exclusive, Lease, Removal, StreamSafe, CheckStillTrue,
        LocksTyped, Inside, Streaming, Ops, Leased, GoesTo,
        locks, Key, Drop
<1>1. ASSUME NEW r \in Requests, NEW o \in Ops, NEW j \in Jobs, Call(r, o, j)
      PROVE LockInv'
  BY <1>1 DEF Call
<1>2. ASSUME NEW r \in Requests, TakeProcessLock(r) PROVE LockInv'
  BY <1>2 DEF TakeProcessLock
<1>3. ASSUME NEW r \in Requests, TakeFileLock(r) PROVE LockInv'
<2>1. CASE at[r] = "maintFile"
  BY <1>3, <2>1 DEF TakeFileLock
<2>2. CASE at[r] = "ownerFile"
  BY <1>3, <2>2 DEF TakeFileLock
<2>3. CASE at[r] = "jobFile"
  BY <1>3, <2>3 DEF TakeFileLock
<2> QED
  BY <1>3, <2>1, <2>2, <2>3 DEF TakeFileLock
<1>4. ASSUME NEW r \in Requests, LockTimeout(r) PROVE LockInv'
  BY <1>4 DEF LockTimeout
<1>5. ASSUME NEW r \in Requests, Validate(r) PROVE LockInv'
  BY <1>5 DEF Validate
<1>6. ASSUME NEW r \in Requests, Work(r) PROVE LockInv'
<2>0. \A s \in Requests : s # r => at[s] \notin Inside
  BY <1>6 DEF Work
<2>1. CASE op[r] = "read"
  BY <1>6, <2>1 DEF Work
<2>2. CASE op[r] = "write"
  BY <1>6, <2>0, <2>2 DEF Work
<2>3. CASE flock[job[r]] = r /\ op[r] \in {"delete", "purge"}
  <3>1. /\ \/ place' = [place EXCEPT ![job[r]] = "partial"]
           \/ place' = [place EXCEPT ![job[r]] = "gone"] /\ at'[r] # "work"
        /\ at'[r] \in {"work", "leave", "nextJob"}
        /\ at'[r] = "nextJob" => op[r] = "purge"
        /\ \A s \in Requests : s # r => at'[s] = at[s]
        /\ UNCHANGED <<op, job, flock>>
        /\ at[r] = "work" /\ flock[Maint] = r
    BY <1>6, <2>3 DEF Work
  <3>2. \A s \in Requests : s # r /\ flock[job[s]] = s => job[s] # job[r]
    BY <2>3
  <3>3. Exclusive'
    BY <1>6, <3>1
  <3>4. Lease' /\ StreamSafe'
    <4>1. \A s \in Requests : s # r /\ flock[job[s]] = s
                                  => place'[job'[s]] = place[job[s]]
      BY <3>1, <3>2
    <4>2. \A s \in Requests : s # r /\ at[s] \in Streaming
                                  => flock[job[s]] = s /\ op[s] = "read"
      OBVIOUS
    <4>3. StreamSafe'
      BY <3>1, <4>1, <4>2
    <4>4. Lease'
      BY <2>3, <3>1, <4>1, <4>2
    <4> QED
      BY <4>3, <4>4
  <3>5. Removal'
    BY <1>6, <2>0, <2>3, <3>1
  <3>6. CheckStillTrue'
    BY <1>6, <2>0, <2>3, <3>1
  <3> QED
    BY <3>3, <3>4, <3>5, <3>6
<2>4. CASE op[r] = "purge" /\ flock[job[r]] # r
  BY <1>6, <2>0, <2>4 DEF Work
<2> QED
  BY <1>6, <2>1, <2>2, <2>3, <2>4 DEF Work
<1>7. ASSUME NEW r \in Requests, NextJob(r) PROVE LockInv'
<2>0. \A s \in Requests : s # r => at[s] \notin Inside
  BY <1>7 DEF NextJob
<2>1. flock' = Drop(flock, r, Owners \cup Jobs) /\ UNCHANGED <<op, place>>
  BY <1>7 DEF NextJob
<2>2. CASE todo[r] = {}
  BY <1>7, <2>1, <2>2 DEF NextJob
<2>3. CASE todo[r] # {}
  <3>1. PICK j \in todo[r] : /\ job' = [job EXCEPT ![r] = j]
                             /\ GoesTo(r, "ownerLock")
    BY <1>7, <2>3 DEF NextJob
  <3> QED
    BY <1>7, <2>0, <2>1, <3>1 DEF NextJob
<2> QED
  BY <2>2, <2>3
<1>8. ASSUME NEW r \in Requests, Leave(r) PROVE LockInv'
<2>1. Exclusive'
  BY <1>8 DEF Leave, Finish
<2>2. Lease' /\ StreamSafe'
  BY <1>8 DEF Leave, Finish
<2>3. Removal'
  BY <1>8 DEF Leave, Finish
<2>4. CheckStillTrue'
  BY <1>8 DEF Leave, Finish
<2> QED
  BY <2>1, <2>2, <2>3, <2>4
<1>9. ASSUME NEW r \in Requests, ReadChunk(r) \/ ChunkDone(r) PROVE LockInv'
  BY <1>9 DEF ReadChunk, ChunkDone
<1>10. ASSUME NEW r \in Requests, StreamEnds(r) \/ Disconnect(r) PROVE LockInv'
  BY <1>10 DEF StreamEnds, Disconnect, Finish
<1>11. ASSUME NEW p \in Procs, ProcessDies(p) PROVE LockInv'
  BY <1>11 DEF ProcessDies, Finish
<1>12. CASE UNCHANGED lockVars
  BY <1>12 DEF lockVars
<1> QED
  BY <1>1, <1>2, <1>3, <1>4, <1>5, <1>6, <1>7, <1>8, <1>9, <1>10, <1>11,
     <1>12 DEF LockNext, LockStep

\* Type correctness of the locks: a lock is free or held by a request, of the
\* process (_maintenance_lock, _owner_capacity_lock) and of the file system
\* (_lock_file) alike, and a stream never runs past its last chunk.
THEOREM LocksAreTyped == LockSpec => []LocksTyped
<1>1. LockInit => LocksTyped
  BY LocksBegin DEF LockInv
<1> QED
  BY <1>1, LockType, PTL DEF LockSpec

\* A job is never removed while it is streamed, whatever the number of
\* requests, processes, threads and jobs (open_artifact_read_lease against
\* _safe_delete_job_dir).
THEOREM StreamsAreSafe == LockSpec => []StreamSafe
<1>1. LockInv => StreamSafe
  BY DEF LockInv
<1> QED
  BY LocksBegin, LocksKept, <1>1, PTL DEF LockSpec

\* A request acts on a job in the state in which it found it under the locks.
THEOREM ChecksHold == LockSpec => []CheckStillTrue
<1>1. LockInv => CheckStillTrue
  BY DEF LockInv
<1> QED
  BY LocksBegin, LocksKept, <1>1, PTL DEF LockSpec
==============================================================================
