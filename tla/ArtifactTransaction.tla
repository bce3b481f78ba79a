------------------------- MODULE ArtifactTransaction -------------------------
(***************************************************************************)
(* Replacing one artifact of an Office job: OfficeJobStore.write_bytes,    *)
(* its rollback, the quarantine of what could not be resolved, and the     *)
(* recovery that runs at start-up and at the head of every purge           *)
(* (backend/app/modules/office_tools/core/job_store.py).                   *)
(*                                                                         *)
(* One job.  Its directory holds job.json (rec) and the artifact files     *)
(* (files); .staging/<t> holds the bytes of transaction t (stage) and      *)
(* .transactions/<t>.json its journal (phase, with the old and new record  *)
(* in intent).  Each action is one durable file-system step, so that a     *)
(* process may crash, and an I/O error may strike, between any two.  The   *)
(* maintenance and owner locks are held from the first to the last step,   *)
(* so one transaction is in flight at a time; StoreLocks models the locks. *)
(* A durable write (temporary file, fsync, rename, fsync of the directory) *)
(* is one step; the temporary file that a crash may leave behind is not    *)
(* modelled: in .transactions it only adds a quarantine entry of its own.  *)
(***************************************************************************)
EXTENDS Naturals

CONSTANTS Names,     \* artifact file names of the job
          Contents,  \* what a file may hold (size and sha256 of the code)
          None,      \* no such file
          MaxRev,    \* bound: updates of the job's record in a behaviour
          Faults     \* I/O errors that may strike: in the transaction and
                     \* its recovery ("io"), in the quarantine move ("keep")

ASSUME NamesAssumption == Names # {}
ASSUME NoneAssumption == None \notin Contents
ASSUME RevAssumption == MaxRev \in Nat
ASSUME FaultsAssumption == Faults \subseteq {"io", "keep"}

VARIABLES
  rec,      \* job.json
  files,    \* the artifact files in the job directory
  phase,    \* phase of t's journal in .transactions, "none" if it has none
  staged,   \* the t with a directory .staging/<t> ...
  new,      \* ... its file "new": the staged bytes
  backup,   \* ... its file "backup": the replaced artifact
  entries,  \* .recovery_quarantine: the t with an entry there ...
  evidence, \* ... the t whose journal was moved there
  evBackup, \* ... and the backup moved there with the staging directory
  intent,   \* the fields of t's journal that never change
  pc, mode, \* where the running operation is and which operation it is
  cur,      \* the transaction it works on
  clock,    \* updated_at: each update of the record has a later one
  ack,      \* last update reported to its caller as done
  faulted   \* whether an I/O error has struck yet

stage == <<staged, new, backup>>
kept == <<entries, evidence, evBackup>>
local == <<intent, mode, cur, clock, ack>>
disk == <<rec, files, phase, staged, new, backup, entries, evidence, evBackup>>
vars == <<rec, files, phase, staged, new, backup, entries, evidence, evBackup,
          intent, mode, cur, clock, ack, pc, faulted>>

-----------------------------------------------------------------------------
Txns == 1 .. MaxRev
FileState == Contents \cup {None}
Record == [rev : 0 .. MaxRev, status : {"running", "completed", "failed"},
           arts : [Names -> FileState]]
Intent == [name : Names, old : Record, new : Record]
Phases == {"prepared", "backup_created", "artifact_published",
           "manifest_committed"}

\* The program counters: inside the try block of write_bytes, in
\* _restore_artifact_transaction, in _publish_artifact_transaction, in the
\* final cleanup, in _preserve_unresolved_recovery.
TryBlock == {"stageNew", "prepare", "backup", "markBackup", "publish",
             "markPublished", "commitRecord", "markCommitted"}
Restoring == {"unlink", "putBack", "oldRecord"}
Publishing == {"clear", "putNew", "newRecord"}
Cleanup == {"rmStage", "rmJournal"}
Keeping == {"keepEntry", "keepJournal", "keepStage"}
PCs == {"idle", "down", "scan", "decide", "verify", "rollback"}
         \cup TryBlock \cup Restoring \cup Publishing \cup Cleanup \cup Keeping

Name == intent[cur].name
OldArt == intent[cur].old.arts[Name]   \* None: the manifest did not list it
NewArt == intent[cur].new.arts[Name]

\* _active_record_matches: the manifest is r and the directory holds exactly
\* the files it lists.
ActiveMatches(r) == rec = r /\ files = r.arts

\* _validated_artifact_stage
ValidStage ==
  /\ new[cur] \in {None, NewArt}
  /\ backup[cur] \in {None, OldArt}

\* The next step of the operation, or an I/O error after this one took
\* effect (the fsync of the directory that follows a rename): exception.
Then(next, onError) ==
  \/ pc' = next /\ UNCHANGED faulted
  \/ "io" \in Faults /\ pc' = onError /\ faulted' = TRUE

\* Where the exception handler of the running operation starts.
Handler == IF pc = "stageNew" THEN "keepEntry"
           ELSE IF pc \in TryBlock THEN "rollback"
           ELSE "keepEntry"

\* Where an operation goes on when its transaction is resolved or quarantined.
Return == IF mode \in {"startup", "purge"} THEN "scan" ELSE "idle"

-----------------------------------------------------------------------------
Init ==
  /\ rec = [rev |-> 0, status |-> "running", arts |-> [n \in Names |-> None]]
  /\ files = [n \in Names |-> None]
  /\ phase = [t \in Txns |-> "none"]
  /\ staged = {} /\ new = [t \in Txns |-> None]
  /\ backup = [t \in Txns |-> None]
  /\ entries = {} /\ evidence = {} /\ evBackup = [t \in Txns |-> None]
  /\ intent = [t \in Txns |->
                 [name |-> CHOOSE n \in Names : TRUE, old |-> rec, new |-> rec]]
  /\ pc = "idle" /\ mode = "write" /\ cur = 0 /\ clock = 0 /\ ack = 0
  /\ faulted = FALSE

\* write_bytes up to the staging directory.  An error here is outside the
\* try block: the empty directory stays behind without a journal.
Begin(n, c) ==
  /\ pc = "idle" /\ clock < MaxRev
  /\ clock' = clock + 1 /\ cur' = clock + 1 /\ mode' = "write"
  /\ intent' = [intent EXCEPT ![clock + 1] =
       [name |-> n, old |-> rec,
        new |-> [rev |-> clock + 1, status |-> rec.status,
                 arts |-> [rec.arts EXCEPT ![n] = c]]]]
  /\ staged' = staged \cup {clock + 1}
  /\ Then("stageNew", "idle")
  /\ UNCHANGED <<rec, files, phase, new, backup, kept, ack>>

StageNew ==
  /\ pc = "stageNew"
  /\ new' = [new EXCEPT ![cur] = NewArt]
  /\ Then("prepare", "keepEntry")
  /\ UNCHANGED <<rec, files, phase, staged, backup, kept, local>>

WriteJournal(at, ph, next) ==
  /\ pc = at
  /\ phase' = [phase EXCEPT ![cur] = ph]
  /\ Then(next, "rollback")
  /\ UNCHANGED <<rec, files, stage, kept, local>>

Prepare == WriteJournal("prepare", "prepared", "backup")
MarkBackup == WriteJournal("markBackup", "backup_created", "publish")
MarkPublished == WriteJournal("markPublished", "artifact_published",
                              "commitRecord")
MarkCommitted == WriteJournal("markCommitted", "manifest_committed", "verify")

\* Mutant: the replaced file is unlinked instead of being set aside.
Backup_unlinks ==
  /\ pc = "backup"
  /\ files' = [files EXCEPT ![Name] = None]
  /\ Then("markBackup", "rollback")
  /\ UNCHANGED <<rec, phase, stage, kept, local>>

Backup ==
  /\ pc = "backup"
  /\ IF files[Name] # None
     THEN /\ backup' = [backup EXCEPT ![cur] = files[Name]]
          /\ files' = [files EXCEPT ![Name] = None]
          /\ Then("markBackup", "rollback")
     ELSE pc' = "markBackup" /\ UNCHANGED <<backup, files, faulted>>
  /\ UNCHANGED <<rec, phase, staged, new, kept, local>>

Publish ==
  /\ pc = "publish"
  /\ files' = [files EXCEPT ![Name] = new[cur]]
  /\ new' = [new EXCEPT ![cur] = None]
  /\ Then("markPublished", "rollback")
  /\ UNCHANGED <<rec, phase, staged, backup, kept, local>>

CommitRecord ==
  /\ pc = "commitRecord"
  /\ rec' = intent[cur].new
  /\ Then("markCommitted", "rollback")
  /\ UNCHANGED <<files, phase, stage, kept, local>>

\* Mutant: the clean-up is left to the next recovery.
Verify_skipsCleanup ==
  /\ pc = "verify"
  /\ pc' = Return /\ ack' = intent[cur].new.rev
  /\ UNCHANGED <<disk, intent, mode, cur, clock, faulted>>

Verify ==
  /\ pc = "verify"
  /\ pc' = IF ActiveMatches(intent[cur].new) THEN "rmStage" ELSE "keepEntry"
  /\ UNCHANGED <<disk, local, faulted>>

\* shutil.rmtree of the staging directory: its files in any order, then itself.
RemoveStage ==
  /\ pc = "rmStage"
  /\ \/ /\ new[cur] # None
        /\ new' = [new EXCEPT ![cur] = None]
        /\ Then("rmStage", "keepEntry")
        /\ UNCHANGED <<staged, backup>>
     \/ /\ backup[cur] # None
        /\ backup' = [backup EXCEPT ![cur] = None]
        /\ Then("rmStage", "keepEntry")
        /\ UNCHANGED <<staged, new>>
     \/ /\ new[cur] = None /\ backup[cur] = None
        /\ staged' = staged \ {cur}
        /\ Then("rmJournal", "keepEntry")
        /\ UNCHANGED <<new, backup>>
  /\ UNCHANGED <<rec, files, phase, kept, local>>

\* _remove_journal, after which the operation is over: write_bytes returns,
\* a rollback re-raises, recovery takes the next journal.
RemoveJournal ==
  /\ pc = "rmJournal"
  /\ phase' = [phase EXCEPT ![cur] = "none"]
  /\ Then(Return, "keepEntry")
  /\ ack' = IF mode = "write" /\ pc' = Return THEN intent[cur].new.rev ELSE ack
  /\ UNCHANGED <<rec, files, stage, kept, intent, mode, cur, clock>>

\* Mutant: a rollback that only looks at the manifest and cleans up.
Rollback_skipsRestore ==
  /\ pc = "rollback"
  /\ mode' = "rollback"
  /\ pc' = IF rec = intent[cur].old THEN "rmStage" ELSE "unlink"
  /\ UNCHANGED <<disk, intent, cur, clock, ack, faulted>>

\* The head of _rollback_artifact_transaction: stage and manifest are checked.
Rollback ==
  /\ pc = "rollback"
  /\ mode' = "rollback"
  /\ pc' = IF ~ (cur \in staged /\ ValidStage
                   /\ rec \in {intent[cur].old, intent[cur].new})
           THEN "keepEntry"
           ELSE IF ActiveMatches(intent[cur].old) THEN "rmStage" ELSE "unlink"
  /\ UNCHANGED <<disk, intent, cur, clock, ack, faulted>>

\* _restore_artifact_transaction: drop the half-published file, ...
Unlink ==
  LET file == files[Name]
      hasBackup == backup[cur] # None
      drop == /\ file # None
              /\ IF hasBackup THEN file \in {OldArt, NewArt}
                              ELSE OldArt = None /\ file = NewArt
      restorable == \/ drop
                    \/ IF hasBackup THEN file = None ELSE file = OldArt
  IN
  /\ pc = "unlink"
  /\ files' = IF drop THEN [files EXCEPT ![Name] = None] ELSE files
  /\ Then(IF ~ restorable THEN "keepEntry"
          ELSE IF hasBackup THEN "putBack" ELSE "oldRecord", "keepEntry")
  /\ UNCHANGED <<rec, phase, stage, kept, local>>

\* ... move the backup (or, when publishing, the staged bytes) to its place,
PutBytes ==
  /\ pc \in {"putBack", "putNew"}
  /\ files' = [files EXCEPT ![Name] = IF pc = "putBack" THEN backup[cur]
                                      ELSE new[cur]]
  /\ backup' = IF pc = "putBack" THEN [backup EXCEPT ![cur] = None] ELSE backup
  /\ new' = IF pc = "putNew" THEN [new EXCEPT ![cur] = None] ELSE new
  /\ Then(IF pc = "putBack" THEN "oldRecord" ELSE "newRecord", "keepEntry")
  /\ UNCHANGED <<rec, phase, staged, kept, local>>

\* ... write the old manifest and verify it.
OldRecord ==
  /\ pc = "oldRecord"
  /\ rec' = intent[cur].old
  /\ Then(IF files = intent[cur].old.arts THEN "rmStage" ELSE "keepEntry",
          "keepEntry")
  /\ UNCHANGED <<files, phase, stage, kept, local>>

\* _publish_artifact_transaction: make room for staged bytes, if any are
\* left, or find the new file in place.
Clear ==
  LET inPlace == files[Name] = NewArt
      move == /\ new[cur] # None /\ ~ inPlace
              /\ files[Name] \in {None, OldArt}
  IN
  /\ pc = "clear"
  /\ files' = IF move THEN [files EXCEPT ![Name] = None] ELSE files
  /\ Then(IF move THEN "putNew" ELSE IF inPlace THEN "newRecord"
          ELSE "keepEntry", "keepEntry")
  /\ UNCHANGED <<rec, phase, stage, kept, local>>

\* ... write the new manifest and verify it.
NewRecord ==
  /\ pc = "newRecord"
  /\ rec' = intent[cur].new
  /\ Then(IF files = intent[cur].new.arts THEN "rmStage" ELSE "keepEntry",
          "keepEntry")
  /\ UNCHANGED <<files, phase, stage, kept, local>>

-----------------------------------------------------------------------------
\* _recovery_unlocked: first every journal, in directory order, ...
TakeJournal(t) ==
  /\ pc = "scan" /\ phase[t] # "none"
  /\ cur' = t /\ pc' = "decide"
  /\ UNCHANGED <<disk, intent, mode, clock, ack, faulted>>

\* ... then every staging directory without one, which is preserved, ...
TakeOrphan(t) ==
  /\ pc = "scan" /\ \A u \in Txns : phase[u] = "none"
  /\ t \in staged
  /\ cur' = t /\ pc' = "keepEntry"
  /\ UNCHANGED <<disk, intent, mode, clock, ack, faulted>>

\* ... then the store serves requests.
Recovered ==
  /\ pc = "scan"
  /\ \A u \in Txns : phase[u] = "none"
  /\ staged = {}
  /\ pc' = "idle"
  /\ UNCHANGED <<disk, local, faulted>>

\* Mutant: a journal at backup_created is taken as published.
Decide_publishesEarly ==
  /\ pc = "decide"
  /\ pc' = IF \/ ActiveMatches(intent[cur].new)
              \/ ActiveMatches(intent[cur].old) THEN "rmStage"
           ELSE IF phase[cur] = "prepared" THEN "unlink" ELSE "newRecord"
  /\ UNCHANGED <<disk, local, faulted>>

\* _recover_artifact_transaction: what to do with the journal of cur.
Decide ==
  /\ pc = "decide"
  /\ pc' = IF cur \in staged /\ ~ ValidStage THEN "keepEntry"
           ELSE IF \/ ActiveMatches(intent[cur].new)
                   \/ ActiveMatches(intent[cur].old) THEN "rmStage"
           ELSE IF cur \notin staged THEN "keepEntry"
           ELSE IF phase[cur] \in {"prepared", "backup_created"} THEN "unlink"
           ELSE "clear"
  /\ UNCHANGED <<disk, local, faulted>>

\* _preserve_unresolved_recovery: the entry and its metadata, then the
\* journal, then the staging directory.  An error leaves the rest in place
\* and ends the operation: start-up fails, a request or purge raises.
KeepFailed == IF mode = "startup" THEN "down" ELSE "idle"

ThenKeep(next) ==
  \/ pc' = next /\ UNCHANGED faulted
  \/ "keep" \in Faults /\ pc' = KeepFailed /\ faulted' = TRUE

KeepEntry ==
  /\ pc = "keepEntry"
  /\ entries' = entries \cup {cur}
  /\ ThenKeep("keepJournal")
  /\ UNCHANGED <<rec, files, phase, stage, evidence, evBackup, local>>

\* Mutant: the journal is copied to the quarantine, not moved.
KeepJournal_copies ==
  /\ pc = "keepJournal"
  /\ evidence' = IF phase[cur] # "none" THEN evidence \cup {cur} ELSE evidence
  /\ ThenKeep("keepStage")
  /\ UNCHANGED <<rec, files, phase, stage, entries, evBackup, local>>

KeepJournal ==
  /\ pc = "keepJournal"
  /\ evidence' = IF phase[cur] # "none" THEN evidence \cup {cur} ELSE evidence
  /\ phase' = [phase EXCEPT ![cur] = "none"]
  /\ ThenKeep("keepStage")
  /\ UNCHANGED <<rec, files, stage, entries, evBackup, local>>

KeepStage ==
  /\ pc = "keepStage"
  /\ evBackup' = IF cur \in staged THEN [evBackup EXCEPT ![cur] = backup[cur]]
                 ELSE evBackup
  /\ staged' = staged \ {cur}
  /\ new' = [new EXCEPT ![cur] = None]
  /\ backup' = [backup EXCEPT ![cur] = None]
  /\ ThenKeep(Return)
  /\ UNCHANGED <<rec, files, phase, entries, evidence, local>>

-----------------------------------------------------------------------------
\* Mutant: a status that the record's schema does not know.
SetStatus_unknown(s) ==
  /\ pc = "idle" /\ clock < MaxRev
  /\ clock' = clock + 1 /\ ack' = clock + 1
  /\ rec' = [rev |-> clock + 1, status |-> "done", arts |-> rec.arts]
  /\ UNCHANGED <<files, phase, stage, kept, intent, pc, mode, cur, faulted>>

\* complete and fail rewrite the record under the same locks.
SetStatus(s) ==
  /\ pc = "idle" /\ clock < MaxRev
  /\ clock' = clock + 1
  /\ rec' = [rev |-> clock + 1, status |-> s, arts |-> rec.arts]
  /\ \/ ack' = clock + 1 /\ UNCHANGED faulted
     \/ "io" \in Faults /\ faulted' = TRUE /\ UNCHANGED ack
  /\ UNCHANGED <<files, phase, stage, kept, intent, pc, mode, cur>>

\* purge_expired begins with the recovery of the store (2693-2700).
Purge ==
  /\ pc = "idle"
  /\ mode' = "purge" /\ pc' = "scan"
  /\ UNCHANGED <<disk, intent, cur, clock, ack, faulted>>

\* An I/O error before the step had its effect.
IoError ==
  /\ \/ "io" \in Faults /\ pc \in TryBlock \cup Restoring \cup Publishing
                                    \cup Cleanup \cup {"verify", "decide"}
        /\ pc' = Handler
     \/ "io" \in Faults /\ pc = "rollback" /\ pc' = "keepEntry"
     \/ "keep" \in Faults /\ pc \in Keeping /\ pc' = KeepFailed
  /\ faulted' = TRUE
  /\ UNCHANGED <<disk, local>>

\* The process dies; what reached the disk stays.
Crash ==
  /\ pc # "down"
  /\ pc' = "down"
  /\ UNCHANGED <<disk, local, faulted>>

\* create_app recovers the store before it serves (app/main.py:69-72).
Start ==
  /\ pc = "down"
  /\ pc' = "scan" /\ mode' = "startup"
  /\ UNCHANGED <<disk, intent, cur, clock, ack, faulted>>

Recover == \/ Recovered
           \/ \E t \in Txns : TakeJournal(t) \/ TakeOrphan(t)
           \/ Decide

WriteStep == \/ StageNew \/ Prepare \/ Backup \/ MarkBackup \/ Publish
             \/ MarkPublished \/ CommitRecord \/ MarkCommitted \/ Verify

ResolveStep == \/ Rollback \/ Unlink \/ PutBytes \/ OldRecord
               \/ Clear \/ NewRecord
               \/ RemoveStage \/ RemoveJournal
               \/ KeepEntry \/ KeepJournal \/ KeepStage

Step == WriteStep \/ ResolveStep \/ Recover

Next == \/ \E n \in Names, c \in Contents : Begin(n, c)
        \/ \E s \in {"completed", "failed"} : SetStatus(s)
        \/ Purge \/ Step \/ IoError \/ Crash \/ Start

Spec == Init /\ [][Next]_vars

-----------------------------------------------------------------------------
\* Every variable stays within the values its part of the code can produce.
TypeOK ==
  /\ rec \in Record
  /\ files \in [Names -> FileState]
  /\ phase \in [Txns -> Phases \cup {"none"}]
  /\ staged \subseteq Txns
  /\ new \in [Txns -> FileState] /\ backup \in [Txns -> FileState]
  /\ entries \subseteq Txns /\ evidence \subseteq Txns
  /\ evBackup \in [Txns -> FileState]
  /\ intent \in [Txns -> Intent]
  /\ pc \in PCs
  /\ mode \in {"write", "rollback", "startup", "purge"}
  /\ clock \in 0 .. MaxRev
  /\ cur \in 0 .. MaxRev
  /\ pc \notin {"idle", "down", "scan"} => cur \in Txns
  /\ ack \in 0 .. MaxRev
  /\ faulted \in BOOLEAN

\* Something on disk tells an operator (or the next recovery) of trouble: a
\* journal in .transactions or an entry in .recovery_quarantine.
Noted == entries # {} \/ \E t \in Txns : phase[t] # "none"

\* A job whose files and manifest disagree is never silent: whatever crashes
\* and errors struck write_bytes, its rollback, the recovery and even the
\* quarantine move, a journal or a quarantine entry speaks of it.
NeverSilent == files # rec.arts => Noted

\* Crashes alone, at any step of write_bytes and of the recovery itself, are
\* always resolved: a store that serves has every file as its manifest says.
CrashAtomic == ~ faulted /\ pc = "idle" => files = rec.arts

\* An update that write_bytes, complete or fail reported to its caller is
\* never taken back by a rollback or by the recovery of an older journal.
AckNeverReverted == rec.rev >= ack

\* Until the next update, a transaction that did not end well has either left
\* the new version in place, complete, or the bytes of the old artifact are
\* still in the job directory, the staging directory or the quarantine.
OldBytesSurvive ==
  \A t \in Txns :
    /\ clock = t /\ (phase[t] # "none" \/ t \in evidence)
    /\ \A u \in 1 .. t - 1 : phase[u] = "none" /\ u \notin entries
    => \/ ActiveMatches(intent[t].new)
       \/ intent[t].old.arts[intent[t].name] \in
            {None, files[intent[t].name], backup[t], evBackup[t]}

\* The refinement mapping: while t's journal is pending the job still is the
\* old version and the new one is proposed; otherwise the job is its manifest,
\* provided that the files agree with it.
Pending == {t \in Txns : phase[t] # "none"}
JobValue == IF Pending # {} THEN {intent[t].old : t \in Pending}
            ELSE IF files = rec.arts THEN {rec} ELSE {}
JobUpdate == {intent[t].new : t \in Pending}
Atomic == INSTANCE AtomicUpdate
            WITH Value <- Record, val <- JobValue, prop <- JobUpdate,
                 degraded <- (entries # {})

\* The journal protocol implements an atomic update of manifest and file:
\* without an error inside the quarantine move, every crash and every failed
\* step of write_bytes ends in the old job or the new one.
ImplementsAtomicUpdate == Atomic!Spec
=============================================================================
