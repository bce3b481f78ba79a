-------------------------- MODULE CredentialRotation --------------------------
(***************************************************************************)
(* The incident rotation: a driver (PowerShell) prepares a bundle of new   *)
(* passwords and a new signing key, a child (Python) snapshots the         *)
(* database and rotates it under one write lock, and the driver then       *)
(* replaces the environment files and publishes the bundle.  A journal,    *)
(* current and previous, records the phase; every step can be the last one *)
(* before a crash, and running the driver again resumes.  The service and  *)
(* the driver exclude each other by the maintenance gate, which dies with  *)
(* its holder; a child can outlive its driver.                             *)
(***************************************************************************)
EXTENDS Integers

CONSTANTS Rotations,     \* rotation ids; 0 stands for before any rotation
          MaxVer,        \* bound on the service's changes of accounts
          MaxUsers,      \* bound on the number of accounts
          MaxCrashes,    \* bound on crashes
          BackendLoss,   \* crashes also happen while backend/.env is missing
          ServiceRuns    \* the service may be started

\* What the constants are assumed to be.
RotationAssumption ==
    /\ Rotations \subseteq Nat \ {0}
    /\ {ServiceRuns, BackendLoss} \subseteq BOOLEAN

None == "none"
PREPARED == 1
DB_COMMITTED == 2
ROOT_ENV_PROMOTED == 3
BACKEND_ENV_PROMOTED == 4
CREDENTIALS_PROMOTED == 5
COMPLETE == 6

VARIABLES db,       \* accounts, sessions and the rotation ledger
          env,      \* whose values each environment file holds, -1 when missing
          sec,      \* the secure root
          history,  \* archived rotations
          gate,     \* holder of the maintenance gate
          pc,       \* next step of the driver
          txn,      \* the child process
          next,     \* phase the journal is being advanced to
          crashes

vars == <<db, env, sec, history, gate, pc, txn, next, crashes>>

Missing == -1
Envs == DOMAIN env     \* backend/.env, and the root .env when there is one
NoSnapshot == [pw |-> 0, ver |-> 0, users |-> 0, sess |-> FALSE, ledger |-> {}]
NoTxn == [st |-> None, orphan |-> FALSE, snap |-> NoSnapshot]
Empty == [bundle |-> 0, at |-> None, users |-> 0, pend |-> {}, recovery |-> NoSnapshot,
          cur |-> 0, prev |-> 0, quar |-> {}, manifest |-> {}]

Init ==
    /\ db = [pw |-> 0, ver |-> 0, users |-> 1, sess |-> TRUE, ledger |-> {}]
    /\ env \in [{"backend"} -> {0}] \cup [{"root", "backend"} -> {0}]
    /\ sec = Empty /\ history = {} /\ gate = None /\ pc = "idle"
    /\ txn = NoTxn /\ next = 0 /\ crashes = 0

-----------------------------------------------------------------------------
\* Accounts and session count, as the fingerprints of the ledger see them.
state_fingerprint(d) == [pw |-> d.pw, ver |-> d.ver, users |-> d.users, sess |-> d.sess]

\* Read-RotationJournal: the current journal, or the previous when a crash
\* interrupted the replacement.  A journal's sequence number is its phase.
Phase == IF sec.cur # 0 THEN sec.cur ELSE sec.prev
JournalValid == sec.cur # 0 /\ sec.prev # 0 => sec.cur = sec.prev + 1

Ledger(r) == {l \in db.ledger : l.rotation = r}

\* find_existing_rotation_result: committed before, and nothing changed since.
Committed == Ledger(sec.bundle) # {}
_existing_result == \A l \in Ledger(sec.bundle) : l.post = state_fingerprint(db)

\* The bundle names exactly the accounts there are.
_validate_rotation_scope == sec.users = db.users

\* The recovery artifact is the database, which this rotation has not touched.
confirm_connection_matches_recovery == sec.recovery = db
_assert_snapshot_precedes_rotation == \A l \in sec.recovery.ledger : l.rotation # sec.bundle

\* The ledger row of this rotation, with the state it leaves.
record_rotation(new) == [rotation |-> sec.bundle, post |-> state_fingerprint(new)]

\* The whole database, as one consistent copy: sqlite's backup, serialized.
snapshot_connection == db

Locked == txn.st \in {"ready", "told", "guard"}

-----------------------------------------------------------------------------
\* The service, which holds the gate while it runs.
acquire_backend_maintenance_gate ==
    /\ ServiceRuns /\ gate = None
    /\ gate' = "service"
    /\ UNCHANGED <<db, env, sec, history, pc, txn, next, crashes>>

_release_lease ==
    /\ gate = "service"
    /\ gate' = None
    /\ UNCHANGED <<db, env, sec, history, pc, txn, next, crashes>>

\* A login, a change of an account, or a new account.
ServiceWrites ==
    /\ gate = "service" /\ ~Locked
    /\ \/ db' = [db EXCEPT !.sess = TRUE]
       \/ db.ver < MaxVer /\ db' = [db EXCEPT !.ver = @ + 1]
       \/ db.users < MaxUsers /\ db' = [db EXCEPT !.users = @ + 1]
    /\ UNCHANGED <<env, sec, history, gate, pc, txn, next, crashes>>

-----------------------------------------------------------------------------
\* Driver: one process at a time, services stopped, backend/.env present.
Step(from, to) == pc = from /\ pc' = to
Start ==
    /\ pc = "idle" /\ gate = None
    /\ env["backend"] # Missing
    /\ gate' = "rotation"
    /\ \/ /\ Phase = 0 /\ sec.recovery = NoSnapshot
          /\ sec.at # "final"
          /\ sec' = Empty                \* Reset-AbandonedBootstrapRoot
          /\ pc' = "prepare"
       \/ /\ Phase = 0 /\ sec.recovery # NoSnapshot
          /\ pc' = "bootstrap" /\ UNCHANGED sec
       \/ /\ Phase # 0
          /\ pc' = "reconcile" /\ UNCHANGED sec
    /\ UNCHANGED <<db, env, history, txn, next, crashes>>

\* A bundle of new material for the accounts there are.
prepare_credential_bundle ==
    \E r \in Rotations :
        /\ Step("prepare", "pending")
        /\ r \notin history /\ \A l \in db.ledger : l.rotation # r
        /\ sec' = [sec EXCEPT !.bundle = r, !.at = "pending", !.users = db.users]
        /\ UNCHANGED <<db, env, history, gate, txn, next, crashes>>

WritePendingEnvironments ==
    /\ Step("pending", "begin")
    /\ sec' = [sec EXCEPT !.pend = Envs]
    /\ UNCHANGED <<db, env, history, gate, txn, next, crashes>>

\* Mutant: the snapshot is taken without the write lock.
BeginTransaction_deferred ==
    /\ Step("begin", "publish") /\ ~Locked
    /\ _validate_rotation_scope
    /\ txn' = [st |-> "open", orphan |-> FALSE, snap |-> snapshot_connection]
    /\ UNCHANGED <<db, env, sec, history, gate, next, crashes>>

\* BEGIN IMMEDIATE, then the snapshot; the lock is kept until the commit.
BeginTransaction ==
    /\ Step("begin", "publish") /\ ~Locked
    /\ _validate_rotation_scope
    /\ txn' = [st |-> "ready", orphan |-> FALSE, snap |-> snapshot_connection]
    /\ UNCHANGED <<db, env, sec, history, gate, next, crashes>>

PublishRecovery ==
    /\ Step("publish", "seal")
    /\ sec' = [sec EXCEPT !.recovery = txn.snap]
    /\ UNCHANGED <<db, env, history, gate, txn, next, crashes>>

seal_rotation_journal ==
    /\ Step("seal", "commit")
    /\ sec' = [sec EXCEPT !.cur = PREPARED]
    /\ UNCHANGED <<db, env, history, gate, txn, next, crashes>>

\* A recovery artifact without a journal: sealed again if nothing changed.
RestoreBootstrapJournal ==
    /\ Step("bootstrap", "reconcile")
    /\ sec.recovery = db /\ _assert_snapshot_precedes_rotation
    /\ sec' = [sec EXCEPT !.cur = PREPARED]
    /\ UNCHANGED <<db, env, history, gate, txn, next, crashes>>

-----------------------------------------------------------------------------
\* The child.  RestartTransaction reuses the recovery artifact.
RestartTransaction ==
    /\ pc = "machine" /\ Phase = PREPARED /\ ~Locked
    /\ sec.at = "pending"
    /\ \/ /\ Committed /\ _existing_result /\ _assert_snapshot_precedes_rotation
          /\ pc' = "journal" /\ next' = DB_COMMITTED /\ UNCHANGED txn
       \/ /\ ~Committed /\ _validate_rotation_scope
          /\ confirm_connection_matches_recovery /\ _assert_snapshot_precedes_rotation
          /\ txn' = [st |-> "ready", orphan |-> FALSE, snap |-> snapshot_connection]
          /\ pc' = "commit" /\ UNCHANGED next
    /\ UNCHANGED <<db, env, sec, history, gate, crashes>>

CommitDecision ==
    /\ Step("commit", "await") /\ txn.st \in {"ready", "open"}
    /\ txn' = [txn EXCEPT !.st = IF @ = "ready" THEN "told" ELSE "told-open"]
    /\ UNCHANGED <<db, env, sec, history, gate, next, crashes>>

\* New passwords, no sessions, the ledger row and the audit row, in one commit.
_apply_rotation ==
    LET new == [db EXCEPT !.pw = sec.bundle, !.sess = FALSE] IN
    /\ txn.st \in {"told", "told-open"}
    /\ db' = [new EXCEPT !.ledger = @ \cup {record_rotation(new)}]
    /\ txn' = IF txn.orphan THEN NoTxn ELSE [txn EXCEPT !.st = "done"]
    /\ UNCHANGED <<env, sec, history, gate, pc, next, crashes>>

\* Without its driver the child reads an empty decision and rolls back.
Orphaned ==
    /\ txn.orphan /\ txn.st \in {"ready", "open", "guard"}
    /\ txn' = NoTxn
    /\ UNCHANGED <<db, env, sec, history, gate, pc, next, crashes>>

Answered ==
    /\ Step("await", "journal") /\ txn.st = "done"
    /\ txn' = NoTxn /\ next' = DB_COMMITTED
    /\ UNCHANGED <<db, env, sec, history, gate, crashes>>

-----------------------------------------------------------------------------
\* Mutant: the journal is overwritten in place.
KeepPrevious_inPlace ==
    /\ Step("journal", "journal2")
    /\ sec' = [sec EXCEPT !.cur = 0, !.prev = 0]
    /\ UNCHANGED <<db, env, history, gate, txn, next, crashes>>

\* advance_rotation_journal refuses a phase that is not the next one; the new
\* journal replaces the current one, which becomes the previous one.
KeepPrevious ==
    /\ Step("journal", "journal2") /\ next = Phase + 1
    /\ sec' = IF sec.cur = 0 THEN sec ELSE [sec EXCEPT !.prev = sec.cur, !.cur = 0]
    /\ UNCHANGED <<db, env, history, gate, txn, next, crashes>>

advance_rotation_journal ==
    /\ Step("journal2", IF next = COMPLETE THEN "finish" ELSE "machine")
    /\ sec' = [sec EXCEPT !.cur = next]
    /\ next' = 0
    /\ UNCHANGED <<db, env, history, gate, txn, crashes>>

-----------------------------------------------------------------------------
\* The file a phase promotes, and whether it is there, promoted or not.
Target == IF Phase = DB_COMMITTED THEN "root" ELSE "backend"
Promotes == Phase \in {DB_COMMITTED, ROOT_ENV_PROMOTED}

\* Invoke-RotationReconciliation: what is on disk has to fit the phase.
BundleFits ==
    \/ Phase < CREDENTIALS_PROMOTED /\ sec.at = "pending"
    \/ Phase \in {BACKEND_ENV_PROMOTED, CREDENTIALS_PROMOTED, COMPLETE} /\ sec.at = "final"
Promoted(e) == Phase >= (IF e = "root" THEN ROOT_ENV_PROMOTED ELSE BACKEND_ENV_PROMOTED)
EnvFits(e) ==
    \/ Promoted(e) /\ env[e] = sec.bundle
    \/ ~Promoted(e) /\ env[e] \notin {Missing, sec.bundle}
    \/ Promotes /\ e = Target /\ e \in sec.quar /\ env[e] \in {Missing, sec.bundle}
Consistent == JournalValid /\ BundleFits /\ \A e \in Envs : EnvFits(e)

\* A file or a bundle that is ahead of the journal brings the journal forward;
\* a missing file is promoted from its pending copy.
Reconcile ==
    /\ pc = "reconcile" /\ Consistent
    /\ \/ /\ Promotes /\ Target \in Envs /\ env[Target] = sec.bundle
          /\ pc' = "journal" /\ next' = Phase + 1
       \/ /\ Promotes /\ Target \in Envs /\ env[Target] = Missing
          /\ pc' = "entry" /\ UNCHANGED next
       \/ /\ Phase = BACKEND_ENV_PROMOTED /\ sec.at = "final"
          /\ pc' = "journal" /\ next' = CREDENTIALS_PROMOTED
       \/ /\ ~(Promotes /\ Target \in Envs /\ env[Target] \in {Missing, sec.bundle})
          /\ ~(Phase = BACKEND_ENV_PROMOTED /\ sec.at = "final")
          /\ pc' = "machine" /\ UNCHANGED next
    /\ UNCHANGED <<db, env, sec, history, gate, txn, crashes>>

\* Copy-EnvironmentToQuarantine: copy, remove, record; then the new file.
Quarantine ==
    /\ pc = "machine" /\ Promotes /\ Target \in Envs
    /\ Target \notin sec.manifest
    /\ sec' = [sec EXCEPT !.quar = @ \cup {Target}]
    /\ pc' = "remove"
    /\ UNCHANGED <<db, env, history, gate, txn, next, crashes>>

RemoveSource ==
    /\ Step("remove", "entry")
    /\ env' = [env EXCEPT ![Target] = Missing]
    /\ UNCHANGED <<db, sec, history, gate, txn, next, crashes>>

RecordEntry ==
    /\ Step("entry", "promote")
    /\ sec' = [sec EXCEPT !.manifest = @ \cup {Target}]
    /\ UNCHANGED <<db, env, history, gate, txn, next, crashes>>

PromoteEnvironment ==
    /\ Step("promote", "journal") /\ Target \in sec.pend
    /\ env' = [env EXCEPT ![Target] = sec.bundle]
    /\ next' = Phase + 1
    /\ UNCHANGED <<db, sec, history, gate, txn, crashes>>

\* There is no root environment file: its phase passes.
SkipRoot ==
    /\ pc = "machine" /\ Promotes /\ Target \notin Envs
    /\ pc' = "journal" /\ next' = Phase + 1
    /\ UNCHANGED <<db, env, sec, history, gate, txn, crashes>>

PromoteCredentials ==
    /\ pc = "machine" /\ Phase = BACKEND_ENV_PROMOTED /\ sec.at = "pending"
    /\ sec' = [sec EXCEPT !.at = "final"]
    /\ pc' = "journal" /\ next' = CREDENTIALS_PROMOTED
    /\ UNCHANGED <<db, env, history, gate, txn, crashes>>

verify_rotation_state ==
    /\ pc = "machine" /\ Phase >= CREDENTIALS_PROMOTED
    /\ sec.at = "final" /\ \A e \in Envs : env[e] = sec.bundle
    /\ Committed /\ _existing_result /\ ~db.sess /\ db.pw = sec.bundle
    /\ sec.manifest = Envs
    /\ \/ Phase = COMPLETE /\ pc' = "finish" /\ UNCHANGED next
       \/ Phase # COMPLETE /\ pc' = "journal" /\ next' = COMPLETE
    /\ UNCHANGED <<db, env, sec, history, gate, txn, crashes>>

Finish ==
    /\ Step("finish", "idle")
    /\ gate' = None
    /\ UNCHANGED <<db, env, sec, history, txn, next, crashes>>

-----------------------------------------------------------------------------
\* The operator puts the snapshot back, then has the finished rotation archived.
RestoreDatabase ==
    /\ pc = "idle" /\ gate = None /\ ~Locked /\ Phase = COMPLETE
    /\ db' = sec.recovery
    /\ UNCHANGED <<env, sec, history, gate, pc, txn, next, crashes>>

RestoreGuard ==
    /\ pc = "machine" /\ Phase = COMPLETE /\ ~Locked
    /\ sec.quar = Envs /\ sec.manifest = Envs
    /\ confirm_connection_matches_recovery /\ _assert_snapshot_precedes_rotation
    /\ txn' = [NoTxn EXCEPT !.st = "guard"]
    /\ pc' = "archive"
    /\ UNCHANGED <<db, env, sec, history, gate, next, crashes>>

ArchiveComplete ==
    /\ Step("archive", "finish")
    /\ history' = history \cup {sec.bundle} /\ sec' = Empty
    /\ txn' = NoTxn
    /\ UNCHANGED <<db, env, gate, next, crashes>>

-----------------------------------------------------------------------------
\* A check of the driver or the child fails and the driver ends.
Refused ==
    \/ pc = "begin" /\ ~_validate_rotation_scope
    \/ pc = "bootstrap" /\ sec.recovery # db
    \/ pc = "reconcile" /\ ~Consistent
    \/ pc = "machine" /\ Phase = PREPARED
          /\ IF Committed THEN ~_existing_result ELSE sec.recovery # db
    \/ pc = "machine" /\ Phase >= CREDENTIALS_PROMOTED
          /\ ~(Committed /\ _existing_result /\ ~db.sess)
    \/ pc = "prepare" /\ \A r \in Rotations : r \in history
    \/ pc \in {"begin", "machine"} /\ txn.orphan /\ Locked    \* database is locked

Ends(t) ==
    /\ pc' = "idle" /\ gate' = None /\ next' = 0 /\ txn' = t
    /\ UNCHANGED <<db, env, sec, history>>

Throw == pc # "idle" /\ Refused /\ Ends(txn) /\ UNCHANGED crashes

\* The driver dies; the child dies with the machine, or is left behind.
Crash ==
    /\ pc # "idle" /\ crashes < MaxCrashes
    /\ BackendLoss \/ env["backend"] # Missing
    /\ crashes' = crashes + 1
    /\ \/ Ends(NoTxn)
       \/ txn.st # None /\ txn.st # "done" /\ Ends([txn EXCEPT !.orphan = TRUE])

Driver ==
    \/ prepare_credential_bundle \/ WritePendingEnvironments \/ BeginTransaction
    \/ PublishRecovery \/ seal_rotation_journal \/ RestoreBootstrapJournal \/ RestartTransaction
    \/ CommitDecision \/ Answered \/ KeepPrevious \/ advance_rotation_journal \/ Reconcile
    \/ Quarantine \/ RemoveSource \/ RecordEntry \/ PromoteEnvironment \/ SkipRoot
    \/ PromoteCredentials \/ verify_rotation_state \/ Finish \/ ArchiveComplete \/ Throw
Child == _apply_rotation \/ Orphaned

Next ==
    \/ Start \/ Driver \/ Child \/ RestoreGuard \/ RestoreDatabase \/ Crash
    \/ acquire_backend_maintenance_gate \/ _release_lease \/ ServiceWrites

Spec == Init /\ [][Next]_vars

-----------------------------------------------------------------------------
Pcs == {"idle", "prepare", "pending", "begin", "publish", "seal", "bootstrap", "reconcile", "machine",
        "commit", "await", "journal", "journal2", "remove", "entry", "promote", "finish", "archive"}

\* Type correctness; the journal's two copies are always one phase apart.
TypeOK ==
    /\ env \in [Envs -> {0, Missing} \cup Rotations]
    /\ sec.cur \in 0..6 /\ sec.prev \in 0..5 /\ JournalValid
    /\ sec.quar \subseteq Envs /\ sec.manifest \subseteq Envs /\ history \subseteq Rotations
    /\ gate \in {None, "service", "rotation"} /\ pc \in Pcs /\ (pc # "idle") = (gate = "rotation")

\* The passwords the database holds can be read by the operator: their bundle
\* is in the secure root or archived, whatever crashed.
CredentialsRecoverable == db.pw # 0 => (db.pw = sec.bundle /\ sec.at # None) \/ db.pw \in history

\* A missing environment file has its old contents in quarantine and its new
\* ones pending.
EnvRecoverable == \A e \in Envs : env[e] = Missing => e \in sec.quar \cap sec.pend

\* The journal says complete only when files, bundle and database belong to
\* this rotation and nothing has touched the accounts since it committed, in
\* spite of crashes after which the service ran between two runs of the driver.
RotatedTogether ==
    Phase # COMPLETE /\ Phase' = COMPLETE =>
        /\ \A e \in Envs : env[e] = sec.bundle
        /\ sec.at = "final" /\ sec.manifest = Envs
        /\ ~db.sess /\ record_rotation(db) \in db.ledger

\* The rotation commits over exactly the state the recovery artifact holds, and
\* ends every session, also when the child commits after its driver has died.
RecoveryFaithful ==
    \A r \in Rotations : Ledger(r) = {} /\ (\E l \in db'.ledger : l.rotation = r) =>
            /\ sec.recovery = db /\ sec.bundle = r
            /\ ~db'.sess
=============================================================================
