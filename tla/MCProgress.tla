----------------------------- MODULE MCProgress ------------------------------
(****************************************************************************)
(* What must eventually happen, on small instances and under the fairness   *)
(* that the scheduling of the code justifies. One behaviour is about one    *)
(* part only, which is chosen in the initial state: the parts share no      *)
(* data, and each run of TLC covers all of them. A name that two parts use  *)
(* is each part's own variable.                                             *)
(****************************************************************************)
EXTENDS Naturals, TLC

CONSTANTS n1, a, b, absent, p, m1, k1, r1, r2, s1, p1, p2

VARIABLES part,    \* the part that a behaviour is about
          rec, files, phase, staged, new, backup, entries, evidence, evBackup, intent,
          mode, cur, clock, ack, pc, faulted, db, env, sec, history, gate, txn, next,
          crashes, rcpt, chunks, rows, target, did, tomb, born, own, at, todo, snap,
          out, faults, disk, roots, active, work, writer, guard, job, req, up,
          provider, switches, convs, logs, folder, present, signature, lock, synced,
          edited, restarts

vars == <<part, rec, files, phase, staged, new, backup, entries, evidence, evBackup,
                intent, mode, cur, clock, ack, pc, faulted, db, env, sec, history,
                gate, txn, next, crashes, rcpt, chunks, rows, target, did, tomb, born,
                own, at, todo, snap, out, faults, disk, roots, active, work, writer,
                guard, job, req, up, provider, switches, convs, logs, folder, present,
                signature, lock, synced, edited, restarts>>

Kinds == r1 :> "quarantine" @@ r2 :> "owner"
AllFrom(s) == [r \in {r1, r2} |-> s]

Artifact == INSTANCE ArtifactTransaction WITH
    Names <- {n1}, Contents <- {a}, MaxRev <- 2, Faults <- {"io", "keep"},
    None <- absent

Rerun == INSTANCE CredentialRotation WITH
    Rotations <- {1, 2}, MaxVer <- 0, MaxUsers <- 1, MaxCrashes <- 3,
    BackendLoss <- FALSE, ServiceRuns <- FALSE

Receipt == INSTANCE JobReceipts WITH
    Receipts <- {r1, r2}, Kind <- Kinds, Chunked <- {r2}, Procs <- {p1, p2},
    MaxFaults <- 0

Index == INSTANCE KnowledgeIndex WITH
    Paths <- {p}, Names <- {a, b}, Binary <- {}, Requests <- {r1}, MaxFolder <- 1,
    MaxVersion <- 2, MaxChunk <- 2, ProgressEvery <- 2, Models <- {m1},
    Concurrent <- FALSE, Busy <- FALSE, MaxThreads <- 2, Fails <- TRUE

Chat == INSTANCE AiChat WITH
    Requests <- {r1, r2}, Sessions <- {s1}, SessionOf <- AllFrom(s1), Allowed <- {r1},
    MaxId <- 3, MaxDeltas <- 1, MaxSwitches <- 0, Serial <- FALSE, Busy <- FALSE

News == INSTANCE NewsletterSync WITH
    Keys <- {k1}, Requests <- {r1, r2}, Kinds <- {"read", "sync", "edit"},
    MaxClock <- 2, MaxRestarts <- 0, FolderMoves <- FALSE, Quiet <- FALSE,
    Serial <- FALSE, NotFound <- TRUE

ASSUME
    /\ Rerun!RotationAssumption
    /\ Receipt!ReceiptAssumption
    /\ Index!KnowledgeAssumption
    /\ Chat!ChatAssumption
    /\ News!SyncAssumption

\* The variables of the other parts have the value 0 and keep it.
Init ==
    \/ /\ part = "artifact" /\ Artifact!Init
       /\ db = 0 /\ env = 0 /\ sec = 0 /\ history = 0 /\ gate = 0 /\ txn = 0
       /\ next = 0 /\ crashes = 0 /\ rcpt = 0 /\ chunks = 0 /\ rows = 0 /\ target = 0
       /\ did = 0 /\ tomb = 0 /\ born = 0 /\ own = 0 /\ at = 0 /\ todo = 0
       /\ snap = 0 /\ out = 0 /\ faults = 0 /\ disk = 0 /\ roots = 0 /\ active = 0
       /\ work = 0 /\ writer = 0 /\ guard = 0 /\ job = 0 /\ req = 0 /\ up = 0
       /\ provider = 0 /\ switches = 0 /\ convs = 0 /\ logs = 0 /\ folder = 0
       /\ present = 0 /\ signature = 0 /\ lock = 0 /\ synced = 0 /\ edited = 0
       /\ restarts = 0
    \/ /\ part = "rerun" /\ Rerun!Init
       /\ rec = 0 /\ files = 0 /\ phase = 0 /\ staged = 0 /\ new = 0 /\ backup = 0
       /\ entries = 0 /\ evidence = 0 /\ evBackup = 0 /\ intent = 0 /\ mode = 0
       /\ cur = 0 /\ clock = 0 /\ ack = 0 /\ faulted = 0 /\ rcpt = 0 /\ chunks = 0
       /\ rows = 0 /\ target = 0 /\ did = 0 /\ tomb = 0 /\ born = 0 /\ own = 0
       /\ at = 0 /\ todo = 0 /\ snap = 0 /\ out = 0 /\ faults = 0 /\ disk = 0
       /\ roots = 0 /\ active = 0 /\ work = 0 /\ writer = 0 /\ guard = 0 /\ job = 0
       /\ req = 0 /\ up = 0 /\ provider = 0 /\ switches = 0 /\ convs = 0 /\ logs = 0
       /\ folder = 0 /\ present = 0 /\ signature = 0 /\ lock = 0 /\ synced = 0
       /\ edited = 0 /\ restarts = 0
    \/ /\ part = "receipts" /\ Receipt!Init
       /\ rec = 0 /\ files = 0 /\ phase = 0 /\ staged = 0 /\ new = 0 /\ backup = 0
       /\ entries = 0 /\ evidence = 0 /\ evBackup = 0 /\ intent = 0 /\ mode = 0
       /\ cur = 0 /\ clock = 0 /\ ack = 0 /\ faulted = 0 /\ db = 0 /\ env = 0
       /\ sec = 0 /\ history = 0 /\ gate = 0 /\ txn = 0 /\ next = 0 /\ crashes = 0
       /\ disk = 0 /\ roots = 0 /\ active = 0 /\ work = 0 /\ writer = 0 /\ guard = 0
       /\ job = 0 /\ req = 0 /\ up = 0 /\ provider = 0 /\ switches = 0 /\ convs = 0
       /\ logs = 0 /\ folder = 0 /\ present = 0 /\ signature = 0 /\ lock = 0
       /\ synced = 0 /\ edited = 0 /\ restarts = 0
    \/ /\ part = "index" /\ Index!Init
       /\ rec = 0 /\ files = 0 /\ phase = 0 /\ staged = 0 /\ new = 0 /\ backup = 0
       /\ entries = 0 /\ evidence = 0 /\ evBackup = 0 /\ intent = 0 /\ mode = 0
       /\ cur = 0 /\ clock = 0 /\ ack = 0 /\ pc = 0 /\ faulted = 0 /\ env = 0
       /\ sec = 0 /\ history = 0 /\ gate = 0 /\ txn = 0 /\ next = 0 /\ crashes = 0
       /\ rcpt = 0 /\ chunks = 0 /\ rows = 0 /\ target = 0 /\ did = 0 /\ tomb = 0
       /\ born = 0 /\ own = 0 /\ at = 0 /\ todo = 0 /\ snap = 0 /\ out = 0
       /\ faults = 0 /\ provider = 0 /\ switches = 0 /\ convs = 0 /\ logs = 0
       /\ folder = 0 /\ present = 0 /\ signature = 0 /\ lock = 0 /\ synced = 0
       /\ edited = 0 /\ restarts = 0
    \/ /\ part = "chat" /\ Chat!Init
       /\ rec = 0 /\ files = 0 /\ phase = 0 /\ staged = 0 /\ new = 0 /\ backup = 0
       /\ entries = 0 /\ evidence = 0 /\ evBackup = 0 /\ intent = 0 /\ mode = 0
       /\ cur = 0 /\ clock = 0 /\ ack = 0 /\ pc = 0 /\ faulted = 0 /\ db = 0
       /\ env = 0 /\ sec = 0 /\ history = 0 /\ gate = 0 /\ txn = 0 /\ next = 0
       /\ crashes = 0 /\ rcpt = 0 /\ chunks = 0 /\ rows = 0 /\ target = 0 /\ did = 0
       /\ tomb = 0 /\ born = 0 /\ own = 0 /\ at = 0 /\ todo = 0 /\ snap = 0
       /\ out = 0 /\ faults = 0 /\ disk = 0 /\ roots = 0 /\ active = 0 /\ work = 0
       /\ writer = 0 /\ guard = 0 /\ job = 0 /\ up = 0 /\ folder = 0 /\ present = 0
       /\ signature = 0 /\ lock = 0 /\ synced = 0 /\ edited = 0 /\ restarts = 0
    \/ /\ part = "news" /\ News!Init
       /\ rec = 0 /\ files = 0 /\ phase = 0 /\ staged = 0 /\ new = 0 /\ backup = 0
       /\ entries = 0 /\ evidence = 0 /\ evBackup = 0 /\ intent = 0 /\ mode = 0
       /\ cur = 0 /\ ack = 0 /\ pc = 0 /\ faulted = 0 /\ db = 0 /\ env = 0 /\ sec = 0
       /\ history = 0 /\ gate = 0 /\ txn = 0 /\ next = 0 /\ crashes = 0 /\ rcpt = 0
       /\ chunks = 0 /\ target = 0 /\ did = 0 /\ tomb = 0 /\ born = 0 /\ own = 0
       /\ at = 0 /\ todo = 0 /\ snap = 0 /\ out = 0 /\ faults = 0 /\ disk = 0
       /\ roots = 0 /\ active = 0 /\ work = 0 /\ guard = 0 /\ job = 0 /\ up = 0
       /\ provider = 0 /\ switches = 0 /\ convs = 0 /\ logs = 0

\* What the parts leave alone.
NotArtifactTransaction == <<part, db, env, sec, history, gate, txn, next, crashes,
                            rcpt, chunks, rows, target, did, tomb, born, own, at,
                            todo, snap, out, faults, disk, roots, active, work,
                            writer, guard, job, req, up, provider, switches, convs,
                            logs, folder, present, signature, lock, synced, edited,
                            restarts>>
NotCredentialRotation == <<part, rec, files, phase, staged, new, backup, entries,
                           evidence, evBackup, intent, mode, cur, clock, ack, faulted,
                           rcpt, chunks, rows, target, did, tomb, born, own, at, todo,
                           snap, out, faults, disk, roots, active, work, writer,
                           guard, job, req, up, provider, switches, convs, logs,
                           folder, present, signature, lock, synced, edited, restarts>>
NotJobReceipts == <<part, rec, files, phase, staged, new, backup, entries, evidence,
                    evBackup, intent, mode, cur, clock, ack, faulted, db, env, sec,
                    history, gate, txn, next, crashes, disk, roots, active, work,
                    writer, guard, job, req, up, provider, switches, convs, logs,
                    folder, present, signature, lock, synced, edited, restarts>>
NotKnowledgeIndex == <<part, rec, files, phase, staged, new, backup, entries,
                       evidence, evBackup, intent, mode, cur, clock, ack, pc, faulted,
                       env, sec, history, gate, txn, next, crashes, rcpt, chunks,
                       rows, target, did, tomb, born, own, at, todo, snap, out,
                       faults, provider, switches, convs, logs, folder, present,
                       signature, lock, synced, edited, restarts>>
NotAiChat == <<part, rec, files, phase, staged, new, backup, entries, evidence,
               evBackup, intent, mode, cur, clock, ack, pc, faulted, db, env, sec,
               history, gate, txn, next, crashes, rcpt, chunks, rows, target, did,
               tomb, born, own, at, todo, snap, out, faults, disk, roots, active,
               work, writer, guard, job, up, folder, present, signature, lock, synced,
               edited, restarts>>
NotNewsletterSync == <<part, rec, files, phase, staged, new, backup, entries,
                       evidence, evBackup, intent, mode, cur, ack, pc, faulted, db,
                       env, sec, history, gate, txn, next, crashes, rcpt, chunks,
                       target, did, tomb, born, own, at, todo, snap, out, faults,
                       disk, roots, active, work, guard, job, up, provider, switches,
                       convs, logs>>

Next ==
    \/ part = "artifact" /\ Artifact!Next /\ UNCHANGED NotArtifactTransaction
    \/ part = "rerun" /\ Rerun!Next /\ UNCHANGED NotCredentialRotation
    \/ part = "receipts" /\ Receipt!Next /\ UNCHANGED NotJobReceipts
    \/ part = "index" /\ Index!Next /\ UNCHANGED NotKnowledgeIndex
    \/ part = "chat" /\ Chat!Next /\ UNCHANGED NotAiChat
    \/ part = "news" /\ News!Next /\ UNCHANGED NotNewsletterSync

Spec == Init /\ [][Next]_vars

\* A process, thread or request that has been started goes on: waits for SQLite,
\* for a provider and for a lock that is free come to an end. The service restarts,
\* the operator runs an interrupted rotation again, and later requests replay
\* the receipts they find. Nothing is assumed of arrivals, crashes and errors.
Fairness ==
    /\ WF_vars(part = "artifact" /\ Artifact!Step /\ UNCHANGED NotArtifactTransaction)
    /\ WF_vars(part = "rerun" /\ Rerun!Driver /\ UNCHANGED NotCredentialRotation)
    /\ WF_vars(part = "rerun" /\ Rerun!Child /\ UNCHANGED NotCredentialRotation)
    /\ WF_vars(part = "rerun" /\ Rerun!Start /\ UNCHANGED NotCredentialRotation)
    /\ \A i \in {p1, p2} : WF_vars(part = "receipts" /\ Receipt!Step(i) /\ UNCHANGED NotJobReceipts)
    /\ \A x \in {r1, r2} :
          WF_vars(/\ part = "receipts" /\ (\E i \in {p1, p2} : Receipt!Replay(i, x))
                  /\ UNCHANGED NotJobReceipts)
    /\ WF_vars(part = "index" /\ Index!reset_stale_indexing_folders /\ UNCHANGED NotKnowledgeIndex)
    /\ WF_vars(part = "index" /\ Index!Thread(1) /\ UNCHANGED NotKnowledgeIndex)
    /\ WF_vars(part = "index" /\ Index!reindex_folder(r1) /\ UNCHANGED NotKnowledgeIndex)
    /\ \A r \in {r1, r2} :
          /\ WF_vars(part = "chat" /\ Chat!Works(r) /\ UNCHANGED NotAiChat)
          /\ WF_vars(part = "news" /\ News!Works(r) /\ UNCHANGED NotNewsletterSync)

FairSpec == Spec /\ Fairness

------------------------------------------------------------------------------
\* Recovery ends: it never takes up a journal again that it has dealt with, and
\* the start of the service waits for it (_recover_transactions_unlocked).
RecoveryEnds ==
    (part = "artifact" /\ pc = "scan") ~> (part = "artifact" => pc \in {"idle", "down"})

\* "If the process is interrupted ... run the same command again"
\* (credential-rotation.md): a rotation that has a journal is completed.
Completes ==
    (part = "rerun" /\ Rerun!Phase # 0) ~> (part = "rerun" => Rerun!Phase = Rerun!COMPLETE)

\* Without faults all receipts are eventually acknowledged and removed, although
\* two processes replay each other's (acknowledge_pending_result). A receipt is
\* made once, and a chat or a newsletter request arrives once.
Drains ==
    (part = "receipts" /\ \E x \in {r1, r2} : Receipt!Pending(x)) ~>
        (part = "receipts" => \A x \in {r1, r2} : ~Receipt!Pending(x))

\* What a request has started comes to an end: a folder does not stay at
\* indexing, in spite of crashes of the thread; every chat and every change of a
\* conversation ends, whatever the provider, the browser and the other requests
\* do, a stream that was not cut off with exactly one done or error; and so does
\* every read, sync and edit of newsletters, although a sync that has inserted an
\* issue may wait for the lock of a read that waits for the sync's database lock
\* (_run_background_reindex, chat_stream, refresh_if_changed).
WorkEnds ==
    /\ (part = "index" /\ db.folder[1].status = "indexing") ~>
          (part = "index" => db.folder[1].status # "indexing")
    /\ [](part = "chat" => Chat!DoneOrError)
    /\ (part = "chat" /\ \E r \in {r1, r2} : Chat!Active(r)) ~>
          (part = "chat" => \A r \in {r1, r2} : ~Chat!Active(r))
    /\ (part = "news" /\ \E r \in {r1, r2} : News!Active(r)) ~>
          (part = "news" => \A r \in {r1, r2} : ~News!Active(r))
==============================================================================
