--------------------------- MODULE NewsletterSync ---------------------------
(***************************************************************************)
(* Newsletter issues imported from a folder of files (backend/app/modules/ *)
(* newsletter): the public reads that synchronise the database first when  *)
(* the folder has changed (newsletter_autosync_service.py), the Sync       *)
(* button of the administrator (api/imports.py), the import itself         *)
(* (newsletter_import_service.py) and edits of the imported rows.          *)
(*                                                                         *)
(* An issue is a key and a version of its files; the HTML and the PDF of   *)
(* one issue are one version here.  AutoSyncState is process memory, the   *)
(* rows are the database.  A request's writes are its own until it ends:   *)
(* get_db_session commits them, or rolls them back when the request ends   *)
(* with an error, a 404 included.  From its first flush to then it holds   *)
(* SQLite's write lock, for which others wait up to a timeout.             *)
(***************************************************************************)
EXTENDS Naturals, FiniteSets

CONSTANTS Keys, Requests,
          Kinds,        \* what requests may be: "read", "sync", "edit"
          MaxClock,     \* bound: changes of the folder
          MaxRestarts,  \* bound: restarts of the server
          FolderMoves,  \* the folder may go missing
          Quiet,        \* the folder changes only between requests
          Serial,       \* one request at a time
          NotFound      \* reads may end with 404

\* What the constants are assumed to be.
SyncAssumption ==
    /\ Kinds \subseteq {"read", "sync", "edit"} /\ {MaxClock, MaxRestarts} \subseteq Nat
    /\ "none" \notin Requests
    /\ \A b \in {FolderMoves, Quiet, Serial, NotFound} : b \in BOOLEAN

VARIABLES
    folder,     \* the version of each key's files, 0 if there are none
    present,    \* the folder exists
    clock,      \* changes of the folder so far
    rows,       \* newsletters, as committed
    signature,  \* AutoSyncState.signature
    lock,       \* AutoSyncState.lock: its holder
    writer,     \* SQLite's write lock: its holder
    req,        \* the requests
    synced,     \* ghost: the folder as last imported by this process
    edited,     \* ghost: the folder at an administrator's edit of a row
    restarts

env == <<folder, present, clock>>
vars == <<folder, present, clock, rows, signature, lock, writer, req, synced, edited, restarts>>

None == "none"
NoSig == [k \in Keys |-> MaxClock + 1]
Nothing == [k \in Keys |-> 0]
NoRow == [ver |-> 0, active |-> FALSE, title |-> None]
Rows == [ver : 1..MaxClock, active : BOOLEAN, title : {"file", "admin"}] \cup {NoRow}
NoRows == [k \in Keys |-> NoRow]

Idle == [pc |-> "idle", kind |-> None, sig |-> NoSig, found |-> Nothing, did |-> FALSE, blind |-> FALSE,
         copy |-> NoRows, served |-> NoRows, result |-> None]

TypeOK ==
    /\ folder \in [Keys -> 0..MaxClock] /\ present \in BOOLEAN /\ clock \in 0..MaxClock
    /\ rows \in [Keys -> Rows]
    /\ {signature, synced} \subseteq [Keys -> 0..(MaxClock + 1)]
    /\ edited \in [Keys -> [Keys -> 0..(MaxClock + 1)]]
    /\ {lock, writer} \subseteq Requests \cup {None}
    /\ \A r \in Requests :
         /\ req[r].pc \in {"idle", "wait", "scan", "load", "insert", "update", "serve", "end"}
         /\ req[r].kind \in {None, "read", "sync", "edit"}
         /\ req[r].copy \in [Keys -> Rows] /\ req[r].served \in [Keys -> Rows]
         /\ req[r].result \in {None, "ok", "error"}
    /\ restarts \in 0..MaxRestarts

----------------------------------------------------------------------------

\* compute_signature, and the scan: what the folder holds now.
Files == IF present THEN folder ELSE Nothing

Active(r) == req[r].pc \notin {"idle", "end"}
Arrives(r, kind) ==
    /\ req[r].pc = "idle" /\ kind \in Kinds
    /\ Serial => \A s \in Requests : ~Active(s)
Goes(r, new) == req' = [req EXCEPT ![r] = new]

\* Leaving the request: its session and what it holds are given back.
Release(r, held) == IF held = r THEN None ELSE held

\* The columns that differ from the copy that was read are written.
Merge(now, copy, new) ==
    IF copy = NoRow THEN new
    ELSE [c \in DOMAIN now |-> IF new[c] # copy[c] THEN new[c] ELSE now[c]]

\* What an import makes of a row whose files are there ...
Imported(copy, ver) == [ver |-> ver, active |-> TRUE, title |-> "file"]

\* ... and of one whose files are gone.
Deactivated(copy) == [copy EXCEPT !.active = FALSE]

\* The objects of the session of r, after the import if there was one.
Objects(r) ==
    [k \in Keys |->
        IF ~req[r].did THEN req[r].copy[k]
        ELSE IF req[r].found[k] # 0 THEN Imported(req[r].copy[k], req[r].found[k])
        ELSE Deactivated(req[r].copy[k])]

Created(r) == {k \in Keys : req[r].copy[k] = NoRow /\ Objects(r)[k] # NoRow}
Dirty(r) == Objects(r) # req[r].copy

\* The rows once the session is flushed.
Applied(r) ==
    [k \in Keys |-> IF Objects(r)[k] = req[r].copy[k] THEN rows[k]
                    ELSE Merge(rows[k], req[r].copy[k], Objects(r)[k])]

\* An exception: the session is rolled back, the lock is left.
Fail(r) ==
    /\ Goes(r, [req[r] EXCEPT !.pc = "end", !.result = "error"])
    /\ writer' = Release(r, writer)
    /\ lock' = Release(r, lock)
    /\ UNCHANGED <<env, rows, signature, synced, edited, restarts>>

----------------------------------------------------------------------------
(* A public read, up to the import.                                        *)

\* A missing folder is not an empty one: the read goes on without an import.
auto_sync_newsletters(r) ==
    /\ Arrives(r, "read")
    /\ Goes(r, [Idle EXCEPT !.kind = "read", !.pc = IF present THEN "wait" ELSE "serve"])
    /\ UNCHANGED <<env, rows, signature, lock, writer, synced, edited, restarts>>

\* Under the lock: the folder is as it was at the last import, or it is not.
refresh_if_changed(r) ==
    /\ req[r].pc = "wait" /\ lock = None
    /\ IF Files = signature
       THEN Goes(r, [req[r] EXCEPT !.pc = "serve", !.sig = Files]) /\ UNCHANGED lock
       ELSE Goes(r, [req[r] EXCEPT !.pc = "scan", !.sig = Files]) /\ lock' = r
    /\ UNCHANGED <<env, rows, signature, writer, synced, edited, restarts>>

----------------------------------------------------------------------------
(* The import, for a read and for the administrator's Sync.                *)

sync_newsletters(r) ==
    /\ Arrives(r, "sync")
    /\ Goes(r, [Idle EXCEPT !.kind = "sync", !.pc = "scan"])
    /\ UNCHANGED <<env, rows, signature, lock, writer, synced, edited, restarts>>

scan(r) ==
    /\ req[r].pc = "scan"
    /\ Goes(r, [req[r] EXCEPT !.pc = "load", !.found = Files, !.did = TRUE, !.blind = ~present])
    /\ UNCHANGED <<env, rows, signature, lock, writer, synced, edited, restarts>>

\* get_by_source_identifier and list_imported_with_external_assets.
Load(r) ==
    /\ req[r].pc = "load"
    /\ Goes(r, [req[r] EXCEPT !.pc = "insert", !.copy = rows])
    /\ UNCHANGED <<env, rows, signature, lock, writer, synced, edited, restarts>>

\* A new issue is flushed at once; its identifier is unique.
_upsert_issue(r) ==
    /\ req[r].pc = "insert"
    /\ Created(r) # {} => writer = None
    /\ IF \E k \in Created(r) : rows[k] # NoRow THEN Fail(r)
       ELSE /\ Goes(r, [req[r] EXCEPT !.pc = "update"])
            /\ writer' = IF Created(r) # {} THEN r ELSE writer
            /\ UNCHANGED <<env, rows, signature, lock, synced, edited, restarts>>

\* The read flushes the rest, notes the folder it compared and leaves the lock.
FlushRead(r) ==
    /\ req[r].pc = "update" /\ req[r].kind = "read"
    /\ Dirty(r) => writer \in {None, r}
    /\ writer' = IF Dirty(r) THEN r ELSE writer
    /\ signature' = req[r].sig
    /\ lock' = Release(r, lock)
    /\ Goes(r, [req[r] EXCEPT !.pc = "serve"])
    /\ UNCHANGED <<env, rows, synced, edited, restarts>>

NoteBaseline_never(r) ==
    /\ req[r].pc = "update" /\ req[r].kind = "sync" /\ lock = None
    /\ Goes(r, [req[r] EXCEPT !.pc = "serve"])
    /\ UNCHANGED <<env, rows, signature, lock, writer, synced, edited, restarts>>

\* The Sync notes the folder as it is after the import.
NoteBaseline(r) ==
    /\ req[r].pc = "update" /\ req[r].kind = "sync" /\ lock = None
    /\ signature' = Files
    /\ Goes(r, [req[r] EXCEPT !.pc = "serve"])
    /\ UNCHANGED <<env, rows, lock, writer, synced, edited, restarts>>

\* An import of another folder than the one an edit was made over ends what is
\* claimed of the edit.
Still(r, k) == IF edited[k] = req[r].found THEN edited[k] ELSE NoSig

\* The handler has read, or written its audit row; the session is committed.
Commit(r) ==
    /\ req[r].pc = "serve" /\ req[r].kind \in {"read", "sync"}
    /\ req[r].kind = "sync" => writer \in {None, r}
    /\ rows' = Applied(r)
    /\ writer' = Release(r, writer)
    /\ synced' = IF req[r].did THEN req[r].found ELSE synced
    /\ edited' = IF req[r].did THEN [k \in Keys |-> Still(r, k)] ELSE edited
    /\ Goes(r, [req[r] EXCEPT !.pc = "end", !.result = "ok", !.served = Applied(r)])
    /\ UNCHANGED <<env, signature, lock, restarts>>

\* No such newsletter: an exception for the session too.
RaiseNotFound(r) ==
    /\ NotFound /\ req[r].pc = "serve" /\ req[r].kind = "read"
    /\ Fail(r)

NeedsWriter(r) ==
    \/ req[r].pc = "insert" /\ Created(r) # {}
    \/ req[r].pc = "update" /\ req[r].kind = "read" /\ Dirty(r)
    \/ req[r].pc = "serve" /\ req[r].kind \in {"sync", "edit"}

LockedDatabase_waits(r) == FALSE /\ Fail(r)

\* 'database is locked': the wait for the write lock timed out.
LockedDatabase(r) ==
    /\ NeedsWriter(r) /\ writer \notin {None, r}
    /\ Fail(r)

----------------------------------------------------------------------------
(* The administrator edits a row: title, or archived (soft_delete).        *)

get_detail_by_id(r) ==
    /\ Arrives(r, "edit")
    /\ \E k \in Keys : rows[k] # NoRow
    /\ Goes(r, [Idle EXCEPT !.kind = "edit", !.pc = "serve", !.copy = rows])
    /\ UNCHANGED <<env, rows, signature, lock, writer, synced, edited, restarts>>

soft_delete(copy) == [copy EXCEPT !.active = FALSE]

update_newsletter(r) ==
    /\ req[r].pc = "serve" /\ req[r].kind = "edit" /\ writer = None
    /\ \E k \in {j \in Keys : req[r].copy[j] # NoRow} :
       \E new \in {[req[r].copy[k] EXCEPT !.title = "admin"],
                   soft_delete(req[r].copy[k])} :
          /\ rows' = [rows EXCEPT ![k] = Merge(@, req[r].copy[k], new)]
          /\ edited' = [edited EXCEPT ![k] = IF synced = Files THEN Files ELSE NoSig]
    /\ Goes(r, [req[r] EXCEPT !.pc = "end", !.result = "ok"])
    /\ UNCHANGED <<env, signature, lock, writer, synced, restarts>>

----------------------------------------------------------------------------
(* The folder and the server.                                              *)

\* Files of an issue are put there or replaced, or removed; versions are new.
ChangeFolder ==
    /\ clock < MaxClock /\ (Quiet => \A r \in Requests : ~Active(r))
    /\ clock' = clock + 1
    /\ \/ /\ \E k \in Keys : folder' \in {[folder EXCEPT ![k] = clock + 1], [folder EXCEPT ![k] = 0]}
          /\ UNCHANGED present
       \/ FolderMoves /\ present' = ~present /\ UNCHANGED folder
    /\ UNCHANGED <<rows, signature, lock, writer, req, synced, edited, restarts>>

Restart ==
    /\ restarts < MaxRestarts
    /\ restarts' = restarts + 1
    /\ signature' = NoSig /\ synced' = NoSig /\ lock' = None /\ writer' = None
    /\ req' = [r \in Requests |->
                 IF Active(r) THEN [req[r] EXCEPT !.pc = "end", !.result = "error"] ELSE req[r]]
    /\ UNCHANGED <<env, rows, edited>>

Init ==
    /\ folder = Nothing /\ present = TRUE /\ clock = 0
    /\ rows = NoRows
    /\ signature = NoSig /\ lock = None /\ writer = None
    /\ req = [r \in Requests |-> Idle]
    /\ synced = NoSig /\ edited = [k \in Keys |-> NoSig] /\ restarts = 0

Works(r) ==
    \/ refresh_if_changed(r) \/ scan(r) \/ Load(r) \/ _upsert_issue(r)
    \/ FlushRead(r) \/ NoteBaseline(r) \/ Commit(r) \/ update_newsletter(r)
    \/ LockedDatabase(r)

Next ==
    \/ ChangeFolder \/ Restart
    \/ \E r \in Requests :
          \/ auto_sync_newsletters(r) \/ sync_newsletters(r) \/ get_detail_by_id(r)
          \/ Works(r) \/ RaiseNotFound(r)

Spec == Init /\ [][Next]_vars

----------------------------------------------------------------------------
(* Properties.                                                             *)

\* A public read that succeeds shows every issue that was in the folder when
\* the read looked at it and still is, in that version.
ReadsFresh ==
    \A r \in Requests : \A k \in Keys :
        (req[r].kind = "read" /\ req[r].result = "ok" /\ present /\ folder[k] # 0 /\ req[r].sig[k] = folder[k]) =>
            req[r].served[k].ver = folder[k]

\* While the folder is as it was imported, a public read leaves alone what an
\* administrator has changed since.
EditSurvives ==
    \A r \in Requests : \A k \in Keys :
          (req[r].kind = "read" /\ req'[r] # req[r] /\ edited[k] = Files) =>
             /\ rows'[k].title = rows[k].title
             /\ rows'[k].active = rows[k].active

\* An import that found the folder missing archives nothing.
MissingHarmless ==
    \A r \in Requests : \A k \in Keys :
          (req[r].blind /\ Active(r) /\ req'[r].pc = "end") =>
             (rows[k].active => rows'[k].active)

\* A request that has ended, with whatever error, holds neither lock.
NothingHeld == \A r \in Requests : ~Active(r) => r \notin {lock, writer}
=============================================================================
