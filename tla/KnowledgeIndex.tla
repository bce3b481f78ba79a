---------------------------- MODULE KnowledgeIndex ----------------------------
(***************************************************************************)
(* Aero Work's knowledge folders: registered, indexed in the background,   *)
(* searched and deleted.  A thread per folder, claimed in a set in memory, *)
(* scans the disk, extracts, embeds and stores file after file.  Its first *)
(* write takes SQLite's write lock, which it keeps until it reports its    *)
(* progress; work is what the holder of the lock would commit.  A file row *)
(* stands for its chunks too and is found by folder id and name; ids of    *)
(* deleted folders and chunks are given again.                             *)
(***************************************************************************)
EXTENDS Naturals, FiniteSets, FiniteSetsExt

CONSTANTS Paths, Names,    \* directories, and file names in them
          Binary,          \* names whose extractor answers "" when it fails
          Requests,        \* requests that can be under way
          MaxFolder,       \* bound on folder ids
          MaxVersion,      \* bound on the versions of a file
          MaxChunk,        \* bound on chunk ids
          ProgressEvery,   \* files between two commits of the thread
          Models,          \* embedding spaces
          Concurrent,      \* requests may overlap
          Busy,            \* a wait for the write lock can time out
          MaxThreads,      \* indexing threads the process can have at a time
          Fails            \* extraction, embedding and the process can fail

\* What the constants are assumed to be.
KnowledgeAssumption ==
    /\ Concurrent \in BOOLEAN /\ Busy \in BOOLEAN /\ Fails \in BOOLEAN
    /\ MaxThreads \in Nat /\ ProgressEvery \in Nat \ {0}
    /\ MaxFolder \in Nat /\ MaxChunk \in Nat /\ MaxVersion \in Nat
    /\ "none" \notin Paths

None == "none"
Fids == 1..MaxFolder

VARIABLES disk,     \* version of each file, even when it is not there
          roots,    \* registered directories that exist
          active,   \* embedding space selected by the administrators
          db, work, \* the committed database, and the lock holder's
          writer,   \* the folder whose thread holds the write lock, or 0
          guard,    \* _REINDEXING_FOLDER_IDS
          job,      \* the thread of each folder
          req,      \* requests under way
          up        \* the process runs

vars == <<disk, roots, active, db, work, writer, guard, job, req, up>>

NoText == [p |-> None, v |-> 0]
NoFolder == [path |-> None, status |-> None]
NoFile == [sig |-> NoText, text |-> NoText, model |-> None, chunk |-> 0]
NoJob == [pc |-> None, model |-> None, copy |-> NoFolder, scan |-> [n \in Names |-> 0],
          rows |-> [n \in Names |-> NoFile], todo |-> {}, errs |-> {}, n |-> None, text |-> NoText]
NoReq == [op |-> None, id |-> 0, copy |-> NoFolder, rows |-> [n \in Names |-> NoFile]]

Init ==
    /\ disk = [p \in Paths |-> [n \in Names |-> 1]] /\ roots = Paths /\ active \in Models
    /\ db = [folder |-> [f \in Fids |-> NoFolder], file |-> [f \in Fids |-> [n \in Names |-> NoFile]],
             fts |-> [c \in 1..MaxChunk |-> NoText]]
    /\ work = db /\ writer = 0 /\ guard = {} /\ up = TRUE
    /\ job = [f \in Fids |-> NoJob] /\ req = [r \in Requests |-> NoReq]

\* What stat says of a file: its version, 0 when it is not there.
OnDisk(p, n) == IF disk[p][n] % 2 = 1 THEN disk[p][n] ELSE 0

Live(d) == {f \in Fids : d.folder[f] # NoFolder}

-----------------------------------------------------------------------------
(* The database. *)

\* What a thread reads: its own writes while it has the lock.
View(f) == IF writer = f THEN work ELSE db
Mine(f) == writer \in {0, f}

NextFolder == Max({0} \cup Live(db)) + 1
NextChunk(d) == Max({0} \cup {d.file[f][n].chunk : f \in Fids, n \in Names}) + 1

_fts_delete_chunk(fts, chunks) == [c \in DOMAIN fts |-> IF c \in chunks THEN NoText ELSE fts[c]]
\* The entry of a new chunk replaces whatever has its id.
_fts_index_chunk(fts, c, old, text) == IF c = 0 THEN fts ELSE [fts EXCEPT ![c] = text]

\* The file's row and chunks after it was extracted and embedded.
Stored(d, f, n, sig, text, model) ==
    LET old == d.file[f][n].chunk
        c == IF text = NoText THEN 0 ELSE NextChunk(d) IN
    [d EXCEPT !.file[f][n] = [sig |-> sig, text |-> text, model |-> model, chunk |-> c],
              !.fts = _fts_index_chunk(_fts_delete_chunk(@, {old}), c, old, text)]

\* Rows of files that are no longer on the disk go, with their entries.
Removed(d, f, names) ==
    [d EXCEPT !.file[f] = [n \in Names |-> IF n \in names THEN NoFile ELSE @[n]],
              !.fts = _fts_delete_chunk(@, {d.file[f][n].chunk : n \in names})]

\* Neither the file nor the embedding space of its chunks has changed.
Skips(j, n) ==
    /\ j.rows[n] # NoFile /\ j.rows[n].sig = [p |-> j.copy.path, v |-> j.scan[n]]
    /\ j.rows[n].chunk # 0 => j.rows[n].model = j.model

\* Vector search compares with the chunks of the active embedding space.
Row(d, x) == d.file[x[1]][x[2]]
search(d) == {x \in Live(d) \X Names : Row(d, x).chunk # 0 /\ Row(d, x).model = active}
\* Keyword search by the FTS table, and by the chunks themselves.
_keyword_search_fts(d, text) ==
    {x \in Live(d) \X Names : Row(d, x).chunk # 0 /\ d.fts[Row(d, x).chunk] = text}
_keyword_search_like(d, text) ==
    {x \in Live(d) \X Names : Row(d, x).chunk # 0 /\ Row(d, x).text = text}

-----------------------------------------------------------------------------
(* Requests. *)

Free(r) == up /\ req[r] = NoReq /\ (Concurrent \/ \A q \in Requests : req[q] = NoReq)
Done(r) == req' = [req EXCEPT ![r] = NoReq]
Env == <<disk, roots, active, up>>

\* An existing directory whose path is not registered yet; the path is unique,
\* so this check and the insert act as one.
Registrable(p) == p \in roots /\ \A f \in Live(db) : db.folder[f].path # p
register_folder(r) ==
    /\ Free(r) /\ writer = 0 /\ NextFolder <= MaxFolder
    /\ \E p \in Paths : Registrable(p) /\ db' = [db EXCEPT !.folder[NextFolder] = [path |-> p, status |-> "pending"]]
    /\ work' = db' /\ UNCHANGED <<writer, guard, job, req, Env>>

\* Both requests read the folder first, and answer 404 when it is not there.
get_folder(r) ==
    /\ Free(r)
    /\ \E f \in Live(db), op \in {"reindex", "delete"} :
        req' = [req EXCEPT ![r] = [NoReq EXCEPT !.op = op, !.id = f, !.copy = db.folder[f]]]
    /\ UNCHANGED <<db, work, writer, guard, job, Env>>

_try_claim_reindex(r) ==
    LET q == req[r] IN
    /\ q.op = "reindex"
    /\ IF q.id \in guard THEN Done(r) /\ UNCHANGED guard
       ELSE guard' = guard \cup {q.id} /\ req' = [req EXCEPT ![r].op = "start"]
    /\ UNCHANGED <<db, work, writer, job, Env>>

\* The status is committed and the thread started.  The row is written only
\* where it differs from the copy; the claim is given back when the row is
\* gone by then, the lock does not come free, or the thread cannot start.
reindex_folder(r) ==
    LET q == req[r]
        gone == q.id \notin Live(db) /\ q.copy.status # "indexing"
        starts == Cardinality({f \in Fids : job[f] # NoJob}) < MaxThreads IN
    /\ q.op = "start"
    /\ \/ /\ writer = 0 /\ ~gone /\ starts
          /\ job' = [job EXCEPT ![q.id] = [NoJob EXCEPT !.pc = "begin"]] /\ UNCHANGED guard
       \/ /\ gone \/ (Busy /\ writer # 0) \/ (writer = 0 /\ ~starts)
          /\ guard' = guard \ {q.id} /\ UNCHANGED job
    /\ db' = IF writer = 0 /\ q.id \in Live(db) /\ q.copy.status # "indexing"
             THEN [db EXCEPT !.folder[q.id].status = "indexing"] ELSE db
    /\ work' = IF writer = 0 THEN db' ELSE work
    /\ Done(r) /\ UNCHANGED <<writer, Env>>

\* Mutant: no look at the set of running threads.
delete_folder_unguarded(r) ==
    /\ req[r].op = "delete"
    /\ req' = [req EXCEPT ![r].op = "remove", ![r].rows = db.file[req[r].id]]
    /\ UNCHANGED <<db, work, writer, guard, job, Env>>

\* 409 while a thread has the folder; else the rows of the folder are read...
delete_folder(r) ==
    LET q == req[r] IN
    /\ q.op = "delete"
    /\ IF q.id \in guard THEN Done(r)
       ELSE req' = [req EXCEPT ![r].op = "remove", ![r].rows = db.file[q.id]]
    /\ UNCHANGED <<db, work, writer, guard, job, Env>>

\* ... their entries deleted, and the folder with all the rows it has by now.
Delete(r) ==
    LET q == req[r] IN
    /\ q.op = "remove" /\ writer = 0
    /\ db' = [db EXCEPT !.folder[q.id] = NoFolder, !.file[q.id] = [n \in Names |-> NoFile],
                        !.fts = _fts_delete_chunk(@, {q.rows[n].chunk : n \in Names})]
    /\ work' = db' /\ Done(r) /\ UNCHANGED <<writer, guard, job, Env>>

-----------------------------------------------------------------------------
(* The thread of folder f. *)

Job(f, j) == job' = [job EXCEPT ![f] = j]
Commit(f, d) == Mine(f) /\ db' = d /\ work' = d /\ writer' = 0
Write(f, d) == Mine(f) /\ work' = d /\ writer' = f /\ UNCHANGED db
NoWrite == UNCHANGED <<db, work, writer>>
\* An exception nobody expected: what was not committed is rolled back.
Rollback(f) ==
    /\ work' = IF writer = f THEN db ELSE work
    /\ writer' = IF writer = f THEN 0 ELSE writer
    /\ UNCHANGED db
Rest == UNCHANGED <<guard, req, Env>>

\* A session and an embedder of its own, then the folder and the disk are
\* read; a folder that is gone, or whose directory is, ends the thread.
_scan_disk(f) ==
    LET w == db.folder[f]
        scan == [n \in Names |-> OnDisk(w.path, n)]
        rows == db.file[f]
        gone == {n \in Names : rows[n] # NoFile /\ scan[n] = 0} IN
    /\ job[f].pc = "begin"
    /\ IF w = NoFolder THEN Job(f, [NoJob EXCEPT !.pc = "close"]) /\ NoWrite
       ELSE IF w.path \notin roots
       THEN Job(f, [NoJob EXCEPT !.pc = "close"]) /\ Commit(f, [db EXCEPT !.folder[f].status = "error"])
       ELSE /\ Job(f, [NoJob EXCEPT !.pc = "file", !.model = active, !.copy = w, !.scan = scan,
                                    !.rows = rows, !.todo = {n \in Names : scan[n] # 0}])
            /\ IF gone = {} THEN NoWrite ELSE Write(f, Removed(db, f, gone))
    /\ Rest

\* What follows a file: every ProgressEvery files, and after the last, the
\* thread commits, unless its folder is gone.
Reports(j) ==
    LET total == Cardinality({n \in Names : j.scan[n] # 0})
        processed == total - Cardinality(j.todo) IN
    processed % ProgressEvery = 0 \/ processed = total
Progress(f, j, d) ==
    IF Reports(j) /\ f \in Live(d) THEN Commit(f, d)
    ELSE IF d = View(f) THEN NoWrite ELSE Write(f, d)

Unreadable(p, n) == Fails \/ OnDisk(p, n) = 0
\* What the extractor of a file returns: its text as it is now, and, for the
\* formats whose extractor catches every exception, "" when it cannot be read.
Texts(p, n) ==
    (IF OnDisk(p, n) = 0 THEN {} ELSE {[p |-> p, v |-> OnDisk(p, n)]})
        \cup (IF n \in Binary /\ Unreadable(p, n) THEN {NoText} ELSE {})

\* The next file: skipped, or its text is extracted now; an error to read it
\* is counted and leaves its row as it was.
extract_text(f) ==
    LET j == job[f] IN
    /\ j.pc = "file" /\ j.todo # {}
    /\ \E n \in j.todo :
        LET next == [j EXCEPT !.todo = @ \ {n}] IN
        IF Skips(j, n) THEN Job(f, next) /\ Progress(f, next, View(f))
        ELSE /\ NoWrite
             /\ \/ \E t \in Texts(j.copy.path, n) : Job(f, [next EXCEPT !.pc = "embed", !.n = n, !.text = t])
                \/ Unreadable(j.copy.path, n) /\ n \notin Binary /\ Job(f, [next EXCEPT !.errs = @ \cup {n}])
    /\ Rest

\* Mutant: the signature is read when the row is written.
Signature_late(f, n) == [p |-> job[f].copy.path, v |-> OnDisk(job[f].copy.path, n)]
\* The signature the scan has seen.
Signature(f, n) == [p |-> job[f].copy.path, v |-> job[f].scan[n]]

\* The row is written: an update of a row, or an insert into a folder, that
\* is gone fails.
Store(f) ==
    LET j == job[f]
        d == View(f)
        next == [j EXCEPT !.pc = "file", !.n = None, !.text = NoText] IN
    /\ j.pc = "embed"
    /\ IF f \notin Live(d) \/ (j.rows[j.n] # NoFile /\ d.file[f][j.n] = NoFile)
       THEN Job(f, [NoJob EXCEPT !.pc = "failed"]) /\ Rollback(f)
       ELSE /\ NextChunk(d) <= MaxChunk
            /\ Job(f, next) /\ Progress(f, next, Stored(d, f, j.n, Signature(f, j.n), j.text, j.model))
    /\ Rest

\* The folder's row after its status is set, where that differs from the copy.
SetStatus(d, f, status) ==
    IF job[f].copy.status = status THEN d ELSE [d EXCEPT !.folder[f].status = status]

\* The embedding service does not answer: the status says so, and what was
\* stored so far is kept.
EmbeddingUnavailable(f) ==
    /\ job[f].pc = "embed" /\ job[f].text # NoText /\ Fails
    /\ IF f \notin Live(View(f)) THEN Job(f, [NoJob EXCEPT !.pc = "failed"]) /\ Rollback(f)
       ELSE Job(f, [NoJob EXCEPT !.pc = "close"]) /\ Commit(f, SetStatus(View(f), f, "error"))
    /\ Rest

\* The counts and the status ready.
reindex(f) ==
    /\ job[f].pc = "file" /\ job[f].todo = {}
    /\ IF f \notin Live(View(f)) THEN Job(f, [NoJob EXCEPT !.pc = "failed"]) /\ Rollback(f)
       ELSE Job(f, [NoJob EXCEPT !.pc = "close"]) /\ Commit(f, SetStatus(View(f), f, "ready"))
    /\ Rest

\* Waiting for the lock of another writer ends in "database is locked".
Timeout(f) ==
    /\ Busy /\ job[f].pc \in {"begin", "file", "embed"} /\ ~Mine(f)
    /\ Job(f, [NoJob EXCEPT !.pc = "failed"]) /\ NoWrite /\ Rest

\* After the rollback the status becomes error, in a transaction of its own,
\* which can itself time out.
_run_background_reindex(f) ==
    /\ job[f].pc = "failed" /\ Job(f, [NoJob EXCEPT !.pc = "close"])
    /\ \/ f \in Live(db) /\ Commit(f, [db EXCEPT !.folder[f].status = "error"])
       \/ (f \notin Live(db) \/ (Busy /\ writer # 0)) /\ NoWrite
    /\ Rest

_release_reindex(f) ==
    /\ job[f].pc = "close"
    /\ guard' = guard \ {f} /\ Job(f, NoJob) /\ UNCHANGED <<db, work, writer, req, Env>>

-----------------------------------------------------------------------------
(* The surroundings. *)

\* A file is created, changed or deleted.
Edit ==
    /\ \E p \in roots, n \in Names, v \in 1..MaxVersion :
        /\ v = disk[p][n] + 1 \/ (v = disk[p][n] + 2 /\ v % 2 = 1)
        /\ disk' = [disk EXCEPT ![p][n] = v]
    /\ UNCHANGED <<roots, active, db, work, writer, guard, job, req, up>>

\* A directory is deleted.
Unmount ==
    /\ Fails /\ \E p \in roots : roots' = roots \ {p} /\ disk' = [disk EXCEPT ![p] = [n \in Names |-> @[n] + (@[n] % 2)]]
    /\ UNCHANGED <<active, db, work, writer, guard, job, req, up>>

\* An administrator selects another provider.
build_embedder ==
    /\ active' \in Models \ {active}
    /\ UNCHANGED <<disk, roots, db, work, writer, guard, job, req, up>>

Crash ==
    /\ Fails /\ up
    /\ up' = FALSE /\ work' = db /\ writer' = 0 /\ guard' = {}
    /\ job' = [f \in Fids |-> NoJob] /\ req' = [r \in Requests |-> NoReq]
    /\ UNCHANGED <<disk, roots, active, db>>

\* Startup turns a status left at indexing into error.
reset_stale_indexing_folders ==
    /\ ~up /\ up' = TRUE
    /\ db' = [db EXCEPT !.folder = [f \in Fids |->
                IF @[f].status = "indexing" THEN [@[f] EXCEPT !.status = "error"] ELSE @[f]]]
    /\ work' = db'
    /\ UNCHANGED <<disk, roots, active, writer, guard, job, req>>

Thread(f) ==
    \/ _scan_disk(f) \/ extract_text(f) \/ Store(f) \/ EmbeddingUnavailable(f) \/ reindex(f)
    \/ Timeout(f) \/ _run_background_reindex(f) \/ _release_reindex(f)

Next ==
    \/ \E r \in Requests :
        \/ register_folder(r) \/ get_folder(r) \/ _try_claim_reindex(r) \/ reindex_folder(r)
        \/ delete_folder(r) \/ Delete(r)
    \/ \E f \in Fids : Thread(f)
    \/ Edit \/ Unmount \/ build_embedder \/ Crash \/ reset_stale_indexing_folders

Spec == Init /\ [][Next]_vars

-----------------------------------------------------------------------------
\* Type correctness; hits of the vector search are rows of live folders, and
\* paths are registered once.
TypeOK ==
    /\ guard \subseteq Fids /\ writer \in 0..MaxFolder
    /\ \A f \in Fids : db.folder[f].status \in {None, "pending", "indexing", "ready", "error"}
    /\ \A f, g \in Live(db) : db.folder[f].path = db.folder[g].path => f = g
    /\ \A x \in search(db) : Row(db, x).text # NoText
    /\ writer = 0 => work = db
    /\ \A f \in Fids : job[f] # NoJob => f \in guard

\* Incremental indexing never takes a stale text for the current one: a row
\* whose signature is that of the file on the disk holds that file's text,
\* although files change while the thread extracts and embeds.
NeverStale ==
    \A f \in Live(db), n \in Names :
        LET x == db.file[f][n] IN
        x # NoFile /\ x.sig.v = disk[x.sig.p][n] => x.text = x.sig

\* The rows of a folder were extracted from its own directory.
FilesBelong ==
    \A f \in Live(db), n \in Names :
        db.file[f][n] # NoFile => db.file[f][n].sig.p = db.folder[f].path

\* A folder does not stay at indexing when nobody indexes it.
StatusHonest ==
    up => \A f \in Live(db) : db.folder[f].status = "indexing" => f \in guard

\* The FTS table and the LIKE fallback find the same chunks.
KeywordAgrees ==
    \A p \in Paths, v \in 1..MaxVersion :
        LET t == [p |-> p, v |-> v] IN _keyword_search_fts(db, t) = _keyword_search_like(db, t)

\* Ready means indexed: when a thread ends well, every file that was read and
\* has not changed since the scan has its text stored in the thread's space.
ReadyIndexed ==
    \A f \in Fids, n \in Names :
        LET j == job[f] IN
        /\ j.pc = "file" /\ job'[f].pc = "close" /\ db'.folder[f].status = "ready"
        /\ j.scan[n] # 0 /\ OnDisk(j.copy.path, n) = j.scan[n] /\ n \notin j.errs
        => db'.file[f][n].text = [p |-> j.copy.path, v |-> j.scan[n]] /\ db'.file[f][n].model = j.model
=============================================================================
