------------------------ MODULE KnowledgeIndex_proofs ------------------------
(***************************************************************************)
(* What indexing keeps: the databases are well formed and a row is never   *)
(* stale, whoever overlaps; with one request at a time the rows of a       *)
(* folder are its own, its status is honest, the table of the search       *)
(* agrees with the rows, and a folder that becomes ready is indexed.       *)
(***************************************************************************)
EXTENDS KnowledgeIndex, TLAPS, FiniteSetTheorems, WellFoundedInduction, NaturalsInduction

-----------------------------------------------------------------------------
(* The types.                                                              *)

Statuses == {"pending", "indexing", "ready", "error"}
Text == [p : Paths \cup {None}, v : Nat]
FolderRow == [path : Paths, status : Statuses] \cup {NoFolder}
FileRow == [sig : Text, text : Text, model : Models \cup {None}, chunk : 0..MaxChunk]
Database == [folder : [Fids -> FolderRow], file : [Fids -> [Names -> FileRow]],
             fts : [1..MaxChunk -> Text]]
Steps == {None, "begin", "file", "embed", "failed", "close"}
Jobs == [pc : Steps, model : Models \cup {None}, copy : FolderRow, scan : [Names -> Nat],
         rows : [Names -> FileRow], todo : SUBSET Names, errs : SUBSET Names,
         n : Names \cup {None}, text : Text]
Queries == [op : {None, "reindex", "start", "delete", "remove"}, id : 0..MaxFolder,
            copy : FolderRow, rows : [Names -> FileRow]]

\* The types of the variables; the lock holder changes files only, and what is
\* not committed is the holder's.
Typed ==
    /\ disk \in [Paths -> [Names -> Nat]] /\ roots \in SUBSET Paths
    /\ active \in Models /\ up \in BOOLEAN
    /\ db \in Database /\ work \in Database
    /\ writer \in 0..MaxFolder /\ guard \in SUBSET Fids
    /\ job \in [Fids -> Jobs] /\ req \in [Requests -> Queries]
    /\ \A f \in Fids : job[f].pc = "embed" => job[f].n \in Names
    /\ \A f \in Fids : job[f].pc \in {"file", "embed"} => job[f].copy.path \in Paths
    /\ \A r \in Requests : req[r].op # None => req[r].id \in Fids
    /\ work.folder = db.folder /\ (writer = 0 => work = db)

-----------------------------------------------------------------------------
(* Rows that are not stale.                                                *)

\* A text that goes with version v of a file is that version's, unless the file
\* has changed since.
Good(p, n, v, text) ==
    v <= disk[p][n] /\ (v = disk[p][n] => text = [p |-> p, v |-> v])

RowsGood(d) ==
    \A f \in Fids, n \in Names : d.file[f][n] # NoFile =>
        /\ d.file[f][n].sig.p \in Paths
        /\ Good(d.file[f][n].sig.p, n, d.file[f][n].sig.v, d.file[f][n].text)

\* A scan saw files that were there, and a thread holds a text for what it saw.
JobGood(j) ==
    /\ j.pc \in {"file", "embed"} => \A n \in Names :
          j.scan[n] # 0 => j.scan[n] % 2 = 1 /\ j.scan[n] <= disk[j.copy.path][n]
    /\ j.pc \in {"file", "embed"} => \A n \in j.todo : j.scan[n] # 0
    /\ j.pc = "embed" => Good(j.copy.path, j.n, j.scan[j.n], j.text)

Fresh == RowsGood(db) /\ RowsGood(work) /\ \A f \in Fids : JobGood(job[f])

-----------------------------------------------------------------------------
(* Claims.                                                                 *)

\* A folder has at most one claim, by a request or by a thread; there is none
\* while the process is down.
Claimed ==
    /\ \A f \in Fids : job[f].pc # None => f \in guard
    /\ \A f \in Fids : job[f].pc = None => job[f] = NoJob
    /\ \A r \in Requests : req[r].op = "start" =>
          req[r].id \in guard /\ job[req[r].id] = NoJob
    /\ \A r, s \in Requests : req[r].op = "start" /\ req[s].op = "start"
                                /\ req[r].id = req[s].id => r = s
    /\ up = FALSE => (\A f \in Fids : job[f] = NoJob) /\ \A r \in Requests : req[r] = NoReq

\* Chunks stand for a text, and paths are registered once.
RowsSound ==
    /\ \A f \in Fids, n \in Names : db.file[f][n].chunk # 0 => db.file[f][n].text # NoText
    /\ \A f \in Fids, n \in Names : work.file[f][n].chunk # 0 => work.file[f][n].text # NoText
    /\ \A f, g \in Live(db) : db.folder[f].path = db.folder[g].path => f = g

-----------------------------------------------------------------------------
(* One request at a time.                                                  *)

\* A folder with a request or a thread at work is there, and a thread knows it.
Serial ==
    /\ \A r, s \in Requests : req[r].op # None /\ req[s].op # None => r = s
    /\ \A r \in Requests : req[r].op = None => req[r] = NoReq
    /\ \A r \in Requests : req[r].op # None => req[r].id \in Live(db)
    /\ \A r \in Requests : req[r].op = "remove" => req[r].id \notin guard
    /\ \A f \in Fids : job[f].pc # None => f \in Live(db)
    /\ \A f \in Fids : job[f].pc \in {"file", "embed"} => job[f].copy = db.folder[f]

Own(d) ==
    \A f \in Fids, n \in Names : d.file[f][n] # NoFile =>
        f \in Live(d) /\ d.file[f][n].sig.p = d.folder[f].path

Belongs == Own(db) /\ Own(work)

\* The status is honest, and a thread that gives its claim back has set it.
Honest ==
    /\ up = TRUE => \A f \in Fids : db.folder[f].status = "indexing" => f \in guard
    /\ \A f \in Fids : job[f].pc = "close" => db.folder[f].status # "indexing"

-----------------------------------------------------------------------------
(* The search, and what ready means.                                       *)

\* The entry of a chunk is its row's text, and a chunk is one row's.
Indexed(d) ==
    /\ \A f \in Fids, n \in Names : d.file[f][n].chunk # 0 =>
          d.fts[d.file[f][n].chunk] = d.file[f][n].text
    /\ \A f \in Fids, n \in Names : d.file[f][n].chunk = 0 => d.file[f][n].text = NoText
    /\ \A f, g \in Fids, n, m \in Names :
          d.file[f][n].chunk # 0 /\ d.file[f][n].chunk = d.file[g][m].chunk => f = g /\ n = m

Chunks ==
    /\ Indexed(db) /\ Indexed(work)
    /\ \A r \in Requests : req[r].op = "remove" => req[r].rows = db.file[req[r].id]

\* The lock is a working thread's, and what it has not committed are rows of
\* its folder.
Holder ==
    /\ writer # 0 => job[writer].pc \in {"file", "embed"}
    /\ \A f \in Fids \ {writer} : work.file[f] = db.file[f]

\* The files a thread has dealt with are stored as it saw them, and the others
\* are as it found them.
Left(j) == IF j.pc = "embed" THEN j.todo \cup {j.n} ELSE j.todo
KeptRows(j, rows) ==
    j.pc \in {"file", "embed"} =>
        /\ j.pc = "embed" => j.n \notin j.todo
        /\ \A n \in Left(j) : rows[n] = j.rows[n]
        /\ \A n \in Names : j.scan[n] # 0 /\ n \notin Left(j) /\ n \notin j.errs =>
              /\ rows[n].sig = [p |-> j.copy.path, v |-> j.scan[n]]
              /\ rows[n].chunk # 0 => rows[n].model = j.model
Kept == \A f \in Fids : KeptRows(job[f], View(f).file[f])

-----------------------------------------------------------------------------
(* The operators of the model.                                             *)

\* A set of numbers that is bounded has a greatest element, which Max returns.
LEMMA MaxOfBounded ==
    ASSUME NEW N \in Nat, NEW S \in SUBSET (0..N), S # {}
    PROVE  Max(S) \in Nat /\ \A y \in S : y <= Max(S)
<1> DEFINE T == {i \in Nat : \E x \in S : i = N - x}
<1>1. T # {} /\ T \subseteq Nat
  <2>1. PICK x \in S : TRUE
    OBVIOUS
  <2>2. N - x \in T
    OBVIOUS
  <2> QED BY <2>2
<1>2. PICK i \in T : \A j \in T : ~(<<j, i>> \in OpToRel(<, Nat))
  BY <1>1, WFMin, NatLessThanWellFounded
<1>3. ASSUME NEW j \in T PROVE i <= j
  <2>1. <<j, i>> \in Nat \X Nat /\ <<j, i>> \notin OpToRel(<, Nat)
    BY <1>1, <1>2
  <2>2. ~(j < i)
    BY <2>1 DEF OpToRel
  <2> QED BY <1>1, <2>2
<1>4. PICK x \in S : i = N - x
  OBVIOUS
<1>5. \A y \in S : x >= y
  <2> TAKE y \in S
  <2>1. N - y \in T
    OBVIOUS
  <2> QED BY <1>3, <1>4, <2>1
<1>6. PICK m : m = Max(S)
  OBVIOUS
<1>7. m \in S /\ \A y \in S : m >= y
  BY <1>5, <1>6 DEF Max
<1>8. m \in Nat /\ \A y \in S : y <= m
  BY <1>7
<1> QED BY <1>6, <1>8

\* What stands for nothing has the type of what it stands for.
LEMMA NoneTyped ==
    ASSUME KnowledgeAssumption
    PROVE  /\ NoText \in Text /\ NoFile \in FileRow /\ NoFolder \in FolderRow
           /\ NoJob \in Jobs /\ NoReq \in Queries /\ NoJob.pc = None /\ NoReq.op = None
<1>1. NoText \in Text
  BY DEF NoText, Text
<1>2. NoFile \in FileRow
  BY <1>1 DEF NoFile, FileRow, KnowledgeAssumption
<1>3. NoFolder \in FolderRow
  BY DEF FolderRow
<1>4. NoJob \in Jobs /\ NoJob.pc = None
  BY <1>1, <1>2, <1>3 DEF NoJob, Jobs, Steps
<1>5. NoReq \in Queries /\ NoReq.op = None
  BY <1>2, <1>3 DEF NoReq, Queries, KnowledgeAssumption
<1> QED BY <1>1, <1>2, <1>3, <1>4, <1>5

\* The id of a new folder is one that no folder has.
LEMMA NextFolderFree ==
    ASSUME KnowledgeAssumption
    PROVE  NextFolder \in Nat \ {0} /\ NextFolder \notin Live(db)
<1>1. {0} \cup Live(db) \in SUBSET (0..MaxFolder)
  BY DEF Live, Fids, KnowledgeAssumption
<1>2. Max({0} \cup Live(db)) \in Nat /\ \A y \in {0} \cup Live(db) : y <= Max({0} \cup Live(db))
  BY <1>1, MaxOfBounded DEF KnowledgeAssumption
<1> QED BY <1>2 DEF NextFolder

\* The id of a new chunk is a number.
LEMMA NextChunkType ==
    ASSUME KnowledgeAssumption, NEW d \in Database
    PROVE  NextChunk(d) \in Nat \ {0}
<1> DEFINE S == {0} \cup {d.file[f][n].chunk : f \in Fids, n \in Names}
<1>1. S \in SUBSET (0..MaxChunk) /\ S # {}
  BY DEF Database, FileRow, KnowledgeAssumption
<1> HIDE DEF S
<1>2. Max(S) \in Nat
  BY <1>1, MaxOfBounded DEF KnowledgeAssumption
<1> QED BY <1>2 DEF NextChunk, S

\* Storing a file changes its row only, and gives it a chunk only with a text.
LEMMA StoredFacts ==
    ASSUME KnowledgeAssumption, NEW d \in Database, NEW f \in Fids, NEW n \in Names,
           NEW sig \in Text, NEW text \in Text, NEW model \in Models \cup {None},
           NextChunk(d) <= MaxChunk,
           NEW e, e = Stored(d, f, n, sig, text, model)
    PROVE  /\ e \in Database /\ e.folder = d.folder
           /\ e.file[f][n].sig = sig /\ e.file[f][n].text = text /\ e.file[f][n].model = model
           /\ e.file[f][n].chunk # 0 => text # NoText
           /\ \A g \in Fids, m \in Names : <<g, m>> # <<f, n>> => e.file[g][m] = d.file[g][m]
<1>1. PICK c \in 0..MaxChunk : c = IF text = NoText THEN 0 ELSE NextChunk(d)
  BY NextChunkType DEF KnowledgeAssumption
<1>2. PICK row \in FileRow : row = [sig |-> sig, text |-> text, model |-> model, chunk |-> c]
  BY DEF FileRow
<1>3. PICK fts : fts = _fts_index_chunk(_fts_delete_chunk(d.fts, {d.file[f][n].chunk}),
                                        c, d.file[f][n].chunk, text)
  OBVIOUS
<1>4. fts \in [1..MaxChunk -> Text]
  <2>1. NoText \in Text
    BY DEF NoText, Text
  <2>2. _fts_delete_chunk(d.fts, {d.file[f][n].chunk}) \in [1..MaxChunk -> Text]
    BY <2>1 DEF _fts_delete_chunk, Database
  <2> QED BY <1>1, <1>3, <2>2 DEF _fts_index_chunk
<1>5. e = [d EXCEPT !.file[f][n] = row, !.fts = fts]
  BY <1>1, <1>2, <1>3 DEF Stored
<1>6. /\ e.folder = d.folder /\ e.fts = fts
      /\ e.file = [d.file EXCEPT ![f] = [d.file[f] EXCEPT ![n] = row]]
      /\ e = [folder |-> e.folder, file |-> e.file, fts |-> e.fts]
  BY <1>5 DEF Database
<1>7. e \in Database
  <2>1. [d.file[f] EXCEPT ![n] = row] \in [Names -> FileRow]
    BY <1>2 DEF Database
  <2>2. e.file \in [Fids -> [Names -> FileRow]]
    BY <1>6, <2>1 DEF Database
  <2> QED BY <1>4, <1>6, <2>2 DEF Database
<1>8. /\ e.file[f][n] = row
      /\ \A g \in Fids, m \in Names : <<g, m>> # <<f, n>> => e.file[g][m] = d.file[g][m]
  BY <1>6 DEF Database
<1> QED BY <1>1, <1>2, <1>6, <1>7, <1>8

\* Removing rows changes nothing else than them and the table of the search.
LEMMA RemovedFacts ==
    ASSUME KnowledgeAssumption, NEW d \in Database, NEW f \in Fids, NEW names,
           NEW e, e = Removed(d, f, names)
    PROVE  /\ e \in Database /\ e.folder = d.folder
           /\ \A g \in Fids, m \in Names : e.file[g][m] \in {d.file[g][m], NoFile}
<1>1. NoText \in Text /\ NoFile \in FileRow
  BY NoneTyped
<1>2. PICK fts : fts = _fts_delete_chunk(d.fts, {d.file[f][n].chunk : n \in names})
  OBVIOUS
<1>3. fts \in [1..MaxChunk -> Text]
  BY <1>1, <1>2 DEF _fts_delete_chunk, Database
<1>4. PICK rows : rows = [n \in Names |-> IF n \in names THEN NoFile ELSE d.file[f][n]]
  OBVIOUS
<1>5. rows \in [Names -> FileRow]
  BY <1>1, <1>4 DEF Database
<1>6. e = [d EXCEPT !.file[f] = rows, !.fts = fts]
  BY <1>2, <1>4 DEF Removed
<1>7. /\ e.folder = d.folder /\ e.fts = fts /\ e.file = [d.file EXCEPT ![f] = rows]
      /\ e = [folder |-> e.folder, file |-> e.file, fts |-> e.fts]
  BY <1>6 DEF Database
<1>8. e \in Database
  BY <1>3, <1>5, <1>7 DEF Database
<1>9. \A g \in Fids, m \in Names : e.file[g][m] \in {d.file[g][m], NoFile}
  BY <1>4, <1>7 DEF Database
<1> QED BY <1>7, <1>8, <1>9

\* The database d with status s for folder f.
WithStatus(d, f, s) == [d EXCEPT !.folder[f].status = s]

\* Setting the status of a folder that is there changes nothing else.
LEMMA StatusFacts ==
    ASSUME NEW d \in Database, NEW f \in Live(d), NEW s \in Statuses
    PROVE  /\ WithStatus(d, f, s) \in Database /\ WithStatus(d, f, s).file = d.file
           /\ WithStatus(d, f, s).folder[f] = [path |-> d.folder[f].path, status |-> s]
           /\ \A g \in Fids \ {f} : WithStatus(d, f, s).folder[g] = d.folder[g]
<1>0. PICK e : e = WithStatus(d, f, s)
  OBVIOUS
<1>1. f \in Fids /\ d.folder[f] \in [path : Paths, status : Statuses]
  BY DEF Live, Database, FolderRow
<1>2. PICK w : w = [path |-> d.folder[f].path, status |-> s]
  OBVIOUS
<1>3. w \in FolderRow
  BY <1>1, <1>2 DEF FolderRow
<1>4. e.file = d.file /\ e.fts = d.fts /\ e = [folder |-> e.folder, file |-> e.file, fts |-> e.fts]
  BY <1>0 DEF Database, WithStatus
<1>5. e.folder = [d.folder EXCEPT ![f] = w]
  BY <1>0, <1>1, <1>2 DEF Database, WithStatus
<1>6. e \in Database
  BY <1>1, <1>3, <1>4, <1>5 DEF Database
<1> QED BY <1>0, <1>1, <1>2, <1>4, <1>5, <1>6 DEF Database

-----------------------------------------------------------------------------
(* Steps of a thread: the types, and where the rows come from.             *)

\* What a thread stores: a text it has extracted, under the signature it has seen.
Fetched(g, m, x) ==
    /\ job[g].pc = "embed" /\ m = job[g].n
    /\ x.sig = Signature(g, m) /\ x.text = job[g].text
    /\ x.chunk # 0 => x.text # NoText

\* The rows of e are those of the databases, without some, or what was fetched.
RowsFrom(e) ==
    \A g \in Fids, m \in Names :
        \/ e.file[g][m] \in {db.file[g][m], work.file[g][m], NoFile}
        \/ Fetched(g, m, e.file[g][m])

RowsStep == RowsFrom(db') /\ RowsFrom(work')

\* What a thread reads is one of the two databases, the one it may write.
LEMMA ViewFacts ==
    ASSUME Typed, NEW f \in Fids
    PROVE  /\ View(f) \in Database /\ View(f) \in {db, work} /\ View(f).folder = db.folder
           /\ Live(View(f)) = Live(db) /\ RowsFrom(View(f))
BY DEF Typed, View, Live, RowsFrom

\* A commit, a write or neither keeps the databases in order.
LEMMA Saving ==
    ASSUME KnowledgeAssumption, Typed, NEW f \in Fids, NEW d \in Database, RowsFrom(d),
           Commit(f, d) \/ (Write(f, d) /\ d.folder = db.folder) \/ NoWrite
    PROVE  /\ db' \in Database /\ work' \in Database /\ writer' \in 0..MaxFolder
           /\ work'.folder = db'.folder /\ (writer' = 0 => work' = db')
           /\ RowsStep
<1>1. RowsFrom(db) /\ RowsFrom(work)
  BY DEF RowsFrom
<1>2. db' \in {db, d} /\ work' \in {work, d}
  BY DEF Commit, Write, NoWrite
<1>3. RowsStep
  BY <1>1, <1>2 DEF RowsStep
<1>4. f # 0 /\ f \in 0..MaxFolder /\ 0 \in 0..MaxFolder
  BY DEF Fids, KnowledgeAssumption
<1> QED BY <1>3, <1>4 DEF Typed, Commit, Write, NoWrite

\* A thread that rolls back or stops leaves a database as it was.
LEMMA RollingBack ==
    ASSUME KnowledgeAssumption, Typed, NEW f \in Fids, Rollback(f)
    PROVE  /\ db' \in Database /\ work' \in Database /\ writer' \in 0..MaxFolder
           /\ work'.folder = db'.folder /\ (writer' = 0 => work' = db')
           /\ RowsStep
<1>1. RowsFrom(db) /\ RowsFrom(work)
  BY DEF RowsFrom
<1>2. db' = db /\ work' \in {work, db}
  BY DEF Rollback
<1>3. RowsStep
  BY <1>1, <1>2 DEF RowsStep
<1>4. 0 \in 0..MaxFolder
  BY DEF KnowledgeAssumption
<1> QED BY <1>3, <1>4 DEF Typed, Rollback

\* A step of one thread changes its own record and the databases.
LEMMA ThreadTyped ==
    ASSUME Typed, NEW f \in Fids, NEW j \in Jobs, Job(f, j),
           j.pc = "embed" => j.n \in Names,
           j.pc \in {"file", "embed"} => j.copy.path \in Paths,
           UNCHANGED <<req, Env>>, guard' \in SUBSET Fids,
           db' \in Database, work' \in Database, writer' \in 0..MaxFolder,
           work'.folder = db'.folder, writer' = 0 => work' = db'
    PROVE  Typed'
BY DEF Typed, Job, Env

\* The thread's record when it starts, ends or fails.
LEMMA Endings ==
    ASSUME KnowledgeAssumption, NEW pc \in {"begin", "failed", "close"}
    PROVE  /\ [NoJob EXCEPT !.pc = pc] \in Jobs /\ [NoJob EXCEPT !.pc = pc].pc = pc
BY NoneTyped DEF Jobs, Steps

\* A folder that is there has a path, and a status.
LEMMA LiveFolder ==
    ASSUME NEW d \in Database, NEW f \in Live(d)
    PROVE  f \in Fids /\ d.folder[f].path \in Paths /\ d.folder[f].status \in Statuses
BY DEF Live, Database, FolderRow

\* The scan of the directory keeps the types and writes only rows that it
\* already had.
LEMMA ScanStep ==
    ASSUME KnowledgeAssumption, Typed, NEW f \in Fids, _scan_disk(f)
    PROVE  Typed' /\ RowsStep
<1>0. UNCHANGED <<req, Env>> /\ guard' \in SUBSET Fids /\ db \in Database
  BY DEF _scan_disk, Rest, Typed
<1>1. [NoJob EXCEPT !.pc = "close"] \in Jobs /\ [NoJob EXCEPT !.pc = "close"].pc = "close"
  BY Endings
<1>2. CASE Job(f, [NoJob EXCEPT !.pc = "close"]) /\ NoWrite
  <2>1. RowsFrom(db)
    BY DEF RowsFrom
  <2>2. /\ db' \in Database /\ work' \in Database /\ writer' \in 0..MaxFolder
        /\ work'.folder = db'.folder /\ (writer' = 0 => work' = db') /\ RowsStep
    BY <1>0, <1>2, <2>1, Saving
  <2> QED BY <1>0, <1>1, <1>2, <2>2, ThreadTyped
<1>3. CASE /\ db.folder[f] # NoFolder /\ Job(f, [NoJob EXCEPT !.pc = "close"])
           /\ Commit(f, [db EXCEPT !.folder[f].status = "error"])
  <2>1. PICK d : d = WithStatus(db, f, "error")
    OBVIOUS
  <2>2. d \in Database /\ d.file = db.file
    <3>1. PICK s \in Statuses : s = "error"
      BY DEF Statuses
    <3>2. f \in Live(db) /\ d = WithStatus(db, f, s)
      BY <1>3, <2>1, <3>1 DEF Live
    <3> QED BY <1>0, <3>2, StatusFacts
  <2>3. RowsFrom(d)
    BY <2>2 DEF RowsFrom
  <2>4. /\ db' \in Database /\ work' \in Database /\ writer' \in 0..MaxFolder
        /\ work'.folder = db'.folder /\ (writer' = 0 => work' = db') /\ RowsStep
    BY <1>3, <2>1, <2>2, <2>3, Saving DEF WithStatus
  <2> QED BY <1>0, <1>1, <1>3, <2>4, ThreadTyped
<1>4. CASE db.folder[f] # NoFolder /\ db.folder[f].path \in roots
  <2> DEFINE w == db.folder[f]
             scan == [n \in Names |-> OnDisk(w.path, n)]
             rows == db.file[f]
             gone == {n \in Names : rows[n] # NoFile /\ scan[n] = 0}
             todo == {n \in Names : scan[n] # 0}
  <2>1. PICK j : j = [NoJob EXCEPT !.pc = "file", !.model = active, !.copy = w, !.scan = scan,
                                   !.rows = rows, !.todo = todo]
    OBVIOUS
  <2>2. Job(f, j) /\ (NoWrite \/ Write(f, Removed(db, f, gone)))
    BY <1>4, <2>1 DEF _scan_disk
  <2>3. w.path \in Paths /\ w \in FolderRow /\ rows \in [Names -> FileRow] /\ active \in Models
    BY <1>0, <1>4 DEF Typed, Database
  <2>4. scan \in [Names -> Nat]
    <3>1. \A n \in Names : disk[w.path][n] \in Nat
      BY <2>3 DEF Typed
    <3>2. \A n \in Names : OnDisk(w.path, n) \in Nat
      BY <3>1 DEF OnDisk
    <3> QED BY <3>2
  <2>5. todo \in SUBSET Names
    OBVIOUS
  <2> HIDE DEF scan, todo, gone
  <2>6. j \in Jobs /\ j.pc = "file" /\ j.copy = w
    BY <2>1, <2>3, <2>4, <2>5, NoneTyped DEF Jobs, Steps
  <2>7. PICK d : d = Removed(db, f, gone)
    OBVIOUS
  <2>8. d \in Database /\ d.folder = db.folder /\ RowsFrom(d)
    BY <1>0, <2>7, RemovedFacts DEF RowsFrom
  <2>9. /\ db' \in Database /\ work' \in Database /\ writer' \in 0..MaxFolder
        /\ work'.folder = db'.folder /\ (writer' = 0 => work' = db') /\ RowsStep
    BY <2>2, <2>7, <2>8, Saving
  <2> QED BY <1>0, <2>2, <2>3, <2>6, <2>9, ThreadTyped
<1> QED BY <1>2, <1>3, <1>4 DEF _scan_disk

\* What follows a file commits, writes, or does neither.
LEMMA ProgressFacts ==
    ASSUME NEW f, NEW j, NEW d, Progress(f, j, d)
    PROVE  Commit(f, d) \/ Write(f, d) \/ NoWrite
BY DEF Progress

\* So does reading the text of one file, which is skipped or left to be
\* embedded.
LEMMA ExtractStep ==
    ASSUME KnowledgeAssumption, Typed, NEW f \in Fids, extract_text(f)
    PROVE  Typed' /\ RowsStep
<1>0. /\ UNCHANGED <<req, Env>> /\ guard' \in SUBSET Fids
      /\ job[f] \in Jobs /\ job[f].pc = "file" /\ job[f].copy.path \in Paths
  BY DEF extract_text, Rest, Typed
<1>1. PICK n \in job[f].todo :
        LET next == [job[f] EXCEPT !.todo = @ \ {n}] IN
        IF Skips(job[f], n) THEN Job(f, next) /\ Progress(f, next, View(f))
        ELSE /\ NoWrite
             /\ \/ \E t \in Texts(job[f].copy.path, n) :
                      Job(f, [next EXCEPT !.pc = "embed", !.n = n, !.text = t])
                \/ Unreadable(job[f].copy.path, n) /\ n \notin Binary
                     /\ Job(f, [next EXCEPT !.errs = @ \cup {n}])
  BY DEF extract_text
<1>2. n \in Names
  BY <1>0 DEF Jobs
<1>3. PICK next : next = [job[f] EXCEPT !.todo = @ \ {n}]
  OBVIOUS
<1>4. next \in Jobs /\ next.pc = "file" /\ next.copy = job[f].copy
  BY <1>0, <1>3 DEF Jobs
<1>5. CASE Job(f, next) /\ Progress(f, next, View(f))
  <2>1. Commit(f, View(f)) \/ Write(f, View(f)) \/ NoWrite
    BY <1>5, ProgressFacts
  <2>2. /\ db' \in Database /\ work' \in Database /\ writer' \in 0..MaxFolder
        /\ work'.folder = db'.folder /\ (writer' = 0 => work' = db') /\ RowsStep
    BY <2>1, ViewFacts, Saving
  <2> QED BY <1>0, <1>4, <1>5, <2>2, ThreadTyped
<1>6. ASSUME NoWrite
      PROVE  /\ db' \in Database /\ work' \in Database /\ writer' \in 0..MaxFolder
             /\ work'.folder = db'.folder /\ (writer' = 0 => work' = db') /\ RowsStep
  BY <1>6, ViewFacts, Saving
<1>7. ASSUME NoWrite, NEW t \in Texts(job[f].copy.path, n),
             Job(f, [next EXCEPT !.pc = "embed", !.n = n, !.text = t])
      PROVE  Typed' /\ RowsStep
  <2>1. t \in Text
    <3>1. disk[job[f].copy.path][n] \in Nat
      BY <1>0, <1>2 DEF Typed
    <3>2. OnDisk(job[f].copy.path, n) \in Nat
      BY <3>1 DEF OnDisk
    <3> QED BY <1>0, <1>7, <3>2, NoneTyped DEF Texts, Text
  <2>2. PICK j : j = [next EXCEPT !.pc = "embed", !.n = n, !.text = t]
    OBVIOUS
  <2>3. j \in Jobs /\ j.n \in Names /\ j.copy.path \in Paths
    BY <1>0, <1>2, <1>4, <2>1, <2>2 DEF Jobs, Steps
  <2> QED BY <1>0, <1>6, <1>7, <2>2, <2>3, ThreadTyped
<1>8. CASE NoWrite /\ Job(f, [next EXCEPT !.errs = @ \cup {n}])
  <2>1. PICK j : j = [next EXCEPT !.errs = @ \cup {n}]
    OBVIOUS
  <2>2. j \in Jobs /\ j.pc = "file" /\ j.copy.path \in Paths
    BY <1>0, <1>2, <1>4, <2>1 DEF Jobs
  <2> QED BY <1>0, <1>6, <1>8, <2>1, <2>2, ThreadTyped
<1> QED BY <1>1, <1>3, <1>5, <1>7, <1>8

\* Storing a file's chunks writes the row of that file, or takes back what was
\* not committed.
LEMMA StoreStep ==
    ASSUME KnowledgeAssumption, Typed, NEW f \in Fids, Store(f)
    PROVE  Typed' /\ RowsStep
<1>0. /\ UNCHANGED <<req, Env>> /\ guard' \in SUBSET Fids
      /\ job[f] \in Jobs /\ job[f].pc = "embed" /\ job[f].copy.path \in Paths
      /\ job[f].n \in Names
  BY DEF Store, Rest, Typed
<1>1. CASE Job(f, [NoJob EXCEPT !.pc = "failed"]) /\ Rollback(f)
  <2>1. [NoJob EXCEPT !.pc = "failed"] \in Jobs /\ [NoJob EXCEPT !.pc = "failed"].pc = "failed"
    BY Endings
  <2> QED BY <1>0, <1>1, <2>1, RollingBack, ThreadTyped
<1>2. PICK next : next = [job[f] EXCEPT !.pc = "file", !.n = None, !.text = NoText]
  OBVIOUS
<1>3. PICK d : d = Stored(View(f), f, job[f].n, Signature(f, job[f].n), job[f].text, job[f].model)
  OBVIOUS
<1>4. CASE NextChunk(View(f)) <= MaxChunk /\ Job(f, next) /\ Progress(f, next, d)
  <2>1. next \in Jobs /\ next.pc = "file" /\ next.copy.path \in Paths
    BY <1>0, <1>2, NoneTyped DEF Jobs, Steps
  <2>2. /\ Signature(f, job[f].n) \in Text /\ job[f].text \in Text
        /\ job[f].model \in Models \cup {None}
    BY <1>0 DEF Signature, Text, Jobs
  <2>3. /\ d \in Database /\ d.folder = View(f).folder
        /\ d.file[f][job[f].n].sig = Signature(f, job[f].n)
        /\ d.file[f][job[f].n].text = job[f].text
        /\ d.file[f][job[f].n].chunk # 0 => job[f].text # NoText
        /\ \A g \in Fids, m \in Names :
              <<g, m>> # <<f, job[f].n>> => d.file[g][m] = View(f).file[g][m]
    BY <1>0, <1>3, <1>4, <2>2, ViewFacts, StoredFacts
  <2>4. RowsFrom(d)
    <3> SUFFICES ASSUME NEW g \in Fids, NEW m \in Names
                 PROVE  \/ d.file[g][m] \in {db.file[g][m], work.file[g][m], NoFile}
                        \/ Fetched(g, m, d.file[g][m])
      BY DEF RowsFrom
    <3>1. CASE g = f /\ m = job[f].n
      BY <1>0, <2>3, <3>1 DEF Fetched
    <3>2. CASE ~(g = f /\ m = job[f].n)
      <4>1. d.file[g][m] = View(f).file[g][m]
        BY <2>3, <3>2
      <4> QED BY <4>1, ViewFacts
    <3> QED BY <3>1, <3>2
  <2>5. Commit(f, d) \/ Write(f, d) \/ NoWrite
    BY <1>4, ProgressFacts
  <2>6. /\ db' \in Database /\ work' \in Database /\ writer' \in 0..MaxFolder
        /\ work'.folder = db'.folder /\ (writer' = 0 => work' = db') /\ RowsStep
    BY <2>3, <2>4, <2>5, ViewFacts, Saving
  <2> QED BY <1>0, <1>4, <2>1, <2>6, ThreadTyped
<1> QED BY <1>1, <1>2, <1>3, <1>4 DEF Store

\* The status that a thread sets when it ends.
LEMMA SetStatusFacts ==
    ASSUME Typed, NEW f \in Live(db), NEW s \in Statuses,
           NEW d, d = SetStatus(View(f), f, s)
    PROVE  /\ d \in Database /\ RowsFrom(d) /\ d.file = View(f).file
           /\ d.folder[f].path = db.folder[f].path
           /\ \A g \in Fids \ {f} : d.folder[g] = db.folder[g]
           /\ d.folder[f].status = s \/ (job[f].copy.status = s /\ d.folder = db.folder)
<1>1. f \in Fids /\ View(f) \in Database /\ f \in Live(View(f))
  BY ViewFacts DEF Live
<1>2. CASE job[f].copy.status = s
  BY <1>1, <1>2, ViewFacts DEF SetStatus
<1>3. CASE job[f].copy.status # s
  <2>1. d = WithStatus(View(f), f, s)
    BY <1>3 DEF SetStatus, WithStatus
  <2>2. /\ d \in Database /\ d.file = View(f).file
        /\ d.folder[f] = [path |-> View(f).folder[f].path, status |-> s]
        /\ \A g \in Fids \ {f} : d.folder[g] = View(f).folder[g]
    BY <1>1, <2>1, StatusFacts
  <2>3. RowsFrom(d)
    BY <1>1, <2>2, ViewFacts DEF RowsFrom
  <2> QED BY <1>1, <2>2, <2>3, ViewFacts
<1> QED BY <1>2, <1>3

\* A thread ends: with a status, with a failure, or with what it had.
LEMMA EndStep ==
    ASSUME KnowledgeAssumption, Typed, NEW f \in Fids,
           \/ EmbeddingUnavailable(f) \/ reindex(f) \/ Timeout(f)
           \/ _run_background_reindex(f) \/ _release_reindex(f)
    PROVE  Typed' /\ RowsStep
<1>0. UNCHANGED <<req, Env>> /\ guard' \in SUBSET Fids /\ db \in Database
  BY DEF EmbeddingUnavailable, reindex, Timeout, _run_background_reindex, _release_reindex,
         Rest, Typed
<1>1. PICK j \in {[NoJob EXCEPT !.pc = "failed"], [NoJob EXCEPT !.pc = "close"], NoJob} : Job(f, j)
  BY DEF EmbeddingUnavailable, reindex, Timeout, _run_background_reindex, _release_reindex
<1>2. j \in Jobs /\ j.pc \notin {"file", "embed"}
  <2>1. [NoJob EXCEPT !.pc = "failed"] \in Jobs /\ [NoJob EXCEPT !.pc = "failed"].pc = "failed"
    BY Endings
  <2>2. [NoJob EXCEPT !.pc = "close"] \in Jobs /\ [NoJob EXCEPT !.pc = "close"].pc = "close"
    BY Endings
  <2>3. NoJob \in Jobs /\ NoJob.pc = None
    BY NoneTyped
  <2> QED BY <1>1, <2>1, <2>2, <2>3 DEF None
<1>3. /\ db' \in Database /\ work' \in Database /\ writer' \in 0..MaxFolder
      /\ work'.folder = db'.folder /\ (writer' = 0 => work' = db') /\ RowsStep
  <2>0. RowsFrom(db) /\ Live(View(f)) = Live(db) /\ "error" \in Statuses /\ "ready" \in Statuses
    BY ViewFacts DEF RowsFrom, Statuses
  <2>1. CASE NoWrite
    BY <1>0, <2>0, <2>1, Saving
  <2>2. CASE Rollback(f)
    BY <2>2, RollingBack
  <2>3. ASSUME f \in Live(db), NEW s \in Statuses, Commit(f, SetStatus(View(f), f, s))
        PROVE  /\ db' \in Database /\ work' \in Database /\ writer' \in 0..MaxFolder
               /\ work'.folder = db'.folder /\ (writer' = 0 => work' = db') /\ RowsStep
    <3>1. PICK d : d = SetStatus(View(f), f, s)
      OBVIOUS
    <3>2. d \in Database /\ RowsFrom(d)
      BY <2>3, <3>1, SetStatusFacts
    <3> QED BY <2>3, <3>1, <3>2, Saving
  <2>4. CASE f \in Live(db) /\ Commit(f, [db EXCEPT !.folder[f].status = "error"])
    <3>1. PICK d : d = WithStatus(db, f, "error")
      OBVIOUS
    <3>2. d \in Database /\ d.file = db.file
      <4>1. PICK s \in Statuses : s = "error"
        BY <2>0
      <4>2. d = WithStatus(db, f, s)
        BY <3>1, <4>1
      <4> QED BY <1>0, <2>4, <4>2, StatusFacts
    <3>3. RowsFrom(d)
      BY <3>2 DEF RowsFrom
    <3> QED BY <2>4, <3>1, <3>2, <3>3, Saving DEF WithStatus
  <2>5. CASE EmbeddingUnavailable(f)
    BY <2>0, <2>2, <2>3, <2>5 DEF EmbeddingUnavailable
  <2>6. CASE reindex(f)
    BY <2>0, <2>2, <2>3, <2>6 DEF reindex
  <2>7. CASE Timeout(f) \/ _run_background_reindex(f) \/ _release_reindex(f)
    BY <2>1, <2>4, <2>7 DEF Timeout, _run_background_reindex, _release_reindex, NoWrite
  <2> QED BY <2>5, <2>6, <2>7
<1> QED BY <1>0, <1>1, <1>2, <1>3, ThreadTyped

-----------------------------------------------------------------------------
(* Requests and surroundings: the types, and where the rows come from.     *)

\* A new folder gets an id that is free; nothing else of the database changes.
LEMMA RegisterFacts ==
    ASSUME KnowledgeAssumption, Typed, NEW r \in Requests, register_folder(r)
    PROVE  /\ UNCHANGED <<writer, guard, job, req, Env>> /\ work' = db' /\ writer = 0
           /\ db' \in Database /\ db'.file = db.file
           /\ \E k \in Fids \ Live(db), p \in Paths :
                /\ db'.folder = [db.folder EXCEPT ![k] = [path |-> p, status |-> "pending"]]
                /\ \A f \in Live(db) : db.folder[f].path # p
<1>1. NextFolder \in Fids \ Live(db)
  BY NextFolderFree DEF register_folder, Fids, KnowledgeAssumption
<1>2. PICK k \in Fids \ Live(db) : k = NextFolder
  BY <1>1
<1>3. PICK p \in Paths : /\ Registrable(p)
                         /\ db' = [db EXCEPT !.folder[k] = [path |-> p, status |-> "pending"]]
  BY <1>2 DEF register_folder
<1>4. PICK w : w = [path |-> p, status |-> "pending"]
  OBVIOUS
<1>5. w \in FolderRow
  BY <1>4 DEF FolderRow, Statuses
<1>6. /\ db'.file = db.file /\ db'.fts = db.fts /\ db'.folder = [db.folder EXCEPT ![k] = w]
      /\ db' = [folder |-> db'.folder, file |-> db'.file, fts |-> db'.fts]
  BY <1>3, <1>4 DEF Typed, Database
<1>7. db' \in Database
  <2>1. /\ db.folder \in [Fids -> FolderRow] /\ db.file \in [Fids -> [Names -> FileRow]]
        /\ db.fts \in [1..MaxChunk -> Text]
    BY DEF Typed, Database
  <2>2. db'.folder \in [Fids -> FolderRow]
    BY <1>5, <1>6, <2>1
  <2> QED BY <1>6, <2>1, <2>2 DEF Database
<1>8. \A f \in Live(db) : db.folder[f].path # p
  BY <1>3 DEF Registrable
<1>9. UNCHANGED <<writer, guard, job, req, Env>> /\ work' = db' /\ writer = 0
  BY DEF register_folder
<1> QED BY <1>4, <1>6, <1>7, <1>8, <1>9

\* A folder goes with all its rows; the other folders keep theirs.
LEMMA DeleteFacts ==
    ASSUME KnowledgeAssumption, Typed, NEW r \in Requests, Delete(r)
    PROVE  /\ UNCHANGED <<writer, guard, job, Env>> /\ work' = db' /\ writer = 0
           /\ req' = [req EXCEPT ![r] = NoReq] /\ req[r].op = "remove"
           /\ db' \in Database
           /\ db'.folder = [db.folder EXCEPT ![req[r].id] = NoFolder]
           /\ db'.file = [db.file EXCEPT ![req[r].id] = [n \in Names |-> NoFile]]
<1>1. PICK k \in Fids : k = req[r].id
  BY DEF Delete, Typed, None
<1>2. PICK fts : fts = _fts_delete_chunk(db.fts, {req[r].rows[n].chunk : n \in Names})
  OBVIOUS
<1>3. fts \in [1..MaxChunk -> Text]
  BY <1>2, NoneTyped DEF _fts_delete_chunk, Typed, Database
<1>4. PICK empty : empty = [n \in Names |-> NoFile]
  OBVIOUS
<1>5. empty \in [Names -> FileRow]
  BY <1>4, NoneTyped
<1>6. db' = [db EXCEPT !.folder[k] = NoFolder, !.file[k] = empty, !.fts = fts]
  BY <1>1, <1>2, <1>4 DEF Delete
<1>7. /\ db'.folder = [db.folder EXCEPT ![k] = NoFolder]
      /\ db'.file = [db.file EXCEPT ![k] = empty] /\ db'.fts = fts
      /\ db' = [folder |-> db'.folder, file |-> db'.file, fts |-> db'.fts]
  BY <1>6 DEF Typed, Database
<1>8. db' \in Database
  <2>1. db.folder \in [Fids -> FolderRow] /\ db.file \in [Fids -> [Names -> FileRow]]
    BY DEF Typed, Database
  <2>2. db'.folder \in [Fids -> FolderRow]
    BY <1>7, <2>1, NoneTyped
  <2>3. db'.file \in [Fids -> [Names -> FileRow]]
    BY <1>5, <1>7, <2>1
  <2> QED BY <1>3, <1>7, <2>2, <2>3 DEF Database
<1>9. /\ UNCHANGED <<writer, guard, job, Env>> /\ work' = db' /\ writer = 0
      /\ req' = [req EXCEPT ![r] = NoReq] /\ req[r].op = "remove"
  BY DEF Delete, Done
<1> QED BY <1>1, <1>4, <1>7, <1>8, <1>9

\* Start-up changes the status of folders only.
LEMMA ResetFacts ==
    ASSUME KnowledgeAssumption, Typed, reset_stale_indexing_folders
    PROVE  /\ UNCHANGED <<disk, roots, active, writer, guard, job, req>>
           /\ work' = db' /\ up' = TRUE
           /\ db' \in Database /\ db'.file = db.file
           /\ \A f \in Fids : /\ db'.folder[f].path = db.folder[f].path
                              /\ db'.folder[f].status # "indexing"
                              /\ db'.folder[f] = NoFolder <=> db.folder[f] = NoFolder
                              /\ \/ db'.folder[f] = db.folder[f]
                                 \/ db.folder[f].status = "indexing"
<1>1. PICK new : new = [f \in Fids |-> IF db.folder[f].status = "indexing"
                                       THEN [db.folder[f] EXCEPT !.status = "error"]
                                       ELSE db.folder[f]]
  OBVIOUS
<1>2. ASSUME NEW f \in Fids
      PROVE  /\ new[f] \in FolderRow /\ new[f].path = db.folder[f].path
             /\ new[f].status # "indexing"
             /\ new[f] = NoFolder <=> db.folder[f] = NoFolder
             /\ new[f] = db.folder[f] \/ db.folder[f].status = "indexing"
  <2>1. db.folder[f] \in FolderRow
    BY DEF Typed, Database
  <2>2. CASE db.folder[f].status = "indexing"
    <3>1. db.folder[f] \in [path : Paths, status : Statuses] /\ db.folder[f] # NoFolder
      BY <2>1, <2>2 DEF FolderRow, NoFolder, None
    <3>2. new[f] = [db.folder[f] EXCEPT !.status = "error"]
      BY <1>1, <2>2
    <3>3. /\ new[f] \in [path : Paths, status : Statuses] /\ new[f].path = db.folder[f].path
          /\ new[f].status = "error"
      BY <3>1, <3>2 DEF Statuses
    <3> QED BY <2>2, <3>1, <3>3 DEF FolderRow, NoFolder, None
  <2>3. CASE db.folder[f].status # "indexing"
    BY <1>1, <2>1, <2>3
  <2> QED BY <2>2, <2>3
<1>3. db' = [db EXCEPT !.folder = new]
  BY <1>1 DEF reset_stale_indexing_folders
<1>4. /\ db'.file = db.file /\ db'.fts = db.fts /\ db'.folder = new
      /\ db' = [folder |-> db'.folder, file |-> db'.file, fts |-> db'.fts]
  BY <1>3 DEF Typed, Database
<1>5. new \in [Fids -> FolderRow]
  BY <1>1, <1>2
<1>6. db' \in Database
  BY <1>4, <1>5 DEF Typed, Database
<1>7. UNCHANGED <<disk, roots, active, writer, guard, job, req>> /\ work' = db' /\ up' = TRUE
  BY DEF reset_stale_indexing_folders
<1> QED BY <1>2, <1>4, <1>6, <1>7

\* The commit that starts a thread changes at most the status of its folder.
LEMMA ReindexFacts ==
    ASSUME KnowledgeAssumption, Typed, NEW r \in Requests, reindex_folder(r)
    PROVE  /\ req[r].op = "start" /\ req' = [req EXCEPT ![r] = NoReq]
           /\ UNCHANGED <<writer, Env>> /\ work' = (IF writer = 0 THEN db' ELSE work)
           /\ \/ job' = [job EXCEPT ![req[r].id] = [NoJob EXCEPT !.pc = "begin"]]
                   /\ guard' = guard
              \/ job' = job /\ guard' = guard \ {req[r].id}
           /\ db' \in Database /\ db'.file = db.file
           /\ \/ db' = db
              \/ /\ writer = 0 /\ req[r].id \in Live(db)
                 /\ db'.folder[req[r].id] = [path |-> db.folder[req[r].id].path,
                                             status |-> "indexing"]
                 /\ \A g \in Fids \ {req[r].id} : db'.folder[g] = db.folder[g]
<1>1. PICK k \in Fids : k = req[r].id
  BY DEF reindex_folder, Typed, None
<1>2. /\ req[r].op = "start" /\ req' = [req EXCEPT ![r] = NoReq]
      /\ UNCHANGED <<writer, Env>> /\ work' = (IF writer = 0 THEN db' ELSE work)
      /\ \/ job' = [job EXCEPT ![k] = [NoJob EXCEPT !.pc = "begin"]] /\ guard' = guard
         \/ job' = job /\ guard' = guard \ {k}
  BY <1>1 DEF reindex_folder, Done
<1>3. PICK s \in Statuses : s = "indexing"
  BY DEF Statuses
<1>4. db' = db \/ (writer = 0 /\ k \in Live(db) /\ db' = WithStatus(db, k, s))
  BY <1>1, <1>3 DEF reindex_folder, WithStatus
<1>5. db \in Database
  BY DEF Typed
<1>6. CASE db' = db
  BY <1>1, <1>2, <1>5, <1>6
<1>7. CASE writer = 0 /\ k \in Live(db) /\ db' = WithStatus(db, k, s)
  <2>1. /\ db' \in Database /\ db'.file = db.file
        /\ db'.folder[k] = [path |-> db.folder[k].path, status |-> s]
        /\ \A g \in Fids \ {k} : db'.folder[g] = db.folder[g]
    BY <1>5, <1>7, StatusFacts
  <2> QED BY <1>1, <1>2, <1>3, <1>7, <2>1
<1> QED BY <1>4, <1>6, <1>7

\* A request to register, index or delete keeps the types; only a registration
\* and a deletion change rows, and both leave empty ones.
LEMMA RequestStep ==
    ASSUME KnowledgeAssumption, Typed, NEW r \in Requests,
           \/ register_folder(r) \/ get_folder(r) \/ _try_claim_reindex(r)
           \/ reindex_folder(r) \/ delete_folder(r) \/ Delete(r)
    PROVE  Typed' /\ RowsStep
<1>0. RowsFrom(db) /\ RowsFrom(work) /\ db \in Database
  BY DEF RowsFrom, Typed
<1>1. CASE register_folder(r)
  <2>1. Typed'
    BY <1>1, RegisterFacts DEF Typed, Env
  <2>2. RowsStep
    BY <1>0, <1>1, RegisterFacts DEF RowsStep, RowsFrom
  <2> QED BY <2>1, <2>2
<1>2. ASSUME UNCHANGED <<db, work>> PROVE RowsStep
  BY <1>0, <1>2 DEF RowsStep
<1>3. CASE get_folder(r)
  <2>1. PICK f \in Live(db), op \in {"reindex", "delete"} :
          req' = [req EXCEPT ![r] = [NoReq EXCEPT !.op = op, !.id = f, !.copy = db.folder[f]]]
    BY <1>3 DEF get_folder
  <2>2. PICK q : q = [NoReq EXCEPT !.op = op, !.id = f, !.copy = db.folder[f]]
    OBVIOUS
  <2>3. f \in Fids /\ f \in 0..MaxFolder /\ db.folder[f] \in FolderRow
    <3>1. f \in Fids
      BY DEF Live
    <3>2. f \in 0..MaxFolder
      BY <3>1 DEF Fids, KnowledgeAssumption
    <3> QED BY <1>0, <3>1, <3>2 DEF Database
  <2>4. q \in Queries /\ q.id \in Fids
    BY <2>2, <2>3, NoneTyped DEF Queries
  <2>5. UNCHANGED <<db, work, writer, guard, job, Env>>
    BY <1>3 DEF get_folder
  <2> QED BY <1>2, <2>1, <2>2, <2>4, <2>5 DEF Typed, Env
<1>4. CASE _try_claim_reindex(r)
  <2>1. UNCHANGED <<db, work, writer, job, Env>> /\ req[r] \in Queries /\ req[r].id \in Fids
    BY <1>4 DEF _try_claim_reindex, Typed, None
  <2>2. PICK q : q = [req[r] EXCEPT !.op = "start"]
    OBVIOUS
  <2>3. q \in Queries /\ q.id = req[r].id
    BY <2>1, <2>2 DEF Queries
  <2>4. req' = [req EXCEPT ![r] = NoReq] \/ req' = [req EXCEPT ![r] = q]
    BY <1>4, <2>2 DEF _try_claim_reindex, Done, Typed
  <2>5. guard' \in SUBSET Fids
    BY <1>4, <2>1 DEF _try_claim_reindex, Typed
  <2> QED BY <1>2, <2>1, <2>3, <2>4, <2>5, NoneTyped DEF Typed, Env
<1>5. CASE reindex_folder(r)
  <2>1. req[r].id \in Fids /\ NoJob \in Jobs /\ NoReq \in Queries /\ NoReq.op = None
    BY <1>5, NoneTyped DEF reindex_folder, Typed, None
  <2>2. PICK j : j = [NoJob EXCEPT !.pc = "begin"]
    OBVIOUS
  <2>3. j \in Jobs /\ j.pc = "begin"
    BY <2>2, Endings
  <2>4. /\ req' \in [Requests -> Queries]
        /\ \A s \in Requests : req'[s].op # None => req'[s].id \in Fids
    BY <1>5, <2>1, ReindexFacts DEF Typed
  <2>5. /\ job' \in [Fids -> Jobs]
        /\ \A f \in Fids : job'[f] = job[f] \/ job'[f].pc = "begin"
    BY <1>5, <2>1, <2>2, <2>3, ReindexFacts DEF Typed
  <2>6. work' \in Database /\ work'.folder = db'.folder /\ (writer' = 0 => work' = db')
    BY <1>5, ReindexFacts DEF Typed
  <2>7. guard' \in SUBSET Fids
    BY <1>5, ReindexFacts DEF Typed
  <2>8. Typed'
    BY <1>5, <2>4, <2>5, <2>6, <2>7, ReindexFacts DEF Typed, Env
  <2>9. RowsStep
    BY <1>0, <1>5, ReindexFacts DEF RowsStep, RowsFrom
  <2> QED BY <2>8, <2>9
<1>6. CASE delete_folder(r)
  <2>1. UNCHANGED <<db, work, writer, guard, job, Env>> /\ req[r] \in Queries /\ req[r].id \in Fids
    BY <1>6 DEF delete_folder, Typed, None
  <2>2. PICK q : q = [req[r] EXCEPT !.op = "remove", !.rows = db.file[req[r].id]]
    OBVIOUS
  <2>3. q \in Queries /\ q.id = req[r].id
    BY <1>0, <2>1, <2>2 DEF Queries, Database
  <2>4. req' = [req EXCEPT ![r] = NoReq] \/ req' = [req EXCEPT ![r] = q]
    BY <1>6, <2>2 DEF delete_folder, Done, Typed
  <2> QED BY <1>2, <2>1, <2>3, <2>4, NoneTyped DEF Typed, Env
<1>7. CASE Delete(r)
  <2>1. req[r].id \in Fids
    BY <1>7 DEF Delete, Typed, None
  <2>2. Typed'
    BY <1>7, DeleteFacts, NoneTyped DEF Typed, Env
  <2>3. \A g \in Fids, m \in Names : db'.file[g][m] \in {db.file[g][m], NoFile}
    <3>1. PICK k \in Fids : k = req[r].id
      BY <2>1
    <3>2. db'.file = [db.file EXCEPT ![k] = [n \in Names |-> NoFile]]
      BY <1>7, <3>1, DeleteFacts
    <3>3. db.file \in [Fids -> [Names -> FileRow]]
      BY DEF Typed, Database
    <3> QED BY <3>2, <3>3
  <2>4. work' = db'
    BY <1>7, DeleteFacts
  <2>5. RowsFrom(db') /\ RowsFrom(work')
    BY <2>3, <2>4 DEF RowsFrom
  <2>6. RowsStep
    BY <2>5 DEF RowsStep
  <2> QED BY <2>2, <2>6
<1> QED BY <1>1, <1>3, <1>4, <1>5, <1>6, <1>7

\* What the environment does, a crash and the next start included, makes no
\* rows.
LEMMA WorldStep ==
    ASSUME KnowledgeAssumption, Typed,
           \/ Edit \/ Unmount \/ build_embedder \/ Crash \/ reset_stale_indexing_folders
           \/ UNCHANGED vars
    PROVE  Typed' /\ RowsStep
<1>0. RowsFrom(db) /\ RowsFrom(work)
  BY DEF RowsFrom
<1>1. CASE Edit
  <2>1. disk' \in [Paths -> [Names -> Nat]]
    BY <1>1 DEF Edit, Typed
  <2> QED BY <1>0, <1>1, <2>1 DEF Edit, Typed, RowsStep
<1>2. CASE Unmount
  <2>1. PICK p \in roots : /\ roots' = roots \ {p}
                           /\ disk' = [disk EXCEPT ![p] = [n \in Names |-> @[n] + (@[n] % 2)]]
    BY <1>2 DEF Unmount
  <2>2. \A n \in Names : disk[p][n] \in Nat /\ disk[p][n] + (disk[p][n] % 2) \in Nat
    BY <2>1 DEF Typed
  <2>3. disk' \in [Paths -> [Names -> Nat]]
    BY <2>1, <2>2 DEF Typed
  <2> QED BY <1>0, <1>2, <2>1, <2>3 DEF Unmount, Typed, RowsStep
<1>3. CASE build_embedder
  BY <1>0, <1>3 DEF build_embedder, Typed, RowsStep
<1>4. CASE Crash
  <2>1. job' \in [Fids -> Jobs] /\ req' \in [Requests -> Queries] /\ 0 \in 0..MaxFolder
    BY <1>4, NoneTyped DEF Crash, KnowledgeAssumption
  <2> QED BY <1>0, <1>4, <2>1, NoneTyped DEF Crash, Typed, RowsStep, None
<1>5. CASE reset_stale_indexing_folders
  <2>1. Typed'
    BY <1>5, ResetFacts DEF Typed
  <2>2. RowsStep
    BY <1>0, <1>5, ResetFacts DEF RowsStep, RowsFrom
  <2> QED BY <2>1, <2>2
<1>6. CASE UNCHANGED vars
  BY <1>0, <1>6 DEF vars, Typed, RowsStep
<1> QED BY <1>1, <1>2, <1>3, <1>4, <1>5, <1>6

\* Every step keeps the types, and takes rows from where they may come.
LEMMA TypedStep ==
    ASSUME KnowledgeAssumption, Typed, [Next]_vars
    PROVE  Typed' /\ RowsStep
BY ScanStep, ExtractStep, StoreStep, EndStep, RequestStep, WorldStep DEF Next, Thread

-----------------------------------------------------------------------------
(* Rows are never stale: versions grow, and a thread keeps what it saw.    *)

DiskGrows == \A p \in Paths, n \in Names : disk'[p][n] >= disk[p][n]

\* Files only get newer.
LEMMA VersionsGrow ==
    ASSUME KnowledgeAssumption, Typed, [Next]_vars
    PROVE  DiskGrows
<1>0. \A p \in Paths, n \in Names : disk[p][n] \in Nat
  BY DEF Typed
<1>1. CASE Edit
  <2>1. PICK p \in roots, n \in Names, v \in 1..MaxVersion :
          /\ v = disk[p][n] + 1 \/ v = disk[p][n] + 2
          /\ disk' = [disk EXCEPT ![p][n] = v]
    BY <1>1 DEF Edit
  <2>2. v >= disk[p][n] /\ p \in Paths
    BY <1>0, <2>1 DEF Typed
  <2>3. disk' = [disk EXCEPT ![p] = [disk[p] EXCEPT ![n] = v]]
    BY <2>1
  <2> SUFFICES ASSUME NEW q \in Paths, NEW m \in Names
               PROVE  disk'[q][m] >= disk[q][m]
    BY DEF DiskGrows
  <2>4. disk'[q][m] = IF q = p /\ m = n THEN v ELSE disk[q][m]
    BY <2>3 DEF Typed
  <2> QED BY <1>0, <2>2, <2>4
<1>2. CASE Unmount
  <2>1. PICK p \in roots : disk' = [disk EXCEPT ![p] = [n \in Names |-> @[n] + (@[n] % 2)]]
    BY <1>2 DEF Unmount
  <2>2. \A n \in Names : disk[p][n] + (disk[p][n] % 2) >= disk[p][n]
    BY <1>0, <2>1 DEF Typed
  <2> QED BY <1>0, <2>1, <2>2 DEF Typed, DiskGrows
<1>3. CASE disk' = disk
  BY <1>0, <1>3 DEF DiskGrows
<1>4. CASE \E r \in Requests :
             \/ register_folder(r) \/ get_folder(r) \/ _try_claim_reindex(r) \/ reindex_folder(r)
             \/ delete_folder(r) \/ Delete(r)
  BY <1>3, <1>4 DEF register_folder, get_folder, _try_claim_reindex, reindex_folder,
         delete_folder, Delete, Env
<1>5. CASE \E f \in Fids : Thread(f)
  BY <1>3, <1>5 DEF Thread, _scan_disk, extract_text, Store, EmbeddingUnavailable, reindex,
         Timeout, _run_background_reindex, _release_reindex, Rest, Env
<1>6. CASE build_embedder \/ Crash \/ reset_stale_indexing_folders \/ UNCHANGED vars
  BY <1>3, <1>6 DEF build_embedder, Crash, reset_stale_indexing_folders, vars
<1> QED BY <1>1, <1>2, <1>4, <1>5, <1>6 DEF Next

\* A text that is good for a version stays so.
LEMMA GoodStays ==
    ASSUME Typed, Typed', DiskGrows, NEW p \in Paths, NEW n \in Names, NEW v \in Nat,
           NEW text, Good(p, n, v, text)
    PROVE  Good(p, n, v, text)'
<1>1. disk[p][n] \in Nat /\ disk'[p][n] \in Nat /\ disk'[p][n] >= disk[p][n]
  BY DEF Typed, DiskGrows
<1> QED BY <1>1 DEF Good

\* Wherever the rows come from, they are good.
LEMMA RowsStayGood ==
    ASSUME Typed, Typed', RowsStep, DiskGrows, Fresh
    PROVE  RowsGood(db)' /\ RowsGood(work)'
<1>1. ASSUME NEW e, RowsFrom(e), NEW f \in Fids, NEW n \in Names, e.file[f][n] # NoFile
      PROVE  /\ e.file[f][n].sig.p \in Paths
             /\ Good(e.file[f][n].sig.p, n, e.file[f][n].sig.v, e.file[f][n].text)'
  <2>1. PICK x : x = e.file[f][n]
    OBVIOUS
  <2>2. x # NoFile /\ (x \in {db.file[f][n], work.file[f][n]} \/ Fetched(f, n, x))
    BY <1>1, <2>1 DEF RowsFrom
  <2>3. CASE x = db.file[f][n] \/ x = work.file[f][n]
    <3>1. x \in FileRow
      BY <2>3 DEF Typed, Database
    <3>2. x.sig.p \in Paths /\ Good(x.sig.p, n, x.sig.v, x.text)
      BY <2>2, <2>3 DEF Fresh, RowsGood
    <3>3. x.sig.v \in Nat
      BY <3>1 DEF FileRow, Text
    <3> QED BY <2>1, <3>2, <3>3, GoodStays
  <2>4. CASE Fetched(f, n, x)
    <3>1. /\ job[f].copy.path \in Paths /\ job[f].scan[n] \in Nat
          /\ Good(job[f].copy.path, n, job[f].scan[n], job[f].text)
      BY <2>4 DEF Fetched, Typed, Jobs, Fresh, JobGood
    <3>2. x.sig.p = job[f].copy.path /\ x.sig.v = job[f].scan[n] /\ x.text = job[f].text
      BY <2>4 DEF Fetched, Signature
    <3> QED BY <2>1, <3>1, <3>2, GoodStays
  <2> QED BY <2>2, <2>3, <2>4
<1>2. RowsFrom(db') /\ RowsFrom(work')
  BY DEF RowsStep
<1> QED BY <1>1, <1>2 DEF RowsGood

\* A thread's record is good when it was, or when a scan or an extraction made it.
LEMMA JobStaysGood ==
    ASSUME Typed, Typed', DiskGrows, NEW f \in Fids, JobGood(job[f]), job'[f] = job[f]
    PROVE  JobGood(job[f])'
<1>1. PICK j : j = job[f]
  OBVIOUS
<1>2. /\ JobGood(j) /\ j \in Jobs /\ job'[f] = j
      /\ j.pc \in {"file", "embed"} => j.copy.path \in Paths
      /\ (j.pc = "embed" => j.n \in Names)
  BY <1>1 DEF Typed
<1>3. ASSUME j.pc \in {"file", "embed"}, NEW n \in Names, j.scan[n] # 0
      PROVE  j.scan[n] % 2 = 1 /\ j.scan[n] <= disk'[j.copy.path][n]
  <2>1. /\ j.copy.path \in Paths /\ j.scan[n] \in Nat
        /\ j.scan[n] % 2 = 1 /\ j.scan[n] <= disk[j.copy.path][n]
    BY <1>2, <1>3 DEF Jobs, JobGood
  <2>2. /\ disk[j.copy.path][n] \in Nat /\ disk'[j.copy.path][n] \in Nat
        /\ disk'[j.copy.path][n] >= disk[j.copy.path][n]
    BY <2>1 DEF Typed, DiskGrows
  <2> QED BY <2>1, <2>2
<1>4. ASSUME j.pc = "embed" PROVE Good(j.copy.path, j.n, j.scan[j.n], j.text)'
  <2>1. Good(j.copy.path, j.n, j.scan[j.n], j.text) /\ j.copy.path \in Paths /\ j.n \in Names
        /\ j.scan[j.n] \in Nat
    BY <1>2, <1>4 DEF JobGood, Jobs
  <2> QED BY <2>1, GoodStays
<1>5. j.pc \in {"file", "embed"} => \A n \in j.todo : j.scan[n] # 0
  BY <1>2 DEF JobGood
<1>6. JobGood(j)'
  BY <1>3, <1>4, <1>5 DEF JobGood
<1> QED BY <1>2, <1>6

\* The scan saw files that are there.
LEMMA ScanGood ==
    ASSUME KnowledgeAssumption, Typed, NEW f \in Fids, _scan_disk(f)
    PROVE  JobGood(job[f])'
<1>0. disk' = disk /\ job \in [Fids -> Jobs]
  BY DEF _scan_disk, Rest, Env, Typed
<1>1. CASE Job(f, [NoJob EXCEPT !.pc = "close"])
  <2>1. job'[f].pc = "close"
    BY <1>0, <1>1, Endings DEF Job
  <2> QED BY <2>1 DEF JobGood
<1>2. CASE db.folder[f] # NoFolder /\ db.folder[f].path \in roots
  <2> DEFINE scan == [n \in Names |-> OnDisk(db.folder[f].path, n)]
             todo == {n \in Names : scan[n] # 0}
  <2>1. PICK s, t : s = scan /\ t = todo
    OBVIOUS
  <2>2. PICK w, rows, m : w = db.folder[f] /\ rows = db.file[f] /\ m = active
    OBVIOUS
  <2>3. PICK j : j = [NoJob EXCEPT !.pc = "file", !.model = m, !.copy = w, !.scan = s,
                                   !.rows = rows, !.todo = t]
    OBVIOUS
  <2>4. job'[f] = j
    BY <1>0, <1>2, <2>1, <2>2, <2>3 DEF _scan_disk, Job
  <2>5. j.pc = "file" /\ j.copy = w /\ j.scan = s /\ j.todo = t
    BY <2>3 DEF NoJob
  <2>6. w.path \in Paths
    BY <1>2, <2>2 DEF Typed
  <2>7. ASSUME NEW n \in Names, s[n] # 0
        PROVE  s[n] % 2 = 1 /\ s[n] <= disk'[w.path][n]
    <3>1. disk[w.path][n] \in Nat
      BY <2>6 DEF Typed
    <3>2. s[n] = OnDisk(w.path, n)
      BY <2>1, <2>2
    <3> QED BY <1>0, <2>7, <3>1, <3>2 DEF OnDisk
  <2>8. \A n \in t : s[n] # 0
    BY <2>1
  <2> HIDE DEF scan, todo
  <2>9. JobGood(j)'
    BY <2>5, <2>7, <2>8 DEF JobGood
  <2> QED BY <2>4, <2>9
<1> QED BY <1>1, <1>2 DEF _scan_disk

\* What is extracted is the text of the file as it is now: that of the scan,
\* unless the file has changed since.
LEMMA ExtractGood ==
    ASSUME KnowledgeAssumption, Typed, Fails = FALSE \/ Binary = {},
           NEW f \in Fids, JobGood(job[f]), extract_text(f)
    PROVE  JobGood(job[f])'
<1>0. /\ disk' = disk /\ job \in [Fids -> Jobs] /\ job[f] \in Jobs
      /\ job[f].pc = "file" /\ job[f].copy.path \in Paths
  BY DEF extract_text, Rest, Env, Typed
<1>1. PICK j : j = job[f]
  OBVIOUS
<1>2. PICK n \in j.todo :
        LET next == [j EXCEPT !.todo = @ \ {n}] IN
        \/ job'[f] = next
        \/ \E t \in Texts(j.copy.path, n) :
             job'[f] = [next EXCEPT !.pc = "embed", !.n = n, !.text = t]
        \/ job'[f] = [next EXCEPT !.errs = @ \cup {n}]
  BY <1>0, <1>1 DEF extract_text, Job
<1>3. /\ n \in Names /\ j.scan[n] # 0 /\ \A m \in j.todo : j.scan[m] # 0
      /\ \A m \in Names : j.scan[m] # 0 => j.scan[m] % 2 = 1 /\ j.scan[m] <= disk[j.copy.path][m]
  BY <1>0, <1>1 DEF Jobs, JobGood
<1>4. PICK next : next = [j EXCEPT !.todo = @ \ {n}]
  OBVIOUS
<1>5. next.pc = "file" /\ next.copy = j.copy /\ next.scan = j.scan /\ next.todo = j.todo \ {n}
      /\ next \in Jobs
  BY <1>0, <1>1, <1>4 DEF Jobs
<1>6. CASE job'[f] = next
  <2>1. JobGood(next)'
    BY <1>0, <1>3, <1>5 DEF JobGood
  <2> QED BY <1>6, <2>1
<1>7. CASE job'[f] = [next EXCEPT !.errs = @ \cup {n}]
  <2>1. PICK e : e = [next EXCEPT !.errs = @ \cup {n}]
    OBVIOUS
  <2>2. e.pc = "file" /\ e.copy = j.copy /\ e.scan = j.scan /\ e.todo = j.todo \ {n}
    BY <1>5, <2>1 DEF Jobs
  <2>3. JobGood(e)'
    BY <1>0, <1>3, <2>2 DEF JobGood
  <2> QED BY <1>7, <2>1, <2>3
<1>8. ASSUME NEW t \in Texts(j.copy.path, n),
             job'[f] = [next EXCEPT !.pc = "embed", !.n = n, !.text = t]
      PROVE  JobGood(job[f])'
  <2>1. PICK e : e = [next EXCEPT !.pc = "embed", !.n = n, !.text = t]
    OBVIOUS
  <2>2. /\ e.pc = "embed" /\ e.copy = j.copy /\ e.scan = j.scan /\ e.todo = j.todo \ {n}
        /\ e.n = n /\ e.text = t
    BY <1>5, <2>1 DEF Jobs
  <2>3. /\ disk[j.copy.path][n] \in Nat /\ j.scan[n] \in Nat
        /\ j.scan[n] % 2 = 1 /\ j.scan[n] <= disk[j.copy.path][n]
    BY <1>0, <1>1, <1>3 DEF Typed, Jobs
  <2>4. j.scan[n] = disk[j.copy.path][n] => t = [p |-> j.copy.path, v |-> j.scan[n]]
    <3> SUFFICES ASSUME j.scan[n] = disk[j.copy.path][n]
                 PROVE  t = [p |-> j.copy.path, v |-> j.scan[n]]
      OBVIOUS
    <3>1. OnDisk(j.copy.path, n) = j.scan[n]
      BY <2>3 DEF OnDisk
    <3>2. ~(n \in Binary /\ Unreadable(j.copy.path, n))
      BY <1>3, <3>1 DEF Unreadable
    <3> QED BY <1>8, <3>1, <3>2 DEF Texts
  <2>5. Good(j.copy.path, n, j.scan[n], t)'
    BY <1>0, <2>3, <2>4 DEF Good
  <2>6. JobGood(e)'
    BY <1>0, <1>3, <2>2, <2>5 DEF JobGood
  <2> QED BY <1>8, <2>1, <2>6
<1> QED BY <1>2, <1>4, <1>6, <1>7, <1>8

\* Storing a file leaves the rest of the scan as it was.
LEMMA StoreGood ==
    ASSUME KnowledgeAssumption, Typed, NEW f \in Fids, JobGood(job[f]), Store(f)
    PROVE  JobGood(job[f])'
<1>0. disk' = disk /\ job \in [Fids -> Jobs] /\ job[f] \in Jobs /\ job[f].pc = "embed"
  BY DEF Store, Rest, Env, Typed
<1>1. PICK j : j = job[f]
  OBVIOUS
<1>2. PICK next : next = [j EXCEPT !.pc = "file", !.n = None, !.text = NoText]
  OBVIOUS
<1>3. job'[f] = next \/ job'[f] = [NoJob EXCEPT !.pc = "failed"]
  BY <1>0, <1>1, <1>2 DEF Store, Job
<1>4. next.pc = "file" /\ next.copy = j.copy /\ next.scan = j.scan /\ next.todo = j.todo
  BY <1>0, <1>1, <1>2 DEF Jobs
<1>5. JobGood(next)'
  BY <1>0, <1>1, <1>4 DEF JobGood
<1>6. PICK e : e = [NoJob EXCEPT !.pc = "failed"]
  OBVIOUS
<1>7. e.pc = "failed"
  BY <1>6, Endings
<1>8. JobGood(e)'
  BY <1>7 DEF JobGood
<1> QED BY <1>3, <1>5, <1>6, <1>8

\* What becomes of the record of folder f.
LEMMA JobChange ==
    ASSUME KnowledgeAssumption, Typed, NEW f \in Fids, [Next]_vars
    PROVE  \/ job'[f] = job[f]
           \/ job'[f] \in {[NoJob EXCEPT !.pc = pc] : pc \in {"begin", "failed", "close"}}
           \/ job'[f] = NoJob
           \/ _scan_disk(f) \/ extract_text(f) \/ Store(f)
<1>0. job \in [Fids -> Jobs]
  BY DEF Typed
<1>1. CASE \E r \in Requests :
             \/ register_folder(r) \/ get_folder(r) \/ _try_claim_reindex(r) \/ delete_folder(r)
             \/ Delete(r)
  BY <1>1 DEF register_folder, get_folder, _try_claim_reindex, delete_folder, Delete
<1>2. ASSUME NEW r \in Requests, reindex_folder(r)
      PROVE  job'[f] \in {job[f], [NoJob EXCEPT !.pc = "begin"]}
  BY <1>0, <1>2, ReindexFacts
<1>3. ASSUME NEW g \in Fids, Thread(g), g # f PROVE job'[f] = job[f]
  BY <1>0, <1>3 DEF Thread, _scan_disk, extract_text, Store, EmbeddingUnavailable, reindex,
         Timeout, _run_background_reindex, _release_reindex, Job
<1>4. CASE \/ EmbeddingUnavailable(f) \/ reindex(f) \/ Timeout(f)
           \/ _run_background_reindex(f) \/ _release_reindex(f)
  BY <1>0, <1>4 DEF EmbeddingUnavailable, reindex, Timeout, _run_background_reindex,
         _release_reindex, Job
<1>5. CASE \/ Edit \/ Unmount \/ build_embedder \/ Crash \/ reset_stale_indexing_folders
           \/ UNCHANGED vars
  BY <1>5 DEF Edit, Unmount, build_embedder, Crash, reset_stale_indexing_folders, vars
<1> QED BY <1>1, <1>2, <1>3, <1>4, <1>5 DEF Next, Thread

\* Nothing stale comes in, as long as no extractor hides its failures.
LEMMA FreshStep ==
    ASSUME KnowledgeAssumption, Fails = FALSE \/ Binary = {}, Typed, Fresh, [Next]_vars
    PROVE  Fresh'
<1>1. Typed' /\ RowsStep /\ DiskGrows
  BY TypedStep, VersionsGrow
<1>2. RowsGood(db)' /\ RowsGood(work)'
  BY <1>1, RowsStayGood
<1>3. ASSUME NEW f \in Fids PROVE JobGood(job[f])'
  <2>1. JobGood(job[f])
    BY DEF Fresh
  <2>2. CASE job'[f] = job[f]
    BY <1>1, <2>1, <2>2, JobStaysGood
  <2>3. CASE job'[f].pc \notin {"file", "embed"}
    BY <2>3 DEF JobGood
  <2>4. CASE \/ job'[f] \in {[NoJob EXCEPT !.pc = pc] : pc \in {"begin", "failed", "close"}}
             \/ job'[f] = NoJob
    BY <2>3, <2>4, Endings, NoneTyped DEF None
  <2>5. CASE _scan_disk(f) \/ extract_text(f) \/ Store(f)
    BY <2>1, <2>5, ScanGood, ExtractGood, StoreGood
  <2> QED BY <2>2, <2>4, <2>5, JobChange
<1> QED BY <1>2, <1>3 DEF Fresh

\* The initial states.
LEMMA InitTyped ==
    ASSUME KnowledgeAssumption, Init
    PROVE  Typed /\ Fresh /\ Claimed /\ RowsSound /\ Serial /\ Belongs /\ Honest
<1>1. PICK empty, none : empty = [n \in Names |-> NoFile] /\ none = [c \in 1..MaxChunk |-> NoText]
  OBVIOUS
<1>2. /\ db = [folder |-> [f \in Fids |-> NoFolder], file |-> [f \in Fids |-> empty], fts |-> none]
      /\ work = db /\ writer = 0 /\ guard = {} /\ up = TRUE
      /\ job = [f \in Fids |-> NoJob] /\ req = [r \in Requests |-> NoReq]
  BY <1>1 DEF Init
<1>3. db \in Database
  <2>1. db.folder \in [Fids -> FolderRow]
    BY <1>2, NoneTyped
  <2>2. empty \in [Names -> FileRow] /\ none \in [1..MaxChunk -> Text]
    BY <1>1, NoneTyped
  <2>3. db.file \in [Fids -> [Names -> FileRow]]
    BY <1>2, <2>2
  <2> QED BY <1>2, <2>1, <2>2, <2>3 DEF Database
<1>4. job \in [Fids -> Jobs] /\ req \in [Requests -> Queries] /\ 0 \in 0..MaxFolder
  BY <1>2, NoneTyped DEF KnowledgeAssumption
<1>5. disk \in [Paths -> [Names -> Nat]] /\ roots \in SUBSET Paths /\ active \in Models
  BY DEF Init
<1>6. Typed
  BY <1>2, <1>3, <1>4, <1>5, NoneTyped DEF Typed, None
<1>7. \A f \in Fids, n \in Names : db.file[f][n] = NoFile
  BY <1>1, <1>2
<1>8. \A f \in Fids : db.folder[f] = NoFolder /\ job[f] = NoJob /\ job[f].pc = None
  BY <1>2, NoneTyped
<1>9. \A r \in Requests : req[r] = NoReq /\ req[r].op = None
  BY <1>2, NoneTyped
<1>10. Fresh
  BY <1>2, <1>7, <1>8 DEF Fresh, RowsGood, JobGood, None
<1>11. Claimed
  BY <1>8, <1>9 DEF Claimed, None
<1>12. Live(db) = {}
  BY <1>8 DEF Live
<1>13. RowsSound
  BY <1>2, <1>7, <1>12 DEF RowsSound, NoFile
<1>14. Serial /\ Belongs
  BY <1>2, <1>7, <1>8, <1>9, <1>12 DEF Serial, Belongs, Own, None
<1>15. Honest
  BY <1>2, <1>8 DEF Honest, NoFolder, None
<1> QED BY <1>6, <1>10, <1>11, <1>13, <1>14, <1>15

\* Rows that are good are not stale.
LEMMA FreshGives ==
    ASSUME Typed, Fresh
    PROVE  NeverStale
<1> SUFFICES ASSUME NEW f \in Live(db), NEW n \in Names,
                    db.file[f][n] # NoFile,
                    db.file[f][n].sig.v = disk[db.file[f][n].sig.p][n]
             PROVE  db.file[f][n].text = db.file[f][n].sig
  BY DEF NeverStale
<1>1. PICK x : x = db.file[f][n]
  OBVIOUS
<1>2. f \in Fids /\ x \in FileRow
  BY <1>1 DEF Live, Typed, Database
<1>3. Good(x.sig.p, n, x.sig.v, x.text)
  BY <1>1, <1>2 DEF Fresh, RowsGood
<1>4. x.sig = [p |-> x.sig.p, v |-> x.sig.v]
  BY <1>2 DEF FileRow, Text
<1> QED BY <1>1, <1>3, <1>4 DEF Good

\* A row whose signature is that of the file on the disk holds that file's text,
\* however requests, threads and changes of the files overlap, unless an
\* extractor answers "" where it failed.
THEOREM IndexNeverStale ==
    ASSUME KnowledgeAssumption, Fails = FALSE \/ Binary = {}
    PROVE  Spec => []NeverStale
<1>1. Init => Typed /\ Fresh
  BY InitTyped
<1>2. Typed /\ Fresh /\ [Next]_vars => Typed' /\ Fresh'
  BY TypedStep, FreshStep
<1>3. Typed /\ Fresh => NeverStale
  BY FreshGives
<1> QED BY <1>1, <1>2, <1>3, PTL DEF Spec

-----------------------------------------------------------------------------
(* Claims, folders and rows, whoever overlaps.                             *)

\* Only the thread that gives its claim back ends without a record.
LEMMA ThreadRecord ==
    ASSUME KnowledgeAssumption, Typed, NEW f \in Fids, Thread(f)
    PROVE  /\ job[f].pc # None /\ req' = req /\ up' = up
           /\ \A g \in Fids \ {f} : job'[g] = job[g]
           /\ \/ guard' = guard /\ job'[f].pc # None
              \/ job[f].pc = "close" /\ guard' = guard \ {f} /\ job'[f] = NoJob
<1>0. job \in [Fids -> Jobs] /\ job[f] \in Jobs
  BY DEF Typed
<1>1. /\ job[f].pc # None /\ req' = req /\ up' = up
      /\ \A g \in Fids \ {f} : job'[g] = job[g]
  BY <1>0 DEF Thread, _scan_disk, extract_text, Store, EmbeddingUnavailable, reindex,
         Timeout, _run_background_reindex, _release_reindex, Job, Rest, Env, None
<1>2. CASE _release_reindex(f)
  BY <1>0, <1>1, <1>2 DEF _release_reindex, Job
<1>3. ASSUME job'[f] \in {[NoJob EXCEPT !.pc = pc] : pc \in {"begin", "failed", "close"}}
      PROVE  job'[f].pc # None
  BY <1>3, Endings DEF None
<1>4. CASE _scan_disk(f)
  <2>1. guard' = guard
    BY <1>4 DEF _scan_disk, Rest
  <2>2. job'[f].pc # None
    BY <1>0, <1>3, <1>4 DEF _scan_disk, Job, NoJob, None
  <2> QED BY <1>1, <2>1, <2>2
<1>5. CASE extract_text(f)
  <2>1. guard' = guard
    BY <1>5 DEF extract_text, Rest
  <2>2. PICK n \in job[f].todo :
        LET next == [job[f] EXCEPT !.todo = @ \ {n}] IN
        \/ job'[f] = next
        \/ \E t : job'[f] = [next EXCEPT !.pc = "embed", !.n = n, !.text = t]
        \/ job'[f] = [next EXCEPT !.errs = @ \cup {n}]
    BY <1>0, <1>5 DEF extract_text, Job
  <2>3. job[f].pc = "file"
    BY <1>5 DEF extract_text
  <2>4. job'[f].pc # None
    BY <1>0, <2>2, <2>3 DEF Jobs, None
  <2> QED BY <1>1, <2>1, <2>4
<1>6. CASE Store(f)
  <2>1. guard' = guard
    BY <1>6 DEF Store, Rest
  <2>2. \/ job'[f] = [job[f] EXCEPT !.pc = "file", !.n = None, !.text = NoText]
        \/ job'[f] = [NoJob EXCEPT !.pc = "failed"]
    BY <1>0, <1>6 DEF Store, Job
  <2>3. job'[f].pc # None
    BY <1>0, <1>3, <2>2 DEF Jobs, None
  <2> QED BY <1>1, <2>1, <2>3
<1>7. CASE EmbeddingUnavailable(f) \/ reindex(f) \/ Timeout(f) \/ _run_background_reindex(f)
  <2>1. guard' = guard
    BY <1>7 DEF EmbeddingUnavailable, reindex, Timeout, _run_background_reindex, Rest
  <2>2. job'[f] \in {[NoJob EXCEPT !.pc = pc] : pc \in {"begin", "failed", "close"}}
    BY <1>0, <1>7 DEF EmbeddingUnavailable, reindex, Timeout, _run_background_reindex, Job
  <2> QED BY <1>1, <1>3, <2>1, <2>2
<1> QED BY <1>2, <1>4, <1>5, <1>6, <1>7 DEF Thread

\* Requests change their own record, and start only by claiming.
LEMMA RequestRecord ==
    ASSUME KnowledgeAssumption, Typed, NEW r \in Requests,
           \/ register_folder(r) \/ get_folder(r) \/ _try_claim_reindex(r)
           \/ reindex_folder(r) \/ delete_folder(r) \/ Delete(r)
    PROVE  /\ \A s \in Requests \ {r} : req'[s] = req[s]
           /\ up' = up
           /\ \/ req' = req /\ register_folder(r)
              \/ req'[r] = NoReq
              \/ get_folder(r) /\ req'[r].op \in {"reindex", "delete"} /\ req'[r].id \in Live(db)
              \/ /\ _try_claim_reindex(r) /\ req[r].op = "reindex" /\ req[r].id \notin guard
                 /\ guard' = guard \cup {req[r].id}
                 /\ req'[r].op = "start" /\ req'[r].id = req[r].id
              \/ /\ delete_folder(r) /\ req[r].op = "delete" /\ req[r].id \notin guard
                 /\ req'[r].op = "remove" /\ req'[r].id = req[r].id
<1>0. req \in [Requests -> Queries] /\ req[r] \in Queries
  BY DEF Typed
<1>1. CASE register_folder(r)
  BY <1>1 DEF register_folder, Env
<1>2. CASE get_folder(r)
  <2>1. PICK f \in Live(db), op \in {"reindex", "delete"} :
          req' = [req EXCEPT ![r] = [NoReq EXCEPT !.op = op, !.id = f, !.copy = db.folder[f]]]
    BY <1>2 DEF get_folder
  <2>2. req'[r] = [NoReq EXCEPT !.op = op, !.id = f, !.copy = db.folder[f]]
    BY <1>0, <2>1
  <2>3. req'[r].op = op /\ req'[r].id = f
    BY <2>2 DEF NoReq
  <2>4. up' = up /\ \A s \in Requests \ {r} : req'[s] = req[s]
    BY <1>0, <1>2, <2>1 DEF get_folder, Env
  <2> QED BY <1>2, <2>1, <2>3, <2>4
<1>3. CASE _try_claim_reindex(r)
  <2>1. up' = up /\ req[r].op = "reindex" /\ \A s \in Requests \ {r} : req'[s] = req[s]
    BY <1>0, <1>3 DEF _try_claim_reindex, Done, Env
  <2>2. CASE req[r].id \in guard
    BY <1>0, <1>3, <2>1, <2>2 DEF _try_claim_reindex, Done
  <2>3. CASE req[r].id \notin guard
    <3>1. guard' = guard \cup {req[r].id} /\ req'[r] = [req[r] EXCEPT !.op = "start"]
      BY <1>0, <1>3, <2>3 DEF _try_claim_reindex
    <3>2. req'[r].op = "start" /\ req'[r].id = req[r].id
      BY <1>0, <3>1 DEF Queries
    <3> QED BY <1>3, <2>1, <2>3, <3>1, <3>2
  <2> QED BY <2>2, <2>3
<1>4. CASE reindex_folder(r)
  BY <1>0, <1>4 DEF reindex_folder, Done, Env
<1>5. CASE delete_folder(r)
  <2>1. up' = up /\ req[r].op = "delete" /\ \A s \in Requests \ {r} : req'[s] = req[s]
    BY <1>0, <1>5 DEF delete_folder, Done, Env
  <2>2. CASE req[r].id \in guard
    BY <1>0, <1>5, <2>1, <2>2 DEF delete_folder, Done
  <2>3. CASE req[r].id \notin guard
    <3>1. req'[r] = [req[r] EXCEPT !.op = "remove", !.rows = db.file[req[r].id]]
      BY <1>0, <1>5, <2>3 DEF delete_folder
    <3>2. req'[r].op = "remove" /\ req'[r].id = req[r].id
      BY <1>0, <3>1 DEF Queries
    <3> QED BY <1>5, <2>1, <2>3, <3>2
  <2> QED BY <2>2, <2>3
<1>6. CASE Delete(r)
  BY <1>0, <1>6 DEF Delete, Done, Env
<1> QED BY <1>1, <1>2, <1>3, <1>4, <1>5, <1>6

\* No step gives a folder two claims.
LEMMA ClaimedStep ==
    ASSUME KnowledgeAssumption, Typed, Claimed, [Next]_vars
    PROVE  Claimed'
<1>0. NoJob.pc = None /\ NoReq.op = None /\ job \in [Fids -> Jobs]
  BY NoneTyped DEF Typed
<1>1. CASE UNCHANGED <<job, guard, req, up>>
  BY <1>1 DEF Claimed
<1>2. ASSUME NEW f \in Fids, Thread(f) PROVE Claimed'
  <2>1. /\ job[f].pc # None /\ req' = req /\ up' = up
        /\ \A g \in Fids \ {f} : job'[g] = job[g]
        /\ \/ guard' = guard /\ job'[f].pc # None
           \/ job[f].pc = "close" /\ guard' = guard \ {f} /\ job'[f] = NoJob
    BY <1>2, ThreadRecord
  <2>2. up # FALSE
    BY <1>0, <2>1 DEF Claimed
  <2>3. \A s \in Requests : req[s].op = "start" => req[s].id # f
    BY <1>0, <2>1 DEF Claimed
  <2>4. \A s \in Requests : req[s].op = "start" => req[s].id \in Fids
    BY DEF Typed, None
  <2>5. \A s \in Requests :
          req'[s].op = "start" => req'[s].id \in guard' /\ job'[req'[s].id] = NoJob
    BY <2>1, <2>3, <2>4 DEF Claimed
  <2>6. \A g \in Fids : /\ job'[g].pc # None => g \in guard'
                        /\ job'[g].pc = None => job'[g] = NoJob
    BY <1>0, <2>1 DEF Claimed
  <2> QED BY <2>1, <2>2, <2>5, <2>6 DEF Claimed
<1>3. ASSUME NEW r \in Requests,
             \/ get_folder(r) \/ _try_claim_reindex(r) \/ delete_folder(r) \/ Delete(r)
      PROVE  Claimed'
  <2>1. job' = job /\ up' = up
    BY <1>3 DEF get_folder, _try_claim_reindex, delete_folder, Delete, Env
  <2>2. \A s \in Requests \ {r} : req'[s] = req[s]
    BY <1>3, RequestRecord
  <2>3. up # FALSE
    BY <1>0, <1>3 DEF get_folder, Free, _try_claim_reindex, delete_folder, Delete, Claimed, None
  <2>4. CASE guard' = guard /\ req'[r].op # "start"
    BY <2>1, <2>2, <2>3, <2>4 DEF Claimed
  <2>5. CASE /\ req[r].op = "reindex" /\ req[r].id \notin guard
             /\ guard' = guard \cup {req[r].id}
             /\ req'[r].op = "start" /\ req'[r].id = req[r].id
    <3>1. req[r].id \in Fids
      BY <2>5 DEF Typed, None
    <3>2. job[req[r].id] = NoJob
      BY <2>5, <3>1 DEF Claimed
    <3>3. \A s \in Requests : req[s].op = "start" => req[s].id # req[r].id
      BY <2>5 DEF Claimed
    <3>4. \A s \in Requests :
          req'[s].op = "start" => req'[s].id \in guard' /\ job'[req'[s].id] = NoJob
      BY <2>1, <2>2, <2>5, <3>2 DEF Claimed
    <3>5. \A s, t \in Requests : req'[s].op = "start" /\ req'[t].op = "start"
                                   /\ req'[s].id = req'[t].id => s = t
      BY <2>2, <2>5, <3>3 DEF Claimed
    <3>6. \A g \in Fids : /\ job'[g].pc # None => g \in guard'
                          /\ job'[g].pc = None => job'[g] = NoJob
      BY <2>1, <2>5 DEF Claimed
    <3> QED BY <2>1, <2>3, <3>4, <3>5, <3>6 DEF Claimed
  <2>6. \/ guard' = guard /\ req'[r].op # "start"
        \/ /\ req[r].op = "reindex" /\ req[r].id \notin guard
           /\ guard' = guard \cup {req[r].id}
           /\ req'[r].op = "start" /\ req'[r].id = req[r].id
    <3>1. CASE _try_claim_reindex(r)
      <4>1. req[r].id \in guard => guard' = guard /\ req'[r] = NoReq
        BY <3>1 DEF _try_claim_reindex, Done, Typed
      <4>2. req[r].id \notin guard =>
              /\ req[r].op = "reindex" /\ guard' = guard \cup {req[r].id}
              /\ req'[r] = [req[r] EXCEPT !.op = "start"] /\ req[r] \in Queries
        BY <3>1 DEF _try_claim_reindex, Typed
      <4> QED BY <1>0, <4>1, <4>2 DEF Queries, None
    <3>2. CASE get_folder(r)
      <4>1. guard' = guard /\ req[r] = NoReq
        BY <3>2 DEF get_folder, Free
      <4>2. PICK f \in Live(db), op \in {"reindex", "delete"} :
          req' = [req EXCEPT ![r] = [NoReq EXCEPT !.op = op, !.id = f, !.copy = db.folder[f]]]
        BY <3>2 DEF get_folder
      <4>3. req'[r].op = op
        BY <4>2 DEF Typed, NoReq
      <4> QED BY <4>1, <4>3
    <3>3. CASE delete_folder(r)
      <4>1. /\ guard' = guard /\ req[r] \in Queries
            /\ \/ req'[r] = NoReq
               \/ req'[r] = [req[r] EXCEPT !.op = "remove", !.rows = db.file[req[r].id]]
        BY <3>3 DEF delete_folder, Done, Typed
      <4> QED BY <1>0, <4>1 DEF Queries, None
    <3>4. CASE Delete(r)
      BY <1>0, <3>4 DEF Delete, Done, Typed, None
    <3> QED BY <1>3, <3>1, <3>2, <3>3, <3>4
  <2> QED BY <2>4, <2>5, <2>6
<1>4. ASSUME NEW r \in Requests, reindex_folder(r) PROVE Claimed'
  <2>1. PICK k \in Fids : k = req[r].id
    BY <1>4 DEF reindex_folder, Typed, None
  <2>2. /\ req[r].op = "start" /\ req' = [req EXCEPT ![r] = NoReq] /\ up' = up
        /\ \/ job' = [job EXCEPT ![k] = [NoJob EXCEPT !.pc = "begin"]] /\ guard' = guard
           \/ job' = job /\ guard' = guard \ {k}
    BY <1>4, <2>1, ReindexFacts DEF Env
  <2>3. k \in guard /\ job[k] = NoJob /\ up # FALSE
    BY <1>0, <2>1, <2>2 DEF Claimed, None
  <2>4. \A s \in Requests : req'[s].op = "start" =>
           /\ req'[s] = req[s] /\ s # r /\ req[s].id # k /\ req[s].id \in Fids
    BY <1>0, <2>1, <2>2 DEF Typed, Claimed, None
  <2>5. \A g \in Fids \ {k} : job'[g] = job[g]
    BY <1>0, <2>2
  <2>6. \/ job'[k].pc = "begin" /\ guard' = guard
        \/ job'[k] = NoJob /\ guard' = guard \ {k}
    BY <1>0, <2>2, <2>3, Endings
  <2>7. \A s \in Requests :
          req'[s].op = "start" => req'[s].id \in guard' /\ job'[req'[s].id] = NoJob
    BY <2>2, <2>4, <2>5 DEF Claimed
  <2>8. \A s, t \in Requests : req'[s].op = "start" /\ req'[t].op = "start"
                                   /\ req'[s].id = req'[t].id => s = t
    BY <2>4 DEF Claimed
  <2>9. \A g \in Fids : /\ job'[g].pc # None => g \in guard'
                        /\ job'[g].pc = None => job'[g] = NoJob
    BY <1>0, <2>3, <2>5, <2>6 DEF Claimed, None
  <2> QED BY <2>2, <2>3, <2>7, <2>8, <2>9 DEF Claimed
<1>5. CASE Crash
  <2>1. /\ \A f \in Fids : job'[f] = NoJob
        /\ \A r \in Requests : req'[r] = NoReq
    BY <1>5 DEF Crash
  <2> QED BY <1>0, <2>1 DEF Claimed, None
<1>6. CASE reset_stale_indexing_folders
  BY <1>6 DEF reset_stale_indexing_folders, Claimed
<1>7. CASE \/ \E r \in Requests : register_folder(r)
           \/ Edit \/ Unmount \/ build_embedder \/ UNCHANGED vars
  BY <1>1, <1>7 DEF register_folder, Edit, Unmount, build_embedder, vars, Env
<1> QED BY <1>2, <1>3, <1>4, <1>5, <1>6, <1>7 DEF Next

\* A thread changes at most the status of its own folder, when it ends.
LEMMA ThreadFolder ==
    ASSUME KnowledgeAssumption, Typed, NEW f \in Fids, Thread(f)
    PROVE  /\ \A g \in Fids \ {f} : db'.folder[g] = db.folder[g]
           /\ \/ db'.folder[f] = db.folder[f]
              \/ /\ f \in Live(db) /\ job'[f].pc = "close"
                 /\ db'.folder[f].path = db.folder[f].path
                 /\ db'.folder[f].status \in {"error", "ready"}
           /\ EmbeddingUnavailable(f) \/ reindex(f) =>
                \/ job'[f].pc # "close"
                \/ db'.folder[f].status \in {"error", "ready"}
                \/ job[f].copy.status \in {"error", "ready"}
           /\ _scan_disk(f) =>
                \/ job'[f].pc # "close" \/ f \notin Live(db)
                \/ db'.folder[f].status = "error"
           /\ _run_background_reindex(f) =>
                Busy \/ f \notin Live(db) \/ db'.folder[f].status = "error"
<1>0. job \in [Fids -> Jobs] /\ db \in Database /\ f # 0
  BY DEF Typed, Fids, KnowledgeAssumption
<1>1. PICK c : c = [NoJob EXCEPT !.pc = "close"]
  OBVIOUS
<1>2. c.pc = "close"
  BY <1>1, Endings
<1>3. ASSUME NEW s \in {"error", "ready"}, f \in Live(db), Commit(f, WithStatus(db, f, s))
      PROVE  /\ \A g \in Fids \ {f} : db'.folder[g] = db.folder[g]
             /\ db'.folder[f].path = db.folder[f].path /\ db'.folder[f].status = s
  <2>1. PICK d : d = WithStatus(db, f, s)
    OBVIOUS
  <2>2. s \in Statuses
    BY DEF Statuses
  <2>3. /\ d.folder[f] = [path |-> db.folder[f].path, status |-> s]
        /\ \A g \in Fids \ {f} : d.folder[g] = db.folder[g]
    BY <1>0, <1>3, <2>1, <2>2, StatusFacts
  <2>4. db' = d
    BY <1>3, <2>1 DEF Commit
  <2> QED BY <2>3, <2>4
<1>4. ASSUME NEW s \in {"error", "ready"}, f \in Live(db), Commit(f, SetStatus(View(f), f, s))
      PROVE  /\ \A g \in Fids \ {f} : db'.folder[g] = db.folder[g]
             /\ db'.folder[f].path = db.folder[f].path
             /\ db'.folder[f].status = s \/ (job[f].copy.status = s /\ db'.folder[f] = db.folder[f])
  <2>1. PICK d : d = SetStatus(View(f), f, s)
    OBVIOUS
  <2>2. s \in Statuses
    BY DEF Statuses
  <2>3. /\ d.folder[f].path = db.folder[f].path
        /\ \A g \in Fids \ {f} : d.folder[g] = db.folder[g]
        /\ d.folder[f].status = s \/ (job[f].copy.status = s /\ d.folder = db.folder)
    BY <1>4, <2>1, <2>2, SetStatusFacts
  <2>4. db' = d
    BY <1>4, <2>1 DEF Commit
  <2> QED BY <2>3, <2>4
<1>5. CASE db'.folder = db.folder /\ ~EmbeddingUnavailable(f) /\ ~reindex(f) /\ ~_scan_disk(f)
           /\ ~_run_background_reindex(f)
  BY <1>5
<1>6. CASE _scan_disk(f)
  <2>0. ~EmbeddingUnavailable(f) /\ ~reindex(f) /\ ~_run_background_reindex(f)
    BY <1>6 DEF _scan_disk, EmbeddingUnavailable, reindex, _run_background_reindex
  <2>1. CASE db.folder[f] = NoFolder
    <3>1. db' = db /\ f \notin Live(db)
      BY <1>6, <2>1 DEF _scan_disk, NoWrite, Live
    <3> QED BY <2>0, <3>1
  <2>2. CASE db.folder[f] # NoFolder /\ db.folder[f].path \notin roots
    <3>1. /\ Commit(f, WithStatus(db, f, "error")) /\ f \in Live(db) /\ job'[f] = c
      BY <1>0, <1>1, <1>6, <2>2 DEF _scan_disk, Job, Live, WithStatus
    <3> QED BY <1>2, <1>3, <2>0, <3>1
  <2>3. CASE db.folder[f] # NoFolder /\ db.folder[f].path \in roots
    <3>1. db' = db
      BY <1>6, <2>3 DEF _scan_disk, NoWrite, Write
    <3>2. job'[f].pc = "file"
      BY <1>0, <1>6, <2>3 DEF _scan_disk, Job, NoJob
    <3> QED BY <2>0, <3>1, <3>2
  <2> QED BY <2>1, <2>2, <2>3
<1>7. CASE extract_text(f)
  <2>0. ~EmbeddingUnavailable(f) /\ ~_scan_disk(f) /\ ~_run_background_reindex(f) /\ ~reindex(f)
    BY <1>7 DEF extract_text, _scan_disk, EmbeddingUnavailable, _run_background_reindex, reindex
  <2>1. (\E j : Progress(f, j, View(f))) \/ NoWrite
    BY <1>7 DEF extract_text
  <2>2. db' \in {db, View(f)}
    BY <2>1 DEF Progress, Commit, Write, NoWrite
  <2>3. db'.folder = db.folder
    BY <2>2, ViewFacts
  <2> QED BY <1>5, <2>0, <2>3
<1>8. CASE Store(f)
  <2>1. PICK d : d = Stored(View(f), f, job[f].n, Signature(f, job[f].n), job[f].text, job[f].model)
    OBVIOUS
  <2>2. /\ job[f] \in Jobs /\ job[f].pc = "embed" /\ job[f].copy.path \in Paths
        /\ job[f].n \in Names /\ View(f) \in Database /\ View(f).folder = db.folder
    BY <1>0, <1>8, ViewFacts DEF Store, Typed
  <2>3. /\ Signature(f, job[f].n) \in Text /\ job[f].text \in Text
        /\ job[f].model \in Models \cup {None}
    BY <2>2 DEF Signature, Text, Jobs
  <2>4. NextChunk(View(f)) <= MaxChunk => d.folder = db.folder
    BY <2>1, <2>2, <2>3, StoredFacts
  <2>5. db'.folder = db.folder
    BY <1>8, <2>1, <2>4 DEF Store, Rollback, Progress, Commit, Write, NoWrite
  <2>6. job'[f].pc # "close" /\ ~_scan_disk(f) /\ ~reindex(f) /\ ~_run_background_reindex(f)
    <3>1. \/ job'[f] = [job[f] EXCEPT !.pc = "file", !.n = None, !.text = NoText]
          \/ job'[f] = [NoJob EXCEPT !.pc = "failed"]
      BY <1>0, <1>8 DEF Store, Job
    <3> QED BY <2>2, <3>1, Endings DEF Jobs, _scan_disk, reindex, _run_background_reindex
  <2> QED BY <2>5, <2>6
<1>9. CASE EmbeddingUnavailable(f) \/ reindex(f)
  <2>0. ~_scan_disk(f) /\ ~_run_background_reindex(f) /\ Live(View(f)) = Live(db)
    BY <1>9, ViewFacts DEF EmbeddingUnavailable, _scan_disk, _run_background_reindex, reindex
  <2>1. CASE Rollback(f) /\ job'[f] = [NoJob EXCEPT !.pc = "failed"]
    <3>1. db' = db /\ job'[f].pc = "failed"
      BY <2>1, Endings DEF Rollback
    <3> QED BY <2>0, <3>1
  <2>2. ASSUME NEW s \in {"error", "ready"}, f \in Live(db),
               Commit(f, SetStatus(View(f), f, s)), job'[f] = c
        PROVE  /\ \A g \in Fids \ {f} : db'.folder[g] = db.folder[g]
               /\ \/ db'.folder[f] = db.folder[f]
                  \/ /\ f \in Live(db) /\ job'[f].pc = "close"
                     /\ db'.folder[f].path = db.folder[f].path
                     /\ db'.folder[f].status \in {"error", "ready"}
               /\ \/ db'.folder[f].status \in {"error", "ready"}
                  \/ job[f].copy.status \in {"error", "ready"}
    BY <1>2, <1>4, <2>2
  <2>3. \/ Rollback(f) /\ job'[f] = [NoJob EXCEPT !.pc = "failed"]
        \/ \E s \in {"error", "ready"} :
              f \in Live(db) /\ Commit(f, SetStatus(View(f), f, s)) /\ job'[f] = c
    BY <1>0, <1>1, <1>9, <2>0 DEF EmbeddingUnavailable, reindex, Job
  <2> QED BY <2>0, <2>1, <2>2, <2>3
<1>10. CASE Timeout(f) \/ _release_reindex(f)
  <2>1. db' = db
    BY <1>10 DEF Timeout, _release_reindex, NoWrite
  <2>2. job'[f].pc # "close"
    BY <1>0, <1>10, Endings, NoneTyped DEF Timeout, _release_reindex, Job, None
  <2>3. ~_run_background_reindex(f)
    BY <1>10 DEF _run_background_reindex, Timeout, _release_reindex
  <2> QED BY <2>1, <2>2, <2>3
<1>11. CASE _run_background_reindex(f)
  <2>0. job'[f] = c /\ ~EmbeddingUnavailable(f) /\ ~reindex(f) /\ ~_scan_disk(f)
    BY <1>0, <1>1, <1>11 DEF _run_background_reindex, Job, EmbeddingUnavailable, reindex, _scan_disk
  <2>1. CASE f \in Live(db) /\ Commit(f, WithStatus(db, f, "error"))
    BY <1>2, <1>3, <2>0, <2>1
  <2>2. CASE (f \notin Live(db) \/ Busy) /\ NoWrite
    <3>1. db' = db
      BY <2>2 DEF NoWrite
    <3> QED BY <2>0, <2>2, <3>1
  <2> QED BY <1>11, <2>1, <2>2 DEF _run_background_reindex, WithStatus
<1> QED BY <1>6, <1>7, <1>8, <1>9, <1>10, <1>11 DEF Thread

\* What becomes of the row of folder f.
LEMMA FolderChange ==
    ASSUME KnowledgeAssumption, Typed, NEW f \in Fids, [Next]_vars
    PROVE  \/ db'.folder[f] = db.folder[f]
           \/ /\ \E r \in Requests : register_folder(r)
              /\ f \notin Live(db) /\ db'.folder[f].status = "pending"
           \/ /\ \E r \in Requests : reindex_folder(r) /\ req[r].id = f
              /\ f \in Live(db)
              /\ db'.folder[f] = [path |-> db.folder[f].path, status |-> "indexing"]
           \/ /\ \E r \in Requests : Delete(r) /\ req[r].id = f
              /\ db'.folder[f] = NoFolder
           \/ /\ Thread(f) /\ f \in Live(db) /\ job'[f].pc = "close"
              /\ db'.folder[f].path = db.folder[f].path
              /\ db'.folder[f].status \in {"error", "ready"}
           \/ /\ reset_stale_indexing_folders /\ f \in Live(db)
              /\ db'.folder[f].path = db.folder[f].path /\ db'.folder[f].status # "indexing"
<1>0. db \in Database /\ db.folder \in [Fids -> FolderRow]
  BY DEF Typed, Database
<1>1. ASSUME NEW r \in Requests, register_folder(r)
      PROVE  \/ db'.folder[f] = db.folder[f]
             \/ f \notin Live(db) /\ db'.folder[f].status = "pending"
  <2>1. PICK k \in Fids \ Live(db), p \in Paths :
          db'.folder = [db.folder EXCEPT ![k] = [path |-> p, status |-> "pending"]]
    BY <1>1, RegisterFacts
  <2> QED BY <1>0, <2>1
<1>2. ASSUME NEW r \in Requests, reindex_folder(r)
      PROVE  \/ db'.folder[f] = db.folder[f]
             \/ /\ req[r].id = f /\ f \in Live(db)
                /\ db'.folder[f] = [path |-> db.folder[f].path, status |-> "indexing"]
  BY <1>2, ReindexFacts
<1>3. ASSUME NEW r \in Requests, Delete(r)
      PROVE  db'.folder[f] = db.folder[f] \/ (req[r].id = f /\ db'.folder[f] = NoFolder)
  BY <1>0, <1>3, DeleteFacts
<1>4. ASSUME NEW g \in Fids, Thread(g)
      PROVE  \/ db'.folder[f] = db.folder[f]
             \/ /\ Thread(f) /\ f \in Live(db) /\ job'[f].pc = "close"
                /\ db'.folder[f].path = db.folder[f].path
                /\ db'.folder[f].status \in {"error", "ready"}
  BY <1>4, ThreadFolder
<1>5. CASE reset_stale_indexing_folders
  <2>1. /\ db'.folder[f].path = db.folder[f].path /\ db'.folder[f].status # "indexing"
        /\ db'.folder[f] = NoFolder <=> db.folder[f] = NoFolder
    BY <1>5, ResetFacts
  <2>2. CASE db.folder[f] = NoFolder
    BY <2>1, <2>2
  <2>3. CASE db.folder[f] # NoFolder
    BY <1>5, <2>1, <2>3 DEF Live
  <2> QED BY <2>2, <2>3
<1>6. CASE \/ \E r \in Requests : get_folder(r) \/ _try_claim_reindex(r) \/ delete_folder(r)
           \/ Edit \/ Unmount \/ build_embedder \/ Crash \/ UNCHANGED vars
  BY <1>6 DEF get_folder, _try_claim_reindex, delete_folder, Edit, Unmount, build_embedder,
         Crash, vars
<1> QED BY <1>1, <1>2, <1>3, <1>4, <1>5, <1>6 DEF Next

\* A folder keeps its path until it is deleted; it comes in by a registration.
LEMMA FolderKept ==
    ASSUME KnowledgeAssumption, Typed, NEW f \in Fids, [Next]_vars
    PROVE  /\ f \in Live(db) =>
                \/ \E r \in Requests : Delete(r) /\ req[r].id = f
                \/ f \in Live(db') /\ db'.folder[f].path = db.folder[f].path
           /\ f \in Live(db') =>
                \/ \E r \in Requests : register_folder(r)
                \/ f \in Live(db) /\ db'.folder[f].path = db.folder[f].path
<1>0. db \in Database /\ (f \in Live(db) <=> db.folder[f] # NoFolder)
      /\ (f \in Live(db') <=> db'.folder[f] # NoFolder)
  BY DEF Typed, Live
<1>1. f \in Live(db) => db.folder[f].path \in Paths
  BY <1>0, LiveFolder
<1>2. NoFolder.path \notin Paths
  BY DEF NoFolder, None, KnowledgeAssumption
<1>3. CASE db'.folder[f] = db.folder[f]
  BY <1>0, <1>3
<1>4. CASE (\E r \in Requests : register_folder(r)) /\ f \notin Live(db)
  BY <1>4
<1>5. CASE f \in Live(db) /\ db'.folder[f].path = db.folder[f].path
  BY <1>0, <1>1, <1>2, <1>5
<1>6. CASE (\E r \in Requests : Delete(r) /\ req[r].id = f) /\ db'.folder[f] = NoFolder
  BY <1>0, <1>6
<1>7. CASE f \in Live(db) /\ db'.folder[f] = [path |-> db.folder[f].path, status |-> "indexing"]
  BY <1>5, <1>7
<1> QED BY <1>3, <1>4, <1>5, <1>6, <1>7, FolderChange

\* Chunks stand for a text, and no two folders get the same path.
LEMMA RowsSoundStep ==
    ASSUME KnowledgeAssumption, Typed, RowsSound, [Next]_vars
    PROVE  RowsSound'
<1>1. Typed' /\ RowsStep
  BY TypedStep
<1>2. ASSUME NEW e, RowsFrom(e), NEW f \in Fids, NEW n \in Names, e.file[f][n].chunk # 0
      PROVE  e.file[f][n].text # NoText
  BY <1>2 DEF RowsFrom, Fetched, RowsSound, NoFile
<1>3. RowsFrom(db') /\ RowsFrom(work')
  BY <1>1 DEF RowsStep
<1>4. ASSUME NEW r \in Requests, register_folder(r)
      PROVE  \A f, g \in Live(db') : db'.folder[f].path = db'.folder[g].path => f = g
  <2>1. PICK k \in Fids \ Live(db), p \in Paths :
          /\ db'.folder = [db.folder EXCEPT ![k] = [path |-> p, status |-> "pending"]]
          /\ \A f \in Live(db) : db.folder[f].path # p
    BY <1>4, RegisterFacts
  <2>2. db.folder \in [Fids -> FolderRow]
    BY DEF Typed, Database
  <2>3. /\ db'.folder[k].path = p
        /\ \A f \in Live(db') \ {k} : f \in Live(db) /\ db'.folder[f] = db.folder[f]
    BY <2>1, <2>2 DEF Live
  <2> QED BY <2>1, <2>3 DEF RowsSound
<1>5. ASSUME ~\E r \in Requests : register_folder(r)
      PROVE  \A f, g \in Live(db') : db'.folder[f].path = db'.folder[g].path => f = g
  <2>1. ASSUME NEW f \in Live(db')
        PROVE  f \in Live(db) /\ db'.folder[f].path = db.folder[f].path
    <3>1. f \in Fids /\ db'.folder[f] # NoFolder
      BY DEF Live
    <3> QED BY <1>5, <3>1, FolderKept
  <2> QED BY <2>1 DEF RowsSound
<1>6. \A f, g \in Live(db') : db'.folder[f].path = db'.folder[g].path => f = g
  BY <1>4, <1>5
<1>7. Live(db)' = Live(db')
  BY DEF Live
<1> QED BY <1>2, <1>3, <1>6, <1>7 DEF RowsSound

\* The invariants give the type invariant.
LEMMA TypesGive ==
    ASSUME Typed, Claimed, RowsSound
    PROVE  TypeOK
<1>1. \A f \in Fids : db.folder[f].status \in {None, "pending", "indexing", "ready", "error"}
  <2> TAKE f \in Fids
  <2>1. db.folder[f] \in FolderRow
    BY DEF Typed, Database
  <2> QED BY <2>1 DEF FolderRow, Statuses, NoFolder
<1>2. \A x \in search(db) : Row(db, x).text # NoText
  <2> TAKE x \in search(db)
  <2>1. x[1] \in Fids /\ x[2] \in Names /\ Row(db, x).chunk # 0
    BY DEF search, Live
  <2> QED BY <2>1 DEF Row, RowsSound
<1>3. \A f \in Fids : job[f] # NoJob => f \in guard
  BY DEF Claimed
<1>4. guard \subseteq Fids /\ writer \in 0..MaxFolder /\ (writer = 0 => work = db)
  BY DEF Typed
<1>5. \A f, g \in Live(db) : db.folder[f].path = db.folder[g].path => f = g
  BY DEF RowsSound
<1> QED BY <1>1, <1>2, <1>3, <1>4, <1>5 DEF TypeOK

\* The types hold, paths are registered once, the search only finds chunks with
\* a text, what a transaction has not committed is its own, and a thread works
\* under its claim, however requests and threads overlap.
THEOREM IndexTyped ==
    ASSUME KnowledgeAssumption
    PROVE  Spec => []TypeOK
<1>1. Init => Typed /\ Claimed /\ RowsSound
  BY InitTyped
<1>2. Typed /\ Claimed /\ RowsSound /\ [Next]_vars => Typed' /\ Claimed' /\ RowsSound'
  BY TypedStep, ClaimedStep, RowsSoundStep
<1>3. Typed /\ Claimed /\ RowsSound => TypeOK
  BY TypesGive
<1> QED BY <1>1, <1>2, <1>3, PTL DEF Spec

-----------------------------------------------------------------------------
(* One request at a time.                                                  *)

\* A request or a thread that is at work has a folder that stays.
LEMMA SerialStep ==
    ASSUME KnowledgeAssumption, Concurrent = FALSE, Typed, Claimed, Serial, [Next]_vars
    PROVE  Serial'
<1>0. /\ NoJob.pc = None /\ NoReq.op = None /\ job \in [Fids -> Jobs]
      /\ req \in [Requests -> Queries] /\ db \in Database /\ Typed'
  BY NoneTyped, TypedStep DEF Typed
<1>1. ASSUME NEW f \in Live(db), ~\E r \in Requests : Delete(r) /\ req[r].id = f
      PROVE  f \in Live(db')
  <2>1. f \in Fids
    BY DEF Live
  <2> QED BY <1>1, <2>1, FolderKept
<1>2. ASSUME NEW r \in Requests, Delete(r)
      PROVE  /\ req[r].op = "remove" /\ req[r].id \in Fids /\ job[req[r].id] = NoJob
             /\ \A s \in Requests \ {r} : req[s] = NoReq
  <2>1. req[r].op = "remove" /\ req[r].id \in Fids
    BY <1>2 DEF Delete, Typed, None
  <2>2. req[r].id \notin guard
    BY <2>1 DEF Serial
  <2> QED BY <2>1, <2>2 DEF Serial, Claimed, None
\* The requests.
<1>3. /\ \A r, s \in Requests : req'[r].op # None /\ req'[s].op # None => r = s
      /\ \A r \in Requests : req'[r].op = None => req'[r] = NoReq
      /\ \A r \in Requests : req'[r].op # None => req'[r].id \in Live(db')
      /\ \A r \in Requests : req'[r].op = "remove" => req'[r].id \notin guard'
  <2>1. ASSUME req' = req, guard' \subseteq guard, \A r \in Requests : ~Delete(r)
        PROVE  /\ \A r, s \in Requests : req'[r].op # None /\ req'[s].op # None => r = s
               /\ \A r \in Requests : req'[r].op = None => req'[r] = NoReq
               /\ \A r \in Requests : req'[r].op # None => req'[r].id \in Live(db')
               /\ \A r \in Requests : req'[r].op = "remove" => req'[r].id \notin guard'
    BY <1>1, <2>1 DEF Serial
  <2>2. ASSUME NEW r \in Requests, \/ register_folder(r) \/ get_folder(r) \/ _try_claim_reindex(r)
                                   \/ reindex_folder(r) \/ delete_folder(r) \/ Delete(r)
        PROVE  /\ \A t, s \in Requests : req'[t].op # None /\ req'[s].op # None => t = s
               /\ \A s \in Requests : req'[s].op = None => req'[s] = NoReq
               /\ \A s \in Requests : req'[s].op # None => req'[s].id \in Live(db')
               /\ \A s \in Requests : req'[s].op = "remove" => req'[s].id \notin guard'
    <3>0. \A s \in Requests \ {r} : req'[s] = req[s]
      BY <2>2, RequestRecord
    <3>1. CASE register_folder(r)
      <4>1. req' = req /\ guard' = guard /\ \A s \in Requests : req[s] = NoReq
        BY <3>1 DEF register_folder, Free
      <4> QED BY <1>0, <4>1 DEF None
    <3>2. ASSUME \A s \in Requests \ {r} : req[s] = NoReq
          PROVE  \A t, s \in Requests : req'[t].op # None /\ req'[s].op # None => t = s
      BY <1>0, <3>0, <3>2
    <3>3. CASE /\ \A s \in Requests \ {r} : req[s] = NoReq
               /\ req'[r] = NoReq
      BY <1>0, <3>0, <3>3 DEF None
    <3>4. CASE /\ \A s \in Requests \ {r} : req[s] = NoReq
               /\ req'[r].op \in {"reindex", "start", "delete", "remove"}
               /\ req'[r].id \in Live(db) /\ db' = db
               /\ req'[r].op = "remove" => req'[r].id \notin guard'
      BY <1>0, <3>0, <3>2, <3>4 DEF None
    <3>5. CASE get_folder(r)
      <4>1. /\ \A s \in Requests : req[s] = NoReq /\ db' = db
        BY <3>5 DEF get_folder, Free
      <4>2. PICK f \in Live(db), op \in {"reindex", "delete"} :
          req' = [req EXCEPT ![r] = [NoReq EXCEPT !.op = op, !.id = f, !.copy = db.folder[f]]]
        BY <3>5 DEF get_folder
      <4>3. req'[r].op = op /\ req'[r].id = f
        BY <1>0, <4>2 DEF NoReq
      <4> QED BY <3>4, <3>5, <4>1, <4>3 DEF get_folder
    <3>6. ASSUME req[r].op # None PROVE /\ req[r].id \in Live(db)
                                        /\ \A s \in Requests \ {r} : req[s] = NoReq
      BY <3>6 DEF Serial
    <3>7. CASE _try_claim_reindex(r)
      <4>1. req[r].op = "reindex" /\ db' = db
        BY <3>7 DEF _try_claim_reindex
      <4>2. \/ req'[r] = NoReq
            \/ req'[r] = [req[r] EXCEPT !.op = "start"]
        BY <1>0, <3>7 DEF _try_claim_reindex, Done
      <4>3. \/ req'[r] = NoReq
            \/ req'[r].op = "start" /\ req'[r].id = req[r].id
        BY <1>0, <4>2 DEF Queries
      <4> QED BY <3>3, <3>4, <3>6, <4>1, <4>3 DEF None
    <3>8. CASE delete_folder(r)
      <4>1. req[r].op = "delete" /\ db' = db /\ guard' = guard
        BY <3>8 DEF delete_folder
      <4>2. \/ req'[r] = NoReq
            \/ /\ req[r].id \notin guard
               /\ req'[r] = [req[r] EXCEPT !.op = "remove", !.rows = db.file[req[r].id]]
        BY <1>0, <3>8 DEF delete_folder, Done
      <4>3. \/ req'[r] = NoReq
            \/ req[r].id \notin guard /\ req'[r].op = "remove" /\ req'[r].id = req[r].id
        BY <1>0, <4>2 DEF Queries
      <4> QED BY <3>3, <3>4, <3>6, <4>1, <4>3 DEF None
    <3>9. CASE reindex_folder(r) \/ Delete(r)
      <4>1. req[r].op # None /\ req'[r] = NoReq
        BY <1>0, <3>9 DEF reindex_folder, Delete, Done, None
      <4> QED BY <3>3, <3>6, <4>1
    <3> QED BY <2>2, <3>1, <3>5, <3>7, <3>8, <3>9
  <2>3. CASE Crash
    <3>1. \A r \in Requests : req'[r] = NoReq
      BY <2>3 DEF Crash
    <3> QED BY <1>0, <3>1 DEF None
  <2>4. CASE \/ \E f \in Fids : Thread(f)
             \/ Edit \/ Unmount \/ build_embedder \/ reset_stale_indexing_folders \/ UNCHANGED vars
    <3>1. req' = req /\ guard' \subseteq guard
      BY <2>4, ThreadRecord DEF Edit, Unmount, build_embedder, reset_stale_indexing_folders, vars
    <3>2. CASE \E r \in Requests : Delete(r)
      BY <2>2, <3>2
    <3>3. CASE \A r \in Requests : ~Delete(r)
      BY <2>1, <3>1, <3>3
    <3> QED BY <3>2, <3>3
  <2> QED BY <2>2, <2>3, <2>4 DEF Next
\* The threads.
<1>4. ASSUME NEW f \in Fids, job'[f].pc # None PROVE f \in Live(db')
  <2>1. CASE job[f].pc # None
    <3>1. f \in Live(db)
      BY <2>1 DEF Serial
    <3>2. ~\E r \in Requests : Delete(r) /\ req[r].id = f
      BY <1>0, <1>2, <2>1
    <3> QED BY <1>1, <3>1, <3>2
  <2>2. CASE job[f].pc = None
    <3>1. PICK r \in Requests : reindex_folder(r) /\ req[r].id = f
      <4>1. ~Thread(f) /\ (Crash => job'[f] = NoJob)
        BY <1>0, <2>2, ThreadRecord DEF Crash
      <4>2. ASSUME NEW r \in Requests, reindex_folder(r), req[r].id # f PROVE job'[f] = job[f]
        BY <1>0, <4>2, ReindexFacts
      <4> QED BY <1>0, <1>4, <2>2, <4>1, <4>2, ThreadRecord
              DEF Next, register_folder, get_folder, _try_claim_reindex, delete_folder, Delete,
                  Edit, Unmount, build_embedder, reset_stale_indexing_folders, vars
    <3>2. f \in Live(db) /\ req[r].op = "start"
      BY <3>1 DEF Serial, reindex_folder, None
    <3>3. ~\E s \in Requests : Delete(s) /\ req[s].id = f
      BY <1>0, <1>2, <3>2 DEF None
    <3> QED BY <1>1, <3>2, <3>3
  <2> QED BY <2>1, <2>2
<1>5. ASSUME NEW f \in Fids, job'[f].pc \in {"file", "embed"} PROVE job'[f].copy = db'.folder[f]
  <2>1. CASE _scan_disk(f)
    <3>1. job'[f] # [NoJob EXCEPT !.pc = "close"]
      BY <1>5, Endings
    <3>2. db.folder[f] # NoFolder /\ db.folder[f].path \in roots
      BY <1>0, <2>1, <3>1 DEF _scan_disk, Job
    <3> DEFINE sc == [n \in Names |-> OnDisk(db.folder[f].path, n)]
    <3>a. PICK w, scan, todo, m, rows :
            /\ w = db.folder[f] /\ scan = sc /\ todo = {n \in Names : sc[n] # 0}
            /\ m = active /\ rows = db.file[f]
      OBVIOUS
    <3>3. /\ w = db.folder[f]
          /\ job'[f] = [NoJob EXCEPT !.pc = "file", !.model = m, !.copy = w, !.scan = scan,
                                     !.rows = rows, !.todo = todo]
      BY <1>0, <2>1, <3>2, <3>a DEF _scan_disk, Job
    <3> HIDE DEF sc
    <3>4. db' = db
      BY <2>1, <3>2 DEF _scan_disk, NoWrite, Write
    <3>5. job'[f].copy = w
      BY <3>3 DEF NoJob
    <3> QED BY <3>3, <3>4, <3>5
  <2>2. CASE extract_text(f) \/ Store(f)
    <3>1. job[f] \in Jobs /\ job[f].pc \in {"file", "embed"}
      BY <1>0, <2>2 DEF extract_text, Store
    <3>2. job[f].copy = db.folder[f]
      BY <3>1 DEF Serial
    <3>3. Thread(f)
      BY <2>2 DEF Thread
    <3>4. db'.folder[f] = db.folder[f]
      BY <1>5, <3>3, ThreadFolder
    <3>5. CASE extract_text(f)
      <4>1. PICK n \in job[f].todo :
        LET next == [job[f] EXCEPT !.todo = @ \ {n}] IN
        \/ job'[f] = next
        \/ \E t : job'[f] = [next EXCEPT !.pc = "embed", !.n = n, !.text = t]
        \/ job'[f] = [next EXCEPT !.errs = @ \cup {n}]
        BY <1>0, <3>5 DEF extract_text, Job
      <4>2. PICK j, next : j = job[f] /\ next = [j EXCEPT !.todo = @ \ {n}]
        OBVIOUS
      <4>3. next.copy = j.copy /\ next \in Jobs
        BY <3>1, <4>2 DEF Jobs
      <4>4. \/ job'[f] = next
            \/ \E t : job'[f] = [next EXCEPT !.pc = "embed", !.n = n, !.text = t]
            \/ job'[f] = [next EXCEPT !.errs = @ \cup {n}]
        BY <4>1, <4>2
      <4>5. job'[f].copy = j.copy
        BY <4>3, <4>4 DEF Jobs
      <4> QED BY <3>2, <3>4, <4>2, <4>5
    <3>6. CASE Store(f)
      <4>1. PICK j, next :
              j = job[f] /\ next = [j EXCEPT !.pc = "file", !.n = None, !.text = NoText]
        OBVIOUS
      <4>2. job'[f] = next \/ job'[f] = [NoJob EXCEPT !.pc = "failed"]
        BY <1>0, <3>6, <4>1 DEF Store, Job
      <4>3. job'[f] = next
        BY <1>5, <4>2, Endings
      <4>4. next.copy = j.copy
        BY <3>1, <4>1 DEF Jobs
      <4> QED BY <3>2, <3>4, <4>1, <4>3, <4>4
    <3> QED BY <2>2, <3>5, <3>6
  <2>3. CASE job'[f] = job[f]
    <3>1. job[f].copy = db.folder[f] /\ job[f].pc # None /\ f \in Live(db)
      BY <1>5, <2>3 DEF Serial, None
    <3>2. \A r \in Requests : req[r].id = f => ~Delete(r) /\ ~reindex_folder(r)
      <4>1. job[f] # NoJob
        BY <1>0, <3>1
      <4>2. \A r \in Requests : reindex_folder(r) => req[r].op = "start"
        BY DEF reindex_folder
      <4>3. \A r \in Requests : req[r].op = "start" => job[req[r].id] = NoJob
        BY DEF Claimed
      <4> QED BY <1>2, <4>1, <4>2, <4>3
    <3>3. ~reset_stale_indexing_folders
      BY <1>0, <3>1 DEF reset_stale_indexing_folders, Claimed, Typed
    <3>4. db'.folder[f] = db.folder[f]
      BY <1>5, <3>1, <3>2, <3>3, FolderChange
    <3> QED BY <2>3, <3>1, <3>4
  <2>4. CASE \/ job'[f] \in {[NoJob EXCEPT !.pc = pc] : pc \in {"begin", "failed", "close"}}
             \/ job'[f] = NoJob
    BY <1>0, <1>5, <2>4, Endings DEF None
  <2> QED BY <2>1, <2>2, <2>3, <2>4, JobChange
<1>6. Live(db)' = Live(db')
  BY DEF Live
<1> QED BY <1>3, <1>4, <1>5, <1>6 DEF Serial

\* The rows of a folder stay its own: a row goes with its folder.
LEMMA BelongsStep ==
    ASSUME KnowledgeAssumption, Concurrent = FALSE, Typed, Claimed, Serial, Belongs, [Next]_vars
    PROVE  Belongs'
<1>0. Typed' /\ RowsStep
  BY TypedStep
<1>1. ASSUME NEW e, RowsFrom(e), NEW f \in Fids, NEW n \in Names, e.file[f][n] # NoFile
      PROVE  f \in Live(db) /\ e.file[f][n].sig.p = db.folder[f].path
  <2>1. PICK x : x = e.file[f][n]
    OBVIOUS
  <2>2. x # NoFile /\ (x \in {db.file[f][n], work.file[f][n]} \/ Fetched(f, n, x))
    BY <1>1, <2>1 DEF RowsFrom
  <2>3. CASE x = db.file[f][n]
    BY <2>1, <2>2, <2>3 DEF Belongs, Own
  <2>4. CASE x = work.file[f][n]
    <3>1. f \in Live(work) /\ x.sig.p = work.folder[f].path /\ work.folder = db.folder
      BY <2>2, <2>4 DEF Belongs, Own, Typed
    <3> QED BY <2>1, <3>1 DEF Live
  <2>5. CASE Fetched(f, n, x)
    <3>1. x.sig.p = job[f].copy.path /\ job[f].pc = "embed"
      BY <2>5 DEF Fetched, Signature
    <3>2. f \in Live(db) /\ job[f].copy = db.folder[f]
      BY <3>1 DEF Serial, None
    <3> QED BY <2>1, <3>1, <3>2
  <2> QED BY <2>2, <2>3, <2>4, <2>5
<1>2. ASSUME NEW e, RowsFrom(e), e.folder = db'.folder, NEW f \in Fids, NEW n \in Names,
             e.file[f][n] # NoFile,
             ~\E r \in Requests : Delete(r) /\ req[r].id = f
      PROVE  f \in Live(e) /\ e.file[f][n].sig.p = e.folder[f].path
  <2>1. f \in Live(db) /\ e.file[f][n].sig.p = db.folder[f].path
    BY <1>1, <1>2
  <2>2. f \in Live(db') /\ db'.folder[f].path = db.folder[f].path
    BY <1>2, <2>1, FolderKept
  <2> QED BY <1>2, <2>1, <2>2 DEF Live
<1>3. ASSUME NEW f \in Fids, NEW n \in Names, NEW r \in Requests, Delete(r), req[r].id = f
      PROVE  db'.file[f][n] = NoFile /\ work' = db'
  <2>1. db'.file = [db.file EXCEPT ![f] = [m \in Names |-> NoFile]] /\ work' = db'
    BY <1>3, DeleteFacts
  <2> QED BY <2>1 DEF Typed, Database
<1>4. RowsFrom(db') /\ RowsFrom(work') /\ work'.folder = db'.folder
  BY <1>0 DEF RowsStep, Typed
<1>5. \A f \in Fids, n \in Names : db'.file[f][n] # NoFile =>
        f \in Live(db') /\ db'.file[f][n].sig.p = db'.folder[f].path
  BY <1>2, <1>3, <1>4
<1>6. \A f \in Fids, n \in Names : work'.file[f][n] # NoFile =>
        f \in Live(work') /\ work'.file[f][n].sig.p = work'.folder[f].path
  BY <1>2, <1>3, <1>4
<1>7. Own(db') /\ Own(work')
  BY <1>5, <1>6 DEF Own
<1> QED BY <1>7 DEF Belongs, Own, Live

\* Rows that are a folder's own come from its directory.
LEMMA BelongsGives ==
    ASSUME Belongs
    PROVE  FilesBelong
<1> SUFFICES ASSUME NEW f \in Live(db), NEW n \in Names, db.file[f][n] # NoFile
             PROVE  db.file[f][n].sig.p = db.folder[f].path
  BY DEF FilesBelong
<1> QED BY DEF Belongs, Own, Live

\* With one request at a time, the rows of a folder were extracted from its own
\* directory, although the ids of deleted folders are given again.
THEOREM SerialFilesBelong ==
    ASSUME KnowledgeAssumption, Concurrent = FALSE
    PROVE  Spec => []FilesBelong
<1> DEFINE Inv == Typed /\ Claimed /\ Serial /\ Belongs
<1>1. Init => Inv
  BY InitTyped
<1>2. Inv /\ [Next]_vars => Inv'
  BY TypedStep, ClaimedStep, SerialStep, BelongsStep
<1>3. Inv => FilesBelong
  BY BelongsGives
<1> QED BY <1>1, <1>2, <1>3, PTL DEF Spec

\* A thread can always start while there are no more folders than threads.
LEMMA ThreadsSuffice ==
    ASSUME KnowledgeAssumption, MaxFolder <= MaxThreads, Typed, NEW k \in Fids, job[k] = NoJob
    PROVE  Cardinality({f \in Fids : job[f] # NoJob}) < MaxThreads
<1>1. IsFiniteSet(Fids) /\ Cardinality(Fids) = MaxFolder
  BY FS_Interval DEF Fids, KnowledgeAssumption
<1>2. PICK S : S = {f \in Fids : job[f] # NoJob}
  OBVIOUS
<1>3. S \in SUBSET Fids /\ S # Fids
  BY <1>2
<1>4. IsFiniteSet(S) /\ Cardinality(S) <= Cardinality(Fids) /\ Cardinality(S) # Cardinality(Fids)
  BY <1>1, <1>3, FS_Subset
<1>5. Cardinality(S) \in Nat
  BY <1>4, FS_CardinalityType
<1> QED BY <1>1, <1>2, <1>4, <1>5 DEF KnowledgeAssumption

\* The status is indexing only while somebody has the folder.
LEMMA HonestStep ==
    ASSUME KnowledgeAssumption, Concurrent = FALSE, Busy = FALSE, MaxFolder <= MaxThreads,
           Typed, Claimed, Serial, Honest, [Next]_vars
    PROVE  Honest'
<1>0. /\ NoJob.pc = None /\ NoReq.op = None /\ job \in [Fids -> Jobs]
      /\ NoFolder.status # "indexing" /\ up \in BOOLEAN
  BY NoneTyped DEF Typed, NoFolder, None
\* The thread that gives its claim back has set the status.
<1>1. ASSUME NEW f \in Fids, job'[f].pc = "close" PROVE db'.folder[f].status # "indexing"
  <2>1. CASE Thread(f)
    <3>1. f \in Live(db) /\ job[f].pc # None
      BY <2>1, ThreadRecord DEF Serial
    <3>2. CASE _scan_disk(f)
      BY <1>1, <2>1, <3>1, <3>2, ThreadFolder
    <3>3. CASE extract_text(f)
      <4>1. job[f] \in Jobs /\ job[f].pc = "file"
        BY <1>0, <3>3 DEF extract_text
      <4>2. PICK n \in job[f].todo :
        LET next == [job[f] EXCEPT !.todo = @ \ {n}] IN
        \/ job'[f] = next
        \/ \E t : job'[f] = [next EXCEPT !.pc = "embed", !.n = n, !.text = t]
        \/ job'[f] = [next EXCEPT !.errs = @ \cup {n}]
        BY <1>0, <3>3 DEF extract_text, Job
      <4> QED BY <1>1, <4>1, <4>2 DEF Jobs
    <3>4. CASE Store(f)
      <4>1. job[f] \in Jobs
        BY <1>0
      <4>2. \/ job'[f] = [job[f] EXCEPT !.pc = "file", !.n = None, !.text = NoText]
            \/ job'[f] = [NoJob EXCEPT !.pc = "failed"]
        BY <1>0, <3>4 DEF Store, Job
      <4> QED BY <1>1, <4>1, <4>2, Endings DEF Jobs
    <3>5. CASE EmbeddingUnavailable(f) \/ reindex(f)
      <4>1. job[f].copy = db.folder[f]
        BY <3>5 DEF EmbeddingUnavailable, reindex, Serial
      <4>2. \/ db'.folder[f].status \in {"error", "ready"}
            \/ db.folder[f].status \in {"error", "ready"}
        BY <1>1, <2>1, <3>5, <4>1, ThreadFolder
      <4>3. db'.folder[f] = db.folder[f] \/ db'.folder[f].status \in {"error", "ready"}
        BY <2>1, ThreadFolder
      <4> QED BY <4>2, <4>3
    <3>6. CASE _run_background_reindex(f)
      BY <2>1, <3>1, <3>6, ThreadFolder
    <3>7. CASE Timeout(f) \/ _release_reindex(f)
      BY <1>0, <1>1, <3>7, Endings DEF Timeout, _release_reindex, Job, None
    <3> QED BY <2>1, <3>2, <3>3, <3>4, <3>5, <3>6, <3>7 DEF Thread
  <2>2. CASE ~Thread(f)
    <3>1. job'[f] = job[f]
      <4>1. ~_scan_disk(f) /\ ~extract_text(f) /\ ~Store(f)
        BY <2>2 DEF Thread
      <4>2. CASE job'[f] \in {[NoJob EXCEPT !.pc = pc] : pc \in {"begin", "failed", "close"}}
        <5>1. ASSUME NEW r \in Requests, reindex_folder(r) PROVE job'[f] = job[f]
          <6>1. job'[f] \in {job[f], [NoJob EXCEPT !.pc = "begin"]}
            BY <1>0, <5>1, ReindexFacts
          <6> QED BY <1>1, <6>1, Endings
        <5>2. ASSUME NEW g \in Fids, Thread(g) PROVE job'[f] = job[f]
          BY <2>2, <5>2, ThreadRecord
        <5>3. ~Crash
          BY <1>0, <1>1 DEF Crash, None
        <5> QED BY <5>1, <5>2, <5>3
                DEF Next, register_folder, get_folder, _try_claim_reindex, delete_folder, Delete,
                    Edit, Unmount, build_embedder, reset_stale_indexing_folders, vars
      <4> QED BY <1>0, <1>1, <4>1, <4>2, JobChange DEF None
    <3>2. job[f].pc = "close" /\ f \in Live(db) /\ db.folder[f].status # "indexing"
      BY <1>1, <3>1 DEF Honest, Serial, None
    <3>3. ASSUME NEW r \in Requests, reindex_folder(r) PROVE req[r].id # f
      BY <1>0, <3>2, <3>3, ReindexFacts DEF Claimed, None
    <3> QED BY <1>0, <2>2, <3>2, <3>3, FolderChange
  <2> QED BY <2>1, <2>2
\* Who gives a claim back.
<1>2. ASSUME NEW f \in Fids, f \in guard, f \notin guard', up' = TRUE
      PROVE  db'.folder[f].status # "indexing"
  <2>1. CASE Thread(f)
    <3>1. job[f].pc = "close" /\ job'[f] = NoJob
      BY <1>2, <2>1, ThreadRecord
    <3>2. db.folder[f].status # "indexing"
      BY <3>1 DEF Honest
    <3>3. db'.folder[f] = db.folder[f] \/ db'.folder[f].status \in {"error", "ready"}
      BY <2>1, ThreadFolder
    <3> QED BY <3>2, <3>3
  <2>2. ASSUME NEW r \in Requests, reindex_folder(r) PROVE FALSE
    <3>1. /\ req[r].op = "start"
          /\ \/ job' = [job EXCEPT ![req[r].id] = [NoJob EXCEPT !.pc = "begin"]] /\ guard' = guard
             \/ job' = job /\ guard' = guard \ {req[r].id}
      BY <2>2, ReindexFacts
    <3>2. req[r].id \in Live(db) /\ req[r].id \in Fids /\ job[req[r].id] = NoJob
      BY <3>1 DEF Serial, Typed, Claimed, None
    <3>3. Cardinality({g \in Fids : job[g] # NoJob}) < MaxThreads
      BY <3>2, ThreadsSuffice
    <3>4. guard' = guard
      BY <2>2, <3>2, <3>3 DEF reindex_folder
    <3> QED BY <1>2, <3>4
  <2>3. CASE \E g \in Fids : Thread(g) /\ g # f
    BY <1>2, <2>3, ThreadRecord
  <2>4. CASE \/ \E r \in Requests : \/ register_folder(r) \/ get_folder(r)
                                    \/ delete_folder(r) \/ Delete(r)
             \/ Edit \/ Unmount \/ build_embedder \/ reset_stale_indexing_folders
             \/ UNCHANGED vars
    BY <1>2, <2>4 DEF register_folder, get_folder, delete_folder, Delete,
           Edit, Unmount, build_embedder, reset_stale_indexing_folders, vars
  <2>5. CASE \E r \in Requests : _try_claim_reindex(r)
    BY <1>2, <2>5 DEF _try_claim_reindex
  <2>6. CASE Crash
    BY <1>2, <2>6 DEF Crash
  <2> QED BY <2>1, <2>2, <2>3, <2>4, <2>5, <2>6 DEF Next
<1>3. ASSUME NEW f \in Fids, f \notin guard, up' = TRUE, db'.folder[f].status = "indexing"
      PROVE  FALSE
  <2>1. ASSUME NEW r \in Requests, reindex_folder(r) PROVE req[r].id # f
    BY <1>3, <2>1, ReindexFacts DEF Claimed
  <2>2. ~reset_stale_indexing_folders
    BY <1>3, ResetFacts
  <2>3. up = TRUE
    <3>1. CASE up' = up
      BY <1>3, <3>1
    <3>2. CASE Crash
      BY <1>3, <3>2 DEF Crash
    <3>3. CASE \E r \in Requests :
             \/ register_folder(r) \/ get_folder(r) \/ _try_claim_reindex(r) \/ reindex_folder(r)
             \/ delete_folder(r) \/ Delete(r)
      BY <3>1, <3>3, RequestRecord
    <3>4. CASE \E g \in Fids : Thread(g)
      BY <3>1, <3>4, ThreadRecord
    <3>5. CASE Edit \/ Unmount \/ build_embedder \/ UNCHANGED vars
      BY <3>1, <3>5 DEF Edit, Unmount, build_embedder, vars
    <3> QED BY <2>2, <3>2, <3>3, <3>4, <3>5 DEF Next
  <2>4. db'.folder[f] = db.folder[f]
    BY <1>0, <1>3, <2>1, <2>2, FolderChange
  <2> QED BY <1>3, <2>3, <2>4 DEF Honest
<1>4. up' = TRUE => \A f \in Fids : db'.folder[f].status = "indexing" => f \in guard'
  BY <1>2, <1>3
<1> QED BY <1>1, <1>4 DEF Honest

\* An honest status is only left at indexing under a claim.
LEMMA HonestGives ==
    ASSUME Typed, Honest
    PROVE  StatusHonest
BY DEF Typed, Honest, StatusHonest, Live

\* With one request at a time, while no wait for the lock times out and there is
\* a thread for every folder, a folder is at indexing only while somebody indexes
\* it, in spite of failures and crashes.
THEOREM SerialStatusHonest ==
    ASSUME KnowledgeAssumption, Concurrent = FALSE, Busy = FALSE, MaxFolder <= MaxThreads
    PROVE  Spec => []StatusHonest
<1> DEFINE Inv == Typed /\ Claimed /\ Serial /\ Honest
<1>1. Init => Inv
  BY InitTyped
<1>2. Inv /\ [Next]_vars => Inv'
  BY TypedStep, ClaimedStep, SerialStep, HonestStep
<1>3. Inv => StatusHonest
  BY HonestGives
<1> QED BY <1>1, <1>2, <1>3, PTL DEF Spec

-----------------------------------------------------------------------------
(* Chunks and the table of the search.                                     *)

\* A new chunk's id is greater than all ids in use.
LEMMA NextChunkAbove ==
    ASSUME KnowledgeAssumption, NEW d \in Database, NEW f \in Fids, NEW n \in Names
    PROVE  d.file[f][n].chunk < NextChunk(d)
<1> DEFINE S == {0} \cup {d.file[g][m].chunk : g \in Fids, m \in Names}
<1>1. S \in SUBSET (0..MaxChunk) /\ S # {}
  BY DEF Database, FileRow, KnowledgeAssumption
<1>2. d.file[f][n].chunk \in S /\ d.file[f][n].chunk \in Nat
  BY DEF Database, FileRow
<1> HIDE DEF S
<1>3. Max(S) \in Nat /\ \A y \in S : y <= Max(S)
  BY <1>1, MaxOfBounded DEF KnowledgeAssumption
<1>4. NextChunk(d) = Max(S) + 1
  BY DEF NextChunk, S
<1> QED BY <1>2, <1>3, <1>4

\* The row and the entries after a file was stored.
LEMMA StoredRow ==
    ASSUME KnowledgeAssumption, NEW d \in Database, NEW f \in Fids, NEW n \in Names,
           NEW sig \in Text, NEW text \in Text, NEW model \in Models \cup {None},
           NextChunk(d) <= MaxChunk,
           NEW e, e = Stored(d, f, n, sig, text, model)
    PROVE  \E c \in 0..MaxChunk :
             /\ c = IF text = NoText THEN 0 ELSE NextChunk(d)
             /\ e.file[f][n] = [sig |-> sig, text |-> text, model |-> model, chunk |-> c]
             /\ c # 0 => e.fts[c] = text
             /\ \A b \in 1..MaxChunk : b # c /\ b # d.file[f][n].chunk => e.fts[b] = d.fts[b]
<1>1. PICK c \in 0..MaxChunk : c = IF text = NoText THEN 0 ELSE NextChunk(d)
  BY NextChunkType DEF KnowledgeAssumption
<1>2. PICK row : row = [sig |-> sig, text |-> text, model |-> model, chunk |-> c]
  OBVIOUS
<1>3. PICK del : del = _fts_delete_chunk(d.fts, {d.file[f][n].chunk})
  OBVIOUS
<1>4. /\ DOMAIN del = 1..MaxChunk /\ del = [b \in 1..MaxChunk |-> del[b]]
      /\ \A b \in 1..MaxChunk : b # d.file[f][n].chunk => del[b] = d.fts[b]
  BY <1>3 DEF _fts_delete_chunk, Database
<1>5. PICK fts : fts = _fts_index_chunk(del, c, d.file[f][n].chunk, text)
  OBVIOUS
<1>6. /\ c # 0 => fts[c] = text
      /\ \A b \in 1..MaxChunk : b # c => fts[b] = del[b]
  BY <1>1, <1>4, <1>5 DEF _fts_index_chunk, KnowledgeAssumption
<1>7. e = [d EXCEPT !.file[f][n] = row, !.fts = fts]
  BY <1>1, <1>2, <1>3, <1>5 DEF Stored
<1>8. e.fts = fts /\ e.file[f][n] = row
  BY <1>7 DEF Database
<1> QED BY <1>1, <1>2, <1>4, <1>6, <1>8

\* Storing a file keeps the table right: the old entry goes, the new one comes.
LEMMA StoredIndexed ==
    ASSUME KnowledgeAssumption, NEW d \in Database, Indexed(d), NEW f \in Fids, NEW n \in Names,
           NEW sig \in Text, NEW text \in Text, NEW model \in Models \cup {None},
           NextChunk(d) <= MaxChunk,
           NEW e, e = Stored(d, f, n, sig, text, model)
    PROVE  Indexed(e)
<1>1. \A g \in Fids, m \in Names : <<g, m>> # <<f, n>> => e.file[g][m] = d.file[g][m]
  BY StoredFacts
<1>2. PICK c \in 0..MaxChunk :
             /\ c = IF text = NoText THEN 0 ELSE NextChunk(d)
             /\ e.file[f][n] = [sig |-> sig, text |-> text, model |-> model, chunk |-> c]
             /\ c # 0 => e.fts[c] = text
             /\ \A b \in 1..MaxChunk : b # c /\ b # d.file[f][n].chunk => e.fts[b] = d.fts[b]
  BY StoredRow
<1>3. e.file[f][n].chunk = c /\ e.file[f][n].text = text /\ (c = 0 => text = NoText)
  BY <1>2, NextChunkType
<1>4. ASSUME NEW g \in Fids, NEW m \in Names, <<g, m>> # <<f, n>>, d.file[g][m].chunk # 0
      PROVE  /\ d.file[g][m].chunk \in 1..MaxChunk /\ d.file[g][m].chunk # c
             /\ d.file[g][m].chunk # d.file[f][n].chunk
  <2>1. d.file[g][m].chunk \in 1..MaxChunk
    BY <1>4 DEF Database, FileRow, KnowledgeAssumption
  <2>2. d.file[g][m].chunk # c
    BY <1>2, <1>4, NextChunkAbove, NextChunkType, <2>1
  <2>3. d.file[g][m].chunk # d.file[f][n].chunk
    BY <1>4 DEF Indexed
  <2> QED BY <2>1, <2>2, <2>3
<1>5. ASSUME NEW g \in Fids, NEW m \in Names
      PROVE  /\ e.file[g][m].chunk # 0 => e.fts[e.file[g][m].chunk] = e.file[g][m].text
             /\ e.file[g][m].chunk = 0 => e.file[g][m].text = NoText
  <2>1. CASE <<g, m>> = <<f, n>>
    BY <1>2, <1>3, <2>1
  <2>2. CASE <<g, m>> # <<f, n>>
    <3>1. e.file[g][m] = d.file[g][m]
      BY <1>1, <2>2
    <3>2. d.file[g][m].chunk # 0 => e.fts[d.file[g][m].chunk] = d.fts[d.file[g][m].chunk]
      BY <1>2, <1>4, <2>2
    <3> QED BY <3>1, <3>2 DEF Indexed
  <2> QED BY <2>1, <2>2
<1>6. ASSUME NEW g \in Fids, NEW h \in Fids, NEW m \in Names, NEW k \in Names,
             e.file[g][m].chunk # 0, e.file[g][m].chunk = e.file[h][k].chunk
      PROVE  g = h /\ m = k
  <2>1. CASE <<g, m>> # <<f, n>> /\ <<h, k>> # <<f, n>>
    BY <1>1, <1>6, <2>1 DEF Indexed
  <2>2. CASE <<g, m>> = <<f, n>> /\ <<h, k>> # <<f, n>>
    <3>1. e.file[h][k] = d.file[h][k] /\ d.file[h][k].chunk = c /\ c # 0
      BY <1>1, <1>3, <1>6, <2>2
    <3> QED BY <1>4, <2>2, <3>1
  <2>3. CASE <<g, m>> # <<f, n>> /\ <<h, k>> = <<f, n>>
    <3>1. e.file[g][m] = d.file[g][m] /\ d.file[g][m].chunk = c /\ c # 0
      BY <1>1, <1>3, <1>6, <2>3
    <3> QED BY <1>4, <2>3, <3>1
  <2> QED BY <2>1, <2>2, <2>3
<1> QED BY <1>5, <1>6 DEF Indexed

\* The chunks of some files of a folder.
ChunksOf(d, f, names) == {d.file[f][n].chunk : n \in names}

\* Rows that go with their entries leave the others' entries alone.
LEMMA DroppedIndexed ==
    ASSUME KnowledgeAssumption, NEW d \in Database, Indexed(d), NEW f \in Fids,
           NEW names \in SUBSET Names, NEW e \in Database,
           \A g \in Fids, m \in Names :
              e.file[g][m] = IF g = f /\ m \in names THEN NoFile ELSE d.file[g][m],
           e.fts = _fts_delete_chunk(d.fts, ChunksOf(d, f, names))
    PROVE  Indexed(e)
<1>1. NoFile.chunk = 0 /\ NoFile.text = NoText
  BY DEF NoFile
<1>2. ASSUME NEW g \in Fids, NEW m \in Names, e.file[g][m].chunk # 0
      PROVE  e.file[g][m] = d.file[g][m] /\ e.fts[e.file[g][m].chunk] = d.fts[e.file[g][m].chunk]
  <2>1. ~(g = f /\ m \in names) /\ e.file[g][m] = d.file[g][m]
    BY <1>1, <1>2
  <2>2. d.file[g][m].chunk \in 1..MaxChunk
    BY <1>2, <2>1 DEF Database, FileRow, KnowledgeAssumption
  <2>3. \A n \in names : d.file[f][n].chunk # d.file[g][m].chunk
    BY <1>2, <2>1 DEF Indexed
  <2>4. e.fts[d.file[g][m].chunk] = d.fts[d.file[g][m].chunk]
    <3>1. PICK S, b : S = ChunksOf(d, f, names) /\ b = d.file[g][m].chunk
      OBVIOUS
    <3>2. b \notin S /\ b \in 1..MaxChunk
      BY <2>2, <2>3, <3>1 DEF ChunksOf
    <3>3. e.fts = _fts_delete_chunk(d.fts, S) /\ DOMAIN d.fts = 1..MaxChunk
      BY <3>1 DEF Database
    <3>4. e.fts[b] = d.fts[b]
      BY <3>2, <3>3 DEF _fts_delete_chunk
    <3> QED BY <3>1, <3>4
  <2> QED BY <2>1, <2>4
<1>3. \A g \in Fids, m \in Names : e.file[g][m].chunk # 0 =>
        e.fts[e.file[g][m].chunk] = e.file[g][m].text
  <2> SUFFICES ASSUME NEW g \in Fids, NEW m \in Names, e.file[g][m].chunk # 0
               PROVE  e.fts[e.file[g][m].chunk] = e.file[g][m].text
    OBVIOUS
  <2>1. PICK x : x = e.file[g][m]
    OBVIOUS
  <2>2. x = d.file[g][m] /\ e.fts[x.chunk] = d.fts[x.chunk] /\ x.chunk # 0
    BY <1>2, <2>1
  <2>3. d.fts[x.chunk] = x.text
    BY <2>2 DEF Indexed
  <2> QED BY <2>1, <2>2, <2>3
<1>4. \A g \in Fids, m \in Names : e.file[g][m].chunk = 0 => e.file[g][m].text = NoText
  BY <1>1 DEF Indexed
<1>5. \A g, h \in Fids, m, k \in Names :
        e.file[g][m].chunk # 0 /\ e.file[g][m].chunk = e.file[h][k].chunk => g = h /\ m = k
  BY <1>2 DEF Indexed
<1> QED BY <1>3, <1>4, <1>5 DEF Indexed

\* The rows and entries after some of a folder's rows were removed.
LEMMA RemovedRow ==
    ASSUME KnowledgeAssumption, NEW d \in Database, NEW f \in Fids, NEW names,
           NEW e, e = Removed(d, f, names)
    PROVE  /\ \A g \in Fids, m \in Names :
                e.file[g][m] = IF g = f /\ m \in names THEN NoFile ELSE d.file[g][m]
           /\ \A g \in Fids \ {f} : e.file[g] = d.file[g]
           /\ e.fts = _fts_delete_chunk(d.fts, ChunksOf(d, f, names))
<1>1. PICK fts : fts = _fts_delete_chunk(d.fts, ChunksOf(d, f, names))
  OBVIOUS
<1>2. PICK rows : rows = [n \in Names |-> IF n \in names THEN NoFile ELSE d.file[f][n]]
  OBVIOUS
<1>3. e = [d EXCEPT !.file[f] = rows, !.fts = fts]
  BY <1>1, <1>2 DEF Removed, ChunksOf
<1>4. e.fts = fts /\ e.file = [d.file EXCEPT ![f] = rows]
  BY <1>3 DEF Database
<1> QED BY <1>1, <1>2, <1>4 DEF Database

\* Setting a status leaves rows and entries alone.
LEMMA StatusIndexed ==
    ASSUME NEW d \in Database, NEW f, NEW s
    PROVE  WithStatus(d, f, s).file = d.file /\ WithStatus(d, f, s).fts = d.fts
BY DEF WithStatus, Database

-----------------------------------------------------------------------------
(* What a thread writes.                                                   *)

\* Database d differs from the committed one in rows of folder f only.
Only(f, d) == \A g \in Fids \ {f} : d.file[g] = db.file[g]

\* A thread commits or writes a database that differs in its folder's rows.
LEMMA ThreadWrites ==
    ASSUME KnowledgeAssumption, Typed, Holder, NEW f \in Fids, Thread(f)
    PROVE  \/ NoWrite \/ Rollback(f)
           \/ \E d \in Database : /\ Commit(f, d) \/ Write(f, d)
                                  /\ Only(f, d) /\ (Chunks => Indexed(d))
<1>0. /\ job \in [Fids -> Jobs] /\ db \in Database /\ View(f) \in Database
      /\ Live(View(f)) = Live(db)
  BY ViewFacts DEF Typed
<1>1. Only(f, View(f)) /\ Only(f, db) /\ (Chunks => Indexed(View(f)) /\ Indexed(db))
  BY DEF Only, View, Holder, Chunks
<1>2. ASSUME NEW d \in Database, f \in Live(d), NEW s \in Statuses,
             Only(f, d), Chunks => Indexed(d)
      PROVE  /\ WithStatus(d, f, s) \in Database /\ Only(f, WithStatus(d, f, s))
             /\ Chunks => Indexed(WithStatus(d, f, s))
  <2>1. PICK e : e = WithStatus(d, f, s)
    OBVIOUS
  <2>2. e \in Database /\ e.file = d.file /\ e.fts = d.fts
    <3>1. e \in Database
      BY <1>2, <2>1, StatusFacts
    <3> QED BY <2>1, <3>1, StatusIndexed
  <2> QED BY <1>2, <2>1, <2>2 DEF Only, Indexed
<1>3. CASE _scan_disk(f)
  <2>1. CASE db.folder[f] # NoFolder /\ db.folder[f].path \notin roots
    <3>1. PICK s \in Statuses : s = "error"
      BY DEF Statuses
    <3>2. Commit(f, WithStatus(db, f, s)) /\ f \in Live(db)
      BY <1>3, <2>1, <3>1 DEF _scan_disk, WithStatus, Live
    <3> QED BY <1>0, <1>1, <1>2, <3>2
  <2>2. CASE db.folder[f] # NoFolder /\ db.folder[f].path \in roots
    <3> DEFINE scan == [n \in Names |-> OnDisk(db.folder[f].path, n)]
    <3>1. PICK gone : gone = {n \in Names : db.file[f][n] # NoFile /\ scan[n] = 0}
      OBVIOUS
    <3>2. NoWrite \/ Write(f, Removed(db, f, gone))
      BY <1>3, <2>2, <3>1 DEF _scan_disk
    <3>3. gone \in SUBSET Names
      BY <3>1
    <3> HIDE DEF scan
    <3>4. PICK d : d = Removed(db, f, gone)
      OBVIOUS
    <3>5. d \in Database
      BY <1>0, <3>4, RemovedFacts
    <3>6. /\ \A g \in Fids, m \in Names :
                d.file[g][m] = IF g = f /\ m \in gone THEN NoFile ELSE db.file[g][m]
          /\ \A g \in Fids \ {f} : d.file[g] = db.file[g]
          /\ d.fts = _fts_delete_chunk(db.fts, ChunksOf(db, f, gone))
      BY <1>0, <3>4, RemovedRow
    <3>7. Only(f, d)
      BY <3>6 DEF Only
    <3>8. Chunks => Indexed(d)
      BY <1>0, <1>1, <3>3, <3>5, <3>6, DroppedIndexed
    <3> QED BY <3>2, <3>4, <3>5, <3>7, <3>8
  <2>3. CASE db.folder[f] = NoFolder
    BY <1>3, <2>3 DEF _scan_disk
  <2> QED BY <2>1, <2>2, <2>3
<1>4. CASE extract_text(f)
  <2>1. NoWrite \/ \E j : Progress(f, j, View(f))
    BY <1>4 DEF extract_text
  <2>2. NoWrite \/ Commit(f, View(f)) \/ Write(f, View(f))
    BY <2>1, ProgressFacts
  <2> QED BY <1>0, <1>1, <2>2
<1>5. CASE Store(f)
  <2>1. PICK d : d = Stored(View(f), f, job[f].n, Signature(f, job[f].n), job[f].text, job[f].model)
    OBVIOUS
  <2>2. /\ job[f] \in Jobs /\ job[f].pc = "embed" /\ job[f].copy.path \in Paths
        /\ job[f].n \in Names
    BY <1>0, <1>5 DEF Store, Typed
  <2>3. /\ Signature(f, job[f].n) \in Text /\ job[f].text \in Text
        /\ job[f].model \in Models \cup {None}
    BY <2>2 DEF Signature, Text, Jobs
  <2>4. \/ Rollback(f)
        \/ NextChunk(View(f)) <= MaxChunk /\ \E j : Progress(f, j, d)
    BY <1>5, <2>1 DEF Store
  <2>5. CASE NextChunk(View(f)) <= MaxChunk /\ \E j : Progress(f, j, d)
    <3>1. /\ d \in Database
          /\ \A g \in Fids, m \in Names :
                <<g, m>> # <<f, job[f].n>> => d.file[g][m] = View(f).file[g][m]
      BY <1>0, <2>1, <2>2, <2>3, <2>5, StoredFacts
    <3>2. ASSUME NEW g \in Fids \ {f} PROVE d.file[g] = View(f).file[g]
      <4>1. \A m \in Names : d.file[g][m] = View(f).file[g][m]
        BY <3>1
      <4>2. d.file[g] \in [Names -> FileRow] /\ View(f).file[g] \in [Names -> FileRow]
        BY <1>0, <3>1 DEF Database
      <4> QED BY <4>1, <4>2
    <3>3. Only(f, d)
      BY <1>1, <3>2 DEF Only
    <3>4. Chunks => Indexed(d)
      BY <1>0, <1>1, <2>1, <2>2, <2>3, <2>5, StoredIndexed
    <3>5. NoWrite \/ Commit(f, d) \/ Write(f, d)
      BY <2>5, ProgressFacts
    <3> QED BY <3>1, <3>3, <3>4, <3>5
  <2> QED BY <2>4, <2>5
<1>6. CASE EmbeddingUnavailable(f) \/ reindex(f)
  <2>1. \/ Rollback(f)
        \/ f \in Live(View(f)) /\ \E s \in {"error", "ready"} : Commit(f, SetStatus(View(f), f, s))
    BY <1>6 DEF EmbeddingUnavailable, reindex
  <2>2. ASSUME f \in Live(View(f)), NEW s \in {"error", "ready"},
               Commit(f, SetStatus(View(f), f, s))
        PROVE  \E d \in Database : /\ Commit(f, d) \/ Write(f, d)
                                   /\ Only(f, d) /\ (Chunks => Indexed(d))
    <3>1. SetStatus(View(f), f, s) \in {View(f), WithStatus(View(f), f, s)} /\ s \in Statuses
      BY DEF SetStatus, WithStatus, Statuses
    <3> QED BY <1>0, <1>1, <1>2, <2>2, <3>1
  <2> QED BY <2>1, <2>2
<1>7. CASE Timeout(f) \/ _release_reindex(f)
  BY <1>7 DEF Timeout, _release_reindex, NoWrite
<1>8. CASE _run_background_reindex(f)
  <2>1. PICK s \in Statuses : s = "error"
    BY DEF Statuses
  <2>2. NoWrite \/ (f \in Live(db) /\ Commit(f, WithStatus(db, f, s)))
    BY <1>8, <2>1 DEF _run_background_reindex, WithStatus
  <2> QED BY <1>0, <1>1, <1>2, <2>2
<1> QED BY <1>3, <1>4, <1>5, <1>6, <1>7, <1>8 DEF Thread

\* A thread leaves the rows of other folders, and another thread's lock, alone.
LEMMA OthersRows ==
    ASSUME KnowledgeAssumption, Typed, Holder, NEW f \in Fids, Thread(f)
    PROVE  /\ \A g \in Fids \ {f} : db'.file[g] = db.file[g] /\ work'.file[g] = work.file[g]
           /\ writer' = writer \/ (writer \in {0, f} /\ writer' \in {0, f})
           /\ Chunks => Indexed(db') /\ Indexed(work')
<1>1. CASE NoWrite
  BY <1>1 DEF NoWrite, Chunks
<1>2. CASE Rollback(f)
  <2>1. db' = db /\ work' \in {work, db} /\ (work' # work => writer = f)
    BY <1>2 DEF Rollback
  <2>2. writer' = writer \/ (writer = f /\ writer' = 0)
    BY <1>2 DEF Rollback
  <2> QED BY <2>1, <2>2 DEF Holder, Chunks
<1>3. ASSUME NEW d \in Database, Commit(f, d) \/ Write(f, d), Only(f, d), Chunks => Indexed(d)
      PROVE  /\ \A g \in Fids \ {f} : db'.file[g] = db.file[g] /\ work'.file[g] = work.file[g]
             /\ writer' = writer \/ (writer \in {0, f} /\ writer' \in {0, f})
             /\ Chunks => Indexed(db') /\ Indexed(work')
  <2>1. writer \in {0, f} /\ writer' \in {0, f} /\ db' \in {db, d} /\ work' = d
    BY <1>3 DEF Commit, Write, Mine
  <2>2. \A g \in Fids \ {f} : work.file[g] = db.file[g]
    BY <2>1 DEF Holder, Typed
  <2>3. \A g \in Fids \ {f} : d.file[g] = db.file[g]
    BY <1>3 DEF Only
  <2>4. Chunks => Indexed(db') /\ Indexed(work')
    BY <1>3, <2>1 DEF Chunks
  <2> QED BY <2>1, <2>2, <2>3, <2>4
<1> QED BY <1>1, <1>2, <1>3, ThreadWrites

\* What extract_text does with file n of thread f.
Extracted(f, j, n, next) ==
    /\ j \in Jobs /\ j.pc = "file" /\ next = [j EXCEPT !.todo = @ \ {n}]
    /\ \/ job'[f] = next /\ Skips(j, n) /\ Progress(f, next, View(f))
       \/ NoWrite /\ \E t : job'[f] = [next EXCEPT !.pc = "embed", !.n = n, !.text = t]
       \/ NoWrite /\ job'[f] = [next EXCEPT !.errs = @ \cup {n}]

\* Extracting deals with one of the files that are left.
LEMMA ExtractRecord ==
    ASSUME Typed, NEW f \in Fids, extract_text(f)
    PROVE  \E n \in job[f].todo, next \in Jobs : Extracted(f, job[f], n, next)
<1>a. PICK j : j = job[f]
  OBVIOUS
<1>0. job \in [Fids -> Jobs] /\ j \in Jobs /\ j.pc = "file"
  BY <1>a DEF extract_text, Typed
<1>1. PICK n \in j.todo :
        LET next == [j EXCEPT !.todo = @ \ {n}] IN
        \/ job'[f] = next /\ Skips(j, n) /\ Progress(f, next, View(f))
        \/ /\ NoWrite
           /\ \E t : job'[f] = [next EXCEPT !.pc = "embed", !.n = n, !.text = t]
        \/ NoWrite /\ job'[f] = [next EXCEPT !.errs = @ \cup {n}]
  BY <1>0, <1>a DEF extract_text, Job
<1>2. PICK next : next = [j EXCEPT !.todo = @ \ {n}]
  OBVIOUS
<1>3. next \in Jobs
  BY <1>0, <1>2 DEF Jobs
<1>4. Extracted(f, j, n, next)
  BY <1>0, <1>1, <1>2 DEF Extracted
<1> QED BY <1>a, <1>3, <1>4

\* Whoever holds the lock is at work, and the rest of the rows is committed.
LEMMA HolderStep ==
    ASSUME KnowledgeAssumption, Typed, Claimed, Holder, [Next]_vars
    PROVE  Holder'
<1>0. /\ job \in [Fids -> Jobs] /\ NoJob.pc = None /\ Typed' /\ writer \in 0..MaxFolder
      /\ writer' \in 0..MaxFolder /\ \A f \in Fids : f # 0
  BY NoneTyped, TypedStep DEF Typed, Fids, KnowledgeAssumption
<1>1. ASSUME NEW f \in Fids, Thread(f), writer' = f PROVE job'[f].pc \in {"file", "embed"}
  <2>1. CASE _scan_disk(f)
    <3>1. writer # f
      BY <1>0, <2>1 DEF _scan_disk, Holder
    <3>2. db.folder[f] # NoFolder /\ db.folder[f].path \in roots
      BY <1>0, <1>1, <2>1, <3>1 DEF _scan_disk, NoWrite, Commit
    <3>3. job'[f].pc = "file"
      BY <1>0, <2>1, <3>2 DEF _scan_disk, Job, NoJob
    <3> QED BY <3>3
  <2>2. CASE extract_text(f)
    <3>1. PICK n \in job[f].todo, next \in Jobs : Extracted(f, job[f], n, next)
      BY <2>2, ExtractRecord
    <3>2. PICK j : j = job[f]
      OBVIOUS
    <3>3. next.pc = "file"
      BY <3>1, <3>2 DEF Extracted, Jobs
    <3> QED BY <3>1, <3>3 DEF Extracted, Jobs
  <2>3. CASE Store(f)
    <3>1. PICK j : j = job[f]
      OBVIOUS
    <3>2. j \in Jobs
      BY <1>0, <3>1
    <3>3. \/ job'[f] = [j EXCEPT !.pc = "file", !.n = None, !.text = NoText]
          \/ Rollback(f)
      BY <1>0, <2>3, <3>1 DEF Store, Job
    <3>4. ~Rollback(f)
      BY <1>0, <1>1 DEF Rollback
    <3> QED BY <3>2, <3>3, <3>4 DEF Jobs
  <2>4. CASE EmbeddingUnavailable(f) \/ reindex(f)
    BY <1>0, <1>1, <2>4 DEF EmbeddingUnavailable, reindex, Rollback, Commit
  <2>5. CASE Timeout(f)
    BY <1>0, <1>1, <2>5 DEF Timeout, NoWrite, Mine
  <2>6. CASE _run_background_reindex(f) \/ _release_reindex(f)
    BY <1>0, <1>1, <2>6 DEF _run_background_reindex, _release_reindex, NoWrite, Commit, Holder
  <2> QED BY <1>1, <2>1, <2>2, <2>3, <2>4, <2>5, <2>6 DEF Thread
<1>2. ASSUME NEW f \in Fids, Thread(f) PROVE Holder'
  <2>1. /\ \A g \in Fids \ {f} : db'.file[g] = db.file[g] /\ work'.file[g] = work.file[g]
        /\ writer' = writer \/ (writer \in {0, f} /\ writer' \in {0, f})
    BY <1>2, OthersRows
  <2>2. \A g \in Fids \ {f} : job'[g] = job[g]
    BY <1>2, ThreadRecord
  <2>3. writer' # 0 => job'[writer'].pc \in {"file", "embed"}
    <3>1. CASE writer' = f
      BY <1>1, <1>2, <3>1
    <3>2. CASE writer' # f /\ writer' # 0
      <4>1. writer' = writer /\ writer \in Fids \ {f}
        BY <1>0, <2>1, <3>2 DEF Fids, KnowledgeAssumption
      <4> QED BY <2>2, <4>1, <1>0 DEF Holder
    <3> QED BY <3>1, <3>2
  <2>4. ASSUME NEW g \in Fids \ {writer'} PROVE work'.file[g] = db'.file[g]
    <3>1. CASE writer' = 0
      BY <1>0, <3>1 DEF Typed
    <3>2. CASE g # f
      <4>1. g # writer
        BY <1>0, <2>1, <2>4, <3>2
      <4> QED BY <2>1, <3>2, <4>1 DEF Holder
    <3>3. CASE writer' # 0 /\ g = f
      <4>1. writer' = writer /\ writer \notin {0, f}
        BY <2>1, <2>4, <3>3
      <4>2. work.file[f] = db.file[f]
        BY <4>1 DEF Holder
      <4>3. NoWrite \/ Rollback(f)
        BY <1>2, <4>1, ThreadWrites DEF Commit, Write, Mine
      <4>4. work' = work /\ db' = db
        BY <4>1, <4>3 DEF NoWrite, Rollback
      <4> QED BY <3>3, <4>2, <4>4
    <3> QED BY <3>1, <3>2, <3>3
  <2> QED BY <2>3, <2>4 DEF Holder
<1>3. ASSUME NEW r \in Requests, reindex_folder(r) PROVE Holder'
  <2>1. PICK k \in Fids : k = req[r].id
    BY <1>3 DEF reindex_folder, Typed, None
  <2>2. /\ req[r].op = "start" /\ writer' = writer /\ db'.file = db.file
        /\ \/ job' = [job EXCEPT ![k] = [NoJob EXCEPT !.pc = "begin"]]
           \/ job' = job
        /\ work' = (IF writer = 0 THEN db' ELSE work)
    BY <1>3, <2>1, ReindexFacts
  <2>3. job[k] = NoJob
    BY <2>1, <2>2 DEF Claimed
  <2>4. writer # 0 => job'[writer].pc \in {"file", "embed"}
    <3> SUFFICES ASSUME writer # 0 PROVE job'[writer].pc \in {"file", "embed"}
      OBVIOUS
    <3>1. writer \in Fids /\ job[writer].pc \in {"file", "embed"}
      BY <1>0 DEF Holder, Fids, KnowledgeAssumption
    <3>2. writer # k
      BY <1>0, <2>3, <3>1 DEF None
    <3> QED BY <1>0, <2>2, <3>1, <3>2
  <2>5. ASSUME NEW g \in Fids \ {writer} PROVE work'.file[g] = db'.file[g]
    BY <2>2, <2>5 DEF Holder
  <2> QED BY <2>2, <2>4, <2>5 DEF Holder
<1>4. CASE writer' = 0
  BY <1>0, <1>4 DEF Holder, Typed
<1>5. CASE UNCHANGED <<db, work, writer, job>>
  BY <1>5 DEF Holder
<1>6. CASE \E r \in Requests : register_folder(r) \/ Delete(r)
  BY <1>4, <1>6 DEF register_folder, Delete
<1>7. CASE \E r \in Requests : get_folder(r) \/ _try_claim_reindex(r) \/ delete_folder(r)
  BY <1>5, <1>7 DEF get_folder, _try_claim_reindex, delete_folder
<1>8. CASE Edit \/ Unmount \/ build_embedder \/ UNCHANGED vars
  BY <1>5, <1>8 DEF Edit, Unmount, build_embedder, vars
<1>9. CASE Crash
  BY <1>4, <1>9 DEF Crash
<1>10. CASE reset_stale_indexing_folders
  <2>1. db'.file = db.file /\ work' = db' /\ UNCHANGED <<writer, job>>
    BY <1>10, ResetFacts
  <2> QED BY <2>1 DEF Holder
<1> QED BY <1>2, <1>3, <1>6, <1>7, <1>8, <1>9, <1>10 DEF Next

\* The rows of folder f, and what its thread sees of them, change only by its
\* thread, by its deletion and by a crash.
LEMMA FileChange ==
    ASSUME KnowledgeAssumption, Typed, Claimed, Holder, NEW f \in Fids, [Next]_vars,
           ~Thread(f), ~Crash, \A r \in Requests : ~(Delete(r) /\ req[r].id = f)
    PROVE  db'.file[f] = db.file[f] /\ View(f)'.file[f] = View(f).file[f]
<1>0. f # 0 /\ db \in Database
  BY DEF Fids, KnowledgeAssumption, Typed
<1>1. ASSUME db'.file[f] = db.file[f], work'.file[f] = work.file[f], writer' = f <=> writer = f
      PROVE  db'.file[f] = db.file[f] /\ View(f)'.file[f] = View(f).file[f]
  BY <1>1 DEF View
<1>2. ASSUME NEW g \in Fids, Thread(g)
      PROVE  db'.file[f] = db.file[f] /\ View(f)'.file[f] = View(f).file[f]
  <2>1. /\ db'.file[f] = db.file[f] /\ work'.file[f] = work.file[f]
        /\ writer' = writer \/ (writer \in {0, g} /\ writer' \in {0, g})
    BY <1>2, OthersRows
  <2> QED BY <1>0, <1>1, <1>2, <2>1
<1>3. ASSUME db'.file[f] = db.file[f], work' = db', writer' = 0, writer = 0
      PROVE  db'.file[f] = db.file[f] /\ View(f)'.file[f] = View(f).file[f]
  BY <1>0, <1>3 DEF View
<1>4. ASSUME NEW r \in Requests, register_folder(r)
      PROVE  db'.file[f] = db.file[f] /\ View(f)'.file[f] = View(f).file[f]
  BY <1>3, <1>4, RegisterFacts
<1>5. ASSUME NEW r \in Requests, Delete(r)
      PROVE  db'.file[f] = db.file[f] /\ View(f)'.file[f] = View(f).file[f]
  <2>1. /\ work' = db' /\ writer = 0 /\ writer' = 0 /\ req[r].id # f
        /\ db'.file = [db.file EXCEPT ![req[r].id] = [n \in Names |-> NoFile]]
    BY <1>5, DeleteFacts
  <2>2. db'.file[f] = db.file[f]
    BY <1>0, <2>1 DEF Database
  <2> QED BY <1>3, <2>1, <2>2
<1>6. ASSUME NEW r \in Requests, reindex_folder(r)
      PROVE  db'.file[f] = db.file[f] /\ View(f)'.file[f] = View(f).file[f]
  <2>1. writer' = writer /\ db'.file = db.file /\ work' = (IF writer = 0 THEN db' ELSE work)
    BY <1>6, ReindexFacts
  <2>2. CASE writer = 0
    BY <1>3, <2>1, <2>2
  <2>3. CASE writer # 0
    BY <1>1, <2>1, <2>3
  <2> QED BY <2>2, <2>3
<1>7. CASE \/ \E r \in Requests : get_folder(r) \/ _try_claim_reindex(r) \/ delete_folder(r)
           \/ Edit \/ Unmount \/ build_embedder \/ UNCHANGED vars
  <2>1. UNCHANGED <<db, work, writer>>
    BY <1>7 DEF get_folder, _try_claim_reindex, delete_folder, Edit, Unmount, build_embedder, vars
  <2> QED BY <1>1, <2>1
<1>8. CASE reset_stale_indexing_folders
  <2>1. db'.file = db.file /\ writer' = writer /\ up = FALSE /\ work' = db'
    BY <1>8, ResetFacts DEF reset_stale_indexing_folders, Typed
  <2>2. job[f] = NoJob
    BY <2>1 DEF Claimed
  <2>3. writer # f
    BY <1>0, <2>2, NoneTyped DEF Holder, None
  <2> QED BY <2>1, <2>3 DEF View
<1> QED BY <1>2, <1>4, <1>5, <1>6, <1>7, <1>8 DEF Next

\* With one request at a time the table of the search stays right.
LEMMA ChunksStep ==
    ASSUME KnowledgeAssumption, Concurrent = FALSE, Typed, Claimed, Serial, Holder, Chunks,
           [Next]_vars
    PROVE  Chunks'
<1>0. /\ db \in Database /\ Indexed(db) /\ Indexed(work) /\ NoReq.op = None /\ Typed'
      /\ req \in [Requests -> Queries]
  BY NoneTyped, TypedStep DEF Typed, Chunks
<1>1. ASSUME NEW d, NEW e, Indexed(d), e.file = d.file, e.fts = d.fts PROVE Indexed(e)
  BY <1>1 DEF Indexed
<1>2. Indexed(db') /\ Indexed(work')
  <2>1. ASSUME NEW f \in Fids, Thread(f) PROVE Indexed(db') /\ Indexed(work')
    BY <2>1, OthersRows
  <2>2. ASSUME NEW r \in Requests, register_folder(r) PROVE Indexed(db') /\ Indexed(work')
    <3>1. db'.file = db.file /\ work' = db'
      BY <2>2, RegisterFacts
    <3>2. db'.fts = db.fts
      BY <1>0, <2>2 DEF register_folder, Database
    <3>3. Indexed(db')
      BY <1>0, <1>1, <3>1, <3>2
    <3> QED BY <3>1, <3>3
  <2>3. ASSUME NEW r \in Requests, reindex_folder(r) PROVE Indexed(db') /\ Indexed(work')
    <3>1. db' \in {db, WithStatus(db, req[r].id, "indexing")} /\ work' \in {work, db'}
      BY <2>3 DEF reindex_folder, WithStatus
    <3>2. db'.file = db.file /\ db'.fts = db.fts
      BY <1>0, <3>1, StatusIndexed
    <3>3. Indexed(db')
      BY <1>0, <1>1, <3>2
    <3> QED BY <1>0, <3>1, <3>3
  <2>4. ASSUME NEW r \in Requests, Delete(r) PROVE Indexed(db') /\ Indexed(work')
    <3>1. PICK k \in Fids : k = req[r].id
      BY <2>4 DEF Delete, Typed, None
    <3>2. /\ work' = db' /\ req[r].op = "remove" /\ db' \in Database
          /\ db'.file = [db.file EXCEPT ![k] = [n \in Names |-> NoFile]]
      BY <2>4, <3>1, DeleteFacts
    <3>3. req[r].rows = db.file[k]
      BY <3>1, <3>2 DEF Chunks
    <3>4. PICK S : S = {req[r].rows[n].chunk : n \in Names}
      OBVIOUS
    <3>5. PICK w, x : w = [db.folder EXCEPT ![k] = NoFolder] /\ x = db'.file
      OBVIOUS
    <3>6. db'.fts = _fts_delete_chunk(db.fts, S)
      BY <1>0, <2>4, <3>1, <3>4 DEF Delete, Database
    <3>7. S = ChunksOf(db, k, Names)
      BY <3>3, <3>4 DEF ChunksOf
    <3>8. \A g \in Fids, m \in Names :
            db'.file[g][m] = IF g = k /\ m \in Names THEN NoFile ELSE db.file[g][m]
      BY <1>0, <3>2 DEF Database
    <3>9. PICK d : d = db'
      OBVIOUS
    <3>10. PICK names : names = Names
      OBVIOUS
    <3>11. /\ d \in Database /\ names \in SUBSET Names
           /\ d.fts = _fts_delete_chunk(db.fts, ChunksOf(db, k, names))
           /\ \A g \in Fids, m \in Names :
                d.file[g][m] = IF g = k /\ m \in names THEN NoFile ELSE db.file[g][m]
      BY <3>2, <3>6, <3>7, <3>8, <3>9, <3>10
    <3>12. Indexed(d)
      BY <1>0, <3>11, DroppedIndexed
    <3> QED BY <3>2, <3>9, <3>12
  <2>5. CASE reset_stale_indexing_folders
    <3>1. db'.file = db.file /\ work' = db'
      BY <2>5, ResetFacts
    <3>2. db'.fts = db.fts
      BY <1>0, <2>5 DEF reset_stale_indexing_folders, Database
    <3>3. Indexed(db')
      BY <1>0, <1>1, <3>1, <3>2
    <3> QED BY <3>1, <3>3
  <2>6. CASE \/ \E r \in Requests : get_folder(r) \/ _try_claim_reindex(r) \/ delete_folder(r)
             \/ Edit \/ Unmount \/ build_embedder \/ Crash \/ UNCHANGED vars
    <3>1. db' = db /\ work' \in {db, work}
      BY <2>6 DEF get_folder, _try_claim_reindex, delete_folder, Edit, Unmount, build_embedder,
             Crash, vars
    <3> QED BY <1>0, <3>1
  <2> QED BY <2>1, <2>2, <2>3, <2>4, <2>5, <2>6 DEF Next
<1>3. ASSUME NEW r \in Requests, req'[r].op = "remove" PROVE req'[r].rows = db'.file[req'[r].id]
  <2>1. CASE delete_folder(r)
    <3>1. req'[r] = NoReq \/ req'[r] = [req[r] EXCEPT !.op = "remove", !.rows = db.file[req[r].id]]
      BY <1>0, <2>1 DEF delete_folder, Done
    <3>2. req'[r].rows = db.file[req[r].id] /\ req'[r].id = req[r].id /\ db' = db
      BY <1>0, <1>3, <2>1, <3>1 DEF delete_folder, Queries, None
    <3> QED BY <3>2
  <2>2. CASE ~delete_folder(r)
    <3>1. req'[r] = req[r]
      <4>1. CASE \E f \in Fids : Thread(f)
        BY <4>1, ThreadRecord
      <4>2. ASSUME NEW s \in Requests,
                   \/ register_folder(s) \/ get_folder(s) \/ _try_claim_reindex(s)
                   \/ reindex_folder(s) \/ delete_folder(s) \/ Delete(s)
            PROVE  req'[r] = req[r]
        BY <1>0, <1>3, <2>2, <4>2, RequestRecord DEF None
      <4>3. CASE Edit \/ Unmount \/ build_embedder \/ reset_stale_indexing_folders \/ UNCHANGED vars
        BY <4>3 DEF Edit, Unmount, build_embedder, reset_stale_indexing_folders, vars
      <4>4. CASE Crash
        BY <1>0, <1>3, <4>4 DEF Crash, None
      <4> QED BY <4>1, <4>2, <4>3, <4>4 DEF Next
    <3>2. PICK k \in Fids : k = req[r].id
      BY <1>3, <3>1 DEF Typed, None
    <3>3. req[r].rows = db.file[k] /\ k \notin guard
      BY <1>3, <3>1, <3>2 DEF Chunks, Serial
    <3>4. ~Thread(k)
      BY <3>3, ThreadRecord DEF Claimed
    <3>5. ~Crash
      BY <1>0, <1>3 DEF Crash, None
    <3>6. \A s \in Requests : ~(Delete(s) /\ req[s].id = k)
      <4> SUFFICES ASSUME NEW s \in Requests, Delete(s) PROVE FALSE
        OBVIOUS
      <4>1. req[s].op = "remove" /\ req' = [req EXCEPT ![s] = NoReq]
        BY DeleteFacts
      <4>2. s = r
        BY <1>3, <3>1, <4>1 DEF Serial, None
      <4> QED BY <1>0, <1>3, <4>1, <4>2 DEF None
    <3>7. db'.file[k] = db.file[k]
      BY <3>4, <3>5, <3>6, FileChange
    <3> QED BY <3>1, <3>2, <3>3, <3>7
  <2> QED BY <2>1, <2>2
<1>4. Indexed(db)' /\ Indexed(work)'
  BY <1>2 DEF Indexed
<1> QED BY <1>3, <1>4 DEF Chunks

\* The initial states.
LEMMA InitChunks ==
    ASSUME KnowledgeAssumption, Init
    PROVE  Holder /\ Chunks /\ Kept
<1>1. work = db /\ writer = 0 /\ \A f \in Fids, n \in Names : db.file[f][n] = NoFile
  <2>1. PICK empty : empty = [n \in Names |-> NoFile]
    OBVIOUS
  <2>2. db.file = [f \in Fids |-> empty]
    BY <2>1 DEF Init
  <2> QED BY <2>1, <2>2 DEF Init
<1>2. \A r \in Requests : req[r].op # "remove"
  BY NoneTyped DEF Init, None
<1>3. \A f \in Fids : job[f].pc \notin {"file", "embed"}
  BY NoneTyped DEF Init, None
<1>4. Holder /\ Kept
  BY <1>1, <1>3 DEF Holder, Kept, KeptRows
<1>5. Indexed(db)
  BY <1>1 DEF Indexed, NoFile
<1> QED BY <1>1, <1>2, <1>4, <1>5 DEF Chunks

\* A table that is right finds what the rows hold.
LEMMA ChunksGive ==
    ASSUME Chunks
    PROVE  KeywordAgrees
<1> SUFFICES ASSUME NEW t
             PROVE  _keyword_search_fts(db, t) = _keyword_search_like(db, t)
  BY DEF KeywordAgrees
<1>1. ASSUME NEW x \in Live(db) \X Names, Row(db, x).chunk # 0
      PROVE  db.fts[Row(db, x).chunk] = Row(db, x).text
  <2>1. x[1] \in Fids /\ x[2] \in Names
    BY DEF Live
  <2> QED BY <1>1, <2>1 DEF Row, Chunks, Indexed
<1> QED BY <1>1 DEF _keyword_search_fts, _keyword_search_like

\* With one request at a time, the table of the keyword search and the rows
\* themselves give the same answers, although ids of chunks are given again.
THEOREM SerialKeywordAgrees ==
    ASSUME KnowledgeAssumption, Concurrent = FALSE
    PROVE  Spec => []KeywordAgrees
<1> DEFINE Inv == Typed /\ Claimed /\ Serial /\ Holder /\ Chunks
<1>1. Init => Inv
  BY InitTyped, InitChunks
<1>2. Inv /\ [Next]_vars => Inv'
  BY TypedStep, ClaimedStep, SerialStep, HolderStep, ChunksStep
<1>3. Inv => KeywordAgrees
  BY ChunksGive
<1> QED BY <1>1, <1>2, <1>3, PTL DEF Spec

-----------------------------------------------------------------------------
(* Ready means indexed.                                                    *)

\* After its progress a thread sees what it wrote.
LEMMA ViewAfter ==
    ASSUME KnowledgeAssumption, NEW f \in Fids, NEW j, NEW d, Progress(f, j, d)
    PROVE  View(f)' = d
<1>1. f # 0
  BY DEF Fids, KnowledgeAssumption
<1>2. \/ Commit(f, d) \/ Write(f, d) \/ (NoWrite /\ d = View(f))
  BY DEF Progress
<1> QED BY <1>1, <1>2 DEF Commit, Write, NoWrite, View

\* A thread keeps what it stored and what it found.
LEMMA KeptThread ==
    ASSUME KnowledgeAssumption, Typed, Holder, Kept, NEW f \in Fids, Thread(f)
    PROVE  KeptRows(job'[f], View(f)'.file[f])
<1>0. /\ job \in [Fids -> Jobs] /\ db \in Database /\ View(f) \in Database /\ NoJob.pc = None
      /\ KeptRows(job[f], View(f).file[f]) /\ f # 0
  <2>1. KeptRows(job[f], View(f).file[f])
    BY DEF Kept
  <2>2. f # 0
    BY DEF Fids, KnowledgeAssumption
  <2> QED BY <2>1, <2>2, NoneTyped, ViewFacts DEF Typed
<1>1. CASE job'[f].pc \notin {"file", "embed"}
  BY <1>1 DEF KeptRows
<1>2. PICK j, rows, new : j = job[f] /\ rows = View(f).file[f] /\ new = View(f)'.file[f]
  OBVIOUS
<1>3. j \in Jobs /\ KeptRows(j, rows)
  BY <1>0, <1>2
<1>4. CASE _scan_disk(f) /\ db.folder[f] # NoFolder /\ db.folder[f].path \in roots
  <2> DEFINE sc == [n \in Names |-> OnDisk(db.folder[f].path, n)]
  <2>1. PICK w, scan, todo, m, old, gone :
          /\ w = db.folder[f] /\ scan = sc /\ todo = {n \in Names : sc[n] # 0}
          /\ m = active /\ old = db.file[f]
          /\ gone = {n \in Names : db.file[f][n] # NoFile /\ sc[n] = 0}
    OBVIOUS
  <2>2. /\ job'[f] = [NoJob EXCEPT !.pc = "file", !.model = m, !.copy = w, !.scan = scan,
                                   !.rows = old, !.todo = todo]
        /\ NoWrite \/ Write(f, Removed(db, f, gone))
    BY <1>0, <1>4, <2>1 DEF _scan_disk, Job
  <2>3. \A n \in todo : n \in Names /\ n \notin gone
    BY <2>1
  <2>4. \A n \in Names : scan[n] # 0 => n \in todo
    BY <2>1
  <2> HIDE DEF sc
  <2>5. PICK k : k = [NoJob EXCEPT !.pc = "file", !.model = m, !.copy = w, !.scan = scan,
                                   !.rows = old, !.todo = todo]
    OBVIOUS
  <2>6. k.pc = "file" /\ k.scan = scan /\ k.rows = old /\ k.todo = todo
    BY <2>5 DEF NoJob
  <2>7. \A n \in todo : new[n] = old[n]
    <3>1. writer # f
      BY <1>0, <1>4 DEF _scan_disk, Holder
    <3>2. CASE NoWrite
      BY <1>2, <2>1, <3>1, <3>2 DEF NoWrite, View
    <3>3. CASE Write(f, Removed(db, f, gone))
      <4>1. PICK d : d = Removed(db, f, gone)
        OBVIOUS
      <4>2. new = d.file[f]
        BY <1>2, <3>3, <4>1 DEF Write, View
      <4>3. \A g \in Fids, n \in Names :
              d.file[g][n] = IF g = f /\ n \in gone THEN NoFile ELSE db.file[g][n]
        BY <1>0, <4>1, RemovedRow
      <4> QED BY <2>1, <2>3, <4>2, <4>3
    <3> QED BY <2>2, <3>2, <3>3
  <2>8. KeptRows(k, new)
    BY <2>4, <2>6, <2>7 DEF KeptRows, Left
  <2> QED BY <1>2, <2>2, <2>5, <2>8
<1>5. CASE extract_text(f)
  <2>1. PICK n \in j.todo, next \in Jobs : Extracted(f, j, n, next)
    BY <1>2, <1>5, ExtractRecord
  <2>2. /\ j.pc = "file" /\ next = [j EXCEPT !.todo = @ \ {n}] /\ n \in Names
        /\ \/ job'[f] = next /\ Skips(j, n) /\ Progress(f, next, View(f))
           \/ NoWrite /\ \E t : job'[f] = [next EXCEPT !.pc = "embed", !.n = n, !.text = t]
           \/ NoWrite /\ job'[f] = [next EXCEPT !.errs = @ \cup {n}]
    BY <1>3, <2>1 DEF Extracted, Jobs
  <2>3. /\ next.pc = "file" /\ next.copy = j.copy /\ next.scan = j.scan /\ next.rows = j.rows
        /\ next.todo = j.todo \ {n} /\ next.errs = j.errs /\ next.model = j.model
    BY <1>3, <2>2 DEF Jobs
  <2>4. /\ \A i \in j.todo : rows[i] = j.rows[i]
        /\ \A i \in Names : j.scan[i] # 0 /\ i \notin j.todo /\ i \notin j.errs =>
              /\ rows[i].sig = [p |-> j.copy.path, v |-> j.scan[i]]
              /\ rows[i].chunk # 0 => rows[i].model = j.model
    BY <1>3, <2>2 DEF KeptRows, Left
  <2>5. new = rows
    <3>1. CASE NoWrite
      BY <1>2, <3>1 DEF NoWrite, View
    <3>2. CASE Progress(f, next, View(f))
      BY <1>2, <3>2, ViewAfter
    <3> QED BY <2>2, <3>1, <3>2
  <2>6. CASE job'[f] = next /\ Skips(j, n)
    <3>1. /\ rows[n].sig = [p |-> j.copy.path, v |-> j.scan[n]]
          /\ rows[n].chunk # 0 => rows[n].model = j.model
      BY <2>4, <2>6 DEF Skips
    <3>2. KeptRows(next, rows)
      BY <2>3, <2>4, <3>1 DEF KeptRows, Left
    <3> QED BY <1>2, <2>5, <2>6, <3>2
  <2>7. ASSUME NEW t, job'[f] = [next EXCEPT !.pc = "embed", !.n = n, !.text = t]
        PROVE  KeptRows(job'[f], View(f)'.file[f])
    <3>1. PICK k : k = [next EXCEPT !.pc = "embed", !.n = n, !.text = t]
      OBVIOUS
    <3>2. /\ k.pc = "embed" /\ k.copy = j.copy /\ k.scan = j.scan /\ k.rows = j.rows /\ k.n = n
          /\ k.todo = j.todo \ {n} /\ k.errs = j.errs /\ k.model = j.model
      BY <2>1, <2>3, <3>1 DEF Jobs
    <3>3. Left(k) = j.todo
      BY <3>2, <2>1 DEF Left
    <3>4. KeptRows(k, rows)
      BY <2>4, <3>2, <3>3 DEF KeptRows
    <3> QED BY <1>2, <2>5, <2>7, <3>1, <3>4
  <2>8. CASE job'[f] = [next EXCEPT !.errs = @ \cup {n}]
    <3>1. PICK k : k = [next EXCEPT !.errs = @ \cup {n}]
      OBVIOUS
    <3>2. /\ k.pc = "file" /\ k.copy = j.copy /\ k.scan = j.scan /\ k.rows = j.rows
          /\ k.todo = j.todo \ {n} /\ k.errs = j.errs \cup {n} /\ k.model = j.model
      BY <2>1, <2>3, <3>1 DEF Jobs
    <3>3. KeptRows(k, rows)
      BY <2>4, <3>2 DEF KeptRows, Left
    <3> QED BY <1>2, <2>5, <2>8, <3>1, <3>3
  <2> QED BY <2>2, <2>6, <2>7, <2>8
<1>6. CASE Store(f) /\ job'[f].pc \in {"file", "embed"}
  <2>1. PICK n, next : n = j.n /\ next = [j EXCEPT !.pc = "file", !.n = None, !.text = NoText]
    OBVIOUS
  <2>2. PICK d, e, sig, text, model :
          /\ e = View(f) /\ sig = Signature(f, n) /\ text = j.text /\ model = j.model
          /\ d = Stored(e, f, n, sig, text, model)
    OBVIOUS
  <2>3. j.pc = "embed" /\ n \in Names /\ j.copy.path \in Paths
    BY <1>2, <1>6, <2>1 DEF Store, Typed
  <2>4. job'[f] # [NoJob EXCEPT !.pc = "failed"]
    BY <1>6, Endings
  <2>5. NextChunk(e) <= MaxChunk /\ job'[f] = next /\ Progress(f, next, d)
    BY <1>0, <1>2, <1>6, <2>1, <2>2, <2>4 DEF Store, Job
  <2>6. /\ e \in Database /\ sig \in Text /\ text \in Text /\ model \in Models \cup {None}
        /\ sig = [p |-> j.copy.path, v |-> j.scan[n]]
    BY <1>0, <1>2, <1>3, <2>2, <2>3 DEF Signature, Text, Jobs
  <2>7. \A g \in Fids, m \in Names : <<g, m>> # <<f, n>> => d.file[g][m] = e.file[g][m]
    BY <2>2, <2>3, <2>5, <2>6, StoredFacts
  <2>8. d.file[f][n].sig = sig /\ d.file[f][n].model = model
    BY <2>2, <2>3, <2>5, <2>6, StoredFacts
  <2>9. new = d.file[f] /\ rows = e.file[f]
    BY <1>2, <2>2, <2>5, ViewAfter
  <2>10. /\ next.pc = "file" /\ next.copy = j.copy /\ next.scan = j.scan /\ next.rows = j.rows
         /\ next.todo = j.todo /\ next.errs = j.errs /\ next.model = j.model
    BY <1>3, <2>1 DEF Jobs
  <2>11. /\ n \notin j.todo /\ \A i \in j.todo : rows[i] = j.rows[i]
         /\ \A i \in Names : j.scan[i] # 0 /\ i \notin j.todo /\ i # n /\ i \notin j.errs =>
              /\ rows[i].sig = [p |-> j.copy.path, v |-> j.scan[i]]
              /\ rows[i].chunk # 0 => rows[i].model = j.model
    BY <1>3, <2>1, <2>3 DEF KeptRows, Left
  <2>12. \A i \in Names \ {n} : new[i] = rows[i]
    BY <2>7, <2>9
  <2>13. j.todo \subseteq Names
    BY <1>3 DEF Jobs
  <2>14. KeptRows(next, new)
    <3>1. \A i \in j.todo : new[i] = j.rows[i]
      BY <2>11, <2>12, <2>13
    <3>2. ASSUME NEW i \in Names, j.scan[i] # 0, i \notin j.todo, i \notin j.errs
          PROVE  /\ new[i].sig = [p |-> j.copy.path, v |-> j.scan[i]]
                 /\ new[i].chunk # 0 => new[i].model = j.model
      <4>1. CASE i = n
        BY <2>2, <2>6, <2>8, <2>9, <4>1
      <4>2. CASE i # n
        BY <2>11, <2>12, <3>2, <4>2
      <4> QED BY <4>1, <4>2
    <3>3. Left(next) = j.todo
      BY <2>10 DEF Left
    <3> QED BY <2>10, <3>1, <3>2, <3>3 DEF KeptRows
  <2> QED BY <1>2, <2>5, <2>14
<1>7. CASE _scan_disk(f) /\ ~(db.folder[f] # NoFolder /\ db.folder[f].path \in roots)
  <2>1. job'[f] = [NoJob EXCEPT !.pc = "close"]
    BY <1>0, <1>7 DEF _scan_disk, Job
  <2> QED BY <1>1, <2>1, Endings
<1>8. CASE \/ EmbeddingUnavailable(f) \/ reindex(f) \/ Timeout(f) \/ _run_background_reindex(f)
           \/ _release_reindex(f)
  <2>1. job'[f] \in {[NoJob EXCEPT !.pc = "failed"], [NoJob EXCEPT !.pc = "close"], NoJob}
    BY <1>0, <1>8 DEF EmbeddingUnavailable, reindex, Timeout, _run_background_reindex,
           _release_reindex, Job
  <2> QED BY <1>0, <1>1, <2>1, Endings DEF None
<1> QED BY <1>1, <1>4, <1>5, <1>6, <1>7, <1>8 DEF Thread

\* With one request at a time nobody else touches what a thread works on.
LEMMA KeptStep ==
    ASSUME KnowledgeAssumption, Concurrent = FALSE, Typed, Claimed, Serial, Holder, Kept,
           [Next]_vars
    PROVE  Kept'
<1>0. job \in [Fids -> Jobs] /\ NoJob.pc = None
  BY NoneTyped DEF Typed
<1>1. ASSUME NEW f \in Fids PROVE KeptRows(job'[f], View(f)'.file[f])
  <2>1. CASE Thread(f)
    BY <2>1, KeptThread
  <2>2. CASE job'[f].pc \notin {"file", "embed"}
    BY <2>2 DEF KeptRows
  <2>3. CASE ~Thread(f) /\ job'[f].pc \in {"file", "embed"}
    <3>1. job'[f] = job[f]
      <4>1. /\ ~_scan_disk(f) /\ ~extract_text(f) /\ ~Store(f) /\ job'[f] # NoJob
            /\ job'[f] \notin {[NoJob EXCEPT !.pc = pc] : pc \in {"begin", "failed", "close"}}
        BY <1>0, <2>3, Endings DEF Thread, None
      <4> QED BY <4>1, JobChange
    <3>2. ~Crash
      BY <1>0, <2>3 DEF Crash, None
    <3>3. ASSUME NEW r \in Requests, Delete(r), req[r].id = f PROVE FALSE
      <4>1. req[r].op = "remove"
        BY <3>3, DeleteFacts
      <4>2. f \notin guard
        BY <3>3, <4>1 DEF Serial
      <4> QED BY <2>3, <3>1, <4>2 DEF Claimed, None
    <3>4. View(f)'.file[f] = View(f).file[f]
      BY <2>3, <3>2, <3>3, FileChange
    <3> QED BY <3>1, <3>4 DEF Kept
  <2> QED BY <2>1, <2>2, <2>3
<1> QED BY <1>1 DEF Kept

\* A thread ends with ready by reindex only, which commits what it sees.
LEMMA ReadyStep ==
    ASSUME KnowledgeAssumption, Typed, Fresh, Chunks, Kept, [Next]_vars
    PROVE  ReadyIndexed
<1> SUFFICES ASSUME NEW f \in Fids, NEW n \in Names,
                    job[f].pc = "file", job'[f].pc = "close",
                    job[f].scan[n] # 0, OnDisk(job[f].copy.path, n) = job[f].scan[n],
                    n \notin job[f].errs
             PROVE  /\ db'.file[f][n].text = [p |-> job[f].copy.path, v |-> job[f].scan[n]]
                    /\ db'.file[f][n].model = job[f].model
  BY DEF ReadyIndexed
<1>0. job \in [Fids -> Jobs] /\ job[f].copy.path \in Paths /\ NoJob.pc = None
      /\ View(f) \in Database /\ View(f) \in {db, work} /\ Live(View(f)) = Live(db)
  BY NoneTyped, ViewFacts DEF Typed
<1>1. reindex(f)
  <2>1. job'[f] # job[f] /\ job'[f] # NoJob /\ job'[f] # [NoJob EXCEPT !.pc = "begin"]
        /\ job'[f] # [NoJob EXCEPT !.pc = "failed"]
    BY <1>0, Endings DEF None
  <2>2. ~extract_text(f)
    <3> SUFFICES ASSUME extract_text(f) PROVE FALSE
      OBVIOUS
    <3>1. PICK i \in job[f].todo, next \in Jobs : Extracted(f, job[f], i, next)
      BY ExtractRecord
    <3>2. PICK j : j = job[f]
      OBVIOUS
    <3>3. next.pc = "file"
      BY <3>1, <3>2 DEF Extracted, Jobs
    <3> QED BY <3>1, <3>3 DEF Extracted, Jobs
  <2>3. CASE \E g \in Fids : Thread(g)
    <3>1. Thread(f)
      BY <2>1, <2>3, ThreadRecord
    <3> QED BY <1>0, <2>1, <2>2, <3>1 DEF Thread, _scan_disk, Store, EmbeddingUnavailable, Timeout,
               _run_background_reindex, _release_reindex, Job
  <2>4. CASE \E r \in Requests : reindex_folder(r)
    BY <1>0, <2>1, <2>4, ReindexFacts
  <2>5. CASE \E r \in Requests : \/ register_folder(r) \/ get_folder(r) \/ _try_claim_reindex(r)
                                 \/ delete_folder(r) \/ Delete(r)
    BY <2>1, <2>5 DEF register_folder, get_folder, _try_claim_reindex, delete_folder, Delete
  <2>6. CASE \/ Edit \/ Unmount \/ build_embedder \/ Crash \/ reset_stale_indexing_folders
             \/ UNCHANGED vars
    BY <2>1, <2>6 DEF Edit, Unmount, build_embedder, Crash, reset_stale_indexing_folders, vars
  <2> QED BY <2>3, <2>4, <2>5, <2>6 DEF Next
<1>2. job[f].todo = {} /\ db'.file = View(f).file
  <2>1. job'[f] # [NoJob EXCEPT !.pc = "failed"]
    BY Endings
  <2>2. f \in Live(db) /\ db' = SetStatus(View(f), f, "ready") /\ job[f].todo = {}
    BY <1>0, <1>1, <2>1 DEF reindex, Job, Commit
  <2>3. db' \in {View(f), WithStatus(View(f), f, "ready")}
    BY <2>2 DEF SetStatus, WithStatus
  <2> QED BY <1>0, <2>2, <2>3, StatusIndexed
<1>3. PICK x, p, v, d :
        x = db'.file[f][n] /\ p = job[f].copy.path /\ v = job[f].scan[n] /\ d = View(f)
  OBVIOUS
<1>4. x = d.file[f][n] /\ d \in {db, work} /\ d \in Database /\ x \in FileRow
  BY <1>0, <1>2, <1>3 DEF Database
<1>5. x.sig = [p |-> p, v |-> v] /\ (x.chunk # 0 => x.model = job[f].model)
  BY <1>2, <1>3, <1>4 DEF Kept, KeptRows, Left
<1>6. x # NoFile /\ NoText # [p |-> p, v |-> v]
  BY <1>0, <1>3, <1>5 DEF NoFile, NoText, None, KnowledgeAssumption
<1>7. Good(x.sig.p, n, x.sig.v, x.text)
  BY <1>4, <1>6 DEF Fresh, RowsGood
<1>8. disk[p][n] = v
  BY <1>3 DEF OnDisk
<1>9. x.text = [p |-> p, v |-> v]
  BY <1>5, <1>7, <1>8 DEF Good
<1>10. x.chunk # 0
  BY <1>4, <1>6, <1>9 DEF Chunks, Indexed
<1> QED BY <1>3, <1>5, <1>9, <1>10

\* With one request at a time ready means indexed: a thread that ends well has
\* stored every file that it could read and that has not changed since its scan.
THEOREM SerialReadyIndexed ==
    ASSUME KnowledgeAssumption, Concurrent = FALSE, Fails = FALSE \/ Binary = {}
    PROVE  Spec => [][ReadyIndexed]_vars
<1> DEFINE Inv == Typed /\ Fresh /\ Claimed /\ Serial /\ Holder /\ Chunks /\ Kept
<1>1. Init => Inv
  BY InitTyped, InitChunks
<1>2. Inv /\ [Next]_vars => Inv'
  BY TypedStep, FreshStep, ClaimedStep, SerialStep, HolderStep, ChunksStep, KeptStep
<1>3. Inv /\ [Next]_vars => [ReadyIndexed]_vars
  BY ReadyStep
<1> QED BY <1>1, <1>2, <1>3, PTL DEF Spec
==============================================================================
