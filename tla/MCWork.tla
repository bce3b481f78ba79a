------------------------------- MODULE MCWork --------------------------------
(****************************************************************************)
(* The knowledge index, the categories and the records of Aero Work on      *)
(* small instances. One behaviour is about one part only, which is chosen   *)
(* in the initial state: the parts share no data, and each run of TLC       *)
(* covers all of them. A name that two parts use is each part's own         *)
(* variable.                                                                *)
(****************************************************************************)
EXTENDS Naturals, TLC

CONSTANTS Dir, TwoDirs, Dirs,         \* directories: for one folder, two, and more
          Name, Names,                \* names of files, few and many
          Model, Models,              \* embedding spaces, few and many
          MaxFolder, MaxVersion, MaxChunk, ProgressEvery, MaxThreads,
          MaxFile, MaxCat, MaxGen, MaxText, MaxId, MaxTime,
          User, Users,                \* users: one, and more
          Request, Requests           \* requests, few and many

VARIABLES part,    \* the part that a behaviour is about
          disk, roots, active, db, work, writer, guard, job, req, up, file, cat, gen,
          shown, table, message, activity

vars == <<part, disk, roots, active, db, work, writer, guard, job, req, up, file, cat,
                gen, shown, table, message, activity>>

\* The words the rules of the orchestrator look for, and what users may say.
Words == {"when", "add", "book", "schedule", "remove", "show", "tell", "look",
          "report", "write", "how", "todo", "did", "find"}
Sayings == {{v, w} : v, w \in Words} \cup {{"when", "add", "report", "write"}}
Few == {{"when", "add"}, {"todo", "add"}, {"todo", "did"}, {"schedule", "remove"}, {"look"}}

Index == INSTANCE KnowledgeIndex_proofs WITH
    Paths <- Dir, Binary <- {}, Requests <- Request, Concurrent <- FALSE, Busy <- FALSE,
    Fails <- TRUE

Folders == INSTANCE KnowledgeIndex_proofs WITH
    Paths <- Dirs, Names <- Name, Binary <- {}, Requests <- Request, MaxFolder <- MaxFolder + 1,
    MaxVersion <- MaxVersion - 1, Models <- Model, Concurrent <- FALSE, Busy <- TRUE,
    Fails <- FALSE

Changes == INSTANCE KnowledgeIndex_proofs WITH
    Paths <- Dir, Names <- Name, Binary <- {}, Requests <- Request,
    MaxVersion <- MaxVersion + 1, Concurrent <- FALSE, Busy <- FALSE, Fails <- TRUE

Indexers == INSTANCE KnowledgeIndex_proofs WITH
    Paths <- TwoDirs, Names <- Name, Binary <- Name,
    MaxChunk <- MaxChunk - 1, Models <- Model, Concurrent <- TRUE, Busy <- FALSE,
    Fails <- FALSE

Category == INSTANCE WorkTaxonomy WITH Concurrent <- FALSE

Categories == INSTANCE WorkTaxonomy WITH
    MaxFile <- MaxFile - 1, MaxCat <- MaxCat - 1, Concurrent <- TRUE

Record == INSTANCE WorkRecords WITH
    MaxTime <- MaxTime + 2, Kinds <- {"event", "task", "doc"}, Utterances <- {},
    Concurrent <- FALSE

Records == INSTANCE WorkRecords WITH
    Kinds <- {"event", "task", "doc"}, Utterances <- {}, Concurrent <- TRUE

Talk == INSTANCE WorkRecords WITH
    Users <- User, Requests <- Request, MaxId <- MaxId + 1, Kinds <- {"chat"},
    Utterances <- Sayings, Concurrent <- FALSE

Talks == INSTANCE WorkRecords WITH
    Users <- User, Kinds <- {"chat"}, Utterances <- Few, Concurrent <- TRUE

\* There is a thread for every folder.
ASSUME WorkAssumption ==
    /\ MaxFolder <= MaxThreads
    /\ Index!KnowledgeAssumption
    /\ Changes!KnowledgeAssumption
    /\ Folders!KnowledgeAssumption
    /\ Indexers!KnowledgeAssumption
    /\ Category!TaxonomyAssumption
    /\ Categories!TaxonomyAssumption
    /\ Record!RecordsAssumption
    /\ Records!RecordsAssumption
    /\ Talk!RecordsAssumption
    /\ Talks!RecordsAssumption

\* The variables of the other parts have the value 0 and keep it.
Init ==
    \/ /\ part = "index" /\ Index!Init
       /\ file = 0 /\ cat = 0 /\ gen = 0 /\ shown = 0 /\ table = 0 /\ message = 0
       /\ activity = 0
    \/ /\ part = "folders" /\ Folders!Init
       /\ file = 0 /\ cat = 0 /\ gen = 0 /\ shown = 0 /\ table = 0 /\ message = 0
       /\ activity = 0
    \/ /\ part = "changes" /\ Changes!Init
       /\ file = 0 /\ cat = 0 /\ gen = 0 /\ shown = 0 /\ table = 0 /\ message = 0
       /\ activity = 0
    \/ /\ part = "indexers" /\ Indexers!Init
       /\ file = 0 /\ cat = 0 /\ gen = 0 /\ shown = 0 /\ table = 0 /\ message = 0
       /\ activity = 0
    \/ /\ part = "category" /\ Category!Init
       /\ disk = 0 /\ roots = 0 /\ active = 0 /\ db = 0 /\ work = 0 /\ writer = 0
       /\ guard = 0 /\ job = 0 /\ up = 0 /\ table = 0 /\ message = 0 /\ activity = 0
    \/ /\ part = "categories" /\ Categories!Init
       /\ disk = 0 /\ roots = 0 /\ active = 0 /\ db = 0 /\ work = 0 /\ writer = 0
       /\ guard = 0 /\ job = 0 /\ up = 0 /\ table = 0 /\ message = 0 /\ activity = 0
    \/ /\ part = "record" /\ Record!Init
       /\ disk = 0 /\ roots = 0 /\ active = 0 /\ db = 0 /\ work = 0 /\ writer = 0
       /\ guard = 0 /\ job = 0 /\ up = 0 /\ file = 0 /\ cat = 0 /\ gen = 0
       /\ shown = 0
    \/ /\ part = "records" /\ Records!Init
       /\ disk = 0 /\ roots = 0 /\ active = 0 /\ db = 0 /\ work = 0 /\ writer = 0
       /\ guard = 0 /\ job = 0 /\ up = 0 /\ file = 0 /\ cat = 0 /\ gen = 0
       /\ shown = 0
    \/ /\ part = "talk" /\ Talk!Init
       /\ disk = 0 /\ roots = 0 /\ active = 0 /\ db = 0 /\ work = 0 /\ writer = 0
       /\ guard = 0 /\ job = 0 /\ up = 0 /\ file = 0 /\ cat = 0 /\ gen = 0
       /\ shown = 0
    \/ /\ part = "talks" /\ Talks!Init
       /\ disk = 0 /\ roots = 0 /\ active = 0 /\ db = 0 /\ work = 0 /\ writer = 0
       /\ guard = 0 /\ job = 0 /\ up = 0 /\ file = 0 /\ cat = 0 /\ gen = 0
       /\ shown = 0

\* What the parts leave alone.
NotKnowledgeIndex == <<part, file, cat, gen, shown, table, message, activity>>
NotWorkTaxonomy == <<part, disk, roots, active, db, work, writer, guard, job, up,
                     table, message, activity>>
NotWorkRecords == <<part, disk, roots, active, db, work, writer, guard, job, up, file,
                    cat, gen, shown>>

Next ==
    \/ part = "index" /\ Index!Next /\ UNCHANGED NotKnowledgeIndex
    \/ part = "folders" /\ Folders!Next /\ UNCHANGED NotKnowledgeIndex
    \/ part = "changes" /\ Changes!Next /\ UNCHANGED NotKnowledgeIndex
    \/ part = "indexers" /\ Indexers!Next /\ UNCHANGED NotKnowledgeIndex
    \/ part = "category" /\ Category!Next /\ UNCHANGED NotWorkTaxonomy
    \/ part = "categories" /\ Categories!Next /\ UNCHANGED NotWorkTaxonomy
    \/ part = "record" /\ Record!Next /\ UNCHANGED NotWorkRecords
    \/ part = "records" /\ Records!Next /\ UNCHANGED NotWorkRecords
    \/ part = "talk" /\ Talk!Next /\ UNCHANGED NotWorkRecords
    \/ part = "talks" /\ Talks!Next /\ UNCHANGED NotWorkRecords

Spec == Init /\ [][Next]_vars

Symmetry == Permutations(Requests) \cup Permutations(Users)

------------------------------------------------------------------------------
\* Incremental indexing never takes a stale text for the current one, although
\* files change and folders are deleted while the thread works. With one request
\* at a time ready means indexed, and the FTS table and the LIKE fallback find the
\* same chunks (Signature, _index_folder, _fts_index_chunk).
IndexCurrent ==
    /\ [](part = "indexers" => Indexers!TypeOK /\ Indexers!NeverStale)
    /\ [](part = "index" => Index!TypeOK /\ Index!NeverStale /\ Index!KeywordAgrees)
    /\ [](part = "changes" => Changes!TypeOK /\ Changes!NeverStale /\ Changes!KeywordAgrees)
    /\ [][part = "index" => Index!ReadyIndexed]_vars
    /\ [][part = "changes" => Changes!ReadyIndexed]_vars

\* With one request at a time a folder is at indexing only while somebody indexes
\* it, in spite of crashes, and its rows were extracted from its own directory,
\* although the ids of deleted folders are used again
\* (reset_stale_indexing_folders, delete_folder).
FoldersHonest ==
    /\ part = "index" => Index!StatusHonest
    /\ part = "folders" => Folders!TypeOK /\ Folders!FilesBelong

\* The tree of a user never shows a file of another, even when a file's id was
\* given to somebody else's while categories were applied. With one request at a
\* time applying replaces all categories of the user and none of another, and a
\* summary was made from the file its row stands for (list_categories,
\* apply_categories, summarize_file).
CategoriesOwn ==
    /\ [](part = "categories" => Categories!TypeOK /\ Categories!ListOwn)
    /\ [](part = "category" => Category!TypeOK /\ Category!SummaryBelongs)
    /\ [][part = "category" => Category!Replaced /\ Category!OwnerScope]_vars

\* Whatever changes a record commits an activity, a chat whose session is deleted
\* while it runs leaves no message, and what only the model said changes nothing.
\* With one request at a time an event never ends before it starts, a task has a
\* time of completion exactly when it is done, and a request changes only rows of
\* its user (update_event, update_task, _save_message, _llm_category_to_intent).
RecordsSound ==
    /\ [](part = "record" => Record!TypeOK /\ Record!EventOrdered /\ Record!TaskStamp)
    /\ [][part = "record" => Record!OwnerScope]_vars
    /\ [](part = "records" => Records!TypeOK)
    /\ [][part = "records" => Records!ChangesLogged]_vars
    /\ [](part = "talks" => Talks!TypeOK /\ Talks!MessageHasSession)
    /\ [](part = "talk" => Talk!TypeOK)
    /\ [][part = "talk" => Talk!LlmHarmless]_vars
==============================================================================
