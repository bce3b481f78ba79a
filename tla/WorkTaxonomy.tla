----------------------------- MODULE WorkTaxonomy -----------------------------
(***************************************************************************)
(* Aero Work's classification of indexed files: the wizard proposes        *)
(* categories, the user applies or deletes them, and files get a summary   *)
(* from the model, while the indexing thread adds, changes and removes the *)
(* files.  Rows are read before SQLite's write lock is taken and written   *)
(* by id, and the ids of deleted rows are given again.                     *)
(***************************************************************************)
EXTENDS Naturals, FiniteSets, FiniteSetsExt

CONSTANTS Users, Requests,
          MaxFile, MaxCat,   \* bounds on ids
          MaxGen,            \* bound on files ever indexed
          MaxText,           \* bound on versions of a file
          Concurrent         \* requests overlap, and overlap with indexing

\* What the constants are assumed to be.
TaxonomyAssumption ==
    /\ Concurrent \in BOOLEAN /\ MaxCat \in Nat /\ MaxFile \in Nat /\ MaxGen \in Nat
    /\ "none" \notin Users

None == "none"
Files == 1..MaxFile
Cats == 1..MaxCat

VARIABLES file,    \* rows of indexed files; gen tells files with one id apart
          cat,     \* categories, each with the ids of its files
          gen,     \* files indexed so far
          shown,   \* what each user reviews: sets of files, told apart by gen
          req      \* requests under way

vars == <<file, cat, gen, shown, req>>

NoFile == [owner |-> None, gen |-> 0, text |-> 0, sum |-> <<0, 0>>]
NoCat == [owner |-> None, files |-> {}]
NoReq == [op |-> None, user |-> None, ids |-> {}, valid |-> {}, want |-> {}, copy |-> NoFile]

Init ==
    /\ file = [f \in Files |-> NoFile] /\ cat = [c \in Cats |-> NoCat] /\ gen = 0
    /\ shown = [u \in Users |-> {}] /\ req = [r \in Requests |-> NoReq]

-----------------------------------------------------------------------------
(* Reads. *)

_indexed_files(u) == {f \in Files : file[f].owner = u}
CategoriesOf(u) == {c \in Cats : cat[c].owner = u}

\* The wiki's tree: categories of the user with their files.
list_categories(u) == {m \in CategoriesOf(u) \X _indexed_files(u) : m[2] \in cat[m[1]].files}

\* Ids the database gives to n new rows: they follow the largest in use.
NewIds(used, n) == (Max({0} \cup used) + 1)..(Max({0} \cup used) + n)

-----------------------------------------------------------------------------
Quiet == \A r \in Requests : req[r] = NoReq
Free(r) == req[r] = NoReq /\ (Concurrent \/ Quiet)
Begin(r, q) == Free(r) /\ req' = [req EXCEPT ![r] = q]
Ends(r) == req' = [req EXCEPT ![r] = NoReq]

\* Indexing: a new file, a changed one, a file that went away with its
\* mappings.
Index ==
    /\ Concurrent \/ Quiet
    /\ \/ \E u \in Users, f \in NewIds({x \in Files : file[x] # NoFile}, 1) \cap Files :
            /\ gen < MaxGen /\ gen' = gen + 1
            /\ file' = [file EXCEPT ![f] = [NoFile EXCEPT !.owner = u, !.gen = gen', !.text = 1]]
            /\ UNCHANGED cat
       \/ \E f \in Files :
            /\ file[f].text \in 1..(MaxText - 1) /\ file' = [file EXCEPT ![f].text = @ + 1]
            /\ UNCHANGED <<cat, gen>>
    /\ UNCHANGED <<shown, req>>

\* A file's row goes, and by ON DELETE CASCADE its mappings with it.
Remove ==
    /\ Concurrent \/ Quiet
    /\ \E f \in Files :
        /\ file[f] # NoFile /\ file' = [file EXCEPT ![f] = NoFile]
        /\ cat' = [c \in Cats |-> [cat[c] EXCEPT !.files = @ \ {f}]]
    /\ UNCHANGED <<gen, shown, req>>

\* The proposal reads the files, then asks the model.
propose_taxonomy(r) ==
    /\ \E u \in Users : Begin(r, [NoReq EXCEPT !.op = "propose", !.user = u,
                                        !.valid = {<<f, file[f].gen>> : f \in _indexed_files(u)}])
    /\ UNCHANGED <<file, cat, gen, shown>>

\* Categories the model names, with such of its ids as were files' ids; none
\* when it fails or its answer is not a list.
_parse_candidates(valid) == {{}, {valid}} \cup {{{f}, {}} : f \in valid}
propose_categories(r) ==
    /\ req[r].op = "propose"
    /\ \E candidates \in _parse_candidates(req[r].valid) :
        shown' = [shown EXCEPT ![req[r].user] = candidates]
    /\ Ends(r) /\ UNCHANGED <<file, cat, gen>>

\* The reviewed categories are applied: first the ids of the old ones are read.
apply_taxonomy(r) ==
    /\ \E u \in Users : Begin(r, [NoReq EXCEPT !.op = "apply", !.user = u, !.ids = CategoriesOf(u),
                                        !.want = shown[u]])
    /\ UNCHANGED <<file, cat, gen, shown>>

\* When there are none nothing is deleted, and the files are read before the
\* lock is taken.
ValidFiles(r) ==
    /\ req[r].op = "apply" /\ req[r].ids = {}
    /\ req' = [req EXCEPT ![r].op = "insert", ![r].valid = _indexed_files(req[r].user)]
    /\ UNCHANGED <<file, cat, gen, shown>>

\* Mutant: the new categories are added to the old ones.
apply_categories_adds(r) ==
    LET q == req[r]
        want == {{x[1] : x \in s} \cap _indexed_files(q.user) : s \in q.want} IN
    /\ (q.op = "apply" /\ q.ids # {}) \/ q.op = "insert"
    /\ \E ids \in {NewIds({c \in Cats : cat[c] # NoCat}, Cardinality(want))} :
        /\ ids \subseteq Cats
        /\ \E to \in [ids -> want] :
            /\ {to[c] : c \in ids} = want
            /\ cat' = [c \in Cats |-> IF c \in ids THEN [owner |-> q.user, files |-> to[c]] ELSE cat[c]]
    /\ Ends(r) /\ UNCHANGED <<file, gen, shown>>

\* The categories to apply, each with those of its files that are the user's.
Wanted(q) ==
    LET valid == IF q.op = "insert" THEN q.valid ELSE _indexed_files(q.user) IN
    {{x[1] : x \in s} \cap valid : s \in q.want}

\* The categories read are deleted by id and the new ones inserted; a mapping to
\* a file that is gone by then fails the request.
Kept(q) == [c \in Cats |-> IF c \in q.ids THEN NoCat ELSE cat[c]]
InsertIds(q) == NewIds({c \in Cats : Kept(q)[c] # NoCat}, Cardinality(Wanted(q)))
apply_categories(r) ==
    LET q == req[r] IN
    /\ (q.op = "apply" /\ q.ids # {}) \/ q.op = "insert"
    /\ IF \E s \in Wanted(q) : \E f \in s : file[f] = NoFile THEN UNCHANGED cat
       ELSE /\ InsertIds(q) \subseteq Cats
            /\ \E to \in [InsertIds(q) -> Wanted(q)] :
                /\ {to[c] : c \in InsertIds(q)} = Wanted(q)
                /\ cat' = [c \in Cats |-> IF c \in InsertIds(q)
                                          THEN [owner |-> q.user, files |-> to[c]] ELSE Kept(q)[c]]
    /\ Ends(r) /\ UNCHANGED <<file, gen, shown>>

\* Deleting a category reads it, and its owner, ...
delete_taxonomy_category(r) ==
    /\ \E u \in Users, c \in Cats :
        cat[c].owner = u /\ Begin(r, [NoReq EXCEPT !.op = "delete", !.user = u, !.ids = {c}])
    /\ UNCHANGED <<file, cat, gen, shown>>

\* ... then deletes the row with its id.
delete_category(r) ==
    /\ req[r].op = "delete"
    /\ cat' = [c \in Cats |-> IF c \in req[r].ids THEN NoCat ELSE cat[c]]
    /\ Ends(r) /\ UNCHANGED <<file, gen, shown>>

\* A summary: the file and its chunks are read, the model is asked, ...
summarize_file(r) ==
    /\ \E u \in Users, f \in Files :
        /\ file[f].owner = u
        /\ Begin(r, [NoReq EXCEPT !.op = "summary", !.user = u, !.ids = {f}, !.copy = file[f]])
    /\ UNCHANGED <<file, cat, gen, shown>>

\* ... and the answer stored in the row with the file's id; nothing is stored
\* when the model fails, or no row has the id any more.
SaveSummary(r) ==
    LET q == req[r] IN
    /\ q.op = "summary"
    /\ \/ UNCHANGED file
       \/ \E f \in q.ids : file[f] # NoFile /\ file' = [file EXCEPT ![f].sum = <<q.copy.gen, q.copy.text>>]
    /\ Ends(r) /\ UNCHANGED <<cat, gen, shown>>

Next ==
    \/ Index \/ Remove
    \/ \E r \in Requests :
        \/ propose_taxonomy(r) \/ propose_categories(r)
        \/ apply_taxonomy(r) \/ ValidFiles(r) \/ apply_categories(r)
        \/ delete_taxonomy_category(r) \/ delete_category(r)
        \/ summarize_file(r) \/ SaveSummary(r)

Spec == Init /\ [][Next]_vars

-----------------------------------------------------------------------------
\* Type correctness; a mapping names a file row that exists.
TypeOK ==
    /\ gen \in 0..MaxGen
    /\ \A f \in Files : (file[f].owner \in Users /\ file[f].gen \in 1..gen) \/ file[f] = NoFile
    /\ \A c \in Cats : (cat[c].owner \in Users \/ cat[c] = NoCat) /\ \A f \in cat[c].files : file[f] # NoFile

\* The tree of a user never shows a file of another, even when a file's id
\* was given to somebody else's file while categories were being applied.
ListOwn == \A u \in Users : \A x \in list_categories(u) : file[x[2]].owner = u

\* Applying replaces: afterwards the user has no more categories than the
\* request brought, so none of the old ones is left beside them.
Replaced ==
    \A r \in Requests :
        LET q == req[r] IN
        (q.op = "insert" \/ (q.op = "apply" /\ q.ids # {})) /\ req'[r] = NoReq /\ cat' # cat =>
            Cardinality({c \in Cats : cat'[c].owner = q.user}) <= Cardinality(q.want)

\* Requests work on their user's categories alone: those of another user are
\* neither deleted nor changed by them.
OwnerScope ==
    \A c \in Cats, r \in Requests :
        req[r] # NoReq /\ req'[r] = NoReq /\ cat[c] # NoCat /\ cat[c].owner # req[r].user => cat'[c] = cat[c]

\* The summary of a row was made from the file the row stands for.
SummaryBelongs == \A f \in Files : file[f].sum[1] \in {0, file[f].gen}
=============================================================================
