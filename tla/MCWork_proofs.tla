---------------------------- MODULE MCWork_proofs ----------------------------
(***************************************************************************)
(* The parts of MCWork for every value of the constants: the knowledge     *)
(* index keeps the invariants of KnowledgeIndex_proofs, the categories and *)
(* the settings theirs, and the records of Aero Work (events, tasks, chat  *)
(* sessions and messages) theirs, whichever part a behaviour is about.     *)
(***************************************************************************)
EXTENDS MCWork, TLAPS, FiniteSetTheorems

-----------------------------------------------------------------------------
(* The index.                                                              *)

\* The invariants of the parts that index.
IndexInv ==
    /\ Index!Typed /\ Index!Fresh /\ Index!Claimed /\ Index!RowsSound /\ Index!Serial
    /\ Index!Honest /\ Index!Holder /\ Index!Chunks /\ Index!Kept

ChangesInv ==
    /\ Changes!Typed /\ Changes!Fresh /\ Changes!Claimed /\ Changes!RowsSound
    /\ Changes!Serial /\ Changes!Holder /\ Changes!Chunks /\ Changes!Kept

FoldersInv ==
    /\ Folders!Typed /\ Folders!Claimed /\ Folders!RowsSound /\ Folders!Serial
    /\ Folders!Belongs

IndexersInv ==
    Indexers!Typed /\ Indexers!Fresh /\ Indexers!Claimed /\ Indexers!RowsSound

WorkInv ==
    /\ part = "index" => IndexInv
    /\ part = "changes" => ChangesInv
    /\ part = "folders" => FoldersInv
    /\ part = "indexers" => IndexersInv

\* A behaviour is about one part from its first state on.
LEMMA WorkInit ==
    ASSUME Init
    PROVE  WorkInv
<1>1. part = "index" => Index!Init
  BY DEF Init
<1>2. part = "changes" => Changes!Init
  BY DEF Init
<1>3. part = "folders" => Folders!Init
  BY DEF Init
<1>4. part = "indexers" => Indexers!Init
  BY DEF Init
<1>5. Index!Init => IndexInv
  BY WorkAssumption, Index!InitTyped, Index!InitChunks DEF IndexInv
<1>6. Changes!Init => ChangesInv
  BY WorkAssumption, Changes!InitTyped, Changes!InitChunks DEF ChangesInv
<1>7. Folders!Init => FoldersInv
  BY WorkAssumption, Folders!InitTyped DEF FoldersInv
<1>8. Indexers!Init => IndexersInv
  BY WorkAssumption, Indexers!InitTyped DEF IndexersInv
<1> QED BY <1>1, <1>2, <1>3, <1>4, <1>5, <1>6, <1>7, <1>8 DEF WorkInv

\* A step of the system is a step of the part, or leaves its variables alone.
LEMMA PartStep ==
    ASSUME [Next]_vars
    PROVE  /\ part' = part
           /\ part = "index" => [Index!Next]_(Index!vars)
           /\ part = "changes" => [Changes!Next]_(Changes!vars)
           /\ part = "folders" => [Folders!Next]_(Folders!vars)
           /\ part = "indexers" => [Indexers!Next]_(Indexers!vars)
           /\ part = "category" => [Category!Next]_(Category!vars)
           /\ part = "categories" => [Categories!Next]_(Categories!vars)
<1>1. CASE UNCHANGED vars
  BY <1>1 DEF vars, Index!vars, Changes!vars, Folders!vars, Indexers!vars, Category!vars,
                Categories!vars
<1>2. CASE Next
  BY <1>2 DEF Next, NotKnowledgeIndex, NotWorkTaxonomy, NotWorkRecords
<1> QED BY <1>1, <1>2

\* Every part keeps its invariants.
LEMMA WorkStep ==
    ASSUME WorkInv, [Next]_vars
    PROVE  WorkInv'
<1>1. ASSUME IndexInv, [Index!Next]_(Index!vars) PROVE IndexInv'
  BY <1>1, WorkAssumption, Index!TypedStep, Index!FreshStep, Index!ClaimedStep,
     Index!RowsSoundStep, Index!SerialStep, Index!HonestStep, Index!HolderStep,
     Index!ChunksStep, Index!KeptStep DEF IndexInv
<1>2. ASSUME ChangesInv, [Changes!Next]_(Changes!vars) PROVE ChangesInv'
  BY <1>2, WorkAssumption, Changes!TypedStep, Changes!FreshStep, Changes!ClaimedStep,
     Changes!RowsSoundStep, Changes!SerialStep, Changes!HolderStep, Changes!ChunksStep,
     Changes!KeptStep DEF ChangesInv
<1>3. ASSUME FoldersInv, [Folders!Next]_(Folders!vars) PROVE FoldersInv'
  BY <1>3, WorkAssumption, Folders!TypedStep, Folders!ClaimedStep, Folders!RowsSoundStep,
     Folders!SerialStep, Folders!BelongsStep DEF FoldersInv
<1>4. ASSUME IndexersInv, [Indexers!Next]_(Indexers!vars) PROVE IndexersInv'
  BY <1>4, WorkAssumption, Indexers!TypedStep, Indexers!FreshStep, Indexers!ClaimedStep,
     Indexers!RowsSoundStep DEF IndexersInv
<1> QED BY <1>1, <1>2, <1>3, <1>4, PartStep DEF WorkInv

\* With one request at a time a folder is at indexing only while somebody indexes
\* it, in spite of crashes, and its rows were extracted from its own directory,
\* although the ids of deleted folders are used again
\* (reset_stale_indexing_folders, delete_folder).
THEOREM WorkFoldersHonest == Spec => []FoldersHonest
<1>1. Init => WorkInv
  BY WorkInit
<1>2. WorkInv /\ [Next]_vars => WorkInv'
  BY WorkStep
<1>3. WorkInv => FoldersHonest
  BY Index!HonestGives, Folders!TypesGive, Folders!BelongsGives
     DEF WorkInv, IndexInv, FoldersInv, FoldersHonest
<1> QED BY <1>1, <1>2, <1>3, PTL DEF Spec

\* A stale text is never taken for the current one, whoever overlaps; with one
\* request at a time the table of the search agrees with the rows, and ready means
\* indexed (Signature, _index_folder, _fts_index_chunk).
THEOREM WorkIndexCurrent == Spec => IndexCurrent
<1>1. Init => WorkInv
  BY WorkInit
<1>2. WorkInv /\ [Next]_vars => WorkInv'
  BY WorkStep
<1>3. WorkInv => (part = "indexers" => Indexers!TypeOK /\ Indexers!NeverStale)
  BY Indexers!TypesGive, Indexers!FreshGives DEF WorkInv, IndexersInv
<1>4. WorkInv => (part = "index" => Index!TypeOK /\ Index!NeverStale /\ Index!KeywordAgrees)
  BY Index!TypesGive, Index!FreshGives, Index!ChunksGive DEF WorkInv, IndexInv
<1>5. WorkInv => (part = "changes" => Changes!TypeOK /\ Changes!NeverStale /\ Changes!KeywordAgrees)
  BY Changes!TypesGive, Changes!FreshGives, Changes!ChunksGive DEF WorkInv, ChangesInv
<1>6. WorkInv /\ [Next]_vars => [part = "index" => Index!ReadyIndexed]_vars
  BY WorkAssumption, PartStep, Index!ReadyStep DEF WorkInv, IndexInv
<1>7. WorkInv /\ [Next]_vars => [part = "changes" => Changes!ReadyIndexed]_vars
  BY WorkAssumption, PartStep, Changes!ReadyStep DEF WorkInv, ChangesInv
<1> QED BY <1>1, <1>2, <1>3, <1>4, <1>5, <1>6, <1>7, PTL DEF Spec, IndexCurrent
-----------------------------------------------------------------------------
(* The categories.                                                         *)

\* What the variables hold; valid is a set of files, or of files told apart.
FileRows == [owner : Users \cup {"none"}, gen : Nat, text : Nat, sum : Nat \X Nat]
CatRows(n) == [owner : Users \cup {"none"}, files : SUBSET (1..n)]
Orders == [op : {"none", "propose", "apply", "insert", "delete", "summary"},
           user : Users \cup {"none"}, ids : SUBSET Nat, valid : SUBSET (Nat \cup (Nat \X Nat)),
           want : SUBSET SUBSET (Nat \X Nat), copy : FileRows]

NoFile == [owner |-> "none", gen |-> 0, text |-> 0, sum |-> <<0, 0>>]
NoCat == [owner |-> "none", files |-> {}]
NoOrder == [op |-> "none", user |-> "none", ids |-> {}, valid |-> {}, want |-> {}, copy |-> NoFile]

\* The types, for n files and m categories: a row has an owner, a mapping names
\* a file row that exists, and a request under way has a user.
FilesOK(n) ==
    /\ gen \in 0..MaxGen /\ file \in [1..n -> FileRows]
    /\ \A f \in 1..n : file[f] = NoFile \/ (file[f].owner \in Users /\ file[f].gen \in 1..gen)
CatsOK(n, m) ==
    /\ cat \in [1..m -> CatRows(n)]
    /\ \A c \in 1..m : cat[c] = NoCat \/ cat[c].owner \in Users
    /\ \A c \in 1..m : \A f \in cat[c].files : file[f] # NoFile
OrdersOK(n, m) ==
    /\ shown \in [Users -> SUBSET SUBSET (Nat \X Nat)]
    /\ req \in [Requests -> Orders]
    /\ \A r \in Requests : req[r].op # "none" => req[r].user \in Users
    /\ \A r \in Requests : req[r].op = "none" => req[r] = NoOrder
    /\ \A r \in Requests : req[r].op = "propose" => req[r].valid \subseteq Nat \X Nat
    /\ \A r \in Requests : req[r].op = "insert" => req[r].valid \subseteq 1..n
    /\ \A r \in Requests : req[r].op = "summary" => req[r].ids \subseteq 1..n

TaxTyped(n, m) == FilesOK(n) /\ CatsOK(n, m) /\ OrdersOK(n, m)

\* They hold at first.
LEMMA TaxInit ==
    ASSUME NEW n \in Nat, NEW m \in Nat, MaxGen \in Nat,
           file = [f \in 1..n |-> NoFile], cat = [c \in 1..m |-> NoCat], gen = 0,
           shown = [u \in Users |-> {}], req = [r \in Requests |-> NoOrder]
    PROVE  TaxTyped(n, m)
<1>1. NoFile \in FileRows /\ NoCat \in CatRows(n) /\ NoOrder \in Orders
  BY DEF NoFile, NoCat, NoOrder, FileRows, CatRows, Orders
<1> QED BY <1>1 DEF TaxTyped, FilesOK, CatsOK, OrdersOK, NoFile, NoCat, NoOrder

\* They are kept when a request begins, or goes on, ...
LEMMA Begins ==
    ASSUME NEW n \in Nat, NEW m \in Nat, TaxTyped(n, m), NEW r \in Requests, NEW q \in Orders,
           q.op # "none", q.user \in Users, q.op = "propose" => q.valid \subseteq Nat \X Nat,
           q.op = "insert" => q.valid \subseteq 1..n, q.op = "summary" => q.ids \subseteq 1..n,
           req' = [req EXCEPT ![r] = q], UNCHANGED <<file, cat, gen, shown>>
    PROVE  TaxTyped(n, m)'
<1>1. FilesOK(n)' /\ CatsOK(n, m)'
  BY DEF TaxTyped, FilesOK, CatsOK
<1>2. OrdersOK(n, m)'
  BY DEF TaxTyped, OrdersOK
<1> QED BY <1>1, <1>2 DEF TaxTyped

\* ... when it ends, ...
LEMMA EndsOK ==
    ASSUME NEW n \in Nat, NEW m \in Nat, TaxTyped(n, m), NEW r \in Requests,
           shown' \in [Users -> SUBSET SUBSET (Nat \X Nat)], req' = [req EXCEPT ![r] = NoOrder]
    PROVE  OrdersOK(n, m)'
<1>1. NoOrder \in Orders /\ NoOrder.op = "none"
  BY DEF NoFile, NoOrder, FileRows, Orders
<1> QED BY <1>1 DEF TaxTyped, OrdersOK

\* ... when a file's row is replaced, ...
LEMMA FilesChange ==
    ASSUME NEW n \in Nat, NEW m \in Nat, TaxTyped(n, m), NEW f \in 1..n, NEW x \in FileRows,
           x.owner \in Users, x.gen \in 1..gen', gen' \in {gen, gen + 1}, gen' <= MaxGen, MaxGen \in Nat,
           "none" \notin Users,
           file' = [file EXCEPT ![f] = x], UNCHANGED cat
    PROVE  FilesOK(n)' /\ CatsOK(n, m)'
<1>1. FilesOK(n)'
  <2>1. gen' \in 0..MaxGen /\ gen <= gen' /\ gen \in Nat /\ gen' \in Nat
    BY DEF TaxTyped, FilesOK
  <2>2. file' \in [1..n -> FileRows]
    BY DEF TaxTyped, FilesOK
  <2>3. ASSUME NEW g \in 1..n, file'[g] # NoFile
        PROVE  file'[g].owner \in Users /\ file'[g].gen \in 1..gen'
    <3>1. CASE g = f
      BY <3>1 DEF TaxTyped, FilesOK
    <3>2. CASE g # f
      BY <2>1, <2>3, <3>2 DEF TaxTyped, FilesOK
    <3> QED BY <3>1, <3>2
  <2> QED BY <2>1, <2>2, <2>3 DEF FilesOK
<1>2. x # NoFile
  BY DEF NoFile
<1>3. CatsOK(n, m)'
  BY <1>2 DEF TaxTyped, FilesOK, CatsOK, CatRows
<1> QED BY <1>1, <1>3

\* ... and when categories go and come.
LEMMA CatsChange ==
    ASSUME NEW n \in Nat, NEW m \in Nat, TaxTyped(n, m),
           cat' = [c \in 1..m |-> cat'[c]], UNCHANGED <<file, gen>>,
           \A c \in 1..m : \/ cat'[c] \in {cat[c], NoCat}
                           \/ \E u \in Users, w \in SUBSET (1..n) :
                                /\ cat'[c] = [owner |-> u, files |-> w]
                                /\ \A f \in w : file[f] # NoFile
    PROVE  FilesOK(n)' /\ CatsOK(n, m)'
<1>1. FilesOK(n)'
  BY DEF TaxTyped, FilesOK
<1>2. NoCat \in CatRows(n) /\ NoCat.files = {}
  BY DEF NoCat, CatRows
<1>3. ASSUME NEW c \in 1..m
      PROVE  /\ cat'[c] \in CatRows(n) /\ (cat'[c] = NoCat \/ cat'[c].owner \in Users)
             /\ \A f \in cat'[c].files : file[f] # NoFile
  <2>1. CASE cat'[c] \in {cat[c], NoCat}
    BY <1>2, <2>1 DEF TaxTyped, CatsOK
  <2>2. CASE \E u \in Users, w \in SUBSET (1..n) :
               /\ cat'[c] = [owner |-> u, files |-> w]
               /\ \A f \in w : file[f] # NoFile
    BY <2>2 DEF CatRows
  <2> QED BY <2>1, <2>2
<1> QED BY <1>1, <1>3 DEF CatsOK

\* The steps of the part keep the types.
LEMMA CategoryTyped ==
    ASSUME Category!TaxonomyAssumption, TaxTyped(MaxFile, MaxCat),
           [Category!Next]_(Category!vars)
    PROVE  TaxTyped(MaxFile, MaxCat)'
<1>1. /\ MaxFile \in Nat /\ MaxCat \in Nat /\ MaxGen \in Nat /\ "none" \notin Users
      /\ Category!NoFile = NoFile /\ Category!NoCat = NoCat /\ Category!NoReq = NoOrder
      /\ Category!Files = 1..MaxFile /\ Category!Cats = 1..MaxCat
  BY DEF Category!TaxonomyAssumption, Category!NoFile, Category!NoCat, Category!NoReq, NoFile,
         NoCat, NoOrder, Category!None, Category!Files, Category!Cats
<1>2. NoOrder \in Orders /\ NoOrder.op = "none" /\ NoOrder.valid = {}
  BY DEF NoFile, NoOrder, FileRows, Orders
<1>3. CASE UNCHANGED Category!vars
  BY <1>3 DEF Category!vars, TaxTyped, FilesOK, CatsOK, OrdersOK
<1>4. CASE Category!Index
  <2>1. OrdersOK(MaxFile, MaxCat)'
    BY <1>4 DEF Category!Index, TaxTyped, OrdersOK
  <2>2. ASSUME NEW u \in Users, NEW f \in 1..MaxFile, gen < MaxGen, gen' = gen + 1,
               file' = [file EXCEPT ![f] = [NoFile EXCEPT !.owner = u, !.gen = gen', !.text = 1]],
               UNCHANGED cat
        PROVE  FilesOK(MaxFile)' /\ CatsOK(MaxFile, MaxCat)'
    <3>1. gen \in Nat
      BY DEF TaxTyped, FilesOK
    <3>2. PICK x : x = [NoFile EXCEPT !.owner = u, !.gen = gen', !.text = 1]
      OBVIOUS
    <3>3. PICK g \in Nat : g = gen' /\ g = gen + 1 /\ g <= MaxGen
      BY <1>1, <2>2, <3>1
    <3>4. x = [owner |-> u, gen |-> g, text |-> 1, sum |-> <<0, 0>>]
      BY <3>2, <3>3 DEF NoFile
    <3>5. x \in FileRows /\ x.owner \in Users /\ x.gen = g
      BY <3>4 DEF FileRows
    <3>6. x.gen \in 1..gen' /\ gen' <= MaxGen
      BY <3>1, <3>3, <3>5
    <3> QED BY <1>1, <2>2, <3>2, <3>5, <3>6, FilesChange
  <2>3. ASSUME NEW f \in 1..MaxFile, file[f].text \in 1..(MaxText - 1),
               file' = [file EXCEPT ![f].text = @ + 1], UNCHANGED <<cat, gen>>
        PROVE  FilesOK(MaxFile)' /\ CatsOK(MaxFile, MaxCat)'
    <3>1. PICK x : x = [file[f] EXCEPT !.text = @ + 1]
      OBVIOUS
    <3>2. file[f] \in FileRows /\ gen \in 0..MaxGen
      BY DEF TaxTyped, FilesOK
    <3>3. file[f] # NoFile
      BY <2>3 DEF NoFile
    <3>4. file[f].owner \in Users /\ file[f].gen \in 1..gen
      BY <3>3 DEF TaxTyped, FilesOK
    <3>5. x \in FileRows /\ x.owner \in Users /\ x.gen \in 1..gen'
      BY <2>3, <3>1, <3>2, <3>4 DEF FileRows
    <3>6. file' = [file EXCEPT ![f] = x] /\ gen' \in {gen, gen + 1} /\ gen' <= MaxGen
      BY <1>1, <2>3, <3>1, <3>2
    <3> QED BY <1>1, <2>3, <3>5, <3>6, FilesChange
  <2> QED BY <1>1, <1>4, <2>1, <2>2, <2>3 DEF Category!Index, TaxTyped
<1>5. CASE Category!Remove
  <2>1. OrdersOK(MaxFile, MaxCat)'
    BY <1>5 DEF Category!Remove, TaxTyped, OrdersOK
  <2>2. PICK f \in 1..MaxFile :
          /\ file' = [file EXCEPT ![f] = NoFile]
          /\ cat' = [c \in 1..MaxCat |-> [cat[c] EXCEPT !.files = @ \ {f}]]
    BY <1>1, <1>5 DEF Category!Remove
  <2>3. FilesOK(MaxFile)'
    <3>1. NoFile \in FileRows
      BY DEF NoFile, FileRows
    <3> QED BY <1>5, <2>2, <3>1 DEF Category!Remove, TaxTyped, FilesOK
  <2>4. CatsOK(MaxFile, MaxCat)'
    <3>1. ASSUME NEW c \in 1..MaxCat
          PROVE  /\ cat'[c] \in CatRows(MaxFile) /\ cat'[c].owner = cat[c].owner
                 /\ cat'[c].files = cat[c].files \ {f}
      BY <2>2 DEF TaxTyped, CatsOK, CatRows
    <3>2. ASSUME NEW c \in 1..MaxCat, cat[c] = NoCat PROVE cat'[c] = NoCat
      <4>1. cat'[c].owner = "none" /\ cat'[c].files = {} /\ cat'[c] \in CatRows(MaxFile)
        BY <3>1, <3>2 DEF NoCat
      <4> QED BY <4>1 DEF NoCat, CatRows
    <3>3. cat' \in [1..MaxCat -> CatRows(MaxFile)]
      BY <2>2, <3>1
    <3>4. \A c \in 1..MaxCat : \A g \in cat'[c].files : file'[g] # NoFile
      BY <2>2, <3>1 DEF TaxTyped, FilesOK, CatsOK, CatRows
    <3> QED BY <3>1, <3>2, <3>3, <3>4 DEF TaxTyped, CatsOK
  <2> QED BY <2>1, <2>3, <2>4 DEF TaxTyped
<1>6. ASSUME NEW r \in Requests, Category!propose_taxonomy(r) PROVE TaxTyped(MaxFile, MaxCat)'
  <2>1. PICK u \in Users : Category!Begin(r, [NoOrder EXCEPT !.op = "propose", !.user = u,
                              !.valid = {<<f, file[f].gen>> : f \in Category!_indexed_files(u)}])
    BY <1>1, <1>6 DEF Category!propose_taxonomy
  <2>2. PICK V : V = {<<f, file[f].gen>> : f \in Category!_indexed_files(u)}
    OBVIOUS
  <2>3. V \subseteq Nat \X Nat
    BY <1>1, <2>2 DEF Category!_indexed_files, TaxTyped, FilesOK, FileRows
  <2>4. PICK q : q = [NoOrder EXCEPT !.op = "propose", !.user = u, !.valid = V]
    OBVIOUS
  <2>5. q \in Orders /\ q.op = "propose" /\ q.user \in Users /\ q.valid \subseteq Nat \X Nat
    BY <1>2, <2>3, <2>4 DEF Orders
  <2>6. req' = [req EXCEPT ![r] = q] /\ UNCHANGED <<file, cat, gen, shown>>
    BY <1>6, <2>1, <2>2, <2>4 DEF Category!Begin, Category!propose_taxonomy
  <2> QED BY <1>1, <2>5, <2>6, Begins
<1>7. ASSUME NEW r \in Requests, Category!propose_categories(r) PROVE TaxTyped(MaxFile, MaxCat)'
  <2>1. PICK s \in Category!_parse_candidates(req[r].valid) :
          shown' = [shown EXCEPT ![req[r].user] = s]
    BY <1>7 DEF Category!propose_categories
  <2>2. req[r].valid \in SUBSET (Nat \X Nat) /\ req[r].user \in Users
    BY <1>7 DEF Category!propose_categories, TaxTyped, OrdersOK
  <2>3. s \in SUBSET SUBSET (Nat \X Nat)
    BY <2>1, <2>2 DEF Category!_parse_candidates
  <2>4. shown' \in [Users -> SUBSET SUBSET (Nat \X Nat)]
    BY <2>1, <2>2, <2>3 DEF TaxTyped, OrdersOK
  <2>5. OrdersOK(MaxFile, MaxCat)'
    BY <1>1, <1>7, <2>4, EndsOK DEF Category!propose_categories, Category!Ends
  <2> QED BY <1>7, <2>5 DEF Category!propose_categories, TaxTyped, FilesOK, CatsOK
<1>8. ASSUME NEW r \in Requests, Category!apply_taxonomy(r) PROVE TaxTyped(MaxFile, MaxCat)'
  <2>1. PICK u, q :
          /\ u \in Users
          /\ q = [NoOrder EXCEPT !.op = "apply", !.user = u,
                    !.ids = Category!CategoriesOf(u), !.want = shown[u]]
          /\ Category!Begin(r, q)
    BY <1>1, <1>8 DEF Category!apply_taxonomy
  <2>2. Category!CategoriesOf(u) \subseteq Nat /\ shown[u] \in SUBSET SUBSET (Nat \X Nat)
    BY <1>1, <2>1 DEF Category!CategoriesOf, TaxTyped, OrdersOK
  <2>3. q \in Orders /\ q.op = "apply" /\ q.user \in Users
    BY <1>2, <2>1, <2>2 DEF Orders
  <2>4. req' = [req EXCEPT ![r] = q] /\ UNCHANGED <<file, cat, gen, shown>>
    BY <1>8, <2>1 DEF Category!Begin, Category!apply_taxonomy
  <2> QED BY <1>1, <2>3, <2>4, Begins
<1>9. ASSUME NEW r \in Requests, Category!ValidFiles(r) PROVE TaxTyped(MaxFile, MaxCat)'
  <2>1. PICK q : q = [req[r] EXCEPT !.op = "insert",
                                    !.valid = Category!_indexed_files(req[r].user)]
    OBVIOUS
  <2>2. req[r] \in Orders /\ req[r].user \in Users
    BY <1>9 DEF Category!ValidFiles, TaxTyped, OrdersOK
  <2>3. Category!_indexed_files(req[r].user) \subseteq 1..MaxFile
    BY <1>1 DEF Category!_indexed_files
  <2>4. q \in Orders /\ q.op = "insert" /\ q.user \in Users /\ q.valid \subseteq 1..MaxFile
    <3>1. Category!_indexed_files(req[r].user) \in SUBSET (Nat \cup (Nat \X Nat))
      BY <1>1, <2>3
    <3> QED BY <2>1, <2>2, <2>3, <3>1 DEF Orders
  <2>5. req' = [req EXCEPT ![r] = q] /\ UNCHANGED <<file, cat, gen, shown>>
    BY <1>9, <2>1, <2>2 DEF Category!ValidFiles, TaxTyped, OrdersOK, Orders
  <2> QED BY <1>1, <2>4, <2>5, Begins
<1>10. ASSUME NEW r \in Requests, Category!apply_categories(r) PROVE TaxTyped(MaxFile, MaxCat)'
  <2>1. PICK q, W, kept, I : /\ q = req[r] /\ W = Category!Wanted(q)
                             /\ kept = Category!Kept(q) /\ I = Category!InsertIds(q)
    OBVIOUS
  <2>2. q.op \in {"apply", "insert"} /\ Category!Ends(r) /\ UNCHANGED <<file, gen, shown>>
    BY <1>10, <2>1 DEF Category!apply_categories
  <2>3. q.user \in Users /\ W \subseteq SUBSET (1..MaxFile)
    BY <1>1, <2>1, <2>2 DEF TaxTyped, OrdersOK, Category!Wanted, Category!_indexed_files
  <2>4. OrdersOK(MaxFile, MaxCat)'
    BY <1>1, <2>2, EndsOK DEF Category!Ends, TaxTyped, OrdersOK
  <2>5. CASE UNCHANGED cat
    BY <2>2, <2>4, <2>5 DEF TaxTyped, FilesOK, CatsOK
  <2>6. CASE cat' # cat
    <3>1. \A w \in W : \A f \in w : file[f] # NoFile
      BY <1>1, <1>10, <2>1, <2>6 DEF Category!apply_categories
    <3>2. PICK to \in [I -> W] :
            cat' = [c \in 1..MaxCat |->
                     IF c \in I THEN [owner |-> q.user, files |-> to[c]] ELSE kept[c]]
      BY <1>1, <1>10, <2>1, <2>6 DEF Category!apply_categories
    <3>3. \A c \in 1..MaxCat : kept[c] \in {cat[c], NoCat}
      BY <1>1, <2>1 DEF Category!Kept
    <3>4. ASSUME NEW c \in 1..MaxCat
          PROVE  \/ cat'[c] \in {cat[c], NoCat}
                 \/ \E u \in Users, w \in SUBSET (1..MaxFile) :
                      /\ cat'[c] = [owner |-> u, files |-> w]
                      /\ \A f \in w : file[f] # NoFile
      <4>1. CASE c \in I
        <5>1. to[c] \in W /\ cat'[c] = [owner |-> q.user, files |-> to[c]]
          BY <3>2, <4>1
        <5> QED BY <2>3, <3>1, <5>1
      <4>2. CASE c \notin I
        BY <3>2, <3>3, <4>2
      <4> QED BY <4>1, <4>2
    <3>5. cat' = [c \in 1..MaxCat |-> cat'[c]]
      BY <3>2
    <3>6. FilesOK(MaxFile)' /\ CatsOK(MaxFile, MaxCat)'
      BY <1>1, <2>2, <3>4, <3>5, CatsChange
    <3> QED BY <2>4, <3>6 DEF TaxTyped
  <2> QED BY <2>5, <2>6
<1>11. ASSUME NEW r \in Requests, Category!delete_taxonomy_category(r)
       PROVE  TaxTyped(MaxFile, MaxCat)'
  <2>1. PICK u, c, q :
          /\ u \in Users /\ c \in Category!Cats
          /\ q = [NoOrder EXCEPT !.op = "delete", !.user = u, !.ids = {c}] /\ Category!Begin(r, q)
    BY <1>1, <1>11 DEF Category!delete_taxonomy_category
  <2>2. q \in Orders /\ q.op = "delete" /\ q.user \in Users
    <3>1. {c} \in SUBSET Nat
      BY <1>1, <2>1
    <3> QED BY <1>2, <2>1, <3>1 DEF Orders
  <2>3. req' = [req EXCEPT ![r] = q] /\ UNCHANGED <<file, cat, gen, shown>>
    BY <1>11, <2>1 DEF Category!Begin, Category!delete_taxonomy_category
  <2> QED BY <1>1, <2>2, <2>3, Begins
<1>12. ASSUME NEW r \in Requests, Category!delete_category(r) PROVE TaxTyped(MaxFile, MaxCat)'
  <2>1. OrdersOK(MaxFile, MaxCat)'
    BY <1>1, <1>12, EndsOK DEF Category!delete_category, Category!Ends, TaxTyped, OrdersOK
  <2>2. /\ cat' = [c \in 1..MaxCat |-> cat'[c]] /\ UNCHANGED <<file, gen>>
        /\ \A c \in 1..MaxCat : cat'[c] \in {cat[c], NoCat}
    BY <1>1, <1>12 DEF Category!delete_category
  <2>3. FilesOK(MaxFile)' /\ CatsOK(MaxFile, MaxCat)'
    BY <1>1, <2>2, CatsChange
  <2> QED BY <2>1, <2>3 DEF TaxTyped
<1>13. ASSUME NEW r \in Requests, Category!summarize_file(r) PROVE TaxTyped(MaxFile, MaxCat)'
  <2>1. PICK u, f, q :
          /\ u \in Users /\ f \in 1..MaxFile
          /\ q = [NoOrder EXCEPT !.op = "summary", !.user = u, !.ids = {f}, !.copy = file[f]]
          /\ Category!Begin(r, q)
    BY <1>1, <1>13 DEF Category!summarize_file
  <2>2. file[f] \in FileRows
    BY <2>1 DEF TaxTyped, FilesOK
  <2>3. q \in Orders /\ q.op = "summary" /\ q.user \in Users /\ q.ids \subseteq 1..MaxFile
    <3>1. {f} \in SUBSET Nat
      BY <1>1, <2>1
    <3> QED BY <1>2, <2>1, <2>2, <3>1 DEF Orders
  <2>4. req' = [req EXCEPT ![r] = q] /\ UNCHANGED <<file, cat, gen, shown>>
    BY <1>13, <2>1 DEF Category!Begin, Category!summarize_file
  <2> QED BY <1>1, <2>3, <2>4, Begins
<1>14. ASSUME NEW r \in Requests, Category!SaveSummary(r) PROVE TaxTyped(MaxFile, MaxCat)'
  <2>1. OrdersOK(MaxFile, MaxCat)'
    BY <1>1, <1>14, EndsOK DEF Category!SaveSummary, Category!Ends, TaxTyped, OrdersOK
  <2>2. CASE UNCHANGED file
    BY <1>14, <2>1, <2>2 DEF Category!SaveSummary, TaxTyped, FilesOK, CatsOK
  <2>3. CASE file' # file
    <3>1. PICK f \in req[r].ids : /\ file[f] # NoFile
                                  /\ file' = [file EXCEPT ![f].sum = <<req[r].copy.gen, req[r].copy.text>>]
      BY <1>1, <1>14, <2>3 DEF Category!SaveSummary
    <3>2. f \in 1..MaxFile /\ req[r].copy \in FileRows
      BY <1>14 DEF Category!SaveSummary, TaxTyped, OrdersOK, Orders
    <3>3. PICK x : x = [file[f] EXCEPT !.sum = <<req[r].copy.gen, req[r].copy.text>>]
      OBVIOUS
    <3>4. file[f] \in FileRows /\ file[f].owner \in Users /\ file[f].gen \in 1..gen
      BY <3>1, <3>2 DEF TaxTyped, FilesOK
    <3>5. x \in FileRows /\ x.owner \in Users /\ x.gen \in 1..gen' /\ file' = [file EXCEPT ![f] = x]
      BY <1>14, <3>1, <3>2, <3>3, <3>4 DEF Category!SaveSummary, FileRows
    <3>6. gen' \in {gen, gen + 1} /\ gen' <= MaxGen /\ UNCHANGED cat
      BY <1>14 DEF Category!SaveSummary, TaxTyped, FilesOK
    <3>7. FilesOK(MaxFile)' /\ CatsOK(MaxFile, MaxCat)'
      BY <1>1, <3>2, <3>5, <3>6, FilesChange
    <3> QED BY <2>1, <3>7 DEF TaxTyped
  <2> QED BY <2>2, <2>3
<1> QED BY <1>3, <1>4, <1>5, <1>6, <1>7, <1>8, <1>9, <1>10, <1>11, <1>12, <1>13, <1>14
        DEF Category!Next

\* So do the steps of the part where requests overlap.
LEMMA CategoriesTyped ==
    ASSUME Categories!TaxonomyAssumption, TaxTyped(MaxFile - 1, MaxCat - 1),
           [Categories!Next]_(Categories!vars)
    PROVE  TaxTyped(MaxFile - 1, MaxCat - 1)'
<1>1. /\ MaxFile - 1 \in Nat /\ MaxCat - 1 \in Nat /\ MaxGen \in Nat /\ "none" \notin Users
      /\ Categories!NoFile = NoFile /\ Categories!NoCat = NoCat /\ Categories!NoReq = NoOrder
      /\ Categories!Files = 1..(MaxFile - 1) /\ Categories!Cats = 1..(MaxCat - 1)
  BY DEF Categories!TaxonomyAssumption, Categories!NoFile, Categories!NoCat, Categories!NoReq, NoFile,
         NoCat, NoOrder, Categories!None, Categories!Files, Categories!Cats
<1>2. NoOrder \in Orders /\ NoOrder.op = "none" /\ NoOrder.valid = {}
  BY DEF NoFile, NoOrder, FileRows, Orders
<1>3. CASE UNCHANGED Categories!vars
  BY <1>3 DEF Categories!vars, TaxTyped, FilesOK, CatsOK, OrdersOK
<1>4. CASE Categories!Index
  <2>1. OrdersOK(MaxFile - 1, MaxCat - 1)'
    BY <1>4 DEF Categories!Index, TaxTyped, OrdersOK
  <2>2. ASSUME NEW u \in Users, NEW f \in 1..(MaxFile - 1), gen < MaxGen, gen' = gen + 1,
               file' = [file EXCEPT ![f] = [NoFile EXCEPT !.owner = u, !.gen = gen', !.text = 1]],
               UNCHANGED cat
        PROVE  FilesOK(MaxFile - 1)' /\ CatsOK(MaxFile - 1, MaxCat - 1)'
    <3>1. gen \in Nat
      BY DEF TaxTyped, FilesOK
    <3>2. PICK x : x = [NoFile EXCEPT !.owner = u, !.gen = gen', !.text = 1]
      OBVIOUS
    <3>3. PICK g \in Nat : g = gen' /\ g = gen + 1 /\ g <= MaxGen
      BY <1>1, <2>2, <3>1
    <3>4. x = [owner |-> u, gen |-> g, text |-> 1, sum |-> <<0, 0>>]
      BY <3>2, <3>3 DEF NoFile
    <3>5. x \in FileRows /\ x.owner \in Users /\ x.gen = g
      BY <3>4 DEF FileRows
    <3>6. x.gen \in 1..gen' /\ gen' <= MaxGen
      BY <3>1, <3>3, <3>5
    <3> QED BY <1>1, <2>2, <3>2, <3>5, <3>6, FilesChange
  <2>3. ASSUME NEW f \in 1..(MaxFile - 1), file[f].text \in 1..(MaxText - 1),
               file' = [file EXCEPT ![f].text = @ + 1], UNCHANGED <<cat, gen>>
        PROVE  FilesOK(MaxFile - 1)' /\ CatsOK(MaxFile - 1, MaxCat - 1)'
    <3>1. PICK x : x = [file[f] EXCEPT !.text = @ + 1]
      OBVIOUS
    <3>2. file[f] \in FileRows /\ gen \in 0..MaxGen
      BY DEF TaxTyped, FilesOK
    <3>3. file[f] # NoFile
      BY <2>3 DEF NoFile
    <3>4. file[f].owner \in Users /\ file[f].gen \in 1..gen
      BY <3>3 DEF TaxTyped, FilesOK
    <3>5. x \in FileRows /\ x.owner \in Users /\ x.gen \in 1..gen'
      BY <2>3, <3>1, <3>2, <3>4 DEF FileRows
    <3>6. file' = [file EXCEPT ![f] = x] /\ gen' \in {gen, gen + 1} /\ gen' <= MaxGen
      BY <1>1, <2>3, <3>1, <3>2
    <3> QED BY <1>1, <2>3, <3>5, <3>6, FilesChange
  <2> QED BY <1>1, <1>4, <2>1, <2>2, <2>3 DEF Categories!Index, TaxTyped
<1>5. CASE Categories!Remove
  <2>1. OrdersOK(MaxFile - 1, MaxCat - 1)'
    BY <1>5 DEF Categories!Remove, TaxTyped, OrdersOK
  <2>2. PICK f \in 1..(MaxFile - 1) :
          /\ file' = [file EXCEPT ![f] = NoFile]
          /\ cat' = [c \in 1..(MaxCat - 1) |-> [cat[c] EXCEPT !.files = @ \ {f}]]
    BY <1>1, <1>5 DEF Categories!Remove
  <2>3. FilesOK(MaxFile - 1)'
    <3>1. NoFile \in FileRows
      BY DEF NoFile, FileRows
    <3> QED BY <1>5, <2>2, <3>1 DEF Categories!Remove, TaxTyped, FilesOK
  <2>4. CatsOK(MaxFile - 1, MaxCat - 1)'
    <3>1. ASSUME NEW c \in 1..(MaxCat - 1)
          PROVE  /\ cat'[c] \in CatRows(MaxFile - 1) /\ cat'[c].owner = cat[c].owner
                 /\ cat'[c].files = cat[c].files \ {f}
      BY <2>2 DEF TaxTyped, CatsOK, CatRows
    <3>2. ASSUME NEW c \in 1..(MaxCat - 1), cat[c] = NoCat PROVE cat'[c] = NoCat
      <4>1. cat'[c].owner = "none" /\ cat'[c].files = {} /\ cat'[c] \in CatRows(MaxFile - 1)
        BY <3>1, <3>2 DEF NoCat
      <4> QED BY <4>1 DEF NoCat, CatRows
    <3>3. cat' \in [1..(MaxCat - 1) -> CatRows(MaxFile - 1)]
      BY <2>2, <3>1
    <3>4. \A c \in 1..(MaxCat - 1) : \A g \in cat'[c].files : file'[g] # NoFile
      BY <2>2, <3>1 DEF TaxTyped, FilesOK, CatsOK, CatRows
    <3> QED BY <3>1, <3>2, <3>3, <3>4 DEF TaxTyped, CatsOK
  <2> QED BY <2>1, <2>3, <2>4 DEF TaxTyped
<1>6. ASSUME NEW r \in Requests, Categories!propose_taxonomy(r) PROVE TaxTyped(MaxFile - 1, MaxCat - 1)'
  <2>1. PICK u \in Users : Categories!Begin(r, [NoOrder EXCEPT !.op = "propose", !.user = u,
                              !.valid = {<<f, file[f].gen>> : f \in Categories!_indexed_files(u)}])
    BY <1>1, <1>6 DEF Categories!propose_taxonomy
  <2>2. PICK V : V = {<<f, file[f].gen>> : f \in Categories!_indexed_files(u)}
    OBVIOUS
  <2>3. V \subseteq Nat \X Nat
    BY <1>1, <2>2 DEF Categories!_indexed_files, TaxTyped, FilesOK, FileRows
  <2>4. PICK q : q = [NoOrder EXCEPT !.op = "propose", !.user = u, !.valid = V]
    OBVIOUS
  <2>5. q \in Orders /\ q.op = "propose" /\ q.user \in Users /\ q.valid \subseteq Nat \X Nat
    BY <1>2, <2>3, <2>4 DEF Orders
  <2>6. req' = [req EXCEPT ![r] = q] /\ UNCHANGED <<file, cat, gen, shown>>
    BY <1>6, <2>1, <2>2, <2>4 DEF Categories!Begin, Categories!propose_taxonomy
  <2> QED BY <1>1, <2>5, <2>6, Begins
<1>7. ASSUME NEW r \in Requests, Categories!propose_categories(r) PROVE TaxTyped(MaxFile - 1, MaxCat - 1)'
  <2>1. PICK s \in Categories!_parse_candidates(req[r].valid) :
          shown' = [shown EXCEPT ![req[r].user] = s]
    BY <1>7 DEF Categories!propose_categories
  <2>2. req[r].valid \in SUBSET (Nat \X Nat) /\ req[r].user \in Users
    BY <1>7 DEF Categories!propose_categories, TaxTyped, OrdersOK
  <2>3. s \in SUBSET SUBSET (Nat \X Nat)
    BY <2>1, <2>2 DEF Categories!_parse_candidates
  <2>4. shown' \in [Users -> SUBSET SUBSET (Nat \X Nat)]
    BY <2>1, <2>2, <2>3 DEF TaxTyped, OrdersOK
  <2>5. OrdersOK(MaxFile - 1, MaxCat - 1)'
    BY <1>1, <1>7, <2>4, EndsOK DEF Categories!propose_categories, Categories!Ends
  <2> QED BY <1>7, <2>5 DEF Categories!propose_categories, TaxTyped, FilesOK, CatsOK
<1>8. ASSUME NEW r \in Requests, Categories!apply_taxonomy(r) PROVE TaxTyped(MaxFile - 1, MaxCat - 1)'
  <2>1. PICK u, q :
          /\ u \in Users
          /\ q = [NoOrder EXCEPT !.op = "apply", !.user = u,
                    !.ids = Categories!CategoriesOf(u), !.want = shown[u]]
          /\ Categories!Begin(r, q)
    BY <1>1, <1>8 DEF Categories!apply_taxonomy
  <2>2. Categories!CategoriesOf(u) \subseteq Nat /\ shown[u] \in SUBSET SUBSET (Nat \X Nat)
    BY <1>1, <2>1 DEF Categories!CategoriesOf, TaxTyped, OrdersOK
  <2>3. q \in Orders /\ q.op = "apply" /\ q.user \in Users
    BY <1>2, <2>1, <2>2 DEF Orders
  <2>4. req' = [req EXCEPT ![r] = q] /\ UNCHANGED <<file, cat, gen, shown>>
    BY <1>8, <2>1 DEF Categories!Begin, Categories!apply_taxonomy
  <2> QED BY <1>1, <2>3, <2>4, Begins
<1>9. ASSUME NEW r \in Requests, Categories!ValidFiles(r) PROVE TaxTyped(MaxFile - 1, MaxCat - 1)'
  <2>1. PICK q : q = [req[r] EXCEPT !.op = "insert",
                                    !.valid = Categories!_indexed_files(req[r].user)]
    OBVIOUS
  <2>2. req[r] \in Orders /\ req[r].user \in Users
    BY <1>9 DEF Categories!ValidFiles, TaxTyped, OrdersOK
  <2>3. Categories!_indexed_files(req[r].user) \subseteq 1..(MaxFile - 1)
    BY <1>1 DEF Categories!_indexed_files
  <2>4. q \in Orders /\ q.op = "insert" /\ q.user \in Users /\ q.valid \subseteq 1..(MaxFile - 1)
    <3>1. Categories!_indexed_files(req[r].user) \in SUBSET (Nat \cup (Nat \X Nat))
      BY <1>1, <2>3
    <3> QED BY <2>1, <2>2, <2>3, <3>1 DEF Orders
  <2>5. req' = [req EXCEPT ![r] = q] /\ UNCHANGED <<file, cat, gen, shown>>
    BY <1>9, <2>1, <2>2 DEF Categories!ValidFiles, TaxTyped, OrdersOK, Orders
  <2> QED BY <1>1, <2>4, <2>5, Begins
<1>10. ASSUME NEW r \in Requests, Categories!apply_categories(r) PROVE TaxTyped(MaxFile - 1, MaxCat - 1)'
  <2>1. PICK q, W, kept, I : /\ q = req[r] /\ W = Categories!Wanted(q)
                             /\ kept = Categories!Kept(q) /\ I = Categories!InsertIds(q)
    OBVIOUS
  <2>2. q.op \in {"apply", "insert"} /\ Categories!Ends(r) /\ UNCHANGED <<file, gen, shown>>
    BY <1>10, <2>1 DEF Categories!apply_categories
  <2>3. q.user \in Users /\ W \subseteq SUBSET (1..(MaxFile - 1))
    BY <1>1, <2>1, <2>2 DEF TaxTyped, OrdersOK, Categories!Wanted, Categories!_indexed_files
  <2>4. OrdersOK(MaxFile - 1, MaxCat - 1)'
    BY <1>1, <2>2, EndsOK DEF Categories!Ends, TaxTyped, OrdersOK
  <2>5. CASE UNCHANGED cat
    BY <2>2, <2>4, <2>5 DEF TaxTyped, FilesOK, CatsOK
  <2>6. CASE cat' # cat
    <3>1. \A w \in W : \A f \in w : file[f] # NoFile
      BY <1>1, <1>10, <2>1, <2>6 DEF Categories!apply_categories
    <3>2. PICK to \in [I -> W] :
            cat' = [c \in 1..(MaxCat - 1) |->
                     IF c \in I THEN [owner |-> q.user, files |-> to[c]] ELSE kept[c]]
      BY <1>1, <1>10, <2>1, <2>6 DEF Categories!apply_categories
    <3>3. \A c \in 1..(MaxCat - 1) : kept[c] \in {cat[c], NoCat}
      BY <1>1, <2>1 DEF Categories!Kept
    <3>4. ASSUME NEW c \in 1..(MaxCat - 1)
          PROVE  \/ cat'[c] \in {cat[c], NoCat}
                 \/ \E u \in Users, w \in SUBSET (1..(MaxFile - 1)) :
                      /\ cat'[c] = [owner |-> u, files |-> w]
                      /\ \A f \in w : file[f] # NoFile
      <4>1. CASE c \in I
        <5>1. to[c] \in W /\ cat'[c] = [owner |-> q.user, files |-> to[c]]
          BY <3>2, <4>1
        <5> QED BY <2>3, <3>1, <5>1
      <4>2. CASE c \notin I
        BY <3>2, <3>3, <4>2
      <4> QED BY <4>1, <4>2
    <3>5. cat' = [c \in 1..(MaxCat - 1) |-> cat'[c]]
      BY <3>2
    <3>6. FilesOK(MaxFile - 1)' /\ CatsOK(MaxFile - 1, MaxCat - 1)'
      BY <1>1, <2>2, <3>4, <3>5, CatsChange
    <3> QED BY <2>4, <3>6 DEF TaxTyped
  <2> QED BY <2>5, <2>6
<1>11. ASSUME NEW r \in Requests, Categories!delete_taxonomy_category(r)
       PROVE  TaxTyped(MaxFile - 1, MaxCat - 1)'
  <2>1. PICK u, c, q :
          /\ u \in Users /\ c \in Categories!Cats
          /\ q = [NoOrder EXCEPT !.op = "delete", !.user = u, !.ids = {c}] /\ Categories!Begin(r, q)
    BY <1>1, <1>11 DEF Categories!delete_taxonomy_category
  <2>2. q \in Orders /\ q.op = "delete" /\ q.user \in Users
    <3>1. {c} \in SUBSET Nat
      BY <1>1, <2>1
    <3> QED BY <1>2, <2>1, <3>1 DEF Orders
  <2>3. req' = [req EXCEPT ![r] = q] /\ UNCHANGED <<file, cat, gen, shown>>
    BY <1>11, <2>1 DEF Categories!Begin, Categories!delete_taxonomy_category
  <2> QED BY <1>1, <2>2, <2>3, Begins
<1>12. ASSUME NEW r \in Requests, Categories!delete_category(r) PROVE TaxTyped(MaxFile - 1, MaxCat - 1)'
  <2>1. OrdersOK(MaxFile - 1, MaxCat - 1)'
    BY <1>1, <1>12, EndsOK DEF Categories!delete_category, Categories!Ends, TaxTyped, OrdersOK
  <2>2. /\ cat' = [c \in 1..(MaxCat - 1) |-> cat'[c]] /\ UNCHANGED <<file, gen>>
        /\ \A c \in 1..(MaxCat - 1) : cat'[c] \in {cat[c], NoCat}
    BY <1>1, <1>12 DEF Categories!delete_category
  <2>3. FilesOK(MaxFile - 1)' /\ CatsOK(MaxFile - 1, MaxCat - 1)'
    BY <1>1, <2>2, CatsChange
  <2> QED BY <2>1, <2>3 DEF TaxTyped
<1>13. ASSUME NEW r \in Requests, Categories!summarize_file(r) PROVE TaxTyped(MaxFile - 1, MaxCat - 1)'
  <2>1. PICK u, f, q :
          /\ u \in Users /\ f \in 1..(MaxFile - 1)
          /\ q = [NoOrder EXCEPT !.op = "summary", !.user = u, !.ids = {f}, !.copy = file[f]]
          /\ Categories!Begin(r, q)
    BY <1>1, <1>13 DEF Categories!summarize_file
  <2>2. file[f] \in FileRows
    BY <2>1 DEF TaxTyped, FilesOK
  <2>3. q \in Orders /\ q.op = "summary" /\ q.user \in Users /\ q.ids \subseteq 1..(MaxFile - 1)
    <3>1. {f} \in SUBSET Nat
      BY <1>1, <2>1
    <3> QED BY <1>2, <2>1, <2>2, <3>1 DEF Orders
  <2>4. req' = [req EXCEPT ![r] = q] /\ UNCHANGED <<file, cat, gen, shown>>
    BY <1>13, <2>1 DEF Categories!Begin, Categories!summarize_file
  <2> QED BY <1>1, <2>3, <2>4, Begins
<1>14. ASSUME NEW r \in Requests, Categories!SaveSummary(r) PROVE TaxTyped(MaxFile - 1, MaxCat - 1)'
  <2>1. OrdersOK(MaxFile - 1, MaxCat - 1)'
    BY <1>1, <1>14, EndsOK DEF Categories!SaveSummary, Categories!Ends, TaxTyped, OrdersOK
  <2>2. CASE UNCHANGED file
    BY <1>14, <2>1, <2>2 DEF Categories!SaveSummary, TaxTyped, FilesOK, CatsOK
  <2>3. CASE file' # file
    <3>1. PICK f \in req[r].ids : /\ file[f] # NoFile
                                  /\ file' = [file EXCEPT ![f].sum = <<req[r].copy.gen, req[r].copy.text>>]
      BY <1>1, <1>14, <2>3 DEF Categories!SaveSummary
    <3>2. f \in 1..(MaxFile - 1) /\ req[r].copy \in FileRows
      BY <1>14 DEF Categories!SaveSummary, TaxTyped, OrdersOK, Orders
    <3>3. PICK x : x = [file[f] EXCEPT !.sum = <<req[r].copy.gen, req[r].copy.text>>]
      OBVIOUS
    <3>4. file[f] \in FileRows /\ file[f].owner \in Users /\ file[f].gen \in 1..gen
      BY <3>1, <3>2 DEF TaxTyped, FilesOK
    <3>5. x \in FileRows /\ x.owner \in Users /\ x.gen \in 1..gen' /\ file' = [file EXCEPT ![f] = x]
      BY <1>14, <3>1, <3>2, <3>3, <3>4 DEF Categories!SaveSummary, FileRows
    <3>6. gen' \in {gen, gen + 1} /\ gen' <= MaxGen /\ UNCHANGED cat
      BY <1>14 DEF Categories!SaveSummary, TaxTyped, FilesOK
    <3>7. FilesOK(MaxFile - 1)' /\ CatsOK(MaxFile - 1, MaxCat - 1)'
      BY <1>1, <3>2, <3>5, <3>6, FilesChange
    <3> QED BY <2>1, <3>7 DEF TaxTyped
  <2> QED BY <2>2, <2>3
<1> QED BY <1>3, <1>4, <1>5, <1>6, <1>7, <1>8, <1>9, <1>10, <1>11, <1>12, <1>13, <1>14
        DEF Categories!Next

\* New ids follow the largest in use, and are as many as asked for.
LEMMA NewIdsApart ==
    ASSUME NEW m \in Nat, NEW S \in SUBSET (1..m), NEW k \in Nat
    PROVE  /\ Category!NewIds(S, k) \cap S = {}
           /\ IsFiniteSet(Category!NewIds(S, k)) /\ Cardinality(Category!NewIds(S, k)) = k
<1>1. PICK T : T = {0} \cup S
  OBVIOUS
<1>2. T \in SUBSET (0..m) /\ T # {}
  BY <1>1
<1>3. Category!Max(T) = Index!Max(T)
  BY DEF Category!Max, Index!Max
<1>4. PICK b \in Nat : b = Category!Max(T) /\ \A y \in T : y <= b
  BY <1>2, <1>3, Index!MaxOfBounded
<1>5. Category!NewIds(S, k) = (b + 1)..(b + k)
  BY <1>1, <1>4 DEF Category!NewIds
<1>6. ASSUME NEW y \in S PROVE y \notin (b + 1)..(b + k)
  <2>1. y <= b /\ y \in Nat
    BY <1>1, <1>4
  <2> QED BY <1>4, <2>1
<1>7. IsFiniteSet((b + 1)..(b + k)) /\ Cardinality((b + 1)..(b + k)) = k
  <2>1. b + 1 \in Int /\ b + k \in Int
    BY <1>4
  <2>2. /\ IsFiniteSet((b + 1)..(b + k))
        /\ Cardinality((b + 1)..(b + k)) = IF b + 1 > b + k THEN 0 ELSE b + k - (b + 1) + 1
    BY <2>1, FS_Interval
  <2> QED BY <1>4, <2>2
<1> QED BY <1>5, <1>6, <1>7

\* One request at a time: a request works on what it has read.
CategorySerial ==
    /\ \A r, s \in Requests : req[r].op # "none" /\ req[s].op # "none" => r = s
    /\ \A r \in Requests : req[r].op \in {"apply", "insert"} =>
          req[r].ids = {c \in 1..MaxCat : cat[c].owner = req[r].user}
    /\ \A r \in Requests : req[r].op = "delete" =>
          \A c \in req[r].ids : c \in 1..MaxCat /\ cat[c].owner = req[r].user
    /\ \A r \in Requests : req[r].op = "summary" => \A f \in req[r].ids : req[r].copy = file[f]
    /\ \A f \in 1..MaxFile : file[f].sum[1] \in {0, file[f].gen}
    /\ \A r \in Requests : IsFiniteSet(req[r].want)
    /\ \A u \in Users : IsFiniteSet(shown[u])

\* No request is under way in the beginning.
LEMMA CategorySerialInit ==
    ASSUME Category!Init
    PROVE  CategorySerial
<1>1. /\ req = [r \in Requests |-> NoOrder] /\ file = [f \in 1..MaxFile |-> NoFile]
      /\ shown = [u \in Users |-> {}]
  BY DEF Category!Init, Category!NoReq, NoOrder, Category!NoFile, NoFile, Category!None,
         Category!Files
<1>2. NoOrder.op = "none" /\ NoOrder.want = {} /\ NoFile.sum[1] = 0
  BY DEF NoOrder, NoFile
<1> QED BY <1>1, <1>2, FS_EmptySet DEF CategorySerial

\* A request begins when there is no other.
LEMMA SerialBegins ==
    ASSUME TaxTyped(MaxFile, MaxCat), CategorySerial, NEW r \in Requests, NEW q \in Orders,
           Category!Begin(r, q), UNCHANGED <<file, cat, gen, shown>>, IsFiniteSet(q.want),
           q.op \in {"apply", "insert"} => q.ids = {c \in 1..MaxCat : cat[c].owner = q.user},
           q.op = "delete" => \A c \in q.ids : c \in 1..MaxCat /\ cat[c].owner = q.user,
           q.op = "summary" => \A f \in q.ids : q.copy = file[f]
    PROVE  CategorySerial'
<1>1. \A s \in Requests : req[s] = NoOrder
  BY DEF Category!Begin, Category!Free, Category!Quiet, Category!NoReq, Category!None,
         Category!NoFile, NoFile, NoOrder
<1>2. req' = [req EXCEPT ![r] = q] /\ req \in [Requests -> Orders]
  BY DEF Category!Begin, TaxTyped, OrdersOK
<1>3. req'[r] = q /\ \A s \in Requests \ {r} : req'[s] = NoOrder
  BY <1>1, <1>2
<1>4. NoOrder.op = "none" /\ NoOrder.want = {}
  BY DEF NoOrder
<1>5. \A s \in Requests : IsFiniteSet(req'[s].want)
  BY <1>3, <1>4, FS_EmptySet
<1> QED BY <1>3, <1>4, <1>5 DEF CategorySerial

\* When nobody is there, or the only one ends, nothing is read any more.
LEMMA SerialEnds ==
    ASSUME CategorySerial, \A s \in Requests : req'[s] = NoOrder,
           \A f \in 1..MaxFile : file'[f].sum[1] \in {0, file'[f].gen},
           \A u \in Users : IsFiniteSet(shown'[u])
    PROVE  CategorySerial'
<1>1. NoOrder.op = "none" /\ NoOrder.want = {}
  BY DEF NoOrder
<1>2. \A s \in Requests : IsFiniteSet(req'[s].want)
  BY <1>1, FS_EmptySet
<1> QED BY <1>1, <1>2 DEF CategorySerial

\* The request that takes a step was the only one under way.
LEMMA OnlyOne ==
    ASSUME TaxTyped(MaxFile, MaxCat), CategorySerial, NEW r \in Requests, req[r].op # "none",
           Category!Ends(r)
    PROVE  \A s \in Requests : req'[s] = NoOrder
<1>1. req' = [req EXCEPT ![r] = NoOrder] /\ req \in [Requests -> Orders]
  BY DEF Category!Ends, TaxTyped, OrdersOK, Category!NoReq, Category!None, Category!NoFile,
         NoFile, NoOrder
<1>2. \A s \in Requests \ {r} : req[s] = NoOrder
  BY DEF TaxTyped, OrdersOK, CategorySerial
<1> QED BY <1>1, <1>2

\* One request at a time, its copies stay true.
LEMMA CategorySerialStep ==
    ASSUME Category!TaxonomyAssumption, TaxTyped(MaxFile, MaxCat), CategorySerial,
           [Category!Next]_(Category!vars)
    PROVE  CategorySerial'
<1>1. /\ MaxFile \in Nat /\ MaxCat \in Nat /\ "none" \notin Users
      /\ Category!NoFile = NoFile /\ Category!NoCat = NoCat /\ Category!NoReq = NoOrder
      /\ Category!Files = 1..MaxFile /\ Category!Cats = 1..MaxCat
  BY DEF Category!TaxonomyAssumption, Category!NoFile, Category!NoCat, Category!NoReq, NoFile,
         NoCat, NoOrder, Category!None, Category!Files, Category!Cats
<1>2. NoOrder \in Orders /\ NoOrder.op = "none" /\ NoOrder.want = {} /\ NoFile.sum[1] = 0
  BY DEF NoFile, NoOrder, FileRows, Orders
<1>3. /\ file \in [1..MaxFile -> FileRows] /\ req \in [Requests -> Orders]
      /\ \A f \in 1..MaxFile : file[f].sum[1] \in {0, file[f].gen}
      /\ \A u \in Users : IsFiniteSet(shown[u])
  BY DEF TaxTyped, FilesOK, OrdersOK, CategorySerial
<1>4. CASE UNCHANGED Category!vars
  BY <1>4 DEF Category!vars, CategorySerial
<1>5. CASE Category!Index
  <2>1. (\A s \in Requests : req'[s] = NoOrder) /\ UNCHANGED shown
    BY <1>1, <1>5 DEF Category!Index, Category!Quiet
  <2>2. \A f \in 1..MaxFile : file'[f].sum[1] \in {0, file'[f].gen}
    <3>1. CASE \E u \in Users, f \in 1..MaxFile :
                 file' = [file EXCEPT ![f] = [NoFile EXCEPT !.owner = u, !.gen = gen', !.text = 1]]
      <4>1. PICK u, f, x :
              /\ u \in Users /\ f \in 1..MaxFile
              /\ file' = [file EXCEPT ![f] = x]
              /\ x = [NoFile EXCEPT !.owner = u, !.gen = gen', !.text = 1]
        BY <3>1
      <4>2. x.sum[1] = 0
        BY <4>1 DEF NoFile
      <4> QED BY <1>3, <4>1, <4>2
    <3>2. CASE \E f \in 1..MaxFile : file' = [file EXCEPT ![f].text = @ + 1]
      BY <1>3, <3>2 DEF FileRows
    <3> QED BY <1>1, <1>5, <3>1, <3>2 DEF Category!Index
  <2> QED BY <1>3, <2>1, <2>2, SerialEnds
<1>6. CASE Category!Remove
  <2>1. (\A s \in Requests : req'[s] = NoOrder) /\ UNCHANGED shown
    BY <1>1, <1>6 DEF Category!Remove, Category!Quiet
  <2>2. \A f \in 1..MaxFile : file'[f].sum[1] \in {0, file'[f].gen}
    BY <1>1, <1>2, <1>3, <1>6 DEF Category!Remove
  <2> QED BY <1>3, <2>1, <2>2, SerialEnds
<1>7. ASSUME NEW r \in Requests, Category!propose_taxonomy(r) PROVE CategorySerial'
  <2>1. PICK u, V, q :
          /\ u \in Users
          /\ q = [NoOrder EXCEPT !.op = "propose", !.user = u, !.valid = V]
          /\ V = {<<f, file[f].gen>> : f \in Category!_indexed_files(u)}
          /\ Category!Begin(r, q)
    BY <1>1, <1>7 DEF Category!propose_taxonomy
  <2>2. V \in SUBSET (Nat \cup (Nat \X Nat))
    BY <1>1, <1>3, <2>1 DEF Category!_indexed_files, FileRows
  <2>3. q \in Orders /\ q.op = "propose" /\ q.want = {}
    BY <1>2, <2>1, <2>2 DEF Orders
  <2> QED BY <1>7, <2>1, <2>3, SerialBegins, FS_EmptySet DEF Category!propose_taxonomy
<1>8. ASSUME NEW r \in Requests, Category!propose_categories(r) PROVE CategorySerial'
  <2>1. PICK s \in Category!_parse_candidates(req[r].valid) :
          shown' = [shown EXCEPT ![req[r].user] = s]
    BY <1>8 DEF Category!propose_categories
  <2>2. IsFiniteSet(s)
    <3>1. CASE s = {}
      BY <3>1, FS_EmptySet
    <3>2. CASE s = {req[r].valid}
      BY <3>2, FS_Singleton
    <3>3. CASE \E f \in req[r].valid : s = {{f}, {}}
      <4>1. PICK f : s = {{f}, {}}
        BY <3>3
      <4>2. s = {{f}} \cup {{}}
        BY <4>1
      <4> QED BY <4>2, FS_Singleton, FS_Union
    <3> QED BY <2>1, <3>1, <3>2, <3>3 DEF Category!_parse_candidates
  <2>3. \A u \in Users : IsFiniteSet(shown'[u])
    BY <1>3, <2>1, <2>2 DEF TaxTyped, OrdersOK
  <2>4. \A t \in Requests : req'[t] = NoOrder
    BY <1>8, OnlyOne DEF Category!propose_categories
  <2> QED BY <1>3, <1>8, <2>3, <2>4, SerialEnds DEF Category!propose_categories
<1>9. ASSUME NEW r \in Requests, Category!apply_taxonomy(r) PROVE CategorySerial'
  <2>1. PICK u, q :
          /\ u \in Users
          /\ q = [NoOrder EXCEPT !.op = "apply", !.user = u,
                    !.ids = Category!CategoriesOf(u), !.want = shown[u]]
          /\ Category!Begin(r, q)
    BY <1>1, <1>9 DEF Category!apply_taxonomy
  <2>2. Category!CategoriesOf(u) \subseteq Nat /\ shown[u] \in SUBSET SUBSET (Nat \X Nat)
    BY <1>1, <2>1 DEF Category!CategoriesOf, TaxTyped, OrdersOK
  <2>3. /\ q \in Orders /\ q.op = "apply" /\ q.user = u /\ q.want = shown[u]
        /\ q.ids = {c \in 1..MaxCat : cat[c].owner = u}
    BY <1>1, <1>2, <2>1, <2>2 DEF Orders, Category!CategoriesOf
  <2> QED BY <1>3, <1>9, <2>1, <2>3, SerialBegins DEF Category!apply_taxonomy
<1>10. ASSUME NEW r \in Requests, Category!ValidFiles(r) PROVE CategorySerial'
  <2>1. req[r] \in Orders /\ req[r].op = "apply"
    BY <1>3, <1>10 DEF Category!ValidFiles
  <2>2. /\ req'[r].op = "insert" /\ req'[r].ids = req[r].ids /\ req'[r].user = req[r].user
        /\ req'[r].want = req[r].want /\ \A s \in Requests \ {r} : req'[s] = req[s]
        /\ UNCHANGED <<file, cat, shown>>
    BY <1>3, <1>10, <2>1 DEF Category!ValidFiles, Orders
  <2> QED BY <2>1, <2>2 DEF CategorySerial
<1>11. ASSUME NEW r \in Requests, Category!apply_categories(r) \/ Category!delete_category(r)
       PROVE  CategorySerial'
  <2>1. req[r].op # "none" /\ Category!Ends(r) /\ UNCHANGED <<file, shown>>
    BY <1>11 DEF Category!apply_categories, Category!delete_category
  <2> QED BY <1>3, <2>1, OnlyOne, SerialEnds
<1>12. ASSUME NEW r \in Requests, Category!delete_taxonomy_category(r) PROVE CategorySerial'
  <2>1. PICK u, c, q :
          /\ u \in Users /\ c \in 1..MaxCat
          /\ q = [NoOrder EXCEPT !.op = "delete", !.user = u, !.ids = {c}] /\ Category!Begin(r, q)
          /\ cat[c].owner = u
    BY <1>1, <1>12 DEF Category!delete_taxonomy_category
  <2>2. {c} \in SUBSET Nat
    BY <1>1, <2>1
  <2>3. q \in Orders /\ q.op = "delete" /\ q.user = u /\ q.ids = {c} /\ q.want = {}
    BY <1>2, <2>1, <2>2 DEF Orders
  <2> QED BY <1>12, <2>1, <2>3, SerialBegins, FS_EmptySet DEF Category!delete_taxonomy_category
<1>13. ASSUME NEW r \in Requests, Category!summarize_file(r) PROVE CategorySerial'
  <2>1. PICK u, f, q :
          /\ u \in Users /\ f \in 1..MaxFile
          /\ q = [NoOrder EXCEPT !.op = "summary", !.user = u, !.ids = {f}, !.copy = file[f]]
          /\ Category!Begin(r, q)
    BY <1>1, <1>13 DEF Category!summarize_file
  <2>2. {f} \in SUBSET Nat /\ file[f] \in FileRows
    BY <1>1, <1>3, <2>1
  <2>3. q \in Orders /\ q.op = "summary" /\ q.copy = file[f] /\ q.ids = {f} /\ q.want = {}
    BY <1>2, <2>1, <2>2 DEF Orders
  <2> QED BY <1>13, <2>1, <2>3, SerialBegins, FS_EmptySet DEF Category!summarize_file
<1>14. ASSUME NEW r \in Requests, Category!SaveSummary(r) PROVE CategorySerial'
  <2>1. req[r].op = "summary" /\ Category!Ends(r) /\ UNCHANGED shown
    BY <1>14 DEF Category!SaveSummary
  <2>2. \A f \in 1..MaxFile : file'[f].sum[1] \in {0, file'[f].gen}
    <3>1. CASE UNCHANGED file
      BY <1>3, <3>1
    <3>2. CASE file' # file
      <4>1. PICK f \in req[r].ids :
              file' = [file EXCEPT ![f].sum = <<req[r].copy.gen, req[r].copy.text>>]
        BY <1>14, <3>2 DEF Category!SaveSummary
      <4>2. f \in 1..MaxFile /\ req[r].copy = file[f] /\ file[f] \in FileRows
        BY <1>3, <2>1, <4>1 DEF TaxTyped, OrdersOK, CategorySerial
      <4>3. file'[f].sum[1] = file[f].gen /\ file'[f].gen = file[f].gen
        BY <1>3, <4>1, <4>2 DEF FileRows
      <4>4. \A g \in 1..MaxFile \ {f} : file'[g] = file[g]
        BY <1>3, <4>1, <4>2
      <4> QED BY <1>3, <4>3, <4>4
    <3> QED BY <3>1, <3>2
  <2> QED BY <1>3, <2>1, <2>2, OnlyOne, SerialEnds
<1> QED BY <1>4, <1>5, <1>6, <1>7, <1>8, <1>9, <1>10, <1>11, <1>12, <1>13, <1>14
        DEF Category!Next

\* The instance counts as everybody does.
LEMMA SameCardinality ==
    ASSUME NEW S
    PROVE  Category!Cardinality(S) = Cardinality(S)
BY DEF Category!Cardinality, Cardinality

\* A request brings no more categories than it was given.
LEMMA WantedBound ==
    ASSUME NEW q, IsFiniteSet(q.want)
    PROVE  /\ IsFiniteSet(Category!Wanted(q))
           /\ Cardinality(Category!Wanted(q)) <= Cardinality(q.want)
<1>1. PICK V : V = IF q.op = "insert" THEN q.valid ELSE Category!_indexed_files(q.user)
  OBVIOUS
<1>2. Category!Wanted(q) = {{x[1] : x \in s} \cap V : s \in q.want}
  BY <1>1 DEF Category!Wanted
<1>3. PICK g : g = [s \in q.want |-> {x[1] : x \in s} \cap V]
  OBVIOUS
<1>4. g \in Surjection(q.want, Category!Wanted(q))
  BY <1>2, <1>3 DEF Surjection
<1> QED BY <1>4, FS_Surjection

\* While a request is under way nobody else changes a category.
LEMMA CategoryChanges ==
    ASSUME Category!TaxonomyAssumption, TaxTyped(MaxFile, MaxCat), CategorySerial,
           [Category!Next]_(Category!vars), NEW r \in Requests, req[r] # NoOrder, cat' # cat
    PROVE  Category!apply_categories(r) \/ Category!delete_category(r)
<1>1. Category!NoReq = NoOrder
  BY DEF Category!NoReq, Category!None, Category!NoFile, NoFile, NoOrder
<1>2. \A s \in Requests : req[s].op # "none" => s = r
  BY DEF CategorySerial, TaxTyped, OrdersOK
<1>3. ~ UNCHANGED Category!vars
  BY DEF Category!vars
<1>4. ~ Category!Index /\ ~ Category!Remove
  BY <1>1 DEF Category!Index, Category!Remove, Category!Quiet
<1>5. PICK s \in Requests : Category!apply_categories(s) \/ Category!delete_category(s)
  BY <1>3, <1>4 DEF Category!Next, Category!propose_taxonomy, Category!propose_categories,
     Category!apply_taxonomy, Category!ValidFiles, Category!delete_taxonomy_category,
     Category!summarize_file, Category!SaveSummary
<1>6. req[s].op # "none"
  BY <1>5 DEF Category!apply_categories, Category!delete_category
<1> QED BY <1>2, <1>5, <1>6

\* The new categories take ids that no category has that stays.
LEMMA InsertIdsApart ==
    ASSUME MaxCat \in Nat, NEW q, IsFiniteSet(q.want)
    PROVE  /\ \A c \in Category!InsertIds(q) \cap (1..MaxCat) : Category!Kept(q)[c] = NoCat
           /\ IsFiniteSet(Category!InsertIds(q))
           /\ Cardinality(Category!InsertIds(q)) <= Cardinality(q.want)
<1>1. PICK S : S = {c \in Category!Cats : Category!Kept(q)[c] # Category!NoCat}
  OBVIOUS
<1>2. PICK k : k = Cardinality(Category!Wanted(q))
  OBVIOUS
<1>3. Category!InsertIds(q) = Category!NewIds(S, k)
  <2>1. Category!Cardinality(Category!Wanted(q)) = k
    BY <1>2, SameCardinality
  <2> QED BY <1>1, <2>1 DEF Category!InsertIds
<1>4. k \in Nat /\ k <= Cardinality(q.want)
  BY <1>2, WantedBound, FS_CardinalityType
<1>5. S \in SUBSET (1..MaxCat)
  BY <1>1 DEF Category!Cats
<1>6. /\ Category!NewIds(S, k) \cap S = {}
      /\ IsFiniteSet(Category!NewIds(S, k)) /\ Cardinality(Category!NewIds(S, k)) = k
  BY <1>4, <1>5, NewIdsApart
<1>7. Category!NoCat = NoCat /\ Category!Cats = 1..MaxCat
  BY DEF Category!NoCat, NoCat, Category!None, Category!Cats
<1> QED BY <1>1, <1>3, <1>4, <1>6, <1>7

\* Applying replaces, and a request touches its user's categories alone.
LEMMA CategoryKeeps ==
    ASSUME Category!TaxonomyAssumption, TaxTyped(MaxFile, MaxCat), CategorySerial,
           [Category!Next]_(Category!vars)
    PROVE  Category!Replaced /\ Category!OwnerScope
<1>1. /\ MaxCat \in Nat /\ "none" \notin Users /\ Category!NoCat = NoCat
      /\ Category!NoReq = NoOrder /\ Category!Cats = 1..MaxCat /\ Category!NoFile = NoFile
  BY DEF Category!TaxonomyAssumption, Category!NoCat, Category!NoReq, NoCat, NoOrder, NoFile,
         Category!None, Category!Cats, Category!NoFile
<1>2. ASSUME NEW r \in Requests, Category!apply_categories(r), cat' # cat
      PROVE  /\ req[r].user \in Users /\ IsFiniteSet(req[r].want)
             /\ req[r].ids = {c \in 1..MaxCat : cat[c].owner = req[r].user}
             /\ \E to : cat' = [c \in 1..MaxCat |-> IF c \in Category!InsertIds(req[r])
                           THEN [owner |-> req[r].user, files |-> to[c]]
                           ELSE Category!Kept(req[r])[c]]
  <2>1. req[r].op \in {"apply", "insert"}
    BY <1>2 DEF Category!apply_categories
  <2>2. \E to : cat' = [c \in 1..MaxCat |-> IF c \in Category!InsertIds(req[r])
                           THEN [owner |-> req[r].user, files |-> to[c]]
                           ELSE Category!Kept(req[r])[c]]
    BY <1>1, <1>2 DEF Category!apply_categories
  <2> QED BY <2>1, <2>2 DEF CategorySerial, TaxTyped, OrdersOK
<1>3. Category!Replaced
  <2> SUFFICES ASSUME NEW r \in Requests, req[r].op \in {"apply", "insert"}, cat' # cat
               PROVE  Category!Cardinality({c \in Category!Cats : cat'[c].owner = req[r].user})
                        <= Category!Cardinality(req[r].want)
    BY DEF Category!Replaced
  <2>1. req[r] # NoOrder
    BY DEF NoOrder
  <2>2. Category!apply_categories(r)
    BY <2>1, CategoryChanges DEF Category!delete_category
  <2>3. PICK q, I, to : /\ q = req[r] /\ I = Category!InsertIds(q)
                        /\ cat' = [c \in 1..MaxCat |->
                             IF c \in I THEN [owner |-> q.user, files |-> to[c]]
                             ELSE Category!Kept(q)[c]]
    BY <1>2, <2>2
  <2>4. q.user \in Users /\ IsFiniteSet(q.want) /\ q.ids = {c \in 1..MaxCat : cat[c].owner = q.user}
    BY <1>2, <2>2, <2>3
  <2>5. PICK S : S = {c \in Category!Cats : cat'[c].owner = q.user}
    OBVIOUS
  <2>6. ASSUME NEW c \in S, c \notin I PROVE FALSE
    <3>1. c \in 1..MaxCat /\ cat'[c] = Category!Kept(q)[c] /\ cat'[c].owner = q.user
      BY <1>1, <2>3, <2>5, <2>6
    <3>2. Category!Kept(q)[c] = IF c \in q.ids THEN NoCat ELSE cat[c]
      BY <1>1, <3>1 DEF Category!Kept
    <3>3. NoCat.owner = "none"
      BY DEF NoCat
    <3> QED BY <1>1, <2>4, <3>1, <3>2, <3>3
  <2>7. S \in SUBSET I
    BY <2>6
  <2>8. IsFiniteSet(I) /\ Cardinality(I) <= Cardinality(q.want)
    BY <1>1, <2>3, <2>4, InsertIdsApart
  <2>9. Cardinality(S) <= Cardinality(I) /\ IsFiniteSet(S)
    BY <2>7, <2>8, FS_Subset
  <2>10. Cardinality(S) \in Nat /\ Cardinality(I) \in Nat /\ Cardinality(q.want) \in Nat
    BY <2>4, <2>8, <2>9, FS_CardinalityType
  <2>11. /\ Category!Cardinality(S) = Cardinality(S)
         /\ Category!Cardinality(q.want) = Cardinality(q.want)
    BY SameCardinality
  <2> QED BY <2>3, <2>5, <2>8, <2>9, <2>10, <2>11
<1>4. Category!OwnerScope
  <2> SUFFICES ASSUME NEW c \in Category!Cats, NEW r \in Requests, req[r] # NoOrder,
                      cat[c] # NoCat, cat[c].owner # req[r].user, cat' # cat
               PROVE  cat'[c] = cat[c]
    BY <1>1 DEF Category!OwnerScope
  <2>1. CASE Category!apply_categories(r)
    <3>1. PICK q, I, to : /\ q = req[r] /\ I = Category!InsertIds(q)
                          /\ cat' = [x \in 1..MaxCat |->
                               IF x \in I THEN [owner |-> q.user, files |-> to[x]]
                               ELSE Category!Kept(q)[x]]
      BY <1>2, <2>1
    <3>2. c \notin q.ids /\ IsFiniteSet(q.want) /\ c \in 1..MaxCat
      BY <1>1, <1>2, <2>1, <3>1
    <3>3. Category!Kept(q)[c] = cat[c]
      BY <1>1, <3>2 DEF Category!Kept
    <3>4. c \notin I
      BY <1>1, <3>1, <3>2, <3>3, InsertIdsApart
    <3> QED BY <3>1, <3>2, <3>3, <3>4
  <2>2. CASE Category!delete_category(r)
    <3>1. c \notin req[r].ids
      BY <2>2 DEF Category!delete_category, CategorySerial
    <3> QED BY <1>1, <2>2, <3>1 DEF Category!delete_category
  <2> QED BY <2>1, <2>2, CategoryChanges
<1> QED BY <1>3, <1>4

\* The invariants of the parts about categories.
CategoriesInv ==
    /\ part = "category" => TaxTyped(MaxFile, MaxCat) /\ CategorySerial
    /\ part = "categories" => TaxTyped(MaxFile - 1, MaxCat - 1)

\* The tree of a user never shows a file of another, and every mapping names a
\* file that exists, whoever overlaps; with one request at a time applying
\* replaces the user's categories and none of another's, and a summary was made
\* from the file its row stands for (list_categories, apply_categories,
\* summarize_file).
THEOREM WorkCategoriesOwn == Spec => CategoriesOwn
<1>1. Init => CategoriesInv
  <2>1. ASSUME Init, part = "category" PROVE TaxTyped(MaxFile, MaxCat) /\ CategorySerial
    <3>1. Category!Init
      BY <2>1 DEF Init
    <3>2. TaxTyped(MaxFile, MaxCat)
      BY <3>1, WorkAssumption, TaxInit
         DEF Category!Init, Category!TaxonomyAssumption, Category!NoFile, Category!NoCat,
             Category!NoReq, NoFile, NoCat, NoOrder, Category!None, Category!Files, Category!Cats
    <3> QED BY <3>1, <3>2, CategorySerialInit
  <2>2. ASSUME Init, part = "categories" PROVE TaxTyped(MaxFile - 1, MaxCat - 1)
    <3>1. Categories!Init
      BY <2>2 DEF Init
    <3> QED BY <3>1, WorkAssumption, TaxInit
            DEF Categories!Init, Categories!TaxonomyAssumption, Categories!NoFile,
                Categories!NoCat, Categories!NoReq, NoFile, NoCat, NoOrder, Categories!None,
                Categories!Files, Categories!Cats
  <2> QED BY <2>1, <2>2 DEF CategoriesInv
<1>2. CategoriesInv /\ [Next]_vars => CategoriesInv'
  BY WorkAssumption, PartStep, CategoryTyped, CategorySerialStep, CategoriesTyped
     DEF CategoriesInv
<1>3. CategoriesInv => (part = "categories" => Categories!TypeOK /\ Categories!ListOwn)
  <2>1. TaxTyped(MaxFile - 1, MaxCat - 1) => Categories!TypeOK
    BY DEF TaxTyped, FilesOK, CatsOK, Categories!TypeOK, Categories!Files, Categories!Cats,
           Categories!NoFile, Categories!NoCat, Categories!None, NoFile, NoCat
  <2>2. Categories!ListOwn
    BY DEF Categories!ListOwn, Categories!list_categories, Categories!_indexed_files
  <2> QED BY <2>1, <2>2 DEF CategoriesInv
<1>4. CategoriesInv => (part = "category" => Category!TypeOK /\ Category!SummaryBelongs)
  <2>1. TaxTyped(MaxFile, MaxCat) => Category!TypeOK
    BY DEF TaxTyped, FilesOK, CatsOK, Category!TypeOK, Category!Files, Category!Cats,
           Category!NoFile, Category!NoCat, Category!None, NoFile, NoCat
  <2>2. CategorySerial => Category!SummaryBelongs
    BY DEF CategorySerial, Category!SummaryBelongs, Category!Files
  <2> QED BY <2>1, <2>2 DEF CategoriesInv
<1>5. CategoriesInv /\ [Next]_vars =>
        [part = "category" => Category!Replaced /\ Category!OwnerScope]_vars
  BY WorkAssumption, PartStep, CategoryKeeps DEF CategoriesInv
<1> QED BY <1>1, <1>2, <1>3, <1>4, <1>5, PTL DEF Spec, CategoriesOwn

-----------------------------------------------------------------------------
(* The records and the chat.                                               *)

Tabs == {"event", "task", "doc", "session"}
Rows(U) == [owner : U \cup {"none"}, starts : Nat, ends : Nat,
            status : {"none", "todo", "doing", "done", "pending", "approved"}, done : 0..2]
NoRow == [owner |-> "none", starts |-> 0, ends |-> 0, status |-> "none", done |-> 0]

\* What the rules and the model can make of an utterance.
Intents == {{"task.create"}, {"task.list"}, {"task.done"}, {"schedule.create"}, {"document"},
            {"schedule.create", "document"}, {"schedule.delete"}, {"schedule.list"}, {"help"},
            {"knowledge"}}
Ops == {"none", "write", "delete", "run", "save", "forget"}
Ways == {"none", "rule", "llm"}
Plans == Intents \cup {{}}
Asks(U) == [op : Ops, user : U \cup {"none"}, table : Tabs \cup {"none"}, id : Nat, copy : Rows(U),
            new : Rows(U), kinds : Plans, by : Ways, logs : BOOLEAN, sid : Nat]
NoAsk == [op |-> "none", user |-> "none", table |-> "none", id |-> 0, copy |-> NoRow,
          new |-> NoRow, kinds |-> {}, by |-> "none", logs |-> FALSE, sid |-> 0]

\* A row that exists has an owner and a status, or a time, of its table.
RowOK(U, T, k, x) ==
    x = NoRow \/ /\ x.owner \in U
                 /\ k = "task" => x.status \in {"todo", "doing", "done"}
                 /\ k = "doc" => x.status \in {"pending", "approved"}
                 /\ k = "event" => x.starts \in 1..T

\* An event does not end before it starts, a task has a time exactly when done.
Good(k, x) ==
    /\ k = "event" => x.ends = 0 \/ x.ends >= x.starts
    /\ k = "task" => (x.done # 0 <=> x.status = "done")

\* A request has read its row, which is the user's.
Chosen(q) ==
    /\ table[q.table][q.id].owner = q.user
    /\ q.op = "write" => q.copy = table[q.table][q.id] /\ Good(q.table, q.new)

\* A change keeps the owner and leads to a row of the table.
Change(U, T, k, copy, new) == new.owner = copy.owner /\ new # NoRow /\ RowOK(U, T, k, new)

AskOK(U, n, T, q) ==
    /\ q.op = "none" => q = NoAsk
    /\ q.op # "none" => q.user \in U
    /\ q.op = "write" => q.table \in Tabs /\ q.id \in 1..n /\ Change(U, T, q.table, q.copy, q.new)
    /\ q.op = "delete" => q.table \in Tabs /\ q.id \in 1..n
    /\ q.op = "forget" => q.id \in 1..n
    /\ q.op \in {"run", "save"} =>
          /\ q.sid \in 0..n /\ q.id \in 0..n /\ q.kinds \in Intents
          /\ q.id # 0 /\ q.kinds = {"task.done"} => Change(U, T, "task", q.copy, q.new)
          /\ q.by = "llm" => q.kinds \in {{"document"}, {"schedule.list"}, {"help"}, {"knowledge"}}

\* The types, for users U, requests R that do Does, n rows and times up to T.
RowsOK(U, n, T) ==
    /\ table \in [Tabs -> [1..n -> Rows(U)]]
    /\ \A k \in Tabs, i \in 1..n : RowOK(U, T, k, table[k][i])
AsksOK(U, R, n, T, Does) ==
    /\ req \in [R -> Asks(U)]
    /\ \A r \in R : AskOK(U, n, T, req[r]) /\ req[r].op \in Does \cup {"none"}
LogsOK(U, n) == activity \in {0, 1} /\ message \subseteq U \X (1..n)
RecTyped(U, R, n, T, Does) == RowsOK(U, n, T) /\ AsksOK(U, R, n, T, Does) /\ LogsOK(U, n)

\* A request is a record of its fields.
LEMMA AskRecord ==
    ASSUME NEW U, NEW op \in Ops, NEW user \in U \cup {"none"}, NEW tab \in Tabs \cup {"none"},
           NEW id \in Nat, NEW copy \in Rows(U), NEW new \in Rows(U), NEW kinds \in Plans,
           NEW by \in Ways, NEW logs \in BOOLEAN, NEW sid \in Nat
    PROVE  [op |-> op, user |-> user, table |-> tab, id |-> id, copy |-> copy, new |-> new,
            kinds |-> kinds, by |-> by, logs |-> logs, sid |-> sid] \in Asks(U)
BY DEF Asks

\* No row and no request is of the type.
LEMMA Nothing ==
    ASSUME NEW U, NEW n, NEW T, NEW k
    PROVE  /\ NoRow \in Rows(U) /\ RowOK(U, T, k, NoRow)
           /\ NoAsk \in Asks(U) /\ AskOK(U, n, T, NoAsk) /\ NoAsk.op = "none"
<1>1. NoRow \in Rows(U) /\ RowOK(U, T, k, NoRow)
  BY DEF NoRow, Rows, RowOK
<1>2. NoAsk \in Asks(U)
  <2>1. /\ "none" \in Ops /\ "none" \in U \cup {"none"} /\ "none" \in Tabs \cup {"none"}
        /\ 0 \in Nat /\ {} \in Plans /\ "none" \in Ways /\ FALSE \in BOOLEAN
    BY DEF Ops, Plans, Ways
  <2> QED BY <1>1, <2>1, AskRecord, Zenon DEF NoAsk
<1>3. NoAsk.op = "none"
  BY DEF NoAsk
<1> QED BY <1>1, <1>2, <1>3 DEF AskOK

\* The types hold at first.
LEMMA RecInit ==
    ASSUME NEW U, NEW R, NEW n \in Nat, NEW T, NEW Does,
           table = [k \in Tabs |-> [i \in 1..n |-> NoRow]], message = {}, activity = 0,
           req = [r \in R |-> NoAsk]
    PROVE  RecTyped(U, R, n, T, Does)
<1>1. RowsOK(U, n, T)
  BY Nothing DEF RowsOK
<1>2. AsksOK(U, R, n, T, Does)
  BY Nothing DEF AsksOK
<1> QED BY <1>1, <1>2 DEF RecTyped, LogsOK

\* They are kept when a row is replaced ...
LEMMA RowPut ==
    ASSUME NEW U, NEW n \in Nat, NEW T, RowsOK(U, n, T), NEW k \in Tabs, NEW i \in 1..n,
           NEW x \in Rows(U), RowOK(U, T, k, x), table' = [table EXCEPT ![k][i] = x]
    PROVE  RowsOK(U, n, T)'
<1>1. table' \in [Tabs -> [1..n -> Rows(U)]]
  BY DEF RowsOK
<1>2. ASSUME NEW l \in Tabs, NEW j \in 1..n PROVE RowOK(U, T, l, table'[l][j])
  <2>1. CASE l = k /\ j = i
    BY <2>1 DEF RowsOK
  <2>2. CASE ~(l = k /\ j = i)
    <3>1. table'[l][j] = table[l][j]
      BY <2>2 DEF RowsOK
    <3> QED BY <3>1 DEF RowsOK
  <2> QED BY <2>1, <2>2
<1> QED BY <1>1, <1>2 DEF RowsOK

\* ... and when a request begins, goes on or ends.
LEMMA AskPut ==
    ASSUME NEW U, NEW R, NEW n \in Nat, NEW T, NEW Does, AsksOK(U, R, n, T, Does), NEW r \in R,
           NEW q \in Asks(U), AskOK(U, n, T, q), q.op \in Does \cup {"none"},
           req' = [req EXCEPT ![r] = q]
    PROVE  AsksOK(U, R, n, T, Does)'
<1>1. req' \in [R -> Asks(U)]
  BY DEF AsksOK
<1>2. ASSUME NEW s \in R PROVE AskOK(U, n, T, req'[s]) /\ req'[s].op \in Does \cup {"none"}
  BY DEF AsksOK
<1> QED BY <1>1, <1>2 DEF AsksOK

\* The columns that a request changed go to a row of the same table.
LEMMA Merged ==
    ASSUME NEW U, NEW T, NEW k \in Tabs, NEW row \in Rows(U), NEW copy \in Rows(U),
           NEW new \in Rows(U), RowOK(U, T, k, row), row # NoRow, Change(U, T, k, copy, new),
           NEW x, x = [c \in DOMAIN row |-> IF new[c] # copy[c] THEN new[c] ELSE row[c]]
    PROVE  /\ x \in Rows(U) /\ RowOK(U, T, k, x)
           /\ row = copy => x = new
<1>1. x \in Rows(U)
  BY DEF Rows
<1>2. /\ x.owner = row.owner
      /\ x.status \in {new.status, row.status} /\ x.starts \in {new.starts, row.starts}
  BY DEF Rows, Change
<1>3. RowOK(U, T, k, x)
  BY <1>2 DEF RowOK, Change
<1>4. row = copy => x = new
  BY DEF Rows
<1> QED BY <1>1, <1>3, <1>4

\* The requests and the rows that the routes make.
WriteOf(u, k, i, copy, new) ==
    [NoAsk EXCEPT !.op = "write", !.user = u, !.table = k, !.id = i, !.copy = copy, !.new = new]
AskOf(op, u, k, i) == [NoAsk EXCEPT !.op = op, !.user = u, !.table = k, !.id = i]
EventRow(u, s, e) == [NoRow EXCEPT !.owner = u, !.starts = s, !.ends = e]
StatusRow(u, t) == [NoRow EXCEPT !.owner = u, !.status = t]
SessionRow(u) == [NoRow EXCEPT !.owner = u]
FirstRow(u) == [NoRow EXCEPT !.owner = u, !.starts = 1]
Timed(copy, s, e) == [copy EXCEPT !.starts = s, !.ends = e]
Stamped(copy, t, d) == [copy EXCEPT !.status = t, !.done = d]
Marked(copy, t) == [copy EXCEPT !.status = t]

\* A request to write a row, or to do something else with one.
LEMMA WriteAsk ==
    ASSUME NEW U, NEW u \in U, NEW k \in Tabs, NEW i \in Nat, NEW copy \in Rows(U),
           NEW new \in Rows(U), NEW q, q = WriteOf(u, k, i, copy, new)
    PROVE  /\ q \in Asks(U) /\ q.op = "write" /\ q.user = u /\ q.table = k /\ q.id = i
           /\ q.copy = copy /\ q.new = new
<1>1. q = [op |-> "write", user |-> u, table |-> k, id |-> i, copy |-> copy, new |-> new,
           kinds |-> {}, by |-> "none", logs |-> FALSE, sid |-> 0]
  BY DEF NoAsk, WriteOf
<1>2. q \in Asks(U)
  <2>1. /\ "write" \in Ops /\ u \in U \cup {"none"} /\ k \in Tabs \cup {"none"} /\ 0 \in Nat
        /\ {} \in Plans /\ "none" \in Ways /\ FALSE \in BOOLEAN
    BY DEF Ops, Plans, Ways
  <2>2. [op |-> "write", user |-> u, table |-> k, id |-> i, copy |-> copy, new |-> new,
         kinds |-> {}, by |-> "none", logs |-> FALSE, sid |-> 0] \in Asks(U)
    BY <2>1, AskRecord, Zenon
  <2> QED BY <1>1, <2>2, Zenon
<1> QED BY <1>1, <1>2

\* A request that reads no row: what it asks for.
LEMMA OtherAsk ==
    ASSUME NEW U, NEW u \in U, NEW k \in Tabs, NEW i \in Nat, NEW op \in Ops, NEW q,
           q = AskOf(op, u, k, i)
    PROVE  /\ q \in Asks(U) /\ q.op = op /\ q.user = u /\ q.table = k /\ q.id = i
<1>1. q = [op |-> op, user |-> u, table |-> k, id |-> i, copy |-> NoRow, new |-> NoRow,
           kinds |-> {}, by |-> "none", logs |-> FALSE, sid |-> 0]
  BY DEF NoAsk, AskOf
<1>2. q \in Asks(U)
  <2>1. /\ u \in U \cup {"none"} /\ k \in Tabs \cup {"none"} /\ 0 \in Nat
        /\ {} \in Plans /\ "none" \in Ways /\ FALSE \in BOOLEAN /\ NoRow \in Rows(U)
    BY Nothing DEF Plans, Ways
  <2>2. [op |-> op, user |-> u, table |-> k, id |-> i, copy |-> NoRow, new |-> NoRow,
         kinds |-> {}, by |-> "none", logs |-> FALSE, sid |-> 0] \in Asks(U)
    BY <2>1, AskRecord, Zenon
  <2> QED BY <1>1, <2>2, Zenon
<1> QED BY <1>1, <1>2

\* A row is a record of its fields.
LEMMA RowFields ==
    ASSUME NEW U, NEW u \in U \cup {"none"}, NEW s \in Nat, NEW e \in Nat,
           NEW t \in {"none", "todo", "doing", "done", "pending", "approved"}, NEW d \in 0..2, NEW x,
           x = [owner |-> u, starts |-> s, ends |-> e, status |-> t, done |-> d]
    PROVE  /\ x \in Rows(U) /\ x.owner = u /\ x.starts = s /\ x.ends = e /\ x.status = t
           /\ x.done = d
BY DEF Rows

\* What the routes insert.
LEMMA NewEvent ==
    ASSUME NEW U, NEW u \in U, NEW s \in Nat, NEW e \in Nat
    PROVE  /\ EventRow(u, s, e) \in Rows(U) /\ EventRow(u, s, e).owner = u
           /\ EventRow(u, s, e).starts = s /\ EventRow(u, s, e).ends = e
           /\ EventRow(u, s, e).done = 0
<1>1. ASSUME NEW x, x = EventRow(u, s, e)
      PROVE  x = [owner |-> u, starts |-> s, ends |-> e, status |-> "none", done |-> 0]
  BY <1>1 DEF NoRow, EventRow
<1> QED BY <1>1 DEF Rows

\* A row with another status is a row of its table ...
LEMMA NewStatus ==
    ASSUME NEW U, NEW u \in U, NEW t \in {"todo", "pending"}
    PROVE  /\ StatusRow(u, t) \in Rows(U) /\ StatusRow(u, t).owner = u
           /\ StatusRow(u, t).status = t /\ StatusRow(u, t).ends = 0
           /\ StatusRow(u, t).done = 0
<1>1. ASSUME NEW x, x = StatusRow(u, t)
      PROVE  x = [owner |-> u, starts |-> 0, ends |-> 0, status |-> t, done |-> 0]
  BY <1>1 DEF NoRow, StatusRow
<1> QED BY <1>1 DEF Rows

\* ... and the chat.
LEMMA NewSession ==
    ASSUME NEW U, NEW u \in U
    PROVE  /\ SessionRow(u) \in Rows(U) /\ SessionRow(u).owner = u
           /\ FirstRow(u) \in Rows(U) /\ FirstRow(u).owner = u /\ FirstRow(u).starts = 1
<1>1. ASSUME NEW x, x = SessionRow(u)
      PROVE  x = [owner |-> u, starts |-> 0, ends |-> 0, status |-> "none", done |-> 0]
  BY <1>1 DEF NoRow, SessionRow
<1>2. ASSUME NEW x, x = FirstRow(u)
      PROVE  x = [owner |-> u, starts |-> 1, ends |-> 0, status |-> "none", done |-> 0]
  BY <1>2 DEF NoRow, FirstRow
<1> QED BY <1>1, <1>2 DEF Rows

\* What they make of a row.
LEMMA NewTimes ==
    ASSUME NEW U, NEW copy \in Rows(U), NEW s \in Nat, NEW e \in Nat
    PROVE  /\ Timed(copy, s, e) \in Rows(U) /\ Timed(copy, s, e).owner = copy.owner
           /\ Timed(copy, s, e).starts = s /\ Timed(copy, s, e).ends = e
BY DEF Rows, Timed

\* ... so is one with the time of its status ...
LEMMA NewStamp ==
    ASSUME NEW U, NEW copy \in Rows(U), NEW t \in {"todo", "doing", "done"}, NEW d \in 0..2
    PROVE  /\ Stamped(copy, t, d) \in Rows(U) /\ Stamped(copy, t, d).owner = copy.owner
           /\ Stamped(copy, t, d).status = t /\ Stamped(copy, t, d).done = d
BY DEF Rows, Stamped

\* ... and one that is approved.
LEMMA NewMark ==
    ASSUME NEW U, NEW copy \in Rows(U)
    PROVE  /\ Marked(copy, "approved") \in Rows(U) /\ Marked(copy, "approved").owner = copy.owner
           /\ Marked(copy, "approved").status = "approved"
BY DEF Rows, Marked

\* What a step of the routes is: a new row, a request that begins with the row it
\* read, a download, or the end of a request.
LEMMA RecordShape ==
    ASSUME Record!RecordsAssumption, Record!Next,
           RecTyped(Users, Requests, MaxId, MaxTime + 2, {"write", "delete"})
    PROVE  \/ \E k \in Tabs, x \in Rows(Users) :
                 RowOK(Users, MaxTime + 2, k, x) /\ Good(k, x) /\ Record!Insert(k, x)
           \/ \E r \in Requests, q \in Asks(Users) :
                 /\ AskOK(Users, MaxId, MaxTime + 2, q) /\ q.op \in {"write", "delete"} /\ Chosen(q)
                 /\ Record!Begin(r, q)
           \/ Record!download_saved_document
           \/ \E r \in Requests : Record!Write(r) \/ Record!Delete(r)
<1> DEFINE Shape == \/ \E k \in Tabs, x \in Rows(Users) :
                           RowOK(Users, MaxTime + 2, k, x) /\ Good(k, x) /\ Record!Insert(k, x)
                    \/ \E r \in Requests, q \in Asks(Users) :
                           /\ AskOK(Users, MaxId, MaxTime + 2, q) /\ q.op \in {"write", "delete"} /\ Chosen(q)
                           /\ Record!Begin(r, q)
<1>1. /\ MaxId \in Nat /\ MaxTime + 2 \in Nat /\ "none" \notin Users
      /\ Record!NoRow = NoRow /\ Record!NoReq = NoAsk /\ Record!Tables = Tabs
      /\ Record!Ids = 1..MaxId /\ Record!Times = 1..(MaxTime + 2)
  BY DEF Record!RecordsAssumption, Record!NoRow, Record!NoReq, Record!None, NoRow, NoAsk,
         Record!Tables, Tabs, Record!Ids, Record!Times
<1>2. /\ RowsOK(Users, MaxId, MaxTime + 2) /\ LogsOK(Users, MaxId)
      /\ AsksOK(Users, Requests, MaxId, MaxTime + 2, {"write", "delete"})
      /\ table \in [Tabs -> [1..MaxId -> Rows(Users)]]
  BY DEF RecTyped, RowsOK
<1>3. \A r \in Requests : req[r].op \in {"none", "write", "delete"}
  BY DEF RecTyped, AsksOK
<1>4. ASSUME NEW k \in Tabs, NEW x \in Rows(Users), RowOK(Users, MaxTime + 2, k, x), Good(k, x),
             Record!Insert(k, x)
      PROVE  Shape
  BY <1>4
<1>5. ASSUME NEW r \in Requests, NEW k \in Tabs, NEW i \in 1..MaxId, NEW u \in Users,
             NEW new \in Rows(Users), Change(Users, MaxTime + 2, k, table[k][i], new), Good(k, new),
             table[k][i].owner = u, Record!Begin(r, WriteOf(u, k, i, table[k][i], new))
      PROVE  Shape
  <2>1. PICK q : q = WriteOf(u, k, i, table[k][i], new)
    OBVIOUS
  <2>2. /\ q \in Asks(Users) /\ q.op = "write" /\ q.user = u /\ q.table = k /\ q.id = i
        /\ q.copy = table[k][i] /\ q.new = new
    <3>1. i \in Nat /\ table[k][i] \in Rows(Users)
      BY <1>1, <1>2
    <3> QED BY <2>1, <3>1, WriteAsk
  <2>3. AskOK(Users, MaxId, MaxTime + 2, q)
    BY <1>5, <2>2 DEF AskOK
  <2>4. Chosen(q)
    BY <1>5, <2>2 DEF Chosen
  <2> QED BY <1>5, <2>1, <2>2, <2>3, <2>4
<1>6. ASSUME Record!create_event PROVE Shape
  <2>1. PICK u \in Users : \E s \in 1..(MaxTime + 2), e \in {0} \cup 1..(MaxTime + 2) :
          Record!Ordered(EventRow(u, s, e)) /\ Record!Insert("event", EventRow(u, s, e))
    BY <1>1, <1>6, Zenon DEF Record!create_event, EventRow
  <2>2. PICK s \in Nat, e \in Nat :
          s \in 1..(MaxTime + 2) /\ (e = 0 \/ e >= s) /\ Record!Insert("event", EventRow(u, s, e))
    <3>1. PICK s \in Nat, e \in Nat :
            /\ s \in 1..(MaxTime + 2)
            /\ Record!Ordered(EventRow(u, s, e)) /\ Record!Insert("event", EventRow(u, s, e))
      BY <1>1, <2>1
    <3>2. EventRow(u, s, e).starts = s /\ EventRow(u, s, e).ends = e
      BY NewEvent
    <3> QED BY <3>1, <3>2 DEF Record!Ordered
  <2>3. /\ EventRow(u, s, e) \in Rows(Users) /\ EventRow(u, s, e).owner = u
        /\ EventRow(u, s, e).starts = s /\ EventRow(u, s, e).ends = e
    BY NewEvent
  <2>4. RowOK(Users, MaxTime + 2, "event", EventRow(u, s, e)) /\ Good("event", EventRow(u, s, e))
    BY <2>2, <2>3 DEF RowOK, Good
  <2> QED BY <1>4, <2>2, <2>3, <2>4 DEF Tabs
<1>7. ASSUME Record!create_task PROVE Shape
  <2>1. PICK u \in Users : Record!Insert("task", StatusRow(u, "todo"))
    BY <1>1, <1>7 DEF Record!create_task, StatusRow
  <2>2. /\ StatusRow(u, "todo") \in Rows(Users) /\ StatusRow(u, "todo").owner = u
        /\ StatusRow(u, "todo").status = "todo" /\ StatusRow(u, "todo").done = 0
    BY NewStatus
  <2>3. RowOK(Users, MaxTime + 2, "task", StatusRow(u, "todo")) /\ Good("task", StatusRow(u, "todo"))
    BY <2>2 DEF RowOK, Good
  <2> QED BY <1>4, <2>1, <2>2, <2>3 DEF Tabs
<1>8. ASSUME Record!request_document_save PROVE Shape
  <2>1. PICK u \in Users : Record!Insert("doc", StatusRow(u, "pending"))
    BY <1>1, <1>8 DEF Record!request_document_save, StatusRow
  <2>2. /\ StatusRow(u, "pending") \in Rows(Users) /\ StatusRow(u, "pending").owner = u
        /\ StatusRow(u, "pending").status = "pending" /\ StatusRow(u, "pending").done = 0
    BY NewStatus
  <2>3. RowOK(Users, MaxTime + 2, "doc", StatusRow(u, "pending")) /\ Good("doc", StatusRow(u, "pending"))
    BY <2>2 DEF RowOK, Good
  <2> QED BY <1>4, <2>1, <2>2, <2>3 DEF Tabs
<1>9. ASSUME NEW r \in Requests, Record!update_event(r) PROVE Shape
  <2>1. PICK u \in Users, i \in 1..MaxId, s \in Nat, e \in Nat :
          /\ table["event"][i].owner = u /\ s \in 1..(MaxTime + 2)
          /\ Record!Ordered(Timed(table["event"][i], s, e))
          /\ Record!Begin(r, WriteOf(u, "event", i, table["event"][i],
                                     Timed(table["event"][i], s, e)))
    <3>1. PICK u \in Users :
            \E i \in Record!Owned("event", u), s \in 1..(MaxTime + 2), e \in {0} \cup 1..(MaxTime + 2) :
              /\ Record!Ordered(Timed(table["event"][i], s, e))
              /\ Record!Begin(r, WriteOf(u, "event", i, table["event"][i],
                                         Timed(table["event"][i], s, e)))
      BY <1>1, <1>9, Zenon DEF Record!update_event, WriteOf, Timed
    <3> QED BY <1>1, <3>1 DEF Record!Owned
  <2>2. PICK copy \in Rows(Users) : copy = table["event"][i]
    BY <1>2 DEF Tabs
  <2>3. PICK new : new = Timed(copy, s, e)
    OBVIOUS
  <2>4. new \in Rows(Users) /\ new.owner = copy.owner /\ new.starts = s /\ new.ends = e
    <3>1. /\ Timed(copy, s, e) \in Rows(Users) /\ Timed(copy, s, e).owner = copy.owner
          /\ Timed(copy, s, e).starts = s /\ Timed(copy, s, e).ends = e
      BY NewTimes
    <3> QED BY <2>3, <3>1
  <2>5. new # NoRow /\ new.owner \in Users
    BY <1>1, <2>1, <2>2, <2>4 DEF NoRow
  <2>6. Change(Users, MaxTime + 2, "event", copy, new)
    BY <2>1, <2>4, <2>5 DEF Change, RowOK
  <2>7. Good("event", new)
    BY <2>1, <2>2, <2>3, <2>4 DEF Good, Record!Ordered
  <2> QED BY <1>5, <2>1, <2>2, <2>3, <2>4, <2>6, <2>7 DEF Tabs
<1>10. ASSUME NEW r \in Requests, Record!update_task(r) PROVE Shape
  <2>1. PICK u \in Users, i \in 1..MaxId, s \in {"todo", "doing", "done"} :
          /\ table["task"][i].owner = u
          /\ Record!Begin(r, WriteOf(u, "task", i, table["task"][i],
                                     Record!WithStatus(table["task"][i], s)))
    <3>1. PICK u \in Users : \E i \in Record!Owned("task", u), s \in {"todo", "doing", "done"} :
            Record!Begin(r, WriteOf(u, "task", i, table["task"][i],
                                    Record!WithStatus(table["task"][i], s)))
      BY <1>1, <1>10, Zenon DEF Record!update_task, WriteOf
    <3> QED BY <1>1, <3>1 DEF Record!Owned
  <2>2. PICK copy \in Rows(Users) : copy = table["task"][i]
    BY <1>2 DEF Tabs
  <2>3. PICK new : new = Record!WithStatus(copy, s)
    OBVIOUS
  <2>4. /\ new \in Rows(Users) /\ new.owner = copy.owner /\ new.status = s
        /\ new.done # 0 <=> s = "done"
    <3>1. PICK d \in 0..2 : d = IF s # "done" THEN 0 ELSE IF copy.done = 1 THEN 2 ELSE 1
      OBVIOUS
    <3>2. new = Stamped(copy, s, d)
      BY <2>3, <3>1, Zenon DEF Record!WithStatus, Stamped
    <3>3. /\ Stamped(copy, s, d) \in Rows(Users) /\ Stamped(copy, s, d).owner = copy.owner
          /\ Stamped(copy, s, d).status = s /\ Stamped(copy, s, d).done = d
      BY NewStamp
    <3> QED BY <3>1, <3>2, <3>3
  <2>5. new # NoRow /\ new.owner \in Users
    BY <1>1, <2>1, <2>2, <2>4 DEF NoRow
  <2>6. Change(Users, MaxTime + 2, "task", copy, new)
    BY <2>4, <2>5 DEF Change, RowOK
  <2>7. Good("task", new)
    BY <2>4 DEF Good
  <2> QED BY <1>5, <2>1, <2>2, <2>3, <2>4, <2>6, <2>7 DEF Tabs
<1>11. ASSUME NEW r \in Requests, Record!approve_document(r) PROVE Shape
  <2>1. PICK u \in Users, i \in 1..MaxId :
          /\ table["doc"][i].owner = u
          /\ Record!Begin(r, WriteOf(u, "doc", i, table["doc"][i], Marked(table["doc"][i], "approved")))
    <3>1. PICK u \in Users : \E i \in Record!Owned("doc", u) :
            Record!Begin(r, WriteOf(u, "doc", i, table["doc"][i], Marked(table["doc"][i], "approved")))
      BY <1>1, <1>11, Zenon DEF Record!approve_document, WriteOf, Marked
    <3> QED BY <1>1, <3>1 DEF Record!Owned
  <2>2. PICK copy \in Rows(Users) : copy = table["doc"][i]
    BY <1>2 DEF Tabs
  <2>3. PICK new : new = Marked(copy, "approved")
    OBVIOUS
  <2>4. new \in Rows(Users) /\ new.owner = copy.owner /\ new.status = "approved"
    BY <2>3, NewMark
  <2>5. new # NoRow /\ new.owner \in Users
    BY <1>1, <2>1, <2>2, <2>4 DEF NoRow
  <2>6. Change(Users, MaxTime + 2, "doc", copy, new)
    BY <2>4, <2>5 DEF Change, RowOK
  <2>7. Good("doc", new)
    BY DEF Good
  <2> QED BY <1>5, <2>1, <2>2, <2>3, <2>4, <2>6, <2>7 DEF Tabs
<1>12. ASSUME NEW r \in Requests, NEW k \in Tabs, Record!DeleteRow(r, k) PROVE Shape
  <2>0. PICK u \in Users, i \in 1..MaxId :
          \E q : table[k][i].owner = u /\ q = AskOf("delete", u, k, i) /\ Record!Begin(r, q)
    BY <1>1, <1>12, Zenon DEF Record!DeleteRow, Record!Owned, AskOf
  <2>1. PICK q :
          table[k][i].owner = u /\ q = AskOf("delete", u, k, i) /\ Record!Begin(r, q)
    BY <2>0, Zenon
  <2>2. q \in Asks(Users) /\ q.op = "delete" /\ q.user = u /\ q.table = k /\ q.id = i
    <3>1. i \in Nat /\ "delete" \in Ops
      BY <1>1 DEF Ops
    <3>2. q = AskOf("delete", u, k, i)
      BY <2>1
    <3> QED BY <3>1, <3>2, OtherAsk
  <2>3. AskOK(Users, MaxId, MaxTime + 2, q)
    BY <2>2 DEF AskOK
  <2>4. Chosen(q)
    BY <2>1, <2>2 DEF Chosen
  <2> QED BY <2>1, <2>2, <2>3, <2>4
<1>13. ASSUME NEW r \in Requests,
              \/ Record!delete_event(r) \/ Record!delete_task_item(r)
              \/ Record!delete_saved_document(r)
       PROVE  Shape
  BY <1>12, <1>13 DEF Record!delete_event, Record!delete_task_item,
     Record!delete_saved_document, Tabs
<1>14. ASSUME NEW r \in Requests
       PROVE  /\ ~ Record!orchestrate(r) /\ ~ Record!FindSession(r) /\ ~ Record!SaveMessage(r)
              /\ ~ Record!delete_chat_session(r) /\ ~ Record!Forget(r)
  BY <1>3 DEF Record!orchestrate, Record!FindSession, Record!SaveMessage,
     Record!delete_chat_session, Record!Forget
<1> QED BY <1>6, <1>7, <1>8, <1>9, <1>10, <1>11, <1>13, <1>14 DEF Record!Next

\* A step of the routes keeps the types.
LEMMA RecordTyped ==
    ASSUME Record!RecordsAssumption, [Record!Next]_(Record!vars),
           RecTyped(Users, Requests, MaxId, MaxTime + 2, {"write", "delete"})
    PROVE  RecTyped(Users, Requests, MaxId, MaxTime + 2, {"write", "delete"})'
<1> DEFINE Inv == RecTyped(Users, Requests, MaxId, MaxTime + 2, {"write", "delete"})
<1>1. /\ MaxId \in Nat /\ MaxTime + 2 \in Nat /\ "none" \notin Users
      /\ Record!NoRow = NoRow /\ Record!NoReq = NoAsk /\ Record!Tables = Tabs
      /\ Record!Ids = 1..MaxId /\ Record!Times = 1..(MaxTime + 2)
  BY DEF Record!RecordsAssumption, Record!NoRow, Record!NoReq, Record!None, NoRow, NoAsk,
         Record!Tables, Tabs, Record!Ids, Record!Times
<1>2. /\ RowsOK(Users, MaxId, MaxTime + 2) /\ LogsOK(Users, MaxId)
      /\ AsksOK(Users, Requests, MaxId, MaxTime + 2, {"write", "delete"})
      /\ table \in [Tabs -> [1..MaxId -> Rows(Users)]]
  BY DEF RecTyped, RowsOK
<1>3. \A r \in Requests : req[r].op \in {"none", "write", "delete"}
  BY DEF RecTyped, AsksOK
<1>4. ASSUME Record!record_activity, UNCHANGED message PROVE LogsOK(Users, MaxId)'
  BY <1>2, <1>4 DEF LogsOK, Record!record_activity
<1>5. CASE UNCHANGED Record!vars
  BY <1>5 DEF Record!vars, RecTyped, RowsOK, AsksOK, LogsOK
<1>6. ASSUME NEW k \in Tabs, NEW x \in Rows(Users), RowOK(Users, MaxTime + 2, k, x), Record!Insert(k, x)
      PROVE  Inv'
  <2>1. PICK i \in 1..MaxId : table' = [table EXCEPT ![k][i] = x]
    BY <1>1, <1>6 DEF Record!Insert
  <2>2. RowsOK(Users, MaxId, MaxTime + 2)'
    BY <1>1, <1>2, <1>6, <2>1, RowPut
  <2> QED BY <1>2, <1>4, <1>6, <2>2 DEF Record!Insert, RecTyped, AsksOK
<1>7. ASSUME NEW r \in Requests, NEW q \in Asks(Users), AskOK(Users, MaxId, MaxTime + 2, q),
             q.op \in {"write", "delete"}, Record!Begin(r, q)
      PROVE  Inv'
  <2>1. req' = [req EXCEPT ![r] = q] /\ UNCHANGED <<table, message, activity>>
    BY <1>7 DEF Record!Begin
  <2>2. AsksOK(Users, Requests, MaxId, MaxTime + 2, {"write", "delete"})'
    BY <1>1, <1>2, <1>7, <2>1, AskPut
  <2> QED BY <2>1, <2>2 DEF RecTyped, RowsOK, LogsOK
<1>8. CASE Record!download_saved_document
  BY <1>2, <1>4, <1>8 DEF Record!download_saved_document, RecTyped, RowsOK, AsksOK
<1>9. ASSUME NEW r \in Requests, Record!Ends(r)
       PROVE  AsksOK(Users, Requests, MaxId, MaxTime + 2, {"write", "delete"})'
  BY <1>1, <1>2, <1>9, AskPut, Nothing DEF Record!Ends
<1>10. ASSUME NEW r \in Requests, Record!Write(r) PROVE Inv'
  <2>1. PICK q, k, i : q = req[r] /\ k = q.table /\ i = q.id
    OBVIOUS
  <2>2. /\ q \in Asks(Users) /\ k \in Tabs /\ i \in 1..MaxId
        /\ Change(Users, MaxTime + 2, k, q.copy, q.new) /\ q.copy \in Rows(Users) /\ q.new \in Rows(Users)
    BY <1>2, <1>10, <2>1 DEF Record!Write, AsksOK, AskOK, Asks
  <2>3. AsksOK(Users, Requests, MaxId, MaxTime + 2, {"write", "delete"})'
    BY <1>9, <1>10 DEF Record!Write
  <2>4. LogsOK(Users, MaxId)'
    BY <1>2, <1>4, <1>10 DEF Record!Write, LogsOK
  <2>5. CASE UNCHANGED table
    BY <1>2, <2>3, <2>4, <2>5 DEF RecTyped, RowsOK
  <2>6. CASE table' # table
    <3>1. /\ table[k][i] # NoRow
          /\ table' = [table EXCEPT ![k][i] = Record!Merge(@, q.copy, q.new)]
      BY <1>1, <1>10, <2>1, <2>6 DEF Record!Write
    <3>2. PICK row, x : /\ row = table[k][i]
                        /\ x = [c \in DOMAIN row |-> IF q.new[c] # q.copy[c] THEN q.new[c] ELSE row[c]]
      OBVIOUS
    <3>3. row \in Rows(Users) /\ RowOK(Users, MaxTime + 2, k, row)
      BY <1>2, <2>2, <3>2 DEF RowsOK
    <3>4. x \in Rows(Users) /\ RowOK(Users, MaxTime + 2, k, x)
      <4>1. PICK old, new : old = q.copy /\ new = q.new
        OBVIOUS
      <4>2. /\ old \in Rows(Users) /\ new \in Rows(Users) /\ k \in Tabs /\ row # NoRow
            /\ Change(Users, MaxTime + 2, k, old, new)
            /\ x = [c \in DOMAIN row |-> IF new[c] # old[c] THEN new[c] ELSE row[c]]
        BY <2>2, <3>1, <3>2, <4>1
      <4> QED BY <3>3, <4>2, Merged
    <3>5. table' = [table EXCEPT ![k][i] = x]
      BY <1>2, <2>2, <3>1, <3>2 DEF Record!Merge
    <3>6. RowsOK(Users, MaxId, MaxTime + 2)'
      BY <1>1, <1>2, <2>2, <3>4, <3>5, RowPut
    <3> QED BY <2>3, <2>4, <3>6 DEF RecTyped
  <2> QED BY <2>5, <2>6
<1>11. ASSUME NEW r \in Requests, Record!Delete(r) PROVE Inv'
  <2>1. req[r].table \in Tabs /\ req[r].id \in 1..MaxId
    BY <1>2, <1>11 DEF Record!Delete, AsksOK, AskOK
  <2>2. RowsOK(Users, MaxId, MaxTime + 2)'
    BY <1>1, <1>2, <1>11, <2>1, RowPut, Nothing DEF Record!Delete
  <2> QED BY <1>4, <1>9, <1>11, <2>2 DEF Record!Delete, RecTyped
<1> QED BY <1>5, <1>6, <1>7, <1>8, <1>10, <1>11, RecordShape

\* One request at a time: a request works on the row it has read, and every row
\* is in order.
RecordSerial ==
    /\ \A r, s \in Requests : req[r].op # "none" /\ req[s].op # "none" => r = s
    /\ \A r \in Requests : req[r].op # "none" => Chosen(req[r])
    /\ \A k \in Tabs, i \in 1..MaxId : Good(k, table[k][i])

\* A replaced row leaves the rows in order if it is.
LEMMA GoodPut ==
    ASSUME NEW n \in Nat, NEW T, RowsOK(Users, n, T), NEW k \in Tabs, NEW i \in 1..n, NEW x,
           \A l \in Tabs, j \in 1..n : Good(l, table[l][j]), Good(k, x),
           table' = [table EXCEPT ![k][i] = x]
    PROVE  /\ \A l \in Tabs, j \in 1..n : Good(l, table'[l][j])
           /\ \A l \in Tabs, j \in 1..n : ~(l = k /\ j = i) => table'[l][j] = table[l][j]
<1>1. ASSUME NEW l \in Tabs, NEW j \in 1..n, ~(l = k /\ j = i) PROVE table'[l][j] = table[l][j]
  BY <1>1 DEF RowsOK
<1>2. table'[k][i] = x
  BY DEF RowsOK
<1> QED BY <1>1, <1>2

\* No row is in order.
LEMMA GoodNothing ==
    ASSUME NEW k
    PROVE  Good(k, NoRow)
BY DEF Good, NoRow

\* No request is under way in the beginning.
LEMMA RecordSerialInit ==
    ASSUME Record!Init
    PROVE  RecordSerial
<1>1. /\ table = [k \in Tabs |-> [i \in 1..MaxId |-> NoRow]] /\ req = [r \in Requests |-> NoAsk]
  BY DEF Record!Init, Record!NoRow, Record!NoReq, Record!None, NoRow, NoAsk, Record!Tables,
         Tabs, Record!Ids
<1>2. NoAsk.op = "none"
  BY DEF NoAsk
<1> QED BY <1>1, <1>2, GoodNothing DEF RecordSerial

\* The request that ends is the only one.
LEMMA RecordEnds ==
    ASSUME RecTyped(Users, Requests, MaxId, MaxTime + 2, {"write", "delete"}), RecordSerial,
           NEW r \in Requests, req[r].op # "none", Record!Ends(r)
    PROVE  /\ \A s \in Requests : req'[s] = NoAsk
           /\ \A s \in Requests \ {r} : req[s] = NoAsk
<1>1. req' = [req EXCEPT ![r] = NoAsk]
  BY DEF Record!Ends, Record!NoReq, Record!NoRow, Record!None, NoAsk, NoRow
<1>2. req \in [Requests -> Asks(Users)] /\ \A s \in Requests : req[s].op = "none" => req[s] = NoAsk
  BY DEF RecTyped, AsksOK, AskOK
<1>3. \A s \in Requests \ {r} : req[s] = NoAsk
  BY <1>2 DEF RecordSerial
<1> QED BY <1>1, <1>2, <1>3

\* A write by the only request puts the new row in place of the copy.
LEMMA RecordWrites ==
    ASSUME Record!RecordsAssumption, RecordSerial, NEW r \in Requests, Record!Write(r),
           RecTyped(Users, Requests, MaxId, MaxTime + 2, {"write", "delete"})
    PROVE  /\ req[r].op # "none" /\ req[r].table \in Tabs /\ req[r].id \in 1..MaxId
           /\ Good(req[r].table, req[r].new)
           /\ \/ UNCHANGED table
              \/ table' = [table EXCEPT ![req[r].table][req[r].id] = req[r].new]
<1>1. Record!NoRow = NoRow
  BY DEF Record!NoRow, Record!None, NoRow
<1>2. PICK q, k, i : q = req[r] /\ k = q.table /\ i = q.id
  OBVIOUS
<1>3. /\ q.op = "write" /\ q \in Asks(Users) /\ k \in Tabs /\ i \in 1..MaxId
      /\ Change(Users, MaxTime + 2, k, q.copy, q.new) /\ Chosen(q)
  BY <1>2 DEF Record!Write, RecTyped, AsksOK, AskOK, RecordSerial
<1>4. q.copy = table[k][i] /\ Good(k, q.new)
  BY <1>2, <1>3 DEF Chosen
<1>5. PICK old, new : old = q.copy /\ new = q.new
  OBVIOUS
<1>6. old \in Rows(Users) /\ new \in Rows(Users) /\ table \in [Tabs -> [1..MaxId -> Rows(Users)]]
  BY <1>3, <1>5 DEF Asks, RecTyped, RowsOK
<1>7. CASE table' # table
  <2>1. table' = [table EXCEPT ![k][i] = Record!Merge(@, old, new)] /\ table[k][i] # NoRow
    BY <1>1, <1>2, <1>5, <1>7 DEF Record!Write
  <2>2. PICK row, x : /\ row = table[k][i]
                      /\ x = [c \in DOMAIN row |-> IF new[c] # old[c] THEN new[c] ELSE row[c]]
    OBVIOUS
  <2>3. table' = [table EXCEPT ![k][i] = x]
    BY <1>3, <1>6, <2>1, <2>2 DEF Record!Merge
  <2>4. x = new
    <3>1. row = old
      BY <1>4, <1>5, <2>2
    <3> QED BY <1>6, <2>2, <3>1 DEF Rows
  <2> QED BY <1>2, <1>3, <1>4, <1>5, <2>3, <2>4
<1>8. CASE UNCHANGED table
  BY <1>2, <1>3, <1>4, <1>8
<1> QED BY <1>7, <1>8

\* One request at a time, its copy stays true.
LEMMA RecordSerialStep ==
    ASSUME Record!RecordsAssumption, [Record!Next]_(Record!vars), RecordSerial,
           RecTyped(Users, Requests, MaxId, MaxTime + 2, {"write", "delete"})
    PROVE  RecordSerial'
<1>1. /\ MaxId \in Nat /\ Record!NoRow = NoRow /\ Record!NoReq = NoAsk /\ NoAsk.op = "none"
      /\ Record!Ids = 1..MaxId /\ RowsOK(Users, MaxId, MaxTime + 2)
      /\ req \in [Requests -> Asks(Users)]
  BY DEF Record!RecordsAssumption, Record!NoRow, Record!NoReq, Record!None, NoRow, NoAsk,
         Record!Ids, RecTyped, AsksOK
<1>2. ASSUME \A s \in Requests : req'[s] = NoAsk,
             \A k \in Tabs, i \in 1..MaxId : Good(k, table'[k][i])
      PROVE  RecordSerial'
  BY <1>1, <1>2 DEF RecordSerial
<1>3. CASE UNCHANGED Record!vars
  BY <1>3 DEF Record!vars, RecordSerial, Chosen
<1>4. ASSUME NEW k \in Tabs, NEW x \in Rows(Users), Good(k, x), Record!Insert(k, x)
      PROVE  RecordSerial'
  <2>1. /\ \A s \in Requests : req[s] = NoAsk
        /\ UNCHANGED req
    BY <1>1, <1>4 DEF Record!Insert, Record!Quiet
  <2>2. PICK i \in 1..MaxId : table' = [table EXCEPT ![k][i] = x]
    BY <1>1, <1>4 DEF Record!Insert
  <2>3. \A l \in Tabs, j \in 1..MaxId : Good(l, table'[l][j])
    BY <1>1, <1>4, <2>2, GoodPut DEF RecordSerial
  <2> QED BY <1>2, <2>1, <2>3
<1>5. ASSUME NEW r \in Requests, NEW q \in Asks(Users), Chosen(q), Record!Begin(r, q)
      PROVE  RecordSerial'
  <2>1. /\ \A s \in Requests : req[s] = NoAsk
        /\ req' = [req EXCEPT ![r] = q] /\ UNCHANGED table
    BY <1>1, <1>5 DEF Record!Begin, Record!Free
  <2>2. req'[r] = q /\ \A s \in Requests \ {r} : req'[s] = NoAsk
    BY <1>1, <2>1
  <2>3. Chosen(q)'
    BY <1>5, <2>1 DEF Chosen
  <2>4. ASSUME NEW s \in Requests, req'[s].op # "none" PROVE s = r /\ Chosen(req[s])'
    <3>1. s = r
      BY <1>1, <2>2, <2>4
    <3>2. req'[s] = q
      BY <2>2, <3>1
    <3> QED BY <2>3, <3>1, <3>2 DEF Chosen
  <2>5. \A l \in Tabs, j \in 1..MaxId : Good(l, table'[l][j])
    BY <2>1 DEF RecordSerial
  <2> QED BY <2>4, <2>5 DEF RecordSerial
<1>6. CASE Record!download_saved_document
  BY <1>6 DEF Record!download_saved_document, RecordSerial, Chosen
<1>7. ASSUME NEW r \in Requests, Record!Write(r) PROVE RecordSerial'
  <2>1. /\ req[r].op # "none" /\ req[r].table \in Tabs /\ req[r].id \in 1..MaxId
        /\ Good(req[r].table, req[r].new)
        /\ \/ UNCHANGED table
           \/ table' = [table EXCEPT ![req[r].table][req[r].id] = req[r].new]
    BY <1>7, RecordWrites
  <2>2. \A s \in Requests : req'[s] = NoAsk
    BY <1>7, <2>1, RecordEnds DEF Record!Write
  <2>3. \A l \in Tabs, j \in 1..MaxId : Good(l, table'[l][j])
    BY <1>1, <2>1, GoodPut DEF RecordSerial
  <2> QED BY <1>2, <2>2, <2>3
<1>8. ASSUME NEW r \in Requests, Record!Delete(r) PROVE RecordSerial'
  <2>1. req[r].op = "delete" /\ req[r].table \in Tabs /\ req[r].id \in 1..MaxId
    BY <1>8 DEF Record!Delete, RecTyped, AsksOK, AskOK
  <2>2. \A s \in Requests : req'[s] = NoAsk
    BY <1>8, <2>1, RecordEnds DEF Record!Delete
  <2>3. table' = [table EXCEPT ![req[r].table][req[r].id] = NoRow]
    BY <1>1, <1>8 DEF Record!Delete
  <2>4. \A l \in Tabs, j \in 1..MaxId : Good(l, table'[l][j])
    BY <1>1, <2>1, <2>3, GoodPut, GoodNothing DEF RecordSerial
  <2> QED BY <1>2, <2>2, <2>4
<1> QED BY <1>3, <1>4, <1>5, <1>6, <1>7, <1>8, RecordShape

\* A request changes only rows of its user.
LEMMA RecordScope ==
    ASSUME Record!RecordsAssumption, [Record!Next]_(Record!vars), RecordSerial,
           RecTyped(Users, Requests, MaxId, MaxTime + 2, {"write", "delete"})
    PROVE  Record!OwnerScope
<1>1. /\ MaxId \in Nat /\ Record!NoRow = NoRow /\ Record!NoReq = NoAsk /\ Record!Tables = Tabs
      /\ Record!Ids = 1..MaxId /\ RowsOK(Users, MaxId, MaxTime + 2)
      /\ req \in [Requests -> Asks(Users)]
  BY DEF Record!RecordsAssumption, Record!NoRow, Record!NoReq, Record!None, NoRow, NoAsk,
         Record!Ids, Record!Tables, Tabs, RecTyped, AsksOK
<1> SUFFICES ASSUME NEW r \in Requests, NEW k \in Tabs, NEW i \in 1..MaxId, req[r] # NoAsk,
                    req'[r] = NoAsk, table[k][i].owner # req[r].user
             PROVE  table'[k][i] = table[k][i]
  BY <1>1 DEF Record!OwnerScope
<1>2. CASE UNCHANGED Record!vars
  BY <1>2 DEF Record!vars
<1>3. ASSUME NEW s \in Requests, Record!Write(s) \/ Record!Delete(s) PROVE table'[k][i] = table[k][i]
  <2>1. /\ req[s].op # "none" /\ Record!Ends(s) /\ req[s].table \in Tabs /\ req[s].id \in 1..MaxId
        /\ \/ UNCHANGED table
           \/ \E x : Good(req[s].table, x) /\ table' = [table EXCEPT ![req[s].table][req[s].id] = x]
    <3>1. CASE Record!Write(s)
      BY <3>1, RecordWrites DEF Record!Write
    <3>2. CASE Record!Delete(s)
      BY <1>1, <3>2, GoodNothing DEF Record!Delete, RecTyped, AsksOK, AskOK
    <3> QED BY <1>3, <3>1, <3>2
  <2>2. s = r
    BY <2>1, RecordEnds
  <2>3. table[req[r].table][req[r].id].owner = req[r].user
    BY <2>1, <2>2 DEF RecordSerial, Chosen
  <2>4. ~(k = req[r].table /\ i = req[r].id)
    BY <2>3
  <2>5. CASE UNCHANGED table
    BY <2>5
  <2>6. ASSUME NEW x, Good(req[s].table, x),
               table' = [table EXCEPT ![req[s].table][req[s].id] = x]
        PROVE  table'[k][i] = table[k][i]
    BY <1>1, <2>1, <2>2, <2>4, <2>6 DEF RowsOK
  <2> QED BY <2>1, <2>5, <2>6
<1>4. ASSUME NEW l \in Tabs, NEW x \in Rows(Users), Record!Insert(l, x) PROVE FALSE
  BY <1>4 DEF Record!Insert
<1>5. ASSUME NEW s \in Requests, NEW q \in Asks(Users), Record!Begin(s, q) PROVE FALSE
  BY <1>1, <1>5 DEF Record!Begin, Record!Free
<1>6. CASE Record!download_saved_document
  BY <1>6 DEF Record!download_saved_document
<1> QED BY <1>2, <1>3, <1>4, <1>5, <1>6, RecordShape

\* What is left of it: the invariants of the run.
LEMMA RecordGives ==
    ASSUME Record!RecordsAssumption, RecordSerial,
           RecTyped(Users, Requests, MaxId, MaxTime + 2, {"write", "delete"})
    PROVE  Record!TypeOK /\ Record!EventOrdered /\ Record!TaskStamp
<1>1. Record!Ids = 1..MaxId /\ Record!Tables = Tabs /\ Record!NoRow = NoRow /\ Record!Times = 1..(MaxTime + 2)
  BY DEF Record!Ids, Record!Tables, Tabs, Record!NoRow, Record!None, NoRow, Record!Times
<1>2. /\ \A k \in Tabs, i \in 1..MaxId : RowOK(Users, MaxTime + 2, k, table[k][i])
      /\ LogsOK(Users, MaxId)
  BY DEF RecTyped, RowsOK
<1>3. Record!TypeOK
  BY <1>1, <1>2 DEF Record!TypeOK, RowOK, LogsOK, Tabs
<1>4. \A i \in 1..MaxId : Good("event", table["event"][i]) /\ Good("task", table["task"][i])
  BY DEF RecordSerial, Tabs
<1>5. Record!EventOrdered /\ Record!TaskStamp
  BY <1>1, <1>4 DEF Record!EventOrdered, Record!TaskStamp, Record!Ordered, Good
<1> QED BY <1>3, <1>5

\* What a step of the routes is: a new row, a request that begins with the row it
\* read, a download, or the end of a request.
LEMMA RecordsShape ==
    ASSUME Records!RecordsAssumption, Records!Next,
           RecTyped(Users, Requests, MaxId, MaxTime, {"write", "delete"})
    PROVE  \/ \E k \in Tabs, x \in Rows(Users) :
                 RowOK(Users, MaxTime, k, x) /\ Good(k, x) /\ Records!Insert(k, x)
           \/ \E r \in Requests, q \in Asks(Users) :
                 /\ AskOK(Users, MaxId, MaxTime, q) /\ q.op \in {"write", "delete"} /\ Chosen(q)
                 /\ Records!Begin(r, q)
           \/ Records!download_saved_document
           \/ \E r \in Requests : Records!Write(r) \/ Records!Delete(r)
<1> DEFINE Shape == \/ \E k \in Tabs, x \in Rows(Users) :
                           RowOK(Users, MaxTime, k, x) /\ Good(k, x) /\ Records!Insert(k, x)
                    \/ \E r \in Requests, q \in Asks(Users) :
                           /\ AskOK(Users, MaxId, MaxTime, q) /\ q.op \in {"write", "delete"} /\ Chosen(q)
                           /\ Records!Begin(r, q)
<1>1. /\ MaxId \in Nat /\ MaxTime \in Nat /\ "none" \notin Users
      /\ Records!NoRow = NoRow /\ Records!NoReq = NoAsk /\ Records!Tables = Tabs
      /\ Records!Ids = 1..MaxId /\ Records!Times = 1..MaxTime
  BY DEF Records!RecordsAssumption, Records!NoRow, Records!NoReq, Records!None, NoRow, NoAsk,
         Records!Tables, Tabs, Records!Ids, Records!Times
<1>2. /\ RowsOK(Users, MaxId, MaxTime) /\ LogsOK(Users, MaxId)
      /\ AsksOK(Users, Requests, MaxId, MaxTime, {"write", "delete"})
      /\ table \in [Tabs -> [1..MaxId -> Rows(Users)]]
  BY DEF RecTyped, RowsOK
<1>3. \A r \in Requests : req[r].op \in {"none", "write", "delete"}
  BY DEF RecTyped, AsksOK
<1>4. ASSUME NEW k \in Tabs, NEW x \in Rows(Users), RowOK(Users, MaxTime, k, x), Good(k, x),
             Records!Insert(k, x)
      PROVE  Shape
  BY <1>4
<1>5. ASSUME NEW r \in Requests, NEW k \in Tabs, NEW i \in 1..MaxId, NEW u \in Users,
             NEW new \in Rows(Users), Change(Users, MaxTime, k, table[k][i], new), Good(k, new),
             table[k][i].owner = u, Records!Begin(r, WriteOf(u, k, i, table[k][i], new))
      PROVE  Shape
  <2>1. PICK q : q = WriteOf(u, k, i, table[k][i], new)
    OBVIOUS
  <2>2. /\ q \in Asks(Users) /\ q.op = "write" /\ q.user = u /\ q.table = k /\ q.id = i
        /\ q.copy = table[k][i] /\ q.new = new
    <3>1. i \in Nat /\ table[k][i] \in Rows(Users)
      BY <1>1, <1>2
    <3> QED BY <2>1, <3>1, WriteAsk
  <2>3. AskOK(Users, MaxId, MaxTime, q)
    BY <1>5, <2>2 DEF AskOK
  <2>4. Chosen(q)
    BY <1>5, <2>2 DEF Chosen
  <2> QED BY <1>5, <2>1, <2>2, <2>3, <2>4
<1>6. ASSUME Records!create_event PROVE Shape
  <2>1. PICK u \in Users : \E s \in 1..MaxTime, e \in {0} \cup 1..MaxTime :
          Records!Ordered(EventRow(u, s, e)) /\ Records!Insert("event", EventRow(u, s, e))
    BY <1>1, <1>6, Zenon DEF Records!create_event, EventRow
  <2>2. PICK s \in Nat, e \in Nat :
          s \in 1..MaxTime /\ (e = 0 \/ e >= s) /\ Records!Insert("event", EventRow(u, s, e))
    <3>1. PICK s \in Nat, e \in Nat :
            /\ s \in 1..MaxTime
            /\ Records!Ordered(EventRow(u, s, e)) /\ Records!Insert("event", EventRow(u, s, e))
      BY <1>1, <2>1
    <3>2. EventRow(u, s, e).starts = s /\ EventRow(u, s, e).ends = e
      BY NewEvent
    <3> QED BY <3>1, <3>2 DEF Records!Ordered
  <2>3. /\ EventRow(u, s, e) \in Rows(Users) /\ EventRow(u, s, e).owner = u
        /\ EventRow(u, s, e).starts = s /\ EventRow(u, s, e).ends = e
    BY NewEvent
  <2>4. RowOK(Users, MaxTime, "event", EventRow(u, s, e)) /\ Good("event", EventRow(u, s, e))
    BY <2>2, <2>3 DEF RowOK, Good
  <2> QED BY <1>4, <2>2, <2>3, <2>4 DEF Tabs
<1>7. ASSUME Records!create_task PROVE Shape
  <2>1. PICK u \in Users : Records!Insert("task", StatusRow(u, "todo"))
    BY <1>1, <1>7 DEF Records!create_task, StatusRow
  <2>2. /\ StatusRow(u, "todo") \in Rows(Users) /\ StatusRow(u, "todo").owner = u
        /\ StatusRow(u, "todo").status = "todo" /\ StatusRow(u, "todo").done = 0
    BY NewStatus
  <2>3. RowOK(Users, MaxTime, "task", StatusRow(u, "todo")) /\ Good("task", StatusRow(u, "todo"))
    BY <2>2 DEF RowOK, Good
  <2> QED BY <1>4, <2>1, <2>2, <2>3 DEF Tabs
<1>8. ASSUME Records!request_document_save PROVE Shape
  <2>1. PICK u \in Users : Records!Insert("doc", StatusRow(u, "pending"))
    BY <1>1, <1>8 DEF Records!request_document_save, StatusRow
  <2>2. /\ StatusRow(u, "pending") \in Rows(Users) /\ StatusRow(u, "pending").owner = u
        /\ StatusRow(u, "pending").status = "pending" /\ StatusRow(u, "pending").done = 0
    BY NewStatus
  <2>3. RowOK(Users, MaxTime, "doc", StatusRow(u, "pending")) /\ Good("doc", StatusRow(u, "pending"))
    BY <2>2 DEF RowOK, Good
  <2> QED BY <1>4, <2>1, <2>2, <2>3 DEF Tabs
<1>9. ASSUME NEW r \in Requests, Records!update_event(r) PROVE Shape
  <2>1. PICK u \in Users, i \in 1..MaxId, s \in Nat, e \in Nat :
          /\ table["event"][i].owner = u /\ s \in 1..MaxTime
          /\ Records!Ordered(Timed(table["event"][i], s, e))
          /\ Records!Begin(r, WriteOf(u, "event", i, table["event"][i],
                                     Timed(table["event"][i], s, e)))
    <3>1. PICK u \in Users :
            \E i \in Records!Owned("event", u), s \in 1..MaxTime, e \in {0} \cup 1..MaxTime :
              /\ Records!Ordered(Timed(table["event"][i], s, e))
              /\ Records!Begin(r, WriteOf(u, "event", i, table["event"][i],
                                         Timed(table["event"][i], s, e)))
      BY <1>1, <1>9, Zenon DEF Records!update_event, WriteOf, Timed
    <3> QED BY <1>1, <3>1 DEF Records!Owned
  <2>2. PICK copy \in Rows(Users) : copy = table["event"][i]
    BY <1>2 DEF Tabs
  <2>3. PICK new : new = Timed(copy, s, e)
    OBVIOUS
  <2>4. new \in Rows(Users) /\ new.owner = copy.owner /\ new.starts = s /\ new.ends = e
    <3>1. /\ Timed(copy, s, e) \in Rows(Users) /\ Timed(copy, s, e).owner = copy.owner
          /\ Timed(copy, s, e).starts = s /\ Timed(copy, s, e).ends = e
      BY NewTimes
    <3> QED BY <2>3, <3>1
  <2>5. new # NoRow /\ new.owner \in Users
    BY <1>1, <2>1, <2>2, <2>4 DEF NoRow
  <2>6. Change(Users, MaxTime, "event", copy, new)
    BY <2>1, <2>4, <2>5 DEF Change, RowOK
  <2>7. Good("event", new)
    BY <2>1, <2>2, <2>3, <2>4 DEF Good, Records!Ordered
  <2> QED BY <1>5, <2>1, <2>2, <2>3, <2>4, <2>6, <2>7 DEF Tabs
<1>10. ASSUME NEW r \in Requests, Records!update_task(r) PROVE Shape
  <2>1. PICK u \in Users, i \in 1..MaxId, s \in {"todo", "doing", "done"} :
          /\ table["task"][i].owner = u
          /\ Records!Begin(r, WriteOf(u, "task", i, table["task"][i],
                                     Records!WithStatus(table["task"][i], s)))
    <3>1. PICK u \in Users : \E i \in Records!Owned("task", u), s \in {"todo", "doing", "done"} :
            Records!Begin(r, WriteOf(u, "task", i, table["task"][i],
                                    Records!WithStatus(table["task"][i], s)))
      BY <1>1, <1>10, Zenon DEF Records!update_task, WriteOf
    <3> QED BY <1>1, <3>1 DEF Records!Owned
  <2>2. PICK copy \in Rows(Users) : copy = table["task"][i]
    BY <1>2 DEF Tabs
  <2>3. PICK new : new = Records!WithStatus(copy, s)
    OBVIOUS
  <2>4. /\ new \in Rows(Users) /\ new.owner = copy.owner /\ new.status = s
        /\ new.done # 0 <=> s = "done"
    <3>1. PICK d \in 0..2 : d = IF s # "done" THEN 0 ELSE IF copy.done = 1 THEN 2 ELSE 1
      OBVIOUS
    <3>2. new = Stamped(copy, s, d)
      BY <2>3, <3>1, Zenon DEF Records!WithStatus, Stamped
    <3>3. /\ Stamped(copy, s, d) \in Rows(Users) /\ Stamped(copy, s, d).owner = copy.owner
          /\ Stamped(copy, s, d).status = s /\ Stamped(copy, s, d).done = d
      BY NewStamp
    <3> QED BY <3>1, <3>2, <3>3
  <2>5. new # NoRow /\ new.owner \in Users
    BY <1>1, <2>1, <2>2, <2>4 DEF NoRow
  <2>6. Change(Users, MaxTime, "task", copy, new)
    BY <2>4, <2>5 DEF Change, RowOK
  <2>7. Good("task", new)
    BY <2>4 DEF Good
  <2> QED BY <1>5, <2>1, <2>2, <2>3, <2>4, <2>6, <2>7 DEF Tabs
<1>11. ASSUME NEW r \in Requests, Records!approve_document(r) PROVE Shape
  <2>1. PICK u \in Users, i \in 1..MaxId :
          /\ table["doc"][i].owner = u
          /\ Records!Begin(r, WriteOf(u, "doc", i, table["doc"][i], Marked(table["doc"][i], "approved")))
    <3>1. PICK u \in Users : \E i \in Records!Owned("doc", u) :
            Records!Begin(r, WriteOf(u, "doc", i, table["doc"][i], Marked(table["doc"][i], "approved")))
      BY <1>1, <1>11, Zenon DEF Records!approve_document, WriteOf, Marked
    <3> QED BY <1>1, <3>1 DEF Records!Owned
  <2>2. PICK copy \in Rows(Users) : copy = table["doc"][i]
    BY <1>2 DEF Tabs
  <2>3. PICK new : new = Marked(copy, "approved")
    OBVIOUS
  <2>4. new \in Rows(Users) /\ new.owner = copy.owner /\ new.status = "approved"
    BY <2>3, NewMark
  <2>5. new # NoRow /\ new.owner \in Users
    BY <1>1, <2>1, <2>2, <2>4 DEF NoRow
  <2>6. Change(Users, MaxTime, "doc", copy, new)
    BY <2>4, <2>5 DEF Change, RowOK
  <2>7. Good("doc", new)
    BY DEF Good
  <2> QED BY <1>5, <2>1, <2>2, <2>3, <2>4, <2>6, <2>7 DEF Tabs
<1>12. ASSUME NEW r \in Requests, NEW k \in Tabs, Records!DeleteRow(r, k) PROVE Shape
  <2>0. PICK u \in Users, i \in 1..MaxId :
          \E q : table[k][i].owner = u /\ q = AskOf("delete", u, k, i) /\ Records!Begin(r, q)
    BY <1>1, <1>12, Zenon DEF Records!DeleteRow, Records!Owned, AskOf
  <2>1. PICK q :
          table[k][i].owner = u /\ q = AskOf("delete", u, k, i) /\ Records!Begin(r, q)
    BY <2>0, Zenon
  <2>2. q \in Asks(Users) /\ q.op = "delete" /\ q.user = u /\ q.table = k /\ q.id = i
    <3>1. i \in Nat /\ "delete" \in Ops
      BY <1>1 DEF Ops
    <3>2. q = AskOf("delete", u, k, i)
      BY <2>1
    <3> QED BY <3>1, <3>2, OtherAsk
  <2>3. AskOK(Users, MaxId, MaxTime, q)
    BY <2>2 DEF AskOK
  <2>4. Chosen(q)
    BY <2>1, <2>2 DEF Chosen
  <2> QED BY <2>1, <2>2, <2>3, <2>4
<1>13. ASSUME NEW r \in Requests,
              \/ Records!delete_event(r) \/ Records!delete_task_item(r)
              \/ Records!delete_saved_document(r)
       PROVE  Shape
  BY <1>12, <1>13 DEF Records!delete_event, Records!delete_task_item,
     Records!delete_saved_document, Tabs
<1>14. ASSUME NEW r \in Requests
       PROVE  /\ ~ Records!orchestrate(r) /\ ~ Records!FindSession(r) /\ ~ Records!SaveMessage(r)
              /\ ~ Records!delete_chat_session(r) /\ ~ Records!Forget(r)
  BY <1>3 DEF Records!orchestrate, Records!FindSession, Records!SaveMessage,
     Records!delete_chat_session, Records!Forget
<1> QED BY <1>6, <1>7, <1>8, <1>9, <1>10, <1>11, <1>13, <1>14 DEF Records!Next

\* A step of the routes keeps the types.
LEMMA RecordsTyped ==
    ASSUME Records!RecordsAssumption, [Records!Next]_(Records!vars),
           RecTyped(Users, Requests, MaxId, MaxTime, {"write", "delete"})
    PROVE  RecTyped(Users, Requests, MaxId, MaxTime, {"write", "delete"})'
<1> DEFINE Inv == RecTyped(Users, Requests, MaxId, MaxTime, {"write", "delete"})
<1>1. /\ MaxId \in Nat /\ MaxTime \in Nat /\ "none" \notin Users
      /\ Records!NoRow = NoRow /\ Records!NoReq = NoAsk /\ Records!Tables = Tabs
      /\ Records!Ids = 1..MaxId /\ Records!Times = 1..MaxTime
  BY DEF Records!RecordsAssumption, Records!NoRow, Records!NoReq, Records!None, NoRow, NoAsk,
         Records!Tables, Tabs, Records!Ids, Records!Times
<1>2. /\ RowsOK(Users, MaxId, MaxTime) /\ LogsOK(Users, MaxId)
      /\ AsksOK(Users, Requests, MaxId, MaxTime, {"write", "delete"})
      /\ table \in [Tabs -> [1..MaxId -> Rows(Users)]]
  BY DEF RecTyped, RowsOK
<1>3. \A r \in Requests : req[r].op \in {"none", "write", "delete"}
  BY DEF RecTyped, AsksOK
<1>4. ASSUME Records!record_activity, UNCHANGED message PROVE LogsOK(Users, MaxId)'
  BY <1>2, <1>4 DEF LogsOK, Records!record_activity
<1>5. CASE UNCHANGED Records!vars
  BY <1>5 DEF Records!vars, RecTyped, RowsOK, AsksOK, LogsOK
<1>6. ASSUME NEW k \in Tabs, NEW x \in Rows(Users), RowOK(Users, MaxTime, k, x), Records!Insert(k, x)
      PROVE  Inv'
  <2>1. PICK i \in 1..MaxId : table' = [table EXCEPT ![k][i] = x]
    BY <1>1, <1>6 DEF Records!Insert
  <2>2. RowsOK(Users, MaxId, MaxTime)'
    BY <1>1, <1>2, <1>6, <2>1, RowPut
  <2> QED BY <1>2, <1>4, <1>6, <2>2 DEF Records!Insert, RecTyped, AsksOK
<1>7. ASSUME NEW r \in Requests, NEW q \in Asks(Users), AskOK(Users, MaxId, MaxTime, q),
             q.op \in {"write", "delete"}, Records!Begin(r, q)
      PROVE  Inv'
  <2>1. req' = [req EXCEPT ![r] = q] /\ UNCHANGED <<table, message, activity>>
    BY <1>7 DEF Records!Begin
  <2>2. AsksOK(Users, Requests, MaxId, MaxTime, {"write", "delete"})'
    BY <1>1, <1>2, <1>7, <2>1, AskPut
  <2> QED BY <2>1, <2>2 DEF RecTyped, RowsOK, LogsOK
<1>8. CASE Records!download_saved_document
  BY <1>2, <1>4, <1>8 DEF Records!download_saved_document, RecTyped, RowsOK, AsksOK
<1>9. ASSUME NEW r \in Requests, Records!Ends(r)
       PROVE  AsksOK(Users, Requests, MaxId, MaxTime, {"write", "delete"})'
  BY <1>1, <1>2, <1>9, AskPut, Nothing DEF Records!Ends
<1>10. ASSUME NEW r \in Requests, Records!Write(r) PROVE Inv'
  <2>1. PICK q, k, i : q = req[r] /\ k = q.table /\ i = q.id
    OBVIOUS
  <2>2. /\ q \in Asks(Users) /\ k \in Tabs /\ i \in 1..MaxId
        /\ Change(Users, MaxTime, k, q.copy, q.new) /\ q.copy \in Rows(Users) /\ q.new \in Rows(Users)
    BY <1>2, <1>10, <2>1 DEF Records!Write, AsksOK, AskOK, Asks
  <2>3. AsksOK(Users, Requests, MaxId, MaxTime, {"write", "delete"})'
    BY <1>9, <1>10 DEF Records!Write
  <2>4. LogsOK(Users, MaxId)'
    BY <1>2, <1>4, <1>10 DEF Records!Write, LogsOK
  <2>5. CASE UNCHANGED table
    BY <1>2, <2>3, <2>4, <2>5 DEF RecTyped, RowsOK
  <2>6. CASE table' # table
    <3>1. /\ table[k][i] # NoRow
          /\ table' = [table EXCEPT ![k][i] = Records!Merge(@, q.copy, q.new)]
      BY <1>1, <1>10, <2>1, <2>6 DEF Records!Write
    <3>2. PICK row, x : /\ row = table[k][i]
                        /\ x = [c \in DOMAIN row |-> IF q.new[c] # q.copy[c] THEN q.new[c] ELSE row[c]]
      OBVIOUS
    <3>3. row \in Rows(Users) /\ RowOK(Users, MaxTime, k, row)
      BY <1>2, <2>2, <3>2 DEF RowsOK
    <3>4. x \in Rows(Users) /\ RowOK(Users, MaxTime, k, x)
      <4>1. PICK old, new : old = q.copy /\ new = q.new
        OBVIOUS
      <4>2. /\ old \in Rows(Users) /\ new \in Rows(Users) /\ k \in Tabs /\ row # NoRow
            /\ Change(Users, MaxTime, k, old, new)
            /\ x = [c \in DOMAIN row |-> IF new[c] # old[c] THEN new[c] ELSE row[c]]
        BY <2>2, <3>1, <3>2, <4>1
      <4> QED BY <3>3, <4>2, Merged
    <3>5. table' = [table EXCEPT ![k][i] = x]
      BY <1>2, <2>2, <3>1, <3>2 DEF Records!Merge
    <3>6. RowsOK(Users, MaxId, MaxTime)'
      BY <1>1, <1>2, <2>2, <3>4, <3>5, RowPut
    <3> QED BY <2>3, <2>4, <3>6 DEF RecTyped
  <2> QED BY <2>5, <2>6
<1>11. ASSUME NEW r \in Requests, Records!Delete(r) PROVE Inv'
  <2>1. req[r].table \in Tabs /\ req[r].id \in 1..MaxId
    BY <1>2, <1>11 DEF Records!Delete, AsksOK, AskOK
  <2>2. RowsOK(Users, MaxId, MaxTime)'
    BY <1>1, <1>2, <1>11, <2>1, RowPut, Nothing DEF Records!Delete
  <2> QED BY <1>4, <1>9, <1>11, <2>2 DEF Records!Delete, RecTyped
<1> QED BY <1>5, <1>6, <1>7, <1>8, <1>10, <1>11, RecordsShape

\* Whatever changes a record commits an activity.
LEMMA RecordsLogged ==
    ASSUME Records!RecordsAssumption, [Records!Next]_(Records!vars),
           RecTyped(Users, Requests, MaxId, MaxTime, {"write", "delete"})
    PROVE  Records!ChangesLogged
<1>1. activity \in {0, 1}
  BY DEF RecTyped, LogsOK
<1>2. Records!record_activity => activity' # activity
  BY <1>1 DEF Records!record_activity
<1>3. Records!record_activity \/ UNCHANGED table
  <2>1. CASE UNCHANGED Records!vars
    BY <2>1 DEF Records!vars
  <2>2. CASE \E k \in Tabs, x \in Rows(Users) : Records!Insert(k, x)
    BY <2>2 DEF Records!Insert
  <2>3. CASE \E r \in Requests, q \in Asks(Users) : Records!Begin(r, q)
    BY <2>3 DEF Records!Begin
  <2>4. CASE Records!download_saved_document
    BY <2>4 DEF Records!download_saved_document
  <2>5. CASE \E r \in Requests : Records!Write(r) \/ Records!Delete(r)
    BY <2>5 DEF Records!Write, Records!Delete
  <2> QED BY <2>1, <2>2, <2>3, <2>4, <2>5, RecordsShape
<1> QED BY <1>2, <1>3 DEF Records!ChangesLogged

\* What the types of the small tables give.
LEMMA RecordsGives ==
    ASSUME RecTyped(Users, Requests, MaxId, MaxTime, {"write", "delete"})
    PROVE  Records!TypeOK
<1>1. /\ Records!Ids = 1..MaxId /\ Records!Tables = Tabs /\ Records!NoRow = NoRow
      /\ Records!Times = 1..MaxTime
  BY DEF Records!Ids, Records!Tables, Tabs, Records!NoRow, Records!None, NoRow, Records!Times
<1>2. /\ \A k \in Tabs, i \in 1..MaxId : RowOK(Users, MaxTime, k, table[k][i])
      /\ LogsOK(Users, MaxId)
  BY DEF RecTyped, RowsOK
<1> QED BY <1>1, <1>2 DEF Records!TypeOK, RowOK, LogsOK, Tabs

-----------------------------------------------------------------------------
(* The chat.                                                               *)

\* The row that a chat is about, when one title matched, and the request.
KindOf(kinds) == IF "task.done" \in kinds THEN "task" ELSE "event"
IdOf(c, matches) == IF c = 1 THEN CHOOSE i \in matches : TRUE ELSE 0
CopyOf(c, kinds, matches) ==
    IF c = 1 THEN table[KindOf(kinds)][IdOf(c, matches)] ELSE NoRow
RunOf(u, kinds, by, sid, k, id, copy, new, logs) ==
    [NoAsk EXCEPT !.op = "run", !.user = u, !.kinds = kinds, !.by = by, !.sid = sid,
                  !.table = k, !.id = id, !.copy = copy, !.new = new, !.logs = logs]

\* What a chat that has been routed asks for.
LEMMA RunAsk ==
    ASSUME NEW U, NEW u \in U, NEW kinds \in Plans, NEW by \in Ways, NEW sid \in Nat,
           NEW k \in Tabs, NEW id \in Nat, NEW copy \in Rows(U), NEW new \in Rows(U),
           NEW logs \in BOOLEAN, NEW q, q = RunOf(u, kinds, by, sid, k, id, copy, new, logs)
    PROVE  /\ q \in Asks(U) /\ q.op = "run" /\ q.user = u /\ q.table = k /\ q.id = id
           /\ q.copy = copy /\ q.new = new /\ q.kinds = kinds /\ q.by = by /\ q.sid = sid
<1>1. q = [op |-> "run", user |-> u, table |-> k, id |-> id, copy |-> copy, new |-> new,
           kinds |-> kinds, by |-> by, logs |-> logs, sid |-> sid]
  BY DEF NoAsk, RunOf
<1>2. q \in Asks(U)
  <2>1. "run" \in Ops /\ u \in U \cup {"none"} /\ k \in Tabs \cup {"none"}
    BY DEF Ops
  <2>2. [op |-> "run", user |-> u, table |-> k, id |-> id, copy |-> copy, new |-> new,
         kinds |-> kinds, by |-> by, logs |-> logs, sid |-> sid] \in Asks(U)
    BY <2>1, AskRecord
  <2> QED BY <1>1, <2>2, Zenon
<1> QED BY <1>1, <1>2

\* The same request, now about to write.
LEMMA SaveAsk ==
    ASSUME NEW U, NEW q \in Asks(U), NEW p, p = [q EXCEPT !.op = "save"]
    PROVE  /\ p \in Asks(U) /\ p.op = "save" /\ p.user = q.user /\ p.id = q.id /\ p.sid = q.sid
           /\ p.copy = q.copy /\ p.new = q.new /\ p.kinds = q.kinds /\ p.by = q.by
<1>1. "save" \in Ops
  BY DEF Ops
<1> QED BY <1>1 DEF Asks

\* The rows that a value of the tables holds are of the type.
RowsIn(f, U, n, T) ==
    /\ f \in [Tabs -> [1..n -> Rows(U)]]
    /\ \A k \in Tabs, i \in 1..n : RowOK(U, T, k, f[k][i])

Put(f, k, i, x) == [f EXCEPT ![k][i] = x]

\* A table in which one row is replaced.
LEMMA RowsInPut ==
    ASSUME NEW U, NEW n \in Nat, NEW T, NEW f, RowsIn(f, U, n, T), NEW k \in Tabs,
           NEW i \in 1..n, NEW x \in Rows(U), RowOK(U, T, k, x)
    PROVE  /\ RowsIn(Put(f, k, i, x), U, n, T) /\ Put(f, k, i, x)[k][i] = x
           /\ \A l \in Tabs : l # k => Put(f, k, i, x)[l] = f[l]
           /\ \A j \in 1..n : j # i => Put(f, k, i, x)[k][j] = f[k][j]
<1>1. PICK g : g = Put(f, k, i, x)
  OBVIOUS
<1>2. g \in [Tabs -> [1..n -> Rows(U)]] /\ g[k][i] = x
  BY <1>1 DEF RowsIn, Put
<1>3. ASSUME NEW l \in Tabs, l # k PROVE g[l] = f[l]
  BY <1>1, <1>3 DEF RowsIn, Put
<1>4. ASSUME NEW j \in 1..n, j # i PROVE g[k][j] = f[k][j]
  BY <1>1, <1>4 DEF RowsIn, Put
<1>5. ASSUME NEW l \in Tabs, NEW j \in 1..n PROVE RowOK(U, T, l, g[l][j])
  BY <1>2, <1>3, <1>4 DEF RowsIn
<1>6. RowsIn(g, U, n, T)
  BY <1>2, <1>5 DEF RowsIn
<1> QED BY <1>1, <1>2, <1>3, <1>4, <1>6

\* What the rules and the model make of an utterance.
LEMMA TalkRoutes ==
    ASSUME NEW to \in Talk!Routes
    PROVE  /\ to.kinds \in Intents /\ to.by \in {"rule", "llm"}
           /\ to.by = "llm" => to.kinds \in {{"document"}, {"schedule.list"}, {"help"}, {"knowledge"}}
<1>1. PICK w, c : to = Talk!Routed(w, c)
  BY DEF Talk!Routes
<1>2. Talk!classify(w) \in Intents
  <2>1. PICK d, e : /\ d = (IF w \cap {"when"} # {} /\ w \cap {"add", "book"} # {}
                            THEN {"schedule.create"} ELSE {})
                    /\ e = (IF w \cap {"report"} # {} /\ w \cap {"write"} # {}
                            THEN {"document"} ELSE {})
    OBVIOUS
  <2>2. d \cup e \in {{}, {"schedule.create"}, {"document"}, {"schedule.create", "document"}}
    BY <2>1
  <2>3. \/ Talk!classify(w) = d \cup e /\ d \cup e # {}
        \/ Talk!classify(w) \in {{"task.create"}, {"task.list"}, {"task.done"},
                {"schedule.delete"}, {"schedule.list"}, {"help"}, {"knowledge"}}
    BY <2>1, Zenon DEF Talk!classify
  <2> QED BY <2>2, <2>3 DEF Intents
<1>3. Talk!_llm_category_to_intent(c, w) \in {"document", "schedule.list", "help", "knowledge"}
  BY DEF Talk!_llm_category_to_intent
<1>4. \/ to = [kinds |-> {Talk!_llm_category_to_intent(c, w)}, by |-> "llm"]
      \/ to = [kinds |-> Talk!classify(w), by |-> "rule"]
  BY <1>1 DEF Talk!Routed
<1> QED BY <1>2, <1>3, <1>4 DEF Intents

\* The rows whose titles may match are of the user, and one that matches is there.
LEMMA TalkMatches ==
    ASSUME Talk!RecordsAssumption, RecTyped(User, Request, MaxId + 1, MaxTime, {"run", "save", "forget"}),
           NEW u \in User, NEW kinds \in Intents
    PROVE  \A i \in Talk!Candidates(kinds, u) : i \in 1..(MaxId + 1) /\ table[KindOf(kinds)][i].owner = u
<1>1. MaxId + 1 \in Nat /\ Talk!Ids = 1..(MaxId + 1)
  BY DEF Talk!RecordsAssumption, Talk!Ids
<1>2. CASE kinds = {"schedule.delete"}
  <2>1. "schedule.delete" \in kinds /\ "task.done" \notin kinds
    BY <1>2
  <2>2. Talk!Candidates(kinds, u) = Talk!Owned("event", u) /\ KindOf(kinds) = "event"
    BY <2>1 DEF Talk!Candidates, Talk!list_events, KindOf
  <2> QED BY <1>1, <2>2 DEF Talk!Owned
<1>3. CASE kinds = {"task.done"}
  <2>1. "schedule.delete" \notin kinds /\ "task.done" \in kinds
    BY <1>3
  <2>2. Talk!Candidates(kinds, u) \subseteq Talk!Owned("task", u) /\ KindOf(kinds) = "task"
    BY <2>1 DEF Talk!Candidates, Talk!list_tasks, KindOf
  <2> QED BY <1>1, <2>2 DEF Talk!Owned
<1>4. CASE kinds \in Intents \ {{"schedule.delete"}, {"task.done"}}
  <2>1. "schedule.delete" \notin kinds /\ "task.done" \notin kinds
    BY <1>4 DEF Intents
  <2>2. Talk!Candidates(kinds, u) = {}
    BY <2>1, Zenon DEF Talk!Candidates
  <2> QED BY <2>2
<1> QED BY <1>2, <1>3, <1>4

\* The set of one new chat row has that row.
LEMMA TalkOne ==
    ASSUME NEW S, Talk!Cardinality(S) = 1
    PROVE  S # {}
<1>1. Talk!Cardinality({}) = 0
  BY FS_EmptySet DEF Talk!Cardinality, Cardinality
<1>2. CASE S = {}
  BY <1>1, <1>2
<1> QED BY <1>2

\* What a step of the chat is.
LEMMA TalkShape ==
    ASSUME Talk!RecordsAssumption, Talk!Next,
           RecTyped(User, Request, MaxId + 1, MaxTime, {"run", "save", "forget"})
    PROVE  \/ \E r \in Request, q \in Asks(User) :
                 /\ AskOK(User, MaxId + 1, MaxTime, q) /\ q.op \in {"run", "forget"}
                 /\ Talk!Begin(r, q)
           \/ \E r \in Request : Talk!FindSession(r) \/ Talk!SaveMessage(r) \/ Talk!Forget(r)
<1> DEFINE Shape == \E r \in Request, q \in Asks(User) :
                       /\ AskOK(User, MaxId + 1, MaxTime, q) /\ q.op \in {"run", "forget"}
                       /\ Talk!Begin(r, q)
<1>1. /\ MaxId + 1 \in Nat /\ "none" \notin User
      /\ Talk!NoRow = NoRow /\ Talk!NoReq = NoAsk /\ Talk!Tables = Tabs /\ Talk!Ids = 1..(MaxId + 1)
      /\ table \in [Tabs -> [1..(MaxId + 1) -> Rows(User)]]
  BY DEF Talk!RecordsAssumption, Talk!NoRow, Talk!NoReq, Talk!None, NoRow, NoAsk,
         Talk!Tables, Tabs, Talk!Ids, RecTyped, RowsOK
<1>2. \A r \in Request : req[r].op \in {"none", "run", "save", "forget"}
  BY DEF RecTyped, AsksOK
<1>3. ASSUME NEW r \in Request, Talk!orchestrate(r) PROVE Shape
  <2>0. PICK u \in User, to \in Talk!Routes, sid \in {0} \cup 1..(MaxId + 1), found \in BOOLEAN :
          \E matches \in SUBSET Talk!Candidates(to.kinds, u) :
            Talk!Begin(r, RunOf(u, to.kinds, to.by, sid, KindOf(to.kinds),
              IdOf(Talk!Cardinality(matches), matches),
              CopyOf(Talk!Cardinality(matches), to.kinds, matches),
              IF Talk!Cardinality(matches) = 1 /\ KindOf(to.kinds) = "task"
              THEN Talk!WithStatus(CopyOf(Talk!Cardinality(matches), to.kinds, matches), "done")
              ELSE CopyOf(Talk!Cardinality(matches), to.kinds, matches),
              Talk!Recorded(to.kinds, matches, found)))
    BY <1>3, Zenon DEF Talk!orchestrate, RunOf, KindOf, IdOf, CopyOf, Talk!NoReq, Talk!NoRow,
                       Talk!None, Talk!Ids, NoAsk, NoRow
  <2>1. PICK matches, c :
          /\ matches \in SUBSET Talk!Candidates(to.kinds, u)
          /\ c = Talk!Cardinality(matches)
          /\ Talk!Begin(r, RunOf(u, to.kinds, to.by, sid, KindOf(to.kinds), IdOf(c, matches),
                CopyOf(c, to.kinds, matches),
                IF c = 1 /\ KindOf(to.kinds) = "task"
                THEN Talk!WithStatus(CopyOf(c, to.kinds, matches), "done")
                ELSE CopyOf(c, to.kinds, matches),
                Talk!Recorded(to.kinds, matches, found)))
    BY <2>0, Zenon
  <2>2. PICK k, id : k = KindOf(to.kinds) /\ id = IdOf(c, matches)
    OBVIOUS
  <2>3. PICK copy : copy = CopyOf(c, to.kinds, matches)
    OBVIOUS
  <2>4. PICK new : new = IF c = 1 /\ k = "task" THEN Talk!WithStatus(copy, "done") ELSE copy
    OBVIOUS
  <2>5. PICK logs \in BOOLEAN : logs = Talk!Recorded(to.kinds, matches, found)
    BY DEF Talk!Recorded
  <2>6. PICK q : q = RunOf(u, to.kinds, to.by, sid, k, id, copy, new, logs)
    OBVIOUS
  <2>7. Talk!Begin(r, q)
    BY <2>1, <2>2, <2>3, <2>4, <2>5, <2>6, Zenon
  <2>8. /\ to.kinds \in Intents /\ to.by \in {"rule", "llm"}
        /\ to.by = "llm" => to.kinds \in {{"document"}, {"schedule.list"}, {"help"}, {"knowledge"}}
    BY TalkRoutes
  <2>9. /\ id \in 0..(MaxId + 1) /\ k \in Tabs
        /\ c = 1 => id \in 1..(MaxId + 1) /\ table[k][id].owner = u
        /\ id # 0 => c = 1
    <3>1. \A i \in matches : i \in 1..(MaxId + 1) /\ table[k][i].owner = u
      <4>1. PICK kinds \in Intents : kinds = to.kinds
        BY <2>8
      <4>2. \A i \in Talk!Candidates(kinds, u) : i \in 1..(MaxId + 1) /\ table[KindOf(kinds)][i].owner = u
        BY TalkMatches
      <4> QED BY <2>1, <2>2, <4>1, <4>2
    <3>2. c = 1 => id \in matches
      BY <2>1, <2>2, TalkOne DEF IdOf
    <3>3. c # 1 => id = 0
      BY <2>2 DEF IdOf
    <3>4. k \in Tabs
      BY <2>2 DEF KindOf, Tabs
    <3> QED BY <1>1, <3>1, <3>2, <3>3, <3>4
  <2>10. copy \in Rows(User)
    BY <1>1, <2>2, <2>3, <2>9, Nothing DEF CopyOf
  <2>11. /\ new \in Rows(User) /\ new.owner = copy.owner
         /\ c = 1 /\ k = "task" => new.status = "done"
    <3>1. CASE c = 1 /\ k = "task"
      <4>1. PICK d \in 0..2 : d = IF copy.done = 1 THEN 2 ELSE 1
        OBVIOUS
      <4>2. new = Stamped(copy, "done", d)
        BY <2>4, <3>1, <4>1, Zenon DEF Talk!WithStatus, Stamped
      <4>3. /\ Stamped(copy, "done", d) \in Rows(User) /\ Stamped(copy, "done", d).owner = copy.owner
            /\ Stamped(copy, "done", d).status = "done"
        BY <2>10, NewStamp
      <4> QED BY <4>2, <4>3
    <3>2. CASE ~(c = 1 /\ k = "task")
      BY <2>4, <2>10, <3>2
    <3> QED BY <3>1, <3>2
  <2>12. id # 0 /\ to.kinds = {"task.done"} => Change(User, MaxTime, "task", copy, new)
    <3>1. CASE id # 0 /\ to.kinds = {"task.done"}
      <4>1. c = 1 /\ k = "task" /\ copy.owner = u
        BY <2>2, <2>3, <2>9, <3>1 DEF KindOf, CopyOf
      <4>2. new.owner = u /\ new.status = "done" /\ new # NoRow
        BY <1>1, <2>11, <4>1 DEF NoRow
      <4> QED BY <4>1, <4>2 DEF Change, RowOK
    <3> QED BY <3>1
  <2>13. /\ q \in Asks(User) /\ q.op = "run" /\ q.user = u /\ q.id = id
         /\ q.copy = copy /\ q.new = new /\ q.kinds = to.kinds /\ q.by = to.by /\ q.sid = sid
    <3>1. /\ to.kinds \in Plans /\ to.by \in Ways /\ sid \in Nat /\ id \in Nat
      BY <1>1, <2>8, <2>9 DEF Plans, Ways
    <3>2. PICK kinds \in Plans, by \in Ways : kinds = to.kinds /\ by = to.by
      BY <3>1
    <3>3. q = RunOf(u, kinds, by, sid, k, id, copy, new, logs)
      BY <2>6, <3>2
    <3>4. /\ q \in Asks(User) /\ q.op = "run" /\ q.user = u /\ q.table = k /\ q.id = id
          /\ q.copy = copy /\ q.new = new /\ q.kinds = kinds /\ q.by = by /\ q.sid = sid
      <4>1. k \in Tabs /\ copy \in Rows(User) /\ new \in Rows(User) /\ sid \in Nat /\ id \in Nat
        BY <2>9, <2>10, <2>11, <3>1
      <4> HIDE DEF Shape
      <4> QED BY <3>3, <4>1, RunAsk
    <3> QED BY <3>2, <3>4
  <2>14. AskOK(User, MaxId + 1, MaxTime, q)
    <3>1. sid \in 0..(MaxId + 1)
      BY <1>1
    <3> QED BY <2>8, <2>9, <2>12, <2>13, <3>1 DEF AskOK
  <2> QED BY <2>7, <2>13, <2>14
<1>4. ASSUME NEW r \in Request, Talk!delete_chat_session(r) PROVE Shape
  <2>0. PICK u \in User, i \in 1..(MaxId + 1) :
          \E q : q = AskOf("forget", u, "session", i) /\ Talk!Begin(r, q)
    BY <1>1, <1>4, Zenon DEF Talk!delete_chat_session, Talk!Owned, AskOf
  <2>1. PICK q :
          q = AskOf("forget", u, "session", i) /\ Talk!Begin(r, q)
    BY <2>0, Zenon
  <2>2. q \in Asks(User) /\ q.op = "forget" /\ q.user = u /\ q.id = i
    <3>1. i \in Nat /\ "forget" \in Ops /\ "session" \in Tabs
      BY <1>1 DEF Ops, Tabs
    <3>2. q = AskOf("forget", u, "session", i)
      BY <2>1
    <3> QED BY <3>1, <3>2, OtherAsk
  <2>3. AskOK(User, MaxId + 1, MaxTime, q)
    BY <2>2 DEF AskOK
  <2> QED BY <2>1, <2>2, <2>3
<1>5. ASSUME NEW r \in Request
      PROVE  ~ Talk!Write(r) /\ ~ Talk!Delete(r)
  BY <1>2 DEF Talk!Write, Talk!Delete
<1>6. /\ ~ Talk!create_event /\ ~ Talk!create_task /\ ~ Talk!request_document_save
      /\ ~ Talk!download_saved_document
  BY DEF Talk!create_event, Talk!create_task, Talk!request_document_save,
         Talk!download_saved_document
<1>7. ASSUME NEW r \in Request
      PROVE  /\ ~ Talk!update_event(r) /\ ~ Talk!update_task(r) /\ ~ Talk!approve_document(r)
             /\ ~ Talk!delete_event(r) /\ ~ Talk!delete_task_item(r)
             /\ ~ Talk!delete_saved_document(r)
  BY DEF Talk!update_event, Talk!update_task, Talk!approve_document, Talk!delete_event,
         Talk!delete_task_item, Talk!delete_saved_document, Talk!DeleteRow
<1> QED BY <1>3, <1>4, <1>5, <1>6, <1>7 DEF Talk!Next

\* The rows after the intents of a chat, of which only events and tasks change, and
\* nothing when only the model said so.
LEMMA TalkExecuted ==
    ASSUME Talk!RecordsAssumption, RecTyped(User, Request, MaxId + 1, MaxTime, {"run", "save", "forget"}),
           NEW r \in Request, NEW q, q = req[r], q.op = "save", Talk!Fits(q),
           "task.done" \in q.kinds /\ q.id # 0 => table["task"][q.id] # NoRow
    PROVE  /\ RowsIn(Talk!Executed(q), User, MaxId + 1, MaxTime)
           /\ Talk!Executed(q)["session"] = table["session"]
           /\ q.by = "llm" => Talk!Executed(q) = table
<1>1. /\ MaxId + 1 \in Nat /\ MaxTime \in Nat \ {0} /\ "none" \notin User
      /\ Talk!NoRow = NoRow /\ Talk!Ids = 1..(MaxId + 1)
      /\ table \in [Tabs -> [1..(MaxId + 1) -> Rows(User)]]
      /\ RowsIn(table, User, MaxId + 1, MaxTime)
  BY DEF Talk!RecordsAssumption, Talk!NoRow, Talk!None, NoRow, Talk!Ids, RecTyped, RowsOK, RowsIn
<1>2. q \in Asks(User) /\ AskOK(User, MaxId + 1, MaxTime, q)
  BY DEF RecTyped, AsksOK
<1>3. /\ q.user \in User /\ q.id \in 0..(MaxId + 1) /\ q.kinds \in Intents
      /\ q.id # 0 /\ q.kinds = {"task.done"} => Change(User, MaxTime, "task", q.copy, q.new)
      /\ q.by = "llm" => q.kinds \in {{"document"}, {"schedule.list"}, {"help"}, {"knowledge"}}
      /\ q.copy \in Rows(User) /\ q.new \in Rows(User)
  BY <1>2 DEF AskOK, Asks
<1>4. PICK u \in User, i \in 0..(MaxId + 1) : u = q.user /\ i = q.id
  BY <1>3
<1>5. CASE "schedule.create" \in q.kinds
  <2>1. PICK j \in 1..(MaxId + 1) : j = Talk!NewId("event")
    BY <1>1, <1>5 DEF Talk!Fits
  <2>2. FirstRow(u) \in Rows(User) /\ FirstRow(u).owner = u /\ FirstRow(u).starts = 1
    BY NewSession
  <2>3. RowOK(User, MaxTime, "event", FirstRow(u))
    BY <1>1, <2>2 DEF RowOK
  <2>4. Talk!Executed(q) = Put(table, "event", j, FirstRow(u))
    <3>1. Talk!Executed(q) = [table EXCEPT !["event"][Talk!NewId("event")] = [Talk!NoRow EXCEPT !.owner = q.user, !.starts = 1]]
      <4>1. /\ "task.create" \notin q.kinds /\ "schedule.delete" \notin q.kinds
            /\ "task.done" \notin q.kinds
        BY <1>3, <1>5 DEF Intents
      <4> QED BY <1>5, <4>1, Zenon DEF Talk!Executed
    <3>2. FirstRow(u) = [Talk!NoRow EXCEPT !.owner = q.user, !.starts = 1]
      BY <1>1, <1>4, Zenon DEF FirstRow
    <3> QED BY <2>1, <3>1, <3>2, Zenon DEF Put
  <2>5. "event" \in Tabs /\ "session" \in Tabs /\ q.by # "llm"
    BY <1>3, <1>5 DEF Tabs
  <2> QED BY <1>1, <2>2, <2>3, <2>4, <2>5, RowsInPut
<1>6. CASE "schedule.create" \notin q.kinds /\ "task.create" \in q.kinds
  <2>1. PICK j \in 1..(MaxId + 1) : j = Talk!NewId("task")
    BY <1>1, <1>6 DEF Talk!Fits
  <2>2. StatusRow(u, "todo") \in Rows(User) /\ StatusRow(u, "todo").owner = u /\ StatusRow(u, "todo").status = "todo"
    BY NewStatus
  <2>3. RowOK(User, MaxTime, "task", StatusRow(u, "todo"))
    BY <2>2 DEF RowOK
  <2>4. Talk!Executed(q) = Put(table, "task", j, StatusRow(u, "todo"))
    <3>1. Talk!Executed(q) = [table EXCEPT !["task"][Talk!NewId("task")] = [Talk!NoRow EXCEPT !.owner = q.user, !.status = "todo"]]
      <4>1. "schedule.delete" \notin q.kinds /\ "task.done" \notin q.kinds
        BY <1>3, <1>6 DEF Intents
      <4> QED BY <1>6, <4>1, Zenon DEF Talk!Executed
    <3>2. StatusRow(u, "todo") = [Talk!NoRow EXCEPT !.owner = q.user, !.status = "todo"]
      BY <1>1, <1>4, Zenon DEF StatusRow
    <3> QED BY <2>1, <3>1, <3>2, Zenon DEF Put
  <2>5. "task" \in Tabs /\ "session" \in Tabs /\ q.by # "llm"
    BY <1>3, <1>6 DEF Tabs
  <2> QED BY <1>1, <2>2, <2>3, <2>4, <2>5, RowsInPut
<1>7. CASE q.id # 0 /\ q.kinds = {"schedule.delete"}
  <2>1. Talk!Executed(q) = Put(table, "event", i, NoRow) /\ i \in 1..(MaxId + 1)
    BY <1>1, <1>4, <1>7 DEF Talk!Executed, Put
  <2>2. "event" \in Tabs /\ "session" \in Tabs /\ q.by # "llm"
    BY <1>3, <1>7 DEF Tabs
  <2>3. NoRow \in Rows(User) /\ RowOK(User, MaxTime, "event", NoRow)
    BY Nothing
  <2> QED BY <1>1, <2>1, <2>2, <2>3, RowsInPut
<1>8. CASE q.id # 0 /\ q.kinds = {"task.done"}
  <2>1. PICK old, new : old = q.copy /\ new = q.new
    OBVIOUS
  <2>2. PICK row, x : /\ row = table["task"][i]
                      /\ x = [c \in DOMAIN row |-> IF new[c] # old[c] THEN new[c] ELSE row[c]]
    OBVIOUS
  <2>3. Talk!Executed(q) = [table EXCEPT !["task"][i] = Talk!Merge(@, old, new)] /\ i \in 1..(MaxId + 1)
    BY <1>1, <1>4, <1>8, <2>1 DEF Talk!Executed
  <2>4. "task" \in Tabs /\ "session" \in Tabs /\ q.by # "llm"
    BY <1>3, <1>8 DEF Tabs
  <2>5. Talk!Executed(q) = Put(table, "task", i, x)
    BY <1>1, <2>2, <2>3, <2>4 DEF Talk!Merge, Put
  <2>6. row \in Rows(User) /\ row # NoRow /\ RowOK(User, MaxTime, "task", row)
    BY <1>1, <1>4, <1>8, <2>2, <2>3, <2>4 DEF RowsIn
  <2>7. old \in Rows(User) /\ new \in Rows(User) /\ Change(User, MaxTime, "task", old, new)
    BY <1>3, <1>8, <2>1
  <2>8. x \in Rows(User) /\ RowOK(User, MaxTime, "task", x)
    BY <2>2, <2>4, <2>6, <2>7, Merged
  <2> QED BY <1>1, <2>3, <2>4, <2>5, <2>8, RowsInPut
<1>9. CASE /\ "schedule.create" \notin q.kinds /\ "task.create" \notin q.kinds
           /\ q.id = 0 \/ q.kinds \notin {{"schedule.delete"}, {"task.done"}}
  <2>1. /\ ~(q.id # 0 /\ "schedule.delete" \in q.kinds)
        /\ ~(q.id # 0 /\ "task.done" \in q.kinds)
    BY <1>3, <1>9 DEF Intents
  <2>2. Talk!Executed(q) = table
    BY <1>9, <2>1, Zenon DEF Talk!Executed
  <2> QED BY <1>1, <2>2
<1> QED BY <1>5, <1>6, <1>7, <1>8, <1>9

\* What is saved with a message: the session is the user's.
LEMMA TalkSaved ==
    ASSUME Talk!RecordsAssumption, RecTyped(User, Request, MaxId + 1, MaxTime, {"run", "save", "forget"}),
           NEW r \in Request, Talk!SaveMessage(r)
    PROVE  /\ req[r].op = "save" /\ req[r].user \in User /\ Talk!Ends(r)
           /\ \/ UNCHANGED <<table, message, activity>>
              \/ \E i \in 1..(MaxId + 1) :
                    /\ RowsOK(User, MaxId + 1, MaxTime)' /\ message' = message \cup {<<req[r].user, i>>}
                    /\ activity' \in {activity, 1 - activity}
                    /\ table'["session"][i].owner \in User
                    /\ \A j \in 1..(MaxId + 1) : j # i => table'["session"][j] = table["session"][j]
                    /\ req[r].sid = 0 => table'["session"][i].owner = req[r].user
                    /\ req[r].sid # 0 => table'["session"] = table["session"]
           /\ req[r].by = "llm" => table'["event"] = table["event"] /\ table'["task"] = table["task"]
<1>1. /\ MaxId + 1 \in Nat /\ "none" \notin User
      /\ Talk!NoRow = NoRow /\ Talk!Ids = 1..(MaxId + 1)
      /\ table \in [Tabs -> [1..(MaxId + 1) -> Rows(User)]] /\ "session" \in Tabs
      /\ "event" \in Tabs /\ "task" \in Tabs
  BY DEF Talk!RecordsAssumption, Talk!NoRow, Talk!None, NoRow, Talk!Ids, RecTyped, RowsOK, Tabs
<1>2. PICK q, i : q = req[r] /\ i = IF q.sid = 0 THEN Talk!NewId("session") ELSE q.sid
  OBVIOUS
<1>3. q.op = "save" /\ i \in 1..(MaxId + 1) /\ Talk!Fits(q) /\ Talk!Ends(r)
  BY <1>1, <1>2 DEF Talk!SaveMessage
<1>4. PICK u \in User : u = q.user
  BY <1>2, <1>3 DEF RecTyped, AsksOK, AskOK
<1>5. CASE UNCHANGED <<table, message, activity>>
  BY <1>2, <1>3, <1>4, <1>5
<1>6. CASE ~ UNCHANGED <<table, message, activity>>
  <2>1. /\ q.sid # 0 => table["session"][q.sid] # NoRow
        /\ "task.done" \in q.kinds /\ q.id # 0 => table["task"][q.id] # NoRow
        /\ message' = message \cup {<<q.user, i>>}
        /\ activity' = IF q.logs THEN 1 - activity ELSE activity
        /\ table' = IF q.sid = 0 THEN Put(Talk!Executed(q), "session", i, SessionRow(u))
                    ELSE Talk!Executed(q)
    BY <1>1, <1>2, <1>4, <1>6, Zenon DEF Talk!SaveMessage, SessionRow, Put
  <2>2. PICK f : f = Talk!Executed(q)
    OBVIOUS
  <2>3. /\ RowsIn(f, User, MaxId + 1, MaxTime) /\ f["session"] = table["session"]
        /\ q.by = "llm" => f = table
    BY <1>2, <1>3, <2>1, <2>2, TalkExecuted
  <2>4. CASE q.sid = 0
    <3>1. SessionRow(u) \in Rows(User) /\ SessionRow(u).owner = u
      BY NewSession
    <3>2. RowOK(User, MaxTime, "session", SessionRow(u))
      BY <3>1 DEF RowOK
    <3>3. PICK g : g = Put(f, "session", i, SessionRow(u))
      OBVIOUS
    <3>4. /\ RowsIn(g, User, MaxId + 1, MaxTime) /\ g["session"][i] = SessionRow(u)
          /\ \A l \in Tabs : l # "session" => g[l] = f[l]
          /\ \A j \in 1..(MaxId + 1) : j # i => g["session"][j] = f["session"][j]
      BY <1>1, <1>3, <2>3, <3>1, <3>2, <3>3, RowsInPut
    <3>5. table' = g
      BY <2>1, <2>2, <2>4, <3>3
    <3>6. RowsOK(User, MaxId + 1, MaxTime)'
      BY <3>4, <3>5 DEF RowsIn, RowsOK
    <3>7. /\ table'["session"][i].owner = u
          /\ \A j \in 1..(MaxId + 1) : j # i => table'["session"][j] = table["session"][j]
      BY <2>3, <3>1, <3>4, <3>5
    <3>8. table'["event"] = f["event"] /\ table'["task"] = f["task"]
      BY <1>1, <3>4, <3>5
    <3>9. activity' \in {activity, 1 - activity}
      BY <2>1
    <3> QED BY <1>2, <1>3, <1>4, <2>1, <2>3, <2>4, <3>6, <3>7, <3>8, <3>9
  <2>5. CASE q.sid # 0
    <3>1. table' = f /\ i = q.sid
      BY <1>2, <2>1, <2>2, <2>5
    <3>2. RowsOK(User, MaxId + 1, MaxTime)'
      BY <2>3, <3>1 DEF RowsIn, RowsOK
    <3>3. table["session"][i].owner \in User
      BY <1>1, <1>3, <2>1, <2>5, <3>1 DEF RecTyped, RowsOK, RowOK
    <3> QED BY <1>1, <1>2, <1>3, <1>4, <2>1, <2>3, <2>5, <3>1, <3>2, <3>3
  <2> QED BY <2>4, <2>5
<1> QED BY <1>5, <1>6

\* A step of the chat keeps the types.
LEMMA TalkTyped ==
    ASSUME Talk!RecordsAssumption, [Talk!Next]_(Talk!vars),
           RecTyped(User, Request, MaxId + 1, MaxTime, {"run", "save", "forget"})
    PROVE  RecTyped(User, Request, MaxId + 1, MaxTime, {"run", "save", "forget"})'
<1> DEFINE Does == {"run", "save", "forget"}
<1>1. /\ MaxId + 1 \in Nat /\ Talk!NoRow = NoRow /\ Talk!NoReq = NoAsk
      /\ RowsOK(User, MaxId + 1, MaxTime) /\ LogsOK(User, MaxId + 1) /\ AsksOK(User, Request, MaxId + 1, MaxTime, Does)
      /\ req \in [Request -> Asks(User)] /\ \A r \in Request : AskOK(User, MaxId + 1, MaxTime, req[r])
  BY DEF Talk!RecordsAssumption, Talk!NoRow, Talk!NoReq, Talk!None, NoRow, NoAsk, RecTyped, AsksOK
<1>2. CASE UNCHANGED Talk!vars
  BY <1>2 DEF Talk!vars, RecTyped, RowsOK, AsksOK, LogsOK
<1>3. ASSUME NEW r \in Request, NEW q \in Asks(User), AskOK(User, MaxId + 1, MaxTime, q),
             q.op \in Does \cup {"none"}, req' = [req EXCEPT ![r] = q]
      PROVE  AsksOK(User, Request, MaxId + 1, MaxTime, Does)'
  BY <1>1, <1>3, AskPut
<1>4. ASSUME NEW r \in Request, Talk!Ends(r)
      PROVE  AsksOK(User, Request, MaxId + 1, MaxTime, Does)'
  BY <1>1, <1>3, <1>4, Nothing DEF Talk!Ends
<1>5. ASSUME NEW r \in Request, NEW q \in Asks(User), AskOK(User, MaxId + 1, MaxTime, q),
             q.op \in {"run", "forget"}, Talk!Begin(r, q)
      PROVE  RecTyped(User, Request, MaxId + 1, MaxTime, Does)'
  <2>1. AsksOK(User, Request, MaxId + 1, MaxTime, Does)'
    BY <1>3, <1>5 DEF Talk!Begin
  <2> QED BY <1>1, <1>5, <2>1 DEF Talk!Begin, RecTyped, RowsOK, LogsOK
<1>6. ASSUME NEW r \in Request, Talk!FindSession(r)
      PROVE  RecTyped(User, Request, MaxId + 1, MaxTime, Does)'
  <2>1. AsksOK(User, Request, MaxId + 1, MaxTime, Does)'
    <3>1. CASE Talk!Ends(r)
      BY <1>4, <3>1
    <3>2. CASE req' = [req EXCEPT ![r].op = "save"]
      <4>1. PICK q, p : q = req[r] /\ p = [q EXCEPT !.op = "save"]
        OBVIOUS
      <4>2. q \in Asks(User) /\ q.op = "run" /\ AskOK(User, MaxId + 1, MaxTime, q)
        BY <1>1, <1>6, <4>1 DEF Talk!FindSession
      <4>3. /\ p \in Asks(User) /\ p.op = "save" /\ p.user = q.user /\ p.id = q.id /\ p.sid = q.sid
            /\ p.copy = q.copy /\ p.new = q.new /\ p.kinds = q.kinds /\ p.by = q.by
        BY <4>1, <4>2, SaveAsk
      <4>4. AskOK(User, MaxId + 1, MaxTime, p)
        BY <4>2, <4>3 DEF AskOK
      <4>5. req' = [req EXCEPT ![r] = p]
        BY <1>1, <3>2, <4>1
      <4> QED BY <1>3, <4>3, <4>4, <4>5
    <3> QED BY <1>6, <3>1, <3>2 DEF Talk!FindSession
  <2> QED BY <1>1, <1>6, <2>1 DEF Talk!FindSession, RecTyped, RowsOK, LogsOK
<1>7. ASSUME NEW r \in Request, Talk!SaveMessage(r)
      PROVE  RecTyped(User, Request, MaxId + 1, MaxTime, Does)'
  <2>1. Talk!Ends(r) /\ req[r].user \in User /\
           \/ UNCHANGED <<table, message, activity>>
           \/ \E i \in 1..(MaxId + 1) :
                 /\ RowsOK(User, MaxId + 1, MaxTime)' /\ message' = message \cup {<<req[r].user, i>>}
                 /\ activity' \in {activity, 1 - activity}
    BY <1>7, TalkSaved
  <2>2. RowsOK(User, MaxId + 1, MaxTime)'
    BY <1>1, <2>1 DEF RowsOK
  <2>3. LogsOK(User, MaxId + 1)'
    BY <1>1, <2>1 DEF LogsOK
  <2> QED BY <1>4, <2>1, <2>2, <2>3 DEF RecTyped
<1>8. ASSUME NEW r \in Request, Talk!Forget(r)
      PROVE  RecTyped(User, Request, MaxId + 1, MaxTime, Does)'
  <2>1. PICK i \in 1..(MaxId + 1) : i = req[r].id
    BY <1>1, <1>8 DEF Talk!Forget, AskOK
  <2>2. table' = [table EXCEPT !["session"][i] = NoRow]
    BY <1>1, <1>8, <2>1 DEF Talk!Forget
  <2>3. RowsOK(User, MaxId + 1, MaxTime)'
    BY <1>1, <2>2, RowPut, Nothing DEF Tabs
  <2>4. LogsOK(User, MaxId + 1)'
    BY <1>1, <1>8 DEF Talk!Forget, LogsOK
  <2> QED BY <1>4, <1>8, <2>3, <2>4 DEF Talk!Forget, RecTyped
<1> QED BY <1>2, <1>5, <1>6, <1>7, <1>8, TalkShape

\* What the types of the chat tables give.
LEMMA TalkGives ==
    ASSUME RecTyped(User, Request, MaxId + 1, MaxTime, {"run", "save", "forget"})
    PROVE  Talk!TypeOK
<1>1. /\ Talk!Ids = 1..(MaxId + 1) /\ Talk!Tables = Tabs /\ Talk!NoRow = NoRow
      /\ Talk!Times = 1..MaxTime
  BY DEF Talk!Ids, Talk!Tables, Tabs, Talk!NoRow, Talk!None, NoRow, Talk!Times
<1>2. /\ \A k \in Tabs, i \in 1..(MaxId + 1) : RowOK(User, MaxTime, k, table[k][i])
      /\ LogsOK(User, MaxId + 1)
  BY DEF RecTyped, RowsOK
<1> QED BY <1>1, <1>2 DEF Talk!TypeOK, RowOK, LogsOK, Tabs

\* What the rules and the model make of an utterance.
LEMMA TalksRoutes ==
    ASSUME NEW to \in Talks!Routes
    PROVE  /\ to.kinds \in Intents /\ to.by \in {"rule", "llm"}
           /\ to.by = "llm" => to.kinds \in {{"document"}, {"schedule.list"}, {"help"}, {"knowledge"}}
<1>1. PICK w, c : to = Talks!Routed(w, c)
  BY DEF Talks!Routes
<1>2. Talks!classify(w) \in Intents
  <2>1. PICK d, e : /\ d = (IF w \cap {"when"} # {} /\ w \cap {"add", "book"} # {}
                            THEN {"schedule.create"} ELSE {})
                    /\ e = (IF w \cap {"report"} # {} /\ w \cap {"write"} # {}
                            THEN {"document"} ELSE {})
    OBVIOUS
  <2>2. d \cup e \in {{}, {"schedule.create"}, {"document"}, {"schedule.create", "document"}}
    BY <2>1
  <2>3. \/ Talks!classify(w) = d \cup e /\ d \cup e # {}
        \/ Talks!classify(w) \in {{"task.create"}, {"task.list"}, {"task.done"},
                {"schedule.delete"}, {"schedule.list"}, {"help"}, {"knowledge"}}
    BY <2>1, Zenon DEF Talks!classify
  <2> QED BY <2>2, <2>3 DEF Intents
<1>3. Talks!_llm_category_to_intent(c, w) \in {"document", "schedule.list", "help", "knowledge"}
  BY DEF Talks!_llm_category_to_intent
<1>4. \/ to = [kinds |-> {Talks!_llm_category_to_intent(c, w)}, by |-> "llm"]
      \/ to = [kinds |-> Talks!classify(w), by |-> "rule"]
  BY <1>1 DEF Talks!Routed
<1> QED BY <1>2, <1>3, <1>4 DEF Intents

\* The rows whose titles may match are of the user, and one that matches is there.
LEMMA TalksMatches ==
    ASSUME Talks!RecordsAssumption, RecTyped(User, Requests, MaxId, MaxTime, {"run", "save", "forget"}),
           NEW u \in User, NEW kinds \in Intents
    PROVE  \A i \in Talks!Candidates(kinds, u) : i \in 1..MaxId /\ table[KindOf(kinds)][i].owner = u
<1>1. MaxId \in Nat /\ Talks!Ids = 1..MaxId
  BY DEF Talks!RecordsAssumption, Talks!Ids
<1>2. CASE kinds = {"schedule.delete"}
  <2>1. "schedule.delete" \in kinds /\ "task.done" \notin kinds
    BY <1>2
  <2>2. Talks!Candidates(kinds, u) = Talks!Owned("event", u) /\ KindOf(kinds) = "event"
    BY <2>1 DEF Talks!Candidates, Talks!list_events, KindOf
  <2> QED BY <1>1, <2>2 DEF Talks!Owned
<1>3. CASE kinds = {"task.done"}
  <2>1. "schedule.delete" \notin kinds /\ "task.done" \in kinds
    BY <1>3
  <2>2. Talks!Candidates(kinds, u) \subseteq Talks!Owned("task", u) /\ KindOf(kinds) = "task"
    BY <2>1 DEF Talks!Candidates, Talks!list_tasks, KindOf
  <2> QED BY <1>1, <2>2 DEF Talks!Owned
<1>4. CASE kinds \in Intents \ {{"schedule.delete"}, {"task.done"}}
  <2>1. "schedule.delete" \notin kinds /\ "task.done" \notin kinds
    BY <1>4 DEF Intents
  <2>2. Talks!Candidates(kinds, u) = {}
    BY <2>1, Zenon DEF Talks!Candidates
  <2> QED BY <2>2
<1> QED BY <1>2, <1>3, <1>4

\* The set of one new memory row has that row.
LEMMA TalksOne ==
    ASSUME NEW S, Talks!Cardinality(S) = 1
    PROVE  S # {}
<1>1. Talks!Cardinality({}) = 0
  BY FS_EmptySet DEF Talks!Cardinality, Cardinality
<1>2. CASE S = {}
  BY <1>1, <1>2
<1> QED BY <1>2

\* What a step of the chat is.
LEMMA TalksShape ==
    ASSUME Talks!RecordsAssumption, Talks!Next,
           RecTyped(User, Requests, MaxId, MaxTime, {"run", "save", "forget"})
    PROVE  \/ \E r \in Requests, q \in Asks(User) :
                 /\ AskOK(User, MaxId, MaxTime, q) /\ q.op \in {"run", "forget"}
                 /\ Talks!Begin(r, q)
           \/ \E r \in Requests : Talks!FindSession(r) \/ Talks!SaveMessage(r) \/ Talks!Forget(r)
<1> DEFINE Shape == \E r \in Requests, q \in Asks(User) :
                       /\ AskOK(User, MaxId, MaxTime, q) /\ q.op \in {"run", "forget"}
                       /\ Talks!Begin(r, q)
<1>1. /\ MaxId \in Nat /\ "none" \notin User
      /\ Talks!NoRow = NoRow /\ Talks!NoReq = NoAsk /\ Talks!Tables = Tabs /\ Talks!Ids = 1..MaxId
      /\ table \in [Tabs -> [1..MaxId -> Rows(User)]]
  BY DEF Talks!RecordsAssumption, Talks!NoRow, Talks!NoReq, Talks!None, NoRow, NoAsk,
         Talks!Tables, Tabs, Talks!Ids, RecTyped, RowsOK
<1>2. \A r \in Requests : req[r].op \in {"none", "run", "save", "forget"}
  BY DEF RecTyped, AsksOK
<1>3. ASSUME NEW r \in Requests, Talks!orchestrate(r) PROVE Shape
  <2>0. PICK u \in User, to \in Talks!Routes, sid \in {0} \cup 1..MaxId, found \in BOOLEAN :
          \E matches \in SUBSET Talks!Candidates(to.kinds, u) :
            Talks!Begin(r, RunOf(u, to.kinds, to.by, sid, KindOf(to.kinds),
              IdOf(Talks!Cardinality(matches), matches),
              CopyOf(Talks!Cardinality(matches), to.kinds, matches),
              IF Talks!Cardinality(matches) = 1 /\ KindOf(to.kinds) = "task"
              THEN Talks!WithStatus(CopyOf(Talks!Cardinality(matches), to.kinds, matches), "done")
              ELSE CopyOf(Talks!Cardinality(matches), to.kinds, matches),
              Talks!Recorded(to.kinds, matches, found)))
    BY <1>3, Zenon DEF Talks!orchestrate, RunOf, KindOf, IdOf, CopyOf, Talks!NoReq, Talks!NoRow,
                       Talks!None, Talks!Ids, NoAsk, NoRow
  <2>1. PICK matches, c :
          /\ matches \in SUBSET Talks!Candidates(to.kinds, u)
          /\ c = Talks!Cardinality(matches)
          /\ Talks!Begin(r, RunOf(u, to.kinds, to.by, sid, KindOf(to.kinds), IdOf(c, matches),
                CopyOf(c, to.kinds, matches),
                IF c = 1 /\ KindOf(to.kinds) = "task"
                THEN Talks!WithStatus(CopyOf(c, to.kinds, matches), "done")
                ELSE CopyOf(c, to.kinds, matches),
                Talks!Recorded(to.kinds, matches, found)))
    BY <2>0, Zenon
  <2>2. PICK k, id : k = KindOf(to.kinds) /\ id = IdOf(c, matches)
    OBVIOUS
  <2>3. PICK copy : copy = CopyOf(c, to.kinds, matches)
    OBVIOUS
  <2>4. PICK new : new = IF c = 1 /\ k = "task" THEN Talks!WithStatus(copy, "done") ELSE copy
    OBVIOUS
  <2>5. PICK logs \in BOOLEAN : logs = Talks!Recorded(to.kinds, matches, found)
    BY DEF Talks!Recorded
  <2>6. PICK q : q = RunOf(u, to.kinds, to.by, sid, k, id, copy, new, logs)
    OBVIOUS
  <2>7. Talks!Begin(r, q)
    BY <2>1, <2>2, <2>3, <2>4, <2>5, <2>6, Zenon
  <2>8. /\ to.kinds \in Intents /\ to.by \in {"rule", "llm"}
        /\ to.by = "llm" => to.kinds \in {{"document"}, {"schedule.list"}, {"help"}, {"knowledge"}}
    BY TalksRoutes
  <2>9. /\ id \in 0..MaxId /\ k \in Tabs
        /\ c = 1 => id \in 1..MaxId /\ table[k][id].owner = u
        /\ id # 0 => c = 1
    <3>1. \A i \in matches : i \in 1..MaxId /\ table[k][i].owner = u
      <4>1. PICK kinds \in Intents : kinds = to.kinds
        BY <2>8
      <4>2. \A i \in Talks!Candidates(kinds, u) : i \in 1..MaxId /\ table[KindOf(kinds)][i].owner = u
        BY TalksMatches
      <4> QED BY <2>1, <2>2, <4>1, <4>2
    <3>2. c = 1 => id \in matches
      BY <2>1, <2>2, TalksOne DEF IdOf
    <3>3. c # 1 => id = 0
      BY <2>2 DEF IdOf
    <3>4. k \in Tabs
      BY <2>2 DEF KindOf, Tabs
    <3> QED BY <1>1, <3>1, <3>2, <3>3, <3>4
  <2>10. copy \in Rows(User)
    BY <1>1, <2>2, <2>3, <2>9, Nothing DEF CopyOf
  <2>11. /\ new \in Rows(User) /\ new.owner = copy.owner
         /\ c = 1 /\ k = "task" => new.status = "done"
    <3>1. CASE c = 1 /\ k = "task"
      <4>1. PICK d \in 0..2 : d = IF copy.done = 1 THEN 2 ELSE 1
        OBVIOUS
      <4>2. new = Stamped(copy, "done", d)
        BY <2>4, <3>1, <4>1, Zenon DEF Talks!WithStatus, Stamped
      <4>3. /\ Stamped(copy, "done", d) \in Rows(User) /\ Stamped(copy, "done", d).owner = copy.owner
            /\ Stamped(copy, "done", d).status = "done"
        BY <2>10, NewStamp
      <4> QED BY <4>2, <4>3
    <3>2. CASE ~(c = 1 /\ k = "task")
      BY <2>4, <2>10, <3>2
    <3> QED BY <3>1, <3>2
  <2>12. id # 0 /\ to.kinds = {"task.done"} => Change(User, MaxTime, "task", copy, new)
    <3>1. CASE id # 0 /\ to.kinds = {"task.done"}
      <4>1. c = 1 /\ k = "task" /\ copy.owner = u
        BY <2>2, <2>3, <2>9, <3>1 DEF KindOf, CopyOf
      <4>2. new.owner = u /\ new.status = "done" /\ new # NoRow
        BY <1>1, <2>11, <4>1 DEF NoRow
      <4> QED BY <4>1, <4>2 DEF Change, RowOK
    <3> QED BY <3>1
  <2>13. /\ q \in Asks(User) /\ q.op = "run" /\ q.user = u /\ q.id = id
         /\ q.copy = copy /\ q.new = new /\ q.kinds = to.kinds /\ q.by = to.by /\ q.sid = sid
    <3>1. /\ to.kinds \in Plans /\ to.by \in Ways /\ sid \in Nat /\ id \in Nat
      BY <1>1, <2>8, <2>9 DEF Plans, Ways
    <3>2. PICK kinds \in Plans, by \in Ways : kinds = to.kinds /\ by = to.by
      BY <3>1
    <3>3. q = RunOf(u, kinds, by, sid, k, id, copy, new, logs)
      BY <2>6, <3>2
    <3>4. /\ q \in Asks(User) /\ q.op = "run" /\ q.user = u /\ q.table = k /\ q.id = id
          /\ q.copy = copy /\ q.new = new /\ q.kinds = kinds /\ q.by = by /\ q.sid = sid
      <4>1. k \in Tabs /\ copy \in Rows(User) /\ new \in Rows(User) /\ sid \in Nat /\ id \in Nat
        BY <2>9, <2>10, <2>11, <3>1
      <4> HIDE DEF Shape
      <4> QED BY <3>3, <4>1, RunAsk
    <3> QED BY <3>2, <3>4
  <2>14. AskOK(User, MaxId, MaxTime, q)
    <3>1. sid \in 0..MaxId
      BY <1>1
    <3> QED BY <2>8, <2>9, <2>12, <2>13, <3>1 DEF AskOK
  <2> QED BY <2>7, <2>13, <2>14
<1>4. ASSUME NEW r \in Requests, Talks!delete_chat_session(r) PROVE Shape
  <2>0. PICK u \in User, i \in 1..MaxId :
          \E q : q = AskOf("forget", u, "session", i) /\ Talks!Begin(r, q)
    BY <1>1, <1>4, Zenon DEF Talks!delete_chat_session, Talks!Owned, AskOf
  <2>1. PICK q :
          q = AskOf("forget", u, "session", i) /\ Talks!Begin(r, q)
    BY <2>0, Zenon
  <2>2. q \in Asks(User) /\ q.op = "forget" /\ q.user = u /\ q.id = i
    <3>1. i \in Nat /\ "forget" \in Ops /\ "session" \in Tabs
      BY <1>1 DEF Ops, Tabs
    <3>2. q = AskOf("forget", u, "session", i)
      BY <2>1
    <3> QED BY <3>1, <3>2, OtherAsk
  <2>3. AskOK(User, MaxId, MaxTime, q)
    BY <2>2 DEF AskOK
  <2> QED BY <2>1, <2>2, <2>3
<1>5. ASSUME NEW r \in Requests
      PROVE  ~ Talks!Write(r) /\ ~ Talks!Delete(r)
  BY <1>2 DEF Talks!Write, Talks!Delete
<1>6. /\ ~ Talks!create_event /\ ~ Talks!create_task /\ ~ Talks!request_document_save
      /\ ~ Talks!download_saved_document
  BY DEF Talks!create_event, Talks!create_task, Talks!request_document_save,
         Talks!download_saved_document
<1>7. ASSUME NEW r \in Requests
      PROVE  /\ ~ Talks!update_event(r) /\ ~ Talks!update_task(r) /\ ~ Talks!approve_document(r)
             /\ ~ Talks!delete_event(r) /\ ~ Talks!delete_task_item(r)
             /\ ~ Talks!delete_saved_document(r)
  BY DEF Talks!update_event, Talks!update_task, Talks!approve_document, Talks!delete_event,
         Talks!delete_task_item, Talks!delete_saved_document, Talks!DeleteRow
<1> QED BY <1>3, <1>4, <1>5, <1>6, <1>7 DEF Talks!Next

\* The rows after the intents of a chat, of which only events and tasks change, and
\* nothing when only the model said so.
LEMMA TalksExecuted ==
    ASSUME Talks!RecordsAssumption, RecTyped(User, Requests, MaxId, MaxTime, {"run", "save", "forget"}),
           NEW r \in Requests, NEW q, q = req[r], q.op = "save", Talks!Fits(q),
           "task.done" \in q.kinds /\ q.id # 0 => table["task"][q.id] # NoRow
    PROVE  /\ RowsIn(Talks!Executed(q), User, MaxId, MaxTime)
           /\ Talks!Executed(q)["session"] = table["session"]
           /\ q.by = "llm" => Talks!Executed(q) = table
<1>1. /\ MaxId \in Nat /\ MaxTime \in Nat \ {0} /\ "none" \notin User
      /\ Talks!NoRow = NoRow /\ Talks!Ids = 1..MaxId
      /\ table \in [Tabs -> [1..MaxId -> Rows(User)]]
      /\ RowsIn(table, User, MaxId, MaxTime)
  BY DEF Talks!RecordsAssumption, Talks!NoRow, Talks!None, NoRow, Talks!Ids, RecTyped, RowsOK, RowsIn
<1>2. q \in Asks(User) /\ AskOK(User, MaxId, MaxTime, q)
  BY DEF RecTyped, AsksOK
<1>3. /\ q.user \in User /\ q.id \in 0..MaxId /\ q.kinds \in Intents
      /\ q.id # 0 /\ q.kinds = {"task.done"} => Change(User, MaxTime, "task", q.copy, q.new)
      /\ q.by = "llm" => q.kinds \in {{"document"}, {"schedule.list"}, {"help"}, {"knowledge"}}
      /\ q.copy \in Rows(User) /\ q.new \in Rows(User)
  BY <1>2 DEF AskOK, Asks
<1>4. PICK u \in User, i \in 0..MaxId : u = q.user /\ i = q.id
  BY <1>3
<1>5. CASE "schedule.create" \in q.kinds
  <2>1. PICK j \in 1..MaxId : j = Talks!NewId("event")
    BY <1>1, <1>5 DEF Talks!Fits
  <2>2. FirstRow(u) \in Rows(User) /\ FirstRow(u).owner = u /\ FirstRow(u).starts = 1
    BY NewSession
  <2>3. RowOK(User, MaxTime, "event", FirstRow(u))
    BY <1>1, <2>2 DEF RowOK
  <2>4. Talks!Executed(q) = Put(table, "event", j, FirstRow(u))
    <3>1. Talks!Executed(q) = [table EXCEPT !["event"][Talks!NewId("event")] = [Talks!NoRow EXCEPT !.owner = q.user, !.starts = 1]]
      <4>1. /\ "task.create" \notin q.kinds /\ "schedule.delete" \notin q.kinds
            /\ "task.done" \notin q.kinds
        BY <1>3, <1>5 DEF Intents
      <4> QED BY <1>5, <4>1, Zenon DEF Talks!Executed
    <3>2. FirstRow(u) = [Talks!NoRow EXCEPT !.owner = q.user, !.starts = 1]
      BY <1>1, <1>4, Zenon DEF FirstRow
    <3> QED BY <2>1, <3>1, <3>2, Zenon DEF Put
  <2>5. "event" \in Tabs /\ "session" \in Tabs /\ q.by # "llm"
    BY <1>3, <1>5 DEF Tabs
  <2> QED BY <1>1, <2>2, <2>3, <2>4, <2>5, RowsInPut
<1>6. CASE "schedule.create" \notin q.kinds /\ "task.create" \in q.kinds
  <2>1. PICK j \in 1..MaxId : j = Talks!NewId("task")
    BY <1>1, <1>6 DEF Talks!Fits
  <2>2. StatusRow(u, "todo") \in Rows(User) /\ StatusRow(u, "todo").owner = u /\ StatusRow(u, "todo").status = "todo"
    BY NewStatus
  <2>3. RowOK(User, MaxTime, "task", StatusRow(u, "todo"))
    BY <2>2 DEF RowOK
  <2>4. Talks!Executed(q) = Put(table, "task", j, StatusRow(u, "todo"))
    <3>1. Talks!Executed(q) = [table EXCEPT !["task"][Talks!NewId("task")] = [Talks!NoRow EXCEPT !.owner = q.user, !.status = "todo"]]
      <4>1. "schedule.delete" \notin q.kinds /\ "task.done" \notin q.kinds
        BY <1>3, <1>6 DEF Intents
      <4> QED BY <1>6, <4>1, Zenon DEF Talks!Executed
    <3>2. StatusRow(u, "todo") = [Talks!NoRow EXCEPT !.owner = q.user, !.status = "todo"]
      BY <1>1, <1>4, Zenon DEF StatusRow
    <3> QED BY <2>1, <3>1, <3>2, Zenon DEF Put
  <2>5. "task" \in Tabs /\ "session" \in Tabs /\ q.by # "llm"
    BY <1>3, <1>6 DEF Tabs
  <2> QED BY <1>1, <2>2, <2>3, <2>4, <2>5, RowsInPut
<1>7. CASE q.id # 0 /\ q.kinds = {"schedule.delete"}
  <2>1. Talks!Executed(q) = Put(table, "event", i, NoRow) /\ i \in 1..MaxId
    BY <1>1, <1>4, <1>7 DEF Talks!Executed, Put
  <2>2. "event" \in Tabs /\ "session" \in Tabs /\ q.by # "llm"
    BY <1>3, <1>7 DEF Tabs
  <2>3. NoRow \in Rows(User) /\ RowOK(User, MaxTime, "event", NoRow)
    BY Nothing
  <2> QED BY <1>1, <2>1, <2>2, <2>3, RowsInPut
<1>8. CASE q.id # 0 /\ q.kinds = {"task.done"}
  <2>1. PICK old, new : old = q.copy /\ new = q.new
    OBVIOUS
  <2>2. PICK row, x : /\ row = table["task"][i]
                      /\ x = [c \in DOMAIN row |-> IF new[c] # old[c] THEN new[c] ELSE row[c]]
    OBVIOUS
  <2>3. Talks!Executed(q) = [table EXCEPT !["task"][i] = Talks!Merge(@, old, new)] /\ i \in 1..MaxId
    BY <1>1, <1>4, <1>8, <2>1 DEF Talks!Executed
  <2>4. "task" \in Tabs /\ "session" \in Tabs /\ q.by # "llm"
    BY <1>3, <1>8 DEF Tabs
  <2>5. Talks!Executed(q) = Put(table, "task", i, x)
    BY <1>1, <2>2, <2>3, <2>4 DEF Talks!Merge, Put
  <2>6. row \in Rows(User) /\ row # NoRow /\ RowOK(User, MaxTime, "task", row)
    BY <1>1, <1>4, <1>8, <2>2, <2>3, <2>4 DEF RowsIn
  <2>7. old \in Rows(User) /\ new \in Rows(User) /\ Change(User, MaxTime, "task", old, new)
    BY <1>3, <1>8, <2>1
  <2>8. x \in Rows(User) /\ RowOK(User, MaxTime, "task", x)
    BY <2>2, <2>4, <2>6, <2>7, Merged
  <2> QED BY <1>1, <2>3, <2>4, <2>5, <2>8, RowsInPut
<1>9. CASE /\ "schedule.create" \notin q.kinds /\ "task.create" \notin q.kinds
           /\ q.id = 0 \/ q.kinds \notin {{"schedule.delete"}, {"task.done"}}
  <2>1. /\ ~(q.id # 0 /\ "schedule.delete" \in q.kinds)
        /\ ~(q.id # 0 /\ "task.done" \in q.kinds)
    BY <1>3, <1>9 DEF Intents
  <2>2. Talks!Executed(q) = table
    BY <1>9, <2>1, Zenon DEF Talks!Executed
  <2> QED BY <1>1, <2>2
<1> QED BY <1>5, <1>6, <1>7, <1>8, <1>9

\* What is saved with a message: the session is the user's.
LEMMA TalksSaved ==
    ASSUME Talks!RecordsAssumption, RecTyped(User, Requests, MaxId, MaxTime, {"run", "save", "forget"}),
           NEW r \in Requests, Talks!SaveMessage(r)
    PROVE  /\ req[r].op = "save" /\ req[r].user \in User /\ Talks!Ends(r)
           /\ \/ UNCHANGED <<table, message, activity>>
              \/ \E i \in 1..MaxId :
                    /\ RowsOK(User, MaxId, MaxTime)' /\ message' = message \cup {<<req[r].user, i>>}
                    /\ activity' \in {activity, 1 - activity}
                    /\ table'["session"][i].owner \in User
                    /\ \A j \in 1..MaxId : j # i => table'["session"][j] = table["session"][j]
                    /\ req[r].sid = 0 => table'["session"][i].owner = req[r].user
                    /\ req[r].sid # 0 => table'["session"] = table["session"]
           /\ req[r].by = "llm" => table'["event"] = table["event"] /\ table'["task"] = table["task"]
<1>1. /\ MaxId \in Nat /\ "none" \notin User
      /\ Talks!NoRow = NoRow /\ Talks!Ids = 1..MaxId
      /\ table \in [Tabs -> [1..MaxId -> Rows(User)]] /\ "session" \in Tabs
      /\ "event" \in Tabs /\ "task" \in Tabs
  BY DEF Talks!RecordsAssumption, Talks!NoRow, Talks!None, NoRow, Talks!Ids, RecTyped, RowsOK, Tabs
<1>2. PICK q, i : q = req[r] /\ i = IF q.sid = 0 THEN Talks!NewId("session") ELSE q.sid
  OBVIOUS
<1>3. q.op = "save" /\ i \in 1..MaxId /\ Talks!Fits(q) /\ Talks!Ends(r)
  BY <1>1, <1>2 DEF Talks!SaveMessage
<1>4. PICK u \in User : u = q.user
  BY <1>2, <1>3 DEF RecTyped, AsksOK, AskOK
<1>5. CASE UNCHANGED <<table, message, activity>>
  BY <1>2, <1>3, <1>4, <1>5
<1>6. CASE ~ UNCHANGED <<table, message, activity>>
  <2>1. /\ q.sid # 0 => table["session"][q.sid] # NoRow
        /\ "task.done" \in q.kinds /\ q.id # 0 => table["task"][q.id] # NoRow
        /\ message' = message \cup {<<q.user, i>>}
        /\ activity' = IF q.logs THEN 1 - activity ELSE activity
        /\ table' = IF q.sid = 0 THEN Put(Talks!Executed(q), "session", i, SessionRow(u))
                    ELSE Talks!Executed(q)
    BY <1>1, <1>2, <1>4, <1>6, Zenon DEF Talks!SaveMessage, SessionRow, Put
  <2>2. PICK f : f = Talks!Executed(q)
    OBVIOUS
  <2>3. /\ RowsIn(f, User, MaxId, MaxTime) /\ f["session"] = table["session"]
        /\ q.by = "llm" => f = table
    BY <1>2, <1>3, <2>1, <2>2, TalksExecuted
  <2>4. CASE q.sid = 0
    <3>1. SessionRow(u) \in Rows(User) /\ SessionRow(u).owner = u
      BY NewSession
    <3>2. RowOK(User, MaxTime, "session", SessionRow(u))
      BY <3>1 DEF RowOK
    <3>3. PICK g : g = Put(f, "session", i, SessionRow(u))
      OBVIOUS
    <3>4. /\ RowsIn(g, User, MaxId, MaxTime) /\ g["session"][i] = SessionRow(u)
          /\ \A l \in Tabs : l # "session" => g[l] = f[l]
          /\ \A j \in 1..MaxId : j # i => g["session"][j] = f["session"][j]
      BY <1>1, <1>3, <2>3, <3>1, <3>2, <3>3, RowsInPut
    <3>5. table' = g
      BY <2>1, <2>2, <2>4, <3>3
    <3>6. RowsOK(User, MaxId, MaxTime)'
      BY <3>4, <3>5 DEF RowsIn, RowsOK
    <3>7. /\ table'["session"][i].owner = u
          /\ \A j \in 1..MaxId : j # i => table'["session"][j] = table["session"][j]
      BY <2>3, <3>1, <3>4, <3>5
    <3>8. table'["event"] = f["event"] /\ table'["task"] = f["task"]
      BY <1>1, <3>4, <3>5
    <3>9. activity' \in {activity, 1 - activity}
      BY <2>1
    <3> QED BY <1>2, <1>3, <1>4, <2>1, <2>3, <2>4, <3>6, <3>7, <3>8, <3>9
  <2>5. CASE q.sid # 0
    <3>1. table' = f /\ i = q.sid
      BY <1>2, <2>1, <2>2, <2>5
    <3>2. RowsOK(User, MaxId, MaxTime)'
      BY <2>3, <3>1 DEF RowsIn, RowsOK
    <3>3. table["session"][i].owner \in User
      BY <1>1, <1>3, <2>1, <2>5, <3>1 DEF RecTyped, RowsOK, RowOK
    <3> QED BY <1>1, <1>2, <1>3, <1>4, <2>1, <2>3, <2>5, <3>1, <3>2, <3>3
  <2> QED BY <2>4, <2>5
<1> QED BY <1>5, <1>6

\* A step of the chat keeps the types.
LEMMA TalksTyped ==
    ASSUME Talks!RecordsAssumption, [Talks!Next]_(Talks!vars),
           RecTyped(User, Requests, MaxId, MaxTime, {"run", "save", "forget"})
    PROVE  RecTyped(User, Requests, MaxId, MaxTime, {"run", "save", "forget"})'
<1> DEFINE Does == {"run", "save", "forget"}
<1>1. /\ MaxId \in Nat /\ Talks!NoRow = NoRow /\ Talks!NoReq = NoAsk
      /\ RowsOK(User, MaxId, MaxTime) /\ LogsOK(User, MaxId) /\ AsksOK(User, Requests, MaxId, MaxTime, Does)
      /\ req \in [Requests -> Asks(User)] /\ \A r \in Requests : AskOK(User, MaxId, MaxTime, req[r])
  BY DEF Talks!RecordsAssumption, Talks!NoRow, Talks!NoReq, Talks!None, NoRow, NoAsk, RecTyped, AsksOK
<1>2. CASE UNCHANGED Talks!vars
  BY <1>2 DEF Talks!vars, RecTyped, RowsOK, AsksOK, LogsOK
<1>3. ASSUME NEW r \in Requests, NEW q \in Asks(User), AskOK(User, MaxId, MaxTime, q),
             q.op \in Does \cup {"none"}, req' = [req EXCEPT ![r] = q]
      PROVE  AsksOK(User, Requests, MaxId, MaxTime, Does)'
  BY <1>1, <1>3, AskPut
<1>4. ASSUME NEW r \in Requests, Talks!Ends(r)
      PROVE  AsksOK(User, Requests, MaxId, MaxTime, Does)'
  BY <1>1, <1>3, <1>4, Nothing DEF Talks!Ends
<1>5. ASSUME NEW r \in Requests, NEW q \in Asks(User), AskOK(User, MaxId, MaxTime, q),
             q.op \in {"run", "forget"}, Talks!Begin(r, q)
      PROVE  RecTyped(User, Requests, MaxId, MaxTime, Does)'
  <2>1. AsksOK(User, Requests, MaxId, MaxTime, Does)'
    BY <1>3, <1>5 DEF Talks!Begin
  <2> QED BY <1>1, <1>5, <2>1 DEF Talks!Begin, RecTyped, RowsOK, LogsOK
<1>6. ASSUME NEW r \in Requests, Talks!FindSession(r)
      PROVE  RecTyped(User, Requests, MaxId, MaxTime, Does)'
  <2>1. AsksOK(User, Requests, MaxId, MaxTime, Does)'
    <3>1. CASE Talks!Ends(r)
      BY <1>4, <3>1
    <3>2. CASE req' = [req EXCEPT ![r].op = "save"]
      <4>1. PICK q, p : q = req[r] /\ p = [q EXCEPT !.op = "save"]
        OBVIOUS
      <4>2. q \in Asks(User) /\ q.op = "run" /\ AskOK(User, MaxId, MaxTime, q)
        BY <1>1, <1>6, <4>1 DEF Talks!FindSession
      <4>3. /\ p \in Asks(User) /\ p.op = "save" /\ p.user = q.user /\ p.id = q.id /\ p.sid = q.sid
            /\ p.copy = q.copy /\ p.new = q.new /\ p.kinds = q.kinds /\ p.by = q.by
        BY <4>1, <4>2, SaveAsk
      <4>4. AskOK(User, MaxId, MaxTime, p)
        BY <4>2, <4>3 DEF AskOK
      <4>5. req' = [req EXCEPT ![r] = p]
        BY <1>1, <3>2, <4>1
      <4> QED BY <1>3, <4>3, <4>4, <4>5
    <3> QED BY <1>6, <3>1, <3>2 DEF Talks!FindSession
  <2> QED BY <1>1, <1>6, <2>1 DEF Talks!FindSession, RecTyped, RowsOK, LogsOK
<1>7. ASSUME NEW r \in Requests, Talks!SaveMessage(r)
      PROVE  RecTyped(User, Requests, MaxId, MaxTime, Does)'
  <2>1. Talks!Ends(r) /\ req[r].user \in User /\
           \/ UNCHANGED <<table, message, activity>>
           \/ \E i \in 1..MaxId :
                 /\ RowsOK(User, MaxId, MaxTime)' /\ message' = message \cup {<<req[r].user, i>>}
                 /\ activity' \in {activity, 1 - activity}
    BY <1>7, TalksSaved
  <2>2. RowsOK(User, MaxId, MaxTime)'
    BY <1>1, <2>1 DEF RowsOK
  <2>3. LogsOK(User, MaxId)'
    BY <1>1, <2>1 DEF LogsOK
  <2> QED BY <1>4, <2>1, <2>2, <2>3 DEF RecTyped
<1>8. ASSUME NEW r \in Requests, Talks!Forget(r)
      PROVE  RecTyped(User, Requests, MaxId, MaxTime, Does)'
  <2>1. PICK i \in 1..MaxId : i = req[r].id
    BY <1>1, <1>8 DEF Talks!Forget, AskOK
  <2>2. table' = [table EXCEPT !["session"][i] = NoRow]
    BY <1>1, <1>8, <2>1 DEF Talks!Forget
  <2>3. RowsOK(User, MaxId, MaxTime)'
    BY <1>1, <2>2, RowPut, Nothing DEF Tabs
  <2>4. LogsOK(User, MaxId)'
    BY <1>1, <1>8 DEF Talks!Forget, LogsOK
  <2> QED BY <1>4, <1>8, <2>3, <2>4 DEF Talks!Forget, RecTyped
<1> QED BY <1>2, <1>5, <1>6, <1>7, <1>8, TalksShape

\* What the types of the memories give.
LEMMA TalksGives ==
    ASSUME RecTyped(User, Requests, MaxId, MaxTime, {"run", "save", "forget"})
    PROVE  Talks!TypeOK
<1>1. /\ Talks!Ids = 1..MaxId /\ Talks!Tables = Tabs /\ Talks!NoRow = NoRow
      /\ Talks!Times = 1..MaxTime
  BY DEF Talks!Ids, Talks!Tables, Tabs, Talks!NoRow, Talks!None, NoRow, Talks!Times
<1>2. /\ \A k \in Tabs, i \in 1..MaxId : RowOK(User, MaxTime, k, table[k][i])
      /\ LogsOK(User, MaxId)
  BY DEF RecTyped, RowsOK
<1> QED BY <1>1, <1>2 DEF Talks!TypeOK, RowOK, LogsOK, Tabs

\* What only the model said changes no record.
LEMMA TalkHarmless ==
    ASSUME Talk!RecordsAssumption, [Talk!Next]_(Talk!vars),
           RecTyped(User, Request, MaxId + 1, MaxTime, {"run", "save", "forget"})
    PROVE  Talk!LlmHarmless
<1>1. /\ req \in [Request -> Asks(User)] /\ Talk!NoRow = NoRow
      /\ table \in [Tabs -> [1..(MaxId + 1) -> Rows(User)]]
  BY DEF RecTyped, AsksOK, RowsOK, Talk!NoRow, Talk!None, NoRow
<1> SUFFICES ASSUME NEW r \in Request, req[r].by = "llm", req'[r] # req[r]
             PROVE  table'["event"] = table["event"] /\ table'["task"] = table["task"]
  BY DEF Talk!LlmHarmless
<1>2. CASE UNCHANGED Talk!vars
  BY <1>2 DEF Talk!vars
<1>3. CASE \E s \in Request, q \in Asks(User) : Talk!Begin(s, q)
  BY <1>3 DEF Talk!Begin
<1>4. CASE \E s \in Request : Talk!FindSession(s)
  BY <1>4 DEF Talk!FindSession
<1>5. ASSUME NEW s \in Request, Talk!SaveMessage(s)
      PROVE  table'["event"] = table["event"] /\ table'["task"] = table["task"]
  <2>1. /\ Talk!Ends(s)
        /\ req[s].by = "llm" => table'["event"] = table["event"] /\ table'["task"] = table["task"]
    BY <1>5, TalkSaved
  <2>2. s = r
    BY <1>1, <2>1 DEF Talk!Ends
  <2> QED BY <2>1, <2>2
<1>6. ASSUME NEW s \in Request, Talk!Forget(s)
      PROVE  table'["event"] = table["event"] /\ table'["task"] = table["task"]
  BY <1>1, <1>6 DEF Talk!Forget, Tabs
<1> QED BY <1>2, <1>3, <1>4, <1>5, <1>6, TalkShape

\* Every message is in a session of its user.
Kept == \A m \in message : table["session"][m[2]].owner = m[1]

\* With one user, whose requests overlap: what is deleted is the user's own, and the
\* messages go with the session.
LEMMA TalksKept ==
    ASSUME Talks!RecordsAssumption, [Talks!Next]_(Talks!vars), Kept, NEW u, User = {u},
           RecTyped(User, Requests, MaxId, MaxTime, {"run", "save", "forget"})
    PROVE  Kept'
<1>1. /\ MaxId \in Nat /\ message \subseteq User \X (1..MaxId) /\ "none" # u
      /\ Talks!NoRow = NoRow /\ table \in [Tabs -> [1..MaxId -> Rows(User)]] /\ "session" \in Tabs
  BY DEF Talks!RecordsAssumption, RecTyped, LogsOK, RowsOK, Talks!NoRow, Talks!None, NoRow, Tabs
<1>2. CASE UNCHANGED <<table, message>>
  BY <1>2 DEF Kept
<1>3. CASE UNCHANGED Talks!vars
  BY <1>2, <1>3 DEF Talks!vars
<1>4. CASE \E r \in Requests, q \in Asks(User) : Talks!Begin(r, q)
  BY <1>2, <1>4 DEF Talks!Begin
<1>5. CASE \E r \in Requests : Talks!FindSession(r)
  BY <1>2, <1>5 DEF Talks!FindSession
<1>6. ASSUME NEW r \in Requests, Talks!SaveMessage(r) PROVE Kept'
  <2>1. /\ req[r].user = u
        /\ \/ UNCHANGED <<table, message, activity>>
           \/ \E i \in 1..MaxId :
                 /\ message' = message \cup {<<req[r].user, i>>}
                 /\ table'["session"][i].owner \in User
                 /\ \A j \in 1..MaxId : j # i => table'["session"][j] = table["session"][j]
    <3>1. req[r].user \in User
      BY <1>6, TalksSaved
    <3>2. \/ UNCHANGED <<table, message, activity>>
          \/ \E i \in 1..MaxId :
                /\ message' = message \cup {<<req[r].user, i>>}
                /\ table'["session"][i].owner \in User
                /\ \A j \in 1..MaxId : j # i => table'["session"][j] = table["session"][j]
      <4> QED BY <1>6, TalksSaved, Zenon
    <3> QED BY <3>1, <3>2
  <2>2. CASE UNCHANGED <<table, message, activity>>
    BY <1>2, <2>2
  <2>3. ASSUME NEW i \in 1..MaxId,
               message' = message \cup {<<req[r].user, i>>},
               table'["session"][i].owner \in User,
               \A j \in 1..MaxId : j # i => table'["session"][j] = table["session"][j]
        PROVE  Kept'
    <3>1. ASSUME NEW m \in message' PROVE table'["session"][m[2]].owner = m[1]
      <4>1. m[1] = u /\ m[2] \in 1..MaxId
        BY <1>1, <2>1, <2>3, <3>1
      <4>2. CASE m[2] = i
        BY <2>3, <4>1, <4>2
      <4>3. CASE m[2] # i
        <5>1. m \in message
          BY <2>3, <3>1, <4>3
        <5> QED BY <2>3, <4>1, <4>3, <5>1 DEF Kept
      <4> QED BY <4>2, <4>3
    <3> QED BY <3>1 DEF Kept
  <2> QED BY <2>1, <2>2, <2>3
<1>7. ASSUME NEW r \in Requests, Talks!Forget(r) PROVE Kept'
  <2>1. PICK i \in 1..MaxId : i = req[r].id
    BY <1>7 DEF Talks!Forget, RecTyped, AsksOK, AskOK
  <2>2. req[r].user = u
    BY <1>7 DEF Talks!Forget, RecTyped, AsksOK, AskOK
  <2>3. /\ message' = message \ {<<u, i>>}
        /\ \A j \in 1..MaxId : j # i => table'["session"][j] = table["session"][j]
    BY <1>1, <1>7, <2>1, <2>2 DEF Talks!Forget
  <2>4. ASSUME NEW m \in message' PROVE table'["session"][m[2]].owner = m[1]
    <3>1. m \in message /\ m # <<u, i>>
      BY <2>3, <2>4
    <3>2. m = <<m[1], m[2]>> /\ m[1] = u /\ m[2] \in 1..MaxId
      BY <1>1, <3>1
    <3>3. m[2] # i
      BY <3>1, <3>2
    <3> QED BY <2>3, <3>1, <3>2, <3>3 DEF Kept
  <2> QED BY <2>4 DEF Kept
<1> QED BY <1>3, <1>4, <1>5, <1>6, <1>7, TalksShape

-----------------------------------------------------------------------------
\* The invariants of the parts that are about records.
RecordsInv ==
    /\ part = "record" =>
          RecTyped(Users, Requests, MaxId, MaxTime + 2, {"write", "delete"}) /\ RecordSerial
    /\ part = "records" => RecTyped(Users, Requests, MaxId, MaxTime, {"write", "delete"})
    /\ part = "talk" => RecTyped(User, Request, MaxId + 1, MaxTime, {"run", "save", "forget"})
    /\ part = "talks" => RecTyped(User, Requests, MaxId, MaxTime, {"run", "save", "forget"}) /\ Kept

\* A step is a step of the part that the behaviour is about.
LEMMA RecordsPartStep ==
    ASSUME [Next]_vars
    PROVE  /\ part' = part
           /\ part = "record" => [Record!Next]_(Record!vars)
           /\ part = "records" => [Records!Next]_(Records!vars)
           /\ part = "talk" => [Talk!Next]_(Talk!vars)
           /\ part = "talks" => [Talks!Next]_(Talks!vars)
<1>1. CASE UNCHANGED vars
  BY <1>1 DEF vars, Record!vars, Records!vars, Talk!vars, Talks!vars
<1>2. CASE Next
  BY <1>2 DEF Next, NotKnowledgeIndex, NotWorkTaxonomy, NotWorkRecords
<1> QED BY <1>1, <1>2

\* The invariants hold in the beginning.
LEMMA RecordsInit ==
    ASSUME Init
    PROVE  RecordsInv
<1>1. ASSUME part = "record"
      PROVE  RecTyped(Users, Requests, MaxId, MaxTime + 2, {"write", "delete"}) /\ RecordSerial
  <2>1. Record!Init
    BY <1>1 DEF Init
  <2>2. /\ table = [k \in Tabs |-> [i \in 1..MaxId |-> NoRow]] /\ message = {} /\ activity = 0
        /\ req = [r \in Requests |-> NoAsk] /\ MaxId \in Nat
    BY <2>1, WorkAssumption
       DEF Record!Init, Record!NoRow, Record!NoReq, Record!None, NoRow, NoAsk, Record!Tables,
           Tabs, Record!Ids, Record!RecordsAssumption
  <2>3. RecTyped(Users, Requests, MaxId, MaxTime + 2, {"write", "delete"})
    BY <2>2, RecInit
  <2> QED BY <2>1, <2>3, RecordSerialInit
<1>2. ASSUME part = "records"
      PROVE  RecTyped(Users, Requests, MaxId, MaxTime, {"write", "delete"})
  <2>1. Records!Init
    BY <1>2 DEF Init
  <2>2. /\ table = [k \in Tabs |-> [i \in 1..MaxId |-> NoRow]] /\ message = {} /\ activity = 0
        /\ req = [r \in Requests |-> NoAsk] /\ MaxId \in Nat
    BY <2>1, WorkAssumption
       DEF Records!Init, Records!NoRow, Records!NoReq, Records!None, NoRow, NoAsk,
           Records!Tables, Tabs, Records!Ids, Records!RecordsAssumption
  <2> QED BY <2>2, RecInit
<1>3. ASSUME part = "talk"
      PROVE  RecTyped(User, Request, MaxId + 1, MaxTime, {"run", "save", "forget"})
  <2>1. Talk!Init
    BY <1>3 DEF Init
  <2>2. /\ table = [k \in Tabs |-> [i \in 1..(MaxId + 1) |-> NoRow]] /\ message = {}
        /\ activity = 0 /\ req = [r \in Request |-> NoAsk] /\ MaxId + 1 \in Nat
    BY <2>1, WorkAssumption
       DEF Talk!Init, Talk!NoRow, Talk!NoReq, Talk!None, NoRow, NoAsk, Talk!Tables, Tabs,
           Talk!Ids, Talk!RecordsAssumption
  <2> QED BY <2>2, RecInit
<1>4. ASSUME part = "talks"
      PROVE  RecTyped(User, Requests, MaxId, MaxTime, {"run", "save", "forget"}) /\ Kept
  <2>1. Talks!Init
    BY <1>4 DEF Init
  <2>2. /\ table = [k \in Tabs |-> [i \in 1..MaxId |-> NoRow]] /\ message = {}
        /\ activity = 0 /\ req = [r \in Requests |-> NoAsk] /\ MaxId \in Nat
    BY <2>1, WorkAssumption
       DEF Talks!Init, Talks!NoRow, Talks!NoReq, Talks!None, NoRow, NoAsk, Talks!Tables, Tabs,
           Talks!Ids, Talks!RecordsAssumption
  <2>3. Kept
    BY <2>2 DEF Kept
  <2> QED BY <2>2, <2>3, RecInit
<1> QED BY <1>1, <1>2, <1>3, <1>4 DEF RecordsInv

\* Whatever changes a record commits an activity, a chat whose session is deleted
\* while it runs leaves no message, and what only the model said changes nothing; with
\* one request at a time an event does not end before it starts, a task has a time
\* exactly when done, and a request changes rows of its user only (update_event,
\* update_task, _save_message, _llm_category_to_intent).  The messages need that the
\* chats are one user's.
THEOREM WorkRecordsSound ==
    ASSUME NEW CONSTANT u, User = {u}
    PROVE  Spec => RecordsSound
<1>1. Init => RecordsInv
  BY RecordsInit
<1>2. RecordsInv /\ [Next]_vars => RecordsInv'
  BY WorkAssumption, RecordsPartStep, RecordTyped, RecordSerialStep, RecordsTyped, TalkTyped,
     TalksTyped, TalksKept DEF RecordsInv
<1>3. RecordsInv => (part = "record" => Record!TypeOK /\ Record!EventOrdered /\ Record!TaskStamp)
  BY WorkAssumption, RecordGives DEF RecordsInv
<1>4. RecordsInv => (part = "records" => Records!TypeOK)
  BY RecordsGives DEF RecordsInv
<1>5. RecordsInv => (part = "talk" => Talk!TypeOK)
  BY TalkGives DEF RecordsInv
<1>6. RecordsInv => (part = "talks" => Talks!TypeOK /\ Talks!MessageHasSession)
  BY TalksGives DEF RecordsInv, Kept, Talks!MessageHasSession
<1>7. RecordsInv /\ [Next]_vars => [part = "record" => Record!OwnerScope]_vars
  BY WorkAssumption, RecordsPartStep, RecordScope DEF RecordsInv
<1>8. RecordsInv /\ [Next]_vars => [part = "records" => Records!ChangesLogged]_vars
  BY WorkAssumption, RecordsPartStep, RecordsLogged DEF RecordsInv
<1>9. RecordsInv /\ [Next]_vars => [part = "talk" => Talk!LlmHarmless]_vars
  BY WorkAssumption, RecordsPartStep, TalkHarmless DEF RecordsInv
<1> QED BY <1>1, <1>2, <1>3, <1>4, <1>5, <1>6, <1>7, <1>8, <1>9, PTL DEF Spec, RecordsSound

==============================================================================
