----------------------------- MODULE WorkRecords ------------------------------
(***************************************************************************)
(* Aero Work's personal records: events, tasks, saved documents and chat   *)
(* sessions, changed by their REST routes and by what a user says in the   *)
(* work chat.  Routes read a row, work on the copy, and write by id only   *)
(* the columns that differ from the copy; SQLite's write lock is taken by  *)
(* the first write, not by the read.                                       *)
(***************************************************************************)
EXTENDS Naturals, FiniteSets, FiniteSetsExt

CONSTANTS Users, Requests,
          MaxId,        \* bound on the ids of each table
          MaxTime,      \* bound on times of events
          Kinds,        \* which of the tables the routes of a run work on
          Utterances,   \* what users say: sets of words
          Concurrent    \* requests overlap

\* What the constants are assumed to be.
RecordsAssumption ==
    /\ MaxId \in Nat /\ MaxTime \in Nat \ {0} /\ Concurrent \in BOOLEAN
    /\ Kinds \subseteq {"event", "task", "doc", "chat"} /\ "none" \notin Users

None == "none"
Ids == 1..MaxId
Tables == {"event", "task", "doc", "session"}

VARIABLES table,     \* rows by table and id
          message,   \* chat messages: their user and session
          activity,  \* number of activity rows, modulo 2
          req        \* requests under way

vars == <<table, message, activity, req>>

NoRow == [owner |-> None, starts |-> 0, ends |-> 0, status |-> None, done |-> 0]
NoReq == [op |-> None, user |-> None, table |-> None, id |-> 0, copy |-> NoRow, new |-> NoRow,
          kinds |-> {}, by |-> None, logs |-> FALSE, sid |-> 0]

Init ==
    /\ table = [k \in Tables |-> [i \in Ids |-> NoRow]]
    /\ message = {} /\ activity = 0 /\ req = [r \in Requests |-> NoReq]

-----------------------------------------------------------------------------
(* Requests and the database. *)

Free(r) == req[r] = NoReq /\ (Concurrent \/ \A q \in Requests : req[q] = NoReq)
Begin(r, q) == Free(r) /\ req' = [req EXCEPT ![r] = q] /\ UNCHANGED <<table, message, activity>>
Ends(r) == req' = [req EXCEPT ![r] = NoReq]
\* A chat that wrote before it looked for its session holds the lock.
Unlocked(r) == \A q \in Requests \ {r} : ~(req[q].op = "save" /\ req[q].logs)
Quiet == Concurrent \/ \A r \in Requests : req[r] = NoReq

Owned(k, u) == {i \in Ids : table[k][i].owner = u}
\* The id of a new row follows the largest in use.
NewId(k) == Max({0} \cup {i \in Ids : table[k][i] # NoRow}) + 1
record_activity == activity' = 1 - activity

\* The columns that differ from the copy go to the row.
Merge(row, copy, new) == [c \in DOMAIN row |-> IF new[c] # copy[c] THEN new[c] ELSE row[c]]

\* A new row, in a transaction of its own.
Insert(k, row) ==
    /\ Quiet /\ \A r \in Requests : ~(req[r].op = "save" /\ req[r].logs)
    /\ NewId(k) \in Ids /\ table' = [table EXCEPT ![k][NewId(k)] = row]
    /\ record_activity /\ UNCHANGED <<message, req>>

-----------------------------------------------------------------------------
(* Events, tasks and documents. *)

Times == 1..MaxTime
Ordered(row) == row.ends = 0 \/ row.ends >= row.starts

create_event ==
    /\ "event" \in Kinds
    /\ \E u \in Users, s \in Times, e \in {0} \cup Times :
        LET row == [NoRow EXCEPT !.owner = u, !.starts = s, !.ends = e] IN Ordered(row) /\ Insert("event", row)

\* Any of the times is replaced, and the copy's order checked.
update_event(r) ==
    /\ "event" \in Kinds
    /\ \E u \in Users : \E i \in Owned("event", u), s \in Times, e \in {0} \cup Times :
        LET copy == table["event"][i] new == [copy EXCEPT !.starts = s, !.ends = e] IN
        /\ Ordered(new)
        /\ Begin(r, [NoReq EXCEPT !.op = "write", !.user = u, !.table = "event", !.id = i, !.copy = copy, !.new = new])

create_task ==
    /\ "task" \in Kinds
    /\ \E u \in Users : Insert("task", [NoRow EXCEPT !.owner = u, !.status = "todo"])

\* The time of completion is new whenever the status is set to done, and gone
\* whenever it is set to something else.
WithStatus(copy, s) ==
    [copy EXCEPT !.status = s, !.done = IF s # "done" THEN 0 ELSE IF @ = 1 THEN 2 ELSE 1]

update_task(r) ==
    /\ "task" \in Kinds
    /\ \E u \in Users : \E i \in Owned("task", u), s \in {"todo", "doing", "done"} :
        LET copy == table["task"][i] IN
        Begin(r, [NoReq EXCEPT !.op = "write", !.user = u, !.table = "task", !.id = i, !.copy = copy,
                               !.new = WithStatus(copy, s)])

request_document_save ==
    /\ "doc" \in Kinds
    /\ \E u \in Users : Insert("doc", [NoRow EXCEPT !.owner = u, !.status = "pending"])

approve_document(r) ==
    /\ "doc" \in Kinds
    /\ \E u \in Users : \E i \in Owned("doc", u) :
        LET copy == table["doc"][i] IN
        Begin(r, [NoReq EXCEPT !.op = "write", !.user = u, !.table = "doc", !.id = i, !.copy = copy,
                               !.new = [copy EXCEPT !.status = "approved"]])

\* Only an approved document is downloaded.
download_saved_document ==
    /\ "doc" \in Kinds /\ Quiet /\ \E i \in Ids : table["doc"][i].status = "approved"
    /\ \A r \in Requests : ~(req[r].op = "save" /\ req[r].logs)
    /\ record_activity /\ UNCHANGED <<table, message, req>>

\* The row to delete, and its owner, are read first.
DeleteRow(r, k) ==
    /\ k \in Kinds
    /\ \E u \in Users : \E i \in Owned(k, u) :
        Begin(r, [NoReq EXCEPT !.op = "delete", !.user = u, !.table = k, !.id = i])

delete_event(r) == DeleteRow(r, "event")
delete_task_item(r) == DeleteRow(r, "task")
delete_saved_document(r) == DeleteRow(r, "doc")

\* Flush and commit of a changed row: nothing is written when no column
\* changed; when the row is gone everything is rolled back.
Write(r) ==
    LET q == req[r] gone == q.copy # q.new /\ table[q.table][q.id] = NoRow IN
    /\ q.op = "write" /\ Unlocked(r)
    /\ IF gone THEN UNCHANGED <<table, activity>>
       ELSE /\ table' = IF q.copy = q.new THEN table
                        ELSE [table EXCEPT ![q.table][q.id] = Merge(@, q.copy, q.new)]
            /\ record_activity
    /\ Ends(r) /\ UNCHANGED message

\* A delete takes whatever row has the id, or none.
Delete(r) ==
    LET q == req[r] IN
    /\ q.op = "delete" /\ Unlocked(r)
    /\ table' = [table EXCEPT ![q.table][q.id] = NoRow]
    /\ record_activity /\ Ends(r) /\ UNCHANGED message

-----------------------------------------------------------------------------
(* The work chat. *)

\* What the rules read from the words of an utterance.
classify(words) ==
    LET has(ws) == words \cap ws # {}
        document == has({"report"}) /\ has({"write"})
        create == has({"when"}) /\ has({"add", "book"}) IN
    CASE has({"todo"}) /\ has({"add"}) -> {"task.create"}
      [] has({"todo"}) /\ ~has({"add"}) /\ has({"show", "tell"}) -> {"task.list"}
      [] has({"todo"}) /\ ~has({"add", "show", "tell"}) /\ has({"did"}) -> {"task.done"}
      [] OTHER ->
            LET intents == (IF create THEN {"schedule.create"} ELSE {})
                               \cup (IF document THEN {"document"} ELSE {}) IN
            CASE intents # {} -> intents
              [] intents = {} /\ has({"schedule"}) /\ has({"remove"}) -> {"schedule.delete"}
              [] intents = {} /\ has({"schedule"}) /\ ~has({"remove"}) /\ has({"show", "tell", "look"}) -> {"schedule.list"}
              [] intents = {} /\ ~(has({"schedule"}) /\ has({"remove", "show", "tell", "look"})) /\ has({"how"}) -> {"help"}
              [] OTHER -> {"knowledge"}

\* The category the model names; knowledge when it fails or names none.
classify_with_llm == {"schedule", "document", "knowledge", "help"}

\* The model's category only ever becomes an intent that reads.
_llm_category_to_intent(category, words) ==
    CASE category = "document" -> "document" [] category = "schedule" -> "schedule.list"
      [] category = "help" -> "help" [] OTHER -> "knowledge"

\* The model is asked when the rules found nothing, and does not overrule the
\* words that ask for a search.
Routed(words, category) ==
    LET rule == classify(words) IN
    IF rule = {"knowledge"} /\ category # "knowledge" /\ words \cap {"find", "tell"} = {}
    THEN [kinds |-> {_llm_category_to_intent(category, words)}, by |-> "llm"]
    ELSE [kinds |-> rule, by |-> "rule"]

\* Every way an utterance and the model's answer may go.
Routes == {Routed(w, c) : w \in Utterances, c \in classify_with_llm}

\* The rows among which a title is looked for.
list_events(u) == Owned("event", u)
list_tasks(u) == Owned("task", u)
Candidates(kinds, u) ==
    CASE "schedule.delete" \in kinds -> list_events(u)
      [] "task.done" \in kinds -> {i \in list_tasks(u) : table["task"][i].status # "done"}
      [] OTHER -> {}

\* Whether the handlers record an activity: not for documents, help, lists of
\* tasks, titles nothing matched, and searches that had no embeddings.
Recorded(kinds, matches, found) ==
    \/ kinds \cap {"schedule.create", "schedule.list", "task.create"} # {}
    \/ "schedule.delete" \in kinds /\ matches # {}
    \/ "task.done" \in kinds /\ Cardinality(matches) = 1
    \/ "knowledge" \in kinds /\ found

\* The rows whose title contains what was said may be any of the candidates;
\* only when it is one row is it deleted or done.
orchestrate(r) ==
    /\ "chat" \in Kinds
    /\ \E u \in Users, to \in Routes, sid \in {0} \cup Ids, found \in BOOLEAN :
        \E matches \in SUBSET Candidates(to.kinds, u) :
            LET k == IF "task.done" \in to.kinds THEN "task" ELSE "event"
                one == Cardinality(matches) = 1
                id == IF one THEN CHOOSE i \in matches : TRUE ELSE 0
                copy == IF one THEN table[k][id] ELSE NoRow IN
            Begin(r, [NoReq EXCEPT !.op = "run", !.user = u, !.kinds = to.kinds, !.by = to.by, !.sid = sid,
                                   !.table = k, !.id = id, !.copy = copy,
                                   !.new = IF one /\ k = "task" THEN WithStatus(copy, "done") ELSE copy,
                                   !.logs = Recorded(to.kinds, matches, found)])

\* The intents have run; a session that is not the user's rolls them back.
FindSession(r) ==
    LET q == req[r] IN
    /\ q.op = "run" /\ Unlocked(r)
    /\ IF q.sid # 0 /\ table["session"][q.sid].owner # q.user THEN Ends(r)
       ELSE req' = [req EXCEPT ![r].op = "save"]
    /\ UNCHANGED <<table, message, activity>>

\* There is room for a row the chat inserts: a bound of the model.
Fits(q) ==
    /\ "schedule.create" \in q.kinds => NewId("event") \in Ids
    /\ "task.create" \in q.kinds => NewId("task") \in Ids

\* Rows after the intents of a chat.
Executed(q) ==
    CASE "schedule.create" \in q.kinds ->
            [table EXCEPT !["event"][NewId("event")] = [NoRow EXCEPT !.owner = q.user, !.starts = 1]]
      [] "task.create" \in q.kinds ->
            [table EXCEPT !["task"][NewId("task")] = [NoRow EXCEPT !.owner = q.user, !.status = "todo"]]
      [] q.id # 0 /\ "schedule.delete" \in q.kinds -> [table EXCEPT !["event"][q.id] = NoRow]
      [] q.id # 0 /\ "task.done" \in q.kinds -> [table EXCEPT !["task"][q.id] = Merge(@, q.copy, q.new)]
      [] OTHER -> table

\* Mutant: the session that was found is not written again.
SaveMessage_noTouch(r) ==
    LET q == req[r] sid == IF q.sid = 0 THEN NewId("session") ELSE q.sid IN
    /\ q.op = "save" /\ Unlocked(r) /\ sid \in Ids /\ Fits(q)
    /\ table' = IF q.sid = 0 THEN [Executed(q) EXCEPT !["session"][sid] = [NoRow EXCEPT !.owner = q.user]] ELSE Executed(q)
    /\ message' = message \cup {<<q.user, sid>>} /\ activity' = IF q.logs THEN 1 - activity ELSE activity
    /\ Ends(r)

\* The session (a new one, or the one found, whose time is updated) and the
\* message are committed with the rest; a row that is gone fails it all.
SaveMessage(r) ==
    LET q == req[r]
        sid == IF q.sid = 0 THEN NewId("session") ELSE q.sid
        gone == \/ q.sid # 0 /\ table["session"][q.sid] = NoRow
                \/ "task.done" \in q.kinds /\ q.id # 0 /\ table["task"][q.id] = NoRow IN
    /\ q.op = "save" /\ Unlocked(r) /\ sid \in Ids /\ Fits(q)
    /\ IF gone THEN UNCHANGED <<table, message, activity>>
       ELSE /\ table' = IF q.sid = 0 THEN [Executed(q) EXCEPT !["session"][sid] = [NoRow EXCEPT !.owner = q.user]]
                        ELSE Executed(q)
            /\ message' = message \cup {<<q.user, sid>>}
            /\ activity' = IF q.logs THEN 1 - activity ELSE activity
    /\ Ends(r)

delete_chat_session(r) ==
    /\ "chat" \in Kinds
    /\ \E u \in Users : \E i \in Owned("session", u) :
        Begin(r, [NoReq EXCEPT !.op = "forget", !.user = u, !.table = "session", !.id = i])

\* The user's messages of the session go, then the row with its id.
Forget(r) ==
    LET q == req[r] IN
    /\ q.op = "forget" /\ Unlocked(r)
    /\ message' = message \ {<<q.user, q.id>>} /\ table' = [table EXCEPT !["session"][q.id] = NoRow]
    /\ Ends(r) /\ UNCHANGED activity

Next ==
    \/ create_event \/ create_task \/ request_document_save \/ download_saved_document
    \/ \E r \in Requests :
        \/ update_event(r) \/ update_task(r) \/ approve_document(r) \/ Write(r)
        \/ delete_event(r) \/ delete_task_item(r) \/ delete_saved_document(r) \/ Delete(r)
        \/ orchestrate(r) \/ FindSession(r) \/ SaveMessage(r) \/ delete_chat_session(r) \/ Forget(r)

Spec == Init /\ [][Next]_vars

-----------------------------------------------------------------------------
\* Type correctness: a row that exists has an owner and a status, or a time,
\* of its table.
TypeOK ==
    /\ activity \in {0, 1} /\ message \subseteq Users \X Ids
    /\ \A k \in Tables, i \in Ids : table[k][i] = NoRow \/ table[k][i].owner \in Users
    /\ \A i \in Ids :
        /\ table["task"][i] = NoRow \/ table["task"][i].status \in {"todo", "doing", "done"}
        /\ table["doc"][i] = NoRow \/ table["doc"][i].status \in {"pending", "approved"}
        /\ table["event"][i] = NoRow \/ table["event"][i].starts \in Times

\* An event never ends before it starts, whatever partial updates were made.
EventOrdered == \A i \in Ids : Ordered(table["event"][i])

\* A task has a time of completion exactly when it is done.
TaskStamp == \A i \in Ids : (table["task"][i].done # 0) <=> (table["task"][i].status = "done")

\* A request changes or deletes only rows of its user.
OwnerScope ==
    \A r \in Requests, k \in Tables, i \in Ids :
        req[r] # NoReq /\ req'[r] = NoReq /\ table[k][i] # NoRow /\ table[k][i].owner # req[r].user =>
            table'[k][i] = table[k][i]

\* Every message belongs to a session of its user that exists: a chat whose
\* session is deleted while it runs leaves nothing behind.
MessageHasSession == \A m \in message : table["session"][m[2]].owner = m[1]

\* Whatever changes an event, a task or a document commits a record of it.
ChangesLogged ==
    (\E k \in Tables \ {"session"} : table'[k] # table[k]) => activity' # activity

\* What the model said, and the rules did not confirm, never changes a record.
LlmHarmless ==
    \A r \in Requests : req[r].by = "llm" /\ req'[r] # req[r] =>
        table'["event"] = table["event"] /\ table'["task"] = table["task"]
=============================================================================
