---------------------------- MODULE LlmConnections ----------------------------
(***************************************************************************)
(* The registry of LLM connections: administrators create, change, delete  *)
(* connections and make one the default.  A request reads rows, and its    *)
(* first statement that writes takes SQLite's write lock until the commit  *)
(* at the end of the request; only changed columns are written.  Keys are  *)
(* stored encrypted with the server's secret, which a rotation replaces.   *)
(***************************************************************************)
EXTENDS Naturals, FiniteSets

CONSTANTS Admins,      \* administrators, each with one request at a time
          MaxId,       \* bound on connections ever created
          MaxSecret,   \* bound on secrets of the server
          Concurrent   \* requests may overlap

\* What the constants are assumed to be.
LlmAssumption == Concurrent \in BOOLEAN /\ MaxId \in Nat /\ MaxSecret \in Nat \ {0}

None == "none"
Ids == 1..MaxId

VARIABLES conn,     \* rows by id
          last,     \* last id given
          secret,   \* generation of the server's secret
          req       \* the request each administrator has under way

vars == <<conn, last, secret, req>>

NoRow == [live |-> FALSE, enabled |-> FALSE, dflt |-> FALSE, key |-> 0]
NoReq == [op |-> None, id |-> 0, copy |-> [i \in Ids |-> NoRow],
          enabled |-> FALSE, key |-> FALSE, dflt |-> None]

Init ==
    /\ conn = [i \in Ids |-> NoRow] /\ last = 0 /\ secret = 1
    /\ req = [a \in Admins |-> NoReq]

Live == {i \in Ids : conn[i].live}

-----------------------------------------------------------------------------
\* Mutant: the secret of the first start is kept in a cache.
_encrypt_key_cached(given) == IF given THEN 1 ELSE 0
\* The generation of the secret a key is encrypted with; an empty key is not.
_encrypt_key(given) == IF given THEN secret ELSE 0

\* A key can be read with the secret it was encrypted with, and no other.
decrypt(i) == conn[i].key \in {0, secret}

\* The connection that new OpenAI-compatible callers use, 0 when there is none.
get_active ==
    LET enabled == {i \in Live : conn[i].enabled}
        first == IF \E i \in enabled : conn[i].dflt THEN {i \in enabled : conn[i].dflt} ELSE enabled
    IN IF first = {} THEN 0 ELSE CHOOSE i \in first : \A j \in first : i <= j

\* The target becomes the default, every other row stops being it.
set_default(rows, i) == [j \in Ids |-> [rows[j] EXCEPT !.dflt = j = i]]

\* Columns of a row that the request changed, over the row as it is.
Changed(copy, new, i) ==
    [f \in DOMAIN NoRow |-> IF new[i][f] # copy[i][f] THEN new[i][f] ELSE conn[i][f]]

\* The rows after the commit; a changed row that is gone fails the request.
Commits(a, copy, new) ==
    /\ req' = [req EXCEPT ![a] = NoReq]
    /\ conn' = IF \E i \in Ids : new[i] # copy[i] /\ ~conn[i].live THEN conn
               ELSE [i \in Ids |-> IF new[i] = copy[i] THEN conn[i] ELSE Changed(copy, new, i)]
    /\ UNCHANGED <<last, secret>>

-----------------------------------------------------------------------------
Free(a) == req[a] = NoReq /\ (Concurrent \/ \A b \in Admins : req[b] = NoReq)

\* create: the insert takes the lock, so the other rows are read under it.
create(a) ==
    /\ Free(a) /\ last < MaxId
    /\ \E k, e, d \in BOOLEAN :
        LET row == [live |-> TRUE, enabled |-> e, dflt |-> FALSE, key |-> _encrypt_key(k)]
            rows == [conn EXCEPT ![last + 1] = row] IN
        conn' = IF d THEN set_default(rows, last + 1) ELSE rows
    /\ last' = last + 1
    /\ UNCHANGED <<secret, req>>

\* The rows a request reads before it writes: all to make one the default.
Reads(op, i, d) ==
    [j \in Ids |-> IF op = "default" \/ d = "yes" \/ (op = "update" /\ j = i) THEN conn[j] ELSE NoRow]

\* The target is read, and answers 404 when it is gone.
_get_or_404(a) ==
    /\ Free(a)
    /\ \E i \in Live, op \in {"update", "delete", "default"}, k, e \in BOOLEAN, d \in {None, "yes", "no"} :
        /\ op # "update" => ~k /\ ~e /\ d = None
        /\ req' = [req EXCEPT ![a] = [op |-> op, id |-> i, copy |-> Reads(op, i, d),
                                      enabled |-> e, key |-> k, dflt |-> d]]
    /\ UNCHANGED <<conn, last, secret>>

\* update: fields that came, an absent key keeps the stored one.  A changed
\* field is flushed first, and other rows are then read under the lock; else
\* they are what was read before it.
update(a) ==
    LET q == req[a]
        c == q.copy[q.id]
        set == [c EXCEPT !.enabled = q.enabled, !.key = IF q.key THEN _encrypt_key(TRUE) ELSE @]
        copy == IF set = c THEN q.copy ELSE [conn EXCEPT ![q.id] = c]
        rows == [copy EXCEPT ![q.id] = set] IN
    /\ q.op = "update"
    /\ Commits(a, copy, IF q.dflt = "yes" THEN set_default(rows, q.id)
                        ELSE IF q.dflt = "no" THEN [rows EXCEPT ![q.id].dflt = FALSE] ELSE rows)

delete(a) ==
    /\ req[a].op = "delete"
    /\ req' = [req EXCEPT ![a] = NoReq]
    /\ conn' = [conn EXCEPT ![req[a].id] = NoRow]
    /\ UNCHANGED <<last, secret>>

\* POST /default: all rows are read before the first write.
set_default_llm_connection(a) ==
    /\ req[a].op = "default"
    /\ Commits(a, req[a].copy, set_default(req[a].copy, req[a].id))

\* The incident rotation replaces the secret while the service is stopped.
RotateSecret ==
    /\ secret < MaxSecret
    /\ secret' = secret + 1 /\ req' = [a \in Admins |-> NoReq]
    /\ UNCHANGED <<conn, last>>

Next ==
    \/ \E a \in Admins : create(a) \/ _get_or_404(a) \/ update(a) \/ delete(a) \/ set_default_llm_connection(a)
    \/ RotateSecret

Spec == Init /\ [][Next]_vars

-----------------------------------------------------------------------------
\* Type correctness; a deleted row leaves nothing behind.
TypeOK ==
    /\ last \in 0..MaxId /\ secret \in 1..MaxSecret
    /\ \A i \in Ids : conn[i].key \in 0..secret /\ (conn[i].live \/ conn[i] = NoRow) /\ (i > last => ~conn[i].live)
    /\ get_active \in Live \cup {0}

\* set_default leaves "exactly one active default" (its docstring): never two.
OneDefault == Cardinality({i \in Live : conn[i].dflt}) <= 1

\* A stored key changes only by a request that carries a key for it, or with
\* its row, also when two administrators change one connection at a time.
KeyKept ==
    \A i \in Ids : conn[i].live /\ conn'[i].key # conn[i].key =>
            \/ ~conn'[i].live
            \/ \E a \in Admins : req[a].id = i /\ req[a].key /\ req'[a] = NoReq

\* Only a rotation of the secret makes a readable key unreadable, and a key
\* given after it is readable again: requests encrypt with the secret that
\* readers use.
KeyReadable == secret' = secret => \A i \in Ids : decrypt(i) => decrypt(i)'
=============================================================================
