---------------------------- MODULE ProviderConfig ----------------------------
(***************************************************************************)
(* The provider of AI answers: one database row that names the selected    *)
(* provider and a compatible endpoint, whose API key lives in a file of    *)
(* the credential store.  Administrators write, test, select, activate,    *)
(* delete and reconcile; each request works on the copy of the row it read *)
(* and its update writes the columns it changed.  A chat request reads the *)
(* row and then the key.  Any step may be the last one before a crash.     *)
(***************************************************************************)
EXTENDS Naturals

CONSTANTS Admins,       \* administrators, each with one request at a time
          Urls,         \* endpoints: canonical URL, model and generation
          MaxRefs,      \* bound on the keys ever stored
          MaxVer,       \* bound on config_version
          Concurrent,   \* requests of administrators may overlap
          Drifts        \* a key file may be lost or replaced by hand

\* What the constants are assumed to be.
ProviderAssumption ==
    /\ {Concurrent, Drifts} \subseteq BOOLEAN /\ {MaxRefs, MaxVer} \subseteq Nat
    /\ "none" \notin Urls

None == "none"
Ops == {"write", "test", "select", "activate", "delete", "reconcile"}

VARIABLES row,      \* the singleton ai_provider_config
          blobs,    \* key files, by reference and binding version
          refs,     \* references handed out
          req,      \* the request each administrator has under way
          seen,     \* the configuration each administrator was last shown
          chat,     \* the chat request under way
          proven,   \* endpoint and key pairs a probe has accepted
          drifted   \* references whose file was touched by hand

vars == <<row, blobs, refs, req, seen, chat, proven, drifted>>

Absent == [sel |-> "ollama", state |-> "absent", url |-> None, ref |-> 0, bv |-> 0,
           proof |-> None, ver |-> 1]
NoReq == [op |-> None, pc |-> "idle", copy |-> Absent, url |-> None, ref |-> 0]
NoChat == [pc |-> "idle", url |-> None, ref |-> 0, bv |-> 0]

Init ==
    /\ row = Absent /\ blobs = {} /\ refs = 0
    /\ req = [a \in Admins |-> NoReq] /\ seen = [a \in Admins |-> Absent]
    /\ chat = NoChat /\ proven = {} /\ drifted = {}

-----------------------------------------------------------------------------
\* The check constraints of the table.
Coherent(r) ==
    /\ (r.state = "absent") = (r.url = None) /\ (r.url = None) = (r.ref = 0)
    /\ (r.ref = 0) = (r.bv = 0)
    /\ (r.state = "verified") = (r.proof # None)

\* The database accepts the updated row.
FlushOK(r) == Coherent(r)

\* The update statement names the columns the request has changed.
Merge(copy, new) == [f \in DOMAIN row |-> IF new[f] # copy[f] THEN new[f] ELSE row[f]]

\* The version the administrator was shown is the version read now.
_check_version(a) == seen[a].ver = row.ver

_compatible_proof_bound(r) == r.state = "verified" /\ r.proof = r.url

\* The key file of a reference has the binding version of the row.
_envelope_matches(r) == r.ref # 0 /\ <<r.ref, r.bv>> \in blobs

\* The key is loaded only when row and file agree.
_load_bound_plaintext(r) == _envelope_matches(r)
Testable(r) == r.state # "absent" /\ _load_bound_plaintext(r)
Activates(r) == _compatible_proof_bound(r)

\* Rows that the operations leave, from the copy they have read.
Bump(r) == [r EXCEPT !.ver = @ + 1]
\* Mutant: the proof of the earlier key is kept.
Written_keepsProof(c, u, k) ==
    Bump([c EXCEPT !.url = u, !.ref = k, !.bv = @ + 1,
                   !.state = IF @ = "absent" THEN "unverified" ELSE @])
Written(c, u, k) ==
    Bump([c EXCEPT !.url = u, !.ref = k, !.bv = @ + 1, !.state = "unverified", !.proof = None])
Proved(c) == Bump([c EXCEPT !.state = "verified", !.proof = c.url])
Selected(c, kind) == Bump([c EXCEPT !.sel = kind])
Deleted(c) == Bump([Absent EXCEPT !.sel = c.sel, !.ver = c.ver])
Drifted(c) ==
    Bump([c EXCEPT !.state = IF @ = "verified" THEN "unverified" ELSE @, !.proof = None])

-----------------------------------------------------------------------------
\* GET /ai-provider/config
get_state(a) ==
    /\ req[a].pc = "idle" /\ seen[a] # row
    /\ seen' = [seen EXCEPT ![a] = row]
    /\ UNCHANGED <<row, blobs, refs, req, chat, proven, drifted>>

Free(a) == req[a].pc = "idle" /\ (Concurrent \/ \A b \in Admins : req[b].pc = "idle")

\* A request has read the row; test and reconcile take no expected version.
Begins(a, op, pc, u, k) ==
    /\ Free(a) /\ row.ver < MaxVer
    /\ op \in {"test", "reconcile"} \/ _check_version(a)
    /\ req' = [req EXCEPT ![a] = [op |-> op, pc |-> pc, copy |-> row, url |-> u, ref |-> k]]
    /\ UNCHANGED <<row, blobs, refs, seen, chat, proven, drifted>>

\* write_candidate and rotate_credential: a new reference for every key.
BeginWrite(a) == \E u \in Urls : Begins(a, "write", "store", u, 0)
\* Only the persisted candidate can be tested, with its key.
BeginTest(a) == Testable(row) /\ Begins(a, "test", "probe", row.url, row.ref)
BeginSelect(a) ==
    \E kind \in {"ollama", "compatible"} :
        /\ kind = "compatible" => _compatible_proof_bound(row)
        /\ Begins(a, "select", "commit", kind, 0)
\* activate confirms the proof and changes nothing.
BeginActivate(a) == Activates(row) /\ Begins(a, "activate", "end", None, 0)
BeginDelete(a) == Begins(a, "delete", "commit", None, 0)
BeginReconcile(a) ==
    Begins(a, "reconcile", IF row.ref # 0 /\ ~_envelope_matches(row) THEN "commit" ELSE "end", None, 0)

\* store_credential: staged, then promoted under its name.
store_credential(a) ==
    /\ req[a].pc = "store" /\ refs < MaxRefs
    /\ refs' = refs + 1
    /\ blobs' = blobs \cup {<<refs + 1, req[a].copy.bv + 1>>}
    /\ req' = [req EXCEPT ![a].pc = "commit", ![a].ref = refs + 1]
    /\ UNCHANGED <<row, seen, chat, proven, drifted>>

\* probe_models, an exchange with the endpoint.
probe_models(a) ==
    /\ req[a].pc = "probe"
    /\ \/ /\ proven' = proven \cup {<<req[a].url, req[a].ref>>}
          /\ req' = [req EXCEPT ![a].pc = "commit"]
       \/ /\ req' = [req EXCEPT ![a] = NoReq]
          /\ UNCHANGED proven
    /\ UNCHANGED <<row, blobs, refs, seen, chat, drifted>>

NewRow(q) ==
    CASE q.op = "write" -> Written(q.copy, q.url, q.ref)
      [] q.op = "test" -> Proved(q.copy)
      [] q.op = "select" -> Selected(q.copy, q.url)
      [] q.op = "delete" -> Deleted(q.copy)
      [] q.op = "reconcile" -> Drifted(q.copy)

\* flush and commit: the row and its journal entry, or neither.
Commit(a) ==
    LET q == req[a]
        new == Merge(q.copy, NewRow(q)) IN
    /\ q.pc = "commit"
    /\ IF FlushOK(new)
       THEN /\ row' = new
            /\ req' = [req EXCEPT ![a].pc = IF q.op \in {"write", "delete"} /\ q.copy.ref # 0
                                            THEN "drop" ELSE "end"]
       ELSE /\ req' = [req EXCEPT ![a] = NoReq]
            /\ UNCHANGED row
    /\ UNCHANGED <<blobs, refs, seen, chat, proven, drifted>>

\* The replaced key's file is removed.
delete_credential(a) ==
    /\ req[a].pc = "drop"
    /\ blobs' = {b \in blobs : b[1] # req[a].copy.ref}
    /\ req' = [req EXCEPT ![a].pc = "end"]
    /\ UNCHANGED <<row, refs, seen, chat, proven, drifted>>

\* The administrator's audit row, in a transaction of its own.
Audited(a) ==
    /\ req[a].pc = "end"
    /\ req' = [req EXCEPT ![a] = NoReq]
    /\ UNCHANGED <<row, blobs, refs, seen, chat, proven, drifted>>

\* The key cannot be stored, the database is busy, the file cannot be removed.
Fails(a) ==
    /\ req[a].pc \in {"store", "commit", "drop"}
    /\ req' = [req EXCEPT ![a] = IF @.pc = "drop" THEN [@ EXCEPT !.pc = "end"] ELSE NoReq]
    /\ UNCHANGED <<row, blobs, refs, seen, chat, proven, drifted>>

-----------------------------------------------------------------------------
\* load_active_compatible_binding: the row, the envelope, then the key.
load_active_compatible_binding ==
    /\ chat.pc = "idle"
    /\ row.sel = "compatible" /\ _compatible_proof_bound(row) /\ row.ref # 0
    /\ chat' = [pc |-> "envelope", url |-> row.url, ref |-> row.ref, bv |-> row.bv]
    /\ UNCHANGED <<row, blobs, refs, req, seen, proven, drifted>>

get_envelope ==
    /\ chat.pc = "envelope"
    /\ chat' = IF <<chat.ref, chat.bv>> \in blobs THEN [chat EXCEPT !.pc = "load"] ELSE NoChat
    /\ UNCHANGED <<row, blobs, refs, req, seen, proven, drifted>>

load_plaintext ==
    /\ chat.pc = "load"
    /\ chat' = IF \E b \in blobs : b[1] = chat.ref THEN [chat EXCEPT !.pc = "sent"] ELSE NoChat
    /\ UNCHANGED <<row, blobs, refs, req, seen, proven, drifted>>

ChatEnds ==
    /\ chat.pc = "sent" /\ chat' = NoChat
    /\ UNCHANGED <<row, blobs, refs, req, seen, proven, drifted>>

-----------------------------------------------------------------------------
\* A key file is lost, or one of another binding takes its place.
Drift ==
    /\ Drifts
    /\ \E b \in blobs :
        /\ b[1] \notin drifted
        /\ blobs' \in {blobs \ {b}, (blobs \ {b}) \cup {<<b[1], 0>>}}
        /\ drifted' = drifted \cup {b[1]}
    /\ UNCHANGED <<row, refs, req, seen, chat, proven>>

\* The process dies; files and committed rows remain.
Crash ==
    /\ \E a \in Admins : req[a].pc # "idle"
    /\ req' = [a \in Admins |-> NoReq] /\ chat' = NoChat
    /\ UNCHANGED <<row, blobs, refs, seen, proven, drifted>>

Request(a) ==
    \/ get_state(a) \/ BeginWrite(a) \/ BeginTest(a) \/ BeginSelect(a) \/ BeginActivate(a)
    \/ BeginDelete(a) \/ BeginReconcile(a) \/ store_credential(a) \/ probe_models(a)
    \/ Commit(a) \/ delete_credential(a) \/ Audited(a) \/ Fails(a)

Next ==
    \/ \E a \in Admins : Request(a)
    \/ load_active_compatible_binding \/ get_envelope \/ load_plaintext \/ ChatEnds
    \/ Drift \/ Crash

Spec == Init /\ [][Next]_vars

-----------------------------------------------------------------------------
\* Type correctness and the coherence of the row, whatever requests merge in it.
TypeOK ==
    /\ row.sel \in {"ollama", "compatible"} /\ row.url \in Urls \cup {None}
    /\ row.ref \in 0..refs /\ row.ver \in 1..MaxVer + 1 /\ Coherent(row)
    /\ refs \in 0..MaxRefs /\ \A b \in blobs : b[1] \in 1..refs
    /\ \A a \in Admins : req[a].op \in Ops \cup {None}
    /\ chat.pc \in {"idle", "envelope", "load", "sent"}

\* The row never names a key the store does not hold with the row's binding
\* version: keys are stored before the row names them and removed after it
\* stopped doing so, with overlapping writers, failures and crashes.
BlobBound == row.ref # 0 /\ row.ref \notin drifted => _envelope_matches(row)

\* A key is sent only to an endpoint that a probe has accepted with this very
\* key: "can never keep serving compatible traffic against a binding nobody
\* proved" (provider_config_service.py).
ServesProven == chat.pc = "sent" => <<chat.url, chat.ref>> \in proven

\* "config_version is an optimistic-concurrency counter bumped on every write"
\* (admin/models.py): a write, selection or deletion replaces the configuration
\* its administrator was shown.
NoLostUpdate ==
    \A a \in Admins :
        req[a].pc = "commit" /\ req[a].op \in {"write", "select", "delete"} /\ row' # row
            /\ req'[a].pc \in {"drop", "end"} => seen[a] = row
=============================================================================
