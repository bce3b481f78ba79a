----------------------------- MODULE JobReceipts -----------------------------
(***************************************************************************)
(* Every destructive request of the Office jobs API leaves a receipt on    *)
(* disk before it acts, and turns it into rows of the audit table          *)
(* afterwards.  A request that fails or dies leaves its receipt behind;    *)
(* the actor's next request, or an administrator, replays it.  Replays and *)
(* the request itself may run at the same time: the store is locked only   *)
(* for the length of one call, and a replay works on the copy of the       *)
(* receipt it read.                                                        *)
(*                                                                         *)
(* A receipt is named by the request that makes it.  Kind[x] is what that  *)
(* request does: "recovery", "quarantine" and "evidence" remove an entry   *)
(* of a managed directory and "restore" moves one back (all four with      *)
(* evidence of the entry in the receipt), "owner" is an owner's deletion   *)
(* (with a tombstone), "purge" an expiry run, "bundle" a download whose    *)
(* receipt is for removing the archive.                                    *)
(***************************************************************************)
EXTENDS Naturals, FiniteSets

CONSTANTS Receipts,   \* requests that mutate, one receipt each
          Kind,       \* what each of them does
          Chunked,    \* receipts whose result is too large for one file
          Procs,      \* concurrent requests, background tasks and replays
          MaxFaults   \* bound: I/O errors, database errors and crashes

Direct == {"recovery", "quarantine", "evidence", "restore"}
Kinds == Direct \cup {"owner", "purge", "bundle"}

None == "none"

\* The result of a bundle's clean-up is far below the size of one file.
ReceiptAssumption ==
    /\ Kind \in [Receipts -> Kinds]
    /\ Chunked \subseteq {x \in Receipts : Kind[x] # "bundle"}
    /\ None \notin Receipts
    /\ MaxFaults \in Nat

\* What a result says: the mutation never began, was refused, removed its
\* target durably, removed it without the directory being synced, or stopped
\* half way.
Outcomes == {"not_started", "refused", "done", "unsynced", "partial"}

VARIABLES rcpt,     \* receipt on disk
          chunks,   \* its chunk files exist
          rows,     \* audit rows: intent committed, result committed
          target,   \* what the request is to remove
          did,      \* something was done on behalf of the receipt
          tomb,     \* the owner's tombstone is on disk
          born,     \* receipts that some request has been given
          pc, own, at, todo, snap, out, faults

durable == <<rcpt, chunks, rows, target, did, tomb>>
vars == <<rcpt, chunks, rows, target, did, tomb, born, pc, own, at, todo, snap, out, faults>>

NoReceipt == [phase |-> 9, evid |-> FALSE, res |-> None, clean |-> "none"]
Header == [phase : 0..3, evid : BOOLEAN, res : Outcomes \cup {None},
           clean : {"none", "chunks", "header"}]

Init ==
    /\ rcpt = [x \in Receipts |-> NoReceipt]
    /\ chunks = [x \in Receipts |-> FALSE]
    /\ rows = [x \in Receipts |-> [intent |-> FALSE, result |-> None]]
    /\ target = [x \in Receipts |-> IF Kind[x] = "bundle" THEN "absent" ELSE "there"]
    /\ did = [x \in Receipts |-> FALSE]
    /\ tomb = [x \in Receipts |-> FALSE]
    /\ born = {}
    /\ pc = [p \in Procs |-> "idle"]
    /\ own = [p \in Procs |-> None]
    /\ at = [p \in Procs |-> None]
    /\ todo = [p \in Procs |-> {}]
    /\ snap = [p \in Procs |-> NoReceipt]
    /\ out = [p \in Procs |-> None]
    /\ faults = 0

-----------------------------------------------------------------------------
Pending(x) == rcpt[x] # NoReceipt

\* The chunk files a header promises are there, and only those.
Readable(x) ==
    (Pending(x) /\ x \in Chunked /\ rcpt[x].res # None) =>
        CASE rcpt[x].clean = "none"   -> chunks[x]
          [] rcpt[x].clean = "header" -> ~chunks[x]
          [] OTHER -> TRUE

\* What the calls that need the whole result find.
Whole(x) == Pending(x) /\ (x \in Chunked /\ rcpt[x].res # None => chunks[x])

NeedsDurability(res) == res = "unsynced"
BundleComplete(res) == res \in {"not_started", "refused", "done"}
BundleReplays(h) ==
    \/ h.phase = 1
    \/ h.phase \in {2, 3} /\ ~BundleComplete(h.res)

\* The entry under the target's name is the one the receipt describes, and the
\* kinds of request whose receipts describe it from the start.
SameEntry(x) == target[x] # "changed"
TakesEvidence(k) == k \in Direct

\* Receipts listed for an actor, or shown to an administrator.
Listed == {y \in Receipts : Pending(y)}

Goto(p, l) == pc' = [pc EXCEPT ![p] = l]

\* The request ends: with an answer, or with an exception that leaves the
\* receipt for a later replay.
End(p) ==
    /\ Goto(p, "idle")
    /\ own' = [own EXCEPT ![p] = None]
    /\ at' = [at EXCEPT ![p] = None]
    /\ todo' = [todo EXCEPT ![p] = {}]
    /\ snap' = [snap EXCEPT ![p] = NoReceipt]
    /\ out' = [out EXCEPT ![p] = None]

Keep == UNCHANGED <<own, at, todo, snap>>
Put(x, h) == rcpt' = [rcpt EXCEPT ![x] = h]

-----------------------------------------------------------------------------
\* A request starts and lists its actor's receipts; unreadable ones refuse it.
Call(p, x) ==
    /\ pc[p] = "idle" /\ x \notin born
    /\ \A y \in Receipts : Readable(y)
    /\ born' = born \cup {x}
    /\ own' = [own EXCEPT ![p] = x]
    /\ todo' = [todo EXCEPT ![p] = Listed]
    /\ Goto(p, "scan")
    /\ UNCHANGED <<durable, at, snap, out, faults>>

\* An administrator replays one receipt.
Replay(p, x) ==
    /\ pc[p] = "idle" /\ Pending(x) /\ Readable(x)
    /\ todo' = [todo EXCEPT ![p] = {x}]
    /\ Goto(p, "scan")
    /\ UNCHANGED <<durable, born, own, at, snap, out, faults>>

\* Replays of one receipt begin with a copy of it, used after the lock is gone.
ReadReceipt(p, y) ==
    IF ~Pending(y)
    THEN End(p) /\ UNCHANGED durable
    ELSE /\ snap' = [snap EXCEPT ![p] = rcpt[y]]
         /\ at' = [at EXCEPT ![p] = y]
         /\ Goto(p, IF Kind[y] # "bundle" \/ ~BundleReplays(rcpt[y]) THEN "replay_intent"
                    ELSE IF rcpt[y].phase = 1 THEN "rebegin" ELSE "bind")
         /\ UNCHANGED <<durable, own, todo, out>>

Scan(p) ==
    /\ pc[p] = "scan"
    /\ \/ /\ todo[p] = {} /\ own[p] # None
          /\ Goto(p, "prepare")
          /\ at' = [at EXCEPT ![p] = own[p]]
          /\ UNCHANGED <<durable, own, todo, snap, out>>
       \/ /\ todo[p] = {} /\ own[p] = None
          /\ End(p)
          /\ UNCHANGED durable
       \/ \E y \in todo[p] : ReadReceipt(p, y)
    /\ UNCHANGED <<born, faults>>

\* The intent row comes first; what follows depends on the copy's phase.
ReplayIntent(p) ==
    LET x == at[p]  h == snap[p] IN
    /\ pc[p] = "replay_intent"
    /\ rows' = [rows EXCEPT ![x].intent = TRUE]
    /\ \/ /\ h.phase = 0
          /\ out' = [out EXCEPT ![p] = "not_started"]
          /\ Goto(p, "record")
       \/ /\ h.phase = 1
          /\ Goto(p, "recover")
          /\ UNCHANGED out
       \/ /\ h.phase \in {2, 3} /\ NeedsDurability(h.res)
          /\ Goto(p, "confirm")
          /\ UNCHANGED out
       \/ /\ h.phase \in {2, 3} /\ ~NeedsDurability(h.res)
          /\ out' = [out EXCEPT ![p] = h.res]
          /\ Goto(p, IF h.phase = 3 THEN "ack" ELSE "audit")
    /\ Keep
    /\ UNCHANGED <<rcpt, chunks, target, did, tomb, born, faults>>

\* Mutant: whatever carries the entry's name is removed.
RecoverDirect_byName(p) ==
    LET x == at[p] IN
    /\ did' = [did EXCEPT ![x] = @ \/ target[x] = "there"]
    /\ target' = [target EXCEPT ![x] = "gone"]
    /\ out' = [out EXCEPT ![p] = "done"]
    /\ Goto(p, "record")
    /\ Keep /\ UNCHANGED faults

\* A mutation that began is finished from what the receipt proves about its
\* entry: an entry that is still the same is removed now, one that is gone is
\* taken to be removed.  A restored job must also be what it was.
RecoverDirect(p) ==
    LET x == at[p] IN
    IF \/ ~snap[p].evid \/ ~SameEntry(x)
       \/ Kind[x] = "restore" /\ target[x] # "there" /\ ~did[x]
    THEN End(p) /\ UNCHANGED <<did, target, faults>>
    ELSE /\ did' = [did EXCEPT ![x] = @ \/ target[x] = "there"]
         /\ target' = [target EXCEPT ![x] = "gone"]
         /\ out' = [out EXCEPT ![p] = "done"]
         /\ Goto(p, "record")
         /\ Keep /\ UNCHANGED faults

\* An owner's deletion is finished when its tombstone is there.
RecoverOwner(p) ==
    LET x == at[p] IN
    IF ~tomb[x] THEN End(p) /\ UNCHANGED <<did, target, faults>>
    ELSE /\ did' = [did EXCEPT ![x] = TRUE]
         /\ \E o \in {"done", "unsynced", "partial"} :
               /\ out' = [out EXCEPT ![p] = o]
               /\ target' = [target EXCEPT ![x] = IF o = "done" THEN "gone"
                                   ELSE IF o = "unsynced" /\ @ = "there" THEN "removed" ELSE @]
               /\ o # "done" => faults < MaxFaults
               /\ o = "partial" => target[x] = "there"
               /\ faults' = IF o = "done" THEN faults ELSE faults + 1
         /\ Goto(p, "record")
         /\ Keep

\* An expiry run left nothing to finish it from.
Recover(p) ==
    LET x == at[p] IN
    /\ pc[p] = "recover"
    /\ \/ Kind[x] \in Direct /\ RecoverDirect(p)
       \/ Kind[x] = "owner" /\ RecoverOwner(p)
       \/ Kind[x] = "purge" /\ End(p) /\ UNCHANGED <<did, target, faults>>
    /\ UNCHANGED <<rcpt, chunks, rows, tomb, born>>

\* A removal that was not synced is confirmed before it is acknowledged: an
\* entry that came back is removed again.  Only the result of a direct mutation
\* is brought up to date with it.
ConfirmAbsence(x) == target' = [target EXCEPT ![x] = "gone"]

ConfirmDirect(p) ==
    /\ Kind[at[p]] \in Direct /\ SameEntry(at[p])
    /\ ConfirmAbsence(at[p])
    /\ out' = [out EXCEPT ![p] = "done"]

ConfirmPurge(p) ==
    /\ Kind[at[p]] = "purge"
    /\ ConfirmAbsence(at[p])
    /\ out' = [out EXCEPT ![p] = "unsynced"]

ConfirmOwner(p) ==
    /\ Kind[at[p]] = "owner"
    /\ ConfirmAbsence(at[p])
    /\ out' = [out EXCEPT ![p] = "unsynced"]

Confirm(p) ==
    /\ pc[p] = "confirm"
    /\ \/ ~SameEntry(at[p]) /\ End(p) /\ UNCHANGED target
       \/ /\ ConfirmDirect(p) \/ ConfirmPurge(p) \/ ConfirmOwner(p)
          /\ Goto(p, IF snap[p].phase = 3 THEN "ack" ELSE "audit")
          /\ Keep
    /\ UNCHANGED <<rcpt, chunks, rows, did, tomb, born, faults>>

-----------------------------------------------------------------------------
\* The request itself: receipt, intent row, boundary, mutation.
Prepare(p) ==
    LET x == own[p] IN
    /\ pc[p] = "prepare"
    /\ IF Kind[x] \in Direct \cup {"owner"} /\ target[x] \notin {"there", "changed"}
       THEN End(p) /\ UNCHANGED <<rcpt, target>>
       ELSE /\ Put(x, [phase |-> 0, evid |-> TakesEvidence(Kind[x]), res |-> None, clean |-> "none"])
            \* evidence is taken of the entry as it is now
            /\ target' = [target EXCEPT ![x] = IF @ = "changed" THEN "there" ELSE @]
            /\ Goto(p, "intent")
            /\ Keep /\ UNCHANGED out
    /\ UNCHANGED <<chunks, rows, did, tomb, born, faults>>

Intent(p) ==
    /\ pc[p] = "intent"
    /\ rows' = [rows EXCEPT ![own[p]].intent = TRUE]
    /\ Goto(p, "begin")
    /\ Keep
    /\ UNCHANGED <<rcpt, chunks, target, did, tomb, born, out, faults>>

\* Mutant: the mutation begins without its boundary on disk.
Begin_noBoundary(p) ==
    LET x == at[p] IN
    /\ pc[p] \in {"begin", "rebegin"}
    /\ Pending(x)
    /\ Goto(p, IF pc[p] = "rebegin" THEN "bind" ELSE IF Kind[x] = "owner" THEN "tombstone" ELSE "mutate")
    /\ Keep
    /\ UNCHANGED <<rcpt, chunks, rows, target, did, tomb, born, out, faults>>

\* A receipt that is no longer "prepared" is returned as it is.
Begin(p) ==
    LET x == at[p] IN
    /\ pc[p] \in {"begin", "rebegin"}
    /\ IF ~Whole(x) THEN End(p) /\ UNCHANGED rcpt
       ELSE /\ Put(x, IF rcpt[x].phase = 0 THEN [rcpt[x] EXCEPT !.phase = 1] ELSE rcpt[x])
            /\ Goto(p, IF pc[p] = "rebegin" THEN "bind"
                       ELSE IF Kind[x] = "owner" THEN "tombstone" ELSE "mutate")
            /\ Keep /\ UNCHANGED out
    /\ UNCHANGED <<chunks, rows, target, did, tomb, born, faults>>

\* An owner's deletion writes its tombstone before it removes anything, unless
\* it is refused.
Tombstone(p) ==
    LET x == at[p] IN
    /\ pc[p] = "tombstone"
    /\ \E accepted \in BOOLEAN : tomb' = [tomb EXCEPT ![x] = @ \/ (accepted /\ target[x] = "there")]
    /\ Goto(p, "mutate")
    /\ Keep
    /\ UNCHANGED <<rcpt, chunks, rows, target, did, born, out, faults>>

\* What the handlers can record of their mutation, after their except clauses.
\* A purge is never refused.
Refusals == {"not_found", "corrupt", "conflict", "capacity_rejected", "invalid_token",
             "ownership_changed"}
delete_recovery == {"done", "unsynced", "partial", "not_found", "corrupt"}
restore_quarantine == {"done", "unsynced", "partial", "not_found", "conflict", "corrupt",
                       "capacity_rejected"}
delete_quarantine == {"done", "unsynced", "partial", "not_found", "corrupt", "capacity_rejected"}
dispose_corrupt_evidence == {"done", "unsynced", "partial", "not_found", "invalid_token"}
purge_expired_jobs == {"done", "unsynced", "partial"}
delete_job == {"done", "unsynced", "partial", "not_found", "corrupt", "ownership_changed"}
Answers(k) ==
    CASE k = "recovery" -> delete_recovery
      [] k = "restore" -> restore_quarantine
      [] k = "quarantine" -> delete_quarantine
      [] k = "evidence" -> dispose_corrupt_evidence
      [] k = "purge" -> purge_expired_jobs
      [] k = "owner" -> delete_job

\* The store's mutation.  It may find the entry gone; an entry that changed
\* since the receipt was made is removed all the same.
Mutate(p) ==
    LET x == at[p] IN
    /\ pc[p] = "mutate" /\ Kind[x] # "bundle"
    /\ \E o \in Answers(Kind[x]) :
          /\ CASE Kind[x] = "owner" -> tomb[x] <=> o \notin Refusals
               [] Kind[x] \in Direct -> o \notin Refusals => target[x] \in {"there", "changed"}
               [] OTHER -> TRUE
          /\ o \in {"unsynced", "partial"} =>
                faults < MaxFaults /\ target[x] \in {"there", "changed"}
          /\ out' = [out EXCEPT ![p] = IF o \in Refusals THEN "refused" ELSE o]
          /\ did' = [did EXCEPT ![x] = @ \/ o \notin Refusals]
          /\ target' = [target EXCEPT ![x] =
                CASE o = "done" -> "gone"
                  [] o = "unsynced" -> "removed"
                  [] o = "partial" /\ Kind[x] \in Direct -> "changed"
                  [] OTHER -> @]
          /\ faults' = IF o \in {"unsynced", "partial"} THEN faults + 1 ELSE faults
    /\ Goto(p, "record")
    /\ Keep
    /\ UNCHANGED <<rcpt, chunks, rows, tomb, born>>

\* A crash or an error with some of the files of an entry gone.
Torn(p) ==
    LET x == at[p] IN
    /\ pc[p] \in {"mutate", "recover"} /\ Kind[x] \in Direct
    /\ target[x] = "there" /\ faults < MaxFaults
    /\ faults' = faults + 1
    /\ target' = [target EXCEPT ![x] = "changed"]
    /\ did' = [did EXCEPT ![x] = TRUE]
    /\ End(p)
    /\ UNCHANGED <<rcpt, chunks, rows, tomb, born>>

\* A bundle is written to a temporary file and renamed: all or nothing.
CreateBundle(p) ==
    LET x == at[p] IN
    /\ pc[p] = "mutate" /\ Kind[x] = "bundle"
    /\ \/ /\ target' = [target EXCEPT ![x] = "there"]
          /\ did' = [did EXCEPT ![x] = TRUE]
          /\ Goto(p, "bind")
          /\ UNCHANGED out
       \/ /\ out' = [out EXCEPT ![p] = "refused"]
          /\ Goto(p, "record")
          /\ UNCHANGED <<target, did>>
    /\ Keep
    /\ UNCHANGED <<rcpt, chunks, rows, tomb, born, faults>>

-----------------------------------------------------------------------------
\* Evidence of the archive goes into the receipt before it may be removed.
AttachEvidence(x) == Put(x, [rcpt[x] EXCEPT !.evid = TRUE])

Bind(p) ==
    LET x == at[p]  bound == snap[p].evid IN
    /\ pc[p] = "bind"
    /\ IF \/ ~bound /\ (target[x] # "there" \/ ~Whole(x))
          \/ ~bound /\ ~rcpt[x].evid /\ rcpt[x].phase = 3
          \/ bound /\ ~SameEntry(x)
       THEN End(p) /\ UNCHANGED rcpt
       ELSE /\ IF bound THEN UNCHANGED rcpt ELSE AttachEvidence(x)
            /\ Goto(p, IF own[p] = x THEN "serve" ELSE "wipe")
            /\ Keep /\ UNCHANGED out
    /\ UNCHANGED <<chunks, rows, target, did, tomb, born, faults>>

\* The response has been sent and its background task runs.
Serve(p) ==
    LET x == own[p] IN
    /\ pc[p] = "serve"
    /\ \/ ~Pending(x) /\ End(p)
       \/ Pending(x) /\ ~BundleReplays(rcpt[x]) /\ End(p)
       \/ /\ Pending(x) /\ BundleReplays(rcpt[x])
          /\ snap' = [snap EXCEPT ![p] = rcpt[x]]
          /\ own' = [own EXCEPT ![p] = None]
          /\ Goto(p, IF rcpt[x].phase = 1 THEN "rebegin" ELSE "bind")
          /\ UNCHANGED <<at, todo, out>>
    /\ UNCHANGED <<durable, born, faults>>

\* The archive is removed if it is still the one in evidence.
Wipe(p) ==
    LET x == at[p] IN
    /\ pc[p] = "wipe"
    /\ IF ~SameEntry(x) THEN End(p) /\ UNCHANGED <<target, faults>>
       ELSE /\ \E o \in {"done", "unsynced", "partial"} :
                  /\ o # "done" => faults < MaxFaults
                  /\ o = "partial" => target[x] = "there"
                  /\ NeedsDurability(snap[p].res) => o = "done"
                  /\ target' = [target EXCEPT ![x] = IF o = "done" THEN "gone"
                                    ELSE IF o = "unsynced" /\ @ = "there" THEN "removed" ELSE @]
                  /\ faults' = IF o = "done" THEN faults ELSE faults + 1
                  /\ out' = [out EXCEPT ![p] = o]
            /\ Goto(p, IF snap[p].phase = 3 THEN "ack" ELSE "record")
            /\ Keep
    /\ UNCHANGED <<rcpt, chunks, rows, did, tomb, born>>

-----------------------------------------------------------------------------

\* The result goes to disk: chunk files first, then the header.  A different
\* result that is there already stays, unless the replay of a bundle improves
\* on it; two accounts of the same outcome may differ in their details.
Record(p) ==
    LET x == at[p]
        h == rcpt[x]
        improves == Kind[x] = "bundle" /\ snap[p].phase = 2
        next == IF Kind[x] = "bundle" /\ snap[p] # NoReceipt /\ snap[p].phase # 0
                THEN "late_intent" ELSE "audit"
    IN
    /\ pc[p] = "record"
    /\ \/ /\ ~Whole(x) \/ (h.phase = 2 /\ ~improves)
          /\ End(p)
          /\ UNCHANGED <<rcpt, chunks>>
       \/ /\ Whole(x)
          /\ h.phase = 2 /\ ~improves => h.res = out[p]
          /\ IF h.phase = 3 THEN UNCHANGED <<rcpt, chunks>>
             ELSE /\ Put(x, [h EXCEPT !.phase = 2, !.res = out[p]])
                  /\ chunks' = [chunks EXCEPT ![x] = @ \/ x \in Chunked]
          /\ IF Kind[x] = "bundle" /\ ~BundleComplete(out[p])
             THEN End(p)
             ELSE Goto(p, next) /\ Keep /\ UNCHANGED out
    /\ UNCHANGED <<rows, target, did, tomb, born, faults>>

\* An error after the chunk files and before the header.
RecordChunksOnly(p) ==
    /\ pc[p] = "record" /\ at[p] \in Chunked /\ Pending(at[p])
    /\ rcpt[at[p]].phase < 2 /\ faults < MaxFaults
    /\ chunks' = [chunks EXCEPT ![at[p]] = TRUE]
    /\ faults' = faults + 1
    /\ End(p)
    /\ UNCHANGED <<rcpt, rows, target, did, tomb, born>>

\* The replay of a bundle commits the intent row only now.
LateIntent(p) ==
    /\ pc[p] = "late_intent"
    /\ rows' = [rows EXCEPT ![at[p]].intent = TRUE]
    /\ Goto(p, "audit")
    /\ Keep
    /\ UNCHANGED <<rcpt, chunks, target, did, tomb, born, out, faults>>

\* One result row per receipt: a second one finds the key taken.
ResultRow(row, res) == IF row = None THEN res ELSE row

Audit(p) ==
    LET x == at[p] IN
    /\ pc[p] = "audit"
    /\ rows' = [rows EXCEPT ![x].result = ResultRow(@, out[p])]
    /\ Goto(p, "mark")
    /\ Keep
    /\ UNCHANGED <<rcpt, chunks, target, did, tomb, born, out, faults>>

\* Mutant: a result that is not there yet is waited for instead of refused.
Mark_waits(p) ==
    /\ pc[p] = "mark" /\ Whole(at[p])
    /\ Put(at[p], [rcpt[at[p]] EXCEPT !.phase = 2])
    /\ Goto(p, "ack")
    /\ Keep
    /\ UNCHANGED <<chunks, rows, target, did, tomb, born, out, faults>>

Mark(p) ==
    LET x == at[p] IN
    /\ pc[p] = "mark"
    /\ IF ~Whole(x) \/ rcpt[x].phase < 2
       THEN End(p) /\ UNCHANGED rcpt
       ELSE /\ Put(x, [rcpt[x] EXCEPT !.phase = 3])
            /\ IF NeedsDurability(out[p]) THEN End(p)
               ELSE Goto(p, "ack") /\ Keep /\ UNCHANGED out
    /\ UNCHANGED <<chunks, rows, target, did, tomb, born, faults>>

\* Where the request goes on after a receipt has been dealt with.
AfterAck(p) ==
    IF at[p] = own[p] THEN End(p)
    ELSE /\ todo' = [todo EXCEPT ![p] = @ \ {at[p]}]
         /\ Goto(p, "scan")
         /\ at' = [at EXCEPT ![p] = None]
         /\ snap' = [snap EXCEPT ![p] = NoReceipt]
         /\ out' = [out EXCEPT ![p] = None]
         /\ UNCHANGED own

Ack(p) ==
    LET x == at[p] IN
    /\ pc[p] = "ack"
    /\ IF ~Pending(x) \/ rcpt[x].phase # 3
       THEN End(p) /\ UNCHANGED <<rcpt, chunks>>
       ELSE /\ Put(x, NoReceipt)
            /\ chunks' = [chunks EXCEPT ![x] = @ /\ x \notin Chunked]
            /\ AfterAck(p)
    /\ UNCHANGED <<rows, target, did, tomb, born, faults>>

\* The removal of a chunked receipt stops on the way: the header records how
\* far it is.
AckStops(p) ==
    LET x == at[p] IN
    /\ pc[p] = "ack" /\ x \in Chunked /\ Pending(x) /\ rcpt[x].phase = 3
    /\ faults < MaxFaults
    /\ faults' = faults + 1
    /\ \/ /\ rcpt[x].clean = "none"
          /\ Put(x, [rcpt[x] EXCEPT !.clean = "chunks"])
          /\ UNCHANGED chunks
       \/ /\ rcpt[x].clean # "header"
          /\ Put(x, [rcpt[x] EXCEPT !.clean = "chunks"])
          /\ chunks' = [chunks EXCEPT ![x] = FALSE]
       \/ /\ rcpt[x].clean # "header"
          /\ Put(x, [rcpt[x] EXCEPT !.clean = "header"])
          /\ chunks' = [chunks EXCEPT ![x] = FALSE]
    /\ End(p)
    /\ UNCHANGED <<rows, target, did, tomb, born>>

-----------------------------------------------------------------------------
\* An exception or a disconnect ends one request, a crash ends all.
Fault(p) ==
    /\ pc[p] # "idle" /\ faults < MaxFaults
    /\ faults' = faults + 1
    /\ End(p)
    /\ UNCHANGED <<durable, born>>

\* A removal that was not synced may be undone by it.
Crash ==
    /\ faults < MaxFaults /\ \E p \in Procs : pc[p] # "idle"
    /\ faults' = faults + 1
    /\ \E back \in SUBSET {x \in Receipts : target[x] = "removed"} :
          target' = [x \in Receipts |-> IF x \in back THEN "there" ELSE target[x]]
    /\ pc' = [p \in Procs |-> "idle"]
    /\ own' = [p \in Procs |-> None]
    /\ at' = [p \in Procs |-> None]
    /\ todo' = [p \in Procs |-> {}]
    /\ snap' = [p \in Procs |-> NoReceipt]
    /\ out' = [p \in Procs |-> None]
    /\ UNCHANGED <<rcpt, chunks, rows, did, tomb, born>>

\* Other operations of the store: another request, the purge or the clean-up
\* of stale bundles removes the target, or the entry changes under its name.
Vanish(x) ==
    /\ Kind[x] \in Direct \cup {"bundle"} /\ target[x] = "there"
    /\ target' = [target EXCEPT ![x] = "gone"]
    /\ UNCHANGED <<rcpt, chunks, rows, did, tomb, born, pc, own, at, todo, snap, out, faults>>

Change(x) ==
    /\ Kind[x] \in Direct \cup {"bundle"} /\ target[x] = "there" /\ faults < MaxFaults
    /\ target' = [target EXCEPT ![x] = "changed"]
    /\ faults' = faults + 1
    /\ UNCHANGED <<rcpt, chunks, rows, did, tomb, born, pc, own, at, todo, snap, out>>

Step(p) ==
    \/ Scan(p) \/ ReplayIntent(p) \/ Recover(p) \/ Confirm(p)
    \/ Prepare(p) \/ Intent(p) \/ Begin(p) \/ Tombstone(p) \/ Mutate(p) \/ Torn(p) \/ CreateBundle(p)
    \/ Bind(p) \/ Serve(p) \/ Wipe(p)
    \/ Record(p) \/ RecordChunksOnly(p) \/ LateIntent(p) \/ Audit(p) \/ Mark(p)
    \/ Ack(p) \/ AckStops(p)

Next ==
    \/ \E p \in Procs : Step(p) \/ Fault(p)
    \/ \E p \in Procs, x \in Receipts : Call(p, x) \/ Replay(p, x)
    \/ \E x \in Receipts : Vanish(x) \/ Change(x)
    \/ Crash

Spec == Init /\ [][Next]_vars

-----------------------------------------------------------------------------
\* Type correctness of receipts, audit rows and the requests' local state.
TypeOK ==
    /\ rcpt \in [Receipts -> Header \cup {NoReceipt}]
    /\ chunks \in [Receipts -> BOOLEAN]
    /\ rows \in [Receipts -> [intent : BOOLEAN, result : Outcomes \cup {None}]]
    /\ target \in [Receipts -> {"absent", "there", "changed", "removed", "gone"}]
    /\ did \in [Receipts -> BOOLEAN]
    /\ tomb \in [Receipts -> BOOLEAN]
    /\ born \subseteq Receipts
    /\ own \in [Procs -> Receipts \cup {None}]
    /\ at \in [Procs -> Receipts \cup {None}]
    /\ todo \in [Procs -> SUBSET Receipts]
    /\ snap \in [Procs -> Header \cup {NoReceipt}]
    /\ out \in [Procs -> Outcomes \cup {None}]
    /\ faults \in 0..MaxFaults

\* Whatever was done to the store is either told by a row of the audit table
\* or by a receipt that is still on disk (prepare_pending_result, Ack).
EffectHasReceipt == \A x \in Receipts : did[x] => Pending(x) \/ rows[x].result # None

\* No crash or error leaves a receipt that can never be read again: its header
\* and its chunk files always agree (record, acknowledge_pending_result).
ReceiptsReadable == \A x \in Receipts : Readable(x)

\* A receipt goes only after its intent and its result are both in the audit
\* table, however many requests replay it (acknowledge_pending_result).
AckedMeansAudited ==
    \A x \in Receipts : Pending(x) /\ ~Pending(x)' =>
            rows[x].intent /\ rows[x].result # None

\* The receipt of a removal that the audit table knows of stays until the
\* removal has been synced (_replay_pending_durability_evidence).
SyncedBeforeAck ==
    \A x \in Receipts :
         (Pending(x) /\ ~Pending(x)' /\ rows[x].result \in {"done", "unsynced"}) =>
             target[x] = "gone"

\* An entry that was replaced after its receipt was made is never removed by a
\* replay, only by the request itself (_replay_entry_matches_identity).
EvidenceBound ==
    \A x \in Receipts : (target[x] = "changed" /\ target'[x] = "gone") =>
            \E p \in Procs : pc[p] = "mutate" /\ own[p] = x

\* What the audit table says of a mutation that did not happen is true: "mutation
\* did not start before recovery" (jobs.py, _reconcile_pending_result_audit).
AuditTellsEffect ==
    \A x \in Receipts : rows[x].result \in {"not_started", "refused"} => ~did[x]
=============================================================================
