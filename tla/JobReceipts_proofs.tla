------------------------- MODULE JobReceipts_proofs -------------------------
(****************************************************************************)
(* Proofs about the pending receipts of the Office job store. ReceiptState   *)
(* is the inductive invariant for any number of requests at a time;          *)
(* LoneState adds what holds when one request runs after the other.          *)
(****************************************************************************)
EXTENDS JobReceipts, TLAPS

\* What a request may be doing.
Places == {"idle", "scan", "replay_intent", "recover", "confirm", "prepare", "intent", "begin",
           "rebegin", "tombstone", "mutate", "bind", "serve", "wipe", "record", "late_intent",
           "audit", "mark", "ack"}

\* What a receipt says, and no receipt.
Blank == [phase |-> 9, evid |-> FALSE, res |-> "none", clean |-> "none"]
Results == {"not_started", "refused", "done", "unsynced", "partial"}
Headers == [phase : 0..3, evid : BOOLEAN, res : Results \cup {"none"},
            clean : {"none", "chunks", "header"}]
Audits == [intent : BOOLEAN, result : Results \cup {"none"}]
Entries == {"absent", "there", "changed", "removed", "gone"}

\* Types of the state of receipts and of processes.
StoreTyped ==
    /\ rcpt \in [Receipts -> Headers \cup {Blank}] /\ chunks \in [Receipts -> BOOLEAN]
    /\ rows \in [Receipts -> Audits] /\ target \in [Receipts -> Entries]
    /\ did \in [Receipts -> BOOLEAN] /\ tomb \in [Receipts -> BOOLEAN]
    /\ born \in SUBSET Receipts
    /\ faults \in 0..MaxFaults
ProcsTyped ==
    /\ pc \in [Procs -> Places]
    /\ own \in [Procs -> Receipts \cup {"none"}] /\ at \in [Procs -> Receipts \cup {"none"}]
    /\ todo \in [Procs -> SUBSET Receipts] /\ snap \in [Procs -> Headers \cup {Blank}]
    /\ out \in [Procs -> Results \cup {"none"}]

\* The receipt or its result row is there.
Told(x) == rcpt[x] # Blank \/ rows[x].result # "none"

\* A receipt in its last phase has both rows, and whatever was done is told.
ReceiptOK == \A x \in Receipts :
    /\ rcpt[x].phase \in {0, 1} => rcpt[x].res = "none"
    /\ rcpt[x].phase \in {2, 3} => rcpt[x].res # "none"
    /\ rcpt[x].phase = 3 => rows[x].intent /\ rows[x].result # "none"
    /\ target[x] = "changed" => Kind[x] \notin {"owner", "purge"}
    /\ did[x] => Told(x)

\* What a request has before it: the receipt it is about, and the rows of the audit
\* table that it takes to be there.
RequestOK(p) ==
    /\ pc[p] \in {"idle", "scan"} => snap[p] = Blank
    /\ pc[p] \notin {"idle", "scan"} => at[p] \in Receipts
    /\ pc[p] \in {"prepare", "intent", "begin", "tombstone", "mutate", "serve"} => at[p] = own[p]
    /\ pc[p] \notin {"idle", "scan", "prepare"} => Told(at[p])
    /\ snap[p].phase \in {2, 3} => snap[p].res # "none"
    /\ snap[p].phase = 3 => rows[at[p]].intent /\ rows[at[p]].result # "none"
    /\ pc[p] = "confirm" => snap[p].phase \in {2, 3}
    /\ pc[p] \in {"recover", "confirm", "begin", "tombstone", "mutate", "audit", "mark"} =>
           rows[at[p]].intent
    /\ pc[p] \in {"record", "late_intent", "audit"} => out[p] # "none"
    /\ pc[p] = "record" => \/ rows[at[p]].intent
                           \/ Kind[at[p]] = "bundle" /\ snap[p].phase \in {1, 2, 3}
    /\ pc[p] = "mark" => rows[at[p]].result # "none"
    /\ pc[p] \in {"bind", "serve", "rebegin", "wipe"} => Kind[at[p]] = "bundle"
    /\ pc[p] \in {"bind", "rebegin"} => at[p] = own[p] \/ snap[p].phase \in {1, 2, 3}
    /\ pc[p] = "wipe" => snap[p].phase \in {1, 2, 3}

\* The audit table and the receipts tell more and more, and a receipt that goes
\* leaves both rows.
Grows == \A x \in Receipts :
    /\ rows[x].intent => rows[x].intent'
    /\ rows[x].result # "none" => rows[x].result' # "none"
    /\ Told(x) => Told(x)'
    /\ rcpt[x] # Blank /\ rcpt[x]' = Blank => rows[x].intent /\ rows[x].result # "none"

\* The other processes are where they were.
Apart(p) == \A q \in Procs \ {p} :
    /\ pc'[q] = pc[q] /\ own'[q] = own[q] /\ at'[q] = at[q] /\ todo'[q] = todo[q]
    /\ snap'[q] = snap[q] /\ out'[q] = out[q]

\* The state of receipts and requests, and what a step of one process leaves of it.
ReceiptState ==
    /\ StoreTyped /\ ProcsTyped /\ ReceiptOK
    /\ \A p \in Procs : RequestOK(p)
ReceiptStep(p) ==
    /\ StoreTyped' /\ ProcsTyped' /\ ReceiptOK' /\ Grows
    /\ Apart(p) /\ RequestOK(p)'

\* One request at a time. A receipt whose request has not begun; a result that says
\* nothing was done; a bundle's result that leaves nothing to do; a bundle's receipt
\* that is replayed.
Fresh(x) == rcpt[x] = Blank /\ ~did[x] /\ rows[x].result = "none"
Nothing == {"not_started", "refused"}
Complete(res) == res \in {"not_started", "refused", "done"}
Replays(h) == h.phase = 1 \/ (h.phase \in {2, 3} /\ ~Complete(h.res))

\* A receipt can be read, and what it and its row say of the entry is true.
Honest(x) ==
    /\ rcpt[x] # Blank /\ x \in Chunked /\ rcpt[x].res # "none" =>
         /\ rcpt[x].clean = "none" => chunks[x]
         /\ rcpt[x].clean = "header" => ~chunks[x]
    /\ rcpt[x].clean # "none" => rcpt[x].phase = 3
    /\ x \notin born => Fresh(x)
    /\ rcpt[x].phase = 0 => ~did[x]
    /\ rcpt[x].phase \in {0, 1} => rows[x].result = "none"
    /\ rcpt[x].phase \in {2, 3} =>
         /\ rcpt[x].res \in Nothing => ~did[x]
         /\ rcpt[x].res = "done" => target[x] = "gone"
         /\ \/ rows[x].result \in {"none", rcpt[x].res}
            \/ rcpt[x].res = "unsynced" /\ rows[x].result = "done"
         /\ Kind[x] = "bundle" /\ rows[x].result # "none" => Complete(rcpt[x].res)
    /\ rows[x].result \in Nothing => ~did[x]
    /\ rows[x].result = "done" => target[x] = "gone"

\* What a request that runs alone knows: its own receipt is not there before it is
\* its turn, the copy it read of another one is still true, and what it is to record is.
Copied(p) == snap[p].phase = rcpt[at[p]].phase /\ snap[p].res = rcpt[at[p]].res
Fits(p) == \/ out[p] = rcpt[at[p]].res
           \/ /\ rcpt[at[p]].res = "unsynced" /\ target[at[p]] = "gone"
              /\ out[p] \in {"done", "unsynced"}
Owns(p) ==
    /\ own[p] # "none" => own[p] \in born /\ own[p] \notin todo[p]
    /\ own[p] # "none" /\ (at[p] # own[p] \/ pc[p] = "prepare") => Fresh(own[p])
    /\ own[p] # "none" /\ own[p] = at[p] => snap[p] = Blank
Aware(p) ==
    /\ Owns(p)
    /\ pc[p] \in {"idle", "scan"} => at[p] = "none"
    /\ pc[p] \in {"intent", "begin"} => rcpt[at[p]].phase = 0
    /\ pc[p] \in {"tombstone", "mutate"} => rcpt[at[p]].phase = 1 /\ ~did[at[p]]
    /\ pc[p] \in {"replay_intent", "recover", "confirm"} => Copied(p)
    /\ pc[p] = "replay_intent" /\ Kind[at[p]] = "bundle" => ~Replays(snap[p])
    /\ pc[p] = "recover" => snap[p].phase = 1
    /\ pc[p] = "confirm" => rcpt[at[p]].res = "unsynced" /\ Kind[at[p]] # "bundle"
    /\ pc[p] \in {"bind", "serve", "rebegin"} /\ own[p] = at[p] => rcpt[at[p]].phase = 1
    /\ pc[p] \in {"bind", "rebegin", "wipe"} /\ own[p] # at[p] => Copied(p) /\ Replays(snap[p])
    /\ pc[p] = "wipe" => own[p] # at[p]
    /\ pc[p] = "record" =>
         /\ rcpt[at[p]].phase \in 0..2 /\ rows[at[p]].result = "none"
         /\ rcpt[at[p]].phase = 2 => Kind[at[p]] = "bundle"
         /\ out[p] \in Nothing => ~did[at[p]]
         /\ out[p] = "done" => target[at[p]] = "gone"
    /\ pc[p] \in {"late_intent", "audit", "mark"} =>
         /\ rcpt[at[p]].phase \in {2, 3} /\ Fits(p)
         /\ Kind[at[p]] = "bundle" => Complete(rcpt[at[p]].res)
    /\ pc[p] = "ack" =>
         /\ rcpt[at[p]].phase = 3
         /\ rcpt[at[p]].res = "unsynced" => target[at[p]] = "gone"

\* The state of receipts whose requests run one after the other.
LoneState(p) ==
    /\ Procs = {p} /\ ReceiptState
    /\ (\A x \in Receipts : Honest(x)) /\ Aware(p)

\* What a step of its one process leaves of it; a receipt goes only when the request
\* gives it up.
Kept(p) == \A x \in Receipts :
    rcpt[x] # Blank /\ rcpt[x]' = Blank => pc[p] = "ack" /\ at[p] = x
LoneStep(p) == (\A x \in Receipts : Honest(x)') /\ Aware(p)' /\ Kept(p)

\* A receipt that is there is not blank, and stays one with a field replaced.
LEMMA HeaderFacts ==
    ASSUME NEW h \in Headers
    PROVE  /\ h # Blank /\ h.phase \in 0..3 /\ h.phase # 9
           /\ h.res \in Results \cup {"none"}
           /\ \A n \in 0..3 : /\ [h EXCEPT !.phase = n] \in Headers
                              /\ [h EXCEPT !.phase = n].phase = n
                              /\ [h EXCEPT !.phase = n].res = h.res
                              /\ [h EXCEPT !.phase = n].clean = h.clean
           /\ \A o \in Results : /\ [h EXCEPT !.phase = 2, !.res = o] \in Headers
                                 /\ [h EXCEPT !.phase = 2, !.res = o].phase = 2
                                 /\ [h EXCEPT !.phase = 2, !.res = o].res = o
                                 /\ [h EXCEPT !.phase = 2, !.res = o].clean = h.clean
           /\ /\ [h EXCEPT !.evid = TRUE] \in Headers
              /\ [h EXCEPT !.evid = TRUE].phase = h.phase
              /\ [h EXCEPT !.evid = TRUE].res = h.res
              /\ [h EXCEPT !.evid = TRUE].clean = h.clean
           /\ \A c \in {"chunks", "header"} : /\ [h EXCEPT !.clean = c] \in Headers
                                              /\ [h EXCEPT !.clean = c].phase = h.phase
                                              /\ [h EXCEPT !.clean = c].res = h.res
                                              /\ [h EXCEPT !.clean = c].clean = c
<1>1. h # Blank /\ h.phase \in 0..3 /\ h.phase # 9 /\ h.res \in Results \cup {"none"}
  BY DEF Headers, Blank
<1>2. ASSUME NEW n \in 0..3
      PROVE  /\ [h EXCEPT !.phase = n] \in Headers /\ [h EXCEPT !.phase = n].phase = n
             /\ [h EXCEPT !.phase = n].res = h.res /\ [h EXCEPT !.phase = n].clean = h.clean
  BY DEF Headers
<1>3. ASSUME NEW o \in Results
      PROVE  /\ [h EXCEPT !.phase = 2, !.res = o] \in Headers
             /\ [h EXCEPT !.phase = 2, !.res = o].phase = 2
             /\ [h EXCEPT !.phase = 2, !.res = o].res = o
             /\ [h EXCEPT !.phase = 2, !.res = o].clean = h.clean
  <2>1. PICK g \in Headers : g = [h EXCEPT !.phase = 2]
    BY <1>2
  <2>2. g.clean = h.clean /\ g.phase = 2
    BY <2>1 DEF Headers
  <2>3. [h EXCEPT !.phase = 2, !.res = o] = [g EXCEPT !.res = o]
    BY <2>1
  <2>4. /\ [g EXCEPT !.res = o] \in Headers /\ [g EXCEPT !.res = o].phase = g.phase
        /\ [g EXCEPT !.res = o].res = o /\ [g EXCEPT !.res = o].clean = g.clean
    BY DEF Headers
  <2> QED BY <2>2, <2>3, <2>4
<1>4. /\ [h EXCEPT !.evid = TRUE] \in Headers /\ [h EXCEPT !.evid = TRUE].phase = h.phase
      /\ [h EXCEPT !.evid = TRUE].res = h.res /\ [h EXCEPT !.evid = TRUE].clean = h.clean
  BY DEF Headers
<1>5. ASSUME NEW c \in {"chunks", "header"}
      PROVE  /\ [h EXCEPT !.clean = c] \in Headers /\ [h EXCEPT !.clean = c].phase = h.phase
             /\ [h EXCEPT !.clean = c].res = h.res /\ [h EXCEPT !.clean = c].clean = c
  BY DEF Headers
<1> QED BY <1>1, <1>2, <1>3, <1>4, <1>5

\* The names that the types give the module's own sets.
LEMMA ReceiptNames ==
    /\ NoReceipt = Blank /\ None = "none"
    /\ Outcomes = Results /\ Header = Headers
    /\ Direct = {"recovery", "quarantine", "evidence", "restore"}
BY DEF NoReceipt, None, Outcomes, Header, Direct, Blank, Results, Headers

\* A request that ends, and one that goes on to the next step.
LEMMA ReceiptEnds ==
    ASSUME NEW p \in Procs, ProcsTyped, End(p)
    PROVE  /\ ProcsTyped' /\ Apart(p) /\ RequestOK(p)'
           /\ pc'[p] = "idle" /\ own'[p] = "none" /\ at'[p] = "none" /\ snap'[p] = Blank
<1>1. "idle" \in Places /\ Blank.phase = 9
  BY DEF Places, Blank
<1>2. /\ ProcsTyped' /\ Apart(p)
      /\ pc'[p] = "idle" /\ own'[p] = "none" /\ at'[p] = "none" /\ snap'[p] = Blank
  BY <1>1, ReceiptNames DEF End, Goto, ProcsTyped, Apart
<1> QED BY <1>1, <1>2 DEF RequestOK

LEMMA ReceiptGoes ==
    ASSUME NEW p \in Procs, NEW l \in Places, ProcsTyped, Goto(p, l), Keep,
           NEW o \in Results \cup {"none"}, out' = [out EXCEPT ![p] = o]
    PROVE  /\ ProcsTyped' /\ Apart(p) /\ pc'[p] = l /\ out'[p] = o
           /\ own'[p] = own[p] /\ at'[p] = at[p] /\ snap'[p] = snap[p] /\ todo'[p] = todo[p]
BY DEF Goto, Keep, ProcsTyped, Apart

LEMMA ReceiptMoves ==
    ASSUME NEW p \in Procs, NEW l \in Places, ProcsTyped, Goto(p, l), Keep,
           UNCHANGED out
    PROVE  /\ ProcsTyped' /\ Apart(p) /\ pc'[p] = l /\ out'[p] = out[p]
           /\ own'[p] = own[p] /\ at'[p] = at[p] /\ snap'[p] = snap[p] /\ todo'[p] = todo[p]
BY DEF Goto, Keep, ProcsTyped, Apart

\* A process that has not moved.
LEMMA ReceiptRests ==
    ASSUME NEW q \in Procs, RequestOK(q), Grows, ProcsTyped,
           pc'[q] = pc[q], own'[q] = own[q], at'[q] = at[q],
           snap'[q] = snap[q], out'[q] = out[q]
    PROVE  RequestOK(q)'
<1>1. pc[q] \notin {"idle", "scan"} \/ snap[q].phase = 9
  BY DEF RequestOK, Blank
<1>2. pc[q] \notin {"idle", "scan"} => at[q] \in Receipts
  BY DEF RequestOK
<1> QED BY <1>1, <1>2 DEF RequestOK, Grows

\* Receipts and rows stay, and what is done is told; a receipt is replaced; a row of
\* the audit table is replaced by one that says more.
LEMMA ReceiptQuiet ==
    ASSUME ReceiptOK, UNCHANGED <<rcpt, rows>>,
           \A x \in Receipts : did'[x] => did[x] \/ Told(x),
           \A x \in Receipts : target'[x] = "changed" => Kind[x] \notin {"owner", "purge"}
    PROVE  ReceiptOK' /\ Grows
BY DEF ReceiptOK, Grows, Told

LEMMA ReceiptPuts ==
    ASSUME NEW x \in Receipts, NEW h \in Headers, StoreTyped, ReceiptOK,
           Put(x, h), UNCHANGED <<rows, did>>,
           \A y \in Receipts : target'[y] = "changed" => Kind[y] \notin {"owner", "purge"},
           h.phase \in {0, 1} => h.res = "none",
           h.phase \in {2, 3} => h.res # "none",
           h.phase = 3 => rows[x].intent /\ rows[x].result # "none"
    PROVE  /\ rcpt' \in [Receipts -> Headers \cup {Blank}] /\ rcpt'[x] = h
           /\ ReceiptOK' /\ Grows /\ Told(x)'
<1>1. /\ rcpt' \in [Receipts -> Headers \cup {Blank}] /\ rcpt'[x] = h
      /\ \A y \in Receipts \ {x} : rcpt'[y] = rcpt[y]
  BY DEF Put, StoreTyped
<1>2. h # Blank
  BY HeaderFacts
<1> QED BY <1>1, <1>2 DEF ReceiptOK, Grows, Told

LEMMA ReceiptRowed ==
    ASSUME NEW x \in Receipts, NEW v \in Audits, StoreTyped, ReceiptOK,
           rows' = [rows EXCEPT ![x] = v], UNCHANGED <<rcpt, did, target>>,
           rows[x].intent => v.intent,
           rows[x].result # "none" => v.result # "none"
    PROVE  /\ rows' \in [Receipts -> Audits] /\ rows'[x] = v
           /\ ReceiptOK' /\ Grows
<1>1. /\ rows' \in [Receipts -> Audits] /\ rows'[x] = v
      /\ \A y \in Receipts \ {x} : rows'[y] = rows[y]
  BY DEF StoreTyped
<1> QED BY <1>1 DEF ReceiptOK, Grows, Told

\* A request looks for receipts, and an intent row comes first.
LEMMA ReceiptScan ==
    ASSUME ReceiptAssumption, NEW p \in Procs, ReceiptState, Scan(p)
    PROVE  ReceiptStep(p)
<1> USE ReceiptNames
<1>1. /\ StoreTyped /\ ProcsTyped /\ ReceiptOK /\ RequestOK(p)
  BY DEF ReceiptState
<1>2. UNCHANGED <<rcpt, chunks, rows, target, did, tomb, born, faults>> /\ pc[p] = "scan"
  BY DEF Scan, ReadReceipt, durable
<1>3. StoreTyped' /\ ReceiptOK' /\ Grows
  BY <1>1, <1>2 DEF StoreTyped, ReceiptOK, Grows, Told
<1>4. CASE End(p)
  BY <1>1, <1>3, <1>4, ReceiptEnds DEF ReceiptStep
<1>5. CASE /\ todo[p] = {} /\ own[p] # None /\ Goto(p, "prepare")
           /\ at' = [at EXCEPT ![p] = own[p]]
           /\ UNCHANGED <<durable, own, todo, snap, out>>
  <2>1. ProcsTyped' /\ Apart(p)
    BY <1>1, <1>5 DEF ProcsTyped, Apart, Goto, Places
  <2>2. /\ pc'[p] = "prepare" /\ at'[p] = own[p] /\ own'[p] = own[p] /\ own[p] \in Receipts
        /\ snap'[p] = Blank
    BY <1>1, <1>2, <1>5 DEF ProcsTyped, RequestOK, Goto
  <2>3. Blank.phase = 9
    BY DEF Blank
  <2> QED BY <1>3, <2>1, <2>2, <2>3 DEF ReceiptStep, RequestOK
<1>6. ASSUME NEW y \in todo[p], Pending(y), ReadReceipt(p, y)
      PROVE  ReceiptStep(p)
  <2>1. PICK l \in {"replay_intent", "rebegin", "bind"} :
          /\ snap' = [snap EXCEPT ![p] = rcpt[y]] /\ at' = [at EXCEPT ![p] = y] /\ Goto(p, l)
          /\ UNCHANGED <<own, todo, out>>
          /\ l # "replay_intent" => Kind[y] = "bundle" /\ rcpt[y].phase \in {1, 2, 3}
    BY <1>6 DEF ReadReceipt, BundleReplays
  <2>2. y \in Receipts /\ rcpt[y] \in Headers \cup {Blank} /\ rcpt[y] # Blank
    BY <1>1, <1>6 DEF ProcsTyped, StoreTyped, Pending
  <2>3. ProcsTyped' /\ Apart(p)
    BY <1>1, <2>1, <2>2 DEF ProcsTyped, Apart, Goto, Places
  <2>4. pc'[p] = l /\ at'[p] = y /\ snap'[p] = rcpt[y]
    BY <1>1, <2>1, <2>2 DEF ProcsTyped, Goto
  <2>5. Told(y)'
    BY <1>2, <2>2 DEF Told
  <2>6. RequestOK(p)'
    BY <1>1, <1>2, <2>1, <2>2, <2>4, <2>5 DEF RequestOK, ReceiptOK
  <2> QED BY <1>3, <2>3, <2>6 DEF ReceiptStep
<1> QED BY <1>4, <1>5, <1>6 DEF Scan, ReadReceipt

LEMMA ReceiptReplayIntent ==
    ASSUME ReceiptAssumption, NEW p \in Procs, ReceiptState, ReplayIntent(p)
    PROVE  ReceiptStep(p)
<1> USE ReceiptNames
<1>1. /\ StoreTyped /\ ProcsTyped /\ ReceiptOK /\ RequestOK(p)
  BY DEF ReceiptState
<1>2. PICK x \in Receipts : x = at[p] /\ pc[p] = "replay_intent"
  BY <1>1 DEF RequestOK, ReplayIntent
<1> DEFINE v == [rows[x] EXCEPT !.intent = TRUE]
<1>3. rows' = [rows EXCEPT ![x] = v]
  BY <1>1, <1>2 DEF ReplayIntent, StoreTyped
<1>4. v \in Audits /\ v.intent = TRUE /\ v.result = rows[x].result
  BY <1>1, <1>2 DEF StoreTyped, Audits
<1>5. UNCHANGED <<rcpt, chunks, target, did, tomb, born, faults>>
  BY DEF ReplayIntent
<1> HIDE DEF v
<1>6. /\ rows' \in [Receipts -> Audits] /\ rows'[x] = v /\ ReceiptOK' /\ Grows
  BY <1>1, <1>2, <1>3, <1>4, <1>5, ReceiptRowed
<1>7. StoreTyped'
  BY <1>1, <1>5, <1>6 DEF StoreTyped
<1>8. PICK l \in {"record", "recover", "confirm", "ack", "audit"},
           o \in Results \cup {"none"} :
         /\ Goto(p, l) /\ Keep /\ out' = [out EXCEPT ![p] = o]
         /\ l = "confirm" => snap[p].phase \in {2, 3}
         /\ l \in {"record", "audit"} => o # "none"
  <2>1. out[p] \in Results \cup {"none"} /\ out = [out EXCEPT ![p] = out[p]]
    BY <1>1 DEF ProcsTyped
  <2>2. snap[p] # Blank => snap[p].res \in Results \cup {"none"}
    <3>1. snap[p] \in Headers \cup {Blank}
      BY <1>1 DEF ProcsTyped
    <3> QED BY <3>1 DEF Headers
  <2>3. snap[p].phase \in {2, 3} => snap[p].res \in Results
    BY <1>1, <2>2 DEF RequestOK, Blank
  <2>4. "not_started" \in Results /\ "none" \notin Results
    BY DEF Results
  <2> QED BY <2>1, <2>3, <2>4 DEF ReplayIntent
<1>9. /\ ProcsTyped' /\ Apart(p) /\ pc'[p] = l /\ out'[p] = o
      /\ own'[p] = own[p] /\ at'[p] = x /\ snap'[p] = snap[p]
  <2>1. l \in Places
    BY DEF Places
  <2> QED BY <1>1, <1>2, <1>8, <2>1, ReceiptGoes
<1>10. Told(x)'
  BY <1>1, <1>2, <1>6 DEF RequestOK, Grows
<1>11. RequestOK(p)'
  BY <1>1, <1>2, <1>4, <1>6, <1>8, <1>9, <1>10 DEF RequestOK
<1> QED BY <1>6, <1>7, <1>9, <1>11 DEF ReceiptStep

\* A replay finishes what was begun, or confirms a removal.
LEMMA ReceiptRecover ==
    ASSUME ReceiptAssumption, NEW p \in Procs, ReceiptState, Recover(p)
    PROVE  ReceiptStep(p)
<1> USE ReceiptNames
<1>1. /\ StoreTyped /\ ProcsTyped /\ ReceiptOK /\ RequestOK(p)
  BY DEF ReceiptState
<1>2. PICK x \in Receipts : x = at[p] /\ pc[p] = "recover"
  BY <1>1 DEF RequestOK, Recover
<1>3. UNCHANGED <<rcpt, chunks, rows, tomb, born>>
  BY DEF Recover
<1>4. CASE End(p) /\ UNCHANGED <<did, target, faults>>
  <2>1. StoreTyped' /\ ReceiptOK' /\ Grows
    BY <1>1, <1>3, <1>4 DEF StoreTyped, ReceiptOK, Grows, Told
  <2> QED BY <1>1, <1>4, <2>1, ReceiptEnds DEF ReceiptStep
<1>5. CASE \E o \in {"done", "unsynced", "partial"}, d \in BOOLEAN :
             /\ out' = [out EXCEPT ![p] = o] /\ Goto(p, "record") /\ Keep
             /\ did' = [did EXCEPT ![x] = d] /\ faults' \in 0..MaxFaults
             /\ \E e \in {"gone", "removed", target[x]} : target' = [target EXCEPT ![x] = e]
  <2>1. PICK o \in {"done", "unsynced", "partial"}, d \in BOOLEAN :
             /\ out' = [out EXCEPT ![p] = o] /\ Goto(p, "record") /\ Keep
             /\ did' = [did EXCEPT ![x] = d] /\ faults' \in 0..MaxFaults
             /\ \E e \in {"gone", "removed", target[x]} : target' = [target EXCEPT ![x] = e]
    BY <1>5
  <2>2. PICK e \in {"gone", "removed", target[x]} : target' = [target EXCEPT ![x] = e]
    BY <2>1
  <2>3. e \in Entries
    BY <1>1, <2>2 DEF StoreTyped, Entries
  <2>4. StoreTyped'
    BY <1>1, <1>3, <2>1, <2>2, <2>3 DEF StoreTyped
  <2>5. Told(x)
    BY <1>1, <1>2 DEF RequestOK
  <2>6. ReceiptOK' /\ Grows
    <3>1. \A y \in Receipts : did'[y] => did[y] \/ Told(y)
      BY <1>1, <2>1, <2>5 DEF StoreTyped
    <3>2. \A y \in Receipts : target'[y] = "changed" => target[y] = "changed"
      BY <1>1, <2>2 DEF StoreTyped
    <3>3. \A y \in Receipts : target'[y] = "changed" => Kind[y] \notin {"owner", "purge"}
      BY <1>1, <3>2 DEF ReceiptOK
    <3> QED BY <1>1, <1>3, <3>1, <3>3, ReceiptQuiet
  <2>7. "record" \in Places /\ o \in Results /\ o # "none"
    BY DEF Places, Results
  <2>8. /\ ProcsTyped' /\ Apart(p) /\ pc'[p] = "record" /\ out'[p] = o
        /\ own'[p] = own[p] /\ at'[p] = x /\ snap'[p] = snap[p]
    BY <1>1, <1>2, <2>1, <2>7, ReceiptGoes
  <2>9. Told(x)'
    BY <2>5, <2>6 DEF Grows
  <2>10. RequestOK(p)'
    BY <1>1, <1>2, <1>3, <2>7, <2>8, <2>9 DEF RequestOK
  <2> QED BY <2>4, <2>6, <2>8, <2>10 DEF ReceiptStep
<1>6. CASE RecoverDirect(p)
  <2>1. CASE \/ ~snap[p].evid \/ ~SameEntry(x)
             \/ Kind[x] = "restore" /\ target[x] # "there" /\ ~did[x]
    BY <1>2, <1>4, <1>6, <2>1 DEF RecoverDirect
  <2>2. CASE ~(\/ ~snap[p].evid \/ ~SameEntry(x)
               \/ Kind[x] = "restore" /\ target[x] # "there" /\ ~did[x])
    <3>1. /\ did' = [did EXCEPT ![x] = did[x] \/ target[x] = "there"]
          /\ target' = [target EXCEPT ![x] = "gone"]
          /\ out' = [out EXCEPT ![p] = "done"] /\ Goto(p, "record") /\ Keep
          /\ UNCHANGED faults
      BY <1>1, <1>2, <1>6, <2>2 DEF RecoverDirect, StoreTyped
    <3>2. (did[x] \/ target[x] = "there") \in BOOLEAN /\ faults' \in 0..MaxFaults
      BY <1>1, <3>1 DEF StoreTyped
    <3> QED BY <1>5, <3>1, <3>2
  <2> QED BY <2>1, <2>2
<1>7. CASE RecoverOwner(p)
  <2>1. CASE ~tomb[x]
    BY <1>2, <1>4, <1>7, <2>1 DEF RecoverOwner
  <2>2. CASE tomb[x]
    <3>1. /\ did' = [did EXCEPT ![x] = TRUE] /\ Goto(p, "record") /\ Keep
      BY <1>2, <1>7, <2>2 DEF RecoverOwner
    <3>2. PICK o \in {"done", "unsynced", "partial"} :
             /\ out' = [out EXCEPT ![p] = o]
             /\ target' = [target EXCEPT ![x] = IF o = "done" THEN "gone"
                           ELSE IF o = "unsynced" /\ @ = "there" THEN "removed" ELSE @]
             /\ o # "done" => faults < MaxFaults
             /\ faults' = IF o = "done" THEN faults ELSE faults + 1
      BY <1>2, <1>7, <2>2 DEF RecoverOwner
    <3>3. \E e \in {"gone", "removed", target[x]} : target' = [target EXCEPT ![x] = e]
      BY <1>1, <3>2 DEF StoreTyped
    <3>4. faults' \in 0..MaxFaults
      BY <1>1, <3>2 DEF StoreTyped, ReceiptAssumption
    <3> QED BY <1>5, <3>1, <3>2, <3>3, <3>4
  <2> QED BY <2>1, <2>2
<1> QED BY <1>4, <1>6, <1>7 DEF Recover

LEMMA ReceiptConfirm ==
    ASSUME ReceiptAssumption, NEW p \in Procs, ReceiptState, Confirm(p)
    PROVE  ReceiptStep(p)
<1> USE ReceiptNames
<1>1. /\ StoreTyped /\ ProcsTyped /\ ReceiptOK /\ RequestOK(p)
  BY DEF ReceiptState
<1>2. PICK x \in Receipts : x = at[p] /\ pc[p] = "confirm"
  BY <1>1 DEF RequestOK, Confirm
<1>3. UNCHANGED <<rcpt, chunks, rows, did, tomb, born, faults>>
  BY DEF Confirm
<1>4. CASE End(p) /\ UNCHANGED target
  <2>1. StoreTyped' /\ ReceiptOK' /\ Grows
    BY <1>1, <1>3, <1>4 DEF StoreTyped, ReceiptOK, Grows, Told
  <2> QED BY <1>1, <1>4, <2>1, ReceiptEnds DEF ReceiptStep
<1>5. CASE \E o \in {"done", "unsynced"}, l \in {"ack", "audit"} :
             /\ out' = [out EXCEPT ![p] = o] /\ Goto(p, l) /\ Keep
             /\ target' = [target EXCEPT ![x] = "gone"]
  <2>1. PICK o \in {"done", "unsynced"}, l \in {"ack", "audit"} :
             /\ out' = [out EXCEPT ![p] = o] /\ Goto(p, l) /\ Keep
             /\ target' = [target EXCEPT ![x] = "gone"]
    BY <1>5
  <2>2. l \in Places /\ o \in Results /\ o # "none" /\ "gone" \in Entries
    BY DEF Places, Results, Entries
  <2>3. StoreTyped'
    BY <1>1, <1>3, <2>1, <2>2 DEF StoreTyped
  <2>4. ReceiptOK' /\ Grows
    <3>1. \A y \in Receipts : target'[y] = "changed" => target[y] = "changed"
      BY <1>1, <2>1 DEF StoreTyped
    <3>2. \A y \in Receipts : target'[y] = "changed" => Kind[y] \notin {"owner", "purge"}
      BY <1>1, <3>1 DEF ReceiptOK
    <3> QED BY <1>1, <1>3, <3>2, ReceiptQuiet
  <2>5. /\ ProcsTyped' /\ Apart(p) /\ pc'[p] = l /\ out'[p] = o
        /\ own'[p] = own[p] /\ at'[p] = x /\ snap'[p] = snap[p]
    BY <1>1, <1>2, <2>1, <2>2, ReceiptGoes
  <2>6. Told(x)'
    BY <1>1, <1>2, <2>4 DEF Grows, RequestOK
  <2>7. RequestOK(p)'
    BY <1>1, <1>2, <1>3, <2>2, <2>5, <2>6 DEF RequestOK
  <2> QED BY <2>3, <2>4, <2>5, <2>7 DEF ReceiptStep
<1>6. CASE ConfirmDirect(p) \/ ConfirmPurge(p) \/ ConfirmOwner(p)
  <2>1. \E o \in {"done", "unsynced"} :
           out' = [out EXCEPT ![p] = o] /\ target' = [target EXCEPT ![x] = "gone"]
    BY <1>2, <1>6 DEF ConfirmDirect, ConfirmPurge, ConfirmOwner, ConfirmAbsence
  <2>2. \/ End(p) /\ UNCHANGED target
        \/ \E l \in {"ack", "audit"} : Goto(p, l) /\ Keep
    BY DEF Confirm
  <2> QED BY <1>4, <1>5, <2>1, <2>2
<1> QED BY <1>4, <1>6 DEF Confirm

\* The request itself, up to its mutation.
LEMMA ReceiptPrepare ==
    ASSUME ReceiptAssumption, NEW p \in Procs, ReceiptState, Prepare(p)
    PROVE  ReceiptStep(p)
<1> USE ReceiptNames
<1>1. /\ StoreTyped /\ ProcsTyped /\ ReceiptOK /\ RequestOK(p)
  BY DEF ReceiptState
<1>2. PICK x \in Receipts : x = at[p] /\ x = own[p] /\ pc[p] = "prepare"
  BY <1>1 DEF RequestOK, Prepare
<1>3. UNCHANGED <<chunks, rows, did, tomb, born, faults>>
  BY DEF Prepare
<1>4. CASE End(p) /\ UNCHANGED <<rcpt, target>>
  <2>1. StoreTyped' /\ ReceiptOK' /\ Grows
    BY <1>1, <1>3, <1>4 DEF StoreTyped, ReceiptOK, Grows, Told
  <2> QED BY <1>1, <1>4, <2>1, ReceiptEnds DEF ReceiptStep
<1> DEFINE h == [phase |-> 0, evid |-> TakesEvidence(Kind[x]), res |-> None, clean |-> "none"]
<1>5. CASE /\ Put(x, h)
           /\ target' = [target EXCEPT ![x] = IF @ = "changed" THEN "there" ELSE @]
           /\ Goto(p, "intent") /\ Keep /\ UNCHANGED out
  <2>1. h \in Headers /\ h.phase = 0 /\ h.res = "none"
    BY DEF Headers, TakesEvidence
  <2> HIDE DEF h
  <2>2. \A y \in Receipts : target'[y] = "changed" => Kind[y] \notin {"owner", "purge"}
    BY <1>1, <1>5 DEF StoreTyped, ReceiptOK
  <2>3. /\ rcpt' \in [Receipts -> Headers \cup {Blank}]
        /\ ReceiptOK' /\ Grows /\ Told(x)'
    BY <1>1, <1>3, <1>5, <2>1, <2>2, ReceiptPuts
  <2>4. target' \in [Receipts -> Entries]
    BY <1>1, <1>5 DEF StoreTyped, Entries
  <2>5. StoreTyped'
    BY <1>1, <1>3, <2>3, <2>4 DEF StoreTyped
  <2>6. "intent" \in Places
    BY DEF Places
  <2>7. /\ ProcsTyped' /\ Apart(p) /\ pc'[p] = "intent"
        /\ own'[p] = own[p] /\ at'[p] = at[p] /\ snap'[p] = snap[p]
    BY <1>1, <1>5, <2>6, ReceiptMoves
  <2>8. RequestOK(p)'
    BY <1>1, <1>2, <1>3, <2>3, <2>7 DEF RequestOK
  <2> QED BY <2>3, <2>5, <2>7, <2>8 DEF ReceiptStep
<1> QED BY <1>2, <1>4, <1>5 DEF Prepare

LEMMA ReceiptIntent ==
    ASSUME ReceiptAssumption, NEW p \in Procs, ReceiptState,
           Intent(p) \/ LateIntent(p)
    PROVE  ReceiptStep(p)
<1> USE ReceiptNames
<1>1. /\ StoreTyped /\ ProcsTyped /\ ReceiptOK /\ RequestOK(p)
  BY DEF ReceiptState
<1>2. PICK x \in Receipts : x = at[p] /\ (Intent(p) => x = own[p])
  BY <1>1 DEF RequestOK, Intent, LateIntent
<1> DEFINE v == [rows[x] EXCEPT !.intent = TRUE]
<1>3. rows' = [rows EXCEPT ![x] = v]
  BY <1>1, <1>2 DEF Intent, LateIntent, StoreTyped
<1>4. v \in Audits /\ v.intent = TRUE /\ v.result = rows[x].result
  BY <1>1, <1>2 DEF StoreTyped, Audits
<1>5. UNCHANGED <<rcpt, chunks, target, did, tomb, born, faults, out>>
  BY DEF Intent, LateIntent
<1> HIDE DEF v
<1>6. /\ rows' \in [Receipts -> Audits] /\ rows'[x] = v /\ ReceiptOK' /\ Grows
  BY <1>1, <1>2, <1>3, <1>4, <1>5, ReceiptRowed
<1>7. StoreTyped'
  BY <1>1, <1>5, <1>6 DEF StoreTyped
<1>8. PICK l \in {"begin", "audit"} :
         /\ Goto(p, l) /\ Keep
         /\ l = "begin" => at[p] = own[p] /\ pc[p] = "intent"
         /\ l = "audit" => pc[p] = "late_intent"
  BY <1>2 DEF Intent, LateIntent
<1>9. /\ ProcsTyped' /\ Apart(p) /\ pc'[p] = l /\ out'[p] = out[p]
      /\ own'[p] = own[p] /\ at'[p] = x /\ snap'[p] = snap[p]
  <2>1. l \in Places
    BY DEF Places
  <2> QED BY <1>1, <1>2, <1>5, <1>8, <2>1, ReceiptMoves
<1>10. Told(x)'
  BY <1>1, <1>2, <1>6, <1>8 DEF RequestOK, Grows
<1>11. RequestOK(p)'
  BY <1>1, <1>2, <1>4, <1>6, <1>8, <1>9, <1>10 DEF RequestOK
<1> QED BY <1>6, <1>7, <1>9, <1>11 DEF ReceiptStep

LEMMA ReceiptBegin ==
    ASSUME ReceiptAssumption, NEW p \in Procs, ReceiptState, Begin(p)
    PROVE  ReceiptStep(p)
<1> USE ReceiptNames
<1>1. /\ StoreTyped /\ ProcsTyped /\ ReceiptOK /\ RequestOK(p)
  BY DEF ReceiptState
<1>2. PICK x \in Receipts : x = at[p] /\ pc[p] \in {"begin", "rebegin"}
  BY <1>1 DEF RequestOK, Begin
<1>3. UNCHANGED <<chunks, rows, target, did, tomb, born, faults>>
  BY DEF Begin
<1>4. CASE End(p) /\ UNCHANGED rcpt
  <2>1. StoreTyped' /\ ReceiptOK' /\ Grows
    BY <1>1, <1>3, <1>4 DEF StoreTyped, ReceiptOK, Grows, Told
  <2> QED BY <1>1, <1>4, <2>1, ReceiptEnds DEF ReceiptStep
<1>5. CASE /\ Whole(x)
           /\ Put(x, IF rcpt[x].phase = 0 THEN [rcpt[x] EXCEPT !.phase = 1] ELSE rcpt[x])
           /\ Goto(p, IF pc[p] = "rebegin" THEN "bind"
                       ELSE IF Kind[x] = "owner" THEN "tombstone" ELSE "mutate")
           /\ Keep /\ UNCHANGED out
  <2>1. rcpt[x] \in Headers
    BY <1>1, <1>5 DEF StoreTyped, Whole, Pending
  <2>2. PICK h \in Headers :
           /\ Put(x, h) /\ h.res = rcpt[x].res
           /\ h.phase = rcpt[x].phase \/ (h.phase = 1 /\ rcpt[x].phase = 0)
    <3> DEFINE g == [rcpt[x] EXCEPT !.phase = 1]
    <3>1. g \in Headers /\ g.phase = 1 /\ g.res = rcpt[x].res
      BY <2>1 DEF Headers
    <3>2. Put(x, IF rcpt[x].phase = 0 THEN g ELSE rcpt[x])
      BY <1>5
    <3> HIDE DEF g
    <3> QED BY <2>1, <3>1, <3>2
  <2>3. /\ rcpt' \in [Receipts -> Headers \cup {Blank}]
        /\ ReceiptOK' /\ Grows /\ Told(x)'
    <3>1. /\ h.phase \in {0, 1} => h.res = "none"
          /\ h.phase \in {2, 3} => h.res # "none"
          /\ h.phase = 3 => rows[x].intent /\ rows[x].result # "none"
          /\ \A y \in Receipts : target'[y] = "changed" => Kind[y] \notin {"owner", "purge"}
      BY <1>1, <1>3, <2>2 DEF ReceiptOK
    <3> QED BY <1>1, <1>3, <2>2, <3>1, ReceiptPuts
  <2>4. StoreTyped'
    BY <1>1, <1>3, <2>3 DEF StoreTyped
  <2>5. PICK l \in {"bind", "tombstone", "mutate"} :
           /\ Goto(p, l) /\ l \in Places
           /\ l = "bind" => pc[p] = "rebegin"
           /\ l # "bind" => pc[p] = "begin"
    BY <1>2, <1>5 DEF Places
  <2>6. /\ ProcsTyped' /\ Apart(p) /\ pc'[p] = l
        /\ own'[p] = own[p] /\ at'[p] = at[p] /\ snap'[p] = snap[p]
    BY <1>1, <1>5, <2>5, ReceiptMoves
  <2>7. RequestOK(p)'
    BY <1>1, <1>2, <1>3, <2>3, <2>5, <2>6 DEF RequestOK
  <2> QED BY <2>3, <2>4, <2>6, <2>7 DEF ReceiptStep
<1> QED BY <1>2, <1>4, <1>5 DEF Begin

LEMMA ReceiptTombstone ==
    ASSUME ReceiptAssumption, NEW p \in Procs, ReceiptState, Tombstone(p)
    PROVE  ReceiptStep(p)
<1> USE ReceiptNames
<1>1. /\ StoreTyped /\ ProcsTyped /\ ReceiptOK /\ RequestOK(p)
  BY DEF ReceiptState
<1>2. PICK x \in Receipts : x = at[p] /\ pc[p] = "tombstone"
  BY <1>1 DEF RequestOK, Tombstone
<1>3. UNCHANGED <<rcpt, chunks, rows, target, did, born, out, faults>>
  BY DEF Tombstone
<1>4. tomb' \in [Receipts -> BOOLEAN]
  <2>1. PICK c \in BOOLEAN : tomb' = [tomb EXCEPT ![x] = @ \/ (c /\ target[x] = "there")]
    BY <1>2 DEF Tombstone
  <2> QED BY <1>1, <2>1 DEF StoreTyped
<1>5. StoreTyped' /\ ReceiptOK' /\ Grows /\ Told(x)'
  BY <1>1, <1>2, <1>3, <1>4 DEF StoreTyped, ReceiptOK, Grows, Told, RequestOK
<1>6. "mutate" \in Places /\ Goto(p, "mutate") /\ Keep
  BY DEF Places, Tombstone
<1>7. /\ ProcsTyped' /\ Apart(p) /\ pc'[p] = "mutate"
      /\ own'[p] = own[p] /\ at'[p] = at[p] /\ snap'[p] = snap[p]
  BY <1>1, <1>3, <1>6, ReceiptMoves
<1>8. RequestOK(p)'
  BY <1>1, <1>2, <1>3, <1>5, <1>7 DEF RequestOK
<1> QED BY <1>5, <1>7, <1>8 DEF ReceiptStep

\* The mutation, whole, torn or of a bundle.
LEMMA ReceiptMutate ==
    ASSUME ReceiptAssumption, NEW p \in Procs, ReceiptState, Mutate(p)
    PROVE  ReceiptStep(p)
<1> USE ReceiptNames
<1>1. /\ StoreTyped /\ ProcsTyped /\ ReceiptOK /\ RequestOK(p)
  BY DEF ReceiptState
<1>2. PICK x \in Receipts : x = at[p] /\ pc[p] = "mutate" /\ Kind[x] # "bundle"
  BY <1>1 DEF RequestOK, Mutate
<1>3. UNCHANGED <<rcpt, chunks, rows, tomb, born>> /\ Goto(p, "record") /\ Keep
  BY DEF Mutate
<1>4. PICK o \in Answers(Kind[x]) :
          /\ o \in {"unsynced", "partial"} =>
                faults < MaxFaults /\ target[x] \in {"there", "changed"}
          /\ out' = [out EXCEPT ![p] = IF o \in Refusals THEN "refused" ELSE o]
          /\ did' = [did EXCEPT ![x] = @ \/ o \notin Refusals]
          /\ target' = [target EXCEPT ![x] =
                CASE o = "done" -> "gone"
                  [] o = "unsynced" -> "removed"
                  [] o = "partial" /\ Kind[x] \in Direct -> "changed"
                  [] OTHER -> @]
          /\ faults' = IF o \in {"unsynced", "partial"} THEN faults + 1 ELSE faults
  BY <1>2 DEF Mutate
<1>5. o \in Refusals \cup {"done", "unsynced", "partial"}
  <2>1. Kind[x] \in {"recovery", "quarantine", "evidence", "restore", "owner", "purge"}
    BY <1>2 DEF ReceiptAssumption, Kinds
  <2> QED BY <2>1 DEF Answers, Refusals, delete_recovery, restore_quarantine,
        delete_quarantine, dispose_corrupt_evidence, purge_expired_jobs, delete_job
<1>6. PICK r \in Results : out' = [out EXCEPT ![p] = r]
  BY <1>4, <1>5 DEF Results
<1>7. PICK e \in Entries : /\ target' = [target EXCEPT ![x] = e]
                           /\ e = "changed" => target[x] = "changed" \/ Kind[x] \in Direct
  <2>1. target[x] \in Entries
    BY <1>1 DEF StoreTyped
  <2> QED BY <1>4, <2>1 DEF Entries
<1>8. did' \in [Receipts -> BOOLEAN] /\ \A y \in Receipts : did'[y] => did[y] \/ Told(y)
  <2>1. Told(x)
    BY <1>1, <1>2 DEF RequestOK
  <2> QED BY <1>1, <1>4, <2>1 DEF StoreTyped
<1>9. faults' \in 0..MaxFaults
  BY <1>1, <1>4 DEF StoreTyped, ReceiptAssumption
<1>10. StoreTyped'
  BY <1>1, <1>3, <1>7, <1>8, <1>9 DEF StoreTyped
<1>11. ReceiptOK' /\ Grows
  <2>1. \A y \in Receipts : target'[y] = "changed" => Kind[y] \notin {"owner", "purge"}
    BY <1>1, <1>7 DEF StoreTyped, ReceiptOK
  <2> QED BY <1>1, <1>3, <1>8, <2>1, ReceiptQuiet
<1>12. /\ ProcsTyped' /\ Apart(p) /\ pc'[p] = "record" /\ out'[p] = r
       /\ own'[p] = own[p] /\ at'[p] = x /\ snap'[p] = snap[p] /\ r # "none"
  <2>1. "record" \in Places /\ r # "none"
    BY DEF Places, Results
  <2> QED BY <1>1, <1>2, <1>3, <1>6, <2>1, ReceiptGoes
<1>13. RequestOK(p)'
  <2>1. Told(x)'
    BY <1>1, <1>2, <1>11 DEF RequestOK, Grows
  <2> QED BY <1>1, <1>2, <1>3, <1>12, <2>1 DEF RequestOK
<1> QED BY <1>10, <1>11, <1>12, <1>13 DEF ReceiptStep

LEMMA ReceiptTorn ==
    ASSUME ReceiptAssumption, NEW p \in Procs, ReceiptState, Torn(p)
    PROVE  ReceiptStep(p)
<1> USE ReceiptNames
<1>1. /\ StoreTyped /\ ProcsTyped /\ ReceiptOK /\ RequestOK(p)
  BY DEF ReceiptState
<1>2. PICK x \in Receipts : x = at[p] /\ pc[p] \in {"mutate", "recover"} /\ Kind[x] \in Direct
  BY <1>1 DEF RequestOK, Torn
<1>3. /\ UNCHANGED <<rcpt, chunks, rows, tomb, born>> /\ End(p)
      /\ target' = [target EXCEPT ![x] = "changed"] /\ did' = [did EXCEPT ![x] = TRUE]
      /\ faults' = faults + 1 /\ faults < MaxFaults
  BY <1>2 DEF Torn
<1>4. Told(x) /\ "changed" \in Entries
  BY <1>1, <1>2 DEF RequestOK, Entries
<1>5. StoreTyped'
  BY <1>1, <1>3, <1>4 DEF StoreTyped, ReceiptAssumption
<1>6. ReceiptOK' /\ Grows
  <2>1. \A y \in Receipts : target'[y] = "changed" => Kind[y] \notin {"owner", "purge"}
    BY <1>1, <1>2, <1>3 DEF StoreTyped, ReceiptOK
  <2>2. \A y \in Receipts : did'[y] => did[y] \/ Told(y)
    BY <1>1, <1>3, <1>4 DEF StoreTyped
  <2> QED BY <1>1, <1>3, <2>1, <2>2, ReceiptQuiet
<1> QED BY <1>1, <1>3, <1>5, <1>6, ReceiptEnds DEF ReceiptStep

LEMMA ReceiptCreateBundle ==
    ASSUME ReceiptAssumption, NEW p \in Procs, ReceiptState, CreateBundle(p)
    PROVE  ReceiptStep(p)
<1> USE ReceiptNames
<1>1. /\ StoreTyped /\ ProcsTyped /\ ReceiptOK /\ RequestOK(p)
  BY DEF ReceiptState
<1>2. PICK x \in Receipts : x = at[p] /\ pc[p] = "mutate" /\ Kind[x] = "bundle"
  BY <1>1 DEF RequestOK, CreateBundle
<1>3. UNCHANGED <<rcpt, chunks, rows, tomb, born, faults>> /\ Keep
  BY DEF CreateBundle
<1>4. Told(x) /\ "there" \in Entries
  BY <1>1, <1>2 DEF RequestOK, Entries
<1>5. PICK l \in {"bind", "record"}, o \in Results \cup {"none"} :
          /\ Goto(p, l) /\ out' = [out EXCEPT ![p] = o] /\ (l = "record" => o # "none")
  <2>1. out[p] \in Results \cup {"none"} /\ out = [out EXCEPT ![p] = out[p]]
    BY <1>1 DEF ProcsTyped
  <2>2. "refused" \in Results
    BY DEF Results
  <2> QED BY <2>1, <2>2 DEF CreateBundle
<1>6. \/ UNCHANGED <<target, did>>
      \/ target' = [target EXCEPT ![x] = "there"] /\ did' = [did EXCEPT ![x] = TRUE]
  BY <1>2 DEF CreateBundle
<1>7. StoreTyped'
  BY <1>1, <1>3, <1>4, <1>6 DEF StoreTyped
<1>8. ReceiptOK' /\ Grows
  <2>1. \A y \in Receipts : target'[y] = "changed" => Kind[y] \notin {"owner", "purge"}
    BY <1>1, <1>2, <1>6 DEF StoreTyped, ReceiptOK
  <2>2. \A y \in Receipts : did'[y] => did[y] \/ Told(y)
    BY <1>1, <1>4, <1>6 DEF StoreTyped
  <2> QED BY <1>1, <1>3, <2>1, <2>2, ReceiptQuiet
<1>9. /\ ProcsTyped' /\ Apart(p) /\ pc'[p] = l /\ out'[p] = o
      /\ own'[p] = own[p] /\ at'[p] = x /\ snap'[p] = snap[p]
  <2>1. l \in Places
    BY DEF Places
  <2> QED BY <1>1, <1>2, <1>3, <1>5, <2>1, ReceiptGoes
<1>10. RequestOK(p)'
  <2>1. Told(x)'
    BY <1>4, <1>8 DEF Grows
  <2> QED BY <1>1, <1>2, <1>3, <1>5, <1>9, <2>1 DEF RequestOK
<1> QED BY <1>7, <1>8, <1>9, <1>10 DEF ReceiptStep

\* The archive of a bundle: its evidence, the response, its removal.
LEMMA ReceiptBind ==
    ASSUME ReceiptAssumption, NEW p \in Procs, ReceiptState, Bind(p)
    PROVE  ReceiptStep(p)
<1> USE ReceiptNames
<1>1. /\ StoreTyped /\ ProcsTyped /\ ReceiptOK /\ RequestOK(p)
  BY DEF ReceiptState
<1>2. PICK x \in Receipts : x = at[p] /\ pc[p] = "bind"
  BY <1>1 DEF RequestOK, Bind
<1>3. UNCHANGED <<chunks, rows, target, did, tomb, born, faults>>
  BY DEF Bind
<1>4. CASE End(p) /\ UNCHANGED rcpt
  <2>1. StoreTyped' /\ ReceiptOK' /\ Grows
    BY <1>1, <1>3, <1>4 DEF StoreTyped, ReceiptOK, Grows, Told
  <2> QED BY <1>1, <1>4, <2>1, ReceiptEnds DEF ReceiptStep
<1>5. CASE /\ UNCHANGED rcpt \/ (AttachEvidence(x) /\ Whole(x))
           /\ Goto(p, IF own[p] = x THEN "serve" ELSE "wipe")
           /\ Keep /\ UNCHANGED out
  <2>1. /\ rcpt' \in [Receipts -> Headers \cup {Blank}] /\ ReceiptOK' /\ Grows
    <3>1. CASE UNCHANGED rcpt
      BY <1>1, <1>3, <3>1 DEF StoreTyped, ReceiptOK, Grows, Told
    <3>2. CASE AttachEvidence(x) /\ Whole(x)
      <4> DEFINE h == [rcpt[x] EXCEPT !.evid = TRUE]
      <4>1. rcpt[x] \in Headers
        BY <1>1, <3>2 DEF StoreTyped, Whole, Pending
      <4>2. h \in Headers /\ h.phase = rcpt[x].phase /\ h.res = rcpt[x].res /\ Put(x, h)
        BY <3>2, <4>1, HeaderFacts DEF AttachEvidence
      <4> HIDE DEF h
      <4>3. /\ h.phase \in {0, 1} => h.res = "none"
            /\ h.phase \in {2, 3} => h.res # "none"
            /\ h.phase = 3 => rows[x].intent /\ rows[x].result # "none"
            /\ \A y \in Receipts : target'[y] = "changed" => Kind[y] \notin {"owner", "purge"}
        BY <1>1, <1>3, <4>2 DEF ReceiptOK
      <4> QED BY <1>1, <1>3, <4>2, <4>3, ReceiptPuts
    <3> QED BY <1>5, <3>1, <3>2
  <2>2. StoreTyped' /\ Told(x)'
    BY <1>1, <1>2, <1>3, <2>1 DEF StoreTyped, RequestOK, Grows
  <2>3. PICK l \in {"serve", "wipe"} : /\ Goto(p, l) /\ l \in Places
                                       /\ l = "serve" <=> own[p] = x
    BY <1>5 DEF Places
  <2>4. /\ ProcsTyped' /\ Apart(p) /\ pc'[p] = l
        /\ own'[p] = own[p] /\ at'[p] = at[p] /\ snap'[p] = snap[p]
    BY <1>1, <1>5, <2>3, ReceiptMoves
  <2>5. RequestOK(p)'
    BY <1>1, <1>2, <1>3, <2>2, <2>3, <2>4 DEF RequestOK
  <2> QED BY <2>1, <2>2, <2>4, <2>5 DEF ReceiptStep
<1>6. \/ End(p) /\ UNCHANGED rcpt
      \/ /\ UNCHANGED rcpt \/ (AttachEvidence(x) /\ Whole(x))
         /\ Goto(p, IF own[p] = x THEN "serve" ELSE "wipe")
         /\ Keep /\ UNCHANGED out
  <2> DEFINE fails == \/ ~snap[p].evid /\ (target[x] # "there" \/ ~Whole(x))
                      \/ ~snap[p].evid /\ ~rcpt[x].evid /\ rcpt[x].phase = 3
                      \/ snap[p].evid /\ ~SameEntry(x)
  <2>1. CASE fails
    BY <1>2, <2>1 DEF Bind
  <2>2. CASE ~fails
    BY <1>2, <2>2 DEF Bind
  <2> QED BY <2>1, <2>2
<1> QED BY <1>4, <1>5, <1>6

LEMMA ReceiptServe ==
    ASSUME ReceiptAssumption, NEW p \in Procs, ReceiptState, Serve(p)
    PROVE  ReceiptStep(p)
<1> USE ReceiptNames
<1>1. /\ StoreTyped /\ ProcsTyped /\ ReceiptOK /\ RequestOK(p)
  BY DEF ReceiptState
<1>2. PICK x \in Receipts : x = at[p] /\ x = own[p] /\ pc[p] = "serve"
  BY <1>1 DEF RequestOK, Serve
<1>3. UNCHANGED <<rcpt, chunks, rows, target, did, tomb, born, faults>>
  BY DEF Serve, durable
<1>4. StoreTyped' /\ ReceiptOK' /\ Grows
  BY <1>1, <1>3 DEF StoreTyped, ReceiptOK, Grows, Told
<1>5. CASE End(p)
  BY <1>1, <1>4, <1>5, ReceiptEnds DEF ReceiptStep
<1>6. CASE /\ Pending(x) /\ BundleReplays(rcpt[x])
           /\ snap' = [snap EXCEPT ![p] = rcpt[x]]
           /\ own' = [own EXCEPT ![p] = None]
           /\ Goto(p, IF rcpt[x].phase = 1 THEN "rebegin" ELSE "bind")
           /\ UNCHANGED <<at, todo, out>>
  <2>1. rcpt[x] \in Headers /\ rcpt[x].phase \in {1, 2, 3}
    BY <1>1, <1>6 DEF StoreTyped, Pending, BundleReplays
  <2>2. PICK l \in {"rebegin", "bind"} : Goto(p, l) /\ l \in Places
    BY <1>6 DEF Places
  <2>3. ProcsTyped' /\ Apart(p)
    BY <1>1, <1>6, <2>1, <2>2 DEF ProcsTyped, Apart, Goto
  <2>4. /\ pc'[p] = l /\ at'[p] = x /\ snap'[p] = rcpt[x]
    BY <1>1, <1>2, <1>6, <2>2 DEF ProcsTyped, Goto
  <2>5. Kind[x] = "bundle"
    BY <1>1, <1>2 DEF RequestOK
  <2>6. Told(x)'
    BY <1>1, <1>2, <1>4 DEF RequestOK, Grows
  <2>7. RequestOK(p)'
    BY <1>1, <1>3, <2>1, <2>4, <2>5, <2>6 DEF RequestOK, ReceiptOK
  <2> QED BY <1>4, <2>3, <2>7 DEF ReceiptStep
<1> QED BY <1>2, <1>5, <1>6 DEF Serve

LEMMA ReceiptWipe ==
    ASSUME ReceiptAssumption, NEW p \in Procs, ReceiptState, Wipe(p)
    PROVE  ReceiptStep(p)
<1> USE ReceiptNames
<1>1. /\ StoreTyped /\ ProcsTyped /\ ReceiptOK /\ RequestOK(p)
  BY DEF ReceiptState
<1>2. PICK x \in Receipts : x = at[p] /\ pc[p] = "wipe"
  BY <1>1 DEF RequestOK, Wipe
<1>3. UNCHANGED <<rcpt, chunks, rows, did, tomb, born>>
  BY DEF Wipe
<1>4. CASE ~SameEntry(x)
  <2>1. End(p) /\ UNCHANGED <<target, faults>>
    BY <1>2, <1>4 DEF Wipe
  <2>2. StoreTyped' /\ ReceiptOK' /\ Grows
    BY <1>1, <1>3, <2>1 DEF StoreTyped, ReceiptOK, Grows, Told
  <2> QED BY <1>1, <2>1, <2>2, ReceiptEnds DEF ReceiptStep
<1>5. CASE SameEntry(x)
  <2>1. PICK o \in {"done", "unsynced", "partial"} :
                  /\ o # "done" => faults < MaxFaults
                  /\ target' = [target EXCEPT ![x] = IF o = "done" THEN "gone"
                                    ELSE IF o = "unsynced" /\ @ = "there" THEN "removed" ELSE @]
                  /\ faults' = IF o = "done" THEN faults ELSE faults + 1
                  /\ out' = [out EXCEPT ![p] = o]
    BY <1>2, <1>5 DEF Wipe
  <2>2. PICK e \in {"gone", "removed", target[x]} : target' = [target EXCEPT ![x] = e]
    BY <1>1, <2>1 DEF StoreTyped
  <2>3. e \in Entries /\ faults' \in 0..MaxFaults
    BY <1>1, <2>1, <2>2 DEF StoreTyped, Entries, ReceiptAssumption
  <2>4. StoreTyped'
    BY <1>1, <1>3, <2>2, <2>3 DEF StoreTyped
  <2>5. ReceiptOK' /\ Grows
    <3>1. \A y \in Receipts : target'[y] = "changed" => target[y] = "changed"
      BY <1>1, <2>2 DEF StoreTyped
    <3>2. \A y \in Receipts : target'[y] = "changed" => Kind[y] \notin {"owner", "purge"}
      BY <1>1, <3>1 DEF ReceiptOK
    <3> QED BY <1>1, <1>3, <3>2, ReceiptQuiet
  <2>6. PICK l \in {"ack", "record"} : Goto(p, l) /\ Keep /\ l \in Places
    BY <1>2, <1>5 DEF Wipe, Places
  <2>7. o \in Results /\ o # "none"
    BY DEF Results
  <2>8. /\ ProcsTyped' /\ Apart(p) /\ pc'[p] = l /\ out'[p] = o
        /\ own'[p] = own[p] /\ at'[p] = x /\ snap'[p] = snap[p]
    BY <1>1, <1>2, <2>1, <2>6, <2>7, ReceiptGoes
  <2>9. Told(x)'
    BY <1>1, <1>2, <2>5 DEF Grows, RequestOK
  <2>10. RequestOK(p)'
    BY <1>1, <1>2, <1>3, <2>7, <2>8, <2>9 DEF RequestOK
  <2> QED BY <2>4, <2>5, <2>8, <2>10 DEF ReceiptStep
<1> QED BY <1>4, <1>5

\* The result goes to disk, and its rows to the audit table.
LEMMA ReceiptRecord ==
    ASSUME ReceiptAssumption, NEW p \in Procs, ReceiptState, Record(p)
    PROVE  ReceiptStep(p)
<1> USE ReceiptNames
<1>1. /\ StoreTyped /\ ProcsTyped /\ ReceiptOK /\ RequestOK(p)
  BY DEF ReceiptState
<1>2. PICK x \in Receipts : x = at[p] /\ pc[p] = "record"
  BY <1>1 DEF RequestOK, Record
<1>3. UNCHANGED <<rows, target, did, tomb, born, faults>>
  BY DEF Record
<1>4. CASE End(p) /\ UNCHANGED <<rcpt, chunks>>
  <2>1. StoreTyped' /\ ReceiptOK' /\ Grows
    BY <1>1, <1>3, <1>4 DEF StoreTyped, ReceiptOK, Grows, Told
  <2> QED BY <1>1, <1>4, <2>1, ReceiptEnds DEF ReceiptStep
<1>5. CASE /\ Whole(x)
           /\ IF rcpt[x].phase = 3 THEN UNCHANGED <<rcpt, chunks>>
              ELSE /\ Put(x, [rcpt[x] EXCEPT !.phase = 2, !.res = out[p]])
                   /\ chunks' = [chunks EXCEPT ![x] = @ \/ x \in Chunked]
           /\ IF Kind[x] = "bundle" /\ ~BundleComplete(out[p]) THEN End(p)
              ELSE /\ Goto(p, IF Kind[x] = "bundle" /\ snap[p] # NoReceipt /\ snap[p].phase # 0
                                 THEN "late_intent" ELSE "audit")
                   /\ Keep /\ UNCHANGED out
  <2>1. rcpt[x] \in Headers
    BY <1>1, <1>5 DEF StoreTyped, Whole, Pending
  <2>2. out[p] \in Results /\ out[p] # "none"
    BY <1>1, <1>2 DEF RequestOK, ProcsTyped
  <2>3. /\ rcpt' \in [Receipts -> Headers \cup {Blank}] /\ ReceiptOK' /\ Grows
        /\ chunks' \in [Receipts -> BOOLEAN]
    <3>1. CASE rcpt[x].phase = 3
      BY <1>1, <1>3, <1>5, <3>1 DEF StoreTyped, ReceiptOK, Grows, Told
    <3>2. CASE rcpt[x].phase # 3
      <4> DEFINE h == [rcpt[x] EXCEPT !.phase = 2, !.res = out[p]]
      <4>1. h \in Headers /\ h.phase = 2 /\ h.res = out[p] /\ Put(x, h)
        BY <1>5, <2>1, <2>2, <3>2, HeaderFacts
      <4> HIDE DEF h
      <4>2. /\ h.phase \in {0, 1} => h.res = "none"
            /\ h.phase \in {2, 3} => h.res # "none"
            /\ h.phase = 3 => rows[x].intent /\ rows[x].result # "none"
            /\ \A y \in Receipts : target'[y] = "changed" => Kind[y] \notin {"owner", "purge"}
        BY <1>1, <1>3, <2>2, <4>1 DEF ReceiptOK
      <4>3. chunks' \in [Receipts -> BOOLEAN]
        BY <1>1, <1>5, <3>2 DEF StoreTyped
      <4> QED BY <1>1, <1>3, <4>1, <4>2, <4>3, ReceiptPuts
    <3> QED BY <3>1, <3>2
  <2>4. StoreTyped' /\ Told(x)'
    BY <1>1, <1>2, <1>3, <2>3 DEF StoreTyped, RequestOK, Grows
  <2>5. CASE End(p)
    BY <1>1, <2>3, <2>4, <2>5, ReceiptEnds DEF ReceiptStep
  <2>6. CASE ~End(p)
    <3>1. PICK l \in {"late_intent", "audit"} :
             /\ Goto(p, l) /\ Keep /\ UNCHANGED out /\ l \in Places
             /\ l = "audit" => ~(Kind[x] = "bundle" /\ snap[p] # Blank /\ snap[p].phase # 0)
      BY <1>5, <2>6 DEF Places
    <3>2. /\ ProcsTyped' /\ Apart(p) /\ pc'[p] = l /\ out'[p] = out[p]
          /\ own'[p] = own[p] /\ at'[p] = at[p] /\ snap'[p] = snap[p]
      BY <1>1, <3>1, ReceiptMoves
    <3>3. l = "audit" => rows[x].intent
      BY <1>1, <1>2, <3>1 DEF RequestOK, Blank
    <3>4. RequestOK(p)'
      BY <1>1, <1>2, <1>3, <2>2, <2>4, <3>2, <3>3 DEF RequestOK
    <3> QED BY <2>3, <2>4, <3>2, <3>4 DEF ReceiptStep
  <2> QED BY <2>5, <2>6
<1> QED BY <1>2, <1>4, <1>5 DEF Record

LEMMA ReceiptRecordChunksOnly ==
    ASSUME ReceiptAssumption, NEW p \in Procs, ReceiptState,
           RecordChunksOnly(p)
    PROVE  ReceiptStep(p)
<1> USE ReceiptNames
<1>1. /\ StoreTyped /\ ProcsTyped /\ ReceiptOK /\ RequestOK(p)
  BY DEF ReceiptState
<1>2. /\ UNCHANGED <<rcpt, rows, target, did, tomb, born>> /\ End(p)
      /\ chunks' = [chunks EXCEPT ![at[p]] = TRUE]
      /\ faults' = faults + 1 /\ faults < MaxFaults
  BY DEF RecordChunksOnly
<1>3. chunks' \in [Receipts -> BOOLEAN] /\ faults' \in 0..MaxFaults
  <2>1. chunks' \in [Receipts -> BOOLEAN]
    BY <1>1, <1>2 DEF StoreTyped
  <2>2. faults \in 0..MaxFaults /\ MaxFaults \in Nat
    BY <1>1 DEF StoreTyped, ReceiptAssumption
  <2> QED BY <1>2, <2>1, <2>2
<1>4. StoreTyped' /\ ReceiptOK' /\ Grows
  BY <1>1, <1>2, <1>3 DEF StoreTyped, ReceiptOK, Grows, Told
<1> QED BY <1>1, <1>2, <1>4, ReceiptEnds DEF ReceiptStep

LEMMA ReceiptAudit ==
    ASSUME ReceiptAssumption, NEW p \in Procs, ReceiptState, Audit(p)
    PROVE  ReceiptStep(p)
<1> USE ReceiptNames
<1>1. /\ StoreTyped /\ ProcsTyped /\ ReceiptOK /\ RequestOK(p)
  BY DEF ReceiptState
<1>2. PICK x \in Receipts : x = at[p] /\ pc[p] = "audit"
  BY <1>1 DEF RequestOK, Audit
<1> DEFINE v == [rows[x] EXCEPT !.result = ResultRow(rows[x].result, out[p])]
<1>3. rows' = [rows EXCEPT ![x] = v]
  BY <1>1, <1>2 DEF Audit, StoreTyped
<1>4. v \in Audits /\ v.intent = rows[x].intent /\ v.result # "none"
  <2>1. /\ out[p] \in Results \cup {"none"} /\ out[p] # "none" /\ rows[x] \in Audits
    BY <1>1, <1>2 DEF RequestOK, ProcsTyped, StoreTyped
  <2> QED BY <2>1 DEF Audits, ResultRow
<1>5. /\ UNCHANGED <<rcpt, chunks, target, did, tomb, born, faults, out>>
      /\ Goto(p, "mark") /\ Keep
  BY DEF Audit
<1> HIDE DEF v
<1>6. /\ rows' \in [Receipts -> Audits] /\ rows'[x] = v /\ ReceiptOK' /\ Grows
  BY <1>1, <1>2, <1>3, <1>4, <1>5, ReceiptRowed
<1>7. StoreTyped'
  BY <1>1, <1>5, <1>6 DEF StoreTyped
<1>8. /\ ProcsTyped' /\ Apart(p) /\ pc'[p] = "mark" /\ out'[p] = out[p]
      /\ own'[p] = own[p] /\ at'[p] = x /\ snap'[p] = snap[p]
  <2>1. "mark" \in Places
    BY DEF Places
  <2> QED BY <1>1, <1>2, <1>5, <2>1, ReceiptMoves
<1>9. Told(x)'
  BY <1>1, <1>2, <1>6 DEF RequestOK, Grows
<1>10. RequestOK(p)'
  BY <1>1, <1>2, <1>4, <1>6, <1>8, <1>9 DEF RequestOK
<1> QED BY <1>6, <1>7, <1>8, <1>10 DEF ReceiptStep

LEMMA ReceiptMark ==
    ASSUME ReceiptAssumption, NEW p \in Procs, ReceiptState, Mark(p)
    PROVE  ReceiptStep(p)
<1> USE ReceiptNames
<1>1. /\ StoreTyped /\ ProcsTyped /\ ReceiptOK /\ RequestOK(p)
  BY DEF ReceiptState
<1>2. PICK x \in Receipts : x = at[p] /\ pc[p] = "mark"
  BY <1>1 DEF RequestOK, Mark
<1>3. UNCHANGED <<chunks, rows, target, did, tomb, born, faults>>
  BY DEF Mark
<1>4. CASE End(p) /\ UNCHANGED rcpt
  <2>1. StoreTyped' /\ ReceiptOK' /\ Grows
    BY <1>1, <1>3, <1>4 DEF StoreTyped, ReceiptOK, Grows, Told
  <2> QED BY <1>1, <1>4, <2>1, ReceiptEnds DEF ReceiptStep
<1>5. CASE /\ Whole(x) /\ rcpt[x].phase >= 2
           /\ Put(x, [rcpt[x] EXCEPT !.phase = 3])
           /\ \/ End(p)
              \/ Goto(p, "ack") /\ Keep /\ UNCHANGED out
  <2> DEFINE h == [rcpt[x] EXCEPT !.phase = 3]
  <2>1. rcpt[x] \in Headers /\ 3 \in 0..3
    BY <1>1, <1>5 DEF StoreTyped, Whole, Pending
  <2>2. h \in Headers /\ h.phase = 3 /\ h.res = rcpt[x].res /\ Put(x, h)
    <3>1. h \in Headers /\ h.phase = 3 /\ h.res = rcpt[x].res
      BY <2>1 DEF Headers
    <3> QED BY <1>5, <3>1
  <2>3. rcpt[x].phase \in {2, 3}
    BY <1>5, <2>1 DEF Headers
  <2> HIDE DEF h
  <2>4. /\ rcpt' \in [Receipts -> Headers \cup {Blank}] /\ ReceiptOK' /\ Grows /\ Told(x)'
    <3>1. /\ h.phase \in {0, 1} => h.res = "none"
          /\ h.phase \in {2, 3} => h.res # "none"
          /\ h.phase = 3 => rows[x].intent /\ rows[x].result # "none"
          /\ \A y \in Receipts : target'[y] = "changed" => Kind[y] \notin {"owner", "purge"}
      BY <1>1, <1>2, <1>3, <2>2, <2>3 DEF ReceiptOK, RequestOK
    <3> QED BY <1>1, <1>3, <2>2, <3>1, ReceiptPuts
  <2>5. StoreTyped'
    BY <1>1, <1>3, <2>4 DEF StoreTyped
  <2>6. CASE End(p)
    BY <1>1, <2>4, <2>5, <2>6, ReceiptEnds DEF ReceiptStep
  <2>7. CASE Goto(p, "ack") /\ Keep /\ UNCHANGED out
    <3>1. "ack" \in Places
      BY DEF Places
    <3>2. /\ ProcsTyped' /\ Apart(p) /\ pc'[p] = "ack"
          /\ own'[p] = own[p] /\ at'[p] = at[p] /\ snap'[p] = snap[p]
      BY <1>1, <2>7, <3>1, ReceiptMoves
    <3>3. RequestOK(p)'
      BY <1>1, <1>2, <1>3, <2>4, <3>2 DEF RequestOK
    <3> QED BY <2>4, <2>5, <3>2, <3>3 DEF ReceiptStep
  <2> QED BY <1>5, <2>6, <2>7
<1>6. ~Whole(x) \/ rcpt[x].phase < 2 \/ (Whole(x) /\ rcpt[x].phase >= 2)
  <2>1. Whole(x) => rcpt[x] \in Headers
    BY <1>1 DEF StoreTyped, Whole, Pending
  <2>2. Whole(x) => rcpt[x].phase \in 0..3
    BY <2>1 DEF Headers
  <2> QED BY <2>2
<1> QED BY <1>2, <1>4, <1>5, <1>6 DEF Mark

\* A receipt goes, or its removal stops on the way.
LEMMA ReceiptAck ==
    ASSUME ReceiptAssumption, NEW p \in Procs, ReceiptState, Ack(p)
    PROVE  ReceiptStep(p)
<1> USE ReceiptNames
<1>1. /\ StoreTyped /\ ProcsTyped /\ ReceiptOK /\ RequestOK(p)
  BY DEF ReceiptState
<1>2. PICK x \in Receipts : x = at[p] /\ pc[p] = "ack"
  BY <1>1 DEF RequestOK, Ack
<1>3. UNCHANGED <<rows, target, did, tomb, born, faults>>
  BY DEF Ack
<1>4. CASE End(p) /\ UNCHANGED <<rcpt, chunks>>
  <2>1. StoreTyped' /\ ReceiptOK' /\ Grows
    BY <1>1, <1>3, <1>4 DEF StoreTyped, ReceiptOK, Grows, Told
  <2> QED BY <1>1, <1>4, <2>1, ReceiptEnds DEF ReceiptStep
<1>5. CASE /\ rcpt[x].phase = 3 /\ Put(x, Blank)
           /\ chunks' = [chunks EXCEPT ![x] = @ /\ x \notin Chunked]
           /\ AfterAck(p)
  <2>1. /\ rcpt' \in [Receipts -> Headers \cup {Blank}] /\ rcpt'[x] = Blank
        /\ \A y \in Receipts \ {x} : rcpt'[y] = rcpt[y]
    BY <1>1, <1>5 DEF StoreTyped, Put
  <2>2. StoreTyped'
    BY <1>1, <1>3, <1>5, <2>1 DEF StoreTyped
  <2>3. rows[x].intent /\ rows[x].result # "none" /\ Blank.phase = 9
    BY <1>1, <1>5 DEF ReceiptOK, Blank
  <2>4. ReceiptOK' /\ Grows
    BY <1>1, <1>3, <2>1, <2>3 DEF ReceiptOK, Grows, Told
  <2>5. CASE End(p)
    BY <1>1, <2>2, <2>4, <2>5, ReceiptEnds DEF ReceiptStep
  <2>6. CASE /\ todo' = [todo EXCEPT ![p] = @ \ {at[p]}] /\ Goto(p, "scan")
             /\ at' = [at EXCEPT ![p] = None] /\ snap' = [snap EXCEPT ![p] = NoReceipt]
             /\ out' = [out EXCEPT ![p] = None] /\ UNCHANGED own
    <3>1. "scan" \in Places
      BY DEF Places
    <3>2. ProcsTyped' /\ Apart(p)
      BY <1>1, <2>6, <3>1 DEF ProcsTyped, Apart, Goto
    <3>3. pc'[p] = "scan" /\ snap'[p] = Blank
      BY <1>1, <2>6 DEF ProcsTyped, Goto
    <3>4. RequestOK(p)'
      BY <2>3, <3>3 DEF RequestOK
    <3> QED BY <2>2, <2>4, <3>2, <3>4 DEF ReceiptStep
  <2> QED BY <1>5, <2>5, <2>6 DEF AfterAck
<1> QED BY <1>2, <1>4, <1>5 DEF Ack

LEMMA ReceiptAckStops ==
    ASSUME ReceiptAssumption, NEW p \in Procs, ReceiptState, AckStops(p)
    PROVE  ReceiptStep(p)
<1> USE ReceiptNames
<1>1. /\ StoreTyped /\ ProcsTyped /\ ReceiptOK /\ RequestOK(p)
  BY DEF ReceiptState
<1>2. PICK x \in Receipts : x = at[p] /\ pc[p] = "ack"
  BY <1>1 DEF RequestOK, AckStops
<1>3. /\ UNCHANGED <<rows, target, did, tomb, born>> /\ End(p)
      /\ faults' = faults + 1 /\ faults < MaxFaults
      /\ rcpt[x] # Blank /\ rcpt[x].phase = 3
  BY <1>2 DEF AckStops, Pending
<1>4. PICK c \in {"chunks", "header"}, b \in BOOLEAN :
         /\ Put(x, [rcpt[x] EXCEPT !.clean = c])
         /\ chunks' = chunks \/ chunks' = [chunks EXCEPT ![x] = FALSE]
  BY <1>2 DEF AckStops
<1>5. rcpt[x] \in Headers
  BY <1>1, <1>3 DEF StoreTyped
<1> DEFINE h == [rcpt[x] EXCEPT !.clean = c]
<1>6. h \in Headers /\ h.phase = 3 /\ h.res = rcpt[x].res
  BY <1>3, <1>5, HeaderFacts
<1>7. Put(x, h)
  BY <1>4
<1> HIDE DEF h
<1>8. /\ rcpt' \in [Receipts -> Headers \cup {Blank}] /\ ReceiptOK' /\ Grows
  <2>1. /\ h.phase \in {0, 1} => h.res = "none"
        /\ h.phase \in {2, 3} => h.res # "none"
        /\ h.phase = 3 => rows[x].intent /\ rows[x].result # "none"
        /\ \A y \in Receipts : target'[y] = "changed" => Kind[y] \notin {"owner", "purge"}
    BY <1>1, <1>3, <1>6 DEF ReceiptOK
  <2> QED BY <1>1, <1>3, <1>6, <1>7, <2>1, ReceiptPuts
<1>9. chunks' \in [Receipts -> BOOLEAN] /\ faults' \in 0..MaxFaults
  <2>1. chunks' \in [Receipts -> BOOLEAN]
    BY <1>1, <1>4 DEF StoreTyped
  <2>2. faults \in 0..MaxFaults /\ MaxFaults \in Nat
    BY <1>1 DEF StoreTyped, ReceiptAssumption
  <2> QED BY <1>3, <2>1, <2>2
<1>10. StoreTyped'
  BY <1>1, <1>3, <1>8, <1>9 DEF StoreTyped
<1> QED BY <1>1, <1>3, <1>8, <1>10, ReceiptEnds DEF ReceiptStep

\* A request arrives, an administrator replays, a request breaks off.
LEMMA ReceiptArrives ==
    ASSUME ReceiptAssumption, NEW p \in Procs, ReceiptState,
           Fault(p) \/ \E x \in Receipts : Call(p, x) \/ Replay(p, x)
    PROVE  ReceiptStep(p)
<1> USE ReceiptNames
<1>1. /\ StoreTyped /\ ProcsTyped /\ ReceiptOK /\ RequestOK(p)
  BY DEF ReceiptState
<1>2. "scan" \in Places /\ Blank.phase = 9
  BY DEF Places, Blank
<1>3. CASE Fault(p)
  <2>1. faults' \in 0..MaxFaults
    BY <1>1, <1>3 DEF StoreTyped, Fault, ReceiptAssumption
  <2>2. StoreTyped' /\ ReceiptOK' /\ Grows /\ End(p)
    BY <1>1, <1>3, <2>1 DEF Fault, durable, StoreTyped, ReceiptOK, Grows, Told
  <2> QED BY <1>1, <2>2, ReceiptEnds DEF ReceiptStep
<1>4. ASSUME NEW x \in Receipts, Call(p, x)
      PROVE  ReceiptStep(p)
  <2>1. StoreTyped' /\ ReceiptOK' /\ Grows
    BY <1>1, <1>4 DEF Call, durable, StoreTyped, ReceiptOK, Grows, Told
  <2>2. Listed \in SUBSET Receipts
    BY DEF Listed
  <2>3. ProcsTyped' /\ Apart(p)
    BY <1>1, <1>2, <1>4, <2>2 DEF Call, Goto, ProcsTyped, Apart
  <2>4. pc'[p] = "scan" /\ snap'[p] = snap[p] /\ pc[p] = "idle"
    BY <1>1, <1>4 DEF Call, Goto, ProcsTyped
  <2>5. RequestOK(p)'
    BY <1>1, <1>2, <2>4 DEF RequestOK
  <2> QED BY <2>1, <2>3, <2>5 DEF ReceiptStep
<1>5. ASSUME NEW x \in Receipts, Replay(p, x)
      PROVE  ReceiptStep(p)
  <2>1. StoreTyped' /\ ReceiptOK' /\ Grows
    BY <1>1, <1>5 DEF Replay, durable, StoreTyped, ReceiptOK, Grows, Told
  <2>2. ProcsTyped' /\ Apart(p)
    BY <1>1, <1>2, <1>5 DEF Replay, Goto, ProcsTyped, Apart
  <2>3. pc'[p] = "scan" /\ snap'[p] = snap[p] /\ pc[p] = "idle"
    BY <1>1, <1>5 DEF Replay, Goto, ProcsTyped
  <2>4. RequestOK(p)'
    BY <1>1, <1>2, <2>3 DEF RequestOK
  <2> QED BY <2>1, <2>2, <2>4 DEF ReceiptStep
<1> QED BY <1>3, <1>4, <1>5

\* What no process does: a crash, and other operations of the store.
LEMMA ReceiptCrash ==
    ASSUME ReceiptAssumption, ReceiptState, Crash
    PROVE  ReceiptState' /\ Grows
<1> USE ReceiptNames
<1>1. /\ StoreTyped /\ ProcsTyped /\ ReceiptOK
  BY DEF ReceiptState
<1>2. /\ UNCHANGED <<rcpt, chunks, rows, did, tomb, born>>
      /\ faults' = faults + 1 /\ faults < MaxFaults
  BY DEF Crash
<1>3. faults' \in 0..MaxFaults
  BY <1>1, <1>2 DEF StoreTyped, ReceiptAssumption
<1>4. PICK back \in SUBSET {x \in Receipts : target[x] = "removed"} :
          target' = [x \in Receipts |-> IF x \in back THEN "there" ELSE target[x]]
  BY DEF Crash
<1>5. "there" \in Entries /\ "idle" \in Places /\ Blank.phase = 9
  BY DEF Entries, Places, Blank
<1>6. target' \in [Receipts -> Entries]
  BY <1>1, <1>4, <1>5 DEF StoreTyped
<1>7. StoreTyped'
  BY <1>1, <1>2, <1>3, <1>6 DEF StoreTyped
<1>8. ReceiptOK' /\ Grows
  BY <1>1, <1>2, <1>4 DEF ReceiptOK, Grows, Told
<1>9. ProcsTyped'
  BY <1>5 DEF Crash, ProcsTyped
<1>10. \A p \in Procs : pc'[p] = "idle" /\ snap'[p] = Blank
  BY DEF Crash
<1>11. \A p \in Procs : RequestOK(p)'
  BY <1>5, <1>10 DEF RequestOK
<1> QED BY <1>7, <1>8, <1>9, <1>11 DEF ReceiptState

LEMMA ReceiptOutside ==
    ASSUME ReceiptAssumption, ReceiptState, NEW x \in Receipts,
           Vanish(x) \/ Change(x)
    PROVE  ReceiptState' /\ Grows
<1> USE ReceiptNames
<1>1. /\ StoreTyped /\ ProcsTyped /\ ReceiptOK
  BY DEF ReceiptState
<1>2. /\ UNCHANGED <<rcpt, chunks, rows, did, tomb, born, pc, own, at, todo, snap, out>>
      /\ Kind[x] \notin {"owner", "purge"}
      /\ target' = [target EXCEPT ![x] = "gone"] \/ target' = [target EXCEPT ![x] = "changed"]
  BY DEF Vanish, Change
<1>3. faults' \in 0..MaxFaults
  BY <1>1 DEF Vanish, Change, StoreTyped, ReceiptAssumption
<1>4. target' \in [Receipts -> Entries]
  BY <1>1, <1>2 DEF StoreTyped, Entries
<1>5. StoreTyped'
  BY <1>1, <1>2, <1>3, <1>4 DEF StoreTyped
<1>6. \A y \in Receipts : target'[y] = "changed" => Kind[y] \notin {"owner", "purge"}
  BY <1>1, <1>2 DEF StoreTyped, ReceiptOK
<1>7. ReceiptOK' /\ Grows
  BY <1>1, <1>2, <1>6, ReceiptQuiet
<1>8. ProcsTyped'
  BY <1>1, <1>2 DEF ProcsTyped
<1>9. \A p \in Procs : RequestOK(p)'
  BY <1>1, <1>2, <1>7, ReceiptRests DEF ReceiptState
<1> QED BY <1>5, <1>7, <1>8, <1>9 DEF ReceiptState

\* A step of any kind.
LEMMA ReceiptStays ==
    ASSUME NEW p \in Procs, ReceiptState, ReceiptStep(p)
    PROVE  ReceiptState' /\ Grows
<1>1. ASSUME NEW q \in Procs
      PROVE  RequestOK(q)'
  BY ReceiptRests DEF ReceiptState, ReceiptStep, Apart
<1> QED BY <1>1 DEF ReceiptState, ReceiptStep

LEMMA ReceiptAny ==
    ASSUME ReceiptAssumption, NEW p \in Procs, ReceiptState,
           \/ Step(p) \/ Fault(p)
           \/ \E x \in Receipts : Call(p, x) \/ Replay(p, x)
    PROVE  ReceiptStep(p)
BY ReceiptScan, ReceiptReplayIntent, ReceiptRecover, ReceiptConfirm, ReceiptPrepare,
   ReceiptIntent, ReceiptBegin, ReceiptTombstone,
   ReceiptMutate, ReceiptTorn, ReceiptCreateBundle, ReceiptBind, ReceiptServe, ReceiptWipe,
   ReceiptRecord, ReceiptRecordChunksOnly,
   ReceiptAudit, ReceiptMark, ReceiptAck, ReceiptAckStops, ReceiptArrives DEF Step

LEMMA ReceiptNext ==
    ASSUME ReceiptAssumption, ReceiptState, [Next]_vars
    PROVE  ReceiptState' /\ Grows
<1>1. CASE UNCHANGED vars
  BY <1>1 DEF vars, ReceiptState, StoreTyped, ProcsTyped, ReceiptOK, RequestOK, Told, Grows
<1>2. CASE Crash
  BY <1>2, ReceiptCrash
<1>3. ASSUME NEW x \in Receipts, Vanish(x) \/ Change(x)
      PROVE  ReceiptState' /\ Grows
  BY <1>3, ReceiptOutside
<1>4. ASSUME NEW p \in Procs, \/ Step(p) \/ Fault(p)
                           \/ \E x \in Receipts : Call(p, x) \/ Replay(p, x)
      PROVE  ReceiptState' /\ Grows
  BY <1>4, ReceiptAny, ReceiptStays
<1> QED BY <1>1, <1>2, <1>3, <1>4 DEF Next

LEMMA ReceiptInit ==
    ASSUME ReceiptAssumption, Init
    PROVE  ReceiptState
<1> USE ReceiptNames
<1>1. /\ "idle" \in Places /\ Blank.phase = 9 /\ "there" \in Entries /\ "absent" \in Entries
      /\ [intent |-> FALSE, result |-> "none"] \in Audits /\ 0 \in 0..MaxFaults
  BY DEF Places, Blank, Entries, Audits, ReceiptAssumption
<1>2. StoreTyped /\ ProcsTyped
  BY <1>1 DEF Init, StoreTyped, ProcsTyped
<1>3. ReceiptOK
  <2>1. \A x \in Receipts : rcpt[x] = Blank /\ target[x] # "changed" /\ ~did[x]
    BY DEF Init
  <2>2. Blank.phase \notin {0, 1} /\ Blank.phase \notin {2, 3} /\ Blank.phase # 3
    BY <1>1
  <2> QED BY <2>1, <2>2, Zenon DEF ReceiptOK
<1>4. \A p \in Procs : RequestOK(p)
  BY <1>1 DEF Init, RequestOK
<1> QED BY <1>2, <1>3, <1>4 DEF ReceiptState

LEMMA ReceiptGivesType ==
    ASSUME ReceiptAssumption, ReceiptState
    PROVE  TypeOK
BY ReceiptNames DEF ReceiptState, StoreTyped, ProcsTyped, TypeOK, Audits, Entries

\* What is done is told, and a receipt goes only with both rows.
LEMMA ReceiptGivesTold ==
    ASSUME ReceiptAssumption, ReceiptState
    PROVE  EffectHasReceipt
BY ReceiptNames DEF ReceiptState, ReceiptOK, Told, EffectHasReceipt, Pending

LEMMA ReceiptGivesAudited ==
    ASSUME Grows
    PROVE  AckedMeansAudited
BY ReceiptNames DEF Grows, AckedMeansAudited, Pending

\* An entry that was replaced is removed only by the request's own mutation.
LEMMA ReceiptBinds ==
    ASSUME ReceiptAssumption, NEW p \in Procs, ReceiptState, NEW y \in Receipts,
           target[y] = "changed", target'[y] = "gone",
           Step(p) \/ Fault(p) \/ \E x \in Receipts : Call(p, x) \/ Replay(p, x)
    PROVE  pc[p] = "mutate" /\ own[p] = y
<1>1. /\ StoreTyped /\ ProcsTyped /\ RequestOK(p)
      /\ Kind[y] \notin {"owner", "purge"}
  BY DEF ReceiptState, ReceiptOK
<1>2. CASE UNCHANGED target
  BY <1>2
<1>3. CASE Mutate(p)
  <2>1. pc[p] = "mutate" /\ at[p] = own[p] /\ at[p] \in Receipts
    BY <1>1, <1>3 DEF Mutate, RequestOK
  <2>2. PICK e \in {"gone", "removed", "changed", target[at[p]]} :
           target' = [target EXCEPT ![at[p]] = e]
    <3> DEFINE t(o) == CASE o = "done" -> "gone"
                         [] o = "unsynced" -> "removed"
                         [] o = "partial" /\ Kind[at[p]] \in Direct -> "changed"
                         [] OTHER -> target[at[p]]
    <3>1. PICK o \in Answers(Kind[at[p]]) : target' = [target EXCEPT ![at[p]] = t(o)]
      BY <1>1, <1>3 DEF Mutate, StoreTyped
    <3>2. t(o) \in {"gone", "removed", "changed", target[at[p]]}
      OBVIOUS
    <3> HIDE DEF t
    <3> QED BY <3>1, <3>2
  <2> QED BY <1>1, <2>1, <2>2 DEF StoreTyped
<1>4. CASE Recover(p)
  <2>1. \/ UNCHANGED target
        \/ SameEntry(at[p]) /\ target' = [target EXCEPT ![at[p]] = "gone"]
        \/ Kind[at[p]] = "owner" /\ \E e : target' = [target EXCEPT ![at[p]] = e]
    <3>1. CASE RecoverDirect(p)
      BY <3>1 DEF RecoverDirect
    <3>2. CASE RecoverOwner(p) /\ Kind[at[p]] = "owner"
      BY <1>1, <3>2 DEF RecoverOwner, StoreTyped
    <3> QED BY <1>4, <3>1, <3>2 DEF Recover
  <2> QED BY <1>1, <2>1 DEF StoreTyped, SameEntry
<1>5. CASE Confirm(p)
  <2>1. \/ UNCHANGED target
        \/ /\ SameEntry(at[p]) \/ Kind[at[p]] \in {"owner", "purge"}
           /\ target' = [target EXCEPT ![at[p]] = "gone"]
    BY <1>5 DEF Confirm, ConfirmDirect, ConfirmPurge, ConfirmOwner,
                ConfirmAbsence
  <2> QED BY <1>1, <2>1 DEF StoreTyped, SameEntry
<1>6. CASE Wipe(p)
  <2>1. UNCHANGED target \/ (SameEntry(at[p]) /\ \E e : target' = [target EXCEPT ![at[p]] = e])
    BY <1>1, <1>6 DEF Wipe, StoreTyped
  <2> QED BY <1>1, <2>1 DEF StoreTyped, SameEntry
<1>7. CASE Prepare(p) \/ Torn(p) \/ CreateBundle(p)
  <2>1. \/ UNCHANGED target
        \/ \E x \in Receipts : \E e \in {"there", "changed", target[x]} :
              target' = [target EXCEPT ![x] = e]
    <3>1. at[p] \in Receipts /\ (pc[p] = "prepare" => own[p] \in Receipts)
      BY <1>1, <1>7 DEF RequestOK, Prepare, Torn, CreateBundle
    <3> QED BY <1>1, <1>7, <3>1 DEF Prepare, Torn, CreateBundle, StoreTyped
  <2> QED BY <1>1, <2>1 DEF StoreTyped
<1> QED BY <1>2, <1>3, <1>4, <1>5, <1>6, <1>7 DEF Step, Scan, ReadReceipt, ReplayIntent,
    Intent, Begin, Tombstone, Bind, Serve, Record, RecordChunksOnly,
    LateIntent, Audit, Mark, Ack, AckStops, Fault, Call, Replay, durable

LEMMA ReceiptGivesBound ==
    ASSUME ReceiptAssumption, ReceiptState, [Next]_vars
    PROVE  EvidenceBound
<1> SUFFICES ASSUME NEW y \in Receipts, target[y] = "changed", target'[y] = "gone"
             PROVE  \E p \in Procs : pc[p] = "mutate" /\ own[p] = y
  BY DEF EvidenceBound
<1>1. target[y] # target'[y]
  OBVIOUS
<1>2. ~UNCHANGED vars
  BY <1>1 DEF vars
<1>3. ~Crash
  <2> SUFFICES ASSUME Crash PROVE FALSE
    OBVIOUS
  <2>1. target'[y] \in {"there", target[y]}
    BY DEF Crash
  <2> QED BY <2>1
<1>4. ASSUME NEW x \in Receipts, Vanish(x) \/ Change(x)
      PROVE  FALSE
  <2>1. target[x] = "there" /\ \E e : target' = [target EXCEPT ![x] = e]
    BY <1>4 DEF Vanish, Change
  <2>2. target \in [Receipts -> Entries]
    BY DEF ReceiptState, StoreTyped
  <2> QED BY <2>1, <2>2
<1>5. PICK p \in Procs : Step(p) \/ Fault(p) \/ \E x \in Receipts : Call(p, x) \/ Replay(p, x)
  BY <1>2, <1>3, <1>4 DEF Next
<1> QED BY <1>5, ReceiptBinds

------------------------------------------------------------------------------
\* What is known before a step, and what stays true of the other receipts.
LEMMA LoneKnows ==
    ASSUME NEW p, LoneState(p)
    PROVE  /\ p \in Procs /\ StoreTyped /\ ProcsTyped
           /\ ReceiptOK /\ RequestOK(p)
           /\ \A x \in Receipts : Honest(x)
           /\ Aware(p)
BY DEF LoneState, ReceiptState

LEMMA LoneSame ==
    ASSUME NEW p, \A x \in Receipts : Honest(x),
           UNCHANGED <<rcpt, chunks, rows, target, did, born>>
    PROVE  /\ (\A x \in Receipts : Honest(x)') /\ Kept(p)
           /\ \A x \in Receipts : Fresh(x) => Fresh(x)'
BY DEF Honest, Kept, Fresh

LEMMA LoneElse ==
    ASSUME NEW p, \A y \in Receipts : Honest(y), NEW x \in Receipts, Honest(x)', UNCHANGED born,
           \A y \in Receipts \ {x} :
              /\ rcpt'[y] = rcpt[y] /\ chunks'[y] = chunks[y] /\ rows'[y] = rows[y]
              /\ target'[y] = target[y] /\ did'[y] = did[y],
           rcpt[x] # Blank /\ rcpt'[x] = Blank => pc[p] = "ack" /\ at[p] = x
    PROVE  /\ (\A y \in Receipts : Honest(y)') /\ Kept(p)
           /\ \A y \in Receipts \ {x} : Fresh(y) => Fresh(y)'
<1>1. ASSUME NEW y \in Receipts \ {x}
      PROVE  Honest(y)' /\ (Fresh(y) => Fresh(y)')
  BY <1>1 DEF Honest, Fresh
<1>2. \A y \in Receipts : Honest(y)'
  BY <1>1
<1>3. Kept(p)
  BY DEF Kept
<1> QED BY <1>1, <1>2, <1>3

\* A request that has ended knows nothing.
LEMMA LoneEnds ==
    ASSUME NEW p, LoneState(p), End(p)
    PROVE  Aware(p)'
<1>1. /\ pc'[p] = "idle" /\ own'[p] = "none" /\ at'[p] = "none"
  BY LoneKnows, ReceiptEnds
<1> QED BY <1>1 DEF Aware, Owns

\* A request that goes on with the same receipt.
LEMMA LoneOwn ==
    ASSUME NEW p, LoneState(p), NEW l, pc'[p] = l, l \notin {"idle", "scan", "prepare"},
           own'[p] = own[p], at'[p] = at[p],
           snap'[p] = snap[p], todo'[p] = todo[p], born' = born,
           pc[p] \notin {"idle", "scan"},
           \A y \in Receipts \ {at[p]} : Fresh(y) => Fresh(y)'
    PROVE  Owns(p)'
<1> DEFINE z == own[p]
<1>1. z \in Receipts \cup {"none"}
  BY LoneKnows DEF ProcsTyped
<1>2. /\ z # "none" => z \in born /\ z \notin todo[p]
      /\ z # "none" /\ at[p] # z => Fresh(z)
      /\ z # "none" /\ z = at[p] => snap[p] = Blank
  BY LoneKnows DEF Aware, Owns
<1>3. PICK o \in Receipts \cup {"none"} : o = z /\ own'[p] = o
  BY <1>1
<1>4. o # "none" /\ at[p] # o => Fresh(o)'
  BY <1>2, <1>3
<1> QED BY <1>2, <1>3, <1>4 DEF Owns

\* The requests of one process, step by step.
LEMMA LoneScan ==
    ASSUME NEW p, ReceiptAssumption, LoneState(p), Scan(p)
    PROVE  LoneStep(p)
<1> USE ReceiptNames
<1>1. /\ p \in Procs /\ StoreTyped /\ ProcsTyped
      /\ ReceiptOK /\ RequestOK(p)
      /\ (\A x \in Receipts : Honest(x)) /\ Aware(p)
  BY LoneKnows
<1>2. UNCHANGED <<rcpt, chunks, rows, target, did, tomb, born, faults>> /\ pc[p] = "scan"
  BY DEF Scan, ReadReceipt, durable
<1>3. (\A x \in Receipts : Honest(x)') /\ Kept(p) /\ \A x \in Receipts : Fresh(x) => Fresh(x)'
  BY <1>1, <1>2, LoneSame
<1>4. CASE End(p)
  BY <1>3, <1>4, LoneEnds DEF LoneStep
<1>5. at[p] = "none" /\ snap[p] = Blank /\ own[p] \in Receipts \cup {"none"}
  BY <1>1, <1>2 DEF Aware, RequestOK, ProcsTyped
<1>6. CASE /\ todo[p] = {} /\ own[p] # None /\ Goto(p, "prepare")
           /\ at' = [at EXCEPT ![p] = own[p]]
           /\ UNCHANGED <<durable, own, todo, snap, out>>
  <2>1. /\ pc'[p] = "prepare" /\ at'[p] = own[p] /\ own'[p] = own[p] /\ own[p] \in Receipts
        /\ snap'[p] = Blank /\ todo'[p] = todo[p]
    BY <1>1, <1>5, <1>6 DEF ProcsTyped, Goto
  <2>2. PICK z \in Receipts : z = own[p]
    BY <2>1
  <2>3. z \in born' /\ z \notin todo[p] /\ Fresh(z)' /\ z # "none"
    BY <1>1, <1>2, <1>3, <1>5, <1>6, <2>2 DEF Aware, Owns
  <2>4. Owns(p)'
    BY <2>1, <2>2, <2>3 DEF Owns
  <2>5. Aware(p)'
    BY <2>1, <2>4 DEF Aware
  <2> QED BY <1>3, <2>5 DEF LoneStep
<1>7. ASSUME NEW y \in todo[p], Pending(y), ReadReceipt(p, y)
      PROVE  LoneStep(p)
  <2>1. PICK l \in {"replay_intent", "rebegin", "bind"} :
          /\ snap' = [snap EXCEPT ![p] = rcpt[y]] /\ at' = [at EXCEPT ![p] = y]
          /\ Goto(p, l) /\ UNCHANGED <<own, todo, out>>
          /\ l = "replay_intent" => Kind[y] # "bundle" \/ ~Replays(rcpt[y])
          /\ l # "replay_intent" => Replays(rcpt[y])
    BY <1>7 DEF ReadReceipt, BundleReplays, BundleComplete, Replays, Complete
  <2>2. y \in Receipts /\ y # own[p]
    <3>1. own[p] # "none" => own[p] \notin todo[p]
      BY <1>1 DEF Aware, Owns
    <3>2. y \in Receipts /\ "none" \notin Receipts
      BY <1>1 DEF ProcsTyped, ReceiptAssumption
    <3> QED BY <3>1, <3>2
  <2>3. /\ pc'[p] = l /\ at'[p] = y /\ own'[p] = own[p] /\ snap'[p] = rcpt[y]
        /\ todo'[p] = todo[p]
    BY <1>1, <2>1, <2>2 DEF ProcsTyped, Goto
  <2>4. Owns(p)'
    <3>1. PICK z \in Receipts \cup {"none"} : z = own[p]
      BY <1>5
    <3>2. z # "none" => z \in born' /\ z \notin todo[p] /\ Fresh(z)'
      BY <1>1, <1>2, <1>3, <1>5, <3>1 DEF Aware, Owns
    <3> QED BY <2>2, <2>3, <3>1, <3>2 DEF Owns
  <2>5. Replays(snap[p])' <=> Replays(rcpt[y])
    BY <2>3 DEF Replays
  <2>6. Copied(p)'
    BY <1>2, <2>3 DEF Copied
  <2>7. Aware(p)'
    BY <1>2, <2>1, <2>2, <2>3, <2>4, <2>5, <2>6 DEF Aware
  <2> QED BY <1>3, <2>7 DEF LoneStep
<1> QED BY <1>4, <1>6, <1>7 DEF Scan, ReadReceipt

LEMMA LoneReplayIntent ==
    ASSUME NEW p, ReceiptAssumption, LoneState(p), ReplayIntent(p)
    PROVE  LoneStep(p)
<1> USE ReceiptNames
<1>1. /\ p \in Procs /\ StoreTyped /\ ProcsTyped
      /\ ReceiptOK /\ RequestOK(p)
      /\ (\A y \in Receipts : Honest(y)) /\ Aware(p)
  BY LoneKnows
<1>2. PICK x \in Receipts : x = at[p] /\ pc[p] = "replay_intent"
  BY <1>1 DEF RequestOK, ReplayIntent
<1>3. /\ rows' = [rows EXCEPT ![x].intent = TRUE]
      /\ UNCHANGED <<rcpt, chunks, target, did, tomb, born, faults>>
  BY <1>2 DEF ReplayIntent
<1>4. rows'[x].result = rows[x].result /\ \A y \in Receipts \ {x} : rows'[y] = rows[y]
  BY <1>1, <1>3 DEF StoreTyped, Audits
<1>5. Honest(x)'
  BY <1>1, <1>2, <1>3, <1>4 DEF Honest, Fresh
<1>6. /\ (\A y \in Receipts : Honest(y)') /\ Kept(p)
      /\ \A y \in Receipts \ {x} : Fresh(y) => Fresh(y)'
  BY <1>1, <1>3, <1>4, <1>5, LoneElse
<1>7. PICK l \in {"record", "recover", "confirm", "ack", "audit"},
           o \in Results \cup {"none"} :
         /\ Goto(p, l) /\ Keep /\ out' = [out EXCEPT ![p] = o]
         /\ l = "record" => snap[p].phase = 0 /\ o = "not_started"
         /\ l = "recover" => snap[p].phase = 1
         /\ l = "confirm" => snap[p].phase \in {2, 3} /\ snap[p].res = "unsynced"
         /\ l = "ack" => snap[p].phase = 3 /\ snap[p].res # "unsynced"
         /\ l = "audit" => snap[p].phase \in {2, 3} /\ o = snap[p].res
  <2>1. out[p] \in Results \cup {"none"} /\ out = [out EXCEPT ![p] = out[p]]
    BY <1>1 DEF ProcsTyped
  <2>2. snap[p] # Blank => snap[p].res \in Results \cup {"none"}
    <3>1. snap[p] \in Headers \cup {Blank}
      BY <1>1 DEF ProcsTyped
    <3> QED BY <3>1 DEF Headers
  <2>3. snap[p].phase \in {2, 3} => snap[p].res \in Results
    BY <1>1, <2>2 DEF RequestOK, Blank
  <2>4. "not_started" \in Results
    BY DEF Results
  <2> QED BY <2>1, <2>3, <2>4 DEF ReplayIntent, NeedsDurability
<1>8. /\ pc'[p] = l /\ out'[p] = o /\ own'[p] = own[p] /\ at'[p] = x
      /\ snap'[p] = snap[p] /\ todo'[p] = todo[p]
  <2>1. l \in Places
    BY DEF Places
  <2> QED BY <1>1, <1>2, <1>7, <2>1, ReceiptGoes
<1>9. Owns(p)'
  BY <1>2, <1>3, <1>6, <1>8, LoneOwn
<1>10. /\ snap[p].phase = rcpt[x].phase /\ snap[p].res = rcpt[x].res
       /\ Kind[x] = "bundle" => ~Replays(snap[p])
  BY <1>1, <1>2 DEF Aware, Copied
<1>11. Copied(p)' /\ rcpt'[x] = rcpt[x] /\ target'[x] = target[x] /\ did'[x] = did[x]
  BY <1>3, <1>8, <1>10 DEF Copied
<1>12. l = "confirm" => Kind[x] # "bundle"
  BY <1>7, <1>10 DEF Replays, Complete
<1>13. l = "record" => rcpt[x].phase = 0 /\ ~did[x] /\ rows[x].result = "none"
  BY <1>1, <1>7, <1>10 DEF Honest
<1>14. l = "audit" => /\ rcpt[x].phase \in {2, 3} /\ o = rcpt[x].res
                      /\ Kind[x] = "bundle" => Complete(rcpt[x].res)
  BY <1>7, <1>10 DEF Replays
<1>15. l = "audit" => Fits(p)'
  BY <1>8, <1>11, <1>14 DEF Fits
<1>16. Aware(p)'
  BY <1>4, <1>7, <1>8, <1>9, <1>10, <1>11, <1>12, <1>13, <1>14, <1>15 DEF Aware
<1> QED BY <1>6, <1>16 DEF LoneStep

LEMMA LoneRecover ==
    ASSUME NEW p, ReceiptAssumption, LoneState(p), Recover(p)
    PROVE  LoneStep(p)
<1> USE ReceiptNames
<1>1. /\ p \in Procs /\ StoreTyped /\ ProcsTyped
      /\ ReceiptOK /\ RequestOK(p)
      /\ (\A y \in Receipts : Honest(y)) /\ Aware(p)
  BY LoneKnows
<1>2. PICK x \in Receipts : x = at[p] /\ pc[p] = "recover"
  BY <1>1 DEF RequestOK, Recover
<1>3. UNCHANGED <<rcpt, chunks, rows, tomb, born>>
  BY DEF Recover
<1>4. rcpt[x].phase = 1 /\ rows[x].result = "none" /\ x \in born
  <2>1. rcpt[x].phase = 1
    BY <1>1, <1>2 DEF Aware, Copied
  <2> QED BY <1>1, <2>1 DEF Honest, Fresh, Blank
<1>5. CASE End(p) /\ UNCHANGED <<did, target>>
  BY <1>1, <1>3, <1>5, LoneSame, LoneEnds DEF LoneStep
<1>6. CASE \E o \in {"done", "unsynced", "partial"}, d \in BOOLEAN :
             /\ out' = [out EXCEPT ![p] = o] /\ Goto(p, "record") /\ Keep
             /\ did' = [did EXCEPT ![x] = d]
             /\ \E e \in {"gone", "removed", target[x]} : target' = [target EXCEPT ![x] = e]
             /\ o = "done" => target' = [target EXCEPT ![x] = "gone"]
  <2>1. PICK o \in {"done", "unsynced", "partial"}, d \in BOOLEAN :
             /\ out' = [out EXCEPT ![p] = o] /\ Goto(p, "record") /\ Keep
             /\ did' = [did EXCEPT ![x] = d]
             /\ \E e \in {"gone", "removed", target[x]} : target' = [target EXCEPT ![x] = e]
             /\ o = "done" => target' = [target EXCEPT ![x] = "gone"]
    BY <1>6
  <2>2. /\ \A y \in Receipts \ {x} : target'[y] = target[y] /\ did'[y] = did[y]
        /\ o = "done" => target'[x] = "gone"
    BY <1>1, <2>1 DEF StoreTyped
  <2>3. Honest(x)'
    BY <1>1, <1>3, <1>4 DEF Honest, Nothing
  <2>4. /\ (\A y \in Receipts : Honest(y)') /\ Kept(p)
        /\ \A y \in Receipts \ {x} : Fresh(y) => Fresh(y)'
    BY <1>1, <1>3, <2>2, <2>3, LoneElse
  <2>5. "record" \in Places /\ o \in Results
    BY DEF Places, Results
  <2>6. /\ pc'[p] = "record" /\ out'[p] = o /\ own'[p] = own[p] /\ at'[p] = x
        /\ snap'[p] = snap[p] /\ todo'[p] = todo[p]
    BY <1>1, <1>2, <2>1, <2>5, ReceiptGoes
  <2>7. Owns(p)'
    BY <1>2, <1>3, <2>4, <2>6, LoneOwn
  <2>8. o \notin Nothing /\ 1 \in 0..2
    BY DEF Nothing
  <2>9. Aware(p)'
    BY <1>3, <1>4, <2>2, <2>6, <2>7, <2>8 DEF Aware
  <2> QED BY <2>4, <2>9 DEF LoneStep
<1>7. CASE RecoverDirect(p)
  <2>1. CASE \/ ~snap[p].evid \/ ~SameEntry(x)
             \/ Kind[x] = "restore" /\ target[x] # "there" /\ ~did[x]
    BY <1>2, <1>5, <1>7, <2>1 DEF RecoverDirect
  <2>2. CASE ~(\/ ~snap[p].evid \/ ~SameEntry(x)
               \/ Kind[x] = "restore" /\ target[x] # "there" /\ ~did[x])
    <3>1. /\ did' = [did EXCEPT ![x] = did[x] \/ target[x] = "there"]
          /\ target' = [target EXCEPT ![x] = "gone"]
          /\ out' = [out EXCEPT ![p] = "done"] /\ Goto(p, "record") /\ Keep
      BY <1>1, <1>2, <1>7, <2>2 DEF RecoverDirect, StoreTyped
    <3>2. (did[x] \/ target[x] = "there") \in BOOLEAN
      OBVIOUS
    <3> QED BY <1>6, <3>1, <3>2
  <2> QED BY <2>1, <2>2
<1>8. CASE RecoverOwner(p)
  <2>1. CASE ~tomb[x]
    BY <1>2, <1>5, <1>8, <2>1 DEF RecoverOwner
  <2>2. CASE tomb[x]
    <3>1. /\ did' = [did EXCEPT ![x] = TRUE] /\ Goto(p, "record") /\ Keep
      BY <1>2, <1>8, <2>2 DEF RecoverOwner
    <3>2. PICK o \in {"done", "unsynced", "partial"} :
             /\ out' = [out EXCEPT ![p] = o]
             /\ target' = [target EXCEPT ![x] = IF o = "done" THEN "gone"
                           ELSE IF o = "unsynced" /\ @ = "there" THEN "removed" ELSE @]
      BY <1>2, <1>8, <2>2 DEF RecoverOwner
    <3>3. /\ \E e \in {"gone", "removed", target[x]} : target' = [target EXCEPT ![x] = e]
          /\ o = "done" => target' = [target EXCEPT ![x] = "gone"]
      BY <1>1, <3>2 DEF StoreTyped
    <3> QED BY <1>6, <3>1, <3>2, <3>3
  <2> QED BY <2>1, <2>2
<1> QED BY <1>5, <1>7, <1>8 DEF Recover

LEMMA LoneConfirm ==
    ASSUME NEW p, ReceiptAssumption, LoneState(p), Confirm(p)
    PROVE  LoneStep(p)
<1> USE ReceiptNames
<1>1. /\ p \in Procs /\ StoreTyped /\ ProcsTyped
      /\ ReceiptOK /\ RequestOK(p)
      /\ (\A y \in Receipts : Honest(y)) /\ Aware(p)
  BY LoneKnows
<1>2. PICK x \in Receipts : x = at[p] /\ pc[p] = "confirm"
  BY <1>1 DEF RequestOK, Confirm
<1>3. UNCHANGED <<rcpt, chunks, rows, did, tomb, born, faults>>
  BY DEF Confirm
<1>4. /\ snap[p].phase = rcpt[x].phase /\ rcpt[x].phase \in {2, 3}
      /\ rcpt[x].res = "unsynced" /\ Kind[x] # "bundle"
  BY <1>1, <1>2 DEF Aware, Copied, RequestOK
<1>5. CASE End(p) /\ UNCHANGED target
  BY <1>1, <1>3, <1>5, LoneSame, LoneEnds DEF LoneStep
<1>6. CASE \E o \in {"done", "unsynced"} :
             /\ out' = [out EXCEPT ![p] = o]
             /\ Goto(p, IF snap[p].phase = 3 THEN "ack" ELSE "audit") /\ Keep
             /\ target' = [target EXCEPT ![x] = "gone"]
  <2>1. PICK o \in {"done", "unsynced"}, l \in {"ack", "audit"} :
             /\ out' = [out EXCEPT ![p] = o] /\ Goto(p, l) /\ Keep
             /\ target' = [target EXCEPT ![x] = "gone"]
             /\ l = "ack" => snap[p].phase = 3
    BY <1>6
  <2>2. /\ \A y \in Receipts \ {x} : target'[y] = target[y]
        /\ target'[x] = "gone"
    BY <1>1, <2>1 DEF StoreTyped
  <2>3. Honest(x)'
    BY <1>1, <1>3, <1>4, <2>2 DEF Honest, Fresh
  <2>4. /\ (\A y \in Receipts : Honest(y)') /\ Kept(p)
        /\ \A y \in Receipts \ {x} : Fresh(y) => Fresh(y)'
    BY <1>1, <1>3, <2>2, <2>3, LoneElse
  <2>5. l \in Places /\ o \in Results
    BY DEF Places, Results
  <2>6. /\ pc'[p] = l /\ out'[p] = o /\ own'[p] = own[p] /\ at'[p] = x
        /\ snap'[p] = snap[p] /\ todo'[p] = todo[p]
    BY <1>1, <1>2, <2>1, <2>5, ReceiptGoes
  <2>7. Owns(p)'
    BY <1>2, <1>3, <2>4, <2>6, LoneOwn
  <2>8. Fits(p)'
    BY <1>3, <1>4, <2>2, <2>6 DEF Fits
  <2>9. Aware(p)'
    BY <1>3, <1>4, <2>1, <2>2, <2>6, <2>7, <2>8 DEF Aware
  <2> QED BY <2>4, <2>9 DEF LoneStep
<1>7. CASE ConfirmDirect(p) \/ ConfirmPurge(p) \/ ConfirmOwner(p)
  <2>1. \E o \in {"done", "unsynced"} :
           out' = [out EXCEPT ![p] = o] /\ target' = [target EXCEPT ![x] = "gone"]
    BY <1>2, <1>7 DEF ConfirmDirect, ConfirmPurge, ConfirmOwner,
                      ConfirmAbsence
  <2>2. \/ End(p) /\ UNCHANGED target
        \/ Goto(p, IF snap[p].phase = 3 THEN "ack" ELSE "audit") /\ Keep
    BY DEF Confirm
  <2> QED BY <1>5, <1>6, <2>1, <2>2
<1> QED BY <1>5, <1>7 DEF Confirm

LEMMA LonePrepare ==
    ASSUME NEW p, ReceiptAssumption, LoneState(p), Prepare(p)
    PROVE  LoneStep(p)
<1> USE ReceiptNames
<1>1. /\ p \in Procs /\ StoreTyped /\ ProcsTyped
      /\ ReceiptOK /\ RequestOK(p)
      /\ (\A y \in Receipts : Honest(y)) /\ Aware(p)
  BY LoneKnows
<1>2. PICK x \in Receipts : x = at[p] /\ x = own[p] /\ pc[p] = "prepare"
  BY <1>1 DEF RequestOK, Prepare
<1>3. UNCHANGED <<chunks, rows, did, tomb, born, faults>>
  BY DEF Prepare
<1>4. x # "none" /\ Fresh(x) /\ x \in born
  BY <1>1, <1>2 DEF Aware, Owns, ReceiptAssumption
<1>5. CASE End(p) /\ UNCHANGED <<rcpt, target>>
  BY <1>1, <1>3, <1>5, LoneSame, LoneEnds DEF LoneStep
<1> DEFINE h == [phase |-> 0, evid |-> TakesEvidence(Kind[x]), res |-> None, clean |-> "none"]
<1>6. CASE /\ Put(x, h)
           /\ target' = [target EXCEPT ![x] = IF @ = "changed" THEN "there" ELSE @]
           /\ Goto(p, "intent") /\ Keep /\ UNCHANGED out
  <2>1. h \in Headers /\ h.phase = 0 /\ h.res = "none" /\ h.clean = "none"
    BY DEF Headers, TakesEvidence
  <2> HIDE DEF h
  <2>2. /\ rcpt'[x] = h /\ h # Blank
        /\ \A y \in Receipts \ {x} : rcpt'[y] = rcpt[y] /\ target'[y] = target[y]
    BY <1>1, <1>6, <2>1, HeaderFacts DEF StoreTyped, Put
  <2>3. Honest(x)'
    BY <1>3, <1>4, <2>1, <2>2 DEF Honest, Fresh, Nothing
  <2>4. /\ (\A y \in Receipts : Honest(y)') /\ Kept(p)
        /\ \A y \in Receipts \ {x} : Fresh(y) => Fresh(y)'
    BY <1>1, <1>3, <2>2, <2>3, LoneElse
  <2>5. "intent" \in Places
    BY DEF Places
  <2>6. /\ pc'[p] = "intent" /\ own'[p] = own[p] /\ at'[p] = at[p]
        /\ snap'[p] = snap[p] /\ todo'[p] = todo[p]
    BY <1>1, <1>6, <2>5, ReceiptMoves
  <2>7. Owns(p)'
    BY <1>2, <1>3, <2>4, <2>6, LoneOwn
  <2>8. Aware(p)'
    BY <1>2, <2>1, <2>2, <2>6, <2>7 DEF Aware
  <2> QED BY <2>4, <2>8 DEF LoneStep
<1> QED BY <1>2, <1>5, <1>6 DEF Prepare

LEMMA LoneIntent ==
    ASSUME NEW p, ReceiptAssumption, LoneState(p), Intent(p) \/ LateIntent(p)
    PROVE  LoneStep(p)
<1> USE ReceiptNames
<1>1. /\ p \in Procs /\ StoreTyped /\ ProcsTyped
      /\ ReceiptOK /\ RequestOK(p)
      /\ (\A y \in Receipts : Honest(y)) /\ Aware(p)
  BY LoneKnows
<1>2. PICK x \in Receipts : x = at[p] /\ (Intent(p) => x = own[p])
  BY <1>1 DEF RequestOK, Intent, LateIntent
<1>3. /\ rows' = [rows EXCEPT ![x].intent = TRUE]
      /\ UNCHANGED <<rcpt, chunks, target, did, tomb, born, out, faults>>
  BY <1>2 DEF Intent, LateIntent
<1>4. rows'[x].result = rows[x].result /\ \A y \in Receipts \ {x} : rows'[y] = rows[y]
  BY <1>1, <1>3 DEF StoreTyped, Audits
<1>5. Honest(x)'
  BY <1>1, <1>2, <1>3, <1>4 DEF Honest, Fresh
<1>6. /\ (\A y \in Receipts : Honest(y)') /\ Kept(p)
      /\ \A y \in Receipts \ {x} : Fresh(y) => Fresh(y)'
  BY <1>1, <1>3, <1>4, <1>5, LoneElse
<1>7. PICK l \in {"begin", "audit"} :
         /\ Goto(p, l) /\ Keep
         /\ l = "begin" => pc[p] = "intent"
         /\ l = "audit" => pc[p] = "late_intent"
  BY <1>2 DEF Intent, LateIntent
<1>8. /\ pc'[p] = l /\ out'[p] = out[p] /\ own'[p] = own[p] /\ at'[p] = x
      /\ snap'[p] = snap[p] /\ todo'[p] = todo[p]
  <2>1. l \in Places
    BY DEF Places
  <2> QED BY <1>1, <1>2, <1>3, <1>7, <2>1, ReceiptMoves
<1>9. Owns(p)'
  BY <1>2, <1>3, <1>6, <1>7, <1>8, LoneOwn
<1>10. l = "audit" => Fits(p)'
  BY <1>1, <1>2, <1>3, <1>7, <1>8 DEF Aware, Fits
<1>11. Aware(p)'
  BY <1>1, <1>2, <1>3, <1>7, <1>8, <1>9, <1>10 DEF Aware
<1> QED BY <1>6, <1>11 DEF LoneStep

\* A receipt with a phase is there, and its request has begun.
LEMMA LoneBorn ==
    ASSUME StoreTyped, NEW x \in Receipts, Honest(x), rcpt[x].phase \in 0..3
    PROVE  x \in born /\ rcpt[x] # Blank /\ rcpt[x] \in Headers
BY DEF StoreTyped, Honest, Fresh, Blank

LEMMA LoneBegin ==
    ASSUME NEW p, ReceiptAssumption, LoneState(p), Begin(p)
    PROVE  LoneStep(p)
<1> USE ReceiptNames
<1>1. /\ p \in Procs /\ StoreTyped /\ ProcsTyped
      /\ ReceiptOK /\ RequestOK(p)
      /\ (\A y \in Receipts : Honest(y)) /\ Aware(p)
  BY LoneKnows
<1>2. PICK x \in Receipts : x = at[p] /\ pc[p] \in {"begin", "rebegin"}
  BY <1>1 DEF RequestOK, Begin
<1>3. UNCHANGED <<chunks, rows, target, did, tomb, born, faults>>
  BY DEF Begin
<1>4. CASE End(p) /\ UNCHANGED rcpt
  BY <1>1, <1>3, <1>4, LoneSame, LoneEnds DEF LoneStep
<1>5. CASE /\ Whole(x)
           /\ Put(x, IF rcpt[x].phase = 0 THEN [rcpt[x] EXCEPT !.phase = 1] ELSE rcpt[x])
           /\ Goto(p, IF pc[p] = "rebegin" THEN "bind"
                       ELSE IF Kind[x] = "owner" THEN "tombstone" ELSE "mutate")
           /\ Keep /\ UNCHANGED out
  <2>1. rcpt[x] \in Headers /\ rcpt[x] # Blank /\ x \in born
    BY <1>1, <1>5 DEF StoreTyped, Whole, Pending, Honest, Fresh
  <2>2. PICK h \in Headers :
           /\ Put(x, h) /\ h.res = rcpt[x].res /\ h.clean = rcpt[x].clean
           /\ \/ h.phase = rcpt[x].phase /\ rcpt[x].phase # 0
              \/ h.phase = 1 /\ rcpt[x].phase = 0
    <3> DEFINE g == [rcpt[x] EXCEPT !.phase = 1]
    <3>1. g \in Headers /\ g.phase = 1 /\ g.res = rcpt[x].res /\ g.clean = rcpt[x].clean
      BY <2>1 DEF Headers
    <3>2. Put(x, IF rcpt[x].phase = 0 THEN g ELSE rcpt[x])
      BY <1>5
    <3> HIDE DEF g
    <3> QED BY <2>1, <3>1, <3>2
  <2>3. rcpt'[x] = h /\ h # Blank /\ \A y \in Receipts \ {x} : rcpt'[y] = rcpt[y]
    BY <1>1, <2>2, HeaderFacts DEF StoreTyped, Put
  <2>4. Honest(x)'
    BY <1>1, <1>3, <2>1, <2>2, <2>3 DEF Honest, Nothing
  <2>5. /\ (\A y \in Receipts : Honest(y)') /\ Kept(p)
        /\ \A y \in Receipts \ {x} : Fresh(y) => Fresh(y)'
    BY <1>1, <1>3, <2>3, <2>4, LoneElse
  <2>6. PICK l \in {"bind", "tombstone", "mutate"} :
           /\ Goto(p, l) /\ l \in Places
           /\ l = "bind" => pc[p] = "rebegin"
           /\ l # "bind" => pc[p] = "begin"
    BY <1>2, <1>5 DEF Places
  <2>7. /\ pc'[p] = l /\ own'[p] = own[p] /\ at'[p] = x /\ snap'[p] = snap[p]
        /\ todo'[p] = todo[p]
    BY <1>1, <1>2, <1>5, <2>6, ReceiptMoves
  <2>8. Owns(p)'
    BY <1>2, <1>3, <2>5, <2>6, <2>7, LoneOwn
  <2>9. l # "bind" => h.phase = 1 /\ ~did'[x]
    BY <1>1, <1>2, <1>3, <2>2, <2>6 DEF Aware, Honest
  <2>10. /\ l = "bind" /\ own[p] = x => h.phase = 1
         /\ l = "bind" /\ own[p] # x => Copied(p)' /\ Replays(snap[p])'
    <3>1. l = "bind" /\ own[p] = x => rcpt[x].phase = 1
      BY <1>1, <1>2, <2>6 DEF Aware
    <3>2. l = "bind" /\ own[p] # x => Copied(p) /\ Replays(snap[p])
      BY <1>1, <1>2, <2>6 DEF Aware
    <3>3. Copied(p) /\ Replays(snap[p]) => Copied(p)' /\ Replays(snap[p])'
      BY <1>2, <2>2, <2>3, <2>7 DEF Copied, Replays
    <3> QED BY <2>2, <3>1, <3>2, <3>3
  <2>11. Aware(p)'
    BY <2>3, <2>7, <2>8, <2>9, <2>10 DEF Aware
  <2> QED BY <2>5, <2>11 DEF LoneStep
<1> QED BY <1>2, <1>4, <1>5 DEF Begin

LEMMA LoneTombstone ==
    ASSUME NEW p, ReceiptAssumption, LoneState(p), Tombstone(p)
    PROVE  LoneStep(p)
<1> USE ReceiptNames
<1>1. /\ p \in Procs /\ StoreTyped /\ ProcsTyped
      /\ ReceiptOK /\ RequestOK(p)
      /\ (\A y \in Receipts : Honest(y)) /\ Aware(p)
  BY LoneKnows
<1>2. PICK x \in Receipts : x = at[p] /\ pc[p] = "tombstone"
  BY <1>1 DEF RequestOK, Tombstone
<1>3. UNCHANGED <<rcpt, chunks, rows, target, did, born, out, faults>>
  BY DEF Tombstone
<1>4. /\ (\A y \in Receipts : Honest(y)') /\ Kept(p)
      /\ \A y \in Receipts : Fresh(y) => Fresh(y)'
  BY <1>1, <1>3, LoneSame
<1>5. "mutate" \in Places /\ Goto(p, "mutate") /\ Keep
  BY DEF Places, Tombstone
<1>6. /\ pc'[p] = "mutate" /\ own'[p] = own[p] /\ at'[p] = x /\ snap'[p] = snap[p]
      /\ todo'[p] = todo[p]
  BY <1>1, <1>2, <1>3, <1>5, ReceiptMoves
<1>7. Owns(p)'
  BY <1>2, <1>3, <1>4, <1>6, LoneOwn
<1>8. Aware(p)'
  BY <1>1, <1>2, <1>3, <1>6, <1>7 DEF Aware
<1> QED BY <1>4, <1>8 DEF LoneStep

LEMMA LoneMutate ==
    ASSUME NEW p, ReceiptAssumption, LoneState(p), Mutate(p)
    PROVE  LoneStep(p)
<1> USE ReceiptNames
<1>1. /\ p \in Procs /\ StoreTyped /\ ProcsTyped
      /\ ReceiptOK /\ RequestOK(p)
      /\ (\A y \in Receipts : Honest(y)) /\ Aware(p)
  BY LoneKnows
<1>2. PICK x \in Receipts : x = at[p] /\ pc[p] = "mutate" /\ Kind[x] # "bundle"
  BY <1>1 DEF RequestOK, Mutate
<1>3. UNCHANGED <<rcpt, chunks, rows, tomb, born>> /\ Goto(p, "record") /\ Keep
  BY DEF Mutate
<1>4. rcpt[x].phase = 1 /\ ~did[x] /\ rows[x].result = "none" /\ x \in born
  <2>1. rcpt[x].phase = 1 /\ ~did[x]
    BY <1>1, <1>2 DEF Aware
  <2> QED BY <1>1, <2>1 DEF Honest, Fresh, Blank
<1>5. PICK o \in Answers(Kind[x]) :
          /\ out' = [out EXCEPT ![p] = IF o \in Refusals THEN "refused" ELSE o]
          /\ did' = [did EXCEPT ![x] = @ \/ o \notin Refusals]
          /\ target' = [target EXCEPT ![x] =
                CASE o = "done" -> "gone"
                  [] o = "unsynced" -> "removed"
                  [] o = "partial" /\ Kind[x] \in Direct -> "changed"
                  [] OTHER -> @]
  BY <1>2 DEF Mutate
<1>6. o \in Refusals \cup {"done", "unsynced", "partial"}
  <2>1. Kind[x] \in {"recovery", "quarantine", "evidence", "restore", "owner", "purge"}
    BY <1>2 DEF ReceiptAssumption, Kinds
  <2> QED BY <2>1 DEF Answers, Refusals, delete_recovery, restore_quarantine,
        delete_quarantine, dispose_corrupt_evidence, purge_expired_jobs,
        delete_job
<1>7. PICK r \in Results : /\ out' = [out EXCEPT ![p] = r]
                           /\ r \in Nothing => o \in Refusals
                           /\ r = "done" => o = "done"
  BY <1>5, <1>6 DEF Results, Nothing, Refusals
<1>8. /\ r \in Nothing => ~did'[x]
      /\ r = "done" => target'[x] = "gone"
      /\ \A y \in Receipts \ {x} : target'[y] = target[y] /\ did'[y] = did[y]
  <2>1. r \in Nothing => ~did'[x]
    BY <1>1, <1>4, <1>5, <1>7 DEF StoreTyped
  <2>2. r = "done" => target'[x] = "gone"
    BY <1>1, <1>5, <1>7 DEF StoreTyped
  <2>3. \A y \in Receipts \ {x} : target'[y] = target[y] /\ did'[y] = did[y]
    BY <1>1, <1>5 DEF StoreTyped
  <2> QED BY <2>1, <2>2, <2>3
<1>9. Honest(x)'
  BY <1>1, <1>3, <1>4 DEF Honest, Nothing
<1>10. /\ (\A y \in Receipts : Honest(y)') /\ Kept(p)
       /\ \A y \in Receipts \ {x} : Fresh(y) => Fresh(y)'
  BY <1>1, <1>3, <1>8, <1>9, LoneElse
<1>11. /\ pc'[p] = "record" /\ out'[p] = r /\ own'[p] = own[p] /\ at'[p] = x
       /\ snap'[p] = snap[p] /\ todo'[p] = todo[p]
  <2>1. "record" \in Places
    BY DEF Places
  <2> QED BY <1>1, <1>2, <1>3, <1>7, <2>1, ReceiptGoes
<1>12. Owns(p)'
  BY <1>2, <1>3, <1>10, <1>11, LoneOwn
<1>13. Aware(p)'
  BY <1>3, <1>4, <1>8, <1>11, <1>12 DEF Aware
<1> QED BY <1>10, <1>13 DEF LoneStep

LEMMA LoneTorn ==
    ASSUME NEW p, ReceiptAssumption, LoneState(p), Torn(p)
    PROVE  LoneStep(p)
<1> USE ReceiptNames
<1>1. /\ p \in Procs /\ StoreTyped /\ ProcsTyped
      /\ ReceiptOK /\ RequestOK(p)
      /\ (\A y \in Receipts : Honest(y)) /\ Aware(p)
  BY LoneKnows
<1>2. PICK x \in Receipts : x = at[p] /\ pc[p] \in {"mutate", "recover"}
  BY <1>1 DEF RequestOK, Torn
<1>3. /\ UNCHANGED <<rcpt, chunks, rows, tomb, born>> /\ End(p)
      /\ target' = [target EXCEPT ![x] = "changed"] /\ did' = [did EXCEPT ![x] = TRUE]
  BY <1>2 DEF Torn
<1>4. rcpt[x].phase = 1 /\ rows[x].result = "none" /\ x \in born
  <2>1. rcpt[x].phase = 1
    BY <1>1, <1>2 DEF Aware, Copied
  <2> QED BY <1>1, <2>1 DEF Honest, Fresh, Blank
<1>5. \A y \in Receipts \ {x} : target'[y] = target[y] /\ did'[y] = did[y]
  BY <1>1, <1>3 DEF StoreTyped
<1>6. Honest(x)'
  BY <1>1, <1>3, <1>4 DEF Honest, Nothing
<1>7. (\A y \in Receipts : Honest(y)') /\ Kept(p)
  BY <1>1, <1>3, <1>5, <1>6, LoneElse
<1> QED BY <1>3, <1>7, LoneEnds DEF LoneStep

LEMMA LoneCreateBundle ==
    ASSUME NEW p, ReceiptAssumption, LoneState(p), CreateBundle(p)
    PROVE  LoneStep(p)
<1> USE ReceiptNames
<1>1. /\ p \in Procs /\ StoreTyped /\ ProcsTyped
      /\ ReceiptOK /\ RequestOK(p)
      /\ (\A y \in Receipts : Honest(y)) /\ Aware(p)
  BY LoneKnows
<1>2. PICK x \in Receipts : x = at[p] /\ x = own[p] /\ pc[p] = "mutate" /\ Kind[x] = "bundle"
  BY <1>1 DEF RequestOK, CreateBundle
<1>3. UNCHANGED <<rcpt, chunks, rows, tomb, born, faults>> /\ Keep
  BY DEF CreateBundle
<1>4. rcpt[x].phase = 1 /\ ~did[x] /\ rows[x].result = "none" /\ x \in born
  <2>1. rcpt[x].phase = 1 /\ ~did[x]
    BY <1>1, <1>2 DEF Aware
  <2> QED BY <1>1, <2>1 DEF Honest, Fresh, Blank
<1>5. PICK l \in {"bind", "record"}, o \in Results \cup {"none"} :
          /\ Goto(p, l) /\ out' = [out EXCEPT ![p] = o]
          /\ l = "record" => o = "refused" /\ UNCHANGED <<target, did>>
          /\ l = "bind" => target' = [target EXCEPT ![x] = "there"] /\ did' = [did EXCEPT ![x] = TRUE]
  <2>1. out[p] \in Results \cup {"none"} /\ out = [out EXCEPT ![p] = out[p]]
    BY <1>1 DEF ProcsTyped
  <2>2. "refused" \in Results
    BY DEF Results
  <2> QED BY <1>2, <2>1, <2>2 DEF CreateBundle
<1>6. \A y \in Receipts \ {x} : target'[y] = target[y] /\ did'[y] = did[y]
  BY <1>1, <1>5 DEF StoreTyped
<1>7. Honest(x)'
  BY <1>1, <1>3, <1>4 DEF Honest, Nothing
<1>8. /\ (\A y \in Receipts : Honest(y)') /\ Kept(p)
      /\ \A y \in Receipts \ {x} : Fresh(y) => Fresh(y)'
  BY <1>1, <1>3, <1>6, <1>7, LoneElse
<1>9. /\ pc'[p] = l /\ out'[p] = o /\ own'[p] = x /\ at'[p] = x /\ snap'[p] = snap[p]
      /\ todo'[p] = todo[p]
  <2>1. l \in Places
    BY DEF Places
  <2> QED BY <1>1, <1>2, <1>3, <1>5, <2>1, ReceiptGoes
<1>10. Owns(p)'
  BY <1>2, <1>3, <1>8, <1>9, LoneOwn
<1>11. l = "record" => ~did'[x]
  BY <1>4, <1>5
<1>12. Aware(p)'
  BY <1>3, <1>4, <1>5, <1>9, <1>10, <1>11 DEF Aware
<1> QED BY <1>8, <1>12 DEF LoneStep

LEMMA LoneBind ==
    ASSUME NEW p, ReceiptAssumption, LoneState(p), Bind(p)
    PROVE  LoneStep(p)
<1> USE ReceiptNames
<1>1. /\ p \in Procs /\ StoreTyped /\ ProcsTyped
      /\ ReceiptOK /\ RequestOK(p)
      /\ (\A y \in Receipts : Honest(y)) /\ Aware(p)
  BY LoneKnows
<1>2. PICK x \in Receipts : x = at[p] /\ pc[p] = "bind"
  BY <1>1 DEF RequestOK, Bind
<1>3. UNCHANGED <<chunks, rows, target, did, tomb, born, faults>>
  BY DEF Bind
<1>4. CASE End(p) /\ UNCHANGED rcpt
  BY <1>1, <1>3, <1>4, LoneSame, LoneEnds DEF LoneStep
<1>5. CASE /\ UNCHANGED rcpt \/ (AttachEvidence(x) /\ Whole(x))
           /\ Goto(p, IF own[p] = x THEN "serve" ELSE "wipe")
           /\ Keep /\ UNCHANGED out
  <2>1. /\ rcpt'[x].phase = rcpt[x].phase /\ rcpt'[x].res = rcpt[x].res
        /\ rcpt'[x].clean = rcpt[x].clean
        /\ rcpt[x] = Blank <=> rcpt'[x] = Blank
        /\ \A y \in Receipts \ {x} : rcpt'[y] = rcpt[y]
    <3>1. CASE UNCHANGED rcpt
      BY <3>1
    <3>2. CASE AttachEvidence(x) /\ Whole(x)
      <4> DEFINE h == [rcpt[x] EXCEPT !.evid = TRUE]
      <4>1. rcpt[x] \in Headers
        BY <1>1, <3>2 DEF StoreTyped, Whole, Pending
      <4>2. /\ h \in Headers /\ h.phase = rcpt[x].phase /\ h.res = rcpt[x].res
            /\ h.clean = rcpt[x].clean /\ Put(x, h)
        BY <3>2, <4>1, HeaderFacts DEF AttachEvidence
      <4> HIDE DEF h
      <4>3. rcpt'[x] = h /\ \A y \in Receipts \ {x} : rcpt'[y] = rcpt[y]
        BY <1>1, <4>2 DEF StoreTyped, Put
      <4>4. h # Blank /\ rcpt[x] # Blank
        BY <4>1, <4>2, HeaderFacts
      <4> QED BY <4>2, <4>3, <4>4
    <3> QED BY <1>5, <3>1, <3>2
  <2>2. Honest(x)'
    BY <1>1, <1>3, <2>1 DEF Honest, Fresh
  <2>3. /\ (\A y \in Receipts : Honest(y)') /\ Kept(p)
        /\ \A y \in Receipts \ {x} : Fresh(y) => Fresh(y)'
    BY <1>1, <1>3, <2>1, <2>2, LoneElse
  <2>4. PICK l \in {"serve", "wipe"} : /\ Goto(p, l) /\ l \in Places
                                       /\ l = "serve" <=> own[p] = x
    BY <1>5 DEF Places
  <2>5. /\ pc'[p] = l /\ own'[p] = own[p] /\ at'[p] = x /\ snap'[p] = snap[p]
        /\ todo'[p] = todo[p]
    BY <1>1, <1>2, <1>5, <2>4, ReceiptMoves
  <2>6. Owns(p)'
    BY <1>2, <1>3, <2>3, <2>4, <2>5, LoneOwn
  <2>7. /\ l = "serve" => rcpt[x].phase = 1
        /\ l = "wipe" => Copied(p) /\ Replays(snap[p])
    BY <1>1, <1>2, <2>4 DEF Aware
  <2>8. Copied(p) /\ Replays(snap[p]) => Copied(p)' /\ Replays(snap[p])'
    BY <1>2, <2>1, <2>5 DEF Copied, Replays
  <2>9. Aware(p)'
    BY <2>1, <2>4, <2>5, <2>6, <2>7, <2>8 DEF Aware
  <2> QED BY <2>3, <2>9 DEF LoneStep
<1> QED BY <1>2, <1>4, <1>5 DEF Bind

LEMMA LoneServe ==
    ASSUME NEW p, ReceiptAssumption, LoneState(p), Serve(p)
    PROVE  LoneStep(p)
<1> USE ReceiptNames
<1>1. /\ p \in Procs /\ StoreTyped /\ ProcsTyped
      /\ ReceiptOK /\ RequestOK(p)
      /\ (\A y \in Receipts : Honest(y)) /\ Aware(p)
  BY LoneKnows
<1>2. PICK x \in Receipts : x = at[p] /\ x = own[p] /\ pc[p] = "serve"
  BY <1>1 DEF RequestOK, Serve
<1>3. UNCHANGED <<rcpt, chunks, rows, target, did, tomb, born, faults>>
  BY DEF Serve, durable
<1>4. (\A y \in Receipts : Honest(y)') /\ Kept(p)
  BY <1>1, <1>3, LoneSame
<1>5. CASE End(p)
  BY <1>4, <1>5, LoneEnds DEF LoneStep
<1>6. CASE ~End(p)
  <2>1. rcpt[x].phase = 1 /\ x # "none"
    BY <1>1, <1>2 DEF Aware, ReceiptAssumption
  <2>2. /\ snap' = [snap EXCEPT ![p] = rcpt[x]] /\ own' = [own EXCEPT ![p] = "none"]
        /\ Goto(p, "rebegin") /\ UNCHANGED <<at, todo, out>>
    BY <1>2, <1>6, <2>1 DEF Serve
  <2>3. /\ pc'[p] = "rebegin" /\ own'[p] = "none" /\ at'[p] = x /\ snap'[p] = rcpt[x]
        /\ todo'[p] = todo[p]
    BY <1>1, <1>2, <2>2 DEF ProcsTyped, Goto
  <2>4. Copied(p)' /\ Replays(snap[p])' /\ Owns(p)'
    BY <1>3, <2>1, <2>3 DEF Copied, Replays, Owns
  <2>5. Aware(p)'
    BY <2>1, <2>3, <2>4 DEF Aware
  <2> QED BY <1>4, <2>5 DEF LoneStep
<1> QED BY <1>5, <1>6

LEMMA LoneWipe ==
    ASSUME NEW p, ReceiptAssumption, LoneState(p), Wipe(p)
    PROVE  LoneStep(p)
<1> USE ReceiptNames
<1>1. /\ p \in Procs /\ StoreTyped /\ ProcsTyped
      /\ ReceiptOK /\ RequestOK(p)
      /\ (\A y \in Receipts : Honest(y)) /\ Aware(p)
  BY LoneKnows
<1>2. PICK x \in Receipts : x = at[p] /\ pc[p] = "wipe"
  BY <1>1 DEF RequestOK, Wipe
<1>3. UNCHANGED <<rcpt, chunks, rows, did, tomb, born>>
  BY DEF Wipe
<1>4. /\ own[p] # x /\ snap[p].phase = rcpt[x].phase /\ snap[p].res = rcpt[x].res
      /\ Replays(snap[p]) /\ Kind[x] = "bundle"
  BY <1>1, <1>2 DEF Aware, Copied, RequestOK
<1>5. rcpt[x].phase \in {1, 2} /\ rows[x].result = "none" /\ rcpt[x].res # "done"
  <2>1. CASE rcpt[x].phase = 1
    BY <1>1, <2>1 DEF Honest, ReceiptOK
  <2>2. CASE rcpt[x].phase # 1
    <3>1. rcpt[x].phase \in {2, 3} /\ ~Complete(rcpt[x].res)
      BY <1>4, <2>2 DEF Replays
    <3>2. rows[x].result = "none"
      BY <1>1, <1>4, <3>1 DEF Honest
    <3>3. rcpt[x].phase # 3
      BY <1>1, <3>2 DEF ReceiptOK
    <3> QED BY <3>1, <3>2, <3>3 DEF Complete
  <2> QED BY <2>1, <2>2
<1>6. x \in born
  BY <1>1, <1>5, LoneBorn
<1>7. CASE ~SameEntry(x)
  <2>1. End(p) /\ UNCHANGED target
    BY <1>2, <1>7 DEF Wipe
  <2> QED BY <1>1, <1>3, <2>1, LoneSame, LoneEnds DEF LoneStep
<1>8. CASE SameEntry(x)
  <2>1. PICK o \in {"done", "unsynced", "partial"} :
                  /\ target' = [target EXCEPT ![x] = IF o = "done" THEN "gone"
                                    ELSE IF o = "unsynced" /\ @ = "there" THEN "removed" ELSE @]
                  /\ out' = [out EXCEPT ![p] = o]
    BY <1>2, <1>8 DEF Wipe
  <2>2. Goto(p, "record") /\ Keep
    BY <1>2, <1>4, <1>5, <1>8 DEF Wipe
  <2>3. o = "done" => target'[x] = "gone"
    BY <1>1, <2>1 DEF StoreTyped
  <2>4. \A y \in Receipts \ {x} : target'[y] = target[y]
    BY <1>1, <2>1 DEF StoreTyped
  <2>5. Honest(x)'
    BY <1>1, <1>3, <1>5, <1>6 DEF Honest, Nothing
  <2>6. /\ (\A y \in Receipts : Honest(y)') /\ Kept(p)
        /\ \A y \in Receipts \ {x} : Fresh(y) => Fresh(y)'
    BY <1>1, <1>3, <2>4, <2>5, LoneElse
  <2>7. /\ pc'[p] = "record" /\ out'[p] = o /\ own'[p] = own[p] /\ at'[p] = x
        /\ snap'[p] = snap[p] /\ todo'[p] = todo[p]
    <3>1. o \in Results /\ "record" \in Places
      BY DEF Results, Places
    <3> QED BY <1>1, <1>2, <2>1, <2>2, <3>1, ReceiptGoes
  <2>8. Owns(p)'
    BY <1>2, <1>3, <2>6, <2>7, LoneOwn
  <2>9. o \notin Nothing /\ 1 \in 0..2 /\ 2 \in 0..2
    BY DEF Nothing
  <2>10. Aware(p)'
    BY <1>3, <1>4, <1>5, <2>3, <2>7, <2>8, <2>9 DEF Aware
  <2> QED BY <2>6, <2>10 DEF LoneStep
<1> QED BY <1>7, <1>8

LEMMA LoneRecord ==
    ASSUME NEW p, ReceiptAssumption, LoneState(p), Record(p)
    PROVE  LoneStep(p)
<1> USE ReceiptNames
<1>1. /\ p \in Procs /\ StoreTyped /\ ProcsTyped
      /\ ReceiptOK /\ RequestOK(p)
      /\ (\A y \in Receipts : Honest(y)) /\ Aware(p)
  BY LoneKnows
<1>2. PICK x \in Receipts : x = at[p] /\ pc[p] = "record"
  BY <1>1 DEF RequestOK, Record
<1>3. UNCHANGED <<rows, target, did, tomb, born, faults>>
  BY DEF Record
<1>4. CASE End(p) /\ UNCHANGED <<rcpt, chunks>>
  BY <1>1, <1>3, <1>4, LoneSame, LoneEnds DEF LoneStep
<1>5. /\ rcpt[x].phase \in 0..2 /\ rows[x].result = "none" /\ x \in born
      /\ out[p] \in Nothing => ~did[x]
      /\ out[p] = "done" => target[x] = "gone"
      /\ out[p] \in Results
  <2>1. /\ rcpt[x].phase \in 0..2 /\ rows[x].result = "none"
        /\ out[p] \in Nothing => ~did[x]
        /\ out[p] = "done" => target[x] = "gone"
    BY <1>1, <1>2 DEF Aware
  <2>2. out[p] \in Results
    BY <1>1, <1>2 DEF RequestOK, ProcsTyped
  <2>3. rcpt[x].phase \in 0..3
    BY <2>1
  <2> QED BY <1>1, <2>1, <2>2, <2>3, LoneBorn
<1>6. CASE /\ Whole(x)
           /\ Put(x, [rcpt[x] EXCEPT !.phase = 2, !.res = out[p]])
           /\ chunks' = [chunks EXCEPT ![x] = @ \/ x \in Chunked]
           /\ IF Kind[x] = "bundle" /\ ~BundleComplete(out[p]) THEN End(p)
              ELSE /\ Goto(p, IF /\ Kind[x] = "bundle" /\ snap[p] # NoReceipt
                                        /\ snap[p].phase # 0
                                     THEN "late_intent" ELSE "audit")
                   /\ Keep /\ UNCHANGED out
  <2> DEFINE h == [rcpt[x] EXCEPT !.phase = 2, !.res = out[p]]
  <2>1. rcpt[x] \in Headers
    BY <1>1, <1>6 DEF StoreTyped, Whole, Pending
  <2>2. /\ h \in Headers /\ h.phase = 2 /\ h.res = out[p] /\ h.clean = rcpt[x].clean
        /\ Put(x, h)
    BY <1>5, <1>6, <2>1, HeaderFacts
  <2> HIDE DEF h
  <2>3. /\ rcpt'[x] = h /\ h # Blank /\ (x \in Chunked => chunks'[x])
        /\ \A y \in Receipts \ {x} : rcpt'[y] = rcpt[y] /\ chunks'[y] = chunks[y]
    <3>1. rcpt'[x] = h /\ \A y \in Receipts \ {x} : rcpt'[y] = rcpt[y]
      BY <1>1, <2>2 DEF StoreTyped, Put
    <3>2. (x \in Chunked => chunks'[x]) /\ \A y \in Receipts \ {x} : chunks'[y] = chunks[y]
      BY <1>1, <1>6 DEF StoreTyped
    <3> QED BY <2>2, <3>1, <3>2, HeaderFacts
  <2>4. h.clean = "none"
    <3>1. rcpt[x].phase # 3
      BY <1>5
    <3> QED BY <1>1, <2>2, <3>1 DEF Honest
  <2>5. Honest(x)'
    BY <1>3, <1>5, <2>2, <2>3, <2>4 DEF Honest, Nothing
  <2>6. /\ (\A y \in Receipts : Honest(y)') /\ Kept(p)
        /\ \A y \in Receipts \ {x} : Fresh(y) => Fresh(y)'
    BY <1>1, <1>3, <2>3, <2>5, LoneElse
  <2>7. CASE End(p)
    BY <2>6, <2>7, LoneEnds DEF LoneStep
  <2>8. CASE ~End(p)
    <3>1. PICK l \in {"late_intent", "audit"} :
             /\ Goto(p, l) /\ Keep /\ UNCHANGED out /\ l \in Places
             /\ Kind[x] = "bundle" => Complete(out[p])
      BY <1>6, <2>8 DEF Places, Complete, BundleComplete
    <3>2. /\ pc'[p] = l /\ out'[p] = out[p] /\ own'[p] = own[p] /\ at'[p] = x
          /\ snap'[p] = snap[p] /\ todo'[p] = todo[p]
      BY <1>1, <1>2, <3>1, ReceiptMoves
    <3>3. Owns(p)'
      BY <1>2, <1>3, <2>6, <3>2, LoneOwn
    <3>4. Fits(p)'
      BY <2>2, <2>3, <3>2 DEF Fits
    <3>5. Aware(p)'
      BY <2>2, <2>3, <3>1, <3>2, <3>3, <3>4 DEF Aware
    <3> QED BY <2>6, <3>5 DEF LoneStep
  <2> QED BY <2>7, <2>8
<1>7. rcpt[x].phase # 3
  BY <1>5
<1> QED BY <1>2, <1>4, <1>6, <1>7 DEF Record

LEMMA LoneRecordChunksOnly ==
    ASSUME NEW p, ReceiptAssumption, LoneState(p), RecordChunksOnly(p)
    PROVE  LoneStep(p)
<1> USE ReceiptNames
<1>1. /\ p \in Procs /\ StoreTyped /\ ProcsTyped
      /\ ReceiptOK /\ RequestOK(p)
      /\ (\A y \in Receipts : Honest(y)) /\ Aware(p)
  BY LoneKnows
<1>2. PICK x \in Receipts : x = at[p] /\ pc[p] = "record"
  BY <1>1 DEF RequestOK, RecordChunksOnly
<1>3. /\ UNCHANGED <<rcpt, rows, target, did, tomb, born>> /\ End(p)
      /\ chunks' = [chunks EXCEPT ![x] = TRUE] /\ rcpt[x] # Blank /\ rcpt[x].phase < 2
  BY <1>2 DEF RecordChunksOnly, Pending
<1>4. \A y \in Receipts \ {x} : chunks'[y] = chunks[y]
  BY <1>1, <1>3 DEF StoreTyped
<1>5. rcpt[x].phase \in {0, 1} /\ rcpt[x].res = "none"
  <2>1. rcpt[x] \in Headers
    BY <1>1, <1>3 DEF StoreTyped
  <2>2. rcpt[x].phase \in 0..3
    BY <2>1 DEF Headers
  <2>3. rcpt[x].phase \in {0, 1}
    BY <1>3, <2>2
  <2> QED BY <1>1, <2>3 DEF ReceiptOK
<1>6. Honest(x)'
  BY <1>1, <1>3, <1>5 DEF Honest, Fresh
<1>7. (\A y \in Receipts : Honest(y)') /\ Kept(p)
  BY <1>1, <1>3, <1>4, <1>6, LoneElse
<1> QED BY <1>3, <1>7, LoneEnds DEF LoneStep

LEMMA LoneAudit ==
    ASSUME NEW p, ReceiptAssumption, LoneState(p), Audit(p)
    PROVE  LoneStep(p)
<1> USE ReceiptNames
<1>1. /\ p \in Procs /\ StoreTyped /\ ProcsTyped
      /\ ReceiptOK /\ RequestOK(p)
      /\ (\A y \in Receipts : Honest(y)) /\ Aware(p)
  BY LoneKnows
<1>2. PICK x \in Receipts : x = at[p] /\ pc[p] = "audit"
  BY <1>1 DEF RequestOK, Audit
<1>3. /\ rows' = [rows EXCEPT ![x].result = ResultRow(rows[x].result, out[p])]
      /\ UNCHANGED <<rcpt, chunks, target, did, tomb, born, faults, out>>
      /\ Goto(p, "mark") /\ Keep
  BY <1>1, <1>2 DEF Audit, StoreTyped
<1>4. /\ rows'[x].result = IF rows[x].result = "none" THEN out[p] ELSE rows[x].result
      /\ \A y \in Receipts \ {x} : rows'[y] = rows[y]
  BY <1>1, <1>3 DEF StoreTyped, Audits, ResultRow
<1>5. /\ rcpt[x].phase \in {2, 3} /\ (Kind[x] = "bundle" => Complete(rcpt[x].res))
      /\ \/ out[p] = rcpt[x].res
         \/ /\ rcpt[x].res = "unsynced" /\ target[x] = "gone"
            /\ out[p] \in {"done", "unsynced"}
  BY <1>1, <1>2 DEF Aware, Fits
<1>6. x \in born
  <2>1. rcpt[x].phase \in 0..3
    BY <1>5
  <2> QED BY <1>1, <2>1, LoneBorn
<1>7. Honest(x)'
  <2>1. CASE rows[x].result # "none"
    BY <1>1, <1>3, <1>4, <1>6, <2>1 DEF Honest, Fresh
  <2>2. CASE rows[x].result = "none"
    <3>1. rows'[x].result = out[p]
      BY <1>4, <2>2
    <3>2. /\ out[p] \in Nothing => ~did[x]
          /\ out[p] = "done" => target[x] = "gone"
      BY <1>1, <1>5 DEF Honest, Nothing
    <3> QED BY <1>1, <1>3, <1>5, <1>6, <3>1, <3>2 DEF Honest
  <2> QED BY <2>1, <2>2
<1>8. /\ (\A y \in Receipts : Honest(y)') /\ Kept(p)
      /\ \A y \in Receipts \ {x} : Fresh(y) => Fresh(y)'
  BY <1>1, <1>3, <1>4, <1>7, LoneElse
<1>9. /\ pc'[p] = "mark" /\ out'[p] = out[p] /\ own'[p] = own[p] /\ at'[p] = x
      /\ snap'[p] = snap[p] /\ todo'[p] = todo[p]
  <2>1. "mark" \in Places
    BY DEF Places
  <2> QED BY <1>1, <1>2, <1>3, <2>1, ReceiptMoves
<1>10. Owns(p)'
  BY <1>2, <1>3, <1>8, <1>9, LoneOwn
<1>11. Fits(p)'
  BY <1>3, <1>5, <1>9 DEF Fits
<1>12. Aware(p)'
  BY <1>3, <1>5, <1>9, <1>10, <1>11 DEF Aware
<1> QED BY <1>8, <1>12 DEF LoneStep

LEMMA LoneMark ==
    ASSUME NEW p, ReceiptAssumption, LoneState(p), Mark(p)
    PROVE  LoneStep(p)
<1> USE ReceiptNames
<1>1. /\ p \in Procs /\ StoreTyped /\ ProcsTyped
      /\ ReceiptOK /\ RequestOK(p)
      /\ (\A y \in Receipts : Honest(y)) /\ Aware(p)
  BY LoneKnows
<1>2. PICK x \in Receipts : x = at[p] /\ pc[p] = "mark"
  BY <1>1 DEF RequestOK, Mark
<1>3. UNCHANGED <<chunks, rows, target, did, tomb, born, faults>>
  BY DEF Mark
<1>4. CASE End(p) /\ UNCHANGED rcpt
  BY <1>1, <1>3, <1>4, LoneSame, LoneEnds DEF LoneStep
<1>5. /\ rcpt[x].phase \in {2, 3} /\ (Kind[x] = "bundle" => Complete(rcpt[x].res))
      /\ \/ out[p] = rcpt[x].res
         \/ /\ rcpt[x].res = "unsynced" /\ target[x] = "gone"
            /\ out[p] \in {"done", "unsynced"}
  BY <1>1, <1>2 DEF Aware, Fits
<1>6. CASE /\ Put(x, [rcpt[x] EXCEPT !.phase = 3])
           /\ \/ End(p)
              \/ out[p] # "unsynced" /\ Goto(p, "ack") /\ Keep /\ UNCHANGED out
  <2> DEFINE h == [rcpt[x] EXCEPT !.phase = 3]
  <2>1. rcpt[x] \in Headers /\ x \in born /\ rcpt[x] # Blank
    <3>1. rcpt[x].phase \in 0..3
      BY <1>5
    <3> QED BY <1>1, <3>1, LoneBorn
  <2>2. h \in Headers /\ h.phase = 3 /\ h.res = rcpt[x].res /\ h.clean = rcpt[x].clean
    BY <2>1 DEF Headers
  <2>3. Put(x, h)
    BY <1>6
  <2> HIDE DEF h
  <2>4. /\ rcpt'[x] = h /\ h # Blank /\ \A y \in Receipts \ {x} : rcpt'[y] = rcpt[y]
    BY <1>1, <2>2, <2>3, HeaderFacts DEF StoreTyped, Put
  <2>5. Honest(x)'
    BY <1>1, <1>3, <1>5, <2>1, <2>2, <2>4 DEF Honest
  <2>6. /\ (\A y \in Receipts : Honest(y)') /\ Kept(p)
        /\ \A y \in Receipts \ {x} : Fresh(y) => Fresh(y)'
    BY <1>1, <1>3, <2>4, <2>5, LoneElse
  <2>7. CASE End(p)
    BY <2>6, <2>7, LoneEnds DEF LoneStep
  <2>8. CASE out[p] # "unsynced" /\ Goto(p, "ack") /\ Keep /\ UNCHANGED out
    <3>1. "ack" \in Places
      BY DEF Places
    <3>2. /\ pc'[p] = "ack" /\ own'[p] = own[p] /\ at'[p] = x /\ snap'[p] = snap[p]
          /\ todo'[p] = todo[p]
      BY <1>1, <1>2, <2>8, <3>1, ReceiptMoves
    <3>3. Owns(p)'
      BY <1>2, <1>3, <2>6, <3>2, LoneOwn
    <3>4. h.res = "unsynced" => target'[x] = "gone"
      BY <1>3, <1>5, <2>2, <2>8
    <3>5. Aware(p)'
      BY <2>2, <2>4, <3>2, <3>3, <3>4 DEF Aware
    <3> QED BY <2>6, <3>5 DEF LoneStep
  <2> QED BY <1>6, <2>7, <2>8
<1> QED BY <1>2, <1>4, <1>6 DEF Mark, NeedsDurability

LEMMA LoneAck ==
    ASSUME NEW p, ReceiptAssumption, LoneState(p), Ack(p)
    PROVE  LoneStep(p)
<1> USE ReceiptNames
<1>1. /\ p \in Procs /\ StoreTyped /\ ProcsTyped
      /\ ReceiptOK /\ RequestOK(p)
      /\ (\A y \in Receipts : Honest(y)) /\ Aware(p)
  BY LoneKnows
<1>2. PICK x \in Receipts : x = at[p] /\ pc[p] = "ack"
  BY <1>1 DEF RequestOK, Ack
<1>3. UNCHANGED <<rows, target, did, tomb, born, faults>>
  BY DEF Ack
<1>4. CASE End(p) /\ UNCHANGED <<rcpt, chunks>>
  BY <1>1, <1>3, <1>4, LoneSame, LoneEnds DEF LoneStep
<1>5. CASE /\ rcpt[x].phase = 3 /\ Put(x, Blank)
           /\ chunks' = [chunks EXCEPT ![x] = @ /\ x \notin Chunked]
           /\ AfterAck(p)
  <2>1. /\ rcpt'[x] = Blank
        /\ \A y \in Receipts \ {x} : rcpt'[y] = rcpt[y] /\ chunks'[y] = chunks[y]
    BY <1>1, <1>5 DEF StoreTyped, Put
  <2>2. x \in born /\ Blank.phase = 9 /\ Blank.clean = "none"
    <3>1. rcpt[x].phase \in 0..3
      BY <1>5
    <3> QED BY <1>1, <3>1, LoneBorn DEF Blank
  <2>3. Honest(x)'
    BY <1>1, <1>3, <2>1, <2>2 DEF Honest
  <2>4. /\ (\A y \in Receipts : Honest(y)') /\ Kept(p)
        /\ \A y \in Receipts \ {x} : Fresh(y) => Fresh(y)'
    BY <1>1, <1>2, <1>3, <2>1, <2>3, LoneElse
  <2>5. CASE End(p)
    BY <2>4, <2>5, LoneEnds DEF LoneStep
  <2>6. CASE /\ at[p] # own[p] /\ todo' = [todo EXCEPT ![p] = @ \ {at[p]}]
             /\ Goto(p, "scan") /\ at' = [at EXCEPT ![p] = None]
             /\ snap' = [snap EXCEPT ![p] = NoReceipt] /\ UNCHANGED own
    <3>1. /\ pc'[p] = "scan" /\ at'[p] = "none" /\ todo'[p] \subseteq todo[p]
          /\ own'[p] = own[p]
      BY <1>1, <2>6 DEF ProcsTyped, Goto
    <3>2. PICK z \in Receipts \cup {"none"} : z = own[p] /\ z # x
      BY <1>1, <1>2, <2>6 DEF ProcsTyped
    <3>3. z # "none" => z \in born' /\ z \notin todo'[p] /\ Fresh(z)'
      BY <1>1, <1>2, <1>3, <2>4, <3>1, <3>2 DEF Aware, Owns
    <3>4. Owns(p)'
      BY <3>1, <3>2, <3>3 DEF Owns
    <3>5. Aware(p)'
      BY <3>1, <3>4 DEF Aware
    <3> QED BY <2>4, <3>5 DEF LoneStep
  <2> QED BY <1>5, <2>5, <2>6 DEF AfterAck
<1> QED BY <1>2, <1>4, <1>5 DEF Ack

LEMMA LoneAckStops ==
    ASSUME NEW p, ReceiptAssumption, LoneState(p), AckStops(p)
    PROVE  LoneStep(p)
<1> USE ReceiptNames
<1>1. /\ p \in Procs /\ StoreTyped /\ ProcsTyped
      /\ ReceiptOK /\ RequestOK(p)
      /\ (\A y \in Receipts : Honest(y)) /\ Aware(p)
  BY LoneKnows
<1>2. PICK x \in Receipts : x = at[p] /\ pc[p] = "ack"
  BY <1>1 DEF RequestOK, AckStops
<1>3. /\ UNCHANGED <<rows, target, did, tomb, born>> /\ End(p)
      /\ rcpt[x] # Blank /\ rcpt[x].phase = 3
  BY <1>2 DEF AckStops, Pending
<1>4. PICK c \in {"chunks", "header"} :
         /\ Put(x, [rcpt[x] EXCEPT !.clean = c])
         /\ chunks' = chunks \/ chunks' = [chunks EXCEPT ![x] = FALSE]
         /\ c = "header" => chunks' = [chunks EXCEPT ![x] = FALSE]
  BY <1>2 DEF AckStops
<1> DEFINE h == [rcpt[x] EXCEPT !.clean = c]
<1>5. rcpt[x] \in Headers /\ x \in born
  BY <1>1, <1>3 DEF StoreTyped, Honest, Fresh
<1>6. h \in Headers /\ h.phase = 3 /\ h.res = rcpt[x].res /\ h.clean = c
  BY <1>3, <1>5, HeaderFacts
<1>7. Put(x, h)
  BY <1>4
<1> HIDE DEF h
<1>8. /\ rcpt'[x] = h /\ h # Blank /\ \A y \in Receipts \ {x} : rcpt'[y] = rcpt[y]
  BY <1>1, <1>6, <1>7, HeaderFacts DEF StoreTyped, Put
<1>9. /\ \A y \in Receipts \ {x} : chunks'[y] = chunks[y]
      /\ c = "header" => ~chunks'[x]
  BY <1>1, <1>4 DEF StoreTyped
<1>10. Honest(x)'
  BY <1>1, <1>3, <1>5, <1>6, <1>8, <1>9 DEF Honest
<1>11. (\A y \in Receipts : Honest(y)') /\ Kept(p)
  BY <1>1, <1>3, <1>8, <1>9, <1>10, LoneElse
<1> QED BY <1>3, <1>11, LoneEnds DEF LoneStep

LEMMA LoneArrives ==
    ASSUME NEW p, ReceiptAssumption, LoneState(p),
           Fault(p) \/ \E x \in Receipts : Call(p, x) \/ Replay(p, x)
    PROVE  LoneStep(p)
<1> USE ReceiptNames
<1>1. /\ p \in Procs /\ StoreTyped /\ ProcsTyped
      /\ RequestOK(p) /\ (\A y \in Receipts : Honest(y)) /\ Aware(p)
  BY LoneKnows
<1>2. UNCHANGED <<rcpt, chunks, rows, target, did>>
  BY DEF Fault, Call, Replay, durable
<1>3. CASE Fault(p)
  BY <1>1, <1>2, <1>3, LoneSame, LoneEnds DEF LoneStep, Fault
<1>4. ASSUME NEW x \in Receipts, Call(p, x)
      PROVE  LoneStep(p)
  <2>1. /\ born' = born \cup {x} /\ x \notin born /\ pc[p] = "idle" /\ at'[p] = at[p]
        /\ pc'[p] = "scan" /\ own'[p] = x /\ todo'[p] = Listed
    BY <1>1, <1>4 DEF Call, Goto, ProcsTyped
  <2>2. Fresh(x) /\ Fresh(x)' /\ x \notin Listed
    BY <1>1, <1>2, <2>1 DEF Honest, Fresh, Listed, Pending
  <2>3. \A y \in Receipts : Honest(y)'
    BY <1>1, <1>2, <2>1 DEF Honest, Fresh
  <2>4. Kept(p)
    BY <1>2 DEF Kept
  <2>5. at'[p] = "none" /\ x # "none"
    BY <1>1, <2>1 DEF Aware, ReceiptAssumption
  <2>6. Owns(p)'
    BY <2>1, <2>2, <2>5 DEF Owns
  <2>7. Aware(p)'
    BY <2>1, <2>5, <2>6 DEF Aware
  <2> QED BY <2>3, <2>4, <2>7 DEF LoneStep
<1>5. ASSUME NEW x \in Receipts, Replay(p, x)
      PROVE  LoneStep(p)
  <2>1. /\ born' = born /\ rcpt[x] # Blank /\ pc[p] = "idle" /\ at'[p] = at[p]
        /\ pc'[p] = "scan" /\ own'[p] = own[p] /\ todo'[p] = {x}
    BY <1>1, <1>5 DEF Replay, Goto, ProcsTyped, Pending
  <2>2. (\A y \in Receipts : Honest(y)') /\ Kept(p) /\ \A y \in Receipts : Fresh(y) => Fresh(y)'
    BY <1>1, <1>2, <2>1, LoneSame
  <2>3. at[p] = "none"
    BY <1>1, <2>1 DEF Aware
  <2>4. PICK z \in Receipts \cup {"none"} : z = own[p]
    BY <1>1 DEF ProcsTyped
  <2>5. z # "none" => z \in born' /\ z # x /\ Fresh(z)'
    <3>1. z # "none" => Fresh(z) /\ z \in born
      BY <1>1, <2>3, <2>4 DEF Aware, Owns
    <3>2. z # "none" => z # x
      BY <2>1, <3>1 DEF Fresh
    <3> QED BY <2>1, <2>2, <3>1, <3>2
  <2>6. Owns(p)'
    BY <2>1, <2>3, <2>4, <2>5 DEF Owns
  <2>7. Aware(p)'
    BY <2>1, <2>3, <2>6 DEF Aware
  <2> QED BY <2>2, <2>7 DEF LoneStep
<1> QED BY <1>3, <1>4, <1>5

\* What no process does leaves what is gone.
LEMMA LoneOutside ==
    ASSUME NEW p, ReceiptAssumption, LoneState(p),
           Crash \/ \E x \in Receipts : Vanish(x) \/ Change(x)
    PROVE  (\A x \in Receipts : Honest(x)') /\ Aware(p)' /\ Kept(p)
<1> USE ReceiptNames
<1>1. /\ p \in Procs /\ StoreTyped /\ ProcsTyped
      /\ RequestOK(p) /\ (\A y \in Receipts : Honest(y)) /\ Aware(p)
  BY LoneKnows
<1>2. UNCHANGED <<rcpt, chunks, rows, did, born>>
  BY DEF Crash, Vanish, Change
<1>3. \A y \in Receipts : target[y] = "gone" => target'[y] = "gone"
  <2>1. CASE Crash
    BY <2>1 DEF Crash
  <2>2. ASSUME NEW x \in Receipts, Vanish(x) \/ Change(x)
        PROVE  \A y \in Receipts : target[y] = "gone" => target'[y] = "gone"
    BY <1>1, <2>2 DEF StoreTyped, Vanish, Change
  <2> QED BY <2>1, <2>2
<1>4. \A x \in Receipts : Honest(x)'
  BY <1>1, <1>2, <1>3 DEF Honest, Fresh
<1>5. Kept(p)
  BY <1>2 DEF Kept
<1>6. CASE Crash
  <2>1. pc'[p] = "idle" /\ own'[p] = "none" /\ at'[p] = "none"
    BY <1>1, <1>6 DEF Crash
  <2>2. Aware(p)'
    BY <2>1 DEF Aware, Owns
  <2> QED BY <1>4, <1>5, <2>2
<1>7. CASE \E x \in Receipts : Vanish(x) \/ Change(x)
  <2>1. UNCHANGED <<pc, own, at, todo, snap, out>>
    BY <1>7 DEF Vanish, Change
  <2>2. Owns(p)' /\ (Copied(p) => Copied(p)') /\ (Replays(snap[p]) <=> Replays(snap[p])')
    BY <1>1, <1>2, <2>1 DEF Aware, Owns, Fresh, Copied, Replays
  <2>3. pc[p] \notin {"idle", "scan"} => at[p] \in Receipts
    BY <1>1 DEF RequestOK
  <2>4. pc[p] \notin {"idle", "scan"} /\ Fits(p) => Fits(p)'
    BY <1>2, <1>3, <2>1, <2>3 DEF Fits
  <2>5. Aware(p)'
    BY <1>1, <1>2, <1>3, <2>1, <2>2, <2>3, <2>4 DEF Aware
  <2> QED BY <1>4, <1>5, <2>5
<1> QED BY <1>6, <1>7

LEMMA LoneAny ==
    ASSUME NEW p, ReceiptAssumption, LoneState(p), Next
    PROVE  (\A x \in Receipts : Honest(x)') /\ Aware(p)' /\ Kept(p)
<1>1. CASE Crash \/ \E x \in Receipts : Vanish(x) \/ Change(x)
  BY <1>1, LoneOutside
<1>2. CASE Fault(p) \/ \E x \in Receipts : Call(p, x) \/ Replay(p, x)
  BY <1>2, LoneArrives DEF LoneStep
<1>3. CASE Step(p)
  BY <1>3, LoneScan, LoneReplayIntent, LoneRecover, LoneConfirm, LonePrepare, LoneIntent,
     LoneBegin,
     LoneTombstone, LoneMutate, LoneTorn, LoneCreateBundle, LoneBind, LoneServe, LoneWipe,
     LoneRecord, LoneRecordChunksOnly, LoneAudit, LoneMark, LoneAck, LoneAckStops
     DEF Step, LoneStep
<1>4. Procs = {p}
  BY DEF LoneState
<1> QED BY <1>1, <1>2, <1>3, <1>4 DEF Next

LEMMA LoneNext ==
    ASSUME NEW p, ReceiptAssumption, LoneState(p), [Next]_vars
    PROVE  LoneState(p)' /\ Kept(p)
<1>1. ReceiptState'
  BY ReceiptNext DEF LoneState
<1>2. CASE Next
  BY <1>1, <1>2, LoneAny DEF LoneState
<1>3. CASE UNCHANGED vars
  <2>1. UNCHANGED <<rcpt, chunks, rows, target, did, born, pc, own, at, todo, snap, out>>
    BY <1>3 DEF vars
  <2>2. (\A x \in Receipts : Honest(x)') /\ Kept(p)
    BY <2>1, LoneSame DEF LoneState
  <2>3. Aware(p)'
    BY <2>1 DEF LoneState, Aware, Owns, Fresh, Copied, Replays, Fits
  <2> QED BY <1>1, <2>2, <2>3 DEF LoneState
<1> QED BY <1>2, <1>3

LEMMA LoneInit ==
    ASSUME NEW p, Procs = {p}, ReceiptAssumption, Init
    PROVE  LoneState(p)
<1> USE ReceiptNames
<1>1. ReceiptState
  BY ReceiptInit
<1>2. Blank.phase = 9 /\ Blank.clean = "none"
  BY DEF Blank
<1>3. \A x \in Receipts : rcpt[x] = Blank /\ ~did[x] /\ rows[x].result = "none"
  BY DEF Init
<1>4. \A x \in Receipts : Honest(x)
  <2>1. /\ Blank.phase \notin {0, 1} /\ Blank.phase \notin {2, 3} /\ Blank.phase # 0
        /\ Blank.clean = "none" /\ "none" \notin Nothing /\ "none" # "done"
    BY <1>2 DEF Nothing
  <2> QED BY <1>3, <2>1, Zenon DEF Honest, Fresh
<1>5. pc[p] = "idle" /\ own[p] = "none" /\ at[p] = "none"
  BY DEF Init
<1>6. Aware(p)
  BY <1>5 DEF Aware, Owns
<1> QED BY <1>1, <1>4, <1>6 DEF LoneState

\* What the state says: receipts can be read, rows are true, and a receipt that is
\* given up is of a removal that is on disk.
LEMMA LoneGivesReadable ==
    ASSUME NEW p, LoneState(p)
    PROVE  ReceiptsReadable
<1> SUFFICES ASSUME NEW x \in Receipts, rcpt[x] # Blank, x \in Chunked, rcpt[x].res # "none"
             PROVE  CASE rcpt[x].clean = "none" -> chunks[x]
                      [] rcpt[x].clean = "header" -> ~chunks[x]
                      [] OTHER -> TRUE
  BY ReceiptNames DEF ReceiptsReadable, Readable, Pending
<1>1. /\ rcpt[x].clean = "none" => chunks[x]
      /\ rcpt[x].clean = "header" => ~chunks[x]
  BY LoneKnows DEF Honest
<1> QED BY <1>1

LEMMA LoneGivesTrue ==
    ASSUME NEW p, LoneState(p)
    PROVE  AuditTellsEffect
BY LoneKnows DEF AuditTellsEffect, Honest, Nothing

LEMMA LoneGivesSynced ==
    ASSUME NEW p, LoneState(p), Kept(p)
    PROVE  SyncedBeforeAck
<1> SUFFICES ASSUME NEW x \in Receipts, rcpt[x] # Blank, rcpt'[x] = Blank,
                    rows[x].result \in {"done", "unsynced"}
             PROVE  target[x] = "gone"
  BY ReceiptNames DEF SyncedBeforeAck, Pending
<1>1. pc[p] = "ack" /\ at[p] = x
  BY DEF Kept
<1>2. rcpt[x].phase = 3 /\ (rcpt[x].res = "unsynced" => target[x] = "gone")
  BY <1>1, LoneKnows DEF Aware
<1>3. rows[x].result = "done" => target[x] = "gone"
  BY LoneKnows DEF Honest
<1>4. rows[x].result \in {"none", rcpt[x].res} \/ rows[x].result = "done"
  BY <1>2, LoneKnows DEF Honest
<1> QED BY <1>2, <1>3, <1>4
==============================================================================
