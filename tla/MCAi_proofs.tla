---------------------------- MODULE MCAi_proofs ----------------------------
(***************************************************************************)
(* The suite of the AI module, for every value of the constants: first the *)
(* chats, then the connections, then the provider.  The two parts about    *)
(* each differ in their constants only; the invariants have those as       *)
(* parameters, and are shown for each part.                                *)
(***************************************************************************)
EXTENDS MCAi, Sequences, FiniteSetTheorems, WellFoundedInduction, TLAPS

-----------------------------------------------------------------------------
(* What a request and its log are.                                         *)

Pcs == {"idle", "open", "dispatch", "answer", "fail", "persist", "base", "write", "model",
        "log", "found", "end"}
Models == {"ollama", "compatible"}

\* n conversations at most.
Asks(n) ==
    [pc : Pcs, kind : {"chat", "stream", "delete", "update", "none"}, target : 0..(n + 1),
     via : Models \cup {"none"}, pass : 0..2, shown : 0..MaxDeltas, shownIn : SUBSET {1, 2},
     yielded : BOOLEAN, frames : Seq({"citations", "delta", "done", "error"}), base : Nat,
     stored : 0..n, failed : BOOLEAN, model : Models \cup {"none"},
     fate : {"none", "refused", "aborted"}]
Asked(kind, target, pc, fate) ==
    [pc |-> pc, kind |-> kind, target |-> target, via |-> "none", pass |-> 0, shown |-> 0,
     shownIn |-> {}, yielded |-> FALSE, frames |-> <<>>, base |-> 0, stored |-> 0,
     failed |-> FALSE, model |-> "none", fate |-> fate]
LogRows(n) == [status : {"ok", "error", "aborted"}, conv : 0..n, model : Models]
ConvRows(R) == [owner : {Browser, Second}, title : {Browser, Second}, turns : SUBSET [by : R, seq : Nat]]
Gone == [owner |-> "none", title |-> "none", turns |-> {}]

\* What was shown is of the last pass, and there is a second pass only when the
\* first has shown nothing.
PassSound(q) ==
    /\ q.pc \in {"idle", "open"} => q.pass = 0
    /\ q.pc = "dispatch" => q.pass \in 0..1
    /\ q.pc = "answer" => q.pass \in 1..2
    /\ q.shownIn \subseteq {q.pass}
    /\ q.pc \in {"idle", "open", "dispatch"} => q.shownIn = {}
    /\ q.pc = "answer" /\ q.shown = 0 => q.shownIn = {}
    /\ q.yielded => q.pc \in {"dispatch", "answer"}

\* Nothing is stored, and no model named, before the turn is; what was to be kept
\* is stored, or else the request knows that it failed.
StoreSound(q, n) ==
    /\ q.pc \in {"base", "write", "found"} => q.target \in 1..n
    /\ q.pc \notin {"model", "log", "end"} => q.stored = 0 /\ q.model = "none" /\ q.failed = FALSE
    /\ q.pc = "model" => q.model = "none"
    /\ q.pc = "log" => q.model # "none"
    /\ q.pc \in {"model", "log"} => (q.failed = (q.stored = 0 /\ q.target # n + 1))

\* A log row tells what was stored.
RowTells(q, e, n) ==
    /\ e.conv = q.stored
    /\ (e.status = "ok") = (q.stored # 0 \/ (q.target = n + 1 /\ q.model # "none"))

\* There is no log before the end, and one row then at most.
LogSound(q, l, n) ==
    /\ q.pc # "end" => l = <<>>
    /\ l = <<>> \/ \E e \in LogRows(n) : l = <<e>> /\ RowTells(q, e, n)

AskSound(q, l, n) == PassSound(q) /\ StoreSound(q, n) /\ LogSound(q, l, n)

\* Turns are numbered by twos, and no further than requests have stored one.
Storers(R) == {r \in R : req[r].stored # 0}
Numbered(R, n) ==
    /\ \A c \in 1..n : \A t \in convs[c].turns : t.seq + 2 <= 2 * Cardinality(Storers(R))
    /\ \A r \in R : req[r].pc = "write" => req[r].base <= 2 * Cardinality(Storers(R))

ChatTyped(R, n) ==
    /\ provider \in Models /\ switches \in 0..MaxSwitches
    /\ convs \in [1..n -> ConvRows(R) \cup {Gone}]
    /\ req \in [R -> Asks(n)] /\ logs = [r \in R |-> logs[r]]
    /\ \A r \in R : AskSound(req[r], logs[r], n)
    /\ Numbered(R, n)

-----------------------------------------------------------------------------
(* Steps that keep this.                                                   *)

\* A request that has just come is one.
LEMMA AskedTyped ==
    ASSUME NEW n \in Nat, MaxDeltas \in Nat, NEW kind \in {"chat", "stream", "delete", "update", "none"},
           NEW target \in 0..(n + 1), NEW pc \in {"idle", "dispatch", "open", "found", "end"},
           NEW fate \in {"none", "refused"}, pc = "found" => target \in 1..n,
           NEW q, q = Asked(kind, target, pc, fate)
    PROVE  /\ q \in Asks(n) /\ q.stored = 0 /\ q.pc = pc /\ PassSound(q) /\ StoreSound(q, n)
<1>1. <<>> \in Seq({"citations", "delta", "done", "error"}) /\ 0 \in 0..MaxDeltas /\ 0 \in 0..n
  OBVIOUS
<1>2. q \in Asks(n)
  BY <1>1 DEF Asked, Asks, Pcs
<1>3. /\ q.pc = pc /\ q.pass = 0 /\ q.shownIn = {} /\ q.yielded = FALSE /\ q.target = target
      /\ q.stored = 0 /\ q.model = "none" /\ q.failed = FALSE
  BY DEF Asked
<1>4. PassSound(q)
  BY <1>3 DEF PassSound
<1>5. StoreSound(q, n)
  BY <1>3 DEF StoreSound
<1> QED BY <1>2, <1>3, <1>4, <1>5

LEMMA AskedRefused ==
    ASSUME NEW kind, NEW target, NEW pc
    PROVE  [Asked(kind, target, pc, "none") EXCEPT !.pc = "end", !.fate = "refused"]
               = Asked(kind, target, "end", "refused")
<1>1. PICK q : q = Asked(kind, target, pc, "none")
  OBVIOUS
<1>2. PICK p : p = [q EXCEPT !.pc = "end"]
  OBVIOUS
<1>3. p = Asked(kind, target, "end", "none")
  BY <1>1, <1>2 DEF Asked
<1>4. PICK s : s = [p EXCEPT !.fate = "refused"]
  OBVIOUS
<1>5. s = Asked(kind, target, "end", "refused")
  BY <1>3, <1>4 DEF Asked
<1>6. [q EXCEPT !.pc = "end", !.fate = "refused"] = s
  BY <1>2, <1>4
<1> QED BY <1>1, <1>5, <1>6

\* A step that stores nothing keeps the numbers.
LEMMA NumbersKept ==
    ASSUME NEW R, NEW n \in Nat, ChatTyped(R, n), NEW r \in R, NEW q \in Asks(n),
           q.stored = req[r].stored,
           q.pc = "write" => q.base <= 2 * Cardinality(Storers(R)),
           req' = [req EXCEPT ![r] = q],
           \A c \in 1..n : convs'[c].turns \subseteq convs[c].turns
    PROVE  Numbered(R, n)'
<1>1. req \in [R -> Asks(n)] /\ Numbered(R, n)
  BY DEF ChatTyped
<1>2. \A s \in R : req'[s].stored = req[s].stored
  BY <1>1
<1>3. Storers(R)' = Storers(R)
  BY <1>2 DEF Storers
<1>4. PICK k : k = Cardinality(Storers(R))
  OBVIOUS
<1>5. /\ \A c \in 1..n : \A t \in convs[c].turns : t.seq + 2 <= 2 * k
      /\ \A s \in R : req[s].pc = "write" => req[s].base <= 2 * k
  BY <1>1, <1>4 DEF Numbered
<1>6. \A c \in 1..n : \A t \in convs'[c].turns : t.seq + 2 <= 2 * k
  BY <1>5
<1>7. \A s \in R : req'[s].pc = "write" => req'[s].base <= 2 * k
  BY <1>1, <1>4, <1>5
<1> QED BY <1>3, <1>4, <1>6, <1>7 DEF Numbered

\* A request goes on, and conversations lose nothing but turns.
LEMMA Moves ==
    ASSUME NEW R, NEW n \in Nat, ChatTyped(R, n), NEW r \in R, NEW q \in Asks(n), NEW l,
           AskSound(q, l, n), q.stored = req[r].stored,
           q.pc = "write" => q.base <= 2 * Cardinality(Storers(R)),
           req' = [req EXCEPT ![r] = q], logs' = [logs EXCEPT ![r] = l],
           convs' \in [1..n -> ConvRows(R) \cup {Gone}],
           \A c \in 1..n : convs'[c].turns \subseteq convs[c].turns,
           UNCHANGED <<provider, switches>>
    PROVE  ChatTyped(R, n)'
<1>1. Numbered(R, n)'
  BY NumbersKept
<1>2. req \in [R -> Asks(n)] /\ logs = [s \in R |-> logs[s]] /\ \A s \in R : AskSound(req[s], logs[s], n)
  BY DEF ChatTyped
<1>3. /\ req' \in [R -> Asks(n)] /\ logs' = [s \in R |-> logs'[s]]
      /\ req'[r] = q /\ logs'[r] = l
      /\ \A s \in R : s # r => req'[s] = req[s] /\ logs'[s] = logs[s]
  BY <1>2
<1>4. ASSUME NEW s \in R PROVE AskSound(req'[s], logs'[s], n)
  BY <1>2, <1>3
<1>5. provider' \in Models /\ switches' \in 0..MaxSwitches
  BY DEF ChatTyped
<1> QED BY <1>1, <1>3, <1>4, <1>5 DEF ChatTyped

\* A request stores its turn in conversation c.
LEMMA Stores ==
    ASSUME NEW R, IsFiniteSet(R), NEW n \in Nat, ChatTyped(R, n), NEW r \in R, NEW q \in Asks(n),
           NEW l, AskSound(q, l, n), q.stored # 0, req[r].stored = 0, q.pc # "write",
           req' = [req EXCEPT ![r] = q], logs' = [logs EXCEPT ![r] = l],
           NEW c \in 1..n, NEW rec \in ConvRows(R), convs' = [convs EXCEPT ![c] = rec],
           \A t \in rec.turns : t \in convs[c].turns \/ t.seq <= 2 * Cardinality(Storers(R)),
           UNCHANGED <<provider, switches>>
    PROVE  ChatTyped(R, n)'
<1>1. /\ req \in [R -> Asks(n)] /\ logs = [s \in R |-> logs[s]]
      /\ \A s \in R : AskSound(req[s], logs[s], n)
      /\ convs \in [1..n -> ConvRows(R) \cup {Gone}] /\ Numbered(R, n)
  BY DEF ChatTyped
<1>2. /\ req' \in [R -> Asks(n)] /\ logs' = [s \in R |-> logs'[s]]
      /\ req'[r] = q /\ logs'[r] = l
      /\ \A s \in R : s # r => req'[s] = req[s] /\ logs'[s] = logs[s]
      /\ convs' \in [1..n -> ConvRows(R) \cup {Gone}]
      /\ convs'[c] = rec /\ \A d \in 1..n : d # c => convs'[d] = convs[d]
  BY <1>1
<1>3. ASSUME NEW s \in R PROVE AskSound(req'[s], logs'[s], n)
  BY <1>1, <1>2
<1>4. Storers(R)' = Storers(R) \cup {r} /\ r \notin Storers(R)
  BY <1>2 DEF Storers
<1>5. IsFiniteSet(Storers(R))
  BY FS_Subset DEF Storers
<1>6. PICK k \in Nat : k = Cardinality(Storers(R))
  BY <1>5, FS_CardinalityType
<1>7. Cardinality(Storers(R) \cup {r}) = k + 1
  BY <1>4, <1>5, <1>6, FS_AddElement
<1>8. /\ \A d \in 1..n : \A t \in convs[d].turns : t.seq + 2 <= 2 * k
      /\ \A s \in R : req[s].pc = "write" => req[s].base <= 2 * k
  BY <1>1, <1>6 DEF Numbered
<1>9. ASSUME NEW d \in 1..n, NEW t \in convs'[d].turns PROVE t.seq + 2 <= 2 * (k + 1)
  <2>0. convs'[d] \in ConvRows(R) \cup {Gone}
    BY <1>2
  <2>1. t.seq \in Nat
    BY <2>0 DEF ConvRows, Gone
  <2>2. CASE d = c
    <3>1. t \in convs[c].turns \/ t.seq <= 2 * k
      BY <1>2, <1>6, <2>2
    <3>2. t \in convs[c].turns => t.seq + 2 <= 2 * k
      BY <1>8
    <3> QED BY <1>6, <2>1, <3>1, <3>2
  <2>3. CASE d # c
    <3>1. t.seq + 2 <= 2 * k
      BY <1>2, <1>8, <2>3
    <3> QED BY <2>1, <3>1
  <2> QED BY <2>2, <2>3
<1>10. ASSUME NEW s \in R, req'[s].pc = "write" PROVE req'[s].base <= 2 * (k + 1)
  <2>1. s # r /\ req[s].pc = "write" /\ req'[s].base = req[s].base
    BY <1>2, <1>10
  <2>2. req[s].base \in Nat /\ req[s].base <= 2 * k
    BY <1>1, <1>8, <2>1 DEF Asks
  <2> QED BY <2>1, <2>2
<1>11. Numbered(R, n)'
  BY <1>4, <1>7, <1>9, <1>10 DEF Numbered
<1>12. provider' \in Models /\ switches' \in 0..MaxSwitches
  BY DEF ChatTyped
<1> QED BY <1>2, <1>3, <1>11, <1>12 DEF ChatTyped

\* A bounded set of numbers has a greatest element, which Max returns.
LEMMA Greatest ==
    ASSUME NEW N \in Nat, NEW S \in SUBSET (0..N), 0 \in S
    PROVE  Chats!Max(S) \in S /\ \A y \in S : y <= Chats!Max(S)
<1> DEFINE T == {i \in Nat : \E x \in S : i = N - x}
<1>1. T # {} /\ T \subseteq Nat
  <2>1. N - 0 \in T
    OBVIOUS
  <2> QED BY <2>1
<1>2. PICK i \in T : \A j \in T : ~(<<j, i>> \in OpToRel(<, Nat))
  BY <1>1, WFMin, NatLessThanWellFounded
<1>3. ASSUME NEW j \in T PROVE i <= j
  <2>1. <<j, i>> \in Nat \X Nat /\ <<j, i>> \notin OpToRel(<, Nat)
    BY <1>1, <1>2
  <2>2. ~(j < i)
    BY <2>1 DEF OpToRel
  <2> QED BY <1>1, <2>2
<1>4. PICK x \in S : i = N - x
  OBVIOUS
<1>5. \A y \in S : x >= y
  <2> TAKE y \in S
  <2>1. N - y \in T
    OBVIOUS
  <2> QED BY <1>3, <1>4, <2>1
<1>6. PICK m : m = Chats!Max(S)
  OBVIOUS
<1>7. m \in S /\ \A y \in S : m >= y
  BY <1>5, <1>6 DEF Chats!Max
<1>8. \A y \in S : y <= m
  BY <1>7
<1> QED BY <1>6, <1>7, <1>8

\* The number of the next turn follows those there are.
LEMMA NextNumber ==
    ASSUME NEW k \in Nat, NEW turns, \A t \in turns : t.seq \in Nat /\ t.seq + 2 <= 2 * k
    PROVE  /\ Chats!NextSeq(turns) \in Nat /\ Chats!NextSeq(turns) <= 2 * k
           /\ \A t \in turns : t.seq + 2 <= Chats!NextSeq(turns)
<1>1. PICK S : S = {0} \cup {t.seq + 2 : t \in turns}
  OBVIOUS
<1>2. PICK N \in Nat : N = 2 * k
  OBVIOUS
<1>3. S \in SUBSET (0..N) /\ 0 \in S
  BY <1>1, <1>2
<1>4. PICK m : m = Chats!Max(S) /\ m \in S /\ \A y \in S : y <= m
  BY <1>3, Greatest
<1>5. m \in Nat /\ m <= 2 * k /\ \A t \in turns : t.seq + 2 <= m
  BY <1>1, <1>2, <1>3, <1>4
<1>6. Chats!NextSeq(turns) = m
  BY <1>1, <1>4 DEF Chats!NextSeq
<1> QED BY <1>5, <1>6

\* The id of a new row is one that no row has.
LEMMA NewIdFree ==
    ASSUME NEW n \in Nat, NEW S \in SUBSET (1..n)
    PROVE  Chats!Max({0} \cup S) + 1 \notin S
<1>1. PICK T : T = {0} \cup S
  OBVIOUS
<1>2. T \in SUBSET (0..n) /\ 0 \in T
  BY <1>1
<1>3. PICK m : m = Chats!Max(T) /\ m \in T /\ \A y \in T : y <= m
  BY <1>2, Greatest
<1>4. m \in Nat /\ m + 1 \notin T
  BY <1>2, <1>3
<1> QED BY <1>1, <1>3, <1>4

-----------------------------------------------------------------------------
(* The part chats.                                                           *)

LEMMA ChatsTypedInit ==
    ASSUME Chats!Init
    PROVE  ChatTyped(Requests, MaxConv) /\ \A c \in 1..MaxConv : convs[c].turns = {}
<1> USE AiAssumption DEF Chats!ChatAssumption
<1>1. PICK idle : idle = Asked("none", MaxConv + 1, "idle", "none") /\ idle = Chats!Idle
  BY DEF Asked, Chats!Idle, Chats!None, Chats!Temporary
<1>2. /\ idle \in Asks(MaxConv) /\ PassSound(idle) /\ StoreSound(idle, MaxConv)
      /\ idle.pc = "idle" /\ idle.stored = 0
  BY <1>1, AskedTyped
<1>3. req = [r \in Requests |-> idle] /\ logs = [r \in Requests |-> <<>>]
  BY <1>1 DEF Chats!Init
<1>4. \A r \in Requests : AskSound(req[r], logs[r], MaxConv)
  BY <1>2, <1>3 DEF AskSound, LogSound
<1> DEFINE Blank == /\ convs \in [1..MaxConv -> ConvRows(Requests) \cup {Gone}]
                    /\ \A c \in 1..MaxConv : convs[c].turns = {}
<1>5. Blank
  <2>1. \A s \in {Browser, Second} : [owner |-> s, title |-> s, turns |-> {}] \in ConvRows(Requests)
    BY DEF ConvRows
  <2>2. CASE convs = [c \in 1..MaxConv |-> Gone]
    BY <2>2 DEF Gone
  <2>3. ASSUME NEW rec \in ConvRows(Requests), rec.turns = {},
               convs = [c \in 1..MaxConv |-> IF c = 1 THEN rec ELSE Gone]
        PROVE  Blank
    BY <2>3 DEF Gone
  <2>4. \/ convs = [c \in 1..MaxConv |-> Gone]
        \/ \E s \in {Browser, Second} :
              convs = [c \in 1..MaxConv |-> IF c = 1 THEN [owner |-> s, title |-> s, turns |-> {}] ELSE Gone]
    BY DEF Chats!Init, Chats!Ids, Chats!NoConv, Chats!None, Gone
  <2> QED BY <2>1, <2>2, <2>3, <2>4
<1>6. Numbered(Requests, MaxConv)
  BY <1>2, <1>3, <1>5 DEF Numbered
<1> QED BY <1>2, <1>3, <1>4, <1>5, <1>6 DEF ChatTyped, Chats!Init, Chats!Providers, Models

\* A request that arrives.
LEMMA ChatsArrive ==
    ASSUME ChatTyped(Requests, MaxConv), NEW r \in Requests, Chats!Arrives(r)
    PROVE  ChatTyped(Requests, MaxConv)'
<1> USE AiAssumption DEF Chats!ChatAssumption
<1>1. /\ req \in [Requests -> Asks(MaxConv)] /\ logs = [s \in Requests |-> logs[s]]
      /\ convs \in [1..MaxConv -> ConvRows(Requests) \cup {Gone}]
  BY DEF ChatTyped
<1> DEFINE New(kind, target, pc, fate) ==
             /\ pc = "found" => target \in 1..MaxConv
             /\ req' = [req EXCEPT ![r] = Asked(kind, target, pc, fate)]
           Came == \E kind \in {"chat", "stream", "update", "delete"}, target \in 0..(MaxConv + 1),
                       pc \in {"dispatch", "open", "found", "end"}, fate \in {"none", "refused"} :
                       New(kind, target, pc, fate)
           Enters == req[r].pc = "idle" /\ UNCHANGED <<provider, switches, convs, logs>> /\ Came
<1>2. ASSUME NEW kind, NEW target, NEW pc
      PROVE  /\ [Chats!Idle EXCEPT !.kind = kind, !.target = target, !.pc = pc]
                   = Asked(kind, target, pc, "none")
             /\ [[Chats!Idle EXCEPT !.kind = kind, !.target = target, !.pc = pc]
                   EXCEPT !.pc = "end", !.fate = "refused"] = Asked(kind, target, "end", "refused")
  <2>1. PICK q : q = [Chats!Idle EXCEPT !.kind = kind, !.target = target, !.pc = pc]
    OBVIOUS
  <2>2. q = Asked(kind, target, pc, "none")
    BY <2>1 DEF Asked, Chats!Idle, Chats!None
  <2>3. [Asked(kind, target, pc, "none") EXCEPT !.pc = "end", !.fate = "refused"]
            = Asked(kind, target, "end", "refused")
    BY AskedRefused
  <2> QED BY <2>1, <2>2, <2>3
<1>0. Enters
  <2>1. ASSUME NEW target \in Chats!Targets, Chats!chat_with_ai(r, target) PROVE Enters
    <3>1. /\ req[r].pc = "idle" /\ UNCHANGED <<provider, switches, convs, logs>>
          /\ \/ New("chat", target, "dispatch", "none") \/ New("chat", target, "end", "refused")
      BY <1>2, <2>1 DEF Chats!chat_with_ai, Chats!Becomes
    <3> QED BY <3>1 DEF Chats!Targets, Chats!Ids, Chats!NewConversation, Chats!Temporary
  <2>2. ASSUME NEW target \in Chats!Targets, Chats!chat_stream_with_ai(r, target) PROVE Enters
    <3>1. /\ req[r].pc = "idle" /\ UNCHANGED <<provider, switches, convs, logs>>
          /\ \/ New("stream", target, "open", "none") \/ New("stream", target, "end", "refused")
      BY <1>2, <2>2 DEF Chats!chat_stream_with_ai, Chats!Becomes
    <3> QED BY <3>1 DEF Chats!Targets, Chats!Ids, Chats!NewConversation, Chats!Temporary
  <2>3. ASSUME NEW c \in Chats!Ids, NEW kind \in {"update", "delete"}, Chats!FindConversation(r, kind, c)
        PROVE  Enters
    <3>1. /\ req[r].pc = "idle" /\ UNCHANGED <<provider, switches, convs, logs>>
          /\ \/ New(kind, c, "found", "none") \/ New(kind, c, "end", "refused")
      BY <1>2, <2>3 DEF Chats!FindConversation, Chats!Becomes, Chats!Ids
    <3>2. c \in 0..(MaxConv + 1)
      BY DEF Chats!Ids
    <3> QED BY <3>1, <3>2
  <2> QED BY <2>1, <2>2, <2>3 DEF Chats!Arrives, Chats!update_conversation, Chats!delete_conversation
<1>3. PICK kind \in {"chat", "stream", "update", "delete"}, target \in 0..(MaxConv + 1),
           pc \in {"dispatch", "open", "found", "end"}, fate \in {"none", "refused"} :
           New(kind, target, pc, fate)
  BY <1>0
<1>9. PICK q : q = Asked(kind, target, pc, fate)
  OBVIOUS
<1>4. /\ q \in Asks(MaxConv) /\ q.stored = 0 /\ q.pc # "write"
      /\ PassSound(q) /\ StoreSound(q, MaxConv)
  BY <1>3, <1>9, AskedTyped
<1>5. AskSound(req[r], logs[r], MaxConv)
  BY DEF ChatTyped
<1>6. logs[r] = <<>> /\ req[r].stored = 0
  BY <1>0, <1>5 DEF AskSound, LogSound, StoreSound
<1>7. AskSound(q, <<>>, MaxConv)
  BY <1>4 DEF AskSound, LogSound
<1>8. logs' = [logs EXCEPT ![r] = <<>>] /\ req' = [req EXCEPT ![r] = q]
  BY <1>0, <1>1, <1>3, <1>6, <1>9
<1>10. MaxConv \in Nat /\ convs' = convs /\ provider' = provider /\ switches' = switches
  BY <1>0
<1> QED BY <1>1, <1>4, <1>6, <1>7, <1>8, <1>10, Moves

\* A step of a request that changes its own record only.
LEMMA ChatsGoes ==
    ASSUME ChatTyped(Requests, MaxConv), NEW r \in Requests, NEW q, Chats!Becomes(r, q),
           q \in Asks(MaxConv), PassSound(q), StoreSound(q, MaxConv), q.stored = req[r].stored,
           q.pc = "write" => q.base <= 2 * Cardinality(Storers(Requests)), req[r].pc # "end",
           UNCHANGED <<provider, switches, convs, logs>>
    PROVE  ChatTyped(Requests, MaxConv)'
<1> USE AiAssumption DEF Chats!ChatAssumption
<1>1. /\ logs = [s \in Requests |-> logs[s]] /\ convs \in [1..MaxConv -> ConvRows(Requests) \cup {Gone}]
      /\ AskSound(req[r], logs[r], MaxConv)
  BY DEF ChatTyped
<1>2. logs[r] = <<>>
  BY <1>1 DEF AskSound, LogSound
<1>3. AskSound(q, <<>>, MaxConv)
  BY DEF AskSound, LogSound
<1>4. logs' = [logs EXCEPT ![r] = <<>>] /\ req' = [req EXCEPT ![r] = q]
  BY <1>1, <1>2 DEF Chats!Becomes
<1> QED BY <1>1, <1>3, <1>4, Moves

\* The end of a request, with a row of its log or without.
LEMMA ChatsEnds ==
    ASSUME ChatTyped(Requests, MaxConv), NEW r \in Requests, NEW q, Chats!Becomes(r, q), req[r].pc # "end",
           q \in Asks(MaxConv), PassSound(q), StoreSound(q, MaxConv), q.stored = req[r].stored, q.pc = "end",
           \/ UNCHANGED logs
           \/ \E e \in LogRows(MaxConv) : RowTells(q, e, MaxConv) /\ logs' = [logs EXCEPT ![r] = Append(@, e)],
           UNCHANGED <<provider, switches, convs>>
    PROVE  ChatTyped(Requests, MaxConv)'
<1> USE AiAssumption DEF Chats!ChatAssumption
<1>1. /\ logs = [s \in Requests |-> logs[s]] /\ convs \in [1..MaxConv -> ConvRows(Requests) \cup {Gone}]
      /\ AskSound(req[r], logs[r], MaxConv)
  BY DEF ChatTyped
<1>2. logs[r] = <<>>
  BY <1>1 DEF AskSound, LogSound
<1> DEFINE Logged(l) == logs' = [logs EXCEPT ![r] = l] /\ LogSound(q, l, MaxConv)
<1>3. PICK l : Logged(l)
  <2>1. CASE UNCHANGED logs
    <3>1. logs' = [logs EXCEPT ![r] = <<>>] /\ LogSound(q, <<>>, MaxConv)
      BY <1>1, <1>2, <2>1 DEF LogSound
    <3> QED BY <3>1
  <2>2. ASSUME NEW e \in LogRows(MaxConv), RowTells(q, e, MaxConv), logs' = [logs EXCEPT ![r] = Append(@, e)]
        PROVE  \E l : Logged(l)
    <3>1. Append(<<>>, e) = <<e>>
      OBVIOUS
    <3>2. logs' = [logs EXCEPT ![r] = <<e>>] /\ LogSound(q, <<e>>, MaxConv)
      BY <1>1, <1>2, <2>2, <3>1 DEF LogSound
    <3> QED BY <3>2
  <2> QED BY <2>1, <2>2
<1>4. AskSound(q, l, MaxConv)
  BY <1>3 DEF AskSound
<1>5. req' = [req EXCEPT ![r] = q]
  BY DEF Chats!Becomes
<1> QED BY <1>1, <1>3, <1>4, <1>5, Moves

\* Every step of a request's work keeps the types.
LEMMA ChatsWork ==
    ASSUME ChatTyped(Requests, MaxConv), NEW r \in Requests, Chats!Works(r)
    PROVE  ChatTyped(Requests, MaxConv)'
<1> USE AiAssumption DEF Chats!ChatAssumption
<1>1. PICK q \in Asks(MaxConv) : q = req[r] /\ PassSound(q) /\ StoreSound(q, MaxConv)
  BY DEF ChatTyped, AskSound
<1>2. convs \in [1..MaxConv -> ConvRows(Requests) \cup {Gone}] /\ provider \in Models
  BY DEF ChatTyped
<1>0. IsFiniteSet(Requests)
  BY DEF Chats!IsFiniteSet, IsFiniteSet
<1>23. PICK stores \in Nat : stores = Cardinality(Storers(Requests))
  <2>1. IsFiniteSet(Storers(Requests))
    BY <1>0, FS_Subset DEF Storers
  <2> QED BY <2>1, FS_CardinalityType
<1> DEFINE Sound(p) == /\ p \in Asks(MaxConv) /\ PassSound(p) /\ StoreSound(p, MaxConv)
                       /\ p.stored = q.stored /\ p.pc # "write"
<1>3. ASSUME NEW p, Chats!Becomes(r, p), Sound(p), q.pc # "end",
             UNCHANGED <<provider, switches, convs, logs>>
      PROVE  ChatTyped(Requests, MaxConv)'
  BY <1>1, <1>3, ChatsGoes
<1>4. CASE Chats!event_stream(r)
  <2>1. PICK some \in BOOLEAN :
          Chats!Becomes(r, [q EXCEPT !.pc = "dispatch", !.yielded = some,
                                   !.frames = IF some THEN <<"citations">> ELSE @])
    BY <1>1, <1>4 DEF Chats!event_stream
  <2>2. PICK f \in Seq({"citations", "delta", "done", "error"}) : f = IF some THEN <<"citations">> ELSE q.frames
    <3>1. q.frames \in Seq({"citations", "delta", "done", "error"})
      BY DEF Asks
    <3>2. <<"citations">> \in Seq({"citations", "delta", "done", "error"})
      OBVIOUS
    <3> QED BY <3>1, <3>2
  <2>3. PICK p : p = [q EXCEPT !.pc = "dispatch", !.yielded = some, !.frames = f] /\ Chats!Becomes(r, p)
    BY <2>1, <2>2
  <2>4. q.pc = "open" /\ UNCHANGED <<provider, switches, convs, logs>>
    BY <1>1, <1>4 DEF Chats!event_stream, Chats!At
  <2>5. p \in Asks(MaxConv)
    BY <2>3 DEF Asks, Pcs
  <2>6. PassSound(p) /\ StoreSound(p, MaxConv) /\ p.stored = q.stored /\ p.pc # "write"
    BY <1>1, <2>3, <2>4 DEF Asks, PassSound, StoreSound
  <2> QED BY <1>3, <2>3, <2>4, <2>5, <2>6
<1>5. CASE Chats!_stream_pass(r)
  <2>1. PICK p : p = [q EXCEPT !.pc = "answer", !.via = provider, !.pass = @ + 1, !.shown = 0, !.yielded = FALSE]
                   /\ Chats!Becomes(r, p)
    BY <1>1, <1>5 DEF Chats!_stream_pass
  <2>2. q.pc = "dispatch" /\ UNCHANGED <<provider, switches, convs, logs>>
    BY <1>1, <1>5 DEF Chats!_stream_pass
  <2>3. q.pass \in 0..1 /\ q.shownIn = {}
    BY <1>1, <2>2 DEF PassSound
  <2>6. q.pass + 1 \in 0..2 /\ 0 \in 0..MaxDeltas /\ provider \in Models \cup {"none"}
    BY <1>2, <2>3
  <2>4. p \in Asks(MaxConv)
    BY <2>1, <2>6 DEF Asks, Pcs
  <2>5. PassSound(p) /\ StoreSound(p, MaxConv) /\ p.stored = q.stored /\ p.pc # "write"
    BY <1>1, <2>1, <2>2, <2>3 DEF Asks, PassSound, StoreSound
  <2> QED BY <1>3, <2>1, <2>2, <2>4, <2>5
<1>6. CASE Chats!Delta(r)
  <2>1. PICK p : p = [q EXCEPT !.shown = @ + 1, !.shownIn = @ \cup {q.pass}, !.yielded = TRUE,
                               !.frames = Append(@, "delta")] /\ Chats!Becomes(r, p)
    BY <1>1, <1>6 DEF Chats!Delta
  <2>2. /\ q.pc = "answer" /\ q.shown < MaxDeltas /\ q.pass \in 1..2
        /\ UNCHANGED <<provider, switches, convs, logs>>
    BY <1>1, <1>6 DEF Chats!Delta, Chats!At, PassSound, Asks
  <2>3. Append(q.frames, "delta") \in Seq({"citations", "delta", "done", "error"})
    BY DEF Asks
  <2>6. q.shown + 1 \in 0..MaxDeltas /\ q.shownIn \cup {q.pass} \in SUBSET {1, 2}
    BY <2>2 DEF Asks
  <2>4. p \in Asks(MaxConv)
    BY <2>1, <2>3, <2>6 DEF Asks, Pcs
  <2>5. PassSound(p) /\ StoreSound(p, MaxConv) /\ p.stored = q.stored /\ p.pc # "write"
    BY <1>1, <2>1, <2>2 DEF Asks, PassSound, StoreSound
  <2> QED BY <1>3, <2>1, <2>2, <2>4, <2>5
<1>7. ASSUME NEW pc \in {"persist", "dispatch", "fail"}, Chats!Becomes(r, Chats!Passed(r, pc)), q.pc = "answer",
             pc = "dispatch" => q.pass = 1 /\ q.shown = 0, UNCHANGED <<provider, switches, convs, logs>>
      PROVE  ChatTyped(Requests, MaxConv)'
  <2>1. PICK p : p = [q EXCEPT !.pc = pc, !.yielded = FALSE] /\ Chats!Becomes(r, p)
    BY <1>1, <1>7 DEF Chats!Passed
  <2>2. p \in Asks(MaxConv)
    BY <2>1 DEF Asks, Pcs
  <2>3. PassSound(p) /\ StoreSound(p, MaxConv) /\ p.stored = q.stored /\ p.pc # "write"
    BY <1>1, <1>7, <2>1 DEF Asks, PassSound, StoreSound
  <2> QED BY <1>3, <1>7, <2>1, <2>2, <2>3
<1>8. CASE Chats!chat_stream(r)
  <2>1. PICK empty \in BOOLEAN :
          Chats!Becomes(r, Chats!Passed(r, IF ~empty THEN "persist"
                                       ELSE IF Chats!Retries(r) THEN "dispatch" ELSE "fail"))
    BY <1>8 DEF Chats!chat_stream
  <2>2. PICK pc : pc = IF ~empty THEN "persist" ELSE IF Chats!Retries(r) THEN "dispatch" ELSE "fail"
    OBVIOUS
  <2>3. pc \in {"persist", "dispatch", "fail"} /\ (pc = "dispatch" => q.pass = 1 /\ q.shown = 0)
    BY <1>1, <2>2 DEF Chats!Retries
  <2>4. q.pc = "answer" /\ UNCHANGED <<provider, switches, convs, logs>>
    BY <1>1, <1>8 DEF Chats!chat_stream, Chats!At
  <2> QED BY <1>7, <2>1, <2>2, <2>3, <2>4
<1>9. CASE Chats!chat(r)
  BY <1>1, <1>7, <1>9 DEF Chats!chat, Chats!At
<1>10. CASE Chats!Unavailable(r)
  BY <1>1, <1>7, <1>10 DEF Chats!Unavailable
<1>11. ASSUME NEW p, Chats!Becomes(r, p), Sound(p), p.pc = "end", q.pc # "end",
              \/ UNCHANGED logs
              \/ \E e \in LogRows(MaxConv) : RowTells(p, e, MaxConv) /\ logs' = [logs EXCEPT ![r] = Append(@, e)],
              UNCHANGED <<provider, switches, convs>>
       PROVE  ChatTyped(Requests, MaxConv)'
  BY <1>1, <1>11, ChatsEnds
<1>12. CASE Chats!log_failure(r)
  <2>1. q.pc = "fail" /\ UNCHANGED <<provider, switches, convs>>
    BY <1>1, <1>12 DEF Chats!log_failure
  <2>2. q.stored = 0 /\ q.model = "none"
    BY <1>1, <2>1 DEF StoreSound
  <2>3. ASSUME NEW f \in Seq({"citations", "delta", "done", "error"}), NEW p,
               p = [q EXCEPT !.pc = "end", !.yielded = FALSE, !.frames = f], Chats!Becomes(r, p),
               \/ UNCHANGED logs \/ Chats!_request_log(r, "error", 0, Chats!effective_model)
        PROVE  ChatTyped(Requests, MaxConv)'
    <3>1. p \in Asks(MaxConv)
      BY <2>3 DEF Asks, Pcs
    <3>2. PassSound(p) /\ StoreSound(p, MaxConv) /\ p.stored = q.stored /\ p.pc = "end" /\ p.model = "none"
      BY <1>1, <2>1, <2>2, <2>3 DEF Asks, PassSound, StoreSound
    <3>6. 0 \in 0..(MaxConv)
      OBVIOUS
    <3>3. PICK e \in LogRows(MaxConv) : e = [status |-> "error", conv |-> 0, model |-> provider]
      BY <1>2, <3>6 DEF LogRows
    <3>4. RowTells(p, e, MaxConv)
      BY <2>2, <3>2, <3>3 DEF RowTells
    <3>5. UNCHANGED logs \/ logs' = [logs EXCEPT ![r] = Append(@, e)]
      BY <2>3, <3>3 DEF Chats!_request_log, Chats!effective_model
    <3> QED BY <1>11, <2>1, <2>3, <3>1, <3>2, <3>4, <3>5
  <2>4. q.frames \in Seq({"citations", "delta", "done", "error"})
    BY DEF Asks
  <2>5. Append(q.frames, "error") \in Seq({"citations", "delta", "done", "error"})
    BY <2>4
  <2>6. [q EXCEPT !.pc = "end", !.yielded = FALSE] = [q EXCEPT !.pc = "end", !.yielded = FALSE, !.frames = q.frames]
    BY DEF Asks
  <2>7. PICK f : f = IF q.kind = "stream" THEN Append(q.frames, "error") ELSE q.frames
    OBVIOUS
  <2>8. Chats!ErrorFrame(r) = [q EXCEPT !.pc = "end", !.yielded = FALSE, !.frames = f]
    BY <1>1, <2>7 DEF Chats!ErrorFrame, Chats!Ended, Asks
  <2>9. CASE Chats!_request_log(r, "error", 0, Chats!effective_model) /\ Chats!Becomes(r, Chats!ErrorFrame(r))
    BY <2>3, <2>4, <2>5, <2>7, <2>8, <2>9
  <2>10. CASE Chats!Becomes(r, Chats!Ended(r)) /\ UNCHANGED logs
    BY <1>1, <2>3, <2>4, <2>6, <2>10 DEF Chats!Ended
  <2> QED BY <1>12, <2>9, <2>10 DEF Chats!log_failure
<1>13. CASE Chats!LogAnswer(r)
  <2>1. q.pc = "log" /\ UNCHANGED <<provider, switches, convs>>
    BY <1>1, <1>13 DEF Chats!LogAnswer
  <2>2. q.model \in Models /\ q.failed = (q.stored = 0 /\ q.target # MaxConv + 1)
    BY <1>1, <2>1 DEF StoreSound, Asks
  <2>3. ASSUME NEW f \in Seq({"citations", "delta", "done", "error"}), NEW p,
               p = [q EXCEPT !.pc = "end", !.yielded = FALSE, !.frames = f], Chats!Becomes(r, p),
               \/ UNCHANGED logs
               \/ Chats!_request_log(r, IF q.failed THEN "error" ELSE "ok", q.stored,
                                   IF q.kind = "chat" THEN q.model ELSE Chats!effective_model)
        PROVE  ChatTyped(Requests, MaxConv)'
    <3>1. p \in Asks(MaxConv)
      BY <2>3 DEF Asks, Pcs
    <3>2. /\ PassSound(p) /\ StoreSound(p, MaxConv) /\ p.stored = q.stored /\ p.pc = "end"
          /\ p.model = q.model /\ p.target = q.target
      BY <1>1, <2>1, <2>3 DEF Asks, PassSound, StoreSound
    <3>3. PICK e : e = [status |-> IF q.failed THEN "error" ELSE "ok", conv |-> q.stored,
                        model |-> IF q.kind = "chat" THEN q.model ELSE provider]
      OBVIOUS
    <3>4. e \in LogRows(MaxConv)
      BY <1>2, <2>2, <3>3 DEF LogRows, Asks
    <3>5. RowTells(p, e, MaxConv)
      BY <2>2, <3>2, <3>3 DEF RowTells, Models
    <3>6. UNCHANGED logs \/ logs' = [logs EXCEPT ![r] = Append(@, e)]
      BY <2>3, <3>3 DEF Chats!_request_log, Chats!effective_model
    <3> QED BY <1>11, <2>1, <2>3, <3>1, <3>2, <3>4, <3>5, <3>6
  <2>4. q.frames \in Seq({"citations", "delta", "done", "error"})
    BY DEF Asks
  <2>5. Append(q.frames, "done") \in Seq({"citations", "delta", "done", "error"})
    BY <2>4
  <2>6. [q EXCEPT !.pc = "end", !.yielded = FALSE] = [q EXCEPT !.pc = "end", !.yielded = FALSE, !.frames = q.frames]
    BY DEF Asks
  <2>7. PICK f : f = IF q.kind = "stream" THEN Append(q.frames, "done") ELSE q.frames
    OBVIOUS
  <2>8. [Chats!Ended(r) EXCEPT !.frames = IF q.kind = "stream" THEN Append(@, "done") ELSE @]
          = [q EXCEPT !.pc = "end", !.yielded = FALSE, !.frames = f]
    BY <1>1, <2>7 DEF Chats!Ended, Asks
  <2>9. CASE /\ Chats!_request_log(r, IF q.failed THEN "error" ELSE "ok", q.stored,
                                 IF q.kind = "chat" THEN q.model ELSE Chats!effective_model)
             /\ Chats!Becomes(r, [Chats!Ended(r) EXCEPT !.frames = IF q.kind = "stream" THEN Append(@, "done") ELSE @])
    BY <2>3, <2>4, <2>5, <2>7, <2>8, <2>9
  <2>10. CASE Chats!Becomes(r, Chats!Ended(r)) /\ UNCHANGED logs
    BY <1>1, <2>3, <2>4, <2>6, <2>10 DEF Chats!Ended
  <2> QED BY <1>1, <1>13, <2>9, <2>10 DEF Chats!LogAnswer
<1>14. ASSUME Chats!Becomes(r, Chats!PersistFailed(r)), q.pc \in {"persist", "write"}, q.target \in 0..(MaxConv),
              UNCHANGED <<provider, switches, convs, logs>>
       PROVE  ChatTyped(Requests, MaxConv)'
  <2>1. q.stored = 0 /\ q.model = "none"
    BY <1>1, <1>14 DEF StoreSound
  <2>2. CASE q.kind = "chat"
    <3>1. PICK p : p = [q EXCEPT !.pc = "end", !.yielded = FALSE, !.fate = "refused"] /\ Chats!Becomes(r, p)
      BY <1>1, <1>14, <2>2 DEF Chats!PersistFailed, Chats!Refused, Chats!Ended, Asks
    <3>2. p \in Asks(MaxConv)
      BY <3>1 DEF Asks, Pcs
    <3>3. PassSound(p) /\ StoreSound(p, MaxConv) /\ p.stored = q.stored /\ p.pc # "write"
      BY <1>1, <1>14, <3>1 DEF Asks, PassSound, StoreSound
    <3> QED BY <1>3, <1>14, <3>1, <3>2, <3>3
  <2>3. CASE q.kind # "chat"
    <3>1. PICK p : p = [q EXCEPT !.pc = "model", !.failed = TRUE] /\ Chats!Becomes(r, p)
      BY <1>1, <1>14, <2>3 DEF Chats!PersistFailed
    <3>2. p \in Asks(MaxConv)
      BY <3>1 DEF Asks, Pcs
    <3>3. PassSound(p) /\ StoreSound(p, MaxConv) /\ p.stored = q.stored /\ p.pc # "write"
      <4>1. q.target # MaxConv + 1
        BY <1>14
      <4> QED BY <1>1, <1>14, <2>1, <3>1, <4>1 DEF Asks, PassSound, StoreSound
    <3> QED BY <1>3, <1>14, <3>1, <3>2, <3>3
  <2> QED BY <2>2, <2>3
<1>15. ASSUME NEW c \in 1..MaxConv, Chats!Becomes(r, Chats!Stored(r, c)), q.pc \in {"persist", "write"},
              NEW rec \in ConvRows(Requests), convs' = [convs EXCEPT ![c] = rec],
              \A t \in rec.turns : t \in convs[c].turns \/ t.seq <= 2 * Cardinality(Storers(Requests)),
              UNCHANGED <<provider, switches, logs>>
       PROVE  ChatTyped(Requests, MaxConv)'
  <2>1. PICK p : p = [q EXCEPT !.pc = "model", !.stored = c] /\ req' = [req EXCEPT ![r] = p]
    BY <1>1, <1>15 DEF Chats!Stored, Chats!Becomes
  <2>2. p \in Asks(MaxConv)
    <3>1. c \in 0..(MaxConv)
      OBVIOUS
    <3> QED BY <2>1, <3>1 DEF Asks, Pcs
  <2>3. q.stored = 0 /\ PassSound(p) /\ StoreSound(p, MaxConv) /\ p.stored = c /\ p.pc = "model"
    BY <1>1, <1>15, <2>1 DEF Asks, PassSound, StoreSound
  <2>4. logs = [s \in Requests |-> logs[s]] /\ logs[r] = <<>>
    BY <1>1, <1>15 DEF ChatTyped, AskSound, LogSound
  <2>5. logs' = [logs EXCEPT ![r] = <<>>]
    BY <1>15, <2>4
  <2>6. AskSound(p, <<>>, MaxConv)
    BY <2>3 DEF AskSound, LogSound
  <2>7. p.stored # 0 /\ req[r].stored = 0 /\ p.pc # "write"
    BY <1>1, <2>3
  <2> QED BY <1>0, <1>15, <2>1, <2>2, <2>5, <2>6, <2>7, Stores
<1>16. CASE Chats!create_conversation(r)
  <2>1. q.pc = "persist" /\ q.target = 0 /\ UNCHANGED <<provider, switches, logs>>
    BY <1>1, <1>16 DEF Chats!create_conversation, Chats!NewConversation
  <2>2. PICK id : id = Chats!Max({0} \cup {c \in Chats!Ids : convs[c] # Chats!NoConv}) + 1
    OBVIOUS
  <2>3. CASE /\ id \in Chats!Ids /\ Chats!Becomes(r, Chats!Stored(r, id))
             /\ convs' = [convs EXCEPT ![id] = [owner |-> SessionsOf(Requests)[r], title |-> SessionsOf(Requests)[r],
                                                turns |-> {[by |-> r, seq |-> 0]}]]
    <3>1. PICK rec : rec = [owner |-> SessionsOf(Requests)[r], title |-> SessionsOf(Requests)[r],
                            turns |-> {[by |-> r, seq |-> 0]}]
      OBVIOUS
    <3>2. SessionsOf(Requests)[r] \in {Browser, Second}
      BY DEF SessionsOf
    <3>3. rec \in ConvRows(Requests)
      BY <3>1, <3>2 DEF ConvRows
    <3>4. \A t \in rec.turns : t.seq = 0
      BY <3>1
    <3>5. 0 <= 2 * Cardinality(Storers(Requests))
      BY <1>23
    <3>6. id \in 1..MaxConv /\ convs' = [convs EXCEPT ![id] = rec]
      BY <2>3, <3>1 DEF Chats!Ids
    <3>7. \A t \in rec.turns : t \in convs[id].turns \/ t.seq <= 2 * Cardinality(Storers(Requests))
      BY <3>4, <3>5
    <3> QED BY <1>15, <2>1, <2>3, <3>3, <3>6, <3>7
  <2>4. CASE Chats!Becomes(r, Chats!PersistFailed(r)) /\ UNCHANGED convs
    BY <1>14, <2>1, <2>4
  <2> QED BY <1>16, <2>2, <2>3, <2>4 DEF Chats!create_conversation
<1>17. CASE Chats!get_conversation(r)
  <2>1. q.pc = "persist" /\ q.target \in 1..MaxConv /\ UNCHANGED <<provider, switches, convs, logs>>
    BY <1>1, <1>17 DEF Chats!get_conversation, Chats!Ids
  <2>2. CASE Chats!Becomes(r, [q EXCEPT !.pc = "base"])
    <3>1. PICK p : p = [q EXCEPT !.pc = "base"] /\ Chats!Becomes(r, p)
      BY <2>2
    <3>2. p \in Asks(MaxConv)
      BY <3>1 DEF Asks, Pcs
    <3>3. PassSound(p) /\ StoreSound(p, MaxConv) /\ p.stored = q.stored /\ p.pc # "write"
      BY <1>1, <2>1, <3>1 DEF Asks, PassSound, StoreSound
    <3> QED BY <1>3, <2>1, <3>1, <3>2, <3>3
  <2>3. CASE Chats!Becomes(r, Chats!PersistFailed(r))
    BY <1>14, <2>1, <2>3
  <2> QED BY <1>1, <1>17, <2>2, <2>3 DEF Chats!get_conversation
<1>18. CASE Chats!ReadBase(r)
  <2>1. q.pc = "base" /\ UNCHANGED <<provider, switches, convs, logs>> /\ q.target \in 1..MaxConv
    BY <1>1, <1>18 DEF Chats!ReadBase, StoreSound
  <2>2. PICK k \in Nat : k = Cardinality(Storers(Requests))
    BY <1>23
  <2>3. convs[q.target] \in ConvRows(Requests) \cup {Gone}
    BY <1>2, <2>1
  <2>4. \A t \in convs[q.target].turns : t.seq \in Nat
    BY <2>3 DEF ConvRows, Gone
  <2>5. \A t \in convs[q.target].turns : t.seq + 2 <= 2 * k
    BY <2>1, <2>2 DEF ChatTyped, Numbered
  <2>6. PICK b : b = Chats!NextSeq(convs[q.target].turns)
    OBVIOUS
  <2>7. Chats!NextSeq(convs[q.target].turns) = Chats!NextSeq(convs[q.target].turns)
    BY DEF Chats!NextSeq, Chats!NextSeq, Chats!Max, Chats!Max
  <2>8. b \in Nat /\ b <= 2 * k
    BY <2>4, <2>5, <2>6, <2>7, NextNumber
  <2>9. PICK p : p = [q EXCEPT !.pc = "write", !.base = b] /\ Chats!Becomes(r, p)
    BY <1>1, <1>18, <2>6 DEF Chats!ReadBase
  <2>10. p \in Asks(MaxConv)
    BY <2>8, <2>9 DEF Asks, Pcs
  <2>11. PassSound(p) /\ StoreSound(p, MaxConv) /\ p.stored = q.stored /\ p.base = b
    BY <1>1, <2>1, <2>9 DEF Asks, PassSound, StoreSound
  <2> QED BY <1>1, <2>1, <2>2, <2>8, <2>9, <2>10, <2>11, ChatsGoes
<1>19. CASE Chats!append_turn(r)
  <2>1. q.pc = "write" /\ UNCHANGED <<provider, switches, logs>> /\ q.target \in 1..MaxConv /\ q.base \in Nat
    BY <1>1, <1>19 DEF Chats!append_turn, StoreSound, Asks
  <2>2. CASE /\ convs[q.target] # Chats!NoConv /\ Chats!Becomes(r, Chats!Stored(r, q.target))
             /\ convs' = [convs EXCEPT ![q.target].turns = @ \cup {[by |-> r, seq |-> q.base]}]
    <3>1. PICK old \in ConvRows(Requests) : old = convs[q.target]
      BY <1>2, <2>1, <2>2 DEF Gone, Chats!NoConv, Chats!None
    <3>2. PICK rec : rec = [old EXCEPT !.turns = @ \cup {[by |-> r, seq |-> q.base]}]
      OBVIOUS
    <3>3. rec \in ConvRows(Requests) /\ \A t \in rec.turns : t \in convs[q.target].turns \/ t.seq = q.base
      BY <2>1, <3>1, <3>2 DEF ConvRows
    <3>4. convs' = [convs EXCEPT ![q.target] = rec]
      BY <1>2, <2>1, <2>2, <3>1, <3>2
    <3>5. q.base <= 2 * Cardinality(Storers(Requests))
      BY <1>1, <2>1 DEF ChatTyped, Numbered
    <3>6. PICK c \in 1..MaxConv : c = q.target
      BY <2>1
    <3>7. /\ Chats!Becomes(r, Chats!Stored(r, c)) /\ convs' = [convs EXCEPT ![c] = rec]
          /\ \A t \in rec.turns : t \in convs[c].turns \/ t.seq <= 2 * Cardinality(Storers(Requests))
      BY <2>2, <3>3, <3>4, <3>5, <3>6
    <3> QED BY <1>15, <2>1, <3>3, <3>7
  <2>3. CASE Chats!Becomes(r, Chats!PersistFailed(r)) /\ UNCHANGED convs
    <3>1. q.target \in 0..(MaxConv)
      BY <2>1
    <3> QED BY <1>14, <2>1, <2>3, <3>1
  <2> QED BY <1>1, <1>19, <2>2, <2>3 DEF Chats!append_turn
<1>20. CASE Chats!KeepNothing(r)
  <2>1. PICK p : p = [q EXCEPT !.pc = "model"] /\ Chats!Becomes(r, p)
    BY <1>1, <1>20 DEF Chats!KeepNothing
  <2>2. q.pc = "persist" /\ q.target = MaxConv + 1 /\ UNCHANGED <<provider, switches, convs, logs>>
    BY <1>1, <1>20 DEF Chats!KeepNothing, Chats!Temporary
  <2>3. p \in Asks(MaxConv)
    BY <2>1 DEF Asks, Pcs
  <2>4. PassSound(p) /\ StoreSound(p, MaxConv) /\ p.stored = q.stored /\ p.pc # "write"
    BY <1>1, <2>1, <2>2 DEF Asks, PassSound, StoreSound
  <2> QED BY <1>3, <2>1, <2>2, <2>3, <2>4
<1>21. CASE Chats!AskModel(r)
  <2>1. PICK p : p = [q EXCEPT !.pc = "log", !.model = provider] /\ Chats!Becomes(r, p)
    BY <1>1, <1>21 DEF Chats!AskModel, Chats!effective_model
  <2>2. q.pc = "model" /\ UNCHANGED <<provider, switches, convs, logs>>
    BY <1>1, <1>21 DEF Chats!AskModel
  <2>3. p \in Asks(MaxConv)
    BY <1>2, <2>1 DEF Asks, Pcs
  <2>4. PassSound(p) /\ StoreSound(p, MaxConv) /\ p.stored = q.stored /\ p.pc # "write"
    BY <1>1, <1>2, <2>1, <2>2 DEF Asks, PassSound, StoreSound, Models
  <2> QED BY <1>3, <2>1, <2>2, <2>3, <2>4
<1>22. CASE Chats!Edit(r)
  <2>1. q.pc = "found" /\ UNCHANGED <<provider, switches, logs>> /\ q.target \in 1..MaxConv
    BY <1>1, <1>22 DEF Chats!Edit, StoreSound
  <2>2. PICK p : p = [q EXCEPT !.pc = "end", !.yielded = FALSE] /\ req' = [req EXCEPT ![r] = p]
    BY <1>1, <1>22 DEF Chats!Edit, Chats!Ended, Chats!Becomes
  <2>3. p \in Asks(MaxConv)
    BY <2>2 DEF Asks, Pcs
  <2>4. PassSound(p) /\ StoreSound(p, MaxConv) /\ p.stored = q.stored /\ p.pc = "end"
    BY <1>1, <2>1, <2>2 DEF Asks, PassSound, StoreSound
  <2>5. logs = [s \in Requests |-> logs[s]] /\ logs[r] = <<>>
    BY <1>1, <2>1 DEF ChatTyped, AskSound, LogSound
  <2>6. logs' = [logs EXCEPT ![r] = <<>>] /\ AskSound(p, <<>>, MaxConv)
    BY <2>1, <2>4, <2>5 DEF AskSound, LogSound
  <2>7. PICK rec : rec = IF q.kind = "delete" \/ convs[q.target] = Chats!NoConv THEN Chats!NoConv
                         ELSE [convs[q.target] EXCEPT !.title = SessionsOf(Requests)[r]]
    OBVIOUS
  <2>8. rec \in ConvRows(Requests) \cup {Gone} /\ rec.turns \subseteq convs[q.target].turns
    <3>1. SessionsOf(Requests)[r] \in {Browser, Second}
      BY DEF SessionsOf
    <3>2. Chats!NoConv = Gone /\ Gone.turns = {}
      BY DEF Chats!NoConv, Chats!None, Gone
    <3>3. CASE rec = Gone
      BY <3>2, <3>3
    <3>4. CASE convs[q.target] # Gone /\ rec = [convs[q.target] EXCEPT !.title = SessionsOf(Requests)[r]]
      <4>1. convs[q.target] \in ConvRows(Requests)
        BY <1>2, <2>1, <3>4
      <4> QED BY <3>1, <3>4, <4>1 DEF ConvRows
    <3> QED BY <2>7, <3>2, <3>3, <3>4
  <2>9. UNCHANGED convs \/ convs' = [convs EXCEPT ![q.target] = rec]
    BY <1>1, <1>22, <2>7 DEF Chats!Edit
  <2>10. /\ convs' \in [1..MaxConv -> ConvRows(Requests) \cup {Gone}]
         /\ \A c \in 1..MaxConv : convs'[c].turns \subseteq convs[c].turns
    BY <1>2, <2>1, <2>8, <2>9
  <2>11. p.stored = req[r].stored /\ p.pc # "write"
    BY <1>1, <2>4
  <2> QED BY <2>1, <2>2, <2>3, <2>6, <2>10, <2>11, Moves
<1> QED BY <1>4, <1>5, <1>6, <1>8, <1>9, <1>10, <1>12, <1>13, <1>16, <1>17, <1>18, <1>19, <1>20,
           <1>21, <1>22 DEF Chats!Works

LEMMA ChatsExit ==
    ASSUME ChatTyped(Requests, MaxConv), NEW r \in Requests, Chats!GeneratorExit(r)
    PROVE  ChatTyped(Requests, MaxConv)'
<1> USE AiAssumption DEF Chats!ChatAssumption
<1>1. PICK q \in Asks(MaxConv) : q = req[r] /\ PassSound(q) /\ StoreSound(q, MaxConv)
  BY DEF ChatTyped, AskSound
<1>2. provider \in Models /\ 0 \in 0..(MaxConv)
  BY DEF ChatTyped
<1>3. q.pc \in {"open", "dispatch", "answer"} /\ UNCHANGED <<provider, switches, convs>>
  BY <1>1 DEF Chats!GeneratorExit, PassSound
<1>4. q.stored = 0 /\ q.model = "none"
  BY <1>1, <1>3 DEF StoreSound
<1>5. PICK p : p = [q EXCEPT !.pc = "end", !.yielded = FALSE, !.fate = "aborted"] /\ Chats!Becomes(r, p)
  BY <1>1 DEF Chats!GeneratorExit, Chats!Ended, Asks
<1>6. p \in Asks(MaxConv)
  BY <1>5 DEF Asks, Pcs
<1>7. PassSound(p) /\ StoreSound(p, MaxConv) /\ p.stored = q.stored /\ p.pc = "end" /\ p.model = "none"
  BY <1>1, <1>3, <1>4, <1>5 DEF Asks, PassSound, StoreSound
<1>8. PICK e \in LogRows(MaxConv) : e = [status |-> "aborted", conv |-> 0, model |-> provider]
  BY <1>2 DEF LogRows
<1>9. RowTells(p, e, MaxConv)
  BY <1>4, <1>7, <1>8 DEF RowTells
<1>10. UNCHANGED logs \/ logs' = [logs EXCEPT ![r] = Append(@, e)]
  BY <1>8 DEF Chats!GeneratorExit, Chats!_request_log, Chats!effective_model
<1>11. p.stored = req[r].stored /\ req[r].pc # "end"
  BY <1>1, <1>3, <1>7
<1> QED BY <1>3, <1>5, <1>6, <1>7, <1>9, <1>10, <1>11, ChatsEnds

LEMMA ChatsTypedStep ==
    ASSUME ChatTyped(Requests, MaxConv), [Chats!Next]_Chats!vars
    PROVE  ChatTyped(Requests, MaxConv)'
<1>1. CASE UNCHANGED Chats!vars
  BY <1>1 DEF Chats!vars, ChatTyped, Numbered, Storers
<1>2. CASE Chats!set_selection
  <2>1. UNCHANGED <<convs, req, logs>> /\ provider' \in Models /\ switches' \in 0..MaxSwitches
    BY <1>2, AiAssumption DEF Chats!set_selection, Chats!Providers, Models, Chats!ChatAssumption, ChatTyped
  <2> QED BY <2>1 DEF ChatTyped, Numbered, Storers
<1>3. ASSUME NEW r \in Requests, Chats!Arrives(r) \/ Chats!Works(r) \/ Chats!GeneratorExit(r)
      PROVE  ChatTyped(Requests, MaxConv)'
  BY <1>3, ChatsArrive, ChatsWork, ChatsExit
<1> QED BY <1>1, <1>2, <1>3 DEF Chats!Next

\* The types the part names follow.
LEMMA ChatsTypes ==
    ASSUME ChatTyped(Requests, MaxConv)
    PROVE  Chats!TypeOK
<1> USE AiAssumption DEF Chats!ChatAssumption
<1>1. /\ provider \in Models /\ switches \in 0..MaxSwitches
      /\ convs \in [1..MaxConv -> ConvRows(Requests) \cup {Gone}] /\ req \in [Requests -> Asks(MaxConv)]
      /\ \A r \in Requests : LogSound(req[r], logs[r], MaxConv)
      /\ Numbered(Requests, MaxConv)
  BY DEF ChatTyped, AskSound
<1>2. IsFiniteSet(Requests) /\ Chats!Cardinality(Requests) = Cardinality(Requests)
  BY DEF Chats!IsFiniteSet, IsFiniteSet, Chats!Cardinality, Cardinality
<1>3. PICK k \in Nat, m \in Nat : k = Cardinality(Storers(Requests)) /\ m = Cardinality(Requests) /\ k <= m
  <2>1. IsFiniteSet(Storers(Requests)) /\ Cardinality(Storers(Requests)) <= Cardinality(Requests)
    BY <1>2, FS_Subset DEF Storers
  <2> QED BY <1>2, <2>1, FS_CardinalityType
<1>4. ASSUME NEW c \in 1..MaxConv PROVE convs[c] \in Chats!Conversations \cup {Chats!NoConv}
  <2>1. CASE convs[c] = Gone
    BY <2>1 DEF Gone, Chats!NoConv, Chats!None
  <2>2. CASE convs[c] \in ConvRows(Requests)
    <3>1. ASSUME NEW t \in convs[c].turns PROVE t \in [by : Requests, seq : 0..(2 * m)]
      <4>1. t \in [by : Requests, seq : Nat]
        BY <2>2 DEF ConvRows
      <4>2. t.seq + 2 <= 2 * k
        BY <1>1, <1>3 DEF Numbered
      <4>3. t.seq \in 0..(2 * m)
        BY <1>3, <4>1, <4>2
      <4> QED BY <4>1, <4>3
    <3>2. convs[c] \in [owner : {Browser, Second}, title : {Browser, Second},
                        turns : SUBSET [by : Requests, seq : 0..(2 * m)]]
      BY <2>2, <3>1 DEF ConvRows
    <3>3. Chats!Conversations = [owner : {Browser, Second}, title : {Browser, Second},
                               turns : SUBSET [by : Requests, seq : 0..(2 * m)]]
      BY <1>2, <1>3 DEF Chats!Conversations
    <3> QED BY <3>2, <3>3
  <2> QED BY <1>1, <2>1, <2>2
<1>5. ASSUME NEW r \in Requests
      PROVE  /\ req[r].pc \in {"idle", "open", "dispatch", "answer", "fail", "persist", "base",
                               "write", "model", "log", "found", "end"}
             /\ req[r].kind \in Chats!Kinds \cup {"none"} /\ req[r].target \in Chats!Targets
             /\ req[r].via \in Chats!Providers \cup {"none"} /\ req[r].pass \in 0..2
             /\ req[r].shown \in 0..MaxDeltas /\ req[r].shownIn \subseteq {1, 2}
             /\ req[r].frames \in Seq(Chats!Frames) /\ req[r].stored \in {0} \cup Chats!Ids
             /\ req[r].model \in Chats!Providers \cup {"none"}
             /\ req[r].fate \in {"none", "refused", "aborted"}
  <2>1. PICK q \in Asks(MaxConv) : q = req[r]
    BY <1>1
  <2>2. q.target \in Chats!Targets /\ q.stored \in {0} \cup Chats!Ids
    BY DEF Asks, Chats!Targets, Chats!Ids, Chats!NewConversation, Chats!Temporary
  <2> QED BY <2>1, <2>2 DEF Asks, Pcs, Models, Chats!Kinds, Chats!Providers, Chats!Frames
<1>6. ASSUME NEW r \in Requests
      PROVE  logs[r] \in Seq([status : {"ok", "error", "aborted"}, conv : {0} \cup Chats!Ids,
                              model : Chats!Providers])
  <2>1. PICK Rows : Rows = [status : {"ok", "error", "aborted"}, conv : {0} \cup Chats!Ids, model : Chats!Providers]
    OBVIOUS
  <2>2. \A e \in LogRows(MaxConv) : e \in Rows
    <3>1. 0..(MaxConv) \subseteq {0} \cup Chats!Ids
      BY DEF Chats!Ids
    <3> QED BY <2>1, <3>1 DEF LogRows, Models, Chats!Providers
  <2>3. logs[r] = <<>> \/ \E e \in Rows : logs[r] = <<e>>
    BY <1>1, <2>2 DEF LogSound
  <2>4. logs[r] \in Seq(Rows)
    <3>1. <<>> \in Seq(Rows) /\ \A e \in Rows : <<e>> \in Seq(Rows)
      OBVIOUS
    <3> QED BY <2>3, <3>1
  <2> QED BY <2>1, <2>4
<1> QED BY <1>1, <1>4, <1>5, <1>6 DEF Chats!TypeOK, Chats!Ids, Chats!None, Chats!Providers, Models

\* What is shown is of one pass, and the log tells what was stored.
LEMMA ChatsHonest ==
    ASSUME ChatTyped(Requests, MaxConv)
    PROVE  Chats!OnePassShown /\ Chats!LogTellsStored
<1> USE AiAssumption DEF Chats!ChatAssumption
<1>1. \A r \in Requests : req[r] \in Asks(MaxConv) /\ AskSound(req[r], logs[r], MaxConv)
  BY DEF ChatTyped
<1>2. ASSUME NEW r \in Requests PROVE Chats!Cardinality(req[r].shownIn) <= 1
  <2>1. req[r].shownIn \subseteq {req[r].pass}
    BY <1>1 DEF AskSound, PassSound
  <2>2. Cardinality({}) = 0 /\ Cardinality({req[r].pass}) = 1
    BY FS_EmptySet, FS_Singleton
  <2>3. Chats!Cardinality(req[r].shownIn) = Cardinality(req[r].shownIn)
    BY DEF Chats!Cardinality, Cardinality
  <2>4. req[r].shownIn = {} \/ req[r].shownIn = {req[r].pass}
    BY <2>1
  <2> QED BY <2>2, <2>3, <2>4
<1> DEFINE Tells(r) ==
             /\ Len(logs[r]) <= 1
             /\ \A i \in 1..Len(logs[r]) :
                   /\ logs[r][i].conv = req[r].stored
                   /\ (logs[r][i].status = "ok") =
                         (req[r].stored # 0 \/ (req[r].target = MaxConv + 1 /\ req[r].model # "none"))
<1>3. ASSUME NEW r \in Requests PROVE Tells(r)
  <2>1. logs[r] = <<>> \/ \E e \in LogRows(MaxConv) : logs[r] = <<e>> /\ RowTells(req[r], e, MaxConv)
    BY <1>1 DEF AskSound, LogSound
  <2>2. CASE logs[r] = <<>>
    BY <2>2
  <2>3. ASSUME NEW e \in LogRows(MaxConv), logs[r] = <<e>>, RowTells(req[r], e, MaxConv)
        PROVE  Tells(r)
    <3>1. Len(logs[r]) = 1 /\ logs[r][1] = e
      BY <2>3
    <3>2. \A i \in 1..Len(logs[r]) : logs[r][i] = e
      BY <3>1
    <3> QED BY <2>3, <3>1, <3>2 DEF RowTells
  <2> QED BY <2>1, <2>2, <2>3
<1> QED BY <1>2, <1>3 DEF Chats!OnePassShown, Chats!LogTellsStored, Chats!Temporary, Chats!None

-----------------------------------------------------------------------------
(* The part chat.                                                           *)

LEMMA ChatTypedInit ==
    ASSUME Chat!Init
    PROVE  ChatTyped(Singles, MaxConv + 1) /\ \A c \in 1..(MaxConv + 1) : convs[c].turns = {}
<1> USE AiAssumption DEF Chat!ChatAssumption
<1>1. PICK idle : idle = Asked("none", MaxConv + 1 + 1, "idle", "none") /\ idle = Chat!Idle
  BY DEF Asked, Chat!Idle, Chat!None, Chat!Temporary
<1>2. /\ idle \in Asks(MaxConv + 1) /\ PassSound(idle) /\ StoreSound(idle, MaxConv + 1)
      /\ idle.pc = "idle" /\ idle.stored = 0
  BY <1>1, AskedTyped
<1>3. req = [r \in Singles |-> idle] /\ logs = [r \in Singles |-> <<>>]
  BY <1>1 DEF Chat!Init
<1>4. \A r \in Singles : AskSound(req[r], logs[r], MaxConv + 1)
  BY <1>2, <1>3 DEF AskSound, LogSound
<1> DEFINE Blank == /\ convs \in [1..(MaxConv + 1) -> ConvRows(Singles) \cup {Gone}]
                    /\ \A c \in 1..(MaxConv + 1) : convs[c].turns = {}
<1>5. Blank
  <2>1. \A s \in {Browser, Second} : [owner |-> s, title |-> s, turns |-> {}] \in ConvRows(Singles)
    BY DEF ConvRows
  <2>2. CASE convs = [c \in 1..(MaxConv + 1) |-> Gone]
    BY <2>2 DEF Gone
  <2>3. ASSUME NEW rec \in ConvRows(Singles), rec.turns = {},
               convs = [c \in 1..(MaxConv + 1) |-> IF c = 1 THEN rec ELSE Gone]
        PROVE  Blank
    BY <2>3 DEF Gone
  <2>4. \/ convs = [c \in 1..(MaxConv + 1) |-> Gone]
        \/ \E s \in {Browser, Second} :
              convs = [c \in 1..(MaxConv + 1) |-> IF c = 1 THEN [owner |-> s, title |-> s, turns |-> {}] ELSE Gone]
    BY DEF Chat!Init, Chat!Ids, Chat!NoConv, Chat!None, Gone
  <2> QED BY <2>1, <2>2, <2>3, <2>4
<1>6. Numbered(Singles, MaxConv + 1)
  BY <1>2, <1>3, <1>5 DEF Numbered
<1> QED BY <1>2, <1>3, <1>4, <1>5, <1>6 DEF ChatTyped, Chat!Init, Chat!Providers, Models

\* A request that arrives.
LEMMA ChatArrive ==
    ASSUME ChatTyped(Singles, MaxConv + 1), NEW r \in Singles, Chat!Arrives(r)
    PROVE  ChatTyped(Singles, MaxConv + 1)'
<1> USE AiAssumption DEF Chat!ChatAssumption
<1>1. /\ req \in [Singles -> Asks(MaxConv + 1)] /\ logs = [s \in Singles |-> logs[s]]
      /\ convs \in [1..(MaxConv + 1) -> ConvRows(Singles) \cup {Gone}]
  BY DEF ChatTyped
<1> DEFINE New(kind, target, pc, fate) ==
             /\ pc = "found" => target \in 1..(MaxConv + 1)
             /\ req' = [req EXCEPT ![r] = Asked(kind, target, pc, fate)]
           Came == \E kind \in {"chat", "stream", "update", "delete"}, target \in 0..(MaxConv + 1 + 1),
                       pc \in {"dispatch", "open", "found", "end"}, fate \in {"none", "refused"} :
                       New(kind, target, pc, fate)
           Enters == req[r].pc = "idle" /\ UNCHANGED <<provider, switches, convs, logs>> /\ Came
<1>2. ASSUME NEW kind, NEW target, NEW pc
      PROVE  /\ [Chat!Idle EXCEPT !.kind = kind, !.target = target, !.pc = pc]
                   = Asked(kind, target, pc, "none")
             /\ [[Chat!Idle EXCEPT !.kind = kind, !.target = target, !.pc = pc]
                   EXCEPT !.pc = "end", !.fate = "refused"] = Asked(kind, target, "end", "refused")
  <2>1. PICK q : q = [Chat!Idle EXCEPT !.kind = kind, !.target = target, !.pc = pc]
    OBVIOUS
  <2>2. q = Asked(kind, target, pc, "none")
    BY <2>1 DEF Asked, Chat!Idle, Chat!None
  <2>3. [Asked(kind, target, pc, "none") EXCEPT !.pc = "end", !.fate = "refused"]
            = Asked(kind, target, "end", "refused")
    BY AskedRefused
  <2> QED BY <2>1, <2>2, <2>3
<1>0. Enters
  <2>1. ASSUME NEW target \in Chat!Targets, Chat!chat_with_ai(r, target) PROVE Enters
    <3>1. /\ req[r].pc = "idle" /\ UNCHANGED <<provider, switches, convs, logs>>
          /\ \/ New("chat", target, "dispatch", "none") \/ New("chat", target, "end", "refused")
      BY <1>2, <2>1 DEF Chat!chat_with_ai, Chat!Becomes
    <3> QED BY <3>1 DEF Chat!Targets, Chat!Ids, Chat!NewConversation, Chat!Temporary
  <2>2. ASSUME NEW target \in Chat!Targets, Chat!chat_stream_with_ai(r, target) PROVE Enters
    <3>1. /\ req[r].pc = "idle" /\ UNCHANGED <<provider, switches, convs, logs>>
          /\ \/ New("stream", target, "open", "none") \/ New("stream", target, "end", "refused")
      BY <1>2, <2>2 DEF Chat!chat_stream_with_ai, Chat!Becomes
    <3> QED BY <3>1 DEF Chat!Targets, Chat!Ids, Chat!NewConversation, Chat!Temporary
  <2>3. ASSUME NEW c \in Chat!Ids, NEW kind \in {"update", "delete"}, Chat!FindConversation(r, kind, c)
        PROVE  Enters
    <3>1. /\ req[r].pc = "idle" /\ UNCHANGED <<provider, switches, convs, logs>>
          /\ \/ New(kind, c, "found", "none") \/ New(kind, c, "end", "refused")
      BY <1>2, <2>3 DEF Chat!FindConversation, Chat!Becomes, Chat!Ids
    <3>2. c \in 0..(MaxConv + 1 + 1)
      BY DEF Chat!Ids
    <3> QED BY <3>1, <3>2
  <2> QED BY <2>1, <2>2, <2>3 DEF Chat!Arrives, Chat!update_conversation, Chat!delete_conversation
<1>3. PICK kind \in {"chat", "stream", "update", "delete"}, target \in 0..(MaxConv + 1 + 1),
           pc \in {"dispatch", "open", "found", "end"}, fate \in {"none", "refused"} :
           New(kind, target, pc, fate)
  BY <1>0
<1>9. PICK q : q = Asked(kind, target, pc, fate)
  OBVIOUS
<1>4. /\ q \in Asks(MaxConv + 1) /\ q.stored = 0 /\ q.pc # "write"
      /\ PassSound(q) /\ StoreSound(q, MaxConv + 1)
  BY <1>3, <1>9, AskedTyped
<1>5. AskSound(req[r], logs[r], MaxConv + 1)
  BY DEF ChatTyped
<1>6. logs[r] = <<>> /\ req[r].stored = 0
  BY <1>0, <1>5 DEF AskSound, LogSound, StoreSound
<1>7. AskSound(q, <<>>, MaxConv + 1)
  BY <1>4 DEF AskSound, LogSound
<1>8. logs' = [logs EXCEPT ![r] = <<>>] /\ req' = [req EXCEPT ![r] = q]
  BY <1>0, <1>1, <1>3, <1>6, <1>9
<1>10. MaxConv + 1 \in Nat /\ convs' = convs /\ provider' = provider /\ switches' = switches
  BY <1>0
<1> QED BY <1>1, <1>4, <1>6, <1>7, <1>8, <1>10, Moves

\* A step of a request that changes its own record only.
LEMMA ChatGoes ==
    ASSUME ChatTyped(Singles, MaxConv + 1), NEW r \in Singles, NEW q, Chat!Becomes(r, q),
           q \in Asks(MaxConv + 1), PassSound(q), StoreSound(q, MaxConv + 1), q.stored = req[r].stored,
           q.pc = "write" => q.base <= 2 * Cardinality(Storers(Singles)), req[r].pc # "end",
           UNCHANGED <<provider, switches, convs, logs>>
    PROVE  ChatTyped(Singles, MaxConv + 1)'
<1> USE AiAssumption DEF Chat!ChatAssumption
<1>1. /\ logs = [s \in Singles |-> logs[s]] /\ convs \in [1..(MaxConv + 1) -> ConvRows(Singles) \cup {Gone}]
      /\ AskSound(req[r], logs[r], MaxConv + 1)
  BY DEF ChatTyped
<1>2. logs[r] = <<>>
  BY <1>1 DEF AskSound, LogSound
<1>3. AskSound(q, <<>>, MaxConv + 1)
  BY DEF AskSound, LogSound
<1>4. logs' = [logs EXCEPT ![r] = <<>>] /\ req' = [req EXCEPT ![r] = q]
  BY <1>1, <1>2 DEF Chat!Becomes
<1> QED BY <1>1, <1>3, <1>4, Moves

\* The end of a request, with a row of its log or without.
LEMMA ChatEnds ==
    ASSUME ChatTyped(Singles, MaxConv + 1), NEW r \in Singles, NEW q, Chat!Becomes(r, q), req[r].pc # "end",
           q \in Asks(MaxConv + 1), PassSound(q), StoreSound(q, MaxConv + 1), q.stored = req[r].stored, q.pc = "end",
           \/ UNCHANGED logs
           \/ \E e \in LogRows(MaxConv + 1) : RowTells(q, e, MaxConv + 1) /\ logs' = [logs EXCEPT ![r] = Append(@, e)],
           UNCHANGED <<provider, switches, convs>>
    PROVE  ChatTyped(Singles, MaxConv + 1)'
<1> USE AiAssumption DEF Chat!ChatAssumption
<1>1. /\ logs = [s \in Singles |-> logs[s]] /\ convs \in [1..(MaxConv + 1) -> ConvRows(Singles) \cup {Gone}]
      /\ AskSound(req[r], logs[r], MaxConv + 1)
  BY DEF ChatTyped
<1>2. logs[r] = <<>>
  BY <1>1 DEF AskSound, LogSound
<1> DEFINE Logged(l) == logs' = [logs EXCEPT ![r] = l] /\ LogSound(q, l, MaxConv + 1)
<1>3. PICK l : Logged(l)
  <2>1. CASE UNCHANGED logs
    <3>1. logs' = [logs EXCEPT ![r] = <<>>] /\ LogSound(q, <<>>, MaxConv + 1)
      BY <1>1, <1>2, <2>1 DEF LogSound
    <3> QED BY <3>1
  <2>2. ASSUME NEW e \in LogRows(MaxConv + 1), RowTells(q, e, MaxConv + 1), logs' = [logs EXCEPT ![r] = Append(@, e)]
        PROVE  \E l : Logged(l)
    <3>1. Append(<<>>, e) = <<e>>
      OBVIOUS
    <3>2. logs' = [logs EXCEPT ![r] = <<e>>] /\ LogSound(q, <<e>>, MaxConv + 1)
      BY <1>1, <1>2, <2>2, <3>1 DEF LogSound
    <3> QED BY <3>2
  <2> QED BY <2>1, <2>2
<1>4. AskSound(q, l, MaxConv + 1)
  BY <1>3 DEF AskSound
<1>5. req' = [req EXCEPT ![r] = q]
  BY DEF Chat!Becomes
<1> QED BY <1>1, <1>3, <1>4, <1>5, Moves

\* Every step of a request's work keeps the types.
LEMMA ChatWork ==
    ASSUME ChatTyped(Singles, MaxConv + 1), NEW r \in Singles, Chat!Works(r)
    PROVE  ChatTyped(Singles, MaxConv + 1)'
<1> USE AiAssumption DEF Chat!ChatAssumption
<1>1. PICK q \in Asks(MaxConv + 1) : q = req[r] /\ PassSound(q) /\ StoreSound(q, MaxConv + 1)
  BY DEF ChatTyped, AskSound
<1>2. convs \in [1..(MaxConv + 1) -> ConvRows(Singles) \cup {Gone}] /\ provider \in Models
  BY DEF ChatTyped
<1>0. IsFiniteSet(Singles)
  BY DEF Chat!IsFiniteSet, IsFiniteSet
<1>23. PICK stores \in Nat : stores = Cardinality(Storers(Singles))
  <2>1. IsFiniteSet(Storers(Singles))
    BY <1>0, FS_Subset DEF Storers
  <2> QED BY <2>1, FS_CardinalityType
<1> DEFINE Sound(p) == /\ p \in Asks(MaxConv + 1) /\ PassSound(p) /\ StoreSound(p, MaxConv + 1)
                       /\ p.stored = q.stored /\ p.pc # "write"
<1>3. ASSUME NEW p, Chat!Becomes(r, p), Sound(p), q.pc # "end",
             UNCHANGED <<provider, switches, convs, logs>>
      PROVE  ChatTyped(Singles, MaxConv + 1)'
  BY <1>1, <1>3, ChatGoes
<1>4. CASE Chat!event_stream(r)
  <2>1. PICK some \in BOOLEAN :
          Chat!Becomes(r, [q EXCEPT !.pc = "dispatch", !.yielded = some,
                                   !.frames = IF some THEN <<"citations">> ELSE @])
    BY <1>1, <1>4 DEF Chat!event_stream
  <2>2. PICK f \in Seq({"citations", "delta", "done", "error"}) : f = IF some THEN <<"citations">> ELSE q.frames
    <3>1. q.frames \in Seq({"citations", "delta", "done", "error"})
      BY DEF Asks
    <3>2. <<"citations">> \in Seq({"citations", "delta", "done", "error"})
      OBVIOUS
    <3> QED BY <3>1, <3>2
  <2>3. PICK p : p = [q EXCEPT !.pc = "dispatch", !.yielded = some, !.frames = f] /\ Chat!Becomes(r, p)
    BY <2>1, <2>2
  <2>4. q.pc = "open" /\ UNCHANGED <<provider, switches, convs, logs>>
    BY <1>1, <1>4 DEF Chat!event_stream, Chat!At
  <2>5. p \in Asks(MaxConv + 1)
    BY <2>3 DEF Asks, Pcs
  <2>6. PassSound(p) /\ StoreSound(p, MaxConv + 1) /\ p.stored = q.stored /\ p.pc # "write"
    BY <1>1, <2>3, <2>4 DEF Asks, PassSound, StoreSound
  <2> QED BY <1>3, <2>3, <2>4, <2>5, <2>6
<1>5. CASE Chat!_stream_pass(r)
  <2>1. PICK p : p = [q EXCEPT !.pc = "answer", !.via = provider, !.pass = @ + 1, !.shown = 0, !.yielded = FALSE]
                   /\ Chat!Becomes(r, p)
    BY <1>1, <1>5 DEF Chat!_stream_pass
  <2>2. q.pc = "dispatch" /\ UNCHANGED <<provider, switches, convs, logs>>
    BY <1>1, <1>5 DEF Chat!_stream_pass
  <2>3. q.pass \in 0..1 /\ q.shownIn = {}
    BY <1>1, <2>2 DEF PassSound
  <2>6. q.pass + 1 \in 0..2 /\ 0 \in 0..MaxDeltas /\ provider \in Models \cup {"none"}
    BY <1>2, <2>3
  <2>4. p \in Asks(MaxConv + 1)
    BY <2>1, <2>6 DEF Asks, Pcs
  <2>5. PassSound(p) /\ StoreSound(p, MaxConv + 1) /\ p.stored = q.stored /\ p.pc # "write"
    BY <1>1, <2>1, <2>2, <2>3 DEF Asks, PassSound, StoreSound
  <2> QED BY <1>3, <2>1, <2>2, <2>4, <2>5
<1>6. CASE Chat!Delta(r)
  <2>1. PICK p : p = [q EXCEPT !.shown = @ + 1, !.shownIn = @ \cup {q.pass}, !.yielded = TRUE,
                               !.frames = Append(@, "delta")] /\ Chat!Becomes(r, p)
    BY <1>1, <1>6 DEF Chat!Delta
  <2>2. /\ q.pc = "answer" /\ q.shown < MaxDeltas /\ q.pass \in 1..2
        /\ UNCHANGED <<provider, switches, convs, logs>>
    BY <1>1, <1>6 DEF Chat!Delta, Chat!At, PassSound, Asks
  <2>3. Append(q.frames, "delta") \in Seq({"citations", "delta", "done", "error"})
    BY DEF Asks
  <2>6. q.shown + 1 \in 0..MaxDeltas /\ q.shownIn \cup {q.pass} \in SUBSET {1, 2}
    BY <2>2 DEF Asks
  <2>4. p \in Asks(MaxConv + 1)
    BY <2>1, <2>3, <2>6 DEF Asks, Pcs
  <2>5. PassSound(p) /\ StoreSound(p, MaxConv + 1) /\ p.stored = q.stored /\ p.pc # "write"
    BY <1>1, <2>1, <2>2 DEF Asks, PassSound, StoreSound
  <2> QED BY <1>3, <2>1, <2>2, <2>4, <2>5
<1>7. ASSUME NEW pc \in {"persist", "dispatch", "fail"}, Chat!Becomes(r, Chat!Passed(r, pc)), q.pc = "answer",
             pc = "dispatch" => q.pass = 1 /\ q.shown = 0, UNCHANGED <<provider, switches, convs, logs>>
      PROVE  ChatTyped(Singles, MaxConv + 1)'
  <2>1. PICK p : p = [q EXCEPT !.pc = pc, !.yielded = FALSE] /\ Chat!Becomes(r, p)
    BY <1>1, <1>7 DEF Chat!Passed
  <2>2. p \in Asks(MaxConv + 1)
    BY <2>1 DEF Asks, Pcs
  <2>3. PassSound(p) /\ StoreSound(p, MaxConv + 1) /\ p.stored = q.stored /\ p.pc # "write"
    BY <1>1, <1>7, <2>1 DEF Asks, PassSound, StoreSound
  <2> QED BY <1>3, <1>7, <2>1, <2>2, <2>3
<1>8. CASE Chat!chat_stream(r)
  <2>1. PICK empty \in BOOLEAN :
          Chat!Becomes(r, Chat!Passed(r, IF ~empty THEN "persist"
                                       ELSE IF Chat!Retries(r) THEN "dispatch" ELSE "fail"))
    BY <1>8 DEF Chat!chat_stream
  <2>2. PICK pc : pc = IF ~empty THEN "persist" ELSE IF Chat!Retries(r) THEN "dispatch" ELSE "fail"
    OBVIOUS
  <2>3. pc \in {"persist", "dispatch", "fail"} /\ (pc = "dispatch" => q.pass = 1 /\ q.shown = 0)
    BY <1>1, <2>2 DEF Chat!Retries
  <2>4. q.pc = "answer" /\ UNCHANGED <<provider, switches, convs, logs>>
    BY <1>1, <1>8 DEF Chat!chat_stream, Chat!At
  <2> QED BY <1>7, <2>1, <2>2, <2>3, <2>4
<1>9. CASE Chat!chat(r)
  BY <1>1, <1>7, <1>9 DEF Chat!chat, Chat!At
<1>10. CASE Chat!Unavailable(r)
  BY <1>1, <1>7, <1>10 DEF Chat!Unavailable
<1>11. ASSUME NEW p, Chat!Becomes(r, p), Sound(p), p.pc = "end", q.pc # "end",
              \/ UNCHANGED logs
              \/ \E e \in LogRows(MaxConv + 1) : RowTells(p, e, MaxConv + 1) /\ logs' = [logs EXCEPT ![r] = Append(@, e)],
              UNCHANGED <<provider, switches, convs>>
       PROVE  ChatTyped(Singles, MaxConv + 1)'
  BY <1>1, <1>11, ChatEnds
<1>12. CASE Chat!log_failure(r)
  <2>1. q.pc = "fail" /\ UNCHANGED <<provider, switches, convs>>
    BY <1>1, <1>12 DEF Chat!log_failure
  <2>2. q.stored = 0 /\ q.model = "none"
    BY <1>1, <2>1 DEF StoreSound
  <2>3. ASSUME NEW f \in Seq({"citations", "delta", "done", "error"}), NEW p,
               p = [q EXCEPT !.pc = "end", !.yielded = FALSE, !.frames = f], Chat!Becomes(r, p),
               \/ UNCHANGED logs \/ Chat!_request_log(r, "error", 0, Chat!effective_model)
        PROVE  ChatTyped(Singles, MaxConv + 1)'
    <3>1. p \in Asks(MaxConv + 1)
      BY <2>3 DEF Asks, Pcs
    <3>2. PassSound(p) /\ StoreSound(p, MaxConv + 1) /\ p.stored = q.stored /\ p.pc = "end" /\ p.model = "none"
      BY <1>1, <2>1, <2>2, <2>3 DEF Asks, PassSound, StoreSound
    <3>6. 0 \in 0..(MaxConv + 1)
      OBVIOUS
    <3>3. PICK e \in LogRows(MaxConv + 1) : e = [status |-> "error", conv |-> 0, model |-> provider]
      BY <1>2, <3>6 DEF LogRows
    <3>4. RowTells(p, e, MaxConv + 1)
      BY <2>2, <3>2, <3>3 DEF RowTells
    <3>5. UNCHANGED logs \/ logs' = [logs EXCEPT ![r] = Append(@, e)]
      BY <2>3, <3>3 DEF Chat!_request_log, Chat!effective_model
    <3> QED BY <1>11, <2>1, <2>3, <3>1, <3>2, <3>4, <3>5
  <2>4. q.frames \in Seq({"citations", "delta", "done", "error"})
    BY DEF Asks
  <2>5. Append(q.frames, "error") \in Seq({"citations", "delta", "done", "error"})
    BY <2>4
  <2>6. [q EXCEPT !.pc = "end", !.yielded = FALSE] = [q EXCEPT !.pc = "end", !.yielded = FALSE, !.frames = q.frames]
    BY DEF Asks
  <2>7. PICK f : f = IF q.kind = "stream" THEN Append(q.frames, "error") ELSE q.frames
    OBVIOUS
  <2>8. Chat!ErrorFrame(r) = [q EXCEPT !.pc = "end", !.yielded = FALSE, !.frames = f]
    BY <1>1, <2>7 DEF Chat!ErrorFrame, Chat!Ended, Asks
  <2>9. CASE Chat!_request_log(r, "error", 0, Chat!effective_model) /\ Chat!Becomes(r, Chat!ErrorFrame(r))
    BY <2>3, <2>4, <2>5, <2>7, <2>8, <2>9
  <2>10. CASE Chat!Becomes(r, Chat!Ended(r)) /\ UNCHANGED logs
    BY <1>1, <2>3, <2>4, <2>6, <2>10 DEF Chat!Ended
  <2> QED BY <1>12, <2>9, <2>10 DEF Chat!log_failure
<1>13. CASE Chat!LogAnswer(r)
  <2>1. q.pc = "log" /\ UNCHANGED <<provider, switches, convs>>
    BY <1>1, <1>13 DEF Chat!LogAnswer
  <2>2. q.model \in Models /\ q.failed = (q.stored = 0 /\ q.target # MaxConv + 1 + 1)
    BY <1>1, <2>1 DEF StoreSound, Asks
  <2>3. ASSUME NEW f \in Seq({"citations", "delta", "done", "error"}), NEW p,
               p = [q EXCEPT !.pc = "end", !.yielded = FALSE, !.frames = f], Chat!Becomes(r, p),
               \/ UNCHANGED logs
               \/ Chat!_request_log(r, IF q.failed THEN "error" ELSE "ok", q.stored,
                                   IF q.kind = "chat" THEN q.model ELSE Chat!effective_model)
        PROVE  ChatTyped(Singles, MaxConv + 1)'
    <3>1. p \in Asks(MaxConv + 1)
      BY <2>3 DEF Asks, Pcs
    <3>2. /\ PassSound(p) /\ StoreSound(p, MaxConv + 1) /\ p.stored = q.stored /\ p.pc = "end"
          /\ p.model = q.model /\ p.target = q.target
      BY <1>1, <2>1, <2>3 DEF Asks, PassSound, StoreSound
    <3>3. PICK e : e = [status |-> IF q.failed THEN "error" ELSE "ok", conv |-> q.stored,
                        model |-> IF q.kind = "chat" THEN q.model ELSE provider]
      OBVIOUS
    <3>4. e \in LogRows(MaxConv + 1)
      BY <1>2, <2>2, <3>3 DEF LogRows, Asks
    <3>5. RowTells(p, e, MaxConv + 1)
      BY <2>2, <3>2, <3>3 DEF RowTells, Models
    <3>6. UNCHANGED logs \/ logs' = [logs EXCEPT ![r] = Append(@, e)]
      BY <2>3, <3>3 DEF Chat!_request_log, Chat!effective_model
    <3> QED BY <1>11, <2>1, <2>3, <3>1, <3>2, <3>4, <3>5, <3>6
  <2>4. q.frames \in Seq({"citations", "delta", "done", "error"})
    BY DEF Asks
  <2>5. Append(q.frames, "done") \in Seq({"citations", "delta", "done", "error"})
    BY <2>4
  <2>6. [q EXCEPT !.pc = "end", !.yielded = FALSE] = [q EXCEPT !.pc = "end", !.yielded = FALSE, !.frames = q.frames]
    BY DEF Asks
  <2>7. PICK f : f = IF q.kind = "stream" THEN Append(q.frames, "done") ELSE q.frames
    OBVIOUS
  <2>8. [Chat!Ended(r) EXCEPT !.frames = IF q.kind = "stream" THEN Append(@, "done") ELSE @]
          = [q EXCEPT !.pc = "end", !.yielded = FALSE, !.frames = f]
    BY <1>1, <2>7 DEF Chat!Ended, Asks
  <2>9. CASE /\ Chat!_request_log(r, IF q.failed THEN "error" ELSE "ok", q.stored,
                                 IF q.kind = "chat" THEN q.model ELSE Chat!effective_model)
             /\ Chat!Becomes(r, [Chat!Ended(r) EXCEPT !.frames = IF q.kind = "stream" THEN Append(@, "done") ELSE @])
    BY <2>3, <2>4, <2>5, <2>7, <2>8, <2>9
  <2>10. CASE Chat!Becomes(r, Chat!Ended(r)) /\ UNCHANGED logs
    BY <1>1, <2>3, <2>4, <2>6, <2>10 DEF Chat!Ended
  <2> QED BY <1>1, <1>13, <2>9, <2>10 DEF Chat!LogAnswer
<1>14. ASSUME Chat!Becomes(r, Chat!PersistFailed(r)), q.pc \in {"persist", "write"}, q.target \in 0..(MaxConv + 1),
              UNCHANGED <<provider, switches, convs, logs>>
       PROVE  ChatTyped(Singles, MaxConv + 1)'
  <2>1. q.stored = 0 /\ q.model = "none"
    BY <1>1, <1>14 DEF StoreSound
  <2>2. CASE q.kind = "chat"
    <3>1. PICK p : p = [q EXCEPT !.pc = "end", !.yielded = FALSE, !.fate = "refused"] /\ Chat!Becomes(r, p)
      BY <1>1, <1>14, <2>2 DEF Chat!PersistFailed, Chat!Refused, Chat!Ended, Asks
    <3>2. p \in Asks(MaxConv + 1)
      BY <3>1 DEF Asks, Pcs
    <3>3. PassSound(p) /\ StoreSound(p, MaxConv + 1) /\ p.stored = q.stored /\ p.pc # "write"
      BY <1>1, <1>14, <3>1 DEF Asks, PassSound, StoreSound
    <3> QED BY <1>3, <1>14, <3>1, <3>2, <3>3
  <2>3. CASE q.kind # "chat"
    <3>1. PICK p : p = [q EXCEPT !.pc = "model", !.failed = TRUE] /\ Chat!Becomes(r, p)
      BY <1>1, <1>14, <2>3 DEF Chat!PersistFailed
    <3>2. p \in Asks(MaxConv + 1)
      BY <3>1 DEF Asks, Pcs
    <3>3. PassSound(p) /\ StoreSound(p, MaxConv + 1) /\ p.stored = q.stored /\ p.pc # "write"
      <4>1. q.target # MaxConv + 1 + 1
        BY <1>14
      <4> QED BY <1>1, <1>14, <2>1, <3>1, <4>1 DEF Asks, PassSound, StoreSound
    <3> QED BY <1>3, <1>14, <3>1, <3>2, <3>3
  <2> QED BY <2>2, <2>3
<1>15. ASSUME NEW c \in 1..(MaxConv + 1), Chat!Becomes(r, Chat!Stored(r, c)), q.pc \in {"persist", "write"},
              NEW rec \in ConvRows(Singles), convs' = [convs EXCEPT ![c] = rec],
              \A t \in rec.turns : t \in convs[c].turns \/ t.seq <= 2 * Cardinality(Storers(Singles)),
              UNCHANGED <<provider, switches, logs>>
       PROVE  ChatTyped(Singles, MaxConv + 1)'
  <2>1. PICK p : p = [q EXCEPT !.pc = "model", !.stored = c] /\ req' = [req EXCEPT ![r] = p]
    BY <1>1, <1>15 DEF Chat!Stored, Chat!Becomes
  <2>2. p \in Asks(MaxConv + 1)
    <3>1. c \in 0..(MaxConv + 1)
      OBVIOUS
    <3> QED BY <2>1, <3>1 DEF Asks, Pcs
  <2>3. q.stored = 0 /\ PassSound(p) /\ StoreSound(p, MaxConv + 1) /\ p.stored = c /\ p.pc = "model"
    BY <1>1, <1>15, <2>1 DEF Asks, PassSound, StoreSound
  <2>4. logs = [s \in Singles |-> logs[s]] /\ logs[r] = <<>>
    BY <1>1, <1>15 DEF ChatTyped, AskSound, LogSound
  <2>5. logs' = [logs EXCEPT ![r] = <<>>]
    BY <1>15, <2>4
  <2>6. AskSound(p, <<>>, MaxConv + 1)
    BY <2>3 DEF AskSound, LogSound
  <2>7. p.stored # 0 /\ req[r].stored = 0 /\ p.pc # "write"
    BY <1>1, <2>3
  <2> QED BY <1>0, <1>15, <2>1, <2>2, <2>5, <2>6, <2>7, Stores
<1>16. CASE Chat!create_conversation(r)
  <2>1. q.pc = "persist" /\ q.target = 0 /\ UNCHANGED <<provider, switches, logs>>
    BY <1>1, <1>16 DEF Chat!create_conversation, Chat!NewConversation
  <2>2. PICK id : id = Chat!Max({0} \cup {c \in Chat!Ids : convs[c] # Chat!NoConv}) + 1
    OBVIOUS
  <2>3. CASE /\ id \in Chat!Ids /\ Chat!Becomes(r, Chat!Stored(r, id))
             /\ convs' = [convs EXCEPT ![id] = [owner |-> SessionsOf(Singles)[r], title |-> SessionsOf(Singles)[r],
                                                turns |-> {[by |-> r, seq |-> 0]}]]
    <3>1. PICK rec : rec = [owner |-> SessionsOf(Singles)[r], title |-> SessionsOf(Singles)[r],
                            turns |-> {[by |-> r, seq |-> 0]}]
      OBVIOUS
    <3>2. SessionsOf(Singles)[r] \in {Browser, Second}
      BY DEF SessionsOf
    <3>3. rec \in ConvRows(Singles)
      BY <3>1, <3>2 DEF ConvRows
    <3>4. \A t \in rec.turns : t.seq = 0
      BY <3>1
    <3>5. 0 <= 2 * Cardinality(Storers(Singles))
      BY <1>23
    <3>6. id \in 1..(MaxConv + 1) /\ convs' = [convs EXCEPT ![id] = rec]
      BY <2>3, <3>1 DEF Chat!Ids
    <3>7. \A t \in rec.turns : t \in convs[id].turns \/ t.seq <= 2 * Cardinality(Storers(Singles))
      BY <3>4, <3>5
    <3> QED BY <1>15, <2>1, <2>3, <3>3, <3>6, <3>7
  <2>4. CASE Chat!Becomes(r, Chat!PersistFailed(r)) /\ UNCHANGED convs
    BY <1>14, <2>1, <2>4
  <2> QED BY <1>16, <2>2, <2>3, <2>4 DEF Chat!create_conversation
<1>17. CASE Chat!get_conversation(r)
  <2>1. q.pc = "persist" /\ q.target \in 1..(MaxConv + 1) /\ UNCHANGED <<provider, switches, convs, logs>>
    BY <1>1, <1>17 DEF Chat!get_conversation, Chat!Ids
  <2>2. CASE Chat!Becomes(r, [q EXCEPT !.pc = "base"])
    <3>1. PICK p : p = [q EXCEPT !.pc = "base"] /\ Chat!Becomes(r, p)
      BY <2>2
    <3>2. p \in Asks(MaxConv + 1)
      BY <3>1 DEF Asks, Pcs
    <3>3. PassSound(p) /\ StoreSound(p, MaxConv + 1) /\ p.stored = q.stored /\ p.pc # "write"
      BY <1>1, <2>1, <3>1 DEF Asks, PassSound, StoreSound
    <3> QED BY <1>3, <2>1, <3>1, <3>2, <3>3
  <2>3. CASE Chat!Becomes(r, Chat!PersistFailed(r))
    BY <1>14, <2>1, <2>3
  <2> QED BY <1>1, <1>17, <2>2, <2>3 DEF Chat!get_conversation
<1>18. CASE Chat!ReadBase(r)
  <2>1. q.pc = "base" /\ UNCHANGED <<provider, switches, convs, logs>> /\ q.target \in 1..(MaxConv + 1)
    BY <1>1, <1>18 DEF Chat!ReadBase, StoreSound
  <2>2. PICK k \in Nat : k = Cardinality(Storers(Singles))
    BY <1>23
  <2>3. convs[q.target] \in ConvRows(Singles) \cup {Gone}
    BY <1>2, <2>1
  <2>4. \A t \in convs[q.target].turns : t.seq \in Nat
    BY <2>3 DEF ConvRows, Gone
  <2>5. \A t \in convs[q.target].turns : t.seq + 2 <= 2 * k
    BY <2>1, <2>2 DEF ChatTyped, Numbered
  <2>6. PICK b : b = Chat!NextSeq(convs[q.target].turns)
    OBVIOUS
  <2>7. Chat!NextSeq(convs[q.target].turns) = Chats!NextSeq(convs[q.target].turns)
    BY DEF Chat!NextSeq, Chats!NextSeq, Chat!Max, Chats!Max
  <2>8. b \in Nat /\ b <= 2 * k
    BY <2>4, <2>5, <2>6, <2>7, NextNumber
  <2>9. PICK p : p = [q EXCEPT !.pc = "write", !.base = b] /\ Chat!Becomes(r, p)
    BY <1>1, <1>18, <2>6 DEF Chat!ReadBase
  <2>10. p \in Asks(MaxConv + 1)
    BY <2>8, <2>9 DEF Asks, Pcs
  <2>11. PassSound(p) /\ StoreSound(p, MaxConv + 1) /\ p.stored = q.stored /\ p.base = b
    BY <1>1, <2>1, <2>9 DEF Asks, PassSound, StoreSound
  <2> QED BY <1>1, <2>1, <2>2, <2>8, <2>9, <2>10, <2>11, ChatGoes
<1>19. CASE Chat!append_turn(r)
  <2>1. q.pc = "write" /\ UNCHANGED <<provider, switches, logs>> /\ q.target \in 1..(MaxConv + 1) /\ q.base \in Nat
    BY <1>1, <1>19 DEF Chat!append_turn, StoreSound, Asks
  <2>2. CASE /\ convs[q.target] # Chat!NoConv /\ Chat!Becomes(r, Chat!Stored(r, q.target))
             /\ convs' = [convs EXCEPT ![q.target].turns = @ \cup {[by |-> r, seq |-> q.base]}]
    <3>1. PICK old \in ConvRows(Singles) : old = convs[q.target]
      BY <1>2, <2>1, <2>2 DEF Gone, Chat!NoConv, Chat!None
    <3>2. PICK rec : rec = [old EXCEPT !.turns = @ \cup {[by |-> r, seq |-> q.base]}]
      OBVIOUS
    <3>3. rec \in ConvRows(Singles) /\ \A t \in rec.turns : t \in convs[q.target].turns \/ t.seq = q.base
      BY <2>1, <3>1, <3>2 DEF ConvRows
    <3>4. convs' = [convs EXCEPT ![q.target] = rec]
      BY <1>2, <2>1, <2>2, <3>1, <3>2
    <3>5. q.base <= 2 * Cardinality(Storers(Singles))
      BY <1>1, <2>1 DEF ChatTyped, Numbered
    <3>6. PICK c \in 1..(MaxConv + 1) : c = q.target
      BY <2>1
    <3>7. /\ Chat!Becomes(r, Chat!Stored(r, c)) /\ convs' = [convs EXCEPT ![c] = rec]
          /\ \A t \in rec.turns : t \in convs[c].turns \/ t.seq <= 2 * Cardinality(Storers(Singles))
      BY <2>2, <3>3, <3>4, <3>5, <3>6
    <3> QED BY <1>15, <2>1, <3>3, <3>7
  <2>3. CASE Chat!Becomes(r, Chat!PersistFailed(r)) /\ UNCHANGED convs
    <3>1. q.target \in 0..(MaxConv + 1)
      BY <2>1
    <3> QED BY <1>14, <2>1, <2>3, <3>1
  <2> QED BY <1>1, <1>19, <2>2, <2>3 DEF Chat!append_turn
<1>20. CASE Chat!KeepNothing(r)
  <2>1. PICK p : p = [q EXCEPT !.pc = "model"] /\ Chat!Becomes(r, p)
    BY <1>1, <1>20 DEF Chat!KeepNothing
  <2>2. q.pc = "persist" /\ q.target = MaxConv + 1 + 1 /\ UNCHANGED <<provider, switches, convs, logs>>
    BY <1>1, <1>20 DEF Chat!KeepNothing, Chat!Temporary
  <2>3. p \in Asks(MaxConv + 1)
    BY <2>1 DEF Asks, Pcs
  <2>4. PassSound(p) /\ StoreSound(p, MaxConv + 1) /\ p.stored = q.stored /\ p.pc # "write"
    BY <1>1, <2>1, <2>2 DEF Asks, PassSound, StoreSound
  <2> QED BY <1>3, <2>1, <2>2, <2>3, <2>4
<1>21. CASE Chat!AskModel(r)
  <2>1. PICK p : p = [q EXCEPT !.pc = "log", !.model = provider] /\ Chat!Becomes(r, p)
    BY <1>1, <1>21 DEF Chat!AskModel, Chat!effective_model
  <2>2. q.pc = "model" /\ UNCHANGED <<provider, switches, convs, logs>>
    BY <1>1, <1>21 DEF Chat!AskModel
  <2>3. p \in Asks(MaxConv + 1)
    BY <1>2, <2>1 DEF Asks, Pcs
  <2>4. PassSound(p) /\ StoreSound(p, MaxConv + 1) /\ p.stored = q.stored /\ p.pc # "write"
    BY <1>1, <1>2, <2>1, <2>2 DEF Asks, PassSound, StoreSound, Models
  <2> QED BY <1>3, <2>1, <2>2, <2>3, <2>4
<1>22. CASE Chat!Edit(r)
  <2>1. q.pc = "found" /\ UNCHANGED <<provider, switches, logs>> /\ q.target \in 1..(MaxConv + 1)
    BY <1>1, <1>22 DEF Chat!Edit, StoreSound
  <2>2. PICK p : p = [q EXCEPT !.pc = "end", !.yielded = FALSE] /\ req' = [req EXCEPT ![r] = p]
    BY <1>1, <1>22 DEF Chat!Edit, Chat!Ended, Chat!Becomes
  <2>3. p \in Asks(MaxConv + 1)
    BY <2>2 DEF Asks, Pcs
  <2>4. PassSound(p) /\ StoreSound(p, MaxConv + 1) /\ p.stored = q.stored /\ p.pc = "end"
    BY <1>1, <2>1, <2>2 DEF Asks, PassSound, StoreSound
  <2>5. logs = [s \in Singles |-> logs[s]] /\ logs[r] = <<>>
    BY <1>1, <2>1 DEF ChatTyped, AskSound, LogSound
  <2>6. logs' = [logs EXCEPT ![r] = <<>>] /\ AskSound(p, <<>>, MaxConv + 1)
    BY <2>1, <2>4, <2>5 DEF AskSound, LogSound
  <2>7. PICK rec : rec = IF q.kind = "delete" \/ convs[q.target] = Chat!NoConv THEN Chat!NoConv
                         ELSE [convs[q.target] EXCEPT !.title = SessionsOf(Singles)[r]]
    OBVIOUS
  <2>8. rec \in ConvRows(Singles) \cup {Gone} /\ rec.turns \subseteq convs[q.target].turns
    <3>1. SessionsOf(Singles)[r] \in {Browser, Second}
      BY DEF SessionsOf
    <3>2. Chat!NoConv = Gone /\ Gone.turns = {}
      BY DEF Chat!NoConv, Chat!None, Gone
    <3>3. CASE rec = Gone
      BY <3>2, <3>3
    <3>4. CASE convs[q.target] # Gone /\ rec = [convs[q.target] EXCEPT !.title = SessionsOf(Singles)[r]]
      <4>1. convs[q.target] \in ConvRows(Singles)
        BY <1>2, <2>1, <3>4
      <4> QED BY <3>1, <3>4, <4>1 DEF ConvRows
    <3> QED BY <2>7, <3>2, <3>3, <3>4
  <2>9. UNCHANGED convs \/ convs' = [convs EXCEPT ![q.target] = rec]
    BY <1>1, <1>22, <2>7 DEF Chat!Edit
  <2>10. /\ convs' \in [1..(MaxConv + 1) -> ConvRows(Singles) \cup {Gone}]
         /\ \A c \in 1..(MaxConv + 1) : convs'[c].turns \subseteq convs[c].turns
    BY <1>2, <2>1, <2>8, <2>9
  <2>11. p.stored = req[r].stored /\ p.pc # "write"
    BY <1>1, <2>4
  <2> QED BY <2>1, <2>2, <2>3, <2>6, <2>10, <2>11, Moves
<1> QED BY <1>4, <1>5, <1>6, <1>8, <1>9, <1>10, <1>12, <1>13, <1>16, <1>17, <1>18, <1>19, <1>20,
           <1>21, <1>22 DEF Chat!Works

LEMMA ChatExit ==
    ASSUME ChatTyped(Singles, MaxConv + 1), NEW r \in Singles, Chat!GeneratorExit(r)
    PROVE  ChatTyped(Singles, MaxConv + 1)'
<1> USE AiAssumption DEF Chat!ChatAssumption
<1>1. PICK q \in Asks(MaxConv + 1) : q = req[r] /\ PassSound(q) /\ StoreSound(q, MaxConv + 1)
  BY DEF ChatTyped, AskSound
<1>2. provider \in Models /\ 0 \in 0..(MaxConv + 1)
  BY DEF ChatTyped
<1>3. q.pc \in {"open", "dispatch", "answer"} /\ UNCHANGED <<provider, switches, convs>>
  BY <1>1 DEF Chat!GeneratorExit, PassSound
<1>4. q.stored = 0 /\ q.model = "none"
  BY <1>1, <1>3 DEF StoreSound
<1>5. PICK p : p = [q EXCEPT !.pc = "end", !.yielded = FALSE, !.fate = "aborted"] /\ Chat!Becomes(r, p)
  BY <1>1 DEF Chat!GeneratorExit, Chat!Ended, Asks
<1>6. p \in Asks(MaxConv + 1)
  BY <1>5 DEF Asks, Pcs
<1>7. PassSound(p) /\ StoreSound(p, MaxConv + 1) /\ p.stored = q.stored /\ p.pc = "end" /\ p.model = "none"
  BY <1>1, <1>3, <1>4, <1>5 DEF Asks, PassSound, StoreSound
<1>8. PICK e \in LogRows(MaxConv + 1) : e = [status |-> "aborted", conv |-> 0, model |-> provider]
  BY <1>2 DEF LogRows
<1>9. RowTells(p, e, MaxConv + 1)
  BY <1>4, <1>7, <1>8 DEF RowTells
<1>10. UNCHANGED logs \/ logs' = [logs EXCEPT ![r] = Append(@, e)]
  BY <1>8 DEF Chat!GeneratorExit, Chat!_request_log, Chat!effective_model
<1>11. p.stored = req[r].stored /\ req[r].pc # "end"
  BY <1>1, <1>3, <1>7
<1> QED BY <1>3, <1>5, <1>6, <1>7, <1>9, <1>10, <1>11, ChatEnds

LEMMA ChatTypedStep ==
    ASSUME ChatTyped(Singles, MaxConv + 1), [Chat!Next]_Chat!vars
    PROVE  ChatTyped(Singles, MaxConv + 1)'
<1>1. CASE UNCHANGED Chat!vars
  BY <1>1 DEF Chat!vars, ChatTyped, Numbered, Storers
<1>2. CASE Chat!set_selection
  <2>1. UNCHANGED <<convs, req, logs>> /\ provider' \in Models /\ switches' \in 0..MaxSwitches
    BY <1>2, AiAssumption DEF Chat!set_selection, Chat!Providers, Models, Chat!ChatAssumption, ChatTyped
  <2> QED BY <2>1 DEF ChatTyped, Numbered, Storers
<1>3. ASSUME NEW r \in Singles, Chat!Arrives(r) \/ Chat!Works(r) \/ Chat!GeneratorExit(r)
      PROVE  ChatTyped(Singles, MaxConv + 1)'
  BY <1>3, ChatArrive, ChatWork, ChatExit
<1> QED BY <1>1, <1>2, <1>3 DEF Chat!Next

\* The types the part names follow.
LEMMA ChatTypes ==
    ASSUME ChatTyped(Singles, MaxConv + 1)
    PROVE  Chat!TypeOK
<1> USE AiAssumption DEF Chat!ChatAssumption
<1>1. /\ provider \in Models /\ switches \in 0..MaxSwitches
      /\ convs \in [1..(MaxConv + 1) -> ConvRows(Singles) \cup {Gone}] /\ req \in [Singles -> Asks(MaxConv + 1)]
      /\ \A r \in Singles : LogSound(req[r], logs[r], MaxConv + 1)
      /\ Numbered(Singles, MaxConv + 1)
  BY DEF ChatTyped, AskSound
<1>2. IsFiniteSet(Singles) /\ Chat!Cardinality(Singles) = Cardinality(Singles)
  BY DEF Chat!IsFiniteSet, IsFiniteSet, Chat!Cardinality, Cardinality
<1>3. PICK k \in Nat, m \in Nat : k = Cardinality(Storers(Singles)) /\ m = Cardinality(Singles) /\ k <= m
  <2>1. IsFiniteSet(Storers(Singles)) /\ Cardinality(Storers(Singles)) <= Cardinality(Singles)
    BY <1>2, FS_Subset DEF Storers
  <2> QED BY <1>2, <2>1, FS_CardinalityType
<1>4. ASSUME NEW c \in 1..(MaxConv + 1) PROVE convs[c] \in Chat!Conversations \cup {Chat!NoConv}
  <2>1. CASE convs[c] = Gone
    BY <2>1 DEF Gone, Chat!NoConv, Chat!None
  <2>2. CASE convs[c] \in ConvRows(Singles)
    <3>1. ASSUME NEW t \in convs[c].turns PROVE t \in [by : Singles, seq : 0..(2 * m)]
      <4>1. t \in [by : Singles, seq : Nat]
        BY <2>2 DEF ConvRows
      <4>2. t.seq + 2 <= 2 * k
        BY <1>1, <1>3 DEF Numbered
      <4>3. t.seq \in 0..(2 * m)
        BY <1>3, <4>1, <4>2
      <4> QED BY <4>1, <4>3
    <3>2. convs[c] \in [owner : {Browser, Second}, title : {Browser, Second},
                        turns : SUBSET [by : Singles, seq : 0..(2 * m)]]
      BY <2>2, <3>1 DEF ConvRows
    <3>3. Chat!Conversations = [owner : {Browser, Second}, title : {Browser, Second},
                               turns : SUBSET [by : Singles, seq : 0..(2 * m)]]
      BY <1>2, <1>3 DEF Chat!Conversations
    <3> QED BY <3>2, <3>3
  <2> QED BY <1>1, <2>1, <2>2
<1>5. ASSUME NEW r \in Singles
      PROVE  /\ req[r].pc \in {"idle", "open", "dispatch", "answer", "fail", "persist", "base",
                               "write", "model", "log", "found", "end"}
             /\ req[r].kind \in Chat!Kinds \cup {"none"} /\ req[r].target \in Chat!Targets
             /\ req[r].via \in Chat!Providers \cup {"none"} /\ req[r].pass \in 0..2
             /\ req[r].shown \in 0..MaxDeltas /\ req[r].shownIn \subseteq {1, 2}
             /\ req[r].frames \in Seq(Chat!Frames) /\ req[r].stored \in {0} \cup Chat!Ids
             /\ req[r].model \in Chat!Providers \cup {"none"}
             /\ req[r].fate \in {"none", "refused", "aborted"}
  <2>1. PICK q \in Asks(MaxConv + 1) : q = req[r]
    BY <1>1
  <2>2. q.target \in Chat!Targets /\ q.stored \in {0} \cup Chat!Ids
    BY DEF Asks, Chat!Targets, Chat!Ids, Chat!NewConversation, Chat!Temporary
  <2> QED BY <2>1, <2>2 DEF Asks, Pcs, Models, Chat!Kinds, Chat!Providers, Chat!Frames
<1>6. ASSUME NEW r \in Singles
      PROVE  logs[r] \in Seq([status : {"ok", "error", "aborted"}, conv : {0} \cup Chat!Ids,
                              model : Chat!Providers])
  <2>1. PICK Rows : Rows = [status : {"ok", "error", "aborted"}, conv : {0} \cup Chat!Ids, model : Chat!Providers]
    OBVIOUS
  <2>2. \A e \in LogRows(MaxConv + 1) : e \in Rows
    <3>1. 0..(MaxConv + 1) \subseteq {0} \cup Chat!Ids
      BY DEF Chat!Ids
    <3> QED BY <2>1, <3>1 DEF LogRows, Models, Chat!Providers
  <2>3. logs[r] = <<>> \/ \E e \in Rows : logs[r] = <<e>>
    BY <1>1, <2>2 DEF LogSound
  <2>4. logs[r] \in Seq(Rows)
    <3>1. <<>> \in Seq(Rows) /\ \A e \in Rows : <<e>> \in Seq(Rows)
      OBVIOUS
    <3> QED BY <2>3, <3>1
  <2> QED BY <2>1, <2>4
<1> QED BY <1>1, <1>4, <1>5, <1>6 DEF Chat!TypeOK, Chat!Ids, Chat!None, Chat!Providers, Models

-----------------------------------------------------------------------------
(* One request at a time: what a request was allowed, found and read is    *)
(* still so when it is used.                                               *)

Rests(q) == q.pc \in {"idle", "end"}

\* The provider asked is the one selected, its use was allowed, the model named
\* is the one asked, the conversation is the session's, and the number read for
\* the turn follows those of the conversation.
Current(r, q, l, prov, cs) ==
    /\ q.pc \in {"answer", "persist", "base", "write", "model", "log"} => q.via = prov
    /\ q.pc \in {"open", "dispatch", "answer"} => (prov = "compatible" => r \in Allowed)
    /\ q.via = "compatible" => r \in Allowed
    /\ q.model \in {"none", q.via}
    /\ l = <<>> \/ \E e \in LogRows(MaxConv + 1) : l = <<e>> /\ (e.status = "ok" => e.model = q.via)
    /\ q.pc \in {"found", "base", "write"} => cs[q.target].owner = SessionsOf(Singles)[r]
    /\ q.pc = "write" => \A t \in cs[q.target].turns : t.seq + 2 <= q.base

Apart(cs) == \A c \in 1..(MaxConv + 1) : \A t, u \in cs[c].turns : t # u => t.seq # u.seq

ChatSerial ==
    /\ \A r, s \in Singles : ~Rests(req[r]) /\ ~Rests(req[s]) => r = s
    /\ \A r \in Singles : Current(r, req[r], logs[r], provider, convs)
    /\ Apart(convs)

\* A request at rest is not concerned.
LEMMA AtRest ==
    ASSUME NEW r, NEW q, NEW l, NEW prov, NEW cs, Current(r, q, l, prov, cs), Rests(q),
           NEW prov2, NEW cs2
    PROVE  Current(r, q, l, prov2, cs2)
BY DEF Current, Rests

\* A step of the one request that is under way.
LEMMA SerialMoves ==
    ASSUME ChatTyped(Singles, MaxConv + 1), ChatSerial, NEW r \in Singles,
           \A s \in Singles : s # r => Rests(req[s]), NEW q, NEW l,
           req' = [req EXCEPT ![r] = q], logs' = [logs EXCEPT ![r] = l],
           Current(r, q, l, provider, convs'), provider' = provider, Apart(convs')
    PROVE  ChatSerial'
<1>1. /\ req = [s \in Singles |-> req[s]] /\ logs = [s \in Singles |-> logs[s]]
  BY DEF ChatTyped
<1>2. /\ req'[r] = q /\ logs'[r] = l
      /\ \A s \in Singles : s # r => req'[s] = req[s] /\ logs'[s] = logs[s]
  BY <1>1
<1>3. \A s, u \in Singles : ~Rests(req'[s]) /\ ~Rests(req'[u]) => s = u
  BY <1>2
<1>4. ASSUME NEW s \in Singles PROVE Current(s, req'[s], logs'[s], provider', convs')
  <2>1. CASE s = r
    BY <1>2, <2>1
  <2>2. CASE s # r
    <3>1. Current(s, req[s], logs[s], provider, convs) /\ Rests(req[s])
      BY <2>2 DEF ChatSerial
    <3>2. Current(s, req[s], logs[s], provider', convs')
      BY <3>1, AtRest
    <3> QED BY <1>2, <2>2, <3>2
  <2> QED BY <2>1, <2>2
<1> QED BY <1>3, <1>4 DEF ChatSerial

LEMMA SerialInit ==
    ASSUME Chat!Init
    PROVE  ChatSerial
<1>1. PICK idle : idle = Chat!Idle
  OBVIOUS
<1>2. idle.pc = "idle" /\ idle.via = "none" /\ idle.model = "none"
  BY <1>1 DEF Chat!Idle, Chat!None
<1>3. req = [r \in Singles |-> idle] /\ logs = [r \in Singles |-> <<>>]
  BY <1>1 DEF Chat!Init
<1>4. \A r \in Singles : Current(r, idle, <<>>, provider, convs)
  BY <1>2 DEF Current
<1>5. \A c \in 1..(MaxConv + 1) : convs[c].turns = {}
  BY ChatTypedInit
<1> QED BY <1>2, <1>3, <1>4, <1>5 DEF ChatSerial, Apart, Rests

LEMMA SerialArrive ==
    ASSUME ChatTyped(Singles, MaxConv + 1), ChatSerial, NEW r \in Singles, Chat!Arrives(r)
    PROVE  ChatSerial'
<1>1. /\ req = [s \in Singles |-> req[s]] /\ logs = [s \in Singles |-> logs[s]] /\ Apart(convs)
      /\ AskSound(req[r], logs[r], MaxConv + 1)
  BY DEF ChatTyped, ChatSerial
<1> DEFINE New(q) == /\ req' = [req EXCEPT ![r] = q] /\ q.via = "none" /\ q.model = "none"
                     /\ q.pc \in {"dispatch", "open", "found", "end"}
                     /\ q.pc \in {"dispatch", "open"} => (provider = "compatible" => r \in Allowed)
                     /\ q.pc = "found" => convs[q.target].owner = SessionsOf(Singles)[r]
           Enters == /\ req[r].pc = "idle" /\ Chat!Turn(r) /\ UNCHANGED <<provider, switches, convs, logs>>
                     /\ \E q : New(q)
<1>2. ASSUME NEW kind, NEW target, NEW pc
      PROVE  /\ [Chat!Idle EXCEPT !.kind = kind, !.target = target, !.pc = pc]
                   = Asked(kind, target, pc, "none")
             /\ [[Chat!Idle EXCEPT !.kind = kind, !.target = target, !.pc = pc]
                   EXCEPT !.pc = "end", !.fate = "refused"] = Asked(kind, target, "end", "refused")
  <2>1. PICK q : q = [Chat!Idle EXCEPT !.kind = kind, !.target = target, !.pc = pc]
    OBVIOUS
  <2>2. q = Asked(kind, target, pc, "none")
    BY <2>1 DEF Asked, Chat!Idle, Chat!None
  <2>3. [Asked(kind, target, pc, "none") EXCEPT !.pc = "end", !.fate = "refused"]
            = Asked(kind, target, "end", "refused")
    BY AskedRefused
  <2> QED BY <2>1, <2>2, <2>3
<1>3. ASSUME NEW kind, NEW target, NEW pc \in {"dispatch", "open", "found"}, NEW q,
             q = Asked(kind, target, pc, "none"), req' = [req EXCEPT ![r] = q],
             pc \in {"dispatch", "open"} => (provider = "compatible" => r \in Allowed),
             pc = "found" => convs[target].owner = SessionsOf(Singles)[r]
      PROVE  New(q)
  <2>1. q.via = "none" /\ q.model = "none" /\ q.target = target /\ q.pc = pc
    BY <1>3 DEF Asked
  <2> QED BY <1>3, <2>1
<1>10. ASSUME NEW kind, NEW target, NEW q, q = Asked(kind, target, "end", "refused"),
              req' = [req EXCEPT ![r] = q]
       PROVE  New(q)
  <2>1. q.via = "none" /\ q.model = "none" /\ q.pc = "end"
    BY <1>10 DEF Asked
  <2> QED BY <1>10, <2>1
<1> HIDE DEF New
<1>4. Enters
  <2>1. ASSUME NEW target, Chat!chat_with_ai(r, target) PROVE Enters
    <3>1. ASSUME Chat!_prepare_chat_context(r) PROVE \E q : New(q)
      <4>1. PICK q : q = Asked("chat", target, "dispatch", "none")
        OBVIOUS
      <4>2. req' = [req EXCEPT ![r] = q]
        BY <1>2, <2>1, <3>1, <4>1 DEF Chat!chat_with_ai, Chat!Becomes
      <4>3. New(q)
        <5>1. provider = "compatible" => r \in Allowed
          BY <3>1 DEF Chat!_prepare_chat_context
        <5> QED BY <1>3, <4>1, <4>2, <5>1
      <4> QED BY <4>3
    <3>2. ASSUME ~(Chat!_prepare_chat_context(r)) PROVE \E q : New(q)
      <4>1. PICK q : q = Asked("chat", target, "end", "refused")
        OBVIOUS
      <4>2. req' = [req EXCEPT ![r] = q]
        BY <1>2, <2>1, <3>2, <4>1 DEF Chat!chat_with_ai, Chat!Becomes
      <4> QED BY <1>10, <4>1, <4>2
    <3>3. req[r].pc = "idle" /\ Chat!Turn(r) /\ UNCHANGED <<provider, switches, convs, logs>>
      BY <2>1 DEF Chat!chat_with_ai
    <3>4. \E q : New(q)
      BY <3>1, <3>2
    <3> QED BY <3>3, <3>4
  <2>2. ASSUME NEW target, Chat!chat_stream_with_ai(r, target) PROVE Enters
    <3>1. ASSUME Chat!_prepare_chat_context(r) /\ (target \in Chat!Ids => Chat!Owns(r, target)) PROVE \E q : New(q)
      <4>1. PICK q : q = Asked("stream", target, "open", "none")
        OBVIOUS
      <4>2. req' = [req EXCEPT ![r] = q]
        BY <1>2, <2>2, <3>1, <4>1 DEF Chat!chat_stream_with_ai, Chat!Becomes
      <4>3. New(q)
        <5>1. provider = "compatible" => r \in Allowed
          BY <3>1 DEF Chat!_prepare_chat_context
        <5> QED BY <1>3, <4>1, <4>2, <5>1
      <4> QED BY <4>3
    <3>2. ASSUME ~(Chat!_prepare_chat_context(r) /\ (target \in Chat!Ids => Chat!Owns(r, target))) PROVE \E q : New(q)
      <4>1. PICK q : q = Asked("stream", target, "end", "refused")
        OBVIOUS
      <4>2. req' = [req EXCEPT ![r] = q]
        BY <1>2, <2>2, <3>2, <4>1 DEF Chat!chat_stream_with_ai, Chat!Becomes
      <4> QED BY <1>10, <4>1, <4>2
    <3>3. req[r].pc = "idle" /\ Chat!Turn(r) /\ UNCHANGED <<provider, switches, convs, logs>>
      BY <2>2 DEF Chat!chat_stream_with_ai
    <3>4. \E q : New(q)
      BY <3>1, <3>2
    <3> QED BY <3>3, <3>4
  <2>3. ASSUME NEW target, NEW kind, Chat!FindConversation(r, kind, target) PROVE Enters
    <3>1. ASSUME Chat!Owns(r, target) PROVE \E q : New(q)
      <4>1. PICK q : q = Asked(kind, target, "found", "none")
        OBVIOUS
      <4>2. req' = [req EXCEPT ![r] = q]
        BY <1>2, <2>3, <3>1, <4>1 DEF Chat!FindConversation, Chat!Becomes
      <4>3. New(q)
        <5>1. convs[target].owner = SessionsOf(Singles)[r]
          BY <3>1 DEF Chat!Owns
        <5> QED BY <1>3, <4>1, <4>2, <5>1
      <4> QED BY <4>3
    <3>2. ASSUME ~(Chat!Owns(r, target)) PROVE \E q : New(q)
      <4>1. PICK q : q = Asked(kind, target, "end", "refused")
        OBVIOUS
      <4>2. req' = [req EXCEPT ![r] = q]
        BY <1>2, <2>3, <3>2, <4>1 DEF Chat!FindConversation, Chat!Becomes
      <4> QED BY <1>10, <4>1, <4>2
    <3>3. req[r].pc = "idle" /\ Chat!Turn(r) /\ UNCHANGED <<provider, switches, convs, logs>>
      BY <2>3 DEF Chat!FindConversation
    <3>4. \E q : New(q)
      BY <3>1, <3>2
    <3> QED BY <3>3, <3>4
  <2> QED BY <2>1, <2>2, <2>3 DEF Chat!Arrives, Chat!update_conversation, Chat!delete_conversation
<1>5. PICK q : New(q)
  BY <1>4
<1>6. \A s \in Singles : s # r => Rests(req[s])
  BY <1>4 DEF Chat!Turn, Chat!Active, Rests
<1>7. logs[r] = <<>>
  BY <1>1, <1>4 DEF AskSound, LogSound
<1>8. Current(r, q, <<>>, provider, convs')
  BY <1>4, <1>5 DEF Current, New
<1>9. logs' = [logs EXCEPT ![r] = <<>>] /\ Apart(convs') /\ provider' = provider
  BY <1>1, <1>4, <1>7
<1> QED BY <1>5, <1>6, <1>8, <1>9, SerialMoves DEF New

\* Every step of the one request under way.
LEMMA SerialWork ==
    ASSUME ChatTyped(Singles, MaxConv + 1), ChatSerial, NEW r \in Singles,
           Chat!Works(r) \/ Chat!GeneratorExit(r)
    PROVE  ChatSerial'
<1> USE AiAssumption DEF Chat!ChatAssumption
<1>1. PICK q \in Asks(MaxConv + 1) :
        /\ q = req[r] /\ PassSound(q) /\ StoreSound(q, MaxConv + 1) /\ LogSound(q, logs[r], MaxConv + 1)
        /\ Current(r, q, logs[r], provider, convs)
  BY DEF ChatTyped, AskSound, ChatSerial
<1>2. /\ convs \in [1..(MaxConv + 1) -> ConvRows(Singles) \cup {Gone}] /\ provider \in Models
      /\ Apart(convs) /\ req = [s \in Singles |-> req[s]] /\ logs = [s \in Singles |-> logs[s]]
  BY DEF ChatTyped, ChatSerial
<1>3. ~Rests(q)
  <2>1. ASSUME Chat!GeneratorExit(r) PROVE q.pc \in {"open", "dispatch", "answer"}
    BY <1>1, <2>1 DEF Chat!GeneratorExit, PassSound
  <2>2. ASSUME Chat!Works(r)
        PROVE  q.pc \in {"open", "dispatch", "answer", "fail", "persist", "base", "write", "model", "log", "found"}
    BY <1>1, <2>2 DEF Chat!Works, Chat!event_stream, Chat!_stream_pass, Chat!Delta, Chat!chat_stream,
       Chat!chat, Chat!Unavailable, Chat!log_failure, Chat!create_conversation, Chat!get_conversation,
       Chat!ReadBase, Chat!append_turn, Chat!KeepNothing, Chat!AskModel, Chat!LogAnswer, Chat!Edit, Chat!At
  <2> QED BY <2>1, <2>2 DEF Rests
<1>4. logs[r] = <<>> /\ \A s \in Singles : s # r => Rests(req[s])
  BY <1>1, <1>3 DEF LogSound, ChatSerial, Rests
<1>5. ASSUME NEW p, Chat!Becomes(r, p), Current(r, p, <<>>, provider, convs), UNCHANGED <<provider, convs, logs>>
      PROVE  ChatSerial'
  <2>1. logs' = [logs EXCEPT ![r] = <<>>] /\ req' = [req EXCEPT ![r] = p]
    BY <1>2, <1>4, <1>5 DEF Chat!Becomes
  <2>2. Current(r, p, <<>>, provider, convs') /\ provider' = provider /\ Apart(convs')
    BY <1>2, <1>5
  <2> QED BY <1>4, <2>1, <2>2, SerialMoves
<1>6. CASE Chat!event_stream(r)
  <2>1. PICK p : /\ p.pc = "dispatch" /\ p.via = q.via /\ p.model = q.model /\ Chat!Becomes(r, p)
                 /\ UNCHANGED <<provider, convs, logs>> /\ q.pc = "open"
    BY <1>1, <1>6 DEF Chat!event_stream, Chat!At, Asks
  <2> QED BY <1>1, <1>5, <2>1 DEF Current
<1>7. CASE Chat!_stream_pass(r)
  <2>1. PICK p : /\ p.pc = "answer" /\ p.via = provider /\ p.model = q.model /\ Chat!Becomes(r, p)
                 /\ UNCHANGED <<provider, convs, logs>> /\ q.pc = "dispatch"
    BY <1>1, <1>7 DEF Chat!_stream_pass, Asks
  <2>2. q.model = "none"
    BY <1>1, <2>1 DEF StoreSound
  <2> QED BY <1>1, <1>5, <2>1, <2>2 DEF Current
<1>8. CASE Chat!Delta(r)
  <2>1. PICK p : /\ p.pc = "answer" /\ p.via = q.via /\ p.model = q.model /\ Chat!Becomes(r, p)
                 /\ UNCHANGED <<provider, convs, logs>> /\ q.pc = "answer"
    BY <1>1, <1>8 DEF Chat!Delta, Chat!At, Asks
  <2> QED BY <1>1, <1>5, <2>1 DEF Current
<1>9. ASSUME NEW pc \in {"persist", "dispatch", "fail"}, Chat!Becomes(r, Chat!Passed(r, pc)), q.pc = "answer",
             UNCHANGED <<provider, convs, logs>>
      PROVE  ChatSerial'
  <2>1. PICK p : p.pc = pc /\ p.via = q.via /\ p.model = q.model /\ Chat!Becomes(r, p)
    BY <1>1, <1>9 DEF Chat!Passed, Asks
  <2> QED BY <1>1, <1>5, <1>9, <2>1 DEF Current
<1>10. CASE Chat!chat_stream(r)
  <2>1. PICK empty \in BOOLEAN :
          Chat!Becomes(r, Chat!Passed(r, IF ~empty THEN "persist"
                                         ELSE IF Chat!Retries(r) THEN "dispatch" ELSE "fail"))
    BY <1>10 DEF Chat!chat_stream
  <2>2. PICK pc \in {"persist", "dispatch", "fail"} :
          pc = IF ~empty THEN "persist" ELSE IF Chat!Retries(r) THEN "dispatch" ELSE "fail"
    OBVIOUS
  <2>3. q.pc = "answer" /\ UNCHANGED <<provider, convs, logs>>
    BY <1>1, <1>10 DEF Chat!chat_stream, Chat!At
  <2> QED BY <1>9, <2>1, <2>2, <2>3
<1>11. CASE Chat!chat(r)
  BY <1>1, <1>9, <1>11 DEF Chat!chat, Chat!At
<1>12. CASE Chat!Unavailable(r)
  BY <1>1, <1>9, <1>12 DEF Chat!Unavailable
<1>13. ASSUME NEW p, Chat!Becomes(r, p), p.pc = "end", p.via = q.via, p.model = q.model, UNCHANGED <<provider, convs>>,
              \/ UNCHANGED logs
              \/ \E e \in LogRows(MaxConv + 1) : /\ e.status = "ok" => e.model = q.via
                                                 /\ logs' = [logs EXCEPT ![r] = Append(@, e)]
       PROVE  ChatSerial'
  <2>1. CASE UNCHANGED logs
    <3>1. Current(r, p, <<>>, provider, convs)
      BY <1>1, <1>13 DEF Current
    <3> QED BY <1>5, <1>13, <2>1, <3>1
  <2>2. ASSUME NEW e \in LogRows(MaxConv + 1), e.status = "ok" => e.model = q.via,
               logs' = [logs EXCEPT ![r] = Append(@, e)]
        PROVE  ChatSerial'
    <3>1. Append(<<>>, e) = <<e>>
      OBVIOUS
    <3>2. logs' = [logs EXCEPT ![r] = <<e>>] /\ req' = [req EXCEPT ![r] = p]
      BY <1>2, <1>4, <1>13, <2>2, <3>1 DEF Chat!Becomes
    <3>3. Current(r, p, <<e>>, provider, convs)
      BY <1>1, <1>13, <2>2 DEF Current
    <3>4. Current(r, p, <<e>>, provider, convs') /\ Apart(convs') /\ provider' = provider
      BY <1>2, <1>13, <3>3
    <3> QED BY <1>4, <3>2, <3>4, SerialMoves
  <2> QED BY <1>13, <2>1, <2>2
<1>14. CASE Chat!log_failure(r)
  <2>1. PICK p : p.pc = "end" /\ p.via = q.via /\ p.model = q.model /\ Chat!Becomes(r, p)
    BY <1>1, <1>14 DEF Chat!log_failure, Chat!ErrorFrame, Chat!Ended, Asks
  <2>2. 0 \in 0..(MaxConv + 1)
    OBVIOUS
  <2>3. PICK e \in LogRows(MaxConv + 1) : e = [status |-> "error", conv |-> 0, model |-> provider]
    BY <1>2, <2>2 DEF LogRows
  <2>4. UNCHANGED logs \/ logs' = [logs EXCEPT ![r] = Append(@, e)]
    BY <1>14, <2>3 DEF Chat!log_failure, Chat!_request_log, Chat!effective_model
  <2>5. e.status # "ok" /\ UNCHANGED <<provider, convs>>
    BY <1>14, <2>3 DEF Chat!log_failure
  <2> QED BY <1>13, <2>1, <2>4, <2>5
<1>15. CASE Chat!GeneratorExit(r)
  <2>1. PICK p : p.pc = "end" /\ p.via = q.via /\ p.model = q.model /\ Chat!Becomes(r, p)
    BY <1>1, <1>15 DEF Chat!GeneratorExit, Chat!Ended, Asks
  <2>2. 0 \in 0..(MaxConv + 1)
    OBVIOUS
  <2>3. PICK e \in LogRows(MaxConv + 1) : e = [status |-> "aborted", conv |-> 0, model |-> provider]
    BY <1>2, <2>2 DEF LogRows
  <2>4. UNCHANGED logs \/ logs' = [logs EXCEPT ![r] = Append(@, e)]
    BY <1>15, <2>3 DEF Chat!GeneratorExit, Chat!_request_log, Chat!effective_model
  <2>5. e.status # "ok" /\ UNCHANGED <<provider, convs>>
    BY <1>15, <2>3 DEF Chat!GeneratorExit
  <2> QED BY <1>13, <2>1, <2>4, <2>5
<1>16. CASE Chat!LogAnswer(r)
  <2>1. PICK p : p.pc = "end" /\ p.via = q.via /\ p.model = q.model /\ Chat!Becomes(r, p)
    BY <1>1, <1>16 DEF Chat!LogAnswer, Chat!Ended, Asks
  <2>2. q.pc = "log" /\ UNCHANGED <<provider, convs>>
    BY <1>1, <1>16 DEF Chat!LogAnswer
  <2>3. q.model = q.via /\ q.via = provider
    BY <1>1, <2>2 DEF Current, StoreSound
  <2>4. PICK e : e = [status |-> IF q.failed THEN "error" ELSE "ok", conv |-> q.stored, model |-> provider]
    OBVIOUS
  <2>5. e \in LogRows(MaxConv + 1) /\ e.model = q.via
    BY <1>2, <2>3, <2>4 DEF LogRows, Asks
  <2>6. (IF q.kind = "chat" THEN q.model ELSE provider) = provider
    BY <2>3
  <2>7. UNCHANGED logs \/ logs' = [logs EXCEPT ![r] = Append(@, e)]
    BY <1>1, <1>16, <2>4, <2>6 DEF Chat!LogAnswer, Chat!_request_log, Chat!effective_model
  <2> QED BY <1>13, <2>1, <2>2, <2>5, <2>7
<1>17. ASSUME NEW p, Chat!Becomes(r, p), p.pc \in {"end", "model"}, p.via = q.via, p.model = q.model,
              q.pc \in {"persist", "write"} \/ p.pc = "end", UNCHANGED <<provider, logs>>, Apart(convs')
       PROVE  ChatSerial'
  <2>1. Current(r, p, <<>>, provider, convs')
    BY <1>1, <1>17 DEF Current
  <2>2. logs' = [logs EXCEPT ![r] = <<>>] /\ req' = [req EXCEPT ![r] = p] /\ provider' = provider
    BY <1>2, <1>4, <1>17 DEF Chat!Becomes
  <2> QED BY <1>4, <1>17, <2>1, <2>2, SerialMoves
<1>18. ASSUME Chat!Becomes(r, Chat!PersistFailed(r)), q.pc \in {"persist", "write"},
              UNCHANGED <<provider, convs, logs>>
       PROVE  ChatSerial'
  <2>1. PICK p : p.pc \in {"end", "model"} /\ p.via = q.via /\ p.model = q.model /\ Chat!Becomes(r, p)
    BY <1>1, <1>18 DEF Chat!PersistFailed, Chat!Refused, Chat!Ended, Asks
  <2>2. Apart(convs')
    BY <1>2, <1>18
  <2> QED BY <1>17, <1>18, <2>1, <2>2
<1>19. ASSUME NEW c, Chat!Becomes(r, Chat!Stored(r, c)), q.pc \in {"persist", "write"},
              UNCHANGED <<provider, logs>>, Apart(convs')
       PROVE  ChatSerial'
  <2>1. PICK p : p.pc \in {"end", "model"} /\ p.via = q.via /\ p.model = q.model /\ Chat!Becomes(r, p)
    BY <1>1, <1>19 DEF Chat!Stored, Asks
  <2> QED BY <1>17, <1>19, <2>1
<1>20. CASE Chat!create_conversation(r)
  <2>1. q.pc = "persist" /\ UNCHANGED <<provider, logs>>
    BY <1>1, <1>20 DEF Chat!create_conversation
  <2>2. ASSUME NEW c \in Chat!Ids, Chat!Becomes(r, Chat!Stored(r, c)), NEW rec,
               rec.turns = {[by |-> r, seq |-> 0]}, convs' = [convs EXCEPT ![c] = rec]
        PROVE  ChatSerial'
    <3>1. Apart(convs')
      BY <1>2, <2>2 DEF Apart, Chat!Ids
    <3> QED BY <1>19, <2>1, <2>2, <3>1
  <2>3. CASE Chat!Becomes(r, Chat!PersistFailed(r)) /\ UNCHANGED convs
    BY <1>18, <2>1, <2>3
  <2>4. PICK id : id = Chat!Max({0} \cup {c \in Chat!Ids : convs[c] # Chat!NoConv}) + 1
    OBVIOUS
  <2>5. PICK rec : rec = [owner |-> SessionsOf(Singles)[r], title |-> SessionsOf(Singles)[r],
                          turns |-> {[by |-> r, seq |-> 0]}]
    OBVIOUS
  <2>6. rec.turns = {[by |-> r, seq |-> 0]}
    BY <2>5
  <2>7. \/ id \in Chat!Ids /\ Chat!Becomes(r, Chat!Stored(r, id)) /\ convs' = [convs EXCEPT ![id] = rec]
        \/ Chat!Becomes(r, Chat!PersistFailed(r)) /\ UNCHANGED convs
    BY <1>20, <2>4, <2>5 DEF Chat!create_conversation
  <2> QED BY <2>2, <2>3, <2>6, <2>7
<1>21. CASE Chat!get_conversation(r)
  <2>1. q.pc = "persist" /\ UNCHANGED <<provider, convs, logs>>
    BY <1>1, <1>21 DEF Chat!get_conversation
  <2>2. CASE Chat!Owns(r, q.target) /\ Chat!Becomes(r, [q EXCEPT !.pc = "base"])
    <3>1. PICK p : /\ p.pc = "base" /\ p.via = q.via /\ p.model = q.model /\ p.target = q.target
                   /\ Chat!Becomes(r, p)
      BY <2>2 DEF Asks
    <3>2. Current(r, p, <<>>, provider, convs)
      BY <1>1, <2>1, <2>2, <3>1 DEF Current, Chat!Owns
    <3> QED BY <1>5, <2>1, <3>1, <3>2
  <2>3. CASE Chat!Becomes(r, Chat!PersistFailed(r))
    BY <1>18, <2>1, <2>3
  <2> QED BY <1>1, <1>21, <2>2, <2>3 DEF Chat!get_conversation
<1>22. CASE Chat!ReadBase(r)
  <2>1. q.pc = "base" /\ UNCHANGED <<provider, convs, logs>> /\ q.target \in 1..(MaxConv + 1)
    BY <1>1, <1>22 DEF Chat!ReadBase, StoreSound
  <2>2. PICK turns : turns = convs[q.target].turns
    OBVIOUS
  <2>3. \A t \in turns : t.seq + 2 <= Chat!NextSeq(turns)
    <3>1. IsFiniteSet(Singles)
      BY DEF Chat!IsFiniteSet, IsFiniteSet
    <3>2. PICK k \in Nat : k = Cardinality(Storers(Singles))
      <4>1. IsFiniteSet(Storers(Singles))
        BY <3>1, FS_Subset DEF Storers
      <4> QED BY <4>1, FS_CardinalityType
    <3>3. convs[q.target] \in ConvRows(Singles) \cup {Gone}
      BY <1>2, <2>1
    <3>4. \A t \in turns : t.seq \in Nat
      BY <2>2, <3>3 DEF ConvRows, Gone
    <3>5. \A t \in turns : t.seq + 2 <= 2 * k
      BY <2>1, <2>2, <3>2 DEF ChatTyped, Numbered
    <3>6. Chat!NextSeq(turns) = Chats!NextSeq(turns)
      BY DEF Chat!NextSeq, Chats!NextSeq, Chat!Max, Chats!Max
    <3> QED BY <3>4, <3>5, <3>6, NextNumber
  <2>4. PICK p : /\ p.pc = "write" /\ p.via = q.via /\ p.model = q.model /\ p.target = q.target
                 /\ p.base = Chat!NextSeq(turns) /\ Chat!Becomes(r, p)
    BY <1>1, <1>22, <2>2 DEF Chat!ReadBase, Asks
  <2>5. Current(r, p, <<>>, provider, convs)
    BY <1>1, <2>1, <2>2, <2>3, <2>4 DEF Current
  <2> QED BY <1>5, <2>1, <2>4, <2>5
<1>23. CASE Chat!append_turn(r)
  <2>1. q.pc = "write" /\ UNCHANGED <<provider, logs>> /\ q.target \in 1..(MaxConv + 1) /\ q.base \in Nat
    BY <1>1, <1>23 DEF Chat!append_turn, StoreSound, Asks
  <2>2. CASE /\ convs[q.target] # Chat!NoConv /\ Chat!Becomes(r, Chat!Stored(r, q.target))
             /\ convs' = [convs EXCEPT ![q.target].turns = @ \cup {[by |-> r, seq |-> q.base]}]
    <3>1. PICK old \in ConvRows(Singles) : old = convs[q.target]
      BY <1>2, <2>1, <2>2 DEF Gone, Chat!NoConv, Chat!None
    <3>2. \A t \in old.turns : t.seq \in Nat /\ t.seq + 2 <= q.base
      BY <1>1, <2>1, <3>1 DEF Current, ConvRows
    <3>3. \A t \in old.turns : t.seq # q.base
      BY <2>1, <3>2
    <3>4. convs'[q.target].turns = old.turns \cup {[by |-> r, seq |-> q.base]}
      BY <1>2, <2>1, <2>2, <3>1 DEF ConvRows
    <3>5. \A c \in 1..(MaxConv + 1) : c # q.target => convs'[c] = convs[c]
      BY <1>2, <2>1, <2>2
    <3>6. ASSUME NEW c \in 1..(MaxConv + 1), NEW t \in convs'[c].turns, NEW u \in convs'[c].turns, t # u
          PROVE  t.seq # u.seq
      <4>1. CASE c # q.target
        BY <1>2, <3>5, <3>6, <4>1 DEF Apart
      <4>2. CASE c = q.target
        <5>1. \A v, w \in old.turns : v # w => v.seq # w.seq
          BY <1>2, <2>1, <3>1 DEF Apart
        <5>4. [by |-> r, seq |-> q.base].seq = q.base
          OBVIOUS
        <5>2. PICK new : new = [by |-> r, seq |-> q.base] /\ new.seq = q.base
          BY <5>4
        <5>3. t \in old.turns \cup {new} /\ u \in old.turns \cup {new}
          BY <3>4, <3>6, <4>2, <5>2
        <5> QED BY <3>3, <3>6, <5>1, <5>2, <5>3
      <4> QED BY <4>1, <4>2
    <3>7. Apart(convs')
      BY <3>6 DEF Apart
    <3> QED BY <1>19, <2>1, <2>2, <3>7
  <2>3. CASE Chat!Becomes(r, Chat!PersistFailed(r)) /\ UNCHANGED convs
    BY <1>18, <2>1, <2>3
  <2> QED BY <1>1, <1>23, <2>2, <2>3 DEF Chat!append_turn
<1>24. CASE Chat!KeepNothing(r)
  <2>1. PICK p : /\ p.pc = "model" /\ p.via = q.via /\ p.model = q.model /\ Chat!Becomes(r, p)
                 /\ q.pc = "persist" /\ UNCHANGED <<provider, convs, logs>>
    BY <1>1, <1>24 DEF Chat!KeepNothing, Asks
  <2> QED BY <1>1, <1>5, <2>1 DEF Current
<1>25. CASE Chat!AskModel(r)
  <2>1. PICK p : /\ p.pc = "log" /\ p.via = q.via /\ p.model = provider /\ Chat!Becomes(r, p)
                 /\ q.pc = "model" /\ UNCHANGED <<provider, convs, logs>>
    BY <1>1, <1>25 DEF Chat!AskModel, Chat!effective_model, Asks
  <2> QED BY <1>1, <1>5, <2>1 DEF Current
<1>26. CASE Chat!Edit(r)
  <2>1. PICK p : /\ p.pc = "end" /\ p.via = q.via /\ p.model = q.model /\ Chat!Becomes(r, p)
                 /\ q.pc = "found" /\ UNCHANGED <<provider, logs>> /\ q.target \in 1..(MaxConv + 1)
    BY <1>1, <1>26 DEF Chat!Edit, Chat!Ended, Asks, StoreSound
  <2>2. ASSUME NEW c \in 1..(MaxConv + 1) PROVE convs'[c].turns \subseteq convs[c].turns
    <3>1. PICK rec : rec = IF q.kind = "delete" \/ convs[q.target] = Gone THEN Gone
                           ELSE [convs[q.target] EXCEPT !.title = SessionsOf(Singles)[r]]
      OBVIOUS
    <3>2. UNCHANGED convs \/ convs' = [convs EXCEPT ![q.target] = rec]
      BY <1>1, <1>26, <3>1 DEF Chat!Edit, Chat!NoConv, Chat!None, Gone
    <3>3. Gone.turns = {}
      BY DEF Gone
    <3>4. convs[q.target] # Gone => convs[q.target] \in ConvRows(Singles)
      BY <1>2, <2>1
    <3>5. rec.turns \subseteq convs[q.target].turns
      BY <3>1, <3>3, <3>4 DEF ConvRows
    <3> QED BY <1>2, <2>1, <3>2, <3>5
  <2>3. Apart(convs')
    BY <1>2, <2>2 DEF Apart
  <2> QED BY <1>17, <2>1, <2>3
<1> QED BY <1>6, <1>7, <1>8, <1>10, <1>11, <1>12, <1>14, <1>15, <1>16, <1>20, <1>21, <1>22, <1>23,
           <1>24, <1>25, <1>26 DEF Chat!Works

LEMMA SerialStep ==
    ASSUME ChatTyped(Singles, MaxConv + 1), ChatSerial, [Chat!Next]_Chat!vars
    PROVE  ChatSerial'
<1>1. CASE UNCHANGED Chat!vars
  BY <1>1 DEF Chat!vars, ChatSerial
<1>2. CASE Chat!set_selection
  <2>1. UNCHANGED <<convs, req, logs>> /\ \A r \in Singles : Rests(req[r])
    BY <1>2 DEF Chat!set_selection, Chat!Active, Rests
  <2>2. ASSUME NEW r \in Singles PROVE Current(r, req[r], logs[r], provider', convs)
    BY <2>1, AtRest DEF ChatSerial
  <2> QED BY <2>1, <2>2 DEF ChatSerial
<1>3. ASSUME NEW r \in Singles, Chat!Arrives(r) \/ Chat!Works(r) \/ Chat!GeneratorExit(r)
      PROVE  ChatSerial'
  BY <1>3, SerialArrive, SerialWork
<1> QED BY <1>1, <1>2, <1>3 DEF Chat!Next

\* No two turns share a number, the compatible provider answers who may use it,
\* and the model named is the one that answered.
LEMMA SerialSound ==
    ASSUME ChatSerial
    PROVE  Chat!TurnsApart /\ Chat!Gated /\ Chat!ModelHonest
<1>1. Chat!TurnsApart /\ Chat!Gated
  BY DEF ChatSerial, Apart, Current, Chat!TurnsApart, Chat!Gated, Chat!Ids
<1>2. ASSUME NEW r \in Singles
      PROVE  /\ req[r].model \in {"none", req[r].via}
             /\ \A i \in 1..Len(logs[r]) : logs[r][i].status = "ok" => logs[r][i].model = req[r].via
  <2>1. /\ req[r].model \in {"none", req[r].via}
        /\ \/ logs[r] = <<>>
           \/ \E e \in LogRows(MaxConv + 1) : logs[r] = <<e>> /\ (e.status = "ok" => e.model = req[r].via)
    BY DEF ChatSerial, Current
  <2>2. CASE logs[r] = <<>>
    BY <2>1, <2>2
  <2>3. ASSUME NEW e, logs[r] = <<e>>, e.status = "ok" => e.model = req[r].via
        PROVE  \A i \in 1..Len(logs[r]) : logs[r][i].status = "ok" => logs[r][i].model = req[r].via
    <3>1. Len(logs[r]) = 1 /\ logs[r][1] = e
      BY <2>3
    <3> QED BY <2>3, <3>1
  <2> QED BY <2>1, <2>2, <2>3
<1>3. Chat!ModelHonest
  BY <1>2 DEF Chat!ModelHonest, Chat!None
<1> QED BY <1>1, <1>3

\* Who changes a conversation is its owner.
LEMMA OwnersOnly ==
    ASSUME ChatTyped(Singles, MaxConv + 1), ChatSerial, [Chat!Next]_Chat!vars
    PROVE  Chat!OwnerScope
<1> USE AiAssumption DEF Chat!ChatAssumption
<1> SUFFICES ASSUME NEW c \in Chat!Ids, convs[c] # Chat!NoConv, convs'[c] # convs[c]
             PROVE  \E r \in Singles : req'[r] # req[r] /\ SessionsOf(Singles)[r] = convs[c].owner
  BY DEF Chat!OwnerScope
<1>1. /\ req \in [Singles -> Asks(MaxConv + 1)] /\ convs \in [1..(MaxConv + 1) -> ConvRows(Singles) \cup {Gone}]
  BY DEF ChatTyped
<1>2. PICK r \in Singles : Chat!Edit(r) \/ Chat!create_conversation(r) \/ Chat!append_turn(r)
  BY DEF Chat!Next, Chat!vars, Chat!set_selection, Chat!Arrives, Chat!Works, Chat!GeneratorExit, Chat!chat_with_ai,
         Chat!chat_stream_with_ai, Chat!update_conversation, Chat!delete_conversation, Chat!FindConversation,
         Chat!event_stream, Chat!_stream_pass, Chat!Delta, Chat!chat_stream, Chat!chat, Chat!Unavailable,
         Chat!log_failure, Chat!get_conversation, Chat!ReadBase, Chat!KeepNothing, Chat!AskModel, Chat!LogAnswer
<1>3. PICK q \in Asks(MaxConv + 1) : q = req[r] /\ Current(r, q, logs[r], provider, convs)
  BY <1>1 DEF ChatSerial
<1>4. CASE Chat!Edit(r)
  <2>1. q.pc = "found" /\ convs' # convs /\ Chat!Becomes(r, Chat!Ended(r))
    BY <1>3, <1>4 DEF Chat!Edit
  <2>2. c = q.target
    BY <1>1, <1>3, <1>4, <2>1 DEF Chat!Edit, Chat!Ids
  <2>3. req'[r].pc = "end"
    BY <1>1, <2>1 DEF Chat!Becomes, Chat!Ended, Asks
  <2> QED BY <1>3, <2>1, <2>2, <2>3 DEF Current
<1>5. CASE Chat!append_turn(r)
  <2>1. /\ q.pc = "write" /\ Chat!Becomes(r, Chat!Stored(r, q.target))
        /\ convs' = [convs EXCEPT ![q.target].turns = @ \cup {[by |-> r, seq |-> q.base]}]
    BY <1>3, <1>5 DEF Chat!append_turn
  <2>2. c = q.target
    BY <1>1, <2>1 DEF Chat!Ids
  <2>3. req'[r].pc = "model"
    BY <1>1, <2>1 DEF Chat!Becomes, Chat!Stored, Asks
  <2> QED BY <1>3, <2>1, <2>2, <2>3 DEF Current
<1>6. CASE Chat!create_conversation(r)
  <2>1. PICK S : S = {d \in Chat!Ids : convs[d] # Chat!NoConv}
    OBVIOUS
  <2>2. PICK id : id = Chat!Max({0} \cup S) + 1
    OBVIOUS
  <2>3. Chat!Max({0} \cup S) = Chats!Max({0} \cup S) /\ S \in SUBSET (1..(MaxConv + 1)) /\ MaxConv + 1 \in Nat
    BY <2>1 DEF Chat!Max, Chats!Max, Chat!Ids
  <2>4. id \notin S
    BY <2>2, <2>3, NewIdFree
  <2>5. \A d \in Chat!Ids : d # id => convs'[d] = convs[d]
    BY <1>1, <1>6, <2>1, <2>2 DEF Chat!create_conversation, Chat!Ids
  <2> QED BY <2>1, <2>4, <2>5
<1> QED BY <1>2, <1>4, <1>5, <1>6

-----------------------------------------------------------------------------
(* The suite.                                                              *)

ChatInv ==
    /\ part = "chats" => ChatTyped(Requests, MaxConv)
    /\ part = "chat" => ChatTyped(Singles, MaxConv + 1) /\ ChatSerial

LEMMA ChatInvInit ==
    ASSUME Init
    PROVE  ChatInv
<1>1. part = "chats" => Chats!Init
  BY DEF Init
<1>2. part = "chat" => Chat!Init
  BY DEF Init
<1> QED BY <1>1, <1>2, ChatsTypedInit, ChatTypedInit, SerialInit DEF ChatInv

\* A step of the suite is one of its part.
LEMMA ChatPartStep ==
    ASSUME [Next]_vars
    PROVE  /\ part' = part
           /\ part = "chats" => [Chats!Next]_Chats!vars
           /\ part = "chat" => [Chat!Next]_Chat!vars
<1>1. CASE UNCHANGED vars
  BY <1>1 DEF vars, Chats!vars, Chat!vars
<1>2. CASE Next
  BY <1>2 DEF Next, NotProviderConfig, NotLlmConnections, NotThinkFilter, NotAiChat
<1> QED BY <1>1, <1>2

LEMMA ChatInvStep ==
    ASSUME ChatInv, [Next]_vars
    PROVE  ChatInv'
<1>1. part' = "chats" => ChatTyped(Requests, MaxConv)'
  BY ChatPartStep, ChatsTypedStep DEF ChatInv
<1>2. part' = "chat" => ChatTyped(Singles, MaxConv + 1)' /\ ChatSerial'
  BY ChatPartStep, ChatTypedStep, SerialStep DEF ChatInv
<1> QED BY <1>1, <1>2 DEF ChatInv

\* What a reader and the log are told is so (chat_stream, append_turn,
\* effective_model): for any requests, sessions and bounds, the deltas shown are
\* of one pass of the model, the log of a request says ok exactly when its turn
\* was stored, and with one request at a time names the model that answered.
THEOREM AiAnswerHonest == Spec => []AnswerHonest
<1>1. Init => ChatInv
  BY ChatInvInit
<1>2. ChatInv /\ [Next]_vars => ChatInv'
  BY ChatInvStep
<1>3. ChatInv => AnswerHonest
  BY ChatsTypes, ChatsHonest, SerialSound DEF ChatInv, AnswerHonest
<1> QED BY <1>1, <1>2, <1>3, PTL DEF Spec

\* With one request at a time (append_turn, get_conversation,
\* _prepare_chat_context): no two turns of a conversation share a number, a
\* conversation is changed by requests of its session only, and the compatible
\* provider is asked only for users who hold ai.use.
THEOREM AiTurnsKept == Spec => TurnsKept
<1>1. Init => ChatInv
  BY ChatInvInit
<1>2. ChatInv /\ [Next]_vars => ChatInv'
  BY ChatInvStep
<1>3. ChatInv => (part = "chat" => Chat!TypeOK /\ Chat!TurnsApart /\ Chat!Gated)
  BY ChatTypes, SerialSound DEF ChatInv
<1>4. ChatInv /\ [Next]_vars => [part = "chat" => Chat!OwnerScope]_vars
  BY ChatPartStep, OwnersOnly DEF ChatInv
<1> QED BY <1>1, <1>2, <1>3, <1>4, PTL DEF Spec, TurnsKept

-----------------------------------------------------------------------------
(* The connections.                                                        *)

ConnRows == [live : BOOLEAN, enabled : BOOLEAN, dflt : BOOLEAN, key : Nat]
NoConn == [live |-> FALSE, enabled |-> FALSE, dflt |-> FALSE, key |-> 0]
Calls(n) ==
    [op : {"none", "update", "delete", "default"}, id : 0..n, copy : [1..n -> ConnRows],
     enabled : BOOLEAN, key : BOOLEAN, dflt : {"none", "yes", "no"}]
NoCall(n) ==
    [op |-> "none", id |-> 0, copy |-> [i \in 1..n |-> NoConn], enabled |-> FALSE, key |-> FALSE,
     dflt |-> "none"]

\* n connections and m secrets at most; keys, also those a request has read, were
\* encrypted with a secret there has been.
ConnTyped(n, m) ==
    /\ conn \in [1..n -> ConnRows] /\ last \in 0..n /\ secret \in 1..m
    /\ \A i \in 1..n : /\ conn[i].key <= secret /\ (conn[i].live \/ conn[i] = NoConn)
                       /\ i > last => ~conn[i].live
    /\ req \in [Admins -> Calls(n)]
    /\ \A a \in Admins : /\ req[a].op # "none" => req[a].id \in 1..n
                         /\ \A i \in 1..n : req[a].copy[i].key <= secret

\* What a request changed, over the row as it is.
Over(old, copy, new) ==
    [live |-> IF new.live # copy.live THEN new.live ELSE old.live,
     enabled |-> IF new.enabled # copy.enabled THEN new.enabled ELSE old.enabled,
     dflt |-> IF new.dflt # copy.dflt THEN new.dflt ELSE old.dflt,
     key |-> IF new.key # copy.key THEN new.key ELSE old.key]

LEMMA SameRow ==
    ASSUME NEW x \in ConnRows, NEW y \in ConnRows,
           x.live = y.live, x.enabled = y.enabled, x.dflt = y.dflt, x.key = y.key
    PROVE  x = y
BY DEF ConnRows

LEMMA OverTyped ==
    ASSUME NEW old \in ConnRows, NEW copy \in ConnRows, NEW new \in ConnRows, NEW x, x = Over(old, copy, new)
    PROVE  /\ x \in ConnRows
           /\ new.live = copy.live => x.live = old.live
           /\ x.dflt = IF new.dflt # copy.dflt THEN new.dflt ELSE old.dflt
           /\ x.key = IF new.key # copy.key THEN new.key ELSE old.key
<1>1. /\ new.live \in BOOLEAN /\ new.enabled \in BOOLEAN /\ new.dflt \in BOOLEAN /\ new.key \in Nat
      /\ old.live \in BOOLEAN /\ old.enabled \in BOOLEAN /\ old.dflt \in BOOLEAN /\ old.key \in Nat
  BY DEF ConnRows
<1>2. x \in ConnRows
  BY <1>1 DEF ConnRows, Over
<1> QED BY <1>2 DEF Over

\* The types are kept when rows change and a request ends, goes on or begins.
LEMMA ConnMoves ==
    ASSUME NEW n \in Nat, NEW m \in Nat, ConnTyped(n, m), NEW rows \in [1..n -> ConnRows], conn' = rows,
           NEW top \in last..n, last' = top, secret' = secret,
           \A i \in 1..n : /\ rows[i].key <= secret /\ (rows[i].live \/ rows[i] = NoConn)
                           /\ i > top => ~rows[i].live,
           NEW a \in Admins, NEW q \in Calls(n), req' = [req EXCEPT ![a] = q] \/ UNCHANGED req,
           q.op # "none" => q.id \in 1..n, \A i \in 1..n : q.copy[i].key <= secret
    PROVE  ConnTyped(n, m)'
<1>1. req' \in [Admins -> Calls(n)] /\ \A b \in Admins : req'[b] = req[b] \/ req'[b] = q
  BY DEF ConnTyped
<1>2. \A b \in Admins : /\ req'[b].op # "none" => req'[b].id \in 1..n
                        /\ \A i \in 1..n : req'[b].copy[i].key <= secret'
  BY <1>1 DEF ConnTyped
<1>3. conn' \in [1..n -> ConnRows] /\ last' \in 0..n /\ secret' \in 1..m
  BY DEF ConnTyped
<1>4. \A i \in 1..n : /\ conn'[i].key <= secret' /\ (conn'[i].live \/ conn'[i] = NoConn)
                      /\ i > last' => ~conn'[i].live
  OBVIOUS
<1> QED BY <1>1, <1>2, <1>3, <1>4 DEF ConnTyped

LEMMA NoCallTyped ==
    ASSUME NEW n \in Nat, NEW q, q = NoCall(n)
    PROVE  q \in Calls(n) /\ q.op = "none" /\ q.id = 0 /\ \A i \in 1..n : q.copy[i] = NoConn /\ q.copy[i].key = 0
<1>1. NoConn \in ConnRows /\ NoConn.key = 0
  BY DEF NoConn, ConnRows
<1>2. [i \in 1..n |-> NoConn] \in [1..n -> ConnRows] /\ 0 \in 0..n
  BY <1>1
<1>3. q \in Calls(n)
  BY <1>2 DEF Calls, NoCall
<1> QED BY <1>1, <1>3 DEF NoCall

\* Among some numbers there is a least one.
LEMMA LeastOne ==
    ASSUME NEW S, S \subseteq Nat, S # {}
    PROVE  \E i \in S : \A j \in S : i <= j
<1>1. PICK i \in S : \A j \in S : ~(<<j, i>> \in OpToRel(<, Nat))
  BY WFMin, NatLessThanWellFounded
<1>2. ASSUME NEW j \in S PROVE i <= j
  <2>1. <<j, i>> \in Nat \X Nat /\ <<j, i>> \notin OpToRel(<, Nat)
    BY <1>1
  <2>2. ~(j < i)
    BY <2>1 DEF OpToRel
  <2> QED BY <2>2
<1> QED BY <1>1, <1>2

-----------------------------------------------------------------------------
(* The part editors.                                                           *)

LEMMA EditorsNames ==
    /\ Editors!NoRow = NoConn /\ Editors!NoReq = NoCall(MaxConn) /\ Editors!Ids = 1..MaxConn
    /\ MaxConn \in Nat /\ MaxSecret \in Nat \ {0}
<1>1. Editors!NoRow = NoConn /\ Editors!Ids = 1..MaxConn
  BY DEF Editors!NoRow, NoConn, Editors!Ids
<1>2. Editors!NoReq = NoCall(MaxConn)
  BY <1>1 DEF Editors!NoReq, NoCall, Editors!None
<1> QED BY <1>1, <1>2, AiAssumption DEF Editors!LlmAssumption

LEMMA EditorsInit ==
    ASSUME Editors!Init
    PROVE  ConnTyped(MaxConn, MaxSecret)
<1> USE EditorsNames
<1>1. NoConn \in ConnRows /\ NoConn.key = 0 /\ NoConn.live = FALSE
  BY DEF NoConn, ConnRows
<1>2. PICK q : q = NoCall(MaxConn)
  OBVIOUS
<1>3. q \in Calls(MaxConn) /\ q.op = "none" /\ \A i \in 1..MaxConn : q.copy[i].key = 0
  BY <1>2, NoCallTyped
<1>4. conn = [i \in 1..MaxConn |-> NoConn] /\ last = 0 /\ secret = 1 /\ req = [a \in Admins |-> q]
  BY <1>2 DEF Editors!Init
<1> QED BY <1>1, <1>3, <1>4 DEF ConnTyped

\* The commit of a request that has changed columns of its copies only.
LEMMA EditorsCommit ==
    ASSUME ConnTyped(MaxConn, MaxSecret), NEW a \in Admins, NEW copy \in [1..MaxConn -> ConnRows],
           NEW new \in [1..MaxConn -> ConnRows], Editors!Commits(a, copy, new),
           \A i \in 1..MaxConn : new[i].live = copy[i].live /\ new[i].key <= secret
    PROVE  /\ ConnTyped(MaxConn, MaxSecret)' /\ secret' = secret /\ req'[a] = Editors!NoReq
           /\ \/ conn' = conn
              \/ \A i \in 1..MaxConn :
                    /\ conn'[i].dflt = IF new[i].dflt # copy[i].dflt THEN new[i].dflt ELSE conn[i].dflt
                    /\ conn'[i].key = IF new[i].key # copy[i].key THEN new[i].key ELSE conn[i].key
<1> USE EditorsNames
<1>1. /\ conn \in [1..MaxConn -> ConnRows] /\ req \in [Admins -> Calls(MaxConn)]
      /\ last \in 0..MaxConn /\ secret \in 1..MaxSecret
      /\ \A i \in 1..MaxConn :
            /\ conn[i].key <= secret /\ (conn[i].live \/ conn[i] = NoConn)
            /\ i > last => ~conn[i].live
  BY DEF ConnTyped
<1>2. ASSUME NEW i \in 1..MaxConn PROVE Editors!Changed(copy, new, i) = Over(conn[i], copy[i], new[i])
  BY DEF Editors!Changed, Over, NoConn
<1>3. PICK rows : conn' = rows
  OBVIOUS
<1>4. \/ rows = conn
      \/ /\ \A i \in 1..MaxConn : new[i] # copy[i] => conn[i].live
         /\ rows = [i \in 1..MaxConn |-> IF new[i] = copy[i] THEN conn[i] ELSE Over(conn[i], copy[i], new[i])]
  BY <1>2, <1>3 DEF Editors!Commits
<1>5. ASSUME NEW i \in 1..MaxConn, new[i] # copy[i], conn[i].live, NEW x, x = Over(conn[i], copy[i], new[i])
      PROVE  /\ x \in ConnRows /\ x.live /\ x.key <= secret
             /\ x.dflt = IF new[i].dflt # copy[i].dflt THEN new[i].dflt ELSE conn[i].dflt
             /\ x.key = IF new[i].key # copy[i].key THEN new[i].key ELSE conn[i].key
  <2>1. PICK old, c, w : old = conn[i] /\ c = copy[i] /\ w = new[i]
    OBVIOUS
  <2>2. /\ old \in ConnRows /\ c \in ConnRows /\ w \in ConnRows /\ x = Over(old, c, w)
        /\ w.key <= secret /\ old.key <= secret
    <3>1. old \in ConnRows /\ c \in ConnRows /\ w \in ConnRows
      BY <1>1, <2>1
    <3>2. x = Over(old, c, w)
      BY <1>5, <2>1
    <3>3. w.key <= secret /\ old.key <= secret
      BY <1>1, <2>1
    <3> QED BY <3>1, <3>2, <3>3
  <2>6. w.live = c.live /\ old.live
    BY <1>5, <2>1, Zenon
  <2>3. /\ x \in ConnRows /\ (w.live = c.live => x.live = old.live)
        /\ x.dflt = IF w.dflt # c.dflt THEN w.dflt ELSE old.dflt
        /\ x.key = IF w.key # c.key THEN w.key ELSE old.key
    BY <2>2, OverTyped
  <2>4. x.key <= secret
    BY <2>2, <2>3
  <2>5. x.live
    BY <2>3, <2>6, Zenon
  <2> QED BY <2>1, <2>3, <2>4, <2>5
<1>6. ASSUME NEW i \in 1..MaxConn
      PROVE  /\ rows[i] \in ConnRows /\ rows[i].key <= secret /\ (rows[i].live \/ rows[i] = NoConn)
             /\ i > last => ~rows[i].live
  <2>1. CASE rows[i] = conn[i]
    <3>1. conn[i] \in ConnRows /\ conn[i].key <= secret
      BY <1>1
    <3>2. (conn[i].live \/ conn[i] = NoConn) /\ (i > last => ~conn[i].live)
      BY <1>1, Zenon
    <3> QED BY <2>1, <3>1, <3>2, Zenon
  <2>2. CASE rows[i] # conn[i]
    <3>1. PICK x : x = Over(conn[i], copy[i], new[i])
      OBVIOUS
    <3>2. rows[i] = x /\ new[i] # copy[i] /\ conn[i].live
      BY <1>4, <2>2, <3>1
    <3>3. x \in ConnRows /\ x.live /\ x.key <= secret
      BY <1>5, <3>1, <3>2
    <3>4. ~(i > last)
      BY <1>1, <3>2, Zenon
    <3> QED BY <3>2, <3>3, <3>4, Zenon
  <2> QED BY <2>1, <2>2
<1>7. rows \in [1..MaxConn -> ConnRows]
  BY <1>1, <1>4, <1>6
<1>8. PICK q : q = NoCall(MaxConn)
  OBVIOUS
<1>9. q \in Calls(MaxConn) /\ q.op = "none" /\ \A i \in 1..MaxConn : q.copy[i].key = 0
  BY <1>8, NoCallTyped
<1>10. req' = [req EXCEPT ![a] = q] /\ last' = last /\ secret' = secret
  BY <1>8 DEF Editors!Commits
<1>11. ConnTyped(MaxConn, MaxSecret)'
  <2>1. \A i \in 1..MaxConn : q.copy[i].key <= secret
    BY <1>1, <1>9
  <2>2. last \in last..MaxConn /\ MaxSecret \in Nat
    BY <1>1
  <2> QED BY <1>3, <1>6, <1>7, <1>9, <1>10, <2>1, <2>2, ConnMoves
<1>12. rows = conn \/ \A i \in 1..MaxConn :
          /\ rows[i].dflt = IF new[i].dflt # copy[i].dflt THEN new[i].dflt ELSE conn[i].dflt
          /\ rows[i].key = IF new[i].key # copy[i].key THEN new[i].key ELSE conn[i].key
  BY <1>4, <1>5
<1>13. req'[a] = Editors!NoReq
  BY <1>1, <1>8, <1>10
<1> QED BY <1>3, <1>10, <1>11, <1>12, <1>13

\* An insert, with or without the default flag.
LEMMA EditorsCreate ==
    ASSUME ConnTyped(MaxConn, MaxSecret), NEW a \in Admins, Editors!create(a)
    PROVE  /\ ConnTyped(MaxConn, MaxSecret)' /\ secret' = secret /\ req' = req
           /\ \A i \in 1..MaxConn : conn'[i].key = conn[i].key \/ (~conn[i].live /\ conn'[i].key \in {0, secret})
           /\ \E k \in 1..MaxConn :
                 \/ \A i \in 1..MaxConn : conn'[i].dflt => conn[i].dflt
                 \/ \A i \in 1..MaxConn : conn'[i].dflt => i = k
<1> USE EditorsNames
<1>1. /\ conn \in [1..MaxConn -> ConnRows] /\ req \in [Admins -> Calls(MaxConn)]
      /\ last \in 0..MaxConn /\ secret \in 1..MaxSecret
      /\ \A i \in 1..MaxConn :
            /\ conn[i].key <= secret /\ (conn[i].live \/ conn[i] = NoConn)
            /\ i > last => ~conn[i].live
  BY DEF ConnTyped
<1>2. PICK k, e, d \in BOOLEAN : 
         conn' = LET x == [live |-> TRUE, enabled |-> e, dflt |-> FALSE, key |-> Editors!_encrypt_key(k)]
                     rows == [conn EXCEPT ![last + 1] = x]
                 IN  IF d THEN Editors!set_default(rows, last + 1) ELSE rows
  BY DEF Editors!create
<1>3. PICK x : x = [live |-> TRUE, enabled |-> e, dflt |-> FALSE, key |-> Editors!_encrypt_key(k)]
  OBVIOUS
<1>4. Editors!_encrypt_key(k) \in {0, secret} /\ secret \in Nat /\ {0, secret} \subseteq Nat
  BY <1>1 DEF Editors!_encrypt_key
<1>5. x \in ConnRows /\ x.live /\ x.key \in {0, secret} /\ x.key <= secret /\ x.dflt = FALSE
  BY <1>3, <1>4 DEF ConnRows
<1>6. PICK rows : rows = [conn EXCEPT ![last + 1] = x]
  OBVIOUS
<1>7. last + 1 \in 1..MaxConn /\ last' = last + 1 /\ last + 1 \in last..MaxConn /\ secret' = secret /\ req' = req
  BY <1>1 DEF Editors!create
<1>8. /\ rows \in [1..MaxConn -> ConnRows] /\ rows[last + 1] = x
      /\ \A i \in 1..MaxConn : i # last + 1 => rows[i] = conn[i]
  BY <1>1, <1>5, <1>6, <1>7
<1>9. PICK next : next = conn'
  OBVIOUS
<1>10. next = IF d THEN Editors!set_default(rows, last + 1) ELSE rows
  BY <1>2, <1>3, <1>6, <1>9
<1>11. ASSUME NEW i \in 1..MaxConn
       PROVE  /\ next[i] \in ConnRows /\ next[i].live = rows[i].live /\ next[i].key = rows[i].key
              /\ rows[i] = NoConn => next[i] = NoConn \/ i = last + 1
              /\ next[i].dflt = IF d THEN i = last + 1 ELSE rows[i].dflt
  <2>1. PICK y : y = rows[i]
    OBVIOUS
  <2>2. y \in ConnRows
    BY <1>8, <2>1
  <2>3. PICK z : z = [y EXCEPT !.dflt = i = last + 1]
    OBVIOUS
  <2>4. /\ z \in ConnRows /\ z.live = y.live /\ z.key = y.key /\ z.dflt = (i = last + 1)
        /\ y = NoConn => z = NoConn \/ i = last + 1
    <3>1. CASE i = last + 1
      BY <2>2, <2>3, <3>1 DEF ConnRows
    <3>2. CASE i # last + 1
      <4>1. z = [y EXCEPT !.dflt = FALSE]
        BY <2>3, <3>2
      <4>2. z \in ConnRows /\ z.live = y.live /\ z.key = y.key /\ z.dflt = FALSE
        BY <2>2, <4>1 DEF ConnRows
      <4>4. NoConn.dflt = FALSE /\ z.enabled = y.enabled
        BY <2>2, <4>1 DEF NoConn, ConnRows
      <4>3. y = NoConn => z = NoConn
        BY <2>2, <4>2, <4>4, SameRow
      <4> QED BY <3>2, <4>2, <4>3
    <3> QED BY <3>1, <3>2
  <2>5. CASE d
    <3>1. next[i] = z
      BY <1>10, <2>1, <2>3, <2>5 DEF Editors!set_default
    <3> QED BY <2>1, <2>4, <2>5, <3>1
  <2>6. CASE ~d
    <3>1. next[i] = y
      BY <1>10, <2>1, <2>6
    <3> QED BY <2>1, <2>2, <2>6, <3>1
  <2> QED BY <2>5, <2>6
<1>12. next \in [1..MaxConn -> ConnRows]
  <2>1. next = [i \in 1..MaxConn |-> next[i]]
    BY <1>8, <1>10 DEF Editors!set_default
  <2> QED BY <1>11, <2>1
<1>13. ASSUME NEW i \in 1..MaxConn
       PROVE  /\ next[i].key <= secret /\ (next[i].live \/ next[i] = NoConn)
              /\ i > last + 1 => ~next[i].live
              /\ next[i].key = conn[i].key \/ (~conn[i].live /\ next[i].key \in {0, secret})
  <2>1. CASE i = last + 1
    <3>1. next[i].key = x.key /\ next[i].live = x.live
      BY <1>8, <1>11, <2>1
    <3>2. next[i].key <= secret /\ next[i].key \in {0, secret} /\ ~(i > last + 1) /\ i > last
      BY <1>1, <1>5, <2>1, <3>1
    <3>3. ~conn[i].live
      BY <1>1, <3>2, Zenon
    <3>4. next[i].live
      BY <1>5, <3>1
    <3> QED BY <3>2, <3>3, <3>4
  <2>2. CASE i # last + 1
    <3>1. rows[i] = conn[i]
      BY <1>8, <2>2
    <3>2. next[i].key = conn[i].key /\ next[i].live = conn[i].live
      BY <1>11, <3>1
    <3>3. i > last + 1 => i > last
      BY <1>1
    <3>4. i > last + 1 => ~next[i].live
      BY <1>1, <3>2, <3>3, Zenon
    <3>5. next[i].live \/ next[i] = NoConn
      BY <1>1, <1>11, <2>2, <3>1, <3>2, Zenon
    <3>6. next[i].key <= secret
      BY <1>1, <3>2
    <3> QED BY <3>2, <3>4, <3>5, <3>6
  <2> QED BY <2>1, <2>2
<1>14. ConnTyped(MaxConn, MaxSecret)'
  <2>1. PICK q : q = NoCall(MaxConn)
    OBVIOUS
  <2>2. q \in Calls(MaxConn) /\ q.op = "none" /\ \A i \in 1..MaxConn : q.copy[i].key = 0
    BY <2>1, NoCallTyped
  <2>3. \A i \in 1..MaxConn : q.copy[i].key <= secret
    BY <1>1, <2>2
  <2>4. PICK top : top = last + 1
    OBVIOUS
  <2>5. /\ MaxSecret \in Nat /\ top \in last..MaxConn /\ last' = top
        /\ \A i \in 1..MaxConn : next[i].key <= secret /\ (next[i].live \/ next[i] = NoConn) /\ (i > top => ~next[i].live)
    BY <1>7, <1>13, <2>4
  <2> QED BY <1>7, <1>9, <1>12, <2>2, <2>3, <2>5, ConnMoves
<1>15. \/ \A i \in 1..MaxConn : next[i].dflt => conn[i].dflt
       \/ \A i \in 1..MaxConn : next[i].dflt => i = last + 1
  <2>1. CASE d
    BY <1>11, <2>1
  <2>2. CASE ~d
    <3>1. ASSUME NEW i \in 1..MaxConn, next[i].dflt PROVE conn[i].dflt
      <4>1. next[i].dflt = rows[i].dflt
        BY <1>11, <2>2
      <4>2. i # last + 1
        BY <1>5, <1>8, <3>1, <4>1
      <4> QED BY <1>8, <3>1, <4>1, <4>2
    <3> QED BY <3>1
  <2> QED BY <2>1, <2>2
<1> QED BY <1>7, <1>9, <1>13, <1>14, <1>15

\* A request begins with what it has read.
LEMMA EditorsBegin ==
    ASSUME ConnTyped(MaxConn, MaxSecret), NEW a \in Admins, Editors!_get_or_404(a)
    PROVE  /\ ConnTyped(MaxConn, MaxSecret)' /\ UNCHANGED <<conn, last, secret>>
           /\ \A b \in Admins : b # a => req'[b] = req[b]
           /\ req'[a].op = "default" => \A j \in 1..MaxConn : req'[a].copy[j] = conn[j]
           /\ req'[a].op = "update" /\ req'[a].dflt = "yes" => \A j \in 1..MaxConn : req'[a].copy[j] = conn[j]
<1> USE EditorsNames
<1>1. /\ conn \in [1..MaxConn -> ConnRows] /\ req \in [Admins -> Calls(MaxConn)]
      /\ last \in 0..MaxConn /\ secret \in 1..MaxSecret
      /\ \A i \in 1..MaxConn :
            /\ conn[i].key <= secret /\ (conn[i].live \/ conn[i] = NoConn)
            /\ i > last => ~conn[i].live
  BY DEF ConnTyped
<1>2. PICK i \in Editors!Live, op \in {"update", "delete", "default"}, k, e \in BOOLEAN,
           d \in {Editors!None, "yes", "no"} :
         /\ op # "update" => ~k /\ ~e /\ d = Editors!None
         /\ req' = [req EXCEPT ![a] = [op |-> op, id |-> i, copy |-> Editors!Reads(op, i, d),
                                       enabled |-> e, key |-> k, dflt |-> d]]
  BY Zenon DEF Editors!_get_or_404
<1>3. PICK c : c = Editors!Reads(op, i, d)
  OBVIOUS
<1>4. PICK q : q = [op |-> op, id |-> i, copy |-> c, enabled |-> e, key |-> k, dflt |-> d]
  OBVIOUS
<1>5. NoConn \in ConnRows /\ NoConn.key = 0
  BY DEF NoConn, ConnRows
<1>6. \A j \in 1..MaxConn :
         /\ c[j] \in {conn[j], NoConn}
         /\ op = "default" \/ d = "yes" => c[j] = conn[j]
  BY <1>3 DEF Editors!Reads
<1>7. c \in [1..MaxConn -> ConnRows]
  BY <1>1, <1>3, <1>5 DEF Editors!Reads
<1>8. i \in 1..MaxConn
  BY DEF Editors!Live
<1>9. q \in Calls(MaxConn)
  BY <1>4, <1>7, <1>8 DEF Calls, Editors!None
<1>10. \A j \in 1..MaxConn : q.copy[j].key <= secret
  BY <1>1, <1>4, <1>5, <1>6
<1>11. req' = [req EXCEPT ![a] = q] /\ UNCHANGED <<conn, last, secret>>
  BY <1>2, <1>3, <1>4 DEF Editors!_get_or_404
<1>12. ConnTyped(MaxConn, MaxSecret)'
  <2>1. PICK rows : rows = conn
    OBVIOUS
  <2>2. /\ rows \in [1..MaxConn -> ConnRows] /\ conn' = rows /\ last \in last..MaxConn /\ last' = last
        /\ secret' = secret /\ q.id \in 1..MaxConn /\ MaxSecret \in Nat
    BY <1>1, <1>4, <1>8, <1>11, <2>1
  <2>3. \A j \in 1..MaxConn : rows[j].key <= secret /\ (rows[j].live \/ rows[j] = NoConn) /\ (j > last => ~rows[j].live)
    BY <1>1, <2>1, Zenon
  <2> QED BY <1>9, <1>10, <1>11, <2>2, <2>3, ConnMoves
<1>13. req'[a] = q /\ \A b \in Admins : b # a => req'[b] = req[b]
  BY <1>1, <1>11
<1> QED BY <1>4, <1>6, <1>11, <1>12, <1>13

LEMMA EditorsDelete ==
    ASSUME ConnTyped(MaxConn, MaxSecret), NEW a \in Admins, Editors!delete(a)
    PROVE  /\ ConnTyped(MaxConn, MaxSecret)' /\ secret' = secret /\ req'[a] = Editors!NoReq
           /\ \A b \in Admins : b # a => req'[b] = req[b]
           /\ \A i \in 1..MaxConn :
               /\ conn'[i] = conn[i] \/ (conn'[i].key = 0 /\ ~conn'[i].live)
               /\ conn'[i].dflt => conn[i].dflt
<1> USE EditorsNames
<1>1. /\ conn \in [1..MaxConn -> ConnRows] /\ req \in [Admins -> Calls(MaxConn)]
      /\ last \in 0..MaxConn /\ secret \in 1..MaxSecret
      /\ \A i \in 1..MaxConn :
            /\ conn[i].key <= secret /\ (conn[i].live \/ conn[i] = NoConn)
            /\ i > last => ~conn[i].live
  BY DEF ConnTyped
<1>2. NoConn \in ConnRows /\ NoConn.key = 0 /\ NoConn.live = FALSE /\ NoConn.dflt = FALSE
  BY DEF NoConn, ConnRows
<1>3. req[a].id \in 1..MaxConn
  BY DEF Editors!delete, ConnTyped
<1>4. PICK q : q = NoCall(MaxConn)
  OBVIOUS
<1>5. q \in Calls(MaxConn) /\ q.op = "none" /\ \A i \in 1..MaxConn : q.copy[i].key = 0
  BY <1>4, NoCallTyped
<1>6. PICK rows : rows = [conn EXCEPT ![req[a].id] = NoConn]
  OBVIOUS
<1>7. conn' = rows /\ req' = [req EXCEPT ![a] = q] /\ last' = last /\ secret' = secret
  BY <1>4, <1>6 DEF Editors!delete
<1>8. rows \in [1..MaxConn -> ConnRows] /\ \A i \in 1..MaxConn : rows[i] = conn[i] \/ rows[i] = NoConn
  BY <1>1, <1>2, <1>3, <1>6
<1>9. ASSUME NEW i \in 1..MaxConn
      PROVE  rows[i].key <= secret /\ (rows[i].live \/ rows[i] = NoConn) /\ (i > last => ~rows[i].live)
  <2>1. CASE rows[i] = conn[i]
    BY <1>1, <2>1, Zenon
  <2>2. CASE rows[i] = NoConn
    <3>1. 0 <= secret
      BY <1>1
    <3> QED BY <1>2, <2>2, <3>1
  <2> QED BY <1>8, <2>1, <2>2
<1>10. ConnTyped(MaxConn, MaxSecret)'
  <2>1. last \in last..MaxConn /\ MaxSecret \in Nat /\ \A i \in 1..MaxConn : q.copy[i].key <= secret
    BY <1>1, <1>5
  <2> QED BY <1>5, <1>7, <1>8, <1>9, <2>1, ConnMoves
<1>11. \A i \in 1..MaxConn :
           /\ rows[i] = conn[i] \/ (rows[i].key = 0 /\ ~rows[i].live)
           /\ rows[i].dflt => conn[i].dflt
  BY <1>2, <1>8
<1>12. req'[a] = Editors!NoReq /\ \A b \in Admins : b # a => req'[b] = req[b]
  BY <1>1, <1>4, <1>7
<1> QED BY <1>7, <1>10, <1>11, <1>12

LEMMA EditorsRotate ==
    ASSUME ConnTyped(MaxConn, MaxSecret), Editors!RotateSecret
    PROVE  /\ ConnTyped(MaxConn, MaxSecret)' /\ secret' # secret /\ UNCHANGED conn
           /\ \A a \in Admins : req'[a] = Editors!NoReq
<1> USE EditorsNames
<1>1. PICK q : q = NoCall(MaxConn)
  OBVIOUS
<1>2. q \in Calls(MaxConn) /\ q.op = "none" /\ \A i \in 1..MaxConn : q.copy[i].key = 0
  BY <1>1, NoCallTyped
<1>3. req' = [a \in Admins |-> q] /\ secret' = secret + 1 /\ secret < MaxSecret /\ UNCHANGED <<conn, last>>
  BY <1>1 DEF Editors!RotateSecret
<1>4. conn \in [1..MaxConn -> ConnRows] /\ last \in 0..MaxConn /\ secret \in 1..MaxSecret
  BY DEF ConnTyped
<1>5. secret' \in 1..MaxSecret /\ secret' # secret
  BY <1>3, <1>4
<1>6. ASSUME NEW i \in 1..MaxConn PROVE conn[i].key <= secret'
  <2>1. conn[i].key \in Nat
    BY <1>4 DEF ConnRows
  <2>2. conn[i].key <= secret
    BY DEF ConnTyped
  <2> QED BY <1>3, <1>4, <2>1, <2>2
<1>7. \A a \in Admins : /\ req'[a] \in Calls(MaxConn) /\ req'[a].op = "none"
                        /\ \A i \in 1..MaxConn : req'[a].copy[i].key <= secret'
  BY <1>2, <1>3, <1>5
<1>8. req' \in [Admins -> Calls(MaxConn)]
  BY <1>2, <1>3
<1>9. \A i \in 1..MaxConn : (conn[i].live \/ conn[i] = NoConn) /\ (i > last => ~conn[i].live)
  BY Zenon DEF ConnTyped
<1>10. ConnTyped(MaxConn, MaxSecret)'
  BY <1>3, <1>4, <1>5, <1>6, <1>7, <1>8, <1>9 DEF ConnTyped
<1> QED BY <1>1, <1>3, <1>5, <1>10

\* Only the target becomes the default.
LEMMA EditorsSetDefault ==
    ASSUME NEW rows \in [1..MaxConn -> ConnRows], NEW k \in 1..MaxConn
    PROVE  /\ Editors!set_default(rows, k) \in [1..MaxConn -> ConnRows]
           /\ \A i \in 1..MaxConn :
                 LET x == Editors!set_default(rows, k)[i] IN
                 x.live = rows[i].live /\ x.key = rows[i].key /\ x.dflt = (i = k)
<1> USE EditorsNames
<1>1. ASSUME NEW i \in 1..MaxConn, NEW y, y = rows[i], NEW z, z = [y EXCEPT !.dflt = i = k]
      PROVE  z \in ConnRows /\ z.live = y.live /\ z.key = y.key /\ z.dflt = (i = k)
  <2>1. y \in ConnRows
    BY <1>1
  <2>2. CASE i = k
    BY <1>1, <2>1, <2>2 DEF ConnRows
  <2>3. CASE i # k
    <3>1. z = [y EXCEPT !.dflt = FALSE]
      BY <1>1, <2>3
    <3>2. z \in ConnRows /\ z.live = y.live /\ z.key = y.key /\ z.dflt = FALSE
      BY <2>1, <3>1 DEF ConnRows
    <3> QED BY <2>3, <3>2
  <2> QED BY <2>2, <2>3
<1>2. PICK f : f = Editors!set_default(rows, k)
  OBVIOUS
<1>3. f = [i \in 1..MaxConn |-> [rows[i] EXCEPT !.dflt = i = k]]
  BY <1>2 DEF Editors!set_default
<1>4. \A i \in 1..MaxConn : f[i] \in ConnRows /\ f[i].live = rows[i].live /\ f[i].key = rows[i].key /\ f[i].dflt = (i = k)
  BY <1>1, <1>3
<1>5. f \in [1..MaxConn -> ConnRows]
  BY <1>3, <1>4
<1> QED BY <1>2, <1>4, <1>5

\* The commit of an update: the key it carries goes to its target, and the default
\* flag is taken from the target or given to it alone.
LEMMA EditorsUpdate ==
    ASSUME ConnTyped(MaxConn, MaxSecret), NEW a \in Admins, Editors!update(a)
    PROVE  /\ ConnTyped(MaxConn, MaxSecret)' /\ secret' = secret /\ req'[a] = Editors!NoReq
           /\ \A b \in Admins : b # a => req'[b] = req[b]
           /\ \A i \in 1..MaxConn :
                 conn'[i].key = conn[i].key \/ (i = req[a].id /\ req[a].key /\ conn'[i].key = secret)
           /\ req[a].dflt # "yes" => \A i \in 1..MaxConn : conn'[i].dflt => conn[i].dflt
           /\ (\A i \in 1..MaxConn : req[a].copy[i] = conn[i]) =>
                 \/ \A i \in 1..MaxConn : conn'[i].dflt => conn[i].dflt
                 \/ \A i \in 1..MaxConn : conn'[i].dflt => i = req[a].id
<1> USE EditorsNames
<1>1. /\ conn \in [1..MaxConn -> ConnRows] /\ req \in [Admins -> Calls(MaxConn)] /\ secret \in 1..MaxSecret
      /\ \A i \in 1..MaxConn : conn[i].key <= secret
  BY DEF ConnTyped
<1>2. PICK q : q = req[a]
  OBVIOUS
<1>3. q \in Calls(MaxConn) /\ q.id \in 1..MaxConn /\ \A i \in 1..MaxConn : q.copy[i].key <= secret
  BY <1>1, <1>2 DEF ConnTyped, Editors!update
<1>4. q.copy \in [1..MaxConn -> ConnRows] /\ q.enabled \in BOOLEAN /\ q.key \in BOOLEAN
  BY <1>3 DEF Calls
<1>5. PICK c : c = q.copy[q.id]
  OBVIOUS
<1>6. PICK set : set = [c EXCEPT !.enabled = q.enabled, !.key = IF q.key THEN Editors!_encrypt_key(TRUE) ELSE @]
  OBVIOUS
<1>7. PICK copy : copy = IF set = c THEN q.copy ELSE [conn EXCEPT ![q.id] = c]
  OBVIOUS
<1>8. PICK rows : rows = [copy EXCEPT ![q.id] = set]
  OBVIOUS
<1>9. PICK new : new = IF q.dflt = "yes" THEN Editors!set_default(rows, q.id)
                       ELSE IF q.dflt = "no" THEN [rows EXCEPT ![q.id].dflt = FALSE] ELSE rows
  OBVIOUS
<1>10. Editors!Commits(a, copy, new)
  BY <1>2, <1>5, <1>6, <1>7, <1>8, <1>9 DEF Editors!update
<1>11. c \in ConnRows /\ c.key <= secret /\ Editors!_encrypt_key(TRUE) = secret /\ secret \in Nat
  BY <1>1, <1>3, <1>4, <1>5 DEF Editors!_encrypt_key
<1>12. /\ set \in ConnRows /\ set.live = c.live /\ set.dflt = c.dflt /\ set.key <= secret
       /\ set.key = c.key \/ (q.key /\ set.key = secret)
  <2>1. set \in ConnRows /\ set.live = c.live /\ set.dflt = c.dflt /\ set.key = IF q.key THEN secret ELSE c.key
    BY <1>4, <1>6, <1>11 DEF ConnRows
  <2> QED BY <1>11, <2>1
<1>13. /\ copy \in [1..MaxConn -> ConnRows] /\ copy[q.id] = c
       /\ \A i \in 1..MaxConn : copy[i].key <= secret
       /\ (\A i \in 1..MaxConn : q.copy[i] = conn[i]) => \A i \in 1..MaxConn : copy[i] = conn[i]
  <2>1. CASE set = c
    BY <1>3, <1>4, <1>5, <1>7, <2>1
  <2>2. CASE set # c
    <3>1. copy = [conn EXCEPT ![q.id] = c]
      BY <1>7, <2>2
    <3> QED BY <1>1, <1>3, <1>5, <1>11, <3>1
  <2> QED BY <2>1, <2>2
<1>14. /\ rows \in [1..MaxConn -> ConnRows] /\ rows[q.id] = set
       /\ \A i \in 1..MaxConn : i # q.id => rows[i] = copy[i]
  BY <1>3, <1>8, <1>12, <1>13
<1>15. \A i \in 1..MaxConn :
          /\ rows[i].live = copy[i].live /\ rows[i].dflt = copy[i].dflt /\ rows[i].key <= secret
          /\ rows[i].key = copy[i].key \/ (i = q.id /\ q.key /\ rows[i].key = secret)
  <2>1. ASSUME NEW i \in 1..MaxConn, i = q.id
        PROVE  /\ rows[i].live = copy[i].live /\ rows[i].dflt = copy[i].dflt /\ rows[i].key <= secret
               /\ rows[i].key = copy[i].key \/ (i = q.id /\ q.key /\ rows[i].key = secret)
    BY <1>12, <1>13, <1>14, <2>1
  <2>2. ASSUME NEW i \in 1..MaxConn, i # q.id
        PROVE  rows[i] = copy[i] /\ rows[i].key <= secret
    BY <1>13, <1>14, <2>2
  <2> QED BY <2>1, <2>2
<1>16. /\ new \in [1..MaxConn -> ConnRows]
       /\ \A i \in 1..MaxConn : new[i].live = rows[i].live /\ new[i].key = rows[i].key
       /\ q.dflt = "yes" => \A i \in 1..MaxConn : new[i].dflt = (i = q.id)
       /\ q.dflt # "yes" => \A i \in 1..MaxConn : new[i].dflt = rows[i].dflt \/ new[i].dflt = FALSE
  <2>1. CASE q.dflt = "yes"
    <3>1. new = Editors!set_default(rows, q.id)
      BY <1>9, <2>1
    <3> QED BY <1>3, <1>14, <2>1, <3>1, EditorsSetDefault
  <2>2. CASE q.dflt = "no"
    <3>1. PICK x : x = [rows[q.id] EXCEPT !.dflt = FALSE]
      OBVIOUS
    <3>2. rows[q.id] \in ConnRows
      BY <1>3, <1>14
    <3>3. x \in ConnRows /\ x.live = rows[q.id].live /\ x.key = rows[q.id].key /\ x.dflt = FALSE
      BY <3>1, <3>2 DEF ConnRows
    <3>4. new = [rows EXCEPT ![q.id] = x]
      BY <1>9, <2>2, <3>1
    <3>5. /\ new \in [1..MaxConn -> ConnRows] /\ new[q.id] = x
          /\ \A i \in 1..MaxConn : i # q.id => new[i] = rows[i]
      BY <1>3, <1>14, <3>3, <3>4
    <3> QED BY <2>2, <3>3, <3>5
  <2>3. CASE q.dflt # "yes" /\ q.dflt # "no"
    BY <1>9, <1>14, <2>3
  <2> QED BY <2>1, <2>2, <2>3
<1>17. \A i \in 1..MaxConn : new[i].live = copy[i].live /\ new[i].key <= secret
  BY <1>15, <1>16
<1>18. /\ ConnTyped(MaxConn, MaxSecret)' /\ secret' = secret /\ req'[a] = Editors!NoReq
       /\ \/ conn' = conn
          \/ \A i \in 1..MaxConn :
                /\ conn'[i].dflt = IF new[i].dflt # copy[i].dflt THEN new[i].dflt ELSE conn[i].dflt
                /\ conn'[i].key = IF new[i].key # copy[i].key THEN new[i].key ELSE conn[i].key
  BY <1>10, <1>13, <1>16, <1>17, EditorsCommit
<1>19. \A b \in Admins : b # a => req'[b] = req[b]
  BY <1>1, <1>10 DEF Editors!Commits
<1>20. ASSUME NEW i \in 1..MaxConn
       PROVE  conn'[i].key = conn[i].key \/ (i = q.id /\ q.key /\ conn'[i].key = secret)
  BY <1>15, <1>16, <1>18
<1>21. ASSUME q.dflt # "yes", NEW i \in 1..MaxConn, conn'[i].dflt PROVE conn[i].dflt
  <2>1. new[i].dflt = copy[i].dflt \/ new[i].dflt = FALSE
    BY <1>15, <1>16, <1>21
  <2> QED BY <1>18, <1>21, <2>1
<1>22. ASSUME \A i \in 1..MaxConn : q.copy[i] = conn[i], q.dflt = "yes"
       PROVE  \/ conn' = conn
              \/ \A i \in 1..MaxConn : conn'[i].dflt => i = q.id
  <2>1. \A i \in 1..MaxConn : copy[i] = conn[i] /\ new[i].dflt = (i = q.id)
    BY <1>13, <1>16, <1>22
  <2>2. ASSUME NEW i \in 1..MaxConn, conn' # conn, conn'[i].dflt PROVE i = q.id
    <3>1. conn'[i].dflt = IF new[i].dflt # copy[i].dflt THEN new[i].dflt ELSE conn[i].dflt
      BY <1>18, <2>2
    <3>2. conn'[i].dflt = new[i].dflt
      BY <2>1, <3>1
    <3>3. new[i].dflt = (i = q.id)
      BY <2>1
    <3> QED BY <2>2, <3>2, <3>3, Zenon
  <2> QED BY <2>2
<1> QED BY <1>2, <1>18, <1>19, <1>20, <1>21, <1>22

LEMMA EditorsDefault ==
    ASSUME ConnTyped(MaxConn, MaxSecret), NEW a \in Admins, Editors!set_default_llm_connection(a)
    PROVE  /\ ConnTyped(MaxConn, MaxSecret)' /\ secret' = secret /\ req'[a] = Editors!NoReq
           /\ \A b \in Admins : b # a => req'[b] = req[b]
           /\ \A i \in 1..MaxConn : conn'[i].key = conn[i].key
           /\ (\A i \in 1..MaxConn : req[a].copy[i] = conn[i]) =>
                 \/ \A i \in 1..MaxConn : conn'[i].dflt => conn[i].dflt
                 \/ \A i \in 1..MaxConn : conn'[i].dflt => i = req[a].id
<1> USE EditorsNames
<1>1. req \in [Admins -> Calls(MaxConn)] /\ secret \in 1..MaxSecret
  BY DEF ConnTyped
<1>2. PICK q, copy : q = req[a] /\ copy = q.copy
  OBVIOUS
<1>3. q \in Calls(MaxConn) /\ q.id \in 1..MaxConn /\ \A i \in 1..MaxConn : copy[i].key <= secret
  BY <1>1, <1>2 DEF ConnTyped, Editors!set_default_llm_connection
<1>4. copy \in [1..MaxConn -> ConnRows]
  BY <1>2, <1>3 DEF Calls
<1>5. PICK new : new = Editors!set_default(copy, q.id)
  OBVIOUS
<1>6. /\ new \in [1..MaxConn -> ConnRows]
      /\ \A i \in 1..MaxConn : new[i].live = copy[i].live /\ new[i].key = copy[i].key /\ new[i].dflt = (i = q.id)
  BY <1>3, <1>4, <1>5, EditorsSetDefault
<1>7. Editors!Commits(a, copy, new)
  BY <1>2, <1>5 DEF Editors!set_default_llm_connection
<1>8. \A i \in 1..MaxConn : new[i].live = copy[i].live /\ new[i].key <= secret
  BY <1>3, <1>6
<1>9. /\ ConnTyped(MaxConn, MaxSecret)' /\ secret' = secret /\ req'[a] = Editors!NoReq
      /\ \/ conn' = conn
         \/ \A i \in 1..MaxConn :
               /\ conn'[i].dflt = IF new[i].dflt # copy[i].dflt THEN new[i].dflt ELSE conn[i].dflt
               /\ conn'[i].key = IF new[i].key # copy[i].key THEN new[i].key ELSE conn[i].key
  BY <1>4, <1>6, <1>7, <1>8, EditorsCommit
<1>10. \A b \in Admins : b # a => req'[b] = req[b]
  BY <1>1, <1>7 DEF Editors!Commits
<1>11. \A i \in 1..MaxConn : conn'[i].key = conn[i].key
  BY <1>6, <1>9
<1>12. ASSUME \A i \in 1..MaxConn : copy[i] = conn[i]
       PROVE  \/ conn' = conn
              \/ \A i \in 1..MaxConn : conn'[i].dflt => i = q.id
  <2>1. ASSUME NEW i \in 1..MaxConn, conn' # conn, conn'[i].dflt PROVE i = q.id
    <3>1. conn'[i].dflt = IF new[i].dflt # copy[i].dflt THEN new[i].dflt ELSE conn[i].dflt
      BY <1>9, <2>1
    <3>2. conn'[i].dflt = new[i].dflt
      BY <1>12, <3>1
    <3>3. new[i].dflt = (i = q.id)
      BY <1>6
    <3> QED BY <2>1, <3>2, <3>3, Zenon
  <2> QED BY <2>1
<1> QED BY <1>2, <1>9, <1>10, <1>11, <1>12

LEMMA EditorsTypes ==
    ASSUME ConnTyped(MaxConn, MaxSecret)
    PROVE  Editors!TypeOK
<1> USE EditorsNames
<1>1. /\ conn \in [1..MaxConn -> ConnRows] /\ last \in 0..MaxConn /\ secret \in 1..MaxSecret
      /\ \A i \in 1..MaxConn : conn[i].key <= secret
  BY DEF ConnTyped
<1>2. ASSUME NEW i \in 1..MaxConn PROVE conn[i].key \in 0..secret
  <2>1. conn[i].key \in Nat
    BY <1>1 DEF ConnRows
  <2> QED BY <1>1, <2>1
<1>3. \A i \in 1..MaxConn : (conn[i].live \/ conn[i] = NoConn) /\ (i > last => ~conn[i].live)
  BY Zenon DEF ConnTyped
<1>4. Editors!get_active \in Editors!Live \cup {0}
  <2>1. PICK S : S = {i \in Editors!Live : conn[i].enabled}
    OBVIOUS
  <2>2. PICK T : T = IF \E i \in S : conn[i].dflt THEN {i \in S : conn[i].dflt} ELSE S
    OBVIOUS
  <2>3. T \subseteq Editors!Live /\ T \subseteq Nat
    BY <2>1, <2>2 DEF Editors!Live
  <2>4. Editors!get_active = IF T = {} THEN 0 ELSE CHOOSE i \in T : \A j \in T : i <= j
    BY <2>1, <2>2 DEF Editors!get_active
  <2>5. CASE T = {}
    BY <2>4, <2>5
  <2>6. CASE T # {}
    <3>1. \E i \in T : \A j \in T : i <= j
      BY <2>3, <2>6, LeastOne
    <3>2. (CHOOSE i \in T : \A j \in T : i <= j) \in T
      BY <3>1
    <3> QED BY <2>3, <2>4, <2>6, <3>2
  <2> QED BY <2>5, <2>6
<1> QED BY <1>1, <1>2, <1>3, <1>4 DEF Editors!TypeOK

LEMMA EditorsStep ==
    ASSUME ConnTyped(MaxConn, MaxSecret), Editors!Next
    PROVE  ConnTyped(MaxConn, MaxSecret)'
BY EditorsCreate, EditorsBegin, EditorsUpdate, EditorsDelete, EditorsDefault, EditorsRotate DEF Editors!Next

-----------------------------------------------------------------------------
(* The part connections.                                                           *)

LEMMA ConnNames ==
    /\ Conn!NoRow = NoConn /\ Conn!NoReq = NoCall(MaxConn + 1) /\ Conn!Ids = 1..(MaxConn + 1)
    /\ MaxConn + 1 \in Nat /\ MaxSecret + 1 \in Nat \ {0}
<1>1. Conn!NoRow = NoConn /\ Conn!Ids = 1..(MaxConn + 1)
  BY DEF Conn!NoRow, NoConn, Conn!Ids
<1>2. Conn!NoReq = NoCall(MaxConn + 1)
  BY <1>1 DEF Conn!NoReq, NoCall, Conn!None
<1> QED BY <1>1, <1>2, AiAssumption DEF Conn!LlmAssumption

LEMMA ConnInit ==
    ASSUME Conn!Init
    PROVE  ConnTyped(MaxConn + 1, MaxSecret + 1)
<1> USE ConnNames
<1>1. NoConn \in ConnRows /\ NoConn.key = 0 /\ NoConn.live = FALSE
  BY DEF NoConn, ConnRows
<1>2. PICK q : q = NoCall(MaxConn + 1)
  OBVIOUS
<1>3. q \in Calls(MaxConn + 1) /\ q.op = "none" /\ \A i \in 1..(MaxConn + 1) : q.copy[i].key = 0
  BY <1>2, NoCallTyped
<1>4. conn = [i \in 1..(MaxConn + 1) |-> NoConn] /\ last = 0 /\ secret = 1 /\ req = [a \in Admins |-> q]
  BY <1>2 DEF Conn!Init
<1> QED BY <1>1, <1>3, <1>4 DEF ConnTyped

\* The commit of a request that has changed columns of its copies only.
LEMMA ConnCommit ==
    ASSUME ConnTyped(MaxConn + 1, MaxSecret + 1), NEW a \in Admins, NEW copy \in [1..(MaxConn + 1) -> ConnRows],
           NEW new \in [1..(MaxConn + 1) -> ConnRows], Conn!Commits(a, copy, new),
           \A i \in 1..(MaxConn + 1) : new[i].live = copy[i].live /\ new[i].key <= secret
    PROVE  /\ ConnTyped(MaxConn + 1, MaxSecret + 1)' /\ secret' = secret /\ req'[a] = Conn!NoReq
           /\ \/ conn' = conn
              \/ \A i \in 1..(MaxConn + 1) :
                    /\ conn'[i].dflt = IF new[i].dflt # copy[i].dflt THEN new[i].dflt ELSE conn[i].dflt
                    /\ conn'[i].key = IF new[i].key # copy[i].key THEN new[i].key ELSE conn[i].key
<1> USE ConnNames
<1>1. /\ conn \in [1..(MaxConn + 1) -> ConnRows] /\ req \in [Admins -> Calls(MaxConn + 1)]
      /\ last \in 0..(MaxConn + 1) /\ secret \in 1..(MaxSecret + 1)
      /\ \A i \in 1..(MaxConn + 1) :
            /\ conn[i].key <= secret /\ (conn[i].live \/ conn[i] = NoConn)
            /\ i > last => ~conn[i].live
  BY DEF ConnTyped
<1>2. ASSUME NEW i \in 1..(MaxConn + 1) PROVE Conn!Changed(copy, new, i) = Over(conn[i], copy[i], new[i])
  BY DEF Conn!Changed, Over, NoConn
<1>3. PICK rows : conn' = rows
  OBVIOUS
<1>4. \/ rows = conn
      \/ /\ \A i \in 1..(MaxConn + 1) : new[i] # copy[i] => conn[i].live
         /\ rows = [i \in 1..(MaxConn + 1) |-> IF new[i] = copy[i] THEN conn[i] ELSE Over(conn[i], copy[i], new[i])]
  BY <1>2, <1>3 DEF Conn!Commits
<1>5. ASSUME NEW i \in 1..(MaxConn + 1), new[i] # copy[i], conn[i].live, NEW x, x = Over(conn[i], copy[i], new[i])
      PROVE  /\ x \in ConnRows /\ x.live /\ x.key <= secret
             /\ x.dflt = IF new[i].dflt # copy[i].dflt THEN new[i].dflt ELSE conn[i].dflt
             /\ x.key = IF new[i].key # copy[i].key THEN new[i].key ELSE conn[i].key
  <2>1. PICK old, c, w : old = conn[i] /\ c = copy[i] /\ w = new[i]
    OBVIOUS
  <2>2. /\ old \in ConnRows /\ c \in ConnRows /\ w \in ConnRows /\ x = Over(old, c, w)
        /\ w.key <= secret /\ old.key <= secret
    <3>1. old \in ConnRows /\ c \in ConnRows /\ w \in ConnRows
      BY <1>1, <2>1
    <3>2. x = Over(old, c, w)
      BY <1>5, <2>1
    <3>3. w.key <= secret /\ old.key <= secret
      BY <1>1, <2>1
    <3> QED BY <3>1, <3>2, <3>3
  <2>6. w.live = c.live /\ old.live
    BY <1>5, <2>1, Zenon
  <2>3. /\ x \in ConnRows /\ (w.live = c.live => x.live = old.live)
        /\ x.dflt = IF w.dflt # c.dflt THEN w.dflt ELSE old.dflt
        /\ x.key = IF w.key # c.key THEN w.key ELSE old.key
    BY <2>2, OverTyped
  <2>4. x.key <= secret
    BY <2>2, <2>3
  <2>5. x.live
    BY <2>3, <2>6, Zenon
  <2> QED BY <2>1, <2>3, <2>4, <2>5
<1>6. ASSUME NEW i \in 1..(MaxConn + 1)
      PROVE  /\ rows[i] \in ConnRows /\ rows[i].key <= secret /\ (rows[i].live \/ rows[i] = NoConn)
             /\ i > last => ~rows[i].live
  <2>1. CASE rows[i] = conn[i]
    <3>1. conn[i] \in ConnRows /\ conn[i].key <= secret
      BY <1>1
    <3>2. (conn[i].live \/ conn[i] = NoConn) /\ (i > last => ~conn[i].live)
      BY <1>1, Zenon
    <3> QED BY <2>1, <3>1, <3>2, Zenon
  <2>2. CASE rows[i] # conn[i]
    <3>1. PICK x : x = Over(conn[i], copy[i], new[i])
      OBVIOUS
    <3>2. rows[i] = x /\ new[i] # copy[i] /\ conn[i].live
      BY <1>4, <2>2, <3>1
    <3>3. x \in ConnRows /\ x.live /\ x.key <= secret
      BY <1>5, <3>1, <3>2
    <3>4. ~(i > last)
      BY <1>1, <3>2, Zenon
    <3> QED BY <3>2, <3>3, <3>4, Zenon
  <2> QED BY <2>1, <2>2
<1>7. rows \in [1..(MaxConn + 1) -> ConnRows]
  BY <1>1, <1>4, <1>6
<1>8. PICK q : q = NoCall(MaxConn + 1)
  OBVIOUS
<1>9. q \in Calls(MaxConn + 1) /\ q.op = "none" /\ \A i \in 1..(MaxConn + 1) : q.copy[i].key = 0
  BY <1>8, NoCallTyped
<1>10. req' = [req EXCEPT ![a] = q] /\ last' = last /\ secret' = secret
  BY <1>8 DEF Conn!Commits
<1>11. ConnTyped(MaxConn + 1, MaxSecret + 1)'
  <2>1. \A i \in 1..(MaxConn + 1) : q.copy[i].key <= secret
    BY <1>1, <1>9
  <2>2. last \in last..(MaxConn + 1) /\ MaxSecret + 1 \in Nat
    BY <1>1
  <2> QED BY <1>3, <1>6, <1>7, <1>9, <1>10, <2>1, <2>2, ConnMoves
<1>12. rows = conn \/ \A i \in 1..(MaxConn + 1) :
          /\ rows[i].dflt = IF new[i].dflt # copy[i].dflt THEN new[i].dflt ELSE conn[i].dflt
          /\ rows[i].key = IF new[i].key # copy[i].key THEN new[i].key ELSE conn[i].key
  BY <1>4, <1>5
<1>13. req'[a] = Conn!NoReq
  BY <1>1, <1>8, <1>10
<1> QED BY <1>3, <1>10, <1>11, <1>12, <1>13

\* An insert, with or without the default flag.
LEMMA ConnCreate ==
    ASSUME ConnTyped(MaxConn + 1, MaxSecret + 1), NEW a \in Admins, Conn!create(a)
    PROVE  /\ ConnTyped(MaxConn + 1, MaxSecret + 1)' /\ secret' = secret /\ req' = req
           /\ \A i \in 1..(MaxConn + 1) : conn'[i].key = conn[i].key \/ (~conn[i].live /\ conn'[i].key \in {0, secret})
           /\ \E k \in 1..(MaxConn + 1) :
                 \/ \A i \in 1..(MaxConn + 1) : conn'[i].dflt => conn[i].dflt
                 \/ \A i \in 1..(MaxConn + 1) : conn'[i].dflt => i = k
<1> USE ConnNames
<1>1. /\ conn \in [1..(MaxConn + 1) -> ConnRows] /\ req \in [Admins -> Calls(MaxConn + 1)]
      /\ last \in 0..(MaxConn + 1) /\ secret \in 1..(MaxSecret + 1)
      /\ \A i \in 1..(MaxConn + 1) :
            /\ conn[i].key <= secret /\ (conn[i].live \/ conn[i] = NoConn)
            /\ i > last => ~conn[i].live
  BY DEF ConnTyped
<1>2. PICK k, e, d \in BOOLEAN : 
         conn' = LET x == [live |-> TRUE, enabled |-> e, dflt |-> FALSE, key |-> Conn!_encrypt_key(k)]
                     rows == [conn EXCEPT ![last + 1] = x]
                 IN  IF d THEN Conn!set_default(rows, last + 1) ELSE rows
  BY DEF Conn!create
<1>3. PICK x : x = [live |-> TRUE, enabled |-> e, dflt |-> FALSE, key |-> Conn!_encrypt_key(k)]
  OBVIOUS
<1>4. Conn!_encrypt_key(k) \in {0, secret} /\ secret \in Nat /\ {0, secret} \subseteq Nat
  BY <1>1 DEF Conn!_encrypt_key
<1>5. x \in ConnRows /\ x.live /\ x.key \in {0, secret} /\ x.key <= secret /\ x.dflt = FALSE
  BY <1>3, <1>4 DEF ConnRows
<1>6. PICK rows : rows = [conn EXCEPT ![last + 1] = x]
  OBVIOUS
<1>7. last + 1 \in 1..(MaxConn + 1) /\ last' = last + 1 /\ last + 1 \in last..(MaxConn + 1) /\ secret' = secret /\ req' = req
  BY <1>1 DEF Conn!create
<1>8. /\ rows \in [1..(MaxConn + 1) -> ConnRows] /\ rows[last + 1] = x
      /\ \A i \in 1..(MaxConn + 1) : i # last + 1 => rows[i] = conn[i]
  BY <1>1, <1>5, <1>6, <1>7
<1>9. PICK next : next = conn'
  OBVIOUS
<1>10. next = IF d THEN Conn!set_default(rows, last + 1) ELSE rows
  BY <1>2, <1>3, <1>6, <1>9
<1>11. ASSUME NEW i \in 1..(MaxConn + 1)
       PROVE  /\ next[i] \in ConnRows /\ next[i].live = rows[i].live /\ next[i].key = rows[i].key
              /\ rows[i] = NoConn => next[i] = NoConn \/ i = last + 1
              /\ next[i].dflt = IF d THEN i = last + 1 ELSE rows[i].dflt
  <2>1. PICK y : y = rows[i]
    OBVIOUS
  <2>2. y \in ConnRows
    BY <1>8, <2>1
  <2>3. PICK z : z = [y EXCEPT !.dflt = i = last + 1]
    OBVIOUS
  <2>4. /\ z \in ConnRows /\ z.live = y.live /\ z.key = y.key /\ z.dflt = (i = last + 1)
        /\ y = NoConn => z = NoConn \/ i = last + 1
    <3>1. CASE i = last + 1
      BY <2>2, <2>3, <3>1 DEF ConnRows
    <3>2. CASE i # last + 1
      <4>1. z = [y EXCEPT !.dflt = FALSE]
        BY <2>3, <3>2
      <4>2. z \in ConnRows /\ z.live = y.live /\ z.key = y.key /\ z.dflt = FALSE
        BY <2>2, <4>1 DEF ConnRows
      <4>4. NoConn.dflt = FALSE /\ z.enabled = y.enabled
        BY <2>2, <4>1 DEF NoConn, ConnRows
      <4>3. y = NoConn => z = NoConn
        BY <2>2, <4>2, <4>4, SameRow
      <4> QED BY <3>2, <4>2, <4>3
    <3> QED BY <3>1, <3>2
  <2>5. CASE d
    <3>1. next[i] = z
      BY <1>10, <2>1, <2>3, <2>5 DEF Conn!set_default
    <3> QED BY <2>1, <2>4, <2>5, <3>1
  <2>6. CASE ~d
    <3>1. next[i] = y
      BY <1>10, <2>1, <2>6
    <3> QED BY <2>1, <2>2, <2>6, <3>1
  <2> QED BY <2>5, <2>6
<1>12. next \in [1..(MaxConn + 1) -> ConnRows]
  <2>1. next = [i \in 1..(MaxConn + 1) |-> next[i]]
    BY <1>8, <1>10 DEF Conn!set_default
  <2> QED BY <1>11, <2>1
<1>13. ASSUME NEW i \in 1..(MaxConn + 1)
       PROVE  /\ next[i].key <= secret /\ (next[i].live \/ next[i] = NoConn)
              /\ i > last + 1 => ~next[i].live
              /\ next[i].key = conn[i].key \/ (~conn[i].live /\ next[i].key \in {0, secret})
  <2>1. CASE i = last + 1
    <3>1. next[i].key = x.key /\ next[i].live = x.live
      BY <1>8, <1>11, <2>1
    <3>2. next[i].key <= secret /\ next[i].key \in {0, secret} /\ ~(i > last + 1) /\ i > last
      BY <1>1, <1>5, <2>1, <3>1
    <3>3. ~conn[i].live
      BY <1>1, <3>2, Zenon
    <3>4. next[i].live
      BY <1>5, <3>1
    <3> QED BY <3>2, <3>3, <3>4
  <2>2. CASE i # last + 1
    <3>1. rows[i] = conn[i]
      BY <1>8, <2>2
    <3>2. next[i].key = conn[i].key /\ next[i].live = conn[i].live
      BY <1>11, <3>1
    <3>3. i > last + 1 => i > last
      BY <1>1
    <3>4. i > last + 1 => ~next[i].live
      BY <1>1, <3>2, <3>3, Zenon
    <3>5. next[i].live \/ next[i] = NoConn
      BY <1>1, <1>11, <2>2, <3>1, <3>2, Zenon
    <3>6. next[i].key <= secret
      BY <1>1, <3>2
    <3> QED BY <3>2, <3>4, <3>5, <3>6
  <2> QED BY <2>1, <2>2
<1>14. ConnTyped(MaxConn + 1, MaxSecret + 1)'
  <2>1. PICK q : q = NoCall(MaxConn + 1)
    OBVIOUS
  <2>2. q \in Calls(MaxConn + 1) /\ q.op = "none" /\ \A i \in 1..(MaxConn + 1) : q.copy[i].key = 0
    BY <2>1, NoCallTyped
  <2>3. \A i \in 1..(MaxConn + 1) : q.copy[i].key <= secret
    BY <1>1, <2>2
  <2>4. PICK top : top = last + 1
    OBVIOUS
  <2>5. /\ MaxSecret + 1 \in Nat /\ top \in last..(MaxConn + 1) /\ last' = top
        /\ \A i \in 1..(MaxConn + 1) : next[i].key <= secret /\ (next[i].live \/ next[i] = NoConn) /\ (i > top => ~next[i].live)
    BY <1>7, <1>13, <2>4
  <2> QED BY <1>7, <1>9, <1>12, <2>2, <2>3, <2>5, ConnMoves
<1>15. \/ \A i \in 1..(MaxConn + 1) : next[i].dflt => conn[i].dflt
       \/ \A i \in 1..(MaxConn + 1) : next[i].dflt => i = last + 1
  <2>1. CASE d
    BY <1>11, <2>1
  <2>2. CASE ~d
    <3>1. ASSUME NEW i \in 1..(MaxConn + 1), next[i].dflt PROVE conn[i].dflt
      <4>1. next[i].dflt = rows[i].dflt
        BY <1>11, <2>2
      <4>2. i # last + 1
        BY <1>5, <1>8, <3>1, <4>1
      <4> QED BY <1>8, <3>1, <4>1, <4>2
    <3> QED BY <3>1
  <2> QED BY <2>1, <2>2
<1> QED BY <1>7, <1>9, <1>13, <1>14, <1>15

\* A request begins with what it has read.
LEMMA ConnBegin ==
    ASSUME ConnTyped(MaxConn + 1, MaxSecret + 1), NEW a \in Admins, Conn!_get_or_404(a)
    PROVE  /\ ConnTyped(MaxConn + 1, MaxSecret + 1)' /\ UNCHANGED <<conn, last, secret>>
           /\ \A b \in Admins : b # a => req'[b] = req[b]
           /\ req'[a].op = "default" => \A j \in 1..(MaxConn + 1) : req'[a].copy[j] = conn[j]
           /\ req'[a].op = "update" /\ req'[a].dflt = "yes" => \A j \in 1..(MaxConn + 1) : req'[a].copy[j] = conn[j]
<1> USE ConnNames
<1>1. /\ conn \in [1..(MaxConn + 1) -> ConnRows] /\ req \in [Admins -> Calls(MaxConn + 1)]
      /\ last \in 0..(MaxConn + 1) /\ secret \in 1..(MaxSecret + 1)
      /\ \A i \in 1..(MaxConn + 1) :
            /\ conn[i].key <= secret /\ (conn[i].live \/ conn[i] = NoConn)
            /\ i > last => ~conn[i].live
  BY DEF ConnTyped
<1>2. PICK i \in Conn!Live, op \in {"update", "delete", "default"}, k, e \in BOOLEAN,
           d \in {Conn!None, "yes", "no"} :
         /\ op # "update" => ~k /\ ~e /\ d = Conn!None
         /\ req' = [req EXCEPT ![a] = [op |-> op, id |-> i, copy |-> Conn!Reads(op, i, d),
                                       enabled |-> e, key |-> k, dflt |-> d]]
  BY Zenon DEF Conn!_get_or_404
<1>3. PICK c : c = Conn!Reads(op, i, d)
  OBVIOUS
<1>4. PICK q : q = [op |-> op, id |-> i, copy |-> c, enabled |-> e, key |-> k, dflt |-> d]
  OBVIOUS
<1>5. NoConn \in ConnRows /\ NoConn.key = 0
  BY DEF NoConn, ConnRows
<1>6. \A j \in 1..(MaxConn + 1) :
         /\ c[j] \in {conn[j], NoConn}
         /\ op = "default" \/ d = "yes" => c[j] = conn[j]
  BY <1>3 DEF Conn!Reads
<1>7. c \in [1..(MaxConn + 1) -> ConnRows]
  BY <1>1, <1>3, <1>5 DEF Conn!Reads
<1>8. i \in 1..(MaxConn + 1)
  BY DEF Conn!Live
<1>9. q \in Calls(MaxConn + 1)
  BY <1>4, <1>7, <1>8 DEF Calls, Conn!None
<1>10. \A j \in 1..(MaxConn + 1) : q.copy[j].key <= secret
  BY <1>1, <1>4, <1>5, <1>6
<1>11. req' = [req EXCEPT ![a] = q] /\ UNCHANGED <<conn, last, secret>>
  BY <1>2, <1>3, <1>4 DEF Conn!_get_or_404
<1>12. ConnTyped(MaxConn + 1, MaxSecret + 1)'
  <2>1. PICK rows : rows = conn
    OBVIOUS
  <2>2. /\ rows \in [1..(MaxConn + 1) -> ConnRows] /\ conn' = rows /\ last \in last..(MaxConn + 1) /\ last' = last
        /\ secret' = secret /\ q.id \in 1..(MaxConn + 1) /\ MaxSecret + 1 \in Nat
    BY <1>1, <1>4, <1>8, <1>11, <2>1
  <2>3. \A j \in 1..(MaxConn + 1) : rows[j].key <= secret /\ (rows[j].live \/ rows[j] = NoConn) /\ (j > last => ~rows[j].live)
    BY <1>1, <2>1, Zenon
  <2> QED BY <1>9, <1>10, <1>11, <2>2, <2>3, ConnMoves
<1>13. req'[a] = q /\ \A b \in Admins : b # a => req'[b] = req[b]
  BY <1>1, <1>11
<1> QED BY <1>4, <1>6, <1>11, <1>12, <1>13

LEMMA ConnDelete ==
    ASSUME ConnTyped(MaxConn + 1, MaxSecret + 1), NEW a \in Admins, Conn!delete(a)
    PROVE  /\ ConnTyped(MaxConn + 1, MaxSecret + 1)' /\ secret' = secret /\ req'[a] = Conn!NoReq
           /\ \A b \in Admins : b # a => req'[b] = req[b]
           /\ \A i \in 1..(MaxConn + 1) :
               /\ conn'[i] = conn[i] \/ (conn'[i].key = 0 /\ ~conn'[i].live)
               /\ conn'[i].dflt => conn[i].dflt
<1> USE ConnNames
<1>1. /\ conn \in [1..(MaxConn + 1) -> ConnRows] /\ req \in [Admins -> Calls(MaxConn + 1)]
      /\ last \in 0..(MaxConn + 1) /\ secret \in 1..(MaxSecret + 1)
      /\ \A i \in 1..(MaxConn + 1) :
            /\ conn[i].key <= secret /\ (conn[i].live \/ conn[i] = NoConn)
            /\ i > last => ~conn[i].live
  BY DEF ConnTyped
<1>2. NoConn \in ConnRows /\ NoConn.key = 0 /\ NoConn.live = FALSE /\ NoConn.dflt = FALSE
  BY DEF NoConn, ConnRows
<1>3. req[a].id \in 1..(MaxConn + 1)
  BY DEF Conn!delete, ConnTyped
<1>4. PICK q : q = NoCall(MaxConn + 1)
  OBVIOUS
<1>5. q \in Calls(MaxConn + 1) /\ q.op = "none" /\ \A i \in 1..(MaxConn + 1) : q.copy[i].key = 0
  BY <1>4, NoCallTyped
<1>6. PICK rows : rows = [conn EXCEPT ![req[a].id] = NoConn]
  OBVIOUS
<1>7. conn' = rows /\ req' = [req EXCEPT ![a] = q] /\ last' = last /\ secret' = secret
  BY <1>4, <1>6 DEF Conn!delete
<1>8. rows \in [1..(MaxConn + 1) -> ConnRows] /\ \A i \in 1..(MaxConn + 1) : rows[i] = conn[i] \/ rows[i] = NoConn
  BY <1>1, <1>2, <1>3, <1>6
<1>9. ASSUME NEW i \in 1..(MaxConn + 1)
      PROVE  rows[i].key <= secret /\ (rows[i].live \/ rows[i] = NoConn) /\ (i > last => ~rows[i].live)
  <2>1. CASE rows[i] = conn[i]
    BY <1>1, <2>1, Zenon
  <2>2. CASE rows[i] = NoConn
    <3>1. 0 <= secret
      BY <1>1
    <3> QED BY <1>2, <2>2, <3>1
  <2> QED BY <1>8, <2>1, <2>2
<1>10. ConnTyped(MaxConn + 1, MaxSecret + 1)'
  <2>1. last \in last..(MaxConn + 1) /\ MaxSecret + 1 \in Nat /\ \A i \in 1..(MaxConn + 1) : q.copy[i].key <= secret
    BY <1>1, <1>5
  <2> QED BY <1>5, <1>7, <1>8, <1>9, <2>1, ConnMoves
<1>11. \A i \in 1..(MaxConn + 1) :
           /\ rows[i] = conn[i] \/ (rows[i].key = 0 /\ ~rows[i].live)
           /\ rows[i].dflt => conn[i].dflt
  BY <1>2, <1>8
<1>12. req'[a] = Conn!NoReq /\ \A b \in Admins : b # a => req'[b] = req[b]
  BY <1>1, <1>4, <1>7
<1> QED BY <1>7, <1>10, <1>11, <1>12

LEMMA ConnRotate ==
    ASSUME ConnTyped(MaxConn + 1, MaxSecret + 1), Conn!RotateSecret
    PROVE  /\ ConnTyped(MaxConn + 1, MaxSecret + 1)' /\ secret' # secret /\ UNCHANGED conn
           /\ \A a \in Admins : req'[a] = Conn!NoReq
<1> USE ConnNames
<1>1. PICK q : q = NoCall(MaxConn + 1)
  OBVIOUS
<1>2. q \in Calls(MaxConn + 1) /\ q.op = "none" /\ \A i \in 1..(MaxConn + 1) : q.copy[i].key = 0
  BY <1>1, NoCallTyped
<1>3. req' = [a \in Admins |-> q] /\ secret' = secret + 1 /\ secret < MaxSecret + 1 /\ UNCHANGED <<conn, last>>
  BY <1>1 DEF Conn!RotateSecret
<1>4. conn \in [1..(MaxConn + 1) -> ConnRows] /\ last \in 0..(MaxConn + 1) /\ secret \in 1..(MaxSecret + 1)
  BY DEF ConnTyped
<1>5. secret' \in 1..(MaxSecret + 1) /\ secret' # secret
  BY <1>3, <1>4
<1>6. ASSUME NEW i \in 1..(MaxConn + 1) PROVE conn[i].key <= secret'
  <2>1. conn[i].key \in Nat
    BY <1>4 DEF ConnRows
  <2>2. conn[i].key <= secret
    BY DEF ConnTyped
  <2> QED BY <1>3, <1>4, <2>1, <2>2
<1>7. \A a \in Admins : /\ req'[a] \in Calls(MaxConn + 1) /\ req'[a].op = "none"
                        /\ \A i \in 1..(MaxConn + 1) : req'[a].copy[i].key <= secret'
  BY <1>2, <1>3, <1>5
<1>8. req' \in [Admins -> Calls(MaxConn + 1)]
  BY <1>2, <1>3
<1>9. \A i \in 1..(MaxConn + 1) : (conn[i].live \/ conn[i] = NoConn) /\ (i > last => ~conn[i].live)
  BY Zenon DEF ConnTyped
<1>10. ConnTyped(MaxConn + 1, MaxSecret + 1)'
  BY <1>3, <1>4, <1>5, <1>6, <1>7, <1>8, <1>9 DEF ConnTyped
<1> QED BY <1>1, <1>3, <1>5, <1>10

\* Only the target becomes the default.
LEMMA ConnSetDefault ==
    ASSUME NEW rows \in [1..(MaxConn + 1) -> ConnRows], NEW k \in 1..(MaxConn + 1)
    PROVE  /\ Conn!set_default(rows, k) \in [1..(MaxConn + 1) -> ConnRows]
           /\ \A i \in 1..(MaxConn + 1) :
                 LET x == Conn!set_default(rows, k)[i] IN
                 x.live = rows[i].live /\ x.key = rows[i].key /\ x.dflt = (i = k)
<1> USE ConnNames
<1>1. ASSUME NEW i \in 1..(MaxConn + 1), NEW y, y = rows[i], NEW z, z = [y EXCEPT !.dflt = i = k]
      PROVE  z \in ConnRows /\ z.live = y.live /\ z.key = y.key /\ z.dflt = (i = k)
  <2>1. y \in ConnRows
    BY <1>1
  <2>2. CASE i = k
    BY <1>1, <2>1, <2>2 DEF ConnRows
  <2>3. CASE i # k
    <3>1. z = [y EXCEPT !.dflt = FALSE]
      BY <1>1, <2>3
    <3>2. z \in ConnRows /\ z.live = y.live /\ z.key = y.key /\ z.dflt = FALSE
      BY <2>1, <3>1 DEF ConnRows
    <3> QED BY <2>3, <3>2
  <2> QED BY <2>2, <2>3
<1>2. PICK f : f = Conn!set_default(rows, k)
  OBVIOUS
<1>3. f = [i \in 1..(MaxConn + 1) |-> [rows[i] EXCEPT !.dflt = i = k]]
  BY <1>2 DEF Conn!set_default
<1>4. \A i \in 1..(MaxConn + 1) : f[i] \in ConnRows /\ f[i].live = rows[i].live /\ f[i].key = rows[i].key /\ f[i].dflt = (i = k)
  BY <1>1, <1>3
<1>5. f \in [1..(MaxConn + 1) -> ConnRows]
  BY <1>3, <1>4
<1> QED BY <1>2, <1>4, <1>5

\* The commit of an update: the key it carries goes to its target, and the default
\* flag is taken from the target or given to it alone.
LEMMA ConnUpdate ==
    ASSUME ConnTyped(MaxConn + 1, MaxSecret + 1), NEW a \in Admins, Conn!update(a)
    PROVE  /\ ConnTyped(MaxConn + 1, MaxSecret + 1)' /\ secret' = secret /\ req'[a] = Conn!NoReq
           /\ \A b \in Admins : b # a => req'[b] = req[b]
           /\ \A i \in 1..(MaxConn + 1) :
                 conn'[i].key = conn[i].key \/ (i = req[a].id /\ req[a].key /\ conn'[i].key = secret)
           /\ req[a].dflt # "yes" => \A i \in 1..(MaxConn + 1) : conn'[i].dflt => conn[i].dflt
           /\ (\A i \in 1..(MaxConn + 1) : req[a].copy[i] = conn[i]) =>
                 \/ \A i \in 1..(MaxConn + 1) : conn'[i].dflt => conn[i].dflt
                 \/ \A i \in 1..(MaxConn + 1) : conn'[i].dflt => i = req[a].id
<1> USE ConnNames
<1>1. /\ conn \in [1..(MaxConn + 1) -> ConnRows] /\ req \in [Admins -> Calls(MaxConn + 1)] /\ secret \in 1..(MaxSecret + 1)
      /\ \A i \in 1..(MaxConn + 1) : conn[i].key <= secret
  BY DEF ConnTyped
<1>2. PICK q : q = req[a]
  OBVIOUS
<1>3. q \in Calls(MaxConn + 1) /\ q.id \in 1..(MaxConn + 1) /\ \A i \in 1..(MaxConn + 1) : q.copy[i].key <= secret
  BY <1>1, <1>2 DEF ConnTyped, Conn!update
<1>4. q.copy \in [1..(MaxConn + 1) -> ConnRows] /\ q.enabled \in BOOLEAN /\ q.key \in BOOLEAN
  BY <1>3 DEF Calls
<1>5. PICK c : c = q.copy[q.id]
  OBVIOUS
<1>6. PICK set : set = [c EXCEPT !.enabled = q.enabled, !.key = IF q.key THEN Conn!_encrypt_key(TRUE) ELSE @]
  OBVIOUS
<1>7. PICK copy : copy = IF set = c THEN q.copy ELSE [conn EXCEPT ![q.id] = c]
  OBVIOUS
<1>8. PICK rows : rows = [copy EXCEPT ![q.id] = set]
  OBVIOUS
<1>9. PICK new : new = IF q.dflt = "yes" THEN Conn!set_default(rows, q.id)
                       ELSE IF q.dflt = "no" THEN [rows EXCEPT ![q.id].dflt = FALSE] ELSE rows
  OBVIOUS
<1>10. Conn!Commits(a, copy, new)
  BY <1>2, <1>5, <1>6, <1>7, <1>8, <1>9 DEF Conn!update
<1>11. c \in ConnRows /\ c.key <= secret /\ Conn!_encrypt_key(TRUE) = secret /\ secret \in Nat
  BY <1>1, <1>3, <1>4, <1>5 DEF Conn!_encrypt_key
<1>12. /\ set \in ConnRows /\ set.live = c.live /\ set.dflt = c.dflt /\ set.key <= secret
       /\ set.key = c.key \/ (q.key /\ set.key = secret)
  <2>1. set \in ConnRows /\ set.live = c.live /\ set.dflt = c.dflt /\ set.key = IF q.key THEN secret ELSE c.key
    BY <1>4, <1>6, <1>11 DEF ConnRows
  <2> QED BY <1>11, <2>1
<1>13. /\ copy \in [1..(MaxConn + 1) -> ConnRows] /\ copy[q.id] = c
       /\ \A i \in 1..(MaxConn + 1) : copy[i].key <= secret
       /\ (\A i \in 1..(MaxConn + 1) : q.copy[i] = conn[i]) => \A i \in 1..(MaxConn + 1) : copy[i] = conn[i]
  <2>1. CASE set = c
    BY <1>3, <1>4, <1>5, <1>7, <2>1
  <2>2. CASE set # c
    <3>1. copy = [conn EXCEPT ![q.id] = c]
      BY <1>7, <2>2
    <3> QED BY <1>1, <1>3, <1>5, <1>11, <3>1
  <2> QED BY <2>1, <2>2
<1>14. /\ rows \in [1..(MaxConn + 1) -> ConnRows] /\ rows[q.id] = set
       /\ \A i \in 1..(MaxConn + 1) : i # q.id => rows[i] = copy[i]
  BY <1>3, <1>8, <1>12, <1>13
<1>15. \A i \in 1..(MaxConn + 1) :
          /\ rows[i].live = copy[i].live /\ rows[i].dflt = copy[i].dflt /\ rows[i].key <= secret
          /\ rows[i].key = copy[i].key \/ (i = q.id /\ q.key /\ rows[i].key = secret)
  <2>1. ASSUME NEW i \in 1..(MaxConn + 1), i = q.id
        PROVE  /\ rows[i].live = copy[i].live /\ rows[i].dflt = copy[i].dflt /\ rows[i].key <= secret
               /\ rows[i].key = copy[i].key \/ (i = q.id /\ q.key /\ rows[i].key = secret)
    BY <1>12, <1>13, <1>14, <2>1
  <2>2. ASSUME NEW i \in 1..(MaxConn + 1), i # q.id
        PROVE  rows[i] = copy[i] /\ rows[i].key <= secret
    BY <1>13, <1>14, <2>2
  <2> QED BY <2>1, <2>2
<1>16. /\ new \in [1..(MaxConn + 1) -> ConnRows]
       /\ \A i \in 1..(MaxConn + 1) : new[i].live = rows[i].live /\ new[i].key = rows[i].key
       /\ q.dflt = "yes" => \A i \in 1..(MaxConn + 1) : new[i].dflt = (i = q.id)
       /\ q.dflt # "yes" => \A i \in 1..(MaxConn + 1) : new[i].dflt = rows[i].dflt \/ new[i].dflt = FALSE
  <2>1. CASE q.dflt = "yes"
    <3>1. new = Conn!set_default(rows, q.id)
      BY <1>9, <2>1
    <3> QED BY <1>3, <1>14, <2>1, <3>1, ConnSetDefault
  <2>2. CASE q.dflt = "no"
    <3>1. PICK x : x = [rows[q.id] EXCEPT !.dflt = FALSE]
      OBVIOUS
    <3>2. rows[q.id] \in ConnRows
      BY <1>3, <1>14
    <3>3. x \in ConnRows /\ x.live = rows[q.id].live /\ x.key = rows[q.id].key /\ x.dflt = FALSE
      BY <3>1, <3>2 DEF ConnRows
    <3>4. new = [rows EXCEPT ![q.id] = x]
      BY <1>9, <2>2, <3>1
    <3>5. /\ new \in [1..(MaxConn + 1) -> ConnRows] /\ new[q.id] = x
          /\ \A i \in 1..(MaxConn + 1) : i # q.id => new[i] = rows[i]
      BY <1>3, <1>14, <3>3, <3>4
    <3> QED BY <2>2, <3>3, <3>5
  <2>3. CASE q.dflt # "yes" /\ q.dflt # "no"
    BY <1>9, <1>14, <2>3
  <2> QED BY <2>1, <2>2, <2>3
<1>17. \A i \in 1..(MaxConn + 1) : new[i].live = copy[i].live /\ new[i].key <= secret
  BY <1>15, <1>16
<1>18. /\ ConnTyped(MaxConn + 1, MaxSecret + 1)' /\ secret' = secret /\ req'[a] = Conn!NoReq
       /\ \/ conn' = conn
          \/ \A i \in 1..(MaxConn + 1) :
                /\ conn'[i].dflt = IF new[i].dflt # copy[i].dflt THEN new[i].dflt ELSE conn[i].dflt
                /\ conn'[i].key = IF new[i].key # copy[i].key THEN new[i].key ELSE conn[i].key
  BY <1>10, <1>13, <1>16, <1>17, ConnCommit
<1>19. \A b \in Admins : b # a => req'[b] = req[b]
  BY <1>1, <1>10 DEF Conn!Commits
<1>20. ASSUME NEW i \in 1..(MaxConn + 1)
       PROVE  conn'[i].key = conn[i].key \/ (i = q.id /\ q.key /\ conn'[i].key = secret)
  BY <1>15, <1>16, <1>18
<1>21. ASSUME q.dflt # "yes", NEW i \in 1..(MaxConn + 1), conn'[i].dflt PROVE conn[i].dflt
  <2>1. new[i].dflt = copy[i].dflt \/ new[i].dflt = FALSE
    BY <1>15, <1>16, <1>21
  <2> QED BY <1>18, <1>21, <2>1
<1>22. ASSUME \A i \in 1..(MaxConn + 1) : q.copy[i] = conn[i], q.dflt = "yes"
       PROVE  \/ conn' = conn
              \/ \A i \in 1..(MaxConn + 1) : conn'[i].dflt => i = q.id
  <2>1. \A i \in 1..(MaxConn + 1) : copy[i] = conn[i] /\ new[i].dflt = (i = q.id)
    BY <1>13, <1>16, <1>22
  <2>2. ASSUME NEW i \in 1..(MaxConn + 1), conn' # conn, conn'[i].dflt PROVE i = q.id
    <3>1. conn'[i].dflt = IF new[i].dflt # copy[i].dflt THEN new[i].dflt ELSE conn[i].dflt
      BY <1>18, <2>2
    <3>2. conn'[i].dflt = new[i].dflt
      BY <2>1, <3>1
    <3>3. new[i].dflt = (i = q.id)
      BY <2>1
    <3> QED BY <2>2, <3>2, <3>3, Zenon
  <2> QED BY <2>2
<1> QED BY <1>2, <1>18, <1>19, <1>20, <1>21, <1>22

LEMMA ConnDefault ==
    ASSUME ConnTyped(MaxConn + 1, MaxSecret + 1), NEW a \in Admins, Conn!set_default_llm_connection(a)
    PROVE  /\ ConnTyped(MaxConn + 1, MaxSecret + 1)' /\ secret' = secret /\ req'[a] = Conn!NoReq
           /\ \A b \in Admins : b # a => req'[b] = req[b]
           /\ \A i \in 1..(MaxConn + 1) : conn'[i].key = conn[i].key
           /\ (\A i \in 1..(MaxConn + 1) : req[a].copy[i] = conn[i]) =>
                 \/ \A i \in 1..(MaxConn + 1) : conn'[i].dflt => conn[i].dflt
                 \/ \A i \in 1..(MaxConn + 1) : conn'[i].dflt => i = req[a].id
<1> USE ConnNames
<1>1. req \in [Admins -> Calls(MaxConn + 1)] /\ secret \in 1..(MaxSecret + 1)
  BY DEF ConnTyped
<1>2. PICK q, copy : q = req[a] /\ copy = q.copy
  OBVIOUS
<1>3. q \in Calls(MaxConn + 1) /\ q.id \in 1..(MaxConn + 1) /\ \A i \in 1..(MaxConn + 1) : copy[i].key <= secret
  BY <1>1, <1>2 DEF ConnTyped, Conn!set_default_llm_connection
<1>4. copy \in [1..(MaxConn + 1) -> ConnRows]
  BY <1>2, <1>3 DEF Calls
<1>5. PICK new : new = Conn!set_default(copy, q.id)
  OBVIOUS
<1>6. /\ new \in [1..(MaxConn + 1) -> ConnRows]
      /\ \A i \in 1..(MaxConn + 1) : new[i].live = copy[i].live /\ new[i].key = copy[i].key /\ new[i].dflt = (i = q.id)
  BY <1>3, <1>4, <1>5, ConnSetDefault
<1>7. Conn!Commits(a, copy, new)
  BY <1>2, <1>5 DEF Conn!set_default_llm_connection
<1>8. \A i \in 1..(MaxConn + 1) : new[i].live = copy[i].live /\ new[i].key <= secret
  BY <1>3, <1>6
<1>9. /\ ConnTyped(MaxConn + 1, MaxSecret + 1)' /\ secret' = secret /\ req'[a] = Conn!NoReq
      /\ \/ conn' = conn
         \/ \A i \in 1..(MaxConn + 1) :
               /\ conn'[i].dflt = IF new[i].dflt # copy[i].dflt THEN new[i].dflt ELSE conn[i].dflt
               /\ conn'[i].key = IF new[i].key # copy[i].key THEN new[i].key ELSE conn[i].key
  BY <1>4, <1>6, <1>7, <1>8, ConnCommit
<1>10. \A b \in Admins : b # a => req'[b] = req[b]
  BY <1>1, <1>7 DEF Conn!Commits
<1>11. \A i \in 1..(MaxConn + 1) : conn'[i].key = conn[i].key
  BY <1>6, <1>9
<1>12. ASSUME \A i \in 1..(MaxConn + 1) : copy[i] = conn[i]
       PROVE  \/ conn' = conn
              \/ \A i \in 1..(MaxConn + 1) : conn'[i].dflt => i = q.id
  <2>1. ASSUME NEW i \in 1..(MaxConn + 1), conn' # conn, conn'[i].dflt PROVE i = q.id
    <3>1. conn'[i].dflt = IF new[i].dflt # copy[i].dflt THEN new[i].dflt ELSE conn[i].dflt
      BY <1>9, <2>1
    <3>2. conn'[i].dflt = new[i].dflt
      BY <1>12, <3>1
    <3>3. new[i].dflt = (i = q.id)
      BY <1>6
    <3> QED BY <2>1, <3>2, <3>3, Zenon
  <2> QED BY <2>1
<1> QED BY <1>2, <1>9, <1>10, <1>11, <1>12

LEMMA ConnTypes ==
    ASSUME ConnTyped(MaxConn + 1, MaxSecret + 1)
    PROVE  Conn!TypeOK
<1> USE ConnNames
<1>1. /\ conn \in [1..(MaxConn + 1) -> ConnRows] /\ last \in 0..(MaxConn + 1) /\ secret \in 1..(MaxSecret + 1)
      /\ \A i \in 1..(MaxConn + 1) : conn[i].key <= secret
  BY DEF ConnTyped
<1>2. ASSUME NEW i \in 1..(MaxConn + 1) PROVE conn[i].key \in 0..secret
  <2>1. conn[i].key \in Nat
    BY <1>1 DEF ConnRows
  <2> QED BY <1>1, <2>1
<1>3. \A i \in 1..(MaxConn + 1) : (conn[i].live \/ conn[i] = NoConn) /\ (i > last => ~conn[i].live)
  BY Zenon DEF ConnTyped
<1>4. Conn!get_active \in Conn!Live \cup {0}
  <2>1. PICK S : S = {i \in Conn!Live : conn[i].enabled}
    OBVIOUS
  <2>2. PICK T : T = IF \E i \in S : conn[i].dflt THEN {i \in S : conn[i].dflt} ELSE S
    OBVIOUS
  <2>3. T \subseteq Conn!Live /\ T \subseteq Nat
    BY <2>1, <2>2 DEF Conn!Live
  <2>4. Conn!get_active = IF T = {} THEN 0 ELSE CHOOSE i \in T : \A j \in T : i <= j
    BY <2>1, <2>2 DEF Conn!get_active
  <2>5. CASE T = {}
    BY <2>4, <2>5
  <2>6. CASE T # {}
    <3>1. \E i \in T : \A j \in T : i <= j
      BY <2>3, <2>6, LeastOne
    <3>2. (CHOOSE i \in T : \A j \in T : i <= j) \in T
      BY <3>1
    <3> QED BY <2>3, <2>4, <2>6, <3>2
  <2> QED BY <2>5, <2>6
<1> QED BY <1>1, <1>2, <1>3, <1>4 DEF Conn!TypeOK

LEMMA ConnStep ==
    ASSUME ConnTyped(MaxConn + 1, MaxSecret + 1), Conn!Next
    PROVE  ConnTyped(MaxConn + 1, MaxSecret + 1)'
BY ConnCreate, ConnBegin, ConnUpdate, ConnDelete, ConnDefault, ConnRotate DEF Conn!Next

-----------------------------------------------------------------------------
(* What the parts promise.                                                 *)

LEMMA EditorsKeys ==
    ASSUME ConnTyped(MaxConn, MaxSecret), Editors!Next
    PROVE  Editors!KeyKept
<1> USE EditorsNames
<1>1. SUFFICES ASSUME NEW i \in 1..MaxConn, conn[i].live, conn'[i].key # conn[i].key
               PROVE  \/ ~conn'[i].live
                      \/ \E a \in Admins : req[a].id = i /\ req[a].key /\ req'[a] = Editors!NoReq
  BY DEF Editors!KeyKept
<1>2. ASSUME NEW a \in Admins, Editors!create(a) PROVE FALSE
  BY <1>1, <1>2, EditorsCreate
<1>3. ASSUME NEW a \in Admins, Editors!_get_or_404(a) PROVE FALSE
  BY <1>1, <1>3, EditorsBegin
<1>4. ASSUME NEW a \in Admins, Editors!update(a)
      PROVE  req[a].id = i /\ req[a].key /\ req'[a] = Editors!NoReq
  BY <1>1, <1>4, EditorsUpdate
<1>5. ASSUME NEW a \in Admins, Editors!delete(a) PROVE ~conn'[i].live
  BY <1>1, <1>5, EditorsDelete
<1>6. ASSUME NEW a \in Admins, Editors!set_default_llm_connection(a) PROVE FALSE
  BY <1>1, <1>6, EditorsDefault
<1>7. ~Editors!RotateSecret
  BY <1>1 DEF Editors!RotateSecret
<1> QED BY <1>2, <1>3, <1>4, <1>5, <1>6, <1>7 DEF Editors!Next

LEMMA ConnKeys ==
    ASSUME ConnTyped(MaxConn + 1, MaxSecret + 1), Conn!Next
    PROVE  Conn!KeyReadable
<1> USE ConnNames
<1>1. SUFFICES ASSUME secret' = secret, NEW i \in 1..(MaxConn + 1), conn[i].key \in {0, secret}
               PROVE  conn'[i].key \in {0, secret}
  BY DEF Conn!KeyReadable, Conn!decrypt
<1>2. ASSUME NEW a \in Admins, Conn!create(a) PROVE conn'[i].key \in {0, secret}
  BY <1>1, <1>2, ConnCreate
<1>3. ASSUME NEW a \in Admins, Conn!_get_or_404(a) PROVE conn'[i].key \in {0, secret}
  BY <1>1, <1>3, ConnBegin
<1>4. ASSUME NEW a \in Admins, Conn!update(a) PROVE conn'[i].key \in {0, secret}
  BY <1>1, <1>4, ConnUpdate
<1>5. ASSUME NEW a \in Admins, Conn!delete(a) PROVE conn'[i].key \in {0, secret}
  BY <1>1, <1>5, ConnDelete
<1>6. ASSUME NEW a \in Admins, Conn!set_default_llm_connection(a) PROVE conn'[i].key \in {0, secret}
  BY <1>1, <1>6, ConnDefault
<1>7. ~Conn!RotateSecret
  BY <1>1, ConnRotate
<1> QED BY <1>2, <1>3, <1>4, <1>5, <1>6, <1>7 DEF Conn!Next

\* With one request at a time: one default at most, and who will make another one
\* the default has read all rows as they are.
ConnSerial ==
    /\ \A i, j \in 1..(MaxConn + 1) : conn[i].dflt /\ conn[j].dflt => i = j
    /\ \A a, b \in Admins : req[a].op # "none" /\ req[b].op # "none" => a = b
    /\ \A a \in Admins :
          req[a].op = "default" \/ (req[a].op = "update" /\ req[a].dflt = "yes") =>
              \A j \in 1..(MaxConn + 1) : req[a].copy[j] = conn[j]

\* The flag is kept unique by a step that gives it to one row at most.
LEMMA FlagMoves ==
    ASSUME ConnSerial,
           \/ \A i \in 1..(MaxConn + 1) : conn'[i].dflt => conn[i].dflt
           \/ \E k : \A i \in 1..(MaxConn + 1) : conn'[i].dflt => i = k
    PROVE  \A i, j \in 1..(MaxConn + 1) : conn'[i].dflt /\ conn'[j].dflt => i = j
BY Zenon DEF ConnSerial

LEMMA ConnFree ==
    ASSUME NEW a, Conn!Free(a), NEW b \in Admins
    PROVE  req[b].op = "none"
<1>1. req[b] = NoCall(MaxConn + 1)
  BY ConnNames DEF Conn!Free
<1> QED BY <1>1 DEF NoCall

LEMMA ConnSerialStep ==
    ASSUME ConnTyped(MaxConn + 1, MaxSecret + 1), ConnSerial, Conn!Next
    PROVE  ConnSerial'
<1> USE ConnNames
<1>1. \A q : q = Conn!NoReq => q.op = "none"
  BY DEF NoCall
<1>2. ASSUME NEW a \in Admins, Conn!create(a) PROVE ConnSerial'
  <2>1. \A b \in Admins : req[b].op = "none" /\ req'[b].op = "none"
    BY <1>2, ConnCreate, ConnFree DEF Conn!create
  <2>2. \/ \A i \in 1..(MaxConn + 1) : conn'[i].dflt => conn[i].dflt
        \/ \E k : \A i \in 1..(MaxConn + 1) : conn'[i].dflt => i = k
    BY <1>2, ConnCreate
  <2>3. \A i, j \in 1..(MaxConn + 1) : conn'[i].dflt /\ conn'[j].dflt => i = j
    BY <2>2, FlagMoves
  <2> QED BY <2>1, <2>3 DEF ConnSerial
<1>3. ASSUME NEW a \in Admins, Conn!_get_or_404(a) PROVE ConnSerial'
  <2>1. \A b \in Admins : req[b].op = "none"
    BY <1>3, ConnFree DEF Conn!_get_or_404
  <2>2. /\ UNCHANGED <<conn, last, secret>> /\ \A b \in Admins : b # a => req'[b] = req[b]
        /\ req'[a].op = "default" => \A j \in 1..(MaxConn + 1) : req'[a].copy[j] = conn[j]
        /\ req'[a].op = "update" /\ req'[a].dflt = "yes" => \A j \in 1..(MaxConn + 1) : req'[a].copy[j] = conn[j]
    BY <1>3, ConnBegin
  <2>3. \A b \in Admins : b # a => req'[b].op = "none"
    BY <2>1, <2>2
  <2>4. \A i, j \in 1..(MaxConn + 1) : conn'[i].dflt /\ conn'[j].dflt => i = j
    BY <2>2, FlagMoves
  <2> QED BY <2>2, <2>3, <2>4 DEF ConnSerial
<1>4. ASSUME NEW a \in Admins, req[a].op # "none", req'[a] = Conn!NoReq,
             \A b \in Admins : b # a => req'[b] = req[b],
             \/ \A i \in 1..(MaxConn + 1) : conn'[i].dflt => conn[i].dflt
             \/ \E k : \A i \in 1..(MaxConn + 1) : conn'[i].dflt => i = k
      PROVE  ConnSerial'
  <2>1. \A b \in Admins : req'[b].op = "none"
    BY <1>1, <1>4 DEF ConnSerial
  <2>2. \A i, j \in 1..(MaxConn + 1) : conn'[i].dflt /\ conn'[j].dflt => i = j
    BY <1>4, FlagMoves
  <2> QED BY <2>1, <2>2 DEF ConnSerial
<1>5. ASSUME NEW a \in Admins, Conn!update(a) PROVE ConnSerial'
  <2>1. req[a].op = "update"
    BY <1>5 DEF Conn!update
  <2>2. /\ req'[a] = Conn!NoReq /\ \A b \in Admins : b # a => req'[b] = req[b]
        /\ req[a].dflt # "yes" => \A i \in 1..(MaxConn + 1) : conn'[i].dflt => conn[i].dflt
        /\ (\A i \in 1..(MaxConn + 1) : req[a].copy[i] = conn[i]) =>
              \/ \A i \in 1..(MaxConn + 1) : conn'[i].dflt => conn[i].dflt
              \/ \A i \in 1..(MaxConn + 1) : conn'[i].dflt => i = req[a].id
    BY <1>5, ConnUpdate
  <2>3. req[a].dflt = "yes" => \A i \in 1..(MaxConn + 1) : req[a].copy[i] = conn[i]
    BY <2>1 DEF ConnSerial
  <2>4. \/ \A i \in 1..(MaxConn + 1) : conn'[i].dflt => conn[i].dflt
        \/ \E k : \A i \in 1..(MaxConn + 1) : conn'[i].dflt => i = k
    BY <2>2, <2>3
  <2>5. req[a].op # "none"
    BY <2>1
  <2> QED BY <1>4, <2>2, <2>4, <2>5
<1>6. ASSUME NEW a \in Admins, Conn!delete(a) PROVE ConnSerial'
  <2>1. req[a].op # "none"
    BY <1>6 DEF Conn!delete
  <2>2. /\ req'[a] = Conn!NoReq /\ \A b \in Admins : b # a => req'[b] = req[b]
        /\ \A i \in 1..(MaxConn + 1) : conn'[i].dflt => conn[i].dflt
    BY <1>6, ConnDelete
  <2> QED BY <1>4, <2>1, <2>2
<1>7. ASSUME NEW a \in Admins, Conn!set_default_llm_connection(a) PROVE ConnSerial'
  <2>1. req[a].op = "default"
    BY <1>7 DEF Conn!set_default_llm_connection
  <2>2. /\ req'[a] = Conn!NoReq /\ \A b \in Admins : b # a => req'[b] = req[b]
        /\ (\A i \in 1..(MaxConn + 1) : req[a].copy[i] = conn[i]) =>
              \/ \A i \in 1..(MaxConn + 1) : conn'[i].dflt => conn[i].dflt
              \/ \A i \in 1..(MaxConn + 1) : conn'[i].dflt => i = req[a].id
    BY <1>7, ConnDefault
  <2>3. \A i \in 1..(MaxConn + 1) : req[a].copy[i] = conn[i]
    BY <2>1 DEF ConnSerial
  <2>4. \/ \A i \in 1..(MaxConn + 1) : conn'[i].dflt => conn[i].dflt
        \/ \E k : \A i \in 1..(MaxConn + 1) : conn'[i].dflt => i = k
    BY <2>2, <2>3
  <2>5. req[a].op # "none"
    BY <2>1
  <2> QED BY <1>4, <2>2, <2>4, <2>5
<1>8. ASSUME Conn!RotateSecret PROVE ConnSerial'
  <2>1. conn' = conn /\ \A a \in Admins : req'[a].op = "none"
    BY <1>1, <1>8, ConnRotate
  <2>2. \A i, j \in 1..(MaxConn + 1) : conn'[i].dflt /\ conn'[j].dflt => i = j
    BY <2>1, FlagMoves
  <2> QED BY <2>1, <2>2 DEF ConnSerial
<1> QED BY <1>2, <1>3, <1>5, <1>6, <1>7, <1>8 DEF Conn!Next

LEMMA ConnOneDefault ==
    ASSUME ConnTyped(MaxConn + 1, MaxSecret + 1), ConnSerial
    PROVE  Conn!OneDefault
<1> USE ConnNames
<1>1. PICK S : S = {i \in Conn!Live : conn[i].dflt}
  OBVIOUS
<1>2. \A i, j \in S : i = j
  BY <1>1 DEF ConnSerial, Conn!Live
<1>3. IsFiniteSet(S) /\ Cardinality(S) \in {0, 1}
  <2>1. CASE S = {}
    BY <2>1, FS_EmptySet
  <2>2. CASE S # {}
    <3>1. PICK x \in S : TRUE
      BY <2>2
    <3>2. S = {x}
      BY <1>2, <3>1
    <3> QED BY <3>2, FS_Singleton
  <2> QED BY <2>1, <2>2
<1>4. Conn!Cardinality(S) = Cardinality(S)
  BY DEF Conn!Cardinality, Cardinality
<1> QED BY <1>1, <1>3, <1>4 DEF Conn!OneDefault

-----------------------------------------------------------------------------
(* The connections in the suite.                                           *)

LEMMA ConnSerialInit ==
    ASSUME Conn!Init
    PROVE  ConnSerial
<1>1. NoConn.dflt = FALSE /\ NoCall(MaxConn + 1).op = "none"
  BY DEF NoConn, NoCall
<1>2. \A i \in 1..(MaxConn + 1) : conn[i] = NoConn
  BY ConnNames DEF Conn!Init
<1>3. \A a \in Admins : req[a] = NoCall(MaxConn + 1)
  BY ConnNames DEF Conn!Init
<1>4. \A a \in Admins : req[a].op = "none"
  BY <1>1, <1>3
<1> QED BY <1>1, <1>2, <1>4 DEF ConnSerial

ConnInv ==
    /\ part = "editors" => ConnTyped(MaxConn, MaxSecret)
    /\ part = "connections" => ConnTyped(MaxConn + 1, MaxSecret + 1) /\ ConnSerial

LEMMA ConnInvInit ==
    ASSUME Init
    PROVE  ConnInv
<1>1. part = "editors" => Editors!Init
  BY DEF Init
<1>2. part = "connections" => Conn!Init
  BY DEF Init
<1> QED BY <1>1, <1>2, EditorsInit, ConnInit, ConnSerialInit DEF ConnInv

LEMMA ConnPartStep ==
    ASSUME Next
    PROVE  /\ part' = part
           /\ part = "editors" => Editors!Next
           /\ part = "connections" => Conn!Next
BY DEF Next, NotProviderConfig, NotLlmConnections, NotThinkFilter, NotAiChat

LEMMA ConnInvStep ==
    ASSUME ConnInv, [Next]_vars
    PROVE  ConnInv'
<1>1. CASE UNCHANGED vars
  <2>1. UNCHANGED <<part, conn, last, secret, req>>
    BY <1>1 DEF vars
  <2>2. ConnTyped(MaxConn, MaxSecret) => ConnTyped(MaxConn, MaxSecret)'
    BY <2>1 DEF ConnTyped
  <2>3. ConnTyped(MaxConn + 1, MaxSecret + 1) => ConnTyped(MaxConn + 1, MaxSecret + 1)'
    BY <2>1 DEF ConnTyped
  <2>4. ConnSerial => ConnSerial'
    BY <2>1 DEF ConnSerial
  <2> QED BY <2>1, <2>2, <2>3, <2>4 DEF ConnInv
<1>2. CASE Next
  <2>1. part' = "editors" => ConnTyped(MaxConn, MaxSecret)'
    BY <1>2, ConnPartStep, EditorsStep DEF ConnInv
  <2>2. part' = "connections" => ConnTyped(MaxConn + 1, MaxSecret + 1)' /\ ConnSerial'
    BY <1>2, ConnPartStep, ConnStep, ConnSerialStep DEF ConnInv
  <2> QED BY <2>1, <2>2 DEF ConnInv
<1> QED BY <1>1, <1>2

\* For any administrators, connections and secrets (update_connection, delete,
\* set_default, _encrypt_key): a stored key changes only by a request that carries
\* a key for it, or with its row, also when requests overlap; with one request at
\* a time there are never two defaults and only a rotation of the secret makes a
\* readable key unreadable.
THEOREM AiConnectionsKept == Spec => ConnectionsKept
<1>1. Init => ConnInv
  BY ConnInvInit
<1>2. ConnInv /\ [Next]_vars => ConnInv'
  BY ConnInvStep
<1>3. ConnInv => (part = "editors" => Editors!TypeOK)
  BY EditorsTypes DEF ConnInv
<1>4. ConnInv => (part = "connections" => Conn!TypeOK /\ Conn!OneDefault)
  BY ConnTypes, ConnOneDefault DEF ConnInv
<1>5. ConnInv /\ [Next]_vars => [part = "editors" => Editors!KeyKept]_vars
  BY ConnPartStep, EditorsKeys DEF ConnInv
<1>6. ConnInv /\ [Next]_vars => [part = "connections" => Conn!KeyReadable]_vars
  BY ConnPartStep, ConnKeys DEF ConnInv
<1> QED BY <1>1, <1>2, <1>3, <1>4, <1>5, <1>6, PTL DEF Spec, ConnectionsKept

-----------------------------------------------------------------------------
(* The provider.                                                           *)

Kinds == {"ollama", "compatible"}
ProvRows ==
    [sel : Kinds, state : {"absent", "unverified", "verified"}, url : Urls \cup {"none"}, ref : Nat,
     bv : Nat, proof : Urls \cup {"none"}, ver : Nat]
NoProv ==
    [sel |-> "ollama", state |-> "absent", url |-> "none", ref |-> 0, bv |-> 0, proof |-> "none", ver |-> 1]
Errands ==
    [op : {"none", "write", "test", "select", "activate", "delete", "reconcile"},
     pc : {"idle", "store", "probe", "commit", "drop", "end"}, copy : ProvRows,
     url : Urls \cup {"none"} \cup Kinds, ref : Nat]
NoErrand == [op |-> "none", pc |-> "idle", copy |-> NoProv, url |-> "none", ref |-> 0]
Talks == [pc : {"idle", "envelope", "load", "sent"}, url : Urls \cup {"none"}, ref : Nat, bv : Nat]

\* The constraints of the table.
Fits(r) ==
    /\ (r.state = "absent") = (r.url = "none") /\ (r.url = "none") = (r.ref = 0)
    /\ (r.ref = 0) = (r.bv = 0)
    /\ (r.state = "verified") = (r.proof # "none")

\* A new key waits to be named by the row.
Writes(q) == q.pc = "commit" /\ q.op = "write"

\* What is so of a request: the key it has stored is there and the row has never
\* named it; the key it is about to remove is not the row's.
ErrandSound(q, v) ==
    /\ q.copy.ref <= refs /\ Fits(q.copy) /\ (q.pc # "idle" => q.copy.ver < v)
    /\ q.pc = "store" => q.op = "write" /\ q.url \in Urls
    /\ q.pc = "probe" => q.op = "test"
    /\ q.pc = "commit" => q.op \in {"write", "test", "select", "delete", "reconcile"}
    /\ q.pc = "commit" /\ q.op = "select" => q.url \in Kinds
    /\ Writes(q) => /\ q.url \in Urls /\ q.ref \in 1..refs /\ q.ref # row.ref
                    /\ <<q.ref, q.copy.bv + 1>> \in blobs \/ q.ref \in drifted
    /\ q.pc = "drop" => q.copy.ref # 0 /\ q.copy.ref # row.ref

\* A new key is its request's alone.
Fresh ==
    \A a, b \in Admins : Writes(req[a]) =>
        req[b].copy.ref # req[a].ref /\ (b # a /\ Writes(req[b]) => req[b].ref # req[a].ref)

\* For v versions at most.
ProvTyped(v) ==
    /\ row \in ProvRows /\ Fits(row) /\ row.ref <= refs /\ row.ver \in 1..v + 1
    /\ refs \in 0..MaxRefs /\ blobs \subseteq (1..refs) \X Nat
    /\ req \in [Admins -> Errands] /\ seen \in [Admins -> ProvRows] /\ chat \in Talks
    /\ \A a \in Admins : ErrandSound(req[a], v)
    /\ Fresh
    /\ row.ref # 0 /\ row.ref \notin drifted => <<row.ref, row.bv>> \in blobs

LEMMA NoProvTyped ==
    /\ NoProv \in ProvRows /\ Fits(NoProv) /\ NoProv.ref = 0 /\ NoProv.ver = 1
    /\ NoErrand \in Errands /\ NoErrand.pc = "idle" /\ NoErrand.copy = NoProv
<1>1. NoProv \in ProvRows /\ NoProv.ref = 0 /\ NoProv.ver = 1
  BY DEF NoProv, ProvRows, Kinds
<1>2. Fits(NoProv)
  BY DEF Fits, NoProv
<1>3. NoErrand \in Errands /\ NoErrand.pc = "idle" /\ NoErrand.copy = NoProv
  BY <1>1 DEF NoErrand, Errands
<1> QED BY <1>1, <1>2, <1>3

LEMMA NoErrandSound ==
    ASSUME NEW v, refs \in Nat
    PROVE  ErrandSound(NoErrand, v) /\ ~Writes(NoErrand)
BY NoProvTyped DEF ErrandSound, Writes

\* A request that goes on without touching row and keys.
LEMMA ErrandMoves ==
    ASSUME NEW v \in Nat, ProvTyped(v), NEW a \in Admins, NEW q \in Errands, ErrandSound(q, v), ~Writes(q),
           q.copy.ref \in {req[a].copy.ref, row.ref, 0}, req' = [req EXCEPT ![a] = q],
           UNCHANGED <<row, blobs, refs, drifted, seen, chat>>
    PROVE  ProvTyped(v)'
<1>1. req \in [Admins -> Errands] /\ refs \in Nat
  BY DEF ProvTyped
<1>2. req' \in [Admins -> Errands] /\ req'[a] = q /\ \A b \in Admins : b # a => req'[b] = req[b]
  BY <1>1
<1>3. \A b \in Admins : ErrandSound(req'[b], v)
  BY <1>2 DEF ProvTyped
<1>4. \A x : ErrandSound(x, v) => ErrandSound(x, v)'
  BY DEF ErrandSound, Writes
<1>5. \A b \in Admins : ErrandSound(req[b], v)'
  BY <1>3, <1>4
<1>6. Fresh'
  <2>1. ASSUME NEW b \in Admins, Writes(req[b]), b # a
        PROVE  q.copy.ref # req[b].ref
    <3>1. req[b].ref # row.ref /\ req[b].ref # 0 /\ req[a].copy.ref # req[b].ref
      <4>1. ErrandSound(req[b], v)
        BY DEF ProvTyped
      <4>2. req[b].ref # row.ref /\ req[b].ref \in 1..refs
        BY <2>1, <4>1 DEF ErrandSound
      <4>3. req[a].copy.ref # req[b].ref
        BY <2>1 DEF ProvTyped, Fresh
      <4> QED BY <1>1, <4>2, <4>3
    <3> QED BY <3>1
  <2>2. ASSUME NEW b \in Admins, NEW c \in Admins, Writes(req'[b])
        PROVE  req'[c].copy.ref # req'[b].ref /\ (c # b /\ Writes(req'[c]) => req'[c].ref # req'[b].ref)
    <3>1. b # a /\ req'[b] = req[b]
      BY <1>2, <2>2
    <3>2. CASE c = a
      BY <1>2, <2>1, <2>2, <3>1, <3>2
    <3>3. CASE c # a
      BY <1>2, <2>2, <3>1, <3>3 DEF ProvTyped, Fresh
    <3> QED BY <3>2, <3>3
  <2> QED BY <2>2 DEF Fresh, Writes
<1> QED BY <1>2, <1>5, <1>6 DEF ProvTyped

\* What a request has changed, over the row as it is.
Merged(old, c, w) ==
    [sel |-> IF w.sel # c.sel THEN w.sel ELSE old.sel,
     state |-> IF w.state # c.state THEN w.state ELSE old.state,
     url |-> IF w.url # c.url THEN w.url ELSE old.url,
     ref |-> IF w.ref # c.ref THEN w.ref ELSE old.ref,
     bv |-> IF w.bv # c.bv THEN w.bv ELSE old.bv,
     proof |-> IF w.proof # c.proof THEN w.proof ELSE old.proof,
     ver |-> IF w.ver # c.ver THEN w.ver ELSE old.ver]

LEMMA MergedTyped ==
    ASSUME NEW old \in ProvRows, NEW c \in ProvRows, NEW w \in ProvRows, NEW x, x = Merged(old, c, w)
    PROVE  /\ x \in ProvRows
           /\ x.ref = IF w.ref # c.ref THEN w.ref ELSE old.ref
           /\ x.bv = IF w.bv # c.bv THEN w.bv ELSE old.bv
           /\ x.ver = IF w.ver # c.ver THEN w.ver ELSE old.ver
<1>1. /\ x.sel \in Kinds /\ x.state \in {"absent", "unverified", "verified"} /\ x.url \in Urls \cup {"none"}
      /\ x.ref \in Nat /\ x.bv \in Nat /\ x.proof \in Urls \cup {"none"} /\ x.ver \in Nat
  BY DEF Merged, ProvRows
<1>2. x = [sel |-> x.sel, state |-> x.state, url |-> x.url, ref |-> x.ref, bv |-> x.bv, proof |-> x.proof,
           ver |-> x.ver]
  BY DEF Merged
<1>3. x \in ProvRows
  BY <1>1, <1>2 DEF ProvRows
<1> QED BY <1>3 DEF Merged

-----------------------------------------------------------------------------
(* The part rivals.                                                           *)

LEMMA RivalsNames ==
    /\ Rivals!Absent = NoProv /\ Rivals!NoReq = NoErrand /\ Rivals!None = "none"
    /\ MaxVer \in Nat /\ MaxRefs \in Nat /\ "none" \notin Urls
    /\ \A r : Rivals!Coherent(r) <=> Fits(r)
<1>1. Rivals!Absent = NoProv /\ Rivals!None = "none"
  BY DEF Rivals!Absent, NoProv, Rivals!None
<1>2. Rivals!NoReq = NoErrand
  BY <1>1 DEF Rivals!NoReq, NoErrand
<1>3. MaxVer \in Nat /\ MaxRefs \in Nat /\ "none" \notin Urls
  BY AiAssumption DEF Rivals!ProviderAssumption
<1>4. \A r : Rivals!Coherent(r) <=> Fits(r)
  BY DEF Rivals!Coherent, Fits, Rivals!None
<1> QED BY <1>1, <1>2, <1>3, <1>4

LEMMA RivalsInit ==
    ASSUME Rivals!Init
    PROVE  ProvTyped(MaxVer)
<1> USE RivalsNames, NoProvTyped
<1>1. row = NoProv /\ refs = 0 /\ blobs = {} /\ req = [a \in Admins |-> NoErrand] /\ seen = [a \in Admins |-> NoProv]
  BY DEF Rivals!Init
<1>2. ErrandSound(NoErrand, MaxVer) /\ ~Writes(NoErrand)
  BY <1>1, NoErrandSound
<1>3. chat \in Talks
  BY DEF Rivals!Init, Rivals!NoChat, Talks, Rivals!None
<1>4. \A a \in Admins : ErrandSound(req[a], MaxVer) /\ ~Writes(req[a])
  BY <1>1, <1>2
<1>5. Fresh
  BY <1>4 DEF Fresh
<1>6. /\ row \in ProvRows /\ Fits(row) /\ row.ref <= refs /\ row.ver \in 1..MaxVer + 1
      /\ refs \in 0..MaxRefs /\ blobs \subseteq (1..refs) \X Nat
      /\ req \in [Admins -> Errands] /\ seen \in [Admins -> ProvRows] /\ row.ref = 0
  BY <1>1
<1> QED BY <1>3, <1>4, <1>5, <1>6 DEF ProvTyped

\* A request begins with the row as it is.
LEMMA RivalsBegins ==
    ASSUME ProvTyped(MaxVer), NEW a \in Admins, NEW op, NEW pc, NEW u, NEW k, Rivals!Begins(a, op, pc, u, k),
           op \in {"write", "test", "select", "activate", "delete", "reconcile"}, k \in Nat,
           pc \in {"store", "probe", "commit", "end"}, u \in Urls \cup {"none"} \cup Kinds,
           pc = "store" => op = "write" /\ u \in Urls, pc = "probe" => op = "test",
           pc = "commit" => op \in {"select", "delete", "reconcile"} /\ (op = "select" => u \in Kinds)
    PROVE  /\ ProvTyped(MaxVer)' /\ UNCHANGED <<row, blobs, refs, seen, chat, proven, drifted>>
           /\ req'[a] = [op |-> op, pc |-> pc, copy |-> row, url |-> u, ref |-> k]
           /\ \A b \in Admins : b # a => req'[b] = req[b]
<1> USE RivalsNames
<1>1. /\ row \in ProvRows /\ Fits(row) /\ row.ref <= refs /\ row.ver < MaxVer /\ refs \in Nat
      /\ req \in [Admins -> Errands]
  BY DEF ProvTyped, Rivals!Begins
<1>2. PICK q : q = [op |-> op, pc |-> pc, copy |-> row, url |-> u, ref |-> k]
  OBVIOUS
<1>3. q \in Errands /\ q.copy = row /\ q.op = op /\ q.pc = pc /\ q.url = u
  BY <1>1, <1>2 DEF Errands
<1>4. ErrandSound(q, MaxVer) /\ ~Writes(q)
  BY <1>1, <1>3 DEF ErrandSound, Writes
<1>5. req' = [req EXCEPT ![a] = q] /\ UNCHANGED <<row, blobs, refs, seen, chat, proven, drifted>>
  BY <1>2 DEF Rivals!Begins
<1>6. ProvTyped(MaxVer)'
  BY <1>3, <1>4, <1>5, ErrandMoves
<1> QED BY <1>1, <1>2, <1>5, <1>6

\* A request ends, or goes on after its commit.
LEMMA RivalsEnds ==
    ASSUME ProvTyped(MaxVer), NEW a \in Admins, UNCHANGED <<row, blobs, refs, seen, chat, drifted>>,
           \/ req' = [req EXCEPT ![a] = NoErrand]
           \/ req[a].pc = "drop" /\ req' = [req EXCEPT ![a].pc = "end"]
           \/ req[a].pc = "probe" /\ req' = [req EXCEPT ![a].pc = "commit"]
    PROVE  ProvTyped(MaxVer)'
<1> USE RivalsNames
<1>1. req \in [Admins -> Errands] /\ refs \in Nat /\ ErrandSound(req[a], MaxVer)
  BY DEF ProvTyped
<1>2. CASE req' = [req EXCEPT ![a] = NoErrand]
  BY <1>1, <1>2, NoErrandSound, NoProvTyped, ErrandMoves
<1>3. CASE req[a].pc = "drop" /\ req' = [req EXCEPT ![a].pc = "end"]
  <2>1. PICK q : q = [req[a] EXCEPT !.pc = "end"]
    OBVIOUS
  <2>2. /\ q \in Errands /\ q.pc = "end" /\ q.op = req[a].op /\ q.copy = req[a].copy /\ q.ref = req[a].ref
        /\ q.url = req[a].url
    BY <1>1, <2>1 DEF Errands
  <2>3. ErrandSound(q, MaxVer) /\ ~Writes(q)
    BY <1>1, <1>3, <2>2 DEF ErrandSound, Writes
  <2>4. req' = [req EXCEPT ![a] = q]
    BY <1>1, <1>3, <2>1
  <2> QED BY <2>2, <2>3, <2>4, ErrandMoves
<1>4. CASE req[a].pc = "probe" /\ req' = [req EXCEPT ![a].pc = "commit"]
  <2>1. PICK q : q = [req[a] EXCEPT !.pc = "commit"]
    OBVIOUS
  <2>2. /\ q \in Errands /\ q.pc = "commit" /\ q.op = req[a].op /\ q.copy = req[a].copy /\ q.ref = req[a].ref
        /\ q.url = req[a].url
    BY <1>1, <2>1 DEF Errands
  <2>3. ErrandSound(q, MaxVer) /\ ~Writes(q)
    BY <1>1, <1>4, <2>2 DEF ErrandSound, Writes
  <2>4. req' = [req EXCEPT ![a] = q]
    BY <1>1, <1>4, <2>1
  <2> QED BY <2>2, <2>3, <2>4, ErrandMoves
<1> QED BY <1>2, <1>3, <1>4

LEMMA RivalsStore ==
    ASSUME ProvTyped(MaxVer), NEW a \in Admins, Rivals!store_credential(a)
    PROVE  ProvTyped(MaxVer)'
<1> USE RivalsNames
<1>1. /\ req \in [Admins -> Errands] /\ refs \in 0..MaxRefs /\ blobs \subseteq (1..refs) \X Nat
      /\ row \in ProvRows /\ row.ref <= refs /\ row.ver \in 1..MaxVer + 1
      /\ \A b \in Admins : ErrandSound(req[b], MaxVer)
  BY DEF ProvTyped
<1>2. PICK k, old, q : k = refs + 1 /\ old = req[a] /\ q = [old EXCEPT !.pc = "commit", !.ref = k]
  OBVIOUS
<1>3. /\ old \in Errands /\ old.pc = "store" /\ ErrandSound(old, MaxVer) /\ k \in Nat
  BY <1>1, <1>2 DEF Rivals!store_credential
<1>4. /\ q \in Errands /\ q.pc = "commit" /\ q.ref = k /\ q.op = old.op /\ q.copy = old.copy /\ q.url = old.url
  BY <1>2, <1>3 DEF Errands
<1>5. /\ refs' = k /\ blobs' = blobs \cup {<<k, old.copy.bv + 1>>} /\ req' = [req EXCEPT ![a] = q]
      /\ UNCHANGED <<row, seen, chat, proven, drifted>>
  BY <1>1, <1>2 DEF Rivals!store_credential
<1>6. refs' \in 0..MaxRefs /\ refs < k /\ row.ref <= refs' /\ row.ref # k
  <2>1. refs < MaxRefs
    BY DEF Rivals!store_credential
  <2>2. row.ref \in Nat
    BY <1>1 DEF ProvRows
  <2> QED BY <1>1, <1>2, <1>5, <2>1, <2>2
<1>7. old.copy \in ProvRows /\ old.copy.bv \in Nat
  BY <1>3 DEF Errands, ProvRows
<1>8. blobs' \subseteq (1..refs') \X Nat
  <2>1. blobs \subseteq (1..k) \X Nat
    BY <1>1, <1>2
  <2>2. <<k, old.copy.bv + 1>> \in (1..k) \X Nat
    BY <1>1, <1>2, <1>7
  <2> QED BY <1>5, <2>1, <2>2
<1>9. /\ req' \in [Admins -> Errands] /\ req'[a] = q /\ \A b \in Admins : b # a => req'[b] = req[b]
  BY <1>1, <1>4, <1>5
<1>10. ASSUME NEW b \in Admins PROVE req[b].copy.ref # k /\ (Writes(req[b]) => req[b].ref # k) /\ req[b].copy.ref <= k
  <2>1. req[b] \in Errands /\ ErrandSound(req[b], MaxVer)
    BY <1>1
  <2>2. req[b].copy.ref \in Nat /\ req[b].ref \in Nat
    BY <2>1 DEF Errands, ProvRows
  <2>3. req[b].copy.ref <= refs /\ (Writes(req[b]) => req[b].ref <= refs)
    BY <1>1, <2>1 DEF ErrandSound
  <2> QED BY <1>1, <1>2, <2>2, <2>3
<1>11. ASSUME NEW b \in Admins PROVE ErrandSound(req[b], MaxVer)'
  <2>1. CASE b = a
    <3>1. q.url \in Urls /\ q.op = "write" /\ Fits(q.copy) /\ q.copy.ver < MaxVer
      BY <1>3, <1>4 DEF ErrandSound
    <3>2. q.ref \in 1..refs' /\ q.ref # row'.ref /\ <<q.ref, q.copy.bv + 1>> \in blobs' /\ q.copy.ref <= refs'
      BY <1>1, <1>2, <1>4, <1>5, <1>6, <1>10
    <3> QED BY <1>4, <1>9, <2>1, <3>1, <3>2 DEF ErrandSound, Writes
  <2>2. CASE b # a
    <3>1. req'[b] = req[b] /\ ErrandSound(req[b], MaxVer) /\ req[b] \in Errands
      BY <1>1, <1>9, <2>2
    <3>2. req[b].copy.ref <= refs' /\ (req[b].ref \in 1..refs => req[b].ref \in 1..refs')
      BY <1>1, <1>5, <1>6, <1>10
    <3> QED BY <1>5, <3>1, <3>2 DEF ErrandSound, Writes
  <2> QED BY <2>1, <2>2
<1>12. Fresh'
  <2>1. ASSUME NEW b \in Admins, NEW c \in Admins, Writes(req'[b])
        PROVE  req'[c].copy.ref # req'[b].ref /\ (c # b /\ Writes(req'[c]) => req'[c].ref # req'[b].ref)
    <3>1. req'[c].copy = req[c].copy
      BY <1>2, <1>4, <1>9
    <3>2. CASE b = a
      BY <1>4, <1>9, <1>10, <3>1, <3>2
    <3>3. CASE b # a /\ c = a
      <4>1. req'[b] = req[b] /\ Writes(req[b])
        BY <1>9, <2>1, <3>3
      <4>2. req[b].ref # k /\ req[a].copy.ref # req[b].ref
        BY <1>10, <4>1 DEF ProvTyped, Fresh
      <4> QED BY <1>4, <1>9, <3>1, <3>3, <4>1, <4>2
    <3>4. CASE b # a /\ c # a
      BY <1>9, <2>1, <3>4 DEF ProvTyped, Fresh
    <3> QED BY <3>2, <3>3, <3>4
  <2> QED BY <2>1 DEF Fresh, Writes
<1>13. row.ref # 0 /\ row.ref \notin drifted => <<row.ref, row.bv>> \in blobs'
  BY <1>5 DEF ProvTyped
<1> QED BY <1>1, <1>5, <1>6, <1>8, <1>9, <1>11, <1>12, <1>13 DEF ProvTyped

\* The file of the replaced key goes.
LEMMA RivalsDrop ==
    ASSUME ProvTyped(MaxVer), NEW a \in Admins, Rivals!delete_credential(a)
    PROVE  ProvTyped(MaxVer)'
<1> USE RivalsNames
<1>1. /\ req \in [Admins -> Errands] /\ refs \in 0..MaxRefs /\ blobs \subseteq (1..refs) \X Nat
      /\ \A b \in Admins : ErrandSound(req[b], MaxVer)
  BY DEF ProvTyped
<1>2. PICK old, q : old = req[a] /\ q = [old EXCEPT !.pc = "end"]
  OBVIOUS
<1>3. old \in Errands /\ old.pc = "drop" /\ ErrandSound(old, MaxVer)
  BY <1>1, <1>2 DEF Rivals!delete_credential
<1>4. q \in Errands /\ q.pc = "end" /\ q.op = old.op /\ q.copy = old.copy
  BY <1>2, <1>3 DEF Errands
<1>5. /\ blobs' = {b \in blobs : b[1] # old.copy.ref} /\ req' = [req EXCEPT ![a] = q]
      /\ UNCHANGED <<row, refs, seen, chat, proven, drifted>>
  BY <1>1, <1>2 DEF Rivals!delete_credential
<1>6. /\ req' \in [Admins -> Errands] /\ req'[a] = q /\ \A b \in Admins : b # a => req'[b] = req[b]
  BY <1>1, <1>4, <1>5
<1>7. \A k, w : <<k, w>> \in blobs /\ k # old.copy.ref => <<k, w>> \in blobs'
  BY <1>5
<1>8. ASSUME NEW b \in Admins PROVE ErrandSound(req[b], MaxVer)'
  <2>1. CASE b = a
    BY <1>3, <1>4, <1>5, <1>6, <2>1 DEF ErrandSound, Writes
  <2>2. CASE b # a
    <3>1. req'[b] = req[b] /\ ErrandSound(req[b], MaxVer)
      BY <1>1, <1>6, <2>2
    <3>2. Writes(req[b]) => req[b].ref # old.copy.ref
      BY <1>2 DEF ProvTyped, Fresh
    <3> QED BY <1>5, <1>7, <3>1, <3>2 DEF ErrandSound, Writes
  <2> QED BY <2>1, <2>2
<1>9. Fresh'
  <2>1. ASSUME NEW b \in Admins, NEW c \in Admins, Writes(req'[b])
        PROVE  req'[c].copy.ref # req'[b].ref /\ (c # b /\ Writes(req'[c]) => req'[c].ref # req'[b].ref)
    <3>1. req'[c].copy = req[c].copy /\ b # a /\ req'[b] = req[b]
      BY <1>2, <1>4, <1>6, <2>1 DEF Writes
    <3>2. Writes(req'[c]) => req'[c] = req[c]
      BY <1>4, <1>6 DEF Writes
    <3> QED BY <2>1, <3>1, <3>2 DEF ProvTyped, Fresh
  <2> QED BY <2>1 DEF Fresh, Writes
<1>10. row.ref # 0 /\ row.ref \notin drifted => <<row.ref, row.bv>> \in blobs'
  <2>1. row.ref # old.copy.ref
    BY <1>3 DEF ErrandSound
  <2> QED BY <1>7, <2>1 DEF ProvTyped
<1>11. blobs' \subseteq (1..refs') \X Nat
  BY <1>1, <1>5
<1> QED BY <1>5, <1>6, <1>8, <1>9, <1>10, <1>11 DEF ProvTyped

\* A file is lost or replaced by hand.
LEMMA RivalsDrift ==
    ASSUME ProvTyped(MaxVer), Rivals!Drift
    PROVE  ProvTyped(MaxVer)'
<1> USE RivalsNames
<1>1. PICK b \in blobs : /\ blobs' \in {blobs \ {b}, (blobs \ {b}) \cup {<<b[1], 0>>}}
                         /\ drifted' = drifted \cup {b[1]}
  BY DEF Rivals!Drift
<1>2. UNCHANGED <<row, refs, req, seen, chat, proven>>
  BY DEF Rivals!Drift
<1>3. blobs \subseteq (1..refs) \X Nat
  BY DEF ProvTyped
<1>4. <<b[1], 0>> \in (1..refs) \X Nat
  BY <1>3
<1>5. blobs' \subseteq (1..refs) \X Nat
  BY <1>1, <1>3, <1>4
<1>6. ASSUME NEW k, NEW w, <<k, w>> \in blobs \/ k \in drifted PROVE <<k, w>> \in blobs' \/ k \in drifted'
  <2>1. CASE <<k, w>> = b
    BY <1>1, <2>1
  <2>2. CASE <<k, w>> # b
    BY <1>1, <1>6, <2>2
  <2> QED BY <2>1, <2>2
<1>7. ASSUME NEW a \in Admins PROVE ErrandSound(req[a], MaxVer)'
  <2>1. ErrandSound(req[a], MaxVer)
    BY DEF ProvTyped
  <2> QED BY <1>2, <1>6, <2>1 DEF ErrandSound, Writes
<1>8. Fresh'
  BY <1>2 DEF ProvTyped, Fresh, Writes
<1>9. row.ref # 0 /\ row.ref \notin drifted' => <<row.ref, row.bv>> \in blobs'
  <2>1. row.ref # 0 => <<row.ref, row.bv>> \in blobs \/ row.ref \in drifted
    BY DEF ProvTyped
  <2> QED BY <1>6, <2>1
<1> QED BY <1>2, <1>5, <1>7, <1>8, <1>9 DEF ProvTyped

\* The process dies; the chat goes on; an administrator looks at the configuration.
LEMMA RivalsOthers ==
    ASSUME ProvTyped(MaxVer), UNCHANGED <<row, blobs, refs, drifted>>,
           req' = req \/ req' = [a \in Admins |-> NoErrand], chat' \in Talks, seen' \in [Admins -> ProvRows]
    PROVE  ProvTyped(MaxVer)'
<1> USE RivalsNames
<1>1. \A q : ErrandSound(q, MaxVer) => ErrandSound(q, MaxVer)'
  BY DEF ErrandSound, Writes
<1>2. refs \in Nat
  BY DEF ProvTyped
<1>3. CASE req' = req
  <2>1. \A a \in Admins : ErrandSound(req[a], MaxVer)'
    BY <1>1, <1>3 DEF ProvTyped
  <2>2. Fresh'
    BY <1>3 DEF ProvTyped, Fresh, Writes
  <2> QED BY <1>3, <2>1, <2>2 DEF ProvTyped
<1>4. CASE req' = [a \in Admins |-> NoErrand]
  <2>1. \A a \in Admins : req'[a] = NoErrand
    BY <1>4
  <2>2. \A a \in Admins : ErrandSound(req[a], MaxVer)'
    BY <1>1, <1>2, <2>1, NoErrandSound
  <2>3. Fresh'
    BY <1>2, <2>1, NoErrandSound DEF Fresh, Writes
  <2>4. req' \in [Admins -> Errands]
    BY <1>4, NoProvTyped
  <2> QED BY <2>2, <2>3, <2>4 DEF ProvTyped
<1> QED BY <1>3, <1>4

\* The row an operation leaves of its copy.
LEMMA RivalsNewRow ==
    ASSUME NEW q \in Errands, q.pc = "commit", ErrandSound(q, MaxVer), NEW w, w = Rivals!NewRow(q)
    PROVE  /\ w \in ProvRows /\ w.ver = q.copy.ver + 1
           /\ q.op = "write" => w.ref = q.ref /\ w.bv = q.copy.bv + 1 /\ w.state = "unverified"
           /\ q.op = "delete" => w.ref = 0 /\ w.bv = 0 /\ w.state = "absent"
           /\ q.op \notin {"write", "delete"} => w.ref = q.copy.ref /\ w.bv = q.copy.bv /\ w.url = q.copy.url
           /\ q.op = "select" => w.state = q.copy.state /\ w.proof = q.copy.proof
           /\ q.op = "reconcile" => w.state # "verified"
<1> USE RivalsNames
<1>1. PICK c : c = q.copy
  OBVIOUS
<1>2. c \in ProvRows /\ q.url \in Urls \cup {"none"} \cup Kinds /\ q.ref \in Nat
  BY <1>1 DEF Errands
<1>3. /\ c.sel \in Kinds /\ c.state \in {"absent", "unverified", "verified"} /\ c.url \in Urls \cup {"none"}
      /\ c.ref \in Nat /\ c.bv \in Nat /\ c.proof \in Urls \cup {"none"} /\ c.ver \in Nat
  BY <1>2 DEF ProvRows
<1>4. /\ q.op \in {"write", "test", "select", "delete", "reconcile"} /\ (q.op = "select" => q.url \in Kinds)
      /\ q.op = "write" => q.url \in Urls
  BY DEF ErrandSound, Writes
<1>5. CASE q.op = "write"
  <2>1. w = Rivals!Bump([c EXCEPT !.url = q.url, !.ref = q.ref, !.bv = @ + 1, !.state = "unverified", !.proof = "none"])
    BY <1>1, <1>5 DEF Rivals!NewRow, Rivals!Written
  <2>2. w = [sel |-> c.sel, state |-> "unverified", url |-> q.url, ref |-> q.ref, bv |-> c.bv + 1, proof |-> "none",
             ver |-> c.ver + 1]
    BY <1>2, <2>1 DEF Rivals!Bump, ProvRows
  <2> QED BY <1>1, <1>2, <1>3, <1>4, <1>5, <2>2 DEF ProvRows
<1>6. CASE q.op = "test"
  <2>1. w = Rivals!Bump([c EXCEPT !.state = "verified", !.proof = c.url])
    BY <1>1, <1>6 DEF Rivals!NewRow, Rivals!Proved
  <2>2. w = [sel |-> c.sel, state |-> "verified", url |-> c.url, ref |-> c.ref, bv |-> c.bv, proof |-> c.url,
             ver |-> c.ver + 1]
    BY <1>2, <2>1 DEF Rivals!Bump, ProvRows
  <2> QED BY <1>1, <1>2, <1>3, <1>6, <2>2 DEF ProvRows
<1>7. CASE q.op = "select"
  <2>1. w = Rivals!Bump([c EXCEPT !.sel = q.url])
    BY <1>1, <1>7 DEF Rivals!NewRow, Rivals!Selected
  <2>2. w = [sel |-> q.url, state |-> c.state, url |-> c.url, ref |-> c.ref, bv |-> c.bv, proof |-> c.proof,
             ver |-> c.ver + 1]
    BY <1>2, <2>1 DEF Rivals!Bump, ProvRows
  <2> QED BY <1>1, <1>2, <1>3, <1>4, <1>7, <2>2 DEF ProvRows
<1>8. CASE q.op = "delete"
  <2>1. w = Rivals!Bump([NoProv EXCEPT !.sel = c.sel, !.ver = c.ver])
    BY <1>1, <1>8 DEF Rivals!NewRow, Rivals!Deleted
  <2>2. w = [sel |-> c.sel, state |-> "absent", url |-> "none", ref |-> 0, bv |-> 0, proof |-> "none",
             ver |-> c.ver + 1]
    BY <1>2, <2>1 DEF Rivals!Bump, NoProv
  <2> QED BY <1>1, <1>2, <1>3, <1>8, <2>2 DEF ProvRows
<1>9. CASE q.op = "reconcile"
  <2>1. PICK s : s = IF c.state = "verified" THEN "unverified" ELSE c.state
    OBVIOUS
  <2>2. s \in {"absent", "unverified", "verified"} /\ s # "verified"
    BY <1>3, <2>1
  <2>3. w = Rivals!Bump([c EXCEPT !.state = s, !.proof = "none"])
    BY <1>1, <1>9, <2>1 DEF Rivals!NewRow, Rivals!Drifted
  <2>4. w = [sel |-> c.sel, state |-> s, url |-> c.url, ref |-> c.ref, bv |-> c.bv, proof |-> "none",
             ver |-> c.ver + 1]
    BY <1>2, <2>3 DEF Rivals!Bump, ProvRows
  <2> QED BY <1>1, <1>2, <1>3, <1>9, <2>2, <2>4 DEF ProvRows
<1> QED BY <1>4, <1>5, <1>6, <1>7, <1>8, <1>9

LEMMA RivalsCommit ==
    ASSUME ProvTyped(MaxVer), NEW a \in Admins, Rivals!Commit(a)
    PROVE  ProvTyped(MaxVer)'
<1> USE RivalsNames
<1>1. /\ req \in [Admins -> Errands] /\ refs \in 0..MaxRefs /\ blobs \subseteq (1..refs) \X Nat
      /\ row \in ProvRows /\ row.ref <= refs /\ row.ver \in 1..MaxVer + 1
      /\ \A b \in Admins : ErrandSound(req[b], MaxVer)
  BY DEF ProvTyped
<1>2. PICK q, c, w, new : q = req[a] /\ c = q.copy /\ w = Rivals!NewRow(q) /\ new = Merged(row, c, w)
  OBVIOUS
<1>3. q \in Errands /\ q.pc = "commit" /\ ErrandSound(q, MaxVer)
  BY <1>1, <1>2 DEF Rivals!Commit
<1>4. /\ w \in ProvRows /\ w.ver = c.ver + 1
      /\ q.op = "write" => w.ref = q.ref /\ w.bv = c.bv + 1
      /\ q.op = "delete" => w.ref = 0 /\ w.bv = 0
      /\ q.op \notin {"write", "delete"} => w.ref = c.ref /\ w.bv = c.bv
  BY <1>2, <1>3, RivalsNewRow
<1>5. Rivals!Merge(c, w) = new
  <2>1. DOMAIN row = {"sel", "state", "url", "ref", "bv", "proof", "ver"}
    BY <1>1 DEF ProvRows
  <2> QED BY <1>2, <2>1 DEF Rivals!Merge, Merged
<1>6. UNCHANGED <<blobs, refs, seen, chat, proven, drifted>>
  BY DEF Rivals!Commit
<1>7. CASE ~Fits(new)
  <2>1. req' = [req EXCEPT ![a] = NoErrand] /\ UNCHANGED row
    BY <1>2, <1>5, <1>7 DEF Rivals!Commit, Rivals!FlushOK
  <2> QED BY <1>6, <2>1, RivalsEnds
<1>8. CASE Fits(new)
  <2>1. PICK pc : pc = IF q.op \in {"write", "delete"} /\ c.ref # 0 THEN "drop" ELSE "end"
    OBVIOUS
  <2>2. row' = new /\ req' = [req EXCEPT ![a].pc = pc]
    BY <1>2, <1>5, <1>8, <2>1 DEF Rivals!Commit, Rivals!FlushOK
  <2>3. c \in ProvRows /\ c.ref \in Nat /\ c.bv \in Nat /\ c.ver \in Nat /\ q.ref \in Nat /\ row.ref \in Nat
    BY <1>1, <1>2, <1>3 DEF Errands, ProvRows
  <2>4. /\ Fits(c) /\ c.ver < MaxVer /\ c.ref <= refs
        /\ q.op = "write" => /\ q.ref \in 1..refs /\ q.ref # row.ref
                             /\ <<q.ref, c.bv + 1>> \in blobs \/ q.ref \in drifted
    BY <1>2, <1>3 DEF ErrandSound, Writes
  <2>5. q.op = "write" => c.ref # q.ref
    BY <1>2, <1>3 DEF ProvTyped, Fresh, Writes
  <2>6. /\ new \in ProvRows /\ new.ref = (IF w.ref # c.ref THEN w.ref ELSE row.ref)
        /\ new.bv = (IF w.bv # c.bv THEN w.bv ELSE row.bv) /\ new.ver = (IF w.ver # c.ver THEN w.ver ELSE row.ver)
    BY <1>1, <1>2, <1>4, <2>3, MergedTyped
  <2>7. new.ver \in 1..MaxVer + 1
    BY <1>4, <2>3, <2>4, <2>6
  <2>8. \/ q.op = "write" /\ new.ref = q.ref /\ new.bv = c.bv + 1
        \/ q.op = "delete" /\ new.ref = 0 /\ c.ref # 0
        \/ new.ref = row.ref /\ new.bv = row.bv /\ (q.op = "delete" => c.ref = 0) /\ q.op # "write"
    <3>1. CASE q.op = "write"
      <4>1. c.bv + 1 # c.bv
        BY <2>3
      <4> QED BY <1>4, <2>5, <2>6, <3>1, <4>1
    <3>2. CASE q.op = "delete"
      <4>1. c.ref = 0 <=> c.bv = 0
        BY <2>4 DEF Fits
      <4> QED BY <1>4, <2>6, <3>2, <4>1
    <3>3. CASE q.op \notin {"write", "delete"}
      BY <1>4, <2>6, <3>3
    <3> QED BY <3>1, <3>2, <3>3
  <2>9. PICK p : p = [q EXCEPT !.pc = pc]
    OBVIOUS
  <2>10. p \in Errands /\ p.pc = pc /\ p.copy = c /\ pc \in {"drop", "end"}
    BY <1>2, <1>3, <2>1, <2>9 DEF Errands
  <2>11. req' \in [Admins -> Errands] /\ req'[a] = p /\ \A b \in Admins : b # a => req'[b] = req[b]
    BY <1>1, <1>2, <2>2, <2>9, <2>10
  <2>12. new.ref <= refs /\ (new.ref # 0 /\ new.ref \notin drifted => <<new.ref, new.bv>> \in blobs)
    <3>1. row.ref # 0 /\ row.ref \notin drifted => <<row.ref, row.bv>> \in blobs
      BY DEF ProvTyped
    <3> QED BY <1>1, <2>4, <2>8, <3>1
  <2>13. pc = "drop" => c.ref # 0 /\ new.ref # c.ref
    BY <2>1, <2>5, <2>8
  <2>14. ASSUME NEW b \in Admins PROVE ErrandSound(req[b], MaxVer)'
    <3>1. CASE b = a
      BY <1>6, <2>2, <2>4, <2>10, <2>11, <2>13, <3>1 DEF ErrandSound, Writes
    <3>2. CASE b # a
      <4>1. req'[b] = req[b] /\ ErrandSound(req[b], MaxVer) /\ req[b] \in Errands
        BY <1>1, <2>11, <3>2
      <4>2. Writes(req[b]) => req[b].ref # new.ref
        <5>1. Writes(req[b]) => req[b].ref # 0 /\ req[b].ref # row.ref
          BY <1>1, <4>1 DEF ErrandSound
        <5>2. Writes(req[b]) /\ q.op = "write" => q.ref # req[b].ref
          BY <1>2, <1>3, <3>2 DEF ProvTyped, Fresh, Writes
        <5> QED BY <2>8, <5>1, <5>2
      <4>3. req[b].pc = "drop" => req[b].copy.ref # new.ref
        <5>1. req[b].pc = "drop" => req[b].copy.ref # 0 /\ req[b].copy.ref # row.ref
          BY <4>1 DEF ErrandSound
        <5>2. q.op = "write" => q.ref # req[b].copy.ref
          BY <1>2, <1>3 DEF ProvTyped, Fresh, Writes
        <5> QED BY <2>8, <5>1, <5>2
      <4>4. PICK x : x = req[b] /\ x = req'[b]
        BY <4>1
      <4>5. ErrandSound(x, MaxVer) /\ (Writes(x) => x.ref # row'.ref) /\ (x.pc = "drop" => x.copy.ref # row'.ref)
        BY <2>2, <4>1, <4>2, <4>3, <4>4
      <4>6. ErrandSound(x, MaxVer)'
        BY <1>6, <4>5 DEF ErrandSound, Writes
      <4> QED BY <4>4, <4>6
    <3> QED BY <3>1, <3>2
  <2>15. Fresh'
    <3>1. ASSUME NEW b \in Admins, NEW d \in Admins, Writes(req'[b])
          PROVE  req'[d].copy.ref # req'[b].ref /\ (d # b /\ Writes(req'[d]) => req'[d].ref # req'[b].ref)
      <4>1. req'[d].copy = req[d].copy /\ b # a /\ req'[b] = req[b]
        BY <1>2, <2>10, <2>11, <3>1 DEF Writes
      <4>2. Writes(req'[d]) => req'[d] = req[d]
        BY <2>10, <2>11 DEF Writes
      <4> QED BY <3>1, <4>1, <4>2 DEF ProvTyped, Fresh
    <3> QED BY <3>1 DEF Fresh, Writes
  <2>16. seen' \in [Admins -> ProvRows] /\ chat' \in Talks
    BY <1>6 DEF ProvTyped
  <2> QED BY <1>1, <1>6, <1>8, <2>2, <2>6, <2>7, <2>11, <2>12, <2>14, <2>15, <2>16 DEF ProvTyped, Fits
<1> QED BY <1>7, <1>8

LEMMA RivalsRequest ==
    ASSUME ProvTyped(MaxVer), NEW a \in Admins, Rivals!Request(a)
    PROVE  ProvTyped(MaxVer)'
<1> USE RivalsNames
<1>1. /\ row \in ProvRows /\ req \in [Admins -> Errands] /\ seen \in [Admins -> ProvRows] /\ chat \in Talks
      /\ row.url \in Urls \cup {"none"} /\ row.ref \in Nat
  BY DEF ProvTyped, ProvRows
<1>2. CASE Rivals!get_state(a)
  <2>1. seen' \in [Admins -> ProvRows]
    BY <1>1, <1>2 DEF Rivals!get_state
  <2> QED BY <1>1, <1>2, <2>1, RivalsOthers DEF Rivals!get_state
<1>3. CASE Rivals!BeginWrite(a)
  BY <1>3, RivalsBegins DEF Rivals!BeginWrite
<1>4. CASE Rivals!BeginTest(a)
  BY <1>1, <1>4, RivalsBegins DEF Rivals!BeginTest
<1>5. CASE Rivals!BeginSelect(a)
  <2>1. PICK kind \in Kinds : Rivals!Begins(a, "select", "commit", kind, 0)
    BY <1>5 DEF Rivals!BeginSelect, Kinds
  <2> QED BY <2>1, RivalsBegins
<1>6. CASE Rivals!BeginActivate(a)
  BY <1>6, RivalsBegins DEF Rivals!BeginActivate
<1>7. CASE Rivals!BeginDelete(a)
  BY <1>7, RivalsBegins DEF Rivals!BeginDelete
<1>8. CASE Rivals!BeginReconcile(a)
  <2>1. PICK pc \in {"commit", "end"} : Rivals!Begins(a, "reconcile", pc, "none", 0)
    BY <1>8 DEF Rivals!BeginReconcile
  <2> QED BY <2>1, RivalsBegins
<1>9. CASE Rivals!store_credential(a)
  BY <1>9, RivalsStore
<1>10. CASE Rivals!probe_models(a)
  BY <1>10, RivalsEnds DEF Rivals!probe_models
<1>11. CASE Rivals!Commit(a)
  BY <1>11, RivalsCommit
<1>12. CASE Rivals!delete_credential(a)
  BY <1>12, RivalsDrop
<1>13. CASE Rivals!Audited(a)
  BY <1>13, RivalsEnds DEF Rivals!Audited
<1>14. CASE Rivals!Fails(a)
  <2>1. \/ req' = [req EXCEPT ![a] = NoErrand]
        \/ req[a].pc = "drop" /\ req' = [req EXCEPT ![a].pc = "end"]
    BY <1>1, <1>14 DEF Rivals!Fails
  <2> QED BY <1>14, <2>1, RivalsEnds DEF Rivals!Fails
<1> QED BY <1>2, <1>3, <1>4, <1>5, <1>6, <1>7, <1>8, <1>9, <1>10, <1>11, <1>12, <1>13, <1>14 DEF Rivals!Request

\* The chat reads the row, the envelope and the key.
LEMMA RivalsChat ==
    ASSUME ProvTyped(MaxVer), \/ Rivals!load_active_compatible_binding \/ Rivals!get_envelope \/ Rivals!load_plaintext
                           \/ Rivals!ChatEnds
    PROVE  /\ chat' \in Talks /\ UNCHANGED <<row, blobs, refs, req, seen, proven, drifted>>
           /\ \/ chat'.pc = "idle"
              \/ chat.pc # "idle" /\ chat'.url = chat.url /\ chat'.ref = chat.ref
              \/ row.state = "verified" /\ chat'.url = row.url /\ chat'.ref = row.ref
<1> USE RivalsNames
<1>1. row \in ProvRows /\ chat \in Talks /\ row.url \in Urls \cup {"none"} /\ row.ref \in Nat /\ row.bv \in Nat
  BY DEF ProvTyped, ProvRows
<1>2. Rivals!NoChat \in Talks /\ Rivals!NoChat.pc = "idle"
  BY DEF Rivals!NoChat, Talks
<1>3. CASE Rivals!load_active_compatible_binding
  <2>1. PICK t : t = [pc |-> "envelope", url |-> row.url, ref |-> row.ref, bv |-> row.bv]
    OBVIOUS
  <2>2. t \in Talks /\ t.url = row.url /\ t.ref = row.ref
    BY <1>1, <2>1 DEF Talks
  <2>3. chat' = t /\ row.state = "verified"
    BY <1>3, <2>1 DEF Rivals!load_active_compatible_binding, Rivals!_compatible_proof_bound
  <2> QED BY <1>3, <2>2, <2>3 DEF Rivals!load_active_compatible_binding
<1>4. ASSUME NEW pc \in {"load", "sent"}, chat.pc # "idle",
             chat' = Rivals!NoChat \/ chat' = [chat EXCEPT !.pc = pc]
      PROVE  /\ chat' \in Talks
             /\ chat'.pc = "idle" \/ (chat.pc # "idle" /\ chat'.url = chat.url /\ chat'.ref = chat.ref)
  <2>1. PICK t : t = [chat EXCEPT !.pc = pc]
    OBVIOUS
  <2>2. t \in Talks /\ t.url = chat.url /\ t.ref = chat.ref
    BY <1>1, <2>1 DEF Talks
  <2> QED BY <1>2, <1>4, <2>1, <2>2
<1>5. CASE Rivals!get_envelope
  <2>1. chat.pc # "idle" /\ (chat' = Rivals!NoChat \/ chat' = [chat EXCEPT !.pc = "load"])
    BY <1>5 DEF Rivals!get_envelope
  <2> QED BY <1>4, <1>5, <2>1 DEF Rivals!get_envelope
<1>6. CASE Rivals!load_plaintext
  <2>1. chat.pc # "idle" /\ (chat' = Rivals!NoChat \/ chat' = [chat EXCEPT !.pc = "sent"])
    BY <1>6 DEF Rivals!load_plaintext
  <2> QED BY <1>4, <1>6, <2>1 DEF Rivals!load_plaintext
<1>7. CASE Rivals!ChatEnds
  BY <1>2, <1>7 DEF Rivals!ChatEnds
<1> QED BY <1>3, <1>5, <1>6, <1>7

LEMMA RivalsStep ==
    ASSUME ProvTyped(MaxVer), Rivals!Next
    PROVE  ProvTyped(MaxVer)'
<1> USE RivalsNames
<1>1. seen \in [Admins -> ProvRows]
  BY DEF ProvTyped
<1>2. ASSUME \/ Rivals!load_active_compatible_binding \/ Rivals!get_envelope \/ Rivals!load_plaintext \/ Rivals!ChatEnds
      PROVE  ProvTyped(MaxVer)'
  BY <1>1, <1>2, RivalsChat, RivalsOthers
<1>3. CASE Rivals!Crash
  <2>1. chat' \in Talks
    BY <1>3 DEF Rivals!Crash, Rivals!NoChat, Talks
  <2> QED BY <1>1, <1>3, <2>1, RivalsOthers DEF Rivals!Crash
<1> QED BY <1>2, <1>3, RivalsRequest, RivalsDrift DEF Rivals!Next

LEMMA RivalsTypes ==
    ASSUME ProvTyped(MaxVer)
    PROVE  Rivals!TypeOK /\ Rivals!BlobBound
<1> USE RivalsNames
<1>1. /\ row.sel \in {"ollama", "compatible"} /\ row.url \in Urls \cup {"none"} /\ row.ref \in 0..refs
      /\ row.ver \in 1..MaxVer + 1 /\ refs \in 0..MaxRefs /\ chat.pc \in {"idle", "envelope", "load", "sent"}
  BY DEF ProvTyped, ProvRows, Kinds, Talks
<1>2. \A b \in blobs : b[1] \in 1..refs
  BY DEF ProvTyped
<1>3. \A a \in Admins : req[a].op \in Rivals!Ops \cup {"none"}
  BY DEF ProvTyped, Errands, Rivals!Ops
<1>4. Rivals!Coherent(row) /\ Rivals!BlobBound
  BY DEF ProvTyped, Rivals!BlobBound, Rivals!_envelope_matches
<1> QED BY <1>1, <1>2, <1>3, <1>4 DEF Rivals!TypeOK

-----------------------------------------------------------------------------
(* The part provider.                                                           *)

LEMMA ProviderNames ==
    /\ Provider!Absent = NoProv /\ Provider!NoReq = NoErrand /\ Provider!None = "none"
    /\ MaxVer + 2 \in Nat /\ MaxRefs \in Nat /\ "none" \notin Urls
    /\ \A r : Provider!Coherent(r) <=> Fits(r)
<1>1. Provider!Absent = NoProv /\ Provider!None = "none"
  BY DEF Provider!Absent, NoProv, Provider!None
<1>2. Provider!NoReq = NoErrand
  BY <1>1 DEF Provider!NoReq, NoErrand
<1>3. MaxVer + 2 \in Nat /\ MaxRefs \in Nat /\ "none" \notin Urls
  BY AiAssumption DEF Provider!ProviderAssumption
<1>4. \A r : Provider!Coherent(r) <=> Fits(r)
  BY DEF Provider!Coherent, Fits, Provider!None
<1> QED BY <1>1, <1>2, <1>3, <1>4

LEMMA ProviderInit ==
    ASSUME Provider!Init
    PROVE  ProvTyped(MaxVer + 2)
<1> USE ProviderNames, NoProvTyped
<1>1. row = NoProv /\ refs = 0 /\ blobs = {} /\ req = [a \in Admins |-> NoErrand] /\ seen = [a \in Admins |-> NoProv]
  BY DEF Provider!Init
<1>2. ErrandSound(NoErrand, MaxVer + 2) /\ ~Writes(NoErrand)
  BY <1>1, NoErrandSound
<1>3. chat \in Talks
  BY DEF Provider!Init, Provider!NoChat, Talks, Provider!None
<1>4. \A a \in Admins : ErrandSound(req[a], MaxVer + 2) /\ ~Writes(req[a])
  BY <1>1, <1>2
<1>5. Fresh
  BY <1>4 DEF Fresh
<1>6. /\ row \in ProvRows /\ Fits(row) /\ row.ref <= refs /\ row.ver \in 1..MaxVer + 2 + 1
      /\ refs \in 0..MaxRefs /\ blobs \subseteq (1..refs) \X Nat
      /\ req \in [Admins -> Errands] /\ seen \in [Admins -> ProvRows] /\ row.ref = 0
  BY <1>1
<1> QED BY <1>3, <1>4, <1>5, <1>6 DEF ProvTyped

\* A request begins with the row as it is.
LEMMA ProviderBegins ==
    ASSUME ProvTyped(MaxVer + 2), NEW a \in Admins, NEW op, NEW pc, NEW u, NEW k, Provider!Begins(a, op, pc, u, k),
           op \in {"write", "test", "select", "activate", "delete", "reconcile"}, k \in Nat,
           pc \in {"store", "probe", "commit", "end"}, u \in Urls \cup {"none"} \cup Kinds,
           pc = "store" => op = "write" /\ u \in Urls, pc = "probe" => op = "test",
           pc = "commit" => op \in {"select", "delete", "reconcile"} /\ (op = "select" => u \in Kinds)
    PROVE  /\ ProvTyped(MaxVer + 2)' /\ UNCHANGED <<row, blobs, refs, seen, chat, proven, drifted>>
           /\ req'[a] = [op |-> op, pc |-> pc, copy |-> row, url |-> u, ref |-> k]
           /\ \A b \in Admins : b # a => req'[b] = req[b]
<1> USE ProviderNames
<1>1. /\ row \in ProvRows /\ Fits(row) /\ row.ref <= refs /\ row.ver < MaxVer + 2 /\ refs \in Nat
      /\ req \in [Admins -> Errands]
  BY DEF ProvTyped, Provider!Begins
<1>2. PICK q : q = [op |-> op, pc |-> pc, copy |-> row, url |-> u, ref |-> k]
  OBVIOUS
<1>3. q \in Errands /\ q.copy = row /\ q.op = op /\ q.pc = pc /\ q.url = u
  BY <1>1, <1>2 DEF Errands
<1>4. ErrandSound(q, MaxVer + 2) /\ ~Writes(q)
  BY <1>1, <1>3 DEF ErrandSound, Writes
<1>5. req' = [req EXCEPT ![a] = q] /\ UNCHANGED <<row, blobs, refs, seen, chat, proven, drifted>>
  BY <1>2 DEF Provider!Begins
<1>6. ProvTyped(MaxVer + 2)'
  BY <1>3, <1>4, <1>5, ErrandMoves
<1> QED BY <1>1, <1>2, <1>5, <1>6

\* A request ends, or goes on after its commit.
LEMMA ProviderEnds ==
    ASSUME ProvTyped(MaxVer + 2), NEW a \in Admins, UNCHANGED <<row, blobs, refs, seen, chat, drifted>>,
           \/ req' = [req EXCEPT ![a] = NoErrand]
           \/ req[a].pc = "drop" /\ req' = [req EXCEPT ![a].pc = "end"]
           \/ req[a].pc = "probe" /\ req' = [req EXCEPT ![a].pc = "commit"]
    PROVE  ProvTyped(MaxVer + 2)'
<1> USE ProviderNames
<1>1. req \in [Admins -> Errands] /\ refs \in Nat /\ ErrandSound(req[a], MaxVer + 2)
  BY DEF ProvTyped
<1>2. CASE req' = [req EXCEPT ![a] = NoErrand]
  BY <1>1, <1>2, NoErrandSound, NoProvTyped, ErrandMoves
<1>3. CASE req[a].pc = "drop" /\ req' = [req EXCEPT ![a].pc = "end"]
  <2>1. PICK q : q = [req[a] EXCEPT !.pc = "end"]
    OBVIOUS
  <2>2. /\ q \in Errands /\ q.pc = "end" /\ q.op = req[a].op /\ q.copy = req[a].copy /\ q.ref = req[a].ref
        /\ q.url = req[a].url
    BY <1>1, <2>1 DEF Errands
  <2>3. ErrandSound(q, MaxVer + 2) /\ ~Writes(q)
    BY <1>1, <1>3, <2>2 DEF ErrandSound, Writes
  <2>4. req' = [req EXCEPT ![a] = q]
    BY <1>1, <1>3, <2>1
  <2> QED BY <2>2, <2>3, <2>4, ErrandMoves
<1>4. CASE req[a].pc = "probe" /\ req' = [req EXCEPT ![a].pc = "commit"]
  <2>1. PICK q : q = [req[a] EXCEPT !.pc = "commit"]
    OBVIOUS
  <2>2. /\ q \in Errands /\ q.pc = "commit" /\ q.op = req[a].op /\ q.copy = req[a].copy /\ q.ref = req[a].ref
        /\ q.url = req[a].url
    BY <1>1, <2>1 DEF Errands
  <2>3. ErrandSound(q, MaxVer + 2) /\ ~Writes(q)
    BY <1>1, <1>4, <2>2 DEF ErrandSound, Writes
  <2>4. req' = [req EXCEPT ![a] = q]
    BY <1>1, <1>4, <2>1
  <2> QED BY <2>2, <2>3, <2>4, ErrandMoves
<1> QED BY <1>2, <1>3, <1>4

LEMMA ProviderStore ==
    ASSUME ProvTyped(MaxVer + 2), NEW a \in Admins, Provider!store_credential(a)
    PROVE  ProvTyped(MaxVer + 2)'
<1> USE ProviderNames
<1>1. /\ req \in [Admins -> Errands] /\ refs \in 0..MaxRefs /\ blobs \subseteq (1..refs) \X Nat
      /\ row \in ProvRows /\ row.ref <= refs /\ row.ver \in 1..MaxVer + 2 + 1
      /\ \A b \in Admins : ErrandSound(req[b], MaxVer + 2)
  BY DEF ProvTyped
<1>2. PICK k, old, q : k = refs + 1 /\ old = req[a] /\ q = [old EXCEPT !.pc = "commit", !.ref = k]
  OBVIOUS
<1>3. /\ old \in Errands /\ old.pc = "store" /\ ErrandSound(old, MaxVer + 2) /\ k \in Nat
  BY <1>1, <1>2 DEF Provider!store_credential
<1>4. /\ q \in Errands /\ q.pc = "commit" /\ q.ref = k /\ q.op = old.op /\ q.copy = old.copy /\ q.url = old.url
  BY <1>2, <1>3 DEF Errands
<1>5. /\ refs' = k /\ blobs' = blobs \cup {<<k, old.copy.bv + 1>>} /\ req' = [req EXCEPT ![a] = q]
      /\ UNCHANGED <<row, seen, chat, proven, drifted>>
  BY <1>1, <1>2 DEF Provider!store_credential
<1>6. refs' \in 0..MaxRefs /\ refs < k /\ row.ref <= refs' /\ row.ref # k
  <2>1. refs < MaxRefs
    BY DEF Provider!store_credential
  <2>2. row.ref \in Nat
    BY <1>1 DEF ProvRows
  <2> QED BY <1>1, <1>2, <1>5, <2>1, <2>2
<1>7. old.copy \in ProvRows /\ old.copy.bv \in Nat
  BY <1>3 DEF Errands, ProvRows
<1>8. blobs' \subseteq (1..refs') \X Nat
  <2>1. blobs \subseteq (1..k) \X Nat
    BY <1>1, <1>2
  <2>2. <<k, old.copy.bv + 1>> \in (1..k) \X Nat
    BY <1>1, <1>2, <1>7
  <2> QED BY <1>5, <2>1, <2>2
<1>9. /\ req' \in [Admins -> Errands] /\ req'[a] = q /\ \A b \in Admins : b # a => req'[b] = req[b]
  BY <1>1, <1>4, <1>5
<1>10. ASSUME NEW b \in Admins PROVE req[b].copy.ref # k /\ (Writes(req[b]) => req[b].ref # k) /\ req[b].copy.ref <= k
  <2>1. req[b] \in Errands /\ ErrandSound(req[b], MaxVer + 2)
    BY <1>1
  <2>2. req[b].copy.ref \in Nat /\ req[b].ref \in Nat
    BY <2>1 DEF Errands, ProvRows
  <2>3. req[b].copy.ref <= refs /\ (Writes(req[b]) => req[b].ref <= refs)
    BY <1>1, <2>1 DEF ErrandSound
  <2> QED BY <1>1, <1>2, <2>2, <2>3
<1>11. ASSUME NEW b \in Admins PROVE ErrandSound(req[b], MaxVer + 2)'
  <2>1. CASE b = a
    <3>1. q.url \in Urls /\ q.op = "write" /\ Fits(q.copy) /\ q.copy.ver < MaxVer + 2
      BY <1>3, <1>4 DEF ErrandSound
    <3>2. q.ref \in 1..refs' /\ q.ref # row'.ref /\ <<q.ref, q.copy.bv + 1>> \in blobs' /\ q.copy.ref <= refs'
      BY <1>1, <1>2, <1>4, <1>5, <1>6, <1>10
    <3> QED BY <1>4, <1>9, <2>1, <3>1, <3>2 DEF ErrandSound, Writes
  <2>2. CASE b # a
    <3>1. req'[b] = req[b] /\ ErrandSound(req[b], MaxVer + 2) /\ req[b] \in Errands
      BY <1>1, <1>9, <2>2
    <3>2. req[b].copy.ref <= refs' /\ (req[b].ref \in 1..refs => req[b].ref \in 1..refs')
      BY <1>1, <1>5, <1>6, <1>10
    <3> QED BY <1>5, <3>1, <3>2 DEF ErrandSound, Writes
  <2> QED BY <2>1, <2>2
<1>12. Fresh'
  <2>1. ASSUME NEW b \in Admins, NEW c \in Admins, Writes(req'[b])
        PROVE  req'[c].copy.ref # req'[b].ref /\ (c # b /\ Writes(req'[c]) => req'[c].ref # req'[b].ref)
    <3>1. req'[c].copy = req[c].copy
      BY <1>2, <1>4, <1>9
    <3>2. CASE b = a
      BY <1>4, <1>9, <1>10, <3>1, <3>2
    <3>3. CASE b # a /\ c = a
      <4>1. req'[b] = req[b] /\ Writes(req[b])
        BY <1>9, <2>1, <3>3
      <4>2. req[b].ref # k /\ req[a].copy.ref # req[b].ref
        BY <1>10, <4>1 DEF ProvTyped, Fresh
      <4> QED BY <1>4, <1>9, <3>1, <3>3, <4>1, <4>2
    <3>4. CASE b # a /\ c # a
      BY <1>9, <2>1, <3>4 DEF ProvTyped, Fresh
    <3> QED BY <3>2, <3>3, <3>4
  <2> QED BY <2>1 DEF Fresh, Writes
<1>13. row.ref # 0 /\ row.ref \notin drifted => <<row.ref, row.bv>> \in blobs'
  BY <1>5 DEF ProvTyped
<1> QED BY <1>1, <1>5, <1>6, <1>8, <1>9, <1>11, <1>12, <1>13 DEF ProvTyped

\* The file of the replaced key goes.
LEMMA ProviderDrop ==
    ASSUME ProvTyped(MaxVer + 2), NEW a \in Admins, Provider!delete_credential(a)
    PROVE  ProvTyped(MaxVer + 2)'
<1> USE ProviderNames
<1>1. /\ req \in [Admins -> Errands] /\ refs \in 0..MaxRefs /\ blobs \subseteq (1..refs) \X Nat
      /\ \A b \in Admins : ErrandSound(req[b], MaxVer + 2)
  BY DEF ProvTyped
<1>2. PICK old, q : old = req[a] /\ q = [old EXCEPT !.pc = "end"]
  OBVIOUS
<1>3. old \in Errands /\ old.pc = "drop" /\ ErrandSound(old, MaxVer + 2)
  BY <1>1, <1>2 DEF Provider!delete_credential
<1>4. q \in Errands /\ q.pc = "end" /\ q.op = old.op /\ q.copy = old.copy
  BY <1>2, <1>3 DEF Errands
<1>5. /\ blobs' = {b \in blobs : b[1] # old.copy.ref} /\ req' = [req EXCEPT ![a] = q]
      /\ UNCHANGED <<row, refs, seen, chat, proven, drifted>>
  BY <1>1, <1>2 DEF Provider!delete_credential
<1>6. /\ req' \in [Admins -> Errands] /\ req'[a] = q /\ \A b \in Admins : b # a => req'[b] = req[b]
  BY <1>1, <1>4, <1>5
<1>7. \A k, w : <<k, w>> \in blobs /\ k # old.copy.ref => <<k, w>> \in blobs'
  BY <1>5
<1>8. ASSUME NEW b \in Admins PROVE ErrandSound(req[b], MaxVer + 2)'
  <2>1. CASE b = a
    BY <1>3, <1>4, <1>5, <1>6, <2>1 DEF ErrandSound, Writes
  <2>2. CASE b # a
    <3>1. req'[b] = req[b] /\ ErrandSound(req[b], MaxVer + 2)
      BY <1>1, <1>6, <2>2
    <3>2. Writes(req[b]) => req[b].ref # old.copy.ref
      BY <1>2 DEF ProvTyped, Fresh
    <3> QED BY <1>5, <1>7, <3>1, <3>2 DEF ErrandSound, Writes
  <2> QED BY <2>1, <2>2
<1>9. Fresh'
  <2>1. ASSUME NEW b \in Admins, NEW c \in Admins, Writes(req'[b])
        PROVE  req'[c].copy.ref # req'[b].ref /\ (c # b /\ Writes(req'[c]) => req'[c].ref # req'[b].ref)
    <3>1. req'[c].copy = req[c].copy /\ b # a /\ req'[b] = req[b]
      BY <1>2, <1>4, <1>6, <2>1 DEF Writes
    <3>2. Writes(req'[c]) => req'[c] = req[c]
      BY <1>4, <1>6 DEF Writes
    <3> QED BY <2>1, <3>1, <3>2 DEF ProvTyped, Fresh
  <2> QED BY <2>1 DEF Fresh, Writes
<1>10. row.ref # 0 /\ row.ref \notin drifted => <<row.ref, row.bv>> \in blobs'
  <2>1. row.ref # old.copy.ref
    BY <1>3 DEF ErrandSound
  <2> QED BY <1>7, <2>1 DEF ProvTyped
<1>11. blobs' \subseteq (1..refs') \X Nat
  BY <1>1, <1>5
<1> QED BY <1>5, <1>6, <1>8, <1>9, <1>10, <1>11 DEF ProvTyped

\* A file is lost or replaced by hand.
LEMMA ProviderDrift ==
    ASSUME ProvTyped(MaxVer + 2), Provider!Drift
    PROVE  ProvTyped(MaxVer + 2)'
<1> USE ProviderNames
<1>1. PICK b \in blobs : /\ blobs' \in {blobs \ {b}, (blobs \ {b}) \cup {<<b[1], 0>>}}
                         /\ drifted' = drifted \cup {b[1]}
  BY DEF Provider!Drift
<1>2. UNCHANGED <<row, refs, req, seen, chat, proven>>
  BY DEF Provider!Drift
<1>3. blobs \subseteq (1..refs) \X Nat
  BY DEF ProvTyped
<1>4. <<b[1], 0>> \in (1..refs) \X Nat
  BY <1>3
<1>5. blobs' \subseteq (1..refs) \X Nat
  BY <1>1, <1>3, <1>4
<1>6. ASSUME NEW k, NEW w, <<k, w>> \in blobs \/ k \in drifted PROVE <<k, w>> \in blobs' \/ k \in drifted'
  <2>1. CASE <<k, w>> = b
    BY <1>1, <2>1
  <2>2. CASE <<k, w>> # b
    BY <1>1, <1>6, <2>2
  <2> QED BY <2>1, <2>2
<1>7. ASSUME NEW a \in Admins PROVE ErrandSound(req[a], MaxVer + 2)'
  <2>1. ErrandSound(req[a], MaxVer + 2)
    BY DEF ProvTyped
  <2> QED BY <1>2, <1>6, <2>1 DEF ErrandSound, Writes
<1>8. Fresh'
  BY <1>2 DEF ProvTyped, Fresh, Writes
<1>9. row.ref # 0 /\ row.ref \notin drifted' => <<row.ref, row.bv>> \in blobs'
  <2>1. row.ref # 0 => <<row.ref, row.bv>> \in blobs \/ row.ref \in drifted
    BY DEF ProvTyped
  <2> QED BY <1>6, <2>1
<1> QED BY <1>2, <1>5, <1>7, <1>8, <1>9 DEF ProvTyped

\* The process dies; the chat goes on; an administrator looks at the configuration.
LEMMA ProviderOthers ==
    ASSUME ProvTyped(MaxVer + 2), UNCHANGED <<row, blobs, refs, drifted>>,
           req' = req \/ req' = [a \in Admins |-> NoErrand], chat' \in Talks, seen' \in [Admins -> ProvRows]
    PROVE  ProvTyped(MaxVer + 2)'
<1> USE ProviderNames
<1>1. \A q : ErrandSound(q, MaxVer + 2) => ErrandSound(q, MaxVer + 2)'
  BY DEF ErrandSound, Writes
<1>2. refs \in Nat
  BY DEF ProvTyped
<1>3. CASE req' = req
  <2>1. \A a \in Admins : ErrandSound(req[a], MaxVer + 2)'
    BY <1>1, <1>3 DEF ProvTyped
  <2>2. Fresh'
    BY <1>3 DEF ProvTyped, Fresh, Writes
  <2> QED BY <1>3, <2>1, <2>2 DEF ProvTyped
<1>4. CASE req' = [a \in Admins |-> NoErrand]
  <2>1. \A a \in Admins : req'[a] = NoErrand
    BY <1>4
  <2>2. \A a \in Admins : ErrandSound(req[a], MaxVer + 2)'
    BY <1>1, <1>2, <2>1, NoErrandSound
  <2>3. Fresh'
    BY <1>2, <2>1, NoErrandSound DEF Fresh, Writes
  <2>4. req' \in [Admins -> Errands]
    BY <1>4, NoProvTyped
  <2> QED BY <2>2, <2>3, <2>4 DEF ProvTyped
<1> QED BY <1>3, <1>4

\* The row an operation leaves of its copy.
LEMMA ProviderNewRow ==
    ASSUME NEW q \in Errands, q.pc = "commit", ErrandSound(q, MaxVer + 2), NEW w, w = Provider!NewRow(q)
    PROVE  /\ w \in ProvRows /\ w.ver = q.copy.ver + 1
           /\ q.op = "write" => w.ref = q.ref /\ w.bv = q.copy.bv + 1 /\ w.state = "unverified"
           /\ q.op = "delete" => w.ref = 0 /\ w.bv = 0 /\ w.state = "absent"
           /\ q.op \notin {"write", "delete"} => w.ref = q.copy.ref /\ w.bv = q.copy.bv /\ w.url = q.copy.url
           /\ q.op = "select" => w.state = q.copy.state /\ w.proof = q.copy.proof
           /\ q.op = "reconcile" => w.state # "verified"
<1> USE ProviderNames
<1>1. PICK c : c = q.copy
  OBVIOUS
<1>2. c \in ProvRows /\ q.url \in Urls \cup {"none"} \cup Kinds /\ q.ref \in Nat
  BY <1>1 DEF Errands
<1>3. /\ c.sel \in Kinds /\ c.state \in {"absent", "unverified", "verified"} /\ c.url \in Urls \cup {"none"}
      /\ c.ref \in Nat /\ c.bv \in Nat /\ c.proof \in Urls \cup {"none"} /\ c.ver \in Nat
  BY <1>2 DEF ProvRows
<1>4. /\ q.op \in {"write", "test", "select", "delete", "reconcile"} /\ (q.op = "select" => q.url \in Kinds)
      /\ q.op = "write" => q.url \in Urls
  BY DEF ErrandSound, Writes
<1>5. CASE q.op = "write"
  <2>1. w = Provider!Bump([c EXCEPT !.url = q.url, !.ref = q.ref, !.bv = @ + 1, !.state = "unverified", !.proof = "none"])
    BY <1>1, <1>5 DEF Provider!NewRow, Provider!Written
  <2>2. w = [sel |-> c.sel, state |-> "unverified", url |-> q.url, ref |-> q.ref, bv |-> c.bv + 1, proof |-> "none",
             ver |-> c.ver + 1]
    BY <1>2, <2>1 DEF Provider!Bump, ProvRows
  <2> QED BY <1>1, <1>2, <1>3, <1>4, <1>5, <2>2 DEF ProvRows
<1>6. CASE q.op = "test"
  <2>1. w = Provider!Bump([c EXCEPT !.state = "verified", !.proof = c.url])
    BY <1>1, <1>6 DEF Provider!NewRow, Provider!Proved
  <2>2. w = [sel |-> c.sel, state |-> "verified", url |-> c.url, ref |-> c.ref, bv |-> c.bv, proof |-> c.url,
             ver |-> c.ver + 1]
    BY <1>2, <2>1 DEF Provider!Bump, ProvRows
  <2> QED BY <1>1, <1>2, <1>3, <1>6, <2>2 DEF ProvRows
<1>7. CASE q.op = "select"
  <2>1. w = Provider!Bump([c EXCEPT !.sel = q.url])
    BY <1>1, <1>7 DEF Provider!NewRow, Provider!Selected
  <2>2. w = [sel |-> q.url, state |-> c.state, url |-> c.url, ref |-> c.ref, bv |-> c.bv, proof |-> c.proof,
             ver |-> c.ver + 1]
    BY <1>2, <2>1 DEF Provider!Bump, ProvRows
  <2> QED BY <1>1, <1>2, <1>3, <1>4, <1>7, <2>2 DEF ProvRows
<1>8. CASE q.op = "delete"
  <2>1. w = Provider!Bump([NoProv EXCEPT !.sel = c.sel, !.ver = c.ver])
    BY <1>1, <1>8 DEF Provider!NewRow, Provider!Deleted
  <2>2. w = [sel |-> c.sel, state |-> "absent", url |-> "none", ref |-> 0, bv |-> 0, proof |-> "none",
             ver |-> c.ver + 1]
    BY <1>2, <2>1 DEF Provider!Bump, NoProv
  <2> QED BY <1>1, <1>2, <1>3, <1>8, <2>2 DEF ProvRows
<1>9. CASE q.op = "reconcile"
  <2>1. PICK s : s = IF c.state = "verified" THEN "unverified" ELSE c.state
    OBVIOUS
  <2>2. s \in {"absent", "unverified", "verified"} /\ s # "verified"
    BY <1>3, <2>1
  <2>3. w = Provider!Bump([c EXCEPT !.state = s, !.proof = "none"])
    BY <1>1, <1>9, <2>1 DEF Provider!NewRow, Provider!Drifted
  <2>4. w = [sel |-> c.sel, state |-> s, url |-> c.url, ref |-> c.ref, bv |-> c.bv, proof |-> "none",
             ver |-> c.ver + 1]
    BY <1>2, <2>3 DEF Provider!Bump, ProvRows
  <2> QED BY <1>1, <1>2, <1>3, <1>9, <2>2, <2>4 DEF ProvRows
<1> QED BY <1>4, <1>5, <1>6, <1>7, <1>8, <1>9

LEMMA ProviderCommit ==
    ASSUME ProvTyped(MaxVer + 2), NEW a \in Admins, Provider!Commit(a)
    PROVE  ProvTyped(MaxVer + 2)'
<1> USE ProviderNames
<1>1. /\ req \in [Admins -> Errands] /\ refs \in 0..MaxRefs /\ blobs \subseteq (1..refs) \X Nat
      /\ row \in ProvRows /\ row.ref <= refs /\ row.ver \in 1..MaxVer + 2 + 1
      /\ \A b \in Admins : ErrandSound(req[b], MaxVer + 2)
  BY DEF ProvTyped
<1>2. PICK q, c, w, new : q = req[a] /\ c = q.copy /\ w = Provider!NewRow(q) /\ new = Merged(row, c, w)
  OBVIOUS
<1>3. q \in Errands /\ q.pc = "commit" /\ ErrandSound(q, MaxVer + 2)
  BY <1>1, <1>2 DEF Provider!Commit
<1>4. /\ w \in ProvRows /\ w.ver = c.ver + 1
      /\ q.op = "write" => w.ref = q.ref /\ w.bv = c.bv + 1
      /\ q.op = "delete" => w.ref = 0 /\ w.bv = 0
      /\ q.op \notin {"write", "delete"} => w.ref = c.ref /\ w.bv = c.bv
  BY <1>2, <1>3, ProviderNewRow
<1>5. Provider!Merge(c, w) = new
  <2>1. DOMAIN row = {"sel", "state", "url", "ref", "bv", "proof", "ver"}
    BY <1>1 DEF ProvRows
  <2> QED BY <1>2, <2>1 DEF Provider!Merge, Merged
<1>6. UNCHANGED <<blobs, refs, seen, chat, proven, drifted>>
  BY DEF Provider!Commit
<1>7. CASE ~Fits(new)
  <2>1. req' = [req EXCEPT ![a] = NoErrand] /\ UNCHANGED row
    BY <1>2, <1>5, <1>7 DEF Provider!Commit, Provider!FlushOK
  <2> QED BY <1>6, <2>1, ProviderEnds
<1>8. CASE Fits(new)
  <2>1. PICK pc : pc = IF q.op \in {"write", "delete"} /\ c.ref # 0 THEN "drop" ELSE "end"
    OBVIOUS
  <2>2. row' = new /\ req' = [req EXCEPT ![a].pc = pc]
    BY <1>2, <1>5, <1>8, <2>1 DEF Provider!Commit, Provider!FlushOK
  <2>3. c \in ProvRows /\ c.ref \in Nat /\ c.bv \in Nat /\ c.ver \in Nat /\ q.ref \in Nat /\ row.ref \in Nat
    BY <1>1, <1>2, <1>3 DEF Errands, ProvRows
  <2>4. /\ Fits(c) /\ c.ver < MaxVer + 2 /\ c.ref <= refs
        /\ q.op = "write" => /\ q.ref \in 1..refs /\ q.ref # row.ref
                             /\ <<q.ref, c.bv + 1>> \in blobs \/ q.ref \in drifted
    BY <1>2, <1>3 DEF ErrandSound, Writes
  <2>5. q.op = "write" => c.ref # q.ref
    BY <1>2, <1>3 DEF ProvTyped, Fresh, Writes
  <2>6. /\ new \in ProvRows /\ new.ref = (IF w.ref # c.ref THEN w.ref ELSE row.ref)
        /\ new.bv = (IF w.bv # c.bv THEN w.bv ELSE row.bv) /\ new.ver = (IF w.ver # c.ver THEN w.ver ELSE row.ver)
    BY <1>1, <1>2, <1>4, <2>3, MergedTyped
  <2>7. new.ver \in 1..MaxVer + 2 + 1
    BY <1>4, <2>3, <2>4, <2>6
  <2>8. \/ q.op = "write" /\ new.ref = q.ref /\ new.bv = c.bv + 1
        \/ q.op = "delete" /\ new.ref = 0 /\ c.ref # 0
        \/ new.ref = row.ref /\ new.bv = row.bv /\ (q.op = "delete" => c.ref = 0) /\ q.op # "write"
    <3>1. CASE q.op = "write"
      <4>1. c.bv + 1 # c.bv
        BY <2>3
      <4> QED BY <1>4, <2>5, <2>6, <3>1, <4>1
    <3>2. CASE q.op = "delete"
      <4>1. c.ref = 0 <=> c.bv = 0
        BY <2>4 DEF Fits
      <4> QED BY <1>4, <2>6, <3>2, <4>1
    <3>3. CASE q.op \notin {"write", "delete"}
      BY <1>4, <2>6, <3>3
    <3> QED BY <3>1, <3>2, <3>3
  <2>9. PICK p : p = [q EXCEPT !.pc = pc]
    OBVIOUS
  <2>10. p \in Errands /\ p.pc = pc /\ p.copy = c /\ pc \in {"drop", "end"}
    BY <1>2, <1>3, <2>1, <2>9 DEF Errands
  <2>11. req' \in [Admins -> Errands] /\ req'[a] = p /\ \A b \in Admins : b # a => req'[b] = req[b]
    BY <1>1, <1>2, <2>2, <2>9, <2>10
  <2>12. new.ref <= refs /\ (new.ref # 0 /\ new.ref \notin drifted => <<new.ref, new.bv>> \in blobs)
    <3>1. row.ref # 0 /\ row.ref \notin drifted => <<row.ref, row.bv>> \in blobs
      BY DEF ProvTyped
    <3> QED BY <1>1, <2>4, <2>8, <3>1
  <2>13. pc = "drop" => c.ref # 0 /\ new.ref # c.ref
    BY <2>1, <2>5, <2>8
  <2>14. ASSUME NEW b \in Admins PROVE ErrandSound(req[b], MaxVer + 2)'
    <3>1. CASE b = a
      BY <1>6, <2>2, <2>4, <2>10, <2>11, <2>13, <3>1 DEF ErrandSound, Writes
    <3>2. CASE b # a
      <4>1. req'[b] = req[b] /\ ErrandSound(req[b], MaxVer + 2) /\ req[b] \in Errands
        BY <1>1, <2>11, <3>2
      <4>2. Writes(req[b]) => req[b].ref # new.ref
        <5>1. Writes(req[b]) => req[b].ref # 0 /\ req[b].ref # row.ref
          BY <1>1, <4>1 DEF ErrandSound
        <5>2. Writes(req[b]) /\ q.op = "write" => q.ref # req[b].ref
          BY <1>2, <1>3, <3>2 DEF ProvTyped, Fresh, Writes
        <5> QED BY <2>8, <5>1, <5>2
      <4>3. req[b].pc = "drop" => req[b].copy.ref # new.ref
        <5>1. req[b].pc = "drop" => req[b].copy.ref # 0 /\ req[b].copy.ref # row.ref
          BY <4>1 DEF ErrandSound
        <5>2. q.op = "write" => q.ref # req[b].copy.ref
          BY <1>2, <1>3 DEF ProvTyped, Fresh, Writes
        <5> QED BY <2>8, <5>1, <5>2
      <4>4. PICK x : x = req[b] /\ x = req'[b]
        BY <4>1
      <4>5. ErrandSound(x, MaxVer + 2) /\ (Writes(x) => x.ref # row'.ref) /\ (x.pc = "drop" => x.copy.ref # row'.ref)
        BY <2>2, <4>1, <4>2, <4>3, <4>4
      <4>6. ErrandSound(x, MaxVer + 2)'
        BY <1>6, <4>5 DEF ErrandSound, Writes
      <4> QED BY <4>4, <4>6
    <3> QED BY <3>1, <3>2
  <2>15. Fresh'
    <3>1. ASSUME NEW b \in Admins, NEW d \in Admins, Writes(req'[b])
          PROVE  req'[d].copy.ref # req'[b].ref /\ (d # b /\ Writes(req'[d]) => req'[d].ref # req'[b].ref)
      <4>1. req'[d].copy = req[d].copy /\ b # a /\ req'[b] = req[b]
        BY <1>2, <2>10, <2>11, <3>1 DEF Writes
      <4>2. Writes(req'[d]) => req'[d] = req[d]
        BY <2>10, <2>11 DEF Writes
      <4> QED BY <3>1, <4>1, <4>2 DEF ProvTyped, Fresh
    <3> QED BY <3>1 DEF Fresh, Writes
  <2>16. seen' \in [Admins -> ProvRows] /\ chat' \in Talks
    BY <1>6 DEF ProvTyped
  <2> QED BY <1>1, <1>6, <1>8, <2>2, <2>6, <2>7, <2>11, <2>12, <2>14, <2>15, <2>16 DEF ProvTyped, Fits
<1> QED BY <1>7, <1>8

LEMMA ProviderRequest ==
    ASSUME ProvTyped(MaxVer + 2), NEW a \in Admins, Provider!Request(a)
    PROVE  ProvTyped(MaxVer + 2)'
<1> USE ProviderNames
<1>1. /\ row \in ProvRows /\ req \in [Admins -> Errands] /\ seen \in [Admins -> ProvRows] /\ chat \in Talks
      /\ row.url \in Urls \cup {"none"} /\ row.ref \in Nat
  BY DEF ProvTyped, ProvRows
<1>2. CASE Provider!get_state(a)
  <2>1. seen' \in [Admins -> ProvRows]
    BY <1>1, <1>2 DEF Provider!get_state
  <2> QED BY <1>1, <1>2, <2>1, ProviderOthers DEF Provider!get_state
<1>3. CASE Provider!BeginWrite(a)
  BY <1>3, ProviderBegins DEF Provider!BeginWrite
<1>4. CASE Provider!BeginTest(a)
  BY <1>1, <1>4, ProviderBegins DEF Provider!BeginTest
<1>5. CASE Provider!BeginSelect(a)
  <2>1. PICK kind \in Kinds : Provider!Begins(a, "select", "commit", kind, 0)
    BY <1>5 DEF Provider!BeginSelect, Kinds
  <2> QED BY <2>1, ProviderBegins
<1>6. CASE Provider!BeginActivate(a)
  BY <1>6, ProviderBegins DEF Provider!BeginActivate
<1>7. CASE Provider!BeginDelete(a)
  BY <1>7, ProviderBegins DEF Provider!BeginDelete
<1>8. CASE Provider!BeginReconcile(a)
  <2>1. PICK pc \in {"commit", "end"} : Provider!Begins(a, "reconcile", pc, "none", 0)
    BY <1>8 DEF Provider!BeginReconcile
  <2> QED BY <2>1, ProviderBegins
<1>9. CASE Provider!store_credential(a)
  BY <1>9, ProviderStore
<1>10. CASE Provider!probe_models(a)
  BY <1>10, ProviderEnds DEF Provider!probe_models
<1>11. CASE Provider!Commit(a)
  BY <1>11, ProviderCommit
<1>12. CASE Provider!delete_credential(a)
  BY <1>12, ProviderDrop
<1>13. CASE Provider!Audited(a)
  BY <1>13, ProviderEnds DEF Provider!Audited
<1>14. CASE Provider!Fails(a)
  <2>1. \/ req' = [req EXCEPT ![a] = NoErrand]
        \/ req[a].pc = "drop" /\ req' = [req EXCEPT ![a].pc = "end"]
    BY <1>1, <1>14 DEF Provider!Fails
  <2> QED BY <1>14, <2>1, ProviderEnds DEF Provider!Fails
<1> QED BY <1>2, <1>3, <1>4, <1>5, <1>6, <1>7, <1>8, <1>9, <1>10, <1>11, <1>12, <1>13, <1>14 DEF Provider!Request

\* The chat reads the row, the envelope and the key.
LEMMA ProviderChat ==
    ASSUME ProvTyped(MaxVer + 2), \/ Provider!load_active_compatible_binding \/ Provider!get_envelope \/ Provider!load_plaintext
                           \/ Provider!ChatEnds
    PROVE  /\ chat' \in Talks /\ UNCHANGED <<row, blobs, refs, req, seen, proven, drifted>>
           /\ \/ chat'.pc = "idle"
              \/ chat.pc # "idle" /\ chat'.url = chat.url /\ chat'.ref = chat.ref
              \/ row.state = "verified" /\ chat'.url = row.url /\ chat'.ref = row.ref
<1> USE ProviderNames
<1>1. row \in ProvRows /\ chat \in Talks /\ row.url \in Urls \cup {"none"} /\ row.ref \in Nat /\ row.bv \in Nat
  BY DEF ProvTyped, ProvRows
<1>2. Provider!NoChat \in Talks /\ Provider!NoChat.pc = "idle"
  BY DEF Provider!NoChat, Talks
<1>3. CASE Provider!load_active_compatible_binding
  <2>1. PICK t : t = [pc |-> "envelope", url |-> row.url, ref |-> row.ref, bv |-> row.bv]
    OBVIOUS
  <2>2. t \in Talks /\ t.url = row.url /\ t.ref = row.ref
    BY <1>1, <2>1 DEF Talks
  <2>3. chat' = t /\ row.state = "verified"
    BY <1>3, <2>1 DEF Provider!load_active_compatible_binding, Provider!_compatible_proof_bound
  <2> QED BY <1>3, <2>2, <2>3 DEF Provider!load_active_compatible_binding
<1>4. ASSUME NEW pc \in {"load", "sent"}, chat.pc # "idle",
             chat' = Provider!NoChat \/ chat' = [chat EXCEPT !.pc = pc]
      PROVE  /\ chat' \in Talks
             /\ chat'.pc = "idle" \/ (chat.pc # "idle" /\ chat'.url = chat.url /\ chat'.ref = chat.ref)
  <2>1. PICK t : t = [chat EXCEPT !.pc = pc]
    OBVIOUS
  <2>2. t \in Talks /\ t.url = chat.url /\ t.ref = chat.ref
    BY <1>1, <2>1 DEF Talks
  <2> QED BY <1>2, <1>4, <2>1, <2>2
<1>5. CASE Provider!get_envelope
  <2>1. chat.pc # "idle" /\ (chat' = Provider!NoChat \/ chat' = [chat EXCEPT !.pc = "load"])
    BY <1>5 DEF Provider!get_envelope
  <2> QED BY <1>4, <1>5, <2>1 DEF Provider!get_envelope
<1>6. CASE Provider!load_plaintext
  <2>1. chat.pc # "idle" /\ (chat' = Provider!NoChat \/ chat' = [chat EXCEPT !.pc = "sent"])
    BY <1>6 DEF Provider!load_plaintext
  <2> QED BY <1>4, <1>6, <2>1 DEF Provider!load_plaintext
<1>7. CASE Provider!ChatEnds
  BY <1>2, <1>7 DEF Provider!ChatEnds
<1> QED BY <1>3, <1>5, <1>6, <1>7

LEMMA ProviderStep ==
    ASSUME ProvTyped(MaxVer + 2), Provider!Next
    PROVE  ProvTyped(MaxVer + 2)'
<1> USE ProviderNames
<1>1. seen \in [Admins -> ProvRows]
  BY DEF ProvTyped
<1>2. ASSUME \/ Provider!load_active_compatible_binding \/ Provider!get_envelope \/ Provider!load_plaintext \/ Provider!ChatEnds
      PROVE  ProvTyped(MaxVer + 2)'
  BY <1>1, <1>2, ProviderChat, ProviderOthers
<1>3. CASE Provider!Crash
  <2>1. chat' \in Talks
    BY <1>3 DEF Provider!Crash, Provider!NoChat, Talks
  <2> QED BY <1>1, <1>3, <2>1, ProviderOthers DEF Provider!Crash
<1> QED BY <1>2, <1>3, ProviderRequest, ProviderDrift DEF Provider!Next

LEMMA ProviderTypes ==
    ASSUME ProvTyped(MaxVer + 2)
    PROVE  Provider!TypeOK /\ Provider!BlobBound
<1> USE ProviderNames
<1>1. /\ row.sel \in {"ollama", "compatible"} /\ row.url \in Urls \cup {"none"} /\ row.ref \in 0..refs
      /\ row.ver \in 1..MaxVer + 2 + 1 /\ refs \in 0..MaxRefs /\ chat.pc \in {"idle", "envelope", "load", "sent"}
  BY DEF ProvTyped, ProvRows, Kinds, Talks
<1>2. \A b \in blobs : b[1] \in 1..refs
  BY DEF ProvTyped
<1>3. \A a \in Admins : req[a].op \in Provider!Ops \cup {"none"}
  BY DEF ProvTyped, Errands, Provider!Ops
<1>4. Provider!Coherent(row) /\ Provider!BlobBound
  BY DEF ProvTyped, Provider!BlobBound, Provider!_envelope_matches
<1> QED BY <1>1, <1>2, <1>3, <1>4 DEF Provider!TypeOK

-----------------------------------------------------------------------------
(* One change of the provider at a time.                                   *)

\* Before its commit a request has the row as it is, and an administrator who
\* writes, selects or deletes has been shown it; a probed endpoint is proven.
InStep(a) ==
    /\ req[a].pc \in {"store", "probe", "commit"} => req[a].copy = row
    /\ req[a].pc \in {"store", "commit"} /\ req[a].op \in {"write", "select", "delete"} => seen[a].ver = row.ver
    /\ req[a].pc = "probe" => req[a].url = row.url /\ req[a].ref = row.ref
    /\ req[a].pc = "commit" /\ req[a].op = "test" => <<row.url, row.ref>> \in proven

\* A version is the row's own, what is verified is proven, and so is what a chat
\* is sent to.
ProvSerial ==
    /\ \A a, b \in Admins : req[a].pc # "idle" /\ req[b].pc # "idle" => a = b
    /\ \A a \in Admins : InStep(a)
    /\ \A a \in Admins : seen[a].ver <= row.ver /\ (seen[a].ver = row.ver => seen[a] = row)
    /\ row.state = "verified" => <<row.url, row.ref>> \in proven
    /\ chat.pc # "idle" => <<chat.url, chat.ref>> \in proven

LEMMA ProvSerialInit ==
    ASSUME Provider!Init
    PROVE  ProvSerial
<1> USE ProviderNames, NoProvTyped
<1>1. row = NoProv /\ req = [a \in Admins |-> NoErrand] /\ seen = [a \in Admins |-> NoProv]
  BY DEF Provider!Init
<1>2. chat.pc = "idle" /\ row.state = "absent" /\ row.ver = 1
  BY <1>1 DEF Provider!Init, Provider!NoChat, NoProv
<1>3. \A a \in Admins : req[a].pc = "idle" /\ seen[a] = row
  BY <1>1
<1> QED BY <1>2, <1>3 DEF ProvSerial, InStep

\* When everybody is idle, or one request goes on and the row stays.
LEMMA SerialGoes ==
    ASSUME ProvSerial, NEW a \in Admins, \A b \in Admins : b # a => req'[b] = req[b] /\ req[b].pc = "idle",
           InStep(a)', UNCHANGED <<row, seen, chat>>, proven \subseteq proven'
    PROVE  ProvSerial'
<1>1. \A b \in Admins : b # a => req'[b].pc = "idle"
  OBVIOUS
<1>2. ASSUME NEW b \in Admins PROVE InStep(b)'
  <2>1. CASE b = a
    BY <2>1
  <2>2. CASE b # a
    BY <1>1, <2>2 DEF InStep
  <2> QED BY <2>1, <2>2
<1>3. \A b, d \in Admins : req'[b].pc # "idle" /\ req'[d].pc # "idle" => b = d
  BY <1>1
<1>4. /\ \A b \in Admins : seen'[b].ver <= row'.ver /\ (seen'[b].ver = row'.ver => seen'[b] = row')
      /\ row'.state = "verified" => <<row'.url, row'.ref>> \in proven'
      /\ chat'.pc # "idle" => <<chat'.url, chat'.ref>> \in proven'
  BY DEF ProvSerial
<1> QED BY <1>2, <1>3, <1>4 DEF ProvSerial

LEMMA SerialBegins ==
    ASSUME ProvTyped(MaxVer + 2), ProvSerial, NEW a \in Admins, NEW op, NEW pc, NEW u, NEW k,
           Provider!Begins(a, op, pc, u, k),
           op \in {"write", "test", "select", "activate", "delete", "reconcile"}, k \in Nat,
           pc \in {"store", "probe", "commit", "end"}, u \in Urls \cup {"none"} \cup Kinds,
           pc = "store" => op = "write" /\ u \in Urls, pc = "probe" => op = "test" /\ u = row.url /\ k = row.ref,
           pc = "commit" => op \in {"select", "delete", "reconcile"} /\ (op = "select" => u \in Kinds)
    PROVE  ProvSerial'
<1>1. \A b \in Admins : req[b].pc = "idle"
  BY DEF Provider!Begins, Provider!Free
<1>2. op \in {"test", "reconcile"} \/ seen[a].ver = row.ver
  BY DEF Provider!Begins, Provider!_check_version
<1>3. /\ UNCHANGED <<row, seen, chat, proven>>
      /\ req'[a] = [op |-> op, pc |-> pc, copy |-> row, url |-> u, ref |-> k]
      /\ \A b \in Admins : b # a => req'[b] = req[b]
  BY ProviderBegins
<1>4. InStep(a)'
  BY <1>2, <1>3 DEF InStep
<1> QED BY <1>1, <1>3, <1>4, SerialGoes

\* The commit of a request that has read the row as it is.
LEMMA SerialCommit ==
    ASSUME ProvTyped(MaxVer + 2), ProvSerial, NEW a \in Admins, Provider!Commit(a)
    PROVE  ProvSerial'
<1> USE ProviderNames
<1>1. /\ req \in [Admins -> Errands] /\ row \in ProvRows /\ seen \in [Admins -> ProvRows]
      /\ \A b \in Admins : ErrandSound(req[b], MaxVer + 2)
  BY DEF ProvTyped
<1>2. PICK q, w : q = req[a] /\ w = Provider!NewRow(q)
  OBVIOUS
<1>3. q \in Errands /\ q.pc = "commit" /\ ErrandSound(q, MaxVer + 2) /\ q.copy = row /\ InStep(a)
  BY <1>1, <1>2 DEF Provider!Commit, ProvSerial, InStep
<1>4. /\ w \in ProvRows /\ w.ver = row.ver + 1
      /\ q.op = "write" => w.state = "unverified"
      /\ q.op = "delete" => w.state = "absent"
      /\ q.op \notin {"write", "delete"} => w.ref = row.ref /\ w.url = row.url
      /\ q.op = "select" => w.state = row.state
      /\ q.op = "reconcile" => w.state # "verified"
  BY <1>2, <1>3, ProviderNewRow
<1>5. PICK new : new = Provider!Merge(row, w)
  OBVIOUS
<1>6. DOMAIN row = {"sel", "state", "url", "ref", "bv", "proof", "ver"}
  BY <1>1 DEF ProvRows
<1>7. \A f \in DOMAIN row : new[f] = w[f]
  BY <1>5, <1>6 DEF Provider!Merge
<1>8. new.ver = row.ver + 1 /\ new.state = w.state /\ new.url = w.url /\ new.ref = w.ref
  BY <1>4, <1>6, <1>7
<1>9. UNCHANGED <<seen, chat, proven>>
  BY DEF Provider!Commit
<1>10. \A b \in Admins : b # a => req[b].pc = "idle"
  BY <1>2, <1>3 DEF ProvSerial
<1>11. /\ \A b \in Admins : b # a => req'[b] = req[b]
       /\ \/ row' = new /\ req'[a].pc \in {"drop", "end"}
          \/ row' = row /\ req'[a] = NoErrand
  BY <1>1, <1>2, <1>3, <1>5 DEF Provider!Commit, Errands
<1>12. CASE row' = row /\ req'[a] = NoErrand
  <2>1. InStep(a)'
    BY <1>12, NoProvTyped DEF InStep
  <2> QED BY <1>9, <1>10, <1>11, <1>12, <2>1, SerialGoes
<1>13. CASE row' = new /\ req'[a].pc \in {"drop", "end"}
  <2>1. \A b \in Admins : InStep(b)'
    BY <1>10, <1>11, <1>13 DEF InStep
  <2>2. \A b, d \in Admins : req'[b].pc # "idle" /\ req'[d].pc # "idle" => b = d
    BY <1>10, <1>11
  <2>3. ASSUME NEW b \in Admins PROVE seen'[b].ver < row'.ver
    <3>1. seen[b].ver \in Nat /\ row.ver \in Nat
      BY <1>1 DEF ProvRows
    <3>2. seen[b].ver <= row.ver
      BY DEF ProvSerial
    <3> QED BY <1>8, <1>9, <1>13, <3>1, <3>2
  <2>4. \A b \in Admins : seen'[b].ver <= row'.ver /\ (seen'[b].ver = row'.ver => seen'[b] = row')
    <3>1. ASSUME NEW b \in Admins PROVE seen'[b].ver \in Nat /\ row'.ver \in Nat
      BY <1>1, <1>8, <1>9, <1>13 DEF ProvRows
    <3> QED BY <2>3, <3>1
  <2>5. row'.state = "verified" => <<row'.url, row'.ref>> \in proven'
    <3>1. SUFFICES ASSUME w.state = "verified" PROVE <<w.url, w.ref>> \in proven
      BY <1>8, <1>9, <1>13
    <3>2. q.op \in {"test", "select"}
      BY <1>3, <1>4, <3>1 DEF ErrandSound
    <3>3. CASE q.op = "test"
      BY <1>2, <1>3, <1>4, <3>3 DEF InStep
    <3>4. CASE q.op = "select"
      BY <1>4, <3>1, <3>4 DEF ProvSerial
    <3> QED BY <3>2, <3>3, <3>4
  <2>6. chat'.pc # "idle" => <<chat'.url, chat'.ref>> \in proven'
    BY <1>9 DEF ProvSerial
  <2> QED BY <2>1, <2>2, <2>4, <2>5, <2>6 DEF ProvSerial
<1> QED BY <1>11, <1>12, <1>13

LEMMA SerialRequest ==
    ASSUME ProvTyped(MaxVer + 2), ProvSerial, NEW a \in Admins, Provider!Request(a)
    PROVE  ProvSerial'
<1> USE ProviderNames
<1>1. /\ row \in ProvRows /\ req \in [Admins -> Errands] /\ seen \in [Admins -> ProvRows]
      /\ row.url \in Urls \cup {"none"} /\ row.ref \in Nat /\ row.ver \in Nat
      /\ ErrandSound(req[a], MaxVer + 2) /\ InStep(a)
  BY DEF ProvTyped, ProvRows, ProvSerial
<1>2. req[a].pc # "idle" => \A b \in Admins : b # a => req[b].pc = "idle"
  BY DEF ProvSerial
<1>3. CASE Provider!get_state(a)
  <2>1. /\ UNCHANGED <<row, req, chat, proven>> /\ req[a].pc = "idle"
        /\ seen'[a] = row /\ \A b \in Admins : b # a => seen'[b] = seen[b]
    BY <1>1, <1>3 DEF Provider!get_state
  <2>2. \A b \in Admins : InStep(b)'
    BY <2>1 DEF ProvSerial, InStep
  <2>3. \A b \in Admins : seen'[b].ver <= row.ver /\ (seen'[b].ver = row.ver => seen'[b] = row)
    BY <1>1, <2>1 DEF ProvSerial
  <2> QED BY <2>1, <2>2, <2>3 DEF ProvSerial
<1>4. CASE Provider!BeginWrite(a)
  <2>1. PICK u \in Urls : Provider!Begins(a, "write", "store", u, 0)
    BY <1>4 DEF Provider!BeginWrite
  <2> QED BY <2>1, SerialBegins
<1>5. CASE Provider!BeginTest(a)
  BY <1>1, <1>5, SerialBegins DEF Provider!BeginTest
<1>6. CASE Provider!BeginSelect(a)
  <2>1. PICK kind \in Kinds : Provider!Begins(a, "select", "commit", kind, 0)
    BY <1>6 DEF Provider!BeginSelect, Kinds
  <2> QED BY <2>1, SerialBegins
<1>7. CASE Provider!BeginActivate(a)
  BY <1>7, SerialBegins DEF Provider!BeginActivate
<1>8. CASE Provider!BeginDelete(a)
  BY <1>8, SerialBegins DEF Provider!BeginDelete
<1>9. CASE Provider!BeginReconcile(a)
  <2>1. PICK pc \in {"commit", "end"} : Provider!Begins(a, "reconcile", pc, "none", 0)
    BY <1>9 DEF Provider!BeginReconcile
  <2> QED BY <2>1, SerialBegins
<1>10. CASE Provider!store_credential(a)
  <2>1. /\ req[a].pc = "store" /\ req' = [req EXCEPT ![a].pc = "commit", ![a].ref = refs + 1]
        /\ UNCHANGED <<row, seen, chat, proven>> /\ req[a].op = "write"
    BY <1>1, <1>10 DEF Provider!store_credential, ErrandSound
  <2>2. /\ req'[a].pc = "commit" /\ req'[a].op = "write" /\ req'[a].copy = req[a].copy
        /\ \A b \in Admins : b # a => req'[b] = req[b]
    BY <1>1, <2>1 DEF Errands
  <2>3. InStep(a)'
    BY <1>1, <2>1, <2>2 DEF InStep
  <2> QED BY <1>2, <2>1, <2>2, <2>3, SerialGoes
<1>11. CASE Provider!probe_models(a)
  <2>1. req[a].pc = "probe" /\ UNCHANGED <<row, seen, chat>> /\ req[a].op = "test"
    BY <1>1, <1>11 DEF Provider!probe_models, ErrandSound
  <2>2. \A b \in Admins : b # a => req'[b] = req[b]
    BY <1>1, <1>11 DEF Provider!probe_models
  <2>3. proven \subseteq proven' /\ InStep(a)'
    <3>1. CASE req' = [req EXCEPT ![a] = NoErrand] /\ UNCHANGED proven
      <4>1. req'[a].pc = "idle"
        BY <1>1, <3>1, NoProvTyped
      <4> QED BY <3>1, <4>1 DEF InStep
    <3>2. CASE /\ proven' = proven \cup {<<req[a].url, req[a].ref>>}
               /\ req' = [req EXCEPT ![a].pc = "commit"]
      <4>1. req'[a].pc = "commit" /\ req'[a].op = "test" /\ req'[a].copy = req[a].copy
        BY <1>1, <2>1, <3>2 DEF Errands
      <4> QED BY <1>1, <2>1, <3>2, <4>1 DEF InStep
    <3> QED BY <1>11, <3>1, <3>2 DEF Provider!probe_models
  <2> QED BY <1>2, <2>1, <2>2, <2>3, SerialGoes
<1>12. CASE Provider!Commit(a)
  BY <1>12, SerialCommit
<1>13. ASSUME req[a].pc # "idle", UNCHANGED <<row, seen, chat, proven>>,
              req' = [req EXCEPT ![a] = NoErrand] \/ req' = [req EXCEPT ![a].pc = "end"]
       PROVE  ProvSerial'
  <2>1. req'[a].pc \in {"idle", "end"} /\ \A b \in Admins : b # a => req'[b] = req[b]
    BY <1>1, <1>13, NoProvTyped DEF Errands
  <2>2. InStep(a)'
    BY <2>1 DEF InStep
  <2> QED BY <1>2, <1>13, <2>1, <2>2, SerialGoes
<1>14. CASE Provider!delete_credential(a)
  BY <1>13, <1>14 DEF Provider!delete_credential
<1>15. CASE Provider!Audited(a)
  BY <1>13, <1>15 DEF Provider!Audited
<1>16. CASE Provider!Fails(a)
  <2>1. /\ req' = [req EXCEPT ![a] = NoErrand] \/ req' = [req EXCEPT ![a].pc = "end"]
        /\ req[a].pc # "idle" /\ UNCHANGED <<row, seen, chat, proven>>
    BY <1>1, <1>16 DEF Provider!Fails
  <2> QED BY <1>13, <2>1
<1> QED BY <1>3, <1>4, <1>5, <1>6, <1>7, <1>8, <1>9, <1>10, <1>11, <1>12, <1>14, <1>15, <1>16 DEF Provider!Request

LEMMA ProvSerialStep ==
    ASSUME ProvTyped(MaxVer + 2), ProvSerial, Provider!Next
    PROVE  ProvSerial'
<1> USE ProviderNames
<1>1. ASSUME \/ Provider!load_active_compatible_binding \/ Provider!get_envelope \/ Provider!load_plaintext
             \/ Provider!ChatEnds
      PROVE  ProvSerial'
  <2>1. /\ UNCHANGED <<row, blobs, refs, req, seen, proven, drifted>>
        /\ \/ chat'.pc = "idle"
           \/ chat.pc # "idle" /\ chat'.url = chat.url /\ chat'.ref = chat.ref
           \/ row.state = "verified" /\ chat'.url = row.url /\ chat'.ref = row.ref
    BY <1>1, ProviderChat
  <2>2. chat'.pc # "idle" => <<chat'.url, chat'.ref>> \in proven
    BY <2>1 DEF ProvSerial
  <2>3. \A a \in Admins : InStep(a)'
    BY <2>1 DEF ProvSerial, InStep
  <2> QED BY <2>1, <2>2, <2>3 DEF ProvSerial
<1>2. CASE Provider!Drift
  <2>1. UNCHANGED <<row, req, seen, chat, proven>>
    BY <1>2 DEF Provider!Drift
  <2>2. \A a \in Admins : InStep(a)'
    BY <2>1 DEF ProvSerial, InStep
  <2> QED BY <2>1, <2>2 DEF ProvSerial
<1>3. CASE Provider!Crash
  <2>1. UNCHANGED <<row, seen, proven>> /\ chat'.pc = "idle" /\ \A a \in Admins : req'[a] = NoErrand
    BY <1>3 DEF Provider!Crash, Provider!NoChat
  <2>2. \A a \in Admins : req'[a].pc = "idle"
    BY <2>1, NoProvTyped
  <2>3. \A a \in Admins : InStep(a)'
    BY <2>2 DEF InStep
  <2> QED BY <2>1, <2>2, <2>3 DEF ProvSerial
<1> QED BY <1>1, <1>2, <1>3, SerialRequest DEF Provider!Next

\* Who replaces the configuration was shown it.
LEMMA NothingLost ==
    ASSUME ProvSerial
    PROVE  Provider!NoLostUpdate
BY DEF ProvSerial, InStep, Provider!NoLostUpdate

-----------------------------------------------------------------------------
(* The provider in the suite.                                              *)

ProvInv ==
    /\ part = "rivals" => ProvTyped(MaxVer)
    /\ part = "provider" => ProvTyped(MaxVer + 2) /\ ProvSerial

LEMMA ProvInvInit ==
    ASSUME Init
    PROVE  ProvInv
<1>1. part = "rivals" => Rivals!Init
  BY DEF Init
<1>2. part = "provider" => Provider!Init
  BY DEF Init
<1> QED BY <1>1, <1>2, RivalsInit, ProviderInit, ProvSerialInit DEF ProvInv

LEMMA ProvPartStep ==
    ASSUME Next
    PROVE  /\ part' = part
           /\ part = "rivals" => Rivals!Next
           /\ part = "provider" => Provider!Next
BY DEF Next, NotProviderConfig, NotLlmConnections, NotThinkFilter, NotAiChat

LEMMA ProvInvStep ==
    ASSUME ProvInv, [Next]_vars
    PROVE  ProvInv'
<1>1. CASE UNCHANGED vars
  <2>1. UNCHANGED <<part, row, blobs, refs, req, seen, chat, proven, drifted>>
    BY <1>1 DEF vars
  <2>2. \A v : ProvTyped(v) => ProvTyped(v)'
    BY <2>1 DEF ProvTyped, ErrandSound, Fresh, Writes
  <2>3. ProvSerial => ProvSerial'
    BY <2>1 DEF ProvSerial, InStep
  <2>4. (ProvTyped(MaxVer) => ProvTyped(MaxVer)') /\ (ProvTyped(MaxVer + 2) => ProvTyped(MaxVer + 2)')
    BY <2>2
  <2> QED BY <2>1, <2>3, <2>4 DEF ProvInv
<1>2. CASE Next
  <2>1. part' = "rivals" => ProvTyped(MaxVer)'
    BY <1>2, ProvPartStep, RivalsStep DEF ProvInv
  <2>2. part' = "provider" => ProvTyped(MaxVer + 2)' /\ ProvSerial'
    BY <1>2, ProvPartStep, ProviderStep, ProvSerialStep DEF ProvInv
  <2> QED BY <2>1, <2>2 DEF ProvInv
<1> QED BY <1>1, <1>2

\* For any administrators, endpoints, keys and versions (write_candidate,
\* store_credential, delete_credential, load_active_compatible_binding): the row
\* never names a key the store does not hold with the row's binding version, with
\* overlapping writers, failures and crashes; with one change at a time a key is
\* sent only to an endpoint that a probe has accepted with it, and a change
\* replaces the configuration its administrator was shown.
THEOREM AiProviderProven == Spec => ProviderProven
<1>1. Init => ProvInv
  BY ProvInvInit
<1>2. ProvInv /\ [Next]_vars => ProvInv'
  BY ProvInvStep
<1>3. ProvInv => (part = "rivals" => Rivals!TypeOK /\ Rivals!BlobBound)
  BY RivalsTypes DEF ProvInv
<1>4. ProvInv => (part = "provider" => Provider!TypeOK /\ Provider!BlobBound /\ Provider!ServesProven)
  <2>1. ProvSerial => Provider!ServesProven
    BY DEF ProvSerial, Provider!ServesProven
  <2> QED BY <2>1, ProviderTypes DEF ProvInv
<1>5. ProvInv /\ [Next]_vars => [part = "provider" => Provider!NoLostUpdate]_vars
  BY ProvPartStep, NothingLost DEF ProvInv
<1> QED BY <1>1, <1>2, <1>3, <1>4, <1>5, PTL DEF Spec, ProviderProven

=============================================================================
