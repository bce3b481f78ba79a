--------------------------- MODULE MCPortal_proofs ---------------------------
(***************************************************************************)
(* The portal's invariants for every value of its constants: the parts of  *)
(* AccessControl by the lemmas about it, the gates of service modules, the *)
(* newsletters and the credential rotation by invariants of their own.     *)
(***************************************************************************)
EXTENDS MCPortal, TLAPS

-----------------------------------------------------------------------------
(* The gates of service modules.                                           *)

\* A change under way names columns, with values a gate can have there.
OneChanges ==
    /\ req = [r \in {r1} |-> req[r]]
    /\ \A r \in {r1} : req[r] = One!NoReq \/
          /\ req[r].module \in Services /\ req[r].cols \in SUBSET One!Columns
          /\ \E v \in One!Gates : \A c \in req[r].cols : req[r].new[c] = v[c]

\* The same of the changes of many editors.
TwoChanges ==
    /\ req = [r \in Editors |-> req[r]]
    /\ \A r \in Editors : req[r] = Two!NoReq \/
          /\ req[r].module \in Contested /\ req[r].cols \in SUBSET Two!Columns
          /\ \E v \in Two!Gates : \A c \in req[r].cols : req[r].new[c] = v[c]

\* With one change at a time the row is still the one that the change was
\* validated against.
StillValid ==
    \A r \in {r1} : req[r] # One!NoReq =>
        One!validate_module_gate(One!Merge(row[req[r].module], req[r].new, req[r].cols))

OneInv == One!TypeOK /\ OneChanges /\ One!GateValid /\ StillValid
TwoInv == Two!TypeOK /\ TwoChanges

\* A row merged with columns of a gate is a gate (update_service_module).
LEMMA MergedGate ==
    ASSUME NEW old \in One!Gates, NEW v, NEW cols \in SUBSET One!Columns,
           \E w \in One!Gates : \A c \in cols : v[c] = w[c]
    PROVE  One!Merge(old, v, cols) \in One!Gates
<1>1. PICK w \in One!Gates : \A c \in cols : v[c] = w[c]
  OBVIOUS
<1>2. One!Merge(old, v, cols) = One!Merge(old, w, cols)
  BY <1>1 DEF One!Merge
<1>3. One!Merge(old, w, cols) \in One!Gates
  BY DEF One!Merge, One!Gates, One!Columns
<1> QED BY <1>2, <1>3

\* The same of the part with many editors, whose operators are the same.
LEMMA MergedGateTwo ==
    ASSUME NEW old \in Two!Gates, NEW v, NEW cols \in SUBSET Two!Columns,
           \E w \in Two!Gates : \A c \in cols : v[c] = w[c]
    PROVE  Two!Merge(old, v, cols) \in Two!Gates
<1>1. PICK w \in Two!Gates : \A c \in cols : v[c] = w[c]
  OBVIOUS
<1>2. Two!Merge(old, v, cols) = Two!Merge(old, w, cols)
  BY <1>1 DEF Two!Merge
<1>3. Two!Merge(old, w, cols) \in Two!Gates
  BY DEF Two!Merge, Two!Gates, Two!Columns
<1> QED BY <1>2, <1>3

\* Two rows that agree in the columns of a gate are both valid or both not.
LEMMA SameGate ==
    ASSUME NEW v, NEW w, One!validate_module_gate(v),
           v.visibility = w.visibility, v.permission = w.permission,
           v.rtype = w.rtype, v.rid = w.rid
    PROVE  One!validate_module_gate(w)
BY DEF One!validate_module_gate

\* With one change at a time a row never leaves the gates the policy allows.
LEMMA OneStep ==
    ASSUME OneInv, [One!Next]_(One!vars)
    PROVE  OneInv'
<1> USE DEF OneInv
<1>1. ASSUME NEW m \in Services, NEW v \in One!Gates, One!create_service_module(r1, m, v)
      PROVE  OneInv'
  <2>1. row' = [row EXCEPT ![m] = v] /\ UNCHANGED req /\ req[r1] = One!NoReq
    BY <1>1 DEF One!create_service_module
  <2>2. One!TypeOK'
    BY <2>1 DEF One!TypeOK
  <2>3. OneChanges' /\ StillValid'
    BY <2>1 DEF OneChanges, StillValid
  <2>4. One!GateValid'
    BY <1>1, <2>1 DEF One!GateValid, One!TypeOK, One!create_service_module
  <2> QED BY <2>2, <2>3, <2>4
<1>2. ASSUME NEW m \in Services, One!delete_service_module(r1, m)
      PROVE  OneInv'
  <2>1. row' = [row EXCEPT ![m] = One!NoRow] /\ UNCHANGED req /\ req[r1] = One!NoReq
    BY <1>2 DEF One!delete_service_module
  <2>2. One!TypeOK'
    BY <2>1 DEF One!TypeOK
  <2>3. OneChanges' /\ StillValid'
    BY <2>1 DEF OneChanges, StillValid
  <2>4. One!GateValid'
    BY <2>1 DEF One!GateValid, One!TypeOK
  <2> QED BY <2>2, <2>3, <2>4
<1>3. ASSUME NEW m \in Services, NEW v \in One!Gates, NEW cols \in One!Changes,
             One!LoadUpdate(r1, m, v, cols)
      PROVE  OneInv'
  <2>1. PICK written \in SUBSET cols :
          /\ written = {c \in cols : v[c] # row[m][c]}
          /\ req' = [req EXCEPT ![r1] = [module |-> m, cols |-> written,
                                         new |-> One!Merge(One!NoRow, v, written)]]
          /\ UNCHANGED row /\ One!validate_module_gate(One!Merge(row[m], v, cols))
    BY <1>3 DEF One!LoadUpdate
  <2>2. /\ req'[r1].module = m /\ req'[r1].cols = written
        /\ req'[r1].new = One!Merge(One!NoRow, v, written)
        /\ req' = [r \in {r1} |-> req'[r]]
    BY <2>1 DEF OneChanges
  <2>3. cols \in SUBSET One!Columns
    BY DEF One!Changes, One!Columns
  <2>4. \A c \in written : req'[r1].new[c] = v[c]
    BY <2>1, <2>2, <2>3 DEF One!Merge
  <2>5. One!TypeOK' /\ One!GateValid'
    BY <2>1, <2>2, <2>3 DEF One!TypeOK, One!GateValid
  <2>6. OneChanges'
    BY <2>2, <2>3, <2>4 DEF OneChanges
  <2>7. StillValid'
    <3> DEFINE was == One!Merge(row[m], v, cols)
               will == One!Merge(row[m], req'[r1].new, written)
    <3>1. \A c \in One!Columns : was[c] = will[c]
      BY <2>1, <2>2, <2>3, <2>4 DEF One!Merge
    <3>2. /\ was.visibility = will.visibility /\ was.permission = will.permission
          /\ was.rtype = will.rtype /\ was.rid = will.rid
      BY <3>1 DEF One!Columns
    <3>3. One!validate_module_gate(will)
      BY <2>1, <3>2, SameGate
    <3> QED BY <2>1, <2>2, <3>3 DEF StillValid
  <2> QED BY <2>5, <2>6, <2>7
<1>4. ASSUME One!CommitUpdate(r1)
      PROVE  OneInv'
  <2>1. PICK m \in Services : m = req[r1].module
    BY <1>4 DEF One!CommitUpdate, OneChanges
  <2> DEFINE new == One!Merge(row[m], req[r1].new, req[r1].cols)
  <2>2. /\ row' = row \/ (row' = [row EXCEPT ![m] = new] /\ row[m] # One!NoRow)
        /\ req' = [req EXCEPT ![r1] = One!NoReq] /\ req[r1] # One!NoReq
    BY <1>4, <2>1 DEF One!CommitUpdate
  <2>3. row[m] # One!NoRow => new \in One!Gates
    BY <2>1, <2>2, MergedGate DEF OneChanges, One!TypeOK
  <2>4. One!TypeOK'
    BY <2>2, <2>3 DEF One!TypeOK, OneChanges
  <2>5. OneChanges' /\ StillValid'
    BY <2>2 DEF OneChanges, StillValid
  <2>6. One!validate_module_gate(new)
    BY <2>1, <2>2 DEF StillValid
  <2>7. One!GateValid'
    BY <2>2, <2>6 DEF One!GateValid, One!TypeOK
  <2> QED BY <2>4, <2>5, <2>7
<1>5. CASE UNCHANGED One!vars
  BY <1>5 DEF One!vars, One!TypeOK, OneChanges, One!GateValid, StillValid
<1> QED BY <1>1, <1>2, <1>3, <1>4, <1>5 DEF One!Next

\* Many editors may leave partial gates, but only gates.
LEMMA TwoStep ==
    ASSUME TwoInv, [Two!Next]_(Two!vars)
    PROVE  TwoInv'
<1> USE DEF TwoInv
<1>1. ASSUME NEW m \in Contested, NEW v \in Two!Gates \cup {Two!NoRow},
             row' = [row EXCEPT ![m] = v], UNCHANGED req
      PROVE  TwoInv'
  BY <1>1 DEF Two!TypeOK, TwoChanges
<1>2. ASSUME NEW r \in Editors, NEW m \in Contested, NEW v \in Two!Gates,
             NEW cols \in Two!Changes, Two!LoadUpdate(r, m, v, cols)
      PROVE  TwoInv'
  <2>1. PICK written \in SUBSET cols :
          /\ req' = [req EXCEPT ![r] = [module |-> m, cols |-> written,
                                        new |-> Two!Merge(Two!NoRow, v, written)]]
          /\ UNCHANGED row
    BY <1>2 DEF Two!LoadUpdate
  <2>2. /\ req'[r].module = m /\ req'[r].cols = written
        /\ req'[r].new = Two!Merge(Two!NoRow, v, written)
        /\ \A s \in Editors \ {r} : req'[s] = req[s]
        /\ req' = [s \in Editors |-> req'[s]]
    BY <2>1 DEF TwoChanges
  <2>3. cols \in SUBSET Two!Columns
    BY DEF Two!Changes, Two!Columns
  <2>4. \A c \in written : req'[r].new[c] = v[c]
    BY <2>1, <2>2, <2>3 DEF Two!Merge
  <2>5. Two!TypeOK'
    BY <2>1, <2>2, <2>3 DEF Two!TypeOK
  <2>6. TwoChanges'
    BY <2>2, <2>3, <2>4 DEF TwoChanges
  <2> QED BY <2>5, <2>6
<1>3. ASSUME NEW r \in Editors, Two!CommitUpdate(r)
      PROVE  TwoInv'
  <2>1. PICK m \in Contested : m = req[r].module
    BY <1>3 DEF Two!CommitUpdate, TwoChanges
  <2> DEFINE new == Two!Merge(row[m], req[r].new, req[r].cols)
  <2>2. /\ row' = row \/ (row' = [row EXCEPT ![m] = new] /\ row[m] # Two!NoRow)
        /\ req' = [req EXCEPT ![r] = Two!NoReq] /\ req[r] # Two!NoReq
    BY <1>3, <2>1 DEF Two!CommitUpdate
  <2>3. row[m] # Two!NoRow => new \in Two!Gates
    BY <2>1, <2>2, MergedGateTwo DEF TwoChanges, Two!TypeOK
  <2>4. Two!TypeOK'
    BY <2>2, <2>3 DEF Two!TypeOK, TwoChanges
  <2>5. TwoChanges'
    BY <2>2 DEF TwoChanges
  <2> QED BY <2>4, <2>5
<1>4. CASE UNCHANGED Two!vars
  BY <1>4 DEF Two!vars, Two!TypeOK, TwoChanges
<1> QED BY <1>1, <1>2, <1>3, <1>4 DEF Two!Next, Two!create_service_module,
                                      Two!delete_service_module

\* Whatever is stored, the gate lets nobody pass whom one of its columns excludes:
\* this is a property of user_can_access_module alone.
LEMMA FailsClosed == Two!GateFailsClosed
BY DEF Two!GateFailsClosed, Two!public_service_modules, Two!user_can_access_module

-----------------------------------------------------------------------------
(* The rotation.                                                           *)

\* The types: a database is its accounts, sessions and ledger.
Prints == [pw : {0} \cup Rotations, ver : Nat, users : Nat, sess : BOOLEAN]
Ledgers == SUBSET [rotation : Rotations, post : Prints]
Dbs == [pw : {0} \cup Rotations, ver : Nat, users : Nat, sess : BOOLEAN, ledger : Ledgers]
Domains == {{"backend"}, {"root", "backend"}}
Roots(D) == [bundle : {0} \cup Rotations, at : {"none", "pending", "final"}, users : Nat,
             pend : SUBSET D, recovery : Dbs, cur : 0..6, prev : 0..5, quar : SUBSET D,
             manifest : SUBSET D]
States == {"none", "ready", "told", "guard", "done"}

RotTypedIn(D) ==
    /\ db \in Dbs
    /\ env \in [D -> {0, Rotation!Missing} \cup Rotations]
    /\ sec \in Roots(D)
    /\ txn \in [st : States, orphan : BOOLEAN, snap : Dbs]
    /\ history \subseteq Rotations
    /\ gate \in {"none", "service", "rotation"} /\ pc \in Rotation!Pcs
    /\ next \in 0..6
RotTyped == \E D \in Domains : RotTypedIn(D)

\* The driver holds the gate; the journal is valid, also between the two steps of
\* its replacement.
Writing == pc \in {"journal", "journal2"}
JournalOK ==
    /\ (pc # "idle") = (gate = "rotation")
    /\ Rotation!JournalValid
    /\ Writing => Rotation!Phase >= 1 /\ next \in 2..6
    /\ pc = "journal2" => sec.cur = 0 /\ next = sec.prev + 1

\* The driver's own child is where the driver waits for it. A child with the lock
\* has the database as it is, and one that was told to commit will commit the
\* rotation that the recovery artifact precedes, whether its driver lives or not.
Own == pc \in {"publish", "seal", "commit", "await", "archive"}
ChildOK ==
    /\ Own => ~txn.orphan
    /\ txn.st # "none" => Own \/ txn.orphan
    /\ txn.st = "done" => pc = "await" /\ Rotation!Committed
    /\ pc \in {"publish", "seal", "commit"} => txn.st = "ready"
    /\ pc = "await" => txn.st \in {"told", "done"}
    /\ txn.st = "ready" => txn.snap = db
    /\ txn.st = "told" => sec.recovery = db /\ Rotation!Phase = 1 /\ ~Rotation!Committed
    /\ pc \in {"seal", "commit", "archive"} => sec.recovery = db

\* How far the steps are when the driver is at a place.
Begun == Rotation!Phase >= 1 \/ sec.recovery # Rotation!NoSnapshot
PlaceOK ==
    /\ Begun => sec.bundle # 0 /\ sec.at # "none" /\ sec.pend = Rotation!Envs
    /\ pc \in {"prepare", "pending", "begin", "publish", "seal", "bootstrap"} => Rotation!Phase = 0
    /\ pc \in {"pending", "begin", "publish", "seal"} =>
          sec.bundle # 0 /\ sec.at # "none" /\ ~Rotation!Committed
    /\ pc \in {"begin", "publish", "seal"} => sec.pend = Rotation!Envs
    /\ pc = "bootstrap" => Begun
    /\ pc = "commit" => Rotation!Phase = 1 /\ ~Rotation!Committed
    /\ pc = "await" => Rotation!Phase = 1
    /\ pc \in {"reconcile", "machine"} => Rotation!Phase >= 1
    /\ pc \in {"remove", "entry", "promote"} =>
          Rotation!Promotes /\ Rotation!Target \in Rotation!Envs
    /\ pc = "remove" => Rotation!Target \in sec.quar
    /\ pc = "archive" => Rotation!Phase = 6
    /\ Writing /\ Rotation!Phase = 1 => Rotation!Committed

\* The passwords, now and in the recovery artifact.
PasswordsOK ==
    /\ db.pw # 0 => db.pw \in history \/ (db.pw = sec.bundle /\ Rotation!Phase >= 1)
    /\ sec.recovery.pw # 0 => sec.recovery.pw \in history
    /\ sec.recovery.ledger \subseteq db.ledger

\* The environment files a phase has behind it hold the rotation's values; one
\* that is missing is the one being promoted.
FilesAt(n) ==
    /\ n >= 3 /\ "root" \in Rotation!Envs => env["root"] = sec.bundle
    /\ n >= 4 => env["backend"] = sec.bundle
FilesOK ==
    /\ FilesAt(Rotation!Phase) /\ (Writing => FilesAt(next))
    /\ \A e \in Rotation!Envs : env[e] = Rotation!Missing =>
          Rotation!Promotes /\ e = Rotation!Target /\ e \in sec.quar

\* Before the journal says complete, everything has been verified.
Verified ==
    /\ Rotation!Phase = 5
    /\ \A e \in Rotation!Envs : env[e] = sec.bundle
    /\ sec.at = "final" /\ sec.manifest = Rotation!Envs
    /\ ~db.sess /\ Rotation!record_rotation(db) \in db.ledger
VerifiedOK == Writing /\ next = 6 => Verified

\* What a change of one of these records leaves is of the same type.
LEMMA DbsWith ==
    ASSUME NEW d \in Dbs
    PROVE  /\ [d EXCEPT !.sess = TRUE] \in Dbs /\ [d EXCEPT !.ver = d.ver + 1] \in Dbs
           /\ [d EXCEPT !.users = d.users + 1] \in Dbs
<1>1. d.ver + 1 \in Nat /\ d.users + 1 \in Nat
  BY DEF Dbs
<1>2. [d EXCEPT !.sess = TRUE] \in Dbs
  BY DEF Dbs
<1>3. [d EXCEPT !.ver = d.ver + 1] \in Dbs
  BY <1>1 DEF Dbs
<1>4. [d EXCEPT !.users = d.users + 1] \in Dbs
  BY <1>1 DEF Dbs
<1> QED BY <1>2, <1>3, <1>4

\* ... so is what the child commits ...
LEMMA DbsRotated ==
    ASSUME db \in Dbs, sec.bundle \in Rotations
    PROVE  LET new == [db EXCEPT !.pw = sec.bundle, !.sess = FALSE]
           IN  [new EXCEPT !.ledger = new.ledger \cup {Rotation!record_rotation(new)}] \in Dbs
<1>1. PICK new : new = [db EXCEPT !.pw = sec.bundle, !.sess = FALSE]
  OBVIOUS
<1>2. new \in Dbs
  BY <1>1 DEF Dbs
<1>3. Rotation!record_rotation(new) \in [rotation : Rotations, post : Prints]
  BY <1>2 DEF Dbs, Prints, Rotation!record_rotation, Rotation!state_fingerprint
<1>4. [new EXCEPT !.ledger = new.ledger \cup {Rotation!record_rotation(new)}] \in Dbs
  BY <1>2, <1>3 DEF Dbs, Ledgers
<1> QED BY <1>1, <1>4

\* ... and the journal while it is replaced.
LEMMA RootsWith ==
    ASSUME NEW D, NEW s \in Roots(D), NEW n \in 0..5
    PROVE  [s EXCEPT !.prev = n, !.cur = 0] \in Roots(D)
<1>1. 0 \in 0..6
  OBVIOUS
<1>2. [s EXCEPT !.prev = n] \in Roots(D)
  BY DEF Roots
<1>3. \A x \in Roots(D) : [x EXCEPT !.cur = 0] \in Roots(D)
  BY <1>1 DEF Roots
<1> QED BY <1>2, <1>3, Zenon

\* What the child commits: the password and the ledger row, in one step.
LEMMA Rotated ==
    ASSUME db \in Dbs, Rotation!_apply_rotation
    PROVE  /\ db'.pw = sec.bundle /\ db'.sess = FALSE
           /\ \E l : l.rotation = sec.bundle /\ db'.ledger = db.ledger \cup {l}
<1>1. PICK new : /\ new = [db EXCEPT !.pw = sec.bundle, !.sess = FALSE]
                 /\ db' = [new EXCEPT !.ledger = new.ledger \cup {Rotation!record_rotation(new)}]
  BY Zenon DEF Rotation!_apply_rotation
<1>2. PICK l : l = Rotation!record_rotation(new)
  OBVIOUS
<1>3. l.rotation = sec.bundle
  BY <1>2 DEF Rotation!record_rotation
<1>4. DOMAIN new = DOMAIN db /\ new.pw = sec.bundle /\ new.sess = FALSE /\ new.ledger = db.ledger
  BY <1>1 DEF Dbs
<1>5. DOMAIN db = {"pw", "ver", "users", "sess", "ledger"}
  BY DEF Dbs
<1>6. db'.pw = sec.bundle /\ db'.sess = FALSE /\ db'.ledger = db.ledger \cup {l}
  BY <1>1, <1>2, <1>4, <1>5
<1> QED BY <1>3, <1>6

\* What the journal, the database and the files say, while they do not change.
LEMMA Same ==
    /\ UNCHANGED sec => /\ UNCHANGED Rotation!Phase /\ UNCHANGED Rotation!Promotes
                        /\ UNCHANGED Rotation!Target /\ UNCHANGED Begun
    /\ UNCHANGED env => UNCHANGED Rotation!Envs
    /\ UNCHANGED <<sec, db>> => UNCHANGED Rotation!Committed
BY DEF Rotation!Phase, Rotation!Promotes, Rotation!Target, Rotation!Envs, Begun,
       Rotation!Committed, Rotation!Ledger

\* A rotation's values are never those of a missing file.
LEMMA NotMissing ==
    ASSUME Rotation!RotationAssumption
    PROVE  Rotation!Missing \notin {0} \cup Rotations
<1>1. Rotation!Missing \notin Nat
  BY DEF Rotation!Missing
<1>2. \A x \in {0} \cup Rotations : x \in Nat
  BY DEF Rotation!RotationAssumption
<1> QED BY <1>1, <1>2

\* Every step keeps the types.
LEMMA RotTypedStep ==
    ASSUME Rotation!RotationAssumption, JournalOK, ChildOK, PlaceOK,
           NEW D \in Domains, RotTypedIn(D), [Rotation!Next]_(Rotation!vars)
    PROVE  RotTypedIn(D)'
<1>1. /\ Rotation!NoSnapshot \in Dbs /\ Rotation!NoTxn.st = "none" /\ "none" \in States
      /\ Rotation!NoTxn \in [st : States, orphan : BOOLEAN, snap : Dbs]
      /\ DOMAIN env = D
  BY DEF Rotation!NoSnapshot, Rotation!NoTxn, Dbs, Ledgers, States, Rotation!None, RotTypedIn
<1>2. /\ db \in Dbs /\ sec \in Roots(D) /\ txn \in [st : States, orphan : BOOLEAN, snap : Dbs]
      /\ env \in [D -> {0, Rotation!Missing} \cup Rotations] /\ Rotations \subseteq Nat \ {0}
      /\ history \subseteq Rotations /\ sec.bundle \in {0} \cup Rotations
      /\ sec.cur \in 0..6 /\ sec.prev \in 0..5 /\ sec.recovery \in Dbs
      /\ sec.quar \subseteq D /\ sec.manifest \subseteq D /\ next \in 0..6
      /\ db.ver \in Nat /\ db.users \in Nat
  BY DEF RotTypedIn, Roots, Dbs, Rotation!RotationAssumption
<1>3. CASE UNCHANGED Rotation!vars
  BY <1>3 DEF Rotation!vars, RotTypedIn, Rotation!Pcs, Rotation!None
<1>4. CASE Rotation!acquire_backend_maintenance_gate
  BY <1>1, <1>2, <1>4 DEF Rotation!acquire_backend_maintenance_gate, RotTypedIn,
    Rotation!Pcs, Rotation!None
<1>5. CASE Rotation!_release_lease
  BY <1>1, <1>2, <1>5 DEF Rotation!_release_lease, RotTypedIn, Rotation!Pcs, Rotation!None
<1>6. CASE Rotation!ServiceWrites
  <2>1. db' \in Dbs
    <3>1. /\ [db EXCEPT !.sess = TRUE] \in Dbs /\ [db EXCEPT !.ver = db.ver + 1] \in Dbs
          /\ [db EXCEPT !.users = db.users + 1] \in Dbs
      BY <1>2, DbsWith
    <3> QED BY <1>2, <3>1, <1>6 DEF Rotation!ServiceWrites
  <2> QED BY <1>2, <1>6, <2>1 DEF Rotation!ServiceWrites, RotTypedIn
<1>7. CASE Rotation!Start
  <2>1. sec' \in Roots(D)
    BY <1>1, <1>2, <1>7 DEF Rotation!Start, Roots, Rotation!Empty, Rotation!None
  <2> QED BY <1>1, <1>2, <1>7, <2>1 DEF Rotation!Start, RotTypedIn, Rotation!Pcs,
    Rotation!None
<1>8. CASE Rotation!prepare_credential_bundle
  <2>1. sec' \in Roots(D)
    BY <1>1, <1>2, <1>8 DEF Rotation!prepare_credential_bundle, Rotation!Step, Roots
  <2> QED BY <1>1, <1>2, <1>8, <2>1 DEF Rotation!prepare_credential_bundle, Rotation!Step,
    RotTypedIn, Rotation!Pcs, Rotation!None
<1>9. CASE Rotation!WritePendingEnvironments
  <2>1. sec' \in Roots(D)
    BY <1>1, <1>2, <1>9 DEF Rotation!WritePendingEnvironments, Rotation!Step, Roots,
      Rotation!Envs
  <2> QED BY <1>1, <1>2, <1>9, <2>1 DEF Rotation!WritePendingEnvironments, Rotation!Step,
    RotTypedIn, Rotation!Pcs, Rotation!None
<1>10. CASE Rotation!BeginTransaction
  <2>1. txn' \in [st : States, orphan : BOOLEAN, snap : Dbs]
    BY <1>1, <1>2, <1>10 DEF Rotation!BeginTransaction, Rotation!Step, States,
      Rotation!snapshot_connection
  <2> QED BY <1>1, <1>2, <1>10, <2>1 DEF Rotation!BeginTransaction, Rotation!Step, RotTypedIn,
    Rotation!Pcs, Rotation!None
<1>11. CASE Rotation!PublishRecovery
  <2>1. sec' \in Roots(D)
    BY <1>1, <1>2, <1>11 DEF Rotation!PublishRecovery, Rotation!Step, Roots
  <2> QED BY <1>1, <1>2, <1>11, <2>1 DEF Rotation!PublishRecovery, Rotation!Step, RotTypedIn,
    Rotation!Pcs, Rotation!None
<1>12. CASE Rotation!seal_rotation_journal
  <2>1. sec' \in Roots(D)
    BY <1>1, <1>2, <1>12 DEF Rotation!seal_rotation_journal, Rotation!Step, Roots,
      Rotation!PREPARED
  <2> QED BY <1>1, <1>2, <1>12, <2>1 DEF Rotation!seal_rotation_journal, Rotation!Step,
    RotTypedIn, Rotation!Pcs, Rotation!None
<1>13. CASE Rotation!RestoreBootstrapJournal
  <2>1. sec' \in Roots(D)
    BY <1>1, <1>2, <1>13 DEF Rotation!RestoreBootstrapJournal, Rotation!Step, Roots,
      Rotation!PREPARED
  <2> QED BY <1>1, <1>2, <1>13, <2>1 DEF Rotation!RestoreBootstrapJournal, Rotation!Step,
    RotTypedIn, Rotation!Pcs, Rotation!None
<1>14. CASE Rotation!RestartTransaction
  <2>1. txn' = txn \/ txn' = [st |-> "ready", orphan |-> FALSE, snap |-> db]
    BY <1>14 DEF Rotation!RestartTransaction, Rotation!snapshot_connection
  <2>2. txn' \in [st : States, orphan : BOOLEAN, snap : Dbs]
    <3>1. [st |-> "ready", orphan |-> FALSE, snap |-> db]
            \in [st : States, orphan : BOOLEAN, snap : Dbs]
      BY <1>2 DEF States
    <3> QED BY <1>2, <2>1, <3>1
  <2> QED BY <1>2, <1>14, <2>2 DEF Rotation!RestartTransaction, RotTypedIn, Rotation!Pcs,
    Rotation!DB_COMMITTED
<1>15. CASE Rotation!CommitDecision
  <2>1. txn' \in [st : States, orphan : BOOLEAN, snap : Dbs]
    BY <1>1, <1>2, <1>15 DEF Rotation!CommitDecision, Rotation!Step, States
  <2> QED BY <1>1, <1>2, <1>15, <2>1 DEF Rotation!CommitDecision, Rotation!Step, RotTypedIn,
    Rotation!Pcs, Rotation!None
<1>16. CASE Rotation!_apply_rotation
  <2>1. sec.bundle \in Rotations
    BY <1>2, <1>16 DEF Rotation!_apply_rotation, ChildOK, PlaceOK, Begun, States
  <2>2. db' \in Dbs
    BY <2>1, <1>2, <1>16, DbsRotated DEF Rotation!_apply_rotation
  <2>3. txn' \in [st : States, orphan : BOOLEAN, snap : Dbs]
    BY <1>1, <1>2, <1>16 DEF Rotation!_apply_rotation, States
  <2> QED BY <1>2, <1>16, <2>2, <2>3 DEF Rotation!_apply_rotation, RotTypedIn
<1>17. CASE Rotation!Orphaned
  <2>1. txn' \in [st : States, orphan : BOOLEAN, snap : Dbs]
    BY <1>1, <1>2, <1>17 DEF Rotation!Orphaned, States
  <2> QED BY <1>1, <1>2, <1>17, <2>1 DEF Rotation!Orphaned, RotTypedIn, Rotation!Pcs,
    Rotation!None
<1>18. CASE Rotation!Answered
  <2>1. txn' \in [st : States, orphan : BOOLEAN, snap : Dbs]
    BY <1>1, <1>2, <1>18 DEF Rotation!Answered, Rotation!Step, States
  <2> QED BY <1>1, <1>2, <1>18, <2>1 DEF Rotation!Answered, Rotation!Step, RotTypedIn,
    Rotation!Pcs, Rotation!None, Rotation!DB_COMMITTED
<1>19. CASE Rotation!KeepPrevious
  <2>1. sec' \in Roots(D)
    <3>1. CASE sec.cur = 0
      BY <1>2, <3>1, <1>19 DEF Rotation!KeepPrevious
    <3>2. CASE sec.cur # 0
      <4>1. sec.cur \in 0..5
        BY <1>2, <3>2, <1>19 DEF Rotation!KeepPrevious, Rotation!Phase
      <4> QED BY <1>2, <3>2, <4>1, <1>19, RootsWith DEF Rotation!KeepPrevious
    <3> QED BY <3>1, <3>2
  <2> QED BY <1>2, <1>19, <2>1 DEF Rotation!KeepPrevious, Rotation!Step, RotTypedIn, Rotation!Pcs
<1>20. CASE Rotation!advance_rotation_journal
  <2>1. sec' \in Roots(D)
    BY <1>1, <1>2, <1>20 DEF Rotation!advance_rotation_journal, Rotation!Step, Roots
  <2> QED BY <1>1, <1>2, <1>20, <2>1 DEF Rotation!advance_rotation_journal, Rotation!Step,
    RotTypedIn, Rotation!Pcs, Rotation!None
<1>21. CASE Rotation!Reconcile
  BY <1>1, <1>2, <1>21 DEF Rotation!Reconcile, RotTypedIn, Rotation!Pcs, Rotation!None,
    Rotation!CREDENTIALS_PROMOTED, Rotation!Promotes, Rotation!DB_COMMITTED,
    Rotation!ROOT_ENV_PROMOTED
<1>22. CASE Rotation!Quarantine
  <2>1. sec' \in Roots(D)
    BY <1>1, <1>2, <1>22 DEF Rotation!Quarantine, Roots, Rotation!Envs
  <2> QED BY <1>1, <1>2, <1>22, <2>1 DEF Rotation!Quarantine, RotTypedIn, Rotation!Pcs,
    Rotation!None
<1>23. CASE Rotation!RemoveSource
  <2>1. env' \in [D -> {0, Rotation!Missing} \cup Rotations]
    BY <1>1, <1>2, <1>23 DEF Rotation!RemoveSource, Rotation!Step
  <2> QED BY <1>1, <1>2, <1>23, <2>1 DEF Rotation!RemoveSource, Rotation!Step, RotTypedIn,
    Rotation!Pcs, Rotation!None
<1>24. CASE Rotation!RecordEntry
  <2>1. sec' \in Roots(D)
    BY <1>1, <1>2, <1>24 DEF Rotation!RecordEntry, Rotation!Step, Roots, Rotation!Envs, PlaceOK
  <2> QED BY <1>1, <1>2, <1>24, <2>1 DEF Rotation!RecordEntry, Rotation!Step, RotTypedIn,
    Rotation!Pcs, Rotation!None
<1>25. CASE Rotation!PromoteEnvironment
  <2>1. env' \in [D -> {0, Rotation!Missing} \cup Rotations]
    BY <1>1, <1>2, <1>25 DEF Rotation!PromoteEnvironment, Rotation!Step
  <2> QED BY <1>1, <1>2, <1>25, <2>1 DEF Rotation!PromoteEnvironment, Rotation!Step,
    RotTypedIn, Rotation!Pcs, Rotation!None, PlaceOK, Rotation!Promotes,
    Rotation!DB_COMMITTED, Rotation!ROOT_ENV_PROMOTED
<1>26. CASE Rotation!SkipRoot
  BY <1>1, <1>2, <1>26 DEF Rotation!SkipRoot, RotTypedIn, Rotation!Pcs, Rotation!None,
    Rotation!Promotes, Rotation!DB_COMMITTED, Rotation!ROOT_ENV_PROMOTED
<1>27. CASE Rotation!PromoteCredentials
  <2>1. sec' \in Roots(D)
    BY <1>1, <1>2, <1>27 DEF Rotation!PromoteCredentials, Roots
  <2> QED BY <1>1, <1>2, <1>27, <2>1 DEF Rotation!PromoteCredentials, RotTypedIn, Rotation!Pcs,
    Rotation!None, Rotation!CREDENTIALS_PROMOTED
<1>28. CASE Rotation!verify_rotation_state
  BY <1>1, <1>2, <1>28 DEF Rotation!verify_rotation_state, RotTypedIn, Rotation!Pcs,
    Rotation!None, Rotation!COMPLETE
<1>29. CASE Rotation!Finish
  BY <1>1, <1>2, <1>29 DEF Rotation!Finish, Rotation!Step, RotTypedIn, Rotation!Pcs,
    Rotation!None
<1>30. CASE Rotation!RestoreDatabase
  <2>1. db' \in Dbs
    BY <1>1, <1>2, <1>30 DEF Rotation!RestoreDatabase, Dbs
  <2> QED BY <1>1, <1>2, <1>30, <2>1 DEF Rotation!RestoreDatabase, RotTypedIn, Rotation!Pcs,
    Rotation!None
<1>31. CASE Rotation!RestoreGuard
  <2>1. txn' \in [st : States, orphan : BOOLEAN, snap : Dbs]
    BY <1>1, <1>2, <1>31 DEF Rotation!RestoreGuard, States
  <2> QED BY <1>1, <1>2, <1>31, <2>1 DEF Rotation!RestoreGuard, RotTypedIn, Rotation!Pcs,
    Rotation!None
<1>32. CASE Rotation!ArchiveComplete
  <2>1. sec' \in Roots(D)
    BY <1>1, <1>2, <1>32 DEF Rotation!ArchiveComplete, Rotation!Step, Roots, Rotation!Empty,
      Rotation!None
  <2>2. txn' \in [st : States, orphan : BOOLEAN, snap : Dbs]
    BY <1>1, <1>2, <1>32 DEF Rotation!ArchiveComplete, Rotation!Step, States
  <2>3. sec.bundle \in Rotations
    BY <1>2, <1>32 DEF Rotation!ArchiveComplete, Rotation!Step, PlaceOK, Begun
  <2> QED BY <1>1, <1>2, <1>32, <2>1, <2>2, <2>3 DEF Rotation!ArchiveComplete, Rotation!Step,
    RotTypedIn, Rotation!Pcs
<1>33. CASE Rotation!Throw
  <2> QED BY <1>1, <1>2, <1>33 DEF Rotation!Throw, Rotation!Ends, RotTypedIn, Rotation!Pcs,
    Rotation!None
<1>34. CASE Rotation!Crash
  <2>1. txn' \in [st : States, orphan : BOOLEAN, snap : Dbs]
    BY <1>1, <1>2, <1>34 DEF Rotation!Crash, Rotation!Ends, States
  <2> QED BY <1>1, <1>2, <1>34, <2>1 DEF Rotation!Crash, Rotation!Ends, RotTypedIn,
    Rotation!Pcs, Rotation!None
<1> QED BY <1>3, <1>4, <1>5, <1>6, <1>7, <1>8, <1>9, <1>10, <1>11, <1>12, <1>13, <1>14,
  <1>15, <1>16, <1>17, <1>18, <1>19, <1>20, <1>21, <1>22, <1>23, <1>24, <1>25, <1>26, <1>27,
  <1>28, <1>29, <1>30, <1>31, <1>32, <1>33, <1>34 DEF Rotation!Next, Rotation!Driver, Rotation!Child

\* The journal stays valid.
LEMMA JournalStep ==
    ASSUME Rotation!RotationAssumption, JournalOK, ChildOK, PlaceOK,
           NEW D \in Domains, RotTypedIn(D), [Rotation!Next]_(Rotation!vars)
    PROVE  JournalOK'
<1>1. /\ sec \in Roots(D) /\ sec.cur \in 0..6 /\ sec.prev \in 0..5 /\ next \in 0..6
  BY DEF RotTypedIn, Roots
<1>2. CASE UNCHANGED Rotation!vars
  BY <1>2 DEF Rotation!vars, JournalOK, Writing, Rotation!JournalValid, Rotation!Phase,
    Rotation!None
<1>3. CASE Rotation!acquire_backend_maintenance_gate
  BY <1>1, <1>3 DEF Rotation!acquire_backend_maintenance_gate, JournalOK, Writing,
    Rotation!JournalValid, Rotation!Phase, Rotation!None
<1>4. CASE Rotation!_release_lease
  BY <1>1, <1>4 DEF Rotation!_release_lease, JournalOK, Writing, Rotation!JournalValid,
    Rotation!Phase, Rotation!None
<1>5. CASE Rotation!ServiceWrites
  BY <1>1, <1>5 DEF Rotation!ServiceWrites, JournalOK, Writing, Rotation!JournalValid,
    Rotation!Phase, Rotation!None
<1>6. CASE Rotation!Start
  BY <1>1, <1>6 DEF Rotation!Start, JournalOK, Writing, Rotation!JournalValid,
    Rotation!Phase, Rotation!None, Rotation!Empty
<1>7. CASE Rotation!prepare_credential_bundle
  BY <1>1, <1>7 DEF Rotation!prepare_credential_bundle, Rotation!Step, JournalOK, Writing,
    Rotation!JournalValid, Rotation!Phase, Rotation!None, Roots
<1>8. CASE Rotation!WritePendingEnvironments
  BY <1>1, <1>8 DEF Rotation!WritePendingEnvironments, Rotation!Step, JournalOK, Writing,
    Rotation!JournalValid, Rotation!Phase, Rotation!None, Roots
<1>9. CASE Rotation!BeginTransaction
  BY <1>1, <1>9 DEF Rotation!BeginTransaction, Rotation!Step, JournalOK, Writing,
    Rotation!JournalValid, Rotation!Phase, Rotation!None
<1>10. CASE Rotation!PublishRecovery
  BY <1>1, <1>10 DEF Rotation!PublishRecovery, Rotation!Step, JournalOK, Writing,
    Rotation!JournalValid, Rotation!Phase, Rotation!None, Roots
<1>11. CASE Rotation!seal_rotation_journal
  BY <1>1, <1>11 DEF Rotation!seal_rotation_journal, Rotation!Step, JournalOK, Writing,
    Rotation!JournalValid, Rotation!Phase, Rotation!None, Roots, PlaceOK, Rotation!PREPARED
<1>12. CASE Rotation!RestoreBootstrapJournal
  BY <1>1, <1>12 DEF Rotation!RestoreBootstrapJournal, Rotation!Step, JournalOK, Writing,
    Rotation!JournalValid, Rotation!Phase, Rotation!None, Roots, PlaceOK, Rotation!PREPARED
<1>13. CASE Rotation!RestartTransaction
  BY <1>1, <1>13 DEF Rotation!RestartTransaction, JournalOK, Writing, Rotation!JournalValid,
    Rotation!Phase, Rotation!None, Rotation!PREPARED, Rotation!DB_COMMITTED
<1>14. CASE Rotation!CommitDecision
  BY <1>1, <1>14 DEF Rotation!CommitDecision, Rotation!Step, JournalOK, Writing,
    Rotation!JournalValid, Rotation!Phase, Rotation!None
<1>15. CASE Rotation!_apply_rotation
  BY <1>1, <1>15 DEF Rotation!_apply_rotation, JournalOK, Writing, Rotation!JournalValid,
    Rotation!Phase, Rotation!None
<1>16. CASE Rotation!Orphaned
  BY <1>1, <1>16 DEF Rotation!Orphaned, JournalOK, Writing, Rotation!JournalValid,
    Rotation!Phase, Rotation!None
<1>17. CASE Rotation!Answered
  BY <1>1, <1>17 DEF Rotation!Answered, Rotation!Step, JournalOK, Writing,
    Rotation!JournalValid, Rotation!Phase, Rotation!None, PlaceOK, Rotation!DB_COMMITTED
<1>18. CASE Rotation!KeepPrevious
  BY <1>1, <1>18 DEF Rotation!KeepPrevious, Rotation!Step, JournalOK, Writing,
    Rotation!JournalValid, Rotation!Phase, Rotation!None, Roots
<1>19. CASE Rotation!advance_rotation_journal
  BY <1>1, <1>19 DEF Rotation!advance_rotation_journal, Rotation!Step, JournalOK, Writing,
    Rotation!JournalValid, Rotation!Phase, Rotation!None, Roots, Rotation!COMPLETE
<1>20. CASE Rotation!Reconcile
  BY <1>1, <1>20 DEF Rotation!Reconcile, JournalOK, Writing, Rotation!JournalValid,
    Rotation!Phase, Rotation!None, PlaceOK, Rotation!BACKEND_ENV_PROMOTED,
    Rotation!CREDENTIALS_PROMOTED, Rotation!Promotes, Rotation!DB_COMMITTED,
    Rotation!ROOT_ENV_PROMOTED
<1>21. CASE Rotation!Quarantine
  BY <1>1, <1>21 DEF Rotation!Quarantine, JournalOK, Writing, Rotation!JournalValid,
    Rotation!Phase, Rotation!None, Roots
<1>22. CASE Rotation!RemoveSource
  BY <1>1, <1>22 DEF Rotation!RemoveSource, Rotation!Step, JournalOK, Writing,
    Rotation!JournalValid, Rotation!Phase, Rotation!None
<1>23. CASE Rotation!RecordEntry
  BY <1>1, <1>23 DEF Rotation!RecordEntry, Rotation!Step, JournalOK, Writing,
    Rotation!JournalValid, Rotation!Phase, Rotation!None, Roots
<1>24. CASE Rotation!PromoteEnvironment
  BY <1>1, <1>24 DEF Rotation!PromoteEnvironment, Rotation!Step, JournalOK, Writing,
    Rotation!JournalValid, Rotation!Phase, Rotation!None, PlaceOK, Rotation!Promotes,
    Rotation!DB_COMMITTED, Rotation!ROOT_ENV_PROMOTED
<1>25. CASE Rotation!SkipRoot
  BY <1>1, <1>25 DEF Rotation!SkipRoot, JournalOK, Writing, Rotation!JournalValid,
    Rotation!Phase, Rotation!None, Rotation!Promotes, Rotation!DB_COMMITTED,
    Rotation!ROOT_ENV_PROMOTED
<1>26. CASE Rotation!PromoteCredentials
  BY <1>1, <1>26 DEF Rotation!PromoteCredentials, JournalOK, Writing, Rotation!JournalValid,
    Rotation!Phase, Rotation!None, Rotation!BACKEND_ENV_PROMOTED,
    Rotation!CREDENTIALS_PROMOTED, Roots
<1>27. CASE Rotation!verify_rotation_state
  BY <1>1, <1>27 DEF Rotation!verify_rotation_state, JournalOK, Writing,
    Rotation!JournalValid, Rotation!Phase, Rotation!None, Rotation!CREDENTIALS_PROMOTED,
    Rotation!COMPLETE
<1>28. CASE Rotation!Finish
  BY <1>1, <1>28 DEF Rotation!Finish, Rotation!Step, JournalOK, Writing,
    Rotation!JournalValid, Rotation!Phase, Rotation!None
<1>29. CASE Rotation!RestoreDatabase
  BY <1>1, <1>29 DEF Rotation!RestoreDatabase, JournalOK, Writing, Rotation!JournalValid,
    Rotation!Phase, Rotation!None
<1>30. CASE Rotation!RestoreGuard
  BY <1>1, <1>30 DEF Rotation!RestoreGuard, JournalOK, Writing, Rotation!JournalValid,
    Rotation!Phase, Rotation!None
<1>31. CASE Rotation!ArchiveComplete
  BY <1>1, <1>31 DEF Rotation!ArchiveComplete, Rotation!Step, JournalOK, Writing,
    Rotation!JournalValid, Rotation!Phase, Rotation!None, Rotation!Empty
<1>32. CASE Rotation!Throw
  BY <1>1, <1>32 DEF Rotation!Throw, Rotation!Ends, Rotation!NoTxn, Rotation!NoSnapshot,
    JournalOK, Writing, Rotation!JournalValid, Rotation!Phase, Rotation!None
<1>33. CASE Rotation!Crash
  BY <1>1, <1>33 DEF Rotation!Crash, Rotation!Ends, Rotation!NoTxn, Rotation!NoSnapshot,
    JournalOK, Writing, Rotation!JournalValid, Rotation!Phase, Rotation!None
<1> QED BY <1>2, <1>3, <1>4, <1>5, <1>6, <1>7, <1>8, <1>9, <1>10, <1>11, <1>12, <1>13,
  <1>14, <1>15, <1>16, <1>17, <1>18, <1>19, <1>20, <1>21, <1>22, <1>23, <1>24, <1>25, <1>26,
  <1>27, <1>28, <1>29, <1>30, <1>31, <1>32, <1>33 DEF Rotation!Next, Rotation!Driver, Rotation!Child

\* The child stays where the driver knows it to be, or is an orphan.
LEMMA ChildStep ==
    ASSUME Rotation!RotationAssumption, JournalOK, ChildOK, PlaceOK,
           NEW D \in Domains, RotTypedIn(D), [Rotation!Next]_(Rotation!vars)
    PROVE  ChildOK'
<1>1. /\ sec \in Roots(D) /\ sec.cur \in 0..6 /\ sec.prev \in 0..5
      /\ txn \in [st : States, orphan : BOOLEAN, snap : Dbs]
  BY DEF RotTypedIn, Roots
<1>2. CASE UNCHANGED Rotation!vars
  BY <1>2 DEF Rotation!vars, ChildOK, Own, Rotation!Committed, Rotation!Ledger,
    Rotation!Phase, Rotation!None
<1>3. CASE Rotation!acquire_backend_maintenance_gate
  BY <1>1, <1>3 DEF Rotation!acquire_backend_maintenance_gate, ChildOK, Own,
    Rotation!Committed, Rotation!Ledger, Rotation!Phase, Rotation!None, JournalOK
<1>4. CASE Rotation!_release_lease
  BY <1>1, <1>4 DEF Rotation!_release_lease, ChildOK, Own, Rotation!Committed,
    Rotation!Ledger, Rotation!Phase, Rotation!None, JournalOK
<1>5. CASE Rotation!ServiceWrites
  BY <1>1, <1>5 DEF Rotation!ServiceWrites, ChildOK, Own, Rotation!Committed,
    Rotation!Ledger, Rotation!Phase, Rotation!None, Rotation!Locked, States, JournalOK
<1>6. CASE Rotation!Start
  BY <1>1, <1>6 DEF Rotation!Start, ChildOK, Own, Rotation!Committed, Rotation!Ledger,
    Rotation!Phase, Rotation!None, Roots, PlaceOK, Rotation!PREPARED, Rotation!Empty
<1>7. CASE Rotation!prepare_credential_bundle
  BY <1>1, <1>7 DEF Rotation!prepare_credential_bundle, Rotation!Step, ChildOK, Own,
    Rotation!Committed, Rotation!Ledger, Rotation!Phase, Rotation!None, Roots, PlaceOK,
    Rotation!PREPARED
<1>8. CASE Rotation!WritePendingEnvironments
  BY <1>1, <1>8 DEF Rotation!WritePendingEnvironments, Rotation!Step, ChildOK, Own,
    Rotation!Committed, Rotation!Ledger, Rotation!Phase, Rotation!None, Roots, PlaceOK,
    Rotation!PREPARED
<1>9. CASE Rotation!BeginTransaction
  BY <1>1, <1>9 DEF Rotation!BeginTransaction, Rotation!Step, ChildOK, Own,
    Rotation!Committed, Rotation!Ledger, Rotation!Phase, Rotation!None, Rotation!Locked,
    States, Rotation!snapshot_connection
<1>10. CASE Rotation!PublishRecovery
  BY <1>1, <1>10 DEF Rotation!PublishRecovery, Rotation!Step, ChildOK, Own,
    Rotation!Committed, Rotation!Ledger, Rotation!Phase, Rotation!None, Roots, PlaceOK,
    Rotation!PREPARED
<1>11. CASE Rotation!seal_rotation_journal
  BY <1>1, <1>11 DEF Rotation!seal_rotation_journal, Rotation!Step, ChildOK, Own,
    Rotation!Committed, Rotation!Ledger, Rotation!Phase, Rotation!None, Roots, PlaceOK,
    Rotation!PREPARED, Rotation!PREPARED
<1>12. CASE Rotation!RestoreBootstrapJournal
  BY <1>1, <1>12 DEF Rotation!RestoreBootstrapJournal, Rotation!Step, ChildOK, Own,
    Rotation!Committed, Rotation!Ledger, Rotation!Phase, Rotation!None, Roots, PlaceOK,
    Rotation!PREPARED
<1>13. CASE Rotation!RestartTransaction
  BY <1>1, <1>13 DEF Rotation!RestartTransaction, ChildOK, Own, Rotation!Committed,
    Rotation!Ledger, Rotation!Phase, Rotation!None, Rotation!Locked, States,
    Rotation!snapshot_connection, Rotation!confirm_connection_matches_recovery
<1>14. CASE Rotation!CommitDecision
  BY <1>1, <1>14 DEF Rotation!CommitDecision, Rotation!Step, ChildOK, Own,
    Rotation!Committed, Rotation!Ledger, Rotation!Phase, Rotation!None, PlaceOK, States
<1>15. CASE Rotation!_apply_rotation
  <2>1. txn.st = "told" /\ Rotation!Phase = 1 /\ (txn.orphan \/ pc = "await")
    BY <1>1, <1>15 DEF Rotation!_apply_rotation, ChildOK, PlaceOK, Own, States
  <2>2. pc \notin {"publish", "seal", "commit", "archive"}
    BY <2>1 DEF ChildOK, PlaceOK, Own
  <2>3. Rotation!Committed'
    <3>1. PICK l : l.rotation = sec.bundle /\ l \in db'.ledger
      BY <1>15, Rotated DEF RotTypedIn
    <3>2. sec' = sec
      BY <1>15 DEF Rotation!_apply_rotation
    <3> QED BY <3>1, <3>2 DEF Rotation!Committed, Rotation!Ledger
  <2>4. IF txn.orphan THEN txn' = Rotation!NoTxn ELSE txn' = [txn EXCEPT !.st = "done"]
    BY <1>15 DEF Rotation!_apply_rotation
  <2>5. txn'.st \in {"none", "done"} /\ (txn'.st = "done" => ~txn'.orphan /\ pc = "await")
        /\ (pc = "await" => txn'.st = "done")
    BY <1>1, <2>1, <2>4 DEF Rotation!NoTxn, Rotation!None, ChildOK, Own
  <2> QED BY <2>2, <2>3, <2>5, <1>15 DEF Rotation!_apply_rotation, ChildOK, Own
<1>16. CASE Rotation!Orphaned
  BY <1>1, <1>16 DEF Rotation!Orphaned, ChildOK, Own, Rotation!Committed, Rotation!Ledger,
    Rotation!Phase, Rotation!None, States, Rotation!NoTxn, Rotation!NoSnapshot
<1>17. CASE Rotation!Answered
  BY <1>1, <1>17 DEF Rotation!Answered, Rotation!Step, ChildOK, Own, Rotation!Committed,
    Rotation!Ledger, Rotation!Phase, Rotation!None, States, Rotation!NoTxn,
    Rotation!NoSnapshot
<1>18. CASE Rotation!KeepPrevious
  BY <1>1, <1>18 DEF Rotation!KeepPrevious, Rotation!Step, ChildOK, Own, Rotation!Committed,
    Rotation!Ledger, Rotation!Phase, Rotation!None, Roots, PlaceOK, Rotation!PREPARED,
    JournalOK, Writing
<1>19. CASE Rotation!advance_rotation_journal
  BY <1>1, <1>19 DEF Rotation!advance_rotation_journal, Rotation!Step, ChildOK, Own,
    Rotation!Committed, Rotation!Ledger, Rotation!Phase, Rotation!None, Roots, PlaceOK,
    Rotation!PREPARED, JournalOK, Writing
<1>20. CASE Rotation!Reconcile
  BY <1>1, <1>20 DEF Rotation!Reconcile, ChildOK, Own, Rotation!Committed, Rotation!Ledger,
    Rotation!Phase, Rotation!None
<1>21. CASE Rotation!Quarantine
  BY <1>1, <1>21 DEF Rotation!Quarantine, ChildOK, Own, Rotation!Committed, Rotation!Ledger,
    Rotation!Phase, Rotation!None, Roots, PlaceOK, Rotation!PREPARED
<1>22. CASE Rotation!RemoveSource
  BY <1>1, <1>22 DEF Rotation!RemoveSource, Rotation!Step, ChildOK, Own, Rotation!Committed,
    Rotation!Ledger, Rotation!Phase, Rotation!None
<1>23. CASE Rotation!RecordEntry
  BY <1>1, <1>23 DEF Rotation!RecordEntry, Rotation!Step, ChildOK, Own, Rotation!Committed,
    Rotation!Ledger, Rotation!Phase, Rotation!None, Roots, PlaceOK, Rotation!PREPARED
<1>24. CASE Rotation!PromoteEnvironment
  BY <1>1, <1>24 DEF Rotation!PromoteEnvironment, Rotation!Step, ChildOK, Own,
    Rotation!Committed, Rotation!Ledger, Rotation!Phase, Rotation!None
<1>25. CASE Rotation!SkipRoot
  BY <1>1, <1>25 DEF Rotation!SkipRoot, ChildOK, Own, Rotation!Committed, Rotation!Ledger,
    Rotation!Phase, Rotation!None
<1>26. CASE Rotation!PromoteCredentials
  BY <1>1, <1>26 DEF Rotation!PromoteCredentials, ChildOK, Own, Rotation!Committed,
    Rotation!Ledger, Rotation!Phase, Rotation!None, Roots, PlaceOK, Rotation!PREPARED
<1>27. CASE Rotation!verify_rotation_state
  BY <1>1, <1>27 DEF Rotation!verify_rotation_state, ChildOK, Own, Rotation!Committed,
    Rotation!Ledger, Rotation!Phase, Rotation!None
<1>28. CASE Rotation!Finish
  BY <1>1, <1>28 DEF Rotation!Finish, Rotation!Step, ChildOK, Own, Rotation!Committed,
    Rotation!Ledger, Rotation!Phase, Rotation!None
<1>29. CASE Rotation!RestoreDatabase
  BY <1>1, <1>29 DEF Rotation!RestoreDatabase, ChildOK, Own, Rotation!Committed,
    Rotation!Ledger, Rotation!Phase, Rotation!None, Rotation!Locked, States
<1>30. CASE Rotation!RestoreGuard
  BY <1>1, <1>30 DEF Rotation!RestoreGuard, ChildOK, Own, Rotation!Committed,
    Rotation!Ledger, Rotation!Phase, Rotation!None, Rotation!Locked, States, Rotation!NoTxn,
    Rotation!NoSnapshot, Rotation!confirm_connection_matches_recovery
<1>31. CASE Rotation!ArchiveComplete
  BY <1>1, <1>31 DEF Rotation!ArchiveComplete, Rotation!Step, ChildOK, Own,
    Rotation!Committed, Rotation!Ledger, Rotation!Phase, Rotation!None, States,
    Rotation!NoTxn, Rotation!NoSnapshot
<1>32. CASE Rotation!Throw
  BY <1>1, <1>32 DEF Rotation!Throw, Rotation!Ends, Rotation!NoTxn, Rotation!NoSnapshot,
    ChildOK, Own, Rotation!Committed, Rotation!Ledger, Rotation!Phase, Rotation!None,
    Rotation!Refused, States
<1>33. CASE Rotation!Crash
  BY <1>1, <1>33 DEF Rotation!Crash, Rotation!Ends, Rotation!NoTxn, Rotation!NoSnapshot,
    ChildOK, Own, Rotation!Committed, Rotation!Ledger, Rotation!Phase, Rotation!None
<1> QED BY <1>2, <1>3, <1>4, <1>5, <1>6, <1>7, <1>8, <1>9, <1>10, <1>11, <1>12, <1>13,
  <1>14, <1>15, <1>16, <1>17, <1>18, <1>19, <1>20, <1>21, <1>22, <1>23, <1>24, <1>25, <1>26,
  <1>27, <1>28, <1>29, <1>30, <1>31, <1>32, <1>33 DEF Rotation!Next, Rotation!Driver, Rotation!Child

\* The driver is where the journal and the files say.
LEMMA PlaceStep ==
    ASSUME Rotation!RotationAssumption, JournalOK, ChildOK, PlaceOK,
           NEW D \in Domains, RotTypedIn(D), [Rotation!Next]_(Rotation!vars)
    PROVE  PlaceOK'
<1>1. /\ sec \in Roots(D) /\ sec.cur \in 0..6 /\ sec.prev \in 0..5
      /\ env \in [D -> {0, Rotation!Missing} \cup Rotations]
      /\ txn \in [st : States, orphan : BOOLEAN, snap : Dbs] /\ Rotations \subseteq Nat \ {0}
  BY DEF RotTypedIn, Roots, Rotation!RotationAssumption
<1>2. CASE UNCHANGED Rotation!vars
  <2>1. UNCHANGED <<sec, db, env, pc>>
    BY <1>2 DEF Rotation!vars
  <2> QED BY <2>1, Same DEF PlaceOK, Writing
<1>3. CASE Rotation!acquire_backend_maintenance_gate
  <2>1. UNCHANGED <<sec, db, env, pc>>
    BY <1>3 DEF Rotation!acquire_backend_maintenance_gate
  <2> QED BY <2>1, Same DEF PlaceOK, Writing
<1>4. CASE Rotation!_release_lease
  BY <1>1, <1>4 DEF Rotation!_release_lease, PlaceOK, Begun, Writing, Rotation!Committed,
    Rotation!Ledger, Rotation!Phase, Rotation!Envs, JournalOK
<1>5. CASE Rotation!ServiceWrites
  BY <1>1, <1>5 DEF Rotation!ServiceWrites, PlaceOK, Begun, Writing, Rotation!Committed,
    Rotation!Ledger, Rotation!Phase, Rotation!Envs, JournalOK
<1>6. CASE Rotation!Start
  BY <1>1, <1>6 DEF Rotation!Start, PlaceOK, Begun, Writing, Rotation!Committed,
    Rotation!Ledger, Rotation!Phase, Rotation!Envs, Roots, Rotation!PREPARED,
    Rotation!Empty, Rotation!None
<1>7. CASE Rotation!prepare_credential_bundle
  BY <1>1, <1>7 DEF Rotation!prepare_credential_bundle, Rotation!Step, PlaceOK, Begun,
    Writing, Rotation!Committed, Rotation!Ledger, Rotation!Phase, Rotation!Envs, Roots,
    Rotation!PREPARED
<1>8. CASE Rotation!WritePendingEnvironments
  BY <1>1, <1>8 DEF Rotation!WritePendingEnvironments, Rotation!Step, PlaceOK, Begun,
    Writing, Rotation!Committed, Rotation!Ledger, Rotation!Phase, Rotation!Envs, Roots,
    Rotation!PREPARED
<1>9. CASE Rotation!BeginTransaction
  BY <1>1, <1>9 DEF Rotation!BeginTransaction, Rotation!Step, PlaceOK, Begun, Writing,
    Rotation!Committed, Rotation!Ledger, Rotation!Phase, Rotation!Envs
<1>10. CASE Rotation!PublishRecovery
  BY <1>1, <1>10 DEF Rotation!PublishRecovery, Rotation!Step, PlaceOK, Begun, Writing,
    Rotation!Committed, Rotation!Ledger, Rotation!Phase, Rotation!Envs, Roots,
    Rotation!PREPARED
<1>11. CASE Rotation!seal_rotation_journal
  BY <1>1, <1>11 DEF Rotation!seal_rotation_journal, Rotation!Step, PlaceOK, Begun, Writing,
    Rotation!Committed, Rotation!Ledger, Rotation!Phase, Rotation!Envs, Roots,
    Rotation!PREPARED
<1>12. CASE Rotation!RestoreBootstrapJournal
  BY <1>1, <1>12 DEF Rotation!RestoreBootstrapJournal, Rotation!Step, PlaceOK, Begun,
    Writing, Rotation!Committed, Rotation!Ledger, Rotation!Phase, Rotation!Envs, Roots,
    Rotation!PREPARED, Rotation!_assert_snapshot_precedes_rotation
<1>13. CASE Rotation!RestartTransaction
  BY <1>1, <1>13 DEF Rotation!RestartTransaction, PlaceOK, Begun, Writing,
    Rotation!Committed, Rotation!Ledger, Rotation!Phase, Rotation!Envs, Rotation!PREPARED
<1>14. CASE Rotation!CommitDecision
  BY <1>1, <1>14 DEF Rotation!CommitDecision, Rotation!Step, PlaceOK, Begun, Writing,
    Rotation!Committed, Rotation!Ledger, Rotation!Phase, Rotation!Envs, ChildOK
<1>15. CASE Rotation!_apply_rotation
  <2>1. /\ UNCHANGED <<sec, env, pc>>
        /\ Rotation!Phase = 1 /\ pc \notin {"pending", "begin", "publish", "seal", "commit"}
    BY <1>1, <1>15 DEF Rotation!_apply_rotation, ChildOK, PlaceOK, States, Own
  <2>2. Rotation!Committed'
    <3>1. PICK l : l.rotation = sec.bundle /\ l \in db'.ledger
      BY <1>15, Rotated DEF RotTypedIn
    <3> QED BY <2>1, <3>1 DEF Rotation!Committed, Rotation!Ledger
  <2> QED BY <2>1, <2>2, Same DEF PlaceOK, Writing
<1>16. CASE Rotation!Orphaned
  <2>1. UNCHANGED <<sec, db, env, pc>>
    BY <1>16 DEF Rotation!Orphaned
  <2> QED BY <2>1, Same DEF PlaceOK, Writing
<1>17. CASE Rotation!Answered
  BY <1>1, <1>17 DEF Rotation!Answered, Rotation!Step, PlaceOK, Begun, Writing,
    Rotation!Committed, Rotation!Ledger, Rotation!Phase, Rotation!Envs, ChildOK
<1>18. CASE Rotation!KeepPrevious
  BY <1>1, <1>18 DEF Rotation!KeepPrevious, Rotation!Step, PlaceOK, Begun, Writing,
    Rotation!Committed, Rotation!Ledger, Rotation!Phase, Rotation!Envs, Roots,
    Rotation!PREPARED, Rotation!Promotes, Rotation!Target, Rotation!DB_COMMITTED,
    Rotation!ROOT_ENV_PROMOTED, JournalOK
<1>19. CASE Rotation!advance_rotation_journal
  BY <1>1, <1>19 DEF Rotation!advance_rotation_journal, Rotation!Step, PlaceOK, Begun,
    Writing, Rotation!Committed, Rotation!Ledger, Rotation!Phase, Rotation!Envs, Roots,
    Rotation!PREPARED, Rotation!Promotes, Rotation!Target, Rotation!DB_COMMITTED,
    Rotation!ROOT_ENV_PROMOTED, JournalOK
<1>20. CASE Rotation!Reconcile
  BY <1>1, <1>20 DEF Rotation!Reconcile, PlaceOK, Begun, Writing, Rotation!Committed,
    Rotation!Ledger, Rotation!Phase, Rotation!Envs, Rotation!Promotes, Rotation!Target,
    Rotation!DB_COMMITTED, Rotation!ROOT_ENV_PROMOTED, Rotation!BACKEND_ENV_PROMOTED
<1>21. CASE Rotation!Quarantine
  BY <1>1, <1>21 DEF Rotation!Quarantine, PlaceOK, Begun, Writing, Rotation!Committed,
    Rotation!Ledger, Rotation!Phase, Rotation!Envs, Roots, Rotation!PREPARED,
    Rotation!Promotes, Rotation!Target, Rotation!DB_COMMITTED, Rotation!ROOT_ENV_PROMOTED
<1>22. CASE Rotation!RemoveSource
  BY <1>1, <1>22 DEF Rotation!RemoveSource, Rotation!Step, PlaceOK, Begun, Writing,
    Rotation!Committed, Rotation!Ledger, Rotation!Phase, Rotation!Envs, Rotation!Promotes,
    Rotation!Target, Rotation!DB_COMMITTED, Rotation!ROOT_ENV_PROMOTED
<1>23. CASE Rotation!RecordEntry
  BY <1>1, <1>23 DEF Rotation!RecordEntry, Rotation!Step, PlaceOK, Begun, Writing,
    Rotation!Committed, Rotation!Ledger, Rotation!Phase, Rotation!Envs, Roots,
    Rotation!PREPARED, Rotation!Promotes, Rotation!Target, Rotation!DB_COMMITTED,
    Rotation!ROOT_ENV_PROMOTED
<1>24. CASE Rotation!PromoteEnvironment
  BY <1>1, <1>24 DEF Rotation!PromoteEnvironment, Rotation!Step, PlaceOK, Begun, Writing,
    Rotation!Committed, Rotation!Ledger, Rotation!Phase, Rotation!Envs, Rotation!Promotes,
    Rotation!Target, Rotation!DB_COMMITTED, Rotation!ROOT_ENV_PROMOTED
<1>25. CASE Rotation!SkipRoot
  BY <1>1, <1>25 DEF Rotation!SkipRoot, PlaceOK, Begun, Writing, Rotation!Committed,
    Rotation!Ledger, Rotation!Phase, Rotation!Envs, Rotation!Promotes, Rotation!Target,
    Rotation!DB_COMMITTED, Rotation!ROOT_ENV_PROMOTED
<1>26. CASE Rotation!PromoteCredentials
  BY <1>1, <1>26 DEF Rotation!PromoteCredentials, PlaceOK, Begun, Writing,
    Rotation!Committed, Rotation!Ledger, Rotation!Phase, Rotation!Envs, Roots,
    Rotation!PREPARED, Rotation!Promotes, Rotation!Target, Rotation!DB_COMMITTED,
    Rotation!ROOT_ENV_PROMOTED, Rotation!BACKEND_ENV_PROMOTED
<1>27. CASE Rotation!verify_rotation_state
  BY <1>1, <1>27 DEF Rotation!verify_rotation_state, PlaceOK, Begun, Writing,
    Rotation!Committed, Rotation!Ledger, Rotation!Phase, Rotation!Envs, Rotation!Promotes,
    Rotation!Target, Rotation!DB_COMMITTED, Rotation!ROOT_ENV_PROMOTED,
    Rotation!CREDENTIALS_PROMOTED
<1>28. CASE Rotation!Finish
  BY <1>1, <1>28 DEF Rotation!Finish, Rotation!Step, PlaceOK, Begun, Writing,
    Rotation!Committed, Rotation!Ledger, Rotation!Phase, Rotation!Envs
<1>29. CASE Rotation!RestoreDatabase
  BY <1>1, <1>29 DEF Rotation!RestoreDatabase, PlaceOK, Begun, Writing, Rotation!Committed,
    Rotation!Ledger, Rotation!Phase, Rotation!Envs, JournalOK
<1>30. CASE Rotation!RestoreGuard
  BY <1>1, <1>30 DEF Rotation!RestoreGuard, PlaceOK, Begun, Writing, Rotation!Committed,
    Rotation!Ledger, Rotation!Phase, Rotation!Envs, Rotation!COMPLETE
<1>31. CASE Rotation!ArchiveComplete
  BY <1>1, <1>31 DEF Rotation!ArchiveComplete, Rotation!Step, PlaceOK, Begun, Writing,
    Rotation!Committed, Rotation!Ledger, Rotation!Phase, Rotation!Envs, Rotation!Empty,
    Rotation!None
<1>32. CASE Rotation!Throw
  BY <1>1, <1>32 DEF Rotation!Throw, Rotation!Ends, Rotation!NoTxn, Rotation!NoSnapshot,
    PlaceOK, Begun, Writing, Rotation!Committed, Rotation!Ledger, Rotation!Phase,
    Rotation!Envs
<1>33. CASE Rotation!Crash
  BY <1>1, <1>33 DEF Rotation!Crash, Rotation!Ends, Rotation!NoTxn, Rotation!NoSnapshot,
    PlaceOK, Begun, Writing, Rotation!Committed, Rotation!Ledger, Rotation!Phase,
    Rotation!Envs
<1> QED BY <1>2, <1>3, <1>4, <1>5, <1>6, <1>7, <1>8, <1>9, <1>10, <1>11, <1>12, <1>13,
  <1>14, <1>15, <1>16, <1>17, <1>18, <1>19, <1>20, <1>21, <1>22, <1>23, <1>24, <1>25, <1>26,
  <1>27, <1>28, <1>29, <1>30, <1>31, <1>32, <1>33 DEF Rotation!Next, Rotation!Driver, Rotation!Child

\* No step loses the only copy of the passwords.
LEMMA PasswordsStep ==
    ASSUME Rotation!RotationAssumption, JournalOK, ChildOK, PlaceOK, PasswordsOK,
           NEW D \in Domains, RotTypedIn(D), [Rotation!Next]_(Rotation!vars)
    PROVE  PasswordsOK'
<1>1. /\ sec \in Roots(D) /\ sec.cur \in 0..6 /\ sec.prev \in 0..5 /\ db \in Dbs
      /\ txn \in [st : States, orphan : BOOLEAN, snap : Dbs]
  BY DEF RotTypedIn, Roots
<1>2. CASE UNCHANGED Rotation!vars
  BY <1>2 DEF Rotation!vars, PasswordsOK, Rotation!Phase
<1>3. CASE Rotation!acquire_backend_maintenance_gate
  BY <1>1, <1>3 DEF Rotation!acquire_backend_maintenance_gate, PasswordsOK, Rotation!Phase
<1>4. CASE Rotation!_release_lease
  BY <1>1, <1>4 DEF Rotation!_release_lease, PasswordsOK, Rotation!Phase
<1>5. CASE Rotation!ServiceWrites
  BY <1>1, <1>5 DEF Rotation!ServiceWrites, PasswordsOK, Rotation!Phase, Dbs
<1>6. CASE Rotation!Start
  BY <1>1, <1>6 DEF Rotation!Start, PasswordsOK, Rotation!Phase, Roots, Rotation!Empty,
    Rotation!NoSnapshot
<1>7. CASE Rotation!prepare_credential_bundle
  BY <1>1, <1>7 DEF Rotation!prepare_credential_bundle, Rotation!Step, PasswordsOK,
    Rotation!Phase, Roots, PlaceOK, Rotation!PREPARED
<1>8. CASE Rotation!WritePendingEnvironments
  BY <1>1, <1>8 DEF Rotation!WritePendingEnvironments, Rotation!Step, PasswordsOK,
    Rotation!Phase, Roots, PlaceOK, Rotation!PREPARED
<1>9. CASE Rotation!BeginTransaction
  BY <1>1, <1>9 DEF Rotation!BeginTransaction, Rotation!Step, PasswordsOK, Rotation!Phase
<1>10. CASE Rotation!PublishRecovery
  BY <1>1, <1>10 DEF Rotation!PublishRecovery, Rotation!Step, PasswordsOK, Rotation!Phase,
    Roots, PlaceOK, Rotation!PREPARED, ChildOK
<1>11. CASE Rotation!seal_rotation_journal
  BY <1>1, <1>11 DEF Rotation!seal_rotation_journal, Rotation!Step, PasswordsOK,
    Rotation!Phase, Roots, PlaceOK, Rotation!PREPARED
<1>12. CASE Rotation!RestoreBootstrapJournal
  BY <1>1, <1>12 DEF Rotation!RestoreBootstrapJournal, Rotation!Step, PasswordsOK,
    Rotation!Phase, Roots, PlaceOK, Rotation!PREPARED
<1>13. CASE Rotation!RestartTransaction
  BY <1>1, <1>13 DEF Rotation!RestartTransaction, PasswordsOK, Rotation!Phase
<1>14. CASE Rotation!CommitDecision
  BY <1>1, <1>14 DEF Rotation!CommitDecision, Rotation!Step, PasswordsOK, Rotation!Phase
<1>15. CASE Rotation!_apply_rotation
  <2>1. UNCHANGED <<sec, history>> /\ Rotation!Phase = 1
    BY <1>1, <1>15 DEF Rotation!_apply_rotation, ChildOK, States
  <2>2. db'.pw = sec.bundle /\ db.ledger \subseteq db'.ledger
    BY <1>1, <1>15, Rotated
  <2> QED BY <2>1, <2>2, Same DEF PasswordsOK
<1>16. CASE Rotation!Orphaned
  BY <1>1, <1>16 DEF Rotation!Orphaned, PasswordsOK, Rotation!Phase
<1>17. CASE Rotation!Answered
  BY <1>1, <1>17 DEF Rotation!Answered, Rotation!Step, PasswordsOK, Rotation!Phase
<1>18. CASE Rotation!KeepPrevious
  BY <1>1, <1>18 DEF Rotation!KeepPrevious, Rotation!Step, PasswordsOK, Rotation!Phase,
    Roots, JournalOK, Writing, Rotation!Phase
<1>19. CASE Rotation!advance_rotation_journal
  BY <1>1, <1>19 DEF Rotation!advance_rotation_journal, Rotation!Step, PasswordsOK,
    Rotation!Phase, Roots, JournalOK, Writing, Rotation!Phase
<1>20. CASE Rotation!Reconcile
  BY <1>1, <1>20 DEF Rotation!Reconcile, PasswordsOK, Rotation!Phase
<1>21. CASE Rotation!Quarantine
  BY <1>1, <1>21 DEF Rotation!Quarantine, PasswordsOK, Rotation!Phase, Roots, PlaceOK,
    Rotation!PREPARED
<1>22. CASE Rotation!RemoveSource
  BY <1>1, <1>22 DEF Rotation!RemoveSource, Rotation!Step, PasswordsOK, Rotation!Phase
<1>23. CASE Rotation!RecordEntry
  BY <1>1, <1>23 DEF Rotation!RecordEntry, Rotation!Step, PasswordsOK, Rotation!Phase,
    Roots, PlaceOK, Rotation!PREPARED
<1>24. CASE Rotation!PromoteEnvironment
  BY <1>1, <1>24 DEF Rotation!PromoteEnvironment, Rotation!Step, PasswordsOK, Rotation!Phase
<1>25. CASE Rotation!SkipRoot
  BY <1>1, <1>25 DEF Rotation!SkipRoot, PasswordsOK, Rotation!Phase
<1>26. CASE Rotation!PromoteCredentials
  BY <1>1, <1>26 DEF Rotation!PromoteCredentials, PasswordsOK, Rotation!Phase, Roots,
    PlaceOK, Rotation!PREPARED
<1>27. CASE Rotation!verify_rotation_state
  BY <1>1, <1>27 DEF Rotation!verify_rotation_state, PasswordsOK, Rotation!Phase
<1>28. CASE Rotation!Finish
  BY <1>1, <1>28 DEF Rotation!Finish, Rotation!Step, PasswordsOK, Rotation!Phase
<1>29. CASE Rotation!RestoreDatabase
  BY <1>1, <1>29 DEF Rotation!RestoreDatabase, PasswordsOK, Rotation!Phase
<1>30. CASE Rotation!RestoreGuard
  BY <1>1, <1>30 DEF Rotation!RestoreGuard, PasswordsOK, Rotation!Phase
<1>31. CASE Rotation!ArchiveComplete
  BY <1>1, <1>31 DEF Rotation!ArchiveComplete, Rotation!Step, PasswordsOK, Rotation!Phase,
    Roots, Rotation!Empty, Rotation!NoSnapshot, ChildOK, Own
<1>32. CASE Rotation!Throw
  BY <1>1, <1>32 DEF Rotation!Throw, Rotation!Ends, Rotation!NoTxn, Rotation!NoSnapshot,
    PasswordsOK, Rotation!Phase
<1>33. CASE Rotation!Crash
  BY <1>1, <1>33 DEF Rotation!Crash, Rotation!Ends, Rotation!NoTxn, Rotation!NoSnapshot,
    PasswordsOK, Rotation!Phase
<1> QED BY <1>2, <1>3, <1>4, <1>5, <1>6, <1>7, <1>8, <1>9, <1>10, <1>11, <1>12, <1>13,
  <1>14, <1>15, <1>16, <1>17, <1>18, <1>19, <1>20, <1>21, <1>22, <1>23, <1>24, <1>25, <1>26,
  <1>27, <1>28, <1>29, <1>30, <1>31, <1>32, <1>33 DEF Rotation!Next, Rotation!Driver, Rotation!Child

\* No step loses the only copy of an environment file.
LEMMA FilesStep ==
    ASSUME Rotation!RotationAssumption, JournalOK, ChildOK, PlaceOK,
           FilesOK, NEW D \in Domains, RotTypedIn(D), [Rotation!Next]_(Rotation!vars)
    PROVE  FilesOK'
<1>1. /\ sec \in Roots(D) /\ sec.cur \in 0..6 /\ sec.prev \in 0..5 /\ "backend" \in D
      /\ env \in [D -> {0, Rotation!Missing} \cup Rotations] /\ Rotations \subseteq Nat \ {0}
      /\ Rotation!Missing \notin Nat /\ next \in 0..6 /\ D \subseteq {"root", "backend"}
      /\ sec.bundle \in {0} \cup Rotations
  BY DEF RotTypedIn, Roots, Rotation!RotationAssumption, Rotation!Missing, Domains
<1>2. CASE UNCHANGED Rotation!vars
  BY <1>2 DEF Rotation!vars, FilesOK, FilesAt, Writing, Rotation!Phase, Rotation!Envs,
    Rotation!Promotes, Rotation!Target, Rotation!DB_COMMITTED, Rotation!ROOT_ENV_PROMOTED
<1>3. CASE Rotation!acquire_backend_maintenance_gate
  BY <1>1, <1>3 DEF Rotation!acquire_backend_maintenance_gate, FilesOK, FilesAt, Writing,
    Rotation!Phase, Rotation!Envs, Rotation!Promotes, Rotation!Target,
    Rotation!DB_COMMITTED, Rotation!ROOT_ENV_PROMOTED
<1>4. CASE Rotation!_release_lease
  BY <1>1, <1>4 DEF Rotation!_release_lease, FilesOK, FilesAt, Writing, Rotation!Phase,
    Rotation!Envs, Rotation!Promotes, Rotation!Target, Rotation!DB_COMMITTED,
    Rotation!ROOT_ENV_PROMOTED
<1>5. CASE Rotation!ServiceWrites
  BY <1>1, <1>5 DEF Rotation!ServiceWrites, FilesOK, FilesAt, Writing, Rotation!Phase,
    Rotation!Envs, Rotation!Promotes, Rotation!Target, Rotation!DB_COMMITTED,
    Rotation!ROOT_ENV_PROMOTED
<1>6. CASE Rotation!Start
  BY <1>1, <1>6 DEF Rotation!Start, FilesOK, FilesAt, Writing, Rotation!Phase,
    Rotation!Envs, Rotation!Promotes, Rotation!Target, Rotation!DB_COMMITTED,
    Rotation!ROOT_ENV_PROMOTED, Roots, PlaceOK, Rotation!Empty
<1>7. CASE Rotation!prepare_credential_bundle
  BY <1>1, <1>7 DEF Rotation!prepare_credential_bundle, Rotation!Step, FilesOK, FilesAt,
    Writing, Rotation!Phase, Rotation!Envs, Rotation!Promotes, Rotation!Target,
    Rotation!DB_COMMITTED, Rotation!ROOT_ENV_PROMOTED, Roots, PlaceOK
<1>8. CASE Rotation!WritePendingEnvironments
  BY <1>1, <1>8 DEF Rotation!WritePendingEnvironments, Rotation!Step, FilesOK, FilesAt,
    Writing, Rotation!Phase, Rotation!Envs, Rotation!Promotes, Rotation!Target,
    Rotation!DB_COMMITTED, Rotation!ROOT_ENV_PROMOTED, Roots, PlaceOK
<1>9. CASE Rotation!BeginTransaction
  BY <1>1, <1>9 DEF Rotation!BeginTransaction, Rotation!Step, FilesOK, FilesAt, Writing,
    Rotation!Phase, Rotation!Envs, Rotation!Promotes, Rotation!Target,
    Rotation!DB_COMMITTED, Rotation!ROOT_ENV_PROMOTED
<1>10. CASE Rotation!PublishRecovery
  BY <1>1, <1>10 DEF Rotation!PublishRecovery, Rotation!Step, FilesOK, FilesAt, Writing,
    Rotation!Phase, Rotation!Envs, Rotation!Promotes, Rotation!Target,
    Rotation!DB_COMMITTED, Rotation!ROOT_ENV_PROMOTED, Roots, PlaceOK
<1>11. CASE Rotation!seal_rotation_journal
  BY <1>1, <1>11 DEF Rotation!seal_rotation_journal, Rotation!Step, FilesOK, FilesAt,
    Writing, Rotation!Phase, Rotation!Envs, Rotation!Promotes, Rotation!Target,
    Rotation!DB_COMMITTED, Rotation!ROOT_ENV_PROMOTED, Roots, PlaceOK, Rotation!PREPARED
<1>12. CASE Rotation!RestoreBootstrapJournal
  BY <1>1, <1>12 DEF Rotation!RestoreBootstrapJournal, Rotation!Step, FilesOK, FilesAt,
    Writing, Rotation!Phase, Rotation!Envs, Rotation!Promotes, Rotation!Target,
    Rotation!DB_COMMITTED, Rotation!ROOT_ENV_PROMOTED, Roots, PlaceOK, Rotation!PREPARED
<1>13. CASE Rotation!RestartTransaction
  BY <1>1, <1>13 DEF Rotation!RestartTransaction, FilesOK, FilesAt, Writing, Rotation!Phase,
    Rotation!Envs, Rotation!Promotes, Rotation!Target, Rotation!DB_COMMITTED,
    Rotation!ROOT_ENV_PROMOTED, Rotation!PREPARED
<1>14. CASE Rotation!CommitDecision
  BY <1>1, <1>14 DEF Rotation!CommitDecision, Rotation!Step, FilesOK, FilesAt, Writing,
    Rotation!Phase, Rotation!Envs, Rotation!Promotes, Rotation!Target,
    Rotation!DB_COMMITTED, Rotation!ROOT_ENV_PROMOTED
<1>15. CASE Rotation!_apply_rotation
  BY <1>1, <1>15 DEF Rotation!_apply_rotation, FilesOK, FilesAt, Writing, Rotation!Phase,
    Rotation!Envs, Rotation!Promotes, Rotation!Target, Rotation!DB_COMMITTED,
    Rotation!ROOT_ENV_PROMOTED
<1>16. CASE Rotation!Orphaned
  BY <1>1, <1>16 DEF Rotation!Orphaned, FilesOK, FilesAt, Writing, Rotation!Phase,
    Rotation!Envs, Rotation!Promotes, Rotation!Target, Rotation!DB_COMMITTED,
    Rotation!ROOT_ENV_PROMOTED
<1>17. CASE Rotation!Answered
  BY <1>1, <1>17 DEF Rotation!Answered, Rotation!Step, FilesOK, FilesAt, Writing,
    Rotation!Phase, Rotation!Envs, Rotation!Promotes, Rotation!Target,
    Rotation!DB_COMMITTED, Rotation!ROOT_ENV_PROMOTED
<1>18. CASE Rotation!KeepPrevious
  BY <1>1, <1>18 DEF Rotation!KeepPrevious, Rotation!Step, FilesOK, FilesAt, Writing,
    Rotation!Phase, Rotation!Envs, Rotation!Promotes, Rotation!Target,
    Rotation!DB_COMMITTED, Rotation!ROOT_ENV_PROMOTED, Roots, JournalOK, PlaceOK, Begun,
    Rotation!COMPLETE
<1>19. CASE Rotation!advance_rotation_journal
  BY <1>1, <1>19 DEF Rotation!advance_rotation_journal, Rotation!Step, FilesOK, FilesAt,
    Writing, Rotation!Phase, Rotation!Envs, Rotation!Promotes, Rotation!Target,
    Rotation!DB_COMMITTED, Rotation!ROOT_ENV_PROMOTED, Roots, JournalOK, PlaceOK, Begun,
    Rotation!COMPLETE
<1>20. CASE Rotation!Reconcile
  BY <1>1, <1>20 DEF Rotation!Reconcile, FilesOK, FilesAt, Writing, Rotation!Phase,
    Rotation!Envs, Rotation!Promotes, Rotation!Target, Rotation!DB_COMMITTED,
    Rotation!ROOT_ENV_PROMOTED, Rotation!BACKEND_ENV_PROMOTED, Rotation!CREDENTIALS_PROMOTED
<1>21. CASE Rotation!Quarantine
  BY <1>1, <1>21 DEF Rotation!Quarantine, FilesOK, FilesAt, Writing, Rotation!Phase,
    Rotation!Envs, Rotation!Promotes, Rotation!Target, Rotation!DB_COMMITTED,
    Rotation!ROOT_ENV_PROMOTED, Roots, PlaceOK
<1>22. CASE Rotation!RemoveSource
  BY <1>1, <1>22 DEF Rotation!RemoveSource, Rotation!Step, FilesOK, FilesAt, Writing,
    Rotation!Phase, Rotation!Envs, Rotation!Promotes, Rotation!Target,
    Rotation!DB_COMMITTED, Rotation!ROOT_ENV_PROMOTED, Roots, PlaceOK
<1>23. CASE Rotation!RecordEntry
  BY <1>1, <1>23 DEF Rotation!RecordEntry, Rotation!Step, FilesOK, FilesAt, Writing,
    Rotation!Phase, Rotation!Envs, Rotation!Promotes, Rotation!Target,
    Rotation!DB_COMMITTED, Rotation!ROOT_ENV_PROMOTED, Roots, PlaceOK
<1>24. CASE Rotation!PromoteEnvironment
  <2>1. PICK t : /\ t = Rotation!Target /\ t \in D
                 /\ \/ Rotation!Phase = 2 /\ t = "root"
                    \/ Rotation!Phase = 3 /\ t = "backend"
    BY <1>1, <1>24 DEF Rotation!PromoteEnvironment, Rotation!Step, PlaceOK, Rotation!Promotes,
        Rotation!Target, Rotation!Envs,
      Rotation!DB_COMMITTED, Rotation!ROOT_ENV_PROMOTED
  <2>2. /\ UNCHANGED sec /\ next' = Rotation!Phase + 1
        /\ env' = [env EXCEPT ![t] = sec.bundle]
    BY <2>1, <1>24 DEF Rotation!PromoteEnvironment
  <2>3. /\ DOMAIN env = D /\ DOMAIN env' = D /\ env'[t] = sec.bundle
        /\ \A e \in D : e # t => env'[e] = env[e]
    BY <1>1, <2>1, <2>2
  <2>4. \A e \in D : env'[e] # Rotation!Missing
    <3>1. \A e \in D : env[e] = Rotation!Missing => e = t
      BY <2>1, <2>3 DEF FilesOK, Rotation!Envs
    <3>2. sec.bundle # Rotation!Missing
      BY <1>1, NotMissing
    <3> QED BY <2>3, <3>1, <3>2
  <2>5. FilesAt(Rotation!Phase)' /\ FilesAt(next)'
    <3>1. UNCHANGED Rotation!Phase
      BY <2>2, Same
    <3>2. FilesAt(Rotation!Phase)
      BY DEF FilesOK
    <3> QED BY <1>1, <2>1, <2>2, <2>3, <3>1, <3>2 DEF FilesAt, Rotation!Envs
  <2> QED BY <2>3, <2>4, <2>5 DEF FilesOK, Rotation!Envs
<1>25. CASE Rotation!SkipRoot
  BY <1>1, <1>25 DEF Rotation!SkipRoot, FilesOK, FilesAt, Writing, Rotation!Phase,
    Rotation!Envs, Rotation!Promotes, Rotation!Target, Rotation!DB_COMMITTED,
    Rotation!ROOT_ENV_PROMOTED
<1>26. CASE Rotation!PromoteCredentials
  BY <1>1, <1>26 DEF Rotation!PromoteCredentials, FilesOK, FilesAt, Writing, Rotation!Phase,
    Rotation!Envs, Rotation!Promotes, Rotation!Target, Rotation!DB_COMMITTED,
    Rotation!ROOT_ENV_PROMOTED, Roots, PlaceOK, Rotation!BACKEND_ENV_PROMOTED,
    Rotation!CREDENTIALS_PROMOTED
<1>27. CASE Rotation!verify_rotation_state
  BY <1>1, <1>27 DEF Rotation!verify_rotation_state, FilesOK, FilesAt, Writing,
    Rotation!Phase, Rotation!Envs, Rotation!Promotes, Rotation!Target,
    Rotation!DB_COMMITTED, Rotation!ROOT_ENV_PROMOTED, Rotation!CREDENTIALS_PROMOTED,
    Rotation!COMPLETE
<1>28. CASE Rotation!Finish
  BY <1>1, <1>28 DEF Rotation!Finish, Rotation!Step, FilesOK, FilesAt, Writing,
    Rotation!Phase, Rotation!Envs, Rotation!Promotes, Rotation!Target,
    Rotation!DB_COMMITTED, Rotation!ROOT_ENV_PROMOTED
<1>29. CASE Rotation!RestoreDatabase
  BY <1>1, <1>29 DEF Rotation!RestoreDatabase, FilesOK, FilesAt, Writing, Rotation!Phase,
    Rotation!Envs, Rotation!Promotes, Rotation!Target, Rotation!DB_COMMITTED,
    Rotation!ROOT_ENV_PROMOTED
<1>30. CASE Rotation!RestoreGuard
  BY <1>1, <1>30 DEF Rotation!RestoreGuard, FilesOK, FilesAt, Writing, Rotation!Phase,
    Rotation!Envs, Rotation!Promotes, Rotation!Target, Rotation!DB_COMMITTED,
    Rotation!ROOT_ENV_PROMOTED
<1>31. CASE Rotation!ArchiveComplete
  BY <1>1, <1>31 DEF Rotation!ArchiveComplete, Rotation!Step, FilesOK, FilesAt, Writing,
    Rotation!Phase, Rotation!Envs, Rotation!Promotes, Rotation!Target,
    Rotation!DB_COMMITTED, Rotation!ROOT_ENV_PROMOTED, Rotation!Empty, PlaceOK
<1>32. CASE Rotation!Throw
  BY <1>1, <1>32 DEF Rotation!Throw, Rotation!Ends, Rotation!NoTxn, Rotation!NoSnapshot,
    FilesOK, FilesAt, Writing, Rotation!Phase, Rotation!Envs, Rotation!Promotes,
    Rotation!Target, Rotation!DB_COMMITTED, Rotation!ROOT_ENV_PROMOTED
<1>33. CASE Rotation!Crash
  BY <1>1, <1>33 DEF Rotation!Crash, Rotation!Ends, Rotation!NoTxn, Rotation!NoSnapshot,
    FilesOK, FilesAt, Writing, Rotation!Phase, Rotation!Envs, Rotation!Promotes,
    Rotation!Target, Rotation!DB_COMMITTED, Rotation!ROOT_ENV_PROMOTED
<1> QED BY <1>2, <1>3, <1>4, <1>5, <1>6, <1>7, <1>8, <1>9, <1>10, <1>11, <1>12, <1>13,
  <1>14, <1>15, <1>16, <1>17, <1>18, <1>19, <1>20, <1>21, <1>22, <1>23, <1>24, <1>25, <1>26,
  <1>27, <1>28, <1>29, <1>30, <1>31, <1>32, <1>33 DEF Rotation!Next, Rotation!Driver, Rotation!Child

\* What has been verified does not depend on anything else.
LEMMA SameVerified ==
    ASSUME UNCHANGED <<sec, db, env>>
    PROVE  UNCHANGED Verified
BY DEF Verified, Rotation!Phase, Rotation!Envs, Rotation!record_rotation,
       Rotation!state_fingerprint

\* What has been verified stays so until the journal says it.
LEMMA VerifiedStep ==
    ASSUME Rotation!RotationAssumption, JournalOK, ChildOK, PlaceOK,
           VerifiedOK, NEW D \in Domains, RotTypedIn(D), [Rotation!Next]_(Rotation!vars)
    PROVE  VerifiedOK'
<1>1. /\ sec \in Roots(D) /\ sec.cur \in 0..6 /\ sec.prev \in 0..5 /\ db \in Dbs /\ next \in 0..6
      /\ txn \in [st : States, orphan : BOOLEAN, snap : Dbs]
  BY DEF RotTypedIn, Roots
<1>2. CASE UNCHANGED Rotation!vars
  <2>1. UNCHANGED <<sec, db, env, pc, next>>
    BY <1>2 DEF Rotation!vars
  <2> QED BY <2>1, SameVerified DEF VerifiedOK, Writing
<1>3. CASE Rotation!acquire_backend_maintenance_gate
  <2>1. UNCHANGED <<sec, db, env, pc, next>>
    BY <1>3 DEF Rotation!acquire_backend_maintenance_gate
  <2> QED BY <2>1, SameVerified DEF VerifiedOK, Writing
<1>4. CASE Rotation!_release_lease
  BY <1>1, <1>4 DEF Rotation!_release_lease, VerifiedOK, Verified, Writing, Rotation!Phase,
    Rotation!Envs, JournalOK
<1>5. CASE Rotation!ServiceWrites
  BY <1>1, <1>5 DEF Rotation!ServiceWrites, VerifiedOK, Verified, Writing, Rotation!Phase,
    Rotation!Envs, JournalOK
<1>6. CASE Rotation!Start
  BY <1>1, <1>6 DEF Rotation!Start, VerifiedOK, Verified, Writing, Rotation!Phase,
    Rotation!Envs
<1>7. CASE Rotation!prepare_credential_bundle
  BY <1>1, <1>7 DEF Rotation!prepare_credential_bundle, Rotation!Step, VerifiedOK, Verified,
    Writing, Rotation!Phase, Rotation!Envs
<1>8. CASE Rotation!WritePendingEnvironments
  BY <1>1, <1>8 DEF Rotation!WritePendingEnvironments, Rotation!Step, VerifiedOK, Verified,
    Writing, Rotation!Phase, Rotation!Envs
<1>9. CASE Rotation!BeginTransaction
  BY <1>1, <1>9 DEF Rotation!BeginTransaction, Rotation!Step, VerifiedOK, Verified, Writing,
    Rotation!Phase, Rotation!Envs
<1>10. CASE Rotation!PublishRecovery
  BY <1>1, <1>10 DEF Rotation!PublishRecovery, Rotation!Step, VerifiedOK, Verified, Writing,
    Rotation!Phase, Rotation!Envs
<1>11. CASE Rotation!seal_rotation_journal
  BY <1>1, <1>11 DEF Rotation!seal_rotation_journal, Rotation!Step, VerifiedOK, Verified,
    Writing, Rotation!Phase, Rotation!Envs
<1>12. CASE Rotation!RestoreBootstrapJournal
  BY <1>1, <1>12 DEF Rotation!RestoreBootstrapJournal, Rotation!Step, VerifiedOK, Verified,
    Writing, Rotation!Phase, Rotation!Envs
<1>13. CASE Rotation!RestartTransaction
  BY <1>1, <1>13 DEF Rotation!RestartTransaction, VerifiedOK, Verified, Writing,
    Rotation!Phase, Rotation!Envs, Rotation!PREPARED, Rotation!DB_COMMITTED
<1>14. CASE Rotation!CommitDecision
  BY <1>1, <1>14 DEF Rotation!CommitDecision, Rotation!Step, VerifiedOK, Verified, Writing,
    Rotation!Phase, Rotation!Envs
<1>15. CASE Rotation!_apply_rotation
  <2>1. UNCHANGED <<sec, pc, next>> /\ Rotation!Phase = 1
    BY <1>1, <1>15 DEF Rotation!_apply_rotation, ChildOK, States
  <2> QED BY <2>1 DEF VerifiedOK, Verified, Writing
<1>16. CASE Rotation!Orphaned
  <2>1. UNCHANGED <<sec, db, env, pc, next>>
    BY <1>16 DEF Rotation!Orphaned
  <2> QED BY <2>1, SameVerified DEF VerifiedOK, Writing
<1>17. CASE Rotation!Answered
  BY <1>1, <1>17 DEF Rotation!Answered, Rotation!Step, VerifiedOK, Verified, Writing,
    Rotation!Phase, Rotation!Envs, Rotation!DB_COMMITTED
<1>18. CASE Rotation!KeepPrevious
  BY <1>1, <1>18 DEF Rotation!KeepPrevious, Rotation!Step, VerifiedOK, Verified, Writing,
    Rotation!Phase, Rotation!Envs, Roots, Rotation!record_rotation
<1>19. CASE Rotation!advance_rotation_journal
  BY <1>1, <1>19 DEF Rotation!advance_rotation_journal, Rotation!Step, VerifiedOK, Verified,
    Writing, Rotation!Phase, Rotation!Envs
<1>20. CASE Rotation!Reconcile
  BY <1>1, <1>20 DEF Rotation!Reconcile, VerifiedOK, Verified, Writing, Rotation!Phase,
    Rotation!Envs, Rotation!Promotes, Rotation!CREDENTIALS_PROMOTED, Rotation!DB_COMMITTED,
    Rotation!ROOT_ENV_PROMOTED
<1>21. CASE Rotation!Quarantine
  BY <1>1, <1>21 DEF Rotation!Quarantine, VerifiedOK, Verified, Writing, Rotation!Phase,
    Rotation!Envs
<1>22. CASE Rotation!RemoveSource
  BY <1>1, <1>22 DEF Rotation!RemoveSource, Rotation!Step, VerifiedOK, Verified, Writing,
    Rotation!Phase, Rotation!Envs
<1>23. CASE Rotation!RecordEntry
  BY <1>1, <1>23 DEF Rotation!RecordEntry, Rotation!Step, VerifiedOK, Verified, Writing,
    Rotation!Phase, Rotation!Envs
<1>24. CASE Rotation!PromoteEnvironment
  BY <1>1, <1>24 DEF Rotation!PromoteEnvironment, Rotation!Step, VerifiedOK, Verified,
    Writing, Rotation!Phase, Rotation!Envs, PlaceOK, Rotation!Promotes,
    Rotation!DB_COMMITTED, Rotation!ROOT_ENV_PROMOTED
<1>25. CASE Rotation!SkipRoot
  BY <1>1, <1>25 DEF Rotation!SkipRoot, VerifiedOK, Verified, Writing, Rotation!Phase,
    Rotation!Envs, Rotation!Promotes, Rotation!DB_COMMITTED, Rotation!ROOT_ENV_PROMOTED
<1>26. CASE Rotation!PromoteCredentials
  BY <1>1, <1>26 DEF Rotation!PromoteCredentials, VerifiedOK, Verified, Writing,
    Rotation!Phase, Rotation!Envs, Rotation!CREDENTIALS_PROMOTED
<1>27. CASE Rotation!verify_rotation_state
  <2>1. CASE Rotation!Phase = 6
    BY <2>1, <1>27 DEF Rotation!verify_rotation_state, Rotation!COMPLETE, VerifiedOK, Writing
  <2>2. CASE Rotation!Phase # 6
    <3>1. PICK l \in db.ledger : l.rotation = sec.bundle /\ l.post = Rotation!state_fingerprint(db)
      BY <1>27 DEF Rotation!verify_rotation_state, Rotation!Committed,
          Rotation!_existing_result, Rotation!Ledger
    <3>2. l = Rotation!record_rotation(db)
      BY <1>1, <3>1 DEF Dbs, Ledgers, Rotation!record_rotation
    <3>3. Rotation!Phase = 5
      BY <1>1, <2>2, <1>27 DEF Rotation!verify_rotation_state, Rotation!Phase,
          Rotation!CREDENTIALS_PROMOTED
    <3>4. Verified
      BY <3>1, <3>2, <3>3, <1>27 DEF Rotation!verify_rotation_state, Verified
    <3>5. UNCHANGED <<db, env, sec>>
      BY <1>27 DEF Rotation!verify_rotation_state
    <3> QED BY <3>4, <3>5, SameVerified DEF VerifiedOK
  <2> QED BY <2>1, <2>2
<1>28. CASE Rotation!Finish
  BY <1>1, <1>28 DEF Rotation!Finish, Rotation!Step, VerifiedOK, Verified, Writing,
    Rotation!Phase, Rotation!Envs
<1>29. CASE Rotation!RestoreDatabase
  BY <1>1, <1>29 DEF Rotation!RestoreDatabase, VerifiedOK, Verified, Writing,
    Rotation!Phase, Rotation!Envs, JournalOK
<1>30. CASE Rotation!RestoreGuard
  BY <1>1, <1>30 DEF Rotation!RestoreGuard, VerifiedOK, Verified, Writing, Rotation!Phase,
    Rotation!Envs
<1>31. CASE Rotation!ArchiveComplete
  BY <1>1, <1>31 DEF Rotation!ArchiveComplete, Rotation!Step, VerifiedOK, Verified, Writing,
    Rotation!Phase, Rotation!Envs
<1>32. CASE Rotation!Throw
  BY <1>1, <1>32 DEF Rotation!Throw, Rotation!Ends, Rotation!NoTxn, Rotation!NoSnapshot,
    VerifiedOK, Verified, Writing, Rotation!Phase, Rotation!Envs
<1>33. CASE Rotation!Crash
  BY <1>1, <1>33 DEF Rotation!Crash, Rotation!Ends, Rotation!NoTxn, Rotation!NoSnapshot,
    VerifiedOK, Verified, Writing, Rotation!Phase, Rotation!Envs
<1> QED BY <1>2, <1>3, <1>4, <1>5, <1>6, <1>7, <1>8, <1>9, <1>10, <1>11, <1>12, <1>13,
  <1>14, <1>15, <1>16, <1>17, <1>18, <1>19, <1>20, <1>21, <1>22, <1>23, <1>24, <1>25, <1>26,
  <1>27, <1>28, <1>29, <1>30, <1>31, <1>32, <1>33 DEF Rotation!Next, Rotation!Driver, Rotation!Child

\* The inductive invariant.
RotStrong == JournalOK /\ ChildOK /\ PlaceOK /\ PasswordsOK /\ FilesOK /\ VerifiedOK
RotInv == RotTyped /\ RotStrong

\* Every step keeps it ...
LEMMA RotStep ==
    ASSUME Rotation!RotationAssumption, RotInv, [Rotation!Next]_(Rotation!vars)
    PROVE  RotInv'
<1>1. PICK D \in Domains : RotTypedIn(D)
  BY DEF RotInv, RotTyped
<1>2. RotTyped'
  BY <1>1, RotTypedStep DEF RotInv, RotStrong, RotTyped
<1>3. JournalOK' /\ ChildOK' /\ PlaceOK'
  BY <1>1, JournalStep, ChildStep, PlaceStep DEF RotInv, RotStrong
<1>4. PasswordsOK' /\ FilesOK' /\ VerifiedOK'
  BY <1>1, PasswordsStep, FilesStep, VerifiedStep DEF RotInv, RotStrong
<1> QED BY <1>2, <1>3, <1>4 DEF RotInv, RotStrong

\* ... and it holds in the beginning.
LEMMA RotInit ==
    ASSUME Rotation!RotationAssumption, Rotation!Init
    PROVE  RotInv
<1>1. PICK D \in Domains : env \in [D -> {0}]
  BY DEF Rotation!Init, Domains
<1>2. RotTypedIn(D)
  <2>1. Rotation!NoSnapshot \in Dbs /\ db \in Dbs
    BY DEF Rotation!Init, Rotation!NoSnapshot, Dbs, Ledgers
  <2>2. sec \in Roots(D)
    BY <2>1 DEF Rotation!Init, Rotation!Empty, Rotation!None, Roots
  <2>3. txn \in [st : States, orphan : BOOLEAN, snap : Dbs]
    BY <2>1 DEF Rotation!Init, Rotation!NoTxn, Rotation!None, States
  <2> QED BY <1>1, <2>1, <2>2, <2>3 DEF Rotation!Init, RotTypedIn, Rotation!Pcs, Rotation!None
<1>3. Rotation!Phase = 0 /\ ~Begun /\ ~Writing
  BY DEF Rotation!Init, Rotation!Empty, Rotation!Phase, Begun, Writing
<1>4. JournalOK /\ ChildOK /\ PlaceOK
  BY <1>3 DEF Rotation!Init, JournalOK, ChildOK, PlaceOK, Rotation!JournalValid, Rotation!Empty,
              Rotation!NoTxn, Rotation!None, Own
<1>5. PasswordsOK /\ VerifiedOK
  BY <1>3 DEF Rotation!Init, Rotation!Empty, Rotation!NoSnapshot, PasswordsOK, VerifiedOK
<1>6. FilesOK
  BY <1>1, <1>3 DEF FilesOK, FilesAt, Rotation!Envs, Rotation!Missing
<1> QED BY <1>2, <1>4, <1>5, <1>6 DEF RotInv, RotStrong, RotTyped

\* What the invariant gives.
LEMMA RotGives ==
    ASSUME Rotation!RotationAssumption, RotInv
    PROVE  Rotation!TypeOK /\ Rotation!CredentialsRecoverable /\ Rotation!EnvRecoverable
<1>1. PICK D \in Domains : RotTypedIn(D)
  BY DEF RotInv, RotTyped
<1>2. Rotation!TypeOK
  BY <1>1 DEF RotInv, RotStrong, RotTypedIn, JournalOK, Roots, Rotation!TypeOK, Rotation!Envs,
      Rotation!None
<1>3. Rotation!CredentialsRecoverable
  BY DEF RotInv, RotStrong, PasswordsOK, PlaceOK, Begun, Rotation!CredentialsRecoverable,
      Rotation!None
<1>4. Rotation!Promotes => sec.pend = Rotation!Envs
  BY DEF RotInv, RotStrong, PlaceOK, Begun, Rotation!Promotes, Rotation!DB_COMMITTED,
         Rotation!ROOT_ENV_PROMOTED
<1>5. Rotation!EnvRecoverable
  BY <1>4 DEF RotInv, RotStrong, FilesOK, Rotation!EnvRecoverable
<1> QED BY <1>2, <1>3, <1>5

\* Who changes the database.
LEMMA RotWrites ==
    ASSUME [Rotation!Next]_(Rotation!vars)
    PROVE  \/ Rotation!_apply_rotation \/ Rotation!RestoreDatabase \/ Rotation!ServiceWrites
           \/ UNCHANGED db
<1>1. CASE UNCHANGED Rotation!vars
  BY <1>1 DEF Rotation!vars
<1>2. CASE Rotation!acquire_backend_maintenance_gate
  BY <1>2 DEF Rotation!acquire_backend_maintenance_gate
<1>3. CASE Rotation!_release_lease
  BY <1>3 DEF Rotation!_release_lease
<1>4. CASE Rotation!ServiceWrites
  BY <1>4
<1>5. CASE Rotation!Start
  BY <1>5 DEF Rotation!Start
<1>6. CASE Rotation!prepare_credential_bundle
  BY <1>6 DEF Rotation!prepare_credential_bundle, Rotation!Step
<1>7. CASE Rotation!WritePendingEnvironments
  BY <1>7 DEF Rotation!WritePendingEnvironments, Rotation!Step
<1>8. CASE Rotation!BeginTransaction
  BY <1>8 DEF Rotation!BeginTransaction, Rotation!Step
<1>9. CASE Rotation!PublishRecovery
  BY <1>9 DEF Rotation!PublishRecovery, Rotation!Step
<1>10. CASE Rotation!seal_rotation_journal
  BY <1>10 DEF Rotation!seal_rotation_journal, Rotation!Step
<1>11. CASE Rotation!RestoreBootstrapJournal
  BY <1>11 DEF Rotation!RestoreBootstrapJournal, Rotation!Step
<1>12. CASE Rotation!RestartTransaction
  BY <1>12 DEF Rotation!RestartTransaction
<1>13. CASE Rotation!CommitDecision
  BY <1>13 DEF Rotation!CommitDecision, Rotation!Step
<1>14. CASE Rotation!_apply_rotation
  BY <1>14
<1>15. CASE Rotation!Orphaned
  BY <1>15 DEF Rotation!Orphaned
<1>16. CASE Rotation!Answered
  BY <1>16 DEF Rotation!Answered, Rotation!Step
<1>17. CASE Rotation!KeepPrevious
  BY <1>17 DEF Rotation!KeepPrevious, Rotation!Step
<1>18. CASE Rotation!advance_rotation_journal
  BY <1>18 DEF Rotation!advance_rotation_journal, Rotation!Step
<1>19. CASE Rotation!Reconcile
  BY <1>19 DEF Rotation!Reconcile
<1>20. CASE Rotation!Quarantine
  BY <1>20 DEF Rotation!Quarantine
<1>21. CASE Rotation!RemoveSource
  BY <1>21 DEF Rotation!RemoveSource, Rotation!Step
<1>22. CASE Rotation!RecordEntry
  BY <1>22 DEF Rotation!RecordEntry, Rotation!Step
<1>23. CASE Rotation!PromoteEnvironment
  BY <1>23 DEF Rotation!PromoteEnvironment, Rotation!Step
<1>24. CASE Rotation!SkipRoot
  BY <1>24 DEF Rotation!SkipRoot
<1>25. CASE Rotation!PromoteCredentials
  BY <1>25 DEF Rotation!PromoteCredentials
<1>26. CASE Rotation!verify_rotation_state
  BY <1>26 DEF Rotation!verify_rotation_state
<1>27. CASE Rotation!Finish
  BY <1>27 DEF Rotation!Finish, Rotation!Step
<1>28. CASE Rotation!RestoreDatabase
  BY <1>28
<1>29. CASE Rotation!RestoreGuard
  BY <1>29 DEF Rotation!RestoreGuard
<1>30. CASE Rotation!ArchiveComplete
  BY <1>30 DEF Rotation!ArchiveComplete, Rotation!Step
<1>31. CASE Rotation!Throw
  BY <1>31 DEF Rotation!Throw, Rotation!Ends
<1>32. CASE Rotation!Crash
  BY <1>32 DEF Rotation!Crash, Rotation!Ends
<1> QED BY <1>1, <1>2, <1>3, <1>4, <1>5, <1>6, <1>7, <1>8, <1>9, <1>10, <1>11, <1>12, <1>13,
  <1>14, <1>15, <1>16, <1>17, <1>18, <1>19, <1>20, <1>21, <1>22, <1>23, <1>24, <1>25, <1>26,
  <1>27, <1>28, <1>29, <1>30, <1>31, <1>32 DEF Rotation!Next, Rotation!Driver, Rotation!Child

\* ... and the journal.
LEMMA RotJournal ==
    ASSUME NEW D \in Domains, RotTypedIn(D), [Rotation!Next]_(Rotation!vars)
    PROVE  \/ Rotation!advance_rotation_journal \/ Rotation!KeepPrevious
           \/ Rotation!seal_rotation_journal \/ Rotation!RestoreBootstrapJournal
           \/ (sec'.cur = sec.cur /\ sec'.prev = sec.prev) \/ sec' = Rotation!Empty
<1>1. sec \in Roots(D)
  BY DEF RotTypedIn
<1>2. CASE UNCHANGED Rotation!vars
  BY <1>2 DEF Rotation!vars
<1>3. CASE Rotation!acquire_backend_maintenance_gate
  BY <1>3 DEF Rotation!acquire_backend_maintenance_gate
<1>4. CASE Rotation!_release_lease
  BY <1>4 DEF Rotation!_release_lease
<1>5. CASE Rotation!ServiceWrites
  BY <1>5 DEF Rotation!ServiceWrites
<1>6. CASE Rotation!Start
  BY <1>1, <1>6 DEF Rotation!Start, Roots
<1>7. CASE Rotation!prepare_credential_bundle
  BY <1>1, <1>7 DEF Rotation!prepare_credential_bundle, Rotation!Step, Roots
<1>8. CASE Rotation!WritePendingEnvironments
  BY <1>1, <1>8 DEF Rotation!WritePendingEnvironments, Rotation!Step, Roots
<1>9. CASE Rotation!BeginTransaction
  BY <1>9 DEF Rotation!BeginTransaction, Rotation!Step
<1>10. CASE Rotation!PublishRecovery
  BY <1>1, <1>10 DEF Rotation!PublishRecovery, Rotation!Step, Roots
<1>11. CASE Rotation!seal_rotation_journal
  BY <1>11
<1>12. CASE Rotation!RestoreBootstrapJournal
  BY <1>12
<1>13. CASE Rotation!RestartTransaction
  BY <1>13 DEF Rotation!RestartTransaction
<1>14. CASE Rotation!CommitDecision
  BY <1>14 DEF Rotation!CommitDecision, Rotation!Step
<1>15. CASE Rotation!_apply_rotation
  BY <1>15 DEF Rotation!_apply_rotation
<1>16. CASE Rotation!Orphaned
  BY <1>16 DEF Rotation!Orphaned
<1>17. CASE Rotation!Answered
  BY <1>17 DEF Rotation!Answered, Rotation!Step
<1>18. CASE Rotation!KeepPrevious
  BY <1>18
<1>19. CASE Rotation!advance_rotation_journal
  BY <1>19
<1>20. CASE Rotation!Reconcile
  BY <1>20 DEF Rotation!Reconcile
<1>21. CASE Rotation!Quarantine
  BY <1>1, <1>21 DEF Rotation!Quarantine, Roots
<1>22. CASE Rotation!RemoveSource
  BY <1>22 DEF Rotation!RemoveSource, Rotation!Step
<1>23. CASE Rotation!RecordEntry
  BY <1>1, <1>23 DEF Rotation!RecordEntry, Rotation!Step, Roots
<1>24. CASE Rotation!PromoteEnvironment
  BY <1>24 DEF Rotation!PromoteEnvironment, Rotation!Step
<1>25. CASE Rotation!SkipRoot
  BY <1>25 DEF Rotation!SkipRoot
<1>26. CASE Rotation!PromoteCredentials
  BY <1>1, <1>26 DEF Rotation!PromoteCredentials, Roots
<1>27. CASE Rotation!verify_rotation_state
  BY <1>27 DEF Rotation!verify_rotation_state
<1>28. CASE Rotation!Finish
  BY <1>28 DEF Rotation!Finish, Rotation!Step
<1>29. CASE Rotation!RestoreDatabase
  BY <1>29 DEF Rotation!RestoreDatabase
<1>30. CASE Rotation!RestoreGuard
  BY <1>30 DEF Rotation!RestoreGuard
<1>31. CASE Rotation!ArchiveComplete
  BY <1>31 DEF Rotation!ArchiveComplete, Rotation!Step
<1>32. CASE Rotation!Throw
  BY <1>32 DEF Rotation!Throw, Rotation!Ends
<1>33. CASE Rotation!Crash
  BY <1>33 DEF Rotation!Crash, Rotation!Ends
<1> QED BY <1>2, <1>3, <1>4, <1>5, <1>6, <1>7, <1>8, <1>9, <1>10, <1>11, <1>12, <1>13,
  <1>14, <1>15, <1>16, <1>17, <1>18, <1>19, <1>20, <1>21, <1>22, <1>23, <1>24, <1>25, <1>26,
  <1>27, <1>28, <1>29, <1>30, <1>31, <1>32, <1>33 DEF Rotation!Next, Rotation!Driver, Rotation!Child

\* The journal says complete after everything was verified.
LEMMA RotTogether ==
    ASSUME Rotation!RotationAssumption, RotInv, [Rotation!Next]_(Rotation!vars)
    PROVE  Rotation!RotatedTogether
<1> SUFFICES ASSUME Rotation!Phase # 6, Rotation!Phase' = 6
             PROVE  Verified
  BY DEF Rotation!RotatedTogether, Rotation!COMPLETE, Verified
<1>1. PICK D \in Domains : RotTypedIn(D)
  BY DEF RotInv, RotTyped
<1>2. /\ sec \in Roots(D) /\ sec.cur \in 0..6 /\ sec.prev \in 0..5 /\ next \in 0..6
  BY <1>1 DEF RotTypedIn, Roots
<1>3. CASE Rotation!advance_rotation_journal
  <2>1. sec'.cur = next /\ pc = "journal2"
    BY <1>2, <1>3 DEF Rotation!advance_rotation_journal, Rotation!Step, Roots
  <2>2. next = 6
    BY <1>2, <2>1 DEF RotInv, RotStrong, JournalOK, Writing, Rotation!Phase
  <2> QED BY <2>1, <2>2 DEF RotInv, RotStrong, VerifiedOK, Writing
<1>4. CASE Rotation!KeepPrevious
  BY <1>2, <1>4 DEF Rotation!KeepPrevious, Rotation!Phase, Roots
<1>5. CASE Rotation!seal_rotation_journal \/ Rotation!RestoreBootstrapJournal
  BY <1>2, <1>5 DEF Rotation!seal_rotation_journal, Rotation!RestoreBootstrapJournal,
                    Rotation!PREPARED, Rotation!Phase, Roots
<1>6. CASE sec'.cur = sec.cur /\ sec'.prev = sec.prev
  BY <1>6 DEF Rotation!Phase
<1>7. CASE sec' = Rotation!Empty
  BY <1>7 DEF Rotation!Phase, Rotation!Empty
<1> QED BY <1>1, <1>3, <1>4, <1>5, <1>6, <1>7, RotJournal

\* A rotation that the ledger did not have is committed over what was saved.
LEMMA RotFaithful ==
    ASSUME Rotation!RotationAssumption, RotInv, [Rotation!Next]_(Rotation!vars)
    PROVE  Rotation!RecoveryFaithful
<1>1. PICK D \in Domains : RotTypedIn(D)
  BY DEF RotInv, RotTyped
<1> SUFFICES ASSUME NEW r \in Rotations, Rotation!Ledger(r) = {},
                    NEW m \in db'.ledger, m.rotation = r
             PROVE  sec.recovery = db /\ sec.bundle = r /\ ~db'.sess
  BY DEF Rotation!RecoveryFaithful
<1>2. m \notin db.ledger
  BY DEF Rotation!Ledger
<1>3. CASE Rotation!_apply_rotation
  <2>1. sec.recovery = db
    BY <1>1, <1>3 DEF Rotation!_apply_rotation, RotInv, RotStrong, ChildOK, RotTypedIn, States
  <2>2. m.rotation = sec.bundle /\ db'.sess = FALSE
    BY <1>1, <1>2, <1>3, Rotated DEF RotTypedIn
  <2> QED BY <2>1, <2>2
<1>4. CASE Rotation!RestoreDatabase
  BY <1>2, <1>4 DEF Rotation!RestoreDatabase, RotInv, RotStrong, PasswordsOK
<1>5. CASE Rotation!ServiceWrites
  <2>1. db'.ledger = db.ledger
    BY <1>1, <1>5 DEF Rotation!ServiceWrites, RotTypedIn, Dbs
  <2> QED BY <1>2, <2>1
<1>6. CASE UNCHANGED db
  BY <1>2, <1>6
<1> QED BY <1>3, <1>4, <1>5, <1>6, RotWrites

-----------------------------------------------------------------------------
(* The newsletters.                                                        *)

NoIssue == [ver |-> 0, active |-> FALSE, title |-> "none"]
SomeIssue(C) == [ver : 1..C, active : BOOLEAN, title : {"file", "admin"}]
IssueRows(K, C) == [K -> SomeIssue(C) \cup {NoIssue}]
Signatures(K, C) == [K -> 0..(C + 1)]
SyncRequests(K, C) ==
    [pc : {"idle", "wait", "scan", "load", "insert", "update", "serve", "end"},
     kind : {"none", "read", "sync", "edit"}, sig : Signatures(K, C), found : [K -> 0..C],
     did : BOOLEAN, blind : BOOLEAN, copy : IssueRows(K, C), served : IssueRows(K, C),
     result : {"none", "ok", "error"}]

\* The types, with requests that overlap too: rows are never removed, and an edit
\* reads and does not import.
SyncTyped(K, R, C, M) ==
    /\ folder \in [K -> 0..C] /\ present \in BOOLEAN /\ clock \in 0..C
    /\ rows \in IssueRows(K, C)
    /\ signature \in Signatures(K, C) /\ synced \in Signatures(K, C)
    /\ edited \in [K -> Signatures(K, C)]
    /\ lock \in R \cup {"none"} /\ writer \in R \cup {"none"}
    /\ req \in [R -> SyncRequests(K, C)]
    /\ restarts \in 0..M
SyncCopies(K, R) ==
    \A r \in R, k \in K : req[r].copy[k] # NoIssue => rows[k] # NoIssue
SyncShape(K, R, C, M) == SyncTyped(K, R, C, M) /\ SyncCopies(K, R)

\* Only a read that is importing holds the lock of the process, and a request that
\* has the database's write lock has not ended.
SyncHeld(R) ==
    \A r \in R :
        /\ lock = r => req[r].kind = "read" /\ req[r].pc \in {"scan", "load", "insert", "update"}
        /\ writer = r => req[r].pc \in {"update", "serve"}
        /\ req[r].pc = "wait" => req[r].kind = "read"

\* Where the folder changes only between requests and nobody synchronises by hand,
\* a missing folder is never scanned.
SyncSighted(R) ==
    \A r \in R : /\ ~req[r].blind /\ req[r].kind # "sync"
                 /\ req[r].pc \in {"wait", "scan"} => present

\* The invariants where a folder may go missing, and where requests overlap.
MissingInv == SyncShape(FewIssues, Readers, MaxMoves + 1, 1) /\ SyncSighted(Readers)
TogetherInv == SyncShape(FewIssues, Readers, MaxMoves, 1) /\ SyncHeld(Readers)

-----------------------------------------------------------------------------
(* Newsletters, a folder that may go missing.                              *)

\* A row that differs from the copy in some columns is written in these.
LEMMA MissingMerged ==
    ASSUME NEW C \in Nat, NEW now \in SomeIssue(C), NEW copy \in SomeIssue(C),
           NEW new \in SomeIssue(C)
    PROVE  /\ Missing!Merge(now, copy, new) \in SomeIssue(C)
           /\ now = copy => Missing!Merge(now, copy, new) = new
<1>1. copy # Missing!NoRow
  BY DEF Missing!NoRow, Missing!None, SomeIssue
<1>2. Missing!Merge(now, copy, new) =
        [c \in DOMAIN now |-> IF new[c] # copy[c] THEN new[c] ELSE now[c]]
  BY <1>1 DEF Missing!Merge
<1>3. DOMAIN now = {"ver", "active", "title"} /\ DOMAIN new = {"ver", "active", "title"}
  BY DEF SomeIssue
<1>4. Missing!Merge(now, copy, new) =
        [ver |-> IF new.ver # copy.ver THEN new.ver ELSE now.ver,
         active |-> IF new.active # copy.active THEN new.active ELSE now.active,
         title |-> IF new.title # copy.title THEN new.title ELSE now.title]
  BY <1>2, <1>3
<1>5. Missing!Merge(now, copy, new) \in SomeIssue(C)
  BY <1>4 DEF SomeIssue
<1>6. ASSUME now = copy
      PROVE  Missing!Merge(now, copy, new) = new
  BY <1>4, <1>6 DEF SomeIssue
<1> QED BY <1>5, <1>6

\* What an import makes of the copies are rows, and none goes.
LEMMA MissingObjects ==
    ASSUME NEW r \in Readers, NEW k \in FewIssues, MaxMoves + 1 \in Nat,
           SyncTyped(FewIssues, Readers, MaxMoves + 1, 1)
    PROVE  /\ Missing!Objects(r)[k] \in SomeIssue(MaxMoves + 1) \cup {NoIssue}
           /\ req[r].copy[k] # NoIssue => Missing!Objects(r)[k] \in SomeIssue(MaxMoves + 1)
           /\ req[r].copy[k] = NoIssue /\ Missing!Objects(r)[k] # NoIssue =>
                 req[r].did /\ req[r].found[k] # 0
<1>1. /\ req[r] \in SyncRequests(FewIssues, MaxMoves + 1)
  BY DEF SyncTyped
<1>2. /\ req[r].copy[k] \in SomeIssue(MaxMoves + 1) \cup {NoIssue}
      /\ req[r].found[k] \in 0..(MaxMoves + 1) /\ req[r].did \in BOOLEAN
  BY <1>1 DEF SyncRequests, IssueRows
<1>3. Missing!Objects(r)[k] = IF ~req[r].did THEN req[r].copy[k]
        ELSE IF req[r].found[k] # 0 THEN Missing!Imported(req[r].copy[k], req[r].found[k])
        ELSE Missing!Deactivated(req[r].copy[k])
  BY DEF Missing!Objects
<1>4. [NoIssue EXCEPT !.active = FALSE] = NoIssue
  <2>1. NoIssue.active = FALSE /\ NoIssue = [c \in DOMAIN NoIssue |-> NoIssue[c]]
    BY DEF NoIssue
  <2> QED BY <2>1
<1>5. req[r].copy[k] # NoIssue => Missing!Deactivated(req[r].copy[k]) \in SomeIssue(MaxMoves + 1)
  BY <1>2 DEF Missing!Deactivated, SomeIssue
<1>6. req[r].copy[k] = NoIssue => Missing!Deactivated(req[r].copy[k]) = NoIssue
  BY <1>4 DEF Missing!Deactivated
<1>7. req[r].found[k] # 0 =>
          Missing!Imported(req[r].copy[k], req[r].found[k]) \in SomeIssue(MaxMoves + 1)
  BY <1>2 DEF Missing!Imported, SomeIssue
<1> QED BY <1>2, <1>3, <1>4, <1>5, <1>6, <1>7

\* A commit leaves rows, and none goes.
LEMMA MissingApplied ==
    ASSUME NEW r \in Readers, MaxMoves + 1 \in Nat, SyncShape(FewIssues, Readers, MaxMoves + 1, 1)
    PROVE  /\ Missing!Applied(r) \in IssueRows(FewIssues, MaxMoves + 1)
           /\ \A k \in FewIssues : rows[k] # NoIssue => Missing!Applied(r)[k] # NoIssue
<1>1. SUFFICES ASSUME NEW k \in FewIssues
               PROVE  /\ Missing!Applied(r)[k] \in SomeIssue(MaxMoves + 1) \cup {NoIssue}
                      /\ rows[k] # NoIssue => Missing!Applied(r)[k] # NoIssue
  BY DEF Missing!Applied, IssueRows
<1> DEFINE o == Missing!Objects(r)[k]
           c == req[r].copy[k]
<1>2. /\ rows[k] \in SomeIssue(MaxMoves + 1) \cup {NoIssue}
      /\ c \in SomeIssue(MaxMoves + 1) \cup {NoIssue}
      /\ c # NoIssue => rows[k] # NoIssue
  BY DEF SyncShape, SyncTyped, SyncCopies, SyncRequests, IssueRows
<1>3. /\ o \in SomeIssue(MaxMoves + 1) \cup {NoIssue}
      /\ c # NoIssue => o \in SomeIssue(MaxMoves + 1)
  BY MissingObjects DEF SyncShape
<1>4. Missing!Applied(r)[k] = IF o = c THEN rows[k] ELSE Missing!Merge(rows[k], c, o)
  BY DEF Missing!Applied
<1>5. NoIssue \notin SomeIssue(MaxMoves + 1)
  BY DEF NoIssue, SomeIssue
<1> HIDE DEF o, c
<1>6. CASE o = c
  BY <1>2, <1>4, <1>6
<1>7. CASE o # c /\ c = NoIssue
  <2>1. Missing!Merge(rows[k], c, o) = o
    BY <1>7 DEF Missing!Merge, Missing!NoRow, Missing!None, NoIssue
  <2> QED BY <1>3, <1>4, <1>5, <1>7, <2>1
<1>8. CASE o # c /\ c # NoIssue
  <2>1. Missing!Merge(rows[k], c, o) \in SomeIssue(MaxMoves + 1)
    BY <1>2, <1>3, <1>8, MissingMerged
  <2> QED BY <1>4, <1>5, <1>8, <2>1
<1> QED BY <1>6, <1>7, <1>8

\* The state of a request that goes on, and of one that fails.
LEMMA MissingGoes ==
    ASSUME NEW r \in Readers, NEW v \in SyncRequests(FewIssues, MaxMoves + 1),
           req \in [Readers -> SyncRequests(FewIssues, MaxMoves + 1)], Missing!Goes(r, v)
    PROVE  /\ req' \in [Readers -> SyncRequests(FewIssues, MaxMoves + 1)] /\ req'[r] = v
           /\ \A s \in Readers \ {r} : req'[s] = req[s]
BY DEF Missing!Goes

\* A request goes on: the types stay if what it goes on with is typed.
LEMMA MissingStays ==
    ASSUME NEW r \in Readers, NEW v \in SyncRequests(FewIssues, MaxMoves + 1), Missing!Goes(r, v),
           SyncShape(FewIssues, Readers, MaxMoves + 1, 1),
           \A k \in FewIssues : v.copy[k] # NoIssue => rows[k] # NoIssue,
           \A k \in FewIssues : rows[k] # NoIssue => rows'[k] # NoIssue
    PROVE  req' \in [Readers -> SyncRequests(FewIssues, MaxMoves + 1)] /\ SyncCopies(FewIssues, Readers)'
<1>1. /\ req' \in [Readers -> SyncRequests(FewIssues, MaxMoves + 1)] /\ req'[r] = v
      /\ \A s \in Readers \ {r} : req'[s] = req[s]
  BY MissingGoes DEF SyncShape, SyncTyped
<1>2. ASSUME NEW s \in Readers, NEW k \in FewIssues, req'[s].copy[k] # NoIssue
      PROVE  rows'[k] # NoIssue
  BY <1>1, <1>2 DEF SyncShape, SyncCopies
<1> QED BY <1>1, <1>2 DEF SyncCopies

\* The names that the types give the module's own sets.
LEMMA MissingNames ==
    ASSUME Missing!SyncAssumption
    PROVE  /\ MaxMoves + 1 \in Nat /\ "none" \notin Readers
           /\ Missing!None = "none" /\ Missing!NoRow = NoIssue
           /\ Missing!Nothing \in [FewIssues -> 0..(MaxMoves + 1)]
           /\ Missing!NoSig \in Signatures(FewIssues, MaxMoves + 1)
           /\ Missing!NoRows \in IssueRows(FewIssues, MaxMoves + 1)
           /\ \A k \in FewIssues : Missing!NoRows[k] = NoIssue
           /\ Missing!Idle \in SyncRequests(FewIssues, MaxMoves + 1)
           /\ Missing!Idle.copy = Missing!NoRows
<1>1. MaxMoves + 1 \in Nat /\ "none" \notin Readers
  BY DEF Missing!SyncAssumption
<1>2. Missing!None = "none" /\ Missing!NoRow = NoIssue
  BY DEF Missing!None, Missing!NoRow, NoIssue
<1>3. /\ Missing!Nothing \in [FewIssues -> 0..(MaxMoves + 1)]
      /\ Missing!NoSig \in Signatures(FewIssues, MaxMoves + 1)
  BY <1>1 DEF Missing!Nothing, Missing!NoSig, Signatures
<1>4. /\ Missing!NoRows \in IssueRows(FewIssues, MaxMoves + 1)
      /\ \A k \in FewIssues : Missing!NoRows[k] = NoIssue
  BY <1>2 DEF Missing!NoRows, IssueRows
<1>5. Missing!Idle \in SyncRequests(FewIssues, MaxMoves + 1) /\ Missing!Idle.copy = Missing!NoRows
  BY <1>2, <1>3, <1>4 DEF Missing!Idle, SyncRequests
<1> QED BY <1>1, <1>2, <1>3, <1>4, <1>5

\* A request that fails is typed and keeps its copy.
LEMMA MissingFailed ==
    ASSUME Missing!SyncAssumption, NEW r \in Readers, Missing!Fail(r),
           SyncShape(FewIssues, Readers, MaxMoves + 1, 1)
    PROVE  SyncShape(FewIssues, Readers, MaxMoves + 1, 1)'
<1> DEFINE v == [req[r] EXCEPT !.pc = "end", !.result = "error"]
<1>1. req[r] \in SyncRequests(FewIssues, MaxMoves + 1)
  BY DEF SyncShape, SyncTyped
<1>2. v \in SyncRequests(FewIssues, MaxMoves + 1) /\ v.copy = req[r].copy
  BY <1>1 DEF SyncRequests
<1>3. Missing!Goes(r, v) /\ rows' = rows
  BY DEF Missing!Fail
<1>4. req' \in [Readers -> SyncRequests(FewIssues, MaxMoves + 1)] /\ SyncCopies(FewIssues, Readers)'
  BY <1>2, <1>3, MissingStays DEF SyncShape, SyncCopies
<1> QED BY <1>4, MissingNames DEF Missing!Fail, Missing!Release, Missing!env, SyncShape, SyncTyped

\* Every step keeps the types.
LEMMA MissingTyped ==
    ASSUME Missing!SyncAssumption, SyncShape(FewIssues, Readers, MaxMoves + 1, 1),
           [Missing!Next]_(Missing!vars)
    PROVE  SyncShape(FewIssues, Readers, MaxMoves + 1, 1)'
<1> USE MissingNames
<1>1. /\ folder \in [FewIssues -> 0..(MaxMoves + 1)]
      /\ present \in BOOLEAN /\ clock \in 0..(MaxMoves + 1)
      /\ rows \in IssueRows(FewIssues, MaxMoves + 1)
      /\ signature \in Signatures(FewIssues, MaxMoves + 1)
      /\ synced \in Signatures(FewIssues, MaxMoves + 1)
      /\ edited \in [FewIssues -> Signatures(FewIssues, MaxMoves + 1)]
      /\ lock \in Readers \cup {"none"} /\ writer \in Readers \cup {"none"}
      /\ req \in [Readers -> SyncRequests(FewIssues, MaxMoves + 1)] /\ restarts \in 0..1
      /\ SyncCopies(FewIssues, Readers)
  BY DEF SyncShape, SyncTyped
<1>2. /\ Missing!Files \in [FewIssues -> 0..(MaxMoves + 1)]
      /\ Missing!Files \in Signatures(FewIssues, MaxMoves + 1)
  BY <1>1 DEF Missing!Files, Signatures
<1>3. CASE UNCHANGED Missing!vars
  BY <1>1, <1>3 DEF Missing!vars, Missing!env, SyncShape, SyncTyped, SyncCopies
<1>4. CASE Missing!ChangeFolder
  <2>1. clock + 1 \in 0..(MaxMoves + 1) /\ clock' = clock + 1
    BY <1>1, <1>4 DEF Missing!ChangeFolder
  <2>2. folder' \in [FewIssues -> 0..(MaxMoves + 1)]
    BY <1>1, <1>4, <2>1 DEF Missing!ChangeFolder
  <2>3. present' = present \/ present' = ~present
    BY <1>4 DEF Missing!ChangeFolder
  <2>4. present' \in BOOLEAN
    BY <1>1, <2>3
  <2> QED BY <1>1, <1>4, <2>1, <2>2, <2>4 DEF Missing!ChangeFolder, SyncShape, SyncTyped,
      SyncCopies
<1>5. CASE Missing!Restart
  <2>1. restarts < 1 /\ restarts' = restarts + 1
    BY <1>5 DEF Missing!Restart
  <2>2. ASSUME NEW s \in Readers
        PROVE  /\ req'[s] \in SyncRequests(FewIssues, MaxMoves + 1) /\ req'[s].copy = req[s].copy
    <3>1. req[s] \in SyncRequests(FewIssues, MaxMoves + 1)
      BY <1>1
    <3>2. /\ [req[s] EXCEPT !.pc = "end", !.result = "error"] \in
                SyncRequests(FewIssues, MaxMoves + 1)
          /\ [req[s] EXCEPT !.pc = "end", !.result = "error"].copy = req[s].copy
      BY <3>1 DEF SyncRequests
    <3>3. req'[s] = IF Missing!Active(s) THEN [req[s] EXCEPT !.pc = "end", !.result = "error"]
                    ELSE req[s]
      BY <1>5 DEF Missing!Restart
    <3> QED BY <3>1, <3>2, <3>3
  <2>3. req' \in [Readers -> SyncRequests(FewIssues, MaxMoves + 1)]
    BY <1>5, <2>2 DEF Missing!Restart
  <2>4. SyncCopies(FewIssues, Readers)'
    BY <1>1, <1>5, <2>2 DEF Missing!Restart, SyncCopies
  <2>5. restarts' \in 0..1
    BY <1>1, <2>1
  <2> QED BY <1>1, <1>5, <2>3, <2>4, <2>5 DEF Missing!Restart, Missing!env, SyncShape, SyncTyped
<1>6. ASSUME NEW r \in Readers, Missing!auto_sync_newsletters(r) \/ Missing!sync_newsletters(r)
      PROVE  SyncShape(FewIssues, Readers, MaxMoves + 1, 1)'
  <2>1. PICK v \in {[Missing!Idle EXCEPT !.kind = "read",
                                     !.pc = IF present THEN "wait" ELSE "serve"],
                    [Missing!Idle EXCEPT !.kind = "sync", !.pc = "scan"]} : Missing!Goes(r, v)
    BY <1>6 DEF Missing!auto_sync_newsletters, Missing!sync_newsletters
  <2>2. v \in SyncRequests(FewIssues, MaxMoves + 1) /\ v.copy = Missing!NoRows
    BY <2>1 DEF SyncRequests
  <2>3. rows' = rows
    BY <1>6 DEF Missing!auto_sync_newsletters, Missing!sync_newsletters
  <2>4. req' \in [Readers -> SyncRequests(FewIssues, MaxMoves + 1)] /\ SyncCopies(FewIssues, Readers)'
    BY <2>1, <2>2, <2>3, MissingStays
  <2> QED BY <1>1, <1>6, <2>4
          DEF Missing!auto_sync_newsletters, Missing!sync_newsletters, Missing!env, SyncShape,
              SyncTyped
<1>7. ASSUME NEW r \in Readers, Missing!get_detail_by_id(r)
      PROVE  SyncShape(FewIssues, Readers, MaxMoves + 1, 1)'
  <2> DEFINE v == [Missing!Idle EXCEPT !.kind = "edit", !.pc = "serve", !.copy = rows]
  <2>1. /\ v \in SyncRequests(FewIssues, MaxMoves + 1) /\ v.copy = rows
        /\ Missing!Goes(r, v) /\ rows' = rows
    BY <1>1, <1>7 DEF SyncRequests, Missing!get_detail_by_id
  <2> HIDE DEF v
  <2>2. req' \in [Readers -> SyncRequests(FewIssues, MaxMoves + 1)] /\ SyncCopies(FewIssues, Readers)'
    BY <2>1, MissingStays
  <2> QED BY <1>1, <1>7, <2>2 DEF Missing!get_detail_by_id, Missing!env, SyncShape, SyncTyped
<1>8. ASSUME NEW r \in Readers, Missing!refresh_if_changed(r)
      PROVE  SyncShape(FewIssues, Readers, MaxMoves + 1, 1)'
  <2>1. PICK p \in {"serve", "scan"} :
            Missing!Goes(r, [req[r] EXCEPT !.pc = p, !.sig = Missing!Files])
    BY <1>8 DEF Missing!refresh_if_changed
  <2>2. /\ [req[r] EXCEPT !.pc = p, !.sig = Missing!Files] \in SyncRequests(FewIssues, MaxMoves + 1)
        /\ [req[r] EXCEPT !.pc = p, !.sig = Missing!Files].copy = req[r].copy
    BY <1>1, <1>2 DEF SyncRequests
  <2>3. rows' = rows
    BY <1>8 DEF Missing!refresh_if_changed
  <2>4. req' \in [Readers -> SyncRequests(FewIssues, MaxMoves + 1)] /\ SyncCopies(FewIssues, Readers)'
    BY <1>1, <2>1, <2>2, <2>3, MissingStays DEF SyncCopies
  <2>5. lock' \in Readers \cup {"none"}
    BY <1>1, <1>8 DEF Missing!refresh_if_changed
  <2> QED BY <1>1, <1>8, <2>4, <2>5 DEF Missing!refresh_if_changed, Missing!env, SyncShape,
      SyncTyped
<1>9. ASSUME NEW r \in Readers, Missing!scan(r)
      PROVE  SyncShape(FewIssues, Readers, MaxMoves + 1, 1)'
  <2> DEFINE v == [req[r] EXCEPT !.pc = "load", !.found = Missing!Files, !.did = TRUE,
                                 !.blind = ~present]
  <2>1. v \in SyncRequests(FewIssues, MaxMoves + 1) /\ v.copy = req[r].copy
    BY <1>1, <1>2 DEF SyncRequests
  <2>2. Missing!Goes(r, v) /\ rows' = rows
    BY <1>9 DEF Missing!scan
  <2> HIDE DEF v
  <2>3. req' \in [Readers -> SyncRequests(FewIssues, MaxMoves + 1)] /\ SyncCopies(FewIssues, Readers)'
    BY <1>1, <2>1, <2>2, MissingStays DEF SyncCopies
  <2> QED BY <1>1, <1>9, <2>3 DEF Missing!scan, Missing!env, SyncShape, SyncTyped
<1>10. ASSUME NEW r \in Readers, Missing!Load(r)
       PROVE  SyncShape(FewIssues, Readers, MaxMoves + 1, 1)'
  <2> DEFINE v == [req[r] EXCEPT !.pc = "insert", !.copy = rows]
  <2>1. v \in SyncRequests(FewIssues, MaxMoves + 1) /\ v.copy = rows
    BY <1>1 DEF SyncRequests
  <2>2. Missing!Goes(r, v) /\ rows' = rows
    BY <1>10 DEF Missing!Load
  <2> HIDE DEF v
  <2>3. req' \in [Readers -> SyncRequests(FewIssues, MaxMoves + 1)] /\ SyncCopies(FewIssues, Readers)'
    BY <2>1, <2>2, MissingStays
  <2> QED BY <1>1, <1>10, <2>3 DEF Missing!Load, Missing!env, SyncShape, SyncTyped
<1>11. ASSUME NEW r \in Readers, Missing!_upsert_issue(r), ~ Missing!Fail(r)
       PROVE  SyncShape(FewIssues, Readers, MaxMoves + 1, 1)'
  <2> DEFINE v == [req[r] EXCEPT !.pc = "update"]
  <2>1. v \in SyncRequests(FewIssues, MaxMoves + 1) /\ v.copy = req[r].copy
    BY <1>1 DEF SyncRequests
  <2>2. /\ Missing!Goes(r, v)
        /\ UNCHANGED <<Missing!env, rows, signature, lock, synced, edited, restarts>>
        /\ writer' \in {r, writer}
    BY <1>11 DEF Missing!_upsert_issue
  <2> HIDE DEF v
  <2>3. req' \in [Readers -> SyncRequests(FewIssues, MaxMoves + 1)] /\ SyncCopies(FewIssues, Readers)'
    BY <1>1, <2>1, <2>2, MissingStays DEF SyncCopies
  <2> QED BY <1>1, <2>2, <2>3 DEF Missing!env, SyncShape, SyncTyped
<1>12. ASSUME NEW r \in Readers, Missing!FlushRead(r) \/ Missing!NoteBaseline(r)
       PROVE  SyncShape(FewIssues, Readers, MaxMoves + 1, 1)'
  <2> DEFINE v == [req[r] EXCEPT !.pc = "serve"]
  <2>1. /\ v \in SyncRequests(FewIssues, MaxMoves + 1) /\ v.copy = req[r].copy
        /\ req[r].sig \in Signatures(FewIssues, MaxMoves + 1)
    BY <1>1 DEF SyncRequests
  <2>2. /\ Missing!Goes(r, v) /\ UNCHANGED <<Missing!env, rows, synced, edited, restarts>>
        /\ writer' \in {r, writer} /\ lock' \in {"none", lock}
        /\ signature' \in {req[r].sig, Missing!Files}
    BY <1>12 DEF Missing!FlushRead, Missing!NoteBaseline, Missing!Release
  <2> HIDE DEF v
  <2>3. req' \in [Readers -> SyncRequests(FewIssues, MaxMoves + 1)] /\ SyncCopies(FewIssues, Readers)'
    BY <1>1, <2>1, <2>2, MissingStays DEF SyncCopies
  <2> QED BY <1>1, <1>2, <2>1, <2>2, <2>3 DEF Missing!env, SyncShape, SyncTyped
<1>13. ASSUME NEW r \in Readers, Missing!Commit(r)
       PROVE  SyncShape(FewIssues, Readers, MaxMoves + 1, 1)'
  <2> DEFINE v == [req[r] EXCEPT !.pc = "end", !.result = "ok", !.served = Missing!Applied(r)]
  <2>1. /\ Missing!Applied(r) \in IssueRows(FewIssues, MaxMoves + 1)
        /\ \A k \in FewIssues : rows[k] # NoIssue => Missing!Applied(r)[k] # NoIssue
    BY MissingApplied
  <2>2. v \in SyncRequests(FewIssues, MaxMoves + 1) /\ v.copy = req[r].copy
    BY <1>1, <2>1 DEF SyncRequests
  <2>3. Missing!Goes(r, v) /\ rows' = Missing!Applied(r) /\ writer' \in {"none", writer}
    BY <1>13 DEF Missing!Commit, Missing!Release
  <2> HIDE DEF v
  <2>4. req' \in [Readers -> SyncRequests(FewIssues, MaxMoves + 1)] /\ SyncCopies(FewIssues, Readers)'
    BY <1>1, <2>1, <2>2, <2>3, MissingStays DEF SyncCopies
  <2>5. req[r].found \in Signatures(FewIssues, MaxMoves + 1)
    BY <1>1 DEF SyncRequests, Signatures
  <2>6. /\ synced' \in Signatures(FewIssues, MaxMoves + 1)
        /\ edited' \in [FewIssues -> Signatures(FewIssues, MaxMoves + 1)]
    BY <1>1, <1>13, <2>5 DEF Missing!Commit, Missing!Still
  <2> QED BY <1>1, <1>13, <2>1, <2>3, <2>4, <2>6 DEF Missing!Commit, Missing!env, SyncShape,
      SyncTyped
<1>14. ASSUME NEW r \in Readers, Missing!update_newsletter(r)
       PROVE  SyncShape(FewIssues, Readers, MaxMoves + 1, 1)'
  <2>1. PICK k \in FewIssues :
            /\ req[r].copy[k] # NoIssue
            /\ \E new \in {[req[r].copy[k] EXCEPT !.title = "admin"],
                         Missing!soft_delete(req[r].copy[k])} :
                  /\ rows' = [rows EXCEPT ![k] = Missing!Merge(@, req[r].copy[k], new)]
                  /\ edited' = [edited EXCEPT
                        ![k] = IF synced = Missing!Files THEN Missing!Files ELSE Missing!NoSig]
    BY <1>14 DEF Missing!update_newsletter
  <2> PICK new \in {[req[r].copy[k] EXCEPT !.title = "admin"],
                   Missing!soft_delete(req[r].copy[k])} :
            /\ rows' = [rows EXCEPT ![k] = Missing!Merge(@, req[r].copy[k], new)]
            /\ edited' = [edited EXCEPT
                  ![k] = IF synced = Missing!Files THEN Missing!Files ELSE Missing!NoSig]
    BY <2>1
  <2>2. req[r].copy[k] \in SomeIssue(MaxMoves + 1) /\ rows[k] \in SomeIssue(MaxMoves + 1)
    BY <1>1, <2>1 DEF SyncRequests, SyncCopies, IssueRows
  <2>3. /\ [req[r].copy[k] EXCEPT !.title = "admin"] \in SomeIssue(MaxMoves + 1)
        /\ Missing!soft_delete(req[r].copy[k]) \in SomeIssue(MaxMoves + 1)
    BY <2>2 DEF Missing!soft_delete, SomeIssue
  <2>11. new \in SomeIssue(MaxMoves + 1)
    BY <2>3
  <2>4. Missing!Merge(rows[k], req[r].copy[k], new) \in SomeIssue(MaxMoves + 1)
    BY <2>2, <2>11, MissingMerged
  <2>5. NoIssue \notin SomeIssue(MaxMoves + 1)
    BY DEF NoIssue, SomeIssue
  <2>6. /\ rows' \in IssueRows(FewIssues, MaxMoves + 1)
        /\ \A i \in FewIssues : rows[i] # NoIssue => rows'[i] # NoIssue
    BY <1>1, <2>1, <2>4, <2>5 DEF IssueRows
  <2>7. edited' \in [FewIssues -> Signatures(FewIssues, MaxMoves + 1)]
    BY <1>1, <1>2, <2>1
  <2> DEFINE v == [req[r] EXCEPT !.pc = "end", !.result = "ok"]
  <2>8. v \in SyncRequests(FewIssues, MaxMoves + 1) /\ v.copy = req[r].copy
    BY <1>1 DEF SyncRequests
  <2>9. Missing!Goes(r, v)
    BY <1>14 DEF Missing!update_newsletter
  <2> HIDE DEF v
  <2>10. req' \in [Readers -> SyncRequests(FewIssues, MaxMoves + 1)] /\ SyncCopies(FewIssues, Readers)'
    BY <1>1, <2>6, <2>8, <2>9, MissingStays DEF SyncCopies
  <2> QED BY <1>1, <1>14, <2>6, <2>7, <2>10
          DEF Missing!update_newsletter, Missing!env, SyncShape, SyncTyped
<1>15. ASSUME NEW r \in Readers, Missing!Fail(r)
       PROVE  SyncShape(FewIssues, Readers, MaxMoves + 1, 1)'
  BY <1>15, MissingFailed
<1> QED BY <1>3, <1>4, <1>5, <1>6, <1>7, <1>8, <1>9, <1>10, <1>11, <1>12, <1>13, <1>14, <1>15
        DEF Missing!Next, Missing!Works, Missing!LockedDatabase, Missing!RaiseNotFound

\* Every step keeps that nobody looks into a missing folder.
LEMMA MissingSighted ==
    ASSUME Missing!SyncAssumption, SyncShape(FewIssues, Readers, MaxMoves + 1, 1), SyncSighted(Readers),
           [Missing!Next]_(Missing!vars)
    PROVE  SyncSighted(Readers)'
<1>1. /\ req \in [Readers -> SyncRequests(FewIssues, MaxMoves + 1)]
      /\ Missing!Idle \in SyncRequests(FewIssues, MaxMoves + 1)
  BY MissingNames DEF SyncShape, SyncTyped
<1>2. Missing!Idle.blind = FALSE
  BY DEF Missing!Idle
<1>3. CASE UNCHANGED Missing!vars
  BY <1>3 DEF Missing!vars, Missing!env, SyncSighted
<1>4. CASE Missing!ChangeFolder
  BY <1>4 DEF Missing!ChangeFolder, Missing!Active, SyncSighted
<1>5. CASE Missing!Restart
  BY <1>1, <1>5 DEF Missing!Restart, Missing!env, SyncSighted, SyncRequests
<1>6. ASSUME NEW r \in Readers, Missing!auto_sync_newsletters(r)
      PROVE  SyncSighted(Readers)'
  BY <1>1, <1>2, <1>6 DEF Missing!auto_sync_newsletters, Missing!Goes, Missing!env,
      SyncSighted, SyncRequests
<1>7. ASSUME NEW r \in Readers, Missing!get_detail_by_id(r)
      PROVE  SyncSighted(Readers)'
  BY <1>1, <1>2, <1>7 DEF Missing!get_detail_by_id, Missing!Goes, Missing!env, SyncSighted,
      SyncRequests
<1>8. ASSUME NEW r \in Readers, Missing!sync_newsletters(r)
      PROVE  FALSE
  BY <1>8 DEF Missing!sync_newsletters, Missing!Arrives
<1>9. ASSUME NEW r \in Readers, Missing!refresh_if_changed(r)
      PROVE  SyncSighted(Readers)'
  <2>1. req[r].pc = "wait" /\ present' = present
    BY <1>9 DEF Missing!refresh_if_changed, Missing!env
  <2>2. PICK p \in {"serve", "scan"} :
            Missing!Goes(r, [req[r] EXCEPT !.pc = p, !.sig = Missing!Files])
    BY <1>9 DEF Missing!refresh_if_changed
  <2> QED BY <1>1, <2>1, <2>2 DEF Missing!Goes, SyncSighted, SyncRequests
<1>10. ASSUME NEW r \in Readers, Missing!scan(r)
       PROVE  SyncSighted(Readers)'
  <2>1. present
    BY <1>10 DEF Missing!scan, SyncSighted
  <2> QED BY <1>1, <1>10, <2>1 DEF Missing!scan, Missing!Goes, Missing!env, SyncSighted,
      SyncRequests
<1>12. ASSUME NEW r \in Readers, Missing!Load(r)
       PROVE  SyncSighted(Readers)'
  BY <1>1, <1>12 DEF Missing!Load, Missing!Goes, Missing!env, SyncSighted, SyncRequests
<1>13. ASSUME NEW r \in Readers, Missing!Fail(r)
       PROVE  SyncSighted(Readers)'
  BY <1>1, <1>13 DEF Missing!Fail, Missing!Goes, Missing!env, SyncSighted, SyncRequests
<1>14. ASSUME NEW r \in Readers, Missing!_upsert_issue(r), ~ Missing!Fail(r)
       PROVE  SyncSighted(Readers)'
  <2>1. Missing!Goes(r, [req[r] EXCEPT !.pc = "update"]) /\ present' = present
    BY <1>14 DEF Missing!_upsert_issue, Missing!env
  <2> QED BY <1>1, <2>1 DEF Missing!Goes, SyncSighted, SyncRequests
<1>15. ASSUME NEW r \in Readers, Missing!FlushRead(r) \/ Missing!NoteBaseline(r)
       PROVE  SyncSighted(Readers)'
  <2>1. Missing!Goes(r, [req[r] EXCEPT !.pc = "serve"]) /\ present' = present
    BY <1>15 DEF Missing!FlushRead, Missing!NoteBaseline, Missing!env
  <2> QED BY <1>1, <2>1 DEF Missing!Goes, SyncSighted, SyncRequests
<1>16. ASSUME NEW r \in Readers, Missing!Commit(r)
       PROVE  SyncSighted(Readers)'
  <2>1. PICK x : Missing!Goes(r, [req[r] EXCEPT !.pc = "end", !.result = "ok", !.served = x])
    BY <1>16 DEF Missing!Commit
  <2>2. present' = present
    BY <1>16 DEF Missing!Commit, Missing!env
  <2> QED BY <1>1, <2>1, <2>2 DEF Missing!Goes, SyncSighted, SyncRequests
<1>17. ASSUME NEW r \in Readers, Missing!update_newsletter(r)
       PROVE  SyncSighted(Readers)'
  <2>1. Missing!Goes(r, [req[r] EXCEPT !.pc = "end", !.result = "ok"]) /\ present' = present
    BY <1>17 DEF Missing!update_newsletter, Missing!env
  <2> QED BY <1>1, <2>1 DEF Missing!Goes, SyncSighted, SyncRequests
<1> QED BY <1>3, <1>4, <1>5, <1>6, <1>7, <1>8, <1>9, <1>10, <1>12, <1>13, <1>14, <1>15, <1>16,
    <1>17
        DEF Missing!Next, Missing!Works, Missing!LockedDatabase, Missing!RaiseNotFound

\* What the types give.
LEMMA MissingGivesType ==
    ASSUME Missing!SyncAssumption, SyncShape(FewIssues, Readers, MaxMoves + 1, 1)
    PROVE  Missing!TypeOK
<1>1. Missing!None = "none" /\ Missing!Rows = SomeIssue(MaxMoves + 1) \cup {NoIssue}
  BY DEF Missing!None, Missing!Rows, Missing!NoRow, SomeIssue, NoIssue
<1>2. \A r \in Readers :
         /\ req[r].pc \in {"idle", "wait", "scan", "load", "insert", "update", "serve", "end"}
         /\ req[r].kind \in {"none", "read", "sync", "edit"}
         /\ req[r].copy \in IssueRows(FewIssues, MaxMoves + 1)
         /\ req[r].served \in IssueRows(FewIssues, MaxMoves + 1)
         /\ req[r].result \in {"none", "ok", "error"}
  BY DEF SyncShape, SyncTyped, SyncRequests
<1> QED BY <1>1, <1>2 DEF SyncShape, SyncTyped, IssueRows, Signatures, Missing!TypeOK

\* The types hold in the beginning, and nobody holds anything.
LEMMA MissingInit ==
    ASSUME Missing!SyncAssumption, Missing!Init
    PROVE  /\ SyncShape(FewIssues, Readers, MaxMoves + 1, 1) /\ SyncHeld(Readers) /\ SyncSighted(Readers)
           /\ present /\ req = [r \in Readers |-> Missing!Idle]
<1>1. 0 \in 0..1 /\ 0 \in 0..(MaxMoves + 1)
  BY MissingNames
<1>2. Missing!Idle.pc = "idle" /\ Missing!Idle.kind = "none" /\ Missing!Idle.blind = FALSE
  BY DEF Missing!Idle, Missing!None
<1>3. /\ present = TRUE /\ lock = "none" /\ writer = "none"
      /\ req = [r \in Readers |-> Missing!Idle] /\ "none" \notin Readers
  BY MissingNames DEF Missing!Init
<1>4. SyncHeld(Readers) /\ SyncSighted(Readers)
  BY <1>2, <1>3 DEF SyncHeld, SyncSighted
<1>5. SyncTyped(FewIssues, Readers, MaxMoves + 1, 1)
  BY <1>1, <1>3, MissingNames DEF Missing!Init, SyncTyped
<1>6. SyncCopies(FewIssues, Readers)
  BY <1>3, MissingNames DEF SyncCopies
<1> QED BY <1>3, <1>4, <1>5, <1>6 DEF SyncShape

-----------------------------------------------------------------------------
(* Newsletters, requests that overlap.                                     *)

\* A row that differs from the copy in some columns is written in these.
LEMMA TogetherMerged ==
    ASSUME NEW C \in Nat, NEW now \in SomeIssue(C), NEW copy \in SomeIssue(C),
           NEW new \in SomeIssue(C)
    PROVE  /\ Together!Merge(now, copy, new) \in SomeIssue(C)
           /\ now = copy => Together!Merge(now, copy, new) = new
<1>1. copy # Together!NoRow
  BY DEF Together!NoRow, Together!None, SomeIssue
<1>2. Together!Merge(now, copy, new) =
        [c \in DOMAIN now |-> IF new[c] # copy[c] THEN new[c] ELSE now[c]]
  BY <1>1 DEF Together!Merge
<1>3. DOMAIN now = {"ver", "active", "title"} /\ DOMAIN new = {"ver", "active", "title"}
  BY DEF SomeIssue
<1>4. Together!Merge(now, copy, new) =
        [ver |-> IF new.ver # copy.ver THEN new.ver ELSE now.ver,
         active |-> IF new.active # copy.active THEN new.active ELSE now.active,
         title |-> IF new.title # copy.title THEN new.title ELSE now.title]
  BY <1>2, <1>3
<1>5. Together!Merge(now, copy, new) \in SomeIssue(C)
  BY <1>4 DEF SomeIssue
<1>6. ASSUME now = copy
      PROVE  Together!Merge(now, copy, new) = new
  BY <1>4, <1>6 DEF SomeIssue
<1> QED BY <1>5, <1>6

\* What an import makes of the copies are rows, and none goes.
LEMMA TogetherObjects ==
    ASSUME NEW r \in Readers, NEW k \in FewIssues, MaxMoves \in Nat,
           SyncTyped(FewIssues, Readers, MaxMoves, 1)
    PROVE  /\ Together!Objects(r)[k] \in SomeIssue(MaxMoves) \cup {NoIssue}
           /\ req[r].copy[k] # NoIssue => Together!Objects(r)[k] \in SomeIssue(MaxMoves)
           /\ req[r].copy[k] = NoIssue /\ Together!Objects(r)[k] # NoIssue =>
                 req[r].did /\ req[r].found[k] # 0
<1>1. /\ req[r] \in SyncRequests(FewIssues, MaxMoves)
  BY DEF SyncTyped
<1>2. /\ req[r].copy[k] \in SomeIssue(MaxMoves) \cup {NoIssue}
      /\ req[r].found[k] \in 0..MaxMoves /\ req[r].did \in BOOLEAN
  BY <1>1 DEF SyncRequests, IssueRows
<1>3. Together!Objects(r)[k] = IF ~req[r].did THEN req[r].copy[k]
        ELSE IF req[r].found[k] # 0 THEN Together!Imported(req[r].copy[k], req[r].found[k])
        ELSE Together!Deactivated(req[r].copy[k])
  BY DEF Together!Objects
<1>4. [NoIssue EXCEPT !.active = FALSE] = NoIssue
  <2>1. NoIssue.active = FALSE /\ NoIssue = [c \in DOMAIN NoIssue |-> NoIssue[c]]
    BY DEF NoIssue
  <2> QED BY <2>1
<1>5. req[r].copy[k] # NoIssue => Together!Deactivated(req[r].copy[k]) \in SomeIssue(MaxMoves)
  BY <1>2 DEF Together!Deactivated, SomeIssue
<1>6. req[r].copy[k] = NoIssue => Together!Deactivated(req[r].copy[k]) = NoIssue
  BY <1>4 DEF Together!Deactivated
<1>7. req[r].found[k] # 0 =>
          Together!Imported(req[r].copy[k], req[r].found[k]) \in SomeIssue(MaxMoves)
  BY <1>2 DEF Together!Imported, SomeIssue
<1> QED BY <1>2, <1>3, <1>4, <1>5, <1>6, <1>7

\* A commit leaves rows, and none goes.
LEMMA TogetherApplied ==
    ASSUME NEW r \in Readers, MaxMoves \in Nat, SyncShape(FewIssues, Readers, MaxMoves, 1)
    PROVE  /\ Together!Applied(r) \in IssueRows(FewIssues, MaxMoves)
           /\ \A k \in FewIssues : rows[k] # NoIssue => Together!Applied(r)[k] # NoIssue
<1>1. SUFFICES ASSUME NEW k \in FewIssues
               PROVE  /\ Together!Applied(r)[k] \in SomeIssue(MaxMoves) \cup {NoIssue}
                      /\ rows[k] # NoIssue => Together!Applied(r)[k] # NoIssue
  BY DEF Together!Applied, IssueRows
<1> DEFINE o == Together!Objects(r)[k]
           c == req[r].copy[k]
<1>2. /\ rows[k] \in SomeIssue(MaxMoves) \cup {NoIssue}
      /\ c \in SomeIssue(MaxMoves) \cup {NoIssue}
      /\ c # NoIssue => rows[k] # NoIssue
  BY DEF SyncShape, SyncTyped, SyncCopies, SyncRequests, IssueRows
<1>3. /\ o \in SomeIssue(MaxMoves) \cup {NoIssue}
      /\ c # NoIssue => o \in SomeIssue(MaxMoves)
  BY TogetherObjects DEF SyncShape
<1>4. Together!Applied(r)[k] = IF o = c THEN rows[k] ELSE Together!Merge(rows[k], c, o)
  BY DEF Together!Applied
<1>5. NoIssue \notin SomeIssue(MaxMoves)
  BY DEF NoIssue, SomeIssue
<1> HIDE DEF o, c
<1>6. CASE o = c
  BY <1>2, <1>4, <1>6
<1>7. CASE o # c /\ c = NoIssue
  <2>1. Together!Merge(rows[k], c, o) = o
    BY <1>7 DEF Together!Merge, Together!NoRow, Together!None, NoIssue
  <2> QED BY <1>3, <1>4, <1>5, <1>7, <2>1
<1>8. CASE o # c /\ c # NoIssue
  <2>1. Together!Merge(rows[k], c, o) \in SomeIssue(MaxMoves)
    BY <1>2, <1>3, <1>8, TogetherMerged
  <2> QED BY <1>4, <1>5, <1>8, <2>1
<1> QED BY <1>6, <1>7, <1>8

\* The state of a request that goes on, and of one that fails.
LEMMA TogetherGoes ==
    ASSUME NEW r \in Readers, NEW v \in SyncRequests(FewIssues, MaxMoves),
           req \in [Readers -> SyncRequests(FewIssues, MaxMoves)], Together!Goes(r, v)
    PROVE  /\ req' \in [Readers -> SyncRequests(FewIssues, MaxMoves)] /\ req'[r] = v
           /\ \A s \in Readers \ {r} : req'[s] = req[s]
BY DEF Together!Goes

\* A request goes on: the types stay if what it goes on with is typed.
LEMMA TogetherStays ==
    ASSUME NEW r \in Readers, NEW v \in SyncRequests(FewIssues, MaxMoves), Together!Goes(r, v),
           SyncShape(FewIssues, Readers, MaxMoves, 1),
           \A k \in FewIssues : v.copy[k] # NoIssue => rows[k] # NoIssue,
           \A k \in FewIssues : rows[k] # NoIssue => rows'[k] # NoIssue
    PROVE  req' \in [Readers -> SyncRequests(FewIssues, MaxMoves)] /\ SyncCopies(FewIssues, Readers)'
<1>1. /\ req' \in [Readers -> SyncRequests(FewIssues, MaxMoves)] /\ req'[r] = v
      /\ \A s \in Readers \ {r} : req'[s] = req[s]
  BY TogetherGoes DEF SyncShape, SyncTyped
<1>2. ASSUME NEW s \in Readers, NEW k \in FewIssues, req'[s].copy[k] # NoIssue
      PROVE  rows'[k] # NoIssue
  BY <1>1, <1>2 DEF SyncShape, SyncCopies
<1> QED BY <1>1, <1>2 DEF SyncCopies

\* The names that the types give the module's own sets.
LEMMA TogetherNames ==
    ASSUME Together!SyncAssumption
    PROVE  /\ MaxMoves \in Nat /\ "none" \notin Readers
           /\ Together!None = "none" /\ Together!NoRow = NoIssue
           /\ Together!Nothing \in [FewIssues -> 0..MaxMoves]
           /\ Together!NoSig \in Signatures(FewIssues, MaxMoves)
           /\ Together!NoRows \in IssueRows(FewIssues, MaxMoves)
           /\ \A k \in FewIssues : Together!NoRows[k] = NoIssue
           /\ Together!Idle \in SyncRequests(FewIssues, MaxMoves)
           /\ Together!Idle.copy = Together!NoRows
<1>1. MaxMoves \in Nat /\ "none" \notin Readers
  BY DEF Together!SyncAssumption
<1>2. Together!None = "none" /\ Together!NoRow = NoIssue
  BY DEF Together!None, Together!NoRow, NoIssue
<1>3. /\ Together!Nothing \in [FewIssues -> 0..MaxMoves]
      /\ Together!NoSig \in Signatures(FewIssues, MaxMoves)
  BY <1>1 DEF Together!Nothing, Together!NoSig, Signatures
<1>4. /\ Together!NoRows \in IssueRows(FewIssues, MaxMoves)
      /\ \A k \in FewIssues : Together!NoRows[k] = NoIssue
  BY <1>2 DEF Together!NoRows, IssueRows
<1>5. Together!Idle \in SyncRequests(FewIssues, MaxMoves) /\ Together!Idle.copy = Together!NoRows
  BY <1>2, <1>3, <1>4 DEF Together!Idle, SyncRequests
<1> QED BY <1>1, <1>2, <1>3, <1>4, <1>5

\* A request that fails is typed and keeps its copy.
LEMMA TogetherFailed ==
    ASSUME Together!SyncAssumption, NEW r \in Readers, Together!Fail(r),
           SyncShape(FewIssues, Readers, MaxMoves, 1)
    PROVE  SyncShape(FewIssues, Readers, MaxMoves, 1)'
<1> DEFINE v == [req[r] EXCEPT !.pc = "end", !.result = "error"]
<1>1. req[r] \in SyncRequests(FewIssues, MaxMoves)
  BY DEF SyncShape, SyncTyped
<1>2. v \in SyncRequests(FewIssues, MaxMoves) /\ v.copy = req[r].copy
  BY <1>1 DEF SyncRequests
<1>3. Together!Goes(r, v) /\ rows' = rows
  BY DEF Together!Fail
<1>4. req' \in [Readers -> SyncRequests(FewIssues, MaxMoves)] /\ SyncCopies(FewIssues, Readers)'
  BY <1>2, <1>3, TogetherStays DEF SyncShape, SyncCopies
<1> QED BY <1>4, TogetherNames DEF Together!Fail, Together!Release, Together!env, SyncShape,
    SyncTyped

\* Every step keeps the types.
LEMMA TogetherTyped ==
    ASSUME Together!SyncAssumption, SyncShape(FewIssues, Readers, MaxMoves, 1),
           [Together!Next]_(Together!vars)
    PROVE  SyncShape(FewIssues, Readers, MaxMoves, 1)'
<1> USE TogetherNames
<1>1. /\ folder \in [FewIssues -> 0..MaxMoves]
      /\ present \in BOOLEAN /\ clock \in 0..MaxMoves
      /\ rows \in IssueRows(FewIssues, MaxMoves)
      /\ signature \in Signatures(FewIssues, MaxMoves)
      /\ synced \in Signatures(FewIssues, MaxMoves)
      /\ edited \in [FewIssues -> Signatures(FewIssues, MaxMoves)]
      /\ lock \in Readers \cup {"none"} /\ writer \in Readers \cup {"none"}
      /\ req \in [Readers -> SyncRequests(FewIssues, MaxMoves)] /\ restarts \in 0..1
      /\ SyncCopies(FewIssues, Readers)
  BY DEF SyncShape, SyncTyped
<1>2. /\ Together!Files \in [FewIssues -> 0..MaxMoves]
      /\ Together!Files \in Signatures(FewIssues, MaxMoves)
  BY <1>1 DEF Together!Files, Signatures
<1>3. CASE UNCHANGED Together!vars
  BY <1>1, <1>3 DEF Together!vars, Together!env, SyncShape, SyncTyped, SyncCopies
<1>4. CASE Together!ChangeFolder
  <2>1. clock + 1 \in 0..MaxMoves /\ clock' = clock + 1
    BY <1>1, <1>4 DEF Together!ChangeFolder
  <2>2. folder' \in [FewIssues -> 0..MaxMoves]
    BY <1>1, <1>4, <2>1 DEF Together!ChangeFolder
  <2>3. present' = present \/ present' = ~present
    BY <1>4 DEF Together!ChangeFolder
  <2>4. present' \in BOOLEAN
    BY <1>1, <2>3
  <2> QED BY <1>1, <1>4, <2>1, <2>2, <2>4 DEF Together!ChangeFolder, SyncShape, SyncTyped,
      SyncCopies
<1>5. CASE Together!Restart
  <2>1. restarts < 1 /\ restarts' = restarts + 1
    BY <1>5 DEF Together!Restart
  <2>2. ASSUME NEW s \in Readers
        PROVE  /\ req'[s] \in SyncRequests(FewIssues, MaxMoves) /\ req'[s].copy = req[s].copy
    <3>1. req[s] \in SyncRequests(FewIssues, MaxMoves)
      BY <1>1
    <3>2. /\ [req[s] EXCEPT !.pc = "end", !.result = "error"] \in
                SyncRequests(FewIssues, MaxMoves)
          /\ [req[s] EXCEPT !.pc = "end", !.result = "error"].copy = req[s].copy
      BY <3>1 DEF SyncRequests
    <3>3. req'[s] = IF Together!Active(s) THEN [req[s] EXCEPT !.pc = "end", !.result = "error"]
                    ELSE req[s]
      BY <1>5 DEF Together!Restart
    <3> QED BY <3>1, <3>2, <3>3
  <2>3. req' \in [Readers -> SyncRequests(FewIssues, MaxMoves)]
    BY <1>5, <2>2 DEF Together!Restart
  <2>4. SyncCopies(FewIssues, Readers)'
    BY <1>1, <1>5, <2>2 DEF Together!Restart, SyncCopies
  <2>5. restarts' \in 0..1
    BY <1>1, <2>1
  <2> QED BY <1>1, <1>5, <2>3, <2>4, <2>5 DEF Together!Restart, Together!env, SyncShape, SyncTyped
<1>6. ASSUME NEW r \in Readers, Together!auto_sync_newsletters(r) \/ Together!sync_newsletters(r)
      PROVE  SyncShape(FewIssues, Readers, MaxMoves, 1)'
  <2>1. PICK v \in {[Together!Idle EXCEPT !.kind = "read",
                                     !.pc = IF present THEN "wait" ELSE "serve"],
                    [Together!Idle EXCEPT !.kind = "sync", !.pc = "scan"]} : Together!Goes(r, v)
    BY <1>6 DEF Together!auto_sync_newsletters, Together!sync_newsletters
  <2>2. v \in SyncRequests(FewIssues, MaxMoves) /\ v.copy = Together!NoRows
    BY <2>1 DEF SyncRequests
  <2>3. rows' = rows
    BY <1>6 DEF Together!auto_sync_newsletters, Together!sync_newsletters
  <2>4. req' \in [Readers -> SyncRequests(FewIssues, MaxMoves)] /\ SyncCopies(FewIssues, Readers)'
    BY <2>1, <2>2, <2>3, TogetherStays
  <2> QED BY <1>1, <1>6, <2>4
          DEF Together!auto_sync_newsletters, Together!sync_newsletters, Together!env,
              SyncShape, SyncTyped
<1>7. ASSUME NEW r \in Readers, Together!get_detail_by_id(r)
      PROVE  SyncShape(FewIssues, Readers, MaxMoves, 1)'
  <2> DEFINE v == [Together!Idle EXCEPT !.kind = "edit", !.pc = "serve", !.copy = rows]
  <2>1. /\ v \in SyncRequests(FewIssues, MaxMoves) /\ v.copy = rows
        /\ Together!Goes(r, v) /\ rows' = rows
    BY <1>1, <1>7 DEF SyncRequests, Together!get_detail_by_id
  <2> HIDE DEF v
  <2>2. req' \in [Readers -> SyncRequests(FewIssues, MaxMoves)] /\ SyncCopies(FewIssues, Readers)'
    BY <2>1, TogetherStays
  <2> QED BY <1>1, <1>7, <2>2 DEF Together!get_detail_by_id, Together!env, SyncShape, SyncTyped
<1>8. ASSUME NEW r \in Readers, Together!refresh_if_changed(r)
      PROVE  SyncShape(FewIssues, Readers, MaxMoves, 1)'
  <2>1. PICK p \in {"serve", "scan"} :
            Together!Goes(r, [req[r] EXCEPT !.pc = p, !.sig = Together!Files])
    BY <1>8 DEF Together!refresh_if_changed
  <2>2. /\ [req[r] EXCEPT !.pc = p, !.sig = Together!Files] \in SyncRequests(FewIssues, MaxMoves)
        /\ [req[r] EXCEPT !.pc = p, !.sig = Together!Files].copy = req[r].copy
    BY <1>1, <1>2 DEF SyncRequests
  <2>3. rows' = rows
    BY <1>8 DEF Together!refresh_if_changed
  <2>4. req' \in [Readers -> SyncRequests(FewIssues, MaxMoves)] /\ SyncCopies(FewIssues, Readers)'
    BY <1>1, <2>1, <2>2, <2>3, TogetherStays DEF SyncCopies
  <2>5. lock' \in Readers \cup {"none"}
    BY <1>1, <1>8 DEF Together!refresh_if_changed
  <2> QED BY <1>1, <1>8, <2>4, <2>5 DEF Together!refresh_if_changed, Together!env, SyncShape,
      SyncTyped
<1>9. ASSUME NEW r \in Readers, Together!scan(r)
      PROVE  SyncShape(FewIssues, Readers, MaxMoves, 1)'
  <2> DEFINE v == [req[r] EXCEPT !.pc = "load", !.found = Together!Files, !.did = TRUE,
                                 !.blind = ~present]
  <2>1. v \in SyncRequests(FewIssues, MaxMoves) /\ v.copy = req[r].copy
    BY <1>1, <1>2 DEF SyncRequests
  <2>2. Together!Goes(r, v) /\ rows' = rows
    BY <1>9 DEF Together!scan
  <2> HIDE DEF v
  <2>3. req' \in [Readers -> SyncRequests(FewIssues, MaxMoves)] /\ SyncCopies(FewIssues, Readers)'
    BY <1>1, <2>1, <2>2, TogetherStays DEF SyncCopies
  <2> QED BY <1>1, <1>9, <2>3 DEF Together!scan, Together!env, SyncShape, SyncTyped
<1>10. ASSUME NEW r \in Readers, Together!Load(r)
       PROVE  SyncShape(FewIssues, Readers, MaxMoves, 1)'
  <2> DEFINE v == [req[r] EXCEPT !.pc = "insert", !.copy = rows]
  <2>1. v \in SyncRequests(FewIssues, MaxMoves) /\ v.copy = rows
    BY <1>1 DEF SyncRequests
  <2>2. Together!Goes(r, v) /\ rows' = rows
    BY <1>10 DEF Together!Load
  <2> HIDE DEF v
  <2>3. req' \in [Readers -> SyncRequests(FewIssues, MaxMoves)] /\ SyncCopies(FewIssues, Readers)'
    BY <2>1, <2>2, TogetherStays
  <2> QED BY <1>1, <1>10, <2>3 DEF Together!Load, Together!env, SyncShape, SyncTyped
<1>11. ASSUME NEW r \in Readers, Together!_upsert_issue(r), ~ Together!Fail(r)
       PROVE  SyncShape(FewIssues, Readers, MaxMoves, 1)'
  <2> DEFINE v == [req[r] EXCEPT !.pc = "update"]
  <2>1. v \in SyncRequests(FewIssues, MaxMoves) /\ v.copy = req[r].copy
    BY <1>1 DEF SyncRequests
  <2>2. /\ Together!Goes(r, v)
        /\ UNCHANGED <<Together!env, rows, signature, lock, synced, edited, restarts>>
        /\ writer' \in {r, writer}
    BY <1>11 DEF Together!_upsert_issue
  <2> HIDE DEF v
  <2>3. req' \in [Readers -> SyncRequests(FewIssues, MaxMoves)] /\ SyncCopies(FewIssues, Readers)'
    BY <1>1, <2>1, <2>2, TogetherStays DEF SyncCopies
  <2> QED BY <1>1, <2>2, <2>3 DEF Together!env, SyncShape, SyncTyped
<1>12. ASSUME NEW r \in Readers, Together!FlushRead(r) \/ Together!NoteBaseline(r)
       PROVE  SyncShape(FewIssues, Readers, MaxMoves, 1)'
  <2> DEFINE v == [req[r] EXCEPT !.pc = "serve"]
  <2>1. /\ v \in SyncRequests(FewIssues, MaxMoves) /\ v.copy = req[r].copy
        /\ req[r].sig \in Signatures(FewIssues, MaxMoves)
    BY <1>1 DEF SyncRequests
  <2>2. /\ Together!Goes(r, v) /\ UNCHANGED <<Together!env, rows, synced, edited, restarts>>
        /\ writer' \in {r, writer} /\ lock' \in {"none", lock}
        /\ signature' \in {req[r].sig, Together!Files}
    BY <1>12 DEF Together!FlushRead, Together!NoteBaseline, Together!Release
  <2> HIDE DEF v
  <2>3. req' \in [Readers -> SyncRequests(FewIssues, MaxMoves)] /\ SyncCopies(FewIssues, Readers)'
    BY <1>1, <2>1, <2>2, TogetherStays DEF SyncCopies
  <2> QED BY <1>1, <1>2, <2>1, <2>2, <2>3 DEF Together!env, SyncShape, SyncTyped
<1>13. ASSUME NEW r \in Readers, Together!Commit(r)
       PROVE  SyncShape(FewIssues, Readers, MaxMoves, 1)'
  <2> DEFINE v == [req[r] EXCEPT !.pc = "end", !.result = "ok", !.served = Together!Applied(r)]
  <2>1. /\ Together!Applied(r) \in IssueRows(FewIssues, MaxMoves)
        /\ \A k \in FewIssues : rows[k] # NoIssue => Together!Applied(r)[k] # NoIssue
    BY TogetherApplied
  <2>2. v \in SyncRequests(FewIssues, MaxMoves) /\ v.copy = req[r].copy
    BY <1>1, <2>1 DEF SyncRequests
  <2>3. Together!Goes(r, v) /\ rows' = Together!Applied(r) /\ writer' \in {"none", writer}
    BY <1>13 DEF Together!Commit, Together!Release
  <2> HIDE DEF v
  <2>4. req' \in [Readers -> SyncRequests(FewIssues, MaxMoves)] /\ SyncCopies(FewIssues, Readers)'
    BY <1>1, <2>1, <2>2, <2>3, TogetherStays DEF SyncCopies
  <2>5. req[r].found \in Signatures(FewIssues, MaxMoves)
    BY <1>1 DEF SyncRequests, Signatures
  <2>6. /\ synced' \in Signatures(FewIssues, MaxMoves)
        /\ edited' \in [FewIssues -> Signatures(FewIssues, MaxMoves)]
    BY <1>1, <1>13, <2>5 DEF Together!Commit, Together!Still
  <2> QED BY <1>1, <1>13, <2>1, <2>3, <2>4, <2>6 DEF Together!Commit, Together!env, SyncShape,
      SyncTyped
<1>14. ASSUME NEW r \in Readers, Together!update_newsletter(r)
       PROVE  SyncShape(FewIssues, Readers, MaxMoves, 1)'
  <2>1. PICK k \in FewIssues :
            /\ req[r].copy[k] # NoIssue
            /\ \E new \in {[req[r].copy[k] EXCEPT !.title = "admin"],
                         Together!soft_delete(req[r].copy[k])} :
                  /\ rows' = [rows EXCEPT ![k] = Together!Merge(@, req[r].copy[k], new)]
                  /\ edited' = [edited EXCEPT
                        ![k] = IF synced = Together!Files THEN Together!Files ELSE Together!NoSig]
    BY <1>14 DEF Together!update_newsletter
  <2> PICK new \in {[req[r].copy[k] EXCEPT !.title = "admin"],
                   Together!soft_delete(req[r].copy[k])} :
            /\ rows' = [rows EXCEPT ![k] = Together!Merge(@, req[r].copy[k], new)]
            /\ edited' = [edited EXCEPT
                  ![k] = IF synced = Together!Files THEN Together!Files ELSE Together!NoSig]
    BY <2>1
  <2>2. req[r].copy[k] \in SomeIssue(MaxMoves) /\ rows[k] \in SomeIssue(MaxMoves)
    BY <1>1, <2>1 DEF SyncRequests, SyncCopies, IssueRows
  <2>3. /\ [req[r].copy[k] EXCEPT !.title = "admin"] \in SomeIssue(MaxMoves)
        /\ Together!soft_delete(req[r].copy[k]) \in SomeIssue(MaxMoves)
    BY <2>2 DEF Together!soft_delete, SomeIssue
  <2>11. new \in SomeIssue(MaxMoves)
    BY <2>3
  <2>4. Together!Merge(rows[k], req[r].copy[k], new) \in SomeIssue(MaxMoves)
    BY <2>2, <2>11, TogetherMerged
  <2>5. NoIssue \notin SomeIssue(MaxMoves)
    BY DEF NoIssue, SomeIssue
  <2>6. /\ rows' \in IssueRows(FewIssues, MaxMoves)
        /\ \A i \in FewIssues : rows[i] # NoIssue => rows'[i] # NoIssue
    BY <1>1, <2>1, <2>4, <2>5 DEF IssueRows
  <2>7. edited' \in [FewIssues -> Signatures(FewIssues, MaxMoves)]
    BY <1>1, <1>2, <2>1
  <2> DEFINE v == [req[r] EXCEPT !.pc = "end", !.result = "ok"]
  <2>8. v \in SyncRequests(FewIssues, MaxMoves) /\ v.copy = req[r].copy
    BY <1>1 DEF SyncRequests
  <2>9. Together!Goes(r, v)
    BY <1>14 DEF Together!update_newsletter
  <2> HIDE DEF v
  <2>10. req' \in [Readers -> SyncRequests(FewIssues, MaxMoves)] /\ SyncCopies(FewIssues, Readers)'
    BY <1>1, <2>6, <2>8, <2>9, TogetherStays DEF SyncCopies
  <2> QED BY <1>1, <1>14, <2>6, <2>7, <2>10
          DEF Together!update_newsletter, Together!env, SyncShape, SyncTyped
<1>15. ASSUME NEW r \in Readers, Together!Fail(r)
       PROVE  SyncShape(FewIssues, Readers, MaxMoves, 1)'
  BY <1>15, TogetherFailed
<1> QED BY <1>3, <1>4, <1>5, <1>6, <1>7, <1>8, <1>9, <1>10, <1>11, <1>12, <1>13, <1>14, <1>15
        DEF Together!Next, Together!Works, Together!LockedDatabase, Together!RaiseNotFound

\* Every step keeps who may hold a lock.
LEMMA TogetherHeld ==
    ASSUME Together!SyncAssumption, SyncShape(FewIssues, Readers, MaxMoves, 1), SyncHeld(Readers),
           [Together!Next]_(Together!vars)
    PROVE  SyncHeld(Readers)'
<1>1. /\ req \in [Readers -> SyncRequests(FewIssues, MaxMoves)]
      /\ "none" \notin Readers /\ Together!None = "none"
      /\ Together!Idle \in SyncRequests(FewIssues, MaxMoves)
  BY TogetherNames DEF SyncShape, SyncTyped
<1>2. CASE UNCHANGED Together!vars
  BY <1>2 DEF Together!vars, SyncHeld
<1>3. CASE Together!ChangeFolder
  BY <1>3 DEF Together!ChangeFolder, SyncHeld
<1>4. CASE Together!Restart
  <2>1. /\ lock' = "none" /\ writer' = "none"
        /\ \A s \in Readers : req'[s].pc = "wait" => req'[s] = req[s]
    BY <1>1, <1>4 DEF Together!Restart, SyncRequests
  <2> QED BY <1>1, <2>1 DEF SyncHeld
<1>5. ASSUME NEW r \in Readers, Together!auto_sync_newsletters(r)
      PROVE  SyncHeld(Readers)'
  BY <1>1, <1>5 DEF Together!auto_sync_newsletters, Together!Arrives, Together!Goes, SyncHeld,
      SyncRequests
<1>6. ASSUME NEW r \in Readers, Together!sync_newsletters(r) \/ Together!get_detail_by_id(r)
      PROVE  SyncHeld(Readers)'
  <2>1. CASE Together!sync_newsletters(r)
    BY <1>1, <2>1 DEF Together!sync_newsletters, Together!Arrives, Together!Goes, SyncHeld,
        SyncRequests
  <2>2. CASE Together!get_detail_by_id(r)
    BY <1>1, <2>2 DEF Together!get_detail_by_id, Together!Arrives, Together!Goes, SyncHeld,
        SyncRequests
  <2> QED BY <1>6, <2>1, <2>2
<1>7. ASSUME NEW r \in Readers, Together!refresh_if_changed(r)
      PROVE  SyncHeld(Readers)'
  <2>1. /\ req[r].pc = "wait" /\ writer' = writer
        /\ \/ /\ lock' = lock
              /\ Together!Goes(r, [req[r] EXCEPT !.pc = "serve", !.sig = Together!Files])
           \/ /\ lock' = r
              /\ Together!Goes(r, [req[r] EXCEPT !.pc = "scan", !.sig = Together!Files])
    BY <1>7 DEF Together!refresh_if_changed
  <2>2. CASE /\ lock' = lock
             /\ Together!Goes(r, [req[r] EXCEPT !.pc = "serve", !.sig = Together!Files])
    BY <1>1, <2>1, <2>2 DEF Together!Goes, SyncHeld, SyncRequests
  <2>3. CASE /\ lock' = r
             /\ Together!Goes(r, [req[r] EXCEPT !.pc = "scan", !.sig = Together!Files])
    BY <1>1, <2>1, <2>3 DEF Together!Goes, SyncHeld, SyncRequests
  <2> QED BY <2>1, <2>2, <2>3
<1>8. ASSUME NEW r \in Readers, Together!scan(r) \/ Together!Load(r)
      PROVE  SyncHeld(Readers)'
  <2>1. CASE Together!scan(r)
    <3>1. /\ req[r].pc = "scan" /\ lock' = lock /\ writer' = writer
          /\ Together!Goes(r, [req[r] EXCEPT !.pc = "load", !.found = Together!Files,
                                       !.did = TRUE, !.blind = ~present])
      BY <2>1 DEF Together!scan
    <3> QED BY <1>1, <3>1 DEF Together!Goes, SyncHeld, SyncRequests
  <2>2. CASE Together!Load(r)
    BY <1>1, <2>2 DEF Together!Load, Together!Goes, SyncHeld, SyncRequests
  <2> QED BY <1>8, <2>1, <2>2
<1>9. ASSUME NEW r \in Readers, Together!Fail(r)
      PROVE  SyncHeld(Readers)'
  BY <1>1, <1>9 DEF Together!Fail, Together!Release, Together!Goes, SyncHeld, SyncRequests
<1>10. ASSUME NEW r \in Readers, Together!_upsert_issue(r), ~ Together!Fail(r)
       PROVE  SyncHeld(Readers)'
  <2>1. /\ req[r].pc = "insert" /\ Together!Goes(r, [req[r] EXCEPT !.pc = "update"])
        /\ writer' \in {r, writer} /\ lock' = lock
    BY <1>10 DEF Together!_upsert_issue
  <2> QED BY <1>1, <2>1 DEF Together!Goes, SyncHeld, SyncRequests
<1>11. ASSUME NEW r \in Readers, Together!FlushRead(r)
       PROVE  SyncHeld(Readers)'
  <2>1. /\ req[r].pc = "update" /\ Together!Goes(r, [req[r] EXCEPT !.pc = "serve"])
        /\ writer' \in {r, writer} /\ lock' = Together!Release(r, lock)
    BY <1>11 DEF Together!FlushRead
  <2> QED BY <1>1, <2>1 DEF Together!Goes, Together!Release, SyncHeld, SyncRequests
<1>12. ASSUME NEW r \in Readers, Together!NoteBaseline(r)
       PROVE  SyncHeld(Readers)'
  BY <1>1, <1>12 DEF Together!NoteBaseline, Together!Goes, SyncHeld, SyncRequests
<1>13. ASSUME NEW r \in Readers, Together!Commit(r) \/ Together!update_newsletter(r)
       PROVE  SyncHeld(Readers)'
  <2>1. /\ req[r].pc = "serve" /\ lock' = lock /\ writer' \in {"none", writer} /\ writer' # r
        /\ \E x : Together!Goes(r, [req[r] EXCEPT !.pc = "end", !.result = "ok", !.served = x])
    <3>1. CASE Together!Commit(r)
      BY <1>1, <3>1 DEF Together!Commit, Together!Release
    <3>2. CASE Together!update_newsletter(r)
      <4>1. [req[r] EXCEPT !.pc = "end", !.result = "ok"] =
              [req[r] EXCEPT !.pc = "end", !.result = "ok", !.served = req[r].served]
        BY <1>1 DEF SyncRequests
      <4> QED BY <1>1, <3>2, <4>1 DEF Together!update_newsletter
    <3> QED BY <1>13, <3>1, <3>2
  <2>2. PICK x : Together!Goes(r, [req[r] EXCEPT !.pc = "end", !.result = "ok", !.served = x])
    BY <2>1
  <2> QED BY <1>1, <2>1, <2>2 DEF Together!Goes, SyncHeld, SyncRequests
<1> QED BY <1>2, <1>3, <1>4, <1>5, <1>6, <1>7, <1>8, <1>9, <1>10, <1>11, <1>12, <1>13
        DEF Together!Next, Together!Works, Together!LockedDatabase, Together!RaiseNotFound

\* What the types give.
LEMMA TogetherGivesType ==
    ASSUME Together!SyncAssumption, SyncShape(FewIssues, Readers, MaxMoves, 1)
    PROVE  Together!TypeOK
<1>1. Together!None = "none" /\ Together!Rows = SomeIssue(MaxMoves) \cup {NoIssue}
  BY DEF Together!None, Together!Rows, Together!NoRow, SomeIssue, NoIssue
<1>2. \A r \in Readers :
         /\ req[r].pc \in {"idle", "wait", "scan", "load", "insert", "update", "serve", "end"}
         /\ req[r].kind \in {"none", "read", "sync", "edit"}
         /\ req[r].copy \in IssueRows(FewIssues, MaxMoves)
         /\ req[r].served \in IssueRows(FewIssues, MaxMoves)
         /\ req[r].result \in {"none", "ok", "error"}
  BY DEF SyncShape, SyncTyped, SyncRequests
<1> QED BY <1>1, <1>2 DEF SyncShape, SyncTyped, IssueRows, Signatures, Together!TypeOK

\* The types hold in the beginning, and nobody holds anything.
LEMMA TogetherInit ==
    ASSUME Together!SyncAssumption, Together!Init
    PROVE  /\ SyncShape(FewIssues, Readers, MaxMoves, 1) /\ SyncHeld(Readers) /\ SyncSighted(Readers)
           /\ present /\ req = [r \in Readers |-> Together!Idle]
<1>1. 0 \in 0..1 /\ 0 \in 0..MaxMoves
  BY TogetherNames
<1>2. Together!Idle.pc = "idle" /\ Together!Idle.kind = "none" /\ Together!Idle.blind = FALSE
  BY DEF Together!Idle, Together!None
<1>3. /\ present = TRUE /\ lock = "none" /\ writer = "none"
      /\ req = [r \in Readers |-> Together!Idle] /\ "none" \notin Readers
  BY TogetherNames DEF Together!Init
<1>4. SyncHeld(Readers) /\ SyncSighted(Readers)
  BY <1>2, <1>3 DEF SyncHeld, SyncSighted
<1>5. SyncTyped(FewIssues, Readers, MaxMoves, 1)
  BY <1>1, <1>3, TogetherNames DEF Together!Init, SyncTyped
<1>6. SyncCopies(FewIssues, Readers)
  BY <1>3, TogetherNames DEF SyncCopies
<1> QED BY <1>3, <1>4, <1>5, <1>6 DEF SyncShape

-----------------------------------------------------------------------------
(* Newsletters, one request at a time: the types.                          *)

\* A row that differs from the copy in some columns is written in these.
LEMMA AloneMerged ==
    ASSUME NEW C \in Nat, NEW now \in SomeIssue(C), NEW copy \in SomeIssue(C),
           NEW new \in SomeIssue(C)
    PROVE  /\ Alone!Merge(now, copy, new) \in SomeIssue(C)
           /\ now = copy => Alone!Merge(now, copy, new) = new
<1>1. copy # Alone!NoRow
  BY DEF Alone!NoRow, Alone!None, SomeIssue
<1>2. Alone!Merge(now, copy, new) =
        [c \in DOMAIN now |-> IF new[c] # copy[c] THEN new[c] ELSE now[c]]
  BY <1>1 DEF Alone!Merge
<1>3. DOMAIN now = {"ver", "active", "title"} /\ DOMAIN new = {"ver", "active", "title"}
  BY DEF SomeIssue
<1>4. Alone!Merge(now, copy, new) =
        [ver |-> IF new.ver # copy.ver THEN new.ver ELSE now.ver,
         active |-> IF new.active # copy.active THEN new.active ELSE now.active,
         title |-> IF new.title # copy.title THEN new.title ELSE now.title]
  BY <1>2, <1>3
<1>5. Alone!Merge(now, copy, new) \in SomeIssue(C)
  BY <1>4 DEF SomeIssue
<1>6. ASSUME now = copy
      PROVE  Alone!Merge(now, copy, new) = new
  BY <1>4, <1>6 DEF SomeIssue
<1> QED BY <1>5, <1>6

\* What an import makes of the copies are rows, and none goes.
LEMMA AloneObjects ==
    ASSUME NEW r \in Readers, NEW k \in Issues, MaxMoves + 1 \in Nat,
           SyncTyped(Issues, Readers, MaxMoves + 1, 0)
    PROVE  /\ Alone!Objects(r)[k] \in SomeIssue(MaxMoves + 1) \cup {NoIssue}
           /\ req[r].copy[k] # NoIssue => Alone!Objects(r)[k] \in SomeIssue(MaxMoves + 1)
           /\ req[r].copy[k] = NoIssue /\ Alone!Objects(r)[k] # NoIssue =>
                 req[r].did /\ req[r].found[k] # 0
<1>1. /\ req[r] \in SyncRequests(Issues, MaxMoves + 1)
  BY DEF SyncTyped
<1>2. /\ req[r].copy[k] \in SomeIssue(MaxMoves + 1) \cup {NoIssue}
      /\ req[r].found[k] \in 0..(MaxMoves + 1) /\ req[r].did \in BOOLEAN
  BY <1>1 DEF SyncRequests, IssueRows
<1>3. Alone!Objects(r)[k] = IF ~req[r].did THEN req[r].copy[k]
        ELSE IF req[r].found[k] # 0 THEN Alone!Imported(req[r].copy[k], req[r].found[k])
        ELSE Alone!Deactivated(req[r].copy[k])
  BY DEF Alone!Objects
<1>4. [NoIssue EXCEPT !.active = FALSE] = NoIssue
  <2>1. NoIssue.active = FALSE /\ NoIssue = [c \in DOMAIN NoIssue |-> NoIssue[c]]
    BY DEF NoIssue
  <2> QED BY <2>1
<1>5. req[r].copy[k] # NoIssue => Alone!Deactivated(req[r].copy[k]) \in SomeIssue(MaxMoves + 1)
  BY <1>2 DEF Alone!Deactivated, SomeIssue
<1>6. req[r].copy[k] = NoIssue => Alone!Deactivated(req[r].copy[k]) = NoIssue
  BY <1>4 DEF Alone!Deactivated
<1>7. req[r].found[k] # 0 =>
          Alone!Imported(req[r].copy[k], req[r].found[k]) \in SomeIssue(MaxMoves + 1)
  BY <1>2 DEF Alone!Imported, SomeIssue
<1> QED BY <1>2, <1>3, <1>4, <1>5, <1>6, <1>7

\* A commit leaves rows, and none goes.
LEMMA AloneApplied ==
    ASSUME NEW r \in Readers, MaxMoves + 1 \in Nat, SyncShape(Issues, Readers, MaxMoves + 1, 0)
    PROVE  /\ Alone!Applied(r) \in IssueRows(Issues, MaxMoves + 1)
           /\ \A k \in Issues : rows[k] # NoIssue => Alone!Applied(r)[k] # NoIssue
<1>1. SUFFICES ASSUME NEW k \in Issues
               PROVE  /\ Alone!Applied(r)[k] \in SomeIssue(MaxMoves + 1) \cup {NoIssue}
                      /\ rows[k] # NoIssue => Alone!Applied(r)[k] # NoIssue
  BY DEF Alone!Applied, IssueRows
<1> DEFINE o == Alone!Objects(r)[k]
           c == req[r].copy[k]
<1>2. /\ rows[k] \in SomeIssue(MaxMoves + 1) \cup {NoIssue}
      /\ c \in SomeIssue(MaxMoves + 1) \cup {NoIssue}
      /\ c # NoIssue => rows[k] # NoIssue
  BY DEF SyncShape, SyncTyped, SyncCopies, SyncRequests, IssueRows
<1>3. /\ o \in SomeIssue(MaxMoves + 1) \cup {NoIssue}
      /\ c # NoIssue => o \in SomeIssue(MaxMoves + 1)
  BY AloneObjects DEF SyncShape
<1>4. Alone!Applied(r)[k] = IF o = c THEN rows[k] ELSE Alone!Merge(rows[k], c, o)
  BY DEF Alone!Applied
<1>5. NoIssue \notin SomeIssue(MaxMoves + 1)
  BY DEF NoIssue, SomeIssue
<1> HIDE DEF o, c
<1>6. CASE o = c
  BY <1>2, <1>4, <1>6
<1>7. CASE o # c /\ c = NoIssue
  <2>1. Alone!Merge(rows[k], c, o) = o
    BY <1>7 DEF Alone!Merge, Alone!NoRow, Alone!None, NoIssue
  <2> QED BY <1>3, <1>4, <1>5, <1>7, <2>1
<1>8. CASE o # c /\ c # NoIssue
  <2>1. Alone!Merge(rows[k], c, o) \in SomeIssue(MaxMoves + 1)
    BY <1>2, <1>3, <1>8, AloneMerged
  <2> QED BY <1>4, <1>5, <1>8, <2>1
<1> QED BY <1>6, <1>7, <1>8

\* The state of a request that goes on, and of one that fails.
LEMMA AloneGoes ==
    ASSUME NEW r \in Readers, NEW v \in SyncRequests(Issues, MaxMoves + 1),
           req \in [Readers -> SyncRequests(Issues, MaxMoves + 1)], Alone!Goes(r, v)
    PROVE  /\ req' \in [Readers -> SyncRequests(Issues, MaxMoves + 1)] /\ req'[r] = v
           /\ \A s \in Readers \ {r} : req'[s] = req[s]
BY DEF Alone!Goes

\* A request goes on: the types stay if what it goes on with is typed.
LEMMA AloneStays ==
    ASSUME NEW r \in Readers, NEW v \in SyncRequests(Issues, MaxMoves + 1), Alone!Goes(r, v),
           SyncShape(Issues, Readers, MaxMoves + 1, 0),
           \A k \in Issues : v.copy[k] # NoIssue => rows[k] # NoIssue,
           \A k \in Issues : rows[k] # NoIssue => rows'[k] # NoIssue
    PROVE  req' \in [Readers -> SyncRequests(Issues, MaxMoves + 1)] /\ SyncCopies(Issues, Readers)'
<1>1. /\ req' \in [Readers -> SyncRequests(Issues, MaxMoves + 1)] /\ req'[r] = v
      /\ \A s \in Readers \ {r} : req'[s] = req[s]
  BY AloneGoes DEF SyncShape, SyncTyped
<1>2. ASSUME NEW s \in Readers, NEW k \in Issues, req'[s].copy[k] # NoIssue
      PROVE  rows'[k] # NoIssue
  BY <1>1, <1>2 DEF SyncShape, SyncCopies
<1> QED BY <1>1, <1>2 DEF SyncCopies

\* The names that the types give the module's own sets.
LEMMA AloneNames ==
    ASSUME Alone!SyncAssumption
    PROVE  /\ MaxMoves + 1 \in Nat /\ "none" \notin Readers
           /\ Alone!None = "none" /\ Alone!NoRow = NoIssue
           /\ Alone!Nothing \in [Issues -> 0..(MaxMoves + 1)]
           /\ Alone!NoSig \in Signatures(Issues, MaxMoves + 1)
           /\ Alone!NoRows \in IssueRows(Issues, MaxMoves + 1)
           /\ \A k \in Issues : Alone!NoRows[k] = NoIssue
           /\ Alone!Idle \in SyncRequests(Issues, MaxMoves + 1)
           /\ Alone!Idle.copy = Alone!NoRows
<1>1. MaxMoves + 1 \in Nat /\ "none" \notin Readers
  BY DEF Alone!SyncAssumption
<1>2. Alone!None = "none" /\ Alone!NoRow = NoIssue
  BY DEF Alone!None, Alone!NoRow, NoIssue
<1>3. /\ Alone!Nothing \in [Issues -> 0..(MaxMoves + 1)]
      /\ Alone!NoSig \in Signatures(Issues, MaxMoves + 1)
  BY <1>1 DEF Alone!Nothing, Alone!NoSig, Signatures
<1>4. /\ Alone!NoRows \in IssueRows(Issues, MaxMoves + 1)
      /\ \A k \in Issues : Alone!NoRows[k] = NoIssue
  BY <1>2 DEF Alone!NoRows, IssueRows
<1>5. Alone!Idle \in SyncRequests(Issues, MaxMoves + 1) /\ Alone!Idle.copy = Alone!NoRows
  BY <1>2, <1>3, <1>4 DEF Alone!Idle, SyncRequests
<1> QED BY <1>1, <1>2, <1>3, <1>4, <1>5

\* A request that fails is typed and keeps its copy.
LEMMA AloneFailed ==
    ASSUME Alone!SyncAssumption, NEW r \in Readers, Alone!Fail(r),
           SyncShape(Issues, Readers, MaxMoves + 1, 0)
    PROVE  SyncShape(Issues, Readers, MaxMoves + 1, 0)'
<1> DEFINE v == [req[r] EXCEPT !.pc = "end", !.result = "error"]
<1>1. req[r] \in SyncRequests(Issues, MaxMoves + 1)
  BY DEF SyncShape, SyncTyped
<1>2. v \in SyncRequests(Issues, MaxMoves + 1) /\ v.copy = req[r].copy
  BY <1>1 DEF SyncRequests
<1>3. Alone!Goes(r, v) /\ rows' = rows
  BY DEF Alone!Fail
<1>4. req' \in [Readers -> SyncRequests(Issues, MaxMoves + 1)] /\ SyncCopies(Issues, Readers)'
  BY <1>2, <1>3, AloneStays DEF SyncShape, SyncCopies
<1> QED BY <1>4, AloneNames DEF Alone!Fail, Alone!Release, Alone!env, SyncShape, SyncTyped

\* Every step keeps the types.
LEMMA AloneTyped ==
    ASSUME Alone!SyncAssumption, SyncShape(Issues, Readers, MaxMoves + 1, 0),
           [Alone!Next]_(Alone!vars)
    PROVE  SyncShape(Issues, Readers, MaxMoves + 1, 0)'
<1> USE AloneNames
<1>1. /\ folder \in [Issues -> 0..(MaxMoves + 1)]
      /\ present \in BOOLEAN /\ clock \in 0..(MaxMoves + 1)
      /\ rows \in IssueRows(Issues, MaxMoves + 1)
      /\ signature \in Signatures(Issues, MaxMoves + 1)
      /\ synced \in Signatures(Issues, MaxMoves + 1)
      /\ edited \in [Issues -> Signatures(Issues, MaxMoves + 1)]
      /\ lock \in Readers \cup {"none"} /\ writer \in Readers \cup {"none"}
      /\ req \in [Readers -> SyncRequests(Issues, MaxMoves + 1)] /\ restarts \in 0..0
      /\ SyncCopies(Issues, Readers)
  BY DEF SyncShape, SyncTyped
<1>2. /\ Alone!Files \in [Issues -> 0..(MaxMoves + 1)]
      /\ Alone!Files \in Signatures(Issues, MaxMoves + 1)
  BY <1>1 DEF Alone!Files, Signatures
<1>3. CASE UNCHANGED Alone!vars
  BY <1>1, <1>3 DEF Alone!vars, Alone!env, SyncShape, SyncTyped, SyncCopies
<1>4. CASE Alone!ChangeFolder
  <2>1. clock + 1 \in 0..(MaxMoves + 1) /\ clock' = clock + 1
    BY <1>1, <1>4 DEF Alone!ChangeFolder
  <2>2. folder' \in [Issues -> 0..(MaxMoves + 1)]
    BY <1>1, <1>4, <2>1 DEF Alone!ChangeFolder
  <2>3. present' = present \/ present' = ~present
    BY <1>4 DEF Alone!ChangeFolder
  <2>4. present' \in BOOLEAN
    BY <1>1, <2>3
  <2> QED BY <1>1, <1>4, <2>1, <2>2, <2>4 DEF Alone!ChangeFolder, SyncShape, SyncTyped, SyncCopies
<1>5. CASE Alone!Restart
  <2>1. restarts < 0 /\ restarts' = restarts + 1
    BY <1>5 DEF Alone!Restart
  <2>2. ASSUME NEW s \in Readers
        PROVE  /\ req'[s] \in SyncRequests(Issues, MaxMoves + 1) /\ req'[s].copy = req[s].copy
    <3>1. req[s] \in SyncRequests(Issues, MaxMoves + 1)
      BY <1>1
    <3>2. /\ [req[s] EXCEPT !.pc = "end", !.result = "error"] \in
                SyncRequests(Issues, MaxMoves + 1)
          /\ [req[s] EXCEPT !.pc = "end", !.result = "error"].copy = req[s].copy
      BY <3>1 DEF SyncRequests
    <3>3. req'[s] = IF Alone!Active(s) THEN [req[s] EXCEPT !.pc = "end", !.result = "error"]
                    ELSE req[s]
      BY <1>5 DEF Alone!Restart
    <3> QED BY <3>1, <3>2, <3>3
  <2>3. req' \in [Readers -> SyncRequests(Issues, MaxMoves + 1)]
    BY <1>5, <2>2 DEF Alone!Restart
  <2>4. SyncCopies(Issues, Readers)'
    BY <1>1, <1>5, <2>2 DEF Alone!Restart, SyncCopies
  <2>5. restarts' \in 0..0
    BY <1>1, <2>1
  <2> QED BY <1>1, <1>5, <2>3, <2>4, <2>5 DEF Alone!Restart, Alone!env, SyncShape, SyncTyped
<1>6. ASSUME NEW r \in Readers, Alone!auto_sync_newsletters(r) \/ Alone!sync_newsletters(r)
      PROVE  SyncShape(Issues, Readers, MaxMoves + 1, 0)'
  <2>1. PICK v \in {[Alone!Idle EXCEPT !.kind = "read",
                                     !.pc = IF present THEN "wait" ELSE "serve"],
                    [Alone!Idle EXCEPT !.kind = "sync", !.pc = "scan"]} : Alone!Goes(r, v)
    BY <1>6 DEF Alone!auto_sync_newsletters, Alone!sync_newsletters
  <2>2. v \in SyncRequests(Issues, MaxMoves + 1) /\ v.copy = Alone!NoRows
    BY <2>1 DEF SyncRequests
  <2>3. rows' = rows
    BY <1>6 DEF Alone!auto_sync_newsletters, Alone!sync_newsletters
  <2>4. req' \in [Readers -> SyncRequests(Issues, MaxMoves + 1)] /\ SyncCopies(Issues, Readers)'
    BY <2>1, <2>2, <2>3, AloneStays
  <2> QED BY <1>1, <1>6, <2>4
          DEF Alone!auto_sync_newsletters, Alone!sync_newsletters, Alone!env, SyncShape, SyncTyped
<1>7. ASSUME NEW r \in Readers, Alone!get_detail_by_id(r)
      PROVE  SyncShape(Issues, Readers, MaxMoves + 1, 0)'
  <2> DEFINE v == [Alone!Idle EXCEPT !.kind = "edit", !.pc = "serve", !.copy = rows]
  <2>1. /\ v \in SyncRequests(Issues, MaxMoves + 1) /\ v.copy = rows
        /\ Alone!Goes(r, v) /\ rows' = rows
    BY <1>1, <1>7 DEF SyncRequests, Alone!get_detail_by_id
  <2> HIDE DEF v
  <2>2. req' \in [Readers -> SyncRequests(Issues, MaxMoves + 1)] /\ SyncCopies(Issues, Readers)'
    BY <2>1, AloneStays
  <2> QED BY <1>1, <1>7, <2>2 DEF Alone!get_detail_by_id, Alone!env, SyncShape, SyncTyped
<1>8. ASSUME NEW r \in Readers, Alone!refresh_if_changed(r)
      PROVE  SyncShape(Issues, Readers, MaxMoves + 1, 0)'
  <2>1. PICK p \in {"serve", "scan"} :
            Alone!Goes(r, [req[r] EXCEPT !.pc = p, !.sig = Alone!Files])
    BY <1>8 DEF Alone!refresh_if_changed
  <2>2. /\ [req[r] EXCEPT !.pc = p, !.sig = Alone!Files] \in SyncRequests(Issues, MaxMoves + 1)
        /\ [req[r] EXCEPT !.pc = p, !.sig = Alone!Files].copy = req[r].copy
    BY <1>1, <1>2 DEF SyncRequests
  <2>3. rows' = rows
    BY <1>8 DEF Alone!refresh_if_changed
  <2>4. req' \in [Readers -> SyncRequests(Issues, MaxMoves + 1)] /\ SyncCopies(Issues, Readers)'
    BY <1>1, <2>1, <2>2, <2>3, AloneStays DEF SyncCopies
  <2>5. lock' \in Readers \cup {"none"}
    BY <1>1, <1>8 DEF Alone!refresh_if_changed
  <2> QED BY <1>1, <1>8, <2>4, <2>5 DEF Alone!refresh_if_changed, Alone!env, SyncShape, SyncTyped
<1>9. ASSUME NEW r \in Readers, Alone!scan(r)
      PROVE  SyncShape(Issues, Readers, MaxMoves + 1, 0)'
  <2> DEFINE v == [req[r] EXCEPT !.pc = "load", !.found = Alone!Files, !.did = TRUE,
                                 !.blind = ~present]
  <2>1. v \in SyncRequests(Issues, MaxMoves + 1) /\ v.copy = req[r].copy
    BY <1>1, <1>2 DEF SyncRequests
  <2>2. Alone!Goes(r, v) /\ rows' = rows
    BY <1>9 DEF Alone!scan
  <2> HIDE DEF v
  <2>3. req' \in [Readers -> SyncRequests(Issues, MaxMoves + 1)] /\ SyncCopies(Issues, Readers)'
    BY <1>1, <2>1, <2>2, AloneStays DEF SyncCopies
  <2> QED BY <1>1, <1>9, <2>3 DEF Alone!scan, Alone!env, SyncShape, SyncTyped
<1>10. ASSUME NEW r \in Readers, Alone!Load(r)
       PROVE  SyncShape(Issues, Readers, MaxMoves + 1, 0)'
  <2> DEFINE v == [req[r] EXCEPT !.pc = "insert", !.copy = rows]
  <2>1. v \in SyncRequests(Issues, MaxMoves + 1) /\ v.copy = rows
    BY <1>1 DEF SyncRequests
  <2>2. Alone!Goes(r, v) /\ rows' = rows
    BY <1>10 DEF Alone!Load
  <2> HIDE DEF v
  <2>3. req' \in [Readers -> SyncRequests(Issues, MaxMoves + 1)] /\ SyncCopies(Issues, Readers)'
    BY <2>1, <2>2, AloneStays
  <2> QED BY <1>1, <1>10, <2>3 DEF Alone!Load, Alone!env, SyncShape, SyncTyped
<1>11. ASSUME NEW r \in Readers, Alone!_upsert_issue(r), ~ Alone!Fail(r)
       PROVE  SyncShape(Issues, Readers, MaxMoves + 1, 0)'
  <2> DEFINE v == [req[r] EXCEPT !.pc = "update"]
  <2>1. v \in SyncRequests(Issues, MaxMoves + 1) /\ v.copy = req[r].copy
    BY <1>1 DEF SyncRequests
  <2>2. /\ Alone!Goes(r, v)
        /\ UNCHANGED <<Alone!env, rows, signature, lock, synced, edited, restarts>>
        /\ writer' \in {r, writer}
    BY <1>11 DEF Alone!_upsert_issue
  <2> HIDE DEF v
  <2>3. req' \in [Readers -> SyncRequests(Issues, MaxMoves + 1)] /\ SyncCopies(Issues, Readers)'
    BY <1>1, <2>1, <2>2, AloneStays DEF SyncCopies
  <2> QED BY <1>1, <2>2, <2>3 DEF Alone!env, SyncShape, SyncTyped
<1>12. ASSUME NEW r \in Readers, Alone!FlushRead(r) \/ Alone!NoteBaseline(r)
       PROVE  SyncShape(Issues, Readers, MaxMoves + 1, 0)'
  <2> DEFINE v == [req[r] EXCEPT !.pc = "serve"]
  <2>1. /\ v \in SyncRequests(Issues, MaxMoves + 1) /\ v.copy = req[r].copy
        /\ req[r].sig \in Signatures(Issues, MaxMoves + 1)
    BY <1>1 DEF SyncRequests
  <2>2. /\ Alone!Goes(r, v) /\ UNCHANGED <<Alone!env, rows, synced, edited, restarts>>
        /\ writer' \in {r, writer} /\ lock' \in {"none", lock}
        /\ signature' \in {req[r].sig, Alone!Files}
    BY <1>12 DEF Alone!FlushRead, Alone!NoteBaseline, Alone!Release
  <2> HIDE DEF v
  <2>3. req' \in [Readers -> SyncRequests(Issues, MaxMoves + 1)] /\ SyncCopies(Issues, Readers)'
    BY <1>1, <2>1, <2>2, AloneStays DEF SyncCopies
  <2> QED BY <1>1, <1>2, <2>1, <2>2, <2>3 DEF Alone!env, SyncShape, SyncTyped
<1>13. ASSUME NEW r \in Readers, Alone!Commit(r)
       PROVE  SyncShape(Issues, Readers, MaxMoves + 1, 0)'
  <2> DEFINE v == [req[r] EXCEPT !.pc = "end", !.result = "ok", !.served = Alone!Applied(r)]
  <2>1. /\ Alone!Applied(r) \in IssueRows(Issues, MaxMoves + 1)
        /\ \A k \in Issues : rows[k] # NoIssue => Alone!Applied(r)[k] # NoIssue
    BY AloneApplied
  <2>2. v \in SyncRequests(Issues, MaxMoves + 1) /\ v.copy = req[r].copy
    BY <1>1, <2>1 DEF SyncRequests
  <2>3. Alone!Goes(r, v) /\ rows' = Alone!Applied(r) /\ writer' \in {"none", writer}
    BY <1>13 DEF Alone!Commit, Alone!Release
  <2> HIDE DEF v
  <2>4. req' \in [Readers -> SyncRequests(Issues, MaxMoves + 1)] /\ SyncCopies(Issues, Readers)'
    BY <1>1, <2>1, <2>2, <2>3, AloneStays DEF SyncCopies
  <2>5. req[r].found \in Signatures(Issues, MaxMoves + 1)
    BY <1>1 DEF SyncRequests, Signatures
  <2>6. /\ synced' \in Signatures(Issues, MaxMoves + 1)
        /\ edited' \in [Issues -> Signatures(Issues, MaxMoves + 1)]
    BY <1>1, <1>13, <2>5 DEF Alone!Commit, Alone!Still
  <2> QED BY <1>1, <1>13, <2>1, <2>3, <2>4, <2>6 DEF Alone!Commit, Alone!env, SyncShape, SyncTyped
<1>14. ASSUME NEW r \in Readers, Alone!update_newsletter(r)
       PROVE  SyncShape(Issues, Readers, MaxMoves + 1, 0)'
  <2>1. PICK k \in Issues :
            /\ req[r].copy[k] # NoIssue
            /\ \E new \in {[req[r].copy[k] EXCEPT !.title = "admin"],
                         Alone!soft_delete(req[r].copy[k])} :
                  /\ rows' = [rows EXCEPT ![k] = Alone!Merge(@, req[r].copy[k], new)]
                  /\ edited' = [edited EXCEPT
                        ![k] = IF synced = Alone!Files THEN Alone!Files ELSE Alone!NoSig]
    BY <1>14 DEF Alone!update_newsletter
  <2> PICK new \in {[req[r].copy[k] EXCEPT !.title = "admin"],
                   Alone!soft_delete(req[r].copy[k])} :
            /\ rows' = [rows EXCEPT ![k] = Alone!Merge(@, req[r].copy[k], new)]
            /\ edited' = [edited EXCEPT
                  ![k] = IF synced = Alone!Files THEN Alone!Files ELSE Alone!NoSig]
    BY <2>1
  <2>2. req[r].copy[k] \in SomeIssue(MaxMoves + 1) /\ rows[k] \in SomeIssue(MaxMoves + 1)
    BY <1>1, <2>1 DEF SyncRequests, SyncCopies, IssueRows
  <2>3. /\ [req[r].copy[k] EXCEPT !.title = "admin"] \in SomeIssue(MaxMoves + 1)
        /\ Alone!soft_delete(req[r].copy[k]) \in SomeIssue(MaxMoves + 1)
    BY <2>2 DEF Alone!soft_delete, SomeIssue
  <2>11. new \in SomeIssue(MaxMoves + 1)
    BY <2>3
  <2>4. Alone!Merge(rows[k], req[r].copy[k], new) \in SomeIssue(MaxMoves + 1)
    BY <2>2, <2>11, AloneMerged
  <2>5. NoIssue \notin SomeIssue(MaxMoves + 1)
    BY DEF NoIssue, SomeIssue
  <2>6. /\ rows' \in IssueRows(Issues, MaxMoves + 1)
        /\ \A i \in Issues : rows[i] # NoIssue => rows'[i] # NoIssue
    BY <1>1, <2>1, <2>4, <2>5 DEF IssueRows
  <2>7. edited' \in [Issues -> Signatures(Issues, MaxMoves + 1)]
    BY <1>1, <1>2, <2>1
  <2> DEFINE v == [req[r] EXCEPT !.pc = "end", !.result = "ok"]
  <2>8. v \in SyncRequests(Issues, MaxMoves + 1) /\ v.copy = req[r].copy
    BY <1>1 DEF SyncRequests
  <2>9. Alone!Goes(r, v)
    BY <1>14 DEF Alone!update_newsletter
  <2> HIDE DEF v
  <2>10. req' \in [Readers -> SyncRequests(Issues, MaxMoves + 1)] /\ SyncCopies(Issues, Readers)'
    BY <1>1, <2>6, <2>8, <2>9, AloneStays DEF SyncCopies
  <2> QED BY <1>1, <1>14, <2>6, <2>7, <2>10
          DEF Alone!update_newsletter, Alone!env, SyncShape, SyncTyped
<1>15. ASSUME NEW r \in Readers, Alone!Fail(r)
       PROVE  SyncShape(Issues, Readers, MaxMoves + 1, 0)'
  BY <1>15, AloneFailed
<1> QED BY <1>3, <1>4, <1>5, <1>6, <1>7, <1>8, <1>9, <1>10, <1>11, <1>12, <1>13, <1>14, <1>15
        DEF Alone!Next, Alone!Works, Alone!LockedDatabase, Alone!RaiseNotFound

\* Every step keeps who may hold a lock.
LEMMA AloneHeld ==
    ASSUME Alone!SyncAssumption, SyncShape(Issues, Readers, MaxMoves + 1, 0), SyncHeld(Readers),
           [Alone!Next]_(Alone!vars)
    PROVE  SyncHeld(Readers)'
<1>1. /\ req \in [Readers -> SyncRequests(Issues, MaxMoves + 1)]
      /\ "none" \notin Readers /\ Alone!None = "none"
      /\ Alone!Idle \in SyncRequests(Issues, MaxMoves + 1)
  BY AloneNames DEF SyncShape, SyncTyped
<1>2. CASE UNCHANGED Alone!vars
  BY <1>2 DEF Alone!vars, SyncHeld
<1>3. CASE Alone!ChangeFolder
  BY <1>3 DEF Alone!ChangeFolder, SyncHeld
<1>4. CASE Alone!Restart
  <2>1. /\ lock' = "none" /\ writer' = "none"
        /\ \A s \in Readers : req'[s].pc = "wait" => req'[s] = req[s]
    BY <1>1, <1>4 DEF Alone!Restart, SyncRequests
  <2> QED BY <1>1, <2>1 DEF SyncHeld
<1>5. ASSUME NEW r \in Readers, Alone!auto_sync_newsletters(r)
      PROVE  SyncHeld(Readers)'
  BY <1>1, <1>5 DEF Alone!auto_sync_newsletters, Alone!Arrives, Alone!Goes, SyncHeld, SyncRequests
<1>6. ASSUME NEW r \in Readers, Alone!sync_newsletters(r) \/ Alone!get_detail_by_id(r)
      PROVE  SyncHeld(Readers)'
  <2>1. CASE Alone!sync_newsletters(r)
    BY <1>1, <2>1 DEF Alone!sync_newsletters, Alone!Arrives, Alone!Goes, SyncHeld, SyncRequests
  <2>2. CASE Alone!get_detail_by_id(r)
    BY <1>1, <2>2 DEF Alone!get_detail_by_id, Alone!Arrives, Alone!Goes, SyncHeld, SyncRequests
  <2> QED BY <1>6, <2>1, <2>2
<1>7. ASSUME NEW r \in Readers, Alone!refresh_if_changed(r)
      PROVE  SyncHeld(Readers)'
  <2>1. /\ req[r].pc = "wait" /\ writer' = writer
        /\ \/ /\ lock' = lock
              /\ Alone!Goes(r, [req[r] EXCEPT !.pc = "serve", !.sig = Alone!Files])
           \/ /\ lock' = r
              /\ Alone!Goes(r, [req[r] EXCEPT !.pc = "scan", !.sig = Alone!Files])
    BY <1>7 DEF Alone!refresh_if_changed
  <2>2. CASE /\ lock' = lock
             /\ Alone!Goes(r, [req[r] EXCEPT !.pc = "serve", !.sig = Alone!Files])
    BY <1>1, <2>1, <2>2 DEF Alone!Goes, SyncHeld, SyncRequests
  <2>3. CASE /\ lock' = r
             /\ Alone!Goes(r, [req[r] EXCEPT !.pc = "scan", !.sig = Alone!Files])
    BY <1>1, <2>1, <2>3 DEF Alone!Goes, SyncHeld, SyncRequests
  <2> QED BY <2>1, <2>2, <2>3
<1>8. ASSUME NEW r \in Readers, Alone!scan(r) \/ Alone!Load(r)
      PROVE  SyncHeld(Readers)'
  <2>1. CASE Alone!scan(r)
    <3>1. /\ req[r].pc = "scan" /\ lock' = lock /\ writer' = writer
          /\ Alone!Goes(r, [req[r] EXCEPT !.pc = "load", !.found = Alone!Files,
                                       !.did = TRUE, !.blind = ~present])
      BY <2>1 DEF Alone!scan
    <3> QED BY <1>1, <3>1 DEF Alone!Goes, SyncHeld, SyncRequests
  <2>2. CASE Alone!Load(r)
    BY <1>1, <2>2 DEF Alone!Load, Alone!Goes, SyncHeld, SyncRequests
  <2> QED BY <1>8, <2>1, <2>2
<1>9. ASSUME NEW r \in Readers, Alone!Fail(r)
      PROVE  SyncHeld(Readers)'
  BY <1>1, <1>9 DEF Alone!Fail, Alone!Release, Alone!Goes, SyncHeld, SyncRequests
<1>10. ASSUME NEW r \in Readers, Alone!_upsert_issue(r), ~ Alone!Fail(r)
       PROVE  SyncHeld(Readers)'
  <2>1. /\ req[r].pc = "insert" /\ Alone!Goes(r, [req[r] EXCEPT !.pc = "update"])
        /\ writer' \in {r, writer} /\ lock' = lock
    BY <1>10 DEF Alone!_upsert_issue
  <2> QED BY <1>1, <2>1 DEF Alone!Goes, SyncHeld, SyncRequests
<1>11. ASSUME NEW r \in Readers, Alone!FlushRead(r)
       PROVE  SyncHeld(Readers)'
  <2>1. /\ req[r].pc = "update" /\ Alone!Goes(r, [req[r] EXCEPT !.pc = "serve"])
        /\ writer' \in {r, writer} /\ lock' = Alone!Release(r, lock)
    BY <1>11 DEF Alone!FlushRead
  <2> QED BY <1>1, <2>1 DEF Alone!Goes, Alone!Release, SyncHeld, SyncRequests
<1>12. ASSUME NEW r \in Readers, Alone!NoteBaseline(r)
       PROVE  SyncHeld(Readers)'
  BY <1>1, <1>12 DEF Alone!NoteBaseline, Alone!Goes, SyncHeld, SyncRequests
<1>13. ASSUME NEW r \in Readers, Alone!Commit(r) \/ Alone!update_newsletter(r)
       PROVE  SyncHeld(Readers)'
  <2>1. /\ req[r].pc = "serve" /\ lock' = lock /\ writer' \in {"none", writer} /\ writer' # r
        /\ \E x : Alone!Goes(r, [req[r] EXCEPT !.pc = "end", !.result = "ok", !.served = x])
    <3>1. CASE Alone!Commit(r)
      BY <1>1, <3>1 DEF Alone!Commit, Alone!Release
    <3>2. CASE Alone!update_newsletter(r)
      <4>1. [req[r] EXCEPT !.pc = "end", !.result = "ok"] =
              [req[r] EXCEPT !.pc = "end", !.result = "ok", !.served = req[r].served]
        BY <1>1 DEF SyncRequests
      <4> QED BY <1>1, <3>2, <4>1 DEF Alone!update_newsletter
    <3> QED BY <1>13, <3>1, <3>2
  <2>2. PICK x : Alone!Goes(r, [req[r] EXCEPT !.pc = "end", !.result = "ok", !.served = x])
    BY <2>1
  <2> QED BY <1>1, <2>1, <2>2 DEF Alone!Goes, SyncHeld, SyncRequests
<1> QED BY <1>2, <1>3, <1>4, <1>5, <1>6, <1>7, <1>8, <1>9, <1>10, <1>11, <1>12, <1>13
        DEF Alone!Next, Alone!Works, Alone!LockedDatabase, Alone!RaiseNotFound

\* What the types give.
LEMMA AloneGivesType ==
    ASSUME Alone!SyncAssumption, SyncShape(Issues, Readers, MaxMoves + 1, 0)
    PROVE  Alone!TypeOK
<1>1. Alone!None = "none" /\ Alone!Rows = SomeIssue(MaxMoves + 1) \cup {NoIssue}
  BY DEF Alone!None, Alone!Rows, Alone!NoRow, SomeIssue, NoIssue
<1>2. \A r \in Readers :
         /\ req[r].pc \in {"idle", "wait", "scan", "load", "insert", "update", "serve", "end"}
         /\ req[r].kind \in {"none", "read", "sync", "edit"}
         /\ req[r].copy \in IssueRows(Issues, MaxMoves + 1)
         /\ req[r].served \in IssueRows(Issues, MaxMoves + 1)
         /\ req[r].result \in {"none", "ok", "error"}
  BY DEF SyncShape, SyncTyped, SyncRequests
<1> QED BY <1>1, <1>2 DEF SyncShape, SyncTyped, IssueRows, Signatures, Alone!TypeOK

\* The types hold in the beginning, and nobody holds anything.
LEMMA AloneInit ==
    ASSUME Alone!SyncAssumption, Alone!Init
    PROVE  /\ SyncShape(Issues, Readers, MaxMoves + 1, 0) /\ SyncHeld(Readers) /\ SyncSighted(Readers)
           /\ present /\ req = [r \in Readers |-> Alone!Idle]
<1>1. 0 \in 0..0 /\ 0 \in 0..(MaxMoves + 1)
  BY AloneNames
<1>2. Alone!Idle.pc = "idle" /\ Alone!Idle.kind = "none" /\ Alone!Idle.blind = FALSE
  BY DEF Alone!Idle, Alone!None
<1>3. /\ present = TRUE /\ lock = "none" /\ writer = "none"
      /\ req = [r \in Readers |-> Alone!Idle] /\ "none" \notin Readers
  BY AloneNames DEF Alone!Init
<1>4. SyncHeld(Readers) /\ SyncSighted(Readers)
  BY <1>2, <1>3 DEF SyncHeld, SyncSighted
<1>5. SyncTyped(Issues, Readers, MaxMoves + 1, 0)
  BY <1>1, <1>3, AloneNames DEF Alone!Init, SyncTyped
<1>6. SyncCopies(Issues, Readers)
  BY <1>3, AloneNames DEF SyncCopies
<1> QED BY <1>3, <1>4, <1>5, <1>6 DEF SyncShape

-----------------------------------------------------------------------------
(* Newsletters, one request at a time.                                     *)

\* What a request knows when F is in the folder, S is the signature, Y the folder
\* last imported and X the rows.
NewsAsk(q, F, S, Y, X) ==
    /\ q.result # "none" => q.pc = "end"
    /\ q.pc \in {"scan", "load", "insert", "update"} =>
          q.kind \in {"read", "sync"} /\ (q.kind = "read" => q.sig = F /\ S # F)
    /\ q.pc = "wait" => q.kind = "read" /\ ~q.did
    /\ q.pc \in {"load", "insert", "update"} => q.did /\ q.found = F
    /\ q.pc \in {"insert", "update"} => q.copy = X
    /\ q.pc = "serve" =>
          /\ q.did => /\ q.found = F /\ q.copy = X /\ S = F
                      /\ (q.kind = "read" => q.sig = F /\ Y # F)
          /\ ~q.did => S = Y /\ (q.kind = "read" => q.sig = F /\ S = F)
          /\ q.kind = "sync" => q.did
          /\ q.kind = "edit" => ~q.did /\ q.copy = X

\* What a read that has ended well has shown.
NewsShown(q) ==
    q.kind = "read" /\ q.result = "ok" =>
        \A k \in Issues : q.sig[k] \in 1..(MaxMoves + 1) => q.served[k].ver = q.sig[k]

NewsOne == \A r, s \in Readers : Alone!Active(r) /\ Alone!Active(s) => r = s
NewsAsked == \A r \in Readers :
    NewsAsk(req[r], folder, signature, synced, rows) /\ NewsShown(req[r])

\* Nothing but an import that is about to be committed sets apart what is noted and
\* what was imported; edits are over the folder last imported; rows are of it.
NewsNoted == synced = signature \/ \E r \in Readers : req[r].pc = "serve" /\ req[r].did
NewsEdits == \A k \in Issues : edited[k] \in {Alone!NoSig, synced}
NewsRows == \A k \in Issues : synced[k] \in 1..(MaxMoves + 1) => rows[k].ver = synced[k]

AloneInv ==
    /\ SyncShape(Issues, Readers, MaxMoves + 1, 0) /\ SyncHeld(Readers)
    /\ present /\ NewsOne /\ NewsAsked /\ NewsNoted /\ NewsEdits /\ NewsRows

\* An import of rows that nobody has changed since they were read.
LEMMA AloneClean ==
    ASSUME Alone!SyncAssumption, SyncShape(Issues, Readers, MaxMoves + 1, 0),
           NEW r \in Readers, req[r].copy = rows
    PROVE  Alone!Applied(r) = Alone!Objects(r)
<1>1. SUFFICES ASSUME NEW k \in Issues
               PROVE  Alone!Applied(r)[k] = Alone!Objects(r)[k]
  BY DEF Alone!Applied, Alone!Objects
<1> DEFINE o == Alone!Objects(r)[k]
           c == req[r].copy[k]
<1>2. /\ c = rows[k] /\ MaxMoves + 1 \in Nat
      /\ c \in SomeIssue(MaxMoves + 1) \cup {NoIssue}
  BY AloneNames DEF SyncShape, SyncTyped, IssueRows
<1>3. c # NoIssue => o \in SomeIssue(MaxMoves + 1)
  BY <1>2, AloneObjects DEF SyncShape
<1>4. Alone!Applied(r)[k] = IF o = c THEN rows[k] ELSE Alone!Merge(rows[k], c, o)
  BY DEF Alone!Applied
<1> HIDE DEF o, c
<1>5. ASSUME c = NoIssue
      PROVE  Alone!Applied(r)[k] = o
  BY <1>2, <1>4, <1>5 DEF Alone!Merge, Alone!NoRow, Alone!None, NoIssue
<1>6. ASSUME c # NoIssue
      PROVE  Alone!Applied(r)[k] = o
  BY <1>2, <1>3, <1>4, <1>6, AloneMerged
<1>7. Alone!Applied(r)[k] = o
  BY <1>5, <1>6
<1> QED BY <1>7 DEF o

\* A commit that has imported: the rows are of the files found.
LEMMA AloneImported ==
    ASSUME Alone!SyncAssumption, SyncShape(Issues, Readers, MaxMoves + 1, 0),
           NEW r \in Readers, req[r].copy = rows, req[r].did
    PROVE  \A k \in Issues : req[r].found[k] # 0 => Alone!Applied(r)[k].ver = req[r].found[k]
<1>1. SUFFICES ASSUME NEW k \in Issues, req[r].found[k] # 0
               PROVE  Alone!Applied(r)[k].ver = req[r].found[k]
  OBVIOUS
<1>2. Alone!Objects(r)[k] = Alone!Imported(req[r].copy[k], req[r].found[k])
  BY <1>1 DEF Alone!Objects
<1> QED BY <1>2, AloneClean DEF Alone!Imported

\* A commit that has not: the rows are as they are.
LEMMA AloneUntouched ==
    ASSUME Alone!SyncAssumption, SyncShape(Issues, Readers, MaxMoves + 1, 0),
           NEW r \in Readers, ~req[r].did
    PROVE  Alone!Applied(r) = rows
<1>1. rows = [k \in Issues |-> rows[k]] /\ req[r] \in SyncRequests(Issues, MaxMoves + 1)
  BY DEF SyncShape, SyncTyped, IssueRows
<1>2. \A k \in Issues : Alone!Objects(r)[k] = req[r].copy[k]
  BY DEF Alone!Objects
<1> QED BY <1>1, <1>2 DEF Alone!Applied

\* A request that does not go on is as it was, and is the only one that is not.
LEMMA AloneWent ==
    ASSUME AloneInv, NEW r \in Readers, NEW v \in SyncRequests(Issues, MaxMoves + 1),
           Alone!Goes(r, v), \A s \in Readers : Alone!Active(s) => s = r,
           NewsAsk(v, folder', signature', synced', rows'), NewsShown(v)
    PROVE  NewsOne' /\ NewsAsked'
<1>1. /\ req' \in [Readers -> SyncRequests(Issues, MaxMoves + 1)] /\ req'[r] = v
      /\ \A s \in Readers \ {r} : req'[s] = req[s]
  BY AloneGoes DEF AloneInv, SyncShape, SyncTyped
<1>2. ASSUME NEW s \in Readers \ {r}
      PROVE  /\ req'[s].pc \in {"idle", "end"} /\ NewsShown(req'[s])
             /\ req'[s].result # "none" => req'[s].pc = "end"
  <2>1. ~Alone!Active(s) /\ req[s] \in SyncRequests(Issues, MaxMoves + 1)
    BY <1>2 DEF AloneInv, SyncShape, SyncTyped
  <2> QED BY <1>1, <1>2, <2>1 DEF AloneInv, NewsAsked, NewsAsk, Alone!Active, SyncRequests
<1>3. NewsOne'
  BY <1>1, <1>2 DEF NewsOne, Alone!Active
<1>4. ASSUME NEW s \in Readers
      PROVE  NewsAsk(req'[s], folder', signature', synced', rows') /\ NewsShown(req'[s])
  <2>1. CASE s = r
    BY <1>1, <2>1
  <2>2. CASE s # r
    BY <1>2, <2>2 DEF NewsAsk
  <2> QED BY <2>1, <2>2
<1> QED BY <1>3, <1>4 DEF NewsAsked

\* What a request that goes on may take for granted: it is the only one, and nothing
\* can make it fail.
LEMMA AloneGives ==
    ASSUME Alone!SyncAssumption, AloneInv, NEW r \in Readers
    PROVE  /\ req[r] \in SyncRequests(Issues, MaxMoves + 1) /\ Alone!Files = folder
           /\ NewsAsk(req[r], folder, signature, synced, rows) /\ NewsShown(req[r])
           /\ Alone!Active(r) =>
                 /\ \A s \in Readers : Alone!Active(s) => s = r
                 /\ writer \in {"none", r}
           /\ Alone!Active(r) /\ ~(req[r].pc = "serve" /\ req[r].did) => synced = signature
<1>1. /\ req[r] \in SyncRequests(Issues, MaxMoves + 1) /\ Alone!Files = folder
      /\ NewsAsk(req[r], folder, signature, synced, rows) /\ NewsShown(req[r])
  BY DEF AloneInv, SyncShape, SyncTyped, NewsAsked, Alone!Files
<1>2. Alone!Active(r) => \A s \in Readers : Alone!Active(s) => s = r
  BY DEF AloneInv, NewsOne
<1>3. Alone!Active(r) => writer \in {"none", r}
  BY <1>2 DEF AloneInv, SyncShape, SyncTyped, SyncHeld, Alone!Active
<1>4. Alone!Active(r) /\ ~(req[r].pc = "serve" /\ req[r].did) => synced = signature
  BY <1>2 DEF AloneInv, NewsNoted, Alone!Active
<1> QED BY <1>1, <1>2, <1>3, <1>4

\* Requests do not fail here.
LEMMA AloneNoFail ==
    ASSUME Alone!SyncAssumption, AloneInv, NEW r \in Readers
    PROVE  /\ ~Alone!LockedDatabase(r) /\ ~Alone!RaiseNotFound(r)
           /\ Alone!_upsert_issue(r) =>
                 /\ req[r].pc = "insert" /\ Alone!Goes(r, [req[r] EXCEPT !.pc = "update"])
                 /\ UNCHANGED <<Alone!env, rows, signature, lock, synced, edited, restarts>>
<1>1. ASSUME Alone!LockedDatabase(r)
      PROVE  FALSE
  <2>1. Alone!Active(r)
    BY <1>1 DEF Alone!LockedDatabase, Alone!NeedsWriter, Alone!Active
  <2> QED BY <1>1, <2>1, AloneGives, AloneNames DEF Alone!LockedDatabase
<1>2. ~Alone!RaiseNotFound(r)
  BY DEF Alone!RaiseNotFound
<1>3. ASSUME Alone!_upsert_issue(r)
      PROVE  ~ \E k \in Alone!Created(r) : rows[k] # Alone!NoRow
  <2>1. req[r].copy = rows
    BY <1>3, AloneGives DEF Alone!_upsert_issue, NewsAsk
  <2> QED BY <2>1 DEF Alone!Created
<1>4. ASSUME Alone!_upsert_issue(r)
      PROVE  /\ req[r].pc = "insert" /\ Alone!Goes(r, [req[r] EXCEPT !.pc = "update"])
             /\ UNCHANGED <<Alone!env, rows, signature, lock, synced, edited, restarts>>
  BY <1>3, <1>4 DEF Alone!_upsert_issue
<1> QED BY <1>1, <1>2, <1>4

\* The steps that do not end a request ...
LEMMA AloneWorks ==
    ASSUME Alone!SyncAssumption, AloneInv, NEW r \in Readers,
           \/ Alone!auto_sync_newsletters(r) \/ Alone!sync_newsletters(r)
           \/ Alone!get_detail_by_id(r) \/ Alone!refresh_if_changed(r) \/ Alone!scan(r)
           \/ Alone!Load(r) \/ Alone!_upsert_issue(r) \/ Alone!FlushRead(r)
           \/ Alone!NoteBaseline(r)
    PROVE  present' /\ NewsOne' /\ NewsAsked' /\ NewsNoted' /\ NewsEdits' /\ NewsRows'
<1>1. /\ req \in [Readers -> SyncRequests(Issues, MaxMoves + 1)]
      /\ req[r] \in SyncRequests(Issues, MaxMoves + 1) /\ Alone!Files = folder
      /\ NewsAsk(req[r], folder, signature, synced, rows) /\ present
      /\ folder \in [Issues -> 0..(MaxMoves + 1)] /\ folder \in Signatures(Issues, MaxMoves + 1)
      /\ rows \in IssueRows(Issues, MaxMoves + 1) /\ req[r].result \in {"none", "ok", "error"}
  <2>1. \A f \in [Issues -> 0..(MaxMoves + 1)] : f \in Signatures(Issues, MaxMoves + 1)
    BY AloneNames DEF Signatures
  <2> QED BY <2>1, AloneGives DEF AloneInv, SyncShape, SyncTyped, SyncRequests
<1>2. Alone!Idle \in SyncRequests(Issues, MaxMoves + 1) /\ Alone!Idle.result = "none"
  BY AloneNames DEF Alone!Idle, Alone!None
<1>3. ASSUME NEW v \in SyncRequests(Issues, MaxMoves + 1), Alone!Goes(r, v),
             \A s \in Readers : Alone!Active(s) => s = r,
             UNCHANGED <<folder, present, synced, rows, edited>>,
             NewsAsk(v, folder, signature', synced, rows), v.result = "none",
             synced = signature' \/ (v.pc = "serve" /\ v.did)
      PROVE  present' /\ NewsOne' /\ NewsAsked' /\ NewsNoted' /\ NewsEdits' /\ NewsRows'
  <2>1. NewsShown(v)
    BY <1>3 DEF NewsShown
  <2>2. NewsOne' /\ NewsAsked'
    BY <1>3, <2>1, AloneWent
  <2>3. req'[r] = v
    BY <1>1, <1>3, AloneGoes
  <2>4. NewsNoted'
    BY <1>3, <2>3 DEF NewsNoted
  <2> QED BY <1>1, <1>3, <2>2, <2>4 DEF AloneInv, NewsEdits, NewsRows
<1>4. CASE Alone!auto_sync_newsletters(r)
  <2> DEFINE v == [Alone!Idle EXCEPT !.kind = "read", !.pc = "wait"]
  <2>1. /\ Alone!Goes(r, v) /\ \A s \in Readers : ~Alone!Active(s)
        /\ UNCHANGED <<folder, present, synced, rows, edited, signature>>
    BY <1>1, <1>4 DEF Alone!auto_sync_newsletters, Alone!Arrives, Alone!env
  <2>2. /\ v \in SyncRequests(Issues, MaxMoves + 1) /\ v.pc = "wait" /\ v.kind = "read"
        /\ v.did = FALSE /\ v.result = "none"
    BY <1>2 DEF SyncRequests, Alone!Idle, Alone!None
  <2>3. synced = signature
    BY <2>1 DEF AloneInv, NewsNoted, Alone!Active
  <2> HIDE DEF v
  <2> QED BY <1>3, <2>1, <2>2, <2>3 DEF NewsAsk
<1>5. CASE Alone!sync_newsletters(r)
  <2> DEFINE v == [Alone!Idle EXCEPT !.kind = "sync", !.pc = "scan"]
  <2>1. /\ Alone!Goes(r, v) /\ \A s \in Readers : ~Alone!Active(s)
        /\ UNCHANGED <<folder, present, synced, rows, edited, signature>>
    BY <1>1, <1>5 DEF Alone!sync_newsletters, Alone!Arrives, Alone!env
  <2>2. /\ v \in SyncRequests(Issues, MaxMoves + 1) /\ v.pc = "scan" /\ v.kind = "sync"
        /\ v.result = "none"
    BY <1>2 DEF SyncRequests, Alone!Idle, Alone!None
  <2>3. synced = signature
    BY <2>1 DEF AloneInv, NewsNoted, Alone!Active
  <2> HIDE DEF v
  <2> QED BY <1>3, <2>1, <2>2, <2>3 DEF NewsAsk
<1>6. CASE Alone!get_detail_by_id(r)
  <2> DEFINE v == [Alone!Idle EXCEPT !.kind = "edit", !.pc = "serve", !.copy = rows]
  <2>1. /\ Alone!Goes(r, v) /\ \A s \in Readers : ~Alone!Active(s)
        /\ UNCHANGED <<folder, present, synced, rows, edited, signature>>
    BY <1>1, <1>6 DEF Alone!get_detail_by_id, Alone!Arrives, Alone!env
  <2>2. /\ v \in SyncRequests(Issues, MaxMoves + 1) /\ v.pc = "serve" /\ v.kind = "edit"
        /\ v.did = FALSE /\ v.copy = rows /\ v.result = "none"
    BY <1>1, <1>2 DEF SyncRequests, Alone!Idle, Alone!None
  <2>3. synced = signature
    BY <2>1 DEF AloneInv, NewsNoted, Alone!Active
  <2> HIDE DEF v
  <2> QED BY <1>3, <2>1, <2>2, <2>3 DEF NewsAsk
<1>7. ASSUME Alone!Active(r)
      PROVE  /\ \A s \in Readers : Alone!Active(s) => s = r
             /\ ~(req[r].pc = "serve" /\ req[r].did) => synced = signature
             /\ req[r].result = "none"
  BY <1>1, <1>7, AloneGives DEF NewsAsk, Alone!Active
<1>8. CASE Alone!refresh_if_changed(r)
  <2>1. PICK p \in {"serve", "scan"} :
           /\ Alone!Goes(r, [req[r] EXCEPT !.pc = p, !.sig = folder])
           /\ p = "serve" => folder = signature
           /\ p = "scan" => folder # signature
    BY <1>1, <1>8 DEF Alone!refresh_if_changed
  <2> DEFINE v == [req[r] EXCEPT !.pc = p, !.sig = folder]
  <2>2. /\ req[r].pc = "wait" /\ UNCHANGED <<folder, present, synced, rows, edited, signature>>
    BY <1>8 DEF Alone!refresh_if_changed, Alone!env
  <2>3. Alone!Active(r)
    BY <2>2 DEF Alone!Active
  <2>4. req[r].kind = "read" /\ ~req[r].did
    BY <1>1, <2>2 DEF NewsAsk
  <2>5. /\ v \in SyncRequests(Issues, MaxMoves + 1) /\ v.pc = p /\ v.kind = req[r].kind
        /\ v.sig = folder /\ v.did = req[r].did /\ v.result = req[r].result
    BY <1>1 DEF SyncRequests
  <2>6. Alone!Goes(r, v)
    BY <2>1
  <2>7. /\ synced = signature /\ req[r].result = "none"
        /\ \A s \in Readers : Alone!Active(s) => s = r
    BY <1>7, <2>2, <2>3
  <2> HIDE DEF v
  <2>8. NewsAsk(v, folder, signature', synced, rows)
    BY <2>1, <2>2, <2>4, <2>5, <2>7 DEF NewsAsk
  <2> QED BY <1>3, <2>2, <2>5, <2>6, <2>7, <2>8
<1>9. CASE Alone!scan(r)
  <2> DEFINE v == [req[r] EXCEPT !.pc = "load", !.found = Alone!Files, !.did = TRUE,
                                 !.blind = ~present]
  <2>1. /\ req[r].pc = "scan" /\ UNCHANGED <<folder, present, synced, rows, edited, signature>>
        /\ Alone!Goes(r, v)
    BY <1>9 DEF Alone!scan, Alone!env
  <2>2. Alone!Active(r)
    BY <2>1 DEF Alone!Active
  <2>3. /\ v \in SyncRequests(Issues, MaxMoves + 1) /\ v.pc = "load" /\ v.kind = req[r].kind
        /\ v.sig = req[r].sig /\ v.did = TRUE /\ v.found = folder /\ v.result = req[r].result
    BY <1>1 DEF SyncRequests
  <2>4. /\ synced = signature /\ req[r].result = "none"
        /\ \A s \in Readers : Alone!Active(s) => s = r
    BY <1>7, <2>1, <2>2
  <2> HIDE DEF v
  <2>5. NewsAsk(v, folder, signature', synced, rows)
    BY <1>1, <2>1, <2>3, <2>4 DEF NewsAsk
  <2> QED BY <1>3, <2>1, <2>3, <2>4, <2>5
<1>10. CASE Alone!Load(r)
  <2> DEFINE v == [req[r] EXCEPT !.pc = "insert", !.copy = rows]
  <2>1. /\ req[r].pc = "load" /\ UNCHANGED <<folder, present, synced, rows, edited, signature>>
        /\ Alone!Goes(r, v)
    BY <1>10 DEF Alone!Load, Alone!env
  <2>2. Alone!Active(r)
    BY <2>1 DEF Alone!Active
  <2>3. /\ v \in SyncRequests(Issues, MaxMoves + 1) /\ v.pc = "insert" /\ v.kind = req[r].kind
        /\ v.sig = req[r].sig /\ v.did = req[r].did /\ v.found = req[r].found
        /\ v.copy = rows /\ v.result = req[r].result
    BY <1>1 DEF SyncRequests
  <2>4. /\ synced = signature /\ req[r].result = "none"
        /\ \A s \in Readers : Alone!Active(s) => s = r
    BY <1>7, <2>1, <2>2
  <2> HIDE DEF v
  <2>5. NewsAsk(v, folder, signature', synced, rows)
    BY <1>1, <2>1, <2>3, <2>4 DEF NewsAsk
  <2> QED BY <1>3, <2>1, <2>3, <2>4, <2>5
<1>11. CASE Alone!_upsert_issue(r)
  <2> DEFINE v == [req[r] EXCEPT !.pc = "update"]
  <2>1. /\ req[r].pc = "insert" /\ UNCHANGED <<folder, present, synced, rows, edited, signature>>
        /\ Alone!Goes(r, v)
    BY <1>11, AloneNoFail DEF Alone!env
  <2>2. Alone!Active(r)
    BY <2>1 DEF Alone!Active
  <2>3. /\ v \in SyncRequests(Issues, MaxMoves + 1) /\ v.pc = "update" /\ v.kind = req[r].kind
        /\ v.sig = req[r].sig /\ v.did = req[r].did /\ v.found = req[r].found
        /\ v.copy = req[r].copy /\ v.result = req[r].result
    BY <1>1 DEF SyncRequests
  <2>4. /\ synced = signature /\ req[r].result = "none"
        /\ \A s \in Readers : Alone!Active(s) => s = r
    BY <1>7, <2>1, <2>2
  <2> HIDE DEF v
  <2>5. NewsAsk(v, folder, signature', synced, rows)
    BY <1>1, <2>1, <2>3, <2>4 DEF NewsAsk
  <2> QED BY <1>3, <2>1, <2>3, <2>4, <2>5
<1>12. CASE Alone!FlushRead(r) \/ Alone!NoteBaseline(r)
  <2> DEFINE v == [req[r] EXCEPT !.pc = "serve"]
  <2>1. /\ req[r].pc = "update" /\ UNCHANGED <<folder, present, synced, rows, edited>>
        /\ Alone!Goes(r, v)
        /\ \/ req[r].kind = "read" /\ signature' = req[r].sig
           \/ req[r].kind = "sync" /\ signature' = folder
    BY <1>1, <1>12 DEF Alone!FlushRead, Alone!NoteBaseline, Alone!env
  <2>2. Alone!Active(r)
    BY <2>1 DEF Alone!Active
  <2>3. /\ v \in SyncRequests(Issues, MaxMoves + 1) /\ v.pc = "serve" /\ v.kind = req[r].kind
        /\ v.sig = req[r].sig /\ v.did = req[r].did /\ v.found = req[r].found
        /\ v.copy = req[r].copy /\ v.result = req[r].result
    BY <1>1 DEF SyncRequests
  <2>4. /\ synced = signature /\ req[r].result = "none"
        /\ \A s \in Readers : Alone!Active(s) => s = r
    BY <1>7, <2>1, <2>2
  <2> HIDE DEF v
  <2>5. NewsAsk(v, folder, signature', synced, rows)
    BY <1>1, <2>1, <2>3, <2>4 DEF NewsAsk
  <2>6. v.pc = "serve" /\ v.did
    BY <1>1, <2>1, <2>3 DEF NewsAsk
  <2> QED BY <1>3, <2>1, <2>3, <2>4, <2>5, <2>6
<1> QED BY <1>4, <1>5, <1>6, <1>8, <1>9, <1>10, <1>11, <1>12

\* ... the commit of a read or a synchronisation ...
LEMMA AloneCommit ==
    ASSUME Alone!SyncAssumption, AloneInv, NEW r \in Readers, Alone!Commit(r)
    PROVE  /\ present' /\ NewsOne' /\ NewsAsked' /\ NewsNoted' /\ NewsEdits' /\ NewsRows'
           /\ req[r].kind = "read" /\ req[r].did => \A k \in Issues : edited[k] # Alone!Files
           /\ ~req[r].did => rows' = rows
<1> DEFINE q == req[r]
           v == [q EXCEPT !.pc = "end", !.result = "ok", !.served = Alone!Applied(r)]
<1>1. /\ SyncShape(Issues, Readers, MaxMoves + 1, 0) /\ MaxMoves + 1 \in Nat
      /\ req \in [Readers -> SyncRequests(Issues, MaxMoves + 1)]
      /\ q \in SyncRequests(Issues, MaxMoves + 1) /\ Alone!Files = folder
      /\ NewsAsk(q, folder, signature, synced, rows) /\ present
      /\ folder \in [Issues -> 0..(MaxMoves + 1)]
  BY AloneGives, AloneNames DEF AloneInv, SyncShape, SyncTyped
<1>2. /\ q.pc = "serve" /\ q.kind \in {"read", "sync"} /\ rows' = Alone!Applied(r)
      /\ synced' = IF q.did THEN q.found ELSE synced
      /\ edited' = IF q.did THEN [k \in Issues |-> Alone!Still(r, k)] ELSE edited
      /\ Alone!Goes(r, v) /\ UNCHANGED <<folder, present, signature>>
  BY DEF Alone!Commit, Alone!env
<1>3. /\ \A s \in Readers : Alone!Active(s) => s = r
      /\ ~q.did => synced = signature
  BY <1>2, AloneGives DEF Alone!Active
<1>4. Alone!Applied(r) \in IssueRows(Issues, MaxMoves + 1)
  BY <1>1, AloneApplied
<1>5. /\ v \in SyncRequests(Issues, MaxMoves + 1) /\ v.pc = "end" /\ v.kind = q.kind
      /\ v.sig = q.sig /\ v.served = rows'
  BY <1>1, <1>2, <1>4 DEF SyncRequests
<1>6. CASE q.did
  <2>1. /\ q.found = folder /\ q.copy = rows /\ signature = folder
        /\ q.kind = "read" => q.sig = folder /\ synced # folder
    BY <1>1, <1>2, <1>6 DEF NewsAsk
  <2>2. \A k \in Issues : folder[k] # 0 => rows'[k].ver = folder[k]
    BY <1>1, <1>2, <1>6, <2>1, AloneImported
  <2>3. synced' = folder
    BY <1>2, <1>6, <2>1
  <2>4. NewsRows'
    BY <1>1, <2>2, <2>3 DEF NewsRows
  <2>5. ASSUME NEW k \in Issues
        PROVE  edited'[k] \in {Alone!NoSig, synced'}
    BY <1>2, <1>6, <2>1, <2>3 DEF Alone!Still
  <2>6. NewsEdits'
    BY <2>5 DEF NewsEdits
  <2>7. NewsShown(v)
    BY <1>1, <1>5, <2>1, <2>2 DEF NewsShown
  <2>8. NewsAsk(v, folder', signature', synced', rows')
    BY <1>5 DEF NewsAsk
  <2>9. NewsNoted'
    BY <1>2, <2>1, <2>3 DEF NewsNoted
  <2>10. ASSUME q.kind = "read", NEW k \in Issues
         PROVE  edited[k] # folder
    <3>1. edited[k] \in {Alone!NoSig, synced} /\ synced # folder
      BY <2>1, <2>10 DEF AloneInv, NewsEdits
    <3>2. Alone!NoSig[k] = (MaxMoves + 1) + 1 /\ folder[k] \in 0..(MaxMoves + 1)
      BY <1>1 DEF Alone!NoSig
    <3>3. Alone!NoSig # folder
      BY <1>1, <3>2
    <3> QED BY <3>1, <3>3
  <2> HIDE DEF v
  <2>11. NewsOne' /\ NewsAsked'
    BY <1>2, <1>3, <1>5, <2>7, <2>8, AloneWent
  <2> QED BY <1>1, <1>2, <1>6, <2>4, <2>6, <2>9, <2>10, <2>11
<1>7. CASE ~q.did
  <2>1. /\ rows' = rows /\ synced' = synced /\ edited' = edited /\ synced = signature
    BY <1>1, <1>2, <1>3, <1>7, AloneUntouched
  <2>2. q.kind = "read" => q.sig = folder /\ signature = folder
    BY <1>1, <1>2, <1>7 DEF NewsAsk
  <2>3. NewsRows' /\ NewsEdits' /\ NewsNoted'
    BY <1>2, <2>1 DEF AloneInv, NewsRows, NewsEdits, NewsNoted
  <2>4. NewsShown(v)
    BY <1>5, <2>1, <2>2 DEF AloneInv, NewsRows, NewsShown
  <2>5. NewsAsk(v, folder', signature', synced', rows')
    BY <1>5 DEF NewsAsk
  <2> HIDE DEF v
  <2>6. NewsOne' /\ NewsAsked'
    BY <1>2, <1>3, <1>5, <2>4, <2>5, AloneWent
  <2> QED BY <1>1, <1>2, <1>7, <2>1, <2>3, <2>6
<1> QED BY <1>6, <1>7

\* ... and that of an edit.
LEMMA AloneUpdate ==
    ASSUME Alone!SyncAssumption, AloneInv, NEW r \in Readers, Alone!update_newsletter(r)
    PROVE  present' /\ NewsOne' /\ NewsAsked' /\ NewsNoted' /\ NewsEdits' /\ NewsRows'
<1> DEFINE v == [req[r] EXCEPT !.pc = "end", !.result = "ok"]
<1>1. /\ req[r] \in SyncRequests(Issues, MaxMoves + 1) /\ Alone!Files = folder
      /\ NewsAsk(req[r], folder, signature, synced, rows) /\ present
      /\ rows \in IssueRows(Issues, MaxMoves + 1) /\ MaxMoves + 1 \in Nat
      /\ edited \in [Issues -> Signatures(Issues, MaxMoves + 1)]
  BY AloneGives, AloneNames DEF AloneInv, SyncShape, SyncTyped
<1>2. /\ req[r].pc = "serve" /\ req[r].kind = "edit" /\ Alone!Goes(r, v)
      /\ UNCHANGED <<folder, present, signature, synced>>
  BY DEF Alone!update_newsletter, Alone!env
<1>3. /\ req[r].copy = rows /\ ~req[r].did /\ synced = signature
      /\ \A s \in Readers : Alone!Active(s) => s = r
  BY <1>1, <1>2, AloneGives DEF NewsAsk, Alone!Active
<1>4. PICK k \in Issues :
         /\ rows[k] # NoIssue
         /\ \E new \in {[rows[k] EXCEPT !.title = "admin"], Alone!soft_delete(rows[k])} :
               /\ rows' = [rows EXCEPT ![k] = Alone!Merge(@, rows[k], new)]
               /\ edited' = [edited EXCEPT ![k] = IF synced = Alone!Files THEN Alone!Files
                                                 ELSE Alone!NoSig]
  BY <1>3, AloneNames DEF Alone!update_newsletter
<1>5. PICK new \in {[rows[k] EXCEPT !.title = "admin"], Alone!soft_delete(rows[k])} :
               /\ rows' = [rows EXCEPT ![k] = Alone!Merge(@, rows[k], new)]
               /\ edited' = [edited EXCEPT ![k] = IF synced = Alone!Files THEN Alone!Files
                                                 ELSE Alone!NoSig]
  BY <1>4
<1>6. rows[k] \in SomeIssue(MaxMoves + 1)
  BY <1>1, <1>4 DEF IssueRows
<1>7. /\ [rows[k] EXCEPT !.title = "admin"] \in SomeIssue(MaxMoves + 1)
      /\ [rows[k] EXCEPT !.title = "admin"].ver = rows[k].ver
      /\ Alone!soft_delete(rows[k]) \in SomeIssue(MaxMoves + 1)
      /\ Alone!soft_delete(rows[k]).ver = rows[k].ver
  BY <1>6 DEF Alone!soft_delete, SomeIssue
<1>8. new \in SomeIssue(MaxMoves + 1) /\ new.ver = rows[k].ver
  BY <1>7
<1>9. Alone!Merge(rows[k], rows[k], new) = new
  BY <1>1, <1>6, <1>8, AloneMerged
<1>10. \A i \in Issues : rows'[i].ver = rows[i].ver
  BY <1>1, <1>5, <1>8, <1>9 DEF IssueRows
<1>11. NewsRows'
  BY <1>2, <1>10 DEF AloneInv, NewsRows
<1>12. NewsEdits'
  BY <1>1, <1>2, <1>5 DEF AloneInv, NewsEdits
<1>13. NewsNoted'
  BY <1>2, <1>3 DEF NewsNoted
<1>14. v \in SyncRequests(Issues, MaxMoves + 1) /\ v.pc = "end" /\ v.kind = req[r].kind
  BY <1>1 DEF SyncRequests
<1> HIDE DEF v
<1>15. NewsAsk(v, folder', signature', synced', rows') /\ NewsShown(v)
  BY <1>2, <1>14 DEF NewsAsk, NewsShown
<1>16. NewsOne' /\ NewsAsked'
  BY <1>2, <1>3, <1>14, <1>15, AloneWent
<1> QED BY <1>1, <1>2, <1>11, <1>12, <1>13, <1>16

\* The folder changes while nobody looks at it.
LEMMA AloneMoves ==
    ASSUME Alone!SyncAssumption, AloneInv, Alone!ChangeFolder
    PROVE  present' /\ NewsOne' /\ NewsAsked' /\ NewsNoted' /\ NewsEdits' /\ NewsRows'
<1>1. /\ \A r \in Readers : ~Alone!Active(r)
      /\ UNCHANGED <<present, rows, signature, req, synced, edited>>
  BY DEF Alone!ChangeFolder
<1>2. present' /\ NewsOne' /\ NewsNoted' /\ NewsEdits' /\ NewsRows'
  BY <1>1 DEF AloneInv, NewsOne, NewsNoted, NewsEdits, NewsRows, Alone!Active
<1>3. ASSUME NEW r \in Readers
      PROVE  NewsAsk(req[r], folder', signature, synced, rows) /\ NewsShown(req[r])
  BY <1>1 DEF AloneInv, NewsAsked, NewsAsk, Alone!Active
<1>4. NewsAsked'
  BY <1>1, <1>3 DEF NewsAsked
<1> QED BY <1>2, <1>4

\* Every step keeps the invariant ...
LEMMA AloneStep ==
    ASSUME Alone!SyncAssumption, AloneInv, [Alone!Next]_(Alone!vars)
    PROVE  AloneInv'
<1>1. SyncShape(Issues, Readers, MaxMoves + 1, 0)' /\ SyncHeld(Readers)'
  BY AloneTyped, AloneHeld DEF AloneInv
<1>2. CASE UNCHANGED Alone!vars
  <2>1. /\ present' = present /\ folder' = folder /\ signature' = signature /\ synced' = synced
        /\ rows' = rows /\ req' = req /\ edited' = edited
    BY <1>2 DEF Alone!vars, Alone!env
  <2> QED BY <1>1, <2>1 DEF AloneInv, NewsOne, NewsAsked, NewsNoted, NewsEdits, NewsRows,
      Alone!Active
<1>3. CASE Alone!ChangeFolder
  BY <1>1, <1>3, AloneMoves DEF AloneInv
<1>4. ~Alone!Restart
  <2>1. Alone!Restart => restarts < 0
    BY DEF Alone!Restart
  <2> QED BY <2>1 DEF AloneInv, SyncShape, SyncTyped
<1>5. ASSUME NEW r \in Readers, Alone!Commit(r) \/ Alone!update_newsletter(r)
      PROVE  AloneInv'
  BY <1>1, <1>5, AloneCommit, AloneUpdate DEF AloneInv
<1>6. ASSUME NEW r \in Readers,
           \/ Alone!auto_sync_newsletters(r) \/ Alone!sync_newsletters(r)
           \/ Alone!get_detail_by_id(r) \/ Alone!refresh_if_changed(r) \/ Alone!scan(r)
           \/ Alone!Load(r) \/ Alone!_upsert_issue(r) \/ Alone!FlushRead(r)
           \/ Alone!NoteBaseline(r)
      PROVE  AloneInv'
  BY <1>1, <1>6, AloneWorks DEF AloneInv
<1> QED BY <1>2, <1>3, <1>4, <1>5, <1>6, AloneNoFail DEF Alone!Next, Alone!Works

\*\* ... and leaves alone what an administrator has edited.
LEMMA AloneEdits ==
    ASSUME Alone!SyncAssumption, AloneInv, [Alone!Next]_(Alone!vars)
    PROVE  Alone!EditSurvives
<1>1. SUFFICES ASSUME Alone!Next, NEW r \in Readers, NEW k \in Issues,
                      req[r].kind = "read", req'[r] # req[r], edited[k] = Alone!Files
               PROVE  rows'[k].title = rows[k].title /\ rows'[k].active = rows[k].active
  BY DEF Alone!EditSurvives, Alone!vars
<1>2. SUFFICES ASSUME rows' # rows
               PROVE  FALSE
  OBVIOUS
<1>3. ~Alone!Restart
  BY <1>2 DEF Alone!Restart
<1>4. ~Alone!ChangeFolder
  BY <1>2 DEF Alone!ChangeFolder
<1>5. PICK s \in Readers : Alone!Commit(s) \/ Alone!update_newsletter(s)
  <2>1. PICK s \in Readers :
          \/ Alone!auto_sync_newsletters(s) \/ Alone!sync_newsletters(s)
          \/ Alone!get_detail_by_id(s) \/ Alone!Works(s) \/ Alone!RaiseNotFound(s)
    BY <1>1, <1>3, <1>4 DEF Alone!Next
  <2> QED BY <1>2, <2>1, AloneNoFail
          DEF Alone!Works, Alone!auto_sync_newsletters, Alone!sync_newsletters,
              Alone!get_detail_by_id, Alone!refresh_if_changed, Alone!scan, Alone!Load,
              Alone!FlushRead, Alone!NoteBaseline
<1>6. s = r
  <2>1. PICK v : req' = [req EXCEPT ![s] = v]
    BY <1>5 DEF Alone!Commit, Alone!update_newsletter, Alone!Goes
  <2>2. req \in [Readers -> SyncRequests(Issues, MaxMoves + 1)]
    BY DEF AloneInv, SyncShape, SyncTyped
  <2> QED BY <1>1, <2>1, <2>2
<1>7. Alone!Commit(r)
  BY <1>1, <1>5, <1>6 DEF Alone!update_newsletter
<1> QED BY <1>1, <1>2, <1>7, AloneCommit

\* What the invariant gives.
LEMMA AloneFresh ==
    ASSUME Alone!SyncAssumption, AloneInv
    PROVE  Alone!ReadsFresh
<1>1. SUFFICES ASSUME NEW r \in Readers, NEW k \in Issues, req[r].kind = "read",
                      req[r].result = "ok", folder[k] # 0, req[r].sig[k] = folder[k]
               PROVE  req[r].served[k].ver = folder[k]
  BY DEF Alone!ReadsFresh
<1>2. folder[k] \in 1..(MaxMoves + 1)
  BY <1>1, AloneNames DEF AloneInv, SyncShape, SyncTyped
<1> QED BY <1>1, <1>2 DEF AloneInv, NewsAsked, NewsShown

\* The invariant holds in the beginning.
LEMMA AloneBegins ==
    ASSUME Alone!SyncAssumption, Alone!Init
    PROVE  AloneInv
<1>1. /\ SyncShape(Issues, Readers, MaxMoves + 1, 0) /\ SyncHeld(Readers) /\ present
      /\ req = [r \in Readers |-> Alone!Idle]
  BY AloneInit
<1>2. /\ Alone!Idle.pc = "idle" /\ Alone!Idle.kind = "none" /\ Alone!Idle.result = "none"
  BY DEF Alone!Idle, Alone!None
<1>3. NewsOne /\ NewsAsked
  BY <1>1, <1>2 DEF NewsOne, NewsAsked, NewsAsk, NewsShown, Alone!Active
<1>4. synced = Alone!NoSig /\ signature = Alone!NoSig /\ edited = [k \in Issues |-> Alone!NoSig]
  BY DEF Alone!Init
<1>5. \A k \in Issues : Alone!NoSig[k] \notin 1..(MaxMoves + 1)
  BY AloneNames DEF Alone!NoSig
<1> QED BY <1>1, <1>3, <1>4, <1>5 DEF AloneInv, NewsNoted, NewsEdits, NewsRows

-----------------------------------------------------------------------------
(* The portal.                                                             *)

\* What holds of the part that a behaviour is about.
PortalInv ==
    /\ part = "accounts" => Accounts!AccessInv
    /\ part = "passwords" => Secrets!AccessInv
    /\ part = "groups" => Members!AccessInv
    /\ part = "one" => OneInv
    /\ part = "two" => TwoInv
    /\ part = "alone" => AloneInv
    /\ part = "missing" => MissingInv
    /\ part = "together" => TogetherInv
    /\ part = "rotation" => RotInv

\* The three parts about accounts have one request at a time.
LEMMA Serial == Accounts!OneAtATime /\ Secrets!OneAtATime /\ Members!OneAtATime
BY DEF Accounts!OneAtATime, Secrets!OneAtATime, Members!OneAtATime

\* A step of the portal is a step of the part that the behaviour is about.
LEMMA PartStep ==
    ASSUME [Next]_vars
    PROVE  /\ part' = part
           /\ part = "accounts" => [Accounts!Next]_(Accounts!vars)
           /\ part = "passwords" => [Secrets!Next]_(Secrets!vars)
           /\ part = "groups" => [Members!Next]_(Members!vars)
           /\ part = "one" => [One!Next]_(One!vars)
           /\ part = "two" => [Two!Next]_(Two!vars)
           /\ part = "alone" => [Alone!Next]_(Alone!vars)
           /\ part = "missing" => [Missing!Next]_(Missing!vars)
           /\ part = "together" => [Together!Next]_(Together!vars)
           /\ part = "rotation" => [Rotation!Next]_(Rotation!vars)
<1>1. CASE UNCHANGED vars
  BY <1>1 DEF vars, Accounts!vars, Secrets!vars, Members!vars, One!vars, Two!vars,
                  Alone!vars, Alone!env, Missing!vars, Missing!env, Together!vars,
                  Together!env, Rotation!vars
<1>2. CASE Next
  <2>1. part' = part
    BY <1>2 DEF Next, NotAccessControl, NotModuleGate, NotNewsletterSync,
                    NotCredentialRotation
  <2> QED BY <1>2, <2>1 DEF Next
<1> QED BY <1>1, <1>2

\* Every step keeps it: the steps of accounts by the lemmas about AccessControl.
LEMMA PortalStep ==
    ASSUME PortalInv, [Next]_vars
    PROVE  PortalInv'
<1>1. CASE part = "accounts"
  BY <1>1, PartStep, PortalAssumption, Serial, Accounts!AccessStep DEF PortalInv
<1>2. CASE part = "passwords"
  BY <1>2, PartStep, PortalAssumption, Serial, Secrets!AccessStep DEF PortalInv
<1>3. CASE part = "groups"
  BY <1>3, PartStep, PortalAssumption, Serial, Members!AccessStep DEF PortalInv
<1>4. CASE part = "one"
  BY <1>4, PartStep, OneStep DEF PortalInv
<1>5. CASE part = "two"
  BY <1>5, PartStep, TwoStep DEF PortalInv
<1>6. CASE part = "rotation"
  BY <1>6, PartStep, PortalAssumption, RotStep DEF PortalInv
<1>7. CASE part = "alone"
  BY <1>7, PartStep, PortalAssumption, AloneStep DEF PortalInv
<1>8. CASE part = "missing"
  BY <1>8, PartStep, PortalAssumption, MissingTyped, MissingSighted DEF PortalInv, MissingInv
<1>9. CASE part = "together"
  BY <1>9, PartStep, PortalAssumption, TogetherTyped, TogetherHeld DEF PortalInv, TogetherInv
<1> QED BY <1>1, <1>2, <1>3, <1>4, <1>5, <1>6, <1>7, <1>8, <1>9, PartStep DEF PortalInv

\* It holds in the initial state of every part.
LEMMA PortalInit == Init => PortalInv
<1> SUFFICES ASSUME Init PROVE PortalInv
  OBVIOUS
<1>1. CASE part = "accounts"
  <2>1. Accounts!Init
    BY <1>1 DEF Init
  <2> QED BY <1>1, <2>1, PortalAssumption, Accounts!AccessInit DEF PortalInv
<1>2. CASE part = "passwords"
  <2>1. Secrets!Init
    BY <1>2 DEF Init
  <2> QED BY <1>2, <2>1, PortalAssumption, Secrets!AccessInit DEF PortalInv
<1>3. CASE part = "groups"
  <2>1. Members!Init
    BY <1>3 DEF Init
  <2> QED BY <1>3, <2>1, PortalAssumption, Members!AccessInit DEF PortalInv
<1>4. CASE part = "one"
  <2>1. One!Init
    BY <1>4 DEF Init
  <2>2. OneInv
    BY <2>1 DEF One!Init, OneInv, One!TypeOK, OneChanges, One!GateValid, StillValid
  <2> QED BY <1>4, <2>2 DEF PortalInv
<1>5. CASE part = "two"
  <2>1. Two!Init
    BY <1>5 DEF Init
  <2>2. TwoInv
    BY <2>1 DEF Two!Init, TwoInv, Two!TypeOK, TwoChanges
  <2> QED BY <1>5, <2>2 DEF PortalInv
<1>6. CASE part = "rotation"
  <2>1. Rotation!Init
    BY <1>6 DEF Init
  <2> QED BY <1>6, <2>1, PortalAssumption, RotInit DEF PortalInv
<1>7. CASE part = "alone"
  <2>1. Alone!Init
    BY <1>7 DEF Init
  <2> QED BY <1>7, <2>1, PortalAssumption, AloneBegins DEF PortalInv
<1>8. CASE part = "missing"
  <2>1. Missing!Init
    BY <1>8 DEF Init
  <2> QED BY <1>8, <2>1, PortalAssumption, MissingInit DEF PortalInv, MissingInv
<1>9. CASE part = "together"
  <2>1. Together!Init
    BY <1>9 DEF Init
  <2> QED BY <1>9, <2>1, PortalAssumption, TogetherInit DEF PortalInv, TogetherInv
<1> QED BY <1>1, <1>2, <1>3, <1>4, <1>5, <1>6, <1>7, <1>8, <1>9 DEF Init

\* The invariant of the portal.
LEMMA PortalInvariant == Spec => []PortalInv
BY PortalInit, PortalStep, PTL DEF Spec

\* For every set of accounts, groups and passwords, with one request at a time: a
\* token that is accepted was issued under the password, role, groups and grants
\* the account has now (bump_session_version).
THEOREM PortalTokensFresh == Spec => []TokensFresh
<1>1. PortalInv => TokensFresh
  BY Accounts!FreshTokens, Secrets!FreshTokens, Members!FreshTokens
     DEF PortalInv, TokensFresh, Secrets!AccessInv, Members!AccessInv
<1> QED BY <1>1, PortalInvariant, PTL

\* For every set of service modules: with one change at a time every stored row
\* has one of the gates the policy allows, and whatever any number of overlapping
\* changes leave, the gate admits nobody whom one of its columns excludes
\* (validate_module_policy, user_can_access_module).
THEOREM PortalGatesClosed == Spec => []GatesClosed
<1>1. PortalInv => GatesClosed
  BY FailsClosed DEF PortalInv, GatesClosed, OneInv, TwoInv
<1> QED BY <1>1, PortalInvariant, PTL

\* For every set of accounts and passwords, with one request at a time: an active
\* administrator remains, no account with the retired password is active, and only
\* its owner's change of a password that was reset lifts the duty to change it.
THEOREM PortalAccountsSafe == Spec => AccountsSafe
<1>1. PortalInv => (part = "accounts" =>
          Accounts!TypeOK /\ Accounts!AdminRemains /\ Accounts!NoRetiredActive)
  BY DEF PortalInv, Accounts!AccessInv
<1>2. PortalInv /\ [Next]_vars => (part = "accounts" => Accounts!ResetSticks)
  BY PartStep, PortalAssumption, Serial, Accounts!ResetKept DEF PortalInv
<1>3. PortalInv /\ [Next]_vars => (part = "passwords" => Secrets!ResetSticks)
  BY PartStep, PortalAssumption, Serial, Secrets!ResetKept DEF PortalInv
<1> QED BY <1>1, <1>2, <1>3, PortalInvariant, PTL DEF Spec, AccountsSafe

\* For any issues, requests and changes of the folder. With one request at a time a
\* read shows every issue that was there when it looked and still is, in that version,
\* and leaves alone what was edited over the folder as it is; a folder found missing
\* archives nothing; and with requests that overlap, fail and are cut off by restarts
\* none that has ended holds a lock (refresh_if_changed, _upsert_issue,
\* auto_sync_newsletters, get_db_session).
THEOREM PortalIssuesKept == Spec => IssuesKept
<1>1. PortalInv => (part = "alone" => Alone!TypeOK /\ Alone!ReadsFresh)
  BY PortalAssumption, AloneFresh, AloneGivesType DEF PortalInv, AloneInv
<1>2. PortalInv /\ [Next]_vars => [part = "alone" => Alone!EditSurvives]_vars
  BY PartStep, PortalAssumption, AloneEdits DEF PortalInv
<1>3. PortalInv => (part = "missing" => Missing!TypeOK)
  BY PortalAssumption, MissingGivesType DEF PortalInv, MissingInv
<1>4. PortalInv => (part = "missing" => Missing!MissingHarmless)
  BY DEF PortalInv, MissingInv, SyncSighted, Missing!MissingHarmless
<1>5. PortalInv => (part = "together" => Together!TypeOK)
  BY PortalAssumption, TogetherGivesType DEF PortalInv, TogetherInv
<1>6. PortalInv => (part = "together" => Together!NothingHeld)
  BY DEF PortalInv, TogetherInv, SyncHeld, Together!NothingHeld, Together!Active
<1> QED BY <1>1, <1>2, <1>3, <1>4, <1>5, <1>6, PortalInvariant, PTL DEF Spec, IssuesKept

\* For any set of rotations, however often the driver crashes and the service runs
\* in between: the passwords the database holds and the environment files can be
\* recovered; the rotation commits over exactly what the recovery artifact holds,
\* also when the child outlives its driver; and the journal says complete only when
\* files, bundle and database belong to this rotation (_run_transaction,
\* Copy-EnvironmentToQuarantine, verify_rotation_state).
THEOREM PortalRotationSound == Spec => RotationSound
<1>1. PortalInv => (part = "rotation" => /\ Rotation!TypeOK
                                         /\ Rotation!CredentialsRecoverable
                                         /\ Rotation!EnvRecoverable)
  BY PortalAssumption, RotGives DEF PortalInv
<1>2. PortalInv /\ [Next]_vars =>
          [part = "rotation" => Rotation!RotatedTogether /\ Rotation!RecoveryFaithful]_vars
  BY PartStep, PortalAssumption, RotTogether, RotFaithful DEF PortalInv
<1> QED BY <1>1, <1>2, PortalInvariant, PTL DEF Spec, RotationSound
==============================================================================
