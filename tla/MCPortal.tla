------------------------------ MODULE MCPortal -------------------------------
(****************************************************************************)
(* Accounts, sessions, groups, module gates, newsletters and the credential *)
(* rotation on small instances. One behaviour is about one part only, which *)
(* is chosen in the initial state: the parts share no data, and each run of *)
(* TLC covers all of them. A name that two parts use is each part's own     *)
(* variable.                                                                *)
(****************************************************************************)
EXTENDS Naturals, TLC

CONSTANTS Users, Admin0, Groups,      \* accounts and groups
          Passwords, Password,        \* many passwords, and few
          MaxVer, MaxPasswordVer,     \* bounds on session versions
          Services, Contested,        \* service modules for one editor, and for many
          Editors, r1,                \* changes of modules, and the one of the other parts
          Readers, Issues, FewIssues, \* requests for newsletters; issues, many and few
          MaxMoves,                   \* bound on changes of the folder of newsletters
          Rotations, MaxChanges, MaxAccounts, MaxCrashes   \* bounds of the rotation

VARIABLES part,    \* the part that a behaviour is about
          user, group, grants, tokens, up, req, lock, row, folder, present, clock,
          rows, signature, writer, synced, edited, restarts,
          db, env, sec, history, gate, pc, txn, next, crashes

vars == <<part, user, group, grants, tokens, up, req, lock, row, folder, present,
                clock, rows, signature, writer, synced, edited, restarts,
                db, env, sec, history, gate, pc, txn, next, crashes>>

AccountKinds == {"login", "change_password", "reset_user_password", "update_user"}
PasswordKinds == AccountKinds \ {"update_user"}
GroupKinds == {"login", "upsert_group", "add_user_group", "remove_user_group",
               "create_resource_grant", "delete_resource_grant"}

Accounts == INSTANCE AccessControl_proofs WITH
    Groups <- {}, Reqs <- {r1}, Passwords <- Password, Kinds <- AccountKinds

Secrets == INSTANCE AccessControl_proofs WITH
    Groups <- {}, Reqs <- {r1}, MaxVer <- MaxPasswordVer, Kinds <- PasswordKinds

Members == INSTANCE AccessControl_proofs WITH
    Reqs <- {r1}, Passwords <- Password, Kinds <- GroupKinds

One == INSTANCE ModuleGate WITH
    Modules <- Services, Reqs <- {r1}

Two == INSTANCE ModuleGate WITH
    Modules <- Contested, Reqs <- Editors

Alone == INSTANCE NewsletterSync WITH
    Keys <- Issues, Requests <- Readers, Kinds <- {"read", "sync", "edit"},
    MaxClock <- MaxMoves + 1, MaxRestarts <- 0, FolderMoves <- FALSE, Quiet <- TRUE,
    Serial <- TRUE, NotFound <- FALSE

Missing == INSTANCE NewsletterSync WITH
    Keys <- FewIssues, Requests <- Readers, Kinds <- {"read", "edit"},
    MaxClock <- MaxMoves + 1, MaxRestarts <- 1, FolderMoves <- TRUE, Quiet <- TRUE, Serial <- TRUE,
    NotFound <- TRUE

Together == INSTANCE NewsletterSync WITH
    Keys <- FewIssues, Requests <- Readers, Kinds <- {"read", "sync", "edit"},
    MaxClock <- MaxMoves, MaxRestarts <- 1, FolderMoves <- TRUE, Quiet <- FALSE,
    Serial <- FALSE, NotFound <- TRUE

Rotation == INSTANCE CredentialRotation WITH
    MaxVer <- MaxChanges, MaxUsers <- MaxAccounts, BackendLoss <- TRUE,
    ServiceRuns <- TRUE

ASSUME PortalAssumption ==
    /\ Accounts!AccessAssumption
    /\ Secrets!AccessAssumption
    /\ Members!AccessAssumption
    /\ Alone!SyncAssumption
    /\ Missing!SyncAssumption
    /\ Together!SyncAssumption
    /\ Rotation!RotationAssumption

\* The variables of the other parts have the value 0 and keep it.
NoRotation ==
    /\ db = 0 /\ env = 0 /\ sec = 0 /\ history = 0 /\ gate = 0 /\ pc = 0
    /\ txn = 0 /\ next = 0 /\ crashes = 0

Init ==
    \/ /\ part = "accounts" /\ Accounts!Init
       /\ row = 0 /\ folder = 0 /\ present = 0 /\ clock = 0 /\ rows = 0
       /\ signature = 0 /\ writer = 0 /\ synced = 0 /\ edited = 0 /\ restarts = 0
       /\ NoRotation
    \/ /\ part = "passwords" /\ Secrets!Init
       /\ row = 0 /\ folder = 0 /\ present = 0 /\ clock = 0 /\ rows = 0
       /\ signature = 0 /\ writer = 0 /\ synced = 0 /\ edited = 0 /\ restarts = 0
       /\ NoRotation
    \/ /\ part = "groups" /\ Members!Init
       /\ row = 0 /\ folder = 0 /\ present = 0 /\ clock = 0 /\ rows = 0
       /\ signature = 0 /\ writer = 0 /\ synced = 0 /\ edited = 0 /\ restarts = 0
       /\ NoRotation
    \/ /\ part = "one" /\ One!Init
       /\ user = 0 /\ group = 0 /\ grants = 0 /\ tokens = 0 /\ up = 0 /\ lock = 0
       /\ folder = 0 /\ present = 0 /\ clock = 0 /\ rows = 0 /\ signature = 0
       /\ writer = 0 /\ synced = 0 /\ edited = 0 /\ restarts = 0
       /\ NoRotation
    \/ /\ part = "two" /\ Two!Init
       /\ user = 0 /\ group = 0 /\ grants = 0 /\ tokens = 0 /\ up = 0 /\ lock = 0
       /\ folder = 0 /\ present = 0 /\ clock = 0 /\ rows = 0 /\ signature = 0
       /\ writer = 0 /\ synced = 0 /\ edited = 0 /\ restarts = 0
       /\ NoRotation
    \/ /\ part = "alone" /\ Alone!Init
       /\ user = 0 /\ group = 0 /\ grants = 0 /\ tokens = 0 /\ up = 0 /\ row = 0
       /\ NoRotation
    \/ /\ part = "missing" /\ Missing!Init
       /\ user = 0 /\ group = 0 /\ grants = 0 /\ tokens = 0 /\ up = 0 /\ row = 0
       /\ NoRotation
    \/ /\ part = "together" /\ Together!Init
       /\ user = 0 /\ group = 0 /\ grants = 0 /\ tokens = 0 /\ up = 0 /\ row = 0
       /\ NoRotation
    \/ /\ part = "rotation" /\ Rotation!Init
       /\ user = 0 /\ group = 0 /\ grants = 0 /\ tokens = 0 /\ up = 0 /\ req = 0
       /\ lock = 0 /\ row = 0 /\ folder = 0 /\ present = 0 /\ clock = 0 /\ rows = 0
       /\ signature = 0 /\ writer = 0 /\ synced = 0 /\ edited = 0 /\ restarts = 0

\* What the parts leave alone.
NotAccessControl == <<part, row, folder, present, clock, rows, signature, writer,
                      synced, edited, restarts, db, env, sec, history, gate, pc,
                      txn, next, crashes>>
NotModuleGate == <<part, user, group, grants, tokens, up, lock, folder, present,
                   clock, rows, signature, writer, synced, edited, restarts,
                   db, env, sec, history, gate, pc, txn, next, crashes>>
NotNewsletterSync == <<part, user, group, grants, tokens, up, row,
                       db, env, sec, history, gate, pc, txn, next, crashes>>
NotCredentialRotation == <<part, user, group, grants, tokens, up, req, lock, row, folder,
                           present, clock, rows, signature, writer, synced, edited,
                           restarts>>

Next ==
    \/ part = "accounts" /\ Accounts!Next /\ UNCHANGED NotAccessControl
    \/ part = "passwords" /\ Secrets!Next /\ UNCHANGED NotAccessControl
    \/ part = "groups" /\ Members!Next /\ UNCHANGED NotAccessControl
    \/ part = "one" /\ One!Next /\ UNCHANGED NotModuleGate
    \/ part = "two" /\ Two!Next /\ UNCHANGED NotModuleGate
    \/ part = "alone" /\ Alone!Next /\ UNCHANGED NotNewsletterSync
    \/ part = "missing" /\ Missing!Next /\ UNCHANGED NotNewsletterSync
    \/ part = "together" /\ Together!Next /\ UNCHANGED NotNewsletterSync
    \/ part = "rotation" /\ Rotation!Next /\ UNCHANGED NotCredentialRotation

Spec == Init /\ [][Next]_vars

Symmetry == Permutations(Passwords) \cup Permutations(Issues)

------------------------------------------------------------------------------
\* With one request at a time, a token that is accepted was issued under the
\* password, role, groups and grants the account has now (bump_session_version).
TokensFresh ==
    /\ part = "accounts" => Accounts!TokensFresh
    /\ part = "passwords" => Secrets!TypeOK /\ Secrets!TokensFresh
    /\ part = "groups" => Members!TypeOK /\ Members!TokensFresh

\* With one request at a time an active administrator remains, no account with
\* the retired password is active, and only its owner's change of a password that
\* was reset lifts the duty to change it (update_user, change_password).
AccountsSafe ==
    /\ [](part = "accounts" => Accounts!TypeOK /\ Accounts!AdminRemains /\ Accounts!NoRetiredActive)
    /\ [][part = "accounts" => Accounts!ResetSticks]_vars
    /\ [][part = "passwords" => Secrets!ResetSticks]_vars

\* With one change at a time every stored row has one of the gates the policy
\* allows; whatever two leave in a row, the gate admits nobody whom one of its
\* columns excludes (validate_module_policy, user_can_access_module).
GatesClosed ==
    /\ part = "one" => One!TypeOK /\ One!GateValid
    /\ part = "two" => Two!TypeOK /\ Two!GateFailsClosed

\* While the folder changes only between requests and no read ends with 404, a
\* read shows the issues that are in the folder and leaves an administrator's edit
\* alone; one that finds the folder missing withdraws no issue; and a request that
\* has ended, with whatever error, holds neither the lock of AutoSyncState nor the
\* database's (auto_sync_newsletters, refresh_if_changed, sync_newsletters).
IssuesKept ==
    /\ [](part = "alone" => Alone!TypeOK /\ Alone!ReadsFresh)
    /\ [][part = "alone" => Alone!EditSurvives]_vars
    /\ [](part = "missing" => Missing!TypeOK)
    /\ [][part = "missing" => Missing!MissingHarmless]_vars
    /\ [](part = "together" => Together!TypeOK /\ Together!NothingHeld)

\* Whatever crashed, the passwords the database holds can be read by the operator
\* and a missing environment file has its old contents in quarantine and its new
\* ones pending; the rotation commits over exactly the state the recovery artifact
\* holds; and its journal says complete only when files, bundle and database
\* belong to this rotation (prepare_credential_bundle, verify_rotation_state).
RotationSound ==
    /\ [](part = "rotation" => /\ Rotation!TypeOK
                               /\ Rotation!CredentialsRecoverable /\ Rotation!EnvRecoverable)
    /\ [][part = "rotation" => Rotation!RotatedTogether /\ Rotation!RecoveryFaithful]_vars
==============================================================================
