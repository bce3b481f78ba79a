---------------------------- MODULE AccessControl ----------------------------
(***************************************************************************)
(* Accounts, passwords, sessions, groups and grants (auth and admin).      *)
(* A session token carries the account's session_version; every change of  *)
(* what an account may do is to raise it, so that older tokens die.        *)
(*                                                                         *)
(* A request runs on a database session of its own.  SQLite gives its      *)
(* reads no snapshot: a request reads what it needs (Load), decides on     *)
(* that copy, and writes the columns it changed when it gets the write     *)
(* lock (Commit).  When recording the session's activity already wrote     *)
(* something, the lock is held from the first read on.                     *)
(***************************************************************************)
EXTENDS Naturals, FiniteSets

CONSTANTS Users, Admin0,   \* accounts; the configured administrator
          Groups,          \* groups
          Reqs,            \* requests that can be under way together
          Passwords,       \* acceptable passwords besides the two below
          MaxVer,          \* bound on session versions
          Kinds            \* requests that are made

\* What the constants are assumed to be.
AccessAssumption ==
    /\ Admin0 \in Users /\ MaxVer \in Nat
    /\ {"retired", "boot"} \cap Passwords = {}
    /\ Users \cap Groups = {} /\ "none" \notin Reqs

None == "none"
Keys == {"users.manage", "rbac.manage", "use"}

VARIABLES user,    \* the users table, with direct permissions
          group,   \* groups with members and permissions
          grants,  \* subjects of a resource grant
          tokens,  \* tokens handed out
          up,      \* the service runs
          req, lock

vars == <<user, group, grants, tokens, up, req, lock>>
tables == <<user, group, grants>>

NoReq == [kind |-> None, by |-> None, on |-> None, copy |-> None, arg |-> None, also |-> {}]
Account(role, active, pw) ==
    [role |-> role, active |-> active, pw |-> pw, must |-> FALSE, ver |-> 0, direct |-> {}]

\* A database that earlier releases left: accounts may use the retired password.
Init ==
    /\ \E mine \in Passwords \cup {"retired", "boot"},
          theirs \in Passwords \cup {"retired"}, act \in BOOLEAN :
          user = [u \in Users |-> IF u = Admin0 THEN Account("admin", TRUE, mine)
                                  ELSE Account("user", act, theirs)]
    /\ group = [g \in Groups |-> [active |-> TRUE, keys |-> {}, members |-> {}]]
    /\ grants = {}
    /\ tokens = {}
    /\ up = FALSE
    /\ req = [r \in Reqs |-> NoReq]
    /\ lock = None

-----------------------------------------------------------------------------
permissions_for_role(role) ==
    CASE role = "admin" -> Keys [] role = "user" -> {"use"} [] OTHER -> {}

_active_group_ids(u) == {g \in Groups : u \in group[g].members /\ group[g].active}

list_user_permission_keys(u) ==
    permissions_for_role(user[u].role) \cup user[u].direct
        \cup UNION {group[g].keys : g \in _active_group_ids(u)}

has_permission(u, key) == user[u].active /\ key \in list_user_permission_keys(u)

list_user_resource_grants(u) ==
    user[u].active /\ (u \in grants \/ _active_group_ids(u) \cap grants # {})

\* What an account may do, and the password it is protected by.
Authority(u) == [keys |-> {k \in Keys : has_permission(u, k)},
                 resource |-> list_user_resource_grants(u), pw |-> user[u].pw]

\* A token that _current_user_from_request accepts.
Accepted(t) == user[t.user].active /\ t.ver = user[t.user].ver

_has_other_active_admin(u) ==
    \E v \in Users \ {u} : user[v].active /\ user[v].role = "admin"
                            /\ "rbac.manage" \in list_user_permission_keys(v)

users_affected(s) == IF s \in Groups THEN group[s].members ELSE {s}

\* Session versions are raised in the database, from the value it has then.
bump_authorization_session_versions(us) ==
    [u \in Users |-> IF u \in us THEN [user[u] EXCEPT !.ver = @ + 1] ELSE user[u]]

Bounded(us) == \A u \in us : user[u].ver < MaxVer

-----------------------------------------------------------------------------
\* Start-up refuses accounts on the retired password, except the configured
\* administrator, whose bootstrap password then has to be changed.
Preflight ==
    /\ ~up
    /\ \A u \in Users \ {Admin0} : user[u].active => user[u].pw # "retired"
    /\ user[Admin0].ver < MaxVer
    /\ user' = [user EXCEPT ![Admin0] =
                  IF @.pw = "retired" \/ (@.pw = "boot" /\ ~@.must)
                  THEN [@ EXCEPT !.pw = "boot", !.must = TRUE, !.ver = user[Admin0].ver + 1]
                  ELSE @]
    /\ up' = TRUE
    /\ UNCHANGED <<group, grants, tokens, req, lock>>

\* An operator resets an account that start-up refused.
ResetOffline(u) ==
    /\ ~up /\ user[u].pw = "retired" /\ u # Admin0
    /\ \E p \in Passwords : user' = [user EXCEPT ![u].pw = p]
    /\ UNCHANGED <<group, grants, tokens, up, req, lock>>

Stop ==
    /\ up
    /\ up' = FALSE /\ lock' = None /\ req' = [r \in Reqs |-> NoReq]
    /\ UNCHANGED <<tables, tokens>>

-----------------------------------------------------------------------------
\* The first half of a request: authentication, permission and reads.
Open(r, kind, by, on, arg, also) ==
    /\ up /\ req[r] = NoReq /\ kind \in Kinds
    /\ req' = [req EXCEPT ![r] = [kind |-> kind, by |-> by, on |-> on,
                                  copy |-> IF on \in Users THEN user[on] ELSE None,
                                  arg |-> arg, also |-> also]]
    /\ \/ UNCHANGED lock
       \/ lock = None /\ lock' = r    \* the session's activity was recorded
    /\ UNCHANGED <<tables, tokens, up>>

\* An account that has to change its password may do nothing else.
Allowed(t, key) == Accepted(t) /\ ~user[t.user].must /\ has_permission(t.user, key)

LoadLogin(r, u, pw) ==
    /\ user[u].active /\ pw # "retired" /\ pw = user[u].pw
    /\ Open(r, "login", u, u, pw, {})

LoadChangePassword(r, t, pw) ==
    /\ Accepted(t) /\ pw \in Passwords /\ pw # user[t.user].pw
    /\ Open(r, "change_password", t.user, t.user, pw, {})

LoadReset(r, t, u, pw) ==
    /\ Allowed(t, "users.manage")
    /\ Open(r, "reset_user_password", t.user, u, pw, {})

ActivatesRetired(c, active) == ~c.active /\ active /\ c.pw = "retired"

\* Mutant: the last administrator may be demoted.
RemovesLastAdmin_never(u, role, active) == FALSE

RemovesLastAdmin(u, role, active) ==
    /\ user[u].active /\ user[u].role = "admin"
    /\ ~active \/ role # "admin"
    /\ ~_has_other_active_admin(u)

LoadUpdate(r, t, u, role, active, direct) ==
    /\ Allowed(t, "users.manage")
    /\ u = t.user => active /\ role = user[u].role
    /\ ~RemovesLastAdmin(u, role, active)
    /\ ~ActivatesRetired(user[u], active)
    /\ Open(r, "update_user", t.user, u, [role |-> role, active |-> active, direct |-> direct], {})

LoadGroup(r, t, g, active, keys) ==
    /\ Allowed(t, "rbac.manage")
    /\ Open(r, "upsert_group", t.user, g, [active |-> active, keys |-> keys], {})

LoadMember(r, t, u, g, joins) ==
    /\ Allowed(t, "rbac.manage")
    /\ joins <=> u \notin group[g].members
    /\ Open(r, IF joins THEN "add_user_group" ELSE "remove_user_group", t.user, u, g, {})

\* A deletion resolves the members it affects before it writes.
LoadGrant(r, t, s, gives) ==
    /\ Allowed(t, "rbac.manage")
    /\ gives <=> s \notin grants
    /\ Open(r, IF gives THEN "create_resource_grant" ELSE "delete_resource_grant", t.user, s, s,
            users_affected(s))

-----------------------------------------------------------------------------
\* The second half: the writes, and the commit that makes them visible.
Close(r) ==
    /\ req' = [req EXCEPT ![r] = NoReq]
    /\ lock' = IF lock = r THEN None ELSE lock
    /\ UNCHANGED up

Writing(r, kind) == req[r].kind = kind /\ lock \in {None, r}
Issue(u, ver, auth) == tokens' = tokens \cup {[user |-> u, ver |-> ver, auth |-> auth]}

\* The token carries the version that was read with the account.
CommitLogin(r) ==
    LET u == req[r].on  c == req[r].copy IN
    /\ Writing(r, "login")
    /\ Issue(u, c.ver, [Authority(u) EXCEPT !.pw = c.pw])
    /\ Close(r)
    /\ UNCHANGED tables

\* set_user_password: the version is computed from the copy.
SetPassword(u, c, pw, must) ==
    user' = [user EXCEPT ![u].pw = pw, ![u].must = must, ![u].ver = c.ver + 1]

CommitChangePassword(r) ==
    LET u == req[r].on  c == req[r].copy IN
    /\ Writing(r, "change_password") /\ c.ver < MaxVer
    /\ SetPassword(u, c, req[r].arg, FALSE)
    /\ Issue(u, c.ver + 1, [Authority(u) EXCEPT !.pw = req[r].arg])
    /\ Close(r)
    /\ UNCHANGED <<group, grants>>

\* Mutant: a reset leaves the sessions of the account alone.
CommitReset_keepsSessions(r) ==
    LET u == req[r].on IN
    /\ Writing(r, "reset_user_password")
    /\ user' = [user EXCEPT ![u].pw = req[r].arg, ![u].must = TRUE]
    /\ Close(r)
    /\ UNCHANGED <<group, grants, tokens>>

CommitReset(r) ==
    /\ Writing(r, "reset_user_password") /\ req[r].copy.ver < MaxVer
    /\ SetPassword(req[r].on, req[r].copy, req[r].arg, TRUE)
    /\ Close(r)
    /\ UNCHANGED <<group, grants, tokens>>

\* Only columns that differ from the copy are written.
CommitUpdate(r) ==
    LET u == req[r].on  c == req[r].copy  new == req[r].arg IN
    /\ Writing(r, "update_user") /\ c.ver < MaxVer
    /\ user' = [user EXCEPT
                  ![u].role = IF new.role = c.role THEN @ ELSE new.role,
                  ![u].active = IF new.active = c.active THEN @ ELSE new.active,
                  ![u].direct = new.direct,
                  ![u].ver = c.ver + 1]
    /\ Close(r)
    /\ UNCHANGED <<group, grants, tokens>>

CommitGroup(r) ==
    LET g == req[r].on IN
    /\ Writing(r, "upsert_group") /\ Bounded(group[g].members)
    /\ group' = [group EXCEPT ![g].active = req[r].arg.active, ![g].keys = req[r].arg.keys]
    /\ user' = bump_authorization_session_versions(group[g].members)
    /\ Close(r)
    /\ UNCHANGED <<grants, tokens>>

CommitMember(r) ==
    LET u == req[r].on  g == req[r].arg IN
    /\ Writing(r, "add_user_group") \/ Writing(r, "remove_user_group")
    /\ Bounded({u})
    /\ group' = [group EXCEPT ![g].members =
                   IF req[r].kind = "add_user_group" THEN @ \cup {u} ELSE @ \ {u}]
    /\ user' = bump_authorization_session_versions({u})
    /\ Close(r)
    /\ UNCHANGED <<grants, tokens>>

\* A new grant looks its members up after it has been written.
CommitGrant(r) ==
    LET s == req[r].arg
        us == IF req[r].kind = "create_resource_grant" THEN users_affected(s) ELSE req[r].also
    IN
    /\ Writing(r, "create_resource_grant") \/ Writing(r, "delete_resource_grant")
    /\ req[r].kind = "create_resource_grant" <=> s \notin grants
    /\ Bounded(us)
    /\ grants' = IF req[r].kind = "create_resource_grant" THEN grants \cup {s} ELSE grants \ {s}
    /\ user' = bump_authorization_session_versions(us)
    /\ Close(r)
    /\ UNCHANGED <<group, tokens>>

\* The request ends without a commit: an error, a lost client or a conflict.
Abort(r) ==
    /\ req[r] # NoReq
    /\ Close(r)
    /\ UNCHANGED <<tables, tokens>>

-----------------------------------------------------------------------------
Roles == {"admin", "user", "pending"}
Load(r) ==
    \/ \E u \in Users, pw \in Passwords \cup {"boot", "retired"} : LoadLogin(r, u, pw)
    \/ \E t \in tokens, pw \in Passwords : LoadChangePassword(r, t, pw)
    \/ \E t \in tokens, u \in Users, pw \in Passwords : LoadReset(r, t, u, pw)
    \/ \E t \in tokens, u \in Users, role \in Roles, active \in BOOLEAN, d \in {{}, {"users.manage"}} :
          LoadUpdate(r, t, u, role, active, d)
    \/ \E t \in tokens, g \in Groups, active \in BOOLEAN, keys \in {{}, {"rbac.manage"}} :
          LoadGroup(r, t, g, active, keys)
    \/ \E t \in tokens, u \in Users, g \in Groups, joins \in BOOLEAN : LoadMember(r, t, u, g, joins)
    \/ \E t \in tokens, s \in Users \cup Groups, gives \in BOOLEAN : LoadGrant(r, t, s, gives)

Commit(r) ==
    \/ CommitLogin(r) \/ CommitChangePassword(r) \/ CommitReset(r) \/ CommitUpdate(r)
    \/ CommitGroup(r) \/ CommitMember(r) \/ CommitGrant(r)

Next ==
    \/ Preflight \/ Stop
    \/ \E u \in Users : ResetOffline(u)
    \/ \E r \in Reqs : Load(r) \/ Commit(r) \/ Abort(r)

Spec == Init /\ [][Next]_vars

-----------------------------------------------------------------------------
\* Type correctness of the tables, the tokens and the write lock.
TypeOK ==
    /\ user \in [Users -> [role : Roles, active : BOOLEAN, must : BOOLEAN, ver : 0..MaxVer,
                           pw : Passwords \cup {"retired", "boot"}, direct : SUBSET Keys]]
    /\ group \in [Groups -> [active : BOOLEAN, keys : SUBSET Keys, members : SUBSET Users]]
    /\ grants \subseteq Users \cup Groups
    /\ \A t \in tokens : t.user \in Users /\ t.ver \in 0..MaxVer
    /\ up \in BOOLEAN /\ lock \in Reqs \cup {None}

\* A token that is accepted was issued under the permissions, the resource
\* grants and the password its account has now: every change of them raised
\* the version and nothing brought an old one back (session_fanout.py: "cannot
\* go stale").
TokensFresh == \A t \in tokens : Accepted(t) => t.auth = Authority(t.user)

\* "At least one active admin must remain" (update_user).
AdminRemains == \E u \in Users : user[u].active /\ user[u].role = "admin"

\* While the service runs no active account is on the retired password, although
\* inactive ones may keep it (preflight_configured_admin, update_user).
NoRetiredActive == up => \A u \in Users : user[u].active => user[u].pw # "retired"

\* A password that an administrator set has to be changed: only the account's
\* holder, proving that password, lifts the obligation (change_password).
ResetSticks ==
    \A u \in Users : user[u].must /\ ~user'[u].must =>
            \E r \in Reqs : req[r].kind = "change_password" /\ req[r].on = u
                              /\ req[r].copy.pw = user[u].pw
=============================================================================
