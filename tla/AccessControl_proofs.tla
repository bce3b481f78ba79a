------------------------ MODULE AccessControl_proofs -------------------------
(***************************************************************************)
(* What requests that come one at a time keep: tokens that are accepted    *)
(* carry the authority the account has now, an administrator remains, no   *)
(* active account is on the retired password and a reset sticks.           *)
(***************************************************************************)
EXTENDS AccessControl, TLAPS

\* No two requests are under way together.
OneAtATime == \A r, s \in Reqs : r = s

-----------------------------------------------------------------------------
(* The inductive invariant.                                                *)

\* A request under way has read what the tables still hold.
Pending(q) ==
    /\ up
    /\ q.on \in Users => q.copy = user[q.on]
    /\ \/ q.kind = "login" /\ q.on \in Users
       \/ q.kind = "change_password" /\ q.on \in Users /\ q.arg \in Passwords
       \/ q.kind = "reset_user_password" /\ q.on \in Users /\ q.arg \in Passwords
       \/ /\ q.kind = "update_user" /\ q.on \in Users
          /\ q.arg \in [role : Roles, active : BOOLEAN, direct : SUBSET Keys]
          /\ ~RemovesLastAdmin(q.on, q.arg.role, q.arg.active)
          /\ ~ActivatesRetired(user[q.on], q.arg.active)
       \/ /\ q.kind = "upsert_group" /\ q.on \in Groups
          /\ q.arg \in [active : BOOLEAN, keys : SUBSET Keys]
       \/ /\ q.kind \in {"add_user_group", "remove_user_group"}
          /\ q.on \in Users /\ q.arg \in Groups
       \/ /\ q.kind \in {"create_resource_grant", "delete_resource_grant"}
          /\ q.arg \in Users \cup Groups
          /\ q.also = users_affected(q.arg)

ReqsOK ==
    /\ req = [r \in Reqs |-> req[r]]
    /\ \A r \in Reqs : req[r] = NoReq \/ Pending(req[r])

\* A token is never newer than its account, and one of the account's version
\* says what the account may do. Nobody logs in with the retired password.
TokenOK(t) ==
    /\ t.user \in Users /\ t.ver \in Nat
    /\ t.ver <= user[t.user].ver
    /\ Accepted(t) => t.auth = Authority(t.user)
    /\ user[t.user].active => user[t.user].pw # "retired"

TokensOK == \A t \in tokens : TokenOK(t)

AccessInv == TypeOK /\ ReqsOK /\ TokensOK /\ AdminRemains /\ NoRetiredActive

-----------------------------------------------------------------------------
(* What an account may do depends on its own row, its groups and their     *)
(* grants only.                                                            *)

\* What u may do reads the same before and after a step.
Untouched(u) ==
    /\ user'[u] = user[u]
    /\ \A g \in Groups : u \in group'[g].members <=> u \in group[g].members
    /\ \A g \in Groups : u \in group[g].members =>
          /\ group'[g].active = group[g].active /\ group'[g].keys = group[g].keys
          /\ g \in grants' <=> g \in grants
    /\ u \in grants' <=> u \in grants

\* A step that leaves alone what an account's authority is computed from leaves
\* the authority alone (list_user_permission_keys, list_user_resource_grants).
LEMMA SameAuthority ==
    ASSUME NEW u \in Users, Untouched(u)
    PROVE  Authority(u)' = Authority(u)
<1>1. _active_group_ids(u)' = _active_group_ids(u)
  BY Zenon DEF _active_group_ids, Untouched
<1>2. \A g \in _active_group_ids(u) : group'[g].keys = group[g].keys
  BY DEF _active_group_ids, Untouched
<1>3. UNION {group'[g].keys : g \in _active_group_ids(u)}
        = UNION {group[g].keys : g \in _active_group_ids(u)}
  BY <1>2
<1>4. list_user_permission_keys(u)' = list_user_permission_keys(u)
  BY <1>1, <1>3 DEF list_user_permission_keys, Untouched
<1>5. \A k : has_permission(u, k)' = has_permission(u, k)
  BY <1>4 DEF has_permission, Untouched
<1>6. _active_group_ids(u) \cap grants' = _active_group_ids(u) \cap grants
  BY DEF _active_group_ids, Untouched
<1>7. list_user_resource_grants(u)' = list_user_resource_grants(u)
  BY <1>1, <1>6 DEF list_user_resource_grants, Untouched
<1> QED BY <1>5, <1>7 DEF Authority, Untouched

\* Tokens that were handed out stay in order when every account either is not
\* touched or has its session version raised (bump_session_version).
LEMMA OldTokens ==
    ASSUME TypeOK, TypeOK', TokensOK,
           \A u \in Users :
               \/ Untouched(u)
               \/ /\ user'[u].ver > user[u].ver
                  /\ user[u].active /\ user[u].pw # "retired" => user'[u].pw # "retired"
                  /\ user'[u].active => user[u].active \/ user'[u].pw # "retired"
    PROVE  \A t \in tokens : TokenOK(t)'
<1> SUFFICES ASSUME NEW t \in tokens PROVE TokenOK(t)'
  OBVIOUS
<1> DEFINE u == t.user
<1>1. TokenOK(t) /\ u \in Users
  BY DEF TokensOK, TokenOK
<1>2. user[u].ver \in Nat /\ user'[u].ver \in Nat
  BY <1>1 DEF TypeOK
<1>3. CASE Untouched(u)
  BY <1>1, <1>3, SameAuthority DEF TokenOK, Accepted, Untouched
<1>4. CASE /\ user'[u].ver > user[u].ver
           /\ user[u].active /\ user[u].pw # "retired" => user'[u].pw # "retired"
           /\ user'[u].active => user[u].active \/ user'[u].pw # "retired"
  BY <1>1, <1>2, <1>4 DEF TokenOK, Accepted
<1> QED BY <1>1, <1>3, <1>4

-----------------------------------------------------------------------------
(* The steps of a request.                                                 *)

\* A step that changes no table and hands out no token keeps what is said of the
\* tables and the tokens (Load, Abort, Stop).
LEMMA ReadingStep ==
    ASSUME TypeOK, TokensOK, AdminRemains, NoRetiredActive,
           UNCHANGED <<user, group, grants, tokens>>,
           up' \in BOOLEAN, up' => up, lock' \in Reqs \cup {None}
    PROVE  TypeOK' /\ TokensOK' /\ AdminRemains' /\ NoRetiredActive'
<1>1. TypeOK'
  BY DEF TypeOK
<1>2. \A u \in Users : Untouched(u)
  BY DEF Untouched
<1>3. TokensOK'
  BY <1>1, <1>2, OldTokens DEF TokensOK
<1>4. AdminRemains' /\ NoRetiredActive'
  BY DEF AdminRemains, NoRetiredActive
<1> QED BY <1>1, <1>3, <1>4

\* A request that is let in has read the tables as they are, and the checks it
\* passed hold of them (LoadLogin ... LoadGrant).
LEMMA LoadStep ==
    ASSUME AccessAssumption, OneAtATime, AccessInv, NEW r \in Reqs, Load(r)
    PROVE  AccessInv'
<1>1. UNCHANGED <<user, group, grants, tokens, up>> /\ up /\ lock' \in {lock, r}
  BY DEF Load, LoadLogin, LoadChangePassword, LoadReset, LoadUpdate, LoadGroup,
         LoadMember, LoadGrant, Open, tables
<1>2. TypeOK' /\ TokensOK' /\ AdminRemains' /\ NoRetiredActive'
  <2>1. up' \in BOOLEAN /\ lock' \in Reqs \cup {None}
    BY <1>1 DEF AccessInv, TypeOK
  <2> QED BY <1>1, <2>1, ReadingStep DEF AccessInv
<1>3. Pending(req'[r])
  <2> USE DEF Open, Pending
  <2>0. req = [s \in Reqs |-> req[s]]
    BY DEF AccessInv, ReqsOK
  <2>1. ASSUME NEW u \in Users, NEW pw, LoadLogin(r, u, pw)
        PROVE  Pending(req'[r])
    BY <2>0, <2>1 DEF LoadLogin
  <2>2. ASSUME NEW t \in tokens, NEW pw \in Passwords, LoadChangePassword(r, t, pw)
        PROVE  Pending(req'[r])
    BY <2>0, <2>2 DEF LoadChangePassword, AccessInv, TokensOK, TokenOK
  <2>3. ASSUME NEW t \in tokens, NEW u \in Users, NEW pw \in Passwords, LoadReset(r, t, u, pw)
        PROVE  Pending(req'[r])
    BY <2>0, <2>3 DEF LoadReset
  <2>4. ASSUME NEW t \in tokens, NEW u \in Users, NEW role \in Roles, NEW active \in BOOLEAN,
               NEW d \in {{}, {"users.manage"}}, LoadUpdate(r, t, u, role, active, d)
        PROVE  Pending(req'[r])
    BY <2>0, <2>4 DEF LoadUpdate, Keys
  <2>5. ASSUME NEW t \in tokens, NEW g \in Groups, NEW active \in BOOLEAN,
               NEW keys \in {{}, {"rbac.manage"}}, LoadGroup(r, t, g, active, keys)
        PROVE  Pending(req'[r])
    BY <2>0, <2>5 DEF LoadGroup, Keys, AccessAssumption
  <2>6. ASSUME NEW t \in tokens, NEW u \in Users, NEW g \in Groups, NEW joins \in BOOLEAN,
               LoadMember(r, t, u, g, joins)
        PROVE  Pending(req'[r])
    BY <2>0, <2>6 DEF LoadMember
  <2>7. ASSUME NEW t \in tokens, NEW s \in Users \cup Groups, NEW gives \in BOOLEAN,
               LoadGrant(r, t, s, gives)
        PROVE  Pending(req'[r])
    BY <2>0, <2>7 DEF LoadGrant
  <2> QED BY <2>1, <2>2, <2>3, <2>4, <2>5, <2>6, <2>7 DEF Load
<1>4. ReqsOK'
  <2>1. req' = [s \in Reqs |-> req'[s]]
    BY DEF Load, LoadLogin, LoadChangePassword, LoadReset, LoadUpdate, LoadGroup,
           LoadMember, LoadGrant, Open, AccessInv, ReqsOK
  <2>2. ASSUME NEW q, Pending(q) PROVE Pending(q)'
    BY <1>1, <2>2 DEF Pending, RemovesLastAdmin, ActivatesRetired, _has_other_active_admin,
                      list_user_permission_keys, _active_group_ids, users_affected
  <2>3. Pending(req[r])'
    BY <1>3, <2>2
  <2> QED BY <2>1, <2>3 DEF OneAtATime, ReqsOK
<1> QED BY <1>2, <1>4 DEF AccessInv

\* A request that ended is forgotten: with one at a time none is left.
LEMMA Closed ==
    ASSUME OneAtATime, ReqsOK, TypeOK, NEW r \in Reqs, Close(r)
    PROVE  ReqsOK' /\ up' = up /\ lock' \in Reqs \cup {None}
BY DEF OneAtATime, ReqsOK, Close, TypeOK

-----------------------------------------------------------------------------
(* The commits.                                                            *)

\* The request that commits had read the row it writes, and the service runs.
LEMMA Committing ==
    ASSUME AccessInv, NEW r \in Reqs, req[r].kind # None
    PROVE  Pending(req[r]) /\ up
BY DEF AccessInv, ReqsOK, Pending, NoReq, None

\* A login hands out the version and the authority that the account has.
LEMMA LoginStep ==
    ASSUME AccessAssumption, OneAtATime, AccessInv, NEW r \in Reqs, CommitLogin(r)
    PROVE  AccessInv'
<1>1. PICK u \in Users : up /\ u = req[r].on /\ req[r].copy = user[u]
  BY Committing DEF CommitLogin, Writing, Pending, None
<1>0. PICK new : new = [user |-> u, ver |-> user[u].ver, auth |-> Authority(u)]
  OBVIOUS
<1>2. UNCHANGED <<user, group, grants, up>> /\ ReqsOK' /\ lock' \in Reqs \cup {None}
  BY Closed DEF CommitLogin, tables, AccessInv
<1>3. tokens' = tokens \cup {new}
  BY <1>0, <1>1 DEF CommitLogin, Issue, Authority
<1>4. TypeOK'
  BY <1>0, <1>1, <1>2, <1>3 DEF AccessInv, TypeOK
<1>5. AdminRemains' /\ NoRetiredActive'
  BY <1>2 DEF AccessInv, AdminRemains, NoRetiredActive
<1>6. \A t \in tokens : TokenOK(t)'
  <2>1. \A v \in Users : Untouched(v)
    BY <1>2 DEF Untouched
  <2> QED BY <1>4, <2>1, OldTokens DEF AccessInv
<1>7. TokenOK(new)'
  <2>1. Untouched(u) /\ user[u].ver \in Nat
    BY <1>1, <1>2 DEF Untouched, AccessInv, TypeOK
  <2>2. Authority(u)' = Authority(u)
    BY <1>1, <2>1, SameAuthority
  <2>3. user[u].active => user[u].pw # "retired"
    BY <1>1 DEF AccessInv, NoRetiredActive
  <2> QED BY <1>0, <1>2, <2>1, <2>2, <2>3 DEF TokenOK, Accepted
<1>8. TokensOK'
  BY <1>3, <1>6, <1>7 DEF TokensOK
<1> QED BY <1>2, <1>4, <1>5, <1>8 DEF AccessInv

\* The type of the users table.
UsersTable ==
    user \in [Users -> [role : Roles, active : BOOLEAN, must : BOOLEAN, ver : 0..MaxVer,
                        pw : Passwords \cup {"retired", "boot"}, direct : SUBSET Keys]]

\* The step gives u the password pw and the next version.
NewPassword(u, pw) ==
    /\ user'[u].pw = pw /\ user'[u].ver = user[u].ver + 1
    /\ user'[u].active = user[u].active
    /\ user'[u].role = user[u].role /\ user'[u].direct = user[u].direct

\* A new password raises the version from the one that was read, which is the
\* account's: nothing else of the account changes (set_user_password).
LEMMA SetPasswordFacts ==
    ASSUME AccessAssumption, AccessInv, NEW u \in Users, NEW pw \in Passwords,
           NEW must \in BOOLEAN, user[u].ver < MaxVer, up' = up,
           SetPassword(u, user[u], pw, must), UNCHANGED <<group, grants>>
    PROVE  /\ UsersTable' /\ NewPassword(u, pw)
           /\ \A v \in Users \ {u} : Untouched(v)
           /\ pw # "retired"
           /\ AdminRemains' /\ NoRetiredActive'
<1>1. UsersTable
  BY DEF AccessInv, TypeOK, UsersTable
<1>2. user[u].ver + 1 \in 0..MaxVer
  BY <1>1 DEF AccessAssumption, UsersTable
<1>3. user' = [user EXCEPT ![u] = [user[u] EXCEPT !.pw = pw, !.must = must, !.ver = @ + 1]]
  BY <1>1 DEF SetPassword, UsersTable
<1>4. /\ UsersTable' /\ NewPassword(u, pw)
      /\ \A v \in Users \ {u} : user'[v] = user[v]
  BY <1>1, <1>2, <1>3 DEF UsersTable, NewPassword
<1>5. pw # "retired"
  BY DEF AccessAssumption
<1>6. \A v \in Users : user'[v].active = user[v].active /\ user'[v].role = user[v].role
  BY <1>4 DEF NewPassword
<1>7. AdminRemains'
  BY <1>6 DEF AccessInv, AdminRemains
<1>8. \A v \in Users : user'[v].pw \in {user[v].pw, pw}
  BY <1>4 DEF NewPassword
<1>9. NoRetiredActive'
  BY <1>5, <1>6, <1>8 DEF AccessInv, NoRetiredActive
<1> QED BY <1>4, <1>5, <1>7, <1>9 DEF Untouched

\* A reset kills the sessions of the account.
LEMMA ResetStep ==
    ASSUME AccessAssumption, OneAtATime, AccessInv, NEW r \in Reqs, CommitReset(r)
    PROVE  AccessInv'
<1>1. PICK u \in Users, pw \in Passwords :
         up /\ u = req[r].on /\ req[r].copy = user[u] /\ pw = req[r].arg
  BY Committing DEF CommitReset, Writing, Pending, None
<1>2. UNCHANGED <<group, grants, tokens, up>> /\ ReqsOK' /\ lock' \in Reqs \cup {None}
  BY Closed DEF CommitReset, AccessInv
<1>3. SetPassword(u, user[u], pw, TRUE) /\ user[u].ver < MaxVer
  BY <1>1 DEF CommitReset
<1>4. /\ UsersTable' /\ NewPassword(u, pw)
      /\ \A v \in Users \ {u} : Untouched(v)
      /\ pw # "retired"
      /\ AdminRemains' /\ NoRetiredActive'
  BY <1>1, <1>2, <1>3, SetPasswordFacts
<1>5. TypeOK'
  BY <1>2, <1>4 DEF AccessInv, TypeOK, UsersTable
<1>6. user'[u].ver > user[u].ver /\ user'[u].pw # "retired"
  BY <1>4 DEF AccessInv, TypeOK, NewPassword
<1>7. TokensOK'
  BY <1>2, <1>4, <1>5, <1>6, OldTokens DEF AccessInv, TokensOK
<1> QED BY <1>2, <1>4, <1>5, <1>7 DEF AccessInv

\* A change of the password kills the other sessions of the account and hands
\* out a token of the new version.
LEMMA ChangePasswordStep ==
    ASSUME AccessAssumption, OneAtATime, AccessInv, NEW r \in Reqs, CommitChangePassword(r)
    PROVE  AccessInv'
<1>1. PICK u \in Users, pw \in Passwords :
         up /\ u = req[r].on /\ req[r].copy = user[u] /\ pw = req[r].arg
  BY Committing DEF CommitChangePassword, Writing, Pending, None
<1>0. PICK new : new = [user |-> u, ver |-> user[u].ver + 1,
                        auth |-> [Authority(u) EXCEPT !.pw = pw]]
  OBVIOUS
<1>2. /\ UNCHANGED <<group, grants, up>> /\ tokens' = tokens \cup {new}
      /\ ReqsOK' /\ lock' \in Reqs \cup {None}
  BY <1>0, <1>1, Closed DEF CommitChangePassword, Issue, AccessInv
<1>3. SetPassword(u, user[u], pw, FALSE) /\ user[u].ver < MaxVer
  BY <1>1 DEF CommitChangePassword
<1>4. /\ UsersTable' /\ NewPassword(u, pw)
      /\ \A v \in Users \ {u} : Untouched(v)
      /\ pw # "retired"
      /\ AdminRemains' /\ NoRetiredActive'
  BY <1>1, <1>2, <1>3, SetPasswordFacts
<1>5. user'[u].ver > user[u].ver /\ user[u].ver + 1 \in 0..MaxVer /\ user'[u].pw # "retired"
  BY <1>4 DEF AccessInv, TypeOK, NewPassword, UsersTable
<1>6. TypeOK'
  BY <1>0, <1>2, <1>4, <1>5 DEF AccessInv, TypeOK, UsersTable
<1>7. \A t \in tokens : TokenOK(t)'
  BY <1>4, <1>5, <1>6, OldTokens DEF AccessInv
<1>8. Authority(u)' = [Authority(u) EXCEPT !.pw = pw]
  <2>1. _active_group_ids(u)' = _active_group_ids(u)
    BY <1>2 DEF _active_group_ids
  <2>2. list_user_permission_keys(u)' = list_user_permission_keys(u)
    BY <1>2, <1>4, <2>1 DEF list_user_permission_keys, NewPassword
  <2>3. \A k : has_permission(u, k)' = has_permission(u, k)
    BY <1>4, <2>2 DEF has_permission, NewPassword
  <2>4. list_user_resource_grants(u)' = list_user_resource_grants(u)
    BY <1>2, <1>4, <2>1 DEF list_user_resource_grants, NewPassword
  <2>5. {k \in Keys : has_permission(u, k)'} = {k \in Keys : has_permission(u, k)}
    BY <2>3
  <2>6. PICK ks, res : /\ Authority(u) = [keys |-> ks, resource |-> res, pw |-> user[u].pw]
                       /\ Authority(u)' = [keys |-> ks, resource |-> res, pw |-> pw]
    BY <1>4, <2>4, <2>5 DEF Authority, NewPassword
  <2> QED BY <2>6
<1>9. TokenOK(new)'
  BY <1>0, <1>4, <1>5, <1>8 DEF TokenOK, Accepted, NewPassword
<1>10. TokensOK'
  BY <1>2, <1>7, <1>9 DEF TokensOK
<1> QED BY <1>2, <1>4, <1>6, <1>10 DEF AccessInv

\* A change of an account kills its sessions; the checks that it passed keep an
\* administrator and keep the retired password out.
LEMMA UpdateStep ==
    ASSUME AccessAssumption, OneAtATime, AccessInv, NEW r \in Reqs, CommitUpdate(r)
    PROVE  AccessInv'
<1>1. PICK u \in Users, new \in [role : Roles, active : BOOLEAN, direct : SUBSET Keys] :
         /\ up /\ u = req[r].on /\ req[r].copy = user[u] /\ new = req[r].arg
         /\ ~RemovesLastAdmin(u, new.role, new.active)
         /\ ~ActivatesRetired(user[u], new.active)
  BY Committing DEF CommitUpdate, Writing, Pending, None
<1>2. UNCHANGED <<group, grants, tokens, up>> /\ ReqsOK' /\ lock' \in Reqs \cup {None}
  BY Closed DEF CommitUpdate, AccessInv
<1>3. UsersTable /\ user[u].ver < MaxVer
  BY <1>1 DEF CommitUpdate, AccessInv, TypeOK, UsersTable
<1>4. user[u].ver + 1 \in 0..MaxVer
  BY <1>3 DEF AccessAssumption, UsersTable
<1>5. user' = [user EXCEPT ![u] = [user[u] EXCEPT !.role = new.role, !.active = new.active,
                                                  !.direct = new.direct, !.ver = @ + 1]]
  BY <1>1, <1>3 DEF CommitUpdate, UsersTable
<1>6. /\ UsersTable'
      /\ user'[u].role = new.role /\ user'[u].active = new.active
      /\ user'[u].ver = user[u].ver + 1 /\ user'[u].pw = user[u].pw
      /\ \A v \in Users \ {u} : user'[v] = user[v]
  BY <1>3, <1>4, <1>5 DEF UsersTable
<1>7. TypeOK'
  BY <1>2, <1>6 DEF AccessInv, TypeOK, UsersTable
<1>8. user'[u].active => user[u].active \/ user'[u].pw # "retired"
  BY <1>1, <1>6 DEF ActivatesRetired
<1>9. TokensOK'
  <2>1. \A v \in Users \ {u} : Untouched(v)
    BY <1>2, <1>6 DEF Untouched
  <2>2. user'[u].ver > user[u].ver
    BY <1>3, <1>6 DEF UsersTable
  <2> QED BY <1>2, <1>6, <1>7, <1>8, <2>1, <2>2, OldTokens DEF AccessInv, TokensOK
<1>10. AdminRemains'
  <2>1. PICK v \in Users : user[v].active /\ user[v].role = "admin"
    BY DEF AccessInv, AdminRemains
  <2>2. CASE v # u
    BY <1>6, <2>1, <2>2 DEF AdminRemains
  <2>3. CASE v = u /\ new.active /\ new.role = "admin"
    BY <1>6, <2>3 DEF AdminRemains
  <2>4. CASE v = u /\ ~(new.active /\ new.role = "admin")
    <3>1. PICK w \in Users \ {u} : user[w].active /\ user[w].role = "admin"
      BY <1>1, <2>1, <2>4 DEF RemovesLastAdmin, _has_other_active_admin
    <3> QED BY <1>6, <3>1 DEF AdminRemains
  <2> QED BY <2>2, <2>3, <2>4
<1>11. NoRetiredActive'
  <2>1. \A v \in Users \ {u} : user'[v].active => user'[v].pw # "retired"
    BY <1>1, <1>6 DEF AccessInv, NoRetiredActive
  <2>2. user'[u].active => user'[u].pw # "retired"
    BY <1>1, <1>6, <1>8 DEF AccessInv, NoRetiredActive
  <2> QED BY <2>1, <2>2 DEF NoRetiredActive
<1> QED BY <1>2, <1>7, <1>9, <1>10, <1>11 DEF AccessInv

\* Raising the versions of all accounts that a change of groups or grants touches
\* keeps every token in order (bump_authorization_session_versions).
LEMMA BumpStep ==
    ASSUME AccessAssumption, AccessInv, NEW us \in SUBSET Users, Bounded(us),
           user' = bump_authorization_session_versions(us),
           UNCHANGED <<tokens, up>>, lock' \in Reqs \cup {None}, ReqsOK',
           group' \in [Groups -> [active : BOOLEAN, keys : SUBSET Keys, members : SUBSET Users]],
           grants' \subseteq Users \cup Groups,
           \A u \in Users \ us : user'[u] = user[u] => Untouched(u)
    PROVE  AccessInv'
<1>1. UsersTable /\ \A u \in us : user[u].ver + 1 \in 0..MaxVer
  BY DEF AccessInv, TypeOK, UsersTable, Bounded, AccessAssumption
<1>2. \A u \in Users : user'[u] = IF u \in us THEN [user[u] EXCEPT !.ver = @ + 1] ELSE user[u]
  BY DEF bump_authorization_session_versions
<1>3. UsersTable'
  BY <1>1, <1>2 DEF UsersTable, bump_authorization_session_versions
<1>4. \A u \in Users : /\ user'[u].pw = user[u].pw /\ user'[u].role = user[u].role
                       /\ user'[u].active = user[u].active
  <2> TAKE u \in Users
  <2>1. CASE u \in us
    <3>1. user'[u] = [user[u] EXCEPT !.ver = @ + 1]
      BY <1>2, <2>1
    <3> QED BY <1>1, <3>1 DEF UsersTable
  <2>2. CASE u \notin us
    BY <1>2, <2>2
  <2> QED BY <2>1, <2>2
<1>5. ASSUME NEW u \in us PROVE user'[u].ver > user[u].ver
  <2>1. user'[u] = [user[u] EXCEPT !.ver = @ + 1] /\ user[u].ver \in Nat
    BY <1>1, <1>2 DEF UsersTable
  <2>2. user'[u].ver = user[u].ver + 1
    BY <1>1, <2>1 DEF UsersTable
  <2> QED BY <2>1, <2>2
<1>6. TypeOK'
  BY <1>3 DEF AccessInv, TypeOK, UsersTable
<1>7. \A u \in Users \ us : Untouched(u)
  BY <1>2
<1>8. TokensOK'
  <2>1. ASSUME NEW u \in us
        PROVE  /\ user'[u].ver > user[u].ver
               /\ user[u].active /\ user[u].pw # "retired" => user'[u].pw # "retired"
               /\ user'[u].active => user[u].active \/ user'[u].pw # "retired"
    BY <1>4, <1>5
  <2> QED BY <1>6, <1>7, <2>1, OldTokens DEF AccessInv, TokensOK
<1>9. AdminRemains'
  BY <1>4 DEF AccessInv, AdminRemains
<1>10. NoRetiredActive'
  BY <1>4 DEF AccessInv, NoRetiredActive
<1> QED BY <1>6, <1>8, <1>9, <1>10 DEF AccessInv

\* A group that changes kills the sessions of its members.
LEMMA GroupStep ==
    ASSUME AccessAssumption, OneAtATime, AccessInv, NEW r \in Reqs, CommitGroup(r)
    PROVE  AccessInv'
<1>1. PICK g \in Groups, new \in [active : BOOLEAN, keys : SUBSET Keys] :
         g = req[r].on /\ new = req[r].arg
  BY Committing DEF CommitGroup, Writing, Pending, None
<1>2. UNCHANGED <<grants, tokens, up>> /\ ReqsOK' /\ lock' \in Reqs \cup {None}
  BY Closed DEF CommitGroup, AccessInv
<1>3. /\ user' = bump_authorization_session_versions(group[g].members)
      /\ Bounded(group[g].members) /\ group[g].members \in SUBSET Users
  BY <1>1 DEF CommitGroup, AccessInv, TypeOK
<1>4. group' = [group EXCEPT ![g].active = new.active, ![g].keys = new.keys]
  BY <1>1 DEF CommitGroup
<1>5. /\ group' \in [Groups -> [active : BOOLEAN, keys : SUBSET Keys, members : SUBSET Users]]
      /\ group'[g].members = group[g].members
      /\ \A h \in Groups \ {g} : group'[h] = group[h]
  BY <1>1, <1>4 DEF AccessInv, TypeOK
<1>6. ASSUME NEW u \in Users \ group[g].members, user'[u] = user[u]
      PROVE  Untouched(u)
  BY <1>2, <1>5, <1>6 DEF Untouched
<1>7. grants' \subseteq Users \cup Groups
  BY <1>2 DEF AccessInv, TypeOK
<1> QED BY <1>2, <1>3, <1>5, <1>6, <1>7, BumpStep

\* An account that joins or leaves a group loses its sessions.
LEMMA MemberStep ==
    ASSUME AccessAssumption, OneAtATime, AccessInv, NEW r \in Reqs, CommitMember(r)
    PROVE  AccessInv'
<1>1. PICK u \in Users, g \in Groups : u = req[r].on /\ g = req[r].arg
  BY Committing DEF CommitMember, Writing, Pending, None
<1>2. UNCHANGED <<grants, tokens, up>> /\ ReqsOK' /\ lock' \in Reqs \cup {None}
  BY Closed DEF CommitMember, AccessInv
<1>3. user' = bump_authorization_session_versions({u}) /\ Bounded({u})
  BY <1>1 DEF CommitMember
<1>4. PICK ms \in SUBSET Users :
         /\ group' = [group EXCEPT ![g].members = ms]
         /\ ms \in {group[g].members \cup {u}, group[g].members \ {u}}
  BY <1>1 DEF CommitMember, AccessInv, TypeOK
<1>5. /\ group' \in [Groups -> [active : BOOLEAN, keys : SUBSET Keys, members : SUBSET Users]]
      /\ group'[g].members = ms
      /\ group'[g].active = group[g].active /\ group'[g].keys = group[g].keys
      /\ \A h \in Groups \ {g} : group'[h] = group[h]
  BY <1>4 DEF AccessInv, TypeOK
<1>6. ASSUME NEW v \in Users \ {u}, user'[v] = user[v]
      PROVE  Untouched(v)
  BY <1>2, <1>4, <1>5, <1>6 DEF Untouched
<1>7. grants' \subseteq Users \cup Groups
  BY <1>2 DEF AccessInv, TypeOK
<1> QED BY <1>2, <1>3, <1>5, <1>6, <1>7, BumpStep

\* A grant given or taken kills the sessions of those it is about: the members
\* that were resolved first are the members of the group still.
LEMMA GrantStep ==
    ASSUME AccessAssumption, OneAtATime, AccessInv, NEW r \in Reqs, CommitGrant(r)
    PROVE  AccessInv'
<1>1. PICK s \in Users \cup Groups : s = req[r].arg /\ req[r].also = users_affected(s)
  BY Committing DEF CommitGrant, Writing, Pending, None
<1>2. UNCHANGED <<group, tokens, up>> /\ ReqsOK' /\ lock' \in Reqs \cup {None}
  BY Closed DEF CommitGrant, AccessInv
<1>3. /\ user' = bump_authorization_session_versions(users_affected(s))
      /\ Bounded(users_affected(s)) /\ grants' \in {grants \cup {s}, grants \ {s}}
  BY <1>1 DEF CommitGrant
<1>4. /\ users_affected(s) \in SUBSET Users
      /\ s \in Users => users_affected(s) = {s}
      /\ s \in Groups => users_affected(s) = group[s].members
  BY DEF users_affected, AccessAssumption, AccessInv, TypeOK
<1>5. grants' \subseteq Users \cup Groups
  BY <1>3 DEF AccessInv, TypeOK
<1>6. ASSUME NEW u \in Users \ users_affected(s), user'[u] = user[u]
      PROVE  Untouched(u)
  BY <1>2, <1>3, <1>4, <1>6 DEF Untouched
<1>7. group' \in [Groups -> [active : BOOLEAN, keys : SUBSET Keys, members : SUBSET Users]]
  BY <1>2 DEF AccessInv, TypeOK
<1> QED BY <1>2, <1>3, <1>4, <1>5, <1>6, <1>7, BumpStep

-----------------------------------------------------------------------------
(* Start-up, and the whole specification.                                  *)

\* Start-up raises the version of the configured administrator whenever it gives
\* it the bootstrap password (preflight_configured_admin).
LEMMA PreflightStep ==
    ASSUME AccessAssumption, AccessInv, Preflight
    PROVE  AccessInv'
<1>1. UsersTable /\ Admin0 \in Users /\ user[Admin0].ver + 1 \in 0..MaxVer
  BY DEF AccessInv, TypeOK, UsersTable, Preflight, AccessAssumption
<1>2. UNCHANGED <<group, grants, tokens, req, lock>> /\ up' = TRUE /\ ~up
  BY DEF Preflight
<1>3. \A u \in Users \ {Admin0} : user'[u] = user[u]
  BY <1>1 DEF Preflight, UsersTable
<1>4. \/ user'[Admin0] = user[Admin0] /\ user[Admin0].pw # "retired"
      \/ user'[Admin0] = [user[Admin0] EXCEPT !.pw = "boot", !.must = TRUE, !.ver = @ + 1]
  BY <1>1 DEF Preflight, UsersTable
<1>5. user'[Admin0] \in [role : Roles, active : BOOLEAN, must : BOOLEAN, ver : 0..MaxVer,
                         pw : Passwords \cup {"retired", "boot"}, direct : SUBSET Keys]
  BY <1>1, <1>4 DEF UsersTable
<1>6. UsersTable'
  BY <1>1, <1>3, <1>5 DEF UsersTable, Preflight
<1>7. TypeOK'
  BY <1>2, <1>6 DEF AccessInv, TypeOK, UsersTable
<1>8. /\ user'[Admin0].active = user[Admin0].active /\ user'[Admin0].role = user[Admin0].role
      /\ user'[Admin0].pw # "retired"
  BY <1>1, <1>4 DEF UsersTable
<1>9. user'[Admin0] = user[Admin0] \/ user'[Admin0].ver > user[Admin0].ver
  <2>1. user'[Admin0] = user[Admin0] \/ user'[Admin0].ver = user[Admin0].ver + 1
    BY <1>1, <1>4 DEF UsersTable
  <2>2. user[Admin0].ver \in Nat
    BY <1>1 DEF UsersTable
  <2> QED BY <2>1, <2>2
<1>10. TokensOK'
  <2>1. \A u \in Users : user'[u] = user[u] => Untouched(u)
    BY <1>2 DEF Untouched
  <2> QED BY <1>2, <1>3, <1>7, <1>8, <1>9, <2>1, OldTokens DEF AccessInv, TokensOK
<1>11. AdminRemains'
  BY <1>3, <1>8 DEF AccessInv, AdminRemains
<1>12. NoRetiredActive'
  <2>1. \A u \in Users \ {Admin0} : user[u].active => user[u].pw # "retired"
    BY DEF Preflight
  <2> QED BY <1>3, <1>8, <2>1 DEF NoRetiredActive
<1>13. ReqsOK'
  BY <1>2 DEF AccessInv, ReqsOK, Pending
<1> QED BY <1>7, <1>10, <1>11, <1>12, <1>13 DEF AccessInv

\* An account on the retired password that is reset while the service is down has
\* no token that was accepted: nobody was let in with that password.
LEMMA OfflineStep ==
    ASSUME AccessAssumption, AccessInv, NEW u \in Users, ResetOffline(u)
    PROVE  AccessInv'
<1>1. PICK p \in Passwords : user' = [user EXCEPT ![u].pw = p]
  BY DEF ResetOffline
<1>2. UNCHANGED <<group, grants, tokens, up, req, lock>> /\ ~up /\ user[u].pw = "retired"
  BY DEF ResetOffline
<1>3. /\ UsersTable /\ UsersTable'
      /\ user'[u].active = user[u].active /\ user'[u].ver = user[u].ver
      /\ user'[u].role = user[u].role
      /\ \A v \in Users \ {u} : user'[v] = user[v]
  BY <1>1 DEF AccessInv, TypeOK, UsersTable
<1>4. TypeOK'
  BY <1>2, <1>3 DEF AccessInv, TypeOK, UsersTable
<1>5. ASSUME NEW t \in tokens PROVE TokenOK(t)'
  <2>1. TokenOK(t)
    BY DEF AccessInv, TokensOK
  <2>2. CASE t.user = u
    BY <1>2, <1>3, <2>1, <2>2 DEF TokenOK, Accepted
  <2>3. CASE t.user # u
    <3>1. Untouched(t.user)
      BY <1>2, <1>3, <2>1, <2>3 DEF Untouched, TokenOK
    <3> QED BY <2>1, <2>3, <1>3, <3>1, SameAuthority DEF TokenOK, Accepted
  <2> QED BY <2>2, <2>3
<1>6. TokensOK'
  BY <1>2, <1>5 DEF TokensOK
<1>7. AdminRemains'
  BY <1>3 DEF AccessInv, AdminRemains
<1>8. NoRetiredActive' /\ ReqsOK'
  BY <1>2 DEF AccessInv, NoRetiredActive, ReqsOK, Pending
<1> QED BY <1>4, <1>6, <1>7, <1>8 DEF AccessInv

\* Every step keeps the invariant when requests come one at a time.
LEMMA AccessStep ==
    ASSUME AccessAssumption, OneAtATime, AccessInv, [Next]_vars
    PROVE  AccessInv'
<1>1. CASE Preflight
  BY <1>1, PreflightStep
<1>2. CASE Stop
  <2>1. UNCHANGED <<user, group, grants, tokens>> /\ up' = FALSE /\ lock' = None
    BY <1>2 DEF Stop, tables
  <2>2. TypeOK' /\ TokensOK' /\ AdminRemains' /\ NoRetiredActive'
    BY <2>1, ReadingStep DEF AccessInv
  <2>3. ReqsOK'
    BY <1>2 DEF Stop, ReqsOK
  <2> QED BY <2>2, <2>3 DEF AccessInv
<1>3. ASSUME NEW u \in Users, ResetOffline(u) PROVE AccessInv'
  BY <1>3, OfflineStep
<1>4. ASSUME NEW r \in Reqs, Load(r) PROVE AccessInv'
  BY <1>4, LoadStep
<1>5. ASSUME NEW r \in Reqs, Commit(r) PROVE AccessInv'
  BY <1>5, LoginStep, ChangePasswordStep, ResetStep, UpdateStep, GroupStep, MemberStep,
     GrantStep DEF Commit
<1>6. ASSUME NEW r \in Reqs, Abort(r) PROVE AccessInv'
  <2>1. UNCHANGED <<user, group, grants, tokens, up>> /\ ReqsOK' /\ lock' \in Reqs \cup {None}
    BY <1>6, Closed DEF Abort, tables, AccessInv
  <2>2. up' \in BOOLEAN
    BY <2>1 DEF AccessInv, TypeOK
  <2> QED BY <2>1, <2>2, ReadingStep DEF AccessInv
<1>7. CASE UNCHANGED vars
  <2>1. UNCHANGED <<user, group, grants, tokens, up, req, lock>>
    BY <1>7 DEF vars
  <2>2. TypeOK' /\ TokensOK' /\ AdminRemains' /\ NoRetiredActive'
    BY <2>1, ReadingStep DEF AccessInv, TypeOK
  <2>3. ASSUME NEW q, Pending(q) PROVE Pending(q)'
    BY <2>1, <2>3 DEF Pending, RemovesLastAdmin, ActivatesRetired, _has_other_active_admin,
                      list_user_permission_keys, _active_group_ids, users_affected
  <2>4. ReqsOK'
    BY <2>1, <2>3 DEF AccessInv, ReqsOK
  <2> QED BY <2>2, <2>4 DEF AccessInv
<1> QED BY <1>1, <1>2, <1>3, <1>4, <1>5, <1>6, <1>7 DEF Next

\* The invariant holds of the database that earlier releases left.
LEMMA AccessInit ==
    ASSUME AccessAssumption, Init
    PROVE  AccessInv
<1>1. PICK mine \in Passwords \cup {"retired", "boot"},
           theirs \in Passwords \cup {"retired"}, act \in BOOLEAN :
           user = [u \in Users |-> IF u = Admin0 THEN Account("admin", TRUE, mine)
                                   ELSE Account("user", act, theirs)]
  BY DEF Init
<1>2. UsersTable
  BY <1>1 DEF UsersTable, Account, Roles, AccessAssumption
<1>3. TypeOK
  BY <1>2 DEF Init, TypeOK, UsersTable
<1>4. AdminRemains
  <2>1. user[Admin0].active = TRUE /\ user[Admin0].role = "admin" /\ Admin0 \in Users
    BY <1>1 DEF Account, AccessAssumption
  <2> QED BY <2>1 DEF AdminRemains
<1>5. ReqsOK /\ TokensOK /\ NoRetiredActive
  BY DEF Init, ReqsOK, TokensOK, NoRetiredActive
<1> QED BY <1>3, <1>4, <1>5 DEF AccessInv

\* The invariant, with one request at a time.
LEMMA AccessInvariant ==
    ASSUME AccessAssumption, OneAtATime
    PROVE  Spec => []AccessInv
BY AccessInit, AccessStep, PTL DEF Spec

\* What the invariant says of the tokens.
LEMMA FreshTokens == AccessInv => TokensFresh
BY DEF AccessInv, TokensOK, TokenOK, TokensFresh

\* With one request at a time, whatever passwords, accounts, groups and grants
\* change in whatever order, over restarts, a token that is accepted was issued
\* under the authority and the password its account has now.
THEOREM SerialTokensFresh ==
    ASSUME AccessAssumption, OneAtATime
    PROVE  Spec => []TokensFresh
BY AccessInvariant, FreshTokens, PTL

\* With one request at a time an active administrator remains, and no account
\* with the retired password is active while the service runs.
THEOREM SerialAccountsSafe ==
    ASSUME AccessAssumption, OneAtATime
    PROVE  Spec => [](TypeOK /\ AdminRemains /\ NoRetiredActive)
<1>1. AccessInv => TypeOK /\ AdminRemains /\ NoRetiredActive
  BY DEF AccessInv
<1> QED BY <1>1, AccessInvariant, PTL

\* Only the commit of a change of the password, which had read the password the
\* account still has, lifts the duty to change it.
LEMMA ResetKept ==
    ASSUME AccessAssumption, OneAtATime, AccessInv, [Next]_vars
    PROVE  ResetSticks
<1> SUFFICES ASSUME NEW u \in Users, user[u].must, ~user'[u].must
             PROVE  \E r \in Reqs : /\ req[r].kind = "change_password" /\ req[r].on = u
                                    /\ req[r].copy.pw = user[u].pw
  BY DEF ResetSticks
<1>0. UsersTable
  BY DEF AccessInv, TypeOK, UsersTable
<1>1. CASE Preflight
  BY <1>0, <1>1 DEF Preflight, UsersTable
<1>2. ASSUME NEW v \in Users, ResetOffline(v) PROVE FALSE
  BY <1>0, <1>2 DEF ResetOffline, UsersTable
<1>3. ASSUME user' = user PROVE FALSE
  BY <1>3
<1>4. ASSUME NEW us, user' = bump_authorization_session_versions(us) PROVE FALSE
  BY <1>0, <1>4 DEF bump_authorization_session_versions, UsersTable
<1>5. ASSUME NEW r \in Reqs, CommitReset(r) PROVE FALSE
  BY <1>0, <1>5 DEF CommitReset, SetPassword, UsersTable
<1>6. ASSUME NEW r \in Reqs, CommitUpdate(r) PROVE FALSE
  BY <1>0, <1>6 DEF CommitUpdate, UsersTable
<1>7. ASSUME NEW r \in Reqs, CommitChangePassword(r)
      PROVE  /\ req[r].kind = "change_password" /\ req[r].on = u
             /\ req[r].copy.pw = user[u].pw
  <2>1. Pending(req[r]) /\ req[r].kind = "change_password"
    BY <1>7, Committing DEF CommitChangePassword, Writing, None
  <2>2. req[r].on = u
    BY <1>0, <1>7 DEF CommitChangePassword, SetPassword, UsersTable
  <2> QED BY <2>1, <2>2 DEF Pending
<1>8. CASE UNCHANGED vars \/ Stop \/ \E r \in Reqs : Load(r) \/ Abort(r) \/ CommitLogin(r)
  <2>1. user' = user
    <3>1. ASSUME NEW r \in Reqs, Load(r) PROVE user' = user
      BY <3>1 DEF Load, LoadLogin, LoadChangePassword, LoadReset, LoadUpdate, LoadGroup,
                  LoadMember, LoadGrant, Open, tables
    <3>2. ASSUME NEW r \in Reqs, Abort(r) \/ CommitLogin(r) PROVE user' = user
      BY <3>2 DEF Abort, CommitLogin, tables
    <3>3. CASE UNCHANGED vars \/ Stop
      BY <3>3 DEF vars, Stop, tables
    <3> QED BY <1>8, <3>1, <3>2, <3>3
  <2> QED BY <1>3, <2>1
<1>9. CASE \E r \in Reqs : CommitGroup(r) \/ CommitMember(r) \/ CommitGrant(r)
  BY <1>4, <1>9 DEF CommitGroup, CommitMember, CommitGrant
<1> QED BY <1>1, <1>2, <1>5, <1>6, <1>7, <1>8, <1>9 DEF Next, Commit

\* With one request at a time a password that an administrator set has to be
\* changed by its holder, who proves that very password.
THEOREM SerialResetSticks ==
    ASSUME AccessAssumption, OneAtATime
    PROVE  Spec => [][ResetSticks]_vars
BY AccessInvariant, ResetKept, PTL DEF Spec
==============================================================================
