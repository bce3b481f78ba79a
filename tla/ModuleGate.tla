----------------------------- MODULE ModuleGate -----------------------------
(***************************************************************************)
(* The service modules of the dashboard and who sees them.  Administrators *)
(* create, change and delete rows; a change names some columns, is merged  *)
(* with the row as it was read and validated, and writes those columns     *)
(* only.  user_can_access_module decides on the row as it is stored.       *)
(***************************************************************************)
EXTENDS Naturals, FiniteSets

CONSTANTS Modules, Reqs

None == "none"

\* One known permission that also gates a resource, one that does not, and one
\* nobody knows; one known resource and one unknown.
Permissions == {None, "collections.nsa.read", "use", "unknown"}
ResourceTypes == {None, "collection"}
ResourceIds == {None, "nsa", "other"}
Gates == [visibility : {"public", "admin"}, permission : Permissions,
          rtype : ResourceTypes, rid : ResourceIds, enabled : BOOLEAN]
Columns == {"visibility", "permission", "rtype", "rid", "enabled"}

VARIABLES row,   \* stored rows, NoRow when there is none
          req    \* changes under way: what was read, and what will be written

vars == <<row, req>>

NoRow == [visibility |-> None, permission |-> None, rtype |-> None, rid |-> None, enabled |-> FALSE]
NoReq == [module |-> None, cols |-> {}, new |-> NoRow]

Init == row = [m \in Modules |-> NoRow] /\ req = [r \in Reqs |-> NoReq]

-----------------------------------------------------------------------------
\* The states module_policy.py lists.
validate_module_gate(v) ==
    \/ v.visibility = "admin" /\ v.permission = None /\ v.rtype = None /\ v.rid = None
    \/ v.visibility = "public" /\ v.rtype = None /\ v.rid = None /\ v.permission # "unknown"
    \/ v.visibility = "public" /\ v.permission = "collections.nsa.read"
          /\ v.rtype = "collection" /\ v.rid = "nsa"

\* A viewer: nobody, or an account with its role, permissions and grants.
Nobody == [role |-> None, keys |-> {}, granted |-> FALSE]
Viewers == {Nobody} \cup [role : {"user", "pending"}, keys : SUBSET {"use", "collections.nsa.read"},
                          granted : BOOLEAN]

\* has_permission and has_resource_permission.
Holds(w, key) == key \in w.keys
HoldsGrant(w, v) == w.granted /\ v.rtype = "collection" /\ v.rid = "nsa"
                      /\ v.permission = "collections.nsa.read"

\* Mutant: a row without a permission is open to all.
user_can_access_module_open(w, v) ==
    /\ v.enabled
    /\ \/ v.visibility = "admin" /\ w.role = "user"
       \/ v.visibility = "public" /\ v.permission = None
       \/ v.visibility = "public" /\ v.permission # None
            /\ (Holds(w, v.permission) \/ HoldsGrant(w, v))

user_can_access_module(w, v) ==
    /\ v.enabled
    /\ \/ v.visibility = "admin" /\ w.role = "user"
       \/ v.visibility = "public" /\ v.permission = None /\ v.rtype = None /\ v.rid = None
       \/ v.visibility = "public" /\ v.permission # None
            /\ (Holds(w, v.permission) \/ HoldsGrant(w, v))

public_service_modules(w) == {m \in Modules : row[m] # NoRow /\ user_can_access_module(w, row[m])}

-----------------------------------------------------------------------------
\* A second row with the same key is a conflict.
create_service_module(r, m, v) ==
    /\ req[r] = NoReq
    /\ row[m] = NoRow /\ validate_module_gate(v)
    /\ row' = [row EXCEPT ![m] = v]
    /\ UNCHANGED req

delete_service_module(r, m) ==
    /\ req[r] = NoReq
    /\ row[m] # NoRow
    /\ row' = [row EXCEPT ![m] = NoRow]
    /\ UNCHANGED req

\* Columns of v where cols names them, of the row otherwise.
Merge(old, v, cols) == [c \in Columns |-> IF c \in cols THEN v[c] ELSE old[c]]

\* update_service_module up to the validation, and its commit.  Columns that
\* are set to the value that was read are not written.
LoadUpdate(r, m, v, cols) ==
    /\ req[r] = NoReq /\ row[m] # NoRow
    /\ validate_module_gate(Merge(row[m], v, cols))
    /\ LET written == {c \in cols : v[c] # row[m][c]} IN
       req' = [req EXCEPT ![r] = [module |-> m, cols |-> written, new |-> Merge(NoRow, v, written)]]
    /\ UNCHANGED row

CommitUpdate(r) ==
    LET m == req[r].module IN
    /\ req[r] # NoReq
    /\ row' = IF row[m] = NoRow THEN row
              ELSE [row EXCEPT ![m] = Merge(@, req[r].new, req[r].cols)]
    /\ req' = [req EXCEPT ![r] = NoReq]

\* One column at a time, or the three columns of a gate together.
Changes == {{"visibility"}, {"permission"}, {"enabled"}, {"permission", "rtype", "rid"}}

Next ==
    \/ \E r \in Reqs, m \in Modules, v \in Gates : create_service_module(r, m, v)
    \/ \E r \in Reqs, m \in Modules : delete_service_module(r, m)
    \/ \E r \in Reqs, m \in Modules, v \in Gates, cols \in Changes : LoadUpdate(r, m, v, cols)
    \/ \E r \in Reqs : CommitUpdate(r)

Spec == Init /\ [][Next]_vars

-----------------------------------------------------------------------------
\* Type correctness of the stored rows and of the changes under way.
TypeOK ==
    /\ row \in [Modules -> Gates \cup {NoRow}]
    /\ \A r \in Reqs : req[r] = NoReq \/ (req[r].module \in Modules /\ req[r].cols \subseteq Columns)

\* "Anything else (partial gates, ...) is rejected" (module_policy.py): a stored
\* row is always one of the allowed states.
GateValid == \A m \in Modules : row[m] # NoRow => validate_module_gate(row[m])

\* Whatever concurrent changes leave in a row, a module any of whose gate
\* columns is set is shown to nobody who holds neither the permission nor the
\* grant (user_can_access_module fails closed on partial gates).
GateFailsClosed ==
    \A m \in Modules, w \in Viewers :
        (row[m] # NoRow /\ m \in public_service_modules(w) /\ row[m].visibility = "public") =>
            \/ row[m].permission = None /\ row[m].rtype = None /\ row[m].rid = None
            \/ Holds(w, row[m].permission) \/ HoldsGrant(w, row[m])
=============================================================================
