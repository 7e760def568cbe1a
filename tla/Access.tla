--------------------------------- MODULE Access ---------------------------------
(***************************************************************************)
(* Accounts, roles and logins: the first account, the login and its        *)
(* tokens, the password (app/routers/api/auth.py), the management of users *)
(* (app/routers/api/users.py) and the check of a token and of a permission *)
(* (app/security.py), for several requests at a time.                      *)
(*                                                                         *)
(* A request reads, then commits: two steps.  A token names an account;    *)
(* roles are read anew with every request.  No token expires.              *)
(***************************************************************************)
EXTENDS Naturals, FiniteSets, Absent

CONSTANTS
    UserNames, Passwords,
    Sessions,   \* requests served at a time
    MaxChanges

VARIABLES
    users,      \* a name's account, or None
    tokens,     \* the names that tokens were given out for
    serving,    \* what a session is at, or None
    changes,
    overlap     \* ghost: two changes to accounts were in flight together

accessVars == <<users, tokens, serving, changes, overlap>>

Roles == {"admin", "manager", "viewer"}
Account == [roles: SUBSET Roles, password: Passwords]
Change == [kind: {"setup", "create", "roles", "delete", "password"}, name: UserNames,
           row: Account]

ASSUME AccessAssumption == MaxChanges \in Nat /\ None \notin Account /\ None \notin Change

AccessTypeOK ==
    /\ users \in [UserNames -> Account \cup {None}]
    /\ tokens \subseteq UserNames
    /\ serving \in [Sessions -> Change \cup {None}]
    /\ changes \in 0..MaxChanges /\ overlap \in BOOLEAN

AccessInit ==
    /\ users = [u \in UserNames |-> None]
    /\ tokens = {}
    /\ serving = [s \in Sessions |-> None]
    /\ changes = 0 /\ overlap = FALSE

-----------------------------------------------------------------------------
(* Who may call what.                                                       *)

Permissions ==
    [viewer  |-> {<<t, "read">> : t \in {"files", "paths", "stats", "browser", "tags", "storage",
                                         "authentication", "Remote Connections"}},
     manager |-> {<<t, "*">> : t \in {"files", "paths", "tags", "tag-rules", "criteria", "cleanup",
                                      "notifiers", "Remote Connections"}} \cup {<<"Encryption", "read">>}]

\* check_permission.
Permits(roles, tag, action) ==
    \/ "admin" \in roles
    \/ \E role \in roles \cap DOMAIN Permissions : {<<tag, action>>, <<tag, "*">>} \cap Permissions[role] # {}

\* get_current_user: a token is good as long as an account has its name.
SignedIn(u) == u \in tokens /\ users[u] # None
MayCall(u, tag, action) == SignedIn(u) /\ Permits(users[u].roles, tag, action)

-----------------------------------------------------------------------------
(* Changes of accounts.                                                     *)

Busy == {s \in Sessions : serving[s] \in Change}
Accept(s, change) ==
    /\ changes < MaxChanges /\ changes' = changes + 1
    /\ serving[s] = None
    /\ serving' = [serving EXCEPT ![s] = change]
    /\ overlap' = (overlap \/ Busy # {})
    /\ UNCHANGED <<users, tokens>>

\* POST /auth/setup, as long as there is no account.
Setup(s, u, p) ==
    /\ \A v \in UserNames : users[v] = None
    /\ Accept(s, [kind |-> "setup", name |-> u, row |-> [roles |-> {"admin"}, password |-> p]])

CreateUser(s, by, u, p) ==
    /\ MayCall(by, "admin", "write") /\ users[u] = None
    /\ Accept(s, [kind |-> "create", name |-> u, row |-> [roles |-> {"viewer"}, password |-> p]])

\* A bug: an admin may give up the role.
UpdateOwnRoles(s, by, u, roles) ==
    /\ MayCall(by, "admin", "write") /\ users[u] # None
    /\ Accept(s, [kind |-> "roles", name |-> u, row |-> [users[u] EXCEPT !.roles = roles]])

\* The roles of another, or one's own with the admin's.
UpdateUserRoles(s, by, u, roles) ==
    /\ MayCall(by, "admin", "write") /\ users[u] # None
    /\ u # by \/ "admin" \in roles
    /\ Accept(s, [kind |-> "roles", name |-> u, row |-> [users[u] EXCEPT !.roles = roles]])

DeleteUser(s, by, u) ==
    /\ MayCall(by, "admin", "write") /\ users[u] # None /\ u # by
    /\ Accept(s, [kind |-> "delete", name |-> u, row |-> users[u]])

\* One's own, with the old one.
ChangePassword(s, u, p) ==
    /\ SignedIn(u)
    /\ Accept(s, [kind |-> "password", name |-> u, row |-> [users[u] EXCEPT !.password = p]])

\* A name is unique; an update or a deletion wants its row.  An update writes the
\* columns it has set; the setup gives out a token.
CommitChange(s) ==
    LET c == serving[s]
        new == c.kind \in {"setup", "create"}
    IN  /\ c \in Change
        /\ users' = IF new = (users[c.name] # None) THEN users
                    ELSE [users EXCEPT ![c.name] =
                            IF new THEN c.row
                            ELSE IF c.kind = "delete" THEN None
                            ELSE IF c.kind = "roles" THEN [@ EXCEPT !.roles = c.row.roles]
                            ELSE [@ EXCEPT !.password = c.row.password]]
        /\ tokens' = tokens \cup IF c.kind = "setup" /\ users[c.name] = None THEN {c.name} ELSE {}
        /\ serving' = [serving EXCEPT ![s] = None]
        /\ UNCHANGED <<changes, overlap>>

-----------------------------------------------------------------------------
\* POST /auth/login, once the limiter has let it through (module LoginLimit), and
\* POST /auth/tokens: authenticate_user, and a token.
Authenticate(u, p) ==
    /\ users[u] # None /\ users[u].password = p
    /\ tokens' = tokens \cup {u}
    /\ UNCHANGED <<users, serving, changes, overlap>>

AccessNext ==
    \/ \E s \in Sessions, u \in UserNames :
          \/ \E p \in Passwords : Setup(s, u, p) \/ ChangePassword(s, u, p)
          \/ \E by \in UserNames :
                \/ DeleteUser(s, by, u)
                \/ \E p \in Passwords : CreateUser(s, by, u, p)
                \/ \E roles \in SUBSET Roles : UpdateUserRoles(s, by, u, roles)
    \/ \E u \in UserNames, p \in Passwords : Authenticate(u, p)
    \/ \E s \in Sessions : CommitChange(s)

AccessSpec == AccessInit /\ [][AccessNext]_accessVars

-----------------------------------------------------------------------------
\* "Prevent removing own admin role to avoid lockout" (users.py:86): once there
\* is an account there is an admin, whatever the admins do to each other, unless
\* two changes are in flight at a time.
AdminRemains ==
    overlap \/ (\A u \in UserNames : users[u] = None)
            \/ \E u \in UserNames : users[u] # None /\ "admin" \in users[u].roles
=============================================================================
