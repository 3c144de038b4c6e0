------------------------------ MODULE Accounts ------------------------------
(* Accounts: users, the sessions that authenticate their requests, the roles *)
(* they hold, the administration of both, and the row that stands for every  *)
(* anonymous editor.                                                         *)
EXTENDS Requests

CONSTANTS
  Founder,        \* the accounts and the roles there are from the start
  Administrator,  \* the founder who is logged in and holds the role that may do everything
  Anonymous       \* the fixed id of the anonymous editor

Perm == {"users", "roles"}

UserId == Founder \cup Request \cup {Anonymous}
SessionId == Founder \cup Request
RoleId == Founder \cup Request

VARIABLES
  users,     \* id -> "own", a name of its own, or "Anonymous", or Nil
  sessions,  \* id -> the user it authenticates, Nil once deleted or expired
  roles,     \* id -> row, or Nil
  held,      \* which user holds which role
  ended      \* history: the sessions deleted by a log-out

acVars == <<users, sessions, roles, held, ended>>

-----------------------------------------------------------------------------

RoleRows == [title : RoleId, perms : SUBSET Perm]

\* Nobody has the id of another, and nothing is neither an id nor a row.
ASSUME AccountsAssumption ==
  /\ Founder \cap Request = {}
  /\ Administrator \in Founder
  /\ Anonymous \notin Founder \cup Request
  /\ Nil \notin UserId
  /\ Nil \notin RoleRows \cup {"own", "Anonymous"}

RoleRow(title, perms) == [title |-> title, perms |-> perms]

AcInit ==
  /\ users = [u \in UserId |-> IF u \in Founder THEN "own" ELSE Nil]
  /\ sessions = [s \in SessionId |-> IF s = Administrator THEN s ELSE Nil]
  /\ roles = [x \in RoleId |->
                CASE x = Administrator -> RoleRow(x, Perm)
                  [] x \in Founder \ {Administrator} -> RoleRow(x, {})
                  [] OTHER -> Nil]
  /\ held = {<<Administrator, Administrator>>}
  /\ ended = {}

NameTaken == \E u \in UserId : users[u] = "Anonymous"

\* The users that can have a password, and the roles there are.
Given == {u \in UserId \ {Anonymous} : users[u] # Nil}
Defined == {x \in RoleId : roles[x] # Nil}

\* A name of one's own, or the one the anonymous editor is given later: no
\* name is reserved.  The column is UNIQUE.
Register(r) ==
  /\ \E name \in {"own", "Anonymous"} :
       /\ name = "Anonymous" => ~NameTaken
       /\ users' = [users EXCEPT ![r] = name]
  /\ Arrive(r, "accounts", "register", r, "log", Nil)
  /\ Changes(r)
  /\ UNCHANGED <<sessions, roles, held, ended, audit>>

\* The right name and password; the anonymous editor has none.
CheckPassword(r) ==
  /\ \E u \in Given : Arrive(r, "accounts", "login", u, "session", Nil)
  /\ UNCHANGED <<acVars, audit, changed>>

OpenSession(r) ==
  /\ At(r, "login", "session")
  /\ sessions' = [sessions EXCEPT ![r] = h[r].key]
  /\ Changes(r)
  /\ Go(r, "log")
  /\ UNCHANGED <<users, roles, held, ended, audit>>

\* Log-ins, log-outs and registrations are answered although the store refuses
\* their entry.
GoUnlogged(r) ==
  /\ Lossy
  /\ h[r].pc = "log" /\ h[r].op \in {"register", "login", "logout"}
  /\ Go(r, "done")
  /\ UNCHANGED <<acVars, audit, changed>>

\* Its time has come; rows are kept, and read as if they were gone.
Expire(s) ==
  /\ topic = "accounts"
  /\ sessions[s] # Nil
  /\ sessions' = [sessions EXCEPT ![s] = Nil]
  /\ UNCHANGED <<h, users, roles, held, ended, audit, changed>>

-----------------------------------------------------------------------------
(* Requests that carry a session.                                            *)

Required(op) ==
  CASE op \in {"logout", "logoutAll"} -> {}
    [] op \in {"assign", "revoke"} -> {"users"}
    [] op \in {"createRole", "updateRole", "deleteRole"} -> {"roles"}

Permissions(u) == UNION {roles[x].perms : x \in {y \in RoleId : <<u, y>> \in held}}

\* What the request is about: a role, and a user or a part of the row.  An id
\* is not known before there is a row of it.
Targets(op) ==
  CASE op \in {"logout", "logoutAll", "createRole"} -> {Nil}
    [] op \in {"assign", "revoke"} -> Given \X Defined
    [] op = "updateRole" -> {"title", "perms"} \X Defined
    [] op = "deleteRole" -> {Nil} \X Defined

\* The session is read, and its user.
Authenticate(r) ==
  /\ \E s \in SessionId,
        op \in {"logout", "logoutAll", "assign", "revoke",
                "createRole", "updateRole", "deleteRole"} :
       /\ sessions[s] # Nil
       /\ \E target \in Targets(op) :
            Arrive(r, "accounts", op, target, "authorise",
                   [session |-> s, user |-> sessions[s], role |-> Nil])
  /\ UNCHANGED <<acVars, audit, changed>>

\* Mutant of Touch: inserts the row where it has gone.
TouchInserts(r) == sessions' = [sessions EXCEPT ![h[r].seen.session] = h[r].seen.user]

\* UPDATE of last_seen_at, which the model leaves out: no row, no effect.
Touch(r) == UNCHANGED sessions

\* The roles of the user are read, whatever became of the session meanwhile.
Authorise(r) ==
  /\ h[r].pc = "authorise"
  /\ Touch(r)
  /\ Go(r, IF Required(h[r].op) \subseteq Permissions(h[r].seen.user)
           THEN "read" ELSE "refused")
  /\ UNCHANGED <<users, roles, held, ended, audit, changed>>

\* Only the session that was presented; it may be gone.
Logout(r) ==
  LET s == h[r].seen.session
  IN /\ At(r, "logout", "read")
     /\ sessions' = [sessions EXCEPT ![s] = Nil]
     /\ Changes(r)
     /\ ended' = ended \cup {s}
     /\ Go(r, "log")
     /\ UNCHANGED <<users, roles, held, audit>>

\* Every session of the user, without an entry.
LogoutAll(r) ==
  LET mine == {s \in SessionId : sessions[s] = h[r].seen.user}
  IN /\ At(r, "logoutAll", "read")
     /\ sessions' = [s \in SessionId |-> IF s \in mine THEN Nil ELSE sessions[s]]
     /\ ended' = ended \cup mine
     /\ Go(r, "done")
     /\ UNCHANGED <<users, roles, held, audit, changed>>

-----------------------------------------------------------------------------
(* Roles.                                                                    *)

Target(r) == h[r].key[2]

ReadRow(r) == GoWith(r, "write", [h[r].seen EXCEPT !.role = roles[Target(r)]])

CreateRole(r) ==
  /\ At(r, "createRole", "read")
  /\ \E perms \in SUBSET Perm : roles' = [roles EXCEPT ![r] = RoleRow(r, perms)]
  /\ Changes(r)
  /\ Go(r, "log")
  /\ UNCHANGED <<users, sessions, held, ended, audit>>

\* The user, the role and what the user holds are read before one is given or
\* taken.  Assigning a list is this for each role of it.
ReadHeld(r) ==
  /\ h[r].op \in {"assign", "revoke"} /\ h[r].pc = "read"
  /\ IF roles[Target(r)] = Nil
     THEN Go(r, "refused")
     ELSE IF h[r].key \notin held THEN Go(r, "write")
     ELSE IF h[r].op = "assign" THEN Go(r, "done")
     ELSE ReadRow(r)
  /\ UNCHANGED <<acVars, audit, changed>>

\* ON CONFLICT DO NOTHING; the foreign key refuses a role that has gone.
Assign(r) ==
  /\ At(r, "assign", "write")
  /\ \/ /\ roles[Target(r)] # Nil
        /\ held' = held \cup {h[r].key}
        /\ IF h[r].key \in held THEN UNCHANGED changed ELSE Changes(r)
        /\ Go(r, "log")
     \/ /\ roles[Target(r)] = Nil
        /\ Go(r, "refused")
        /\ UNCHANGED <<held, changed>>
  /\ UNCHANGED <<users, sessions, roles, ended, audit>>

\* Whether it is logged was decided by the read.
Revoke(r) ==
  /\ At(r, "revoke", "write")
  /\ held' = held \ {h[r].key}
  /\ IF h[r].key \in held THEN Changes(r) ELSE UNCHANGED changed
  /\ Go(r, IF h[r].seen.role # Nil THEN "log" ELSE "done")
  /\ UNCHANGED <<users, sessions, roles, ended, audit>>

ReadRole(r) ==
  /\ At(r, "updateRole", "read")
  /\ IF roles[Target(r)] = Nil
     THEN Go(r, "refused")
     ELSE ReadRow(r)
  /\ UNCHANGED <<acVars, audit, changed>>

\* The whole row goes back, the part that was not asked for as it was read.
UpdateRole(r) ==
  /\ At(r, "updateRole", "write")
  /\ \/ /\ roles[Target(r)] # Nil
        /\ \/ /\ h[r].key[1] = "title"
              /\ roles' = [roles EXCEPT ![Target(r)] = RoleRow(r, h[r].seen.role.perms)]
           \/ /\ h[r].key[1] = "perms"
              /\ \E perms \in (SUBSET Perm) \ {h[r].seen.role.perms} :
                   roles' = [roles EXCEPT ![Target(r)] = RoleRow(h[r].seen.role.title, perms)]
        /\ Changes(r)
        /\ Go(r, "log")
     \/ /\ roles[Target(r)] = Nil
        /\ Go(r, "refused")
        /\ UNCHANGED <<roles, changed>>
  /\ UNCHANGED <<users, sessions, held, ended, audit>>

Holders(x) == {u \in UserId : <<u, x>> \in held}

CountHolders(r) ==
  /\ At(r, "deleteRole", "read")
  /\ Go(r, IF roles[Target(r)] # Nil /\ Holders(Target(r)) = {} THEN "write" ELSE "refused")
  /\ UNCHANGED <<acVars, audit, changed>>

\* Mutant of DeleteRole: without NOT EXISTS; ON DELETE CASCADE.
DeleteRoleCascades(r) ==
  /\ At(r, "deleteRole", "write")
  /\ roles' = [roles EXCEPT ![Target(r)] = Nil]
  /\ held' = {p \in held : p[2] # Target(r)}
  /\ IF roles[Target(r)] # Nil
     THEN Changes(r) /\ Go(r, "log")
     ELSE Go(r, "refused") /\ UNCHANGED changed
  /\ UNCHANGED <<users, sessions, ended, audit>>

\* One statement: DELETE ... WHERE NOT EXISTS (an assignment).
DeleteRole(r) ==
  /\ At(r, "deleteRole", "write")
  /\ \/ /\ roles[Target(r)] # Nil /\ Holders(Target(r)) = {}
        /\ roles' = [roles EXCEPT ![Target(r)] = Nil]
        /\ Changes(r)
        /\ Go(r, "log")
     \/ /\ roles[Target(r)] = Nil \/ Holders(Target(r)) # {}
        /\ Go(r, "refused")
        /\ UNCHANGED <<roles, changed>>
  /\ UNCHANGED <<users, sessions, held, ended, audit>>

-----------------------------------------------------------------------------
(* Edits without a session.                                                  *)

FindAnonymous(r) ==
  /\ Arrive(r, "accounts", "edit", Nil, IF users[Anonymous] = Nil THEN "ensure" ELSE "insert", Nil)
  /\ UNCHANGED <<acVars, audit, changed>>

\* Mutant of EnsureAnonymous: every error is taken for a row that is there.
EnsureAnonymousTrusts(r) ==
  /\ At(r, "edit", "ensure")
  /\ \/ UNCHANGED users
     \/ ~NameTaken /\ users' = [users EXCEPT ![Anonymous] = "Anonymous"]
  /\ Go(r, "insert")
  /\ UNCHANGED <<sessions, roles, held, ended, audit, changed>>

\* A conflict is taken for somebody else's insert of the same row.
EnsureAnonymous(r) ==
  /\ At(r, "edit", "ensure")
  /\ users' = IF NameTaken THEN users ELSE [users EXCEPT ![Anonymous] = "Anonymous"]
  /\ Go(r, "insert")
  /\ UNCHANGED <<sessions, roles, held, ended, audit, changed>>

\* The author of the revision is a foreign key.
InsertEdit(r) ==
  /\ At(r, "edit", "insert")
  /\ Go(r, IF users[Anonymous] = Nil THEN "refused" ELSE "done")
  /\ UNCHANGED <<acVars, audit, changed>>

AcStep(r) ==
  \/ Register(r) \/ CheckPassword(r) \/ OpenSession(r) \/ GoUnlogged(r)
  \/ Authenticate(r) \/ Authorise(r) \/ Logout(r) \/ LogoutAll(r)
  \/ CreateRole(r)
  \/ ReadHeld(r) \/ Assign(r) \/ Revoke(r)
  \/ ReadRole(r) \/ UpdateRole(r)
  \/ CountHolders(r) \/ DeleteRole(r)
  \/ FindAnonymous(r) \/ EnsureAnonymous(r) \/ InsertEdit(r)

-----------------------------------------------------------------------------

AcTypeOK ==
  /\ users \in [UserId -> {"own", "Anonymous", Nil}]
  /\ sessions \in [SessionId -> UserId \cup {Nil}]
  /\ roles \in [RoleId -> RoleRows \cup {Nil}]
  /\ held \subseteq UserId \X RoleId
  /\ ended \subseteq SessionId

\* Nobody loses a role but by a revocation of it, although a role may be
\* assigned between the count of its holders and its deletion ("deleting a
\* role with assignments would silently detach all users from it").
RolesNotDetached ==
  [][\A p \in held \ held' : \E r \in Request : At(r, "revoke", "write") /\ h[r].key = p]_held

\* Once a log-out has deleted a session, nothing brings it back, whatever the
\* requests that were authenticated by it still do.
LogoutIsFinal == \A s \in ended : sessions[s] = Nil

\* An anonymous edit gets to its insert only when there is an author to credit,
\* whoever creates the row first, unless somebody registered under the name
\* ("the row is there, job done").
AnonymousUnlessTaken ==
  \A r \in Request :
    At(r, "edit", "insert") => users[Anonymous] # Nil \/ NameTaken

=============================================================================
