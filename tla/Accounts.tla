------------------------------ MODULE Accounts ------------------------------
(***************************************************************************)
(* User accounts: roles, the maintenance each PM and guest is assigned to, *)
(* and the start of the application, which makes the default root account  *)
(* when there is no root.  Root users create, update and delete; a guest   *)
(* registers by itself; the deletion of a maintenance takes its users      *)
(* along.  A request is allowed by the role in its token, which stays as   *)
(* it was at login.  A create or update checks first and commits later:    *)
(* one of them at a time may be overtaken by other requests (a bound).     *)
(* Names and passwords are left out, but for the user name of the default  *)
(* root, that of user 1; so is is_active, which only keeps from a login.   *)
(***************************************************************************)
EXTENDS Naturals, FiniteSets

CONSTANTS
  Projects,   \* maintenance ids
  MaxUsers,   \* bound on the accounts at a time
  NoProject,  \* NULL or the empty string
  Keep        \* a field that a request does not send; no account

UserIds == 1..MaxUsers
DefaultRoot == 1
Roles == {"root", "pm", "guest"}

ASSUME AccountAssumption ==
  /\ MaxUsers \in Nat \ {0} /\ NoProject \notin Projects
  /\ Keep \notin Projects \cup {NoProject} /\ Keep \notin UserIds /\ Keep \notin Roles
  /\ Keep \notin [role : Roles, project : Projects \cup {NoProject}]

VARIABLES
  app,       \* the application: down, up, failed (its start raised an error)
  projects,  \* maintenances that exist
  user,      \* users
  token,     \* users with a token that says root
  update,    \* a create_user or update_user request between its checks and its commit
  excused    \* history: maintenances with more PMs than one for a reason OnePM names

accountVars == <<app, projects, user, token, update, excused>>

User == [role : Roles, project : Projects \cup {NoProject}]
Change == [role : Roles \cup {Keep}, project : Projects \cup {NoProject, Keep}]
NoUpdate == [target |-> Keep]

\* Target 0 is a user to be made.  unchecked: its PM was not looked for, or another
\* request came since.
Update == [target : UserIds \cup {0}, change : Change, unchecked : BOOLEAN]

AccountsTypeOK ==
  /\ app \in {"down", "up", "failed"}
  /\ projects \subseteq Projects
  /\ user \in [UserIds -> User \cup {Keep}]
  /\ token \subseteq {u \in UserIds : user[u] # Keep}
  /\ update \in Update \cup {NoUpdate}
  /\ excused \subseteq Projects

AccountsInit ==
  /\ app = "down" /\ projects = {} /\ token = {} /\ excused = {}
  /\ user = [u \in UserIds |-> Keep]
  /\ update = NoUpdate

HasAccount(u) == user[u] # Keep
With(role) == {u \in UserIds : HasAccount(u) /\ user[u].role = role}
PMsOf(p, users) == {u \in UserIds : users[u] # Keep /\ users[u].role = "pm" /\ users[u].project = p}

Excuses(ps) == excused' = {p \in excused \cup ps : Cardinality(PMsOf(p, user')) > 1}
OvertakesUpdate ==
  update' = IF update = NoUpdate THEN NoUpdate ELSE [update EXCEPT !.unchecked = TRUE]

-----------------------------------------------------------------------------
(* The application starts and stops: create_root_if_not_exists. *)

RootAccount == [role |-> "root", project |-> NoProject]

\* One root is looked for: two are an error, and so is the user name in other hands.
AppStarts ==
  /\ app = "down"
  /\ \/ With("root") = {} /\ ~HasAccount(DefaultRoot)
        /\ user' = [user EXCEPT ![DefaultRoot] = RootAccount] /\ app' = "up"
     \/ Cardinality(With("root")) = 1 /\ app' = "up" /\ UNCHANGED user
     \/ (Cardinality(With("root")) > 1 \/ (With("root") = {} /\ HasAccount(DefaultRoot)))
        /\ app' = "failed" /\ UNCHANGED user
  /\ UNCHANGED <<projects, token, update, excused>>

AppStops ==
  /\ app = "up"
  /\ app' = "down" /\ update' = NoUpdate
  /\ UNCHANGED <<projects, user, token, excused>>

-----------------------------------------------------------------------------
(* Requests. *)

Login(u) ==
  /\ u \in With("root") \ token
  /\ token' = token \cup {u}
  /\ UNCHANGED <<app, projects, user, update, excused>>

TokenExpires(u) ==
  /\ u \in token /\ token' = token \ {u}
  /\ UNCHANGED <<app, projects, user, update, excused>>

\* The next free place, never that of the default root: its user name is taken or kept.
NextUser(u) ==
  /\ u # DefaultRoot /\ ~HasAccount(u)
  /\ \A w \in UserIds \ {DefaultRoot} : ~HasAccount(w) => u <= w

SetsUser(u, account) ==
  /\ user' = [user EXCEPT ![u] = account]
  /\ UNCHANGED <<app, projects, token>>

\* Mutant: a maintenance may have two PMs.
VacantAny(role, p, except) == TRUE
Vacant(role, p, except) ==
  role = "pm" /\ p # NoProject => PMsOf(p, user) \subseteq {except}

RegisterGuest(p) ==
  /\ p \in projects
  /\ \E u \in UserIds : NextUser(u) /\ SetsUser(u, [role |-> "guest", project |-> p])
  /\ OvertakesUpdate /\ Excuses({})

NewAccount(role, p) == [role |-> role, project |-> IF role = "root" THEN NoProject ELSE p]
MayCreate(role, p) ==
  /\ role \in {"pm", "guest"} => p # NoProject
  /\ Vacant(role, p, Keep)
  /\ p = NoProject \/ p \in projects

CreateUser(role, p) ==
  /\ MayCreate(role, p)
  /\ \E u \in UserIds : NextUser(u) /\ SetsUser(u, NewAccount(role, p))
  /\ OvertakesUpdate /\ Excuses({})

\* The same in two steps, of which UpdateCommitted is the second.
Checked(u, change, unchecked) ==
  /\ update = NoUpdate
  /\ update' = [target |-> u, change |-> change, unchecked |-> unchecked]
  /\ UNCHANGED <<app, projects, user, token, excused>>

CreateChecked(role, p) == MayCreate(role, p) /\ Checked(0, NewAccount(role, p), FALSE)

Given(value, old) == IF value = Keep THEN old ELSE value
Edited(account, c) == [f \in DOMAIN account |-> Given(c[f], account[f])]
\* Only what differs from the row that was read is written.
Differing(account, c) == [f \in DOMAIN c |-> IF c[f] = account[f] THEN Keep ELSE c[f]]

\* The PM of a maintenance is only looked for when the role is sent.
UpdateChecked(actor, u, c) ==
  /\ HasAccount(u) /\ (c.role # Keep => u # actor)
  /\ c.role = "pm" => Vacant("pm", Given(c.project, user[u].project), u)
  /\ c.project \in projects \cup {NoProject, Keep}
  /\ Checked(u, Differing(user[u], c), c.role = Keep)

UpdateCommitted ==
  /\ update # NoUpdate
  /\ \E u \in UserIds :
       /\ IF update.target = 0 THEN NextUser(u) /\ SetsUser(u, update.change)
          ELSE u = update.target /\ SetsUser(u, Edited(user[u], update.change))
       /\ Excuses(IF update.unchecked THEN {user'[u].project} \cap Projects ELSE {})
  /\ update' = NoUpdate

UpdateRefused ==
  /\ update # NoUpdate
  /\ update' = NoUpdate
  /\ UNCHANGED <<app, projects, user, token, excused>>

\* An update of a user that is gone has nothing to commit.
Removes(us) ==
  /\ user' = [u \in UserIds |-> IF u \in us THEN Keep ELSE user[u]]
  /\ token' = token \ us
  /\ IF update.target \in us THEN update' = NoUpdate ELSE OvertakesUpdate
  /\ Excuses({})
  /\ UNCHANGED app

DeleteUser(actor, u) ==
  /\ HasAccount(u) /\ user[u].role # "root" /\ u # actor
  /\ Removes({u})
  /\ UNCHANGED projects

CreateProject(p) ==
  /\ p \notin projects
  /\ projects' = projects \cup {p}
  /\ UNCHANGED <<app, user, token, update, excused>>

DeleteProject(p) ==
  /\ p \in projects
  /\ projects' = projects \ {p}
  /\ Removes({u \in UserIds : HasAccount(u) /\ user[u].project = p /\ user[u].role # "root"})

AccountsNext ==
  \/ AppStarts \/ AppStops
  \/ /\ app = "up"
     /\ \/ \E p \in Projects : RegisterGuest(p)
        \/ UpdateCommitted \/ UpdateRefused
        \/ \E u \in UserIds : Login(u) \/ TokenExpires(u)
        \/ \E actor \in token :
             \/ \E role \in Roles, p \in Projects \cup {NoProject} :
                  CreateUser(role, p) \/ CreateChecked(role, p)
             \/ \E u \in UserIds :
                  \/ \E c \in Change : UpdateChecked(actor, u, c)
                  \/ DeleteUser(actor, u)
             \/ \E p \in Projects : CreateProject(p) \/ DeleteProject(p)

AccountsSpec == AccountsInit /\ [][AccountsNext]_accountVars

-----------------------------------------------------------------------------
(* Properties. *)

\* A maintenance has one PM at most ("每個歲修只能有一位執秘"): creates, changes of role and
\* re-made maintenances keep to it.  Excused is a maintenance as long as it has two PMs for
\* an update that did not send the role, which is not checked, or a request overtaken.
OnePM == \A p \in Projects \ excused : Cardinality(PMsOf(p, user)) <= 1

\* The application starts, whatever users did before ("建立預設 root 帳號（若不存在）").
AlwaysStarts == app # "failed"
=============================================================================
