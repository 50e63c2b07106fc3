------------------------------ MODULE Accounts ------------------------------
(***************************************************************************)
(* Users and their roles: MemberService, whose requests come from the      *)
(* members page, and OidcService, which signs users in through an identity *)
(* provider and gives them the roles their groups map to. The tokens that  *)
(* a sign-in ends with are left out.                                       *)
(***************************************************************************)
EXTENDS Naturals, FiniteSets

CONSTANTS
  Users,      \* e-mail addresses
  Founder,    \* the administrator of the seed
  Admin,      \* the role "admin"
  Roles,      \* all roles
  Changes,    \* member requests that may be in progress
  Logins,     \* sign-ins through the provider that may be in progress
  MaxStates   \* bound of the CSRF states given out

ASSUME AccountAssumption == Founder \in Users /\ Admin \in Roles /\ MaxStates \in Nat

VARIABLES
  account,  \* user rows: none, "local" (password) or "sso" (oidc: hash)
  active,   \* User.active
  roles,    \* UserRole rows
  change,   \* a member request: its step, operation, user and argument
  login,    \* a callback of the provider: its step, user and roles
  csrf,     \* states in Redis
  given,    \* states given out so far
  adminSet, \* roles of a local user as last set by an administrator, a history
  unguarded, \* an administrator was taken away past the guard, a history
  overtaken \* a user became local after a sign-in had looked, a history

accVars == <<account, active, roles, change, login, csrf, given, adminSet, unguarded, overtaken>>
accRows == <<account, active, roles, adminSet>>
accRest == <<login, csrf, given, overtaken>>

NoChange == [step |-> "idle"]
NoLogin  == [step |-> "idle"]
Exists(u)       == account[u] # "none"
ActiveAdmins    == {u \in Users : Exists(u) /\ active[u] /\ Admin \in roles[u]}
States          == 1 .. MaxStates
\* Requests that have passed the guard or do not need it, and have yet to write.
PastGuard(q)    == change[q].step \in {"write", "insert"}
OthersPastGuard(q) == \E p \in Changes \ {q} : PastGuard(p)
Writes(q)       == unguarded' = (unguarded \/ OthersPastGuard(q))

AccountTypeOK ==
  /\ account \in [Users -> {"none", "local", "sso"}]
  /\ active \in [Users -> BOOLEAN]
  /\ roles \in [Users -> SUBSET Roles] /\ adminSet \in [Users -> SUBSET Roles]
  /\ csrf \subseteq States /\ given \in 0 .. MaxStates
  /\ unguarded \in BOOLEAN /\ overtaken \in BOOLEAN

\* The seed creates the first administrator.
AccountInit ==
  /\ account = [u \in Users |-> IF u = Founder THEN "local" ELSE "none"]
  /\ active = [u \in Users |-> u = Founder]
  /\ roles = [u \in Users |-> IF u = Founder THEN {Admin} ELSE {}]
  /\ adminSet = roles
  /\ change = [q \in Changes |-> NoChange]
  /\ login = [l \in Logins |-> NoLogin]
  /\ csrf = {} /\ given = 0
  /\ unguarded = FALSE /\ overtaken = FALSE

-----------------------------------------------------------------------------
(* MemberService *)

SetChange(q, c) == change' = [change EXCEPT ![q] = c]
Request(op, u, arg, step) == [step |-> step, op |-> op, user |-> u, arg |-> arg]

\* create: an address in use is refused by the check or by the unique key.
CreateMember(q, u, rs) ==
  /\ change[q] = NoChange /\ account[u] = "none"
  /\ account' = [account EXCEPT ![u] = "local"]
  /\ active' = [active EXCEPT ![u] = TRUE]
  /\ roles' = [roles EXCEPT ![u] = rs]
  /\ adminSet' = [adminSet EXCEPT ![u] = rs]
  /\ UNCHANGED <<change, accRest, unguarded>>

\* update, remove and setRoles find the user; what may take an administrator
\* away goes by the guard.
BeginChange(q, op, u, arg, step) ==
  /\ change[q] = NoChange /\ Exists(u)
  /\ SetChange(q, Request(op, u, arg, step))
  /\ UNCHANGED <<accRows, accRest, unguarded>>

\* The page's switch sends the opposite of what it shows, which may be old.
ToggleActive(q, u) == BeginChange(q, "active", u, {}, "count") \/ BeginChange(q, "active", u, {TRUE}, "write")

ConfirmDelete(q, u) == BeginChange(q, "remove", u, {}, "count")

\* The dialog begins with roles the page has shown before: any set.
SaveRoles(q, u, rs) == BeginChange(q, "roles", u, rs, IF Admin \in rs THEN "write" ELSE "count")

SetPassword(q, u) == BeginChange(q, "password", u, {}, "write")

\* Mutant: the administrators are counted whether they are active or not.
CountInactive(q) ==
  /\ change[q].step = "count"
  /\ LET admins == {u \in Users : Exists(u) /\ Admin \in roles[u]} IN
     SetChange(q, [change[q] EXCEPT !.step = IF Cardinality(admins) > 1 THEN "write" ELSE "look"])
  /\ UNCHANGED <<accRows, accRest, unguarded>>

\* assertNotLastActiveAdmin: with several active administrators there is no
\* more to look at.
CountAdmins(q) ==
  /\ change[q].step = "count"
  /\ SetChange(q, [change[q] EXCEPT !.step =
       IF Cardinality(ActiveAdmins) > 1 THEN "write" ELSE "look"])
  /\ UNCHANGED <<accRows, accRest, unguarded>>

\* With one, a user who is an administrator, active or not, is kept.
LookAtTarget(q) ==
  /\ change[q].step = "look"
  /\ LET u == change[q].user IN
     IF Exists(u) /\ Admin \in roles[u]
     THEN SetChange(q, NoChange)
     ELSE SetChange(q, [change[q] EXCEPT !.step = "write"])
  /\ UNCHANGED <<accRows, accRest, unguarded>>

\* The user is gone by now: the write fails.
ChangeFails(q) ==
  /\ PastGuard(q) /\ ~Exists(change[q].user)
  /\ SetChange(q, NoChange)
  /\ UNCHANGED <<accRows, accRest, unguarded>>

\* Deactivation or activation; a new password makes a user of the provider a
\* local one.
WriteUser(q) ==
  /\ change[q].step = "write" /\ Exists(change[q].user)
  /\ LET u == change[q].user IN
     \/ /\ change[q].op = "active"
        /\ active' = [active EXCEPT ![u] = (TRUE \in change[q].arg)]
        /\ UNCHANGED <<account, roles, adminSet>>
     \/ /\ change[q].op = "remove"
        /\ account' = [account EXCEPT ![u] = "none"]
        /\ active' = [active EXCEPT ![u] = FALSE]
        /\ roles' = [roles EXCEPT ![u] = {}]
        /\ adminSet' = [adminSet EXCEPT ![u] = {}]
     \/ /\ change[q].op = "password"
        /\ account' = [account EXCEPT ![u] = "local"]
        /\ adminSet' = [adminSet EXCEPT ![u] = roles[u]]
        /\ UNCHANGED <<active, roles>>
  /\ SetChange(q, NoChange)
  /\ Writes(q)
  /\ UNCHANGED accRest

SetByAdmin(u, rs) ==
  adminSet' = IF account[u] = "local" THEN [adminSet EXCEPT ![u] = rs] ELSE adminSet

\* setRoles deletes the user's roles ...
DeleteRoles(q) ==
  /\ change[q].step = "write" /\ change[q].op = "roles" /\ Exists(change[q].user)
  /\ roles' = [roles EXCEPT ![change[q].user] = {}]
  /\ SetByAdmin(change[q].user, {})
  /\ SetChange(q, [change[q] EXCEPT !.step = "insert"])
  /\ Writes(q)
  /\ UNCHANGED <<account, active, accRest>>

\* ... and inserts the new ones, unless one of them exists again.
InsertRoles(q) ==
  /\ change[q].step = "insert" /\ Exists(change[q].user)
  /\ LET u == change[q].user
         rs == IF roles[u] \intersect change[q].arg = {} THEN roles[u] \union change[q].arg ELSE roles[u]
     IN /\ roles' = [roles EXCEPT ![u] = rs]
        /\ SetByAdmin(u, rs)
        /\ unguarded' = (unguarded \/ Admin \in change[q].arg \ rs \/ OthersPastGuard(q))
  /\ SetChange(q, NoChange)
  /\ UNCHANGED <<account, active, accRest>>

\* The API process dies, or the database refuses a statement.
ChangeDies(q) ==
  /\ change[q] # NoChange
  /\ SetChange(q, NoChange)
  /\ unguarded' = (unguarded \/ change[q].step = "insert")
  /\ UNCHANGED <<accRows, accRest>>

-----------------------------------------------------------------------------
(* OidcService *)

SetLogin(l, v) == login' = [login EXCEPT ![l] = v]

\* authorizationUrl remembers a new state in Redis.
AuthorizationUrl ==
  /\ given < MaxStates
  /\ given' = given + 1
  /\ csrf' = csrf \union {given + 1}
  /\ UNCHANGED <<accRows, change, login, unguarded, overtaken>>

StateExpires(s) ==
  /\ s \in csrf
  /\ csrf' = csrf \ {s}
  /\ UNCHANGED <<accRows, change, login, given, unguarded, overtaken>>

\* handleCallback: whoever deletes the state goes on; the provider then names
\* the user and the groups, which map to any roles.
Callback(l, s) ==
  /\ login[l] = NoLogin /\ s \in csrf
  /\ csrf' = csrf \ {s}
  /\ \E u \in Users, rs \in SUBSET Roles :
       SetLogin(l, [step |-> "find", user |-> u, roles |-> rs, was |-> "none"])
  /\ UNCHANGED <<accRows, change, given, unguarded, overtaken>>

\* provisionUser looks whether a local user has the address ...
FindUser(l) ==
  /\ login[l].step = "find"
  /\ SetLogin(l, [login[l] EXCEPT !.step = "upsert", !.was = account[login[l].user]])
  /\ UNCHANGED <<accRows, change, csrf, given, unguarded, overtaken>>

\* Mutant: the roles of every user are made to match.
ManagesAll(l) == TRUE

\* oidcManaged
Manages(l) == login[l].was # "local"

\* ... creates the user or updates the name ...
Upsert(l) ==
  /\ login[l].step = "upsert"
  /\ LET u == login[l].user IN
     IF Exists(u) THEN UNCHANGED accRows
     ELSE /\ account' = [account EXCEPT ![u] = "sso"]
          /\ active' = [active EXCEPT ![u] = TRUE]
          /\ roles' = [roles EXCEPT ![u] = {}]
          /\ UNCHANGED adminSet
  /\ SetLogin(l, [login[l] EXCEPT !.step = IF Manages(l) THEN "clear" ELSE "load"])
  /\ UNCHANGED <<change, csrf, given, unguarded, overtaken>>

Overtakes(l) ==
  overtaken' = (overtaken \/ (account[login[l].user] = "local" /\ login[l].was # "local"))

\* ... and takes the roles of a user it manages away ...
ClearRoles(l) ==
  /\ login[l].step = "clear"
  /\ LET u == login[l].user IN
     /\ roles' = [roles EXCEPT ![u] = {}]
     /\ unguarded' = (unguarded \/ Admin \in roles[u])
  /\ Overtakes(l)
  /\ SetLogin(l, [login[l] EXCEPT !.step = "grant"])
  /\ UNCHANGED <<account, active, adminSet, change, csrf, given>>

\* ... to give those of the groups, one by one; a role that is there again, or
\* a user who is gone, fails the sign-in.
GrantRole(l) ==
  /\ login[l].step = "grant"
  /\ LET u == login[l].user IN
     \/ /\ login[l].roles = {}
        /\ SetLogin(l, [login[l] EXCEPT !.step = "load"])
        /\ UNCHANGED <<roles, overtaken>>
     \/ \E r \in login[l].roles :
          IF Exists(u) /\ r \notin roles[u]
          THEN /\ roles' = [roles EXCEPT ![u] = @ \union {r}]
               /\ Overtakes(l)
               /\ SetLogin(l, [login[l] EXCEPT !.roles = @ \ {r}])
          ELSE /\ SetLogin(l, NoLogin)
               /\ UNCHANGED <<roles, overtaken>>
  /\ UNCHANGED <<account, active, adminSet, change, csrf, given, unguarded>>

\* The provider answers with an error, or the API process dies.
LoginDies(l) ==
  /\ login[l] # NoLogin
  /\ SetLogin(l, NoLogin)
  /\ UNCHANGED <<accRows, change, csrf, given, unguarded, overtaken>>

\* The user is loaded and gets tokens, or is refused; no row changes.
FinishLogin(l) ==
  /\ login[l].step = "load"
  /\ SetLogin(l, NoLogin)
  /\ UNCHANGED <<accRows, change, csrf, given, unguarded, overtaken>>

ChangeStep(q) ==
  \/ CountAdmins(q) \/ LookAtTarget(q) \/ ChangeFails(q)
  \/ WriteUser(q) \/ DeleteRoles(q) \/ InsertRoles(q)

LoginStep(l) == FindUser(l) \/ Upsert(l) \/ ClearRoles(l) \/ GrantRole(l) \/ FinishLogin(l)

AccountNext ==
  \/ \E q \in Changes :
       \/ \E u \in Users, rs \in SUBSET Roles : CreateMember(q, u, rs) \/ SaveRoles(q, u, rs)
       \/ \E u \in Users : ToggleActive(q, u) \/ ConfirmDelete(q, u) \/ SetPassword(q, u)
       \/ ChangeStep(q) \/ ChangeDies(q)
  \/ AuthorizationUrl
  \/ \E s \in States : StateExpires(s) \/ \E l \in Logins : Callback(l, s)
  \/ \E l \in Logins : LoginStep(l) \/ LoginDies(l)

AccountSpec == AccountInit /\ [][AccountNext]_accVars

-----------------------------------------------------------------------------
(* Properties *)

\* Someone can always administer the system, whatever sequence of member
\* requests is made. The guard cannot see a request that has passed it and
\* has yet to write, a role change that dies halfway or whose insert a role
\* granted in between makes fail, or a sign-in that takes the role away; only
\* those can lose the last administrator.
AdminRemains ==
  ~unguarded /\ (\A q \in Changes : change[q].step # "insert") => ActiveAdmins # {}

\* A sign-in through the provider does not change the roles of a local user
\* with the same address, unless the user became local after it had looked.
LocalRolesKept ==
  ~overtaken => \A u \in Users : account[u] = "local" => roles[u] = adminSet[u]

=============================================================================
