------------------------------ MODULE Identity ------------------------------
(***************************************************************************)
(* Administrator accounts and their refresh tokens (auth/service.py): what *)
(* concurrent requests do to the tables admin_users and refresh_tokens.    *)
(*                                                                         *)
(* A request is one READ COMMITTED transaction.  It reads and checks rows, *)
(* then flushes its write, which takes the row's lock, then commits.  What *)
(* it checked may have changed by then, and an UPDATE names only the       *)
(* columns whose value differs from the one the request had read.          *)
(*                                                                         *)
(* Passwords, names and the access tokens' lifetime are left out: whoever  *)
(* once had a session may call.  XEREX_BOOTSTRAP_ENABLED is on.            *)
(***************************************************************************)
EXTENDS Integers, FiniteSets

CONSTANTS
  Workers, \* request slots: how many requests run at once
  Users,   \* the email addresses accounts may have
  Granted, \* the roles a run creates accounts with, within Roles
  Payloads,\* the changes of an account a run asks for, within Payload
  Tokens   \* bound: the refresh tokens that may ever be issued

\* Operators may write no account: to this code they are viewers.
Roles == {"owner", "admin", "viewer"}
WRITE_ROLES == {"owner", "admin"}
Statuses == {"active", "suspended"}

\* What update_user is sent; "keep" stands for a field left out.
Payload == [role: Roles \cup {"keep"}, status: Statuses \cup {"keep"}]

ASSUME IdentityAssumption ==
  /\ Granted \subseteq Roles
  /\ Payloads \subseteq Payload
  /\ IsFiniteSet(Workers)
  /\ Users \cap Tokens = {}
  /\ "none" \notin Users \cup Tokens

VARIABLES
  role,    \* role[u]: committed role of the account, "absent" without a row
  status,  \* status[u]: committed status of the account
  token,   \* token[t]: state of the refresh token's row
  holder,  \* holder[t]: the account t was issued to
  parent,  \* parent[t]: the token that was rotated into t, "none" for a login
  crown,   \* crown[u]: the account that made u an owner, u itself for a bootstrap
  pc,      \* pc[w]: how far the request of slot w is
  op,      \* op[w]: what it does
  actor,   \* actor[w]: the account that calls, or that the token belongs to
  rank,    \* rank[w]: the role of the actor when it was authorised
  target,  \* target[w]: the account that is written
  card,    \* card[w]: the refresh token that is presented
  newRole, \* newRole[w]: the role to write, "keep" for none
  newStatus, \* newStatus[w]: the status to write, "keep" for none
  fit      \* fit[w]: the actor was active at some moment since the request began

tables == <<role, status, token, holder, parent, crown>>
request == <<pc, op, actor, rank, target, card, newRole, newStatus, fit>>
vars == <<tables, request>>

Ops == {"bootstrap", "login", "refresh", "logout", "create", "update"}

Accounts == {u \in Users : role[u] # "absent"}
Absent == Users \ Accounts
Issued == {t \in Tokens : token[t] # "absent"}

Init ==
  /\ role = [u \in Users |-> "absent"]
  /\ status = [u \in Users |-> "active"]
  /\ token = [t \in Tokens |-> "absent"]
  /\ holder = [t \in Tokens |-> "none"]
  /\ parent = [t \in Tokens |-> "none"]
  /\ crown = [u \in Users |-> "none"]
  /\ pc = [w \in Workers |-> "idle"]
  /\ op = [w \in Workers |-> "login"]
  /\ actor = [w \in Workers |-> "none"]
  /\ rank = [w \in Workers |-> "none"]
  /\ target = [w \in Workers |-> "none"]
  /\ card = [w \in Workers |-> "none"]
  /\ newRole = [w \in Workers |-> "keep"]
  /\ newStatus = [w \in Workers |-> "keep"]
  /\ fit = [w \in Workers |-> FALSE]

-----------------------------------------------------------------------------
(* A request begins. *)

Begin(w, o, a, phase) ==
  /\ pc[w] = "idle"
  /\ op' = [op EXCEPT ![w] = o]
  /\ actor' = [actor EXCEPT ![w] = a]
  /\ pc' = [pc EXCEPT ![w] = phase]
  /\ fit' = [fit EXCEPT ![w] = a \in Accounts /\ status[a] = "active"]

\* bootstrap_owner: there is no account yet.
Bootstrap(w) ==
  /\ Accounts = {}
  /\ \E u \in Users :
       /\ Begin(w, "bootstrap", u, "checked")
       /\ target' = [target EXCEPT ![w] = u]
  /\ newRole' = [newRole EXCEPT ![w] = "owner"]
  /\ UNCHANGED <<tables, rank, card, newStatus>>

\* authenticate: the password is right and the account is active.
Login(w) ==
  /\ \E u \in Accounts :
       /\ status[u] = "active"
       /\ Begin(w, "login", u, "checked")
       /\ target' = [target EXCEPT ![w] = u]
  /\ UNCHANGED <<tables, rank, card, newRole, newStatus>>

\* refresh reads the row of the token it was given ...
PresentToken(w) ==
  /\ \E t \in Tokens :
       /\ token[t] = "live"
       /\ Begin(w, "refresh", holder[t], "presented")
       /\ card' = [card EXCEPT ![w] = t]
  /\ UNCHANGED <<tables, rank, target, newRole, newStatus>>

\* Mutant: the account behind the token is not looked at.
CheckHolder_Skipped(w) ==
  /\ pc[w] = "presented"
  /\ pc' = [pc EXCEPT ![w] = "checked"]
  /\ UNCHANGED <<tables, op, actor, rank, target, card, newRole, newStatus, fit>>

\* ... and then the account it belongs to.
CheckHolder(w) ==
  /\ pc[w] = "presented"
  /\ status[actor[w]] = "active"
  /\ pc' = [pc EXCEPT ![w] = "checked"]
  /\ UNCHANGED <<tables, op, actor, rank, target, card, newRole, newStatus, fit>>

\* get_current_user and require_roles, for whoever has an access token.
Authorise(w) ==
  /\ \E o \in {"logout", "create", "update"}, t \in Issued :
       /\ status[holder[t]] = "active"
       /\ o \in {"create", "update"} => role[holder[t]] \in WRITE_ROLES
       /\ Begin(w, o, holder[t], "authorised")
       /\ rank' = [rank EXCEPT ![w] = role[holder[t]]]
  /\ UNCHANGED <<tables, target, card, newRole, newStatus>>

-----------------------------------------------------------------------------
(* An authorised request reads what it writes. *)

\* logout: the cookie's token, if it is not revoked; neither its expiry nor the
\* account it belongs to matters.
LogoutReads(w) ==
  /\ pc[w] = "authorised"
  /\ op[w] = "logout"
  /\ \E t \in Issued :
       /\ token[t] # "revoked"
       /\ card' = [card EXCEPT ![w] = t]
  /\ pc' = [pc EXCEPT ![w] = "checked"]
  /\ UNCHANGED <<tables, op, actor, rank, target, newRole, newStatus, fit>>

\* Mutant: whoever may create accounts may create owners.
CreateReads_AnyRole(w) ==
  /\ pc[w] = "authorised"
  /\ op[w] = "create"
  /\ \E u \in Absent, r \in Granted :
       /\ target' = [target EXCEPT ![w] = u]
       /\ newRole' = [newRole EXCEPT ![w] = r]
  /\ pc' = [pc EXCEPT ![w] = "checked"]
  /\ UNCHANGED <<tables, op, actor, rank, card, newStatus, fit>>

\* create_user: only an owner mints an owner, and the email is free.
CreateReads(w) ==
  /\ pc[w] = "authorised"
  /\ op[w] = "create"
  /\ \E u \in Absent, r \in Granted :
       /\ r = "owner" => rank[w] = "owner"
       /\ target' = [target EXCEPT ![w] = u]
       /\ newRole' = [newRole EXCEPT ![w] = r]
  /\ pc' = [pc EXCEPT ![w] = "checked"]
  /\ UNCHANGED <<tables, op, actor, rank, card, newStatus, fit>>

\* Mutant: owners may be downgraded.
RoleAllowed_Downgrade(w, u, r) ==
  /\ u # actor[w]
  /\ r = "owner" => rank[w] = "owner"

\* The role a payload asks for passes the checks of update_user.
RoleAllowed(w, u, r) ==
  /\ u # actor[w]
  /\ r = "owner" => rank[w] = "owner"
  /\ role[u] = "owner" => r = "owner"

\* Mutant: a field that was left out is written as NULL.
Column_Null(wanted, loaded) == IF wanted = "keep" THEN "null" ELSE wanted

\* A column is written when the payload's value differs from the loaded one.
Column(wanted, loaded) == IF wanted = loaded THEN "keep" ELSE wanted

\* update_user: the account is loaded and the payload checked against it.  The
\* row of the actor itself is the one that authorised the request.
UpdateReads(w) ==
  /\ pc[w] = "authorised"
  /\ op[w] = "update"
  /\ \E u \in Accounts, change \in Payloads :
       /\ u = actor[w] => change.status # "suspended"
       /\ change.role # "keep" => RoleAllowed(w, u, change.role)
       /\ target' = [target EXCEPT ![w] = u]
       /\ newRole' = [newRole EXCEPT ![w] = Column(change.role, role[u])]
       /\ newStatus' = [newStatus EXCEPT ![w] =
                          IF u = actor[w] THEN "keep" ELSE Column(change.status, status[u])]
  /\ pc' = [pc EXCEPT ![w] = "checked"]
  /\ UNCHANGED <<tables, op, actor, rank, card, fit>>

-----------------------------------------------------------------------------
(* The write and the end of the transaction. *)

\* The row a request's write locks or inserts.
Touches(w) ==
  CASE op[w] \in {"bootstrap", "create", "login"} -> {target[w]}
    [] op[w] \in {"refresh", "logout"} -> {card[w]}
    [] op[w] = "update" ->
         IF newRole[w] = "keep" /\ newStatus[w] = "keep" THEN {} ELSE {target[w]}

Inserts(w) == op[w] \in {"bootstrap", "create"}

\* An UPDATE waits for the row, an INSERT for another one with the same email.
Flush(w) ==
  /\ pc[w] = "checked"
  /\ \A v \in Workers \ {w} : pc[v] = "flushed" => Touches(v) \cap Touches(w) = {}
  /\ Inserts(w) => target[w] \in Absent
  /\ pc' = [pc EXCEPT ![w] = "flushed"]
  /\ UNCHANGED <<tables, op, actor, rank, target, card, newRole, newStatus, fit>>

\* The slot is free again; the accounts in set back were reactivated.
Forget(w, back) ==
  /\ pc' = [pc EXCEPT ![w] = "idle"]
  /\ op' = [op EXCEPT ![w] = "login"]
  /\ actor' = [actor EXCEPT ![w] = "none"]
  /\ rank' = [rank EXCEPT ![w] = "none"]
  /\ target' = [target EXCEPT ![w] = "none"]
  /\ card' = [card EXCEPT ![w] = "none"]
  /\ newRole' = [newRole EXCEPT ![w] = "keep"]
  /\ newStatus' = [newStatus EXCEPT ![w] = "keep"]
  /\ fit' = [v \in Workers |-> v # w /\ (fit[v] \/ actor[v] \in back)]

\* _issue_session: a fresh token for account u.
IssueSession(u, from, states) ==
  \E t \in Tokens \ Issued :
    /\ token' = [states EXCEPT ![t] = "live"]
    /\ holder' = [holder EXCEPT ![t] = u]
    /\ parent' = [parent EXCEPT ![t] = from]

Revoked(t) == [token EXCEPT ![t] = "revoked"]

CommitBootstrap(w) ==
  /\ pc[w] = "flushed" /\ op[w] = "bootstrap"
  /\ role' = [role EXCEPT ![target[w]] = "owner"]
  /\ crown' = [crown EXCEPT ![target[w]] = target[w]]
  /\ IssueSession(target[w], "none", token)
  /\ Forget(w, {})
  /\ UNCHANGED status

CommitLogin(w) ==
  /\ pc[w] = "flushed" /\ op[w] = "login"
  /\ IssueSession(target[w], "none", token)
  /\ Forget(w, {})
  /\ UNCHANGED <<role, status, crown>>

\* Mutant: the presented token is not revoked.
CommitRefresh_NoRotation(w) ==
  /\ pc[w] = "flushed" /\ op[w] = "refresh"
  /\ IssueSession(actor[w], card[w], token)
  /\ Forget(w, {})
  /\ UNCHANGED <<role, status, crown>>

CommitRefresh(w) ==
  /\ pc[w] = "flushed" /\ op[w] = "refresh"
  /\ IssueSession(actor[w], card[w], Revoked(card[w]))
  /\ Forget(w, {})
  /\ UNCHANGED <<role, status, crown>>

CommitLogout(w) ==
  /\ pc[w] = "flushed" /\ op[w] = "logout"
  /\ token' = Revoked(card[w])
  /\ Forget(w, {})
  /\ UNCHANGED <<role, status, holder, parent, crown>>

CommitCreate(w) ==
  /\ pc[w] = "flushed" /\ op[w] = "create"
  /\ role' = [role EXCEPT ![target[w]] = newRole[w]]
  /\ crown' = [crown EXCEPT ![target[w]] = IF newRole[w] = "owner" THEN actor[w] ELSE "none"]
  /\ Forget(w, {})
  /\ UNCHANGED <<status, token, holder, parent>>

CommitUpdate(w) ==
  /\ pc[w] = "flushed" /\ op[w] = "update"
  /\ role' = [role EXCEPT ![target[w]] = IF newRole[w] = "keep" THEN @ ELSE newRole[w]]
  /\ status' = [status EXCEPT ![target[w]] = IF newStatus[w] = "keep" THEN @ ELSE newStatus[w]]
  /\ crown' = [crown EXCEPT ![target[w]] = IF newRole[w] = "owner" THEN actor[w] ELSE @]
  /\ Forget(w, IF newStatus[w] = "active" THEN {target[w]} ELSE {})
  /\ UNCHANGED <<token, holder, parent>>

\* A check fails, an INSERT conflicts, the client or the worker goes away.
Abort(w) ==
  /\ pc[w] # "idle"
  /\ Forget(w, {})
  /\ UNCHANGED tables

\* The clock passes the token's expires_at.
Expire(t) ==
  /\ token[t] = "live"
  /\ token' = [token EXCEPT ![t] = "expired"]
  /\ UNCHANGED <<role, status, holder, parent, crown, request>>

Arrive(w) == Bootstrap(w) \/ Login(w) \/ PresentToken(w) \/ Authorise(w)

Check(w) == CheckHolder(w) \/ LogoutReads(w) \/ CreateReads(w) \/ UpdateReads(w)

Commit(w) ==
  \/ CommitBootstrap(w) \/ CommitLogin(w) \/ CommitRefresh(w)
  \/ CommitLogout(w) \/ CommitCreate(w) \/ CommitUpdate(w)

Next ==
  \/ \E w \in Workers : Arrive(w) \/ Check(w) \/ Flush(w) \/ Commit(w) \/ Abort(w)
  \/ \E t \in Tokens : Expire(t)

Spec == Init /\ [][Next]_vars

-----------------------------------------------------------------------------
(* Properties. *)

TypeOK ==
  /\ role \in [Users -> Roles \cup {"absent"}]
  /\ status \in [Users -> Statuses]
  /\ token \in [Tokens -> {"absent", "live", "expired", "revoked"}]
  /\ holder \in [Tokens -> Users \cup {"none"}]
  /\ parent \in [Tokens -> Tokens \cup {"none"}]
  /\ crown \in [Users -> Users \cup {"none"}]
  /\ pc \in [Workers -> {"idle", "presented", "authorised", "checked", "flushed"}]
  /\ op \in [Workers -> Ops]
  /\ actor \in [Workers -> Users \cup {"none"}]
  /\ rank \in [Workers -> Roles \cup {"none"}]
  /\ target \in [Workers -> Users \cup {"none"}]
  /\ card \in [Workers -> Tokens \cup {"none"}]
  /\ newRole \in [Workers -> Roles \cup {"keep"}]
  /\ newStatus \in [Workers -> Statuses \cup {"keep"}]
  /\ fit \in [Workers -> BOOLEAN]

\* Once there are accounts there is an owner: whatever the role changes that race,
\* an owner created by the bootstrap is never downgraded.
OwnerRemains ==
  /\ Accounts # {} => \E u \in Users : role[u] = "owner"
  /\ \A u \in Users : crown[u] = u => role[u] = "owner"

\* Every owner was made one by the bootstrap or by an account that had been made an
\* owner before: nobody reaches the role over an administrator's request.
CrownsComeFromOwners ==
  \A u \in Users :
    role[u] = "owner" => crown[u] # "none" /\ crown[crown[u]] # "none"

\* A refresh token that was rotated is spent for good: in the life of its
\* successors it is never live again, and they belong to the same account.
ParentsAreSpent ==
  \A t \in Tokens :
    parent[t] # "none" =>
      token[parent[t]] = "revoked" /\ holder[parent[t]] = holder[t]

\* A request never gets as far as writing, or to a new session, for an account that
\* was suspended from the moment the request began.
SuspensionBites ==
  \A w \in Workers :
    pc[w] \in {"checked", "flushed"} /\ op[w] # "bootstrap" => fit[w]

\* auth/service.py says that the presented refresh token is single-use.
RefreshIsSingleUse ==
  \A t, u \in Tokens : parent[t] # "none" /\ parent[t] = parent[u] => t = u
=============================================================================
