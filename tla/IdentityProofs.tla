---------------------------- MODULE IdentityProofs ----------------------------
(***************************************************************************)
(* Proofs about Identity, for any number of concurrent requests, accounts  *)
(* and refresh tokens.                                                     *)
(*                                                                         *)
(* What a request checked may be stale when it writes, so the properties   *)
(* are not inductive.  The invariant says what survives: accounts and      *)
(* crowns never go away, a crown is never given to oneself, a request that *)
(* may write a role to an account has seen that it is not a bootstrap's,   *)
(* and two requests about to commit never touch the same row.              *)
(***************************************************************************)
EXTENDS Identity, TLAPS

Ready(w) == pc[w] \in {"checked", "flushed"}

\* Who calls, and at which stage.
ActorOK(w) ==
  /\ pc[w] # "idle" =>
       /\ actor[w] \in Users
       /\ op[w] # "bootstrap" => role[actor[w]] # "absent"
  /\ pc[w] = "presented" => op[w] = "refresh"
  /\ pc[w] = "authorised" => op[w] \in {"logout", "create", "update"}

\* The token a request presents was issued.
CardOK(w) ==
  /\ pc[w] # "idle" /\ op[w] = "refresh" =>
       card[w] \in Tokens /\ token[card[w]] # "absent" /\ holder[card[w]] = actor[w]
  /\ Ready(w) /\ op[w] = "logout" => card[w] \in Tokens /\ token[card[w]] # "absent"

\* What a request is about to write passed its checks, as far as they last.
WriteOK(w) ==
  Ready(w) =>
    /\ op[w] \in {"bootstrap", "login", "create", "update"} => target[w] \in Users
    /\ op[w] \in {"login", "update"} => role[target[w]] # "absent"
    /\ op[w] \in {"create", "update"} /\ newRole[w] = "owner" => rank[w] = "owner"
    /\ op[w] = "create" => newRole[w] \in Roles
    /\ op[w] = "update" =>
         /\ newRole[w] = "owner" => target[w] # actor[w]
         /\ crown[target[w]] = target[w] => newRole[w] = "keep"

\* Whoever was an owner when authorised has been made one.
RankOK(w) ==
  pc[w] # "idle" /\ op[w] \in {"create", "update"} /\ rank[w] = "owner" =>
    crown[actor[w]] # "none"

FitOK(w) ==
  /\ pc[w] \in {"authorised", "checked", "flushed"} /\ op[w] # "bootstrap" => fit[w]
  /\ pc[w] = "presented" /\ status[actor[w]] = "active" => fit[w]

\* A flushed insert holds the unique key of an address nobody has.
InsertOK(w) ==
  pc[w] = "flushed" /\ op[w] \in {"bootstrap", "create"} => role[target[w]] = "absent"

WorkerOK(w) ==
  ActorOK(w) /\ CardOK(w) /\ WriteOK(w) /\ RankOK(w) /\ FitOK(w) /\ InsertOK(w)

Exclusive ==
  \A v, w \in Workers :
    v # w /\ pc[v] = "flushed" /\ pc[w] = "flushed" => Touches(v) \cap Touches(w) = {}

CrownsOK ==
  /\ \A u \in Users : role[u] = "absent" => crown[u] = "none"
  /\ \A u \in Users : role[u] = "owner" => crown[u] # "none"
  /\ \A u \in Users : crown[u] # "none" => crown[u] \in Users /\ crown[crown[u]] # "none"
  /\ \A u \in Users : crown[u] = u => role[u] = "owner"
  /\ Accounts # {} => \E u \in Users : crown[u] = u

TokensOK ==
  /\ \A t \in Tokens :
       token[t] # "absent" => holder[t] \in Users /\ role[holder[t]] # "absent"
  /\ ParentsAreSpent

IInv ==
  /\ TypeOK /\ CrownsOK /\ TokensOK
  /\ \A w \in Workers : WorkerOK(w)
  /\ Exclusive

-----------------------------------------------------------------------------
(* A step of one request and the others. *)

\* The other requests stay where they are, and as fit as they were.
Others(w) ==
  \A v \in Workers \ {w} :
    /\ pc'[v] = pc[v] /\ op'[v] = op[v] /\ actor'[v] = actor[v] /\ rank'[v] = rank[v]
    /\ target'[v] = target[v] /\ card'[v] = card[v]
    /\ newRole'[v] = newRole[v] /\ newStatus'[v] = newStatus[v]
    /\ fit[v] => fit'[v]

\* No account, crown or issued token goes away, and nobody crowns himself but by a
\* bootstrap.
Grows ==
  /\ \A u \in Users : role[u] # "absent" => role'[u] # "absent"
  /\ \A u \in Users : crown[u] # "none" => crown'[u] # "none"
  /\ \A u \in Users : crown'[u] = u => crown[u] = u \/ role[u] = "absent"
  /\ \A t \in Tokens : token[t] # "absent" => token'[t] # "absent" /\ holder'[t] = holder[t]

\* What a request may rely on survives the steps of the others.
LEMMA Bystander ==
  ASSUME IInv, Grows, NEW w \in Workers, Others(w), NEW v \in Workers \ {w},
         pc[v] = "presented" /\ status'[actor[v]] = "active" => fit'[v],
         InsertOK(v)'
  PROVE  WorkerOK(v)'
<1>1. WorkerOK(v) /\ TypeOK
  BY DEF IInv
<1>2. ActorOK(v)'
  BY <1>1 DEF WorkerOK, ActorOK, Others, Grows
<1>3. CardOK(v)'
  BY <1>1 DEF WorkerOK, CardOK, Others, Grows, Ready
<1>4. WriteOK(v)'
  BY <1>1 DEF WorkerOK, WriteOK, Others, Grows, Ready
<1>5. RankOK(v)'
  BY <1>1 DEF WorkerOK, RankOK, ActorOK, Others, Grows
<1>6. FitOK(v)'
  BY <1>1 DEF WorkerOK, FitOK, Others
<1>7. QED
  BY <1>2, <1>3, <1>4, <1>5, <1>6 DEF WorkerOK

\* Two requests touch different rows still when one of them is not about to commit.
LEMMA NotFlushed ==
  ASSUME IInv, NEW w \in Workers, Others(w), pc'[w] # "flushed"
  PROVE  Exclusive'
<1> SUFFICES ASSUME NEW a \in Workers, NEW b \in Workers, a # b,
                    pc'[a] = "flushed", pc'[b] = "flushed"
             PROVE  Touches(a)' \cap Touches(b)' = {}
  BY DEF Exclusive
<1>1. a # w /\ b # w
  OBVIOUS
<1>2. Touches(a)' = Touches(a) /\ Touches(b)' = Touches(b)
  BY <1>1 DEF Others, Touches
<1>3. pc[a] = "flushed" /\ pc[b] = "flushed"
  BY <1>1 DEF Others
<1>4. QED
  BY <1>2, <1>3 DEF IInv, Exclusive

\* A step that writes no table.
LEMMA LocalStep ==
  ASSUME IInv, NEW w \in Workers, Others(w), UNCHANGED tables,
         TypeOK', WorkerOK(w)', Exclusive'
  PROVE  IInv'
<1>1. Grows
  BY DEF Grows, tables
<1>2. CrownsOK'
  BY DEF IInv, CrownsOK, Accounts, tables
<1>3. TokensOK'
  BY DEF IInv, TokensOK, ParentsAreSpent, tables
<1>4. ASSUME NEW v \in Workers \ {w} PROVE WorkerOK(v)'
  <2>1. WorkerOK(v)
    BY DEF IInv
  <2>2. InsertOK(v)'
    BY <2>1 DEF WorkerOK, InsertOK, Others, tables
  <2>3. pc[v] = "presented" /\ status'[actor[v]] = "active" => fit'[v]
    BY <2>1 DEF WorkerOK, FitOK, Others, tables
  <2>4. QED
    BY <1>1, <2>2, <2>3, Bystander
<1>5. QED
  BY <1>2, <1>3, <1>4 DEF IInv

-----------------------------------------------------------------------------
(* Steps that write no table. *)

\* A request that begins for an active account is fit.
LEMMA BeginFits ==
  ASSUME IInv, NEW w \in Workers, NEW o, NEW a \in Users, NEW phase, Begin(w, o, a, phase),
         role[a] # "absent", status[a] = "active"
  PROVE  fit'[w]
<1>1. a \in Accounts /\ status[a] = "active"
  BY DEF Accounts
<1>2. fit \in [Workers -> BOOLEAN]
  BY DEF IInv, TypeOK
<1>3. fit' = [fit EXCEPT ![w] = a \in Accounts /\ status[a] = "active"]
  BY DEF Begin
<1>4. fit'[w] = (a \in Accounts /\ status[a] = "active")
  BY <1>2, <1>3, Zenon
<1>5. QED
  BY <1>1, <1>4

\* The bootstrap begins.
LEMMA BootstrapKeeps ==
  ASSUME IInv, NEW w \in Workers, Bootstrap(w)
  PROVE  IInv'
<1>1. PICK u \in Users : Begin(w, "bootstrap", u, "checked") /\ target' = [target EXCEPT ![w] = u]
  BY DEF Bootstrap
<1>2. newRole' = [newRole EXCEPT ![w] = "owner"] /\ UNCHANGED <<tables, rank, card, newStatus>>
  BY DEF Bootstrap
<1>3. TypeOK'
  BY <1>1, <1>2 DEF IInv, TypeOK, Begin, Ops, tables, Roles
<1>4. Others(w)
  BY <1>1, <1>2 DEF IInv, TypeOK, Begin, Others
<1>5. pc'[w] = "checked" /\ op'[w] = "bootstrap" /\ actor'[w] = u /\ target'[w] = u
  BY <1>1 DEF Begin, IInv, TypeOK
<1>6. WorkerOK(w)'
  BY <1>2, <1>5 DEF WorkerOK, ActorOK, CardOK, WriteOK, RankOK, FitOK, InsertOK, Ready
<1>7. Exclusive'
  BY <1>4, <1>5, NotFlushed
<1>8. QED
  BY <1>2, <1>3, <1>4, <1>6, <1>7, LocalStep

\* A login begins.
LEMMA LoginKeeps ==
  ASSUME IInv, NEW w \in Workers, Login(w)
  PROVE  IInv'
<1>1. PICK u \in Accounts :
        /\ status[u] = "active"
        /\ Begin(w, "login", u, "checked")
        /\ target' = [target EXCEPT ![w] = u]
  BY DEF Login
<1>2. UNCHANGED <<tables, rank, card, newRole, newStatus>>
  BY DEF Login
<1>3. u \in Users /\ role[u] # "absent"
  BY DEF Accounts
<1>4. TypeOK'
  BY <1>1, <1>2, <1>3 DEF IInv, TypeOK, Begin, Ops, tables
<1>5. Others(w)
  BY <1>1, <1>2 DEF IInv, TypeOK, Begin, Others
<1>6. /\ pc'[w] = "checked" /\ op'[w] = "login" /\ actor'[w] = u /\ target'[w] = u
  BY <1>1 DEF Begin, IInv, TypeOK
<1>7. fit'[w]
  BY <1>1, <1>3, BeginFits
<1>8. WorkerOK(w)'
  BY <1>2, <1>3, <1>6, <1>7
     DEF WorkerOK, ActorOK, CardOK, WriteOK, RankOK, FitOK, InsertOK, Ready, tables
<1>9. Exclusive'
  BY <1>5, <1>6, NotFlushed
<1>10. QED
  BY <1>2, <1>4, <1>5, <1>8, <1>9, LocalStep

\* A refresh begins.
LEMMA PresentTokenKeeps ==
  ASSUME IInv, NEW w \in Workers, PresentToken(w)
  PROVE  IInv'
<1>1. PICK t \in Tokens :
        /\ token[t] = "live"
        /\ Begin(w, "refresh", holder[t], "presented")
        /\ card' = [card EXCEPT ![w] = t]
  BY DEF PresentToken
<1>2. UNCHANGED <<tables, rank, target, newRole, newStatus>>
  BY DEF PresentToken
<1>3. holder[t] \in Users /\ role[holder[t]] # "absent"
  BY <1>1 DEF IInv, TokensOK
<1>4. TypeOK'
  BY <1>1, <1>2, <1>3 DEF IInv, TypeOK, Begin, Ops, tables
<1>5. Others(w)
  BY <1>1, <1>2 DEF IInv, TypeOK, Begin, Others
<1>6. /\ pc'[w] = "presented" /\ op'[w] = "refresh" /\ actor'[w] = holder[t] /\ card'[w] = t
  BY <1>1, <1>3 DEF Begin, IInv, TypeOK
<1>7. status[holder[t]] = "active" => fit'[w]
  BY <1>1, <1>3, BeginFits
<1>8. WorkerOK(w)'
  BY <1>1, <1>2, <1>3, <1>6, <1>7
     DEF WorkerOK, ActorOK, CardOK, WriteOK, RankOK, FitOK, InsertOK, Ready, tables
<1>9. Exclusive'
  BY <1>5, <1>6, NotFlushed
<1>10. QED
  BY <1>2, <1>4, <1>5, <1>8, <1>9, LocalStep

\* A request with an access token is authorised.
LEMMA AuthoriseKeeps ==
  ASSUME IInv, NEW w \in Workers, Authorise(w)
  PROVE  IInv'
<1>1. PICK o \in {"logout", "create", "update"}, t \in Issued :
        /\ status[holder[t]] = "active"
        /\ Begin(w, o, holder[t], "authorised")
        /\ rank' = [rank EXCEPT ![w] = role[holder[t]]]
  BY DEF Authorise
<1>2. UNCHANGED <<tables, target, card, newRole, newStatus>>
  BY DEF Authorise
<1>3. holder[t] \in Users /\ role[holder[t]] \in Roles
  BY DEF IInv, TokensOK, TypeOK, Issued
<1>4. TypeOK'
  BY <1>1, <1>2, <1>3 DEF IInv, TypeOK, Begin, Ops, tables
<1>5. Others(w)
  BY <1>1, <1>2 DEF IInv, TypeOK, Begin, Others
<1>6. /\ pc'[w] = "authorised" /\ op'[w] = o /\ actor'[w] = holder[t]
      /\ rank'[w] = role[holder[t]]
  BY <1>1, <1>3 DEF Begin, IInv, TypeOK
<1>7. fit'[w]
  BY <1>1, <1>3, BeginFits DEF Roles
<1>8. role[holder[t]] # "absent" /\ (role[holder[t]] = "owner" => crown[holder[t]] # "none")
  BY <1>3 DEF IInv, CrownsOK, Roles
<1>9. WorkerOK(w)'
  BY <1>2, <1>3, <1>6, <1>7, <1>8
     DEF WorkerOK, ActorOK, CardOK, WriteOK, RankOK, FitOK, InsertOK, Ready, tables
<1>10. Exclusive'
  BY <1>5, <1>6, NotFlushed
<1>11. QED
  BY <1>2, <1>4, <1>5, <1>9, <1>10, LocalStep

\* The account behind the token is looked up.
LEMMA CheckHolderKeeps ==
  ASSUME IInv, NEW w \in Workers, CheckHolder(w)
  PROVE  IInv'
<1>1. /\ pc[w] = "presented" /\ status[actor[w]] = "active"
      /\ pc' = [pc EXCEPT ![w] = "checked"]
      /\ UNCHANGED <<tables, op, actor, rank, target, card, newRole, newStatus, fit>>
  BY DEF CheckHolder
<1>2. WorkerOK(w)
  BY DEF IInv
<1>3. TypeOK'
  BY <1>1 DEF IInv, TypeOK, tables
<1>4. Others(w)
  BY <1>1 DEF IInv, TypeOK, Others
<1>5. pc'[w] = "checked" /\ op[w] = "refresh" /\ fit[w]
  BY <1>1, <1>2 DEF IInv, TypeOK, WorkerOK, ActorOK, FitOK
<1>6. WorkerOK(w)'
  BY <1>1, <1>2, <1>5
     DEF WorkerOK, ActorOK, CardOK, WriteOK, RankOK, FitOK, InsertOK, Ready, tables
<1>7. Exclusive'
  BY <1>4, <1>5, NotFlushed
<1>8. QED
  BY <1>1, <1>3, <1>4, <1>6, <1>7, LocalStep

\* A logout reads the token of the cookie.
LEMMA LogoutReadsKeeps ==
  ASSUME IInv, NEW w \in Workers, LogoutReads(w)
  PROVE  IInv'
<1>1. PICK t \in Issued : card' = [card EXCEPT ![w] = t]
  BY DEF LogoutReads
<1>2. /\ pc[w] = "authorised" /\ op[w] = "logout"
      /\ pc' = [pc EXCEPT ![w] = "checked"]
      /\ UNCHANGED <<tables, op, actor, rank, target, newRole, newStatus, fit>>
  BY DEF LogoutReads
<1>3. WorkerOK(w) /\ t \in Tokens /\ token[t] # "absent"
  BY DEF IInv, Issued
<1>4. TypeOK'
  BY <1>1, <1>2, <1>3 DEF IInv, TypeOK, tables
<1>5. Others(w)
  BY <1>1, <1>2 DEF IInv, TypeOK, Others
<1>6. pc'[w] = "checked" /\ card'[w] = t
  BY <1>1, <1>2 DEF IInv, TypeOK
<1>7. WorkerOK(w)'
  BY <1>2, <1>3, <1>6
     DEF WorkerOK, ActorOK, CardOK, WriteOK, RankOK, FitOK, InsertOK, Ready, tables
<1>8. Exclusive'
  BY <1>5, <1>6, NotFlushed
<1>9. QED
  BY <1>2, <1>4, <1>5, <1>7, <1>8, LocalStep

\* A creation is checked: only an owner asks for an owner.
LEMMA CreateReadsKeeps ==
  ASSUME IInv, NEW w \in Workers, CreateReads(w)
  PROVE  IInv'
<1>1. PICK u \in Absent, r \in Granted :
        /\ r = "owner" => rank[w] = "owner"
        /\ target' = [target EXCEPT ![w] = u]
        /\ newRole' = [newRole EXCEPT ![w] = r]
  BY DEF CreateReads
<1>2. /\ pc[w] = "authorised" /\ op[w] = "create"
      /\ pc' = [pc EXCEPT ![w] = "checked"]
      /\ UNCHANGED <<tables, op, actor, rank, card, newStatus, fit>>
  BY DEF CreateReads
<1>3. WorkerOK(w) /\ u \in Users /\ r \in Roles
  BY IdentityAssumption DEF IInv, Absent
<1>4. TypeOK'
  BY <1>1, <1>2, <1>3 DEF IInv, TypeOK, tables
<1>5. Others(w)
  BY <1>1, <1>2 DEF IInv, TypeOK, Others
<1>6. pc'[w] = "checked" /\ target'[w] = u /\ newRole'[w] = r
  BY <1>1, <1>2 DEF IInv, TypeOK
<1>7. WorkerOK(w)'
  BY <1>1, <1>2, <1>3, <1>6
     DEF WorkerOK, ActorOK, CardOK, WriteOK, RankOK, FitOK, InsertOK, Ready, tables
<1>8. Exclusive'
  BY <1>5, <1>6, NotFlushed
<1>9. QED
  BY <1>2, <1>4, <1>5, <1>7, <1>8, LocalStep

\* A change is checked: nobody changes his own role, an owner's is not lowered, and
\* only an owner asks for an owner.
LEMMA UpdateReadsKeeps ==
  ASSUME IInv, NEW w \in Workers, UpdateReads(w)
  PROVE  IInv'
<1>1. PICK u \in Accounts, change \in Payloads :
        /\ change.role # "keep" => RoleAllowed(w, u, change.role)
        /\ target' = [target EXCEPT ![w] = u]
        /\ newRole' = [newRole EXCEPT ![w] = Column(change.role, role[u])]
        /\ newStatus' = [newStatus EXCEPT ![w] =
                           IF u = actor[w] THEN "keep" ELSE Column(change.status, status[u])]
  BY DEF UpdateReads
<1>2. /\ pc[w] = "authorised" /\ op[w] = "update"
      /\ pc' = [pc EXCEPT ![w] = "checked"]
      /\ UNCHANGED <<tables, op, actor, rank, card, fit>>
  BY DEF UpdateReads
<1>3. /\ WorkerOK(w) /\ u \in Users /\ role[u] # "absent"
      /\ change.role \in Roles \cup {"keep"} /\ change.status \in Statuses \cup {"keep"}
  BY IdentityAssumption DEF IInv, Accounts, Payload
<1>4. /\ Column(change.role, role[u]) \in Roles \cup {"keep"}
      /\ Column(change.status, status[u]) \in Statuses \cup {"keep"}
  BY <1>3 DEF Column
<1>5. TypeOK'
  BY <1>1, <1>2, <1>3, <1>4 DEF IInv, TypeOK, tables
<1>6. Others(w)
  BY <1>1, <1>2 DEF IInv, TypeOK, Others
<1>7. pc'[w] = "checked" /\ target'[w] = u /\ newRole'[w] = Column(change.role, role[u])
  BY <1>1, <1>2 DEF IInv, TypeOK
<1>8. newRole'[w] = "owner" => rank[w] = "owner" /\ u # actor[w]
  BY <1>1, <1>7 DEF Column, RoleAllowed
<1>9. crown[u] = u => newRole'[w] = "keep"
  BY <1>1, <1>3, <1>7 DEF IInv, CrownsOK, Column, RoleAllowed
<1>10. WorkerOK(w)'
  BY <1>2, <1>3, <1>7, <1>8, <1>9
     DEF WorkerOK, ActorOK, CardOK, WriteOK, RankOK, FitOK, InsertOK, Ready, tables
<1>11. Exclusive'
  BY <1>6, <1>7, NotFlushed
<1>12. QED
  BY <1>2, <1>5, <1>6, <1>10, <1>11, LocalStep

\* The write takes its row, or the unique key of its address.
LEMMA FlushKeeps ==
  ASSUME IInv, NEW w \in Workers, Flush(w)
  PROVE  IInv'
<1>1. /\ pc[w] = "checked"
      /\ \A v \in Workers \ {w} : pc[v] = "flushed" => Touches(v) \cap Touches(w) = {}
      /\ Inserts(w) => target[w] \in Absent
      /\ pc' = [pc EXCEPT ![w] = "flushed"]
      /\ UNCHANGED <<tables, op, actor, rank, target, card, newRole, newStatus, fit>>
  BY DEF Flush
<1>2. WorkerOK(w)
  BY DEF IInv
<1>3. TypeOK'
  BY <1>1 DEF IInv, TypeOK, tables
<1>4. Others(w)
  BY <1>1 DEF IInv, TypeOK, Others
<1>5. pc'[w] = "flushed"
  BY <1>1 DEF IInv, TypeOK
<1>6. Inserts(w) => role[target[w]] = "absent"
  BY <1>1 DEF Absent, Accounts
<1>7. WorkerOK(w)'
  BY <1>1, <1>2, <1>5, <1>6
     DEF WorkerOK, ActorOK, CardOK, WriteOK, RankOK, FitOK, InsertOK, Ready, tables, Inserts
<1>8. Exclusive'
  <2> SUFFICES ASSUME NEW a \in Workers, NEW b \in Workers, a # b,
                      pc'[a] = "flushed", pc'[b] = "flushed"
               PROVE  Touches(a)' \cap Touches(b)' = {}
    BY DEF Exclusive
  <2>1. Touches(a)' = Touches(a) /\ Touches(b)' = Touches(b)
    BY <1>1 DEF Touches
  <2>2. /\ a # w => pc[a] = "flushed"
        /\ b # w => pc[b] = "flushed"
    BY <1>4 DEF Others
  <2>3. Touches(a) \cap Touches(b) = {}
    BY <1>1, <2>2 DEF IInv, Exclusive
  <2>4. QED
    BY <2>1, <2>3
<1>9. QED
  BY <1>1, <1>3, <1>4, <1>7, <1>8, LocalStep

-----------------------------------------------------------------------------
(* The end of a request. *)

RequestTypes ==
  /\ pc \in [Workers -> {"idle", "presented", "authorised", "checked", "flushed"}]
  /\ op \in [Workers -> Ops]
  /\ actor \in [Workers -> Users \cup {"none"}]
  /\ rank \in [Workers -> Roles \cup {"none"}]
  /\ target \in [Workers -> Users \cup {"none"}]
  /\ card \in [Workers -> Tokens \cup {"none"}]
  /\ newRole \in [Workers -> Roles \cup {"keep"}]
  /\ newStatus \in [Workers -> Statuses \cup {"keep"}]
  /\ fit \in [Workers -> BOOLEAN]

\* A request that ends leaves the others alone and asks for nothing any more.
LEMMA ForgetFrees ==
  ASSUME IInv, NEW w \in Workers, NEW back, Forget(w, back)
  PROVE  RequestTypes' /\ Others(w) /\ pc'[w] = "idle" /\ WorkerOK(w)' /\ Exclusive'
<1>1. /\ pc' = [pc EXCEPT ![w] = "idle"]
      /\ op' = [op EXCEPT ![w] = "login"]
      /\ actor' = [actor EXCEPT ![w] = "none"]
      /\ rank' = [rank EXCEPT ![w] = "none"]
      /\ target' = [target EXCEPT ![w] = "none"]
      /\ card' = [card EXCEPT ![w] = "none"]
      /\ newRole' = [newRole EXCEPT ![w] = "keep"]
      /\ newStatus' = [newStatus EXCEPT ![w] = "keep"]
      /\ fit' = [v \in Workers |-> v # w /\ (fit[v] \/ actor[v] \in back)]
  BY DEF Forget
<1>2. fit' \in [Workers -> BOOLEAN]
  BY <1>1, Zenon
<1>3. RequestTypes'
  BY <1>1, <1>2 DEF IInv, TypeOK, RequestTypes, Ops
<1>4. ASSUME NEW v \in Workers \ {w}, fit[v] PROVE fit'[v]
  BY <1>1, <1>4, Zenon
<1>5. Others(w)
  BY <1>1, <1>4 DEF IInv, TypeOK, Others
<1>6. pc'[w] = "idle"
  BY <1>1 DEF IInv, TypeOK
<1>7. WorkerOK(w)'
  BY <1>6 DEF WorkerOK, ActorOK, CardOK, WriteOK, RankOK, FitOK, InsertOK, Ready
<1>8. Exclusive'
  BY <1>5, <1>6, NotFlushed
<1>9. QED
  BY <1>3, <1>5, <1>6, <1>7, <1>8

\* A step that ends a request and grows the tables keeps the invariant, if it leaves
\* the accounts and tokens in order, spares the addresses others insert and marks
\* the requests of those it reactivates.
LEMMA EndingStep ==
  ASSUME IInv, NEW w \in Workers, NEW back, Forget(w, back),
         role' \in [Users -> Roles \cup {"absent"}],
         status' \in [Users -> Statuses],
         token' \in [Tokens -> {"absent", "live", "expired", "revoked"}],
         holder' \in [Tokens -> Users \cup {"none"}],
         parent' \in [Tokens -> Tokens \cup {"none"}],
         crown' \in [Users -> Users \cup {"none"}],
         Grows, CrownsOK', TokensOK',
         \A u \in Users : status'[u] = "active" => status[u] = "active" \/ u \in back,
         \A v \in Workers \ {w} :
           pc[v] = "flushed" /\ Inserts(v) => role'[target[v]] = "absent"
  PROVE  IInv'
<1>1. RequestTypes' /\ Others(w) /\ WorkerOK(w)' /\ Exclusive'
  BY ForgetFrees
<1>2. TypeOK'
  BY <1>1 DEF TypeOK, RequestTypes
<1>3. ASSUME NEW v \in Workers \ {w} PROVE WorkerOK(v)'
  <2>1. WorkerOK(v)
    BY DEF IInv
  <2>2. InsertOK(v)'
    BY <1>1 DEF InsertOK, Others, Inserts
  <2>3. ASSUME pc[v] = "presented", status'[actor[v]] = "active" PROVE fit'[v]
    <3>1. status[actor[v]] = "active" \/ actor[v] \in back
      BY <2>1, <2>3 DEF WorkerOK, ActorOK
    <3>2. fit[v] \/ actor[v] \in back
      BY <3>1, <2>1, <2>3 DEF WorkerOK, FitOK
    <3>3. fit' = [x \in Workers |-> x # w /\ (fit[x] \/ actor[x] \in back)]
      BY DEF Forget
    <3>4. QED
      BY <3>2, <3>3, Zenon
  <2>4. QED
    BY <1>1, <2>2, <2>3, Bystander
<1>4. QED
  BY <1>1, <1>2, <1>3 DEF IInv

\* A request is over: it fails a check, or is cut off.
LEMMA AbortKeeps ==
  ASSUME IInv, NEW w \in Workers, Abort(w)
  PROVE  IInv'
<1>1. Forget(w, {}) /\ UNCHANGED tables
  BY DEF Abort
<1>2. RequestTypes' /\ Others(w) /\ WorkerOK(w)' /\ Exclusive'
  BY <1>1, ForgetFrees
<1>3. TypeOK'
  <2>1. TypeOK
    BY DEF IInv
  <2>2. UNCHANGED <<role, status, holder, parent, token, crown>>
    BY <1>1 DEF tables
  <2>3. QED
    BY <1>2, <2>1, <2>2 DEF TypeOK, RequestTypes
<1>4. QED
  BY <1>1, <1>2, <1>3, LocalStep

\* A token expires.
LEMMA ExpireKeeps ==
  ASSUME IInv, NEW t \in Tokens, Expire(t)
  PROVE  IInv'
<1>1. /\ token[t] = "live" /\ token' = [token EXCEPT ![t] = "expired"]
      /\ UNCHANGED <<role, status, holder, parent, crown, request>>
  BY DEF Expire
<1>2. \A x \in Tokens : /\ token'[x] = "absent" <=> token[x] = "absent"
                        /\ token[x] = "revoked" => token'[x] = "revoked"
  BY <1>1 DEF IInv, TypeOK
<1>3. TypeOK'
  BY <1>1 DEF IInv, TypeOK, request
<1>4. CrownsOK'
  BY <1>1 DEF IInv, CrownsOK, Accounts
<1>5. TokensOK'
  <2>1. TokensOK /\ parent \in [Tokens -> Tokens \cup {"none"}]
    BY DEF IInv, TypeOK
  <2>2. ParentsAreSpent'
    BY <1>2, <1>1, <2>1 DEF TokensOK, ParentsAreSpent
  <2>3. \A x \in Tokens : token'[x] # "absent" => holder'[x] \in Users /\ role'[holder'[x]] # "absent"
    BY <1>1, <1>2, <2>1 DEF TokensOK
  <2>4. QED
    BY <2>2, <2>3 DEF TokensOK
<1>6. Exclusive'
  <2>1. \A w : Touches(w)' = Touches(w)
    BY <1>1 DEF Touches, request
  <2>2. Exclusive /\ pc' = pc
    BY <1>1 DEF IInv, request
  <2>3. QED
    BY <2>1, <2>2 DEF Exclusive
<1>7. ASSUME NEW w \in Workers PROVE WorkerOK(w)'
  <2>1. WorkerOK(w)
    BY DEF IInv
  <2>2. ActorOK(w)' /\ WriteOK(w)' /\ RankOK(w)' /\ FitOK(w)' /\ InsertOK(w)'
    BY <1>1, <2>1
       DEF WorkerOK, ActorOK, WriteOK, RankOK, FitOK, InsertOK, Ready, request
  <2>3. CardOK(w)'
    BY <1>1, <1>2, <2>1 DEF WorkerOK, CardOK, Ready, request
  <2>4. QED
    BY <2>2, <2>3 DEF WorkerOK
<1>8. QED
  BY <1>3, <1>4, <1>5, <1>6, <1>7 DEF IInv

-----------------------------------------------------------------------------
(* Commits. *)

\* A session for an existing account keeps the tokens in order: nothing it is issued
\* from is live, and it takes a row that no token had.
LEMMA SessionIssued ==
  ASSUME IInv, NEW u \in Users, role'[u] # "absent", NEW from \in Tokens \cup {"none"},
         NEW states \in [Tokens -> {"absent", "live", "expired", "revoked"}],
         \A t \in Tokens : (states[t] = "absent" <=> token[t] = "absent")
                           /\ (token[t] = "revoked" => states[t] = "revoked"),
         from # "none" => states[from] = "revoked" /\ token[from] # "absent" /\ holder[from] = u,
         IssueSession(u, from, states),
         \A v \in Users : role[v] # "absent" => role'[v] # "absent"
  PROVE  /\ token' \in [Tokens -> {"absent", "live", "expired", "revoked"}]
         /\ holder' \in [Tokens -> Users \cup {"none"}]
         /\ parent' \in [Tokens -> Tokens \cup {"none"}]
         /\ \A t \in Tokens : token[t] # "absent" => token'[t] # "absent" /\ holder'[t] = holder[t]
         /\ TokensOK'
<1>1. PICK t \in Tokens \ Issued :
        /\ token' = [states EXCEPT ![t] = "live"]
        /\ holder' = [holder EXCEPT ![t] = u]
        /\ parent' = [parent EXCEPT ![t] = from]
  BY DEF IssueSession
<1>2. /\ token[t] = "absent"
      /\ TypeOK
      /\ \A x \in Tokens : token[x] # "absent" => holder[x] \in Users /\ role[holder[x]] # "absent"
      /\ ParentsAreSpent
  BY <1>1 DEF Issued, IInv, TokensOK
<1>3. /\ token' \in [Tokens -> {"absent", "live", "expired", "revoked"}]
      /\ holder' \in [Tokens -> Users \cup {"none"}]
      /\ parent' \in [Tokens -> Tokens \cup {"none"}]
  BY <1>1, <1>2 DEF TypeOK
<1>4. \A x \in Tokens \ {t} :
        token'[x] = states[x] /\ holder'[x] = holder[x] /\ parent'[x] = parent[x]
  BY <1>1, <1>2 DEF TypeOK
<1>5. token'[t] = "live" /\ holder'[t] = u /\ parent'[t] = from
  BY <1>1, <1>2 DEF TypeOK
<1>6. \A x \in Tokens : token[x] # "absent" => token'[x] # "absent" /\ holder'[x] = holder[x]
  BY <1>2, <1>4
<1>7. \A x \in Tokens : token'[x] # "absent" => holder'[x] \in Users /\ role'[holder'[x]] # "absent"
  BY <1>2, <1>4, <1>5
<1>8. ASSUME NEW x \in Tokens, parent'[x] # "none"
      PROVE  token'[parent'[x]] = "revoked" /\ holder'[parent'[x]] = holder'[x]
  <2>1. CASE x = t
    <3>1. from \in Tokens \ {t}
      BY <1>2, <1>5, <1>8, <2>1
    <3>2. QED
      BY <3>1, <1>4, <1>5, <1>8, <2>1
  <2>2. CASE x # t
    <3>1. parent[x] \in Tokens /\ token[parent[x]] = "revoked" /\ holder[parent[x]] = holder[x]
      BY <1>2, <1>4, <1>8, <2>2 DEF TypeOK, ParentsAreSpent
    <3>2. parent[x] # t
      BY <1>2, <3>1
    <3>3. QED
      BY <1>4, <2>2, <3>1, <3>2
  <2>3. QED
    BY <2>1, <2>2
<1>9. QED
  BY <1>3, <1>6, <1>7, <1>8 DEF TokensOK, ParentsAreSpent

\* A login issues a token that descends from none.
LEMMA CommitLoginKeeps ==
  ASSUME IInv, NEW w \in Workers, CommitLogin(w)
  PROVE  IInv'
<1>1. /\ pc[w] = "flushed" /\ op[w] = "login"
      /\ IssueSession(target[w], "none", token) /\ Forget(w, {})
      /\ UNCHANGED <<role, status, crown>>
  BY DEF CommitLogin
<1>2. WorkerOK(w) /\ TypeOK /\ CrownsOK
  BY DEF IInv
<1>3. target[w] \in Users /\ role[target[w]] # "absent"
  BY <1>1, <1>2 DEF WorkerOK, WriteOK, Ready
<1>4. /\ token' \in [Tokens -> {"absent", "live", "expired", "revoked"}]
      /\ holder' \in [Tokens -> Users \cup {"none"}]
      /\ parent' \in [Tokens -> Tokens \cup {"none"}]
      /\ \A t \in Tokens : token[t] # "absent" => token'[t] # "absent" /\ holder'[t] = holder[t]
      /\ TokensOK'
  BY <1>1, <1>2, <1>3, SessionIssued DEF TypeOK
<1>5. Grows
  BY <1>1, <1>4 DEF Grows
<1>6. CrownsOK'
  BY <1>1, <1>2 DEF CrownsOK, Accounts
<1>7. \A v \in Workers \ {w} : pc[v] = "flushed" /\ Inserts(v) => role'[target[v]] = "absent"
  BY <1>1 DEF IInv, WorkerOK, InsertOK, Inserts
<1>8. QED
  BY <1>1, <1>2, <1>4, <1>5, <1>6, <1>7, EndingStep DEF TypeOK

\* The presented token is revoked and its successor issued.
LEMMA CommitRefreshKeeps ==
  ASSUME IInv, NEW w \in Workers, CommitRefresh(w)
  PROVE  IInv'
<1>1. /\ pc[w] = "flushed" /\ op[w] = "refresh"
      /\ IssueSession(actor[w], card[w], Revoked(card[w])) /\ Forget(w, {})
      /\ UNCHANGED <<role, status, crown>>
  BY DEF CommitRefresh
<1>2. WorkerOK(w) /\ TypeOK /\ CrownsOK
  BY DEF IInv
<1>3. /\ actor[w] \in Users /\ role[actor[w]] # "absent"
      /\ card[w] \in Tokens /\ token[card[w]] # "absent" /\ holder[card[w]] = actor[w]
  BY <1>1, <1>2 DEF WorkerOK, ActorOK, CardOK
<1>4. /\ Revoked(card[w]) \in [Tokens -> {"absent", "live", "expired", "revoked"}]
      /\ Revoked(card[w])[card[w]] = "revoked"
      /\ \A t \in Tokens : (Revoked(card[w])[t] = "absent" <=> token[t] = "absent")
                           /\ (token[t] = "revoked" => Revoked(card[w])[t] = "revoked")
  BY <1>2, <1>3 DEF TypeOK, Revoked
<1>5. /\ token' \in [Tokens -> {"absent", "live", "expired", "revoked"}]
      /\ holder' \in [Tokens -> Users \cup {"none"}]
      /\ parent' \in [Tokens -> Tokens \cup {"none"}]
      /\ \A t \in Tokens : token[t] # "absent" => token'[t] # "absent" /\ holder'[t] = holder[t]
      /\ TokensOK'
  BY <1>1, <1>3, <1>4, SessionIssued
<1>6. Grows
  BY <1>1, <1>5 DEF Grows
<1>7. CrownsOK'
  BY <1>1, <1>2 DEF CrownsOK, Accounts
<1>8. \A v \in Workers \ {w} : pc[v] = "flushed" /\ Inserts(v) => role'[target[v]] = "absent"
  BY <1>1 DEF IInv, WorkerOK, InsertOK, Inserts
<1>9. QED
  BY <1>1, <1>2, <1>5, <1>6, <1>7, <1>8, EndingStep DEF TypeOK

\* The token of the cookie is revoked.
LEMMA CommitLogoutKeeps ==
  ASSUME IInv, NEW w \in Workers, CommitLogout(w)
  PROVE  IInv'
<1>1. /\ pc[w] = "flushed" /\ op[w] = "logout"
      /\ token' = Revoked(card[w]) /\ Forget(w, {})
      /\ UNCHANGED <<role, status, holder, parent, crown>>
  BY DEF CommitLogout
<1>2. WorkerOK(w) /\ TypeOK /\ CrownsOK /\ TokensOK
  BY DEF IInv
<1>3. card[w] \in Tokens /\ token[card[w]] # "absent"
  BY <1>1, <1>2 DEF WorkerOK, CardOK, Ready
<1>4. /\ token' \in [Tokens -> {"absent", "live", "expired", "revoked"}]
      /\ \A t \in Tokens : (token'[t] = "absent" <=> token[t] = "absent")
                           /\ (token[t] = "revoked" => token'[t] = "revoked")
  BY <1>1, <1>2, <1>3 DEF TypeOK, Revoked
<1>5. Grows
  BY <1>1, <1>4 DEF Grows
<1>6. TokensOK'
  BY <1>1, <1>2, <1>4 DEF TypeOK, TokensOK, ParentsAreSpent
<1>7. CrownsOK'
  BY <1>1, <1>2 DEF CrownsOK, Accounts
<1>8. \A v \in Workers \ {w} : pc[v] = "flushed" /\ Inserts(v) => role'[target[v]] = "absent"
  BY <1>1 DEF IInv, WorkerOK, InsertOK, Inserts
<1>9. QED
  BY <1>1, <1>2, <1>4, <1>5, <1>6, <1>7, <1>8, EndingStep DEF TypeOK

\* Two requests that insert and are about to commit have different addresses.
LEMMA InsertsDiffer ==
  ASSUME IInv, NEW w \in Workers, NEW v \in Workers \ {w},
         pc[w] = "flushed", pc[v] = "flushed", Inserts(w), Inserts(v)
  PROVE  target[v] # target[w]
  BY DEF IInv, Exclusive, Touches, Inserts

\* The first owner, with a session of his own.
LEMMA CommitBootstrapKeeps ==
  ASSUME IInv, NEW w \in Workers, CommitBootstrap(w)
  PROVE  IInv'
<1>1. /\ pc[w] = "flushed" /\ op[w] = "bootstrap"
      /\ role' = [role EXCEPT ![target[w]] = "owner"]
      /\ crown' = [crown EXCEPT ![target[w]] = target[w]]
      /\ IssueSession(target[w], "none", token) /\ Forget(w, {})
      /\ UNCHANGED status
  BY DEF CommitBootstrap
<1>2. WorkerOK(w) /\ TypeOK /\ CrownsOK
  BY DEF IInv
<1>3. PICK u \in Users : u = target[w]
  BY <1>1, <1>2 DEF WorkerOK, WriteOK, Ready
<1>4. role[u] = "absent" /\ crown[u] = "none" /\ u # "none"
  BY <1>1, <1>2, <1>3, IdentityAssumption DEF WorkerOK, InsertOK, CrownsOK
<1>5. /\ role'[u] = "owner" /\ crown'[u] = u
      /\ \A x \in Users \ {u} : role'[x] = role[x] /\ crown'[x] = crown[x]
      /\ role' \in [Users -> Roles \cup {"absent"}] /\ crown' \in [Users -> Users \cup {"none"}]
  BY <1>1, <1>2, <1>3 DEF TypeOK, Roles
<1>6. /\ token' \in [Tokens -> {"absent", "live", "expired", "revoked"}]
      /\ holder' \in [Tokens -> Users \cup {"none"}]
      /\ parent' \in [Tokens -> Tokens \cup {"none"}]
      /\ \A t \in Tokens : token[t] # "absent" => token'[t] # "absent" /\ holder'[t] = holder[t]
      /\ TokensOK'
  <2>1. IssueSession(u, "none", token)
    BY <1>1, <1>3
  <2>2. token \in [Tokens -> {"absent", "live", "expired", "revoked"}]
    BY <1>2 DEF TypeOK
  <2>3. role'[u] # "absent" /\ \A x \in Users : role[x] # "absent" => role'[x] # "absent"
    BY <1>4, <1>5
  <2>4. QED
    BY <2>1, <2>2, <2>3, SessionIssued
<1>7. Grows
  BY <1>4, <1>5, <1>6 DEF Grows
<1>8. CrownsOK'
  <2>1. \A x \in Users : crown'[x] # "none" => crown'[x] \in Users /\ crown'[crown'[x]] # "none"
    BY <1>2, <1>4, <1>5 DEF CrownsOK
  <2>2. QED
    BY <2>1, <1>2, <1>4, <1>5 DEF CrownsOK
<1>9. ASSUME NEW v \in Workers \ {w}, pc[v] = "flushed", Inserts(v)
      PROVE  role'[target[v]] = "absent"
  <2>1. target[v] # u
    BY <1>1, <1>3, <1>9, InsertsDiffer DEF Inserts
  <2>2. target[v] \in Users /\ role[target[v]] = "absent"
    BY <1>9 DEF IInv, WorkerOK, WriteOK, InsertOK, Inserts, Ready
  <2>3. QED
    BY <2>1, <2>2, <1>5
<1>10. QED
  BY <1>1, <1>2, <1>5, <1>6, <1>7, <1>8, <1>9, EndingStep DEF TypeOK

\* A new account: an owner among them was made one by an owner.
LEMMA CommitCreateKeeps ==
  ASSUME IInv, NEW w \in Workers, CommitCreate(w)
  PROVE  IInv'
<1>1. /\ pc[w] = "flushed" /\ op[w] = "create"
      /\ role' = [role EXCEPT ![target[w]] = newRole[w]]
      /\ crown' = [crown EXCEPT ![target[w]] = IF newRole[w] = "owner" THEN actor[w] ELSE "none"]
      /\ Forget(w, {})
      /\ UNCHANGED <<status, token, holder, parent>>
  BY DEF CommitCreate
<1>2. WorkerOK(w) /\ TypeOK /\ CrownsOK /\ TokensOK
  BY DEF IInv
<1>3. PICK u \in Users, a \in Users, r \in Roles : u = target[w] /\ a = actor[w] /\ r = newRole[w]
  BY <1>1, <1>2 DEF WorkerOK, ActorOK, WriteOK, Ready
<1>4. /\ role[u] = "absent" /\ crown[u] = "none" /\ u # "none"
      /\ role[a] # "absent" /\ a # u /\ a # "none"
      /\ r = "owner" => crown[a] # "none"
  BY <1>1, <1>2, <1>3, IdentityAssumption
     DEF WorkerOK, ActorOK, WriteOK, RankOK, InsertOK, CrownsOK, Ready
<1>5. /\ role'[u] = r /\ crown'[u] = IF r = "owner" THEN a ELSE "none"
      /\ \A x \in Users \ {u} : role'[x] = role[x] /\ crown'[x] = crown[x]
      /\ role' \in [Users -> Roles \cup {"absent"}] /\ crown' \in [Users -> Users \cup {"none"}]
  BY <1>1, <1>2, <1>3 DEF TypeOK
<1>6. r # "absent"
  BY DEF Roles
<1>7. Grows
  BY <1>1, <1>4, <1>5, <1>6 DEF Grows
<1>8. CrownsOK'
  <2>1. \A x \in Users : crown'[x] # "none" => crown'[x] \in Users /\ crown'[crown'[x]] # "none"
    BY <1>2, <1>4, <1>5 DEF CrownsOK
  <2>2. PICK x \in Users : crown[x] = x
    BY <1>2, <1>4 DEF CrownsOK, Accounts
  <2>3. x # u
    BY <2>2, <1>4
  <2>4. crown'[x] = x
    BY <2>2, <2>3, <1>5
  <2>5. QED
    BY <2>1, <2>4, <1>2, <1>4, <1>5, <1>6 DEF CrownsOK
<1>9. TokensOK'
  BY <1>1, <1>2, <1>7 DEF TokensOK, ParentsAreSpent, Grows
<1>10. ASSUME NEW v \in Workers \ {w}, pc[v] = "flushed", Inserts(v)
       PROVE  role'[target[v]] = "absent"
  <2>1. target[v] # u
    BY <1>1, <1>3, <1>10, InsertsDiffer DEF Inserts
  <2>2. target[v] \in Users /\ role[target[v]] = "absent"
    BY <1>10 DEF IInv, WorkerOK, WriteOK, InsertOK, Inserts, Ready
  <2>3. QED
    BY <2>1, <2>2, <1>5
<1>11. QED
  BY <1>1, <1>2, <1>5, <1>7, <1>8, <1>9, <1>10, EndingStep DEF TypeOK

\* A changed account: a bootstrap's owner keeps his role and nobody crowns himself.
LEMMA CommitUpdateKeeps ==
  ASSUME IInv, NEW w \in Workers, CommitUpdate(w)
  PROVE  IInv'
<1> DEFINE back == IF newStatus[w] = "active" THEN {target[w]} ELSE {}
<1>1. /\ pc[w] = "flushed" /\ op[w] = "update"
      /\ role' = [role EXCEPT ![target[w]] = IF newRole[w] = "keep" THEN @ ELSE newRole[w]]
      /\ status' = [status EXCEPT ![target[w]] = IF newStatus[w] = "keep" THEN @ ELSE newStatus[w]]
      /\ crown' = [crown EXCEPT ![target[w]] = IF newRole[w] = "owner" THEN actor[w] ELSE @]
      /\ Forget(w, back)
      /\ UNCHANGED <<token, holder, parent>>
  BY DEF CommitUpdate
<1>2. WorkerOK(w) /\ TypeOK /\ CrownsOK /\ TokensOK
  BY DEF IInv
<1>3. PICK u \in Users, a \in Users, r \in Roles \cup {"keep"}, s \in Statuses \cup {"keep"} :
        u = target[w] /\ a = actor[w] /\ r = newRole[w] /\ s = newStatus[w]
  BY <1>1, <1>2 DEF TypeOK, WorkerOK, ActorOK, WriteOK, Ready
<1>4. /\ role[u] # "absent" /\ a # "none"
      /\ r = "owner" => a # u /\ crown[a] # "none"
      /\ crown[u] = u => r = "keep"
  BY <1>1, <1>2, <1>3, IdentityAssumption DEF WorkerOK, WriteOK, RankOK, Ready
<1>5. /\ role'[u] = IF r = "keep" THEN role[u] ELSE r
      /\ crown'[u] = IF r = "owner" THEN a ELSE crown[u]
      /\ \A x \in Users \ {u} : role'[x] = role[x] /\ crown'[x] = crown[x]
  BY <1>1, <1>2, <1>3 DEF TypeOK
<1>6. /\ role' \in [Users -> Roles \cup {"absent"}] /\ crown' \in [Users -> Users \cup {"none"}]
      /\ status' \in [Users -> Statuses]
  BY <1>1, <1>2, <1>3 DEF TypeOK
<1>7. \A x \in Users : status'[x] = "active" => status[x] = "active" \/ x \in back
  BY <1>1, <1>2 DEF TypeOK
<1> HIDE DEF back
<1>8. r # "absent" /\ "owner" # "keep"
  BY DEF Roles
<1>9. Grows
  BY <1>1, <1>4, <1>5, <1>8 DEF Grows
<1>10. CrownsOK'
  <2>1. \A x \in Users : crown'[x] # "none" => crown'[x] \in Users /\ crown'[crown'[x]] # "none"
    BY <1>2, <1>4, <1>5 DEF CrownsOK
  <2>2. \A x \in Users : crown[x] = x => crown'[x] = x
    BY <1>4, <1>5, <1>8
  <2>3. \E x \in Users : crown[x] = x
    BY <1>2, <1>4 DEF CrownsOK, Accounts
  <2>4. \A x \in Users : role'[x] = "absent" => crown'[x] = "none"
    BY <1>2, <1>4, <1>5, <1>8 DEF CrownsOK
  <2>5. \A x \in Users : role'[x] = "owner" => crown'[x] # "none"
    BY <1>2, <1>4, <1>5, <1>8 DEF CrownsOK
  <2>6. \A x \in Users : crown'[x] = x => role'[x] = "owner"
    BY <1>2, <1>4, <1>5, <1>8 DEF CrownsOK
  <2>7. QED
    BY <2>1, <2>2, <2>3, <2>4, <2>5, <2>6 DEF CrownsOK
<1>11. TokensOK'
  BY <1>1, <1>2, <1>9 DEF TokensOK, ParentsAreSpent, Grows
<1>12. ASSUME NEW v \in Workers \ {w}, pc[v] = "flushed", Inserts(v)
       PROVE  role'[target[v]] = "absent"
  <2>1. target[v] \in Users /\ role[target[v]] = "absent"
    BY <1>12 DEF IInv, WorkerOK, WriteOK, InsertOK, Inserts, Ready
  <2>2. QED
    BY <2>1, <1>4, <1>5
<1>13. QED
  BY <1>1, <1>2, <1>6, <1>7, <1>9, <1>10, <1>11, <1>12, EndingStep DEF TypeOK

-----------------------------------------------------------------------------
(* The theorems. *)

\* The empty tables and idle requests satisfy the invariant.
LEMMA InitHolds == Init => IInv
<1> SUFFICES ASSUME Init PROVE IInv
  OBVIOUS
<1>1. TypeOK
  BY DEF Init, TypeOK, Ops, Statuses
<1>2. CrownsOK /\ TokensOK
  BY IdentityAssumption DEF Init, CrownsOK, TokensOK, ParentsAreSpent, Accounts
<1>3. Exclusive /\ \A w \in Workers : WorkerOK(w)
  BY DEF Init, Exclusive, WorkerOK, ActorOK, CardOK, WriteOK, RankOK, FitOK, InsertOK, Ready
<1>4. QED
  BY <1>1, <1>2, <1>3 DEF IInv

\* Every step keeps the invariant.
LEMMA NextKeeps == IInv /\ [Next]_vars => IInv'
<1> SUFFICES ASSUME IInv, [Next]_vars PROVE IInv'
  OBVIOUS
<1>1. CASE UNCHANGED vars
  <2>1. TypeOK' /\ CrownsOK' /\ TokensOK'
    BY <1>1 DEF vars, tables, request, IInv, TypeOK, CrownsOK, TokensOK, ParentsAreSpent,
       Accounts
  <2>2. Exclusive'
    <3>1. /\ \A w \in Workers : Touches(w)' = Touches(w)
          /\ pc' = pc
      BY <1>1 DEF vars, request, Touches
    <3>2. QED
      BY <3>1 DEF IInv, Exclusive
  <2>3. ASSUME NEW w \in Workers PROVE WorkerOK(w)'
    <3>1. WorkerOK(w)
      BY DEF IInv
    <3>2. ActorOK(w)' /\ CardOK(w)' /\ WriteOK(w)'
      BY <1>1, <3>1 DEF vars, tables, request, WorkerOK, ActorOK, CardOK, WriteOK, Ready
    <3>3. RankOK(w)' /\ FitOK(w)' /\ InsertOK(w)'
      BY <1>1, <3>1 DEF vars, tables, request, WorkerOK, RankOK, FitOK, InsertOK
    <3>4. QED
      BY <3>2, <3>3 DEF WorkerOK
  <2>4. QED
    BY <2>1, <2>2, <2>3 DEF IInv
<1>2. ASSUME NEW w \in Workers, Arrive(w) PROVE IInv'
  BY <1>2, BootstrapKeeps, LoginKeeps, PresentTokenKeeps, AuthoriseKeeps DEF Arrive
<1>3. ASSUME NEW w \in Workers, Check(w) PROVE IInv'
  BY <1>3, CheckHolderKeeps, LogoutReadsKeeps, CreateReadsKeeps, UpdateReadsKeeps DEF Check
<1>4. ASSUME NEW w \in Workers, Flush(w) PROVE IInv'
  BY <1>4, FlushKeeps
<1>5. ASSUME NEW w \in Workers, Commit(w) PROVE IInv'
  BY <1>5, CommitBootstrapKeeps, CommitLoginKeeps, CommitRefreshKeeps, CommitLogoutKeeps,
     CommitCreateKeeps, CommitUpdateKeeps DEF Commit
<1>6. ASSUME NEW w \in Workers, Abort(w) PROVE IInv'
  BY <1>6, AbortKeeps
<1>7. ASSUME NEW t \in Tokens, Expire(t) PROVE IInv'
  BY <1>7, ExpireKeeps
<1>8. QED
  BY <1>1, <1>2, <1>3, <1>4, <1>5, <1>6, <1>7 DEF Next

\* What holds in every state of the requests on accounts and refresh tokens.
THEOREM IdentityInvariant == Spec => []IInv
  BY InitHolds, NextKeeps, PTL DEF Spec

\* The columns and the requests keep their types.
THEOREM IdentityTypeCorrect == Spec => []TypeOK
<1>1. IInv => TypeOK
  BY DEF IInv
<1>2. QED
  BY <1>1, IdentityInvariant, PTL

\* Whatever role changes race, an owner remains once there are accounts, and the one
\* the bootstrap created stays one (update_user, auth/service.py).
THEOREM OwnerTheorem == Spec => []OwnerRemains
<1>1. IInv => OwnerRemains
  BY DEF IInv, CrownsOK, OwnerRemains
<1>2. QED
  BY <1>1, IdentityInvariant, PTL

\* However stale the role a request was authorised with, whoever made an account an
\* owner had been made one before, or bootstrapped the system (create_user,
\* update_user).
THEOREM CrownsTheorem == Spec => []CrownsComeFromOwners
<1>1. IInv => CrownsComeFromOwners
  BY DEF IInv, CrownsOK, CrownsComeFromOwners
<1>2. QED
  BY <1>1, IdentityInvariant, PTL

\* A rotated refresh token is revoked for good, however often and by how many
\* requests at once it was presented (refresh).
THEOREM ParentsTheorem == Spec => []ParentsAreSpent
<1>1. IInv => ParentsAreSpent
  BY DEF IInv, TokensOK
<1>2. QED
  BY <1>1, IdentityInvariant, PTL

\* No request writes for an account that was suspended from the request's beginning
\* on (get_current_user, authenticate, refresh).
THEOREM SuspensionTheorem == Spec => []SuspensionBites
<1>1. IInv => SuspensionBites
  BY DEF IInv, WorkerOK, FitOK, SuspensionBites
<1>2. QED
  BY <1>1, IdentityInvariant, PTL

=============================================================================
