---------------------------- MODULE ApiKeysProofs ----------------------------
(***************************************************************************)
(* The bounds on what API keys may spend and on how many there are, for    *)
(* any number of requests, administrators and keys and any size of the     *)
(* pool.  Both bounds have the same reason: whoever passed a check and has *)
(* not acted on it yet holds a connection of the pool, so the invariant    *)
(* reserves room for everyone who did.                                     *)
(***************************************************************************)
EXTENDS ApiKeys, FiniteSetTheorems, TLAPS

\* Requests whose quota was found good and that may still be billed to k.
Passed(k) == {r \in Requests : pc[r] \in {"checked", "serving"} /\ on[r] = k}

\* Administrators who found room for a key and have not inserted it.
Counting == {a \in Admins : pc[a] = "counted"}

PoolOK == Cardinality(InUse) <= PoolSize

QuotasKnown ==
  /\ \A k \in Keys : quota[k] <= ceiling[k]
  /\ \A r \in Requests : pc[r] = "admitted" => seen[r].quota <= ceiling[on[r]]

Reserved(k) ==
  consumed[k] + MaxTokens * Cardinality(Passed(k)) < ceiling[k] + MaxTokens * PoolSize

RoomForKeys == Cardinality(live) + Cardinality(Counting) < MaxKeys + PoolSize

\* A row has one holder, and a held row exists.
Holds(s) == pc[s] \in {"serving", "flushed"}

LocksOK ==
  \A s \in Sessions :
    Holds(s) => /\ on[s] \in live
                /\ \A t \in Sessions \ {s} : on[t] = on[s] => ~Holds(t)

KInv ==
  /\ TypeOK /\ PoolOK /\ QuotasKnown
  /\ \A k \in Keys : Reserved(k)
  /\ RoomForKeys
  /\ LocksOK

-----------------------------------------------------------------------------
(* Arithmetic and cardinalities. *)

\* Multiplication by MaxTokens is monotone.
LEMMA Product ==
  ASSUME NEW m \in Nat, NEW n \in Nat, m <= n
  PROVE  MaxTokens * m <= MaxTokens * n
  BY KeysAssumption

\* One answer more costs at most MaxTokens more.
LEMMA ProductStep ==
  ASSUME NEW n \in Nat
  PROVE  MaxTokens * (n + 1) = MaxTokens * n + MaxTokens
  BY KeysAssumption

\* There are finitely many sessions.
LEMMA FiniteSessions == IsFiniteSet(Sessions)
  BY KeysAssumption, FS_Union DEF Sessions

\* So there are finitely many sessions of each kind.
LEMMA FiniteParts ==
  /\ IsFiniteSet(InUse) /\ IsFiniteSet(InUse)'
  /\ \A k : IsFiniteSet(Passed(k)) /\ IsFiniteSet(Passed(k))'
  /\ IsFiniteSet(Counting) /\ IsFiniteSet(Counting)'
  /\ Cardinality(InUse) \in Nat /\ Cardinality(InUse)' \in Nat
  /\ \A k : Cardinality(Passed(k)) \in Nat /\ Cardinality(Passed(k))' \in Nat
  /\ Cardinality(Counting) \in Nat /\ Cardinality(Counting)' \in Nat
<1>1. /\ InUse \subseteq Sessions /\ InUse' \subseteq Sessions
      /\ Counting \subseteq Admins /\ Counting' \subseteq Admins
  BY DEF InUse, Counting
<1>2. \A k : Passed(k) \subseteq Requests /\ Passed(k)' \subseteq Requests
  BY DEF Passed
<1>3. /\ IsFiniteSet(InUse) /\ IsFiniteSet(InUse') /\ IsFiniteSet(Counting)
      /\ IsFiniteSet(Counting') /\ \A k : IsFiniteSet(Passed(k)) /\ IsFiniteSet(Passed(k)')
  BY <1>1, <1>2, KeysAssumption, FiniteSessions, FS_Subset
<1>4. QED
  BY <1>3, FS_CardinalityType

\* A key's reserve stays when nobody new passed and nothing was billed.
LEMMA ReserveKept ==
  ASSUME KInv, TypeOK', NEW k \in Keys,
         Passed(k)' \subseteq Passed(k), consumed'[k] = consumed[k],
         ceiling[k] <= ceiling'[k]
  PROVE  Reserved(k)'
<1>1. Cardinality(Passed(k))' <= Cardinality(Passed(k))
  BY FiniteParts, FS_Subset
<1>2. MaxTokens * Cardinality(Passed(k))' <= MaxTokens * Cardinality(Passed(k))
  BY <1>1, FiniteParts, Product
<1>3. QED
  BY <1>2, FiniteParts, KeysAssumption DEF KInv, TypeOK, Reserved

\* A key's reserve is there anew when less than its quota is spent, because all
\* who passed are in the pool.
LEMMA ReserveRenewed ==
  ASSUME TypeOK', PoolOK', NEW k \in Keys, consumed'[k] < ceiling'[k]
  PROVE  Reserved(k)'
<1>1. Passed(k)' \subseteq InUse'
  BY DEF TypeOK, Passed, InUse, Connected, Sessions
<1>2. Cardinality(Passed(k))' <= PoolSize
  BY <1>1, FiniteParts, FS_Subset, KeysAssumption DEF PoolOK
<1>3. MaxTokens * Cardinality(Passed(k))' <= MaxTokens * PoolSize
  BY <1>2, FiniteParts, Product, KeysAssumption
<1>4. QED
  BY <1>3, FiniteParts, KeysAssumption DEF TypeOK, Reserved

\* One session more uses the pool only if there was room.
LEMMA PoolKept ==
  ASSUME PoolOK,
         \/ InUse' \subseteq InUse
         \/ Cardinality(InUse) < PoolSize /\ \E s : InUse' \subseteq InUse \cup {s}
  PROVE  PoolOK'
<1>1. CASE InUse' \subseteq InUse
  BY <1>1, FiniteParts, FS_Subset, KeysAssumption DEF PoolOK
<1>2. CASE Cardinality(InUse) < PoolSize /\ \E s : InUse' \subseteq InUse \cup {s}
  <2>1. PICK s : InUse' \subseteq InUse \cup {s}
    BY <1>2
  <2> IsFiniteSet(InUse) /\ Cardinality(InUse) \in Nat
    BY FiniteParts
  <2> HIDE DEF InUse
  <2>0. /\ IsFiniteSet(InUse \cup {s})
        /\ Cardinality(InUse \cup {s}) =
             IF s \in InUse THEN Cardinality(InUse) ELSE Cardinality(InUse) + 1
    BY FS_AddElement
  <2>2. /\ Cardinality(InUse \cup {s}) <= Cardinality(InUse) + 1
        /\ IsFiniteSet(InUse \cup {s}) /\ Cardinality(InUse \cup {s}) \in Nat
    BY <2>0
  <2>3. Cardinality(InUse)' <= Cardinality(InUse \cup {s})
    BY <2>1, <2>2, FS_Subset
  <2>4. QED
    BY <1>2, <2>2, <2>3, FiniteParts, KeysAssumption DEF PoolOK
<1>3. QED
  BY <1>1, <1>2

-----------------------------------------------------------------------------
(* Every step keeps each part. *)

\* The invariant holds before the first session.
LEMMA KInvInit == Init => KInv
<1> SUFFICES ASSUME Init PROVE KInv
  OBVIOUS
<1> USE KeysAssumption
<1>1. TypeOK
  <2>1. on \in [Sessions -> Keys]
    BY DEF Init
  <2>2. seen \in [Sessions -> Row]
    BY <2>1 DEF Init, Row, RowOf
  <2>3. QED
    BY <2>1, <2>2 DEF Init, TypeOK, Phases, Ops
<1>2. InUse = {} /\ Counting = {} /\ \A k \in Keys : Passed(k) = {}
  BY DEF Init, InUse, Connected, Counting, Passed, Sessions
<1>3. PoolOK
  BY <1>2, FS_EmptySet DEF PoolOK
<1>4. QuotasKnown /\ LocksOK
  BY <1>1 DEF Init, TypeOK, QuotasKnown, LocksOK, Holds, Sessions
<1>5. ASSUME NEW k \in Keys PROVE Reserved(k)
  <2>1. consumed[k] = 0 /\ ceiling[k] \in Nat \ {0} /\ Cardinality(Passed(k)) = 0
    BY <1>1, <1>2, FS_EmptySet DEF Init, TypeOK
  <2>2. MaxTokens * 0 <= MaxTokens * PoolSize
    BY Product
  <2>3. QED
    BY <2>1, <2>2 DEF Reserved
<1>6. RoomForKeys
  <2>1. Cardinality(live) <= MaxKeys /\ IsFiniteSet(live)
    BY FS_Subset DEF Init
  <2>2. Cardinality(live) \in Nat /\ Cardinality(Counting) = 0
    BY <1>2, <2>1, FS_CardinalityType, FS_EmptySet
  <2>3. QED
    BY <2>1, <2>2 DEF RoomForKeys
<1>7. QED
  BY <1>1, <1>3, <1>4, <1>5, <1>6 DEF KInv

\* Every step keeps the types.
LEMMA TypeStep == TypeOK /\ [Next]_vars => TypeOK'
<1> SUFFICES ASSUME TypeOK, [Next]_vars PROVE TypeOK'
  OBVIOUS
<1> USE KeysAssumption DEF TypeOK, Goto, Phases, Sessions, rows
<1>0. \A k \in Keys : RowOf(k) \in Row
  BY DEF RowOf, Row
<1>1. ASSUME NEW r \in Requests, NEW k \in Keys, Authenticate(r, k) PROVE TypeOK'
  BY <1>0, <1>1 DEF Authenticate, Load
<1>2. ASSUME NEW r \in Requests, Abandon(r) \/ CheckQuota(r) \/ Touch(r) PROVE TypeOK'
  BY <1>2 DEF Abandon, CheckQuota, Touch
<1>3. ASSUME NEW r \in Requests, Serve(r) PROVE TypeOK'
  BY <1>3 DEF Serve
<1>4. ASSUME NEW a \in Admins, NEW o \in Ops, NEW k \in Keys, Open(a, o, k) PROVE TypeOK'
  BY <1>0, <1>4 DEF Open, Load
<1>5. ASSUME NEW a \in Admins,
             NothingToDo(a) \/ Flush(a) \/ CountKeys(a) \/ RollBack(a)
      PROVE  TypeOK'
  BY <1>5 DEF NothingToDo, Flush, CountKeys, RollBack, Ops
<1>6. ASSUME NEW a \in Admins, CommitUpdate(a) \/ CommitRevoke(a) PROVE TypeOK'
  BY <1>6 DEF CommitUpdate, CommitRevoke
<1>7. ASSUME NEW a \in Admins, CommitDelete(a) \/ CommitCreate(a) PROVE TypeOK'
  BY <1>7 DEF CommitDelete, CommitCreate
<1>8. ASSUME NEW k \in Keys, Lapse(k) PROVE TypeOK'
  BY <1>8 DEF Lapse
<1>9. CASE UNCHANGED vars
  BY <1>9 DEF vars
<1>10. QED
  BY <1>1, <1>2, <1>3, <1>4, <1>5, <1>6, <1>7, <1>8, <1>9 DEF Next, RequestStep, AdminStep

\* What a step does to the phases: one session takes a connection while there is
\* room, or one goes on, or nobody moves.
LEMMA PoolStep == KInv /\ [Next]_vars => PoolOK'
<1> SUFFICES ASSUME KInv, [Next]_vars PROVE PoolOK'
  OBVIOUS
<1> USE DEF KInv
<1>1. ASSUME NEW s \in Sessions, Cardinality(InUse) < PoolSize, NEW p \in Phases,
             Goto(s, p)
      PROVE  PoolOK'
  <2>1. InUse' \subseteq InUse \cup {s}
    BY <1>1 DEF TypeOK, Goto, InUse, Connected
  <2>2. QED
    BY <1>1, <2>1, PoolKept
<1>2. ASSUME NEW s \in Sessions, Connected(s), NEW p \in Phases, Goto(s, p)
      PROVE  PoolOK'
  <2>1. InUse' \subseteq InUse
    BY <1>2 DEF TypeOK, Goto, InUse, Connected
  <2>2. QED
    BY <2>1, PoolKept
<1>3. CASE UNCHANGED pc
  BY <1>3, PoolKept DEF InUse, Connected
<1>4. ASSUME NEW r \in Requests, RequestStep(r) PROVE PoolOK'
  BY <1>1, <1>2, <1>4
  DEF RequestStep, Authenticate, Load, Abandon, CheckQuota, Touch, Serve, Connected, Sessions,
      Phases
<1>5. ASSUME NEW a \in Admins, AdminStep(a) PROVE PoolOK'
  BY <1>1, <1>2, <1>5
  DEF AdminStep, Open, Load, NothingToDo, Flush, CommitUpdate, CommitRevoke, CommitDelete,
      CountKeys, CommitCreate, RollBack, Connected, Sessions, Phases
<1>6. QED
  BY <1>3, <1>4, <1>5 DEF Next, Lapse, vars

\* Every step keeps a held row existing and its holder alone.
LEMMA LocksStep == KInv /\ [Next]_vars => LocksOK'
<1> SUFFICES ASSUME KInv, [Next]_vars PROVE LocksOK'
  OBVIOUS
<1>1. TypeOK /\ LocksOK
  BY DEF KInv
<1> USE DEF TypeOK, LocksOK, Holds, Goto, Locked, Sessions, rows
<1>2. ASSUME NEW s \in Sessions, NEW k \in Keys, Load(s, k), UNCHANGED live,
             NEW p \in Phases \ {"serving", "flushed"}, Goto(s, p)
      PROVE  LocksOK'
  BY <1>1, <1>2 DEF Load
<1>3. ASSUME NEW s \in Sessions, NEW p \in Phases \ {"serving", "flushed"}, Goto(s, p),
             live \subseteq live', UNCHANGED on
      PROVE  LocksOK'
  BY <1>1, <1>3
<1>4. ASSUME NEW s \in Sessions, ~Locked(on[s]), on[s] \in live, NEW p \in Phases, Goto(s, p),
             UNCHANGED <<on, live>>
      PROVE  LocksOK'
  BY <1>1, <1>4
<1>5. ASSUME NEW r \in Requests, RequestStep(r) PROVE LocksOK'
  <2>1. CASE \E k \in Keys : Authenticate(r, k)
    BY <1>2, <2>1 DEF Authenticate, Phases
  <2>2. CASE Abandon(r) \/ CheckQuota(r) \/ Serve(r)
    BY <1>3, <2>2 DEF Abandon, CheckQuota, Serve, Phases
  <2>3. CASE Touch(r)
    BY <1>3, <1>4, <2>3 DEF Touch, Phases
  <2>4. QED
    BY <1>5, <2>1, <2>2, <2>3 DEF RequestStep
<1>6. ASSUME NEW a \in Admins, AdminStep(a) PROVE LocksOK'
  <2>1. CASE \E o \in Ops, k \in Keys : Open(a, o, k)
    BY <1>2, <2>1 DEF Open, Phases
  <2>2. CASE NothingToDo(a) \/ CommitUpdate(a) \/ CommitRevoke(a) \/ CountKeys(a)
             \/ CommitCreate(a) \/ RollBack(a)
    <3>1. UNCHANGED on /\ live \subseteq live'
      BY <2>2 DEF NothingToDo, CommitUpdate, CommitRevoke, CountKeys, CommitCreate, RollBack
    <3>2. Goto(a, "done") \/ Goto(a, "counted")
      BY <2>2 DEF NothingToDo, CommitUpdate, CommitRevoke, CountKeys, CommitCreate, RollBack
    <3>3. QED
      BY <1>3, <3>1, <3>2 DEF Phases
  <2>3. CASE Flush(a)
    BY <1>3, <1>4, <2>3 DEF Flush, Phases
  <2>4. CASE CommitDelete(a)
    BY <1>1, <2>4 DEF CommitDelete
  <2>5. QED
    BY <1>6, <2>1, <2>2, <2>3, <2>4 DEF AdminStep
<1>7. CASE \E k \in Keys : Lapse(k)
  BY <1>1, <1>7 DEF Lapse
<1>8. CASE UNCHANGED vars
  BY <1>1, <1>8 DEF vars
<1>9. QED
  BY <1>5, <1>6, <1>7, <1>8 DEF Next

\* Every step keeps what is known of a key and its quota below the largest quota it
\* ever had.
LEMMA QuotasStep == KInv /\ [Next]_vars => QuotasKnown'
<1> SUFFICES ASSUME KInv, [Next]_vars PROVE QuotasKnown'
  OBVIOUS
<1>1. TypeOK /\ QuotasKnown
  BY DEF KInv
<1> USE KeysAssumption DEF TypeOK, QuotasKnown, Goto, Sessions, RowOf, rows
<1>2. ASSUME NEW r \in Requests, NEW k \in Keys, Authenticate(r, k) PROVE QuotasKnown'
  BY <1>1, <1>2 DEF Authenticate, Load
<1>3. ASSUME NEW r \in Requests, Abandon(r) \/ CheckQuota(r) \/ Touch(r) \/ Serve(r)
      PROVE  QuotasKnown'
  BY <1>1, <1>3 DEF Abandon, CheckQuota, Touch, Serve
<1>4. ASSUME NEW a \in Admins, NEW o \in Ops, NEW k \in Keys, Open(a, o, k) PROVE QuotasKnown'
  BY <1>1, <1>4 DEF Open, Load
<1>5. ASSUME NEW a \in Admins,
             NothingToDo(a) \/ Flush(a) \/ CommitDelete(a) \/ CountKeys(a)
             \/ CommitCreate(a) \/ RollBack(a)
      PROVE  QuotasKnown'
  BY <1>1, <1>5 DEF NothingToDo, Flush, CommitDelete, CountKeys, CommitCreate, RollBack
<1>6. ASSUME NEW a \in Admins, CommitUpdate(a) \/ CommitRevoke(a) PROVE QuotasKnown'
  <2>1. UNCHANGED <<on, seen>> /\ \A r \in Requests : pc'[r] = pc[r]
    BY <1>1, <1>6 DEF CommitUpdate, CommitRevoke
  <2>2. \A k \in Keys : ceiling[k] <= ceiling'[k] /\ quota'[k] <= ceiling'[k]
    <3>1. CASE UNCHANGED <<quota, ceiling>>
      BY <1>1, <3>1
    <3>2. CASE CommitUpdate(a) /\ op[a] = "quota"
      <4>1. want[a] \in Nat /\ ceiling[on[a]] \in Nat /\ on[a] \in Keys
        BY <1>1
      <4>2. /\ quota' = [quota EXCEPT ![on[a]] = want[a]]
            /\ ceiling' = [ceiling EXCEPT ![on[a]] = IF want[a] > @ THEN want[a] ELSE @]
        BY <3>2 DEF CommitUpdate
      <4>3. ASSUME NEW k \in Keys PROVE ceiling[k] <= ceiling'[k] /\ quota'[k] <= ceiling'[k]
        <5>1. CASE k = on[a]
          BY <1>1, <4>1, <4>2, <5>1
        <5>2. CASE k # on[a]
          BY <1>1, <4>2, <5>2
        <5>3. QED
          BY <5>1, <5>2
      <4>4. QED
        BY <4>3
    <3>3. QED
      BY <1>6, <3>1, <3>2 DEF CommitUpdate, CommitRevoke
  <2>3. TypeOK'
    BY <1>1, TypeStep
  <2>4. ASSUME NEW r \in Requests, pc'[r] = "admitted"
        PROVE  seen'[r].quota <= ceiling'[on'[r]]
    <3>1. seen[r].quota <= ceiling[on[r]] /\ ceiling[on[r]] <= ceiling'[on[r]]
      BY <1>1, <2>1, <2>2, <2>4
    <3>2. seen[r].quota \in Nat /\ ceiling[on[r]] \in Nat /\ ceiling'[on[r]] \in Nat
      BY <1>1, <2>3 DEF Row
    <3>3. QED
      BY <2>1, <3>1, <3>2
  <2>5. QED
    BY <2>2, <2>4
<1>7. CASE (\E k \in Keys : Lapse(k)) \/ UNCHANGED vars
  BY <1>1, <1>7 DEF Lapse, vars
<1>8. QED
  BY <1>2, <1>3, <1>4, <1>5, <1>6, <1>7 DEF Next, RequestStep, AdminStep

\* Every step keeps the reserve of every key: what is billed and what the requests
\* past the quota check may still bill.
LEMMA ReserveStep == KInv /\ [Next]_vars => \A k \in Keys : Reserved(k)'
<1> SUFFICES ASSUME KInv, [Next]_vars PROVE \A k \in Keys : Reserved(k)'
  OBVIOUS
<1>1. TypeOK /\ QuotasKnown /\ TypeOK' /\ PoolOK'
  BY TypeStep, PoolStep DEF KInv
<1> USE DEF TypeOK, Goto, Sessions, Passed, rows
<1>2. ASSUME NEW r \in Requests, NEW c \in Keys, Authenticate(r, c), NEW k \in Keys
      PROVE  Reserved(k)'
  <2>1. Passed(k)' \subseteq Passed(k) /\ consumed' = consumed /\ ceiling' = ceiling
    BY <1>1, <1>2 DEF Authenticate, Load
  <2>2. QED
    BY <1>1, <2>1, ReserveKept
<1>3. ASSUME NEW r \in Requests, Abandon(r) \/ Touch(r), NEW k \in Keys PROVE Reserved(k)'
  <2>1. Passed(k)' \subseteq Passed(k) /\ consumed' = consumed /\ ceiling' = ceiling
    BY <1>1, <1>3 DEF Abandon, Touch
  <2>2. QED
    BY <1>1, <2>1, ReserveKept
<1>4. ASSUME NEW r \in Requests, CheckQuota(r), NEW k \in Keys PROVE Reserved(k)'
  <2>1. consumed' = consumed /\ ceiling' = ceiling
    BY <1>4 DEF CheckQuota
  <2>2. CASE on[r] = k /\ consumed[k] < seen[r].quota
    <3>1. seen[r].quota <= ceiling[k] /\ seen[r].quota \in Nat /\ consumed[k] \in Nat
          /\ ceiling[k] \in Nat
      BY <1>1, <1>4, <2>2, KeysAssumption DEF CheckQuota, QuotasKnown, Row
    <3>2. consumed'[k] < ceiling'[k]
      BY <2>1, <2>2, <3>1
    <3>3. QED
      BY <1>1, <3>2, ReserveRenewed
  <2>3. CASE ~(on[r] = k /\ consumed[k] < seen[r].quota)
    <3>1. seen[r].quota \in Nat /\ consumed[on[r]] \in Nat
      BY <1>1, KeysAssumption DEF Row
    <3>2. Passed(k)' \subseteq Passed(k)
      BY <1>1, <1>4, <2>3, <3>1 DEF CheckQuota
    <3>3. QED
      BY <1>1, <2>1, <3>2, ReserveKept
  <2>4. QED
    BY <2>2, <2>3
<1>5. ASSUME NEW r \in Requests, Serve(r), NEW k \in Keys PROVE Reserved(k)'
  <2>1. CASE on[r] # k
    <3>1. Passed(k)' \subseteq Passed(k) /\ consumed'[k] = consumed[k] /\ ceiling' = ceiling
      BY <1>1, <1>5, <2>1 DEF Serve
    <3>2. QED
      BY <1>1, <3>1, ReserveKept
  <2>2. CASE on[r] = k
    <3>1. PICK t \in 0..MaxTokens : consumed' = [consumed EXCEPT ![on[r]] = @ + t]
      BY <1>5 DEF Serve
    <3>2. consumed'[k] = consumed[k] + t /\ ceiling' = ceiling /\ consumed[k] \in Nat
          /\ t \in Nat /\ t <= MaxTokens /\ ceiling[k] \in Nat
      BY <1>1, <1>5, <2>2, <3>1, KeysAssumption DEF Serve
    <3>3. Passed(k)' = Passed(k) \ {r} /\ r \in Passed(k)
      BY <1>1, <1>5, <2>2 DEF Serve
    <3>4. Cardinality(Passed(k))' = Cardinality(Passed(k)) - 1
      <4> HIDE DEF Passed
      <4>1. IsFiniteSet(Passed(k))
        BY FiniteParts
      <4>2. Cardinality(Passed(k) \ {r}) = Cardinality(Passed(k)) - 1
        BY <3>3, <4>1, FS_RemoveElement
      <4>3. QED
        BY <3>3, <4>2
    <3> DEFINE n == Cardinality(Passed(k))'
    <3>5. n \in Nat /\ Cardinality(Passed(k)) = n + 1
      <4> HIDE DEF Passed
      <4>1. Cardinality(Passed(k)) \in Nat /\ n \in Nat
        BY FiniteParts
      <4>2. QED
        BY <3>4, <4>1
    <3> HIDE DEF n
    <3>6. MaxTokens * Cardinality(Passed(k)) = MaxTokens * n + MaxTokens
      BY <3>5, ProductStep
    <3>7. MaxTokens * n \in Nat /\ MaxTokens * PoolSize \in Nat
      BY <3>5, KeysAssumption
    <3>8. consumed[k] + (MaxTokens * n + MaxTokens) < ceiling[k] + MaxTokens * PoolSize
      BY <3>6 DEF KInv, Reserved
    <3>9. (consumed[k] + t) + MaxTokens * n < ceiling[k] + MaxTokens * PoolSize
      BY <3>2, <3>7, <3>8, KeysAssumption
    <3>10. QED
      BY <3>2, <3>9 DEF Reserved, n
  <2>3. QED
    BY <2>1, <2>2
<1>6. ASSUME NEW a \in Admins, AdminStep(a), ~CommitDelete(a), NEW k \in Keys
      PROVE  Reserved(k)'
  <2>1. Passed(k)' \subseteq Passed(k)
    BY <1>1, <1>6, KeysAssumption
    DEF AdminStep, Open, Load, NothingToDo, Flush, CommitUpdate, CommitRevoke, CountKeys,
        CommitCreate, RollBack
  <2>2. consumed' = consumed
    BY <1>6
    DEF AdminStep, Open, Load, NothingToDo, Flush, CommitUpdate, CommitRevoke, CountKeys,
        CommitCreate, RollBack
  <2>3. ceiling[k] <= ceiling'[k]
    <3>1. CASE UNCHANGED ceiling
      BY <1>1, <3>1
    <3>2. CASE CommitUpdate(a) /\ op[a] = "quota"
      <4>1. want[a] \in Nat /\ ceiling[on[a]] \in Nat /\ ceiling[k] \in Nat
        BY <1>1, KeysAssumption
      <4>2. ceiling' = [ceiling EXCEPT ![on[a]] = IF want[a] > @ THEN want[a] ELSE @]
        BY <3>2 DEF CommitUpdate
      <4>3. QED
        BY <1>1, <4>1, <4>2
    <3>3. QED
      BY <1>6, <3>1, <3>2
      DEF AdminStep, Open, Load, NothingToDo, Flush, CommitUpdate, CommitRevoke, CountKeys,
          CommitCreate, RollBack
  <2>4. QED
    BY <1>1, <2>1, <2>2, <2>3, ReserveKept
<1>7. ASSUME NEW a \in Admins, CommitDelete(a), NEW k \in Keys PROVE Reserved(k)'
  <2>1. CASE on[a] = k
    <3>1. consumed'[k] = 0 /\ ceiling'[k] = ceiling[k] /\ quota[k] <= ceiling[k]
          /\ quota[k] \in Nat \ {0} /\ ceiling[k] \in Nat
      BY <1>1, <1>7, <2>1, KeysAssumption DEF CommitDelete, QuotasKnown
    <3>2. consumed'[k] < ceiling'[k]
      BY <3>1
    <3>3. QED
      BY <1>1, <3>2, ReserveRenewed
  <2>2. CASE on[a] # k
    <3>1. Passed(k)' \subseteq Passed(k) /\ consumed'[k] = consumed[k] /\ ceiling' = ceiling
      BY <1>1, <1>7, <2>2, KeysAssumption DEF CommitDelete
    <3>2. QED
      BY <1>1, <3>1, ReserveKept
  <2>3. QED
    BY <2>1, <2>2
<1>8. ASSUME (\E c \in Keys : Lapse(c)) \/ UNCHANGED vars, NEW k \in Keys PROVE Reserved(k)'
  <2>1. Passed(k)' \subseteq Passed(k) /\ consumed' = consumed /\ ceiling' = ceiling
    BY <1>8 DEF Lapse, vars
  <2>2. QED
    BY <1>1, <2>1, ReserveKept
<1>9. QED
  BY <1>2, <1>3, <1>4, <1>5, <1>6, <1>7, <1>8 DEF Next, RequestStep

\* Every step keeps room for the keys that are about to be created.
LEMMA RoomStep == KInv /\ [Next]_vars => RoomForKeys'
<1> SUFFICES ASSUME KInv, [Next]_vars PROVE RoomForKeys'
  OBVIOUS
<1>1. TypeOK /\ TypeOK' /\ PoolOK' /\ RoomForKeys
  BY TypeStep, PoolStep DEF KInv
<1> DEFINE l == Cardinality(live)
           c == Cardinality(Counting)
<1>2. IsFiniteSet(live) /\ IsFiniteSet(live') /\ l \in Nat /\ l' \in Nat /\ c \in Nat /\ c' \in Nat
  <2>1. IsFiniteSet(live) /\ IsFiniteSet(live')
    BY <1>1, KeysAssumption, FS_Subset DEF TypeOK
  <2>2. QED
    BY <2>1, FiniteParts, FS_CardinalityType
<1>3. IsFiniteSet(Counting) /\ IsFiniteSet(Counting)'
  BY FiniteParts
<1>4. ASSUME live' \subseteq live, Counting' \subseteq Counting PROVE RoomForKeys'
  <2>1. l' <= l /\ c' <= c
    BY <1>2, <1>3, <1>4, FS_Subset
  <2>2. QED
    BY <1>1, <1>2, <2>1, KeysAssumption DEF RoomForKeys
<1>5. ASSUME NEW a \in Admins, CountKeys(a) PROVE RoomForKeys'
  <2>1. CASE Cardinality(live) >= MaxKeys
    <3>1. live' = live /\ Goto(a, "done")
      BY <1>5, <2>1 DEF CountKeys, rows
    <3>2. Counting' \subseteq Counting
      BY <1>1, <3>1 DEF Goto, Counting, TypeOK, Sessions
    <3>3. QED
      BY <1>4, <3>1, <3>2
  <2>2. CASE ~(Cardinality(live) >= MaxKeys)
    <3>1. Counting' \subseteq InUse'
      BY <1>1 DEF Counting, InUse, Connected, Sessions
    <3>2. c' <= PoolSize
      BY <1>1, <1>2, <3>1, FiniteParts, FS_Subset, KeysAssumption DEF PoolOK
    <3>3. l' = l
      BY <1>5 DEF CountKeys, rows
    <3>4. QED
      BY <1>2, <2>2, <3>2, <3>3, KeysAssumption DEF RoomForKeys
  <2>3. QED
    BY <2>1, <2>2
<1>6. ASSUME NEW a \in Admins, CommitCreate(a) PROVE RoomForKeys'
  <2>1. PICK k \in fresh : live' = live \cup {k}
    BY <1>6 DEF CommitCreate
  <2>2. l' = l + 1
    BY <1>1, <1>2, <2>1, FS_AddElement DEF TypeOK
  <2>3. Counting' = Counting \ {a} /\ a \in Counting
    BY <1>1, <1>6 DEF CommitCreate, Goto, Counting, TypeOK, Sessions
  <2>4. c' = c - 1
    <3> HIDE DEF Counting
    <3>1. Cardinality(Counting \ {a}) = Cardinality(Counting) - 1
      BY <1>3, <2>3, FS_RemoveElement
    <3>2. QED
      BY <2>3, <3>1
  <2>5. QED
    BY <1>1, <1>2, <2>2, <2>4, KeysAssumption DEF RoomForKeys
<1>7. ASSUME NEW a \in Admins, AdminStep(a), ~CountKeys(a), ~CommitCreate(a)
      PROVE  RoomForKeys'
  <2>1. live' \subseteq live
    BY <1>7
    DEF AdminStep, Open, Load, NothingToDo, Flush, CommitUpdate, CommitRevoke, CommitDelete,
        RollBack, rows
  <2>2. Counting' \subseteq Counting
    <3>1. \E p \in {"loaded", "flushed", "done"} : Goto(a, p)
      BY <1>7
      DEF AdminStep, Open, Load, NothingToDo, Flush, CommitUpdate, CommitRevoke, CommitDelete,
          RollBack
    <3>2. QED
      BY <1>1, <3>1 DEF Goto, Counting, TypeOK, Sessions
  <2>3. QED
    BY <1>4, <2>1, <2>2
<1>8. ASSUME NEW r \in Requests, RequestStep(r) PROVE RoomForKeys'
  <2>1. live' = live
    BY <1>8 DEF RequestStep, Authenticate, Abandon, CheckQuota, Touch, Serve, rows
  <2>2. Counting' \subseteq Counting
    BY <1>1, <1>8
    DEF RequestStep, Authenticate, Load, Abandon, CheckQuota, Touch, Serve, Goto, Counting,
        TypeOK, Sessions
  <2>3. QED
    BY <1>4, <2>1, <2>2
<1>9. CASE (\E k \in Keys : Lapse(k)) \/ UNCHANGED vars
  BY <1>4, <1>9 DEF Lapse, vars, Counting
<1>10. QED
  BY <1>5, <1>6, <1>7, <1>8, <1>9 DEF Next

\* Every step of a request or of an administrator keeps the invariant.
LEMMA KInvNext == KInv /\ [Next]_vars => KInv'
  BY TypeStep, PoolStep, QuotasStep, ReserveStep, RoomStep, LocksStep DEF KInv

-----------------------------------------------------------------------------
(* The theorems. *)

\* The invariant holds in every reachable state.
THEOREM KeysInvariant == Spec => []KInv
  BY KInvInit, KInvNext, PTL DEF Spec

\* services/api_keys.py quota_exceeded and touch: whatever the interleaving of
\* requests and of changes to the quota, a key is billed less than its largest
\* quota plus one full pool of answers.
THEOREM OvershootBounded == Spec => []QuotaOvershootIsBounded
<1>1. KInv => QuotaOvershootIsBounded
  <2> SUFFICES ASSUME KInv, NEW k \in Keys
               PROVE  consumed[k] < ceiling[k] + PoolSize * MaxTokens
    BY DEF QuotaOvershootIsBounded
  <2> DEFINE n == Cardinality(Passed(k))
  <2>1. n \in Nat
    BY FiniteParts
  <2>2. consumed[k] + MaxTokens * n < ceiling[k] + MaxTokens * PoolSize
    BY DEF KInv, Reserved
  <2> HIDE DEF n
  <2>3. /\ consumed[k] \in Nat /\ ceiling[k] \in Nat /\ MaxTokens * n \in Nat
        /\ MaxTokens * PoolSize \in Nat /\ PoolSize * MaxTokens = MaxTokens * PoolSize
    BY <2>1, KeysAssumption DEF KInv, TypeOK
  <2>4. QED
    BY <2>2, <2>3
<1>2. QED
  BY <1>1, KeysInvariant, PTL

\* services/api_keys.py create: administrators who count at the same time exceed
\* MAX_API_KEYS by less than the size of the pool.
THEOREM KeyCountBounded == Spec => []KeyCountIsBounded
<1>1. KInv => KeyCountIsBounded
  <2> SUFFICES ASSUME KInv PROVE KeyCountIsBounded
    OBVIOUS
  <2>1. IsFiniteSet(live)
    BY KeysAssumption, FS_Subset DEF KInv, TypeOK
  <2>2. Cardinality(live) \in Nat /\ Cardinality(Counting) \in Nat
    BY <2>1, FiniteParts, FS_CardinalityType
  <2>3. QED
    BY <2>2, KeysAssumption DEF KInv, RoomForKeys, KeyCountIsBounded
<1>2. QED
  BY <1>1, KeysInvariant, PTL

\* services/api_keys.py touch: a request is served only while it alone holds the
\* row of a key that exists.
THEOREM HoldersAreAlone == Spec => []ServedAlone
<1>1. KInv => ServedAlone
  BY DEF KInv, LocksOK, Holds, ServedAlone, Sessions
<1>2. QED
  BY <1>1, KeysInvariant, PTL

\* services/api_keys.py: nothing an administrator writes from a row it loaded
\* before brings a revoked or deleted key back.
THEOREM RevocationHolds == Spec => RevocationIsFinal
<1>1. KInv /\ [Next]_vars => [StaysOut]_vars
  <2> SUFFICES ASSUME KInv, Next PROVE StaysOut
    OBVIOUS
  <2>1. fresh' \subseteq fresh /\ live' \subseteq live \cup fresh /\ revoked \subseteq revoked'
    BY DEF Next, RequestStep, AdminStep, Authenticate, Load, Abandon, CheckQuota, Touch, Serve,
           Open, NothingToDo, Flush, CommitUpdate, CommitRevoke, CommitDelete, CountKeys,
           CommitCreate, RollBack, Lapse, rows
  <2>2. QED
    BY <2>1 DEF StaysOut, Usable
<1>2. QED
  BY <1>1, KeysInvariant, PTL DEF Spec, RevocationIsFinal


\* Every variable keeps its type, whatever requests and administrators do.
THEOREM KeysTypeCorrect == Spec => []TypeOK
<1>1. KInv => TypeOK
  BY DEF KInv
<1>2. QED
  BY <1>1, KeysInvariant, PTL
=============================================================================
