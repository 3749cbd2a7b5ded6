-------------------------- MODULE RateLimiterProofs --------------------------
(***************************************************************************)
(* RateLimiter implements WindowLimiter for every limit, window and number *)
(* of calls, never leaves a refused caller facing a counter that does not  *)
(* expire, and grants at most twice its limit over any Window ticks, once  *)
(* more for each time it was cleared.                                      *)
(***************************************************************************)
EXTENDS RateLimiter, FiniteSetTheorems, TLAPS

\* An armed key exists and was armed no earlier than it was created, so it lasts
\* a whole window; and a counter's verdicts are about counters already created.
LInv ==
  /\ TypeOK
  /\ born <= now
  /\ expiry # Never => count > 0 /\ expiry >= born + Window
  /\ \A h \in Calls : counted[h] <= life
  /\ RefusedNotForEver

\* The invariant holds of an empty Redis.
LEMMA LInvInit == Init => LInv
  BY DEF Init, LInv, TypeOK, RefusedNotForEver, Never

\* Counting a call keeps the part of the invariant that is about the counter.
LEMMA IncrKeeps ==
  ASSUME LInv, Incr
  PROVE  /\ count' \in Nat \ {0} /\ life' \in Nat /\ born' \in Nat
         /\ born' <= now /\ life <= life'
         /\ expiry # Never => expiry >= born' + Window /\ life' = life
         /\ \A h \in Calls : counted[h] = life' => count > 0
<1> USE LimiterAssumption DEF LInv, TypeOK, Incr, Never
<1>1. CASE count = 0
  BY <1>1
<1>2. CASE count # 0
  BY <1>2
<1>3. QED
  BY <1>1, <1>2

\* A call that Redis fails keeps the invariant, whatever part of the pipeline was
\* applied.
LEMMA FailsKeeps ==
  ASSUME LInv, NEW h \in Calls, NEW v \in {"bypassed", "unavailable", "dead"}, Fails(h, v),
         UNCHANGED now,
         count' \in Nat /\ life' \in Nat /\ born' \in Nat /\ born' <= now /\ life <= life',
         UNCHANGED <<expiry, resets>>,
         expiry # Never => count' > 0 /\ expiry >= born' + Window,
         \A c \in Calls : counted[c] = life' => count > 0 /\ life' = life
  PROVE  LInv'
<1> USE DEF LInv, TypeOK, Fails
<1>1. TypeOK'
  BY DEF Verdicts
<1>2. \A c \in Calls : counted'[c] <= life'
  OBVIOUS
<1>3. RefusedNotForEver'
  BY DEF RefusedNotForEver
<1>4. QED
  BY <1>1, <1>2, <1>3

\* Every step of the limiter, of Redis and of time keeps the invariant.
LEMMA LInvNext == LInv /\ [Next]_vars => LInv'
<1> SUFFICES ASSUME LInv, [Next]_vars PROVE LInv'
  OBVIOUS
<1> USE LimiterAssumption
<1>1. FailMode \in {"bypassed", "unavailable", "dead"}
  BY DEF FailMode
<1>2. ASSUME NEW h \in Calls, Hit(h) PROVE LInv'
  <2>1. /\ count' \in Nat \ {0} /\ life' \in Nat /\ born' \in Nat
        /\ born' <= now /\ life <= life'
        /\ expiry # Never => expiry >= born' + Window /\ life' = life
        /\ \A c \in Calls : counted[c] = life' => count > 0
    BY <1>2, IncrKeeps DEF Hit
  <2>2. /\ UNCHANGED <<now, expiry, resets>>
        /\ counted' = [counted EXCEPT ![h] = life'] /\ at' = [at EXCEPT ![h] = now]
    BY <1>2 DEF Hit
  <2>3. TypeOK'
    <3>1. step' \in [Calls -> {"idle", "arming", "dead"} \cup Verdicts]
      BY <1>2 DEF LInv, TypeOK, Hit, Verdict, Verdicts
    <3>2. current' \in [Calls -> Nat]
      BY <1>2 DEF LInv, TypeOK, Hit
    <3>3. QED
      BY <2>1, <2>2, <3>1, <3>2 DEF LInv, TypeOK
  <2>4. \A c \in Calls : counted'[c] <= life'
    BY <2>1, <2>2 DEF LInv, TypeOK
  <2>5. RefusedNotForEver'
    <3> SUFFICES ASSUME NEW c \in Calls, step'[c] = "refused", counted'[c] = life',
                        expiry = Never
                 PROVE  FALSE
      BY <2>2 DEF RefusedNotForEver
    <3>1. step'[h] = "arming"
      BY <1>2 DEF LInv, TypeOK, Hit
    <3>2. c # h /\ step[c] = "refused" /\ counted[c] = life'
      BY <1>2, <2>2, <3>1 DEF LInv, TypeOK, Hit
    <3>3. count > 0 /\ life' = life
      BY <1>2, <2>1, <3>2 DEF Hit, Incr, LInv, TypeOK
    <3>4. QED
      BY <3>2, <3>3 DEF LInv, RefusedNotForEver
  <2>6. QED
    BY <2>1, <2>2, <2>3, <2>4, <2>5 DEF LInv
<1>3. ASSUME NEW h \in Calls, Arm(h) PROVE LInv'
  <2>1. TypeOK'
    BY <1>3 DEF LInv, TypeOK, Arm, Verdict, Verdicts
  <2>2. expiry' # Never => count' > 0 /\ expiry' >= born' + Window
    BY <1>3 DEF LInv, TypeOK, Arm, Never
  <2>3. RefusedNotForEver'
    BY <1>3 DEF LInv, TypeOK, Arm, RefusedNotForEver, Never
  <2>4. QED
    BY <1>3, <2>1, <2>2, <2>3 DEF LInv, Arm
<1>4. ASSUME NEW h \in Calls, Unreachable(h) \/ WorkerDies(h) PROVE LInv'
  <2>1. \A c \in Calls :
           step[c] = "refused" /\ count > 0 /\ counted[c] = life => expiry # Never
    BY DEF LInv, RefusedNotForEver
  <2>2. TypeOK'
    BY <1>1, <1>4 DEF LInv, TypeOK, Unreachable, WorkerDies, Fails, FailMode, Verdicts
  <2>3. UNCHANGED <<now, count, expiry, resets, life, born>>
    BY <1>4 DEF Unreachable, WorkerDies
  <2>4. RefusedNotForEver' /\ \A c \in Calls : counted'[c] <= life
    BY <1>1, <1>4, <2>3 DEF LInv, TypeOK, Unreachable, WorkerDies, Fails, FailMode,
                            RefusedNotForEver
  <2>5. QED
    BY <2>2, <2>3, <2>4 DEF LInv
<1>5. ASSUME NEW h \in Calls, ReplyLost(h) PROVE LInv'
  <2>1. /\ count' \in Nat \ {0} /\ life' \in Nat /\ born' \in Nat
        /\ born' <= now /\ life <= life'
        /\ expiry # Never => expiry >= born' + Window /\ life' = life
        /\ \A c \in Calls : counted[c] = life' => count > 0
    BY <1>5, IncrKeeps DEF ReplyLost
  <2>2. \A c \in Calls : counted[c] = life' => count > 0 /\ life' = life
    BY <1>5, <2>1 DEF ReplyLost, Incr, LInv, TypeOK
  <2>3. QED
    BY <1>1, <1>5, <2>1, <2>2, FailsKeeps DEF ReplyLost
<1>6. CASE Reset
  BY <1>6 DEF LInv, TypeOK, Reset, RefusedNotForEver, Never
<1>7. CASE Tick
  <2>1. TypeOK' /\ born' <= now' /\ \A c \in Calls : counted'[c] <= life'
    BY <1>7 DEF LInv, TypeOK, Tick, Never
  <2>2. expiry' # Never => count' > 0 /\ expiry' >= born' + Window
    BY <1>7 DEF LInv, TypeOK, Tick, Never
  <2>3. RefusedNotForEver'
    BY <1>7 DEF LInv, TypeOK, Tick, RefusedNotForEver, Never
  <2>4. QED
    BY <2>1, <2>2, <2>3 DEF LInv
<1>8. CASE UNCHANGED vars
  BY <1>8 DEF LInv, TypeOK, vars, RefusedNotForEver
<1>9. QED
  BY <1>2, <1>3, <1>4, <1>5, <1>6, <1>7, <1>8 DEF Next

-----------------------------------------------------------------------------
(* How many calls a stretch of time can grant.  A call is granted by one     *)
(* counter, which grants Limit at the most; and counters follow each other:  *)
(* of those strictly between two calls, each was cleared or lasted Window    *)
(* ticks, so calls that lie 2 + resets counters apart are Window ticks apart. *)

\* Calls that were granted, or will be when they have armed the key.
Kept ==
  {h \in Calls :
     \/ step[h] = "allowed"
     \/ step[h] = "arming" /\ current[h] <= Limit}

\* Who was granted, or arms the key, was counted by a counter.
Counted ==
  /\ count > 0 => life > 0
  /\ \A h \in Calls : step[h] \in {"arming", "allowed"} => counted[h] > 0

\* f gives the calls one counter grants different numbers within the limit.
Numbers(f) ==
  \A h \in Kept :
    /\ f[h] \in 1..Limit
    /\ count > 0 /\ counted[h] = life => f[h] <= count
    /\ \A g \in Kept : counted[g] = counted[h] /\ f[g] = f[h] => g = h

\* A call was made before now, and before a counter that came after its own.
InOrder ==
  \A h \in Calls :
    /\ at[h] <= now
    /\ 0 < counted[h] /\ counted[h] < life => at[h] <= born

\* Enough counters after a call, and a window has gone by since.
Lapsed ==
  \A h \in Calls :
    counted[h] > 0 =>
      /\ life >= counted[h] + 2 + resets => born >= at[h] + Window
      /\ count = 0 /\ life + 1 >= counted[h] + 2 + resets => now >= at[h] + Window

\* Calls that many counters apart are a window apart.
FarApart ==
  \A h, g \in Calls :
    counted[h] > 0 /\ counted[g] >= counted[h] + 2 + resets => at[g] >= at[h] + Window

\* No counter grants more than its limit, said without counting.
Numbered == \E f \in [Calls -> Nat] : Numbers(f)

CapInv == Counted /\ InOrder /\ Lapsed /\ FarApart /\ Numbered

\* No call has been counted by a limiter that starts.
LEMMA CapInit == Init => CapInv
<1> SUFFICES ASSUME Init PROVE CapInv
  OBVIOUS
<1>1. /\ now = 0 /\ count = 0
      /\ \A h \in Calls : counted[h] = 0 /\ at[h] = 0 /\ step[h] = "idle"
  BY DEF Init
<1>2. Kept = {}
  BY <1>1 DEF Kept
<1>3. Numbers([h \in Calls |-> 0])
  BY <1>2 DEF Numbers
<1>4. [h \in Calls |-> 0] \in [Calls -> Nat]
  OBVIOUS
<1>5. Numbered
  BY <1>3, <1>4 DEF Numbered
<1>6. QED
  BY <1>1, <1>5 DEF CapInv, Counted, InOrder, Lapsed, FarApart

\* Every step keeps who was counted.
LEMMA CountedNext == LInv /\ CapInv /\ [Next]_vars => Counted'
<1> SUFFICES ASSUME LInv, Counted, [Next]_vars PROVE Counted'
  BY DEF CapInv
<1> USE DEF Counted, LInv, TypeOK
<1>1. ASSUME Incr PROVE life' > 0 /\ count' > 0
  BY <1>1 DEF Incr
<1>2. ASSUME NEW h \in Calls, Hit(h) PROVE Counted'
  <2>1. life' > 0
    BY <1>1, <1>2 DEF Hit
  <2>2. /\ counted' = [counted EXCEPT ![h] = life']
        /\ \A c \in Calls \ {h} : step'[c] = step[c]
    BY <1>2 DEF Hit
  <2>3. QED
    BY <2>1, <2>2
<1>3. ASSUME NEW h \in Calls, Arm(h) PROVE Counted'
  BY <1>3 DEF Arm, Verdict
<1>4. FailMode \notin {"arming", "allowed"}
  BY DEF FailMode
<1>5. ASSUME NEW h \in Calls, Unreachable(h) \/ WorkerDies(h) PROVE Counted'
  BY <1>4, <1>5 DEF Unreachable, WorkerDies, Fails
<1>6. ASSUME NEW h \in Calls, ReplyLost(h) PROVE Counted'
  BY <1>1, <1>4, <1>6 DEF ReplyLost, Fails
<1>7. CASE Reset \/ Tick \/ UNCHANGED vars
  BY <1>7 DEF Reset, Tick, vars
<1>8. QED
  BY <1>2, <1>3, <1>5, <1>6, <1>7 DEF Next

\* Counting a call keeps the spacing of the earlier ones, and puts the new one at
\* its place.
LEMMA IncrSpaces ==
  ASSUME LInv, InOrder, Lapsed, FarApart, Incr, UNCHANGED <<now, resets>>,
         \A h \in Calls : \/ counted'[h] = counted[h] /\ at'[h] = at[h]
                          \/ counted'[h] = life' /\ at'[h] = now
                          \/ counted'[h] = 0 /\ at'[h] = 0
  PROVE  InOrder' /\ Lapsed' /\ FarApart'
<1> USE LimiterAssumption
<1>1. /\ now \in Nat /\ born \in Nat /\ life \in Nat /\ count \in Nat /\ resets \in Nat
      /\ born <= now
      /\ \A h \in Calls : counted[h] \in Nat /\ at[h] \in Nat /\ counted[h] <= life
  BY DEF LInv, TypeOK
<1>2. /\ count' = count + 1 /\ count' > 0
      /\ count = 0 => life' = life + 1 /\ born' = now
      /\ count # 0 => life' = life /\ born' = born
  BY <1>1 DEF Incr
<1>3. InOrder'
  BY <1>1, <1>2 DEF InOrder
<1>4. ASSUME NEW h \in Calls, counted[h] > 0, life' >= counted[h] + 2 + resets
      PROVE  born' >= at[h] + Window
  <2>1. CASE count = 0
    BY <1>1, <1>2, <1>4, <2>1 DEF Lapsed
  <2>2. CASE count # 0
    BY <1>1, <1>2, <1>4, <2>2 DEF Lapsed
  <2>3. QED
    BY <2>1, <2>2
<1>5. Lapsed'
  BY <1>1, <1>2, <1>4 DEF Lapsed
<1>6. born' <= now
  BY <1>1, <1>2
<1>7. FarApart'
  <2> SUFFICES ASSUME NEW h \in Calls, NEW g \in Calls, counted'[h] > 0,
                      counted'[g] >= counted'[h] + 2 + resets
               PROVE  at'[g] >= at'[h] + Window
    BY DEF FarApart
  <2>1. counted'[g] <= life'
    BY <1>1, <1>2
  <2>2. counted'[h] = counted[h] /\ at'[h] = at[h]
    BY <1>1, <1>2, <2>1
  <2>3. CASE counted'[g] = counted[g] /\ at'[g] = at[g]
    BY <2>2, <2>3 DEF FarApart
  <2>4. CASE counted'[g] = life' /\ at'[g] = now
    BY <1>1, <1>2, <1>4, <1>6, <2>2, <2>4
  <2>5. CASE counted'[g] = 0 /\ at'[g] = 0
    BY <1>1, <2>2, <2>5
  <2>6. QED
    BY <2>3, <2>4, <2>5
<1>8. QED
  BY <1>3, <1>5, <1>7

\* A call that is failed by Redis, or dies, only drops out of the spacing.
LEMMA DropSpaces ==
  ASSUME LInv, InOrder, Lapsed, FarApart,
         UNCHANGED <<now, count, resets, life, born>>,
         \A h \in Calls : \/ counted'[h] = counted[h] /\ at'[h] = at[h]
                          \/ counted'[h] = 0 /\ at'[h] = 0
  PROVE  InOrder' /\ Lapsed' /\ FarApart'
<1>1. /\ now \in Nat /\ resets \in Nat
      /\ \A h \in Calls : counted[h] \in Nat /\ at[h] \in Nat
  BY DEF LInv, TypeOK
<1>2. InOrder'
  BY <1>1 DEF InOrder
<1>3. Lapsed'
  BY <1>1 DEF Lapsed
<1>4. FarApart'
  BY <1>1 DEF FarApart
<1>5. QED
  BY <1>2, <1>3, <1>4

\* Clearing the counter ends one counter early, and is one more reset.
LEMMA ResetSpaces ==
  ASSUME LInv, InOrder, Lapsed, FarApart, Reset
  PROVE  InOrder' /\ Lapsed' /\ FarApart'
<1> USE LimiterAssumption
<1>1. /\ now \in Nat /\ born \in Nat /\ life \in Nat /\ resets \in Nat /\ born <= now
      /\ \A h \in Calls : counted[h] \in Nat /\ at[h] \in Nat
  BY DEF LInv, TypeOK
<1>2. resets' = resets + 1 /\ UNCHANGED <<now, life, born, counted, at>>
  BY DEF Reset
<1>3. InOrder'
  BY <1>2 DEF InOrder
<1>4. Lapsed'
  BY <1>1, <1>2 DEF Lapsed
<1>5. FarApart'
  BY <1>1, <1>2 DEF FarApart
<1>6. QED
  BY <1>3, <1>4, <1>5

\* A counter that expires has lasted a window, and what was counted by an earlier
\* one is older still.
LEMMA TickSpaces ==
  ASSUME LInv, InOrder, Lapsed, FarApart, Tick
  PROVE  InOrder' /\ Lapsed' /\ FarApart'
<1> USE LimiterAssumption
<1>1. /\ now \in Nat /\ born \in Nat /\ life \in Nat /\ resets \in Nat /\ born <= now
      /\ count \in Nat
      /\ \A h \in Calls : counted[h] \in Nat /\ at[h] \in Nat
  BY DEF LInv, TypeOK
<1>2. now' = now + 1 /\ UNCHANGED <<resets, life, born, counted, at>>
  BY DEF Tick
<1>3. count' = 0 => count = 0 \/ now' >= born + Window
  BY DEF Tick, LInv, TypeOK, Never
<1>4. InOrder'
  BY <1>1, <1>2 DEF InOrder
<1>5. Lapsed'
  <2> SUFFICES ASSUME NEW h \in Calls, counted[h] > 0
               PROVE  /\ life >= counted[h] + 2 + resets => born >= at[h] + Window
                      /\ count' = 0 /\ life + 1 >= counted[h] + 2 + resets =>
                           now' >= at[h] + Window
    BY <1>2 DEF Lapsed
  <2>1. life + 1 >= counted[h] + 2 + resets => at[h] <= born
    BY <1>1 DEF InOrder
  <2>2. QED
    BY <1>1, <1>2, <1>3, <2>1 DEF Lapsed
<1>6. FarApart'
  BY <1>2 DEF FarApart
<1>7. QED
  BY <1>4, <1>5, <1>6

\* A numbering stays one when no call is added to the kept ones and the counter in
\* use does not shrink but to nothing.
LEMMA NumberingStays ==
  ASSUME Numbered, Kept' \subseteq Kept, UNCHANGED life,
         \A h \in Kept' : counted'[h] = counted[h],
         count \in Nat, count' \in Nat,
         count' > 0 => count' >= count /\ count > 0
  PROVE  Numbered'
<1>1. PICK f \in [Calls -> Nat] : Numbers(f)
  BY DEF Numbered
<1>2. \A h \in Kept' : f[h] \in 1..Limit
  BY <1>1 DEF Numbers
<1>3. \A h \in Kept' : count' > 0 /\ counted'[h] = life' => f[h] <= count'
  BY <1>1, LimiterAssumption DEF Numbers
<1>4. \A h, g \in Kept' : counted'[g] = counted'[h] /\ f[g] = f[h] => g = h
  BY <1>1 DEF Numbers
<1>5. Numbers(f)'
  BY <1>2, <1>3, <1>4 DEF Numbers
<1>6. QED
  BY <1>5 DEF Numbered

\* A call that is kept when it is counted gets the number its INCR returned.
LEMMA HitNumbers ==
  ASSUME LInv, Numbered, NEW h \in Calls, Hit(h)
  PROVE  Numbered'
<1> USE LimiterAssumption
<1>1. /\ count \in Nat /\ life \in Nat /\ current \in [Calls -> Nat]
      /\ counted \in [Calls -> Nat] /\ \A c \in Calls : counted[c] <= life
      /\ DOMAIN step = Calls /\ step[h] = "idle"
  BY DEF LInv, TypeOK, Hit
<1>2. /\ count' = count + 1 /\ count' \in Nat /\ count' > 0
      /\ count = 0 => life' = life + 1
      /\ count # 0 => life' = life
  BY <1>1 DEF Hit, Incr
<1>3. counted' = [counted EXCEPT ![h] = life']
  BY DEF Hit
<1>4. h \notin Kept
  BY <1>1 DEF Kept
<1>5. \A c \in Calls \ {h} :
        step'[c] = step[c] /\ current'[c] = current[c] /\ counted'[c] = counted[c]
  BY <1>1, <1>3 DEF Hit
<1>6. Kept' \subseteq Kept \cup {h}
  BY <1>5 DEF Kept
<1>7. h \in Kept' => count + 1 <= Limit
  <2>1. CASE expiry = Never
    BY <1>1, <2>1 DEF Hit, Kept
  <2>2. CASE expiry # Never
    BY <1>1, <2>2 DEF Hit, Kept, Verdict
  <2>3. QED
    BY <2>1, <2>2
<1>8. PICK f \in [Calls -> Nat] : Numbers(f)
  BY DEF Numbered
<1>9. PICK e \in [Calls -> Nat] : e = [f EXCEPT ![h] = count + 1]
  <2>1. [f EXCEPT ![h] = count + 1] \in [Calls -> Nat]
    BY <1>1
  <2>2. QED
    BY <2>1
<1>10. e[h] = count + 1 /\ \A c \in Calls \ {h} : e[c] = f[c]
  BY <1>9
<1>11. Kept \subseteq Calls
  BY DEF Kept
<1>12. ASSUME NEW c \in Kept
       PROVE  /\ c # h /\ e[c] \in 1..Limit /\ counted'[c] = counted[c]
              /\ counted[c] = life' => e[c] < count + 1
  <2>1. c # h /\ c \in Calls /\ counted'[c] = counted[c] /\ e[c] = f[c]
    BY <1>4, <1>5, <1>10, <1>11
  <2>2. f[c] \in 1..Limit /\ (count > 0 /\ counted[c] = life => f[c] <= count)
    BY <1>8 DEF Numbers
  <2>3. counted[c] = life' => count # 0 /\ counted[c] = life
    BY <1>1, <1>2, <2>1
  <2>4. QED
    BY <1>1, <2>1, <2>2, <2>3
<1>13. \A c, d \in Kept : counted[c] = counted[d] /\ e[c] = e[d] => c = d
  BY <1>4, <1>8, <1>10, <1>11 DEF Numbers
<1>14. counted'[h] = life'
  BY <1>1, <1>3
<1>15. Numbers(e)'
  <2> SUFFICES ASSUME NEW c \in Kept'
               PROVE  /\ e[c] \in 1..Limit
                      /\ counted'[c] = life' => e[c] <= count'
                      /\ \A d \in Kept' : counted'[d] = counted'[c] /\ e[d] = e[c] => d = c
    BY DEF Numbers
  <2>1. CASE c = h
    <3>1. e[c] \in 1..Limit /\ e[c] <= count'
      BY <1>1, <1>2, <1>7, <1>10, <2>1
    <3>2. ASSUME NEW d \in Kept', counted'[d] = counted'[c], e[d] = e[c], d # c
          PROVE  FALSE
      <4>1. d \in Kept
        BY <1>6, <2>1, <3>2
      <4>2. e[d] < count + 1 /\ e[d] \in Int
        BY <1>12, <1>14, <2>1, <3>2, <4>1
      <4>3. QED
        BY <1>1, <1>10, <2>1, <3>2, <4>2
    <3>3. QED
      BY <3>1, <3>2
  <2>2. CASE c # h
    <3>1. c \in Kept
      BY <1>6, <2>2
    <3>2. e[c] \in 1..Limit /\ (counted'[c] = life' => e[c] <= count')
      BY <1>1, <1>2, <1>12, <3>1
    <3>3. ASSUME NEW d \in Kept', counted'[d] = counted'[c], e[d] = e[c] PROVE d = c
      <4>1. CASE d = h
        <5>1. e[c] < count + 1 /\ e[c] \in Int
          BY <1>12, <1>14, <3>1, <3>3, <4>1
        <5>2. QED
          BY <1>1, <1>10, <3>3, <4>1, <5>1
      <4>2. CASE d # h
        <5>1. d \in Kept /\ counted[d] = counted[c]
          BY <1>6, <1>12, <3>1, <3>3, <4>2
        <5>2. QED
          BY <1>13, <3>1, <3>3, <5>1
      <4>3. QED
        BY <4>1, <4>2
    <3>4. QED
      BY <3>2, <3>3
  <2>3. QED
    BY <2>1, <2>2
<1>16. QED
  BY <1>15 DEF Numbered

\* A call that arms the key is granted exactly if it was kept.
LEMMA ArmNumbers ==
  ASSUME LInv, Numbered, NEW h \in Calls, Arm(h)
  PROVE  Numbered'
<1>1. Kept' \subseteq Kept
  <2> SUFFICES ASSUME NEW c \in Kept' PROVE c \in Kept
    OBVIOUS
  <2>1. c \in Calls
    BY DEF Kept
  <2>2. CASE c = h
    BY <2>1, <2>2 DEF Kept, Arm, Verdict, LInv, TypeOK
  <2>3. CASE c # h
    BY <2>1, <2>3 DEF Kept, Arm, LInv, TypeOK
  <2>4. QED
    BY <2>2, <2>3
<1>2. UNCHANGED <<count, life, counted>> /\ count \in Nat
  BY DEF Arm, LInv, TypeOK
<1>3. QED
  BY <1>1, <1>2, NumberingStays

\* A call that Redis fails is not kept, and the counter may have counted it.
LEMMA FailsNumbers ==
  ASSUME LInv, Numbered, NEW h \in Calls,
         NEW v \in {"bypassed", "unavailable", "dead"}, Fails(h, v),
         Incr \/ UNCHANGED <<count, life>>
  PROVE  Numbered'
<1>1. /\ count \in Nat /\ life \in Nat /\ counted \in [Calls -> Nat]
      /\ DOMAIN step = Calls /\ DOMAIN current = Calls
      /\ \A c \in Calls : counted[c] <= life
  BY DEF LInv, TypeOK
<1>2. \A c \in Calls \ {h} :
        step'[c] = step[c] /\ current'[c] = current[c] /\ counted'[c] = counted[c]
  BY <1>1 DEF Fails
<1>3. counted'[h] = 0
  BY <1>1 DEF Fails
<1>4. h \notin Kept'
  BY <1>1 DEF Kept, Fails
<1>5. Kept' \subseteq Kept /\ \A c \in Kept' : counted'[c] = counted[c] /\ c \in Calls
  BY <1>2, <1>4 DEF Kept
<1>6. CASE UNCHANGED <<count, life>>
  BY <1>1, <1>5, <1>6, NumberingStays
<1>7. CASE Incr /\ count # 0
  <2>1. UNCHANGED life /\ count' = count + 1 /\ count > 0 /\ count' >= count /\ count' \in Nat
    BY <1>1, <1>7 DEF Incr
  <2>2. QED
    BY <1>1, <1>5, <2>1, NumberingStays
<1>8. CASE Incr /\ count = 0
  <2>1. life' = life + 1
    BY <1>8 DEF Incr
  <2>2. \A c \in Kept' : counted'[c] # life'
    BY <1>1, <1>5, <2>1
  <2>3. PICK f \in [Calls -> Nat] : Numbers(f)
    BY DEF Numbered
  <2>4. Numbers(f)'
    <3>1. \A c \in Kept' : f[c] \in 1..Limit
      BY <1>5, <2>3 DEF Numbers
    <3>2. \A c, d \in Kept' : counted'[d] = counted'[c] /\ f[d] = f[c] => d = c
      BY <1>5, <2>3 DEF Numbers
    <3>3. QED
      BY <2>2, <3>1, <3>2 DEF Numbers
  <2>5. QED
    BY <2>4 DEF Numbered
<1>9. QED
  BY <1>6, <1>7, <1>8

\* Every step keeps the cap on what counters grant.
LEMMA CapNext == LInv /\ CapInv /\ [Next]_vars => CapInv'
<1> SUFFICES ASSUME LInv, CapInv, [Next]_vars PROVE CapInv'
  OBVIOUS
<1>0. FailMode \in {"bypassed", "unavailable", "dead"}
  BY LimiterAssumption DEF FailMode
<1>1. InOrder /\ Lapsed /\ FarApart /\ Numbered /\ Counted'
  BY CountedNext DEF CapInv
<1>2. ASSUME NEW h \in Calls, Hit(h) PROVE CapInv'
  <2>1. \A c \in Calls : \/ counted'[c] = counted[c] /\ at'[c] = at[c]
                         \/ counted'[c] = life' /\ at'[c] = now
    BY <1>2 DEF Hit, LInv, TypeOK
  <2>2. Incr /\ UNCHANGED <<now, resets>>
    BY <1>2 DEF Hit
  <2>3. InOrder' /\ Lapsed' /\ FarApart'
    BY <1>1, <2>1, <2>2, IncrSpaces
  <2>4. QED
    BY <1>1, <1>2, <2>3, HitNumbers DEF CapInv
<1>3. ASSUME NEW h \in Calls, Arm(h) PROVE CapInv'
  <2>1. UNCHANGED <<now, count, resets, life, born, counted, at>>
    BY <1>3 DEF Arm
  <2>2. InOrder' /\ Lapsed' /\ FarApart'
    BY <1>1, <2>1, DropSpaces
  <2>3. QED
    BY <1>1, <1>3, <2>2, ArmNumbers DEF CapInv
<1>4. ASSUME NEW h \in Calls, NEW v \in {"bypassed", "unavailable", "dead"}, Fails(h, v)
      PROVE  \A c \in Calls : \/ counted'[c] = counted[c] /\ at'[c] = at[c]
                              \/ counted'[c] = 0 /\ at'[c] = 0
  BY <1>4 DEF Fails, LInv, TypeOK
<1>5. ASSUME NEW h \in Calls, Unreachable(h) \/ WorkerDies(h) PROVE CapInv'
  <2>1. PICK v \in {"bypassed", "unavailable", "dead"} : Fails(h, v)
    BY <1>5, <1>0 DEF Unreachable, WorkerDies
  <2>2. UNCHANGED <<now, count, resets, life, born>>
    BY <1>5 DEF Unreachable, WorkerDies
  <2>3. InOrder' /\ Lapsed' /\ FarApart'
    BY <1>1, <1>4, <2>1, <2>2, DropSpaces
  <2>4. QED
    BY <1>1, <2>1, <2>2, <2>3, FailsNumbers DEF CapInv
<1>6. ASSUME NEW h \in Calls, ReplyLost(h) PROVE CapInv'
  <2>1. Fails(h, FailMode) /\ Incr /\ UNCHANGED <<now, resets>>
    BY <1>6 DEF ReplyLost
  <2>2. InOrder' /\ Lapsed' /\ FarApart'
    BY <1>0, <1>1, <1>4, <2>1, IncrSpaces
  <2>3. QED
    BY <1>0, <1>1, <2>1, <2>2, FailsNumbers DEF CapInv
<1>7. CASE Reset
  <2>1. UNCHANGED <<life, counted, step, current>> /\ count' = 0 /\ count \in Nat
    BY <1>7 DEF Reset, LInv, TypeOK
  <2>2. Kept' = Kept
    BY <2>1 DEF Kept
  <2>3. Numbered'
    BY <1>1, <2>1, <2>2, NumberingStays
  <2>4. QED
    BY <1>1, <1>7, <2>3, ResetSpaces DEF CapInv
<1>8. CASE Tick
  <2>1. /\ UNCHANGED <<life, counted, step, current>>
        /\ count \in Nat /\ count' \in {0, count}
    BY <1>8 DEF Tick, LInv, TypeOK
  <2>2. Kept' = Kept
    BY <2>1 DEF Kept
  <2>3. Numbered'
    BY <1>1, <2>1, <2>2, NumberingStays
  <2>4. QED
    BY <1>1, <1>8, <2>3, TickSpaces DEF CapInv
<1>9. CASE UNCHANGED vars
  BY <1>9 DEF CapInv, Counted, InOrder, Lapsed, FarApart, Numbered, Numbers, Kept, vars
<1>10. QED
  BY <1>2, <1>3, <1>5, <1>6, <1>7, <1>8, <1>9 DEF Next

\* Numbers less than n apart with the same remainder are the same number.
LEMMA SameRemainder ==
  ASSUME NEW n \in Nat \ {0}, NEW x \in Nat, NEW y \in Nat,
         x < y + n, y < x + n, x % n = y % n
  PROVE  x = y
<1> DEFINE p == x \div n
           q == y \div n
           d == p - q
<1>1. /\ p \in Int /\ q \in Int
      /\ x = n * p + (x % n) /\ y = n * q + (y % n) /\ x % n \in Int
  OBVIOUS
<1> HIDE DEF p, q
<1>2. d \in Int /\ x - y = n * d
  BY <1>1
<1> HIDE DEF d
<1>3. ~(d >= 1)
  <2>1. d >= 1 => n * d >= n
    BY <1>2
  <2>2. QED
    BY <1>2, <2>1
<1>4. ~(d <= -1)
  <2>1. d <= -1 => n * d <= -n
    BY <1>2
  <2>2. QED
    BY <1>2, <2>1
<1>5. d = 0
  BY <1>2, <1>3, <1>4
<1>6. QED
  BY <1>2, <1>5

\* The number of pairs of a counter and a number.
LEMMA GridSize ==
  ASSUME NEW m \in Nat \ {0}, NEW k \in Nat \ {0}
  PROVE  IsFiniteSet((0..(m - 1)) \X (1..k)) /\ Cardinality((0..(m - 1)) \X (1..k)) = m * k
<1>1. IsFiniteSet(0..(m - 1)) /\ Cardinality(0..(m - 1)) = m
  <2>1. m - 1 \in Int /\ ~(0 > m - 1) /\ m - 1 - 0 + 1 = m
    OBVIOUS
  <2>2. Cardinality(0..(m - 1)) = IF 0 > m - 1 THEN 0 ELSE m - 1 - 0 + 1
    BY <2>1, FS_Interval
  <2>3. QED
    BY <2>1, <2>2, FS_Interval
<1>2. IsFiniteSet(1..k) /\ Cardinality(1..k) = k
  <2>1. Cardinality(1..k) = IF 1 > k THEN 0 ELSE k - 1 + 1
    BY FS_Interval
  <2>2. QED
    BY <2>1, FS_Interval
<1> DEFINE A == 0..(m - 1)
           B == 1..k
<1>3. IsFiniteSet(A) /\ IsFiniteSet(B) /\ Cardinality(A) = m /\ Cardinality(B) = k
  BY <1>1, <1>2
<1> HIDE DEF A, B
<1>4. IsFiniteSet(A \X B) /\ Cardinality(A \X B) = Cardinality(A) * Cardinality(B)
  BY <1>3, FS_Product
<1>5. IsFiniteSet(A \X B) /\ Cardinality(A \X B) = m * k
  BY <1>3, <1>4
<1>6. QED
  BY <1>5 DEF A, B

\* The invariant bounds what a stretch of Window ticks grants: a granted call is
\* told from the others by its counter, modulo 2 + resets, and its number.
LEMMA CapBounds == LInv /\ CapInv => AtMostTwiceTheLimit
<1> SUFFICES ASSUME LInv, CapInv, NEW t \in 0..now
             PROVE  Cardinality(AllowedWithin(t)) <= (2 + resets) * Limit
  BY DEF AtMostTwiceTheLimit
<1> DEFINE n == 2 + resets
           A == AllowedWithin(t)
           T == (0..(n - 1)) \X (1..Limit)
<1>1. PICK f \in [Calls -> Nat] : Numbers(f)
  BY DEF CapInv, Numbered
<1> DEFINE g == [h \in A |-> <<counted[h] % n, f[h]>>]
<1>2. /\ resets \in Nat /\ counted \in [Calls -> Nat] /\ n \in Nat \ {0} /\ t \in Nat
      /\ at \in [Calls -> Nat]
  BY DEF LInv, TypeOK
<1>3. A \subseteq Calls
  BY DEF AllowedWithin
<1>4. \A h \in A : h \in Kept /\ counted[h] > 0
  BY DEF AllowedWithin, Kept, CapInv, Counted
<1>5. \A h, k \in A : counted[k] < counted[h] + n
  <2> SUFFICES ASSUME NEW h \in A, NEW k \in A PROVE counted[k] < counted[h] + n
    OBVIOUS
  <2>1. at[k] < t + Window /\ t <= at[h]
    BY DEF AllowedWithin
  <2>2. ~(at[k] >= at[h] + Window)
    BY <1>2, <1>3, <2>1, LimiterAssumption
  <2>3. QED
    BY <1>2, <1>3, <1>4, <2>2 DEF CapInv, FarApart
<1>6. \A h \in A : counted[h] % n \in 0..(n - 1) /\ f[h] \in 1..Limit
  BY <1>1, <1>2, <1>3, <1>4 DEF Numbers
<1>7. \A h, k \in A : counted[h] % n = counted[k] % n => counted[h] = counted[k]
  <2> SUFFICES ASSUME NEW h \in A, NEW k \in A, counted[h] % n = counted[k] % n
               PROVE  counted[h] = counted[k]
    OBVIOUS
  <2>1. counted[h] \in Nat /\ counted[k] \in Nat
    BY <1>2, <1>3
  <2>2. counted[h] < counted[k] + n /\ counted[k] < counted[h] + n
    BY <1>5
  <2> HIDE DEF n, A
  <2>3. QED
    BY <1>2, <2>1, <2>2, SameRemainder
<1>8. \A h, k \in A : g[h] = g[k] => h = k
  <2> SUFFICES ASSUME NEW h \in A, NEW k \in A, g[h] = g[k] PROVE h = k
    OBVIOUS
  <2>1. counted[h] % n = counted[k] % n /\ f[h] = f[k]
    OBVIOUS
  <2>2. QED
    BY <1>1, <1>4, <1>7, <2>1 DEF Numbers
<1>9. g \in [A -> T]
  BY <1>6
<1> HIDE DEF g
<1>10. g \in Injection(A, T)
  BY <1>8, <1>9 DEF Injection, IsInjective
<1>11. IsFiniteSet(T) /\ Cardinality(T) = n * Limit
  <2>1. n \in Nat \ {0} /\ Limit \in Nat \ {0}
    BY <1>2, LimiterAssumption
  <2> HIDE DEF n
  <2>2. QED
    BY <2>1, GridSize
<1>12. Cardinality(A) <= Cardinality(T)
  <2> HIDE DEF A, T
  <2>1. QED
    BY <1>10, <1>11, FS_Injection
<1>13. QED
  BY <1>11, <1>12

-----------------------------------------------------------------------------
(* The theorems. *)

\* The invariant holds in every reachable state.
THEOREM LimiterInvariant == Spec => []LInv
  BY LInvInit, LInvNext, PTL DEF Spec

\* services/rate_limit.py hit: whoever is refused is refused by a counter that
\* expires, whichever call was to arm it and whatever became of that call.
THEOREM RefusalEnds == Spec => []RefusedNotForEver
<1>1. LInv => RefusedNotForEver
  BY DEF LInv
<1>2. QED
  BY <1>1, LimiterInvariant, PTL

\* services/rate_limit.py: the Redis counter is a fixed window that grants at most
\* its limit, opens with its first call and lasts at least Window ticks.
THEOREM ImplementsFixedWindow == Spec => FixedWindow
<1> USE LimiterAssumption
<1>1. Init => Promise!WInit
  BY DEF Init, Promise!WInit, used
<1>2. LInv /\ [Next]_vars => [Promise!WNext]_(Promise!wvars)
  <2> SUFFICES ASSUME LInv, [Next]_vars
               PROVE  Promise!WNext \/ UNCHANGED <<now, born, used>>
    BY DEF Promise!wvars
  <2> USE DEF LInv, TypeOK
  <2>1. ASSUME Incr, UNCHANGED now
        PROVE  Promise!WNext \/ UNCHANGED <<now, born, used>>
    <3>1. CASE count = 0
      BY <2>1, <3>1 DEF Incr, used, Promise!WNext, Promise!Open
    <3>2. CASE count > 0 /\ count < Limit
      BY <2>1, <3>2 DEF Incr, used, Promise!WNext, Promise!Grant
    <3>3. CASE count >= Limit
      BY <2>1, <3>3 DEF Incr, used
    <3>4. QED
      BY <3>1, <3>2, <3>3
  <2>2. ASSUME NEW h \in Calls, Hit(h) \/ ReplyLost(h)
        PROVE  Promise!WNext \/ UNCHANGED <<now, born, used>>
    BY <2>1, <2>2 DEF Hit, ReplyLost
  <2>3. ASSUME NEW h \in Calls, Arm(h) \/ Unreachable(h) \/ WorkerDies(h)
        PROVE  UNCHANGED <<now, born, used>>
    BY <2>3 DEF Arm, Unreachable, WorkerDies, used
  <2>4. CASE Reset
    BY <2>4 DEF Reset, used, Promise!WNext, Promise!Clear
  <2>5. CASE Tick
    <3>1. CASE expiry # Never /\ expiry <= now + 1
      BY <2>5, <3>1 DEF Tick, used, Promise!WNext, Promise!Close, Never
    <3>2. CASE ~(expiry # Never /\ expiry <= now + 1)
      BY <2>5, <3>2 DEF Tick, used, Promise!WNext, Promise!Pass
    <3>3. QED
      BY <3>1, <3>2
  <2>6. CASE UNCHANGED vars
    BY <2>6 DEF vars, used
  <2>7. QED
    BY <2>2, <2>3, <2>4, <2>5, <2>6 DEF Next
<1>3. QED
  BY <1>1, <1>2, LimiterInvariant, PTL DEF Spec, FixedWindow, Promise!WSpec

\* The limiter keeps its types: no reply is mistaken for another.
THEOREM LimiterTypeCorrect == Spec => []TypeOK
<1>1. LInv => TypeOK
  BY DEF LInv
<1>2. QED
  BY <1>1, LimiterInvariant, PTL

\* The cap on what counters grant holds in every reachable state.
THEOREM CapHolds == Spec => []CapInv
<1>1. LInv /\ LInv' /\ CapInv /\ [Next]_vars => CapInv'
  BY CapNext
<1>2. QED
  BY <1>1, CapInit, LimiterInvariant, PTL DEF Spec

\* services/rate_limit.py: whatever is lost, cleared or late, any Window ticks grant
\* at most twice the limit, and the limit once more for each time it was cleared.
THEOREM GrantsAreBounded == Spec => []AtMostTwiceTheLimit
<1>1. LInv /\ CapInv => AtMostTwiceTheLimit
  BY CapBounds
<1>2. QED
  BY <1>1, CapHolds, LimiterInvariant, PTL
=============================================================================
