---------------------------- MODULE SessionProofs ----------------------------
(***************************************************************************)
(* The session of the panel keeps its promises for any number of users,    *)
(* calls under way, refresh tokens and lost messages.                      *)
(*                                                                         *)
(* The inductive invariant has two halves. Base says what holds whatever   *)
(* happens: the types, what the record of a call means phase by phase, and *)
(* that a token on its way to the browser is nobody else's. Stage says     *)
(* what holds until a call outlives its session: the page load and the     *)
(* sign-in form have one call under way, the pages only calls of the user  *)
(* on the screen, whose session is alive in the jar or on its way there.   *)
(* For each half, one lemma per action.                                    *)
(***************************************************************************)
EXTENDS Session, FiniteSetTheorems, TLAPS

-----------------------------------------------------------------------------
(* The inductive invariant *)

\* What a call's record says by itself, phase by phase.
WellFormed(k) ==
  /\ k.phase = "idle" <=> k.kind = "none"
  /\ k.phase = "idle" => k = Idle
  /\ k.kind \in {"status", "login", "bootstrap", "stream", "me"} => k.phase \in {"asked", "told"}
  /\ k.kind = "restore" => k.phase \in {"refreshing", "rotating", "refreshed"}
  /\ k.kind \in {"login", "bootstrap"} => k.by \in Users
  /\ k.kind \in {"status", "login", "bootstrap", "stream", "me", "restore"} => ~ k.retry
  /\ k.phase = "asked" =>
       /\ k.grant = NoGrant /\ ~ k.ok
       /\ k.cookie # NoCookie => k.kind = "logout"
       /\ k.retry \/ k.kind = "me" => k.bearer.good
  /\ k.phase = "told" =>
       /\ k.cookie = NoCookie
       /\ k.retry \/ k.kind = "me" => k.ok
       /\ IF k.kind \in {"login", "bootstrap"} /\ k.ok
          THEN k.grant.cookie \in RefreshTokens /\ k.grant.access = [user |-> k.by, good |-> TRUE]
          ELSE k.grant = NoGrant
       /\ k.ok /\ k.kind \in PageKinds \cup {"me"} => k.bearer.user \in Users
  /\ k.phase = "refreshing" => k.grant = NoGrant /\ ~ k.ok /\ k.bearer = NoToken
  /\ k.phase = "rotating" =>
       /\ k.grant.cookie = NoCookie /\ ~ k.ok /\ k.bearer = NoToken
       /\ k.grant.access.user \in Users /\ ~ k.grant.access.good
  /\ k.phase = "refreshed" =>
       /\ k.bearer = NoToken
       /\ IF k.ok
          THEN /\ k.cookie = NoCookie /\ k.grant.cookie \in RefreshTokens
               /\ k.grant.access.user \in Users /\ k.grant.access.good
          ELSE k.grant = NoGrant

\* A token on its way to the browser is presented by nobody yet, so nothing revokes it.
GrantsAreFresh ==
  \A c \in Slots : calls[c].grant.cookie # NoCookie =>
    /\ calls[c].grant.cookie # jar
    /\ sessions[calls[c].grant.cookie] = calls[c].grant.access.user
    /\ \A d \in Slots : /\ calls[d].cookie # calls[c].grant.cookie
                        /\ d # c => calls[d].grant.cookie # calls[c].grant.cookie

\* Before the setup there is no session, nor a refresh that found one.
NobodyYet ==
  fresh => /\ \A r \in RefreshTokens : sessions[r] = Nobody
           /\ \A c \in Slots : calls[c].phase # "rotating"

\* What holds in every state.
Base == TypeOK /\ (\A c \in Slots : WellFormed(calls[c])) /\ GrantsAreFresh /\ NobodyYet

\* At most one call is under way, of one of these kinds.
OneCall(kinds) ==
  /\ \A c \in Slots : Open(c) => calls[c].kind \in kinds
  /\ \A c, d \in Slots : Open(c) /\ Open(d) => c = d

\* The page load: it has no token until its refresh brings one, and asks with
\* the cookie of the jar.
LoadingStage ==
  /\ OneCall({"status", "restore", "me"})
  /\ rows = {}
  /\ \A c \in Slots :
       /\ calls[c].kind \in {"status", "restore"} => tokens = NoToken
       /\ calls[c].kind = "me" => /\ tokens.user = calls[c].bearer.user
                                  /\ jar # NoCookie /\ sessions[jar] = tokens.user
       /\ calls[c].kind = "status" /\ calls[c].phase = "told" /\ ~ calls[c].ok => fresh
       /\ Refreshing(c) /\ ~ calls[c].ok => calls[c].cookie = jar
       /\ calls[c].phase = "refreshed" /\ ~ calls[c].ok => ~ Live(jar)

\* The sign-in form: unless a message was lost, no session is left behind it.
AnonymousStage ==
  /\ OneCall({"login", "bootstrap"})
  /\ rows = {}
  /\ lost = 0 => tokens = NoToken /\ ~ Live(jar)

\* A cookie of u, if the API still takes it.
Of(cookie, u) == cookie # NoCookie => sessions[cookie] \in {Nobody, u}

\* The pages: all they hold and all they ask is u's.
SignedInStage(u) ==
  /\ u \in Users
  /\ rows \subseteq {u}
  /\ tokens.user \in {Nobody, u}
  /\ Of(jar, u)
  /\ \A c \in Slots : Open(c) =>
       /\ calls[c].kind \in PageKinds \cup {"logout"}
       /\ calls[c].by = u /\ ~ calls[c].aborted
       /\ calls[c].bearer.user \in {Nobody, u}
       /\ calls[c].grant.access.user \in {Nobody, u}
       /\ Of(calls[c].cookie, u)

\* The session goes on: in the jar, or in an answer under way; or its end is told.
SessionAlive ==
  \/ Live(jar)
  \/ \E c \in Slots : calls[c].phase = "refreshed" /\ calls[c].ok
  \/ \E c \in Slots : calls[c].phase = "told" /\ calls[c].ok /\ calls[c].kind = "logout"

\* A refresh that nothing competes with: it presents the live cookie of the jar.
Undisturbed(c) ==
  /\ \A d \in Slots \ {c} : ~ Refreshing(d) /\ calls[d].kind # "logout"
  /\ calls[c].phase = "refreshing" => calls[c].cookie = jar /\ Live(jar)
  /\ calls[c].phase = "refreshed" => calls[c].ok

\* What holds until a call outlives its session.
Stage ==
  ~ stray =>
    /\ screen.status = "loading" => LoadingStage
    /\ screen.status = "anonymous" => AnonymousStage
    /\ screen.status = "authenticated" =>
         /\ SignedInStage(screen.user)
         /\ lost = 0 => /\ SessionAlive
                        /\ \A c \in Slots : Refreshing(c) /\ ~ calls[c].disturbed => Undisturbed(c)

\* The inductive invariant.
SInv == Base /\ Stage

-----------------------------------------------------------------------------
(* The operators of the model *)

\* There always is a refresh token that nobody holds: the jar and every call hold
\* at most one each.
LEMMA FreeToken ==
  ASSUME Base
  PROVE  \E r \in RefreshTokens : r \notin Held
<1> DEFINE tok == [c \in Slots |-> IF calls[c].cookie # NoCookie THEN calls[c].cookie
                                   ELSE calls[c].grant.cookie]
           S == {tok[c] : c \in Slots}
<1>1. tok \in Surjection(Slots, S)
  BY DEF Surjection
<1>2. IsFiniteSet(S) /\ Cardinality(S) <= Cardinality(Slots)
  <2> HIDE DEF tok, S
  <2>1. QED
    BY <1>1, SessionAssumption, FS_Surjection
<1>3. Cardinality(S) \in Nat /\ Cardinality(Slots) \in Nat /\ Cardinality(RefreshTokens) \in Nat
  <2> HIDE DEF S
  <2>1. QED
    BY <1>2, SessionAssumption, FS_CardinalityType
<1>4. \A c \in Slots : calls[c].cookie = NoCookie \/ calls[c].grant.cookie = NoCookie
  <2> SUFFICES ASSUME NEW c \in Slots
               PROVE  calls[c].cookie = NoCookie \/ calls[c].grant.cookie = NoCookie
    OBVIOUS
  <2>1. calls[c] \in Call /\ WellFormed(calls[c])
    BY DEF Base, TypeOK
  <2>2. QED
    BY <2>1 DEF WellFormed, Call, NoGrant, Idle
<1>5. \A c \in Slots : calls[c].cookie \in S \cup {NoCookie}
                       /\ calls[c].grant.cookie \in S \cup {NoCookie}
  BY <1>4
<1>6. PICK r \in RefreshTokens : r \notin S \cup {jar}
  <2> HIDE DEF S
  <2>1. /\ IsFiniteSet(S \cup {jar}) /\ Cardinality(S \cup {jar}) <= Cardinality(S) + 1
        /\ Cardinality(S \cup {jar}) \in Nat
    <3>1. IsFiniteSet(S \cup {jar})
      BY <1>2, FS_AddElement
    <3>2. Cardinality(S \cup {jar}) \in {Cardinality(S), Cardinality(S) + 1}
      BY <1>2, FS_AddElement
    <3>3. QED
      BY <1>3, <3>1, <3>2
  <2>2. CASE RefreshTokens \subseteq S \cup {jar}
    <3>1. Cardinality(RefreshTokens) <= Cardinality(S \cup {jar})
      BY <2>1, <2>2, FS_Subset
    <3>2. QED
      BY <1>2, <1>3, <2>1, <3>1, SessionAssumption
  <2>3. QED
    BY <2>2
<1>7. r \notin Held
  <2> HIDE DEF S
  <2>1. QED
    BY <1>5, <1>6, SessionAssumption DEF Held
<1>8. QED
  BY <1>7

\* A call that is given the tokens of a new session.
Given(k, u, phase, r) ==
  [k EXCEPT !.phase = phase, !.ok = TRUE, !.cookie = NoCookie,
            !.grant = [cookie |-> r, access |-> [user |-> u, good |-> TRUE]]]

\* What Issue does: a token r that nobody held becomes u's and is given to the
\* call c; a token somebody holds stays as it is, but for the old one.
LEMMA IssueFacts ==
  ASSUME Base, NEW c \in Slots, NEW u \in Users, NEW old, NEW phase,
         Issue(c, u, old, phase)
  PROVE  \E r \in RefreshTokens :
           /\ r # jar
           /\ \A d \in Slots : calls[d].cookie # r /\ calls[d].grant.cookie # r
           /\ sessions' \in [RefreshTokens -> Users \cup {Nobody}]
           /\ sessions'[r] = u
           /\ \A q \in RefreshTokens \ {r} : sessions'[q] \in {sessions[q], Nobody}
           /\ \A q \in RefreshTokens : q \in Held /\ q # old => sessions'[q] = sessions[q]
           /\ calls' = [calls EXCEPT ![c] = Given(calls[c], u, phase, r)]
<1> DEFINE r == CHOOSE r \in RefreshTokens : r \notin Held
<1>1. r \in RefreshTokens /\ r \notin Held
  BY FreeToken
<1>2. sessions' = [q \in RefreshTokens |->
             CASE q = r -> u
               [] q # r /\ q \in Held \ {old} -> sessions[q]
               [] OTHER -> Nobody]
  BY DEF Issue
<1>3. calls' = [calls EXCEPT ![c] = Given(calls[c], u, phase, r)]
  BY DEF Issue, Given, Base, TypeOK, Call
<1> HIDE DEF r
<1>4. sessions \in [RefreshTokens -> Users \cup {Nobody}]
  BY DEF Base, TypeOK
<1>5. \A d \in Slots : calls[d].cookie # r /\ calls[d].grant.cookie # r
  BY <1>1 DEF Held
<1>6. r # jar
  BY <1>1 DEF Held
<1>7. \A q \in RefreshTokens : sessions'[q] =
        IF q = r THEN u ELSE IF q \in Held \ {old} THEN sessions[q] ELSE Nobody
  BY <1>2
<1>8. sessions' \in [RefreshTokens -> Users \cup {Nobody}]
  BY <1>2, <1>4
<1>9. QED
  BY <1>1, <1>3, <1>5, <1>6, <1>7, <1>8

\* Tokens under way stay fresh while none is issued.
LEMMA GrantsKept ==
  ASSUME Base,
         \A q \in RefreshTokens : sessions'[q] = sessions[q] \/ \E d \in Slots : q = calls[d].cookie,
         \A d \in Slots : calls'[d].cookie \in {NoCookie, jar, jar', calls[d].cookie},
         \A d \in Slots : calls'[d].grant.cookie # NoCookie => calls'[d].grant = calls[d].grant,
         \/ jar' \in {jar, NoCookie}
         \/ \E c \in Slots : jar' = calls[c].grant.cookie /\ calls'[c].grant.cookie = NoCookie
  PROVE  GrantsAreFresh'
<1> SUFFICES ASSUME NEW c \in Slots, calls'[c].grant.cookie # NoCookie
             PROVE  /\ calls'[c].grant.cookie # jar'
                    /\ sessions'[calls'[c].grant.cookie] = calls'[c].grant.access.user
                    /\ \A d \in Slots : /\ calls'[d].cookie # calls'[c].grant.cookie
                                        /\ d # c => calls'[d].grant.cookie # calls'[c].grant.cookie
  BY DEF GrantsAreFresh
<1> DEFINE t == calls[c].grant.cookie
<1>1. calls'[c].grant = calls[c].grant /\ t # NoCookie
  OBVIOUS
<1>2. /\ t # jar /\ sessions[t] = calls[c].grant.access.user
      /\ \A d \in Slots : calls[d].cookie # t /\ (d # c => calls[d].grant.cookie # t)
  BY <1>1 DEF Base, GrantsAreFresh
<1>3. t \in RefreshTokens
  BY <1>1 DEF Base, TypeOK, Call, Cookies
<1>4. jar' # t
  BY <1>1, <1>2
<1>5. sessions'[t] = sessions[t]
  BY <1>2, <1>3
<1>6. \A d \in Slots : calls'[d].cookie # t
  BY <1>1, <1>2, <1>4
<1>7. \A d \in Slots : d # c => calls'[d].grant.cookie # t
  BY <1>1, <1>2
<1>8. QED
  BY <1>1, <1>2, <1>4, <1>5, <1>6, <1>7

\* What TypeOK says of the tab.
TabOK ==
  /\ tokens \in Access
  /\ screen \in [status : {"loading", "authenticated", "anonymous"},
                 user : Users \cup {Nobody}, setup : BOOLEAN]
  /\ rows \subseteq Users
  /\ lost \in 0 .. MaxLost
  /\ stray \in BOOLEAN

\* Base survives what issues no token and keeps every call well formed.
LEMMA BaseKept ==
  ASSUME Base, TabOK', fresh' = fresh,
         sessions' \in [RefreshTokens -> Users \cup {Nobody}],
         \A q \in RefreshTokens : sessions'[q] = sessions[q]
             \/ (sessions'[q] = Nobody /\ \E d \in Slots : q = calls[d].cookie),
         calls' \in [Slots -> Call],
         \A d \in Slots : WellFormed(calls'[d]),
         \A d \in Slots : calls'[d].cookie \in {NoCookie, jar, jar', calls[d].cookie},
         \A d \in Slots : calls'[d].grant.cookie # NoCookie => calls'[d].grant = calls[d].grant,
         \A d \in Slots : calls'[d].phase = "rotating" => calls[d].phase = "rotating" \/ ~ fresh,
         \/ jar' \in {jar, NoCookie}
         \/ \E c \in Slots : jar' = calls[c].grant.cookie /\ calls'[c].grant.cookie = NoCookie
  PROVE  Base'
<1>1. GrantsAreFresh'
  BY GrantsKept
<1>2. jar' \in Cookies
  BY DEF Base, TypeOK, Call, Cookies
<1>3. TypeOK'
  BY <1>2 DEF TabOK, Base, TypeOK
<1>4. NobodyYet'
  BY DEF Base, NobodyYet
<1>5. QED
  BY <1>1, <1>3, <1>4 DEF Base

\* The same for one call that becomes k.
LEMMA BaseKeptBy ==
  ASSUME Base, TabOK', UNCHANGED <<fresh, sessions, jar>>,
         NEW c \in Slots, NEW k \in Call, WellFormed(k), calls' = [calls EXCEPT ![c] = k],
         k.cookie \in {NoCookie, jar, calls[c].cookie},
         k.grant.cookie # NoCookie => k.grant = calls[c].grant,
         k.phase = "rotating" => calls[c].phase = "rotating" \/ ~ fresh
  PROVE  Base'
<1>1. calls \in [Slots -> Call] /\ \A d \in Slots : WellFormed(calls[d])
  BY DEF Base, TypeOK
<1>2. calls'[c] = k /\ \A d \in Slots \ {c} : calls'[d] = calls[d]
  BY <1>1
<1>3. calls' \in [Slots -> Call] /\ \A d \in Slots : WellFormed(calls'[d])
  BY <1>1, <1>2
<1>4. sessions' \in [RefreshTokens -> Users \cup {Nobody}]
  BY DEF Base, TypeOK
<1>5. QED
  BY <1>2, <1>3, <1>4, BaseKept

\* A free slot is a call, and a well formed one.
LEMMA IdleOK == Idle \in Call /\ WellFormed(Idle)
  BY DEF Idle, Call, WellFormed, Kinds, PageKinds, Access, Cookies, NoGrant, NoToken

\* What Asked builds, field by field.
LEMMA AskedOK ==
  ASSUME Base, NEW kind \in Kinds \ {"none", "restore"}, NEW by \in Users \cup {Nobody},
         NEW bearer \in Access, kind \in {"login", "bootstrap"} => by \in Users,
         kind = "me" => bearer.good
  PROVE  LET k == Asked(kind, by, bearer)
         IN  /\ k \in Call /\ WellFormed(k)
             /\ k.kind = kind /\ k.by = by /\ k.phase = "asked" /\ k.bearer = bearer
             /\ k.cookie = IF kind = "logout" THEN jar ELSE NoCookie
             /\ ~ k.retry /\ ~ k.ok /\ k.grant = NoGrant /\ ~ k.aborted /\ ~ k.disturbed
<1> DEFINE k == Asked(kind, by, bearer)
<1>1. /\ k.kind = kind /\ k.by = by /\ k.phase = "asked" /\ k.bearer = bearer
      /\ k.cookie = IF kind = "logout" THEN jar ELSE NoCookie
      /\ ~ k.retry /\ ~ k.ok /\ k.grant = NoGrant /\ ~ k.aborted /\ ~ k.disturbed
  BY DEF Asked, Idle
<1>2. jar \in Cookies
  BY DEF Base, TypeOK
<1>3. k \in Call
  BY <1>2, IdleOK DEF Call, Cookies, Asked
<1> HIDE DEF k
<1>4. WellFormed(k)
  BY <1>1 DEF WellFormed
<1> USE DEF k
<1>5. QED
  BY <1>1, <1>3, <1>4

\* An access token that runs out is still an access token, of the same user.
LEMMA DulledOK ==
  ASSUME NEW a \in Access
  PROVE  [a EXCEPT !.good = FALSE] \in Access
         /\ [a EXCEPT !.good = FALSE].user = a.user /\ ~ [a EXCEPT !.good = FALSE].good
<1>1. CASE a \in [user : Users, good : BOOLEAN]
  BY <1>1 DEF Access
<1>2. CASE a = NoToken
  <2> DEFINE b == [a EXCEPT !.good = FALSE]
  <2>1. a \in [user : {Nobody}, good : {FALSE}]
    BY <1>2 DEF NoToken
  <2>2. b \in [user : {Nobody}, good : {FALSE}]
    BY <2>1
  <2>3. b = [user |-> b.user, good |-> b.good] /\ b.user = Nobody /\ b.good = FALSE
    <3> HIDE DEF b
    <3>1. QED
      BY <2>2
  <2>4. b = NoToken
    <3> HIDE DEF b
    <3>1. QED
      BY <2>3 DEF NoToken
  <2>5. QED
    BY <2>3, <2>4, <1>2 DEF Access, NoToken
<1>3. QED
  BY <1>1, <1>2 DEF Access

\* The fields of NoGrant.
LEMMA NoGrantFacts == NoGrant.cookie = NoCookie /\ NoGrant.access = NoToken
  BY DEF NoGrant

\* There is nothing to run out where there is no token.
LEMMA DulledNone == [NoToken EXCEPT !.good = FALSE] = NoToken
<1> DEFINE b == [NoToken EXCEPT !.good = FALSE]
<1>1. NoToken \in [user : {Nobody}, good : {FALSE}]
  BY DEF NoToken
<1>2. b \in [user : {Nobody}, good : {FALSE}]
  BY <1>1
<1> HIDE DEF b
<1>3. b = [user |-> b.user, good |-> b.good] /\ b.user = Nobody /\ b.good = FALSE
  BY <1>2
<1>4. b = NoToken
  BY <1>3 DEF NoToken
<1> USE DEF b
<1>5. QED
  BY <1>4

\* The fields of an access token; one that is good is somebody's.
LEMMA AccessFields ==
  ASSUME NEW a \in Access
  PROVE  a.good \in BOOLEAN /\ a.user \in Users \cup {Nobody} /\ (a.good => a.user \in Users)
<1>1. CASE a \in [user : Users, good : BOOLEAN]
  BY <1>1
<1>2. CASE a = NoToken
  BY <1>2 DEF NoToken
<1>3. QED
  BY <1>1, <1>2 DEF Access

\* What the API may tell a call that it gives no session to.
Tellable(k, ok) ==
  /\ k.phase = "asked"
  /\ k.kind \in {"login", "bootstrap"} => ~ ok
  /\ k.retry \/ k.kind = "me" => ok
  /\ ok /\ k.kind \in PageKinds \cup {"me"} => k.bearer.good

\* What Tell does to the call, field by field.
LEMMA TellOK ==
  ASSUME Base, NEW c \in Slots, NEW ok \in BOOLEAN, Tellable(calls[c], ok)
  PROVE  \E k \in Call : /\ Tell(c, ok) = [calls EXCEPT ![c] = k] /\ WellFormed(k)
                         /\ k.cookie = NoCookie /\ k.grant = NoGrant /\ k.phase = "told"
                         /\ k.kind = calls[c].kind /\ k.by = calls[c].by /\ k.ok = ok
                         /\ k.bearer.user = calls[c].bearer.user
                         /\ k.aborted = calls[c].aborted
<1> DEFINE k == [calls[c] EXCEPT !.phase = "told", !.ok = ok, !.bearer.good = FALSE,
                                 !.cookie = NoCookie]
<1>1. calls \in [Slots -> Call] /\ calls[c] \in Call /\ WellFormed(calls[c])
  BY DEF Base, TypeOK
<1>2. Tell(c, ok) = [calls EXCEPT ![c] = k]
  BY <1>1 DEF Tell, Call
<1>3. k.bearer \in Access /\ k.bearer.user = calls[c].bearer.user
  <2>1. calls[c].bearer \in Access /\ k.bearer = [calls[c].bearer EXCEPT !.good = FALSE]
    BY <1>1 DEF Call
  <2>2. QED
    BY <2>1, DulledOK
<1>4. k \in Call
  BY <1>1, <1>3 DEF Call, Cookies
<1>5. WellFormed(k)
  <2>1. calls[c].bearer \in Access
    BY <1>1 DEF Call
  <2>2. ok /\ calls[c].kind \in PageKinds \cup {"me"} => calls[c].bearer.user \in Users
    BY <2>1, AccessFields DEF Tellable
  <2>3. /\ k.kind = calls[c].kind /\ k.by = calls[c].by /\ k.phase = "told"
        /\ k.cookie = NoCookie /\ k.ok = ok /\ k.retry = calls[c].retry
        /\ k.grant = calls[c].grant
    BY <1>1 DEF Call
  <2> HIDE DEF k
  <2>4. QED
    BY <1>1, <1>3, <2>2, <2>3 DEF WellFormed, Tellable
<1>6. /\ k.cookie = NoCookie /\ k.grant = NoGrant /\ k.phase = "told" /\ k.ok = ok
      /\ k.kind = calls[c].kind /\ k.by = calls[c].by /\ k.aborted = calls[c].aborted
  BY <1>1 DEF Call, WellFormed, Tellable
<1> HIDE DEF k
<1>7. QED
  BY <1>2, <1>3, <1>4, <1>5, <1>6

\* Two records that differ in the history of their disturbances only.
Same(k, l) ==
  /\ k.kind = l.kind /\ k.by = l.by /\ k.phase = l.phase /\ k.bearer = l.bearer
  /\ k.cookie = l.cookie /\ k.retry = l.retry /\ k.ok = l.ok /\ k.grant = l.grant
  /\ k.aborted = l.aborted

\* Another call refreshes or signs out.
Rival(c) == \E d \in Slots \ {c} : Refreshing(d) \/ (Open(d) /\ calls[d].kind = "logout")

\* A call that is marked as disturbed is otherwise the same.
LEMMA MarkedOK ==
  ASSUME NEW k \in Call, WellFormed(k), k.phase # "idle"
  PROVE  /\ [k EXCEPT !.disturbed = TRUE] \in Call /\ WellFormed([k EXCEPT !.disturbed = TRUE])
         /\ Same([k EXCEPT !.disturbed = TRUE], k) /\ [k EXCEPT !.disturbed = TRUE].disturbed
<1> DEFINE n == [k EXCEPT !.disturbed = TRUE]
<1>1. n \in Call /\ Same(n, k) /\ n.disturbed
  BY DEF Call, Same
<1> HIDE DEF n
<1>2. WellFormed(n)
  BY <1>1 DEF WellFormed, Same
<1> USE DEF n
<1>3. QED
  BY <1>1, <1>2

\* A call that is marked as aborted is otherwise the same.
LEMMA AbortedOK ==
  ASSUME NEW k \in Call, WellFormed(k), k.phase # "idle"
  PROVE  LET n == [k EXCEPT !.aborted = TRUE]
         IN  /\ n \in Call /\ WellFormed(n) /\ n.phase = k.phase /\ n.kind = k.kind
             /\ n.cookie = k.cookie /\ n.grant = k.grant
<1> DEFINE n == [k EXCEPT !.aborted = TRUE]
<1>1. /\ n \in Call
      /\ n.kind = k.kind /\ n.by = k.by /\ n.phase = k.phase /\ n.bearer = k.bearer
      /\ n.cookie = k.cookie /\ n.retry = k.retry /\ n.ok = k.ok /\ n.grant = k.grant
  BY DEF Call
<1> HIDE DEF n
<1>2. WellFormed(n)
  BY <1>1 DEF WellFormed
<1> USE DEF n
<1>3. QED
  BY <1>1, <1>2

\* Disturb marks c if it has a rival and every other refresh, and nothing else.
LEMMA DisturbFacts ==
  ASSUME NEW f \in [Slots -> Call], NEW c \in Slots, \A d \in Slots : WellFormed(f[d]),
         f[c].phase # "idle", \A d \in Slots \ {c} : f[d] = calls[d]
  PROVE  /\ Disturb(f, c) \in [Slots -> Call]
         /\ \A d \in Slots :
              /\ WellFormed(Disturb(f, c)[d])
              /\ Same(Disturb(f, c)[d], f[d])
              /\ Disturb(f, c)[d].disturbed <=>
                   f[d].disturbed \/ (d = c /\ Rival(c)) \/ (d # c /\ Refreshing(d))
<1> DEFINE n == Disturb(f, c)
           hit(d) == (d = c /\ Rival(c)) \/ (d # c /\ Refreshing(d))
<1>1. n = [d \in Slots |-> IF hit(d) THEN [f[d] EXCEPT !.disturbed = TRUE] ELSE f[d]]
  BY DEF Disturb, Rival
<1>2. ASSUME NEW d \in Slots
      PROVE  n[d] \in Call /\ WellFormed(n[d]) /\ Same(n[d], f[d])
             /\ (n[d].disturbed <=> f[d].disturbed \/ hit(d))
  <2>1. f[d] \in Call /\ WellFormed(f[d])
    OBVIOUS
  <2>2. CASE hit(d)
    <3>1. n[d] = [f[d] EXCEPT !.disturbed = TRUE]
      BY <1>1, <2>2
    <3>2. f[d].phase # "idle"
      BY <2>2 DEF Refreshing
    <3>3. QED
      BY <2>1, <2>2, <3>1, <3>2, MarkedOK
  <2>3. CASE ~ hit(d)
    <3>1. n[d] = f[d]
      BY <1>1, <2>3
    <3>2. QED
      BY <2>1, <2>3, <3>1 DEF Same
  <2>4. QED
    BY <2>2, <2>3
<1>3. n \in [Slots -> Call]
  <2> HIDE DEF hit
  <2>1. QED
    BY <1>1, <1>2
<1>4. QED
  BY <1>2, <1>3

\* A call that is refused presents the cookie of the jar; the refreshes under way
\* are disturbed, and so is it if they were there first.
LEMMA RefreshFacts ==
  ASSUME Base, NEW c \in Slots, calls[c].phase \in {"asked", "told"},
         calls[c].kind \in {"query", "write", "download", "logout", "status"}
  PROVE  /\ Refresh(c) \in [Slots -> Call]
         /\ \A d \in Slots : WellFormed(Refresh(c)[d])
         /\ \A d \in Slots \ {c} :
              /\ Same(Refresh(c)[d], calls[d])
              /\ Refresh(c)[d].disturbed <=> calls[d].disturbed \/ Refreshing(d)
         /\ LET k == Refresh(c)[c]
            IN  /\ k.kind = IF calls[c].kind = "status" THEN "restore" ELSE calls[c].kind
                /\ k.by = calls[c].by /\ k.phase = "refreshing" /\ k.bearer = NoToken
                /\ k.cookie = jar /\ ~ k.ok /\ k.grant = NoGrant
                /\ k.aborted = calls[c].aborted
                /\ k.disturbed <=> calls[c].disturbed \/ Rival(c)
<1> DEFINE k == [calls[c] EXCEPT !.phase = "refreshing", !.cookie = jar, !.ok = FALSE,
               !.bearer = NoToken,
               !.kind = IF calls[c].kind = "status" THEN "restore" ELSE calls[c].kind]
           f == [calls EXCEPT ![c] = k]
<1>1. calls \in [Slots -> Call] /\ calls[c] \in Call /\ WellFormed(calls[c]) /\ jar \in Cookies
      /\ \A d \in Slots : WellFormed(calls[d])
  BY DEF Base, TypeOK
<1>2. Refresh(c) = Disturb(f, c)
  BY <1>1 DEF Refresh, Call
<1>3. /\ k \in Call
      /\ k.kind = IF calls[c].kind = "status" THEN "restore" ELSE calls[c].kind
      /\ k.by = calls[c].by /\ k.phase = "refreshing" /\ k.bearer = NoToken
      /\ k.cookie = jar /\ ~ k.ok /\ k.retry = calls[c].retry /\ k.grant = calls[c].grant
      /\ k.aborted = calls[c].aborted /\ k.disturbed = calls[c].disturbed
  <2>1. /\ k.kind = IF calls[c].kind = "status" THEN "restore" ELSE calls[c].kind
        /\ k.by = calls[c].by /\ k.phase = "refreshing" /\ k.bearer = NoToken
        /\ k.cookie = jar /\ ~ k.ok /\ k.retry = calls[c].retry /\ k.grant = calls[c].grant
        /\ k.aborted = calls[c].aborted /\ k.disturbed = calls[c].disturbed
    BY <1>1 DEF Call
  <2>2. NoToken \in Access
    BY DEF NoToken, Access
  <2>3. k \in Call
    BY <1>1, <2>2 DEF Call, Kinds
  <2>4. QED
    BY <2>1, <2>3
<1>4. calls[c].grant = NoGrant /\ (calls[c].kind = "status" => ~ calls[c].retry)
  BY <1>1 DEF WellFormed
<1> HIDE DEF k
<1>5. WellFormed(k)
  BY <1>3, <1>4 DEF WellFormed
<1>6. f \in [Slots -> Call] /\ f[c] = k /\ \A d \in Slots \ {c} : f[d] = calls[d]
  BY <1>1, <1>3
<1>7. \A d \in Slots : WellFormed(f[d])
  BY <1>1, <1>5, <1>6
<1> HIDE DEF f
<1>8. /\ Disturb(f, c) \in [Slots -> Call]
      /\ \A d \in Slots :
              /\ WellFormed(Disturb(f, c)[d])
              /\ Same(Disturb(f, c)[d], f[d])
              /\ Disturb(f, c)[d].disturbed <=>
                   f[d].disturbed \/ (d = c /\ Rival(c)) \/ (d # c /\ Refreshing(d))
  BY <1>3, <1>6, <1>7, DisturbFacts
<1>9. QED
  BY <1>2, <1>3, <1>4, <1>6, <1>8 DEF Same

\* Leaving the session keeps the browser's tokens out of every call it leaves behind.
LEMMA LeaveFacts ==
  ASSUME Base, NEW c \in Slots, LeaveSession(c)
  PROVE  /\ calls' \in [Slots -> Call]
         /\ \A d \in Slots :
              /\ WellFormed(calls'[d])
              /\ calls'[d].cookie \in {NoCookie, calls[d].cookie}
              /\ calls'[d].grant \in {NoGrant, calls[d].grant}
              /\ calls'[d].phase \in {"idle", calls[d].phase}
         /\ calls'[c] = Idle
         /\ tokens' = NoToken /\ screen' = Anonymous(screen.setup) /\ rows' = {}
         /\ stray' \in BOOLEAN
         /\ ~ stray' => /\ ~ stray /\ ~ calls[c].disturbed
                        /\ \A d \in Slots : calls'[d].phase = "idle"
<1>1. calls \in [Slots -> Call] /\ stray \in BOOLEAN /\ \A d \in Slots : WellFormed(calls[d])
  BY DEF Base, TypeOK
<1>2. \A d \in Slots : calls'[d] =
          CASE d = c \/ Aborts(d) -> Idle
            [] d # c /\ calls[d].kind = "query" /\ Refreshing(d)
                 -> [calls[d] EXCEPT !.aborted = TRUE]
            [] OTHER -> calls[d]
  BY DEF LeaveSession
<1>3. \A d \in Slots :
        \/ calls'[d] = Idle
        \/ Refreshing(d) /\ calls'[d] = [calls[d] EXCEPT !.aborted = TRUE]
        \/ calls'[d] = calls[d]
  BY <1>2 DEF Aborts
<1>4. ASSUME NEW d \in Slots
      PROVE  /\ calls'[d] \in Call /\ WellFormed(calls'[d])
             /\ calls'[d].cookie \in {NoCookie, calls[d].cookie}
             /\ calls'[d].grant \in {NoGrant, calls[d].grant}
             /\ calls'[d].phase \in {"idle", calls[d].phase}
  <2>1. CASE calls'[d] = Idle
    BY <2>1, IdleOK DEF Idle
  <2>2. CASE Refreshing(d) /\ calls'[d] = [calls[d] EXCEPT !.aborted = TRUE]
    BY <1>1, <2>2, AbortedOK DEF Refreshing
  <2>3. CASE calls'[d] = calls[d]
    BY <1>1, <2>3
  <2>4. QED
    BY <1>3, <2>1, <2>2, <2>3
<1>5. calls' = [d \in Slots |-> calls'[d]]
  BY DEF LeaveSession
<1>6. calls' \in [Slots -> Call]
  BY <1>4, <1>5
<1>7. tokens' = NoToken /\ screen' = Anonymous(screen.setup) /\ rows' = {}
  BY DEF LeaveSession
<1>8. ASSUME ~ stray'
      PROVE  ~ stray /\ ~ calls[c].disturbed /\ \A d \in Slots : calls'[d].phase = "idle"
  <2>1. /\ ~ stray /\ ~ calls[c].disturbed
        /\ \A d \in Slots \ {c} : ~ Open(d) \/ Aborts(d)
    BY <1>8 DEF LeaveSession, Strays
  <2>2. ASSUME NEW d \in Slots PROVE calls'[d].phase = "idle"
    <3>1. CASE d = c \/ Aborts(d)
      <4>1. calls'[d] = Idle
        BY <1>2, <3>1 DEF Aborts
      <4>2. QED
        BY <4>1 DEF Idle
    <3>2. CASE d # c /\ ~ Aborts(d)
      <4>1. calls[d].phase = "idle"
        BY <2>1, <3>2 DEF Open
      <4>2. calls'[d].phase \in {"idle", calls[d].phase}
        BY <1>4
      <4>3. QED
        BY <4>1, <4>2
    <3>3. QED
      BY <3>1, <3>2
  <2>3. QED
    BY <2>1, <2>2
<1>9. stray' \in BOOLEAN
  BY <1>1 DEF LeaveSession, Strays, Call
<1>10. QED
  BY <1>2, <1>4, <1>6, <1>7, <1>8, <1>9

-----------------------------------------------------------------------------
(* Base, action by action *)

\* Base survives a call of a page.
LEMMA StartCallBase ==
  ASSUME Base, NEW c \in Slots, NEW kind \in Kinds, StartCall(c, kind)
  PROVE  Base'
<1> DEFINE k == Asked(kind, screen.user, tokens)
<1>1. screen.user \in Users \cup {Nobody} /\ tokens \in Access
  BY DEF Base, TypeOK
<1>2. kind \in PageKinds /\ calls' = [calls EXCEPT ![c] = k]
  BY DEF StartCall
<1>3. /\ k \in Call /\ WellFormed(k) /\ k.phase = "asked" /\ k.grant = NoGrant
      /\ k.cookie \in {NoCookie, jar}
  BY <1>1, <1>2, AskedOK DEF PageKinds
<1>4. TabOK' /\ UNCHANGED <<fresh, sessions, jar>>
  BY DEF StartCall, TabOK, Base, TypeOK, server, history
<1> HIDE DEF k
<1>5. QED
  BY <1>2, <1>3, <1>4, BaseKeptBy, NoGrantFacts

\* Base survives a sign-in that is submitted.
LEMMA SubmitLoginBase ==
  ASSUME Base, NEW c \in Slots, NEW u \in Users, SubmitLogin(c, u)
  PROVE  Base'
<1> DEFINE k == Asked(IF screen.setup THEN "bootstrap" ELSE "login", u, NoToken)
<1>1. calls' = [calls EXCEPT ![c] = k]
  BY DEF SubmitLogin
<1>2. /\ (IF screen.setup THEN "bootstrap" ELSE "login") \in Kinds \ {"none", "restore", "me"}
      /\ NoToken \in Access
  BY DEF Kinds, PageKinds, Access
<1>3. /\ k \in Call /\ WellFormed(k) /\ k.phase = "asked" /\ k.grant = NoGrant
      /\ k.cookie \in {NoCookie, jar}
  BY <1>2, AskedOK
<1>4. TabOK' /\ UNCHANGED <<fresh, sessions, jar>>
  BY DEF SubmitLogin, TabOK, Base, TypeOK, server, history
<1> HIDE DEF k
<1>5. QED
  BY <1>1, <1>3, <1>4, BaseKeptBy, NoGrantFacts

\* A sign-out leaves with the cookie of the jar and disturbs every refresh.
LEMMA StartLogoutFacts ==
  ASSUME Base, NEW c \in Slots, StartLogout(c)
  PROVE  /\ calls' \in [Slots -> Call]
         /\ \A d \in Slots : WellFormed(calls'[d])
         /\ \A d \in Slots \ {c} :
              /\ Same(calls'[d], calls[d])
              /\ calls'[d].disturbed <=> calls[d].disturbed \/ Refreshing(d)
         /\ calls'[c].kind = "logout" /\ calls'[c].by = screen.user /\ calls'[c].phase = "asked"
         /\ calls'[c].bearer = tokens /\ calls'[c].cookie = jar /\ calls'[c].grant = NoGrant
         /\ ~ calls'[c].aborted
<1> DEFINE k == Asked("logout", screen.user, tokens)
           f == [calls EXCEPT ![c] = k]
<1>1. screen.user \in Users \cup {Nobody} /\ tokens \in Access /\ calls \in [Slots -> Call]
      /\ \A d \in Slots : WellFormed(calls[d])
  BY DEF Base, TypeOK
<1>2. calls' = Disturb(f, c)
  BY DEF StartLogout
<1>3. /\ k \in Call /\ WellFormed(k) /\ k.phase = "asked" /\ k.grant = NoGrant
      /\ k.kind = "logout" /\ k.by = screen.user /\ k.bearer = tokens
      /\ k.cookie = jar /\ ~ k.aborted
  <2>1. "logout" \in Kinds \ {"none", "restore"}
    BY DEF Kinds
  <2>2. QED
    BY <1>1, <2>1, AskedOK
<1> HIDE DEF k
<1>4. f \in [Slots -> Call] /\ f[c] = k /\ \A d \in Slots \ {c} : f[d] = calls[d]
  BY <1>1, <1>3
<1>5. \A d \in Slots : WellFormed(f[d])
  BY <1>1, <1>3, <1>4
<1> HIDE DEF f
<1>6. /\ Disturb(f, c) \in [Slots -> Call]
      /\ \A d \in Slots :
              /\ WellFormed(Disturb(f, c)[d])
              /\ Same(Disturb(f, c)[d], f[d])
              /\ Disturb(f, c)[d].disturbed <=>
                   f[d].disturbed \/ (d = c /\ Rival(c)) \/ (d # c /\ Refreshing(d))
  BY <1>3, <1>4, <1>5, DisturbFacts
<1>7. QED
  BY <1>2, <1>3, <1>4, <1>6 DEF Same

\* Base survives a sign-out that begins.
LEMMA StartLogoutBase ==
  ASSUME Base, NEW c \in Slots, StartLogout(c)
  PROVE  Base'
<1>1. /\ calls' \in [Slots -> Call]
      /\ \A d \in Slots : WellFormed(calls'[d])
      /\ \A d \in Slots \ {c} : Same(calls'[d], calls[d])
      /\ calls'[c].phase = "asked" /\ calls'[c].cookie = jar /\ calls'[c].grant = NoGrant
  BY StartLogoutFacts
<1>2. TabOK' /\ UNCHANGED <<fresh, sessions, jar>>
  BY DEF StartLogout, TabOK, Base, TypeOK, server, history
<1>3. sessions' \in [RefreshTokens -> Users \cup {Nobody}]
  BY <1>2 DEF Base, TypeOK
<1>4. QED
  BY <1>1, <1>2, <1>3, BaseKept, NoGrantFacts DEF Same

\* A page load starts with one call, for the bootstrap status.
LEMMA PageLoadFacts ==
  \E c \in Slots : /\ PageLoad \in [Slots -> Call]
                   /\ \A d \in Slots : WellFormed(PageLoad[d])
                   /\ PageLoad[c].kind = "status" /\ PageLoad[c].phase = "asked"
                   /\ PageLoad[c].cookie = NoCookie /\ PageLoad[c].grant = NoGrant
                   /\ \A d \in Slots \ {c} : PageLoad[d] = Idle
<1> DEFINE c == CHOOSE c \in Slots : TRUE
           k == [Idle EXCEPT !.kind = "status", !.phase = "asked"]
<1>1. c \in Slots
  BY SessionAssumption
<1>2. /\ k \in Call /\ k.kind = "status" /\ k.phase = "asked" /\ k.cookie = NoCookie
      /\ k.grant = NoGrant /\ ~ k.retry /\ ~ k.ok
  BY IdleOK DEF Idle, Call, Kinds
<1>3. PageLoad = [[d \in Slots |-> Idle] EXCEPT ![c] = k]
  BY DEF PageLoad
<1> HIDE DEF c, k
<1>4. WellFormed(k)
  BY <1>2 DEF WellFormed
<1>5. PageLoad[c] = k /\ \A d \in Slots \ {c} : PageLoad[d] = Idle
  BY <1>1, <1>3
<1>6. PageLoad \in [Slots -> Call]
  BY <1>2, <1>3, IdleOK
<1>7. QED
  BY <1>1, <1>2, <1>4, <1>5, <1>6, IdleOK

\* Base survives a reload.
LEMMA ReloadBase ==
  ASSUME Base, Reload
  PROVE  Base'
<1>1. PICK c \in Slots : /\ calls' \in [Slots -> Call]
                         /\ \A d \in Slots : WellFormed(calls'[d])
                         /\ calls'[c].phase = "asked"
                         /\ calls'[c].cookie = NoCookie /\ calls'[c].grant = NoGrant
                         /\ \A d \in Slots \ {c} : calls'[d] = Idle
  BY PageLoadFacts DEF Reload
<1>2. UNCHANGED <<fresh, sessions, jar>>
  BY DEF Reload, server
<1>3. TabOK'
  <2>1. lost' \in 0 .. MaxLost
    BY SessionAssumption DEF Reload, Base, TypeOK
  <2>2. tokens' \in Access /\ rows' \subseteq Users /\ stray' \in BOOLEAN
    BY DEF Reload, Base, TypeOK, Access
  <2>3. screen' \in [status : {"loading", "authenticated", "anonymous"},
                     user : Users \cup {Nobody}, setup : BOOLEAN]
    BY DEF Reload, Loading
  <2>4. QED
    BY <2>1, <2>2, <2>3 DEF TabOK
<1>4. sessions' \in [RefreshTokens -> Users \cup {Nobody}]
  BY <1>2 DEF Base, TypeOK
<1>5. QED
  BY <1>1, <1>2, <1>3, <1>4, BaseKept DEF Idle, NoGrant

\* Base survives an answer to a call with a bearer.
LEMMA ServeBase ==
  ASSUME Base, NEW c \in Slots, Serve(c)
  PROVE  Base'
<1>1. calls[c] \in Call /\ WellFormed(calls[c]) /\ calls[c].phase = "asked"
  BY DEF Base, TypeOK, Serve
<1>2. calls[c].bearer.good \in BOOLEAN
  <2>1. calls[c].bearer \in Access
    BY <1>1 DEF Call
  <2>2. QED
    BY <2>1, AccessFields
<1>3. PICK k \in Call : /\ calls' = [calls EXCEPT ![c] = k] /\ WellFormed(k)
                        /\ k.cookie = NoCookie /\ k.grant = NoGrant /\ k.phase = "told"
  <2>1. Tellable(calls[c], calls[c].bearer.good)
    BY <1>1 DEF Serve, WellFormed, PageKinds, Tellable
  <2>2. QED
    BY <1>2, <2>1, TellOK DEF Serve
<1>4. TabOK' /\ UNCHANGED <<fresh, sessions, jar>>
  BY DEF Serve, TabOK, Base, TypeOK, server, history
<1>5. QED
  BY <1>3, <1>4, BaseKeptBy, NoGrantFacts

\* Base survives an answer to the bootstrap status.
LEMMA ServeStatusBase ==
  ASSUME Base, NEW c \in Slots, ServeStatus(c)
  PROVE  Base'
<1>1. calls[c] \in Call /\ WellFormed(calls[c]) /\ calls[c].phase = "asked"
  BY DEF Base, TypeOK, ServeStatus
<1>2. (~ fresh) \in BOOLEAN
  OBVIOUS
<1>3. PICK k \in Call : /\ calls' = [calls EXCEPT ![c] = k] /\ WellFormed(k)
                        /\ k.cookie = NoCookie /\ k.grant = NoGrant /\ k.phase = "told"
  <2>1. Tellable(calls[c], ~ fresh)
    BY <1>1 DEF ServeStatus, WellFormed, PageKinds, Tellable
  <2>2. QED
    BY <1>2, <2>1, TellOK DEF ServeStatus
<1>4. TabOK' /\ UNCHANGED <<fresh, sessions, jar>>
  BY DEF ServeStatus, TabOK, Base, TypeOK, server, history
<1>5. QED
  BY <1>3, <1>4, BaseKeptBy, NoGrantFacts

\* Base survives a sign-out at the API: the token it revokes is the one presented.
LEMMA ServeLogoutBase ==
  ASSUME Base, NEW c \in Slots, ServeLogout(c)
  PROVE  Base'
<1>1. calls[c] \in Call /\ WellFormed(calls[c]) /\ calls[c].phase = "asked"
      /\ calls[c].kind = "logout" /\ calls \in [Slots -> Call]
      /\ sessions \in [RefreshTokens -> Users \cup {Nobody}]
      /\ \A d \in Slots : WellFormed(calls[d])
  BY DEF Base, TypeOK, ServeLogout
<1>2. calls[c].bearer.good \in BOOLEAN
  <2>1. calls[c].bearer \in Access
    BY <1>1 DEF Call
  <2>2. QED
    BY <2>1, AccessFields
<1>3. PICK k \in Call : /\ calls' = [calls EXCEPT ![c] = k] /\ WellFormed(k)
                        /\ k.cookie = NoCookie /\ k.grant = NoGrant /\ k.phase = "told"
  <2>1. Tellable(calls[c], calls[c].bearer.good)
    BY <1>1 DEF ServeLogout, WellFormed, PageKinds, Tellable
  <2>2. QED
    BY <1>2, <2>1, TellOK DEF ServeLogout
<1>4. calls'[c] = k /\ \A d \in Slots \ {c} : calls'[d] = calls[d]
  BY <1>1, <1>3
<1>5. calls' \in [Slots -> Call] /\ \A d \in Slots : WellFormed(calls'[d])
  BY <1>1, <1>3, <1>4
<1>6. \A q \in RefreshTokens : sessions'[q] =
         IF q = calls[c].cookie /\ calls[c].bearer.good THEN Nobody ELSE sessions[q]
  BY DEF ServeLogout
<1>7. sessions' \in [RefreshTokens -> Users \cup {Nobody}]
  BY <1>1 DEF ServeLogout
<1>8. TabOK' /\ UNCHANGED <<fresh, jar>>
  BY DEF ServeLogout, TabOK, Base, TypeOK, history
<1>9. QED
  BY <1>3, <1>4, <1>5, <1>6, <1>7, <1>8, BaseKept, NoGrantFacts

\* What a refresh reads, field by field.
LEMMA ReadFacts ==
  ASSUME Base, NEW c \in Slots, ReadRefreshToken(c)
  PROVE  \E k \in Call :
           /\ calls' = [calls EXCEPT ![c] = k] /\ WellFormed(k)
           /\ k.kind = calls[c].kind /\ k.by = calls[c].by /\ k.bearer = NoToken
           /\ k.cookie = calls[c].cookie /\ ~ k.ok
           /\ k.aborted = calls[c].aborted /\ k.disturbed = calls[c].disturbed
           /\ IF Live(calls[c].cookie)
              THEN /\ k.phase = "rotating" /\ k.grant.cookie = NoCookie
                   /\ k.grant.access.user = sessions[calls[c].cookie]
              ELSE k.phase = "refreshed" /\ k.grant = NoGrant
<1> DEFINE k == [calls[c] EXCEPT
         !.phase = IF Live(calls[c].cookie) THEN "rotating" ELSE "refreshed",
         !.grant.access.user = IF Live(calls[c].cookie) THEN sessions[calls[c].cookie]
                                                           ELSE Nobody]
<1>1. calls[c] \in Call /\ WellFormed(calls[c]) /\ calls[c].phase = "refreshing"
      /\ calls[c].kind # "none"
      /\ calls \in [Slots -> Call] /\ sessions \in [RefreshTokens -> Users \cup {Nobody}]
  BY DEF Base, TypeOK, ReadRefreshToken, WellFormed
<1>2. calls[c].grant = NoGrant /\ ~ calls[c].ok /\ calls[c].bearer = NoToken
  BY <1>1 DEF WellFormed
<1>3. calls' = [calls EXCEPT ![c] = k]
  BY <1>1 DEF ReadRefreshToken, Call
<1> DEFINE g == k.grant
<1>4. CASE Live(calls[c].cookie)
  <2>1. sessions[calls[c].cookie] \in Users
    BY <1>1, <1>4, SessionAssumption DEF Live, Call, Cookies
  <2>2. g = [NoGrant EXCEPT !.access.user = sessions[calls[c].cookie]]
    BY <1>1, <1>2, <1>4 DEF Call
  <2>3. /\ g \in [cookie : Cookies, access : Access] /\ g.cookie = NoCookie
        /\ g.access.user = sessions[calls[c].cookie] /\ ~ g.access.good
    <3> HIDE DEF g
    <3>1. g.cookie = NoCookie /\ g.access = [NoToken EXCEPT !.user = sessions[calls[c].cookie]]
      BY <2>2 DEF NoGrant
    <3>2. NoToken \in [user : {Nobody}, good : BOOLEAN]
      BY DEF NoToken
    <3>3. g.access \in [user : Users, good : BOOLEAN] /\ ~ g.access.good
          /\ g.access.user = sessions[calls[c].cookie]
      BY <2>1, <3>1, <3>2 DEF NoToken
    <3>4. NoGrant \in [cookie : {NoCookie}, access : [user : Users \cup {Nobody}, good : BOOLEAN]]
      BY DEF NoGrant, NoToken
    <3>5. g \in [cookie : {NoCookie}, access : [user : Users \cup {Nobody}, good : BOOLEAN]]
      BY <2>1, <2>2, <3>4
    <3>6. QED
      BY <3>1, <3>3, <3>5 DEF Access, Cookies
  <2>4. /\ k.phase = "rotating" /\ k.kind = calls[c].kind /\ k.by = calls[c].by
        /\ k.bearer = calls[c].bearer /\ k.cookie = calls[c].cookie /\ k.ok = calls[c].ok
        /\ k.retry = calls[c].retry
        /\ k.aborted = calls[c].aborted /\ k.disturbed = calls[c].disturbed
    BY <1>1, <1>4 DEF Call
  <2>5. k \in Call
    <3>1. k.grant \in [cookie : Cookies, access : Access]
      BY <2>3
    <3>2. QED
      BY <1>1, <1>4, <3>1 DEF Call
  <2>6. k.grant = g
    OBVIOUS
  <2> HIDE DEF k, g
  <2>7. WellFormed(k)
    BY <1>1, <1>2, <2>1, <2>3, <2>4, <2>6 DEF WellFormed
  <2>8. QED
    BY <1>2, <1>3, <1>4, <2>3, <2>4, <2>5, <2>6, <2>7
<1>5. CASE ~ Live(calls[c].cookie)
  <2>1. g = [NoGrant EXCEPT !.access.user = Nobody]
    BY <1>1, <1>2, <1>5 DEF Call
  <2>2. g = NoGrant
    <3>1. NoToken \in [user : {Nobody}, good : {FALSE}]
      BY DEF NoToken
    <3>2. NoGrant \in [cookie : {NoCookie}, access : [user : {Nobody}, good : {FALSE}]]
      BY <3>1 DEF NoGrant
    <3>3. g \in [cookie : {NoCookie}, access : [user : {Nobody}, good : {FALSE}]]
      <4> HIDE DEF g
      <4>1. QED
        BY <2>1, <3>2
    <3> HIDE DEF g
    <3>4. g = [cookie |-> g.cookie, access |-> g.access] /\ g.cookie = NoCookie
          /\ g.access = [user |-> g.access.user, good |-> g.access.good]
          /\ g.access.user = Nobody /\ g.access.good = FALSE
      BY <3>3
    <3>5. QED
      BY <3>4 DEF NoGrant, NoToken
  <2>3. /\ k.phase = "refreshed" /\ k.kind = calls[c].kind /\ k.by = calls[c].by
        /\ k.bearer = calls[c].bearer /\ k.cookie = calls[c].cookie /\ k.ok = calls[c].ok
        /\ k.retry = calls[c].retry
        /\ k.aborted = calls[c].aborted /\ k.disturbed = calls[c].disturbed
    BY <1>1, <1>5 DEF Call
  <2>4. k \in Call
    <3>1. k.grant \in [cookie : Cookies, access : Access]
      BY <1>1, <1>2, <2>2 DEF Call
    <3>2. QED
      BY <1>1, <1>5, <3>1 DEF Call
  <2>5. k.grant = g
    OBVIOUS
  <2> HIDE DEF k, g
  <2>6. WellFormed(k)
    BY <1>1, <1>2, <2>2, <2>3, <2>5 DEF WellFormed
  <2>7. QED
    BY <1>2, <1>3, <1>5, <2>2, <2>3, <2>4, <2>5, <2>6
<1>6. QED
  BY <1>4, <1>5

\* Base survives the first half of a refresh.
LEMMA ReadBase ==
  ASSUME Base, NEW c \in Slots, ReadRefreshToken(c)
  PROVE  Base'
<1>1. PICK k \in Call :
           /\ calls' = [calls EXCEPT ![c] = k] /\ WellFormed(k)
           /\ k.cookie = calls[c].cookie
           /\ IF Live(calls[c].cookie)
              THEN /\ k.phase = "rotating" /\ k.grant.cookie = NoCookie
              ELSE k.phase = "refreshed" /\ k.grant = NoGrant
  BY ReadFacts
<1>2. TabOK' /\ UNCHANGED <<fresh, sessions, jar>>
  BY DEF ReadRefreshToken, TabOK, Base, TypeOK, server, history
<1>3. Live(calls[c].cookie) => ~ fresh
  BY DEF Live, Base, NobodyYet, TypeOK, Call, Cookies
<1>4. k.grant.cookie = NoCookie /\ (k.phase = "rotating" => ~ fresh)
  BY <1>1, <1>3 DEF NoGrant
<1>5. QED
  BY <1>1, <1>2, <1>4, BaseKeptBy

\* The two occasions: a sign-in that succeeds, a refresh that rotates.
Due(k, u, phase) ==
  \/ k.phase = "asked" /\ k.kind \in {"login", "bootstrap"} /\ u = k.by /\ phase = "told"
  \/ k.phase = "rotating" /\ phase = "refreshed"

\* A call that is given tokens, field by field.
LEMMA GivenFacts ==
  ASSUME NEW k \in Call, WellFormed(k), NEW u \in Users, NEW r \in RefreshTokens, NEW phase,
         Due(k, u, phase),
         NEW n, n = Given(k, u, phase, r)
  PROVE  /\ n \in Call /\ WellFormed(n)
         /\ n.kind = k.kind /\ n.by = k.by /\ n.phase = phase /\ n.bearer = k.bearer
         /\ n.cookie = NoCookie /\ n.ok /\ n.retry = k.retry
         /\ n.grant.cookie = r /\ n.grant.access.user = u
         /\ n.aborted = k.aborted /\ n.disturbed = k.disturbed
<1> DEFINE a == [user |-> u, good |-> TRUE]
<1>1. /\ n.kind = k.kind /\ n.by = k.by /\ n.phase = phase /\ n.bearer = k.bearer
      /\ n.cookie = NoCookie /\ n.ok /\ n.retry = k.retry
      /\ n.grant = [cookie |-> r, access |-> a]
      /\ n.aborted = k.aborted /\ n.disturbed = k.disturbed
  BY DEF Given, Call, Due
<1>2. a \in Access /\ a.user = u /\ a.good
  BY DEF Access
<1> HIDE DEF a
<1>3. [cookie |-> r, access |-> a] \in [cookie : Cookies, access : Access]
  BY <1>2 DEF Cookies
<1>4. n \in Call
  <2> DEFINE g == [cookie |-> r, access |-> a]
  <2>1. n = [k EXCEPT !.phase = phase, !.ok = TRUE, !.cookie = NoCookie, !.grant = g]
    BY DEF Given, a
  <2>2. g \in [cookie : Cookies, access : Access]
    BY <1>3
  <2> HIDE DEF g
  <2>3. QED
    BY <2>1, <2>2 DEF Call, Cookies, Due
<1>5. n.grant.cookie = r /\ n.grant.access = a
  BY <1>1
<1>6. WellFormed(n)
  <2>1. CASE phase = "told" /\ k.phase = "asked" /\ k.kind \in {"login", "bootstrap"} /\ u = k.by
    BY <1>1, <1>5, <2>1 DEF WellFormed, a, PageKinds
  <2>2. CASE phase = "refreshed" /\ k.phase = "rotating"
    BY <1>1, <1>2, <1>5, <2>2 DEF WellFormed
  <2>3. QED
    BY <2>1, <2>2 DEF Due
<1>7. QED
  BY <1>1, <1>2, <1>4, <1>5, <1>6 DEF a

\* Base survives a token that is issued: it is new, so it is nobody else's, and
\* the tokens under way are held, so they are kept.
LEMMA IssueBase ==
  ASSUME Base, NEW c \in Slots, NEW u \in Users, NEW old \in {NoCookie, calls[c].cookie},
         NEW phase, Issue(c, u, old, phase), TabOK', jar' = jar, fresh' = FALSE,
         Due(calls[c], u, phase)
  PROVE  Base'
<1>1. PICK r \in RefreshTokens :
           /\ r # jar
           /\ \A d \in Slots : calls[d].cookie # r /\ calls[d].grant.cookie # r
           /\ sessions' \in [RefreshTokens -> Users \cup {Nobody}]
           /\ sessions'[r] = u
           /\ \A q \in RefreshTokens : q \in Held /\ q # old => sessions'[q] = sessions[q]
           /\ calls' = [calls EXCEPT ![c] = Given(calls[c], u, phase, r)]
  BY IssueFacts
<1>2. calls \in [Slots -> Call] /\ calls[c] \in Call
      /\ \A d \in Slots : WellFormed(calls[d])
  BY DEF Base, TypeOK
<1>3. calls'[c] = Given(calls[c], u, phase, r) /\ \A d \in Slots \ {c} : calls'[d] = calls[d]
  BY <1>1, <1>2
<1>4. /\ calls'[c] \in Call /\ WellFormed(calls'[c])
      /\ calls'[c].cookie = NoCookie /\ calls'[c].grant.cookie = r
      /\ calls'[c].grant.access.user = u /\ calls'[c].phase = phase
  <2> DEFINE k == calls[c]
  <2>1. k \in Call /\ WellFormed(k)
    BY <1>2
  <2>2. Due(k, u, phase)
    OBVIOUS
  <2>3. calls'[c] = Given(k, u, phase, r)
    BY <1>3
  <2> DEFINE n == Given(k, u, phase, r)
  <2> HIDE DEF k
  <2>4. /\ n \in Call /\ WellFormed(n)
        /\ n.cookie = NoCookie /\ n.grant.cookie = r
        /\ n.grant.access.user = u /\ n.phase = phase
    BY <2>1, <2>2, GivenFacts
  <2>5. QED
    BY <2>3, <2>4
<1>5. calls' \in [Slots -> Call] /\ \A d \in Slots : WellFormed(calls'[d])
  BY <1>1, <1>2, <1>3, <1>4
<1>6. TypeOK'
  BY <1>1, <1>5 DEF TabOK, TypeOK, Base
<1>7. GrantsAreFresh'
  <2> SUFFICES ASSUME NEW d \in Slots, calls'[d].grant.cookie # NoCookie
               PROVE  /\ calls'[d].grant.cookie # jar
                      /\ sessions'[calls'[d].grant.cookie] = calls'[d].grant.access.user
                      /\ \A e \in Slots : /\ calls'[e].cookie # calls'[d].grant.cookie
                                          /\ e # d => calls'[e].grant.cookie # calls'[d].grant.cookie
    BY DEF GrantsAreFresh
  <2>1. CASE d = c
    BY <1>1, <1>3, <1>4, <2>1, SessionAssumption
  <2>2. CASE d # c
    <3> DEFINE t == calls[d].grant.cookie
    <3>1. calls'[d] = calls[d] /\ t # NoCookie
      BY <1>3, <2>2
    <3>2. t \in RefreshTokens
      BY <1>2, <3>1 DEF Call, Cookies
    <3>3. /\ t # jar /\ sessions[t] = calls[d].grant.access.user
          /\ \A e \in Slots : calls[e].cookie # t /\ (e # d => calls[e].grant.cookie # t)
      BY <3>1 DEF Base, GrantsAreFresh
    <3>4. t \in Held /\ t # old
      BY <3>1, <3>3 DEF Held
    <3>5. sessions'[t] = sessions[t] /\ t # r
      BY <1>1, <3>2, <3>4
    <3> HIDE DEF t
    <3>6. \A e \in Slots : calls'[e].cookie # t /\ (e # d => calls'[e].grant.cookie # t)
      BY <1>3, <1>4, <3>1, <3>3, <3>5
    <3>7. QED
      BY <3>1, <3>3, <3>5, <3>6 DEF t
  <2>3. QED
    BY <2>1, <2>2
<1>8. QED
  BY <1>5, <1>6, <1>7 DEF Base, NobodyYet

\* Base survives a sign-in or a setup at the API.
LEMMA ServeLoginBase ==
  ASSUME Base, NEW c \in Slots, ServeLogin(c)
  PROVE  Base'
<1>1. calls[c] \in Call /\ WellFormed(calls[c]) /\ calls[c].phase = "asked"
      /\ calls[c].kind \in {"login", "bootstrap"}
  BY DEF Base, TypeOK, ServeLogin
<1>2. TabOK' /\ jar' = jar
  BY DEF ServeLogin, TabOK, Base, TypeOK, history
<1>3. CASE fresh = (calls[c].kind = "bootstrap")
  <2>1. calls[c].by \in Users
    BY <1>1 DEF WellFormed
  <2>2. Issue(c, calls[c].by, NoCookie, "told") /\ fresh' = FALSE
    BY <1>3 DEF ServeLogin
  <2>3. QED
    BY <1>1, <1>2, <2>1, <2>2, IssueBase DEF Due
<1>4. CASE fresh # (calls[c].kind = "bootstrap")
  <2>1. PICK k \in Call : /\ Tell(c, FALSE) = [calls EXCEPT ![c] = k] /\ WellFormed(k)
                          /\ k.cookie = NoCookie /\ k.grant = NoGrant /\ k.phase = "told"
    <3>1. Tellable(calls[c], FALSE)
      BY <1>1 DEF WellFormed, PageKinds, Tellable
    <3>2. QED
      BY <3>1, TellOK
  <2>2. calls' = [calls EXCEPT ![c] = k] /\ UNCHANGED <<fresh, sessions>>
    BY <1>4, <2>1 DEF ServeLogin, server
  <2>3. QED
    BY <1>2, <2>1, <2>2, BaseKeptBy, NoGrantFacts
<1>5. QED
  BY <1>3, <1>4

\* Base survives the second half of a refresh.
LEMMA RotateBase ==
  ASSUME Base, NEW c \in Slots, Rotate(c)
  PROVE  Base'
<1>1. WellFormed(calls[c]) /\ calls[c].phase = "rotating" /\ calls[c] \in Call
  BY DEF Base, TypeOK, Rotate
<1>2. calls[c].grant.access.user \in Users
  BY <1>1 DEF WellFormed
<1>3. TabOK' /\ jar' = jar /\ fresh' = FALSE
  BY <1>1 DEF Rotate, TabOK, Base, TypeOK, NobodyYet, history
<1>4. QED
  BY <1>1, <1>2, <1>3, IssueBase DEF Rotate, Due

\* Tokens that run out change nothing but themselves.
LEMMA ExpireFacts ==
  ASSUME Base, Expire
  PROVE  /\ calls' \in [Slots -> Call]
         /\ \A d \in Slots :
              /\ WellFormed(calls'[d])
              /\ calls'[d].kind = calls[d].kind /\ calls'[d].by = calls[d].by
              /\ calls'[d].phase = calls[d].phase /\ calls'[d].cookie = calls[d].cookie
              /\ calls'[d].retry = calls[d].retry /\ calls'[d].ok = calls[d].ok
              /\ calls'[d].grant = calls[d].grant
              /\ calls'[d].aborted = calls[d].aborted /\ calls'[d].disturbed = calls[d].disturbed
              /\ calls'[d].bearer.user = calls[d].bearer.user
         /\ tokens' \in Access /\ tokens'.user = tokens.user /\ (tokens = NoToken => tokens' = NoToken)
<1>1. calls \in [Slots -> Call] /\ tokens \in Access
      /\ \A d \in Slots : WellFormed(calls[d])
  BY DEF Base, TypeOK
<1>2. ASSUME NEW d \in Slots
      PROVE  /\ calls'[d] \in Call
             /\ WellFormed(calls'[d])
              /\ calls'[d].kind = calls[d].kind /\ calls'[d].by = calls[d].by
              /\ calls'[d].phase = calls[d].phase /\ calls'[d].cookie = calls[d].cookie
              /\ calls'[d].retry = calls[d].retry /\ calls'[d].ok = calls[d].ok
              /\ calls'[d].grant = calls[d].grant
              /\ calls'[d].aborted = calls[d].aborted /\ calls'[d].disturbed = calls[d].disturbed
              /\ calls'[d].bearer.user = calls[d].bearer.user
  <2> DEFINE k == calls[d]
             b == [k.bearer EXCEPT !.good = FALSE]
             n == [k EXCEPT !.bearer = b]
  <2>1. k \in Call /\ WellFormed(k) /\ k.bearer \in Access
    BY <1>1 DEF Call
  <2>2. calls'[d] = n
    BY <2>1 DEF Expire, Call
  <2>3. b \in Access /\ b.user = k.bearer.user
    BY <2>1, DulledOK
  <2>4. k.bearer = NoToken => b = NoToken
    BY DulledNone
  <2> HIDE DEF k, b
  <2>5. /\ n \in Call /\ n.kind = k.kind /\ n.by = k.by /\ n.phase = k.phase
        /\ n.cookie = k.cookie /\ n.retry = k.retry /\ n.ok = k.ok /\ n.grant = k.grant
        /\ n.aborted = k.aborted /\ n.disturbed = k.disturbed /\ n.bearer = b
    BY <2>1, <2>3 DEF Call
  <2>6. k.phase # "refreshed" /\ (k.phase = "asked" => ~ k.retry /\ k.kind # "me")
    BY DEF Expire, k
  <2>7. WellFormed(n)
    <3>1. CASE k.phase = "idle"
      <4>1. k = Idle
        BY <2>1, <3>1 DEF WellFormed
      <4>2. b = NoToken /\ k.bearer = NoToken
        BY <2>4, <4>1 DEF Idle
      <4>3. n = k
        BY <2>1, <4>2 DEF Call
      <4>4. QED
        BY <2>1, <4>3
    <3>2. CASE k.phase # "idle"
      <4> HIDE DEF n
      <4>1. QED
        BY <2>1, <2>3, <2>4, <2>5, <2>6, <3>2 DEF WellFormed
    <3>3. QED
      BY <3>1, <3>2
  <2>8. QED
    BY <2>2, <2>3, <2>5, <2>7 DEF k
<1>3. calls' \in [Slots -> Call]
  <2>1. calls' = [d \in Slots |-> calls'[d]]
    BY DEF Expire
  <2>2. QED
    BY <1>2, <2>1
<1>4. tokens' \in Access /\ tokens'.user = tokens.user /\ (tokens = NoToken => tokens' = NoToken)
  <2>1. tokens' = [tokens EXCEPT !.good = FALSE]
    BY DEF Expire
  <2>2. QED
    BY <1>1, <2>1, DulledOK, DulledNone
<1>5. QED
  BY <1>2, <1>3, <1>4

\* Base survives tokens that run out.
LEMMA ExpireBase ==
  ASSUME Base, Expire
  PROVE  Base'
<1>1. /\ calls' \in [Slots -> Call]
      /\ \A d \in Slots : /\ WellFormed(calls'[d]) /\ calls'[d].phase = calls[d].phase
                          /\ calls'[d].cookie = calls[d].cookie
                          /\ calls'[d].grant = calls[d].grant
      /\ tokens' \in Access
  BY ExpireFacts
<1>2. TabOK' /\ UNCHANGED <<fresh, sessions, jar>>
  BY <1>1 DEF Expire, TabOK, Base, TypeOK, server, history
<1>3. sessions' \in [RefreshTokens -> Users \cup {Nobody}]
  BY <1>2 DEF Base, TypeOK
<1>4. QED
  BY <1>1, <1>2, <1>3, BaseKept

\* Base survives a refresh that begins.
LEMMA RefreshBase ==
  ASSUME Base, NEW c \in Slots, TabOK', UNCHANGED <<fresh, sessions, jar>>,
         calls' = Refresh(c), calls[c].phase \in {"asked", "told"},
         calls[c].kind \in {"query", "write", "download", "logout", "status"}
  PROVE  Base'
<1>1. /\ calls' \in [Slots -> Call]
      /\ \A d \in Slots : WellFormed(calls'[d])
      /\ \A d \in Slots \ {c} : Same(calls'[d], calls[d])
      /\ calls'[c].phase = "refreshing" /\ calls'[c].cookie = jar /\ calls'[c].grant = NoGrant
  BY RefreshFacts
<1>2. sessions' \in [RefreshTokens -> Users \cup {Nobody}]
  BY DEF Base, TypeOK
<1>3. QED
  BY <1>1, <1>2, BaseKept, NoGrantFacts DEF Same

\* Base survives a call that ends and leaves no token.
LEMMA EndBase ==
  ASSUME Base, NEW c \in Slots, TabOK', UNCHANGED <<fresh, sessions, jar>>, calls' = End(c)
  PROVE  Base'
<1>1. calls' = [calls EXCEPT ![c] = Idle]
  BY DEF End
<1>2. Idle.grant.cookie = NoCookie /\ Idle.cookie = NoCookie /\ Idle.phase = "idle"
  BY NoGrantFacts DEF Idle
<1>3. QED
  BY <1>1, <1>2, IdleOK, BaseKeptBy

\* Base survives a call that is given up.
LEMMA GiveUpBase ==
  ASSUME Base, NEW c \in Slots, GiveUp(c), UNCHANGED <<fresh, sessions, jar>>,
         lost' \in 0 .. MaxLost, calls[c].kind # "logout" => tokens' \in Access
  PROVE  Base'
<1>1. TypeOK /\ sessions' \in [RefreshTokens -> Users \cup {Nobody}]
  BY DEF Base, TypeOK
<1>2. CASE calls[c].kind = "logout"
  <2>1. LeaveSession(c)
    BY <1>2 DEF GiveUp
  <2>2. /\ calls' \in [Slots -> Call]
        /\ \A d \in Slots :
             /\ WellFormed(calls'[d])
             /\ calls'[d].cookie \in {NoCookie, calls[d].cookie}
             /\ calls'[d].grant \in {NoGrant, calls[d].grant}
             /\ calls'[d].phase \in {"idle", calls[d].phase}
        /\ tokens' = NoToken /\ screen' = Anonymous(screen.setup) /\ rows' = {}
        /\ stray' \in BOOLEAN
    BY <2>1, LeaveFacts
  <2>3. TabOK'
    BY <1>1, <2>2 DEF TabOK, TypeOK, Anonymous, Access
  <2>4. QED
    BY <1>1, <2>2, <2>3, BaseKept, NoGrantFacts
<1>3. CASE calls[c].kind # "logout"
  <2>1. calls' = End(c) /\ screen' \in {screen, Anonymous(screen.setup)} /\ UNCHANGED <<rows, stray>>
    BY <1>3 DEF GiveUp
  <2>2. TabOK'
    BY <1>1, <1>3, <2>1 DEF TabOK, TypeOK, Anonymous
  <2>3. QED
    BY <2>1, <2>2, EndBase
<1>4. QED
  BY <1>2, <1>3

\* Base survives a good answer.
LEMMA ArriveBase ==
  ASSUME Base, NEW c \in Slots, Arrive(c)
  PROVE  Base'
<1>1. /\ calls \in [Slots -> Call] /\ calls[c] \in Call /\ WellFormed(calls[c])
      /\ calls[c].phase = "told" /\ calls[c].ok /\ UNCHANGED <<fresh, sessions, lost>>
      /\ sessions' \in [RefreshTokens -> Users \cup {Nobody}] /\ TypeOK
  BY DEF Base, TypeOK, Arrive, server
<1>2. ASSUME calls' = End(c), TabOK',
             jar' \in {jar, NoCookie, calls[c].grant.cookie}
      PROVE  Base'
  <2>1. calls' = [calls EXCEPT ![c] = Idle]
    BY <1>2 DEF End
  <2>2. calls'[c] = Idle /\ (\A d \in Slots \ {c} : calls'[d] = calls[d])
        /\ calls' \in [Slots -> Call]
    BY <1>1, <2>1, IdleOK
  <2>3. \A d \in Slots : WellFormed(calls'[d])
    BY <2>2, IdleOK DEF Base
  <2>4. Idle.grant.cookie = NoCookie /\ Idle.cookie = NoCookie /\ Idle.phase = "idle"
    BY NoGrantFacts DEF Idle
  <2>5. QED
    BY <1>1, <1>2, <2>2, <2>3, <2>4, BaseKept
<1>3. CASE /\ calls[c].kind \in PageKinds
           /\ rows' = IF calls[c].kind = "query" THEN rows \cup {calls[c].bearer.user} ELSE rows
           /\ calls' = End(c)
           /\ UNCHANGED <<jar, tokens, screen, stray>>
  <2>1. calls[c].bearer.user \in Users
    BY <1>1, <1>3 DEF WellFormed
  <2>2. TabOK'
    BY <1>1, <1>3, <2>1 DEF TabOK, TypeOK
  <2>3. QED
    BY <1>2, <1>3, <2>2
<1>4. CASE /\ calls[c].kind \in {"login", "bootstrap"}
           /\ jar' = calls[c].grant.cookie
           /\ tokens' = calls[c].grant.access
           /\ screen' = [status |-> "authenticated", user |-> calls[c].by,
                         setup |-> screen.setup /\ calls[c].kind = "bootstrap"]
           /\ calls' = End(c)
           /\ UNCHANGED <<rows, stray>>
  <2>1. tokens' \in Access /\ calls[c].by \in Users
    BY <1>1, <1>4 DEF WellFormed, Call
  <2>2. TabOK'
    BY <1>1, <1>4, <2>1 DEF TabOK, TypeOK
  <2>3. QED
    BY <1>2, <1>4, <2>2
<1>5. CASE /\ calls[c].kind = "me"
           /\ screen' = [screen EXCEPT !.status = "authenticated", !.user = calls[c].bearer.user]
           /\ calls' = End(c)
           /\ UNCHANGED <<jar, tokens, rows, stray>>
  <2>1. calls[c].bearer.user \in Users
    BY <1>1, <1>5 DEF WellFormed
  <2>2. TabOK'
    BY <1>1, <1>5, <2>1 DEF TabOK, TypeOK
  <2>3. QED
    BY <1>2, <1>5, <2>2
<1>6. CASE calls[c].kind = "logout" /\ jar' = NoCookie /\ LeaveSession(c)
  <2>1. /\ calls' \in [Slots -> Call]
        /\ \A d \in Slots :
             /\ WellFormed(calls'[d])
             /\ calls'[d].cookie \in {NoCookie, calls[d].cookie}
             /\ calls'[d].grant \in {NoGrant, calls[d].grant}
             /\ calls'[d].phase \in {"idle", calls[d].phase}
        /\ tokens' = NoToken /\ screen' = Anonymous(screen.setup) /\ rows' = {}
        /\ stray' \in BOOLEAN
    BY <1>6, LeaveFacts
  <2>2. TabOK'
    BY <1>1, <2>1 DEF TabOK, TypeOK, Anonymous, Access
  <2>3. QED
    BY <1>1, <1>6, <2>1, <2>2, BaseKept, NoGrantFacts
<1>7. CASE calls[c].kind = "status" /\ calls' = Refresh(c) /\ UNCHANGED <<jar, tokens, screen, rows, stray>>
  <2>1. TabOK'
    BY <1>1, <1>7 DEF TabOK, TypeOK
  <2>2. QED
    BY <1>1, <1>7, <2>1, RefreshBase
<1>8. QED
  BY <1>3, <1>4, <1>5, <1>6, <1>7 DEF Arrive

\* A call that refreshes was not replayed yet: a replayed one is not refused.
LEMMA MayRefreshKinds ==
  ASSUME Base, NEW c \in Slots, calls[c].phase = "told", ~ calls[c].ok, MayRefresh(c)
  PROVE  calls[c].kind \in {"query", "write", "download", "logout"} /\ ~ calls[c].retry
<1>1. WellFormed(calls[c])
  BY DEF Base
<1>2. QED
  BY <1>1 DEF WellFormed, MayRefresh

\* Base survives a refusal.
LEMMA ArriveRefusedBase ==
  ASSUME Base, NEW c \in Slots, ArriveRefused(c)
  PROVE  Base'
<1>1. /\ calls[c].phase = "told" /\ ~ calls[c].ok /\ UNCHANGED <<fresh, sessions, jar, lost>>
      /\ TypeOK
  BY DEF Base, ArriveRefused, server
<1>2. CASE MayRefresh(c)
  <2>1. calls' = Refresh(c) /\ UNCHANGED <<tokens, screen, rows, stray>>
    BY <1>2 DEF ArriveRefused, MayRefresh
  <2>2. TabOK'
    BY <1>1, <2>1 DEF TabOK, TypeOK
  <2>3. QED
    BY <1>1, <1>2, <2>1, <2>2, MayRefreshKinds, RefreshBase
<1>3. CASE ~ MayRefresh(c) /\ calls[c].kind = "status"
  <2>1. calls' = End(c) /\ screen' = Anonymous(TRUE) /\ UNCHANGED <<tokens, rows, stray>>
    BY <1>3 DEF ArriveRefused
  <2>2. TabOK'
    BY <1>1, <2>1 DEF TabOK, TypeOK, Anonymous
  <2>3. QED
    BY <1>1, <2>1, <2>2, EndBase
<1>4. CASE ~ MayRefresh(c) /\ calls[c].kind # "status"
  <2>1. GiveUp(c) /\ (calls[c].kind # "logout" => UNCHANGED tokens)
    BY <1>4 DEF ArriveRefused
  <2>2. calls[c].kind # "logout" => tokens' \in Access
    BY <1>1, <2>1 DEF TypeOK
  <2>3. lost' \in 0 .. MaxLost
    BY <1>1 DEF TypeOK
  <2>4. QED
    BY <1>1, <2>1, <2>2, <2>3, GiveUpBase
<1>5. QED
  BY <1>2, <1>3, <1>4

\* Base survives a refresh that was refused.
LEMMA ArriveNotRefreshedBase ==
  ASSUME Base, NEW c \in Slots, ArriveNotRefreshed(c)
  PROVE  Base'
<1>1. UNCHANGED <<fresh, sessions, jar, lost>> /\ GiveUp(c) /\ tokens' \in Access
  BY DEF ArriveNotRefreshed, server, Access
<1>2. QED
  BY <1>1, GiveUpBase DEF Base, TypeOK

\* Base survives a lost message.
LEMMA LoseBase ==
  ASSUME Base, NEW c \in Slots, Lose(c)
  PROVE  Base'
<1>1. /\ UNCHANGED <<fresh, sessions, jar>> /\ lost' \in 0 .. MaxLost /\ TypeOK
  BY SessionAssumption DEF Lose, server, Base, TypeOK
<1>2. CASE calls[c].kind = "status" /\ calls' = Refresh(c) /\ UNCHANGED <<tokens, screen, rows, stray>>
           /\ calls[c].phase \in {"asked", "told"}
  <2>1. TabOK'
    BY <1>1, <1>2 DEF TabOK, TypeOK
  <2>2. QED
    BY <1>1, <1>2, <2>1, RefreshBase
<1>3. CASE GiveUp(c) /\ (calls[c].kind # "logout" => tokens' \in Access)
  BY <1>1, <1>3, GiveUpBase
<1>4. CASE calls[c].phase \in {"asked", "told"} /\ calls[c].kind # "status"
           /\ GiveUp(c) /\ (calls[c].kind # "logout" => UNCHANGED tokens)
  BY <1>1, <1>3, <1>4 DEF TypeOK
<1>5. CASE tokens' = NoToken /\ GiveUp(c)
  BY <1>3, <1>5 DEF Access
<1>6. QED
  BY <1>2, <1>4, <1>5 DEF Lose

\* The record of a call that is asked again with what its refresh brought.
LEMMA ReplayFacts ==
  ASSUME Base, NEW c \in Slots, ArriveRefreshed(c), ~ calls[c].aborted
  PROVE  \E k \in Call :
           /\ calls' = [calls EXCEPT ![c] = k] /\ WellFormed(k)
           /\ k.kind = IF calls[c].kind = "restore" THEN "me" ELSE calls[c].kind
           /\ k.by = calls[c].by /\ k.phase = "asked" /\ k.bearer = calls[c].grant.access
           /\ k.cookie = IF k.kind = "logout" THEN jar' ELSE NoCookie
           /\ k.retry = (calls[c].kind # "restore") /\ ~ k.ok /\ k.grant = NoGrant
           /\ ~ k.aborted /\ k.disturbed = calls[c].disturbed
<1> DEFINE kind == IF calls[c].kind = "restore" THEN "me" ELSE calls[c].kind
           a == Asked(kind, calls[c].by, calls[c].grant.access)
           k == [a EXCEPT !.cookie = IF calls[c].kind = "logout" THEN jar' ELSE NoCookie,
                 !.retry = (calls[c].kind # "restore"),
                 !.disturbed = calls[c].disturbed]
<1>1. calls[c] \in Call /\ WellFormed(calls[c]) /\ calls[c].phase = "refreshed" /\ calls[c].ok
      /\ jar' = calls[c].grant.cookie
  BY DEF Base, TypeOK, ArriveRefreshed
<1>2. calls' = [calls EXCEPT ![c] = k]
  BY DEF ArriveRefreshed
<1>3. /\ calls[c].grant.access \in Access /\ calls[c].grant.access.good
      /\ calls[c].by \in Users \cup {Nobody} /\ jar' \in Cookies
      /\ calls[c].disturbed \in BOOLEAN
      /\ kind \in Kinds \ {"none", "restore", "login", "bootstrap"}
      /\ kind = "logout" <=> calls[c].kind = "logout"
  BY <1>1 DEF WellFormed, Call, Cookies, Kinds
<1>4. /\ a \in Call /\ a.kind = kind /\ a.by = calls[c].by /\ a.phase = "asked"
      /\ a.bearer = calls[c].grant.access /\ ~ a.ok /\ a.grant = NoGrant /\ ~ a.aborted
  <2> HIDE DEF kind
  <2>1. QED
    BY <1>3, AskedOK
<1>5. calls[c].kind = "restore" => kind = "me"
  OBVIOUS
<1>6. calls[c].kind # "restore" => kind # "me" /\ kind # "status" /\ kind # "stream"
  BY <1>1 DEF WellFormed
<1> HIDE DEF a, kind
<1>7. /\ k \in Call /\ k.kind = kind /\ k.by = calls[c].by /\ k.phase = "asked"
      /\ k.bearer = calls[c].grant.access /\ ~ k.ok /\ k.grant = NoGrant /\ ~ k.aborted
      /\ k.cookie = IF kind = "logout" THEN jar' ELSE NoCookie
      /\ k.retry = (calls[c].kind # "restore") /\ k.disturbed = calls[c].disturbed
  BY <1>3, <1>4 DEF Call, Cookies
<1> HIDE DEF k
<1>8. WellFormed(k)
  BY <1>3, <1>5, <1>6, <1>7 DEF WellFormed
<1>9. QED
  BY <1>2, <1>7, <1>8 DEF kind

\* Base survives the tokens that a refresh brings.
LEMMA ArriveRefreshedBase ==
  ASSUME Base, NEW c \in Slots, ArriveRefreshed(c)
  PROVE  Base'
<1>1. /\ calls \in [Slots -> Call] /\ calls[c] \in Call
      /\ UNCHANGED <<fresh, sessions, screen, rows, lost, stray>>
      /\ jar' = calls[c].grant.cookie /\ tokens' = calls[c].grant.access /\ TypeOK
      /\ sessions' \in [RefreshTokens -> Users \cup {Nobody}]
  BY DEF Base, TypeOK, ArriveRefreshed, server, history
<1>2. TabOK'
  BY <1>1 DEF TabOK, TypeOK, Call
<1>3. PICK k \in Call : /\ calls' = [calls EXCEPT ![c] = k] /\ WellFormed(k)
                        /\ k.cookie \in {NoCookie, jar'} /\ k.grant = NoGrant
                        /\ k.phase # "rotating"
  <2>1. CASE calls[c].aborted
    <3>1. calls' = [calls EXCEPT ![c] = Idle]
      BY <2>1 DEF ArriveRefreshed
    <3>2. Idle.cookie = NoCookie /\ Idle.grant = NoGrant /\ Idle.phase # "rotating"
      BY DEF Idle
    <3>3. QED
      BY <3>1, <3>2, IdleOK
  <2>2. CASE ~ calls[c].aborted
    <3>1. PICK k \in Call :
           /\ calls' = [calls EXCEPT ![c] = k] /\ WellFormed(k)
           /\ k.phase = "asked" /\ k.grant = NoGrant
           /\ k.cookie = IF k.kind = "logout" THEN jar' ELSE NoCookie
      BY <2>2, ReplayFacts
    <3>2. QED
      BY <3>1
  <2>3. QED
    BY <2>1, <2>2
<1>4. calls'[c] = k /\ (\A d \in Slots \ {c} : calls'[d] = calls[d]) /\ calls' \in [Slots -> Call]
  BY <1>1, <1>3
<1>5. \A d \in Slots : WellFormed(calls'[d])
  BY <1>3, <1>4 DEF Base
<1>6. QED
  BY <1>1, <1>2, <1>3, <1>4, <1>5, BaseKept, NoGrantFacts

\* Base holds when the page is first loaded.
LEMMA BaseInit == Init => Base
<1> SUFFICES ASSUME Init PROVE Base
  OBVIOUS
<1>1. PICK c \in Slots : /\ calls \in [Slots -> Call]
                         /\ \A d \in Slots : WellFormed(calls[d])
                         /\ calls[c].phase = "asked"
                         /\ calls[c].cookie = NoCookie /\ calls[c].grant = NoGrant
                         /\ \A d \in Slots \ {c} : calls[d] = Idle
  BY PageLoadFacts DEF Init
<1>2. Idle.grant = NoGrant /\ Idle.phase = "idle"
  BY DEF Idle
<1>3. \A d \in Slots : calls[d].grant.cookie = NoCookie /\ calls[d].phase # "rotating"
  BY <1>1, <1>2, NoGrantFacts
<1>4. GrantsAreFresh
  BY <1>3 DEF GrantsAreFresh
<1>5. PICK u \in Users \cup {Nobody} :
        /\ fresh => u = Nobody
        /\ sessions = [q \in RefreshTokens |-> IF q = jar THEN u ELSE Nobody]
  BY DEF Init
<1>6. NobodyYet
  BY <1>3, <1>5 DEF NobodyYet
<1>7. jar \in Cookies
  <2>1. RefreshTokens # {}
    <3>1. CASE RefreshTokens = {}
      BY <3>1, SessionAssumption, FS_EmptySet, FS_CardinalityType
    <3>2. QED
      BY <3>1
  <2>2. QED
    BY <2>1 DEF Init, Cookies
<1>8. TypeOK
  <2>1. sessions \in [RefreshTokens -> Users \cup {Nobody}]
    BY <1>5
  <2>2. tokens \in Access /\ rows \subseteq Users /\ lost \in 0 .. MaxLost /\ stray \in BOOLEAN
        /\ fresh \in BOOLEAN
    <3>1. /\ fresh \in BOOLEAN /\ tokens = NoToken /\ rows = {} /\ lost = 0 /\ stray = FALSE
      BY DEF Init
    <3>2. NoToken \in Access /\ 0 \in 0 .. MaxLost
      BY SessionAssumption DEF Access
    <3>3. QED
      BY <3>1, <3>2
  <2>3. screen \in [status : {"loading", "authenticated", "anonymous"},
                    user : Users \cup {Nobody}, setup : BOOLEAN]
    BY DEF Init, Loading
  <2>4. QED
    BY <1>1, <1>7, <2>1, <2>2, <2>3 DEF TypeOK
<1>9. QED
  BY <1>1, <1>4, <1>6, <1>8 DEF Base

\* Base survives every step.
LEMMA BaseStep ==
  ASSUME Base, [Next]_vars
  PROVE  Base'
<1>1. CASE Reload
  BY <1>1, ReloadBase
<1>2. CASE Expire
  BY <1>2, ExpireBase
<1>3. ASSUME NEW c \in Slots, Administrator(c)
      PROVE  Base'
  BY <1>3, StartCallBase, SubmitLoginBase, StartLogoutBase DEF Administrator
<1>4. ASSUME NEW c \in Slots, Progress(c)
      PROVE  Base'
  BY <1>4, ServeBase, ServeStatusBase, ServeLoginBase, ServeLogoutBase, ReadBase, RotateBase,
     ArriveBase, ArriveRefusedBase, ArriveRefreshedBase, ArriveNotRefreshedBase DEF Progress
<1>5. ASSUME NEW c \in Slots, Lose(c)
      PROVE  Base'
  BY <1>5, LoseBase
<1>6. CASE UNCHANGED vars
  BY <1>6 DEF vars, Base, TypeOK, GrantsAreFresh, NobodyYet
<1>7. QED
  BY <1>1, <1>2, <1>3, <1>4, <1>5, <1>6 DEF Next

-----------------------------------------------------------------------------
(* Stage, action by action *)

\* A slot that is free has no kind, no answer and no token.
LEMMA NotOpen ==
  ASSUME Base, NEW c \in Slots
  PROVE  /\ ~ Open(c) <=> calls[c].kind = "none"
         /\ ~ Open(c) => ~ calls[c].ok /\ ~ Refreshing(c)
         /\ calls[c].grant.access.user = Nobody \/ Open(c)
<1>1. WellFormed(calls[c])
  BY DEF Base
<1>2. Idle.phase = "idle" /\ ~ Idle.ok /\ Idle.grant.access.user = Nobody
  BY DEF Idle, NoGrant, NoToken
<1>3. QED
  BY <1>1, <1>2 DEF WellFormed, Open, Refreshing

\* A call of a page is made with what the screen and the tab hold: the user's.
LEMMA StartCallStage ==
  ASSUME Base, Stage, NEW c \in Slots, NEW kind \in Kinds, StartCall(c, kind)
  PROVE  Stage'
<1> SUFFICES ASSUME ~ stray'
             PROVE  Stage'
  BY DEF Stage
<1> DEFINE k == Asked(kind, screen.user, tokens)
<1>1. screen.user \in Users \cup {Nobody} /\ tokens \in Access /\ calls \in [Slots -> Call]
  BY DEF Base, TypeOK
<1>2. /\ kind \in PageKinds /\ calls' = [calls EXCEPT ![c] = k] /\ ~ Open(c) /\ Authenticated
      /\ UNCHANGED <<sessions, jar, tokens, screen, rows, lost, stray>>
  BY DEF StartCall, server, history
<1>3. /\ k.kind = kind /\ k.by = screen.user /\ k.phase = "asked" /\ k.bearer = tokens
      /\ k.cookie = NoCookie /\ k.grant = NoGrant /\ ~ k.aborted
  BY <1>1, <1>2, AskedOK DEF PageKinds
<1> HIDE DEF k
<1>4. calls'[c] = k /\ \A d \in Slots \ {c} : calls'[d] = calls[d]
  BY <1>1, <1>2
<1>5. k.grant.access.user = Nobody
  BY <1>3, NoGrantFacts DEF NoToken
<1>6. SignedInStage(screen.user) /\ screen'.status = "authenticated" /\ screen' = screen
      /\ (lost = 0 => /\ SessionAlive
                      /\ \A d \in Slots : Refreshing(d) /\ ~ calls[d].disturbed => Undisturbed(d))
  BY <1>2 DEF Stage, Authenticated
<1>7. SignedInStage(screen.user)'
  BY <1>2, <1>3, <1>4, <1>5, <1>6 DEF SignedInStage, Of, Open
<1>8. lost = 0 => SessionAlive'
  BY <1>2, <1>3, <1>4, <1>6 DEF SessionAlive, Open, Live
<1>9. lost = 0 => \A d \in Slots : (Refreshing(d) /\ ~ calls[d].disturbed => Undisturbed(d))'
  BY <1>2, <1>3, <1>4, <1>6 DEF Undisturbed, Refreshing, Live, PageKinds
<1>10. QED
  BY <1>2, <1>6, <1>7, <1>8, <1>9 DEF Stage

\* The button is disabled while a sign-in is under way, so there is one.
LEMMA SubmitLoginStage ==
  ASSUME Base, Stage, NEW c \in Slots, NEW u \in Users, SubmitLogin(c, u)
  PROVE  Stage'
<1> SUFFICES ASSUME ~ stray'
             PROVE  Stage'
  BY DEF Stage
<1> DEFINE kind == IF screen.setup THEN "bootstrap" ELSE "login"
           k == Asked(kind, u, NoToken)
<1>1. calls \in [Slots -> Call]
  BY DEF Base, TypeOK
<1>2. /\ calls' = [calls EXCEPT ![c] = k] /\ ~ Open(c) /\ screen.status = "anonymous"
      /\ \A d \in Slots : Open(d) => calls[d].kind \notin {"login", "bootstrap"}
      /\ UNCHANGED <<sessions, jar, tokens, screen, rows, lost, stray>>
  BY DEF SubmitLogin, server, history
<1>3. kind \in Kinds \ {"none", "restore", "me"} /\ NoToken \in Access /\ kind \in {"login", "bootstrap"}
  BY DEF Kinds, PageKinds, Access
<1> HIDE DEF kind
<1>4. k.kind = kind /\ k.phase = "asked"
  BY <1>3, AskedOK
<1> HIDE DEF k
<1>5. calls'[c] = k /\ \A d \in Slots \ {c} : calls'[d] = calls[d]
  BY <1>1, <1>2
<1>6. AnonymousStage
  BY <1>2 DEF Stage
<1>7. \A d \in Slots : ~ Open(d)
  BY <1>2, <1>6 DEF AnonymousStage, OneCall
<1>8. AnonymousStage'
  BY <1>2, <1>3, <1>4, <1>5, <1>6, <1>7 DEF AnonymousStage, OneCall, Open, Live
<1>9. QED
  BY <1>2, <1>8 DEF Stage

\* A sign-out disturbs every refresh, so none is said to be undisturbed.
LEMMA StartLogoutStage ==
  ASSUME Base, Stage, NEW c \in Slots, StartLogout(c)
  PROVE  Stage'
<1> SUFFICES ASSUME ~ stray'
             PROVE  Stage'
  BY DEF Stage
<1>1. /\ ~ Open(c) /\ Authenticated
      /\ UNCHANGED <<sessions, jar, tokens, screen, rows, lost, stray>>
  BY DEF StartLogout, server, history
<1>2. /\ \A d \in Slots \ {c} :
           /\ Same(calls'[d], calls[d])
           /\ calls'[d].disturbed <=> calls[d].disturbed \/ Refreshing(d)
      /\ calls'[c].kind = "logout" /\ calls'[c].by = screen.user /\ calls'[c].phase = "asked"
      /\ calls'[c].bearer = tokens /\ calls'[c].cookie = jar /\ calls'[c].grant = NoGrant
      /\ ~ calls'[c].aborted
  BY StartLogoutFacts
<1>3. calls'[c].grant.access.user = Nobody
  BY <1>2, NoGrantFacts DEF NoToken
<1>4. SignedInStage(screen.user) /\ screen'.status = "authenticated" /\ screen' = screen
      /\ (lost = 0 => SessionAlive)
  BY <1>1 DEF Stage, Authenticated
<1>5. SignedInStage(screen.user)'
  BY <1>1, <1>2, <1>3, <1>4 DEF SignedInStage, Of, Open, Same
<1>6. lost = 0 => SessionAlive'
  BY <1>1, <1>2, <1>4 DEF SessionAlive, Open, Live, Same
<1>7. \A d \in Slots : (Refreshing(d) => calls[d].disturbed)'
  BY <1>2 DEF Refreshing, Same
<1>8. QED
  BY <1>1, <1>4, <1>5, <1>6, <1>7 DEF Stage

\* A reload starts from nothing.
LEMMA ReloadStage ==
  ASSUME Base, Stage, Reload
  PROVE  Stage'
<1>1. PICK c \in Slots : /\ calls'[c].kind = "status" /\ calls'[c].phase = "asked"
                         /\ \A d \in Slots \ {c} : calls'[d] = Idle
  BY PageLoadFacts DEF Reload
<1>2. screen'.status = "loading" /\ tokens' = NoToken /\ rows' = {}
  BY DEF Reload, Loading
<1>3. Idle.phase = "idle" /\ Idle.kind = "none"
  BY DEF Idle
<1>4. LoadingStage'
  BY <1>1, <1>2, <1>3 DEF LoadingStage, OneCall, Open, Refreshing
<1>5. QED
  BY <1>2, <1>4 DEF Stage

\* An answer on its way does not change the stage.
LEMMA ServeStage ==
  ASSUME Base, Stage, NEW c \in Slots, Serve(c)
  PROVE  Stage'
<1> SUFFICES ASSUME ~ stray'
             PROVE  Stage'
  BY DEF Stage
<1>1. /\ calls \in [Slots -> Call] /\ calls[c] \in Call /\ WellFormed(calls[c])
      /\ calls[c].phase = "asked" /\ calls[c].kind \in PageKinds \cup {"me"}
      /\ UNCHANGED <<sessions, fresh, jar, tokens, screen, rows, lost, stray>>
  BY DEF Base, TypeOK, Serve, server, history
<1>2. calls[c].bearer.good \in BOOLEAN
  <2>1. calls[c].bearer \in Access
    BY <1>1 DEF Call
  <2>2. QED
    BY <2>1, AccessFields
<1>3. PICK k \in Call : /\ calls' = [calls EXCEPT ![c] = k]
                        /\ k.cookie = NoCookie /\ k.grant = NoGrant /\ k.phase = "told"
                        /\ k.kind = calls[c].kind /\ k.by = calls[c].by
                        /\ k.bearer.user = calls[c].bearer.user
                        /\ k.aborted = calls[c].aborted
  <2>1. Tellable(calls[c], calls[c].bearer.good)
    BY <1>1 DEF Serve, WellFormed, PageKinds, Tellable
  <2>2. QED
    BY <1>2, <2>1, TellOK DEF Serve
<1>4. calls'[c] = k /\ \A d \in Slots \ {c} : calls'[d] = calls[d]
  BY <1>1, <1>3
<1>5. k.grant.access.user = Nobody
  BY <1>3, NoGrantFacts DEF NoToken
<1>6. screen' = screen /\ ~ stray
  BY <1>1
<1>7. CASE screen.status = "loading"
  <2>1. LoadingStage
    BY <1>6, <1>7 DEF Stage
  <2>2. LoadingStage'
    BY <1>1, <1>3, <1>4, <2>1 DEF LoadingStage, OneCall, Open, Refreshing, Live, PageKinds
  <2>3. QED
    BY <1>6, <1>7, <2>2 DEF Stage
<1>8. CASE screen.status = "anonymous"
  BY <1>1, <1>6, <1>8 DEF Stage, AnonymousStage, OneCall, Open, PageKinds
<1>9. CASE screen.status = "authenticated"
  <2>1. SignedInStage(screen.user)
        /\ (lost = 0 => /\ SessionAlive
                        /\ \A d \in Slots : Refreshing(d) /\ ~ calls[d].disturbed => Undisturbed(d))
    BY <1>6, <1>9 DEF Stage
  <2>2. SignedInStage(screen.user)'
    BY <1>1, <1>3, <1>4, <1>5, <2>1 DEF SignedInStage, Of, Open
  <2>3. lost = 0 => SessionAlive'
    BY <1>1, <1>3, <1>4, <2>1 DEF SessionAlive, Live
  <2>4. lost = 0 => \A d \in Slots : (Refreshing(d) /\ ~ calls[d].disturbed => Undisturbed(d))'
    BY <1>1, <1>3, <1>4, <2>1 DEF Undisturbed, Refreshing, Live, PageKinds
  <2>5. QED
    BY <1>1, <1>6, <1>9, <2>2, <2>3, <2>4 DEF Stage
<1>10. screen.status \in {"loading", "anonymous", "authenticated"}
  BY DEF Base, TypeOK
<1>11. QED
  BY <1>7, <1>8, <1>9, <1>10

\* The bootstrap status is asked for by the page load only.
LEMMA ServeStatusStage ==
  ASSUME Base, Stage, NEW c \in Slots, ServeStatus(c)
  PROVE  Stage'
<1> SUFFICES ASSUME ~ stray'
             PROVE  Stage'
  BY DEF Stage
<1>1. /\ calls \in [Slots -> Call] /\ calls[c] \in Call /\ WellFormed(calls[c])
      /\ calls[c].phase = "asked" /\ calls[c].kind = "status"
      /\ UNCHANGED <<sessions, fresh, jar, tokens, screen, rows, lost, stray>>
  BY DEF Base, TypeOK, ServeStatus, server, history
<1>2. (~ fresh) \in BOOLEAN
  OBVIOUS
<1>3. PICK k \in Call : /\ calls' = [calls EXCEPT ![c] = k]
                        /\ k.phase = "told" /\ k.kind = calls[c].kind /\ k.ok = ~ fresh
  <2>1. Tellable(calls[c], ~ fresh)
    BY <1>1 DEF ServeStatus, WellFormed, PageKinds, Tellable
  <2>2. QED
    BY <1>2, <2>1, TellOK DEF ServeStatus
<1>4. calls'[c] = k /\ \A d \in Slots \ {c} : calls'[d] = calls[d]
  BY <1>1, <1>3
<1>5. screen.status = "loading"
  <2>1. screen.status \in {"loading", "anonymous", "authenticated"}
    BY DEF Base, TypeOK
  <2>2. QED
    BY <1>1, <2>1 DEF Stage, AnonymousStage, SignedInStage, OneCall, Open, PageKinds
<1>6. LoadingStage
  BY <1>1, <1>5 DEF Stage
<1>7. LoadingStage'
  <2>1. OneCall({"status", "restore", "me"})'
    BY <1>1, <1>3, <1>4, <1>6 DEF LoadingStage, OneCall, Open
  <2>2. Live(jar)' <=> Live(jar)
    BY <1>1 DEF Live
  <2>3. \A d \in Slots : (calls[d].kind = "me" => /\ tokens.user = calls[d].bearer.user
                                                  /\ jar # NoCookie /\ sessions[jar] = tokens.user)'
    BY <1>1, <1>3, <1>4, <1>6 DEF LoadingStage
  <2>4. QED
    BY <1>1, <1>3, <1>4, <1>6, <2>1, <2>2, <2>3 DEF LoadingStage, Refreshing
<1>8. QED
  BY <1>1, <1>5, <1>7 DEF Stage

\* In a stage, a call of a given kind belongs to the page load, the form or the pages.
LEMMA KindsByStage ==
  ASSUME Base, Stage, ~ stray, NEW c \in Slots, Open(c)
  PROVE  /\ calls[c].kind \in {"status", "restore", "me"} =>
              screen.status = "loading" /\ LoadingStage
         /\ calls[c].kind \in {"login", "bootstrap"} =>
              screen.status = "anonymous" /\ AnonymousStage
         /\ calls[c].kind \in PageKinds \cup {"logout"} =>
              /\ screen.status = "authenticated" /\ SignedInStage(screen.user)
              /\ lost = 0 => /\ SessionAlive
                             /\ \A d \in Slots : Refreshing(d) /\ ~ calls[d].disturbed => Undisturbed(d)
<1>1. screen.status \in {"loading", "anonymous", "authenticated"}
  BY DEF Base, TypeOK
<1>2. CASE screen.status = "loading"
  BY <1>2 DEF Stage, LoadingStage, OneCall, PageKinds
<1>3. CASE screen.status = "anonymous"
  BY <1>3 DEF Stage, AnonymousStage, OneCall, PageKinds
<1>4. CASE screen.status = "authenticated"
  BY <1>4 DEF Stage, SignedInStage, PageKinds
<1>5. QED
  BY <1>1, <1>2, <1>3, <1>4

\* A sign-in at the API makes a session, but not of the cookie in the jar.
LEMMA ServeLoginStage ==
  ASSUME Base, Stage, NEW c \in Slots, ServeLogin(c)
  PROVE  Stage'
<1> SUFFICES ASSUME ~ stray'
             PROVE  Stage'
  BY DEF Stage
<1>1. /\ calls \in [Slots -> Call] /\ calls[c] \in Call /\ WellFormed(calls[c])
      /\ calls[c].phase = "asked" /\ calls[c].kind \in {"login", "bootstrap"}
      /\ UNCHANGED <<jar, tokens, screen, rows, lost, stray>>
  BY DEF Base, TypeOK, ServeLogin, history
<1>2. screen.status = "anonymous" /\ AnonymousStage
  BY <1>1, KindsByStage DEF Open
<1>3. \E k : /\ calls' = [calls EXCEPT ![c] = k] /\ k.kind = calls[c].kind
             /\ Live(jar)' => Live(jar)
  <2>1. CASE fresh = (calls[c].kind = "bootstrap")
    <3>1. calls[c].by \in Users
      BY <1>1 DEF WellFormed
    <3>2. Issue(c, calls[c].by, NoCookie, "told")
      BY <2>1 DEF ServeLogin
    <3>3. PICK r \in RefreshTokens :
           /\ r # jar
           /\ \A q \in RefreshTokens : q \in Held /\ q # NoCookie => sessions'[q] = sessions[q]
           /\ calls' = [calls EXCEPT ![c] = Given(calls[c], calls[c].by, "told", r)]
      BY <3>1, <3>2, IssueFacts
    <3>4. Given(calls[c], calls[c].by, "told", r).kind = calls[c].kind
      BY <1>1 DEF Given, Call
    <3>5. jar \in Held /\ jar \in Cookies
      BY DEF Held, Base, TypeOK
    <3>6. Live(jar)' => Live(jar)
      BY <1>1, <3>3, <3>5 DEF Live, Cookies
    <3>7. QED
      BY <3>3, <3>4, <3>6
  <2>2. CASE fresh # (calls[c].kind = "bootstrap")
    <3>1. Tellable(calls[c], FALSE)
      BY <1>1 DEF WellFormed, PageKinds, Tellable
    <3>2. calls' = Tell(c, FALSE) /\ sessions' = sessions
      BY <2>2 DEF ServeLogin, server
    <3>3. QED
      BY <1>1, <3>1, <3>2, TellOK DEF Live
  <2>3. QED
    BY <2>1, <2>2
<1>4. calls'[c].kind = calls[c].kind /\ (\A d \in Slots \ {c} : calls'[d] = calls[d])
      /\ (Live(jar)' => Live(jar))
  BY <1>1, <1>3
<1>5. AnonymousStage'
  BY <1>1, <1>2, <1>4 DEF AnonymousStage, OneCall, Open
<1>6. QED
  BY <1>1, <1>2, <1>5 DEF Stage

\* A sign-out at the API takes the session away, and its answer tells so; no
\* refresh goes undisturbed meanwhile.
LEMMA ServeLogoutStage ==
  ASSUME Base, Stage, NEW c \in Slots, ServeLogout(c)
  PROVE  Stage'
<1> SUFFICES ASSUME ~ stray'
             PROVE  Stage'
  BY DEF Stage
<1>1. /\ calls \in [Slots -> Call] /\ calls[c] \in Call /\ WellFormed(calls[c])
      /\ calls[c].phase = "asked" /\ calls[c].kind = "logout"
      /\ UNCHANGED <<fresh, jar, tokens, screen, rows, lost, stray>>
      /\ sessions' = [q \in RefreshTokens |->
           IF q = calls[c].cookie /\ calls[c].bearer.good THEN Nobody ELSE sessions[q]]
      /\ sessions \in [RefreshTokens -> Users \cup {Nobody}] /\ jar \in Cookies
      /\ \A d \in Slots : calls[d].cookie \in Cookies
  BY DEF Base, TypeOK, Call, ServeLogout, history
<1>2. calls[c].bearer.good \in BOOLEAN
  <2>1. calls[c].bearer \in Access
    BY <1>1 DEF Call
  <2>2. QED
    BY <2>1, AccessFields
<1>3. PICK k \in Call : /\ calls' = [calls EXCEPT ![c] = k]
                        /\ k.cookie = NoCookie /\ k.grant = NoGrant /\ k.phase = "told"
                        /\ k.kind = calls[c].kind /\ k.by = calls[c].by
                        /\ k.bearer.user = calls[c].bearer.user
                        /\ k.aborted = calls[c].aborted /\ k.ok = calls[c].bearer.good
  <2>1. Tellable(calls[c], calls[c].bearer.good)
    BY <1>1 DEF ServeLogout, WellFormed, PageKinds, Tellable
  <2>2. QED
    BY <1>2, <2>1, TellOK DEF ServeLogout
<1>4. calls'[c] = k /\ \A d \in Slots \ {c} : calls'[d] = calls[d]
  BY <1>1, <1>3
<1>5. k.grant.access.user = Nobody
  BY <1>3, NoGrantFacts DEF NoToken
<1>6. /\ screen.status = "authenticated" /\ SignedInStage(screen.user)
      /\ lost = 0 => /\ SessionAlive
                     /\ \A d \in Slots : Refreshing(d) /\ ~ calls[d].disturbed => Undisturbed(d)
  BY <1>1, KindsByStage DEF Open
<1>7. \A q \in RefreshTokens : sessions'[q] \in {sessions[q], Nobody}
  BY <1>1
<1>8. SignedInStage(screen.user)'
  <2>1. \A q \in Cookies, u \in Users : Of(q, u) => Of(q, u)'
    BY <1>7 DEF Of, Cookies
  <2>2. \A d \in Slots : calls'[d].cookie \in {NoCookie, calls[d].cookie}
    BY <1>3, <1>4
  <2>3. \A d \in Slots : Open(d) => Of(calls[d].cookie, screen.user)'
    <3>1. \A u \in Users : Of(NoCookie, u)'
      BY DEF Of
    <3>2. QED
      BY <1>1, <1>4, <1>3, <1>6, <2>1, <3>1 DEF SignedInStage, Open
  <2>4. \A d \in Slots : (Open(d) => Of(calls[d].cookie, screen.user))'
    BY <1>1, <1>3, <1>4, <2>3 DEF Open
  <2>5. Of(jar, screen.user)'
    BY <1>1, <1>6, <2>1 DEF SignedInStage
  <2>6. QED
    BY <1>1, <1>3, <1>4, <1>5, <1>6, <2>4, <2>5 DEF SignedInStage, Open
<1>9. lost = 0 => SessionAlive'
  <2>1. CASE calls[c].bearer.good
    BY <1>1, <1>3, <1>4, <2>1 DEF SessionAlive
  <2>2. CASE ~ calls[c].bearer.good
    <3>1. \A q \in RefreshTokens : sessions'[q] = sessions[q]
      BY <1>1, <2>2
    <3>2. QED
      BY <1>1, <1>4, <1>6, <3>1 DEF SessionAlive, Live, Cookies
  <2>3. QED
    BY <1>2, <2>1, <2>2
<1>10. lost = 0 => \A d \in Slots : (~ (Refreshing(d) /\ ~ calls[d].disturbed))'
  BY <1>1, <1>3, <1>4, <1>6 DEF Undisturbed, Refreshing
<1>11. QED
  BY <1>1, <1>6, <1>8, <1>9, <1>10 DEF Stage

\* During a page load only one slot is in use: what becomes of it decides.
LEMMA LoadingKept ==
  ASSUME Base, LoadingStage, NEW c \in Slots, Open(c), rows' = {},
         \A d \in Slots \ {c} : calls'[d] = calls[d],
         calls'[c].kind \in {"status", "restore", "me"},
         calls'[c].kind \in {"status", "restore"} => tokens' = NoToken,
         calls'[c].kind = "me" => /\ tokens'.user = calls'[c].bearer.user
                                  /\ jar' # NoCookie /\ sessions'[jar'] = tokens'.user,
         calls'[c].kind = "status" /\ calls'[c].phase = "told" /\ ~ calls'[c].ok => fresh',
         Refreshing(c)' /\ ~ calls'[c].ok => calls'[c].cookie = jar',
         calls'[c].phase = "refreshed" /\ ~ calls'[c].ok => ~ Live(jar)'
  PROVE  LoadingStage'
<1>1. \A d \in Slots \ {c} : ~ Open(d)
  BY DEF LoadingStage, OneCall
<1>2. \A d \in Slots \ {c} : calls'[d].phase = "idle" /\ calls'[d].kind = "none"
  BY <1>1, NotOpen DEF Open
<1>3. OneCall({"status", "restore", "me"})'
  BY <1>2 DEF OneCall, Open
<1>4. QED
  BY <1>2, <1>3 DEF LoadingStage, Refreshing

\* A refresh that reads the live cookie of the jar goes on to rotate.
LEMMA ReadStage ==
  ASSUME Base, Stage, NEW c \in Slots, ReadRefreshToken(c)
  PROVE  Stage'
<1> SUFFICES ASSUME ~ stray'
             PROVE  Stage'
  BY DEF Stage
<1>1. /\ calls \in [Slots -> Call] /\ WellFormed(calls[c])
      /\ calls[c].phase = "refreshing"
      /\ UNCHANGED <<sessions, fresh, jar, tokens, screen, rows, lost, stray>>
  BY DEF Base, TypeOK, ReadRefreshToken, server, history
<1>2. PICK k \in Call :
           /\ calls' = [calls EXCEPT ![c] = k]
           /\ k.kind = calls[c].kind /\ k.by = calls[c].by /\ k.bearer = NoToken
           /\ k.cookie = calls[c].cookie /\ ~ k.ok
           /\ k.aborted = calls[c].aborted /\ k.disturbed = calls[c].disturbed
           /\ IF Live(calls[c].cookie)
              THEN /\ k.phase = "rotating"
                   /\ k.grant.access.user = sessions[calls[c].cookie]
              ELSE k.phase = "refreshed" /\ k.grant = NoGrant
  BY ReadFacts
<1>3. calls'[c] = k /\ \A d \in Slots \ {c} : calls'[d] = calls[d]
  BY <1>1, <1>2
<1>4. Open(c) /\ calls[c].kind \in PageKinds \cup {"logout", "restore"} /\ calls[c].kind # "login"
      /\ calls[c].kind \notin {"me", "status"}
  BY <1>1 DEF WellFormed, Open, Base, TypeOK, Call, Kinds
<1>5. CASE calls[c].kind = "restore"
  <2>1. screen.status = "loading" /\ LoadingStage
    BY <1>1, <1>4, <1>5, KindsByStage
  <2>2. LoadingStage'
    <3>1. tokens = NoToken /\ calls[c].cookie = jar /\ rows = {}
      BY <1>1, <1>5, <2>1 DEF LoadingStage, Refreshing, WellFormed
    <3>2. Live(jar)' <=> Live(jar)
      BY <1>1 DEF Live
    <3>3. QED
      BY <1>1, <1>2, <1>3, <1>4, <1>5, <2>1, <3>1, <3>2, LoadingKept
  <2>3. QED
    BY <1>1, <2>1, <2>2 DEF Stage
<1>6. CASE calls[c].kind # "restore"
  <2>1. /\ screen.status = "authenticated" /\ SignedInStage(screen.user)
        /\ lost = 0 => /\ SessionAlive
                       /\ \A d \in Slots : Refreshing(d) /\ ~ calls[d].disturbed => Undisturbed(d)
    BY <1>1, <1>4, <1>6, KindsByStage
  <2>2. k.grant.access.user \in {Nobody, screen.user}
    BY <1>2, <1>4, <2>1, NoGrantFacts DEF SignedInStage, Of, Live, NoToken
  <2>3. SignedInStage(screen.user)'
    BY <1>1, <1>2, <1>3, <1>4, <2>1, <2>2 DEF SignedInStage, Of, Open, NoToken
  <2>4. lost = 0 => SessionAlive'
    BY <1>1, <1>2, <1>3, <2>1 DEF SessionAlive, Live
  <2>5. lost = 0 => \A d \in Slots : (Refreshing(d) /\ ~ calls[d].disturbed => Undisturbed(d))'
    BY <1>1, <1>2, <1>3, <2>1 DEF Undisturbed, Refreshing, Live
  <2>6. QED
    BY <1>1, <2>1, <2>3, <2>4, <2>5 DEF Stage
<1>7. QED
  BY <1>5, <1>6

\* A refresh that rotates takes the token from the jar and brings the next one.
LEMMA RotateStage ==
  ASSUME Base, Stage, NEW c \in Slots, Rotate(c)
  PROVE  Stage'
<1> SUFFICES ASSUME ~ stray'
             PROVE  Stage'
  BY DEF Stage
<1> DEFINE u == calls[c].grant.access.user
<1>1. /\ calls \in [Slots -> Call] /\ calls[c] \in Call /\ WellFormed(calls[c])
      /\ calls[c].phase = "rotating" /\ jar \in Cookies
      /\ UNCHANGED <<fresh, jar, tokens, screen, rows, lost, stray>>
      /\ \A d \in Slots : calls[d].cookie \in Cookies
  BY DEF Base, TypeOK, Call, Rotate, history
<1>2. u \in Users /\ calls[c].bearer = NoToken
  BY <1>1 DEF WellFormed
<1>3. PICK r \in RefreshTokens :
           /\ r # jar
           /\ \A d \in Slots : calls[d].cookie # r
           /\ \A q \in RefreshTokens \ {r} : sessions'[q] \in {sessions[q], Nobody}
           /\ calls' = [calls EXCEPT ![c] = Given(calls[c], u, "refreshed", r)]
  BY <1>2, IssueFacts DEF Rotate
<1>4. calls'[c] = Given(calls[c], u, "refreshed", r) /\ \A d \in Slots \ {c} : calls'[d] = calls[d]
  BY <1>1, <1>3
<1>5. /\ calls'[c].kind = calls[c].kind /\ calls'[c].by = calls[c].by
      /\ calls'[c].phase = "refreshed" /\ calls'[c].bearer = NoToken
      /\ calls'[c].cookie = NoCookie /\ calls'[c].ok
      /\ calls'[c].grant.access.user = u /\ calls'[c].aborted = calls[c].aborted
  <2> DEFINE k == calls[c]
  <2>1. k \in Call /\ WellFormed(k) /\ Due(k, u, "refreshed")
    BY <1>1 DEF Due
  <2>2. calls'[c] = Given(k, u, "refreshed", r)
    BY <1>4
  <2>3. u \in Users
    BY <1>2
  <2> HIDE DEF k, u
  <2>4. /\ calls'[c].kind = k.kind /\ calls'[c].by = k.by
        /\ calls'[c].phase = "refreshed" /\ calls'[c].bearer = k.bearer
        /\ calls'[c].cookie = NoCookie /\ calls'[c].ok
        /\ calls'[c].grant.access.user = u /\ calls'[c].aborted = k.aborted
    BY <2>1, <2>2, <2>3, GivenFacts
  <2>5. QED
    BY <1>2, <2>4 DEF k
<1>6. Open(c) /\ calls[c].kind \in PageKinds \cup {"logout", "restore"}
      /\ calls[c].kind \notin {"me", "status"}
  BY <1>1 DEF WellFormed, Open, Call, Kinds
<1>7. CASE calls[c].kind = "restore"
  <2>1. screen.status = "loading" /\ LoadingStage
    BY <1>1, <1>6, <1>7, KindsByStage
  <2>2. LoadingStage'
    <3>1. tokens = NoToken /\ rows = {}
      BY <1>7, <2>1 DEF LoadingStage
    <3>2. QED
      BY <1>1, <1>4, <1>5, <1>6, <1>7, <2>1, <3>1, LoadingKept
  <2>3. QED
    BY <1>1, <2>1, <2>2 DEF Stage
<1>8. CASE calls[c].kind # "restore"
  <2>1. /\ screen.status = "authenticated" /\ SignedInStage(screen.user)
        /\ lost = 0 => \A d \in Slots : Refreshing(d) /\ ~ calls[d].disturbed => Undisturbed(d)
    BY <1>1, <1>6, <1>8, KindsByStage
  <2>2. \A q \in Cookies : q # r /\ Of(q, screen.user) =>
          (q # NoCookie => sessions'[q] \in {Nobody, screen.user})
    BY <1>3 DEF Of, Cookies
  <2>3. Of(jar, screen.user)'
    BY <1>1, <1>3, <2>1, <2>2 DEF SignedInStage, Of
  <2>4. \A d \in Slots : (Open(d) => Of(calls[d].cookie, screen.user))'
    BY <1>1, <1>3, <1>4, <1>5, <1>6, <2>1, <2>2 DEF SignedInStage, Of, Open
  <2>5. SignedInStage(screen.user)'
    <3>1. \A d \in Slots :
            (Open(d) => /\ calls[d].kind \in PageKinds \cup {"logout"}
                        /\ calls[d].by = screen.user /\ ~ calls[d].aborted
                        /\ calls[d].bearer.user \in {Nobody, screen.user}
                        /\ calls[d].grant.access.user \in {Nobody, screen.user})'
      <4>1. c \in Slots /\ calls[c].by = screen.user /\ ~ calls[c].aborted
        BY <1>6, <2>1 DEF SignedInStage
      <4>2. u \in {Nobody, screen.user}
        BY <1>6, <2>1 DEF SignedInStage
      <4>3. /\ calls'[c].kind \in PageKinds \cup {"logout"}
            /\ calls'[c].by = screen.user /\ ~ calls'[c].aborted
            /\ calls'[c].bearer.user \in {Nobody, screen.user}
            /\ calls'[c].grant.access.user \in {Nobody, screen.user}
        BY <1>5, <1>6, <1>8, <4>1, <4>2 DEF NoToken
      <4>4. QED
        BY <1>1, <1>4, <2>1, <4>3 DEF SignedInStage, Open
    <3>2. QED
      BY <1>1, <2>1, <2>3, <2>4, <3>1 DEF SignedInStage
  <2>6. SessionAlive'
    BY <1>5 DEF SessionAlive
  <2>7. lost = 0 => \A d \in Slots : (Refreshing(d) /\ ~ calls[d].disturbed => Undisturbed(d))'
    <3> SUFFICES ASSUME lost = 0, NEW d \in Slots, (Refreshing(d) /\ ~ calls[d].disturbed)'
                 PROVE  Undisturbed(d)'
      OBVIOUS
    <3>1. Refreshing(c)
      BY <1>1 DEF Refreshing
    <3>2. CASE d # c
      BY <1>4, <2>1, <3>1, <3>2 DEF Undisturbed, Refreshing
    <3>3. CASE d = c
      <4>1. calls'[c].disturbed = calls[c].disturbed
        BY <1>1, <1>4 DEF Given, Call
      <4>2. Undisturbed(c)
        BY <2>1, <3>1, <3>3, <4>1
      <4>3. QED
        BY <1>4, <1>5, <3>3, <4>2 DEF Undisturbed, Refreshing
    <3>4. QED
      BY <3>2, <3>3
  <2>8. QED
    BY <1>1, <2>1, <2>5, <2>6, <2>7 DEF Stage
<1>9. QED
  BY <1>7, <1>8

\* Tokens that run out are still of the same user.
LEMMA ExpireStage ==
  ASSUME Base, Stage, Expire
  PROVE  Stage'
<1> SUFFICES ASSUME ~ stray'
             PROVE  Stage'
  BY DEF Stage
<1>1. /\ \A d \in Slots :
           /\ calls'[d].kind = calls[d].kind /\ calls'[d].by = calls[d].by
           /\ calls'[d].phase = calls[d].phase /\ calls'[d].cookie = calls[d].cookie
           /\ calls'[d].ok = calls[d].ok /\ calls'[d].grant = calls[d].grant
           /\ calls'[d].aborted = calls[d].aborted /\ calls'[d].disturbed = calls[d].disturbed
           /\ calls'[d].bearer.user = calls[d].bearer.user
      /\ tokens'.user = tokens.user /\ (tokens = NoToken => tokens' = NoToken)
  BY ExpireFacts
<1>2. UNCHANGED <<sessions, fresh, jar, screen, rows, lost, stray>>
  BY DEF Expire, server, history
<1>3. CASE screen.status = "loading"
  <2>1. LoadingStage
    BY <1>2, <1>3 DEF Stage
  <2>2. LoadingStage'
    BY <1>1, <1>2, <2>1 DEF LoadingStage, OneCall, Open, Refreshing, Live
  <2>3. QED
    BY <1>2, <1>3, <2>2 DEF Stage
<1>4. CASE screen.status = "anonymous"
  <2>1. AnonymousStage
    BY <1>2, <1>4 DEF Stage
  <2>2. AnonymousStage'
    BY <1>1, <1>2, <2>1 DEF AnonymousStage, OneCall, Open, Live
  <2>3. QED
    BY <1>2, <1>4, <2>2 DEF Stage
<1>5. CASE screen.status = "authenticated"
  <2>1. SignedInStage(screen.user)
        /\ (lost = 0 => /\ SessionAlive
                        /\ \A d \in Slots : Refreshing(d) /\ ~ calls[d].disturbed => Undisturbed(d))
    BY <1>2, <1>5 DEF Stage
  <2>2. SignedInStage(screen.user)'
    BY <1>1, <1>2, <2>1 DEF SignedInStage, Of, Open
  <2>3. lost = 0 => SessionAlive'
    BY <1>1, <1>2, <2>1 DEF SessionAlive, Live
  <2>4. lost = 0 => \A d \in Slots : (Refreshing(d) /\ ~ calls[d].disturbed => Undisturbed(d))'
    BY <1>1, <1>2, <2>1 DEF Undisturbed, Refreshing, Live
  <2>5. QED
    BY <1>2, <1>5, <2>2, <2>3, <2>4 DEF Stage
<1>6. screen.status \in {"loading", "anonymous", "authenticated"}
  BY DEF Base, TypeOK
<1>7. QED
  BY <1>3, <1>4, <1>5, <1>6

\* A call of the pages that ends and takes nothing of the session with it.
LEMMA PageCallEnds ==
  ASSUME Base, Stage, ~ stray, NEW c \in Slots, calls' = End(c),
         calls[c].kind \in PageKinds, UNCHANGED <<sessions, jar, screen>>,
         rows' \subseteq {screen.user}, tokens' \in {tokens, NoToken}, lost' = 0 => lost = 0,
         lost' = 0 => ~ (calls[c].phase = "refreshed" /\ calls[c].ok)
  PROVE  Stage'
<1>1. calls \in [Slots -> Call] /\ Open(c)
  BY NotOpen DEF Base, TypeOK, PageKinds
<1>2. calls'[c] = Idle /\ \A d \in Slots \ {c} : calls'[d] = calls[d]
  BY <1>1 DEF End
<1>3. Idle.phase = "idle" /\ Idle.kind = "none"
  BY DEF Idle
<1>4. /\ screen.status = "authenticated" /\ SignedInStage(screen.user)
      /\ lost = 0 => /\ SessionAlive
                     /\ \A d \in Slots : Refreshing(d) /\ ~ calls[d].disturbed => Undisturbed(d)
  BY <1>1, KindsByStage
<1>5. SignedInStage(screen.user)'
  BY <1>2, <1>3, <1>4 DEF SignedInStage, Of, Open, NoToken
<1>6. lost' = 0 => SessionAlive'
  BY <1>2, <1>4 DEF SessionAlive, Live, PageKinds
<1>7. lost' = 0 => \A d \in Slots : (Refreshing(d) /\ ~ calls[d].disturbed => Undisturbed(d))'
  BY <1>2, <1>3, <1>4 DEF Undisturbed, Refreshing, Live
<1>8. QED
  BY <1>4, <1>5, <1>6, <1>7 DEF Stage

\* A session that is left with nothing under way.
LEMMA SessionLeft ==
  ASSUME Base, NEW c \in Slots, LeaveSession(c), lost' = 0 => ~ Live(jar)'
  PROVE  Stage'
<1>1. /\ tokens' = NoToken /\ screen' = Anonymous(screen.setup) /\ rows' = {}
      /\ ~ stray' => \A d \in Slots : calls'[d].phase = "idle"
  BY LeaveFacts
<1>2. screen'.status = "anonymous"
  BY <1>1 DEF Anonymous
<1>3. ~ stray' => AnonymousStage'
  BY <1>1 DEF AnonymousStage, OneCall, Open
<1>4. QED
  BY <1>2, <1>3 DEF Stage

\* A call of the pages is refused: its refresh starts with a cookie that the
\* API takes, unless others compete for it.
LEMMA PageCallRefreshes ==
  ASSUME Base, Stage, ~ stray, NEW c \in Slots, calls' = Refresh(c),
         calls[c].phase = "told", ~ calls[c].ok,
         calls[c].kind \in {"query", "write", "download", "logout"},
         UNCHANGED <<sessions, jar, tokens, screen, rows, lost>>
  PROVE  Stage'
<1>1. Open(c) /\ calls[c].kind \in PageKinds \cup {"logout"}
  BY DEF Open, PageKinds
<1>2. /\ screen.status = "authenticated" /\ SignedInStage(screen.user)
      /\ lost = 0 => /\ SessionAlive
                     /\ \A d \in Slots : Refreshing(d) /\ ~ calls[d].disturbed => Undisturbed(d)
  BY <1>1, KindsByStage
<1>3. /\ \A d \in Slots \ {c} :
              /\ Same(calls'[d], calls[d])
              /\ calls'[d].disturbed <=> calls[d].disturbed \/ Refreshing(d)
      /\ calls'[c].kind = calls[c].kind
      /\ calls'[c].by = calls[c].by /\ calls'[c].phase = "refreshing"
      /\ calls'[c].bearer = NoToken
      /\ calls'[c].cookie = jar /\ ~ calls'[c].ok /\ calls'[c].grant = NoGrant
      /\ calls'[c].aborted = calls[c].aborted
      /\ calls'[c].disturbed <=> calls[c].disturbed \/ Rival(c)
  BY RefreshFacts
<1>4. calls'[c].grant.access.user = Nobody /\ calls'[c].bearer.user = Nobody
  BY <1>3, NoGrantFacts DEF NoToken
<1>5. SignedInStage(screen.user)'
  BY <1>1, <1>2, <1>3, <1>4 DEF SignedInStage, Of, Open, Same
<1>6. lost = 0 => SessionAlive'
  BY <1>2, <1>3 DEF SessionAlive, Live, Same
<1>7. lost = 0 => \A d \in Slots : (Refreshing(d) /\ ~ calls[d].disturbed => Undisturbed(d))'
  <2> SUFFICES ASSUME lost = 0, NEW d \in Slots, (Refreshing(d) /\ ~ calls[d].disturbed)'
               PROVE  Undisturbed(d)'
    OBVIOUS
  <2>1. d = c
    BY <1>3 DEF Refreshing, Same
  <2>2. ~ Rival(c)
    BY <1>3, <2>1
  <2>3. \A e \in Slots \ {c} : ~ Refreshing(e) /\ calls[e].kind # "logout"
    BY <2>2, NotOpen DEF Rival
  <2>4. Live(jar)
    BY <1>2, <2>3 DEF SessionAlive, Refreshing
  <2>5. QED
    BY <1>3, <2>1, <2>3, <2>4 DEF Undisturbed, Refreshing, Live, Same
<1>8. QED
  BY <1>2, <1>5, <1>6, <1>7 DEF Stage

\* The page load goes on with a refresh.
LEMMA LoadingRefreshes ==
  ASSUME Base, Stage, ~ stray, NEW c \in Slots, calls' = Refresh(c),
         calls[c].phase \in {"asked", "told"}, calls[c].kind = "status",
         UNCHANGED <<sessions, jar, tokens, screen, rows>>
  PROVE  Stage'
<1>1. Open(c)
  BY DEF Open
<1>2. screen.status = "loading" /\ LoadingStage
  BY <1>1, KindsByStage
<1>3. /\ \A d \in Slots \ {c} :
              /\ Same(calls'[d], calls[d])
              /\ calls'[d].disturbed <=> calls[d].disturbed \/ Refreshing(d)
      /\ calls'[c].kind = "restore" /\ calls'[c].phase = "refreshing" /\ calls'[c].cookie = jar
  BY RefreshFacts
<1>4. \A d \in Slots \ {c} : ~ Open(d)
  BY <1>1, <1>2 DEF LoadingStage, OneCall
<1>5. \A d \in Slots \ {c} : calls'[d].phase = "idle" /\ calls'[d].kind = "none"
  BY <1>3, <1>4, NotOpen DEF Open, Same
<1>6. tokens = NoToken /\ rows = {}
  BY <1>2 DEF LoadingStage
<1>7. LoadingStage'
  BY <1>3, <1>5, <1>6 DEF LoadingStage, OneCall, Open, Refreshing
<1>8. QED
  BY <1>2, <1>7 DEF Stage

\* The page load ends at the form.
LEMMA LoadingEnds ==
  ASSUME Base, Stage, ~ stray, NEW c \in Slots, calls' = End(c),
         calls[c].kind \in {"status", "restore", "me"}, screen'.status = "anonymous",
         rows' = rows, lost' = 0 => tokens' = NoToken /\ ~ Live(jar)'
  PROVE  Stage'
<1>1. calls \in [Slots -> Call] /\ Open(c)
  BY NotOpen DEF Base, TypeOK
<1>2. LoadingStage
  BY <1>1, KindsByStage
<1>3. calls'[c] = Idle /\ \A d \in Slots \ {c} : calls'[d] = calls[d]
  BY <1>1 DEF End
<1>4. Idle.phase = "idle"
  BY DEF Idle
<1>5. \A d \in Slots : ~ Open(d)'
  BY <1>1, <1>2, <1>3, <1>4 DEF LoadingStage, OneCall, Open
<1>6. AnonymousStage'
  BY <1>2, <1>5 DEF AnonymousStage, LoadingStage, OneCall
<1>7. QED
  BY <1>6 DEF Stage

\* A sign-in that fails leaves the form as it was.
LEMMA FormStays ==
  ASSUME Base, Stage, ~ stray, NEW c \in Slots, calls' = End(c),
         calls[c].kind \in {"login", "bootstrap"}, lost' = 0 => lost = 0,
         UNCHANGED <<sessions, jar, tokens, screen, rows>>
  PROVE  Stage'
<1>1. calls \in [Slots -> Call] /\ Open(c)
  BY NotOpen DEF Base, TypeOK
<1>2. screen.status = "anonymous" /\ AnonymousStage
  BY <1>1, KindsByStage
<1>3. calls'[c] = Idle /\ \A d \in Slots \ {c} : calls'[d] = calls[d]
  BY <1>1 DEF End
<1>4. Idle.phase = "idle"
  BY DEF Idle
<1>5. AnonymousStage'
  BY <1>2, <1>3, <1>4 DEF AnonymousStage, OneCall, Open, Live
<1>6. QED
  BY <1>2, <1>5 DEF Stage

\* The pages appear: nothing else is under way, and the jar holds the user's cookie.
LEMMA SignedIn ==
  ASSUME Base, NEW c \in Slots, calls' = End(c), OneCall({calls[c].kind}), Open(c),
         screen'.status = "authenticated", screen'.user \in Users, rows' = {},
         tokens'.user = screen'.user, jar' # NoCookie, sessions'[jar'] = screen'.user
  PROVE  Stage'
<1>1. calls \in [Slots -> Call]
  BY DEF Base, TypeOK
<1>2. calls'[c] = Idle /\ \A d \in Slots \ {c} : calls'[d] = calls[d]
  BY <1>1 DEF End
<1>3. Idle.phase = "idle"
  BY DEF Idle
<1>4. \A d \in Slots : calls'[d].phase = "idle"
  BY <1>2, <1>3 DEF OneCall, Open
<1>5. SignedInStage(screen.user)'
  BY <1>4 DEF SignedInStage, Of, Open
<1>6. SessionAlive'
  BY SessionAssumption DEF SessionAlive, Live
<1>7. \A d \in Slots : ~ Refreshing(d)'
  BY <1>4 DEF Refreshing
<1>8. QED
  BY <1>5, <1>6, <1>7 DEF Stage

\* A good answer: the stage is the same, or the next one.
LEMMA ArriveStage ==
  ASSUME Base, Stage, NEW c \in Slots, Arrive(c)
  PROVE  Stage'
<1> SUFFICES ASSUME ~ stray'
             PROVE  Stage'
  BY DEF Stage
<1>1. /\ calls \in [Slots -> Call] /\ calls[c] \in Call /\ WellFormed(calls[c])
      /\ calls[c].phase = "told" /\ calls[c].ok /\ Open(c)
      /\ UNCHANGED <<sessions, fresh, lost>>
  BY DEF Base, TypeOK, Arrive, server, Open
<1>2. CASE /\ calls[c].kind \in PageKinds
           /\ rows' = IF calls[c].kind = "query" THEN rows \cup {calls[c].bearer.user} ELSE rows
           /\ calls' = End(c)
           /\ UNCHANGED <<jar, tokens, screen, stray>>
  <2>1. calls[c].bearer.user \in Users
    BY <1>1, <1>2 DEF WellFormed
  <2>2. SignedInStage(screen.user)
    BY <1>1, <1>2, KindsByStage
  <2>3. rows \subseteq {screen.user} /\ calls[c].bearer.user \in {Nobody, screen.user}
    BY <1>1, <2>2 DEF SignedInStage
  <2>4. rows' \subseteq {screen.user}
    BY <1>2, <2>1, <2>3, SessionAssumption
  <2>5. QED
    BY <1>1, <1>2, <2>4, PageCallEnds
<1>3. CASE /\ calls[c].kind \in {"login", "bootstrap"}
           /\ jar' = calls[c].grant.cookie
           /\ tokens' = calls[c].grant.access
           /\ screen' = [status |-> "authenticated", user |-> calls[c].by,
                         setup |-> screen.setup /\ calls[c].kind = "bootstrap"]
           /\ calls' = End(c)
           /\ UNCHANGED <<rows, stray>>
  <2>1. AnonymousStage
    BY <1>1, <1>3, KindsByStage
  <2>2. rows' = {} /\ OneCall({calls[c].kind})
    BY <1>1, <1>3, <2>1 DEF AnonymousStage, OneCall
  <2>3. calls[c].by \in Users /\ calls[c].grant.cookie \in RefreshTokens
        /\ calls[c].grant.access.user = calls[c].by
    BY <1>1, <1>3 DEF WellFormed
  <2>4. sessions[calls[c].grant.cookie] = calls[c].by /\ calls[c].grant.cookie # NoCookie
    BY <2>3, SessionAssumption DEF Base, GrantsAreFresh
  <2>5. screen'.status = "authenticated" /\ screen'.user = calls[c].by
    BY <1>3
  <2>6. QED
    BY <1>1, <1>3, <2>2, <2>3, <2>4, <2>5, SignedIn
<1>4. CASE /\ calls[c].kind = "me"
           /\ screen' = [screen EXCEPT !.status = "authenticated", !.user = calls[c].bearer.user]
           /\ calls' = End(c)
           /\ UNCHANGED <<jar, tokens, rows, stray>>
  <2>1. LoadingStage
    BY <1>1, <1>4, KindsByStage
  <2>2. /\ rows' = {} /\ OneCall({calls[c].kind})
        /\ tokens.user = calls[c].bearer.user /\ jar # NoCookie /\ sessions[jar] = tokens.user
    BY <1>1, <1>4, <2>1 DEF LoadingStage, OneCall
  <2>3. calls[c].bearer.user \in Users
    BY <1>1, <1>4 DEF WellFormed
  <2>4. screen'.status = "authenticated" /\ screen'.user = calls[c].bearer.user
    BY <1>4 DEF Base, TypeOK
  <2>5. QED
    BY <1>1, <1>4, <2>2, <2>3, <2>4, SignedIn
<1>5. CASE calls[c].kind = "logout" /\ jar' = NoCookie /\ LeaveSession(c)
  BY <1>5, SessionLeft DEF Live
<1>6. CASE calls[c].kind = "status" /\ calls' = Refresh(c) /\ UNCHANGED <<jar, tokens, screen, rows, stray>>
  BY <1>1, <1>6, LoadingRefreshes
<1>7. QED
  BY <1>2, <1>3, <1>4, <1>5, <1>6 DEF Arrive

\* A refusal: the call refreshes, or the form stays, or appears.
LEMMA ArriveRefusedStage ==
  ASSUME Base, Stage, NEW c \in Slots, ArriveRefused(c)
  PROVE  Stage'
<1> SUFFICES ASSUME ~ stray'
             PROVE  Stage'
  BY DEF Stage
<1>1. /\ calls[c] \in Call /\ WellFormed(calls[c])
      /\ calls[c].phase = "told" /\ ~ calls[c].ok /\ Open(c)
      /\ UNCHANGED <<sessions, fresh, jar, lost>>
  BY DEF Base, TypeOK, ArriveRefused, server, Open
<1>2. CASE MayRefresh(c)
  <2>1. calls' = Refresh(c) /\ UNCHANGED <<tokens, screen, rows, stray>>
    BY <1>2 DEF ArriveRefused, MayRefresh
  <2>2. calls[c].kind \in {"query", "write", "download", "logout"}
    BY <1>1, <1>2, MayRefreshKinds
  <2>3. QED
    BY <1>1, <2>1, <2>2, PageCallRefreshes
<1>3. CASE ~ MayRefresh(c) /\ calls[c].kind = "status"
  <2>1. calls' = End(c) /\ screen' = Anonymous(TRUE) /\ UNCHANGED <<tokens, rows, stray>>
    BY <1>3 DEF ArriveRefused
  <2>2. screen'.status = "anonymous"
    BY <2>1 DEF Anonymous
  <2>3. LoadingStage
    BY <1>1, <1>3, <2>1, KindsByStage
  <2>4. tokens = NoToken /\ fresh
    BY <1>1, <1>3, <2>3 DEF LoadingStage
  <2>5. ~ Live(jar)'
    BY <1>1, <2>4 DEF Live, Base, NobodyYet, TypeOK, Cookies
  <2>6. QED
    BY <1>1, <1>3, <2>1, <2>2, <2>4, <2>5, LoadingEnds
<1>4. CASE ~ MayRefresh(c) /\ calls[c].kind # "status"
  <2>1. GiveUp(c) /\ (calls[c].kind # "logout" => UNCHANGED tokens)
    BY <1>4 DEF ArriveRefused
  <2>2. calls[c].kind \in {"login", "bootstrap", "stream"}
    BY <1>1, <1>4 DEF WellFormed, MayRefresh, Call, Kinds, PageKinds
  <2>3. calls' = End(c) /\ UNCHANGED <<tokens, screen, rows, stray>>
    BY <2>1, <2>2 DEF GiveUp
  <2>4. CASE calls[c].kind \in {"login", "bootstrap"}
    BY <1>1, <2>3, <2>4, FormStays
  <2>5. CASE calls[c].kind = "stream"
    <3>1. calls[c].kind \in PageKinds
      BY <2>5 DEF PageKinds
    <3>2. SignedInStage(screen.user)
      BY <1>1, <2>3, <3>1, KindsByStage
    <3>3. rows' \subseteq {screen.user}
      BY <2>3, <3>2 DEF SignedInStage
    <3>4. QED
      BY <1>1, <2>3, <3>1, <3>3, PageCallEnds
  <2>6. QED
    BY <2>2, <2>4, <2>5
<1>5. QED
  BY <1>2, <1>3, <1>4

\* The tokens of a refresh are the user's, so the call is replayed for the user.
LEMMA ArriveRefreshedStage ==
  ASSUME Base, Stage, NEW c \in Slots, ArriveRefreshed(c)
  PROVE  Stage'
<1> SUFFICES ASSUME ~ stray'
             PROVE  Stage'
  BY DEF Stage
<1>1. /\ calls \in [Slots -> Call] /\ calls[c] \in Call /\ WellFormed(calls[c])
      /\ calls[c].phase = "refreshed" /\ calls[c].ok /\ Open(c)
      /\ jar' = calls[c].grant.cookie /\ tokens' = calls[c].grant.access
      /\ UNCHANGED <<sessions, fresh, screen, rows, lost, stray>>
  BY DEF Base, TypeOK, ArriveRefreshed, server, history, Open
<1>2. /\ calls[c].grant.access.user \in Users /\ jar' # NoCookie
      /\ sessions'[jar'] = calls[c].grant.access.user
  BY <1>1, SessionAssumption DEF WellFormed, Base, GrantsAreFresh
<1>3. calls[c].kind \in PageKinds \cup {"logout", "restore"} /\ calls[c].kind \notin {"me", "status"}
  BY <1>1 DEF WellFormed, Call, Kinds
<1>4. CASE calls[c].kind = "restore"
  <2>1. screen.status = "loading" /\ LoadingStage
    BY <1>1, <1>4, KindsByStage
  <2>2. CASE calls[c].aborted
    <3>1. calls' = [calls EXCEPT ![c] = Idle]
      BY <2>2 DEF ArriveRefreshed
    <3>2. Idle.phase = "idle" /\ Idle.kind = "none"
      BY DEF Idle
    <3>3. calls'[c] = Idle /\ \A d \in Slots \ {c} : calls'[d] = calls[d]
      BY <1>1, <3>1
    <3>4. \A d \in Slots : calls'[d].phase = "idle" /\ calls'[d].kind = "none"
      BY <1>1, <2>1, <3>2, <3>3, NotOpen DEF LoadingStage, OneCall, Open
    <3>5. LoadingStage'
      BY <1>1, <2>1, <3>4 DEF LoadingStage, OneCall, Open, Refreshing
    <3>6. QED
      BY <1>1, <2>1, <3>5 DEF Stage
  <2>3. CASE ~ calls[c].aborted
    <3>1. PICK k \in Call :
           /\ calls' = [calls EXCEPT ![c] = k]
           /\ k.kind = "me" /\ k.phase = "asked" /\ k.bearer = calls[c].grant.access
      BY <1>4, <2>3, ReplayFacts
    <3>2. calls'[c] = k /\ \A d \in Slots \ {c} : calls'[d] = calls[d]
      BY <1>1, <3>1
    <3>3. rows' = {}
      BY <1>1, <2>1 DEF LoadingStage
    <3>4. ~ Refreshing(c)'
      BY <3>1, <3>2 DEF Refreshing
    <3>5. LoadingStage'
      BY <1>1, <1>2, <2>1, <3>1, <3>2, <3>3, <3>4, LoadingKept
    <3>6. QED
      BY <1>1, <2>1, <3>5 DEF Stage
  <2>4. QED
    BY <2>2, <2>3
<1>5. CASE calls[c].kind # "restore"
  <2>1. /\ screen.status = "authenticated" /\ SignedInStage(screen.user)
        /\ lost = 0 => \A d \in Slots : Refreshing(d) /\ ~ calls[d].disturbed => Undisturbed(d)
    BY <1>1, <1>3, <1>5, KindsByStage
  <2>2. ~ calls[c].aborted /\ calls[c].by = screen.user /\ calls[c].grant.access.user = screen.user
    BY <1>1, <1>2, <2>1, SessionAssumption DEF SignedInStage
  <2>3. PICK k \in Call :
           /\ calls' = [calls EXCEPT ![c] = k]
           /\ k.kind = calls[c].kind
           /\ k.by = calls[c].by /\ k.phase = "asked" /\ k.bearer = calls[c].grant.access
           /\ k.cookie = IF k.kind = "logout" THEN jar' ELSE NoCookie
           /\ k.grant = NoGrant /\ ~ k.aborted
    BY <1>5, <2>2, ReplayFacts
  <2>4. calls'[c] = k /\ \A d \in Slots \ {c} : calls'[d] = calls[d]
    BY <1>1, <2>3
  <2>5. k.grant.access.user = Nobody
    BY <2>3, NoGrantFacts DEF NoToken
  <2>6. SignedInStage(screen.user)'
    BY <1>1, <1>2, <1>3, <1>5, <2>1, <2>2, <2>3, <2>4, <2>5 DEF SignedInStage, Of, Open
  <2>7. SessionAlive'
    BY <1>2, SessionAssumption DEF SessionAlive, Live
  <2>8. lost = 0 => \A d \in Slots : (~ (Refreshing(d) /\ ~ calls[d].disturbed))'
    BY <1>1, <2>1, <2>3, <2>4 DEF Undisturbed, Refreshing
  <2>9. QED
    BY <1>1, <2>1, <2>6, <2>7, <2>8 DEF Stage
<1>6. QED
  BY <1>4, <1>5

\* A refresh that is refused was disturbed: a sign-out then counts as stray, and
\* a page load had no session.
LEMMA ArriveNotRefreshedStage ==
  ASSUME Base, Stage, NEW c \in Slots, ArriveNotRefreshed(c)
  PROVE  Stage'
<1> SUFFICES ASSUME ~ stray'
             PROVE  Stage'
  BY DEF Stage
<1>1. /\ calls[c] \in Call /\ WellFormed(calls[c])
      /\ calls[c].phase = "refreshed" /\ ~ calls[c].ok /\ Open(c) /\ Refreshing(c)
      /\ tokens' = NoToken /\ GiveUp(c)
      /\ UNCHANGED <<sessions, fresh, jar, lost>>
  BY DEF Base, TypeOK, ArriveNotRefreshed, server, Open, Refreshing
<1>2. calls[c].kind \in PageKinds \cup {"logout", "restore"} /\ calls[c].kind \notin {"me", "status"}
  BY <1>1 DEF WellFormed, Call, Kinds
<1>3. CASE calls[c].kind = "restore"
  <2>1. calls' = End(c) /\ screen' = Anonymous(screen.setup) /\ UNCHANGED <<rows, stray>>
    BY <1>1, <1>3 DEF GiveUp
  <2>2. screen'.status = "anonymous"
    BY <2>1 DEF Anonymous
  <2>3. LoadingStage
    BY <1>1, <1>3, <2>1, KindsByStage
  <2>4. ~ Live(jar)'
    BY <1>1, <2>3 DEF LoadingStage, Live
  <2>5. QED
    BY <1>1, <1>3, <2>1, <2>2, <2>4, LoadingEnds
<1>4. CASE calls[c].kind = "logout"
  <2>1. LeaveSession(c)
    BY <1>1, <1>4 DEF GiveUp
  <2>2. ~ stray /\ ~ calls[c].disturbed
    BY <2>1, LeaveFacts
  <2>3. lost = 0 => Undisturbed(c)
    BY <1>1, <1>4, <2>2, KindsByStage
  <2>4. lost # 0
    BY <1>1, <2>3 DEF Undisturbed
  <2>5. QED
    BY <1>1, <2>1, <2>4, SessionLeft
<1>5. CASE calls[c].kind \in PageKinds
  <2>1. calls' = End(c) /\ UNCHANGED <<screen, rows, stray>>
    BY <1>1, <1>5 DEF GiveUp, PageKinds
  <2>2. SignedInStage(screen.user)
    BY <1>1, <1>5, <2>1, KindsByStage
  <2>3. rows' \subseteq {screen.user}
    BY <2>1, <2>2 DEF SignedInStage
  <2>4. QED
    BY <1>1, <1>5, <2>1, <2>3, PageCallEnds
<1>6. QED
  BY <1>2, <1>3, <1>4, <1>5

\* Once a message is lost, only whose session it is still matters.
LEMMA LoseStage ==
  ASSUME Base, Stage, NEW c \in Slots, Lose(c)
  PROVE  Stage'
<1> SUFFICES ASSUME ~ stray'
             PROVE  Stage'
  BY DEF Stage
<1>1. /\ calls[c] \in Call /\ WellFormed(calls[c]) /\ Open(c) /\ lost' # 0
      /\ UNCHANGED <<sessions, fresh, jar>>
  BY DEF Base, TypeOK, Lose, server, Open
<1>2. CASE calls[c].kind = "status" /\ calls' = Refresh(c) /\ UNCHANGED <<tokens, screen, rows, stray>>
           /\ calls[c].phase \in {"asked", "told"}
  BY <1>1, <1>2, LoadingRefreshes
<1>3. CASE GiveUp(c) /\ (calls[c].kind # "logout" => tokens' \in {tokens, NoToken})
           /\ (calls[c].kind \in {"login", "bootstrap"} => tokens' = tokens)
           /\ calls[c].kind # "status"
  <2>1. CASE calls[c].kind = "logout"
    BY <1>1, <1>3, <2>1, SessionLeft DEF GiveUp
  <2>2. CASE calls[c].kind \in {"restore", "me"}
    <3>1. calls' = End(c) /\ screen' = Anonymous(screen.setup) /\ UNCHANGED <<rows, stray>>
      BY <1>3, <2>2 DEF GiveUp
    <3>2. screen'.status = "anonymous"
      BY <3>1 DEF Anonymous
    <3>3. QED
      BY <1>1, <2>2, <3>1, <3>2, LoadingEnds
  <2>3. CASE calls[c].kind \in {"login", "bootstrap"}
    <3>1. calls' = End(c) /\ UNCHANGED <<screen, rows, stray>>
      BY <1>3, <2>3 DEF GiveUp
    <3>2. QED
      BY <1>1, <1>3, <2>3, <3>1, FormStays
  <2>4. CASE calls[c].kind \in PageKinds
    <3>1. calls' = End(c) /\ UNCHANGED <<screen, rows, stray>>
      BY <1>3, <2>4 DEF GiveUp, PageKinds
    <3>2. SignedInStage(screen.user)
      BY <1>1, <2>4, <3>1, KindsByStage
    <3>3. rows' \subseteq {screen.user}
      BY <3>1, <3>2 DEF SignedInStage
    <3>4. QED
      BY <1>1, <1>3, <2>4, <3>1, <3>3, PageCallEnds DEF PageKinds
  <2>5. calls[c].kind \in PageKinds \cup {"login", "bootstrap", "logout", "restore", "me"}
    BY <1>1, <1>3, NotOpen DEF Call, Kinds
  <2>6. QED
    BY <2>1, <2>2, <2>3, <2>4, <2>5
<1>4. CASE calls[c].phase \in {"asked", "told"} /\ calls[c].kind # "status"
           /\ GiveUp(c) /\ (calls[c].kind # "logout" => UNCHANGED tokens)
  BY <1>3, <1>4
<1>5. CASE calls[c].phase \in {"refreshing", "refreshed"} /\ tokens' = NoToken /\ GiveUp(c)
  BY <1>1, <1>3, <1>5 DEF WellFormed
<1>6. QED
  BY <1>2, <1>4, <1>5 DEF Lose

\* The first page load is a stage.
LEMMA StageInit == Init => Stage
<1> SUFFICES ASSUME Init PROVE Stage
  OBVIOUS
<1>1. PICK c \in Slots : /\ calls[c].kind = "status" /\ calls[c].phase = "asked"
                         /\ \A d \in Slots \ {c} : calls[d] = Idle
  BY PageLoadFacts DEF Init
<1>2. screen.status = "loading" /\ tokens = NoToken /\ rows = {}
  BY DEF Init, Loading
<1>3. Idle.phase = "idle" /\ Idle.kind = "none"
  BY DEF Idle
<1>4. LoadingStage
  BY <1>1, <1>2, <1>3 DEF LoadingStage, OneCall, Open, Refreshing
<1>5. QED
  BY <1>2, <1>4 DEF Stage

\* Every step leads from a stage to a stage.
LEMMA StageStep ==
  ASSUME Base, Stage, [Next]_vars
  PROVE  Stage'
<1>1. CASE Reload
  BY <1>1, ReloadStage
<1>2. CASE Expire
  BY <1>2, ExpireStage
<1>3. ASSUME NEW c \in Slots, Administrator(c)
      PROVE  Stage'
  BY <1>3, StartCallStage, SubmitLoginStage, StartLogoutStage DEF Administrator
<1>4. ASSUME NEW c \in Slots, Progress(c)
      PROVE  Stage'
  BY <1>4, ServeStage, ServeStatusStage, ServeLoginStage, ServeLogoutStage, ReadStage,
     RotateStage, ArriveStage, ArriveRefusedStage, ArriveRefreshedStage,
     ArriveNotRefreshedStage DEF Progress
<1>5. ASSUME NEW c \in Slots, Lose(c)
      PROVE  Stage'
  BY <1>5, LoseStage
<1>6. CASE UNCHANGED vars
  BY <1>6 DEF vars, Stage, LoadingStage, AnonymousStage, SignedInStage, SessionAlive, Undisturbed,
     Of, OneCall, Open, Refreshing, Live
<1>7. QED
  BY <1>1, <1>2, <1>3, <1>4, <1>5, <1>6 DEF Next

-----------------------------------------------------------------------------
(* What every behaviour of Session shows *)

\* Every reachable state satisfies SInv, however many users, calls and tokens there are.
THEOREM Inductive == Spec => []SInv
<1>1. Init => SInv
  BY BaseInit, StageInit DEF SInv
<1>2. SInv /\ [Next]_vars => SInv'
  BY BaseStep, StageStep DEF SInv
<1>3. QED
  BY <1>1, <1>2, PTL DEF Spec

\* Every variable keeps its type, the record of each call included.
THEOREM TypeCorrect == Spec => []TypeOK
<1>1. SInv => TypeOK
  BY DEF SInv, Base
<1>2. QED
  BY <1>1, Inductive, PTL

\* A refresh token on its way to the browser is presented by nobody else and
\* not revoked: whatever overtakes the answer, it brings a session that lives.
THEOREM TokensArriveAlive == Spec => []GrantsAreFresh
<1>1. SInv => GrantsAreFresh
  BY DEF SInv, Base
<1>2. QED
  BY <1>1, Inductive, PTL

\* What the cache shows and what the calls are made with belong to the user on the screen.
THEOREM OneUserAtATimeHolds == Spec => []OneUserAtATime
<1>1. SInv => OneUserAtATime
  <2> SUFFICES ASSUME SInv, ~ stray
               PROVE  OneUserAtATime
    BY DEF OneUserAtATime
  <2>1. Base /\ Stage /\ screen.status \in {"loading", "anonymous", "authenticated"}
    BY DEF SInv, Base, TypeOK
  <2>2. rows \subseteq {screen.user}
    BY <2>1 DEF Stage, LoadingStage, AnonymousStage, SignedInStage
  <2>3. ASSUME NEW c \in Slots, calls[c].kind \in PageKinds \cup {"logout"}, Open(c)
        PROVE  calls[c].by = screen.user /\ calls[c].bearer.user \in {Nobody, screen.user}
    BY <2>1, <2>3, KindsByStage DEF SignedInStage
  <2>4. QED
    BY <2>2, <2>3 DEF OneUserAtATime
<1>2. QED
  BY <1>1, Inductive, PTL

\* Once everything is answered, the pages stand on a session that lives and
\* the form on none.
THEOREM ScreenTellsTheTruth == Spec => []ScreenAgreesWithJar
<1>1. SInv => ScreenAgreesWithJar
  <2> SUFFICES ASSUME SInv, Quiet, lost = 0, ~ stray
               PROVE  /\ Authenticated => Live(jar) /\ sessions[jar] = screen.user
                      /\ screen.status = "anonymous" => ~ Live(jar) /\ tokens = NoToken
    BY DEF ScreenAgreesWithJar
  <2>1. ASSUME Authenticated
        PROVE  Live(jar) /\ sessions[jar] = screen.user
    <3>1. SignedInStage(screen.user) /\ SessionAlive
      BY <2>1 DEF SInv, Stage, Authenticated
    <3>2. Live(jar)
      BY <3>1 DEF SessionAlive, Quiet, Open
    <3>3. QED
      BY <3>1, <3>2 DEF SignedInStage, Of, Live
  <2>2. ASSUME screen.status = "anonymous"
        PROVE  ~ Live(jar) /\ tokens = NoToken
    BY <2>2 DEF SInv, Stage, AnonymousStage
  <2>3. QED
    BY <2>1, <2>2
<1>2. QED
  BY <1>1, Inductive, PTL

\* Only a refresh that competed with another, or with a sign-out, can fail.
THEOREM AloneACallSucceeds == Spec => []AloneItSucceeds
<1>1. SInv => AloneItSucceeds
  <2> SUFFICES ASSUME SInv, NEW c \in Slots, ~ calls[c].disturbed, ~ (lost > 0), ~ stray,
                      \/ calls[c].phase = "told" /\ calls[c].retry
                      \/ calls[c].phase = "refreshed" /\ calls[c].kind \in PageKinds \cup {"logout"}
               PROVE  calls[c].ok
    BY DEF AloneItSucceeds
  <2>1. Base /\ Stage /\ WellFormed(calls[c]) /\ lost = 0
    <3>1. lost \in 0 .. MaxLost
      BY DEF SInv, Base, TypeOK
    <3>2. lost = 0
      BY <3>1, SessionAssumption
    <3>3. QED
      BY <3>2 DEF SInv, Base
  <2>2. CASE calls[c].phase = "told" /\ calls[c].retry
    BY <2>1, <2>2 DEF WellFormed
  <2>3. CASE calls[c].phase = "refreshed" /\ calls[c].kind \in PageKinds \cup {"logout"}
    <3>1. Open(c) /\ Refreshing(c)
      BY <2>3 DEF Open, Refreshing
    <3>2. Undisturbed(c)
      BY <2>1, <2>3, <3>1, KindsByStage
    <3>3. QED
      BY <2>3, <3>2 DEF Undisturbed
  <2>4. QED
    BY <2>2, <2>3
<1>2. QED
  BY <1>1, Inductive, PTL
=============================================================================
