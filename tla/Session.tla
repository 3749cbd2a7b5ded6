------------------------------ MODULE Session ------------------------------
(***************************************************************************)
(* The admin panel's session: the API client (frontend/src/lib/api/        *)
(* client.ts), the AuthProvider with its login and setup pages, and the    *)
(* part of the API they talk to (backend app/api/v1/auth.py). One browser  *)
(* tab; the access token lives in a variable of the tab, the refresh token *)
(* in an HttpOnly cookie that the browser attaches when a request leaves   *)
(* and replaces when an answer arrives. Between the two, everything else   *)
(* may happen: other calls refresh too, the administrator signs out, and   *)
(* somebody else signs in.                                                 *)
(*                                                                         *)
(* Several calls are under way at a time; a call is one slot:              *)
(*   query     a GET of the query cache (aborted when the cache is cleared)*)
(*   write     a mutation            stream    a playground stream         *)
(*   download  a usage export        login, bootstrap, logout              *)
(*   status, restore, me    the three requests of a page load              *)
(* Left out: tabs that share the cookie, suspended accounts, the end of a  *)
(* refresh token's life, failed passwords, the double effect of a          *)
(* development build.                                                      *)
(***************************************************************************)
EXTENDS Naturals, FiniteSets

CONSTANTS
    Users,          \* administrators
    Nobody,
    Slots,          \* calls under way at a time
    RefreshTokens,  \* refresh tokens that exist at a time
    NoCookie,
    MaxLost         \* requests and answers the network may lose

\* Enough tokens for one that nobody holds: the browser and every call hold one each.
ASSUME SessionAssumption ==
    /\ Nobody \notin Users
    /\ NoCookie \notin RefreshTokens
    /\ Slots # {} /\ IsFiniteSet(Slots)
    /\ IsFiniteSet(RefreshTokens)
    /\ Cardinality(RefreshTokens) >= Cardinality(Slots) + 2
    /\ MaxLost \in Nat

VARIABLES
    sessions,       \* whose refresh token the API takes it for, if it does
    fresh,          \* the API has no account yet
    jar,            \* the browser's refresh cookie
    tokens,         \* tokenStore: the access token, or none
    screen,         \* AuthProvider: status, user, bootstrapAllowed (setup)
    rows,           \* users on whose behalf the cached answers were given
    calls,          \* what each slot is doing
    lost,           \* history: messages lost so far
    stray           \* history: a sign-out met a refresh of another call

vars == <<sessions, fresh, jar, tokens, screen, rows, calls, lost, stray>>
server == <<sessions, fresh>>
history == <<lost, stray>>

PageKinds == {"query", "write", "stream", "download"}

Kinds == PageKinds \cup {"login", "bootstrap", "logout", "status", "restore", "me", "none"}

NoToken == [user |-> Nobody, good |-> FALSE]
NoGrant == [cookie |-> NoCookie, access |-> NoToken]

Access == [user : Users, good : BOOLEAN] \cup {NoToken}

Idle == [kind |-> "none", by |-> Nobody, phase |-> "idle", bearer |-> NoToken,
         cookie |-> NoCookie, retry |-> FALSE, ok |-> FALSE, grant |-> NoGrant,
         aborted |-> FALSE, disturbed |-> FALSE]

Cookies == RefreshTokens \cup {NoCookie}

Call == [kind : Kinds, by : Users \cup {Nobody},
         phase : {"idle", "asked", "told", "refreshing", "rotating", "refreshed"},
         bearer : Access, cookie : Cookies, retry : BOOLEAN, ok : BOOLEAN,
         grant : [cookie : Cookies, access : Access],
         aborted : BOOLEAN, disturbed : BOOLEAN]

TypeOK ==
    /\ sessions \in [RefreshTokens -> Users \cup {Nobody}]
    /\ fresh \in BOOLEAN
    /\ jar \in Cookies
    /\ tokens \in Access
    /\ screen \in [status : {"loading", "authenticated", "anonymous"},
                   user : Users \cup {Nobody}, setup : BOOLEAN]
    /\ rows \subseteq Users
    /\ calls \in [Slots -> Call]
    /\ lost \in 0 .. MaxLost
    /\ stray \in BOOLEAN

-----------------------------------------------------------------------------
Open(c) == calls[c].phase # "idle"
Refreshing(c) == calls[c].phase \in {"refreshing", "rotating", "refreshed"}

Authenticated == screen.status = "authenticated"

\* A request leaves with the bearer and the cookie of that moment.
Asked(kind, by, bearer) ==
    [Idle EXCEPT !.kind = kind, !.by = by, !.phase = "asked", !.bearer = bearer,
                 !.cookie = IF kind = "logout" THEN jar ELSE NoCookie]

Loading == [status |-> "loading", user |-> Nobody, setup |-> FALSE]
Anonymous(setup) == [status |-> "anonymous", user |-> Nobody, setup |-> setup]

\* AuthProvider's effect asks for the bootstrap status first.
PageLoad == [[c \in Slots |-> Idle] EXCEPT
               ![CHOOSE c \in Slots : TRUE] = [Idle EXCEPT !.kind = "status", !.phase = "asked"]]

\* Ids that nobody can present any more are used again.
Held == {jar} \cup {calls[c].cookie : c \in Slots} \cup {calls[c].grant.cookie : c \in Slots}

\* A refresh or a sign-out of c began: from here on the refreshes under way
\* (and this one, if it is not the first) compete for the same cookie.
Disturb(f, c) ==
    LET rival == {d \in Slots \ {c} : Refreshing(d) \/ (Open(d) /\ calls[d].kind = "logout")}
    IN  [d \in Slots |->
           IF (d = c /\ rival # {}) \/ (d # c /\ Refreshing(d))
           THEN [f[d] EXCEPT !.disturbed = TRUE] ELSE f[d]]

End(c) == [calls EXCEPT ![c] = Idle]

-----------------------------------------------------------------------------
(* What the administrator does *)

\* request, streamRequest and downloadRequest, on behalf of the page shown.
StartCall(c, kind) ==
    /\ ~ Open(c)
    /\ Authenticated
    /\ kind \in PageKinds
    /\ calls' = [calls EXCEPT ![c] = Asked(kind, screen.user, tokens)]
    /\ UNCHANGED <<server, jar, tokens, screen, rows, history>>

\* The button is disabled while a submission is under way.
SubmitLogin(c, u) ==
    /\ ~ Open(c)
    /\ screen.status = "anonymous"
    /\ \A d \in Slots : Open(d) => calls[d].kind \notin {"login", "bootstrap"}
    /\ calls' = [calls EXCEPT
         ![c] = Asked(IF screen.setup THEN "bootstrap" ELSE "login", u, NoToken)]
    /\ UNCHANGED <<server, jar, tokens, screen, rows, history>>

StartLogout(c) ==
    /\ ~ Open(c)
    /\ Authenticated
    /\ calls' = Disturb([calls EXCEPT ![c] = Asked("logout", screen.user, tokens)], c)
    /\ UNCHANGED <<server, jar, tokens, screen, rows, history>>

\* Everything the tab held is gone, the answers under way included.
Reload ==
    /\ (\E c \in Slots : Open(c)) => lost < MaxLost
    /\ lost' = IF \E c \in Slots : Open(c) THEN lost + 1 ELSE lost
    /\ tokens' = NoToken /\ screen' = Loading /\ rows' = {}
    /\ calls' = PageLoad
    /\ UNCHANGED <<server, jar, stray>>

-----------------------------------------------------------------------------
(* The API *)

Live(cookie) == cookie # NoCookie /\ sessions[cookie] # Nobody

Tell(c, ok) == [calls EXCEPT ![c].phase = "told", ![c].ok = ok, ![c].bearer.good = FALSE,
                                ![c].cookie = NoCookie]

\* A new session for u, in place of the refresh token that was presented.
Issue(c, u, old, phase) ==
    LET r == CHOOSE r \in RefreshTokens : r \notin Held
    IN  /\ sessions' = [q \in RefreshTokens |->
             CASE q = r -> u
               [] q # r /\ q \in Held \ {old} -> sessions[q]
               [] OTHER -> Nobody]
        /\ calls' = [calls EXCEPT
             ![c].phase = phase, ![c].ok = TRUE, ![c].cookie = NoCookie,
             ![c].grant = [cookie |-> r, access |-> [user |-> u, good |-> TRUE]]]

\* get_current_user: any request that needs a bearer.
Serve(c) ==
    /\ calls[c].phase = "asked"
    /\ calls[c].kind \in PageKinds \cup {"me"}
    /\ calls' = Tell(c, calls[c].bearer.good)
    /\ UNCHANGED <<server, jar, tokens, screen, rows, history>>

\* bootstrap-status needs no bearer; ok tells that an account exists.
ServeStatus(c) ==
    /\ calls[c].phase = "asked" /\ calls[c].kind = "status"
    /\ calls' = Tell(c, ~ fresh)
    /\ UNCHANGED <<server, jar, tokens, screen, rows, history>>

\* login finds no account before the setup, the setup only once.
ServeLogin(c) ==
    /\ calls[c].phase = "asked" /\ calls[c].kind \in {"login", "bootstrap"}
    /\ IF fresh = (calls[c].kind = "bootstrap")
       THEN /\ Issue(c, calls[c].by, NoCookie, "told")
            /\ fresh' = FALSE
       ELSE /\ calls' = Tell(c, FALSE)
            /\ UNCHANGED server
    /\ UNCHANGED <<jar, tokens, screen, rows, history>>

\* logout wants a valid bearer, and then revokes the cookie's token.
ServeLogout(c) ==
    /\ calls[c].phase = "asked" /\ calls[c].kind = "logout"
    /\ calls' = Tell(c, calls[c].bearer.good)
    /\ sessions' = [q \in RefreshTokens |->
         IF q = calls[c].cookie /\ calls[c].bearer.good THEN Nobody ELSE sessions[q]]
    /\ UNCHANGED <<fresh, jar, tokens, screen, rows, history>>

\* refresh reads the stored token and, in the same transaction but without
\* a lock, revokes it and issues the next: two that overlap both succeed.
ReadRefreshToken(c) ==
    /\ calls[c].phase = "refreshing"
    /\ calls' = [calls EXCEPT
         ![c].phase = IF Live(calls[c].cookie) THEN "rotating" ELSE "refreshed",
         ![c].grant.access.user = IF Live(calls[c].cookie) THEN sessions[calls[c].cookie]
                                                           ELSE Nobody]
    /\ UNCHANGED <<server, jar, tokens, screen, rows, history>>

\* Mutant: the owner is read again after another refresh revoked the token.
Rotate_ReadsAgain(c) ==
    /\ calls[c].phase = "rotating"
    /\ Issue(c, sessions[calls[c].cookie], calls[c].cookie, "refreshed")
    /\ UNCHANGED <<fresh, jar, tokens, screen, rows, history>>

Rotate(c) ==
    /\ calls[c].phase = "rotating"
    /\ Issue(c, calls[c].grant.access.user, calls[c].cookie, "refreshed")
    /\ UNCHANGED <<fresh, jar, tokens, screen, rows, history>>

\* Access tokens run out. They last minutes: a new one outlives the round
\* trip of the call it was fetched for.
Expire ==
    /\ \A c \in Slots :
           /\ calls[c].phase # "refreshed"
           /\ calls[c].phase = "asked" => ~ calls[c].retry /\ calls[c].kind # "me"
    /\ tokens' = [tokens EXCEPT !.good = FALSE]
    /\ calls' = [c \in Slots |-> [calls[c] EXCEPT !.bearer.good = FALSE]]
    /\ UNCHANGED <<server, jar, screen, rows, history>>

-----------------------------------------------------------------------------
(* What the panel does with an answer *)

\* Mutant: a failed sign-out that is not followed by the local one.
LeaveSession_TokensKept(c) ==
    /\ calls' = End(c)
    /\ tokens' = tokens
    /\ screen' = Anonymous(screen.setup)
    /\ rows' = {}
    /\ UNCHANGED stray

\* Clearing the cache aborts the queries, except that nothing aborts a refresh.
Aborts(d) == calls[d].kind = "query" /\ ~ Refreshing(d)

\* A sign-out that competed for the cookie, or leaves calls behind that nothing
\* aborts.
Strays(c) ==
    \/ stray
    \/ calls[c].disturbed
    \/ \E d \in Slots \ {c} : Open(d) /\ ~ Aborts(d)

\* Mutant: queryClient.clear() forgotten.
LeaveSession_CacheKept(c) ==
    /\ calls' = End(c)
    /\ tokens' = NoToken
    /\ screen' = Anonymous(screen.setup)
    /\ stray' = Strays(c)
    /\ UNCHANGED rows

\* The last lines of logout run whatever the API said.
LeaveSession(c) ==
    LET after == [d \in Slots |->
          CASE d = c \/ Aborts(d) -> Idle
            [] d # c /\ calls[d].kind = "query" /\ Refreshing(d)
                 -> [calls[d] EXCEPT !.aborted = TRUE]
            [] OTHER -> calls[d]]
    IN  /\ calls' = after
        /\ tokens' = NoToken
        /\ screen' = Anonymous(screen.setup)
        /\ rows' = {}
        /\ stray' = Strays(c)

\* refreshSession: the cookie is read when the request leaves.
Refresh(c) ==
    Disturb([calls EXCEPT ![c].phase = "refreshing", ![c].cookie = jar, ![c].ok = FALSE,
               ![c].bearer = NoToken,
               ![c].kind = IF calls[c].kind = "status" THEN "restore" ELSE calls[c].kind], c)

\* The call cannot be had: the sign-out happens all the same, the page load
\* ends at the sign-in form, a page shows the error.
GiveUp(c) ==
    CASE calls[c].kind = "logout" -> LeaveSession(c)
      [] calls[c].kind \in {"restore", "me"} ->
            /\ screen' = Anonymous(screen.setup)
            /\ calls' = End(c)
            /\ UNCHANGED <<rows, stray>>
      [] OTHER ->
            /\ calls' = End(c)
            /\ UNCHANGED <<screen, rows, stray>>

\* A good answer. A login takes bootstrapAllowed back, the setup itself does not:
\* the sign-out that follows it leads to the setup form again.
Arrive(c) ==
    /\ calls[c].phase = "told" /\ calls[c].ok
    /\ \/ /\ calls[c].kind \in PageKinds
          /\ rows' = IF calls[c].kind = "query" THEN rows \cup {calls[c].bearer.user} ELSE rows
          /\ calls' = End(c)
          /\ UNCHANGED <<jar, tokens, screen, stray>>
       \/ /\ calls[c].kind \in {"login", "bootstrap"}
          /\ jar' = calls[c].grant.cookie
          /\ tokens' = calls[c].grant.access
          /\ screen' = [status |-> "authenticated", user |-> calls[c].by,
                        setup |-> screen.setup /\ calls[c].kind = "bootstrap"]
          /\ calls' = End(c)
          /\ UNCHANGED <<rows, stray>>
       \/ /\ calls[c].kind = "me"
          /\ screen' = [screen EXCEPT !.status = "authenticated", !.user = calls[c].bearer.user]
          /\ calls' = End(c)
          /\ UNCHANGED <<jar, tokens, rows, stray>>
       \/ /\ calls[c].kind = "logout"
          /\ jar' = NoCookie
          /\ LeaveSession(c)
       \/ /\ calls[c].kind = "status"
          /\ calls' = Refresh(c)
          /\ UNCHANGED <<jar, tokens, screen, rows, stray>>
    /\ UNCHANGED <<server, lost>>

\* request refreshes once and replays the call once; downloadRequest starts
\* over every time; streamRequest never refreshes.
MayRefresh(c) ==
    \/ calls[c].kind = "download"
    \/ calls[c].kind \in {"query", "write", "logout", "me"} /\ ~ calls[c].retry

\* A 401; for bootstrap-status, the answer that the setup is still to be done.
ArriveRefused(c) ==
    /\ calls[c].phase = "told" /\ ~ calls[c].ok
    /\ CASE MayRefresh(c) -> /\ calls' = Refresh(c)
                             /\ UNCHANGED <<tokens, screen, rows, stray>>
         [] calls[c].kind = "status" -> /\ screen' = Anonymous(TRUE)
                                        /\ calls' = End(c)
                                        /\ UNCHANGED <<tokens, rows, stray>>
         [] OTHER -> /\ GiveUp(c)
                     /\ calls[c].kind # "logout" => UNCHANGED tokens
    /\ UNCHANGED <<server, jar, lost>>

\* Mutant: the replay sends the headers that were built for the first attempt.
ArriveRefreshed_OldHeaders(c) ==
    /\ calls[c].phase = "refreshed" /\ calls[c].ok
    /\ jar' = calls[c].grant.cookie
    /\ tokens' = calls[c].grant.access
    /\ calls' = [calls EXCEPT ![c] =
         IF calls[c].kind = "restore" THEN Asked("me", Nobody, calls[c].grant.access)
         ELSE [Asked(calls[c].kind, calls[c].by, calls[c].bearer) EXCEPT !.retry = TRUE]]
    /\ UNCHANGED <<server, screen, rows, history>>

\* The new tokens replace whatever the tab holds; then the call is replayed.
ArriveRefreshed(c) ==
    /\ calls[c].phase = "refreshed" /\ calls[c].ok
    /\ jar' = calls[c].grant.cookie
    /\ tokens' = calls[c].grant.access
    /\ calls' = [calls EXCEPT ![c] =
         IF calls[c].aborted THEN Idle
         ELSE [Asked(IF calls[c].kind = "restore" THEN "me" ELSE calls[c].kind,
                     calls[c].by, calls[c].grant.access) EXCEPT
                 !.cookie = IF calls[c].kind = "logout" THEN jar' ELSE NoCookie,
                 !.retry = (calls[c].kind # "restore"),
                 !.disturbed = calls[c].disturbed]]
    /\ UNCHANGED <<server, screen, rows, history>>

ArriveNotRefreshed(c) ==
    /\ calls[c].phase = "refreshed" /\ ~ calls[c].ok
    /\ tokens' = NoToken
    /\ GiveUp(c)
    /\ UNCHANGED <<server, jar, lost>>

\* A request or an answer is lost: fetch throws.
Lose(c) ==
    /\ lost < MaxLost /\ lost' = lost + 1
    /\ \/ /\ calls[c].phase \in {"asked", "told"}
          /\ CASE calls[c].kind = "status" -> /\ calls' = Refresh(c)
                                              /\ UNCHANGED <<tokens, screen, rows, stray>>
               [] OTHER -> /\ GiveUp(c)
                           /\ calls[c].kind # "logout" => UNCHANGED tokens
       \/ /\ calls[c].phase \in {"refreshing", "refreshed"}
          /\ tokens' = NoToken
          /\ GiveUp(c)
    /\ UNCHANGED <<server, jar>>

-----------------------------------------------------------------------------
\* The page is being loaded; the cookie may be that of an earlier visit.
Init ==
    /\ fresh \in BOOLEAN
    /\ jar \in {NoCookie, CHOOSE r \in RefreshTokens : TRUE}
    /\ \E u \in Users \cup {Nobody} :
           /\ fresh => u = Nobody
           /\ sessions = [q \in RefreshTokens |-> IF q = jar THEN u ELSE Nobody]
    /\ calls = PageLoad
    /\ tokens = NoToken /\ screen = Loading /\ rows = {}
    /\ lost = 0 /\ stray = FALSE

Administrator(c) ==
    \/ \E kind \in Kinds : StartCall(c, kind)
    \/ \E u \in Users : SubmitLogin(c, u)
    \/ StartLogout(c)

Progress(c) ==
    \/ Serve(c) \/ ServeStatus(c) \/ ServeLogin(c) \/ ServeLogout(c)
    \/ ReadRefreshToken(c) \/ Rotate(c)
    \/ Arrive(c) \/ ArriveRefused(c) \/ ArriveRefreshed(c) \/ ArriveNotRefreshed(c)

Next ==
    \/ Reload \/ Expire
    \/ \E c \in Slots : Administrator(c) \/ Progress(c) \/ Lose(c)

Spec == Init /\ [][Next]_vars

-----------------------------------------------------------------------------
Quiet == \A c \in Slots : ~ Open(c)

\* Once no call is under way the screen tells the truth about the session
\* the browser holds: behind the pages there is a cookie of that user which
\* the API still takes, so that any call and a reload succeed, and behind
\* the sign-in form there is none, so that a reload brings nobody back. The
\* parallel refreshes, which take tokens from each other, leave it so. A
\* lost message or a call that outlives its session may break it.
ScreenAgreesWithJar ==
    Quiet /\ lost = 0 /\ ~ stray =>
        /\ Authenticated => Live(jar) /\ sessions[jar] = screen.user
        /\ screen.status = "anonymous" => ~ Live(jar) /\ tokens = NoToken

\* What the cache shows, and what the calls under way are made with, belongs
\* to the user on the screen, whoever was signed in before in this tab.
OneUserAtATime ==
    ~ stray =>
        /\ rows \subseteq {screen.user}
        /\ \A c \in Slots :
               calls[c].kind \in PageKinds \cup {"logout"} /\ Open(c) /\ ~ calls[c].aborted =>
                   /\ calls[c].by = screen.user
                   /\ calls[c].bearer.user \in {Nobody, screen.user}

\* A call of a page is refused only if its refresh competed with another
\* refresh or a sign-out: an expired access token is otherwise invisible, and
\* the export, which starts over after every refresh, does so once. Streams
\* never refresh.
AloneItSucceeds ==
    \A c \in Slots :
        \/ calls[c].phase = "told" /\ calls[c].retry
        \/ calls[c].phase = "refreshed" /\ calls[c].kind \in PageKinds \cup {"logout"}
        => calls[c].ok \/ calls[c].disturbed \/ lost > 0 \/ stray

=============================================================================
