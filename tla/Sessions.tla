------------------------------ MODULE Sessions ------------------------------
(***************************************************************************)
(* Login sessions of the console: the OIDC backend-for-frontend            *)
(* (api/src/routers/auth.ts, handlers/auth.ts) and its two in-memory       *)
(* stores (handlers/sessions.ts), with the browsers that keep its cookies. *)
(*                                                                         *)
(* A Login is one GET /api/auth/login, and stands for the random state it  *)
(* generates; a Callback is one GET /api/auth/callback, and stands for the *)
(* random id of the session it may create.  A handler runs uninterrupted   *)
(* from one await to the next; its response sets cookies when it reaches   *)
(* the browser, in whatever order the responses of a browser arrive.       *)
(***************************************************************************)
EXTENDS Naturals

CONSTANTS
    Browser,
    Login,
    Callback,
    PendingTTL,     \* PENDING_TTL_MS, in ticks
    SessionTTL,     \* SESSION_TTL_MS, in ticks
    MaxTime,        \* bound: ticks that pass
    Configured,     \* issuer, client id and redirect address are all set
    None            \* no cookie, no request

ASSUME SessionsAssumption ==
    /\ Configured \in BOOLEAN
    /\ PendingTTL \in Nat \ {0} /\ SessionTTL \in Nat \ {0} /\ MaxTime \in Nat
    /\ None \notin Browser \cup Login \cup Callback

VARIABLES
    now,            \* Date.now()
    pending,        \* pending[l]: expiresAt of the pending record of l, 0: none
    sessions,       \* sessions[c]: expiresAt of the session c created, 0: none
    discovered,     \* discoveryCache holds the document of the issuer
    login,          \* login[l]: how far login l has got
    starter,        \* starter[l]: the browser that sent it
    callback,       \* callback[c]: how far callback c has got
    state,          \* state[c]: its state parameter
    sender,         \* sender[c]: the browser that sent it
    logout,         \* logout[b]: how far a logout of b has got
    pcookie,        \* pcookie[b]: b's pending cookie, and when it lapses
    scookie         \* scookie[b]: b's session cookie, and when it lapses

stores  == <<pending, sessions>>
logins  == <<login, starter>>
calls   == <<callback, state, sender>>
cookies == <<pcookie, scookie>>
vars    == <<now, stores, discovered, logins, calls, logout, cookies>>

Horizon == MaxTime + PendingTTL + SessionTTL

Cookie(S) == [value : S \cup {None}, until : 0..Horizon]

TypeOK ==
    /\ now \in 0..MaxTime
    /\ pending \in [Login -> 0..MaxTime + PendingTTL]
    /\ sessions \in [Callback -> 0..MaxTime + SessionTTL]
    /\ login \in [Login -> {"none", "discovering", "redirecting", "away", "over"}]
    /\ starter \in [Login -> Browser \cup {None}]
    /\ callback \in [Callback -> {"none", "exchanging", "granting", "refusing", "over"}]
    /\ state \in [Callback -> Login \cup {None}]
    /\ sender \in [Callback -> Browser \cup {None}]
    /\ discovered \in BOOLEAN
    /\ logout \in [Browser -> {"none", "ending", "answering"}]
    /\ pcookie \in [Browser -> Cookie(Login)]
    /\ scookie \in [Browser -> Cookie(Callback)]

\* formatCookie: Set-Cookie with Max-Age, which counts from its arrival.
formatCookie(x, maxAge) == [value |-> x, until |-> now + maxAge]

\* Mutant: the session cookie gets the lifetime of the pending one.
formatSessionCookie_Short(c) == formatCookie(c, PendingTTL)

formatSessionCookie(c) == formatCookie(c, SessionTTL)

\* Mutant: the cookie lapses a tick before the record.
formatPendingCookie_Short(l) == formatCookie(l, PendingTTL - 1)

formatPendingCookie(l) == formatCookie(l, PendingTTL)

\* The Max-Age=0 form: the browser drops the cookie.
NoCookie == [value |-> None, until |-> 0]

\* parseCookieHeader: a browser sends the cookies that have not lapsed.
Sent(cookie) == IF cookie.until > now THEN cookie.value ELSE None
readSessionCookie(b) == Sent(scookie[b])
readPendingCookie(b) == Sent(pcookie[b])

Init ==
    /\ now = 0
    /\ pending = [l \in Login |-> 0]
    /\ sessions = [c \in Callback |-> 0]
    /\ login = [l \in Login |-> "none"]
    /\ starter = [l \in Login |-> None]
    /\ callback = [c \in Callback |-> "none"]
    /\ state = [c \in Callback |-> None]
    /\ sender = [c \in Callback |-> None]
    /\ discovered = FALSE
    /\ logout = [b \in Browser |-> "none"]
    /\ pcookie = [b \in Browser |-> NoCookie]
    /\ scookie = [b \in Browser |-> NoCookie]

-----------------------------------------------------------------------------
(* The stores.                                                             *)

createPendingAuth(l) == pending' = [pending EXCEPT ![l] = now + PendingTTL]

\* One use: the record goes whether or not it has expired.
consumePendingAuth(l) == pending' = [pending EXCEPT ![l] = 0]

\* Mutant: the lifetime is added twice.
createSession_Long(c) == sessions' = [sessions EXCEPT ![c] = now + SessionTTL + SessionTTL]

createSession(c) == sessions' = [sessions EXCEPT ![c] = now + SessionTTL]

\* Of None, or of an id that is gone, nothing is deleted.
deleteSession(c) == sessions' = [x \in Callback |-> IF x = c THEN 0 ELSE sessions[x]]

\* A record that has expired is dropped when it is looked up.
lookupSession(c) == IF sessions[c] <= now THEN deleteSession(c) ELSE UNCHANGED sessions

-----------------------------------------------------------------------------
(* GET /api/auth/login.  Without a configuration the answer is 503.        *)

\* routeLogin, and all of handleLogin if the discovery document is cached.
StartLogin(l, b) ==
    /\ login[l] = "none"
    /\ Configured
    /\ starter' = [starter EXCEPT ![l] = b]
    /\ login' = [login EXCEPT ![l] = IF discovered THEN "redirecting" ELSE "discovering"]
    /\ IF discovered THEN createPendingAuth(l) ELSE UNCHANGED pending
    /\ UNCHANGED <<now, sessions, discovered, calls, logout, cookies>>

\* getDiscovery on a miss: the document is cached, never again fetched.
Discovered == discovered' = TRUE

\* Discovery resolves: a pending record under a fresh state, and the redirect
\* is on its way.
CreatePending(l) ==
    /\ login[l] = "discovering"
    /\ Discovered
    /\ createPendingAuth(l)
    /\ login' = [login EXCEPT ![l] = "redirecting"]
    /\ UNCHANGED <<now, sessions, starter, calls, logout, cookies>>

\* Discovery rejects, as it does for a document without the endpoints that
\* are needed: login_failed.
LoginFails(l) ==
    /\ login[l] = "discovering"
    /\ login' = [login EXCEPT ![l] = "over"]
    /\ UNCHANGED <<now, stores, discovered, starter, calls, logout, cookies>>

\* The redirect reaches the browser, which keeps the pending cookie, one for
\* all its logins, and goes to the identity provider.
Redirected(l) ==
    /\ login[l] = "redirecting"
    /\ login' = [login EXCEPT ![l] = "away"]
    /\ pcookie' = [pcookie EXCEPT ![starter[l]] = formatPendingCookie(l)]
    /\ UNCHANGED <<now, stores, discovered, starter, calls, logout, scookie>>

-----------------------------------------------------------------------------
(* GET /api/auth/callback.                                                 *)

\* Mutant: no comparison with the cookie.
Matches_Unchecked(l, b) == TRUE

\* "CSRF check": the state cookie of the request is its state parameter.
Matches(l, b) == readPendingCookie(b) = l

\* Mutant: the pending record is looked up and stays.
Consume_Kept(l, b) == UNCHANGED pending

\* Only a request that has passed the check consumes the pending record.
Consume(l, b) == IF Matches(l, b) THEN consumePendingAuth(l) ELSE UNCHANGED pending

\* routeCallback, handleCallback up to its first await, for a state that the
\* identity provider has redirected to: by the browser that started the
\* login, by the same one again, or by another one the address was opened in.
\* An answer with an error or without a code changes nothing.
StartCallback(c, l, b) ==
    /\ callback[c] = "none"
    /\ login[l] = "away"
    /\ Configured
    /\ Consume(l, b)
    /\ callback' = [callback EXCEPT ![c] =
          IF Matches(l, b) /\ pending[l] > now THEN "exchanging" ELSE "refusing"]
    /\ state' = [state EXCEPT ![c] = l]
    /\ sender' = [sender EXCEPT ![c] = b]
    /\ UNCHANGED <<now, sessions, discovered, logins, logout, cookies>>

\* An access token, as far as verifyToken reads it.
Token == [genuine : BOOLEAN, claims : SUBSET {"user_id", "tenant_id"}]

\* The signature and the issuer are right and both claims are there.
verifyToken(token) == token.genuine /\ token.claims = {"user_id", "tenant_id"}

\* handleCallback: the code is exchanged for a token that is verified.
CreateSession(c, token) ==
    /\ callback[c] = "exchanging"
    /\ verifyToken(token)
    /\ callback' = [callback EXCEPT ![c] = "granting"]
    /\ createSession(c)
    /\ UNCHANGED <<now, pending, discovered, logins, state, sender, logout, cookies>>

Refuse(c) ==
    /\ callback[c] = "exchanging"
    /\ callback' = [callback EXCEPT ![c] = "refusing"]
    /\ UNCHANGED <<now, stores, discovered, logins, state, sender, logout, cookies>>

\* The token endpoint answers with an error or not at all.
ExchangeFails(c) == Refuse(c)

\* The verification throws.
RejectToken(c, token) == ~verifyToken(token) /\ Refuse(c)

\* The answer reaches the browser: the session cookie, and the pending cookie
\* is cleared for whatever login it is of.
Granted(c) ==
    /\ callback[c] = "granting"
    /\ callback' = [callback EXCEPT ![c] = "over"]
    /\ scookie' = [scookie EXCEPT ![sender[c]] = formatSessionCookie(c)]
    /\ pcookie' = [pcookie EXCEPT ![sender[c]] = NoCookie]
    /\ UNCHANGED <<now, stores, discovered, logins, state, sender, logout>>

\* callback_failed: "Clear pending cookie on any failure".
Refused(c) ==
    /\ callback[c] = "refusing"
    /\ callback' = [callback EXCEPT ![c] = "over"]
    /\ pcookie' = [pcookie EXCEPT ![sender[c]] = NoCookie]
    /\ UNCHANGED <<now, stores, discovered, logins, state, sender, logout, scookie>>

-----------------------------------------------------------------------------
(* GET /api/auth/me and POST /api/auth/logout.                             *)

Me(b) ==
    LET c == readSessionCookie(b)
    IN  /\ c # None
        /\ lookupSession(c)
        /\ UNCHANGED <<now, pending, discovered, logins, calls, logout, cookies>>

\* routeLogout up to its await, which there is only for a document that is
\* not cached.
StartLogout(b) ==
    /\ logout[b] = "none"
    /\ deleteSession(readSessionCookie(b))
    /\ logout' = [logout EXCEPT ![b] = IF Configured /\ ~discovered THEN "ending" ELSE "answering"]
    /\ UNCHANGED <<now, pending, discovered, logins, calls, cookies>>

\* buildEndSessionUrl returns or throws; either way the cookie is cleared.
EndSession(b) ==
    /\ logout[b] = "ending"
    /\ Discovered \/ UNCHANGED discovered
    /\ logout' = [logout EXCEPT ![b] = "answering"]
    /\ UNCHANGED <<now, stores, logins, calls, cookies>>

\* The answer clears the session cookie, whichever it is by now.
LoggedOut(b) ==
    /\ logout[b] = "answering"
    /\ logout' = [logout EXCEPT ![b] = "none"]
    /\ scookie' = [scookie EXCEPT ![b] = NoCookie]
    /\ UNCHANGED <<now, stores, discovered, logins, calls, pcookie>>

-----------------------------------------------------------------------------
(* The network, the process and the clock.                                 *)

\* A response that never reaches its browser.
ResponseLost ==
    \/ /\ \E l \in Login : login[l] = "redirecting" /\ login' = [login EXCEPT ![l] = "over"]
       /\ UNCHANGED <<now, stores, discovered, starter, calls, logout, cookies>>
    \/ /\ \E c \in Callback : /\ callback[c] \in {"granting", "refusing"}
                              /\ callback' = [callback EXCEPT ![c] = "over"]
       /\ UNCHANGED <<now, stores, discovered, logins, state, sender, logout, cookies>>
    \/ /\ \E b \in Browser : /\ logout[b] = "answering"
                             /\ logout' = [logout EXCEPT ![b] = "none"]
       /\ UNCHANGED <<now, stores, discovered, logins, calls, cookies>>

\* "restart loses sessions", the pending records, the discovery document and
\* every request that is waiting for the identity provider.
Restart ==
    /\ pending' = [l \in Login |-> 0]
    /\ sessions' = [c \in Callback |-> 0]
    /\ login' = [l \in Login |-> IF login[l] = "discovering" THEN "over" ELSE login[l]]
    /\ callback' = [c \in Callback |-> IF callback[c] = "exchanging" THEN "over" ELSE callback[c]]
    /\ logout' = [b \in Browser |-> IF logout[b] = "ending" THEN "none" ELSE logout[b]]
    /\ discovered' = FALSE
    /\ UNCHANGED <<now, starter, state, sender, cookies>>

Tick ==
    /\ now < MaxTime
    /\ now' = now + 1
    /\ UNCHANGED <<stores, discovered, logins, calls, logout, cookies>>

-----------------------------------------------------------------------------
\* A request of browser b, to one of the four routes with its method.
handleAuthRoute(b) ==
    \/ \E l \in Login : StartLogin(l, b) \/ \E c \in Callback : StartCallback(c, l, b)
    \/ Me(b) \/ StartLogout(b)

LoginStep(l) == CreatePending(l) \/ LoginFails(l) \/ Redirected(l)
CallbackStep(c) ==
    \/ \E token \in Token : CreateSession(c, token) \/ RejectToken(c, token)
    \/ ExchangeFails(c) \/ Granted(c) \/ Refused(c)
LogoutStep(b) == EndSession(b) \/ LoggedOut(b)

Next ==
    \/ \E b \in Browser : handleAuthRoute(b) \/ LogoutStep(b)
    \/ \E l \in Login : LoginStep(l)
    \/ \E c \in Callback : CallbackStep(c)
    \/ ResponseLost \/ Restart \/ Tick

Spec == Init /\ [][Next]_vars

-----------------------------------------------------------------------------
(* Properties.                                                             *)

\* consumePendingAuth: a state is good for one code exchange.  However often
\* the callback address is opened while an exchange is awaited, one login
\* makes at most one session.
UsesState(c) == callback[c] = "exchanging" \/ sessions[c] > 0
OneSessionPerLogin ==
    \A c, d \in Callback :
        UsesState(c) /\ UsesState(d) /\ state[c] = state[d] => c = d

\* A browser is only ever signed in by a login it has started itself.
SignedInByOwnLogin ==
    \A b \in Browser : scookie[b].value # None => starter[state[scookie[b].value]] = b

\* The two lifetimes agree: a browser keeps its cookie at least as long as
\* the session lives, however late the response arrived.
CookieOutlivesSession ==
    \A b \in Browser :
        LET c == scookie[b].value
        IN  c # None /\ sessions[c] > now => Sent(scookie[b]) = c

\* "matched against the per-redirect cookie": the check turns a browser away
\* from a login of its own that is still pending only if it took part in
\* another one as well, whose responses replace or clear the cookie.
TookPart(b, l) ==
    starter[l] = b \/ \E c \in Callback : sender[c] = b /\ state[c] = l
OnlyOverlapIsRefused ==
    [][\A c \in Callback :
          callback[c] = "none" /\ callback'[c] = "refusing" =>
              LET l == state'[c]
                  b == sender'[c]
              IN  starter[l] = b /\ pending[l] > now =>
                      \E other \in Login \ {l} : TookPart(b, other)]_vars
=============================================================================
