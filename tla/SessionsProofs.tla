--------------------------- MODULE SessionsProofs ---------------------------
(***************************************************************************)
(* Proofs about Sessions, for any browsers, logins and callbacks, any      *)
(* lifetimes and any length of time.                                       *)
(***************************************************************************)
EXTENDS Sessions, TLAPS

-----------------------------------------------------------------------------
(* The inductive invariant.                                                *)

\* A login has a browser from its start, and a pending record at most from
\* the end of its discovery and for PendingTTL.
LoginInv ==
    \A l \in Login :
        /\ login[l] = "none" => starter[l] = None
        /\ login[l] # "none" => starter[l] \in Browser
        /\ pending[l] > 0 => login[l] \notin {"none", "discovering"}
        /\ pending[l] <= now + PendingTTL
        /\ pending[l] > 0 => discovered

\* A callback belongs to a login that has been redirected, and what it has
\* consumed is gone for good.
CallbackInv ==
    \A c \in Callback :
        /\ callback[c] = "none" => sessions[c] = 0 /\ sender[c] = None
        /\ callback[c] # "none" =>
              state[c] \in Login /\ sender[c] \in Browser /\ login[state[c]] = "away"
        /\ callback[c] \in {"exchanging", "granting"} \/ sessions[c] > 0 => pending[state[c]] = 0
        /\ callback[c] \in {"exchanging", "granting"} => starter[state[c]] = sender[c]
        /\ callback[c] = "exchanging" => discovered
        /\ sessions[c] <= now + SessionTTL

\* The cookies of a browser are of its own logins, and its session cookie
\* lapses no sooner than the session.
CookieInv ==
    \A b \in Browser :
        /\ pcookie[b].value # None =>
              login[pcookie[b].value] = "away" /\ starter[pcookie[b].value] = b
        /\ scookie[b].value # None =>
              /\ callback[scookie[b].value] = "over"
              /\ starter[state[scookie[b].value]] = b
              /\ sessions[scookie[b].value] <= scookie[b].until

\* Browser b takes part in login l and in no other.
Alone(b, l) == ~\E other \in Login \ {l} : TookPart(b, other)

\* A login whose browser has no other keeps its cookie while it is pending,
\* and no refusal is on its way to it.
AloneInv ==
    \A l \in Login : login[l] = "away" /\ pending[l] > now /\ Alone(starter[l], l) =>
        /\ pcookie[starter[l]].value = l
        /\ pcookie[starter[l]].until >= pending[l]
        /\ \A c \in Callback : callback[c] = "refusing" => sender[c] # starter[l]

IInv == TypeOK /\ LoginInv /\ CallbackInv /\ CookieInv /\ OneSessionPerLogin /\ AloneInv

-----------------------------------------------------------------------------
(* Lemmas.                                                                 *)

\* What Set-Cookie leaves in a browser is a cookie of the right kind.
LEMMA CookieTypes ==
    ASSUME TypeOK
    PROVE  /\ NoCookie \in Cookie(Login) /\ NoCookie \in Cookie(Callback)
           /\ \A l \in Login : formatPendingCookie(l) \in Cookie(Login)
           /\ \A c \in Callback : formatSessionCookie(c) \in Cookie(Callback)
  BY SessionsAssumption
     DEF TypeOK, NoCookie, formatPendingCookie, formatSessionCookie, formatCookie, Cookie, Horizon

LEMMA InitInv == Init => IInv
  <1> SUFFICES ASSUME Init PROVE IInv OBVIOUS
  <1>0. discovered \in BOOLEAN BY DEF Init
  <1>1. TypeOK BY <1>0, SessionsAssumption DEF Init, TypeOK, NoCookie, Cookie, Horizon
  <1>2. LoginInv /\ CallbackInv /\ CookieInv
        BY SessionsAssumption DEF Init, LoginInv, CallbackInv, CookieInv, NoCookie
  <1>3. OneSessionPerLogin /\ AloneInv
        BY SessionsAssumption DEF Init, OneSessionPerLogin, UsesState, AloneInv
  <1> QED BY <1>1, <1>2, <1>3 DEF IInv

LEMMA StepInv == IInv /\ [Next]_vars => IInv'
  <1> SUFFICES ASSUME IInv, [Next]_vars PROVE IInv' OBVIOUS
  <1>1. TypeOK /\ LoginInv /\ CallbackInv /\ CookieInv /\ OneSessionPerLogin /\ AloneInv
        BY DEF IInv
  <1> USE SessionsAssumption DEF stores, logins, calls, cookies
  <1>2. QED
  <2>1. ASSUME NEW l \in Login, NEW b \in Browser, StartLogin(l, b) PROVE IInv'
    <3>1. TypeOK' BY <1>1, <2>1 DEF TypeOK, StartLogin, createPendingAuth
    <3>2. LoginInv' BY <1>1, <2>1 DEF TypeOK, LoginInv, StartLogin, createPendingAuth
    <3>3. AloneInv'
          BY <1>1, <2>1 DEF TypeOK, AloneInv, LoginInv, CallbackInv, CookieInv, Alone,
             TookPart, StartLogin, createPendingAuth, Cookie
    <3>4. (CallbackInv /\ CookieInv /\ OneSessionPerLogin)'
          BY <1>1, <2>1 DEF TypeOK, CallbackInv, LoginInv, CookieInv, OneSessionPerLogin,
             UsesState, StartLogin, createPendingAuth, Cookie
    <3> QED BY <3>1, <3>2, <3>3, <3>4 DEF IInv
  <2>2. ASSUME NEW l \in Login, NEW b \in Browser, NEW c \in Callback, StartCallback(c, l, b)
        PROVE  IInv'
    <3>1. TypeOK' BY <1>1, <2>2 DEF TypeOK, StartCallback, Consume, consumePendingAuth
    <3>2. ASSUME NEW d \in Callback, d # c
          PROVE  /\ callback'[d] = callback[d] /\ state'[d] = state[d]
                 /\ sender'[d] = sender[d] /\ sessions'[d] = sessions[d]
                 /\ pending[state[d]] = 0 /\ state[d] \in Login => pending'[state[d]] = 0
          BY <1>1, <2>2, <3>2 DEF TypeOK, StartCallback, Consume, consumePendingAuth
    <3>3. /\ callback'[c] \in {"exchanging", "refusing"} /\ sessions'[c] = 0
          /\ state'[c] = l /\ sender'[c] = b /\ login[l] = "away"
          /\ callback'[c] = "exchanging" => pending'[l] = 0 /\ Matches(l, b) /\ discovered
          BY <1>1, <2>2 DEF TypeOK, LoginInv, CallbackInv, StartCallback, Consume, consumePendingAuth
    <3>4. Matches(l, b) => starter[l] = b
          BY <1>1 DEF TypeOK, CookieInv, Cookie, Matches, readPendingCookie, Sent
    <3>5. UNCHANGED <<now, login, starter, discovered>> BY <2>2 DEF StartCallback
    <3>6. CallbackInv'
          BY <1>1, <3>2, <3>3, <3>4, <3>5 DEF TypeOK, CallbackInv
    <3>7. OneSessionPerLogin'
          BY <1>1, <2>2 DEF TypeOK, OneSessionPerLogin, UsesState, CallbackInv,
             StartCallback, Consume, consumePendingAuth, Matches, readPendingCookie, Sent, Cookie
    <3>8. AloneInv'
          BY <1>1, <2>2 DEF TypeOK, AloneInv, LoginInv, CallbackInv, CookieInv, Alone,
             TookPart, StartCallback, Consume, consumePendingAuth, Matches, readPendingCookie, Sent, Cookie
    <3>9. (LoginInv /\ CookieInv)'
          BY <1>1, <2>2 DEF TypeOK, LoginInv, CookieInv, CallbackInv, StartCallback,
             Consume, consumePendingAuth, Matches, readPendingCookie, Sent, Cookie
    <3> QED BY <3>1, <3>6, <3>7, <3>8, <3>9 DEF IInv
  <2>3. ASSUME NEW l \in Login, CreatePending(l) PROVE IInv'
    <3>1. TypeOK' BY <1>1, <2>3 DEF TypeOK, CreatePending, createPendingAuth, Discovered
    <3>2. LoginInv' BY <1>1, <2>3 DEF TypeOK, LoginInv, CreatePending, createPendingAuth, Discovered
    <3>3. CallbackInv' BY <1>1, <2>3 DEF TypeOK, CallbackInv, LoginInv, CreatePending, createPendingAuth, Discovered
    <3>4. AloneInv'
          BY <1>1, <2>3 DEF TypeOK, AloneInv, LoginInv, CallbackInv, CookieInv, Alone,
             TookPart, CreatePending, createPendingAuth, Discovered, Cookie
    <3>5. (CookieInv /\ OneSessionPerLogin)'
          BY <1>1, <2>3 DEF TypeOK, CookieInv, LoginInv, CallbackInv, OneSessionPerLogin,
             UsesState, CreatePending, createPendingAuth, Discovered, Cookie
    <3> QED BY <3>1, <3>2, <3>3, <3>4, <3>5 DEF IInv
  <2>4. ASSUME NEW l \in Login, LoginFails(l) PROVE IInv'
    <3>1. TypeOK' BY <1>1, <2>4 DEF TypeOK, LoginFails
    <3>2. LoginInv' BY <1>1, <2>4 DEF TypeOK, LoginInv, LoginFails
    <3>3. (CallbackInv /\ CookieInv /\ OneSessionPerLogin /\ AloneInv)'
          BY <1>1, <2>4 DEF TypeOK, CallbackInv, LoginInv, CookieInv, OneSessionPerLogin,
             UsesState, AloneInv, Alone, TookPart, LoginFails, Cookie
    <3> QED BY <3>1, <3>2, <3>3 DEF IInv
  <2>5. ASSUME NEW l \in Login, Redirected(l) PROVE IInv'
    <3>1. TypeOK' BY <1>1, <2>5, CookieTypes DEF TypeOK, Redirected, LoginInv
    <3>2. LoginInv' BY <1>1, <2>5 DEF TypeOK, LoginInv, Redirected
    <3>3. CookieInv'
          BY <1>1, <2>5 DEF TypeOK, CookieInv, LoginInv, CallbackInv, Redirected,
             formatPendingCookie, formatCookie, Cookie
    <3>4. ASSUME NEW k \in Login, (login[k] = "away")', (pending[k] > now)',
                 Alone(starter[k], k)'
          PROVE  /\ pcookie'[starter[k]].value = k
                 /\ pcookie'[starter[k]].until >= pending[k]
                 /\ \A c \in Callback : callback[c] = "refusing" => sender[c] # starter[k]
      <4>1. starter[k] \in Browser /\ starter[l] \in Browser
            BY <1>1, <2>5, <3>4 DEF LoginInv, Redirected
      <4>2. \A m \in Login \ {k} : ~TookPart(starter[k], m)
            BY <2>5, <3>4 DEF Alone, TookPart, Redirected
      <4>3. CASE k = l
        <5>1. pcookie'[starter[l]] = [value |-> l, until |-> now + PendingTTL]
              BY <1>1, <2>5, <4>1 DEF TypeOK, Redirected, formatPendingCookie, formatCookie
        <5>2. pending[l] <= now + PendingTTL BY <1>1 DEF LoginInv
        <5>3. \A c \in Callback : callback[c] = "refusing" => sender[c] # starter[k]
              BY <1>1, <2>5, <4>2, <4>3 DEF CallbackInv, TookPart, Redirected
        <5> QED BY <1>1, <4>3, <5>1, <5>2, <5>3 DEF TypeOK
      <4>4. CASE k # l
        <5>1. starter[k] # starter[l] BY <4>2, <4>4 DEF TookPart
        <5>2. pcookie'[starter[k]] = pcookie[starter[k]]
              BY <1>1, <2>5, <4>1, <5>1 DEF TypeOK, Redirected
        <5>3. login[k] = "away" /\ pending[k] > now
              BY <1>1, <2>5, <3>4, <4>4 DEF TypeOK, Redirected
        <5> QED BY <1>1, <4>2, <5>2, <5>3 DEF AloneInv, Alone
      <4> QED BY <4>3, <4>4
    <3>5. AloneInv'
          BY <2>5, <3>4 DEF AloneInv, Redirected
    <3>6. (CallbackInv /\ OneSessionPerLogin)'
          BY <1>1, <2>5 DEF TypeOK, CallbackInv, LoginInv, OneSessionPerLogin, UsesState,
             Redirected, formatPendingCookie, formatCookie
    <3> QED BY <3>1, <3>2, <3>3, <3>5, <3>6 DEF IInv
  <2>6. ASSUME NEW c \in Callback, NEW token \in Token, CreateSession(c, token) PROVE IInv'
    <3>1. TypeOK' BY <1>1, <2>6 DEF TypeOK, CreateSession, createSession
    <3>2. CallbackInv' BY <1>1, <2>6 DEF TypeOK, CallbackInv, LoginInv, CreateSession, createSession
    <3>3. CookieInv'
          BY <1>1, <2>6 DEF TypeOK, CookieInv, LoginInv, CallbackInv, CreateSession, createSession,
             Cookie
    <3>4. OneSessionPerLogin'
          BY <1>1, <2>6 DEF TypeOK, OneSessionPerLogin, UsesState, CallbackInv,
             CreateSession, createSession
    <3>5. (LoginInv /\ AloneInv)'
          BY <1>1, <2>6 DEF TypeOK, LoginInv, AloneInv, CallbackInv, CookieInv, Alone,
             TookPart, CreateSession, createSession, Cookie
    <3> QED BY <3>1, <3>2, <3>3, <3>4, <3>5 DEF IInv
  <2>7. ASSUME NEW c \in Callback, Refuse(c) PROVE IInv'
    <3>1. TypeOK' BY <1>1, <2>7 DEF TypeOK, Refuse
    <3>2. CallbackInv' BY <1>1, <2>7 DEF TypeOK, CallbackInv, LoginInv, Refuse
    <3>3. OneSessionPerLogin'
          BY <1>1, <2>7 DEF TypeOK, OneSessionPerLogin, UsesState, CallbackInv,
             Refuse
    <3>4. AloneInv'
          BY <1>1, <2>7 DEF TypeOK, AloneInv, LoginInv, CallbackInv, CookieInv, Alone,
             TookPart, Refuse, Cookie
    <3>5. (LoginInv /\ CookieInv)'
          BY <1>1, <2>7 DEF TypeOK, LoginInv, CookieInv, CallbackInv, Refuse,
             Cookie
    <3> QED BY <3>1, <3>2, <3>3, <3>4, <3>5 DEF IInv
  <2>8. ASSUME NEW c \in Callback, Granted(c) PROVE IInv'
    <3>1. TypeOK' BY <1>1, <2>8, CookieTypes DEF TypeOK, Granted, CallbackInv
    <3>2. CallbackInv' BY <1>1, <2>8 DEF TypeOK, CallbackInv, LoginInv, Granted
    <3>3. CookieInv'
          BY <1>1, <2>8 DEF TypeOK, CookieInv, LoginInv, CallbackInv, Granted, formatSessionCookie, formatCookie,
             NoCookie, Cookie
    <3>4. AloneInv'
          BY <1>1, <2>8 DEF TypeOK, AloneInv, LoginInv, CallbackInv, CookieInv, Alone,
             TookPart, Granted, formatSessionCookie, formatCookie, NoCookie, Cookie
    <3>5. (LoginInv /\ OneSessionPerLogin)'
          BY <1>1, <2>8 DEF TypeOK, LoginInv, OneSessionPerLogin, UsesState, CallbackInv,
             Granted, formatSessionCookie, formatCookie, NoCookie
    <3> QED BY <3>1, <3>2, <3>3, <3>4, <3>5 DEF IInv
  <2>9. ASSUME NEW c \in Callback, Refused(c) PROVE IInv'
    <3>1. TypeOK' BY <1>1, <2>9, CookieTypes DEF TypeOK, Refused, CallbackInv
    <3>2. CallbackInv' BY <1>1, <2>9 DEF TypeOK, CallbackInv, LoginInv, Refused
    <3>3. CookieInv'
          BY <1>1, <2>9 DEF TypeOK, CookieInv, LoginInv, CallbackInv, Refused, NoCookie,
             Cookie
    <3>4. AloneInv'
          BY <1>1, <2>9 DEF TypeOK, AloneInv, LoginInv, CallbackInv, CookieInv, Alone,
             TookPart, Refused, NoCookie, Cookie
    <3>5. (LoginInv /\ OneSessionPerLogin)'
          BY <1>1, <2>9 DEF TypeOK, LoginInv, OneSessionPerLogin, UsesState, CallbackInv,
             Refused, NoCookie
    <3> QED BY <3>1, <3>2, <3>3, <3>4, <3>5 DEF IInv
  <2>10. ASSUME NEW b \in Browser, Me(b) PROVE IInv'
    <3>1. TypeOK' BY <1>1, <2>10 DEF TypeOK, Me, lookupSession, deleteSession, readSessionCookie, Sent, Cookie
    <3>2. CallbackInv' BY <1>1, <2>10 DEF TypeOK, CallbackInv, LoginInv, Me, lookupSession, deleteSession, readSessionCookie, Sent
    <3>3. CookieInv' BY <1>1, <2>10 DEF TypeOK, CookieInv, LoginInv, CallbackInv, Me, lookupSession, deleteSession, readSessionCookie, Cookie, Sent
    <3>4. (LoginInv /\ OneSessionPerLogin /\ AloneInv)'
          BY <1>1, <2>10 DEF TypeOK, LoginInv, OneSessionPerLogin, UsesState, CallbackInv,
             AloneInv, CookieInv, Alone, TookPart, Me, lookupSession, deleteSession, readSessionCookie, Sent, Cookie
    <3> QED BY <3>1, <3>2, <3>3, <3>4 DEF IInv
  <2>11. ASSUME NEW b \in Browser, StartLogout(b) PROVE IInv'
    <3>1. TypeOK' BY <1>1, <2>11 DEF TypeOK, StartLogout, deleteSession, readSessionCookie
    <3>2. CallbackInv' BY <1>1, <2>11 DEF TypeOK, CallbackInv, LoginInv, StartLogout, deleteSession, readSessionCookie, Sent
    <3>3. CookieInv'
          BY <1>1, <2>11 DEF TypeOK, CookieInv, LoginInv, CallbackInv, StartLogout, deleteSession, readSessionCookie,
             Cookie, Sent
    <3>4. (LoginInv /\ OneSessionPerLogin /\ AloneInv)'
          BY <1>1, <2>11 DEF TypeOK, LoginInv, OneSessionPerLogin, UsesState, CallbackInv,
             AloneInv, CookieInv, Alone, TookPart, StartLogout, deleteSession, readSessionCookie, Sent, Cookie
    <3> QED BY <3>1, <3>2, <3>3, <3>4 DEF IInv
  <2>12. ASSUME NEW b \in Browser, LoggedOut(b) PROVE IInv'
    <3>1. TypeOK' BY <1>1, <2>12, CookieTypes DEF TypeOK, LoggedOut
    <3>2. CookieInv'
          BY <1>1, <2>12 DEF TypeOK, CookieInv, LoginInv, CallbackInv, LoggedOut,
             NoCookie, Cookie
    <3>3. (LoginInv /\ CallbackInv /\ OneSessionPerLogin /\ AloneInv)'
          BY <1>1, <2>12 DEF TypeOK, LoginInv, CallbackInv, OneSessionPerLogin, UsesState,
             AloneInv, CookieInv, Alone, TookPart, LoggedOut, NoCookie, Cookie
    <3> QED BY <3>1, <3>2, <3>3 DEF IInv
  <2>17. ASSUME NEW b \in Browser, EndSession(b) PROVE IInv'
    <3>1. TypeOK' BY <1>1, <2>17 DEF TypeOK, EndSession, Discovered
    <3>2. (LoginInv /\ CallbackInv /\ CookieInv)'
          BY <1>1, <2>17 DEF LoginInv, CallbackInv, CookieInv, EndSession, Discovered
    <3>3. (OneSessionPerLogin /\ AloneInv)'
          BY <1>1, <2>17 DEF OneSessionPerLogin, UsesState, AloneInv, Alone, TookPart,
             EndSession
    <3> QED BY <3>1, <3>2, <3>3 DEF IInv
  <2>13. CASE ResponseLost
    <3>1. TypeOK' BY <1>1, <2>13 DEF TypeOK, ResponseLost
    <3>2. LoginInv' BY <1>1, <2>13 DEF TypeOK, LoginInv, ResponseLost
    <3>3. CallbackInv' BY <1>1, <2>13 DEF TypeOK, CallbackInv, LoginInv, ResponseLost
    <3>4. (CookieInv /\ OneSessionPerLogin /\ AloneInv)'
          BY <1>1, <2>13 DEF TypeOK, CookieInv, LoginInv, CallbackInv, OneSessionPerLogin,
             UsesState, AloneInv, Alone, TookPart, ResponseLost, Cookie
    <3> QED BY <3>1, <3>2, <3>3, <3>4 DEF IInv
  <2>14. CASE Restart
    <3>0. discovered' \in BOOLEAN BY <2>14 DEF Restart
    <3>1. TypeOK' BY <1>1, <2>14, <3>0 DEF TypeOK, Restart
    <3>2. LoginInv' BY <1>1, <2>14 DEF TypeOK, LoginInv, Restart
    <3>3. CallbackInv' BY <1>1, <2>14 DEF TypeOK, CallbackInv, LoginInv, Restart
    <3>4. (CookieInv /\ OneSessionPerLogin /\ AloneInv)'
          BY <1>1, <2>14 DEF TypeOK, CookieInv, LoginInv, CallbackInv, OneSessionPerLogin,
             UsesState, AloneInv, Alone, TookPart, Restart, Cookie
    <3> QED BY <3>1, <3>2, <3>3, <3>4 DEF IInv
  <2>15. CASE Tick
    <3>1. TypeOK' BY <1>1, <2>15 DEF TypeOK, Tick
    <3>2. LoginInv' BY <1>1, <2>15 DEF TypeOK, LoginInv, Tick
    <3>3. CallbackInv' BY <1>1, <2>15 DEF TypeOK, CallbackInv, LoginInv, Tick
    <3>4. AloneInv'
          BY <1>1, <2>15 DEF TypeOK, AloneInv, LoginInv, CallbackInv, CookieInv, Alone,
             TookPart, Tick, Cookie
    <3>5. (CookieInv /\ OneSessionPerLogin)'
          BY <1>1, <2>15 DEF TypeOK, CookieInv, LoginInv, CallbackInv, OneSessionPerLogin,
             UsesState, Tick, Cookie
    <3> QED BY <3>1, <3>2, <3>3, <3>4, <3>5 DEF IInv
  <2>16. CASE UNCHANGED vars
    BY <1>1, <2>16 DEF IInv, TypeOK, LoginInv, CallbackInv, CookieInv, OneSessionPerLogin,
       UsesState, AloneInv, Alone, TookPart, vars
  <2> QED BY <2>1, <2>2, <2>3, <2>4, <2>5, <2>6, <2>7, <2>8, <2>9, <2>10, <2>11,
              <2>12, <2>13, <2>14, <2>15, <2>16, <2>17
           DEF Next, handleAuthRoute, LoginStep, CallbackStep, LogoutStep, ExchangeFails, RejectToken

THEOREM Invariance == Spec => []IInv
  <1> QED BY InitInv, StepInv, PTL DEF Spec

-----------------------------------------------------------------------------
(* Theorems.                                                               *)

\* The type invariant, for any browsers, logins, callbacks, lifetimes and
\* length of time.
THEOREM TypeCorrect == Spec => []TypeOK
  <1>1. IInv => TypeOK BY DEF IInv
  <1> QED BY <1>1, Invariance, PTL

\* handleCallback and consumePendingAuth: one login makes at most one session,
\* however often its callback address is opened, in whichever browsers.
THEOREM OneSession == Spec => []OneSessionPerLogin
  <1>1. IInv => OneSessionPerLogin BY DEF IInv
  <1> QED BY <1>1, Invariance, PTL

\* handleCallback's comparison with the cookie: the session of a browser is
\* of a login it has started.
THEOREM OwnLogin == Spec => []SignedInByOwnLogin
  <1>1. IInv => SignedInByOwnLogin BY DEF IInv, CookieInv, SignedInByOwnLogin
  <1> QED BY <1>1, Invariance, PTL

\* formatSessionCookie and createSession: the cookie of a session that lives
\* has not lapsed.
THEOREM CookieOutlives == Spec => []CookieOutlivesSession
  <1>1. ASSUME IInv, NEW b \in Browser, scookie[b].value # None,
               sessions[scookie[b].value] > now
        PROVE  Sent(scookie[b]) = scookie[b].value
        BY <1>1, SessionsAssumption DEF IInv, TypeOK, Cookie, Horizon, CookieInv, Sent
  <1>2. IInv => CookieOutlivesSession BY <1>1 DEF CookieOutlivesSession
  <1> QED BY <1>2, Invariance, PTL

\* getDiscovery in handleCallback: the document is always cached by then,
\* since a restart that empties the cache takes the pending records with it.
\* So the model lets a callback await the token endpoint only.
DiscoveryIsCached == \A c \in Callback : callback[c] = "exchanging" => discovered

THEOREM CallbackFindsDocument == Spec => []DiscoveryIsCached
  <1>1. IInv => DiscoveryIsCached BY DEF IInv, CallbackInv, DiscoveryIsCached
  <1> QED BY <1>1, Invariance, PTL

\* handleCallback: a browser with one login only is never refused while that
\* login is pending; what refuses it is another login of its own.
THEOREM OverlapOnly == Spec => OnlyOverlapIsRefused
  <1>1. ASSUME IInv, NEW l \in Login, NEW b \in Browser, NEW c \in Callback,
               StartCallback(c, l, b), callback'[c] = "refusing",
               starter[l] = b, pending[l] > now
        PROVE  \E other \in Login \ {l} : TookPart(b, other)
    <2>1. ~Matches(l, b) BY <1>1 DEF IInv, TypeOK, StartCallback
    <2>2. SUFFICES ASSUME Alone(b, l) PROVE FALSE BY DEF Alone
    <2>3. pcookie[b].value = l /\ pcookie[b].until >= pending[l]
          BY <1>1, <2>2 DEF IInv, AloneInv, StartCallback
    <2> QED BY <1>1, <2>1, <2>3, SessionsAssumption
            DEF IInv, TypeOK, Cookie, Horizon, Matches, readPendingCookie, Sent
  <1>2. ASSUME IInv, [Next]_vars, NEW c \in Callback,
               callback[c] = "none", callback'[c] = "refusing"
        PROVE  \E l \in Login, b \in Browser :
                  StartCallback(c, l, b) /\ state'[c] = l /\ sender'[c] = b
    <2>1. PICK l \in Login, b \in Browser : StartCallback(c, l, b)
          BY <1>2 DEF IInv, TypeOK, Next, handleAuthRoute, LoginStep, CallbackStep, LogoutStep,
             RejectToken, EndSession, StartLogin, createPendingAuth, StartCallback,
             CreatePending, createPendingAuth, Discovered, LoginFails, Redirected, CreateSession, createSession, ExchangeFails, Refuse, Granted,
             Refused, Me, lookupSession, deleteSession, readSessionCookie, StartLogout, deleteSession, readSessionCookie, LoggedOut, ResponseLost, Restart, Tick, vars, calls
    <2> QED BY <1>2, <2>1 DEF IInv, TypeOK, StartCallback
  <1> DEFINE OnlyOverlap ==
        \A c \in Callback :
          callback[c] = "none" /\ callback'[c] = "refusing" =>
              LET l == state'[c]
                  b == sender'[c]
              IN  starter[l] = b /\ pending[l] > now =>
                      \E other \in Login \ {l} : TookPart(b, other)
  <1>3. IInv /\ [Next]_vars => [OnlyOverlap]_vars
    <2> SUFFICES ASSUME IInv, [Next]_vars, NEW c \in Callback,
                        callback[c] = "none", callback'[c] = "refusing",
                        starter[state'[c]] = sender'[c], pending[state'[c]] > now
                 PROVE  \E other \in Login \ {state'[c]} : TookPart(sender'[c], other)
        OBVIOUS
    <2> QED BY <1>1, <1>2
  <1> QED BY <1>3, Invariance, PTL DEF Spec, OnlyOverlapIsRefused
=============================================================================
