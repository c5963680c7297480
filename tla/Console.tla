------------------------------ MODULE Console -------------------------------
(***************************************************************************)
(* The operator console as one program: the single-page application of     *)
(* frontend/ shows one page at a time (routes/index.tsx), AppShell hides a *)
(* page until AuthProvider knows the user (lib/auth.tsx), and a page's     *)
(* stream is opened when it mounts and closed when it is left.  The pages  *)
(* are those that hold a stream; "other" stands for the rest.              *)
(***************************************************************************)
EXTENDS Principals, AuditTrail

VARIABLES view,           \* the page mounted
          auth            \* AuthProvider: loading, answered, or gone to the login

consoleVars == <<principalsVars, auditVars, streamVars, view, auth>>

View == {"principals", "workflows", "audit", "other"}
Auth == {"loading", "answered", "login"}

\* The stream a page opens in onMount.  Workflows needs the user's tenant and
\* does not come back to it: mounted before /me is answered, or after it failed,
\* it has none.
StreamsOf(v, a) ==
    CASE v = "principals" -> {"tenant"}
      [] v = "audit"      -> {"audit"}
      [] v = "workflows" /\ a = "answered" -> {"workflow", "none"}
      [] OTHER -> {"none"}

\* The document is loaded at v: its state, with nothing left of another one.
ConsoleInit ==
    /\ StreamsInit /\ PrincipalsInit /\ AuditInit
    /\ view = "other" /\ auth = "loading"

\* A page is mounted: its state is new and so is its stream.
Mount(v, a) ==
    /\ view' = v /\ auth' = a
    /\ RemountPrincipals /\ RemountAudit
    /\ v = "audit" => late' = 0       \* bound: Audit has nothing to do with groups
    /\ \E k \in StreamsOf(v, a) : Resubscribe(k)
    /\ UNCHANGED nats

\* What the operator does needs the shell.
ShellShown == auth = "answered"

\* Navigation, in the shell that is shown once /me is answered.
Navigate(v) == ShellShown /\ v # view /\ Mount(v, auth)

\* The address is opened or reloaded, or the login brought the browser back.
LoadDocument(v) == Mount(v, "loading")

\* GET /api/auth/me: a user, or an error that leaves none.
Me == /\ auth = "loading"
      /\ auth' = "answered"
      /\ UNCHANGED <<principalsVars, auditVars, streamVars, view>>

\* 401: the document goes to the login, and everything in it is left.
MeUnauthorized ==
    /\ auth = "loading"
    /\ Mount("other", "login")

PrincipalsPage ==
    /\ view = "principals"
    /\ \/ ShellShown /\ PrincipalsInput
       \/ PrincipalsAnswers
       \/ Delivers("tenant") /\ TenantEvent
    /\ UNCHANGED <<auditVars, streamVars, view, auth>>

AuditPage ==
    /\ view = "audit"
    /\ (ShellShown /\ AuditInput /\ UNCHANGED streamVars) \/ AuditAnswers
    /\ UNCHANGED <<principalsVars, view, auth>>

Streams ==
    /\ NatsSettles \/ \E s \in STREAMS : StreamStep(s)
    /\ UNCHANGED <<principalsVars, auditVars, view, auth>>

ConsoleNext ==
    \/ \E v \in View : Navigate(v) \/ LoadDocument(v)
    \/ Me \/ MeUnauthorized
    \/ PrincipalsPage \/ AuditPage \/ Streams
    \/ LateGroupWrite /\ UNCHANGED <<auditVars, streamVars, view, auth>>

\* Requests to SpiceDB are answered and connecting to NATS ends one way or the
\* other; nothing is assumed of the operator, of calls or of events.
ConsoleFairness ==
    /\ WF_consoleVars(NatsSettles /\ UNCHANGED <<principalsVars, auditVars, view, auth>>)
    /\ \A s \in STREAMS :
          WF_consoleVars(StreamStep(s) /\ UNCHANGED <<principalsVars, auditVars, view, auth>>)

ConsoleSpec == ConsoleInit /\ [][ConsoleNext]_consoleVars /\ ConsoleFairness

ConsoleTypeOK ==
    /\ PrincipalsTypeOK /\ StreamsTypeOK /\ AuditTypeOK
    /\ view \in View /\ auth \in Auth
=============================================================================
