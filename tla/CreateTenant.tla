---------------------------- MODULE CreateTenant ----------------------------
(***************************************************************************)
(* tenants.create of the API (routers/tenants.ts, handlers/tenants.ts), in *)
(* front of the onboarding workflow that it starts.                        *)
(*                                                                         *)
(* Each Request asks to create the tenant of the same slug: an operator's  *)
(* retry, or a second tab.  The handler inserts into ctx.db, the database  *)
(* of the caller's active tenant, so the requests are those of callers     *)
(* with one active tenant: a slug is unique in one database only.  The id  *)
(* of the tenant is that of the inserted row, and Run the executions that  *)
(* OnboardTenant provides for it.                                          *)
(***************************************************************************)
EXTENDS OnboardTenant

CONSTANT Request

VARIABLES
    row,        \* the request that inserted the row of the slug, in a set
    request     \* request[q]: how far the request has got

createVars == <<vars, row, request>>

CreateTypeOK ==
    /\ row \in {{}} \cup {{q} : q \in Request}
    /\ request \in [Request -> {"none", "inserted", "started", "failed"}]

CreateInit ==
    /\ Init
    /\ row = {}
    /\ request = [q \in Request |-> "none"]

Becomes(q, from, to) == request[q] = from /\ request' = [request EXCEPT ![q] = to]

\* Mutant: nothing makes the slug unique.
create_Again(q) ==
    /\ row' = {q}
    /\ Becomes(q, "none", "inserted") \/ Becomes(q, "none", "failed")
    /\ UNCHANGED vars

\* tenants.create: the slug is UNIQUE.  A request that fails before its row is
\* there (at tenantProcedure, the input schema, canOnSystem, or the insert of a
\* slug that is taken) leaves no trace.  The answer of the insert may be lost,
\* and the handler then throws.
create(q) ==
    /\ row = {}
    /\ row' = {q}
    /\ Becomes(q, "none", "inserted") \/ Becomes(q, "none", "failed")
    /\ UNCHANGED vars

\* temporal.start, with the id of the row: whether its answer is lost or not,
\* the run is on its way.
startOnboarding(q) ==
    /\ Becomes(q, "inserted", "started")
    /\ \E r \in Run : Start(r)
    /\ UNCHANGED row

\* temporal.start throws, or the process dies before it.
CallFails(q) ==
    /\ Becomes(q, "inserted", "failed")
    /\ UNCHANGED <<vars, row>>

Create(q) == create(q) \/ startOnboarding(q) \/ CallFails(q)

CreateNext ==
    \/ \E q \in Request : Create(q)
    \/ (Services \/ \E r \in Run : RunStep(r)) /\ UNCHANGED <<row, request>>

CreateSpec == CreateInit /\ [][CreateNext]_createVars
FairCreateSpec == CreateSpec /\ Fairness

-----------------------------------------------------------------------------
\* A slug is onboarded at most once, however often its creation is asked for
\* and whichever answers are lost: only the request whose row is there starts
\* the workflow, and a run is always that of a row.
OnboardedOnce ==
    /\ \A q \in Request : request[q] \in {"inserted", "started"} => row = {q}
    /\ \A r \in Run : pc[r] # "none" => \E q \in Request : row = {q} /\ request[q] = "started"
=============================================================================
