# monok8s: specifications, model checking and proofs

This directory holds the formal models of monok8s, a multi-tenant control plane
for Kubernetes: a TypeScript API (tRPC over HTTP and WebSocket), Go workers that
run Temporal workflows, SpiceDB for permissions, a Postgres database per tenant,
Crossplane and Argo for provisioning, NATS for events and Zitadel for identity.
The models are written from the code under `src/`; comments and docs are used
only as statements of intent to check the code against.

Contents: [inventory](#inventory), [modules](#modules-and-how-they-match-the-code),
[runs](#runs), [fairness](#fairness), [what was found](#what-the-runs-found),
[proofs](#proofs), [only model-checked](#only-model-checked),
[not modelled](#not-modelled), [plan](#plan).

To check everything: `tlc -config X.cfg M` for each row of the run table,
`tlapm M.tla` for each `*Proofs` module.

## Inventory

How the parts talk to each other:

```
 browser ── apps/api ── SpiceDB (permission checks, relations)
   │          │  │ └─── per-tenant Postgres, through packages/db/src/pool.ts
   │          │  └───── NATS (event subscriptions, audit envelopes)
   │          └──────── Temporal: start and signal workflows
   │                       │
 Zitadel              apps/workers/* ── SpiceDB, Kubernetes API (Crossplane XRs,
 (OIDC)                    │            Argo Workflows), Vault, cloud APIs
                      NATS callbacks and tenant events
```

| Part | State it keeps | Operations | What is hard |
|---|---|---|---|
| Pool factory, `packages/db/src/pool.ts` | LRU `cache`, `inflight` promises, idle timers | `poolForTenant`, idle eviction, LRU eviction | size checked before an `await` and used after it; `end()` outlives the cache entry; timers of entries that are gone |
| Member governance, `handlers/principals.ts`, the role and suspension workflows | SpiceDB relations of the tenant | assign, unassign, change role; add and remove group member; suspend, reinstate | guards read SpiceDB in the API, the write happens later in a worker; activity retries after a lost answer |
| Tenant onboarding, `workers/onboarding/workflow.go` and its activities | XRs, Vault key, schema, tenant events; the workflow's `completed` list | five forward steps, reverse cleanup, status events | cancellation and timeout in any step, abandoned attempts, stale and lost Argo callbacks, NATS outages, activities that can only fail |
| Bootstrap Job, `workers/bootstrap` | XTenant, Zitadel admin, system relation | five idempotent steps | pod restarts between any two steps while the workflow it started goes on |
| Heartbeat monitor, `workflow_installation.go` | local `status`, timer, blocked receivers, buffered signals | heartbeat, escalate, alert, revoke | receivers of earlier iterations are never stopped and take later signals |
| Temporary grants, `workflow_grant.go`, `handlers/grants.ts` | grant row, role relation | create, expire, revoke | timer against signal; a role held twice |
| Access review, `workers/access-review` | decisions, reminders, deadline | review, revoke | signals with unknown ids; failed revocation recorded as done |
| IAM write-back, `workers/iam-writeback` | relations mirrored from three clouds | one workflow per event | duplicates and reordering |
| Usage metering, `workers/billing` | pending and submitted usage rows | collect, submit per cloud | a batch that stops half way, retries, idempotency keys |
| Login sessions, `handlers/sessions.ts`, `handlers/auth.ts` | `pending` and `sessions` maps | login, callback, lookup, logout, expiry | one-time states, two logins in one browser, restart of the process |
| Authorization, `auth/schema.zed`, `packages/auth/src/spicedb.ts` | the relationships of all tenants | writers of the library, checks, lookups | nested groups, expiring grants, exclusions, relations shared by tenants |
| Procedures, `packages/auth/src/middleware.ts`, the routers | none | token, second factor, permission per procedure | the gate, the lists and the input schemas are three readings of one authorization schema |
| Rows, `packages/db/src/index.ts` | tables of groups and temporary grants | create, update, delete, update the reason, revoke | the tenant is compared in one query and the write made by id in the next |
| Event subscriptions, `handlers/events.ts`, `nats.ts` | NATS connection, subscriptions | subscribe, unsubscribe | the client leaves during an `await`; a rejected connection is cached |
| Audit trail, `middleware.ts`, `handlers/audit.ts`, `routes/Audit.tsx` | audit rows, audit subject, the history on the screen | one row and envelope per mutation; page, filter | insert succeeds, publish fails; pages, filters and new rows race |
| Operator console, `frontend/src` | resources, selections, pending flags, one stream per page | select, mutate, navigate | late answers, superseded refetches, live events between a write and its refetch |
| Tenant creation, `handlers/tenants.ts` | tenant row | insert, then start onboarding | start fails after the insert |
| User registration and erasure, `workflow_user.go` | user row, SpiceDB, Zitadel | register, erase | erasure racing registration |
| Installations, security findings, marketplace, CLI, telemetry gateway, manifests | | | see [not modelled](#not-modelled) |

What makes each of them correct:

- Pool factory: no request ever holds another tenant's pool, the cache stays
  within its size, a pool that left the cache is ended, a pool that is cached is
  open, every call settles.
- Member governance: the tenant keeps an owner who is not suspended, only owners
  (or platform admins) act against owners, only users own, a change of role never
  leaves a principal without one.
- Onboarding: success means a whole tenant, failure means that the deletion of the
  completed steps is asked for in reverse before anybody hears of it, and it ends.
- Bootstrap: repeated and interrupted Jobs converge to one admin, one relation
  and a provisioned system tenant.
- Heartbeat monitor: alerts only after real silence; a revocation stops it.
- Sessions: a state is used once, by the browser that started it; a session is
  found as long as it lives, and a login is not refused for no reason.
- Grants, review, write-back: a role goes when its last reason goes, and not
  before.
- Metering: every pending row is submitted once.
- Authorization: what is written is what the schema allows, whoever is suspended
  or denied may do nothing, what is written of one tenant changes nothing of
  another; the gate, the lists and the input schemas agree with it.
- Rows: nobody changes a row of another tenant, and no group hangs below one that
  was deleted.
- Subscriptions: no subscription outlives its client.
- Audit history: paging and filtering leave out no row.
- Console: what is listed belongs to what is selected, and what the operator
  wrote on this visit to a page is visible when it is done.
- Tenant creation: a slug is onboarded at most once.

`PROJECT.json` lists every component with its status and every hazard with its
line; the properties below are named after what they exclude.

## Modules and how they match the code

### TenantPool

`packages/db/src/pool.ts`. Node interrupts nothing between two `await`s, so an
action is the code from one `await` to the next.

| Variable | Code |
|---|---|
| `cache` (a sequence, oldest first) | the `Map` and its insertion order |
| `inflight` | `Map<tenantId, Promise>` |
| `load`, `owner`, `victim` | a running `load()`: its phase, tenant, and the pool whose `end()` it awaits |
| `conn` | the `pg.Pool`: open, ending, ended, or given up when `end()` rejected |
| `timer`, `idleTimer` | pending timeouts and the field of a cache entry |
| `call`, `tenantOf`, `promise` | the caller in `tenantProcedure` (`middleware.ts`) with `ctx.db` |

`CallHit`, `CallJoin` and `CallLoad` are the three ways through
`poolForTenant`; `FetchResolves`, `FetchRejects`, `EvictOldest`,
`EvictReturns` and `Install` the stretches of a load between its awaits;
`IdleTimeout` the timer. `Drain`, `EndRejects` and the query actions are
`pg.Pool` and the handlers, external. Time is not counted: a pending timer may
fire at any moment, which includes every value of `idleTimeoutMs`.

### TenantMembers, TenantRelations (MCTenantMembers)

`routers/principals.ts`, `handlers/principals.ts`, the workflows and activities
in `workers/onboarding` that carry out each mutation, and the `tenant` and
`group` definitions of `auth/schema.zed`. A `Call` is one request from its
permission gate to the end of its workflow and is then free for the next. The
routers are the actions `users`, `groups` and `roles`, each with the input schema
of its mutations; `tenantProcedure` admits a request or the gate refuses it. Each
SpiceDB read of the guards (`CheckTarget`, `CheckActor`, `LookupOwners`, and one
`ReadFlag` per owner, as the code checks them in parallel), `StartWorkflow` and
every `Attempt` of the activity are separate steps, and any of them may throw
(`CallFails`). An attempt that has written may be repeated when its answer is
lost, and one that SpiceDB refuses (`Refused`: a change of role that takes the
ownership from a service account) is retried without end. `role`, `members` and
`suspended` are the SpiceDB relations. SpiceDB's
reads see what is written; a stale snapshot (`minimize_latency`) would only add
the behaviours that two overlapping requests already have.

TenantRelations writes the same relations down as Relationships keeps them
(`Stored`), and says with `ViewsAgree` that SpiceDB's schema allows them and that
the gate and the guards of this module see what Procedures and Relationships
compute from the whole schema. `SchemasAgree` is the same between requests, which
is where TLC evaluates it. MCTenantMembers defines the initial relations of the
runs.

Creation and deletion of groups are in TenantRows. Left out: creation of service
accounts, which no router offers, and the plain reads.

### Relationships and Procedures

Two libraries of operators over one store of relationships, for all tenants,
users, groups, service accounts and installations at once.

Relationships is `auth/schema.zed` and `packages/auth/src/spicedb.ts`.
`Allowed(r)` is the schema's list of relations with their subject types and
caveats; a writer (`writeMemberJoined`, ..., `writeSystemAdminRelation`) is one
WriteRelationships request: all its updates, or none when SpiceDB refuses one of
them: a TOUCH must be allowed as it is, a DELETE whatever its caveat
(`Deletable`). `After` gives TOUCH and DELETE their meaning: one relationship per
resource, relation and subject, whatever its caveat. `Holds`, `TenantCheck` and
the functions named after the library's `canOn...` are the checks, with nested
groups and with the caveat of temporary grants, which holds only when a context
is given and the grant has not expired. The Go workers have writers of their own;
TenantMembers models those.

Procedures is `packages/auth/src/middleware.ts` with what the routers ask of it:
`createContext` and `authMiddleware` (token), `tenantProcedure` and
`requirePermission` (one gate in two forms, with the second factor),
`canOnWorkflow` (the workflow id that names the tenant), `appRouter` (the set of
mounted procedures with the permission each asks for), the input schemas of roles
and grants, and the reads that SpiceDB answers (`listRolesForPrincipal`,
`expandPrincipalsForRole`, `listGroupMembers`). Their properties quantify over all
stores and requests; they are proved, and TLC evaluates both modules on every
state of the run `members` between its requests (`SchemasAgree`).

### TenantRows

The tables `groups` and `temporary_grants` of `packages/db/src/index.ts` with the
handlers that change them: `principals.groups.create`, `update` and `delete`, and
the `grants` router with the workflows it starts and the revoke signals it sends.
`Admit` is the gate of Procedures; `findById` the first query of `update`,
`delete` and `update_reason`, which finds the row and compares its tenant;
`updateGroup`, `deleteGroup`, `updateGrantReason` the second, which writes by id
alone. Any number of calls stand between the two. One database may hold the rows
of several tenants: `packages/db/src/index.ts:267` says that tenantProcedure's
pool sets `app.tenant_id`, but nothing sets it (`audit_emitter.ts:20-21` says so
too), so row-level security is not in the model. `InsertGrant` is the row the
grant workflow is meant to write; its activity is a stub at this commit. Ids are
random and not given again; deleting a group sets the parent of its children to
null, the one change of a row that another row's deletion makes.

### Saga and OnboardTenant

`Saga` is the abstract specification of a compensating workflow: forward one
step at a time, turn back once, give back what was done one at a time, or be
killed. `OnboardTenant` is `OnboardTenantWorkflow` with its activities and
implements it (`IsSaga`): `SagaPhase` and `SagaDone` are the refinement mapping.

A `Run` is one execution; runs of one tenant share XRs, Argo workflows and NATS
subjects. The workflow code is `pc`, `step`, `completed`, `undo` (the loop index
of the cleanup closure) and `kept` (what a cleanup activity failed to delete).
The attempt of the current activity is `att` (scheduled, begun, applied) with
`inbox`, the first message on its NATS subscription; `ghost` is an attempt
the run no longer waits for because it was cancelled or timed out, which may
still act once. `policy` is the retry policy of the activities, fixed during a
behaviour: the workflow sets none, so `"unlimited"` is what runs today;
`"bounded"` is what the error branches of the code are written for, and lets
`StepFails` and `CleanupFails` happen. The services are external: Crossplane
(`Reconcile`, `TornDown`), Argo with its `onExit` callback (`ArgoEnds`), NATS
(`NatsFlips`). `exists` is an XR with what Crossplane composed for it. Both ends of
its life are asynchronous: an attempt applies the XR and waits for `ready`; a
cleanup activity returns when its DELETE is accepted (`DeleteXR`, the XR is in
`deleting`), and Crossplane ends it at some later time (`TornDown`), the two XRs in
either order. `Standing` is what is there to stay. So what the code orders, and
`DatabaseGoesFirst` and `FailureEventIsLast` say, is the requests: when
tenant.creation-failed is out, the deletes were accepted and the XRs may still be
terminating. An update of an XR that is being deleted does not stop its deletion.
Status events between two steps are folded into one step; the
cleanup stub for the Vault key never succeeds, as in the code.

### CreateTenant

`routers/tenants.ts` and `handlers/tenants.ts` in front of OnboardTenant, which
the module extends: `create` is the insert of the row, `startOnboarding` the start
of the workflow with the id of that row. A request that fails before its row is
there (at the gate, at `canOnSystem`, on a slug that is taken) leaves no trace and is
no step. The answer
of the insert or of the start may be lost, and then the handler throws although
the row, or the run, is there. Each `Request` asks for the same slug, as a retry
or a second tab does. `OnboardedOnce` is what justifies that the run `onboard`
has one execution and that the theorems about the cluster assume one (`Single`).
The slug is unique in the database of the caller's active tenant (`ctx.db`),
although `handlers/tenants.ts:73` speaks of the platform DB: two callers with
different active tenants are outside this model, and of this promise.

### Bootstrap

`workers/bootstrap/run.go` and `zitadel.go`, composed with OnboardTenant: the
module extends it, `Submit` starts a run and the pod waits for it, but the run
goes on when the pod dies. `Restart` is both the Job's `backoffLimit` and the
PostSync hook. Lost answers of `CreateAdmin` and `WriteRelation` are part of
those actions.

### HeartbeatMonitor

`InstallationHeartbeatMonitorWorkflow`, the heartbeat mutation and the signal of
`InstallationRevocationWorkflow`. Each iteration of the loop spawns a coroutine
per signal channel that sets a variable of its own iteration, and none is ever
stopped. The model counts the receivers that earlier iterations left behind
(`hbStale`, `revStale`) and what is buffered when none is left. A `Tick` is
five minutes, the heartbeat period; the thresholds 2 and 4 are the ten and the
further twenty minutes of the code. Deliveries, ticks and steps of the main
coroutine interleave freely: a workflow task may apply several events before
the main coroutine looks.

### Sessions

`routers/auth.ts`, `handlers/auth.ts` and the two stores of
`handlers/sessions.ts`, with the browsers that keep the cookies. A `Login` is one
`GET /api/auth/login` and stands for the random state it generates, a `Callback`
one `GET /api/auth/callback` and stands for the session it may create; random
values do not repeat.

| Variable | Code |
|---|---|
| `pending`, `sessions` | `expiresAt` of the records in the two `Map`s, 0 when there is none |
| `login`, `starter` | a login request, from the discovery it awaits to the redirect that reaches its browser |
| `callback`, `state`, `sender` | a callback request: its state parameter, the exchange it awaits, the answer on its way |
| `logout` | a logout whose answer is on its way |
| `pcookie`, `scookie` | the pending and the session cookie of a browser, with the time they lapse |

A handler runs uninterrupted between awaits: `StartLogin` and `CreatePending`
are `handleLogin` before and after discovery, `StartCallback` is
`handleCallback` with `consumePendingAuth` up to the code exchange,
`CreateSession` and `ExchangeFails` its two ends. A request carries the cookies
its browser has when it is sent (`Sent`); a response sets them when it arrives
(`Redirected`, `Granted`, `Refused`, `LoggedOut`), in any order, or is lost
(`ResponseLost`). The callback address may be opened again, or in another
browser. `Me` is the lookup that drops an expired session, `Restart` the loss of
all that is in memory. The identity provider is external: it answers or it does
not. `discovered` is the cached discovery document: a login may fill it or use
it, a callback relies on it (`CallbackFindsDocument`), and `Configured` is FALSE
when the issuer's settings are missing and every login is refused. `verifyToken`
is the check of the token's claims; `EndSession` the discovery that a logout
awaits for the address to send the browser to. MCSessions adds the symmetry of the run: no browser, login or
callback is told from another.

### Resource, Principals, EventStreams, AuditTrail, Console (MCConsole)

The operator console of `frontend/src` and what it talks to.

| Module | Code |
|---|---|
| Resource | Solid's `createResource`, external: a key, at most one current load, and the value of the last load that was current when it settled |
| Principals | `routes/Principals.tsx` and `components/PrincipalAdmin.tsx`: five resources, the selections, one handler per family of mutations with its pending flag and error, the refetches of live tenant events |
| EventStreams | `handlers/events.ts`, `nats.ts` and the permission checks of `routers/events.ts`: one slot per observable, from the check over the awaited connection to the registered subscription; the client may leave at each of these points |
| AuditTrail | the audit middleware and its emitter (`middleware.ts`, `audit_emitter.ts`), `audit.list` with cursor and filters, and the accumulated history of `routes/Audit.tsx` |
| Console | the document: one page at a time, `AuthProvider`, navigation, reload; a page opens its stream when it is mounted and closes it when it is left |

A value of a resource keeps only the key it was loaded for and which writes it
lacks: one of this visit to the page (`stale`), only one that nothing on the page
waits for (`behind`), or none (`fresh`); that is what `SelectionIsConsistent` and
`OwnWritesVisible` compare. Leaving the page makes every signal and resource new,
but the server goes on with a create or delete of a group that is on its way
(`late`): `LateGroupWrite` commits it at any later time, also after the next visit
has read the list, and so does a request whose answer was lost. A handler of a mutation
is `sent`, `committed` (the server has written, its answer may still be lost),
`refetch` (it awaits the list it asked for) or `superseded` (a tenant event asked
for the same list again and the promise the handler waits for is no longer the
current one). In AuditTrail a call stands for its row and its envelope; the row
takes its timestamp before it is inserted, so rows become visible out of order.
`base` is what the log held when the first page of the present filters was
read, the part of the log that paging must show.

## Runs

| Run | Module, cfg | Shows |
|---|---|---|
| `pool` | TenantPool, `pool.cfg` | the cache invariants, tenant isolation and that every call settles |
| `members` | MCTenantMembers, `members.cfg` | every kind of mutation, one request after the other, with repeated writes, against the whole schema |
| `members_last_owner` (violation) | MCTenantMembers | two overlapping suspensions leave no owner |
| `members_reinstate` (violation) | MCTenantMembers | an admin who is no owner reinstates a suspended owner |
| `onboard` | CreateTenant, `onboard.cfg` | two requests for one slug, the promises of the run they start, the refinement and liveness |
| `onboard_stub` (violation) | OnboardTenant | cleanup never passes the Vault stub |
| `bootstrap_job` | Bootstrap, `bootstrap_job.cfg` | the Job over restarts, with two runs of the workflow |
| `bootstrap_rerun` (violation) | Bootstrap | a restarted Job skips what is missing |
| `monitor` | HeartbeatMonitor, `monitor.cfg` | alerts are earned |
| `monitor_revoke` (violation) | HeartbeatMonitor | a revocation does not stop the monitor |
| `sessions` | MCSessions, `sessions.cfg` | states, cookies and sessions of two browsers agree, whatever responses are late or lost |
| `console` | MCConsole, `console.cfg` | one document that moves between its pages while answers, live events, audited calls and the NATS connection take any order |

The properties, each with a mutant of the code that breaks it (next to the
definition it changes, marked `Mutant:`):

- `pool`: `CacheBounded`, `OneLivePoolPerTenant`, `OpenWhileCached` (a pool is
  open exactly as long as it is cached), `TimersMatchEntries`,
  `InflightIsUnsettled`, `TenantIsolation`, `CallsSettle`, and the type invariant.
- `members`: `OnlyUsersOwn`, `SuspensionKeepsAnOwner`,
  `OwnerSuspendedByOwner`, `OnlyUnassignStripsLastRole`, `SchemasAgree`, and the
  type invariant.
- `onboard`: `OnboardedOnce`, `SuccessIsComplete`, `DatabaseGoesFirst`, `FailureEventIsLast`,
  `CreatedMeansProvisioned`, `IsSaga`, `Onboards`, `CancelledRunEnds`, and the
  type invariant.
- `bootstrap_job`: `OneAdmin` (one admin user whatever pods die, the relation
  only for that user, and both when the Job is done), `SuccessIsComplete` with two
  runs, and the type invariant.
- `monitor`: `HealthyHearsAll`, `WarningIsEarned`, `CriticalIsEarned`, and the
  type invariant.
- `sessions`: `OneSessionPerLogin`, `SignedInByOwnLogin`,
  `CookieOutlivesSession`, `OnlyOverlapIsRefused`, and the type invariant.
- `console`: `SelectionIsConsistent`, `OwnWritesVisible`, `HistoryHasNoGap`,
  `StreamsEnd`, and the type invariant `ConsoleTypeOK`.

Bounds and why they are enough:

- `pool`: `CacheSize` 1 with three tenants and three requests makes every
  insertion evict, lets two loads evict at once and a third tenant arrive in
  between. Two timer handles are one more than the cache has entries, so that a
  stale one would have a place. The theorems lift sizes and numbers.
- `members`: two owners, an admin, a service account and a group with one
  member, which is one subject of each kind the schema tells apart; two roles are asked for, of which `owner` is the one the guards treat
  specially. One call at a time, any number of requests one after the other: the
  relations range over all that the requests can make of them. What overlapping
  requests can do is not in this run: two suspensions that overlap are
  `members_last_owner`; that no overlap takes the last role of a principal is the
  theorem `RolesSurvive`; an actor who loses a role between the gate and the write
  may well suspend an owner, so `OwnerSuspendedByOwner` is claimed, and proved, of
  requests that do not overlap. The two violation runs use the smallest overlap and the smallest sequence.
- `onboard`: two requests, so that one meets the row of the other before, between
  and after its two steps; one run, which `OnboardedOnce` shows to be all that they
  start; two Argo workflows of each template at once, which is what
  a retry of a running attempt needs; each further one repeats the second.
  `bootstrap_job`: two runs and three pods, so that a pod restarts while two runs
  are under way.
- `monitor`: four revoke signals against any number of stale receivers (they are
  counted up to that bound, beyond which a signal sent cannot reach the current
  iteration), three buffered heartbeats, silence counted to six ticks, beyond the
  longest threshold.
- `sessions`: two logins and two callbacks in two browsers are one overlap, one
  callback opened twice or elsewhere, and one session of each browser. A pending
  record lives one tick and a session two, so that both lapse within the three
  ticks that are counted and the two lifetimes differ.
- `console`: two users, groups and principals, as every hazard of the page is
  about the one selected and another; one panel in use per visit (`MAX_PANELS`: the
  users, the groups with their members, the lookup of a principal, the expansion of a
  role), since the panels share no state but the lists that have no key; one write
  that an earlier visit left behind (`MAX_LATE`), which counts as the Groups panel
  in use; the Audit page is not mounted while it is on its way, where nothing shows it; one
  stream at a time on the server, so that a page change meets the stream that is
  still closing; three audited calls of two actors, three timestamps (two calls
  may share one) and pages of one row, so that paging takes several loads and a
  filter leaves something out. The audit log is empty when the page is opened: a
  call that ends before the first page is read stands for older rows.

`CHECK_DEADLOCK FALSE` is set where the system may stop: requests that are
over, runs that have ended, a monitor that has returned, the sessions model when
its requests and ticks are used up, and the members model, where a tenant whose
members are all blocked accepts no further request.

## Fairness

- TenantPool: the event loop runs settled continuations, the secret fetch
  settles, a query ends and `end()` of a drained pool settles. Nothing is
  assumed of callers that have not called or that hold a pool between queries,
  nor of the timers.
- OnboardTenant: Temporal dispatches what is scheduled and retries what failed.
  Strong fairness stands where an attempt may be taken away again and again (by
  a timeout or a NATS outage) but is offered again and again. Argo workflows end
  and one that is listened for eventually succeeds, Crossplane reconciles.
  Nothing is assumed of NATS; `Onboards`, `CancelledRunEnds` and `StubIsSafe`
  say themselves that its outages end. The stub has no success to be fair to.
- Sessions: none; its properties are safety.
- Console: the NATS connection attempt settles and the event loop runs the
  continuations of an observable factory. Nothing is assumed of the operator, of
  the server's answers or of live events.
- CreateTenant: that of OnboardTenant; a request need not be made or go on.
- HeartbeatMonitor: the worker runs the main coroutine when it can go on, and
  time passes. No heartbeat and no revocation is promised.

## What the runs found

1. `members_last_owner`: `assertNotLastOwner` (`principals.ts:387`) reads the
   owners before the workflow that suspends is started. Two overlapping
   suspensions of the two owners both pass. The comment at 325-328 says that the
   last unsuspended owner is protected.
2. `members_reinstate`: `targetIsOwner` (`principals.ts:353`) asks for
   `transfer_ownership`, which excludes suspended subjects, so a suspended owner
   is not seen as an owner and any tenant admin may reinstate them, against the
   comment at 447-448.
3. `onboard_stub`: the cleanup context has no retry policy, so Temporal retries
   `DeleteTenantVaultKeyActivity`, which always fails, without end; database,
   namespace and failure event are never reached. The comment at
   `activities_cleanup.go:81-82` says the loop ignores the error.
4. `bootstrap_rerun`: the Job looks only for the XTenant, which the workflow
   creates first; a Job restarted after a partial failure reports success
   without database, key or migrations, against `main.go:19-20`.
5. `monitor_revoke`: a revoke signal after the first iteration is taken by a
   receiver of an earlier iteration (`workflow_installation.go:158`), and the
   monitor goes on, against line 123.

Met while modelling, without a run of their own.

Pools and workflows:

- Evicted pools that still serve queries hold connections on top of those of the
  cached ones (`pool.ts:61-64`), and a handler may go on using a pool that was
  ended after its lookup (`middleware.ts:201`).
- A first step that fails while it waits leaves the XTenant behind
  (`workflow.go:185`). Cleanup waits for no deletion (`activities_cleanup.go:45`,
  `67`): the namespace may be gone while the database in it still terminates, and
  tenant.creation-failed may be out before either is. A run for a tenant whose XR is
  still terminating updates it and may find `status.ready` of what is about to go
  (`activities_xr.go` does not look at the deletionTimestamp). A NATS outage holds up every step although status events
  are meant to be best effort (`workflow.go:42-50`).
- A slug whose workflow start failed can never be onboarded: the row is there, a
  retry meets the unique constraint and nothing else starts the workflow
  (`handlers/tenants.ts:86`).
- The onboarding workflow has no step that seeds SpiceDB, although the header of
  `handlers/tenants.ts` lists one. `router.ts` looks up the caller's tenant with
  `findBySlug` given the tenant's id.

Roles and permissions:

- A role write repeated after a lost answer can undo a later request
  (`activities_assign_role.go:79-80` calls retries no-ops); two overlapping
  changes of one role leave both new roles (`activities_change_role.go:68`); the
  last owner can be demoted by a change of role, which `assertNotLastOwner` does
  not guard (`principals.ts:201`).
- `ChangeRoleSchema` refuses the ownership of a service account as the new role only
  (`routers/principals.ts:163-180`). With `oldRole` "owner" SpiceDB refuses the
  DELETE, and with it the request: the caller is told that the change was started,
  nothing is written, and the activity is retried without end, as the workflow sets
  no retry policy (`AcceptedInputsAreWritable`, `Refused`).
- The schema allows the expiry caveat on `admin` only, so grants of the other
  roles that the input schema accepts are refused when they are written
  (`AcceptedInputsAreWritable` says which); and an admin grant gives nothing to a
  procedure, because `tenantProcedure` passes no caveat context
  (`GrantGivesNothing`). A grant of a role held for good replaces it, and its end
  removes both (`GrantTakesTheRole`). TemporaryGrantWorkflow itself never writes
  the relationship, it only waits and removes, against `handlers/grants.ts:55-58`.
- Removing one role from a suspended member deletes the suspension too, in the
  library (`RemovingARoleEndsTheSuspension`) but not in the Go activity that
  unassigns. `canActOnMember` never reaches a suspended or denied target
  (`BlockedMembersAreOutOfReach`), so it cannot reinstate.
- `requirePermission` on the resource `"system"` always answers FORBIDDEN.
  `writeGroupRoleAssigned` does not compare the group's tenant; the comment of
  `writeGroupNested` has the direction reversed; `schema.zed` lists
  `service_account#self` and `installation#platform` as written at creation, and
  nothing writes them (`SomeRelationsAreNeverWritten`).
- `routers/tenants.ts:17-18` and `45-48` say that `tenants.ping` checks `read` on
  the tenant it is asked about; `tenantProcedure` checks it on the token's tenant.
  `getGroup`, `getUser` and `getTenant` read by id without comparing the tenant.
- Deleting a group leaves its relationships in SpiceDB; `groups.update` accepts a
  cycle of parents.
- SpiceDB checks carry no ZedToken; the models read the current store, so a stale
  answer after a write is outside them.

Console and events:

- Two logins of one browser share one pending cookie, so that one can refuse the
  other (`routers/auth.ts:94`), which is why `OnlyOverlapIsRefused` makes that
  exception and no other; records of logins that are never finished stay in
  memory until a restart (`sessions.ts:37`).
- A NATS connection that is rejected once is cached for the life of the process
  (`nats.ts:18`): every later subscription fails. `StreamsEnd` says that such streams
  close, not that one delivers. A Workflows page that is mounted before `/me` has answered never
  subscribes.
- One failed page freezes the audit history: `page()` throws in the memo that
  accumulates it (`Audit.tsx:58-62`), and a principal id that is typed key by key
  makes such requests. Rows of one timestamp across the border of two pages are
  never shown (the cursor is strict), which `NoGap` excepts. A row that was
  inserted after the first page was read and published before the stream was
  registered is shown by neither. The metadata builder of `audit.ping` throws on
  an input its schema refuses, and that call leaves no envelope, although
  `routers/events.ts` speaks of one per call. The comparator of `unifyRows`
  never answers 0, so ties do not keep the order that its comment promises.
- The workflows of roles and members publish no tenant event, and a tenant event
  does not refetch the members, so a list that another operator changed stays
  stale, against `Principals.tsx:186-191` and `233-235`. The form of the Groups
  tab is cleared after a failure too (`PrincipalAdmin.tsx:545-546` says it is
  kept). `Close` is enabled while a suspension is pending
  (`PrincipalAdmin.tsx:422`); the error of a suspension is cleared by the next action
  only, so it survives Close and shows under the user who is managed next
  (`PrincipalAdmin.tsx:448`). `switchTenant` changes only the label.
- A create or delete of a group that is still on its way when its page is left is
  committed all the same, and its handler refetches a resource that no page shows any
  more (`Principals.tsx:48-72`). If the page is opened again and reads the list first,
  the list lacks that write until something else refetches it, with nothing pending and
  no error; `OwnWritesVisible` therefore speaks of the writes of one visit.
- `listRolesForPrincipal` asks for each role in parallel, so its answer may mix two
  stores; in Procedures it reads one.
- `TenantNew.tsx:75` calls `principals.tenants.create`, which does not exist.

## Proofs

Each `*Proofs` module extends its component and TLAPS. No theorem assumes
anything but the named assumptions on the constants, except where stated as an
antecedent.

**TenantPoolProofs**: for all tenants, requests, timers and cache sizes. The
invariants are not inductive one by one: that a cache insertion overwrites
nothing needs the in-flight map to be exact, that needs the phases of the loads,
and that the evicted entry's timer is the right one needs timers to be distinct.
`IInv` joins `TypeOK`, `CacheBounded`, `LoadInv`, `InflightIsUnsettled`,
`CacheInv`, `NoOrphanedPool`, `TimersMatchEntries`, `TimerInv` and `CallInv`.
The lemma `DeleteAtFacts` says what `Map.delete` does to the recency order,
`EvictFacts` and `EvictKeepsOthers` what an eviction does to its entry and to the
others. Theorems: `TypeCorrect`,
`CacheIsBounded`, `SinglePool`, `NoLeak`, `InflightMatches`, `TimersMatch`,
`Isolation`.

**TenantMembersProofs**: `RoleInv` (types, the operation of a gated call,
`OnlyUsersOwn`) is inductive for any number of overlapping requests and gives
`TypeCorrect`, `UsersOwn` and `RolesSurvive`. The suspension guards hold only of
requests that do not overlap, as `members_last_owner` shows; `Serial` (at most
one call) is therefore the antecedent of `SuspensionKeeps` and
`OwnersSuspendOwners`. There `SerialInv` adds that what each guard has found out
so far is still true when the workflow writes. `TheViewsAgree` is about
TenantRelations and needs no `Serial`: in every state, also in the middle of
overlapping requests, the relations of the model are relationships the schema
allows (`StoredIs`), and `manage_members` and `transfer_ownership` are what the
schema computes from them: `StoredOfUser` and `StoredOfGroup` say which relationships
a user and a group can have, `HoldingsAgree` that the least set closed under
nesting is then the direct members, `GatesAgree` the rest.

**OnboardTenantProofs**: `RunInv` (types, where a run stands in its steps and
its cleanup, what an abandoned attempt may be) is inductive for any number of
runs of one tenant, and gives `TypeCorrect` and `Refinement`: every step of
every run is a step or a stutter of its saga and of no other. What a run promises about the cluster
is proved for the only run of its tenant (`Single`): another run's cleanup may
take away what this one has completed. `SingleInv` adds that the
steps behind a run have left their resources (`ForwardInv`), when events may
have been sent (`EventInv`), what a cleanup has undone or kept (`UndoInv`), and
what an abandoned publication still finds (`PublishInv`), and
`ClusterInv` that only what exists is ready or being deleted, and that nothing is
being deleted unless the run has turned back, so that a run that goes forward never
takes a terminating XR for ready. Theorems:
`SuccessWhole`, `ReverseOrder`, `FailureLast`, `CreatedIsTrue`, for both retry
policies, any number of Argo workflows, with or without cancellation and timeout.
About CreateTenant: every step of it is a step of OnboardTenant or leaves it
alone (`CreateImplementsOnboarding`), for any number of requests, so the theorems
above hold of the composition; and `SlugIsOnboardedOnce`, from the invariant that
no run has started unless the request that inserted the row started it.

About Bootstrap: several runs may share the system tenant there, so `Single` does
not hold. `Unstopped` takes its place: nobody cancels a run and no activity gives
up, which is how the Job starts the workflow and what the retry policy of the code
says; a run may still be killed by its timeout. Then no run turns back (`ForwardOnly`), nothing that is there goes away
(`NothingIsLost`), and `SuccessOfMany` gives `SuccessIsComplete` for any number of
runs. `BootstrapImplementsOnboarding` carries this, the types and the refinement
over to the Job (`BootstrapTypes`, `BootstrapRuns`). `AdminIsUnique` is `OneAdmin`
for any number of pods, from what the search has found out when a pod creates the
admin or writes the relation (`SearchInv`), and needs no `Unstopped`.
`FirstPodProvisions` is the other side of the run `bootstrap_rerun`: only a later
pod, which finds the XTenant of an earlier one, can report success too early.

**HeartbeatMonitorProofs**: `IInv` ties the place of the main coroutine to its
status, buffered signals to the absence of stale receivers, the timer to the
silence and the missed heartbeats to the receiver a warning leaves behind.
Theorems: `TypeCorrect`, `HealthyHears`, `WarningEarned`, `CriticalEarned`.

**SessionsProofs**: for any browsers, logins, callbacks and lifetimes.
`LoginInv` and `CallbackInv` say what a request that has got so far has left in
the stores; that what a callback consumed is gone for good is what makes
`OneSessionPerLogin` inductive. `CookieInv` ties the cookies to the logins of
their browser, and `AloneInv` is the reason for `OverlapOnly`: a browser with
one login keeps its cookie as long as that login is pending, because no
answer that would replace or clear it can be on its way. Theorems: `TypeCorrect`,
`OneSession`, `OwnLogin`, `CookieOutlives`, `OverlapOnly`, and
`CallbackFindsDocument`: a callback that exchanges its code finds the discovery
document in the cache, so it has no discovery of its own to wait for.

**ConsoleProofs**: about `ConsoleSpec`, the whole document with all it talks to,
for any users, groups, principals, roles, audited calls, timestamps, page sizes
and streams. `ConsoleInv` joins three parts, which share the document only
through the mounting and leaving of pages:

- `PrincipalsInv`. `SelectionIsConsistent` needs that a value belongs to the key
  of its resource unless a newer load is under way (`ValueIsOfKey`);
  `OwnWritesVisible` that between a write of a group and the end of its handler
  either the list is stale and the handler not done, or a load that began after
  the write is on its way (`GroupWrites`). A write that an earlier visit left behind
  makes a list `behind` and never `stale` (`LateKeeps`), and a new visit starts with
  nothing stale (`FreshMount`).
- `AuditInv`. `NoGap` alone is not inductive: the next page could leave out a row
  if its cursor were not the time of a row that is listed already, if a row of
  `base` left the log or changed its time, or if `base` and the history were
  of different filters. `LogInv` and `PageInv` say that none of this happens.
  `ShortPage` says that a page that is not full holds all there is below the
  cursor, `LogGrows` that rows which become visible late disturb nothing.
- the types of the streams and of the document.

Theorems: `TypeCorrect`, `SelectionStaysConsistent`, `OwnWritesAreVisible`,
`PagingIsComplete`.

**RelationshipsProofs**: `StoreIsSound` (whatever sequence of the library's
writers, every relationship is of a known type, allowed by the schema and stored
under at most one caveat) and `SomeRelationsAreNeverWritten` are invariants of any
number of writes; the other theorems are about every store, reachable or not:
`RolesNest` and `StrongerPermissionsCarryWeaker` (permissions nest),
`SuspensionAndDenialBlock`, `BlockedMembersAreOutOfReach`, `GrantGivesNothing`,
`GrantTakesTheRole`, `RemovingARoleEndsTheSuspension`; `RepeatedWriteIsNoop` says
that a writer repeated at once changes nothing.

**ProceduresProofs**: for every store and request. `MutationsImplyReads`,
`BlockedReachNothing`, `OneGateInTwoForms`, `ListedRolesExplain`,
`InputsAndSchemaAgree` (which accepted inputs SpiceDB can write, and the one kind of
`roles.change` it cannot), and `TenantsAreIsolated`: what is written of one tenant
changes no check of another. That last one follows nested groups through their
members, who may belong to several tenants, and needs that a role of a group is
given by a relationship of the tenant it is a role of. The module ends with
TenantRows. `RowsInv` joins the types to `ParentsAreThere`,
`RevokesStayInTheirTenant` and `FoundIsOwn`: a row that a call has found is that
call's tenant's until the call writes, or was deleted, because ids are not reused
and no handler changes the tenant of a row. Theorems: `RowsStaySound`, and
`RowsKeepToTheirTenant`, the action property that the second query, which
compares nothing, writes only rows of its caller's tenant.

Out of the prover's reach, and left to TLC: liveness under fairness and
`ENABLED` (`CallsSettle`, `Onboards`, `CancelledRunEnds`), induction over data
and recursive operators (none is used here). That is also why membership through nested
groups is stated in Relationships as the least set closed under nesting, which
needs no recursion.

## Only model-checked

Every invariant and every action property of the passing runs is a theorem, for
all values of the constants; the assumptions of some are said above (`Serial`,
`Single`, `Unstopped`). The other four properties are liveness: `CallsSettle`,
`Onboards`, `CancelledRunEnds` and `StreamsEnd`. Their proofs would reason about
fairness through `ENABLED`, which the prover does not do, and stay with TLC. So do
the violations, which are counterexamples. The other way round, TenantRows is in
no run: what it says is proved.

## Not modelled

- Installation registration and revocation, user registration and erasure: every
  activity they call is a stub that returns `errNotImplemented` at this commit, so
  there is no effect to model; their signal to the monitor is modelled. Of the
  temporary grant workflow, whose activities are stubs too, only its start, its id
  and its revoke signal are.
- `routers/marketplace.ts` and `routers/installations.ts`: no router mounts them,
  and both import `../middleware/auth`, which does not exist. Read as it stands, a
  redelivered marketplace webhook would start a second tenant under a new id.
- Access review, IAM write-back, usage metering, security findings: planned.
- The console's tenant pages, its timeline of a workflow (the page uses a
  placeholder id) and the cloud-themed layouts, which call no API. Of the Audit
  page, the live envelopes shown next to the history and the CSV export.
- CLI, telemetry gateway: stateless over the API.
- `infra/`, `platform/`: declarative configuration and vendored charts; the
  bootstrap Job's restart rules are taken from there.
- Plain reads of users and tenants, migrations, formatting, logging, metrics.

## Plan

Order, most important behaviour first; the first nine are done.

1. TenantPool: tenant isolation and resource bounds. Done, proved.
2. TenantMembers: who may do what to whom. Done; safety proved.
3. Saga, OnboardTenant: provisioning and compensation. Done; refinement and
   safety proved.
4. Bootstrap: composition with 3. Done; safety proved, for any number of pods
   and runs.
5. HeartbeatMonitor. Done; safety proved.
6. Sessions. Done; safety proved.
7. CreateTenant, joined to OnboardTenant. Done; the implementation and
   `OnboardedOnce` proved.
8. Relationships, Procedures, TenantRows: the whole schema, every writer and
   check of the library, the gate of every procedure and the rows behind them.
   Done, proved; joined to TenantMembers by `SchemasAgree`, proved too.
9. Console with Principals, EventStreams and AuditTrail. Done; safety proved.
10. RoleWriters: the Go writers of temporary grants, access review and IAM
    write-back, composed with the role relation of TenantMembers; a role is
    removed when its last reason is gone.
11. Metering: pending and submitted records over batches that stop half way.
12. What is a stub today, once it has effects: installations, erasure against
    registration, the marketplace.
