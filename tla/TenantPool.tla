----------------------------- MODULE TenantPool -----------------------------
(***************************************************************************)
(* The per-tenant Postgres pool factory (packages/db/src/pool.ts).         *)
(*                                                                         *)
(* makePoolFactory closes over two Maps.  cache holds at most cacheSize    *)
(* resolved pools in recency order and inflight holds the promise of a     *)
(* load that has not settled.  Node runs the code between two awaits       *)
(* without interruption, so every action below is the code from one await  *)
(* to the next; everything else may run in between.                        *)
(*                                                                         *)
(* A Request is one call of poolForTenant and the use the caller makes of  *)
(* the pool it gets.  The call that finds its tenant neither cached nor in *)
(* flight starts a load; that load, the promise it stands for and the      *)
(* pg.Pool it constructs carry the identity of that Request.               *)
(***************************************************************************)
EXTENDS Naturals, Sequences, FiniteSets

CONSTANTS
    Tenant,     \* tenant identifiers
    Request,    \* calls of poolForTenant (also: loads, promises and pools)
    Timer,      \* timer handles setTimeout can return
    CacheSize,  \* deps.cacheSize
    MaxConns,   \* deps.maxConnectionsPerPool
    None        \* absence of a tenant, a pool or a timer

ASSUME CacheSizeAssumption == CacheSize \in Nat
ASSUME MaxConnsAssumption  == MaxConns \in Nat \ {0}
ASSUME NoneAssumption      == None \notin Tenant \cup Request \cup Timer

VARIABLES
    cache,      \* Map<tenantId, CacheEntry>: the cached pools, oldest first
    inflight,   \* Map<tenantId, Promise>: tenant -> unsettled load, or None
    owner,      \* owner[p]: the tenant load p was started for
    load,       \* load[p]: how far load p has got
    victim,     \* victim[p]: the pool whose end() load p awaits
    conn,       \* conn[p]: the life of the pg.Pool that load p constructs
    timer,      \* timer[k]: the tenant a pending timeout evicts, or None
    idleTimer,  \* idleTimer[p]: the idleTimer field of p's cache entry
    call,       \* call[r]: the caller's side of request r
    tenantOf,   \* tenantOf[r]: the tenantId request r asked for
    promise     \* promise[r]: the load whose pool request r gets

poolVars == <<cache, inflight, owner, load, victim, conn, timer, idleTimer>>
callVars == <<call, tenantOf, promise>>
vars     == <<poolVars, callVars>>

LoadPhase == {"none", "fetching", "checking", "evicting", "resolved", "rejected"}
ConnPhase == {"none", "open", "ending", "ended", "abandoned"}
CallPhase == {"idle", "waiting", "holding", "querying", "done", "failed"}

TypeOK ==
    /\ cache \in Seq(Request)
    /\ inflight \in [Tenant -> Request \cup {None}]
    /\ owner \in [Request -> Tenant \cup {None}]
    /\ load \in [Request -> LoadPhase]
    /\ victim \in [Request -> Request \cup {None}]
    /\ conn \in [Request -> ConnPhase]
    /\ timer \in [Timer -> Tenant \cup {None}]
    /\ idleTimer \in [Request -> Timer \cup {None}]
    /\ call \in [Request -> CallPhase]
    /\ tenantOf \in [Request -> Tenant \cup {None}]
    /\ promise \in [Request -> Request \cup {None}]

Init ==
    /\ cache = <<>>
    /\ inflight = [t \in Tenant |-> None]
    /\ owner = [p \in Request |-> None]
    /\ load = [p \in Request |-> "none"]
    /\ victim = [p \in Request |-> None]
    /\ conn = [p \in Request |-> "none"]
    /\ timer = [k \in Timer |-> None]
    /\ idleTimer = [p \in Request |-> None]
    /\ call = [r \in Request |-> "idle"]
    /\ tenantOf = [r \in Request |-> None]
    /\ promise = [r \in Request |-> None]

-----------------------------------------------------------------------------
(* The Map operations.                                                     *)

\* cache.has(t): the pool cached for tenant t is at position i.
CachedAt(i, t) == i \in 1..Len(cache) /\ owner[cache[i]] = t
Cached(t)      == \E i \in 1..Len(cache) : owner[cache[i]] = t

\* Map.delete of the entry at position i keeps the order of the others.
DeleteAt(s, i) == [j \in 1..(Len(s) - 1) |-> IF j < i THEN s[j] ELSE s[j + 1]]

\* Map.set: an existing key keeps its place and changes its value, a new key
\* goes to the tail.
SetEntry(p) ==
    IF Cached(owner[p])
    THEN [i \in 1..Len(cache) |-> IF owner[cache[i]] = owner[p] THEN p ELSE cache[i]]
    ELSE Append(cache, p)

-----------------------------------------------------------------------------
(* Timers and eviction.                                                    *)

\* clearTimeout of handle k (None: there is none to clear).
Cleared(tm, k) == [x \in Timer |-> IF x = k THEN None ELSE tm[x]]

\* scheduleIdleEviction(t): a free handle k becomes pending for tenant t.
Armed(tm, k, t) == [tm EXCEPT ![k] = t]

\* Mutant: end() is called while the entry is still in the Map.
EvictAt_EndFirst(i, tm) ==
    /\ conn' = [conn EXCEPT ![cache[i]] = "ending"]
    /\ timer' = tm
    /\ UNCHANGED <<cache, idleTimer>>

\* Mutant: the entry is dropped and the pool is never ended.
EvictAt_NoEnd(i, tm) ==
    /\ cache' = DeleteAt(cache, i)
    /\ timer' = Cleared(tm, idleTimer[cache[i]])
    /\ idleTimer' = [idleTimer EXCEPT ![cache[i]] = None]
    /\ UNCHANGED conn

\* Mutant: the timer of an evicted entry stays pending.
EvictAt_NoClear(i, tm) ==
    /\ cache' = DeleteAt(cache, i)
    /\ timer' = tm
    /\ idleTimer' = [idleTimer EXCEPT ![cache[i]] = None]
    /\ conn' = [conn EXCEPT ![cache[i]] = "ending"]

\* evict(tenantId) up to its await, for the entry at position i: the entry
\* leaves the cache and its timer is cleared before end() is called.
EvictAt(i, tm) ==
    /\ cache' = DeleteAt(cache, i)
    /\ timer' = Cleared(tm, idleTimer[cache[i]])
    /\ idleTimer' = [idleTimer EXCEPT ![cache[i]] = None]
    /\ conn' = [conn EXCEPT ![cache[i]] = "ending"]

\* The idle timeout k fires: void evict(tenantId), which nobody awaits.
IdleTimeout(k) ==
    /\ timer[k] # None
    /\ IF Cached(timer[k])
       THEN \E i \in 1..Len(cache) : /\ CachedAt(i, timer[k])
                                     /\ EvictAt(i, Cleared(timer, k))
       ELSE /\ timer' = Cleared(timer, k)
            /\ UNCHANGED <<cache, idleTimer, conn>>
    /\ UNCHANGED <<inflight, owner, load, victim, callVars>>

-----------------------------------------------------------------------------
(* poolForTenant.                                                          *)

\* A cache hit: restart the idle timer, move the entry to the tail, return
\* the pool.
CallHit(r, t) ==
    /\ call[r] = "idle"
    /\ \E i \in 1..Len(cache) :
          LET p  == cache[i]
              tm == Cleared(timer, idleTimer[p])
          IN  /\ CachedAt(i, t)
              /\ \E k \in Timer : /\ tm[k] = None
                                  /\ timer' = Armed(tm, k, t)
                                  /\ idleTimer' = [idleTimer EXCEPT ![p] = k]
              /\ cache' = Append(DeleteAt(cache, i), p)
              /\ promise' = [promise EXCEPT ![r] = p]
    /\ call' = [call EXCEPT ![r] = "waiting"]
    /\ tenantOf' = [tenantOf EXCEPT ![r] = t]
    /\ UNCHANGED <<inflight, owner, load, victim, conn>>

\* Mutant: one in-flight promise for the whole factory instead of one per tenant.
CallJoin_AnyInflight(r, t) ==
    /\ call[r] = "idle"
    /\ ~Cached(t)
    /\ \E u \in Tenant : /\ inflight[u] # None
                         /\ promise' = [promise EXCEPT ![r] = inflight[u]]
    /\ call' = [call EXCEPT ![r] = "waiting"]
    /\ tenantOf' = [tenantOf EXCEPT ![r] = t]
    /\ UNCHANGED poolVars

\* The tenant's load is in flight: share its promise.
CallJoin(r, t) ==
    /\ call[r] = "idle"
    /\ ~Cached(t)
    /\ inflight[t] # None
    /\ call' = [call EXCEPT ![r] = "waiting"]
    /\ tenantOf' = [tenantOf EXCEPT ![r] = t]
    /\ promise' = [promise EXCEPT ![r] = inflight[t]]
    /\ UNCHANGED poolVars

\* Mutant: no in-flight map, every miss loads.
CallLoad_NotShared(r, t) ==
    /\ call[r] = "idle"
    /\ ~Cached(t)
    /\ owner' = [owner EXCEPT ![r] = t]
    /\ load' = [load EXCEPT ![r] = "fetching"]
    /\ inflight' = [inflight EXCEPT ![t] = r]
    /\ call' = [call EXCEPT ![r] = "waiting"]
    /\ tenantOf' = [tenantOf EXCEPT ![r] = t]
    /\ promise' = [promise EXCEPT ![r] = r]
    /\ UNCHANGED <<cache, victim, conn, timer, idleTimer>>

\* Neither: start a load, up to the await of fetchSecret, and publish its
\* promise in inflight.
CallLoad(r, t) ==
    /\ call[r] = "idle"
    /\ ~Cached(t)
    /\ inflight[t] = None
    /\ owner' = [owner EXCEPT ![r] = t]
    /\ load' = [load EXCEPT ![r] = "fetching"]
    /\ inflight' = [inflight EXCEPT ![t] = r]
    /\ call' = [call EXCEPT ![r] = "waiting"]
    /\ tenantOf' = [tenantOf EXCEPT ![r] = t]
    /\ promise' = [promise EXCEPT ![r] = r]
    /\ UNCHANGED <<cache, victim, conn, timer, idleTimer>>

\* fetchSecret resolves and the pg.Pool is constructed.
FetchResolves(p) ==
    /\ load[p] = "fetching"
    /\ load' = [load EXCEPT ![p] = "checking"]
    /\ conn' = [conn EXCEPT ![p] = "open"]
    /\ UNCHANGED <<cache, inflight, owner, victim, timer, idleTimer, callVars>>

\* Mutant: without the finally block a rejected promise stays in flight.
FetchRejects_NoFinally(p) ==
    /\ load[p] = "fetching"
    /\ load' = [load EXCEPT ![p] = "rejected"]
    /\ UNCHANGED <<cache, inflight, owner, victim, conn, timer, idleTimer, callVars>>

\* fetchSecret or the constructor throws: the promise rejects, and the
\* finally block forgets it, so that the next call tries again.
FetchRejects(p) ==
    /\ load[p] = "fetching"
    /\ load' = [load EXCEPT ![p] = "rejected"]
    /\ inflight' = [inflight EXCEPT ![owner[p]] = None]
    /\ UNCHANGED <<cache, owner, victim, conn, timer, idleTimer, callVars>>

\* Mutant: > instead of >= in the loop condition.
Full_OffByOne == Len(cache) > CacheSize /\ Len(cache) > 0

\* The loop condition: the cache is full.  With cacheSize 0 an empty cache
\* is "full" too, and oldestKey == null breaks the loop.
Full == Len(cache) >= CacheSize /\ Len(cache) > 0

\* One round of the loop: evict the oldest entry and await its end().
EvictOldest(p) ==
    /\ load[p] = "checking"
    /\ Full
    /\ EvictAt(1, timer)
    /\ load' = [load EXCEPT ![p] = "evicting"]
    /\ victim' = [victim EXCEPT ![p] = cache[1]]
    /\ UNCHANGED <<inflight, owner, callVars>>

\* Mutant: only a clean end() lets the load go on.
EvictReturns_NoCatch(p) ==
    /\ load[p] = "evicting"
    /\ conn[victim[p]] = "ended"
    /\ load' = [load EXCEPT ![p] = "checking"]
    /\ victim' = [victim EXCEPT ![p] = None]
    /\ UNCHANGED <<cache, inflight, owner, conn, timer, idleTimer, callVars>>

\* The awaited end() settled (a rejection is caught): check the size again.
EvictReturns(p) ==
    /\ load[p] = "evicting"
    /\ conn[victim[p]] \in {"ended", "abandoned"}
    /\ load' = [load EXCEPT ![p] = "checking"]
    /\ victim' = [victim EXCEPT ![p] = None]
    /\ UNCHANGED <<cache, inflight, owner, conn, timer, idleTimer, callVars>>

\* Mutant: the idle timer is scheduled for the pool instead of the tenant.
Install_TimerForPool(p) ==
    /\ load[p] = "checking"
    /\ ~Full
    /\ cache' = SetEntry(p)
    /\ \E k \in Timer : /\ timer[k] = None
                        /\ timer' = Armed(timer, k, p)
                        /\ idleTimer' = [idleTimer EXCEPT ![p] = k]
    /\ inflight' = [inflight EXCEPT ![owner[p]] = None]
    /\ load' = [load EXCEPT ![p] = "resolved"]
    /\ UNCHANGED <<owner, victim, conn, callVars>>

\* There is room: insert the entry with a fresh idle timer; the finally block
\* drops the in-flight promise in the same turn.
Install(p) ==
    /\ load[p] = "checking"
    /\ ~Full
    /\ cache' = SetEntry(p)
    /\ \E k \in Timer : /\ timer[k] = None
                        /\ timer' = Armed(timer, k, owner[p])
                        /\ idleTimer' = [idleTimer EXCEPT ![p] = k]
    /\ inflight' = [inflight EXCEPT ![owner[p]] = None]
    /\ load' = [load EXCEPT ![p] = "resolved"]
    /\ UNCHANGED <<owner, victim, conn, callVars>>

-----------------------------------------------------------------------------
(* pg.Pool (external): end() waits for the clients that are checked out,   *)
(* and an ending pool refuses to hand out another.                         *)

UsersOf(p) == {r \in Request : call[r] = "querying" /\ promise[r] = p}

Drain(p) ==
    /\ conn[p] = "ending"
    /\ UsersOf(p) = {}
    /\ conn' = [conn EXCEPT ![p] = "ended"]
    /\ UNCHANGED <<cache, inflight, owner, load, victim, timer, idleTimer, callVars>>

EndRejects(p) ==
    /\ conn[p] = "ending"
    /\ conn' = [conn EXCEPT ![p] = "abandoned"]
    /\ UNCHANGED <<cache, inflight, owner, load, victim, timer, idleTimer, callVars>>

-----------------------------------------------------------------------------
(* The caller (external to pool.ts): the tenant middleware awaits the      *)
(* promise, stores the pool in ctx.db and the handlers query it.           *)

Resume(r) ==
    /\ call[r] = "waiting"
    /\ \/ /\ load[promise[r]] = "resolved"
          /\ call' = [call EXCEPT ![r] = "holding"]
       \/ /\ load[promise[r]] = "rejected"
          /\ call' = [call EXCEPT ![r] = "failed"]
    /\ UNCHANGED <<poolVars, tenantOf, promise>>

StartQuery(r) ==
    /\ call[r] = "holding"
    /\ \/ /\ conn[promise[r]] = "open"
          /\ Cardinality(UsersOf(promise[r])) < MaxConns
          /\ call' = [call EXCEPT ![r] = "querying"]
       \/ /\ conn[promise[r]] # "open"
          /\ call' = [call EXCEPT ![r] = "failed"]
    /\ UNCHANGED <<poolVars, tenantOf, promise>>

FinishQuery(r) ==
    /\ call[r] = "querying"
    /\ call' = [call EXCEPT ![r] = "holding"]
    /\ UNCHANGED <<poolVars, tenantOf, promise>>

FinishRequest(r) ==
    /\ call[r] = "holding"
    /\ call' = [call EXCEPT ![r] = "done"]
    /\ UNCHANGED <<poolVars, tenantOf, promise>>

-----------------------------------------------------------------------------
PoolForTenant(r) == \E t \in Tenant : CallHit(r, t) \/ CallJoin(r, t) \/ CallLoad(r, t)

LoadStep(p) ==
    \/ FetchResolves(p) \/ FetchRejects(p)
    \/ EvictOldest(p) \/ EvictReturns(p) \/ Install(p)

CallerStep(r) == Resume(r) \/ StartQuery(r) \/ FinishQuery(r) \/ FinishRequest(r)

Next ==
    \/ \E r \in Request : PoolForTenant(r) \/ CallerStep(r)
    \/ \E p \in Request : LoadStep(p) \/ Drain(p) \/ EndRejects(p)
    \/ \E k \in Timer : IdleTimeout(k)

Spec == Init /\ [][Next]_vars

(***************************************************************************)
(* Fairness.  The event loop runs every settled continuation, the secret   *)
(* fetch settles, a query ends, and end() settles once the clients are     *)
(* back.  Nothing is assumed of callers that have not called, of callers   *)
(* that hold a pool without querying it, or of the idle timers.            *)
(***************************************************************************)
Fairness ==
    /\ \A p \in Request : WF_vars(LoadStep(p)) /\ WF_vars(Drain(p))
    /\ \A r \in Request : WF_vars(Resume(r)) /\ WF_vars(FinishQuery(r))

FairSpec == Spec /\ Fairness

-----------------------------------------------------------------------------
(* Properties.                                                             *)

InCache(p) == \E i \in 1..Len(cache) : cache[i] = p

\* "LRU cache": whatever loads overlap in their awaits, the cache never
\* holds more than cacheSize pools (one, when cacheSize is 0).
CacheBounded == Len(cache) <= CacheSize \/ Len(cache) <= 1

\* "Concurrent first-access for the same tenantId returns the same Pool
\* instance": of all the pools ever loaded for a tenant at most one is being
\* loaded or cached, so no later Map.set can overwrite an open pool.
Live(p) == InCache(p) \/ load[p] \in {"fetching", "checking", "evicting"}
OneLivePoolPerTenant ==
    \A p, q \in Request : Live(p) /\ Live(q) /\ owner[p] = owner[q] => p = q

\* Once its load is over, a pool is open exactly while it is in the cache: a
\* cache hit never returns one whose end() was already called (evict deletes
\* before it awaits), and no connection leaks from one that neither LRU nor
\* the idle timer will ever find.
CachedPoolsAreOpen == \A i \in 1..Len(cache) : conn[cache[i]] = "open"
NoOrphanedPool ==
    \A p \in Request : load[p] = "resolved" /\ conn[p] = "open" => InCache(p)
OpenWhileCached == CachedPoolsAreOpen /\ NoOrphanedPool

\* Every cached entry has one pending idle timer, for its own tenant, and no
\* other timer is pending: no stale timer can evict a pool loaded later.
TimersMatchEntries ==
    /\ \A i \in 1..Len(cache) :
          /\ idleTimer[cache[i]] \in Timer
          /\ timer[idleTimer[cache[i]]] = owner[cache[i]]
    /\ \A k \in Timer : timer[k] # None =>
          \E i \in 1..Len(cache) : idleTimer[cache[i]] = k

\* The in-flight promise of a tenant is exactly its unsettled load: a load
\* that settled, either way, is never joined again.
InflightIsUnsettled ==
    \A t \in Tenant, p \in Request :
        inflight[t] = p <=> /\ owner[p] = t
                            /\ load[p] \in {"fetching", "checking", "evicting"}

\* "no path by which a caller can resolve the wrong tenant's pool": the pool
\* in ctx.db is always one loaded for the tenant the request asked for.
TenantIsolation ==
    \A r \in Request : call[r] \in {"waiting", "holding", "querying"} =>
        owner[promise[r]] = tenantOf[r]

\* Every call of poolForTenant settles, however the loads evict one another.
CallsSettle == \A r \in Request : (call[r] = "waiting") ~> (call[r] # "waiting")
=============================================================================
