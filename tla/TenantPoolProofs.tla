-------------------------- MODULE TenantPoolProofs --------------------------
(***************************************************************************)
(* Proofs about TenantPool for every set of tenants, requests and timers   *)
(* and every cacheSize.                                                    *)
(***************************************************************************)
EXTENDS TenantPool, TLAPS

-----------------------------------------------------------------------------
(* The inductive invariant.                                                *)

\* What each phase of a load implies about its tenant and its pool; a caller
\* that has not called yet has started no load.
LoadInv ==
    \A p \in Request :
        /\ load[p] # "none" => owner[p] \in Tenant
        /\ load[p] \in {"none", "fetching", "rejected"} => conn[p] = "none"
        /\ load[p] \in {"checking", "evicting"} => conn[p] = "open"
        /\ call[p] = "idle" => load[p] = "none"

\* The cache is a Map: one entry per key, each from a load that resolved and
\* whose promise is no longer in flight.
CacheInv ==
    /\ \A i \in 1..Len(cache) : /\ load[cache[i]] = "resolved"
                                /\ conn[cache[i]] = "open"
                                /\ inflight[owner[cache[i]]] = None
    /\ \A i, j \in 1..Len(cache) : owner[cache[i]] = owner[cache[j]] => i = j

\* Two entries never share a timer.
TimerInv ==
    \A i, j \in 1..Len(cache) : idleTimer[cache[i]] = idleTimer[cache[j]] => i = j

\* A caller waits for, or holds, the pool of a load of its own tenant.
CallInv ==
    \A r \in Request : call[r] # "idle" =>
        /\ promise[r] \in Request
        /\ load[promise[r]] # "none"
        /\ owner[promise[r]] = tenantOf[r]

IInv ==
    /\ TypeOK
    /\ CacheBounded
    /\ LoadInv
    /\ InflightIsUnsettled
    /\ CacheInv
    /\ NoOrphanedPool
    /\ TimersMatchEntries
    /\ TimerInv
    /\ CallInv

-----------------------------------------------------------------------------
\* What Map.delete does to the recency order: one entry shorter, and exactly
\* the entries at the other positions remain, in order.
LEMMA DeleteAtFacts ==
    ASSUME NEW S, NEW s \in Seq(S), NEW i \in 1..Len(s)
    PROVE  /\ DeleteAt(s, i) \in Seq(S)
           /\ Len(DeleteAt(s, i)) = Len(s) - 1
           /\ \A j \in 1..(Len(s) - 1) :
                 DeleteAt(s, i)[j] = IF j < i THEN s[j] ELSE s[j + 1]
           /\ \A j \in 1..Len(s) : j # i =>
                 \E m \in 1..(Len(s) - 1) : DeleteAt(s, i)[m] = s[j]
  <1>1. /\ DeleteAt(s, i) \in Seq(S)
        /\ Len(DeleteAt(s, i)) = Len(s) - 1
        /\ \A j \in 1..(Len(s) - 1) :
              DeleteAt(s, i)[j] = IF j < i THEN s[j] ELSE s[j + 1]
    BY DEF DeleteAt
  <1>2. ASSUME NEW j \in 1..Len(s), j # i
        PROVE  \E m \in 1..(Len(s) - 1) : DeleteAt(s, i)[m] = s[j]
    <2>1. CASE j < i
      <3>1. j \in 1..(Len(s) - 1)
        BY <2>1
      <3>2. DeleteAt(s, i)[j] = s[j]
        BY <1>1, <2>1, <3>1
      <3> QED
        BY <3>1, <3>2
    <2>2. CASE j > i
      <3>1. j - 1 \in 1..(Len(s) - 1) /\ ~(j - 1 < i) /\ (j - 1) + 1 = j
        BY <2>2
      <3>2. DeleteAt(s, i)[j - 1] = s[j]
        BY <1>1, <3>1
      <3> QED
        BY <3>1, <3>2
    <2> QED
      BY <1>2, <2>1, <2>2
  <1> QED
    BY <1>1, <1>2

\* evict removes the entry, its timer and nothing else from the picture: the
\* facts about the cache and the timers survive it, whatever load asked for it.
LEMMA EvictFacts ==
    ASSUME IInv, NEW i \in 1..Len(cache), NEW tm,
           \/ tm = timer
           \/ tm = Cleared(timer, idleTimer[cache[i]]),
           EvictAt(i, tm)
    PROVE  /\ cache' \in Seq(Request)
           /\ timer' \in [Timer -> Tenant \cup {None}]
           /\ idleTimer' \in [Request -> Timer \cup {None}]
           /\ conn' \in [Request -> ConnPhase]
           /\ Len(cache') = Len(cache) - 1
           /\ \A j \in 1..Len(cache') : \E m \in 1..Len(cache) :
                 /\ m # i
                 /\ cache'[j] = cache[m]
                 /\ m = IF j < i THEN j ELSE j + 1
           /\ \A m \in 1..Len(cache) : m # i => \E j \in 1..Len(cache') : cache'[j] = cache[m]
           /\ conn' = [conn EXCEPT ![cache[i]] = "ending"]
           /\ idleTimer' = [idleTimer EXCEPT ![cache[i]] = None]
           /\ timer' = Cleared(timer, idleTimer[cache[i]])
  <1>1. cache \in Seq(Request) /\ cache[i] \in Request
    BY DEF IInv, TypeOK
  <1>2. timer' = Cleared(timer, idleTimer[cache[i]])
    BY DEF EvictAt, Cleared
  <1>3. /\ timer' \in [Timer -> Tenant \cup {None}]
        /\ idleTimer' \in [Request -> Timer \cup {None}]
        /\ conn' \in [Request -> ConnPhase]
    BY <1>1, <1>2 DEF EvictAt, Cleared, IInv, TypeOK, ConnPhase
  <1>4. /\ cache' \in Seq(Request)
        /\ Len(cache') = Len(cache) - 1
        /\ \A j \in 1..(Len(cache) - 1) :
              cache'[j] = IF j < i THEN cache[j] ELSE cache[j + 1]
        /\ \A m \in 1..Len(cache) : m # i => \E j \in 1..(Len(cache) - 1) : cache'[j] = cache[m]
    BY <1>1, DeleteAtFacts DEF EvictAt
  <1>5. ASSUME NEW j \in 1..Len(cache')
        PROVE  \E m \in 1..Len(cache) :
                 /\ m # i
                 /\ cache'[j] = cache[m]
                 /\ m = IF j < i THEN j ELSE j + 1
    <2>1. CASE j < i
      BY <1>4, <2>1
    <2>2. CASE ~(j < i)
      <3>1. j + 1 \in 1..Len(cache) /\ j + 1 # i
        BY <1>4, <1>1, <2>2
      <3> QED
        BY <1>4, <2>2, <3>1
    <2> QED
      BY <2>1, <2>2
  <1> QED
    BY <1>2, <1>3, <1>4, <1>5 DEF EvictAt

\* ... and the facts that relate the cache to the timers and to the pools hold
\* of the entries that stay.
LEMMA EvictKeepsOthers ==
    ASSUME IInv, NEW i \in 1..Len(cache), NEW tm,
           \/ tm = timer
           \/ tm = Cleared(timer, idleTimer[cache[i]]),
           EvictAt(i, tm),
           UNCHANGED <<owner, inflight>>,
           \A m \in 1..Len(cache) : load'[cache[m]] = load[cache[m]],
           \A q \in Request : load'[q] = "resolved" => load[q] = "resolved"
    PROVE  CacheInv' /\ TimerInv' /\ NoOrphanedPool' /\ TimersMatchEntries'
  <1>1. /\ cache \in Seq(Request)
        /\ \A m \in 1..Len(cache) : cache[m] \in Request
        /\ idleTimer \in [Request -> Timer \cup {None}]
        /\ timer \in [Timer -> Tenant \cup {None}]
        /\ conn \in [Request -> ConnPhase]
    BY DEF IInv, TypeOK
  <1>2. \A m \in 1..Len(cache) : m # i => cache[m] # cache[i]
    BY DEF IInv, CacheInv
  <1>3. /\ \A j \in 1..Len(cache') : \E m \in 1..Len(cache) :
              /\ m # i
              /\ cache'[j] = cache[m]
              /\ m = IF j < i THEN j ELSE j + 1
        /\ \A m \in 1..Len(cache) : m # i => \E j \in 1..Len(cache') : cache'[j] = cache[m]
        /\ conn' = [conn EXCEPT ![cache[i]] = "ending"]
        /\ idleTimer' = [idleTimer EXCEPT ![cache[i]] = None]
        /\ timer' = Cleared(timer, idleTimer[cache[i]])
        /\ cache' \in Seq(Request)
    BY EvictFacts
  <1>m. \A j, n \in 1..Len(cache') : \E l, m \in 1..Len(cache) :
          /\ l # i /\ cache'[j] = cache[l]
          /\ m # i /\ cache'[n] = cache[m]
          /\ l = m => j = n
    <2> TAKE j, n \in 1..Len(cache')
    <2>1. PICK l \in 1..Len(cache) : l # i /\ cache'[j] = cache[l] /\ l = IF j < i THEN j ELSE j + 1
      BY <1>3
    <2>2. PICK m \in 1..Len(cache) : m # i /\ cache'[n] = cache[m] /\ m = IF n < i THEN n ELSE n + 1
      BY <1>3
    <2>3. l = m => j = n
      <3>1. j \in Nat /\ n \in Nat /\ i \in Nat /\ l # i /\ m # i
        BY <2>1, <2>2, <1>1, <1>3
      <3>2. (l = IF j < i THEN j ELSE j + 1) /\ (m = IF n < i THEN n ELSE n + 1)
        BY <2>1, <2>2
      <3> QED
        BY <3>1, <3>2
    <2> QED
      BY <2>1, <2>2, <2>3
  <1>n. \A m \in 1..Len(cache) : m # i => /\ conn'[cache[m]] = conn[cache[m]]
                                          /\ idleTimer'[cache[m]] = idleTimer[cache[m]]
    BY <1>1, <1>2, <1>3
  <1>4. CacheInv'
    <2>1. \A j \in 1..Len(cache') : /\ load'[cache'[j]] = "resolved"
                                    /\ conn'[cache'[j]] = "open"
                                    /\ inflight'[owner'[cache'[j]]] = None
      BY <1>m, <1>n DEF IInv, CacheInv
    <2>2. ASSUME NEW j \in 1..Len(cache'), NEW n \in 1..Len(cache'),
                 owner'[cache'[j]] = owner'[cache'[n]]
          PROVE  j = n
      <3>1. PICK l, m \in 1..Len(cache) : /\ cache'[j] = cache[l]
                                          /\ cache'[n] = cache[m]
                                          /\ l = m => j = n
        BY <1>m
      <3> QED
        BY <2>2, <3>1 DEF IInv, CacheInv
    <2> QED
      BY <2>1, <2>2 DEF CacheInv
  <1>5. TimerInv'
    <2> SUFFICES ASSUME NEW j \in 1..Len(cache'), NEW n \in 1..Len(cache'),
                        idleTimer'[cache'[j]] = idleTimer'[cache'[n]]
                 PROVE  j = n
      BY DEF TimerInv
    <2>1. PICK l, m \in 1..Len(cache) : /\ l # i /\ cache'[j] = cache[l]
                                        /\ m # i /\ cache'[n] = cache[m]
                                        /\ l = m => j = n
      BY <1>m
    <2>2. idleTimer[cache[l]] = idleTimer[cache[m]]
      BY <1>n, <2>1
    <2> QED
      BY <2>1, <2>2 DEF IInv, TimerInv
  <1>6. NoOrphanedPool'
    <2> SUFFICES ASSUME NEW q \in Request, load'[q] = "resolved", conn'[q] = "open"
                 PROVE  \E j \in 1..Len(cache') : cache'[j] = q
      BY DEF NoOrphanedPool, InCache
    <2>1. q # cache[i] /\ conn[q] = "open" /\ load[q] = "resolved"
      BY <1>1, <1>3
    <2>2. PICK m \in 1..Len(cache) : cache[m] = q
      BY <2>1 DEF IInv, NoOrphanedPool, InCache
    <2> QED
      BY <2>1, <2>2, <1>3
  <1>7. TimersMatchEntries'
    <2>1. ASSUME NEW j \in 1..Len(cache')
          PROVE  /\ idleTimer'[cache'[j]] \in Timer
                 /\ timer'[idleTimer'[cache'[j]]] = owner'[cache'[j]]
      <3>1. PICK m \in 1..Len(cache) : m # i /\ cache'[j] = cache[m]
        BY <1>3
      <3>2. idleTimer'[cache[m]] = idleTimer[cache[m]]
        BY <1>1, <1>2, <3>1, <1>3
      <3>3. idleTimer[cache[m]] # idleTimer[cache[i]]
        BY <3>1 DEF IInv, TimerInv
      <3>4. idleTimer[cache[m]] \in Timer /\ timer[idleTimer[cache[m]]] = owner[cache[m]]
        BY DEF IInv, TimersMatchEntries
      <3>5. timer'[idleTimer[cache[m]]] = timer[idleTimer[cache[m]]]
        BY <1>3, <3>3, <3>4 DEF Cleared
      <3> QED
        BY <3>1, <3>2, <3>4, <3>5
    <2>2. ASSUME NEW k \in Timer, timer'[k] # None
          PROVE  \E j \in 1..Len(cache') : idleTimer'[cache'[j]] = k
      <3>1. k # idleTimer[cache[i]] /\ timer[k] # None
        BY <1>1, <2>2, <1>3 DEF Cleared
      <3>2. PICK m \in 1..Len(cache) : idleTimer[cache[m]] = k
        BY <3>1 DEF IInv, TimersMatchEntries
      <3>3. m # i
        BY <3>1, <3>2
      <3>4. PICK j \in 1..Len(cache') : cache'[j] = cache[m]
        BY <3>3, <1>3
      <3> QED
        BY <1>n, <3>2, <3>3, <3>4
    <2> QED
      BY <2>1, <2>2 DEF TimersMatchEntries
  <1> QED
    BY <1>4, <1>5, <1>6, <1>7

-----------------------------------------------------------------------------
\* One step per action: each preserves the inductive invariant.
LEMMA StepInv == IInv /\ [Next]_vars => IInv'
  <1> SUFFICES ASSUME IInv, [Next]_vars
               PROVE  IInv'
    OBVIOUS
  <1> USE CacheSizeAssumption, NoneAssumption
  <1>h. ASSUME NEW r \in Request, NEW t \in Tenant, CallHit(r, t)
        PROVE  IInv'
    <2>1. PICK i \in 1..Len(cache), k \in Timer :
            /\ owner[cache[i]] = t
            /\ Cleared(timer, idleTimer[cache[i]])[k] = None
            /\ timer' = Armed(Cleared(timer, idleTimer[cache[i]]), k, t)
            /\ idleTimer' = [idleTimer EXCEPT ![cache[i]] = k]
            /\ cache' = Append(DeleteAt(cache, i), cache[i])
            /\ promise' = [promise EXCEPT ![r] = cache[i]]
      BY <1>h DEF CallHit, CachedAt
    <2> DEFINE p == cache[i]
    <2> DEFINE from(j) == IF j = Len(cache) THEN i ELSE IF j < i THEN j ELSE j + 1
    <2>2. /\ call[r] = "idle"
          /\ call' = [call EXCEPT ![r] = "waiting"]
          /\ tenantOf' = [tenantOf EXCEPT ![r] = t]
          /\ UNCHANGED <<inflight, owner, load, victim, conn>>
      BY <1>h DEF CallHit
    <2>3. /\ cache \in Seq(Request)
          /\ p \in Request
          /\ load[p] = "resolved"
          /\ \A m \in 1..Len(cache) : m # i => cache[m] # p
      BY DEF IInv, TypeOK, CacheInv
    <2>4. /\ cache' \in Seq(Request)
          /\ Len(cache') = Len(cache)
          /\ \A j \in 1..Len(cache) : from(j) \in 1..Len(cache) /\ cache'[j] = cache[from(j)]
          /\ \A m \in 1..Len(cache) : \E j \in 1..Len(cache) : cache'[j] = cache[m]
          /\ \A j, n \in 1..Len(cache) : from(j) = from(n) => j = n
      <3> DEFINE d == DeleteAt(cache, i)
      <3>1. /\ d \in Seq(Request)
            /\ Len(d) = Len(cache) - 1
            /\ \A j \in 1..(Len(cache) - 1) : d[j] = IF j < i THEN cache[j] ELSE cache[j + 1]
            /\ \A m \in 1..Len(cache) : m # i => \E j \in 1..(Len(cache) - 1) : d[j] = cache[m]
        BY <2>3, DeleteAtFacts
      <3>2. cache' = Append(d, p)
        BY <2>1
      <3> HIDE DEF d
      <3>3. /\ cache' \in Seq(Request)
            /\ Len(cache') = Len(cache)
            /\ \A j \in 1..(Len(cache) - 1) : cache'[j] = d[j]
            /\ cache'[Len(cache)] = p
        BY <3>1, <3>2, <2>3
      <3>4. \A j \in 1..Len(cache) : from(j) \in 1..Len(cache) /\ cache'[j] = cache[from(j)]
        BY <3>1, <3>3, <2>3
      <3>5. \A m \in 1..Len(cache) : \E j \in 1..Len(cache) : cache'[j] = cache[m]
        <4> TAKE m \in 1..Len(cache)
        <4>1. CASE m = i
          BY <3>3, <4>1, <2>3
        <4>2. CASE m # i
          <5>1. PICK j \in 1..(Len(cache) - 1) : d[j] = cache[m]
            BY <3>1, <4>2
          <5>2. j \in 1..Len(cache) /\ cache'[j] = cache[m]
            BY <5>1, <3>3, <2>3
          <5> QED
            BY <5>2
        <4> QED
          BY <4>1, <4>2
      <3>6. \A j, n \in 1..Len(cache) : from(j) = from(n) => j = n
        BY <2>3
      <3> QED
        BY <3>3, <3>4, <3>5, <3>6
    <2>f. ASSUME NEW j \in 1..Len(cache')
          PROVE  from(j) \in 1..Len(cache) /\ cache'[j] = cache[from(j)]
      BY <2>4
    <2>g. ASSUME NEW m \in 1..Len(cache)
          PROVE  \E j \in 1..Len(cache') : cache'[j] = cache[m]
      BY <2>4
    <2>e. ASSUME NEW j \in 1..Len(cache'), NEW n \in 1..Len(cache'), from(j) = from(n)
          PROVE  j = n
      BY <2>4, <2>e
    <2> HIDE DEF from
    <2>5. TypeOK' /\ CacheBounded'
      BY <2>1, <2>2, <2>3, <2>4 DEF IInv, TypeOK, CacheBounded, Cleared, Armed, CallPhase
    <2>6. LoadInv' /\ InflightIsUnsettled' /\ CallInv'
      BY <2>1, <2>2, <2>3 DEF IInv, TypeOK, LoadInv, InflightIsUnsettled, CallInv
    <2>7. CacheInv' /\ NoOrphanedPool'
      <3>1. ASSUME NEW j \in 1..Len(cache')
            PROVE  /\ load'[cache'[j]] = "resolved"
                   /\ conn'[cache'[j]] = "open"
                   /\ inflight'[owner'[cache'[j]]] = None
        <4>1. from(j) \in 1..Len(cache) /\ cache'[j] = cache[from(j)]
          BY <2>f
        <4> QED
          BY <2>2, <4>1 DEF IInv, CacheInv
      <3>2. ASSUME NEW j \in 1..Len(cache'), NEW n \in 1..Len(cache'),
                   owner'[cache'[j]] = owner'[cache'[n]]
            PROVE  j = n
        <4>1. /\ from(j) \in 1..Len(cache) /\ cache'[j] = cache[from(j)]
              /\ from(n) \in 1..Len(cache) /\ cache'[n] = cache[from(n)]
          BY <2>f
        <4>2. from(j) = from(n)
          BY <2>2, <4>1, <3>2 DEF IInv, CacheInv
        <4> QED
          BY <2>e, <4>2
      <3>3. CacheInv'
        BY <3>1, <3>2 DEF CacheInv
      <3>4. NoOrphanedPool'
        <4> SUFFICES ASSUME NEW q \in Request, load[q] = "resolved", conn[q] = "open"
                     PROVE  \E j \in 1..Len(cache') : cache'[j] = q
          BY <2>2 DEF NoOrphanedPool, InCache
        <4>1. PICK m \in 1..Len(cache) : cache[m] = q
          BY DEF IInv, NoOrphanedPool, InCache
        <4> QED
          BY <2>g, <4>1
      <3> QED
        BY <3>3, <3>4
    <2>8. /\ \A m \in 1..Len(cache) : idleTimer'[cache[m]] = IF m = i THEN k ELSE idleTimer[cache[m]]
          /\ \A m \in 1..Len(cache) : m # i => idleTimer[cache[m]] # k
          /\ \A x \in Timer : timer'[x] = IF x = k THEN t
                                           ELSE IF x = idleTimer[p] THEN None ELSE timer[x]
      <3>1. \A m \in 1..Len(cache) : m # i =>
              /\ idleTimer[cache[m]] \in Timer
              /\ idleTimer[cache[m]] # idleTimer[p]
              /\ timer[idleTimer[cache[m]]] = owner[cache[m]]
              /\ owner[cache[m]] \in Tenant
        BY <2>3 DEF IInv, TypeOK, LoadInv, CacheInv, TimerInv, TimersMatchEntries
      <3>2. \A m \in 1..Len(cache) : m # i => idleTimer[cache[m]] # k
        BY <3>1, <2>1 DEF Cleared
      <3>3. \A m \in 1..Len(cache) : idleTimer'[cache[m]] = IF m = i THEN k ELSE idleTimer[cache[m]]
        BY <2>1, <2>3 DEF IInv, TypeOK
      <3> QED
        BY <3>2, <3>3, <2>1 DEF Cleared, Armed
    <2>9. TimerInv'
      <3> SUFFICES ASSUME NEW j \in 1..Len(cache'), NEW n \in 1..Len(cache'),
                          idleTimer'[cache'[j]] = idleTimer'[cache'[n]]
                   PROVE  j = n
        BY DEF TimerInv
      <3>1. /\ from(j) \in 1..Len(cache) /\ cache'[j] = cache[from(j)]
            /\ from(n) \in 1..Len(cache) /\ cache'[n] = cache[from(n)]
        BY <2>f
      <3>2. from(j) = from(n)
        BY <2>8, <3>1 DEF IInv, TimerInv
      <3> QED
        BY <2>e, <3>2
    <2>10. TimersMatchEntries'
      <3>1. \A m \in 1..Len(cache) : /\ idleTimer'[cache[m]] \in Timer
                                     /\ timer'[idleTimer'[cache[m]]] = owner'[cache[m]]
        BY <2>1, <2>2, <2>8 DEF IInv, TimersMatchEntries, TimerInv
      <3>2. \A x \in Timer : timer'[x] # None =>
              \E m \in 1..Len(cache) : idleTimer'[cache[m]] = x
        BY <2>8 DEF IInv, TimersMatchEntries
      <3> QED
        <4>1. ASSUME NEW j \in 1..Len(cache')
              PROVE  /\ idleTimer'[cache'[j]] \in Timer
                     /\ timer'[idleTimer'[cache'[j]]] = owner'[cache'[j]]
          <5>1. from(j) \in 1..Len(cache) /\ cache'[j] = cache[from(j)]
            BY <2>f
          <5> QED
            BY <3>1, <5>1
        <4>2. ASSUME NEW x \in Timer, timer'[x] # None
              PROVE  \E j \in 1..Len(cache') : idleTimer'[cache'[j]] = x
          <5>1. PICK m \in 1..Len(cache) : idleTimer'[cache[m]] = x
            BY <3>2, <4>2
          <5>2. PICK j \in 1..Len(cache') : cache'[j] = cache[m]
            BY <2>g
          <5> QED
            BY <5>1, <5>2
        <4> QED
          BY <4>1, <4>2 DEF TimersMatchEntries
    <2> QED
      BY <2>5, <2>6, <2>7, <2>9, <2>10 DEF IInv
  <1>j. ASSUME NEW r \in Request, NEW t \in Tenant, CallJoin(r, t)
        PROVE  IInv'
    BY <1>j DEF CallJoin, IInv, TypeOK, CacheBounded, LoadInv, InflightIsUnsettled,
        CacheInv, NoOrphanedPool, InCache, TimersMatchEntries, TimerInv, CallInv,
        Cached, poolVars, CallPhase
  <1>l. ASSUME NEW r \in Request, NEW t \in Tenant, CallLoad(r, t)
        PROVE  IInv'
    BY <1>l DEF CallLoad, IInv, TypeOK, CacheBounded, LoadInv, InflightIsUnsettled,
        CacheInv, NoOrphanedPool, InCache, TimersMatchEntries, TimerInv, CallInv,
        Cached, CallPhase, LoadPhase
  <1>a. ASSUME NEW p \in Request, FetchResolves(p)
        PROVE  IInv'
    BY <1>a DEF FetchResolves, IInv, TypeOK, CacheBounded, LoadInv, InflightIsUnsettled,
        CacheInv, NoOrphanedPool, InCache, TimersMatchEntries, TimerInv, CallInv,
        callVars, LoadPhase, ConnPhase
  <1>b. ASSUME NEW p \in Request, FetchRejects(p)
        PROVE  IInv'
    BY <1>b DEF FetchRejects, IInv, TypeOK, CacheBounded, LoadInv, InflightIsUnsettled,
        CacheInv, NoOrphanedPool, InCache, TimersMatchEntries, TimerInv, CallInv,
        callVars, LoadPhase
  <1>c. ASSUME NEW p \in Request, EvictOldest(p)
        PROVE  IInv'
    <2>1. 1 \in 1..Len(cache) /\ EvictAt(1, timer)
      BY <1>c DEF EvictOldest, Full, IInv, TypeOK
    <2> DEFINE v == cache[1]
    <2>2. v \in Request /\ load[v] = "resolved"
      BY <2>1 DEF IInv, TypeOK, CacheInv
    <2>3. /\ load[p] = "checking"
          /\ load' = [load EXCEPT ![p] = "evicting"]
          /\ victim' = [victim EXCEPT ![p] = v]
          /\ UNCHANGED <<inflight, owner, call, tenantOf, promise>>
      BY <1>c DEF EvictOldest, callVars
    <2>4. TypeOK' /\ CacheBounded'
      BY <2>1, <2>2, <2>3, EvictFacts DEF IInv, TypeOK, CacheBounded, LoadPhase
    <2>5. LoadInv' /\ InflightIsUnsettled' /\ CallInv'
      BY <2>1, <2>2, <2>3, EvictFacts DEF IInv, TypeOK, LoadInv, InflightIsUnsettled, CallInv
    <2>6. CacheInv' /\ TimerInv' /\ NoOrphanedPool' /\ TimersMatchEntries'
      <3>1. \A q \in Request : q # p => load'[q] = load[q]
        BY <2>3 DEF IInv, TypeOK
      <3>2. \A m \in 1..Len(cache) : cache[m] # p
        BY <2>3 DEF IInv, CacheInv
      <3> QED
        BY <2>1, <2>2, <2>3, <3>1, <3>2, EvictKeepsOthers DEF IInv, TypeOK
    <2> QED
      BY <2>4, <2>5, <2>6 DEF IInv
  <1>d. ASSUME NEW p \in Request, EvictReturns(p)
        PROVE  IInv'
    BY <1>d DEF EvictReturns, IInv, TypeOK, CacheBounded, LoadInv, InflightIsUnsettled,
        CacheInv, NoOrphanedPool, InCache, TimersMatchEntries, TimerInv, CallInv,
        callVars, LoadPhase
  <1>e. ASSUME NEW p \in Request, Install(p)
        PROVE  IInv'
    <2>1. /\ load[p] = "checking"
          /\ ~Full
          /\ cache' = SetEntry(p)
          /\ inflight' = [inflight EXCEPT ![owner[p]] = None]
          /\ load' = [load EXCEPT ![p] = "resolved"]
          /\ UNCHANGED <<owner, victim, conn, call, tenantOf, promise>>
      BY <1>e DEF Install, callVars
    <2>2. PICK k \in Timer : /\ timer[k] = None
                             /\ timer' = Armed(timer, k, owner[p])
                             /\ idleTimer' = [idleTimer EXCEPT ![p] = k]
      BY <1>e DEF Install
    <2>3. owner[p] \in Tenant /\ inflight[owner[p]] = p /\ conn[p] = "open"
      BY <2>1 DEF IInv, TypeOK, LoadInv, InflightIsUnsettled
    <2>4. ~Cached(owner[p])
      BY <2>3, NoneAssumption DEF Cached, IInv, CacheInv
    <2>5. /\ cache \in Seq(Request)
          /\ \A m \in 1..Len(cache) : cache[m] \in Request /\ cache[m] # p
          /\ cache' = Append(cache, p)
      BY <2>1, <2>4 DEF SetEntry, IInv, TypeOK, CacheInv
    <2>6. /\ cache' \in Seq(Request)
          /\ Len(cache') = Len(cache) + 1
          /\ \A m \in 1..Len(cache) : m \in 1..Len(cache') /\ cache'[m] = cache[m]
          /\ Len(cache') \in 1..Len(cache') /\ cache'[Len(cache')] = p
          /\ \A j \in 1..Len(cache') : j = Len(cache') \/ j \in 1..Len(cache)
      BY <2>5
    <2>7. TypeOK' /\ CacheBounded'
      BY <2>1, <2>2, <2>3, <2>6 DEF IInv, TypeOK, CacheBounded, Full, Armed, LoadPhase
    <2>8. LoadInv' /\ InflightIsUnsettled' /\ CallInv'
      BY <2>1, <2>3 DEF IInv, TypeOK, LoadInv, InflightIsUnsettled, CallInv
    <2>9. CacheInv'
      <3>1. \A m \in 1..Len(cache) : owner[cache[m]] # owner[p]
        BY <2>4 DEF Cached
      <3>2. \A j \in 1..Len(cache') : /\ load'[cache'[j]] = "resolved"
                                      /\ conn'[cache'[j]] = "open"
                                      /\ inflight'[owner'[cache'[j]]] = None
        <4>1. ASSUME NEW m \in 1..Len(cache)
              PROVE  /\ load'[cache[m]] = "resolved"
                     /\ conn'[cache[m]] = "open"
                     /\ inflight'[owner'[cache[m]]] = None
          BY <2>1, <2>3, <2>5, <3>1 DEF IInv, TypeOK, CacheInv
        <4>2. load'[p] = "resolved" /\ conn'[p] = "open" /\ inflight'[owner'[p]] = None
          BY <2>1, <2>3 DEF IInv, TypeOK
        <4> QED
          BY <2>6, <4>1, <4>2
      <3>3. \A i, j \in 1..Len(cache') : owner'[cache'[i]] = owner'[cache'[j]] => i = j
        BY <2>1, <2>6, <3>1 DEF IInv, CacheInv
      <3> QED
        BY <3>2, <3>3 DEF CacheInv
    <2>10. NoOrphanedPool'
      <3> SUFFICES ASSUME NEW q \in Request, load'[q] = "resolved", conn'[q] = "open"
                   PROVE  \E j \in 1..Len(cache') : cache'[j] = q
        BY DEF NoOrphanedPool, InCache
      <3>1. CASE q = p
        BY <2>6, <3>1
      <3>2. CASE q # p
        <4>1. load[q] = "resolved" /\ conn[q] = "open"
          BY <2>1, <3>2 DEF IInv, TypeOK
        <4>2. PICK m \in 1..Len(cache) : cache[m] = q
          BY <4>1 DEF IInv, NoOrphanedPool, InCache
        <4> QED
          BY <2>6, <4>2
      <3> QED
        BY <3>1, <3>2
    <2>11. /\ idleTimer'[p] = k
           /\ \A m \in 1..Len(cache) : /\ idleTimer'[cache[m]] = idleTimer[cache[m]]
                                        /\ idleTimer[cache[m]] \in Timer
                                        /\ idleTimer[cache[m]] # k
           /\ \A x \in Timer : timer'[x] = IF x = k THEN owner[p] ELSE timer[x]
      <3>1. \A m \in 1..Len(cache) : owner[cache[m]] \in Tenant
        BY <2>5 DEF IInv, LoadInv, CacheInv
      <3>2. \A m \in 1..Len(cache) : idleTimer[cache[m]] \in Timer /\ idleTimer[cache[m]] # k
        BY <2>2, <3>1 DEF IInv, TimersMatchEntries
      <3>3. idleTimer'[p] = k /\ \A m \in 1..Len(cache) : idleTimer'[cache[m]] = idleTimer[cache[m]]
        BY <2>2, <2>5 DEF IInv, TypeOK
      <3> QED
        BY <3>2, <3>3, <2>2 DEF Armed, IInv, TypeOK
    <2>12. TimerInv'
      BY <2>6, <2>11 DEF IInv, TimerInv
    <2>13. TimersMatchEntries'
      <3>1. \A j \in 1..Len(cache') : /\ idleTimer'[cache'[j]] \in Timer
                                      /\ timer'[idleTimer'[cache'[j]]] = owner'[cache'[j]]
        BY <2>1, <2>6, <2>11 DEF IInv, TimersMatchEntries
      <3>2. \A x \in Timer : timer'[x] # None => \E j \in 1..Len(cache') : idleTimer'[cache'[j]] = x
        BY <2>6, <2>11 DEF IInv, TimersMatchEntries
      <3> QED
        BY <3>1, <3>2 DEF TimersMatchEntries
    <2> QED
      BY <2>7, <2>8, <2>9, <2>10, <2>12, <2>13 DEF IInv
  <1>f. ASSUME NEW p \in Request, Drain(p) \/ EndRejects(p)
        PROVE  IInv'
    <2>1. PICK c \in {"ended", "abandoned"} :
              conn[p] = "ending" /\ conn' = [conn EXCEPT ![p] = c]
      BY <1>f DEF Drain, EndRejects
    <2>2. UNCHANGED <<cache, inflight, owner, load, victim, timer, idleTimer, call, tenantOf, promise>>
      BY <1>f DEF Drain, EndRejects, callVars
    <2> QED
      BY <2>1, <2>2 DEF IInv, TypeOK, CacheBounded, LoadInv, InflightIsUnsettled, CacheInv,
        NoOrphanedPool, InCache, TimersMatchEntries, TimerInv, CallInv, ConnPhase
  <1>g. ASSUME NEW r \in Request, CallerStep(r)
        PROVE  IInv'
    <2>1. PICK c \in {"holding", "querying", "done", "failed"} :
              call[r] # "idle" /\ call' = [call EXCEPT ![r] = c]
      BY <1>g DEF CallerStep, Resume, StartQuery, FinishQuery, FinishRequest
    <2>2. UNCHANGED <<poolVars, tenantOf, promise>>
      BY <1>g DEF CallerStep, Resume, StartQuery, FinishQuery, FinishRequest
    <2> QED
      BY <2>1, <2>2 DEF IInv, TypeOK, CacheBounded, LoadInv, InflightIsUnsettled, CacheInv,
        NoOrphanedPool, InCache, TimersMatchEntries, TimerInv, CallInv, poolVars, CallPhase
  <1>i. ASSUME NEW k \in Timer, IdleTimeout(k)
        PROVE  IInv'
    <2>1. PICK i \in 1..Len(cache) : idleTimer[cache[i]] = k /\ owner[cache[i]] = timer[k]
      BY <1>i DEF IdleTimeout, IInv, TimersMatchEntries
    <2>2. EvictAt(i, Cleared(timer, idleTimer[cache[i]]))
      <3>1. Cached(timer[k])
        BY <2>1 DEF Cached
      <3>2. PICK n \in 1..Len(cache) : CachedAt(n, timer[k]) /\ EvictAt(n, Cleared(timer, k))
        BY <1>i, <3>1 DEF IdleTimeout
      <3>3. n = i
        BY <2>1, <3>2 DEF CachedAt, IInv, CacheInv
      <3> QED
        BY <2>1, <3>2, <3>3
    <2>3. UNCHANGED <<inflight, owner, load, victim, call, tenantOf, promise>>
      BY <1>i DEF IdleTimeout, callVars
    <2>4. TypeOK' /\ CacheBounded'
      BY <2>2, <2>3, EvictFacts DEF IInv, TypeOK, CacheBounded
    <2>5. cache[i] \in Request /\ load[cache[i]] = "resolved"
      BY DEF IInv, TypeOK, CacheInv
    <2>6. LoadInv' /\ InflightIsUnsettled' /\ CallInv'
      BY <2>2, <2>3, <2>5, EvictFacts DEF IInv, TypeOK, LoadInv, InflightIsUnsettled, CallInv
    <2>7. CacheInv' /\ TimerInv' /\ NoOrphanedPool' /\ TimersMatchEntries'
      BY <2>2, <2>3, <2>5, EvictKeepsOthers DEF IInv, TypeOK
    <2> QED
      BY <2>4, <2>6, <2>7 DEF IInv
  <1>u. CASE UNCHANGED vars
    BY <1>u DEF vars, poolVars, callVars, IInv, TypeOK, CacheBounded, LoadInv,
        InflightIsUnsettled, CacheInv, NoOrphanedPool, InCache, TimersMatchEntries,
        TimerInv, CallInv
  <1> QED
    BY <1>h, <1>j, <1>l, <1>a, <1>b, <1>c, <1>d, <1>e, <1>f, <1>g, <1>i, <1>u
        DEF Next, PoolForTenant, LoadStep

-----------------------------------------------------------------------------
\* The inductive invariant holds in every reachable state of the factory.
THEOREM Invariance == Spec => []IInv
  <1>1. Init => IInv
    BY CacheSizeAssumption, NoneAssumption DEF Init, IInv, TypeOK, CacheBounded, LoadInv,
        InflightIsUnsettled, CacheInv, NoOrphanedPool, TimersMatchEntries, TimerInv, CallInv,
        LoadPhase, ConnPhase, CallPhase
  <1> QED
    BY <1>1, StepInv, PTL DEF Spec

\* Type correctness of the pool factory.
THEOREM TypeCorrect == Spec => []TypeOK
  <1>1. IInv => TypeOK
    BY DEF IInv
  <1> QED
    BY <1>1, Invariance, PTL

\* The cache never exceeds its size, whatever loads overlap in their awaits.
THEOREM CacheIsBounded == Spec => []CacheBounded
  <1>1. IInv => CacheBounded
    BY DEF IInv
  <1> QED
    BY <1>1, Invariance, PTL

\* Racing callers of one tenant share one pool: never two live pools of one
\* tenant.
THEOREM SinglePool == Spec => []OneLivePoolPerTenant
  <1>1. IInv => OneLivePoolPerTenant
    <2> SUFFICES ASSUME IInv, NEW p \in Request, NEW q \in Request,
                        Live(p), Live(q), owner[p] = owner[q]
                 PROVE  p = q
      BY DEF OneLivePoolPerTenant
    <2> DEFINE unsettled(x) == load[x] \in {"fetching", "checking", "evicting"}
    <2>1. ASSUME NEW x \in Request, unsettled(x)
          PROVE  owner[x] \in Tenant /\ inflight[owner[x]] = x
      BY <2>1 DEF IInv, LoadInv, InflightIsUnsettled
    <2>2. ASSUME NEW x \in Request, InCache(x)
          PROVE  inflight[owner[x]] = None
      BY <2>2 DEF IInv, CacheInv, InCache
    <2>3. CASE InCache(p) /\ InCache(q)
      BY <2>3 DEF IInv, CacheInv, InCache
    <2>4. CASE unsettled(p) /\ unsettled(q)
      <3>1. inflight[owner[p]] = p /\ inflight[owner[q]] = q
        BY <2>1, <2>4
      <3> QED
        BY <3>1
    <2>5. CASE InCache(p) /\ unsettled(q)
      BY <2>1, <2>2, <2>5, NoneAssumption
    <2>6. CASE unsettled(p) /\ InCache(q)
      BY <2>1, <2>2, <2>6, NoneAssumption
    <2> QED
      BY <2>3, <2>4, <2>5, <2>6 DEF Live
  <1> QED
    BY <1>1, Invariance, PTL

\* No pool is leaked and none is handed out after end(): an open, settled pool
\* is cached, and a cached pool is open.
THEOREM NoLeak == Spec => []OpenWhileCached
  <1>1. IInv => OpenWhileCached
    BY DEF IInv, CacheInv, CachedPoolsAreOpen, OpenWhileCached
  <1> QED
    BY <1>1, Invariance, PTL

\* The in-flight promise of a tenant is its unsettled load, so nobody joins a
\* load that has failed.
THEOREM InflightMatches == Spec => []InflightIsUnsettled
  <1>1. IInv => InflightIsUnsettled
    BY DEF IInv
  <1> QED
    BY <1>1, Invariance, PTL

\* Timers and entries match one to one, so no stale timer evicts a later pool.
THEOREM TimersMatch == Spec => []TimersMatchEntries
  <1>1. IInv => TimersMatchEntries
    BY DEF IInv
  <1> QED
    BY <1>1, Invariance, PTL

\* A request only ever reaches the pool of the tenant it asked for.
THEOREM Isolation == Spec => []TenantIsolation
  <1>1. IInv => TenantIsolation
    BY DEF IInv, CallInv, TenantIsolation
  <1> QED
    BY <1>1, Invariance, PTL
=============================================================================
