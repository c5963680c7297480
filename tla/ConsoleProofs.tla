---------------------------- MODULE ConsoleProofs ----------------------------
(***************************************************************************)
(* Proofs about Console, for any users, groups, principals, roles, audited *)
(* calls, streams and bounds: first the Principals page, then the audit    *)
(* history, then the document that mounts them.                            *)
(*                                                                         *)
(* The inductive invariant adds to the properties what they rest on.  On   *)
(* the Principals page a list that is not being loaded holds the answer    *)
(* for its key, and after a write of a group the groups list is either     *)
(* being loaded since the write or was loaded since; a write of an earlier *)
(* visit may overtake either.  On the Audit page                           *)
(* the rows of base are in the log and match the form, and the cursor of a *)
(* page that is being loaded is the time of a row that is listed already.  *)
(***************************************************************************)
EXTENDS Console, TLAPS, FiniteSetTheorems

-----------------------------------------------------------------------------
(* The Principals page.                                                    *)

\* An answer that is kept was asked for by the key that is still selected.
ValueIsOfKey ==
    \A l \in List :
        res[l].load = "none" /\ res[l].key # NoKey /\ res[l].value # Failed
            => res[l].value.of = res[l].key

\* The groups list holds, or failed to get, what was read since the write.
GroupsFresh == res["groups"].value = Failed \/ res["groups"].value.state \in {"fresh", "behind"}

\* What a load may have read that was asked for after the write.
ReadSince == {"sent", "fresh", "behind"}

GroupWrites ==
    /\ res["groups"].key # NoKey
    /\ act["group"].phase = "refetch" => res["groups"].load \in ReadSince
    /\ act["group"].phase = "superseded" =>
          \/ res["groups"].load \in ReadSince
          \/ res["groups"].load = "none" /\ GroupsFresh
    /\ act["group"] = Done(FALSE) =>
          /\ res["groups"].load # "stale"
          /\ res["groups"].load = "none" => GroupsFresh

PrincipalsInv == PrincipalsTypeOK /\ ValueIsOfKey /\ PendingIsSelected /\ GroupWrites

-----------------------------------------------------------------------------
LEMMA Keys ==
    /\ KeyOf("users") = {All} /\ KeyOf("groups") = {All}
    /\ KeyOf("roles") = PRINCIPALS /\ KeyOf("members") = GROUPS
    /\ KeyOf("expanded") = ROLES
    /\ ListOf("group") = "groups" /\ ListOf("role") = "roles"
    /\ ListOf("member") = "members" /\ ListOf("user") = "users"
BY DEF KeyOf, ListOf

\* What the operations of a resource do to its parts.
LEMMA LoadOf ==
    ASSUME NEW K, NEW r \in Resource(K), NEW k \in K \cup {NoKey}
    PROVE  /\ Load(r, k) \in Resource(K)
           /\ Load(r, k).key = k
           /\ k # NoKey => Load(r, k).load = "sent"
BY DEF Load, Resource, LoadState, ValueState, NoValue

LEMMA CreatedOf ==
    ASSUME NEW K, NEW k \in K \cup {NoKey}
    PROVE  /\ Created(k) \in Resource(K)
           /\ Created(k).key = k
           /\ k # NoKey => Created(k).load = "sent"
BY DEF Created, Resource, LoadState, ValueState, NoValue

LEMMA SettledOf ==
    ASSUME NEW K, NEW r \in Resource(K)
    PROVE  /\ Landed(r) \in Resource(K) /\ Errored(r) \in Resource(K)
           /\ Landed(r).key = r.key /\ Errored(r).key = r.key
           /\ Landed(r).load = "none" /\ Errored(r).load = "none"
           /\ Landed(r).value.of = r.key /\ Errored(r).value = Failed
           /\ r.load \in ReadSince => Landed(r).value.state \in {"fresh", "behind"}
BY DEF Landed, Errored, Failed, Resource, LoadState, ValueState, ReadSince

LEMMA ReadOf ==
    ASSUME NEW K, NEW r \in Resource(K)
    PROVE  Read(r) \in Resource(K) /\ Read(r).key = r.key /\ Read(r).load = "fresh"
           /\ Read(r).value = r.value
BY DEF Read, Resource, LoadState, ValueState

LEMMA OutdatedOf ==
    ASSUME NEW K, NEW r \in Resource(K), NEW w \in {"behind", "stale"}
    PROVE  /\ Outdated(r, w) \in Resource(K)
           /\ Outdated(r, w).key = r.key
           /\ (Outdated(r, w).load = "none") <=> (r.load = "none")
           /\ Outdated(r, w).value.of = r.value.of
           /\ r.value # Failed => Outdated(r, w).value # Failed
           /\ r.value = Failed => Outdated(r, w).value = Failed
           /\ w = "behind" =>
                 /\ r.load \in ReadSince => Outdated(r, w).load \in ReadSince
                 /\ r.load # "stale" => Outdated(r, w).load # "stale"
                 /\ r.value.state \in {"fresh", "behind"} =>
                       Outdated(r, w).value.state \in {"fresh", "behind"}
<1>1. Older(r.load, w) \in LoadState /\ Older(r.value.state, w) \in ValueState
  BY DEF Older, Resource, LoadState, ValueState
<1>2. (Older(r.load, w) = "none") <=> (r.load = "none")
  BY DEF Older
<1>3. (Older(r.value.state, w) = "error") <=> (r.value.state = "error")
  BY DEF Older
<1>4. /\ r.value = [of |-> r.value.of, state |-> r.value.state]
      /\ r.key \in K \cup {NoKey} /\ r.value.of \in K \cup {NoKey}
  BY DEF Resource
<1>5. /\ Outdated(r, w).key = r.key /\ Outdated(r, w).load = Older(r.load, w)
      /\ Outdated(r, w).value.of = r.value.of
      /\ Outdated(r, w).value.state = Older(r.value.state, w)
  BY DEF Outdated
<1>6. Outdated(r, w) \in Resource(K)
  BY <1>1, <1>4 DEF Outdated, Resource
<1>7. r.value # Failed => Outdated(r, w).value # Failed
  BY <1>3, <1>4 DEF Outdated, Failed
<1>8. r.value = Failed => Outdated(r, w).value = Failed
  BY <1>3, <1>4 DEF Outdated, Failed
<1>9. (Outdated(r, w).load = "none") <=> (r.load = "none")
  BY <1>2, <1>5
<1>10. w = "behind" =>
          /\ r.load \in ReadSince => Outdated(r, w).load \in ReadSince
          /\ r.load # "stale" => Outdated(r, w).load # "stale"
          /\ r.value.state \in {"fresh", "behind"} =>
                Outdated(r, w).value.state \in {"fresh", "behind"}
  BY <1>5 DEF Older, ReadSince
<1> QED BY <1>5, <1>6, <1>7, <1>8, <1>9, <1>10

-----------------------------------------------------------------------------
(* One lemma per kind of step.                                             *)

\* The source of a list changes, while no mutation needs what was selected.
LEMMA SelectKeeps ==
    ASSUME PrincipalsInv,
           NEW l \in {"roles", "members", "expanded"}, NEW k \in KeyOf(l) \cup {NoKey},
           Select(l, k),
           l = "roles" => ~Pending("role"),
           l = "members" => ~Pending("member")
    PROVE  PrincipalsInv'
<1>1. Load(res[l], k) \in Resource(KeyOf(l)) /\ Load(res[l], k).key = k
      /\ (k # NoKey => Load(res[l], k).load = "sent")
  BY LoadOf DEF PrincipalsInv, PrincipalsTypeOK, List
<1>2. PrincipalsTypeOK'
  BY <1>1 DEF PrincipalsInv, PrincipalsTypeOK, Select, List
<1>3. ValueIsOfKey'
  BY <1>1 DEF PrincipalsInv, PrincipalsTypeOK, ValueIsOfKey, Select, List
<1>4. PendingIsSelected'
  BY <1>1, Keys DEF PrincipalsInv, PrincipalsTypeOK, PendingIsSelected, Pending, Select, List
<1>5. GroupWrites'
  BY DEF PrincipalsInv, PrincipalsTypeOK, GroupWrites, GroupsFresh, Select, List
<1> QED BY <1>2, <1>3, <1>4, <1>5 DEF PrincipalsInv

\* A mutation starts on what is selected.
LEMMA BeginKeeps ==
    ASSUME PrincipalsInv, NEW f \in Family, NEW k \in Target, Begin(f, k),
           f \in {"role", "member"} => k # NoKey /\ k = res[ListOf(f)].key,
           f = "user" => k = selectedUser
    PROVE  PrincipalsInv'
<1>1. PrincipalsTypeOK'
  BY DEF PrincipalsInv, PrincipalsTypeOK, Begin, Action, Phase
<1>2. ValueIsOfKey'
  BY DEF PrincipalsInv, ValueIsOfKey, Begin
<1>3. PendingIsSelected'
  BY DEF PrincipalsInv, PrincipalsTypeOK, PendingIsSelected, Pending, Begin, Action, Family
<1>4. GroupWrites'
  BY DEF PrincipalsInv, PrincipalsTypeOK, GroupWrites, GroupsFresh, Begin, Done, Action, Family
<1> QED BY <1>1, <1>2, <1>3, <1>4 DEF PrincipalsInv

\* A mutation of a family ends, and nothing else changes; for groups, either
\* with an error or after a refetch that another one superseded.
LEMMA EndKeeps ==
    ASSUME PrincipalsInv, NEW f \in Family, NEW e \in BOOLEAN,
           act' = [act EXCEPT ![f] = Done(e)], UNCHANGED <<tab, res, selectedUser>>,
           late' \in 0..MAX_LATE,
           f = "group" => e = TRUE \/ act[f].phase = "superseded"
    PROVE  PrincipalsInv'
<1>1. Done(e) \in Action /\ Done(e).phase = "idle"
  BY DEF Done, Action, Phase, Target
<1>2. PrincipalsTypeOK'
  BY <1>1 DEF PrincipalsInv, PrincipalsTypeOK
<1>3. ValueIsOfKey'
  BY DEF PrincipalsInv, ValueIsOfKey
<1>4. PendingIsSelected'
  BY <1>1 DEF PrincipalsInv, PrincipalsTypeOK, PendingIsSelected, Pending, Family
<1>5. GroupWrites'
  <2>1. CASE f = "group" /\ e = TRUE
    BY <2>1, <1>1 DEF PrincipalsInv, PrincipalsTypeOK, GroupWrites, GroupsFresh, Done, Family
  <2>2. CASE f = "group" /\ act[f].phase = "superseded"
    BY <2>2, <1>1 DEF PrincipalsInv, PrincipalsTypeOK, GroupWrites, GroupsFresh, ReadSince, Done, Family
  <2>3. CASE f # "group"
    BY <2>3 DEF PrincipalsInv, PrincipalsTypeOK, GroupWrites, GroupsFresh, Family
  <2> QED BY <2>1, <2>2, <2>3
<1> QED BY <1>2, <1>3, <1>4, <1>5 DEF PrincipalsInv

\* createGroup or deleteGroup writes the table.
LEMMA CommitKeeps == ASSUME PrincipalsInv, CommitGroup PROVE PrincipalsInv'
<1> DEFINE r == Outdated(res["groups"], "stale")
<1>1. /\ r \in Resource(KeyOf("groups"))
      /\ r.key = res["groups"].key
      /\ (r.load = "none") <=> (res["groups"].load = "none")
      /\ r.value.of = res["groups"].value.of
      /\ res["groups"].value # Failed => r.value # Failed
      /\ res["groups"].value = Failed => r.value = Failed
  BY OutdatedOf DEF PrincipalsInv, PrincipalsTypeOK, List
<1>2. PrincipalsTypeOK'
  BY <1>1 DEF PrincipalsInv, PrincipalsTypeOK, CommitGroup, List, Family, Action, Phase
<1>3. ValueIsOfKey'
  BY <1>1 DEF PrincipalsInv, PrincipalsTypeOK, ValueIsOfKey, CommitGroup, List
<1>4. PendingIsSelected'
  BY <1>1, Keys DEF PrincipalsInv, PrincipalsTypeOK, PendingIsSelected, Pending, CommitGroup,
                    List, Family
<1>5. GroupWrites'
  BY <1>1 DEF PrincipalsInv, PrincipalsTypeOK, GroupWrites, CommitGroup, Done, List, Family
<1> QED BY <1>2, <1>3, <1>4, <1>5 DEF PrincipalsInv

\* A write of an earlier visit arrives: what was read since the last write of
\* this visit was still read since.
LEMMA LateKeeps == ASSUME PrincipalsInv, LateGroupWrite PROVE PrincipalsInv'
<1> USE PrincipalsAssumption
<1>1. late' \in 0..MAX_LATE /\ UNCHANGED <<tab, selectedUser, act>>
  BY DEF LateGroupWrite, PrincipalsInv, PrincipalsTypeOK
<1>2. CASE UNCHANGED res
  BY <1>1, <1>2 DEF PrincipalsInv, PrincipalsTypeOK, ValueIsOfKey, PendingIsSelected, Pending,
                    GroupWrites, GroupsFresh
<1>3. CASE res' = [res EXCEPT !["groups"] = Outdated(@, "behind")]
  <2> DEFINE r == Outdated(res["groups"], "behind")
  <2>1. /\ r \in Resource(KeyOf("groups"))
        /\ r.key = res["groups"].key
        /\ (r.load = "none") <=> (res["groups"].load = "none")
        /\ r.value.of = res["groups"].value.of
        /\ res["groups"].value # Failed => r.value # Failed
        /\ res["groups"].value = Failed => r.value = Failed
        /\ res["groups"].load \in ReadSince => r.load \in ReadSince
        /\ res["groups"].load # "stale" => r.load # "stale"
        /\ res["groups"].value.state \in {"fresh", "behind"} => r.value.state \in {"fresh", "behind"}
    BY OutdatedOf DEF PrincipalsInv, PrincipalsTypeOK, List
  <2>2. res'["groups"] = r /\ \A l \in List : l # "groups" => res'[l] = res[l]
    BY <1>3 DEF PrincipalsInv, PrincipalsTypeOK, List
  <2> HIDE DEF r
  <2>3. PrincipalsTypeOK'
    BY <1>1, <1>3, <2>1, <2>2 DEF PrincipalsInv, PrincipalsTypeOK, List
  <2>4. ValueIsOfKey'
    BY <2>1, <2>2 DEF PrincipalsInv, ValueIsOfKey, List
  <2>5. PendingIsSelected'
    BY <1>1, <2>1, <2>2, Keys DEF PrincipalsInv, PendingIsSelected, Pending, List, Family
  <2>6. GroupWrites'
    BY <1>1, <2>1, <2>2 DEF PrincipalsInv, GroupWrites, GroupsFresh
  <2> QED BY <2>3, <2>4, <2>5, <2>6 DEF PrincipalsInv
<1> QED BY <1>2, <1>3 DEF LateGroupWrite

\* The answer to a mutation arrives.
LEMMA SucceedsKeeps ==
    ASSUME PrincipalsInv, NEW f \in Family, MutationSucceeds(f) PROVE PrincipalsInv'
<1>1. CASE f = "user"
  BY <1>1, EndKeeps DEF MutationSucceeds, PrincipalsInv, PrincipalsTypeOK
<1>2. CASE f # "user"
  <2> DEFINE l == ListOf(f)
  <2>1. l \in List /\ res[l] \in Resource(KeyOf(l)) /\ res[l].key \in KeyOf(l) \cup {NoKey}
    BY <1>2, Keys DEF PrincipalsInv, PrincipalsTypeOK, List, Family, Resource
  <2>2. /\ Load(res[l], res[l].key) \in Resource(KeyOf(l))
        /\ Load(res[l], res[l].key).key = res[l].key
        /\ res[l].key # NoKey => Load(res[l], res[l].key).load = "sent"
    BY <2>1, LoadOf
  <2>3. /\ act' = [act EXCEPT ![f].phase = "refetch"]
        /\ res' = [res EXCEPT ![l] = Load(res[l], res[l].key)]
        /\ UNCHANGED <<tab, selectedUser, late>>
        /\ act[f].phase # "idle"
    BY <1>2 DEF MutationSucceeds
  <2>4. f = "group" => l = "groups"
    BY Keys
  <2>5. f # "group" => l # "groups"
    BY <1>2, Keys DEF Family
  <2> HIDE DEF l
  <2>6. PrincipalsTypeOK'
    BY <2>1, <2>2, <2>3 DEF PrincipalsInv, PrincipalsTypeOK, Action, Phase
  <2>7. ValueIsOfKey'
    BY <2>1, <2>2, <2>3 DEF PrincipalsInv, PrincipalsTypeOK, ValueIsOfKey
  <2>8. PendingIsSelected'
    BY <2>1, <2>2, <2>3, Keys DEF PrincipalsInv, PrincipalsTypeOK, PendingIsSelected, Pending,
                                  Family, List, Action
  <2>9. GroupWrites'
    BY <2>1, <2>2, <2>3, <2>4, <2>5
    DEF PrincipalsInv, PrincipalsTypeOK, GroupWrites, GroupsFresh, ReadSince, Done, Family, List, Action
  <2> QED BY <2>6, <2>7, <2>8, <2>9 DEF PrincipalsInv
<1> QED BY <1>1, <1>2

LEMMA ReadKeeps == ASSUME PrincipalsInv, ReadGroups PROVE PrincipalsInv'
<1>1. /\ Read(res["groups"]) \in Resource(KeyOf("groups"))
      /\ Read(res["groups"]).key = res["groups"].key
      /\ Read(res["groups"]).load = "fresh"
      /\ Read(res["groups"]).value = res["groups"].value
  BY ReadOf DEF PrincipalsInv, PrincipalsTypeOK, List
<1>2. PrincipalsTypeOK'
  BY <1>1 DEF PrincipalsInv, PrincipalsTypeOK, ReadGroups, List
<1>3. ValueIsOfKey'
  BY <1>1 DEF PrincipalsInv, PrincipalsTypeOK, ValueIsOfKey, ReadGroups, List
<1>4. PendingIsSelected'
  BY <1>1, Keys DEF PrincipalsInv, PrincipalsTypeOK, PendingIsSelected, Pending, ReadGroups,
                    List, Family
<1>5. GroupWrites'
  BY <1>1 DEF PrincipalsInv, PrincipalsTypeOK, GroupWrites, ReadSince, ReadGroups, List, Family
<1> QED BY <1>2, <1>3, <1>4, <1>5 DEF PrincipalsInv

\* The current load of a list settles.
LEMMA SettleKeeps ==
    ASSUME PrincipalsInv, NEW l \in List, Settle(l) PROVE PrincipalsInv'
<1>1. PICK v \in {Landed(res[l]), Errored(res[l])} : res' = [res EXCEPT ![l] = v]
  BY DEF Settle
<1>2. /\ v \in Resource(KeyOf(l)) /\ v.key = res[l].key /\ v.load = "none"
      /\ v.value.of = res[l].key \/ v.value = Failed
      /\ res[l].load \in ReadSince => v.value.state \in {"fresh", "behind"} \/ v.value = Failed
  BY <1>1, SettledOf DEF PrincipalsInv, PrincipalsTypeOK
<1>3. act' = [f \in Family |->
                 IF act[f].phase = "refetch" /\ ListOf(f) = l THEN Done(FALSE) ELSE act[f]]
      /\ UNCHANGED <<tab, selectedUser, late>> /\ Loading(res[l])
      /\ (l = "groups" => res[l].load # "sent")
  BY DEF Settle
<1>4. Done(FALSE) \in Action /\ Done(FALSE).phase = "idle"
  BY DEF Done, Action, Phase, Target
<1>5. PrincipalsTypeOK'
  BY <1>1, <1>2, <1>3, <1>4 DEF PrincipalsInv, PrincipalsTypeOK
<1>6. ValueIsOfKey'
  BY <1>1, <1>2 DEF PrincipalsInv, PrincipalsTypeOK, ValueIsOfKey
<1>7. PendingIsSelected'
  <2>1. \A m \in List : res'[m].key = res[m].key
    BY <1>1, <1>2 DEF PrincipalsInv, PrincipalsTypeOK
  <2>2. \A f \in Family : act'[f] = act[f] \/ act'[f].phase = "idle"
    BY <1>3, <1>4
  <2>3. \A f \in Family : Pending(f)' => Pending(f) /\ act'[f] = act[f]
    BY <2>2 DEF Pending
  <2> QED BY <2>1, <2>3, <1>3, Keys DEF PrincipalsInv, PendingIsSelected, Family, List
<1>8. GroupWrites'
  <2>1. CASE l # "groups"
    <3>1. res'["groups"] = res["groups"] /\ act'["group"] = act["group"]
      BY <2>1, <1>1, <1>3, Keys DEF PrincipalsInv, PrincipalsTypeOK, List, Family
    <3> QED BY <3>1 DEF PrincipalsInv, GroupWrites, GroupsFresh
  <2>2. CASE l = "groups"
    <3>1. res'["groups"] = v /\ res["groups"].load \in {"fresh", "behind", "stale"}
      BY <2>2, <1>1, <1>3 DEF PrincipalsInv, PrincipalsTypeOK, List, Resource, LoadState, Loading
    <3>2. act'["group"].phase # "refetch"
          /\ (act["group"].phase # "refetch" => act'["group"] = act["group"])
      BY <2>2, <1>3, <1>4, Keys DEF Family
    <3> QED BY <3>1, <3>2, <2>2, <1>2 DEF PrincipalsInv, GroupWrites, GroupsFresh, ReadSince
  <2> QED BY <2>1, <2>2
<1> QED BY <1>5, <1>6, <1>7, <1>8 DEF PrincipalsInv

\* An event of the tenant: three lists are asked for again.
LEMMA EventKeeps == ASSUME PrincipalsInv, TenantEvent PROVE PrincipalsInv'
<1> DEFINE refetched == {"groups", "roles", "users"}
<1>1. \A l \in List :
         /\ Load(res[l], res[l].key) \in Resource(KeyOf(l))
         /\ Load(res[l], res[l].key).key = res[l].key
         /\ res[l].key # NoKey => Load(res[l], res[l].key).load = "sent"
  <2> TAKE l \in List
  <2>1. res[l] \in Resource(KeyOf(l)) /\ res[l].key \in KeyOf(l) \cup {NoKey}
    BY DEF PrincipalsInv, PrincipalsTypeOK, Resource
  <2> QED BY <2>1, LoadOf
<1>2. /\ res' = [l \in List |-> IF l \in refetched THEN Load(res[l], res[l].key) ELSE res[l]]
      /\ act' = [f \in Family |->
                   IF act[f].phase = "refetch" /\ ListOf(f) \in refetched
                     THEN [act[f] EXCEPT !.phase = "superseded"] ELSE act[f]]
      /\ UNCHANGED <<tab, selectedUser, late>>
  BY DEF TenantEvent
<1>3. PrincipalsTypeOK'
  BY <1>1, <1>2 DEF PrincipalsInv, PrincipalsTypeOK, Action, Phase
<1>4. ValueIsOfKey'
  BY <1>1, <1>2 DEF PrincipalsInv, PrincipalsTypeOK, ValueIsOfKey
<1>5. PendingIsSelected'
  <2>1. \A m \in List : res'[m].key = res[m].key
    BY <1>1, <1>2
  <2>2. \A f \in Family : act'[f].on = act[f].on /\ (act'[f].phase = "idle" <=> act[f].phase = "idle")
    BY <1>2 DEF PrincipalsInv, PrincipalsTypeOK, Action
  <2> QED BY <2>1, <2>2, <1>2, Keys DEF PrincipalsInv, PendingIsSelected, Pending, Family, List
<1>6. GroupWrites'
  <2>1. res'["groups"].key = res["groups"].key /\ res["groups"].key # NoKey
        /\ res'["groups"].load = "sent"
    BY <1>1, <1>2 DEF PrincipalsInv, GroupWrites, List
  <2> QED BY <2>1 DEF GroupWrites, ReadSince
<1> QED BY <1>3, <1>4, <1>5, <1>6 DEF PrincipalsInv

-----------------------------------------------------------------------------
\* The page as it is mounted, with what earlier visits have sent.
FreshMount ==
    /\ tab = "users"
    /\ res = Mounted
    /\ selectedUser = NoKey
    /\ act = [f \in Family |-> Done(FALSE)]
    /\ late \in 0..MAX_LATE

LEMMA FreshHolds == FreshMount => PrincipalsInv
<1> USE PrincipalsAssumption
<1> SUFFICES ASSUME FreshMount PROVE PrincipalsInv
  OBVIOUS
<1>1. /\ Created(All) \in Resource({All}) /\ Created(All).key = All
      /\ Created(All).load = "sent" /\ All # NoKey
  BY CreatedOf
<1>2. \A K : Created(NoKey) \in Resource(K) /\ Created(NoKey).key = NoKey
  BY CreatedOf
<1>3. Done(FALSE) \in Action /\ Done(FALSE).phase = "idle"
  BY DEF Done, Action, Phase, Target
<1>4. /\ res["users"] = Created(All) /\ res["groups"] = Created(All)
      /\ \A l \in {"roles", "members", "expanded"} : res[l] = Created(NoKey)
  BY DEF FreshMount, Mounted, List
<1>5. PrincipalsTypeOK
  <2>1. res = [l \in List |-> res[l]]
    BY DEF FreshMount, Mounted
  <2>2. \A l \in List : res[l] \in Resource(KeyOf(l))
    BY <1>1, <1>2, <1>4, Keys DEF List
  <2> QED BY <2>1, <2>2, <1>3 DEF PrincipalsTypeOK, FreshMount, Tab
<1>6. ValueIsOfKey
  BY <1>1, <1>2, <1>4 DEF ValueIsOfKey, List
<1>7. PendingIsSelected
  BY <1>3 DEF PendingIsSelected, Pending, FreshMount, Family
<1>8. GroupWrites
  BY <1>1, <1>3, <1>4 DEF GroupWrites, FreshMount, Family, List
<1> QED BY <1>5, <1>6, <1>7, <1>8 DEF PrincipalsInv

LEMMA InitHolds == PrincipalsInit => PrincipalsInv
BY FreshHolds, PrincipalsAssumption DEF PrincipalsInit, FreshMount

LEMMA RemountKeeps == PrincipalsInv /\ RemountPrincipals => PrincipalsInv'
<1>1. PrincipalsInv /\ RemountPrincipals => FreshMount'
  BY PrincipalsAssumption
  DEF RemountPrincipals, GoesOn, FreshMount, PrincipalsInv, PrincipalsTypeOK
<1> QED BY <1>1, FreshHolds, PTL

\* The operator's steps: the tab, the selections and the mutations begun.
LEMMA InputKeeps == ASSUME PrincipalsInv, PrincipalsInput PROVE PrincipalsInv'
<1> USE PrincipalsAssumption
<1>1. ASSUME NEW t \in Tab, TabChange(t) PROVE PrincipalsInv'
  BY <1>1 DEF TabChange, PrincipalsInv, PrincipalsTypeOK, ValueIsOfKey, PendingIsSelected, Pending,
              GroupWrites, GroupsFresh
<1>2. ASSUME NEW u \in USERS, ManageUser(u) PROVE PrincipalsInv'
  BY <1>2 DEF ManageUser, PrincipalsInv, PrincipalsTypeOK, ValueIsOfKey, PendingIsSelected,
              Pending, GroupWrites, GroupsFresh
<1>3. CASE CloseUser
  BY <1>3 DEF CloseUser, PrincipalsInv, PrincipalsTypeOK, ValueIsOfKey, PendingIsSelected, Pending,
              GroupWrites, GroupsFresh
<1>4. ASSUME NEW g \in GROUPS, ManageMembers(g) PROVE PrincipalsInv'
  BY <1>4, SelectKeeps, Keys DEF ManageMembers
<1>5. CASE CloseMembers
  BY <1>5, SelectKeeps DEF CloseMembers, MemberForm
<1>6. ASSUME NEW p \in PRINCIPALS \cup {NoKey}, LookUp(p) PROVE PrincipalsInv'
  BY <1>6, SelectKeeps, Keys DEF LookUp, PrincipalPicker
<1>7. ASSUME NEW r \in ROLES \cup {NoKey}, ExpandRole(r) PROVE PrincipalsInv'
  BY <1>7, SelectKeeps, Keys DEF ExpandRole
<1>8. ASSUME Begin("group", NoKey) PROVE PrincipalsInv'
  <2>1. NoKey \in Target /\ "group" \in Family
    BY DEF Target, Family
  <2> QED BY <1>8, <2>1, BeginKeeps
<1>9. ASSUME NEW f \in {"role", "member"}, Begin(f, res[ListOf(f)].key), res[ListOf(f)].key # NoKey
      PROVE PrincipalsInv'
  <2>1. f \in Family /\ res[ListOf(f)].key \in Target
    BY Keys DEF PrincipalsInv, PrincipalsTypeOK, Resource, List, Family, Target
  <2> QED BY <1>9, <2>1, BeginKeeps
<1>10. ASSUME Begin("user", selectedUser) PROVE PrincipalsInv'
  <2>1. "user" \in Family /\ selectedUser \in Target
    BY DEF PrincipalsInv, PrincipalsTypeOK, Family, Target
  <2> QED BY <1>10, <2>1, BeginKeeps
<1>11. HandleCreateGroup \/ HandleDeleteGroup => Begin("group", NoKey)
  BY DEF HandleCreateGroup, HandleDeleteGroup
<1>12. HandleAssignRole \/ HandleChangeRole \/ HandleUnassignRole =>
          Begin("role", res[ListOf("role")].key) /\ res[ListOf("role")].key # NoKey
  BY Keys DEF HandleAssignRole, HandleChangeRole, HandleUnassignRole, AssignForm, ChangeForm,
              RoleChips, RoleSelected
<1>13. HandleAddMember \/ HandleRemoveMember =>
          Begin("member", res[ListOf("member")].key) /\ res[ListOf("member")].key # NoKey
  BY Keys DEF HandleAddMember, HandleRemoveMember, MemberForm
<1>14. HandleSuspendUser \/ HandleReinstateUser => Begin("user", selectedUser)
  BY DEF HandleSuspendUser, HandleReinstateUser
<1> QED BY <1>1, <1>2, <1>3, <1>4, <1>5, <1>6, <1>7, <1>8, <1>9, <1>10, <1>11, <1>12, <1>13, <1>14
        DEF PrincipalsInput

LEMMA AnswersKeep == ASSUME PrincipalsInv, PrincipalsAnswers PROVE PrincipalsInv'
<1>1. ASSUME NEW f \in Family, MutationFails(f) PROVE PrincipalsInv'
  <2>1. late' \in 0..MAX_LATE
    BY <1>1, PrincipalsAssumption DEF MutationFails, GoesOn, PrincipalsInv, PrincipalsTypeOK
  <2> QED BY <1>1, <2>1, EndKeeps DEF MutationFails
<1>2. ASSUME NEW f \in Family, SettleSuperseded(f) PROVE PrincipalsInv'
  BY <1>2, EndKeeps DEF SettleSuperseded, PrincipalsInv, PrincipalsTypeOK
<1> QED BY <1>1, <1>2, CommitKeeps, SucceedsKeeps, ReadKeeps, SettleKeeps DEF PrincipalsAnswers

\* What is on the screen is what is selected, and a mutation in flight keeps
\* its selection.
LEMMA InvSelection == PrincipalsInv => SelectionIsConsistent
<1>1. PrincipalsInv => ShownIsSelected
  BY DEF PrincipalsInv, PrincipalsTypeOK, ValueIsOfKey, ShownIsSelected, ListShown, Loading
<1> QED BY <1>1 DEF PrincipalsInv, SelectionIsConsistent

\* The groups on the screen were read after the write of this visit that is over.
LEMMA InvOwnWrites == PrincipalsInv => OwnWritesVisible
BY DEF PrincipalsInv, GroupWrites, GroupsFresh, OwnWritesVisible, ListShown, Loading

\* A page that is not touched stays as it is.
LEMMA PrincipalsStutter == ASSUME PrincipalsInv, UNCHANGED principalsVars PROVE PrincipalsInv'
BY DEF principalsVars, PrincipalsInv, PrincipalsTypeOK, ValueIsOfKey, PendingIsSelected,
       Pending, GroupWrites, GroupsFresh

-----------------------------------------------------------------------------
(* The audit history.                                                      *)

\* A row carries the time at which its call started, and stays.
LogInv ==
    /\ IsFiniteSet(log)
    /\ now \in Nat \ {0}
    /\ \A c \in log : call[c].phase = "answered" /\ call[c].at \in Nat \ {0}
    /\ \A c \in CALLS : call[c].phase # "none" => call[c].at \in Nat \ {0}

PageInv ==
    /\ history \cup base \subseteq log
    /\ \A c \in history \cup base : Matches(c, filters)
    /\ loading = "first" => before = 0 /\ history = {} /\ base = {}
    /\ loading = "more" => before # 0 /\ \E h \in history : call[h].at = before

AuditInv == AuditTypeOK /\ LogInv /\ PageInv /\ NoGap

LEMMA InvHistory == AuditInv => HistoryHasNoGap
BY DEF AuditInv, PageInv, HistoryHasNoGap

\* audit.list: a page that is not full holds all there is.
LEMMA ShortPage ==
    ASSUME NEW S, IsFiniteSet(S), NEW n \in Nat, NEW R \in Newest(S, n), Cardinality(R) # n
    PROVE  R = S
<1>1. R \subseteq S /\ Cardinality(R) = IF Cardinality(S) < n THEN Cardinality(S) ELSE n
  BY DEF Newest
<1>2. Cardinality(R) = Cardinality(S)
  BY <1>1
<1> QED BY <1>1, <1>2, FS_Subset

\* The log grows, and its rows keep their times; the page does not change.
LEMMA LogGrows ==
    ASSUME AuditInv, AuditTypeOK', LogInv',
           UNCHANGED <<filters, before, loading, full, history, base, frozen>>,
           log \subseteq log', \A c \in log : call'[c].at = call[c].at
    PROVE  AuditInv'
<1>1. PageInv'
  BY DEF AuditInv, PageInv, Matches
<1>2. \A c \in base \cup history : c \in log
  BY DEF AuditInv, PageInv
<1>3. \A c \in log : Alone(c)' => Alone(c)
  BY DEF Alone
<1>4. NoGap'
  BY <1>2, <1>3 DEF AuditInv, NoGap, PagesComplete
<1> QED BY <1>1, <1>4 DEF AuditInv

LEMMA StartKeeps == ASSUME AuditInv, NEW c \in CALLS, StartCall(c) PROVE AuditInv'
<1> USE AuditAssumption
<1>1. now' \in Nat \ {0} /\ now' \in Nat
  BY DEF StartCall, AuditInv, AuditTypeOK, LogInv
<1>2. c \notin log
  BY DEF StartCall, AuditInv, LogInv
<1>3. AuditTypeOK'
  BY <1>1 DEF StartCall, AuditInv, AuditTypeOK
<1>4. \A d \in CALLS : d # c => call'[d] = call[d]
  BY DEF StartCall, AuditInv, AuditTypeOK
<1>5. call'[c] = [at |-> now', phase |-> "running"]
  BY DEF StartCall, AuditInv, AuditTypeOK
<1>6. \A d \in log : call'[d] = call[d]
  BY <1>2, <1>4 DEF AuditInv, AuditTypeOK
<1>7. LogInv'
  BY <1>1, <1>4, <1>5, <1>6 DEF StartCall, AuditInv, LogInv
<1> QED BY <1>3, <1>6, <1>7, LogGrows DEF StartCall

LEMMA EmitKeeps == ASSUME AuditInv, NEW c \in CALLS, Emit(c) PROVE AuditInv'
<1>1. log' = log \/ log' = log \cup {c}
  BY DEF Emit, Emitted
<1>2. \A d \in CALLS : /\ call'[d].at = call[d].at
                       /\ d # c => call'[d] = call[d]
                       /\ call'[c].phase = "answered" /\ call[c].phase = "running"
  BY DEF Emit, AuditInv, AuditTypeOK
<1>3. AuditTypeOK'
  BY <1>1 DEF Emit, AuditInv, AuditTypeOK
<1>4. LogInv'
  <2>1. IsFiniteSet(log')
    BY <1>1, FS_AddElement DEF AuditInv, LogInv
  <2> QED BY <2>1, <1>1, <1>2 DEF Emit, AuditInv, AuditTypeOK, LogInv
<1> QED BY <1>1, <1>2, <1>3, <1>4, LogGrows DEF Emit, AuditInv, AuditTypeOK

\* A page lands: handlePageLanded.  Before its cursor nothing is missing, as
\* the row of the cursor is listed; behind it the page itself has no gap.
LEMMA PageKeeps == ASSUME AuditInv, PageLands PROVE AuditInv'
<1> USE AuditAssumption
<1>1. loading' = "none" /\ UNCHANGED <<now, call, log, filters, before, frozen>>
  BY DEF PageLands, serverVars
<1>2. LogInv'
  BY <1>1 DEF AuditInv, LogInv
<1>3. CASE frozen
  BY <1>1, <1>2, <1>3 DEF PageLands, AuditInv, AuditTypeOK, PageInv, NoGap, PagesComplete, Alone,
                         Matches
<1>4. CASE ~frozen
  <2>1. PICK rows \in Newest(Listed, PAGE_SIZE) :
          /\ history' = IF before = 0 THEN rows ELSE history \cup rows
          /\ full' = (Cardinality(rows) = PAGE_SIZE)
          /\ base' = IF loading = "first" THEN {c \in log : Matches(c, filters)} ELSE base
    BY <1>4 DEF PageLands
  <2>2. rows \subseteq Listed /\ \A r \in rows, s \in Listed \ rows : call[s].at <= call[r].at
    BY DEF Newest
  <2>3. IsFiniteSet(Listed)
    BY FS_Subset DEF AuditInv, LogInv, Listed
  <2>4. ~full' => rows = Listed
    BY <2>1, <2>3, ShortPage
  <2>5. \A c \in log : call[c].at \in Nat \ {0}
    BY DEF AuditInv, LogInv
  <2>6. AuditTypeOK'
    BY <1>1, <2>1, <2>2 DEF AuditInv, AuditTypeOK, Listed
  <2>7. PageInv'
    BY <1>1, <2>1, <2>2 DEF AuditInv, PageInv, Listed, Matches
  <2>8. ASSUME NEW c \in base', Alone(c)',
               PagesComplete' \/ \E h \in history' : call'[h].at < call'[c].at
        PROVE  c \in history'
    <3>1. c \in log /\ Matches(c, filters) /\ Alone(c)
      BY <1>1, <2>1, <2>8 DEF AuditInv, PageInv, Alone
    <3>2. CASE loading = "first"
      <4>1. before = 0 /\ c \in Listed /\ history' = rows
        BY <3>1, <3>2, <2>1 DEF AuditInv, PageInv, Listed
      <4> QED BY <4>1, <2>2, <2>4, <2>5, <2>8, <1>1 DEF PagesComplete, Listed
    <3>3. CASE loading = "more"
      <4>1. PICK h \in history : call[h].at = before
        BY <3>3 DEF AuditInv, PageInv
      <4>2. before # 0 /\ h \in log /\ c \in base /\ history' = history \cup rows
        BY <3>3, <2>1, <4>1 DEF AuditInv, PageInv
      <4>3. CASE before < call[c].at
        BY <3>1, <4>1, <4>2, <4>3 DEF AuditInv, NoGap
      <4>4. CASE before = call[c].at
        BY <3>1, <4>1, <4>2, <4>4 DEF Alone
      <4>5. CASE call[c].at < before
        <5>1. c \in Listed
          BY <3>1, <4>5 DEF Listed
        <5>2. CASE PagesComplete'
          BY <5>1, <5>2, <2>4, <4>2 DEF PagesComplete
        <5>3. ASSUME NEW g \in history', call'[g].at < call'[c].at PROVE c \in history'
          <6>1. CASE g \in history
            BY <6>1, <5>3, <1>1, <3>1, <4>2 DEF AuditInv, NoGap
          <6>2. CASE g \in rows
            BY <6>2, <5>1, <5>3, <1>1, <2>2, <2>5, <3>1, <4>2 DEF Listed
          <6> QED BY <5>3, <4>2, <6>1, <6>2
        <5> QED BY <5>2, <5>3, <2>8
      <4> QED BY <4>3, <4>4, <4>5, <2>5, <3>1, <4>1, <4>2
    <3> QED BY <3>2, <3>3 DEF PageLands, AuditInv, AuditTypeOK
  <2>9. NoGap'
    BY <2>8 DEF NoGap
  <2> QED BY <1>2, <2>6, <2>7, <2>9 DEF AuditInv
<1> QED BY <1>3, <1>4

LEMMA FailKeeps == ASSUME AuditInv, PageFails PROVE AuditInv'
<1>1. AuditTypeOK' /\ LogInv' /\ PageInv'
  BY DEF PageFails, serverVars, AuditInv, AuditTypeOK, LogInv, PageInv, Matches
<1>2. NoGap'
  BY DEF PageFails, serverVars, AuditInv, NoGap, PagesComplete, Alone
<1> QED BY <1>1, <1>2 DEF AuditInv

LEMMA FilterKeeps == ASSUME AuditInv, NEW f \in Filter, FiltersChange(f) PROVE AuditInv'
BY DEF FiltersChange, serverVars, AuditInv, AuditTypeOK, LogInv, PageInv, NoGap

LEMMA MoreKeeps == ASSUME AuditInv, LoadMore PROVE AuditInv'
<1>1. PICK last \in history : before' = call[last].at
  BY DEF LoadMore, Oldest
<1>2. before' \in Nat \ {0}
  BY <1>1 DEF AuditInv, LogInv, PageInv
<1>3. AuditTypeOK' /\ LogInv' /\ PageInv'
  BY <1>1, <1>2 DEF LoadMore, serverVars, AuditInv, AuditTypeOK, LogInv, PageInv, Matches
<1>4. NoGap'
  BY DEF LoadMore, serverVars, AuditInv, NoGap, PagesComplete, Alone
<1> QED BY <1>3, <1>4 DEF AuditInv

LEMMA AuditInputKeeps == ASSUME AuditInv, AuditInput PROVE AuditInv'
BY FilterKeeps, MoreKeeps DEF AuditInput

LEMMA AuditAnswersKeep == ASSUME AuditInv, AuditAnswers PROVE AuditInv'
BY PageKeeps, FailKeeps, StartKeeps, EmitKeeps DEF AuditAnswers

\* The page as it is mounted.
LEMMA AuditStart == AuditInit => AuditInv
<1> SUFFICES ASSUME AuditInit PROVE AuditInv
  OBVIOUS
<1>1. AuditTypeOK
  BY DEF AuditInit, AuditTypeOK, Filter
<1>2. LogInv
  BY FS_EmptySet DEF AuditInit, LogInv
<1>3. PageInv /\ NoGap
  BY DEF AuditInit, PageInv, NoGap
<1> QED BY <1>1, <1>2, <1>3 DEF AuditInv

LEMMA RemountAuditKeeps == RemountAudit => AuditInv'
<1>1. RemountAudit => AuditInit'
  BY DEF RemountAudit, AuditInit
<1> QED BY <1>1, AuditStart, PTL

LEMMA AuditStutter == ASSUME AuditInv, UNCHANGED auditVars PROVE AuditInv'
BY DEF auditVars, AuditInv, AuditTypeOK, LogInv, PageInv, NoGap, Alone, PagesComplete, Matches

-----------------------------------------------------------------------------
(* The streams and the document.                                           *)

\* A subscription that is open is one of two kinds of record: of a page that is
\* open, or of one that has left and is not closed yet.
LEMMA StreamShape ==
    ASSUME NEW st \in Stream, st.phase # "closed"
    PROVE  /\ st = [kind |-> st.kind, phase |-> st.phase, cancelled |-> st.cancelled]
           /\ \/ st.kind \in Kind /\ st.phase \in {"authz", "connect", "live"} /\ st.cancelled = FALSE
              \/ st.kind = "none" /\ st.phase \in {"authz", "connect"} /\ st.cancelled = TRUE
<1>1. st # Closed
  BY DEF Closed
<1>2. CASE st \in [kind : Kind, phase : {"authz", "connect", "live"}, cancelled : {FALSE}]
  BY <1>2
<1>3. CASE st \in [kind : {"none"}, phase : {"authz", "connect"}, cancelled : {TRUE}]
  BY <1>3
<1> QED BY <1>1, <1>2, <1>3 DEF Stream

LEMMA StreamLives ==
    ASSUME NEW k \in Kind, NEW p \in {"authz", "connect", "live"}
    PROVE  [kind |-> k, phase |-> p, cancelled |-> FALSE] \in Stream
BY DEF Stream

\* The states a subscription goes through.
LEMMA StreamOf ==
    /\ Closed \in Stream
    /\ \A k \in Kind : Opened(k) \in Stream
    /\ \A st \in Stream : Unsubscribed(st) \in Stream
<1>1. Closed \in Stream
  BY DEF Stream
<1>2. \A k \in Kind : Opened(k) \in Stream
  BY StreamLives DEF Opened
<1>3. ASSUME NEW st \in Stream, st.phase \notin {"live", "closed"}
      PROVE  [kind |-> "none", phase |-> st.phase, cancelled |-> TRUE] \in Stream
  BY <1>3, StreamShape DEF Stream
<1> QED BY <1>1, <1>2, <1>3 DEF Unsubscribed

\* A page that is open stays what it is for when its subscription moves on.
LEMMA StreamMoves ==
    ASSUME NEW st \in Stream, st.phase # "closed", ~st.cancelled,
           NEW p \in {"authz", "connect", "live"}
    PROVE  [st EXCEPT !.phase = p] \in Stream
<1>1. /\ st = [kind |-> st.kind, phase |-> st.phase, cancelled |-> st.cancelled]
      /\ st.kind \in Kind /\ st.cancelled = FALSE
  BY StreamShape
<1>2. st \in [kind : Kind, phase : {"authz", "connect", "live"}, cancelled : {FALSE}]
  BY <1>1, StreamShape
<1>3. [st EXCEPT !.phase = p] \in [kind : Kind, phase : {"authz", "connect", "live"}, cancelled : {FALSE}]
  BY <1>2
<1> QED BY <1>3 DEF Stream

LEMMA ConnectingOf == \A n \in Nats : Connecting(n) \in Nats
BY DEF Connecting, Nats

LEMMA StreamStepKeeps ==
    ASSUME StreamsTypeOK, NEW s \in STREAMS, StreamStep(s) PROVE StreamsTypeOK'
<1>1. stream[s] \in Stream
  BY DEF StreamsTypeOK
<1>2. CASE Authorize(s)
  <2>1. ~stream[s].cancelled => [stream[s] EXCEPT !.phase = "connect"] \in Stream
    BY <1>1, <1>2, StreamMoves DEF Authorize
  <2> QED BY <1>2, <2>1, StreamOf, ConnectingOf DEF Authorize, StreamsTypeOK
<1>3. CASE Register(s)
  <2>1. ~stream[s].cancelled => [stream[s] EXCEPT !.phase = "live"] \in Stream
    BY <1>1, <1>3, StreamMoves DEF Register
  <2> QED BY <1>3, <2>1, StreamOf DEF Register, StreamsTypeOK
<1>4. CASE ConnectFails(s)
  <2>1. ~stream[s].cancelled => [stream[s] EXCEPT !.phase = "authz"] \in Stream
    BY <1>1, <1>4, StreamMoves DEF ConnectFails
  <2> QED BY <1>4, <2>1, StreamOf DEF ConnectFails, StreamsTypeOK
<1> QED BY <1>2, <1>3, <1>4 DEF StreamStep

LEMMA ResubscribeKeeps ==
    ASSUME StreamsTypeOK, NEW k \in Kind \cup {"none"}, Resubscribe(k), UNCHANGED nats
    PROVE  StreamsTypeOK'
<1> DEFINE left == [s \in STREAMS |-> Unsubscribed(stream[s])]
<1>1. left \in [STREAMS -> Stream]
  BY StreamOf DEF StreamsTypeOK
<1>2. CASE k = "none"
  BY <1>1, <1>2 DEF Resubscribe, StreamsTypeOK
<1>3. CASE k # "none"
  <2>1. Opened(k) \in Stream
    BY <1>3, StreamOf
  <2>2. PICK s \in STREAMS : stream' = [left EXCEPT ![s] = Opened(k)]
    BY <1>3 DEF Resubscribe
  <2> QED BY <1>1, <2>1, <2>2 DEF StreamsTypeOK
<1> QED BY <1>2, <1>3

ConsoleInv == PrincipalsInv /\ AuditInv /\ ConsoleTypeOK

LEMMA ConsoleStart == ConsoleInit => ConsoleInv
<1> SUFFICES ASSUME ConsoleInit PROVE ConsoleInv
  OBVIOUS
<1>1. PrincipalsInv /\ AuditInv
  BY InitHolds, AuditStart DEF ConsoleInit
<1>2. StreamsTypeOK
  BY StreamOf DEF ConsoleInit, StreamsInit, StreamsTypeOK, Nats
<1>3. view \in View /\ auth \in Auth
  BY DEF ConsoleInit, View, Auth
<1> QED BY <1>1, <1>2, <1>3 DEF ConsoleInv, ConsoleTypeOK, PrincipalsInv, AuditInv

\* A page is mounted, in the document that is open or in a new one.
LEMMA MountKeeps ==
    ASSUME ConsoleInv, NEW v \in View, NEW a \in Auth, Mount(v, a) PROVE ConsoleInv'
<1>1. PrincipalsInv' /\ AuditInv'
  BY RemountKeeps, RemountAuditKeeps DEF Mount, ConsoleInv
<1>2. PICK k \in StreamsOf(v, a) : Resubscribe(k)
  BY DEF Mount
<1>3. k \in Kind \cup {"none"}
  BY DEF StreamsOf, Kind, View
<1>4. StreamsTypeOK'
  BY <1>2, <1>3, ResubscribeKeeps DEF ConsoleInv, ConsoleTypeOK, Mount
<1> QED BY <1>1, <1>4 DEF ConsoleInv, ConsoleTypeOK, PrincipalsInv, AuditInv, Mount

LEMMA ConsoleStep == ConsoleInv /\ [ConsoleNext]_consoleVars => ConsoleInv'
<1> SUFFICES ASSUME ConsoleInv, [ConsoleNext]_consoleVars PROVE ConsoleInv'
  OBVIOUS
<1> USE DEF ConsoleInv
<1>1. ASSUME NEW v \in View, Navigate(v) \/ LoadDocument(v) PROVE ConsoleInv'
  <2>1. auth \in Auth /\ "loading" \in Auth
    BY DEF ConsoleTypeOK, Auth
  <2> QED BY <1>1, <2>1, MountKeeps DEF Navigate, LoadDocument
<1>2. CASE Me
  <2>1. PrincipalsInv' /\ AuditInv'
    BY <1>2, PrincipalsStutter, AuditStutter DEF Me
  <2> QED BY <1>2, <2>1 DEF Me, ConsoleTypeOK, StreamsTypeOK, streamVars, Auth, PrincipalsInv,
                            AuditInv
<1>3. CASE MeUnauthorized
  <2>1. "other" \in View /\ "login" \in Auth
    BY DEF View, Auth
  <2> QED BY <1>3, <2>1, MountKeeps DEF MeUnauthorized
<1>4. CASE PrincipalsPage
  <2>1. PrincipalsInv'
    BY <1>4, InputKeeps, AnswersKeep, EventKeeps DEF PrincipalsPage
  <2>2. AuditInv'
    BY <1>4, AuditStutter DEF PrincipalsPage
  <2> QED BY <1>4, <2>1, <2>2 DEF PrincipalsPage, ConsoleTypeOK, StreamsTypeOK, streamVars,
                                  PrincipalsInv, AuditInv
<1>5. CASE AuditPage
  <2>1. PrincipalsInv'
    BY <1>5, PrincipalsStutter DEF AuditPage
  <2>2. AuditInv'
    BY <1>5, AuditInputKeeps, AuditAnswersKeep DEF AuditPage
  <2>3. StreamsTypeOK'
    BY <1>5, ConnectingOf DEF AuditPage, AuditAnswers, Emit, Emitted, ConsoleTypeOK, StreamsTypeOK,
                              streamVars
  <2> QED BY <1>5, <2>1, <2>2, <2>3 DEF AuditPage, ConsoleTypeOK, PrincipalsInv, AuditInv
<1>6. CASE Streams
  <2>1. PrincipalsInv' /\ AuditInv'
    BY <1>6, PrincipalsStutter, AuditStutter DEF Streams
  <2>2. StreamsTypeOK'
    BY <1>6, StreamStepKeeps DEF Streams, NatsSettles, ConsoleTypeOK, StreamsTypeOK, Nats
  <2> QED BY <1>6, <2>1, <2>2 DEF Streams, ConsoleTypeOK, PrincipalsInv, AuditInv
<1>7. CASE UNCHANGED consoleVars
  <2>1. PrincipalsInv' /\ AuditInv'
    BY <1>7, PrincipalsStutter, AuditStutter DEF consoleVars
  <2> QED BY <1>7, <2>1 DEF consoleVars, ConsoleTypeOK, StreamsTypeOK, streamVars, PrincipalsInv,
                            AuditInv
<1>8. CASE LateGroupWrite /\ UNCHANGED <<auditVars, streamVars, view, auth>>
  <2>1. PrincipalsInv' /\ AuditInv'
    BY <1>8, LateKeeps, AuditStutter
  <2> QED BY <1>8, <2>1 DEF ConsoleTypeOK, StreamsTypeOK, streamVars, PrincipalsInv, AuditInv
<1> QED BY <1>1, <1>2, <1>3, <1>4, <1>5, <1>6, <1>7, <1>8 DEF ConsoleNext

\* The inductive invariant, in every state of every document.
THEOREM Invariance == ConsoleSpec => []ConsoleInv
BY ConsoleStart, ConsoleStep, PTL DEF ConsoleSpec

\* routes, lib/auth.tsx, handlers/events.ts: the state of the document and of
\* its streams stays within its types.
THEOREM TypeCorrect == ConsoleSpec => []ConsoleTypeOK
<1>1. ConsoleInv => ConsoleTypeOK BY DEF ConsoleInv
<1> QED BY <1>1, Invariance, PTL

\* What is on the screen is what is selected, and a mutation in flight keeps
\* its selection (routes/Principals.tsx, components/PrincipalAdmin.tsx).
THEOREM SelectionStaysConsistent == ConsoleSpec => []SelectionIsConsistent
<1>1. ConsoleInv => SelectionIsConsistent BY InvSelection DEF ConsoleInv
<1> QED BY <1>1, Invariance, PTL

\* Once a write of a group is over without an error, the groups on the screen
\* were read after it, and after every other of this visit that was answered
\* (handleCreateGroup, handleDeleteGroup).
THEOREM OwnWritesAreVisible == ConsoleSpec => []OwnWritesVisible
<1>1. ConsoleInv => OwnWritesVisible BY InvOwnWrites DEF ConsoleInv
<1> QED BY <1>1, Invariance, PTL

\* Paging through the audit log leaves no row out, whatever rows are written,
\* filters typed and pages lost meanwhile (routes/Audit.tsx, handlers/audit.ts).
THEOREM PagingIsComplete == ConsoleSpec => []HistoryHasNoGap
<1>1. ConsoleInv => HistoryHasNoGap BY InvHistory DEF ConsoleInv
<1> QED BY <1>1, Invariance, PTL
=============================================================================
