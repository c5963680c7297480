------------------------ MODULE RelationshipsProofs ------------------------
(***************************************************************************)
(* Proofs about Relationships, for any tenants, users, groups, service     *)
(* accounts and installations: what every sequence of writes keeps, and    *)
(* what a temporary grant and the removal of a member do to it.            *)
(***************************************************************************)
EXTENDS Relationships, TLAPS

-----------------------------------------------------------------------------
(* Writing.                                                                *)

\* A request that is repeated, because its answer was lost, changes nothing.
LEMMA RepeatedWriteIsNoop ==
    ASSUME NEW before, NEW touched, NEW deleted,
           \A r \in touched, s \in deleted : ~Same(r, s)
    PROVE  LET after == After(before, touched, deleted)
           IN  After(after, touched, deleted) = after
  BY DEF After

\* What a write preserves, whatever is written.
LEMMA WriteKeeps ==
    ASSUME NEW touched, NEW deleted, Writes(touched, deleted),
           SchemaHolds, StoredOnce,
           touched \subseteq Relationship, TypeOK,
           \A r, s \in touched : Same(r, s) => r = s
    PROVE  (TypeOK /\ SchemaHolds /\ StoredOnce)'
  <1>1. store' = After(store, touched, deleted) BY DEF Writes
  <1>2. TypeOK' BY <1>1 DEF TypeOK, After
  <1>3. SchemaHolds' BY <1>1 DEF SchemaHolds, After, Writes
  <1>4. ASSUME NEW r \in store', NEW s \in store', Same(r, s) PROVE r = s
    <2>1. Same(s, r) BY <1>4 DEF Same
    <2> QED BY <1>1, <1>4, <2>1 DEF StoredOnce, After
  <1> QED BY <1>2, <1>3, <1>4 DEF StoredOnce

-----------------------------------------------------------------------------
(* What the writers write.                                                 *)

\* The relations that some writer touches of a resource.
Writable(resource, relation) ==
    resource.type \in {"service_account", "installation"} => relation = "tenant"

\* Relationships that a writer may touch together.
Touchable(touched) ==
    /\ touched \subseteq Relationship
    /\ \A r, s \in touched : Same(r, s) => r = s
    /\ \A r \in touched : Writable(r.resource, r.relation)

WritesSome == \E touched, deleted : Touchable(touched) /\ Writes(touched, deleted)

LEMMA Tenants == \A t \in Tenant : tenant(t) \in Object /\ \A x : Writable(tenant(t), x)
  BY DEF Object, Writable, tenant, obj
LEMMA Users == \A u \in User : user(u) \in Object /\ \A x : Writable(user(u), x)
  BY DEF Object, Principal, Writable, user, obj
LEMMA Groups == \A g \in Group : group(g) \in Object /\ \A x : Writable(group(g), x)
  BY DEF Object, Writable, group, obj
LEMMA ServiceAccounts ==
    \A s \in ServiceAccount :
        service_account(s) \in Object /\ Writable(service_account(s), "tenant")
  BY DEF Object, Principal, Writable
LEMMA Installations ==
    \A i \in Installation :
        installation(i) \in Object /\ Writable(installation(i), "tenant")
  BY DEF Object, Writable
LEMMA Singletons ==
    /\ platform \in Object /\ \A x : Writable(platform, x)
    /\ system \in Object /\ \A x : Writable(system, x)
  BY DEF Object, Writable, platform, system, obj

LEMMA Roles ==
    /\ \A role \in TenantRole \cup ServiceAccountRole : role \in Relation /\ role # "tenant"
    /\ \A relation \in {"suspended", "denied", "tenant", "platform", "self", "super_admin",
                       "only_system_can_create_tenants", "owner", "member"} :
          relation \in Relation
  BY DEF TenantRole, ServiceAccountRole, Relation

\* One relationship that a writer may touch.
LEMMA OneIsTouchable ==
    ASSUME NEW o \in Object, NEW s \in Object, NEW relation \in Relation, Writable(o, relation)
    PROVE  Touchable({rel(o, relation, s)}) /\ Touchable({expiring(o, relation, s)})
  BY DEF Touchable, rel, expiring, relationship, Relationship

LEMMA MembersAreTouchable ==
    ASSUME NEW o \in Object, NEW g \in Group, NEW relation \in Relation, Writable(o, relation)
    PROVE  Touchable({membersOf(o, relation, g)})
  <1>1. group(g) \in Object BY Groups
  <1> QED BY <1>1 DEF Touchable, membersOf, relationship, Relationship

LEMMA TwoAreTouchable ==
    ASSUME NEW o1 \in Object, NEW s1 \in Object, NEW relation1 \in Relation,
           NEW o2 \in Object, NEW s2 \in Object, NEW relation2 \in Relation,
           relation1 # relation2, Writable(o1, relation1), Writable(o2, relation2)
    PROVE  Touchable({rel(o1, relation1, s1), rel(o2, relation2, s2)})
  <1> DEFINE r == rel(o1, relation1, s1)
             s == rel(o2, relation2, s2)
  <1>1. r \in Relationship /\ s \in Relationship BY DEF rel, relationship, Relationship
  <1>2. ~Same(r, s) /\ ~Same(s, r) BY DEF rel, relationship, Same
  <1>3. Writable(r.resource, r.relation) /\ Writable(s.resource, s.relation)
        BY DEF rel, relationship
  <1> HIDE DEF r, s
  <1>4. Touchable({r, s}) BY <1>1, <1>2, <1>3 DEF Touchable
  <1> QED BY <1>4 DEF r, s

LEMMA NothingIsTouchable == Touchable({})
  BY DEF Touchable

LEMMA UserStep ==
    ASSUME NEW u \in User, UserWrites(u)
    PROVE  WritesSome
  <1>1. CASE writeUserRegistered(u)
    <2>1. Touchable({rel(user(u), "self", user(u)), rel(user(u), "platform", platform)})
          BY Tenants, Users, Singletons, Roles, TwoAreTouchable
    <2> QED BY <1>1, <2>1 DEF writeUserRegistered, WritesSome
  <1>2. CASE writePlatformAdminChanged(u)
    <2>1. Touchable({rel(platform, "super_admin", user(u))})
          BY Tenants, Users, Singletons, Roles, OneIsTouchable
    <2> QED BY <1>2, <2>1, NothingIsTouchable
            DEF writePlatformAdminChanged, Touches, Deletes, WritesSome
  <1>3. CASE writeSystemAdminRelation(u)
    <2>1. Touchable({rel(system, "only_system_can_create_tenants", user(u))})
          BY Tenants, Users, Singletons, Roles, OneIsTouchable
    <2> QED BY <1>3, <2>1 DEF writeSystemAdminRelation, Touches, WritesSome
  <1>4. ASSUME NEW t \in Tenant, writeTenantCreated(t, u) PROVE WritesSome
    <2>1. Touchable({rel(tenant(t), "platform", platform), rel(tenant(t), "owner", user(u))})
          BY Tenants, Users, Singletons, Roles, TwoAreTouchable
    <2> QED BY <1>4, <2>1 DEF writeTenantCreated, WritesSome
  <1>5. ASSUME NEW t \in Tenant, writeMemberSuspended(t, u) \/ writeUserDenied(t, u)
        PROVE  WritesSome
    <2>1. /\ Touchable({rel(tenant(t), "suspended", user(u))})
          /\ Touchable({rel(tenant(t), "denied", user(u))})
          BY Tenants, Users, Singletons, Roles, OneIsTouchable
    <2> QED BY <1>5, <2>1 DEF writeMemberSuspended, writeUserDenied, Touches, WritesSome
  <1>6. ASSUME NEW t \in Tenant, writeMemberReinstated(t, u) \/ writeUserDeniedRevoked(t, u)
        PROVE  WritesSome
        BY <1>6, NothingIsTouchable
           DEF writeMemberReinstated, writeUserDeniedRevoked, Deletes, WritesSome
  <1>7. ASSUME NEW t \in Tenant, NEW role \in TenantRole, writeMemberJoined(t, u, role)
        PROVE  WritesSome
    <2>1. Touchable({rel(tenant(t), role, user(u))})
          BY Tenants, Users, Singletons, Roles, OneIsTouchable
    <2> QED BY <1>7, <2>1 DEF writeMemberJoined, Touches, WritesSome
  <1>8. ASSUME NEW t \in Tenant, NEW role \in TenantRole, writeMemberRemoved(t, u, role)
        PROVE  WritesSome
        BY <1>8, NothingIsTouchable DEF writeMemberRemoved, WritesSome
  <1>9. ASSUME NEW t \in Tenant, NEW role \in TenantRole, NEW new \in TenantRole,
               writeMemberRoleChanged(t, u, role, new)
        PROVE  WritesSome
    <2>1. Touchable({rel(tenant(t), new, user(u))})
          BY Tenants, Users, Singletons, Roles, OneIsTouchable
    <2> QED BY <1>9, <2>1 DEF writeMemberRoleChanged, WritesSome
  <1> QED BY <1>1, <1>2, <1>3, <1>4, <1>5, <1>6, <1>7, <1>8, <1>9 DEF UserWrites

LEMMA GrantStep ==
    ASSUME NEW p \in Principal, GrantWrites(p)
    PROVE  WritesSome
  <1> PICK t \in Tenant, role \in ServiceAccountRole :
          writeTemporaryGrant(t, p, role) \/ deleteTemporaryGrant(t, p, role)
      BY DEF GrantWrites
  <1>1. p \in Object BY DEF Object
  <1>2. Touchable({expiring(tenant(t), role, p)}) BY <1>1, Tenants, Roles, OneIsTouchable
  <1> QED BY <1>2, NothingIsTouchable
          DEF writeTemporaryGrant, deleteTemporaryGrant, Touches, Deletes, WritesSome

LEMMA GroupStep ==
    ASSUME NEW g \in Group, GroupWrites(g)
    PROVE  WritesSome
  <1> USE DEF Touches, Deletes, WritesSome
  <1>1. ASSUME NEW u \in User, writeGroupMemberAdded(g, u) PROVE WritesSome
    <2>1. Touchable({rel(group(g), "member", user(u))})
          BY Tenants, Users, Groups, Roles, OneIsTouchable
    <2> QED BY <1>1, <2>1 DEF writeGroupMemberAdded
  <1>2. ASSUME NEW u \in User, writeGroupMemberRemoved(g, u) PROVE WritesSome
        BY <1>2, NothingIsTouchable DEF writeGroupMemberRemoved
  <1>3. ASSUME NEW child \in Group, writeGroupNested(g, child) PROVE WritesSome
    <2>1. Touchable({membersOf(group(g), "member", child)})
          BY Tenants, Users, Groups, Roles, MembersAreTouchable
    <2> QED BY <1>3, <2>1 DEF writeGroupNested
  <1>4. ASSUME NEW t \in Tenant, writeGroupCreated(g, t) PROVE WritesSome
    <2>1. Touchable({rel(group(g), "tenant", tenant(t))})
          BY Tenants, Users, Groups, Roles, OneIsTouchable
    <2> QED BY <1>4, <2>1 DEF writeGroupCreated
  <1>5. ASSUME NEW t \in Tenant, NEW role \in TenantRole, writeGroupRoleAssigned(t, g, role)
        PROVE  WritesSome
    <2>1. Touchable({membersOf(tenant(t), role, g)})
          BY Tenants, Users, Groups, Roles, MembersAreTouchable
    <2> QED BY <1>5, <2>1 DEF writeGroupRoleAssigned
  <1>6. ASSUME NEW t \in Tenant, NEW role \in TenantRole, writeGroupRoleRevoked(t, g, role)
        PROVE  WritesSome
        BY <1>6, NothingIsTouchable DEF writeGroupRoleRevoked
  <1> QED BY <1>1, <1>2, <1>3, <1>4, <1>5, <1>6 DEF GroupWrites

LEMMA ServiceAccountStep ==
    ASSUME NEW s \in ServiceAccount, ServiceAccountWrites(s)
    PROVE  WritesSome
  <1> USE DEF Touches, Deletes, WritesSome
  <1>1. ASSUME NEW t \in Tenant, writeServiceAccountSuspended(t, s) PROVE WritesSome
    <2>1. Touchable({rel(tenant(t), "suspended", service_account(s))})
          BY Tenants, ServiceAccounts, Roles, OneIsTouchable
    <2> QED BY <1>1, <2>1 DEF writeServiceAccountSuspended
  <1>2. ASSUME NEW t \in Tenant, writeServiceAccountReinstated(t, s) PROVE WritesSome
        BY <1>2, NothingIsTouchable DEF writeServiceAccountReinstated
  <1>3. ASSUME NEW t \in Tenant, NEW role \in ServiceAccountRole,
               writeServiceAccountCreated(s, t, role)
        PROVE  WritesSome
    <2>1. "tenant" # role BY DEF ServiceAccountRole, TenantRole
    <2>2. Touchable({rel(service_account(s), "tenant", tenant(t)),
                     rel(tenant(t), role, service_account(s))})
          BY <2>1, Tenants, ServiceAccounts, Roles, TwoAreTouchable
    <2> QED BY <1>3, <2>2 DEF writeServiceAccountCreated
  <1>4. ASSUME NEW t \in Tenant, NEW role \in ServiceAccountRole,
               writeServiceAccountRemoved(t, s, role)
        PROVE  WritesSome
        BY <1>4, NothingIsTouchable DEF writeServiceAccountRemoved
  <1>5. ASSUME NEW t \in Tenant, NEW role \in ServiceAccountRole,
               NEW new \in ServiceAccountRole, writeServiceAccountRoleChanged(t, s, role, new)
        PROVE  WritesSome
    <2>1. Touchable({rel(tenant(t), new, service_account(s))})
          BY Tenants, ServiceAccounts, Roles, OneIsTouchable
    <2> QED BY <1>5, <2>1 DEF writeServiceAccountRoleChanged
  <1> QED BY <1>1, <1>2, <1>3, <1>4, <1>5 DEF ServiceAccountWrites

LEMMA InstallationStep ==
    ASSUME NEW i \in Installation, InstallationWrites(i)
    PROVE  WritesSome
  <1> PICK t \in Tenant : writeInstallationRegistered(i, t) \/ writeInstallationRevoked(i, t)
      BY DEF InstallationWrites
  <1>1. Touchable({rel(installation(i), "tenant", tenant(t))})
        BY Tenants, Installations, Roles, OneIsTouchable
  <1> QED BY <1>1, NothingIsTouchable
          DEF writeInstallationRegistered, writeInstallationRevoked, Touches, Deletes, WritesSome

LEMMA EveryStepWrites == Next => WritesSome
  BY UserStep, GrantStep, GroupStep, ServiceAccountStep, InstallationStep DEF Next

-----------------------------------------------------------------------------
(* What every sequence of writes keeps.                                    *)

Kept == TypeOK /\ SchemaHolds /\ StoredOnce /\ NeverWritten

LEMMA InitKept == Init => Kept
  BY DEF Init, Kept, TypeOK, SchemaHolds, StoredOnce, NeverWritten

LEMMA StepKept == Kept /\ [Next]_store => Kept'
  <1> SUFFICES ASSUME Kept, [Next]_store PROVE Kept' OBVIOUS
  <1>1. CASE UNCHANGED store
        BY <1>1 DEF Kept, TypeOK, SchemaHolds, StoredOnce, NeverWritten
  <1>2. CASE Next
    <2>1. PICK touched, deleted : Touchable(touched) /\ Writes(touched, deleted)
          BY <1>2, EveryStepWrites DEF WritesSome
    <2>2. (TypeOK /\ SchemaHolds /\ StoredOnce)'
          BY <2>1, WriteKeeps DEF Kept, Touchable
    <2>3. \A r \in store' : r \in store \/ r \in touched BY <2>1 DEF Writes, After
    <2>4. ASSUME NEW s \in ServiceAccount, NEW t \in Object
          PROVE  rel(service_account(s), "self", t) \notin store'
      <3>1. rel(service_account(s), "self", t) \notin touched
            BY <2>1 DEF Touchable, Writable, rel, relationship, service_account, installation, obj
      <3> QED BY <2>3, <3>1 DEF Kept, NeverWritten
    <2>5. ASSUME NEW i \in Installation
          PROVE  rel(installation(i), "platform", platform) \notin store'
      <3>1. rel(installation(i), "platform", platform) \notin touched
            BY <2>1 DEF Touchable, Writable, rel, relationship, service_account, installation, obj
      <3> QED BY <2>3, <3>1 DEF Kept, NeverWritten
    <2>6. NeverWritten' BY <2>4, <2>5 DEF NeverWritten
    <2> QED BY <2>2, <2>6 DEF Kept
  <1> QED BY <1>1, <1>2

THEOREM Invariance == Spec => []Kept
  <1> QED BY InitKept, StepKept, PTL DEF Spec

\* The writers and the schema: in every store they lead to, a relationship is
\* well formed, what the schema allows, and stored under one caveat at most.
THEOREM StoreIsSound == Spec => [](TypeOK /\ SchemaHolds /\ StoredOnce)
  <1>1. Kept => TypeOK /\ SchemaHolds /\ StoredOnce BY DEF Kept
  <1> QED BY <1>1, Invariance, PTL

\* writeServiceAccountCreated and writeInstallationRegistered: no sequence of
\* writes makes a service account active or gives platform admins an
\* installation other than through its tenant.
THEOREM SomeRelationsAreNeverWritten == Spec => []NeverWritten
  <1>1. Kept => NeverWritten BY DEF Kept
  <1> QED BY <1>1, Invariance, PTL


-----------------------------------------------------------------------------
(* What the checks promise of any store.                                   *)

\* canOnTenant and canSAOnTenant: no permission is carried by fewer roles
\* than a stronger one, in any store, for any caveat context.
THEOREM RolesNest ==
    /\ Carries["transfer_ownership"] = Carries["delete"]
    /\ Carries["delete"] \subseteq Carries["manage_members"]
    /\ Carries["manage_members"] = Carries["manage_settings"]
    /\ Carries["manage_members"] \subseteq Carries["write"]
    /\ Carries["manage_settings"] \subseteq Carries["manage_billing"]
    /\ Carries["write"] \cup Carries["manage_billing"] \subseteq Carries["read"]
  BY DEF Carries, TenantPermission, TenantRole

\* check(), canOnTenant: in every store, whoever may do something of a tenant
\* may do everything weaker.
THEOREM StrongerPermissionsCarryWeaker == PermissionsNest
  <1> SUFFICES ASSUME NEW p \in Principal, NEW t \in Tenant, NEW met \in SUBSET {"expiry"}
               PROVE  LET May(permission) == TenantCheck(p, permission, t, met)
                      IN  /\ May("transfer_ownership") => May("delete")
                          /\ May("delete") => May("manage_members")
                          /\ May("manage_members") => May("manage_settings") /\ May("write")
                          /\ May("manage_settings") => May("manage_billing")
                          /\ May("write") \/ May("manage_billing") => May("read")
      BY DEF PermissionsNest
  <1> QED BY RolesNest DEF TenantCheck, HoldsOneOf

\* schema.zed, the permissions of tenant: whoever is suspended or denied may
\* do nothing of the tenant, in every store, unless a platform admin.
THEOREM SuspensionAndDenialBlock == BlockedMayNothing
  BY DEF BlockedMayNothing, TenantCheck, Administered

\* canActOnMember: nobody acts through it on a blocked member.
THEOREM BlockedMembersAreOutOfReach == BlockedIsOutOfReach
  <1>1. \A target \in User : user(target) \in Principal BY DEF Principal
  <1>2. "read" \in TenantPermission /\ {} \in SUBSET {"expiry"} BY DEF TenantPermission
  <1>3. BlockedMayNothing BY SuspensionAndDenialBlock
  <1> QED BY <1>1, <1>2, <1>3 DEF BlockedIsOutOfReach, BlockedMayNothing, canActOnMember, canOnTenant

-----------------------------------------------------------------------------
(* What single writes do to the checks.                                    *)

LEMMA MembershipNeedsRelationships ==
    ASSUME \A r \in store' : r.caveat = "" => r \in store,
           NEW p, NEW g \in Group, MemberOf(p, g)'
    PROVE  MemberOf(p, g)
  <1>1. \A h : rel(group(h), "member", p) \in store' => rel(group(h), "member", p) \in store
        BY DEF rel, relationship
  <1>2. \A h, child : Nests(h, child)' => Nests(h, child)
        BY DEF Nests, membersOf, relationship
  <1> QED BY <1>1, <1>2 DEF MemberOf

\* writeTemporaryGrant, tenantProcedure: a grant gives nobody a permission
\* that is checked without a caveat context, as every route checks it.
THEOREM GrantGivesNothing ==
    ASSUME NEW t \in Tenant, NEW p \in Principal, NEW role \in ServiceAccountRole,
           writeTemporaryGrant(t, p, role),
           NEW q \in Principal, NEW s \in Tenant, NEW permission \in TenantPermission,
           TenantCheck(q, permission, s, {})'
    PROVE  TenantCheck(q, permission, s, {})
  <1> DEFINE grant == expiring(tenant(t), role, p)
  <1>1. store' = After(store, {grant}, {}) BY DEF writeTemporaryGrant, Touches, Writes
  <1>2. grant.caveat = "expiry" /\ grant.relation = role BY DEF expiring, relationship
  <1> HIDE DEF grant
  <1>3. \A r \in store' : r.caveat = "" => r \in store BY <1>1, <1>2 DEF After
  <1>4. \A r \in store : r.relation \in {"suspended", "denied"} => r \in store'
    <2>1. role \notin {"suspended", "denied"} BY DEF ServiceAccountRole, TenantRole
    <2> QED BY <1>1, <1>2, <2>1 DEF After, Same
  <1>5. Blocked(q, s) => Blocked(q, s)'
    <2>1. \A relation : rel(tenant(s), relation, q).relation = relation BY DEF rel, relationship
    <2> QED BY <1>4, <2>1 DEF Blocked
  <1>6. ASSUME NEW held, Holds(q, held, s, {})' PROVE Holds(q, held, s, {})
    <2>1. rel(tenant(s), held, q) \in store' => rel(tenant(s), held, q) \in store
          BY <1>3 DEF rel, relationship
    <2>2. \A g : membersOf(tenant(s), held, g) \in store' => membersOf(tenant(s), held, g) \in store
          BY <1>3 DEF membersOf, relationship
    <2>3. \A g \in Group : MemberOf(q, g)' => MemberOf(q, g)
          BY <1>3, MembershipNeedsRelationships
    <2> QED BY <1>6, <2>1, <2>2, <2>3 DEF Holds
  <1>7. HoldsOneOf(q, Carries[permission], s, {})' => HoldsOneOf(q, Carries[permission], s, {})
        BY <1>6 DEF HoldsOneOf
  <1>8. Administered(tenant(s), q)' => Administered(tenant(s), q)
        BY <1>3 DEF Administered, isPlatformAdmin, rel, relationship
  <1> QED BY <1>5, <1>7, <1>8 DEF TenantCheck

\* writeTemporaryGrant: the store keeps one relationship of a role and a
\* principal, so granting a role for a time takes it from one who held it
\* for good; deleteTemporaryGrant leaves nothing of either.
THEOREM GrantTakesTheRole ==
    ASSUME NEW t \in Tenant, NEW p \in Principal, NEW role \in ServiceAccountRole,
           writeTemporaryGrant(t, p, role) \/ deleteTemporaryGrant(t, p, role)
    PROVE  rel(tenant(t), role, p) \notin store'
  <1>1. Same(rel(tenant(t), role, p), rel(tenant(t), role, p)) BY DEF Same
  <1>2. /\ Same(rel(tenant(t), role, p), expiring(tenant(t), role, p))
        /\ rel(tenant(t), role, p) # expiring(tenant(t), role, p)
        BY DEF Same, rel, expiring, relationship
  <1> QED BY <1>1, <1>2
          DEF writeTemporaryGrant, deleteTemporaryGrant, Touches, Deletes, Writes, After

\* writeMemberRemoved: taking one role from a suspended member deletes the
\* suspension as well, so one who holds another role has access again.
THEOREM RemovingARoleEndsTheSuspension ==
    ASSUME NEW t \in Tenant, NEW u \in User, NEW role \in TenantRole,
           writeMemberRemoved(t, u, role),
           NEW other \in TenantRole \ {role}, rel(tenant(t), other, user(u)) \in store,
           rel(tenant(t), "denied", user(u)) \notin store
    PROVE  canOnTenant(u, "read", t, {})'
  <1> DEFINE R(relation) == rel(tenant(t), relation, user(u))
  <1>1. store' = After(store, {}, {R(role), R("suspended")}) BY DEF writeMemberRemoved, Writes
  <1>2. \A x, y : Same(R(x), R(y)) <=> x = y BY DEF Same, rel, relationship
  <1> HIDE DEF R
  <1>3. other # "suspended" BY DEF TenantRole
  <1>4. R(other) \in store' BY <1>1, <1>2, <1>3 DEF After, R
  <1>5. R("denied") \notin store' /\ R("suspended") \notin store'
        BY <1>1, <1>2 DEF After, R
  <1>6. other \in Carries["read"] BY DEF Carries, TenantPermission
  <1>7. HoldsOneOf(user(u), Carries["read"], t, {})' BY <1>4, <1>6 DEF HoldsOneOf, Holds, R
  <1>8. ~Blocked(user(u), t)' BY <1>5 DEF Blocked, R
  <1> QED BY <1>7, <1>8 DEF canOnTenant, TenantCheck

=============================================================================
