-------------------------- MODULE ProceduresProofs --------------------------
(***************************************************************************)
(* Proofs about Procedures, for any tenants, users and groups and any      *)
(* store: who reaches which handler, and that what is written of one       *)
(* tenant changes no answer about another.  Then about TenantRows: that    *)
(* calls which overlap change rows of their own tenant only.               *)
(***************************************************************************)
EXTENDS TenantRows, RelationshipsProofs

-----------------------------------------------------------------------------
(* The routers.                                                            *)

\* Every procedure asks for one of three permissions, a read for the weakest.
Modest(procedures) ==
    \A p \in procedures :
        /\ p.permission \in {"read", "write", "manage_members"}
        /\ p.kind # "mutation" => p.permission = "read"

LEMMA PrincipalsAreModest == Modest(principalsRouter)
  <1>1. Modest(tenantReads)
    BY DEF Modest, tenantReads, query, procedure
  <1>2. Modest(userProcedures)
    BY DEF Modest, userProcedures, query, mutation, procedure
  <1>3. Modest(groupProcedures)
    BY DEF Modest, groupProcedures, query, mutation, procedure
  <1>4. Modest(membershipProcedures)
    BY DEF Modest, membershipProcedures, query, mutation, procedure
  <1>5. Modest(roleProcedures)
    BY DEF Modest, roleProcedures, query, mutation, procedure
  <1> QED BY <1>1, <1>2, <1>3, <1>4, <1>5 DEF Modest, principalsRouter

LEMMA RoutersAreModest == Modest(appRouter)
  <1>1. Modest({query("getMyTenant")})
    BY DEF Modest, query, procedure
  <1>2. Modest(eventsRouter)
    BY DEF Modest, eventsRouter, subscription, procedure
  <1>3. Modest(auditRouter)
    BY DEF Modest, auditRouter, query, mutation, procedure
  <1>4. Modest(grantsRouter)
    BY DEF Modest, grantsRouter, query, mutation, procedure
  <1>5. Modest(tenantsRouter)
    BY DEF Modest, tenantsRouter, query, mutation, procedure
  <1> QED BY PrincipalsAreModest, <1>1, <1>2, <1>3, <1>4, <1>5 DEF Modest, appRouter

-----------------------------------------------------------------------------
(* Who reaches a handler.                                                  *)

\* tenantProcedure without requireMFA.
LEMMA Reaching ==
    ASSUME NEW ctx, NEW p
    PROVE  reaches(ctx, p) <=>
              /\ ctx.token = "verified"
              /\ canOnTenant(ctx.user.userId, p.permission, ctx.user.tenantId, {})
  BY DEF reaches, tenantProcedure, authMiddleware

\* canOnWorkflow of a workflow of tenant t.
LEMMA Watching ==
    ASSUME NEW ctx, NEW t \in Tenant, NEW kind
    PROVE  watches(ctx, workflowId(t, kind)) <=>
              ctx.token = "verified" /\ canOnTenant(ctx.user.userId, "read", t, {})
  <1>1. parseTenantFromWorkflowId(workflowId(t, kind)) = {t}
    BY DEF parseTenantFromWorkflowId, workflowId
  <1> QED BY <1>1 DEF watches, authMiddleware, canOnWorkflow, WorkflowPermission

\* routers, tenantProcedure, canOnWorkflow: whoever gets a mutation through
\* gets every read, and the progress of the workflow, of the same store.
THEOREM MutationsImplyReads == MutatorsMayRead
  <1> SUFFICES ASSUME NEW ctx \in Context, NEW p \in appRouter, reaches(ctx, p)
               PROVE  /\ \A q \in appRouter : q.kind # "mutation" => reaches(ctx, q)
                      /\ \A kind \in WorkflowKind :
                            watches(ctx, workflowId(ctx.user.tenantId, kind))
    BY DEF MutatorsMayRead
  <1> DEFINE u == ctx.user.userId
             t == ctx.user.tenantId
  <1>1. u \in User /\ t \in Tenant BY DEF Context, VerifiedUser
  <1>2. user(u) \in Principal BY <1>1 DEF Principal
  <1>3. p.permission \in {"read", "write", "manage_members"} BY RoutersAreModest DEF Modest
  <1>4. ctx.token = "verified" /\ TenantCheck(user(u), p.permission, t, {})
    BY Reaching DEF canOnTenant
  <1>5. {} \in SUBSET {"expiry"} OBVIOUS
  <1>6. TenantCheck(user(u), "read", t, {})
    BY <1>1, <1>2, <1>3, <1>4, <1>5, StrongerPermissionsCarryWeaker DEF PermissionsNest
  <1>7. ASSUME NEW q \in appRouter, q.kind # "mutation" PROVE reaches(ctx, q)
    <2>1. q.permission = "read" BY <1>7, RoutersAreModest DEF Modest
    <2> QED BY <2>1, <1>4, <1>6, Reaching DEF canOnTenant
  <1>8. ASSUME NEW kind \in WorkflowKind PROVE watches(ctx, workflowId(t, kind))
    BY <1>1, <1>4, <1>6, Watching DEF canOnTenant
  <1> QED BY <1>7, <1>8

\* tenantProcedure: suspension and denial end all of a caller's requests.
THEOREM BlockedReachNothing == BlockedCallersAreShutOut
  <1> SUFFICES ASSUME NEW ctx \in Context,
                      Blocked(user(ctx.user.userId), ctx.user.tenantId),
                      ~isPlatformAdmin(user(ctx.user.userId))
               PROVE  /\ \A p \in appRouter : ~reaches(ctx, p)
                      /\ \A kind \in WorkflowKind :
                            ~watches(ctx, workflowId(ctx.user.tenantId, kind))
    BY DEF BlockedCallersAreShutOut
  <1> DEFINE u == ctx.user.userId
             t == ctx.user.tenantId
  <1>1. u \in User /\ t \in Tenant BY DEF Context, VerifiedUser
  <1>2. user(u) \in Principal BY <1>1 DEF Principal
  <1>3. {} \in SUBSET {"expiry"} OBVIOUS
  <1>4. \A permission \in TenantPermission : ~TenantCheck(user(u), permission, t, {})
    BY <1>1, <1>2, <1>3, SuspensionAndDenialBlock DEF BlockedMayNothing
  <1>5. {"read", "write", "manage_members"} \subseteq TenantPermission BY DEF TenantPermission
  <1>6. ASSUME NEW p \in appRouter PROVE ~reaches(ctx, p)
    <2>1. p.permission \in TenantPermission BY <1>5, RoutersAreModest DEF Modest
    <2> QED BY <2>1, <1>4, Reaching DEF canOnTenant
  <1>7. ASSUME NEW kind \in WorkflowKind PROVE ~watches(ctx, workflowId(t, kind))
    BY <1>1, <1>4, <1>5, Watching DEF canOnTenant
  <1> QED BY <1>6, <1>7

\* requirePermission, tenantProcedure: one gate in two forms.
THEOREM OneGateInTwoForms == TheGatesAgree
  <1> SUFFICES ASSUME NEW ctx \in Context, NEW permission \in TenantPermission,
                      NEW mfa \in BOOLEAN
               PROVE  LET active == [type |-> "tenant", id |-> ctx.user.tenantId,
                                     permission |-> permission]
                      IN  requirePermission(ctx, TRUE, active, mfa) = tenantProcedure(ctx, permission, mfa)
    BY DEF TheGatesAgree
  <1> DEFINE active == [type |-> "tenant", id |-> ctx.user.tenantId, permission |-> permission]
  <1>1. grants(active, ctx.user.userId)
            <=> canOnTenant(ctx.user.userId, permission, ctx.user.tenantId, {})
    BY DEF grants
  <1> HIDE DEF active
  <1>2. requirePermission(ctx, TRUE, active, mfa) = tenantProcedure(ctx, permission, mfa)
    BY <1>1 DEF requirePermission, tenantProcedure, authMiddleware
  <1> QED BY <1>2 DEF active

\* listRolesForPrincipal, expandPrincipalsForRole: the listed roles explain
\* what tenantProcedure answers.
THEOREM ListedRolesExplain == RolesExplainTheGate
  <1> SUFFICES ASSUME NEW u \in User, NEW t \in Tenant, NEW permission \in TenantPermission
               PROVE  LET roles == listRolesForPrincipal(t, user(u))
                      IN  /\ ~Blocked(user(u), t) /\ ~isPlatformAdmin(user(u)) =>
                               (canOnTenant(u, permission, t, {})
                                   <=> roles \cap Carries[permission] # {})
                          /\ \A role \in TenantRole : role \in roles
                                <=> user(u) \in expandPrincipalsForRole(t, role).users
    BY DEF RolesExplainTheGate
  <1> DEFINE roles == listRolesForPrincipal(t, user(u))
  <1>1. TenantRole \cap TenantPermission = {} BY DEF TenantRole, TenantPermission
  <1>2. \A role \in TenantRole : checkRelation(t, role, user(u)) <=> Holds(user(u), role, t, {})
    BY <1>1 DEF checkRelation
  <1>3. Carries[permission] \subseteq TenantRole BY DEF Carries, TenantPermission, TenantRole
  <1>4. roles \cap Carries[permission] # {} <=> HoldsOneOf(user(u), Carries[permission], t, {})
    BY <1>2, <1>3 DEF listRolesForPrincipal, HoldsOneOf
  <1>5. ~Blocked(user(u), t) /\ ~isPlatformAdmin(user(u)) =>
            (canOnTenant(u, permission, t, {}) <=> HoldsOneOf(user(u), Carries[permission], t, {}))
    BY DEF canOnTenant, TenantCheck, Administered
  <1>6. user(u) \in Principal /\ user(u) \in {user(v) : v \in User} BY DEF Principal
  <1>7. ASSUME NEW role \in TenantRole
        PROVE  role \in roles <=> user(u) \in expandPrincipalsForRole(t, role).users
    BY <1>6 DEF listRolesForPrincipal, expandPrincipalsForRole, lookupSubjects
  <1> QED BY <1>4, <1>5, <1>7

\* RoleAssignmentBase, ChangeRoleSchema, CreateTemporaryGrantSchema, schema.zed:
\* what the input schemas accept and what the schema of SpiceDB allows.
THEOREM InputsAndSchemaAgree == AcceptedInputsAreWritable
  <1> DEFINE R(s, role, p) == rel(tenant(s), role, p)
             Unownable(x) == x.oldRole = "owner" /\ x.principal.type = "service_account"
  <1> SUFFICES ASSUME NEW t \in Tenant
               PROVE  /\ \A x \in RoleAssignmentBase :
                            Allowed(R(t, x.role, x.principal)) /\ Deletable(R(t, x.role, x.principal))
                      /\ \A x \in ChangeRoleSchema :
                            /\ Allowed(R(t, x.newRole, x.principal))
                            /\ ~Same(R(t, x.newRole, x.principal), R(t, x.oldRole, x.principal))
                            /\ Deletable(R(t, x.oldRole, x.principal)) <=> ~Unownable(x)
                      /\ \A x \in CreateTemporaryGrantSchema :
                            Allowed(expiring(tenant(t), x.role, x.subject)) <=> x.role = "admin"
    BY DEF AcceptedInputsAreWritable
  <1>1. \A p \in Principal : p.type \in {"user", "service_account"}
    BY DEF Principal, user, service_account, obj
  <1>2. tenant(t).type = "tenant" BY DEF tenant, obj
  <1>3. ASSUME NEW role \in TenantRole, NEW p \in Principal
        PROVE  /\ Allowed(R(t, role, p)) <=> ~(role = "owner" /\ p.type = "service_account")
               /\ Deletable(R(t, role, p)) <=> ~(role = "owner" /\ p.type = "service_account")
    <2>1. ASSUME NEW caveat \in {"", "expiry"}
          PROVE  LET r == [R(t, role, p) EXCEPT !.caveat = caveat]
                 IN  /\ r.resource = tenant(t) /\ r.relation = role /\ r.subject = p
                     /\ r.via = "" /\ r.caveat = caveat
      BY DEF rel, relationship
    <2>2. Allowed(R(t, role, p)) <=> ~(role = "owner" /\ p.type = "service_account")
      BY <1>1, <1>2 DEF Allowed, rel, relationship, TenantRole, ServiceAccountRole
    <2> HIDE DEF R
    <2>3. Allowed([R(t, role, p) EXCEPT !.caveat = ""]) <=>
              ~(role = "owner" /\ p.type = "service_account")
      BY <1>1, <1>2, <2>1 DEF Allowed, TenantRole, ServiceAccountRole
    <2>4. Allowed([R(t, role, p) EXCEPT !.caveat = "expiry"]) =>
              ~(role = "owner" /\ p.type = "service_account")
      BY <1>1, <1>2, <2>1 DEF Allowed, TenantRole, ServiceAccountRole
    <2> QED BY <2>2, <2>3, <2>4 DEF Deletable
  <1>4. ASSUME NEW x \in RoleAssignmentBase
        PROVE  Allowed(R(t, x.role, x.principal)) /\ Deletable(R(t, x.role, x.principal))
    BY <1>3 DEF RoleAssignmentBase, PrincipalSchema
  <1>5. ASSUME NEW x \in ChangeRoleSchema
        PROVE  /\ Allowed(R(t, x.newRole, x.principal))
               /\ ~Same(R(t, x.newRole, x.principal), R(t, x.oldRole, x.principal))
               /\ Deletable(R(t, x.oldRole, x.principal)) <=> ~Unownable(x)
    <2>1. /\ x.oldRole \in TenantRole /\ x.newRole \in TenantRole /\ x.principal \in Principal
          /\ x.oldRole # x.newRole
          /\ ~(x.newRole = "owner" /\ x.principal.type = "service_account")
      BY DEF ChangeRoleSchema, PrincipalSchema
    <2>2. ~Same(R(t, x.newRole, x.principal), R(t, x.oldRole, x.principal))
      BY <2>1 DEF Same, rel, relationship
    <2> QED BY <1>3, <2>1, <2>2
  <1>6. ASSUME NEW role \in GRANTABLE_ROLES, NEW p \in Principal
        PROVE  Allowed(expiring(tenant(t), role, p)) <=> role = "admin"
    BY <1>1, <1>2 DEF Allowed, expiring, relationship, GRANTABLE_ROLES, TenantRole
  <1>7. \A x \in CreateTemporaryGrantSchema :
            Allowed(expiring(tenant(t), x.role, x.subject)) <=> x.role = "admin"
    BY <1>6 DEF CreateTemporaryGrantSchema, PrincipalSchema
  <1> QED BY <1>4, <1>5, <1>7

-----------------------------------------------------------------------------
(* One tenant's relationships and another's.                               *)

\* The writers that are given tenant s.
TenantWrites(s) ==
    \/ \E u \in User :
          \/ writeTenantCreated(s, u)
          \/ writeMemberSuspended(s, u) \/ writeMemberReinstated(s, u)
          \/ writeUserDenied(s, u) \/ writeUserDeniedRevoked(s, u)
          \/ \E role, new \in TenantRole :
                \/ writeMemberJoined(s, u, role) \/ writeMemberRemoved(s, u, role)
                \/ writeMemberRoleChanged(s, u, role, new)
    \/ \E p \in Principal, role \in ServiceAccountRole :
          writeTemporaryGrant(s, p, role) \/ deleteTemporaryGrant(s, p, role)
    \/ \E g \in Group, role \in TenantRole :
          writeGroupRoleAssigned(s, g, role) \/ writeGroupRoleRevoked(s, g, role)
    \/ \E a \in ServiceAccount, role, new \in ServiceAccountRole :
          \/ writeServiceAccountCreated(a, s, role) \/ writeServiceAccountRemoved(s, a, role)
          \/ writeServiceAccountRoleChanged(s, a, role, new)
          \/ writeServiceAccountSuspended(s, a) \/ writeServiceAccountReinstated(s, a)

\* What the checks on tenant t look at: the relationships of t, of groups and
\* of the platform.
Seen(t) == {tenant(t), platform} \cup {group(g) : g \in Group}

\* A write of other resources leaves every check on t as it was.
Foreign(t, touched, deleted) == \A r \in touched \cup deleted : r.resource \notin Seen(t)

LEMMA ForeignWriteKeepsWhatIsSeen ==
    ASSUME NEW t, NEW touched, NEW deleted, Writes(touched, deleted), Foreign(t, touched, deleted),
           NEW r, r.resource \in Seen(t)
    PROVE  r \in store' <=> r \in store
  BY DEF Writes, After, Foreign, Same

\* Relationship operators, with the resource they name.
LEMMA Resources ==
    \A resource, relation, subject, g :
        /\ rel(resource, relation, subject).resource = resource
        /\ expiring(resource, relation, subject).resource = resource
        /\ membersOf(resource, relation, g).resource = resource
  BY DEF rel, expiring, membersOf, relationship

\* The checks see nothing else.
LEMMA ChecksSeeOnlyTheirTenant ==
    ASSUME NEW t \in Tenant, NEW p, NEW permission, NEW met,
           \A r : r.resource \in Seen(t) => (r \in store' <=> r \in store)
    PROVE  TenantCheck(p, permission, t, met)' <=> TenantCheck(p, permission, t, met)
  <1>1. \A relation, s : rel(tenant(t), relation, s) \in store' <=> rel(tenant(t), relation, s) \in store
    BY Resources DEF Seen
  <1>2. \A relation, s :
            expiring(tenant(t), relation, s) \in store' <=> expiring(tenant(t), relation, s) \in store
    BY Resources DEF Seen
  <1>3. \A relation, g :
            membersOf(tenant(t), relation, g) \in store' <=> membersOf(tenant(t), relation, g) \in store
    BY Resources DEF Seen
  <1>4. \A g \in Group : \A s : rel(group(g), "member", s) \in store' <=> rel(group(g), "member", s) \in store
    BY Resources DEF Seen
  <1>5. \A g, h \in Group : Nests(g, h)' <=> Nests(g, h)
    BY Resources DEF Seen, Nests
  <1>6. \A g \in Group : MemberOf(p, g)' <=> MemberOf(p, g)
    BY <1>4, <1>5 DEF MemberOf
  <1>7. \A relation : Holds(p, relation, t, met)' <=> Holds(p, relation, t, met)
    BY <1>1, <1>2, <1>3, <1>6 DEF Holds
  <1>8. Blocked(p, t)' <=> Blocked(p, t)
    BY <1>1 DEF Blocked
  <1>9. Administered(tenant(t), p)' <=> Administered(tenant(t), p)
    <2>1. rel(platform, "super_admin", p) \in store' <=> rel(platform, "super_admin", p) \in store
      BY Resources DEF Seen
    <2> QED BY <1>1, <2>1 DEF Administered, isPlatformAdmin
  <1>10. HoldsOneOf(p, Carries[permission], t, met)' <=> HoldsOneOf(p, Carries[permission], t, met)
    BY <1>7 DEF HoldsOneOf
  <1> QED BY <1>8, <1>9, <1>10 DEF TenantCheck

LEMMA ObjectsDiffer ==
    ASSUME NEW s \in Tenant, NEW t \in Tenant, s # t
    PROVE  /\ tenant(s) \notin Seen(t)
           /\ \A a : service_account(a) \notin Seen(t)
  BY DEF Seen, tenant, service_account, platform, group, obj

\* One relationship, or two, of tenant s.
LEMMA TenantWritesAreForeign ==
    ASSUME NEW s \in Tenant, NEW t \in Tenant, s # t, TenantWrites(s)
    PROVE  \E touched, deleted : Writes(touched, deleted) /\ Foreign(t, touched, deleted)
  <1> USE Resources, ObjectsDiffer
  <1>1. CASE \E u \in User :
               \/ writeTenantCreated(s, u)
               \/ writeMemberSuspended(s, u) \/ writeMemberReinstated(s, u)
               \/ writeUserDenied(s, u) \/ writeUserDeniedRevoked(s, u)
    BY <1>1 DEF writeTenantCreated, writeMemberSuspended, writeMemberReinstated, writeUserDenied,
                writeUserDeniedRevoked, Touches, Deletes, Foreign
  <1>2. CASE \E u \in User, role, new \in TenantRole :
               \/ writeMemberJoined(s, u, role) \/ writeMemberRemoved(s, u, role)
               \/ writeMemberRoleChanged(s, u, role, new)
    BY <1>2 DEF writeMemberJoined, writeMemberRemoved, writeMemberRoleChanged, Touches, Foreign
  <1>3. CASE \E p \in Principal, role \in ServiceAccountRole :
               writeTemporaryGrant(s, p, role) \/ deleteTemporaryGrant(s, p, role)
    BY <1>3 DEF writeTemporaryGrant, deleteTemporaryGrant, Touches, Deletes, Foreign
  <1>4. CASE \E g \in Group, role \in TenantRole :
               writeGroupRoleAssigned(s, g, role) \/ writeGroupRoleRevoked(s, g, role)
    BY <1>4 DEF writeGroupRoleAssigned, writeGroupRoleRevoked, Touches, Deletes, Foreign
  <1>5. CASE \E a \in ServiceAccount, role, new \in ServiceAccountRole :
               \/ writeServiceAccountCreated(a, s, role) \/ writeServiceAccountRemoved(s, a, role)
               \/ writeServiceAccountRoleChanged(s, a, role, new)
               \/ writeServiceAccountSuspended(s, a) \/ writeServiceAccountReinstated(s, a)
    BY <1>5 DEF writeServiceAccountCreated, writeServiceAccountRemoved,
                writeServiceAccountRoleChanged, writeServiceAccountSuspended,
                writeServiceAccountReinstated, Touches, Deletes, Foreign
  <1> QED BY <1>1, <1>2, <1>3, <1>4, <1>5 DEF TenantWrites

\* The writers of spicedb.ts, canOnTenant: nothing that is written of one
\* tenant, a role, a suspension, a denial, a grant or a role of a group or of a
\* service account, changes who may do what on another, although they share
\* groups' members, users and the store.
THEOREM TenantsAreIsolated ==
    ASSUME NEW s \in Tenant, NEW t \in Tenant, s # t, TenantWrites(s),
           NEW p, NEW permission, NEW met
    PROVE  TenantCheck(p, permission, t, met)' <=> TenantCheck(p, permission, t, met)
  <1>1. PICK touched, deleted : Writes(touched, deleted) /\ Foreign(t, touched, deleted)
    BY TenantWritesAreForeign
  <1>2. \A r : r.resource \in Seen(t) => (r \in store' <=> r \in store)
    BY <1>1, ForeignWriteKeepsWhatIsSeen
  <1> QED BY <1>2, ChecksSeeOnlyTheirTenant

-----------------------------------------------------------------------------
(* The rows of groups and grants.                                          *)

\* What the handlers read of an input.
LEMMA Inputs ==
    ASSUME NEW x \in Input
    PROVE  /\ x.path = "principals.groups.create" => x.name \in Name /\ x.parentGroupId \in Parent
           /\ x.path = "principals.groups.update" =>
                x.id \in Group /\ x.name \in Optional(Name) /\ x.parentGroupId \in Optional(Parent)
           /\ x.path = "principals.groups.delete" => x.id \in Group
           /\ x.path \in {"grants.revoke", "grants.update_reason"} => x.id \in Grant
           /\ x.path = "grants.update_reason" => x.reason \in Reason
  BY DEF Input, CreateGroupSchema, UpdateGroupInputSchema, DeleteGroupInputSchema,
         GrantInputSchema, RevokeTemporaryGrantSchema, UpdateGrantReasonInputSchema

LEMMA GivenType ==
    ASSUME NEW S, NEW field \in Optional(S), NEW old \in S
    PROVE  Given(field, old) \in S
  <1>1. CASE field = {} BY <1>1 DEF Given
  <1>2. CASE field # {}
    <2>1. PICK x \in S : field = {x} BY <1>2 DEF Optional
    <2>2. (CHOOSE new \in field : TRUE) = x BY <2>1
    <2> QED BY <1>2, <2>2 DEF Given
  <1> QED BY <1>1, <1>2

\* A call past its first query has found a row of its own tenant, which may be
\* gone by now but was not given to another.
FoundIsOwn ==
    \A c \in Call : call[c].phase = "found" =>
        /\ call[c].input.path \in {"principals.groups.update", "principals.groups.delete"} =>
              /\ groups[call[c].input.id].state # "unused"
              /\ groups[call[c].input.id].tenant = call[c].tenant
        /\ call[c].input.path = "grants.update_reason" =>
              getGrant(call[c].tenant, call[c].input.id)

RowsInv == RowsTypeOK /\ ParentsAreThere /\ RevokesStayInTheirTenant /\ FoundIsOwn

\* The rows may only change as follows: no id is given twice, no row changes
\* its tenant, and no grant goes away.
RowsKept ==
    /\ \A g \in Group : groups[g].state # "unused" =>
          groups'[g].state # "unused" /\ groups'[g].tenant = groups[g].tenant
    /\ \A g \in Grant : temporary_grants[g].there =>
          temporary_grants'[g].there /\ temporary_grants'[g].tenant = temporary_grants[g].tenant

\* A step of call c keeps FoundIsOwn if it keeps the rows and c finds its own.
LEMMA FoundStays ==
    ASSUME RowsTypeOK, FoundIsOwn, RowsKept, NEW c \in Call, NEW new,
           call' = [call EXCEPT ![c] = new], new.phase # "found"
    PROVE  FoundIsOwn'
  <1> SUFFICES ASSUME NEW d \in Call, call'[d].phase = "found"
               PROVE  /\ call'[d].input.path \in {"principals.groups.update", "principals.groups.delete"} =>
                           /\ groups'[call'[d].input.id].state # "unused"
                           /\ groups'[call'[d].input.id].tenant = call'[d].tenant
                      /\ call'[d].input.path = "grants.update_reason" =>
                           getGrant(call[d].tenant, call[d].input.id)'
    BY DEF FoundIsOwn
  <1>1. call'[d] = call[d] BY DEF RowsTypeOK
  <1>2. call[d].input \in Input BY DEF RowsTypeOK
  <1> QED BY <1>1, <1>2, Inputs DEF FoundIsOwn, RowsKept, getGrant

\* A call that returns, or fails.
LEMMA Returning ==
    ASSUME RowsTypeOK, NEW c \in Call, Returns(c)
    PROVE  /\ call' \in [Call -> [phase : {"idle", "admitted", "found", "done"},
                                  tenant : Tenant, input : Input]]
           /\ RowsKept /\ FoundIsOwn => FoundIsOwn'
  <1>1. call' = [call EXCEPT ![c] = [call[c] EXCEPT !.phase = "done"]]
    BY DEF Returns, Becomes, RowsTypeOK
  <1>2. [call[c] EXCEPT !.phase = "done"] \in [phase : {"idle", "admitted", "found", "done"},
                                               tenant : Tenant, input : Input]
    BY DEF RowsTypeOK
  <1>3. [call[c] EXCEPT !.phase = "done"].phase # "found" BY DEF RowsTypeOK
  <1>4. ASSUME RowsKept, FoundIsOwn PROVE FoundIsOwn' BY <1>1, <1>3, <1>4, FoundStays
  <1> QED BY <1>1, <1>2, <1>4 DEF RowsTypeOK

LEMMA Inserting ==
    ASSUME RowsInv, NEW c \in Call, createGroup(c)
    PROVE  RowsInv'
  <1> USE DEF RowsInv
  <1>1. PICK g \in Group :
            /\ groups[g].state = "unused" /\ ParentIsThere(call[c].input.parentGroupId)
            /\ groups' = [groups EXCEPT ![g] = [state |-> "there", tenant |-> call[c].tenant,
                              name |-> call[c].input.name, parent |-> call[c].input.parentGroupId]]
    BY DEF createGroup
  <1>2. call[c].input.name \in Name /\ call[c].input.parentGroupId \in Parent
    BY Inputs DEF createGroup, In, RowsTypeOK
  <1>3. UNCHANGED <<temporary_grants, workflows, revoked>> /\ Returns(c) BY DEF createGroup
  <1>4. RowsKept BY <1>1, <1>3 DEF RowsKept, RowsTypeOK
  <1>5. groups' \in [Group -> GroupRow] BY <1>1, <1>2 DEF RowsTypeOK, GroupRow
  <1>6. RowsTypeOK' /\ FoundIsOwn' BY <1>3, <1>4, <1>5, Returning DEF RowsTypeOK
  <1>7. \A h \in Group : There(h) => There(h)' BY <1>1 DEF There, RowsTypeOK
  <1>8. ParentsAreThere'
    <2> SUFFICES ASSUME NEW h \in Group, There(h)', NEW p \in groups'[h].parent PROVE There(p)'
      BY DEF ParentsAreThere, ParentIsThere
    <2>1. CASE h = g BY <1>1, <1>2, <1>7, <2>1 DEF RowsTypeOK, ParentIsThere, Parent, Optional
    <2>2. CASE h # g
      <3>1. groups'[h] = groups[h] BY <1>1, <2>2 DEF RowsTypeOK
      <3>2. There(h) /\ p \in groups[h].parent BY <3>1 DEF There
      <3>3. There(p) /\ p \in Group BY <3>2 DEF ParentsAreThere, ParentIsThere, RowsTypeOK, GroupRow, Parent, Optional
      <3> QED BY <1>7, <3>3
    <2> QED BY <2>1, <2>2
  <1>9. RevokesStayInTheirTenant' BY <1>3 DEF RevokesStayInTheirTenant
  <1> QED BY <1>6, <1>8, <1>9

LEMMA Updating ==
    ASSUME RowsInv, NEW c \in Call, updateGroup(c)
    PROVE  RowsInv' /\ RowsKept
  <1> USE DEF RowsInv
  <1> DEFINE x == call[c].input
             new == [groups[x.id] EXCEPT !.name = Given(x.name, @),
                                         !.parent = Given(x.parentGroupId, @)]
  <1>1. /\ x.id \in Group /\ x.name \in Optional(Name) /\ x.parentGroupId \in Optional(Parent)
    BY Inputs DEF updateGroup, In, RowsTypeOK
  <1>2. /\ There(x.id) => ParentIsThere(new.parent)
        /\ groups' = IF There(x.id) THEN [groups EXCEPT ![x.id] = new] ELSE groups
    BY DEF updateGroup
  <1>3. UNCHANGED <<temporary_grants, workflows, revoked>> /\ Returns(c) BY DEF updateGroup
  <1>4. new \in GroupRow /\ new.state = groups[x.id].state /\ new.tenant = groups[x.id].tenant
    <2>1. groups[x.id] \in GroupRow BY <1>1 DEF RowsTypeOK
    <2>2. Given(x.name, groups[x.id].name) \in Name BY <1>1, <2>1, GivenType DEF GroupRow
    <2>3. Given(x.parentGroupId, groups[x.id].parent) \in Parent BY <1>1, <2>1, GivenType DEF GroupRow
    <2> QED BY <2>1, <2>2, <2>3 DEF GroupRow
  <1> HIDE DEF new
  <1>5. RowsKept BY <1>1, <1>2, <1>3, <1>4 DEF RowsKept, RowsTypeOK
  <1>6. groups' \in [Group -> GroupRow] BY <1>1, <1>2, <1>4 DEF RowsTypeOK
  <1>7. RowsTypeOK' /\ FoundIsOwn' BY <1>3, <1>5, <1>6, Returning DEF RowsTypeOK
  <1>8. \A h \in Group : There(h)' <=> There(h) BY <1>1, <1>2, <1>4 DEF There, RowsTypeOK
  <1>9. ParentsAreThere'
    <2> SUFFICES ASSUME NEW h \in Group, There(h)', NEW p \in groups'[h].parent PROVE There(p)'
      BY DEF ParentsAreThere, ParentIsThere
    <2>1. p \in Group /\ There(h) BY <1>6, <1>8 DEF GroupRow, Parent, Optional
    <2>2. CASE h = x.id /\ There(x.id)
      <3>1. groups'[h] = new BY <1>1, <1>2, <2>2 DEF RowsTypeOK
      <3> QED BY <1>2, <1>8, <2>1, <2>2, <3>1 DEF ParentIsThere
    <2>3. CASE ~(h = x.id /\ There(x.id))
      <3>1. groups'[h] = groups[h] BY <1>1, <1>2, <2>3 DEF RowsTypeOK
      <3> QED BY <1>8, <2>1, <3>1 DEF ParentsAreThere, ParentIsThere
    <2> QED BY <2>2, <2>3
  <1>10. RevokesStayInTheirTenant' BY <1>3 DEF RevokesStayInTheirTenant
  <1> QED BY <1>5, <1>7, <1>9, <1>10

LEMMA Deleting ==
    ASSUME RowsInv, NEW c \in Call, deleteGroup(c)
    PROVE  RowsInv' /\ RowsKept
  <1> USE DEF RowsInv
  <1> DEFINE id == call[c].input.id
  <1>1. id \in Group BY Inputs DEF deleteGroup, In, RowsTypeOK
  <1>2. groups' = IF ~There(id) THEN groups
                  ELSE [g \in Group |-> IF g = id THEN [groups[g] EXCEPT !.state = "deleted"]
                                        ELSE [groups[g] EXCEPT !.parent = @ \ {id}]]
    BY DEF deleteGroup
  <1>3. UNCHANGED <<temporary_grants, workflows, revoked>> /\ Returns(c) BY DEF deleteGroup
  <1>4. \A g \in Group : groups[g] \in GroupRow BY DEF RowsTypeOK
  <1>5. \A g \in Group : groups[g].parent \ {id} \in Parent BY <1>4 DEF GroupRow, Parent, Optional
  <1>6. groups' \in [Group -> GroupRow]
    <2>1. CASE ~There(id) BY <1>2, <2>1 DEF RowsTypeOK
    <2>2. CASE There(id)
      <3>1. \A g \in Group : [groups[g] EXCEPT !.state = "deleted"] \in GroupRow
        BY <1>4 DEF GroupRow
      <3>2. \A g \in Group : [groups[g] EXCEPT !.parent = @ \ {id}] \in GroupRow
        BY <1>4, <1>5 DEF GroupRow
      <3> QED BY <1>2, <2>2, <3>1, <3>2
    <2> QED BY <2>1, <2>2
  <1>7. RowsKept BY <1>2, <1>3, <1>4 DEF RowsKept, GroupRow
  <1>8. RowsTypeOK' /\ FoundIsOwn' BY <1>3, <1>6, <1>7, Returning DEF RowsTypeOK
  <1>9. ParentsAreThere'
    <2>1. CASE ~There(id)
      BY <1>2, <2>1 DEF ParentsAreThere, ParentIsThere, There
    <2>2. CASE There(id)
      <3> SUFFICES ASSUME NEW h \in Group, There(h)', NEW p \in groups'[h].parent PROVE There(p)'
        BY DEF ParentsAreThere, ParentIsThere
      <3>1. h # id BY <1>1, <1>2, <1>4, <2>2 DEF There, GroupRow
      <3>2. groups'[h] = [groups[h] EXCEPT !.parent = @ \ {id}] BY <1>2, <2>2, <3>1
      <3>3. There(h) /\ p \in groups[h].parent /\ p # id BY <1>4, <3>2 DEF There, GroupRow
      <3>4. There(p) /\ p \in Group BY <1>4, <3>3 DEF ParentsAreThere, ParentIsThere, GroupRow, Parent, Optional
      <3>5. groups'[p].state = groups[p].state BY <1>2, <1>4, <2>2, <3>3, <3>4 DEF GroupRow
      <3> QED BY <3>4, <3>5 DEF There
    <2> QED BY <2>1, <2>2
  <1>10. RevokesStayInTheirTenant' BY <1>3 DEF RevokesStayInTheirTenant
  <1> QED BY <1>7, <1>8, <1>9, <1>10

LEMMA Finding ==
    ASSUME RowsInv, NEW c \in Call, findById(c)
    PROVE  RowsInv'
  <1> USE DEF RowsInv
  <1>1. UNCHANGED rows BY DEF findById
  <1>2. PICK phase \in {"found", "done"} : Becomes(c, phase) /\ (phase = "found" =>
            \/ /\ call[c].input.path \in {"principals.groups.update", "principals.groups.delete"}
               /\ findGroup(call[c].tenant, call[c].input.id)
            \/ /\ call[c].input.path = "grants.update_reason"
               /\ getGrant(call[c].tenant, call[c].input.id))
    BY DEF findById, In
  <1>3. call' = [call EXCEPT ![c] = [call[c] EXCEPT !.phase = phase]]
    BY <1>2 DEF Becomes, RowsTypeOK
  <1>4. RowsTypeOK'
    <2>1. [call[c] EXCEPT !.phase = phase] \in [phase : {"idle", "admitted", "found", "done"},
                                                tenant : Tenant, input : Input]
      BY DEF RowsTypeOK
    <2> QED BY <1>1, <1>3, <2>1 DEF rows, RowsTypeOK
  <1>5. FoundIsOwn'
    <2> SUFFICES ASSUME NEW d \in Call, call'[d].phase = "found"
                 PROVE  /\ call'[d].input.path \in {"principals.groups.update", "principals.groups.delete"} =>
                             /\ groups'[call'[d].input.id].state # "unused"
                             /\ groups'[call'[d].input.id].tenant = call'[d].tenant
                        /\ call'[d].input.path = "grants.update_reason" =>
                             getGrant(call[d].tenant, call[d].input.id)'
      BY DEF FoundIsOwn
    <2>1. call'[d].input = call[d].input /\ call'[d].tenant = call[d].tenant
      BY <1>3 DEF RowsTypeOK
    <2>2. CASE d = c
      <3>1. phase = "found" BY <1>3, <2>2 DEF RowsTypeOK
      <3> QED BY <1>1, <1>2, <2>1, <2>2, <3>1 DEF rows, findGroup, There, getGrant
    <2>3. CASE d # c
      <3>1. call'[d] = call[d] BY <1>3, <2>3 DEF RowsTypeOK
      <3> QED BY <1>1, <3>1 DEF FoundIsOwn, rows, getGrant
    <2> QED BY <2>2, <2>3
  <1>6. ParentsAreThere' /\ RevokesStayInTheirTenant'
    BY <1>1 DEF rows, ParentsAreThere, ParentIsThere, There, RevokesStayInTheirTenant
  <1> QED BY <1>4, <1>5, <1>6

\* The steps that leave the groups alone, but for findById.
LEMMA Granting ==
    ASSUME RowsInv, NEW c \in Call,
           \/ Admit(c) \/ CallFails(c) \/ createTemporaryGrant(c)
           \/ revokeTemporaryGrant(c) \/ updateGrantReason(c)
    PROVE  RowsInv' /\ RowsKept /\ UNCHANGED groups
  <1> USE DEF RowsInv
  <1>1. UNCHANGED groups
    BY DEF Admit, CallFails, createTemporaryGrant, revokeTemporaryGrant, updateGrantReason, rows
  <1>2. ParentsAreThere' BY <1>1 DEF ParentsAreThere, ParentIsThere, There
  <1>3. CASE Admit(c)
    <2>1. PICK ctx \in Context, x \in Input :
              call' = [call EXCEPT ![c] = [phase |-> "admitted", tenant |-> ctx.user.tenantId,
                                           input |-> x]]
      BY <1>3 DEF Admit
    <2>2. UNCHANGED rows BY <1>3 DEF Admit
    <2>3. ctx.user.tenantId \in Tenant BY DEF Context, VerifiedUser
    <2>4. RowsTypeOK' /\ RowsKept BY <2>1, <2>2, <2>3 DEF rows, RowsTypeOK, RowsKept
    <2> DEFINE new == [phase |-> "admitted", tenant |-> ctx.user.tenantId, input |-> x]
    <2>5. new.phase # "found" OBVIOUS
    <2>6. call' = [call EXCEPT ![c] = new] BY <2>1
    <2> HIDE DEF new
    <2>7. FoundIsOwn' BY <2>4, <2>5, <2>6, FoundStays
    <2>8. RevokesStayInTheirTenant' BY <2>2 DEF rows, RevokesStayInTheirTenant
    <2> QED BY <1>1, <1>2, <2>4, <2>7, <2>8
  <1>4. CASE CallFails(c)
    <2>1. UNCHANGED rows /\ Returns(c) BY <1>4 DEF CallFails
    <2>2. RowsKept /\ RevokesStayInTheirTenant' BY <2>1 DEF rows, RowsKept, RevokesStayInTheirTenant
    <2>3. RowsTypeOK' /\ FoundIsOwn' BY <2>1, <2>2, Returning DEF rows, RowsTypeOK
    <2> QED BY <1>1, <1>2, <2>2, <2>3
  <1>5. CASE createTemporaryGrant(c)
    <2>1. PICK g \in Grant :
              /\ \A w \in workflows : w[2] # g
              /\ workflows' = workflows \cup {<<call[c].tenant, g>>}
      BY <1>5 DEF createTemporaryGrant
    <2>2. UNCHANGED <<groups, temporary_grants, revoked>> /\ Returns(c)
      BY <1>5 DEF createTemporaryGrant
    <2>3. RowsKept BY <2>2 DEF RowsKept
    <2>4. RowsTypeOK' /\ FoundIsOwn' BY <2>1, <2>2, <2>3, Returning DEF RowsTypeOK
    <2>5. RevokesStayInTheirTenant' BY <2>1, <2>2 DEF RevokesStayInTheirTenant
    <2> QED BY <1>1, <1>2, <2>3, <2>4, <2>5
  <1>6. CASE revokeTemporaryGrant(c)
    <2>1. /\ <<call[c].tenant, call[c].input.id>> \in workflows
          /\ revoked' = revoked \cup {<<call[c].tenant, call[c].input.id>>}
          /\ UNCHANGED <<groups, temporary_grants, workflows>> /\ Returns(c)
      BY <1>6 DEF revokeTemporaryGrant
    <2>2. RowsKept BY <2>1 DEF RowsKept
    <2>3. RowsTypeOK' /\ FoundIsOwn' BY <2>1, <2>2, Returning DEF RowsTypeOK
    <2>4. RevokesStayInTheirTenant' BY <2>1 DEF RevokesStayInTheirTenant
    <2> QED BY <1>1, <1>2, <2>2, <2>3, <2>4
  <1>7. CASE updateGrantReason(c)
    <2>1. /\ temporary_grants' = [temporary_grants EXCEPT ![call[c].input.id].reason = call[c].input.reason]
          /\ UNCHANGED <<groups, workflows, revoked>> /\ Returns(c)
      BY <1>7 DEF updateGrantReason
    <2>2. call[c].input.id \in Grant /\ call[c].input.reason \in Reason
      BY <1>7, Inputs DEF updateGrantReason, In, RowsTypeOK
    <2>3. temporary_grants' \in [Grant -> GrantRow] BY <2>1, <2>2 DEF RowsTypeOK, GrantRow
    <2>4. \A g \in Grant : /\ temporary_grants'[g].there = temporary_grants[g].there
                           /\ temporary_grants'[g].tenant = temporary_grants[g].tenant
      BY <2>1, <2>2 DEF RowsTypeOK, GrantRow
    <2>5. RowsKept BY <2>1, <2>4 DEF RowsKept
    <2>6. RowsTypeOK' /\ FoundIsOwn' BY <2>1, <2>3, <2>5, Returning DEF RowsTypeOK
    <2>7. RevokesStayInTheirTenant' BY <2>1, <2>4 DEF RevokesStayInTheirTenant
    <2> QED BY <1>1, <1>2, <2>5, <2>6, <2>7
  <1> QED BY <1>3, <1>4, <1>5, <1>6, <1>7

LEMMA GrantInserting ==
    ASSUME RowsInv, InsertGrant
    PROVE  RowsInv'
  <1> USE DEF RowsInv
  <1>1. PICK w \in workflows, reason \in Reason :
            /\ ~temporary_grants[w[2]].there
            /\ temporary_grants' = [temporary_grants EXCEPT
                  ![w[2]] = [there |-> TRUE, tenant |-> w[1], reason |-> reason]]
    BY DEF InsertGrant
  <1>2. UNCHANGED <<groups, workflows, revoked, call>> BY DEF InsertGrant
  <1>3. w[1] \in Tenant /\ w[2] \in Grant /\ w = <<w[1], w[2]>> BY DEF RowsTypeOK
  <1>4. RowsTypeOK' BY <1>1, <1>2, <1>3 DEF RowsTypeOK, GrantRow
  <1>5. RowsKept BY <1>1, <1>2, <1>3 DEF RowsKept, RowsTypeOK
  <1>6. FoundIsOwn'
    <2> SUFFICES ASSUME NEW d \in Call, call'[d].phase = "found"
                 PROVE  /\ call'[d].input.path \in {"principals.groups.update", "principals.groups.delete"} =>
                             /\ groups'[call'[d].input.id].state # "unused"
                             /\ groups'[call'[d].input.id].tenant = call'[d].tenant
                        /\ call'[d].input.path = "grants.update_reason" =>
                             getGrant(call[d].tenant, call[d].input.id)'
      BY DEF FoundIsOwn
    <2>1. call[d].input \in Input BY DEF RowsTypeOK
    <2> QED BY <1>2, <1>5, <2>1, Inputs DEF FoundIsOwn, RowsKept, getGrant
  <1>7. ParentsAreThere' BY <1>2 DEF ParentsAreThere, ParentIsThere, There
  <1>8. RevokesStayInTheirTenant'
    <2>1. \A g \in Grant : g # w[2] => temporary_grants'[g] = temporary_grants[g]
      BY <1>1, <1>3 DEF RowsTypeOK
    <2>2. temporary_grants'[w[2]].tenant = w[1] BY <1>1, <1>3 DEF RowsTypeOK
    <2> QED BY <1>2, <1>3, <2>1, <2>2 DEF RevokesStayInTheirTenant
  <1> QED BY <1>4, <1>6, <1>7, <1>8

\* Every step of RowsSpec, and stuttering.
LEMMA RowsStep ==
    ASSUME RowsInv, [RowsNext]_allVars
    PROVE  RowsInv'
  <1>1. ASSUME UNCHANGED <<rows, call>> PROVE RowsInv'
    BY <1>1 DEF RowsInv, RowsTypeOK, ParentsAreThere, ParentIsThere, There, FoundIsOwn, getGrant,
                RevokesStayInTheirTenant, rows
  <1>2. CASE InsertGrant BY <1>2, GrantInserting
  <1>3. ASSUME NEW c \in Call, CallStep(c) PROVE RowsInv'
    BY <1>3, Finding, Granting, Inserting, Updating, Deleting DEF CallStep
  <1>4. [RowsNext]_allVars => \/ UNCHANGED <<rows, call>> \/ InsertGrant
                              \/ \E c \in Call : CallStep(c)
    BY DEF RowsNext, allVars
  <1> QED BY <1>1, <1>2, <1>3, <1>4

LEMMA RowsStart ==
    ASSUME RowsInit
    PROVE  RowsInv
  <1>1. RowsTypeOK BY DEF RowsInit, RowsTypeOK
  <1>2. \A g \in Group : ~There(g) BY DEF RowsInit, There
  <1>3. \A c \in Call : call[c].phase = "idle" BY DEF RowsInit
  <1>4. \A g \in Grant : ~temporary_grants[g].there BY DEF RowsInit
  <1>5. ParentsAreThere /\ FoundIsOwn BY <1>2, <1>3 DEF ParentsAreThere, FoundIsOwn
  <1>6. RevokesStayInTheirTenant BY <1>4 DEF RowsInit, RevokesStayInTheirTenant
  <1> QED BY <1>1, <1>5, <1>6 DEF RowsInv

\* TenantRows: the inductive invariant.
THEOREM RowsInvariance == RowsSpec => []RowsInv
  BY RowsStart, RowsStep, PTL DEF RowsSpec

\* groups.parent_group_id: no group hangs below one that was deleted, and
\* grants.revoke: a revoke signal stays in its caller's tenant.
THEOREM RowsStaySound == RowsSpec => [](ParentsAreThere /\ RevokesStayInTheirTenant)
  <1>1. RowsInv => ParentsAreThere /\ RevokesStayInTheirTenant BY DEF RowsInv
  <1> QED BY <1>1, RowsInvariance, PTL

\* What a step of call c changes belongs to the tenant of its token.
OwnRowsOnly(c) ==
    /\ \A g \in Group : groups'[g] # groups[g] =>
          call[c].tenant = groups'[g].tenant \/ groups'[g] = [groups[g] EXCEPT !.parent = {}]
    /\ \A g \in Grant : temporary_grants'[g] # temporary_grants[g] =>
          call[c].tenant = temporary_grants'[g].tenant
    /\ groups' # groups \/ temporary_grants' # temporary_grants => call'[c] # call[c]

LEMMA OwnRows ==
    ASSUME RowsInv, NEW c \in Call, CallStep(c)
    PROVE  OwnRowsOnly(c)
  <1> USE DEF RowsInv
  <1>1. Returns(c) /\ call[c].phase # "done" => call'[c] # call[c]
    BY DEF Returns, Becomes, RowsTypeOK
  <1>2. CASE createGroup(c)
    <2>1. PICK g \in Group :
              groups' = [groups EXCEPT ![g] = [state |-> "there", tenant |-> call[c].tenant,
                            name |-> call[c].input.name, parent |-> call[c].input.parentGroupId]]
      BY <1>2 DEF createGroup
    <2>2. Returns(c) /\ call[c].phase # "done" /\ UNCHANGED temporary_grants
      BY <1>2 DEF createGroup, In
    <2> QED BY <1>1, <2>1, <2>2 DEF OwnRowsOnly, RowsTypeOK
  <1>3. CASE updateGroup(c)
    <2> DEFINE id == call[c].input.id
    <2>1. id \in Group /\ groups[id].tenant = call[c].tenant /\ groups[id].state # "unused"
      BY <1>3, Inputs DEF updateGroup, In, FoundIsOwn, RowsTypeOK
    <2>2. \A g \in Group \ {id} : groups'[g] = groups[g]
      BY <1>3, <2>1 DEF updateGroup, RowsTypeOK
    <2>3. groups'[id].tenant = groups[id].tenant BY <1>3, <2>1, Updating DEF RowsKept
    <2>4. Returns(c) /\ call[c].phase # "done" /\ UNCHANGED temporary_grants
      BY <1>3 DEF updateGroup, In
    <2> QED BY <1>1, <2>1, <2>2, <2>3, <2>4 DEF OwnRowsOnly
  <1>4. CASE deleteGroup(c)
    <2> DEFINE id == call[c].input.id
    <2>1. id \in Group /\ groups[id].tenant = call[c].tenant /\ groups[id].state # "unused"
      BY <1>4, Inputs DEF deleteGroup, In, FoundIsOwn, RowsTypeOK
    <2>2. groups'[id].tenant = groups[id].tenant BY <1>4, <2>1, Deleting DEF RowsKept
    <2>3. ASSUME NEW g \in Group, g # id, groups'[g] # groups[g]
          PROVE  groups'[g] = [groups[g] EXCEPT !.parent = {}]
      <3>1. groups[g] \in GroupRow BY DEF RowsTypeOK
      <3>2. groups'[g] = [groups[g] EXCEPT !.parent = groups[g].parent \ {id}]
        BY <1>4, <2>3 DEF deleteGroup
      <3>3. groups[g].parent \ {id} \in {groups[g].parent, {}}
        BY <3>1 DEF GroupRow, Parent, Optional
      <3>4. [groups[g] EXCEPT !.parent = groups[g].parent] = groups[g] BY <3>1 DEF GroupRow
      <3> QED BY <2>3, <3>2, <3>3, <3>4
    <2>4. Returns(c) /\ call[c].phase # "done" /\ UNCHANGED temporary_grants
      BY <1>4 DEF deleteGroup, In
    <2> QED BY <1>1, <2>1, <2>2, <2>3, <2>4 DEF OwnRowsOnly
  <1>5. CASE updateGrantReason(c)
    <2> DEFINE id == call[c].input.id
    <2>1. id \in Grant /\ temporary_grants[id].tenant = call[c].tenant
      BY <1>5, Inputs DEF updateGrantReason, In, FoundIsOwn, getGrant, RowsTypeOK
    <2>2. temporary_grants' = [temporary_grants EXCEPT ![id].reason = call[c].input.reason]
      BY <1>5 DEF updateGrantReason
    <2>3. temporary_grants'[id].tenant = temporary_grants[id].tenant
      BY <2>1, <2>2 DEF RowsTypeOK, GrantRow
    <2>4. \A g \in Grant \ {id} : temporary_grants'[g] = temporary_grants[g]
      BY <2>1, <2>2 DEF RowsTypeOK
    <2>5. Returns(c) /\ call[c].phase # "done" /\ UNCHANGED groups
      BY <1>5 DEF updateGrantReason, In
    <2> QED BY <1>1, <2>1, <2>3, <2>4, <2>5 DEF OwnRowsOnly
  <1>6. CASE Admit(c) \/ findById(c) \/ CallFails(c) \/ createTemporaryGrant(c)
                \/ revokeTemporaryGrant(c)
    BY <1>6 DEF Admit, findById, CallFails, createTemporaryGrant, revokeTemporaryGrant, rows,
                OwnRowsOnly
  <1> QED BY <1>2, <1>3, <1>4, <1>5, <1>6 DEF CallStep

\* updateGroup, deleteGroup, updateGrantReason: the tenant that is compared
\* before the write is still that of the row that is written.
THEOREM RowsKeepToTheirTenant == RowsSpec => RowsChangeByTheirTenant
  <1> DEFINE Step ==
        /\ \A g \in Group : groups'[g] # groups[g] =>
             \/ \E c \in Call : call'[c] # call[c] /\ call[c].tenant = groups'[g].tenant
             \/ groups'[g] = [groups[g] EXCEPT !.parent = {}]
        /\ \A g \in Grant :
             temporary_grants[g].there /\ temporary_grants'[g] # temporary_grants[g] =>
                \E c \in Call : call'[c] # call[c] /\ call[c].tenant = temporary_grants'[g].tenant
  <1>1. ASSUME RowsInv, RowsNext PROVE Step
    <2>1. CASE Next /\ UNCHANGED <<rows, call>> BY <2>1 DEF rows
    <2>2. CASE InsertGrant
      <3>1. UNCHANGED groups BY <2>2 DEF InsertGrant
      <3>2. \A g \in Grant : temporary_grants[g].there => temporary_grants'[g] = temporary_grants[g]
        BY <1>1, <2>2 DEF InsertGrant, RowsInv, RowsTypeOK
      <3> QED BY <3>1, <3>2
    <2>3. ASSUME NEW c \in Call, CallStep(c) PROVE Step
      BY <1>1, <2>3, OwnRows DEF OwnRowsOnly
    <2> QED BY <1>1, <2>1, <2>2, <2>3 DEF RowsNext
  <1>2. RowsInv /\ [RowsNext]_allVars => [Step]_allVars BY <1>1
  <1> QED BY <1>2, RowsInvariance, PTL DEF RowsSpec, RowsChangeByTheirTenant
=============================================================================
