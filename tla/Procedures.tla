---------------------------- MODULE Procedures ----------------------------
(***************************************************************************)
(* What the tRPC procedures of apps/api let through: the authentication    *)
(* and permission middleware of packages/auth (middleware.ts, zitadel.ts), *)
(* the permission each procedure of the routers asks for, and what the     *)
(* reads of roles and groups answer, all over the relationships of         *)
(* Relationships.                                                          *)
(*                                                                         *)
(* There is no new state: a request is judged against the current store.   *)
(* The pool that tenantProcedure resolves next is TenantPool's.            *)
(***************************************************************************)
EXTENDS Relationships

-----------------------------------------------------------------------------
(* The caller.                                                             *)

MFA_AMR_VALUES == {"mfa", "otp", "totp", "hwk", "fido"}

\* The ids of tenants are UUIDs, the claims of a verified token are there.
VerifiedUser ==
    [userId : User, tenantId : Tenant, amr : SUBSET (MFA_AMR_VALUES \cup {"pwd"})]

\* The Authorization header of a request, and whose token it carries if
\* verifyToken accepts it.
Request == [authorization : {"absent", "empty", "rejected", "verified"}, user : VerifiedUser]

Context == [token : {"none", "rejected", "verified"}, user : VerifiedUser]

\* An empty token counts for none.
createContext(req) ==
    [token |-> IF req.authorization \in {"absent", "empty"} THEN "none" ELSE req.authorization,
     user |-> req.user]

hasMFA(u) == u.amr \cap MFA_AMR_VALUES # {}

-----------------------------------------------------------------------------
(* The middleware: "ok", or the code of the error that ends the request.   *)

authMiddleware(ctx) == IF ctx.token = "verified" THEN "ok" ELSE "UNAUTHORIZED"

tenantProcedure(ctx, permission, requireMFA) ==
    IF authMiddleware(ctx) # "ok" \/ (requireMFA /\ ~hasMFA(ctx.user)) THEN "UNAUTHORIZED"
    ELSE IF canOnTenant(ctx.user.userId, permission, ctx.user.tenantId, {}) THEN "ok"
    ELSE "FORBIDDEN"

PermissionResource ==
    [type : {"tenant"}, id : Tenant, permission : TenantPermission]
    \cup [type : {"installation"}, id : Installation, permission : InstallationPermission]
    \cup [type : {"platform"}, id : {"monok8s"}, permission : {"administrate"}]
    \cup [type : {"system"}, id : {"monok8s"}, permission : {"create_tenants"}]

\* The check of the switch; that of the system is "not yet wired".
grants(resource, u) ==
    CASE resource.type = "tenant" -> canOnTenant(u, resource.permission, resource.id, {})
      [] resource.type = "installation" -> canOnInstallation(u, resource.permission, resource.id)
      [] resource.type = "platform" -> isPlatformAdmin(user(u))
      [] resource.type = "system" -> FALSE

\* Composed after authedProcedure or, by mistake, without it.
requirePermission(ctx, authed, resource, requireMFA) ==
    IF ~authed THEN "INTERNAL_SERVER_ERROR"
    ELSE IF authMiddleware(ctx) # "ok" \/ (requireMFA /\ ~hasMFA(ctx.user)) THEN "UNAUTHORIZED"
    ELSE IF grants(resource, ctx.user.userId) THEN "ok" ELSE "FORBIDDEN"

-----------------------------------------------------------------------------
(* Workflows.  A well-formed id names the tenant: tnt-<tenant>-...         *)

WorkflowPermission == {"read"}
WorkflowKind == {"onboard", "grant", "role-assign", "role-unassign", "role-change",
                 "group-add-member", "group-remove-member", "user-suspend", "user-reinstate"}
workflowId(t, kind) == [tenant |-> t, kind |-> kind]

\* The tenant that the prefix names, or none.
parseTenantFromWorkflowId(w) == {w.tenant} \cap Tenant

canOnWorkflow(u, permission, w) ==
    /\ permission \in WorkflowPermission
    /\ \E t \in parseTenantFromWorkflowId(w) : canOnTenant(u, "read", t, {})

-----------------------------------------------------------------------------
(* The routers: the permission that each tenantProcedure asks for.         *)

procedure(path, kind, permission) == [path |-> path, kind |-> kind, permission |-> permission]
query(path)                == procedure(path, "query", "read")
subscription(path)         == procedure(path, "subscription", "read")
mutation(path, permission) == procedure(path, "mutation", permission)

tenantReads == {query("principals.tenants.list"), query("principals.tenants.get")}

userProcedures ==
    {query("principals.users.list"), query("principals.users.get"),
     mutation("principals.users.suspend", "manage_members"),
     mutation("principals.users.reinstate", "manage_members")}

groupProcedures ==
    {query("principals.groups.list"), query("principals.groups.get"),
     mutation("principals.groups.create", "write"),
     mutation("principals.groups.update", "write"),
     mutation("principals.groups.delete", "write")}

membershipProcedures ==
    {query("principals.groups.list_members"),
     mutation("principals.groups.add_member", "manage_members"),
     mutation("principals.groups.remove_member", "manage_members")}

roleProcedures ==
    {query("principals.roles.list_for_principal"), query("principals.roles.expand_for_role"),
     mutation("principals.roles.assign", "manage_members"),
     mutation("principals.roles.unassign", "manage_members"),
     mutation("principals.roles.change", "manage_members")}

principalsRouter ==
    tenantReads \cup userProcedures \cup groupProcedures
        \cup membershipProcedures \cup roleProcedures

\* events.workflow is no tenantProcedure: it asks canOnWorkflow instead.
eventsRouter == {subscription("events.tenant"), subscription("events.audit")}

auditRouter == {mutation("audit.ping", "read"), query("audit.list")}

grantsRouter ==
    {query("grants.list"), query("grants.get"),
     mutation("grants.create_temporary", "manage_members"),
     mutation("grants.revoke", "manage_members"),
     mutation("grants.update_reason", "manage_members")}

\* tenants.create goes on to ask canOnSystem.
tenantsRouter == {mutation("tenants.create", "read"), query("tenants.ping")}

appRouter ==
    {query("getMyTenant")} \cup principalsRouter \cup eventsRouter \cup auditRouter
        \cup grantsRouter \cup tenantsRouter

\* Whether the handler of p runs.
reaches(ctx, p) == tenantProcedure(ctx, p.permission, FALSE) = "ok"

\* The subscription of a workflow: authedProcedure, then its own check.
watches(ctx, w) ==
    authMiddleware(ctx) = "ok" /\ canOnWorkflow(ctx.user.userId, "read", w)

-----------------------------------------------------------------------------
(* The inputs that the zod schemas let through, of the mutations whose     *)
(* workflow writes a role.                                                 *)

PrincipalSchema == Principal
RoleInputSchema == TenantRole

\* "Service accounts cannot hold the 'owner' role".
RoleAssignmentBase ==
    {x \in [principal : PrincipalSchema, role : TenantRole] :
        ~(x.role = "owner" /\ x.principal.type = "service_account")}

ChangeRoleSchema ==
    {x \in [principal : PrincipalSchema, oldRole : TenantRole, newRole : TenantRole] :
        /\ x.oldRole # x.newRole
        /\ ~(x.newRole = "owner" /\ x.principal.type = "service_account")}

\* Its duration and reason abstracted.
GRANTABLE_ROLES == TenantRole \ {"owner"}
CreateTemporaryGrantSchema == [subject : PrincipalSchema, role : GRANTABLE_ROLES]

-----------------------------------------------------------------------------
(* The reads that SpiceDB answers.                                         *)

listRolesForPrincipal(t, p) == {role \in TenantRole : checkRelation(t, role, p)}

expandPrincipalsForRole(t, role) ==
    [users           |-> lookupSubjects(t, role) \cap {user(u) : u \in User},
     serviceAccounts |-> lookupSubjects(t, role) \cap {service_account(s) : s \in ServiceAccount}]

\* Direct members and those of nested groups; of any tenant's group.
listGroupMembers(g) == {u \in User : MemberOf(user(u), g)}

-----------------------------------------------------------------------------
(* Properties.                                                             *)

\* Whatever the console does after a mutation, it may: the caller whom the
\* gate of a mutation lets through passes that of every read the page makes,
\* and may watch the workflow that the mutation started in the tenant.
MutatorsMayRead ==
    \A ctx \in Context, p \in appRouter : reaches(ctx, p) =>
        /\ \A q \in appRouter : q.kind # "mutation" => reaches(ctx, q)
        /\ \A kind \in WorkflowKind : watches(ctx, workflowId(ctx.user.tenantId, kind))

\* A caller who is suspended in, or denied, the tenant of the token reaches no
\* handler of any router, even with a second factor, and can watch no
\* workflow of that tenant: only a platform admin can.
BlockedCallersAreShutOut ==
    \A ctx \in Context :
        Blocked(user(ctx.user.userId), ctx.user.tenantId)
            /\ ~isPlatformAdmin(user(ctx.user.userId)) =>
            /\ \A p \in appRouter : ~reaches(ctx, p)
            /\ \A kind \in WorkflowKind : ~watches(ctx, workflowId(ctx.user.tenantId, kind))

\* "For the common tenant-on-active-tenant case, prefer tenantProcedure": after
\* authedProcedure the two give the same answer, error code included.
TheGatesAgree ==
    \A ctx \in Context, permission \in TenantPermission, mfa \in BOOLEAN :
        LET active == [type |-> "tenant", id |-> ctx.user.tenantId, permission |-> permission]
        IN  requirePermission(ctx, TRUE, active, mfa) = tenantProcedure(ctx, permission, mfa)

\* What roles.list_for_principal shows of a user explains what the gate says:
\* one who is not blocked may do exactly what the listed roles carry, and the
\* same roles list the user back in roles.expand_for_role.
RolesExplainTheGate ==
    \A u \in User, t \in Tenant, permission \in TenantPermission :
        LET roles == listRolesForPrincipal(t, user(u))
        IN  /\ ~Blocked(user(u), t) /\ ~isPlatformAdmin(user(u)) =>
                 (canOnTenant(u, permission, t, {}) <=> roles \cap Carries[permission] # {})
            /\ \A role \in TenantRole :
                  role \in roles <=> user(u) \in expandPrincipalsForRole(t, role).users

\* Where the API and SpiceDB draw the same line, and where they do not.  The
\* workflow that an accepted roles.assign or roles.unassign starts can always
\* write its relationship.  That of roles.change can unless the role it takes
\* away is the ownership of a service account: ChangeRoleSchema looks at newRole
\* only, SpiceDB refuses the DELETE and with it the whole request.  Of the
\* temporary grants that are accepted only those of `admin` can be written.
AcceptedInputsAreWritable ==
    \A t \in Tenant :
        /\ \A x \in RoleAssignmentBase :
              LET r == rel(tenant(t), x.role, x.principal)
              IN  Allowed(r) /\ Deletable(r)
        /\ \A x \in ChangeRoleSchema :
              LET old == rel(tenant(t), x.oldRole, x.principal)
                  new == rel(tenant(t), x.newRole, x.principal)
                  unownable == x.oldRole = "owner" /\ x.principal.type = "service_account"
              IN  Allowed(new) /\ ~Same(new, old) /\ (Deletable(old) <=> ~unownable)
        /\ \A x \in CreateTemporaryGrantSchema :
              Allowed(expiring(tenant(t), x.role, x.subject)) <=> x.role = "admin"
=============================================================================
