--------------------------- MODULE Relationships ---------------------------
(***************************************************************************)
(* The relationships kept in SpiceDB, as the library every service uses    *)
(* sees them: the writers and the permission checks of                     *)
(* packages/auth/src/spicedb.ts over the schema packages/auth/schema.zed.  *)
(*                                                                         *)
(* The services of this commit call the checks; the writers are the        *)
(* library's offer, and the workers call their Go twins.  A writer is one  *)
(* WriteRelationships request: all of its updates or, if the schema or the *)
(* server refuses one, none.  A check is answered from the current store.  *)
(***************************************************************************)
CONSTANTS Tenant, User, Group, ServiceAccount, Installation     \* their ids

VARIABLE store          \* the set of relationships

TenantRole == {"owner", "admin", "member", "viewer", "billing_manager"}
ServiceAccountRole == TenantRole \ {"owner"}

TenantPermission == {"read", "write", "manage_members", "manage_billing", "manage_settings",
                     "delete", "transfer_ownership"}
InstallationPermission == {"report", "view", "revoke"}

-----------------------------------------------------------------------------
(* Objects and relationships.                                              *)

obj(type, id) == [type |-> type, id |-> id]
tenant(t)           == obj("tenant", t)
user(u)             == obj("user", u)
group(g)            == obj("group", g)
service_account(s)  == obj("service_account", s)
installation(i)     == obj("installation", i)
platform            == obj("platform", "monok8s")
system              == obj("system", "monok8s")

Principal == {user(u) : u \in User} \cup {service_account(s) : s \in ServiceAccount}
Object == Principal \cup {tenant(t) : t \in Tenant} \cup {group(g) : g \in Group}
              \cup {installation(i) : i \in Installation} \cup {platform, system}

Relation == TenantRole \cup {"suspended", "denied", "tenant", "platform", "self", "manager",
                              "super_admin", "only_system_can_create_tenants"}

\* A relationship; `via` is the relation of its subject, and the caveat is a
\* value that it carries, the expiry time abstracted.
Relationship ==
    [resource : Object, relation : Relation, subject : Object,
     via : {"", "membership"}, caveat : {"", "expiry"}]

relationship(resource, relation, subject, via, caveat) ==
    [resource |-> resource, relation |-> relation, subject |-> subject,
     via |-> via, caveat |-> caveat]
rel(resource, relation, subject)      == relationship(resource, relation, subject, "", "")
membersOf(resource, relation, g)      == relationship(resource, relation, group(g), "membership", "")
expiring(resource, relation, subject) == relationship(resource, relation, subject, "", "expiry")

\* SpiceDB identifies a relationship by everything but its caveat.
Same(r, s) ==
    /\ r.resource = s.resource /\ r.relation = s.relation
    /\ r.subject = s.subject /\ r.via = s.via

\* The subjects schema.zed allows for a relation.
Allowed(r) ==
    LET from(type, relations) == r.resource.type = type /\ r.relation \in relations
        to(types) == r.subject.type \in types /\ r.via = "" /\ r.caveat = ""
        principals == {"user", "service_account"}
        members == r.subject.type = "group" /\ r.via = "membership" /\ r.caveat = ""
    IN  \/ from("platform", {"super_admin"}) /\ to({"user"})
        \/ from("system", {"only_system_can_create_tenants"}) /\ to({"user"})
        \/ from("group", {"tenant"}) /\ to({"tenant"})
        \/ from("group", {"member", "manager"}) /\ (to({"user"}) \/ members)
        \/ from("tenant", {"platform"}) /\ to({"platform"})
        \/ from("tenant", {"owner"}) /\ to({"user"})
        \/ from("tenant", ServiceAccountRole) /\ (to(principals) \/ members)
        \/ /\ from("tenant", {"admin"})
           /\ r.subject.type \in principals /\ r.via = "" /\ r.caveat = "expiry"
        \/ from("tenant", {"suspended", "denied"}) /\ to(principals)
        \/ from("service_account", {"tenant"}) /\ to({"tenant"})
        \/ from("service_account", {"self"}) /\ to({"service_account"})
        \/ from("installation", {"tenant"}) /\ to({"tenant"})
        \/ from("installation", {"platform"}) /\ to({"platform"})
        \/ from("user", {"self"}) /\ to({"user"})
        \/ from("user", {"platform"}) /\ to({"platform"})

\* What TOUCHing and DELETEing leaves of a set of relationships.
After(before, touched, deleted) ==
    {r \in before : \A s \in touched \cup deleted : ~Same(r, s)} \cup touched

\* A DELETE names no caveat, but its subject must be one the schema allows.
Deletable(r) == \E caveat \in {"", "expiry"} : Allowed([r EXCEPT !.caveat = caveat])

\* writeRelationships: the server refuses a request that updates the same
\* relationship twice, and one that touches or deletes what the schema does not
\* allow.
Writes(touched, deleted) ==
    /\ \A r \in touched, s \in deleted : ~Same(r, s)
    /\ \A r \in touched : Allowed(r)
    /\ \A r \in deleted : Deletable(r)
    /\ store' = After(store, touched, deleted)

Touches(r) == Writes({r}, {})
Deletes(r) == Writes({}, {r})

-----------------------------------------------------------------------------
(* Users and members.                                                      *)

writeUserRegistered(u) ==
    Writes({rel(user(u), "self", user(u)), rel(user(u), "platform", platform)}, {})

writeTenantCreated(t, owner) ==
    Writes({rel(tenant(t), "platform", platform), rel(tenant(t), "owner", user(owner))}, {})

writeMemberJoined(t, u, role) == Touches(rel(tenant(t), role, user(u)))

writeMemberRoleChanged(t, u, old, new) ==
    Writes({rel(tenant(t), new, user(u))}, {rel(tenant(t), old, user(u))})

writeMemberSuspended(t, u)  == Touches(rel(tenant(t), "suspended", user(u)))
writeMemberReinstated(t, u) == Deletes(rel(tenant(t), "suspended", user(u)))

writeMemberRemoved(t, u, role) ==
    Writes({}, {rel(tenant(t), role, user(u)), rel(tenant(t), "suspended", user(u))})

writeUserDenied(t, u)        == Touches(rel(tenant(t), "denied", user(u)))
writeUserDeniedRevoked(t, u) == Deletes(rel(tenant(t), "denied", user(u)))

\* Of a user or a service account; the delete does not name the caveat.
writeTemporaryGrant(t, p, role)  == Touches(expiring(tenant(t), role, p))
deleteTemporaryGrant(t, p, role) == Deletes(rel(tenant(t), role, p))

-----------------------------------------------------------------------------
(* Groups, service accounts, installations and the platform.               *)

writeGroupCreated(g, t)       == Touches(rel(group(g), "tenant", tenant(t)))
writeGroupMemberAdded(g, u)   == Touches(rel(group(g), "member", user(u)))
writeGroupMemberRemoved(g, u) == Deletes(rel(group(g), "member", user(u)))
writeGroupNested(parent, child) == Touches(membersOf(group(parent), "member", child))

\* "groups cannot hold the `owner` role".
writeGroupRoleAssigned(t, g, role) ==
    /\ role # "owner"
    /\ Touches(membersOf(tenant(t), role, g))
writeGroupRoleRevoked(t, g, role) == Deletes(membersOf(tenant(t), role, g))

writeServiceAccountCreated(s, t, role) ==
    Writes({rel(service_account(s), "tenant", tenant(t)),
            rel(tenant(t), role, service_account(s))}, {})
writeServiceAccountRoleChanged(t, s, old, new) ==
    Writes({rel(tenant(t), new, service_account(s))}, {rel(tenant(t), old, service_account(s))})
writeServiceAccountSuspended(t, s)  == Touches(rel(tenant(t), "suspended", service_account(s)))
writeServiceAccountReinstated(t, s) == Deletes(rel(tenant(t), "suspended", service_account(s)))
writeServiceAccountRemoved(t, s, role) ==
    Writes({}, {rel(tenant(t), role, service_account(s)),
                rel(tenant(t), "suspended", service_account(s))})

writeInstallationRegistered(i, t) == Touches(rel(installation(i), "tenant", tenant(t)))
writeInstallationRevoked(i, t)    == Deletes(rel(installation(i), "tenant", tenant(t)))

\* Its operation is "TOUCH" or "DELETE".
writePlatformAdminChanged(u) ==
    \/ Touches(rel(platform, "super_admin", user(u)))
    \/ Deletes(rel(platform, "super_admin", user(u)))

writeSystemAdminRelation(u) == Touches(rel(system, "only_system_can_create_tenants", user(u)))

-----------------------------------------------------------------------------
UserWrites(u) ==
    \/ writeUserRegistered(u) \/ writePlatformAdminChanged(u) \/ writeSystemAdminRelation(u)
    \/ \E t \in Tenant :
          \/ writeTenantCreated(t, u)
          \/ writeMemberSuspended(t, u) \/ writeMemberReinstated(t, u)
          \/ writeUserDenied(t, u) \/ writeUserDeniedRevoked(t, u)
          \/ \E role \in TenantRole :
                \/ writeMemberJoined(t, u, role) \/ writeMemberRemoved(t, u, role)
                \/ \E new \in TenantRole : writeMemberRoleChanged(t, u, role, new)

GrantWrites(p) ==
    \E t \in Tenant, role \in ServiceAccountRole :
        writeTemporaryGrant(t, p, role) \/ deleteTemporaryGrant(t, p, role)

GroupWrites(g) ==
    \/ \E u \in User : writeGroupMemberAdded(g, u) \/ writeGroupMemberRemoved(g, u)
    \/ \E child \in Group : writeGroupNested(g, child)
    \/ \E t \in Tenant :
          \/ writeGroupCreated(g, t)
          \/ \E role \in TenantRole :
                writeGroupRoleAssigned(t, g, role) \/ writeGroupRoleRevoked(t, g, role)

ServiceAccountWrites(s) ==
    \E t \in Tenant :
        \/ writeServiceAccountSuspended(t, s) \/ writeServiceAccountReinstated(t, s)
        \/ \E role \in ServiceAccountRole :
              \/ writeServiceAccountCreated(s, t, role) \/ writeServiceAccountRemoved(t, s, role)
              \/ \E new \in ServiceAccountRole : writeServiceAccountRoleChanged(t, s, role, new)

InstallationWrites(i) ==
    \E t \in Tenant : writeInstallationRegistered(i, t) \/ writeInstallationRevoked(i, t)

Init == store = {}

Next ==
    \/ \E u \in User : UserWrites(u)
    \/ \E p \in Principal : GrantWrites(p)
    \/ \E g \in Group : GroupWrites(g)
    \/ \E s \in ServiceAccount : ServiceAccountWrites(s)
    \/ \E i \in Installation : InstallationWrites(i)

Spec == Init /\ [][Next]_store

-----------------------------------------------------------------------------
(* The checks.  `met` holds the caveats that the context of the request    *)
(* satisfies; check() takes a permission that is conditional on any other  *)
(* caveat for one that is missing.                                         *)

\* The groups whose membership p has: the least set that holds those p is a
\* direct member of and, with a group, the groups it is nested in.
Nests(parent, child) == membersOf(group(parent), "member", child) \in store
MemberOf(p, g) ==
    \A closed \in SUBSET Group :
        (\A h \in Group :
            \/ rel(group(h), "member", p) \in store
            \/ \E child \in closed : Nests(h, child)
            => h \in closed)
        => g \in closed

\* Mutant: the check forgets the members of groups.
Holds_DirectOnly(p, relation, t, met) ==
    \/ rel(tenant(t), relation, p) \in store
    \/ "expiry" \in met /\ expiring(tenant(t), relation, p) \in store

\* A relation of a tenant, held directly or through a group.
Holds(p, relation, t, met) ==
    \/ rel(tenant(t), relation, p) \in store
    \/ "expiry" \in met /\ expiring(tenant(t), relation, p) \in store
    \/ \E g \in Group : membersOf(tenant(t), relation, g) \in store /\ MemberOf(p, g)

HoldsOneOf(p, roles, t, met) == \E role \in roles : Holds(p, role, t, met)
Blocked(p, t) == \E relation \in {"suspended", "denied"} : rel(tenant(t), relation, p) \in store

isPlatformAdmin(p) == rel(platform, "super_admin", p) \in store
Administered(object, p) == rel(object, "platform", platform) \in store /\ isPlatformAdmin(p)

\* The roles that carry each permission of a tenant.
Carries == [permission \in TenantPermission |->
    CASE permission = "read" -> TenantRole
      [] permission = "write" -> {"owner", "admin", "member"}
      [] permission \in {"manage_members", "manage_settings"} -> {"owner", "admin"}
      [] permission = "manage_billing" -> {"owner", "admin", "billing_manager"}
      [] permission \in {"delete", "transfer_ownership"} -> {"owner"}]

TenantCheck(p, permission, t, met) ==
    \/ HoldsOneOf(p, Carries[permission], t, met) /\ ~Blocked(p, t)
    \/ permission # "transfer_ownership" /\ Administered(tenant(t), p)

canOnTenant(u, permission, t, met)   == TenantCheck(user(u), permission, t, met)
canSAOnTenant(s, permission, t, met) == TenantCheck(service_account(s), permission, t, met)

canOnUser(actor, permission, target) ==
    \/ /\ permission \in {"update_profile", "request_erasure"}
       /\ rel(user(target), "self", user(actor)) \in store
    \/ permission \in {"request_erasure", "delete"} /\ Administered(user(target), user(actor))

\* The two checks are sent together, without a caveat context.
canActOnMember(actor, target, t, permission) ==
    canOnTenant(actor, permission, t, {}) /\ canOnTenant(target, "read", t, {})

canOnSystem(u) == rel(system, "only_system_can_create_tenants", user(u)) \in store

Needs == [permission \in InstallationPermission |->
    IF permission = "view" THEN "read" ELSE "manage_settings"]
canOnInstallation(u, permission, i) ==
    \/ Administered(installation(i), user(u))
    \/ \E t \in Tenant :
          /\ rel(installation(i), "tenant", tenant(t)) \in store
          /\ canOnTenant(u, Needs[permission], t, {})

\* SpiceDB looks permissions and relations up alike.
checkRelation(t, name, p) ==
    IF name \in TenantPermission THEN TenantCheck(p, name, t, {}) ELSE Holds(p, name, t, {})

lookupSubjects(t, name)  == {p \in Principal : checkRelation(t, name, p)}
lookupResources(name, p) == {t \in Tenant : checkRelation(t, name, p)}

-----------------------------------------------------------------------------
(* Properties.                                                             *)

TypeOK == store \subseteq Relationship

\* A relationship is what the schema allows, and is in the store once: it is
\* never both conditional and unconditional.
SchemaHolds == \A r \in store : Allowed(r)
StoredOnce  == \A r, s \in store : Same(r, s) => r = s

\* Whoever may do more may also do less: transfer the ownership, delete the
\* tenant, manage its members, write and read it.
PermissionsNest ==
    \A p \in Principal, t \in Tenant, met \in SUBSET {"expiry"} :
        LET May(permission) == TenantCheck(p, permission, t, met)
        IN  /\ May("transfer_ownership") => May("delete")
            /\ May("delete") => May("manage_members")
            /\ May("manage_members") => May("manage_settings") /\ May("write")
            /\ May("manage_settings") => May("manage_billing")
            /\ May("write") \/ May("manage_billing") => May("read")

\* "Suspended principals lose all permissions regardless of role(s)" and
\* "Denied principals are hard-blocked", but for a platform admin.
BlockedMayNothing ==
    \A p \in Principal, t \in Tenant, met \in SUBSET {"expiry"} :
        Blocked(p, t) /\ ~isPlatformAdmin(p) =>
            \A permission \in TenantPermission : ~TenantCheck(p, permission, t, met)

\* A member that is suspended or denied is out of reach of canActOnMember,
\* which asks whether the target may read the tenant: nobody can use it to
\* reinstate the member.
BlockedIsOutOfReach ==
    \A actor, target \in User, t \in Tenant, permission \in TenantPermission :
        Blocked(user(target), t) /\ ~isPlatformAdmin(user(target)) =>
            ~canActOnMember(actor, target, t, permission)

\* No writer writes the self relation of a service account or the platform
\* relation of an installation, which the schema lists as written "on
\* creation" and "at registration": no service account is `active`, and
\* platform admins reach an installation through its tenant only.
NeverWritten ==
    /\ \A s \in ServiceAccount, t \in Object : rel(service_account(s), "self", t) \notin store
    /\ \A i \in Installation : rel(installation(i), "platform", platform) \notin store
=============================================================================
