-------------------------- MODULE TenantRelations --------------------------
(***************************************************************************)
(* The relations of TenantMembers as Relationships keeps them: one tenant  *)
(* "t" of the store, seen through the gate of Procedures and the whole of  *)
(* schema.zed, with nested groups and caveats.                             *)
(***************************************************************************)
EXTENDS TenantMembers

R(s) == INSTANCE Procedures WITH store <- s, Tenant <- {"t"}, Installation <- {}

\* The constructors of objects and relationships read no store.
tenantT == R({})!tenant("t")
platformT == R({})!platform
subject(p) == IF p \in User THEN R({})!user(p) ELSE R({})!service_account(p)
rel(object, relation, whom) == R({})!rel(object, relation, whom)

Stored ==
    {rel(tenantT, "platform", platformT)}
        \cup {rel(platformT, "super_admin", subject(u)) : u \in PlatformAdmin}
        \cup {rel(tenantT, "denied", subject(u)) : u \in Denied}
        \cup {rel(tenantT, "suspended", subject(u)) : u \in suspended}
        \cup {rel(tenantT, x[2], subject(x[1])) : x \in {y \in role : y[1] \in Principal}}
        \cup {R({})!membersOf(tenantT, x[2], x[1]) : x \in {y \in role : y[1] \in Group}}
        \cup {rel(R({})!group(x[1]), "member", subject(x[2])) : x \in members}

Caller(u) == [token |-> "verified", user |-> [userId |-> u, tenantId |-> "t", amr |-> {"pwd"}]]

-----------------------------------------------------------------------------
\* schema.zed, tenantProcedure: whatever the mutations write, SpiceDB's schema
\* allows it, and their gate and guards see the permissions that it computes
\* from the whole schema.
ViewsAgree ==
    /\ R(Stored)!SchemaHolds
    /\ \A u \in User :
          /\ manage_members(u) <=>
                R(Stored)!tenantProcedure(Caller(u), "manage_members", FALSE) = "ok"
          /\ transfer_ownership(u) <=>
                R(Stored)!canOnTenant(u, "transfer_ownership", "t", {})

\* The same, judged between the requests, where every outcome of a write can
\* be seen.
SchemasAgree == (\A c \in Call : pc[c] = "idle") => ViewsAgree
=============================================================================
