----------------------------- MODULE TenantRows -----------------------------
(***************************************************************************)
(* The rows of groups and temporary grants (packages/db/src/index.ts) and  *)
(* the handlers that change them: groups.create, update and delete of the  *)
(* principals router, and the grants router.                               *)
(*                                                                         *)
(* update, delete and update_reason are two queries without a transaction: *)
(* the first finds the row and compares its tenant, the second writes by   *)
(* id alone.  One database may hold the rows of several tenants, and its   *)
(* row-level security has no say: nothing sets app.tenant_id.              *)
(***************************************************************************)
EXTENDS Procedures

CONSTANTS Name, Reason, Grant, Call     \* Grant: ids of grants; Call: calls of the API

VARIABLES
    groups,             \* the table groups, by id
    temporary_grants,   \* the table temporary_grants, by id
    workflows,          \* the grant workflows started, by tenant and grant id
    revoked,            \* those whose revoke signal was sent
    call                \* call[c]: the tenant of its token, its input, its phase

rows    == <<groups, temporary_grants, workflows, revoked>>
allVars == <<store, rows, call>>

\* A nullable column, and a field that may be left out: a set of at most one.
Optional(S) == {{}} \cup {{x} : x \in S}
Parent == Optional(Group)

\* The columns of a group.  Ids are random, so one that was deleted is not
\* given again.
GroupRow == [state : {"unused", "there", "deleted"}, tenant : Tenant, name : Name, parent : Parent]
GrantRow == [there : BOOLEAN, tenant : Tenant, reason : Reason]

CreateGroupSchema == [path : {"principals.groups.create"}, name : Name, parentGroupId : Parent]
UpdateGroupInputSchema ==
    {x \in [path : {"principals.groups.update"}, id : Group,
            name : Optional(Name), parentGroupId : Optional(Parent)] :
        x.name # {} \/ x.parentGroupId # {}}
DeleteGroupInputSchema == [path : {"principals.groups.delete"}, id : Group]
GrantInputSchema == [path : {"grants.create_temporary"}, input : CreateTemporaryGrantSchema]
RevokeTemporaryGrantSchema == [path : {"grants.revoke"}, id : Grant]
UpdateGrantReasonInputSchema == [path : {"grants.update_reason"}, id : Grant, reason : Reason]

Input == CreateGroupSchema \cup UpdateGroupInputSchema \cup DeleteGroupInputSchema
            \cup GrantInputSchema \cup RevokeTemporaryGrantSchema \cup UpdateGrantReasonInputSchema

RowsTypeOK ==
    /\ groups \in [Group -> GroupRow]
    /\ temporary_grants \in [Grant -> GrantRow]
    /\ workflows \subseteq Tenant \X Grant
    /\ revoked \subseteq Tenant \X Grant
    /\ call \in [Call -> [phase : {"idle", "admitted", "found", "done"},
                          tenant : Tenant, input : Input]]

RowsInit ==
    /\ Init
    /\ groups \in [Group -> {x \in GroupRow : x.state = "unused"}]
    /\ temporary_grants \in [Grant -> {x \in GrantRow : ~x.there}]
    /\ workflows = {} /\ revoked = {}
    /\ call \in [Call -> [phase : {"idle"}, tenant : Tenant, input : Input]]

-----------------------------------------------------------------------------
(* The tables.                                                             *)

There(g) == groups[g].state = "there"

\* UNIQUE (tenant_id, name) and the foreign key of parent_group_id, which
\* says nothing of the parent's tenant.
NameIsFree(g, t, n) == \A h \in Group \ {g} : There(h) => <<groups[h].tenant, groups[h].name>> # <<t, n>>
ParentIsThere(parent) == \A g \in parent : There(g)

\* The new value of a column, unless the field is left out.
Given(field, old) == IF field = {} THEN old ELSE CHOOSE new \in field : TRUE

listGroups(t) == {g \in Group : There(g) /\ groups[g].tenant = t}
listGrants(t) == {g \in Grant : temporary_grants[g].there /\ temporary_grants[g].tenant = t}

\* The check between the two queries, of getGrant too: one's own row.
findGroup(t, g) == There(g) /\ groups[g].tenant = t
getGrant(t, g) == temporary_grants[g].there /\ temporary_grants[g].tenant = t

-----------------------------------------------------------------------------
(* The calls.                                                              *)

In(c, phase, path) == call[c].phase = phase /\ call[c].input.path = path
Becomes(c, phase)  == call' = [call EXCEPT ![c].phase = phase]
Returns(c)         == Becomes(c, "done")

\* tenantProcedure and the input schema.
Admit(c) ==
    /\ call[c].phase = "idle"
    /\ \E ctx \in Context, x \in Input, p \in appRouter :
          /\ p.path = x.path /\ reaches(ctx, p)
          /\ call' = [call EXCEPT ![c] = [phase |-> "admitted", tenant |-> ctx.user.tenantId,
                                          input |-> x]]
    /\ UNCHANGED rows

createGroup(c) ==
    /\ In(c, "admitted", "principals.groups.create")
    /\ LET x == call[c].input IN \E g \in Group :
          /\ groups[g].state = "unused"
          /\ NameIsFree(g, call[c].tenant, x.name) /\ ParentIsThere(x.parentGroupId)
          /\ groups' = [groups EXCEPT ![g] = [state |-> "there", tenant |-> call[c].tenant,
                                              name |-> x.name, parent |-> x.parentGroupId]]
    /\ Returns(c)
    /\ UNCHANGED <<temporary_grants, workflows, revoked>>

\* The first query: null is returned for a row of another tenant as for none.
findById(c) ==
    /\ \/ /\ In(c, "admitted", "principals.groups.update") \/ In(c, "admitted", "principals.groups.delete")
          /\ Becomes(c, IF findGroup(call[c].tenant, call[c].input.id) THEN "found" ELSE "done")
       \/ /\ In(c, "admitted", "grants.update_reason")
          /\ Becomes(c, IF getGrant(call[c].tenant, call[c].input.id) THEN "found" ELSE "done")
    /\ UNCHANGED rows

\* The second query; the row may be gone.
updateGroup(c) ==
    /\ In(c, "found", "principals.groups.update")
    /\ LET x   == call[c].input
           row == groups[x.id]
           new == [row EXCEPT !.name = Given(x.name, @), !.parent = Given(x.parentGroupId, @)]
       IN  /\ There(x.id) => NameIsFree(x.id, row.tenant, new.name) /\ ParentIsThere(new.parent)
           /\ groups' = IF There(x.id) THEN [groups EXCEPT ![x.id] = new] ELSE groups
    /\ Returns(c)
    /\ UNCHANGED <<temporary_grants, workflows, revoked>>

\* ON DELETE SET NULL: of the children, whosever they are.
deleteGroup(c) ==
    /\ In(c, "found", "principals.groups.delete")
    /\ LET id == call[c].input.id
       IN  groups' = IF ~There(id) THEN groups
                     ELSE [g \in Group |->
                              IF g = id THEN [groups[g] EXCEPT !.state = "deleted"]
                              ELSE [groups[g] EXCEPT !.parent = @ \ {id}]]
    /\ Returns(c)
    /\ UNCHANGED <<temporary_grants, workflows, revoked>>

\* The id of the grant is new, and part of the workflow's.
createTemporaryGrant(c) ==
    /\ In(c, "admitted", "grants.create_temporary")
    /\ \E g \in Grant :
          /\ \A w \in workflows : w[2] # g
          /\ workflows' = workflows \cup {<<call[c].tenant, g>>}
    /\ Returns(c)
    /\ UNCHANGED <<groups, temporary_grants, revoked>>

\* The workflow's id is put together from the caller's tenant; Temporal
\* refuses the signal if there is none (CallFails).
revokeTemporaryGrant(c) ==
    /\ In(c, "admitted", "grants.revoke")
    /\ <<call[c].tenant, call[c].input.id>> \in workflows
    /\ revoked' = revoked \cup {<<call[c].tenant, call[c].input.id>>}
    /\ Returns(c)
    /\ UNCHANGED <<groups, temporary_grants, workflows>>

updateGrantReason(c) ==
    /\ In(c, "found", "grants.update_reason")
    /\ temporary_grants' = [temporary_grants EXCEPT ![call[c].input.id].reason = call[c].input.reason]
    /\ Returns(c)
    /\ UNCHANGED <<groups, workflows, revoked>>

\* A constraint, the database or Temporal refuses, or the process dies.
CallFails(c) ==
    /\ call[c].phase \in {"admitted", "found"}
    /\ Returns(c)
    /\ UNCHANGED rows

CallStep(c) ==
    \/ Admit(c) \/ findById(c) \/ CallFails(c)
    \/ createGroup(c) \/ updateGroup(c) \/ deleteGroup(c)
    \/ createTemporaryGrant(c) \/ revokeTemporaryGrant(c) \/ updateGrantReason(c)

\* The row that "TemporaryGrantWorkflow activity" inserts, of its own grant.
InsertGrant ==
    /\ \E w \in workflows, reason \in Reason :
          /\ ~temporary_grants[w[2]].there
          /\ temporary_grants' = [temporary_grants EXCEPT
                ![w[2]] = [there |-> TRUE, tenant |-> w[1], reason |-> reason]]
    /\ UNCHANGED <<groups, workflows, revoked, call>>

RowsNext ==
    \/ Next /\ UNCHANGED <<rows, call>>
    \/ (InsertGrant \/ \E c \in Call : CallStep(c)) /\ UNCHANGED store

RowsSpec == RowsInit /\ [][RowsNext]_allVars

-----------------------------------------------------------------------------
(* Properties.                                                             *)

\* A group's parent is never one that was deleted, whichever calls overlap.
ParentsAreThere ==
    \A g \in Group : There(g) => ParentIsThere(groups[g].parent)

\* "Returns null when the group either doesn't exist or belongs to a different
\* tenant": although the tenant is compared before the write and the write goes
\* by id alone, a row is only changed by a call with a token of its tenant,
\* whatever happens in between.  The one exception is the parent that SET NULL
\* takes from a group whose parent another tenant owned and deleted.
RowsChangeByTheirTenant ==
    [][/\ \A g \in Group : groups'[g] # groups[g] =>
             \/ \E c \in Call : call'[c] # call[c] /\ call[c].tenant = groups'[g].tenant
             \/ groups'[g] = [groups[g] EXCEPT !.parent = {}]
       /\ \A g \in Grant :
             temporary_grants[g].there /\ temporary_grants'[g] # temporary_grants[g] =>
                \E c \in Call : call'[c] # call[c] /\ call[c].tenant = temporary_grants'[g].tenant
      ]_allVars

\* "Passing another tenant's grantId would reconstruct an ID that doesn't
\* exist": the revoke of a grant reaches its workflow only if the call has a
\* token of the tenant for which the grant was created.
RevokesStayInTheirTenant ==
    /\ revoked \subseteq workflows
    /\ \A v, w \in workflows : v[2] = w[2] => v = w
    /\ \A g \in Grant : temporary_grants[g].there => <<temporary_grants[g].tenant, g>> \in workflows
=============================================================================
