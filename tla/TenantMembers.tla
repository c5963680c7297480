--------------------------- MODULE TenantMembers ---------------------------
(***************************************************************************)
(* Membership of one tenant: the role, group and suspension mutations of   *)
(* the API (routers/principals.ts, handlers/principals.ts), the Temporal   *)
(* workflows that carry them out (workers/onboarding) and the permissions  *)
(* the SpiceDB schema computes from what they write (auth/schema.zed).     *)
(*                                                                         *)
(* A Call carries one API request at a time, from its permission gate to   *)
(* the end of its workflow, and is then free for another; the size of Call *)
(* is the number of requests that may overlap.  The gate, each SpiceDB     *)
(* read of the guards and the write of the workflow are separate steps:    *)
(* the handlers await each of them, and the write happens in a worker      *)
(* after the API has answered.                                             *)
(***************************************************************************)
EXTENDS Naturals, FiniteSets

CONSTANTS
    User, ServiceAccount, Group,
    PlatformAdmin,  \* users with platform#administrate
    Denied,         \* users with tenant#denied (no API operation writes it)
    Roles0,         \* tenant role relations at the start: <<subject, role>>
    Members0,       \* group membership at the start: <<group, user>>
    Call,           \* API requests under way, with their workflows
    Kinds,          \* the mutations the requests may be
    Asked,          \* bound: the roles the requests name
    LostAcks        \* TRUE: a completed activity attempt may be retried

Role      == {"owner", "admin", "member", "viewer", "billing_manager"}
Principal == User \cup ServiceAccount
Mutation  == {"assign", "unassign", "change", "add_member", "remove_member",
              "suspend", "reinstate"}

ASSUME MembersAssumption ==
    /\ User \cap ServiceAccount = {}
    /\ Principal \cap Group = {}
    /\ PlatformAdmin \subseteq User
    /\ Denied \subseteq User
    /\ Roles0 \subseteq (Principal \cup Group) \X Role
    /\ \A x \in Roles0 : x[2] = "owner" => x[1] \in User
    /\ Members0 \subseteq Group \X User
    /\ Kinds \subseteq Mutation
    /\ Asked \subseteq Role
    /\ LostAcks \in BOOLEAN

VARIABLES
    role,       \* tenant#<role>: set of <<subject, role>>
    members,    \* group#member: set of <<group, user>>
    suspended,  \* tenant#suspended
    op,         \* op[c]: the validated input of call c
    pc,         \* pc[c]: where call c is
    pending,    \* pending[c]: owners whose suspended flag c still awaits
    found,      \* found[c]: c has seen an unsuspended other owner
    wrote       \* wrote[c]: an activity attempt of c has already written

relations == <<role, members, suspended>>
vars == <<relations, op, pc, pending, found, wrote>>

-----------------------------------------------------------------------------
(* schema.zed, definition tenant.                                          *)

Holds(u, r) ==
    \/ <<u, r>> \in role
    \/ \E g \in Group : <<g, r>> \in role /\ <<g, u>> \in members

Blocked(u) == u \in suspended \cup Denied

manage_members(u) ==
    \/ (Holds(u, "owner") \/ Holds(u, "admin")) /\ ~Blocked(u)
    \/ u \in PlatformAdmin

transfer_ownership(u) == Holds(u, "owner") /\ ~Blocked(u)

-----------------------------------------------------------------------------
\* Mutant: the input schema without its owner refinement.
RoleAssignmentBase_NoRefine(k) == [kind : {k}, target : Principal, role : Asked]

\* The inputs the zod schemas let through, by kind of mutation.  Service
\* accounts cannot be given the owner role.
RoleAssignmentBase(k) ==
    {x \in [kind : {k}, target : Principal, role : Asked] :
        ~(x.role = "owner" /\ x.target \in ServiceAccount)}

ChangeRoleSchema(k) ==
    {x \in [kind : {k}, target : Principal, old : Asked, role : Asked] :
        x.old # x.role /\ ~(x.role = "owner" /\ x.target \in ServiceAccount)}

GroupMembershipInputSchema(k) == [kind : {k}, group : Group, target : User]

\* Only suspend and reinstate look at the actor again after the gate.
UserSuspensionInputSchema(k) == [kind : {k}, actor : User, target : User]

Input(k) ==
    CASE k \in {"assign", "unassign"}          -> RoleAssignmentBase(k)
      [] k = "change"                          -> ChangeRoleSchema(k)
      [] k \in {"add_member", "remove_member"} -> GroupMembershipInputSchema(k)
      [] k \in {"suspend", "reinstate"}        -> UserSuspensionInputSchema(k)

Idle == [kind |-> "none"]
OpType == {Idle} \cup UNION {Input(k) : k \in Kinds}
Steps == {"idle", "target", "actor", "owners", "flags", "start", "running"}

TypeOK ==
    /\ role \subseteq (Principal \cup Group) \X Role
    /\ members \subseteq Group \X User
    /\ suspended \subseteq User
    /\ op \in [Call -> OpType]
    /\ pc \in [Call -> Steps]
    /\ pending \in [Call -> SUBSET User]
    /\ found \in [Call -> BOOLEAN]
    /\ wrote \in [Call -> BOOLEAN]

Init ==
    /\ role = Roles0
    /\ members = Members0
    /\ suspended = {}
    /\ op = [c \in Call |-> Idle]
    /\ pc = [c \in Call |-> "idle"]
    /\ pending = [c \in Call |-> {}]
    /\ found = [c \in Call |-> FALSE]
    /\ wrote = [c \in Call |-> FALSE]

Goto(c, step) == pc' = [pc EXCEPT ![c] = step] /\ UNCHANGED op

\* The request is over, completed or refused: nothing of it remains.
Finish(c) ==
    /\ pc' = [pc EXCEPT ![c] = "idle"]
    /\ op' = [op EXCEPT ![c] = Idle]

-----------------------------------------------------------------------------
(* The API request.                                                        *)

\* tenantProcedure("manage_members"): a request of an actor without the
\* permission is refused.
canOnTenant(u) == manage_members(u)
tenantProcedure(c, actor) == pc[c] = "idle" /\ canOnTenant(actor)

Submit(c, x, first) ==
    /\ op' = [op EXCEPT ![c] = x]
    /\ pc' = [pc EXCEPT ![c] = first]
    /\ UNCHANGED <<relations, pending, found, wrote>>

\* users.suspend and users.reinstate go on to their guards; the mutations of
\* groups and roles start their workflow.
users(c) ==
    \E actor \in User :
        /\ tenantProcedure(c, actor)
        /\ \E k \in Kinds \cap {"suspend", "reinstate"} : \E x \in Input(k) :
              x.actor = actor /\ Submit(c, x, "target")

groups(c) ==
    /\ \E actor \in User : tenantProcedure(c, actor)
    /\ \E k \in Kinds \cap {"add_member", "remove_member"} : \E x \in Input(k) :
          Submit(c, x, "start")

roles(c) ==
    /\ \E actor \in User : tenantProcedure(c, actor)
    /\ \E k \in Kinds \cap {"assign", "unassign", "change"} : \E x \in Input(k) :
          Submit(c, x, "start")

\* SpiceDB or Temporal rejects what a handler awaits: the request ends there.
CallFails(c) ==
    /\ pc[c] \in {"target", "actor", "owners", "flags", "start"}
    /\ Finish(c)
    /\ pending' = [pending EXCEPT ![c] = {}]
    /\ found' = [found EXCEPT ![c] = FALSE]
    /\ UNCHANGED <<relations, wrote>>

\* After assertCanGovernOwner: suspend also runs assertNotLastOwner.
AfterGovern(c) == IF op[c].kind = "suspend" THEN "owners" ELSE "start"

targetIsOwner(u) == transfer_ownership(u)
isPlatformAdmin(u) == u \in PlatformAdmin

\* assertCanGovernOwner: a target who is no owner needs no further check.
CheckTarget(c) ==
    /\ pc[c] = "target"
    /\ Goto(c, IF targetIsOwner(op[c].target) THEN "actor" ELSE AfterGovern(c))
    /\ UNCHANGED <<relations, pending, found, wrote>>

\* Mutant: the result of the actor's check is not used.
CheckActor_NoGuard(c) ==
    /\ pc[c] = "actor"
    /\ Goto(c, AfterGovern(c))
    /\ UNCHANGED <<relations, pending, found, wrote>>

\* assertCanGovernOwner: an owner target needs an owner or a platform admin.
CheckActor(c) ==
    /\ pc[c] = "actor"
    /\ IF targetIsOwner(op[c].actor) \/ isPlatformAdmin(op[c].actor)
       THEN Goto(c, AfterGovern(c))
       ELSE Finish(c)
    /\ UNCHANGED <<relations, pending, found, wrote>>

lookupSubjects(relation) == {u \in User : <<u, relation>> \in role}

\* Mutant: the target is not filtered out.
OtherOwners_WithTarget(c) == lookupSubjects("owner")

\* assertNotLastOwner: the owners without the target.
OtherOwners(c) == lookupSubjects("owner") \ {op[c].target}

LookupOwners(c) ==
    /\ pc[c] = "owners"
    /\ pending' = [pending EXCEPT ![c] = OtherOwners(c)]
    /\ IF OtherOwners(c) = {} THEN Finish(c) ELSE Goto(c, "flags")
    /\ UNCHANGED <<relations, found, wrote>>

\* checkRelation(tenant, "suspended", u).
isSuspended(u) == u \in suspended

\* assertNotLastOwner: one of the parallel checks of tenant#suspended comes
\* back; the last one decides.
ReadFlag(c, u) ==
    LET unsuspended == found[c] \/ ~isSuspended(u)
        last        == pending[c] = {u}
    IN  /\ pc[c] = "flags"
        /\ u \in pending[c]
        /\ pending' = [pending EXCEPT ![c] = @ \ {u}]
        /\ found' = [found EXCEPT ![c] = unsuspended /\ ~last]
        /\ IF last /\ ~unsuspended THEN Finish(c)
           ELSE Goto(c, IF last THEN "start" ELSE "flags")
        /\ UNCHANGED <<relations, wrote>>

\* temporal.start(...) under a fresh workflow id; the API answers.
StartWorkflow(c) ==
    /\ pc[c] = "start"
    /\ Goto(c, "running")
    /\ UNCHANGED <<relations, pending, found, wrote>>

assignTenantRole(c)   == op[c].kind = "assign" /\ StartWorkflow(c)
unassignTenantRole(c) == op[c].kind = "unassign" /\ StartWorkflow(c)
changeTenantRole(c)   == op[c].kind = "change" /\ StartWorkflow(c)
addGroupMember(c)     == op[c].kind = "add_member" /\ StartWorkflow(c)
removeGroupMember(c)  == op[c].kind = "remove_member" /\ StartWorkflow(c)
suspendUser(c)        == op[c].kind = "suspend" /\ StartWorkflow(c)
reinstateUser(c)      == op[c].kind = "reinstate" /\ StartWorkflow(c)

\* The handler starts the workflow of its mutation, after its guards.
Handler(c) ==
    \/ assignTenantRole(c) \/ unassignTenantRole(c) \/ changeTenantRole(c)
    \/ addGroupMember(c) \/ removeGroupMember(c)
    \/ suspendUser(c) \/ reinstateUser(c)

-----------------------------------------------------------------------------
(* The worker.                                                             *)

\* Each activity makes one WriteRelationships call: TOUCH adds, DELETE
\* removes, and both are no-ops when there is nothing to change.

\* Mutant: resource and subject of the role relation are swapped.
RoleAssigned_Swapped(x) ==
    /\ x.kind = "assign"
    /\ role' = role \cup {<<x.role, x.target>>}
    /\ UNCHANGED <<members, suspended>>

\* AssignTenantRoleSpiceDBActivity.
RoleAssigned(x) ==
    /\ x.kind = "assign"
    /\ role' = role \cup {<<x.target, x.role>>}
    /\ UNCHANGED <<members, suspended>>

\* UnassignTenantRoleSpiceDBActivity.
RoleUnassigned(x) ==
    /\ x.kind = "unassign"
    /\ role' = role \ {<<x.target, x.role>>}
    /\ UNCHANGED <<members, suspended>>

\* Mutant: the change deletes the old role and leaves the new one to a second
\* request.
RoleChanged_Deletes(x) ==
    /\ x.kind = "change"
    /\ role' = role \ {<<x.target, x.old>>}
    /\ UNCHANGED <<members, suspended>>

\* SpiceDB refuses a request that deletes a relationship the schema does not
\* allow, and the input schema lets the ownership of a service account through.
Refused(x) == x.kind = "change" /\ x.old = "owner" /\ x.target \in ServiceAccount

\* ChangeTenantRoleSpiceDBActivity: delete and touch in one request.  A refused
\* one is retried without end.
RoleChanged(x) ==
    /\ x.kind = "change" /\ ~Refused(x)
    /\ role' = (role \ {<<x.target, x.old>>}) \cup {<<x.target, x.role>>}
    /\ UNCHANGED <<members, suspended>>

\* AddGroupMemberSpiceDBActivity and RemoveGroupMemberSpiceDBActivity.
GroupMembership(x) ==
    /\ \/ x.kind = "add_member" /\ members' = members \cup {<<x.group, x.target>>}
       \/ x.kind = "remove_member" /\ members' = members \ {<<x.group, x.target>>}
    /\ UNCHANGED <<role, suspended>>

\* SuspendMemberSpiceDBActivity and ReinstateMemberSpiceDBActivity.
MemberSuspension(x) ==
    /\ \/ x.kind = "suspend" /\ suspended' = suspended \cup {x.target}
       \/ x.kind = "reinstate" /\ suspended' = suspended \ {x.target}
    /\ UNCHANGED <<role, members>>

Write(x) ==
    \/ RoleAssigned(x) \/ RoleUnassigned(x) \/ RoleChanged(x)
    \/ GroupMembership(x) \/ MemberSuspension(x)

\* One attempt of the activity.  Its result reaches the workflow, which
\* completes, or is lost, and Temporal runs the activity again.
Attempt(c) ==
    /\ pc[c] = "running"
    /\ Write(op[c])
    /\ \/ /\ Finish(c)
          /\ wrote' = [wrote EXCEPT ![c] = FALSE]
       \/ /\ LostAcks /\ ~wrote[c]
          /\ wrote' = [wrote EXCEPT ![c] = TRUE]
          /\ UNCHANGED <<pc, op>>
    /\ UNCHANGED <<pending, found>>

-----------------------------------------------------------------------------
Request(c) == users(c) \/ groups(c) \/ roles(c)

CallStep(c) ==
    \/ CheckTarget(c) \/ CheckActor(c) \/ LookupOwners(c)
    \/ \E u \in User : ReadFlag(c, u)
    \/ Handler(c) \/ CallFails(c) \/ Attempt(c)

Next == \E c \in Call : Request(c) \/ CallStep(c)

Spec == Init /\ [][Next]_vars

-----------------------------------------------------------------------------
(* Properties.                                                             *)

Owner(u) == <<u, "owner">> \in role

\* assertNotLastOwner: "suspending the last unsuspended owner bricks the
\* tenant": no suspension takes the last unsuspended owner away, whatever was
\* written between the request and its workflow.
SomeOwnerUnsuspended == \E u \in User : Owner(u) /\ u \notin suspended
SuspensionKeepsAnOwner ==
    [][suspended' # suspended /\ SomeOwnerUnsuspended => SomeOwnerUnsuspended']_vars

\* "only an owner OR a platform admin may suspend another owner".
OwnerSuspendedByOwner ==
    [][\A u \in suspended' \ suspended : Owner(u) /\ u \notin Denied =>
          \E c \in Call : /\ pc[c] = "running"
                          /\ op[c].kind = "suspend" /\ op[c].target = u
                          /\ transfer_ownership(op[c].actor) \/ op[c].actor \in PlatformAdmin
      ]_vars

\* reinstateUser: "only owner/platform-admin can flip an owner's suspended
\* state in either direction".
OwnerReinstatedByOwner ==
    [][\A u \in suspended \ suspended' : Owner(u) =>
          \E c \in Call : /\ pc[c] = "running"
                          /\ op[c].kind = "reinstate" /\ op[c].target = u
                          /\ Owner(op[c].actor) \/ op[c].actor \in PlatformAdmin
      ]_vars

\* owner is user-only, through every path that writes a role.
OnlyUsersOwn == \A x \in role : x[2] = "owner" => x[1] \in User

\* WriteTenantRoleChanged: "no intermediate state where the principal has
\* neither role".  A principal loses its last direct role by unassign only.
OnlyUnassignStripsLastRole ==
    [][\A s \in Principal :
          (\E r \in Role : <<s, r>> \in role) /\ ~(\E r \in Role : <<s, r>> \in role') =>
              \E c \in Call : pc[c] = "running" /\ op[c].kind = "unassign" /\ op[c].target = s
      ]_vars
=============================================================================
