----------------------------- MODULE Principals -----------------------------
(***************************************************************************)
(* The Principals page of the operator console: the route (routes/         *)
(* Principals.tsx: five resources, the selections, one pending flag and    *)
(* one error per family of mutations, the refetches of live tenant events) *)
(* and its view (components/PrincipalAdmin.tsx: which control is enabled,  *)
(* which list is shown).                                                   *)
(*                                                                         *)
(* Answers arrive in any order: a list that was asked for before the       *)
(* selection changed, a refetch that a tenant event superseded, a mutation *)
(* whose answer is lost after the server committed it, or that the server  *)
(* commits after the page was left and opened again.                       *)
(*                                                                         *)
(* Bounds: MAX_PANELS, the number of panels in which one visit of the page *)
(* has something selected or started; MAX_LATE, the writes of groups on    *)
(* their way that no page waits for.                                       *)
(***************************************************************************)
EXTENDS Resource, Naturals, FiniteSets

CONSTANTS USERS,          \* rows of the Users tab
          GROUPS,         \* rows of the Groups tab
          PRINCIPALS,     \* what the Roles tab can look up
          ROLES,          \* TENANT_ROLES, as "Expand for role" offers them
          All,            \* the source of a resource that has none
          MAX_PANELS, MAX_LATE

ASSUME PrincipalsAssumption ==
    /\ NoKey \notin USERS \cup GROUPS \cup PRINCIPALS \cup ROLES \cup {All}
    /\ MAX_PANELS \in Nat /\ MAX_LATE \in Nat

VARIABLES tab,            \* activeTab
          res,            \* users, groups, principalRoles, groupMembers, expandedRolePrincipals
          selectedUser,
          act,            \* per family: phase of the handler, its target, its error
          late            \* creates and deletes of groups sent by a handler that is gone

principalsVars == <<tab, res, selectedUser, act, late>>

Tab    == {"users", "groups", "roles"}
List   == {"users", "groups", "roles", "members", "expanded"}
Family == {"user", "group", "role", "member"}

KeyOf(l) == CASE l = "roles"    -> PRINCIPALS
              [] l = "members"  -> GROUPS
              [] l = "expanded" -> ROLES
              [] OTHER          -> {All}

\* The list that the handlers of a family refetch; "users" is never refetched
\* by a handler (suspend and reinstate do not refetch).
ListOf(f) == CASE f = "group" -> "groups"
               [] f = "role"  -> "roles"
               [] f = "member" -> "members"
               [] OTHER -> "users"

Target == USERS \cup GROUPS \cup PRINCIPALS \cup {NoKey}
Phase  == {"idle", "sent", "committed", "refetch", "superseded"}
Action == [phase : Phase, on : Target, failed : BOOLEAN]

Done(failed) == [phase |-> "idle", on |-> NoKey, failed |-> failed]
Pending(f)   == act[f].phase # "idle"

-----------------------------------------------------------------------------
\* A fresh mount: the two lists without a source are requested at once.
Mounted ==
    [l \in List |-> Created(IF l \in {"users", "groups"} THEN All ELSE NoKey)]

PrincipalsInit ==
    /\ tab = "users"
    /\ res = Mounted
    /\ selectedUser = NoKey
    /\ act = [f \in Family |-> Done(FALSE)]
    /\ late = 0

\* A create or delete of a group has lost its handler and may still be written.
GoesOn == late < MAX_LATE /\ late' = late + 1

\* The page is left, or opened again: every signal and resource is new.  What
\* is still in flight settles without effect on the page, but the server goes
\* on with what it was sent.
RemountPrincipals ==
    /\ IF act["group"].phase = "sent" THEN GoesOn ELSE UNCHANGED late
    /\ tab' = "users"
    /\ res' = Mounted
    /\ selectedUser' = NoKey
    /\ act' = [f \in Family |-> Done(FALSE)]

-----------------------------------------------------------------------------
(* What the view shows and enables.                                        *)

ListShown(l) ==
    res[l].key # NoKey /\ ~Loading(res[l]) /\ res[l].value # Failed

\* Bound: the panels that this visit uses, or a group write of an earlier one;
\* the Roles tab has two, the lookup of a principal and "Expand for role".
Panel == {"users", "groups", "lookup", "expand"}
Used(p) ==
    CASE p = "users"  -> selectedUser # NoKey \/ act["user"] # Done(FALSE)
      [] p = "groups" -> \/ res["members"] # Created(NoKey)
                         \/ act["group"] # Done(FALSE) \/ act["member"] # Done(FALSE)
                         \/ late > 0
      [] p = "lookup" -> res["roles"] # Created(NoKey) \/ act["role"] # Done(FALSE)
      [] p = "expand" -> res["expanded"] # Created(NoKey)
MayUse(p) == Used(p) \/ Cardinality({q \in Panel : Used(q)}) < MAX_PANELS

TabChange(t) == tab # t /\ tab' = t /\ UNCHANGED <<res, selectedUser, act, late>>

\* Users tab.  Close is never disabled, not even while a suspension is pending.
ManageUser(u) ==
    /\ tab = "users" /\ MayUse("users") /\ ListShown("users") /\ ~Pending("user")
    /\ selectedUser' = u
    /\ UNCHANGED <<tab, res, act, late>>

CloseUser ==
    /\ tab = "users" /\ selectedUser # NoKey
    /\ selectedUser' = NoKey
    /\ UNCHANGED <<tab, res, act, late>>

UserButtons == tab = "users" /\ selectedUser # NoKey /\ ~Pending("user")

\* Groups tab: the form that creates a group, a row of the table, and the form
\* of the group whose members are managed.
GroupForm == tab = "groups" /\ MayUse("groups") /\ ~Pending("group")

GroupRow == GroupForm /\ ListShown("groups")

MemberForm == tab = "groups" /\ res["members"].key # NoKey /\ ~Pending("member")

\* Mutant: the picker is not disabled while a role is being changed.
PrincipalPicker_Enabled == tab = "roles" /\ MayUse("lookup")

\* Roles tab: the picker, the forms of the principal it found, and the chips of
\* the roles that principal has.
PrincipalPicker == tab = "roles" /\ MayUse("lookup") /\ ~Pending("role")

RoleSelected == tab = "roles" /\ res["roles"].key # NoKey

AssignForm == RoleSelected /\ ~Pending("role")
ChangeForm == RoleSelected /\ ~Pending("role")
RoleChips  == RoleSelected /\ ~Pending("role") /\ ListShown("roles")

-----------------------------------------------------------------------------
(* Selections: the source of a resource changes.                           *)

Select(l, k) ==
    /\ res' = [res EXCEPT ![l] = Load(@, k)]
    /\ UNCHANGED <<tab, selectedUser, act, late>>

\* A row that is managed already may be the same object (nothing happens) or
\* one of a newer groups list (it is loaded again).
ManageMembers(g) == GroupRow /\ ~Pending("member") /\ Select("members", g)

CloseMembers == MemberForm /\ Select("members", NoKey)

\* A lookup makes a new PrincipalRef each time; an invalid one, like Clear,
\* selects none.
LookUp(p) == PrincipalPicker /\ Select("roles", p)

\* Mutant: the role is set as the principal whose roles are listed.
ExpandRole_Principal(r) == tab = "roles" /\ MayUse("expand") /\ Select("roles", r)

\* The results of another role replace those shown; Clear selects none.
ExpandRole(r) ==
    tab = "roles" /\ MayUse("expand") /\ res["expanded"].key # r /\ Select("expanded", r)

-----------------------------------------------------------------------------
(* Mutations: clear the error, raise the pending flag, await the call,     *)
(* await the refetch, lower the flag.                                      *)

Begin(f, k) ==
    /\ act' = [act EXCEPT ![f] = [phase |-> "sent", on |-> k, failed |-> FALSE]]
    /\ UNCHANGED <<tab, res, selectedUser, late>>

HandleCreateGroup == GroupForm /\ Begin("group", NoKey)
HandleDeleteGroup == GroupRow /\ Begin("group", NoKey)

HandleAssignRole   == AssignForm /\ Begin("role", res["roles"].key)
HandleChangeRole   == ChangeForm /\ Begin("role", res["roles"].key)
HandleUnassignRole == RoleChips /\ Begin("role", res["roles"].key)

HandleAddMember    == MemberForm /\ Begin("member", res["members"].key)
HandleRemoveMember == MemberForm /\ Begin("member", res["members"].key)

HandleSuspendUser   == UserButtons /\ Begin("user", selectedUser)
HandleReinstateUser == UserButtons /\ Begin("user", selectedUser)

\* createGroup and deleteGroup write the table before they answer; the other
\* mutations start a workflow, whose write comes at no fixed time.
CommitGroup ==
    /\ act["group"].phase = "sent"
    /\ act' = [act EXCEPT !["group"].phase = "committed"]
    /\ res' = [res EXCEPT !["groups"] = Outdated(@, "stale")]
    /\ UNCHANGED <<tab, selectedUser, late>>

\* Mutant: the list is not asked for again.
MutationSucceeds_NoRefetch(f) ==
    /\ act[f].phase = IF f = "group" THEN "committed" ELSE "sent"
    /\ act' = [act EXCEPT ![f] = Done(FALSE)]
    /\ UNCHANGED <<tab, res, selectedUser, late>>

\* The answer arrives: the handler awaits the refetch of its list, if it has one.
MutationSucceeds(f) ==
    /\ act[f].phase = IF f = "group" THEN "committed" ELSE "sent"
    /\ IF f = "user"
         THEN act' = [act EXCEPT ![f] = Done(FALSE)] /\ UNCHANGED res
         ELSE /\ act' = [act EXCEPT ![f].phase = "refetch"]
              /\ res' = [res EXCEPT ![ListOf(f)] = Load(@, @.key)]
    /\ UNCHANGED <<tab, selectedUser, late>>

\* Refused, failed, or the answer is lost: the write may be there, and one of a
\* group may still come.
MutationFails(f) ==
    /\ act[f].phase \in {"sent", "committed"}
    /\ act' = [act EXCEPT ![f] = Done(TRUE)]
    /\ UNCHANGED late \/ (f = "group" /\ act[f].phase = "sent" /\ GoesOn)
    /\ UNCHANGED <<tab, res, selectedUser>>

\* The server writes, or refuses, what a handler sent that is gone: no page
\* hears of it, not even one that has read the list already.
LateGroupWrite ==
    /\ late > 0 /\ late' = late - 1
    /\ \/ res' = [res EXCEPT !["groups"] = Outdated(@, "behind")]
       \/ UNCHANGED res
    /\ UNCHANGED <<tab, selectedUser, act>>

-----------------------------------------------------------------------------
(* Answers and events.                                                     *)

\* The groups list, which this console writes itself, is read at the server some
\* time before the answer arrives; for the others only the answer matters.
ReadGroups ==
    /\ res["groups"].load = "sent"
    /\ res' = [res EXCEPT !["groups"] = Read(@)]
    /\ UNCHANGED <<tab, selectedUser, act, late>>

\* The current load of a list settles; refetch() never rejects, so a handler
\* that awaits it goes on to its finally either way.
Settle(l) ==
    /\ Loading(res[l]) /\ (l = "groups" => res[l].load # "sent")
    /\ \/ res' = [res EXCEPT ![l] = Landed(@)]
       \/ res' = [res EXCEPT ![l] = Errored(@)]
    /\ act' = [f \in Family |->
                 IF act[f].phase = "refetch" /\ ListOf(f) = l THEN Done(FALSE) ELSE act[f]]
    /\ UNCHANGED <<tab, selectedUser, late>>

\* The refetch a handler awaits settles after a newer load took its place.
SettleSuperseded(f) ==
    /\ act[f].phase = "superseded"
    /\ act' = [act EXCEPT ![f] = Done(FALSE)]
    /\ UNCHANGED <<tab, res, selectedUser, late>>

\* onData of the events.tenant subscription.
TenantEvent ==
    LET refetched == {"groups", "roles", "users"}
    IN  /\ res' = [l \in List |-> IF l \in refetched THEN Load(res[l], res[l].key) ELSE res[l]]
        /\ act' = [f \in Family |->
                     IF act[f].phase = "refetch" /\ ListOf(f) \in refetched
                       THEN [act[f] EXCEPT !.phase = "superseded"] ELSE act[f]]
        /\ UNCHANGED <<tab, selectedUser, late>>

-----------------------------------------------------------------------------
\* The operator's steps.
PrincipalsInput ==
    \/ \E t \in Tab : TabChange(t)
    \/ \E u \in USERS : ManageUser(u)
    \/ CloseUser
    \/ \E g \in GROUPS : ManageMembers(g)
    \/ CloseMembers
    \/ \E p \in PRINCIPALS \cup {NoKey} : LookUp(p)
    \/ \E r \in ROLES \cup {NoKey} : ExpandRole(r)
    \/ HandleCreateGroup \/ HandleDeleteGroup
    \/ HandleAssignRole \/ HandleChangeRole \/ HandleUnassignRole
    \/ HandleAddMember \/ HandleRemoveMember
    \/ HandleSuspendUser \/ HandleReinstateUser

\* Steps of the server and of answers.
PrincipalsAnswers ==
    \/ CommitGroup
    \/ \E f \in Family : MutationSucceeds(f) \/ MutationFails(f) \/ SettleSuperseded(f)
    \/ ReadGroups
    \/ \E l \in List : Settle(l)

-----------------------------------------------------------------------------
PrincipalsTypeOK ==
    /\ tab \in Tab
    /\ res = [l \in List |-> res[l]]
    /\ \A l \in List : res[l] \in Resource(KeyOf(l))
    /\ selectedUser \in USERS \cup {NoKey}
    /\ act \in [Family -> Action]
    /\ late \in 0..MAX_LATE

\* A list on the screen is the list of what is selected: roles of the principal
\* in the heading, members of the group in the heading, whatever order the
\* answers of earlier selections and refetches arrive in.
ShownIsSelected ==
    \A l \in List : ListShown(l) => res[l].value.of = res[l].key

\* While a mutation of roles or members is in flight its principal or group
\* stays selected, so the refetch that follows reads the list it changed and an
\* error appears under the heading it is about; a pending suspension may lose
\* its user to Close, but never shows under another user.
PendingIsSelected ==
    /\ \A f \in {"role", "member"} :
          Pending(f) => act[f].on # NoKey /\ act[f].on = res[ListOf(f)].key
    /\ Pending("user") => selectedUser \in {act["user"].on, NoKey}

SelectionIsConsistent == ShownIsSelected /\ PendingIsSelected

\* Read your writes: once the create or delete of a group is over and no error
\* is shown for it, a groups list on the screen shows every write of this visit
\* that was answered, also when live tenant events refetch the same list in
\* between.  A write that lost its handler, because the page was left while it
\* was on its way, may be missing: nothing tells the page that it was committed.
OwnWritesVisible ==
    act["group"] = Done(FALSE) /\ ListShown("groups") =>
        res["groups"].value.state # "stale"
=============================================================================
