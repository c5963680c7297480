------------------------ MODULE TenantMembersProofs ------------------------
(***************************************************************************)
(* Proofs about TenantMembers, for every set of users, service accounts,   *)
(* groups and initial relations: the type invariant and the properties of  *)
(* the roles for any number of overlapping requests, those of suspension   *)
(* for requests that follow one another (Serial): with two of them they    *)
(* do not hold.  Then about TenantRelations: that its gate is that of the  *)
(* whole schema.                                                           *)
(***************************************************************************)
EXTENDS TenantRelations, TLAPS

\* No two requests overlap.
Serial == \A c, d \in Call : c = d

-----------------------------------------------------------------------------
(* The inputs and the operations they become.                              *)

\* What the schemas guarantee of an input, by kind.
Valid(x) ==
    /\ x.kind \in {"assign", "unassign", "change"} =>
          /\ x.target \in Principal /\ x.role \in Role
          /\ x.role = "owner" => x.target \in User
    /\ x.kind = "change" => x.old \in Role /\ x.old # x.role
    /\ x.kind \in {"add_member", "remove_member"} => x.group \in Group /\ x.target \in User
    /\ x.kind \in {"suspend", "reinstate"} => x.actor \in User /\ x.target \in User

\* What Input lets through is typed, and an owner it names is a user.
LEMMA InputIsValid ==
    ASSUME NEW k \in Kinds, NEW x \in Input(k)
    PROVE  x \in OpType /\ x.kind = k /\ k \in Mutation /\ Valid(x)
  <1>1. k \in Mutation /\ Asked \subseteq Role
    BY MembersAssumption
  <1>2. x \in OpType
    BY DEF OpType
  <1>3. CASE k \in {"assign", "unassign"}
    <2>1. /\ x \in [kind : {k}, target : Principal, role : Asked]
          /\ ~(x.role = "owner" /\ x.target \in ServiceAccount)
      BY <1>3 DEF Input, RoleAssignmentBase
    <2> QED
      BY <1>1, <1>2, <1>3, <2>1 DEF Valid, Principal
  <1>4. CASE k = "change"
    <2>1. /\ x \in [kind : {k}, target : Principal, old : Asked, role : Asked]
          /\ x.old # x.role /\ ~(x.role = "owner" /\ x.target \in ServiceAccount)
      BY <1>4 DEF Input, ChangeRoleSchema
    <2> QED
      BY <1>1, <1>2, <1>4, <2>1 DEF Valid, Principal
  <1>5. CASE k \in {"add_member", "remove_member"}
    <2>1. x \in [kind : {k}, group : Group, target : User]
      BY <1>5 DEF Input, GroupMembershipInputSchema
    <2> QED
      BY <1>1, <1>2, <1>5, <2>1 DEF Valid
  <1>6. CASE k \in {"suspend", "reinstate"}
    <2>1. x \in [kind : {k}, actor : User, target : User]
      BY <1>6 DEF Input, UserSuspensionInputSchema
    <2> QED
      BY <1>1, <1>2, <1>6, <2>1 DEF Valid
  <1> QED
    BY <1>1, <1>3, <1>4, <1>5, <1>6 DEF Mutation

\* Every operation a call can hold is one the schemas let through.
LEMMA OpIsValid == ASSUME NEW x \in OpType PROVE x.kind \in Mutation \cup {"none"} /\ Valid(x)
  <1>1. CASE x = Idle
    BY <1>1 DEF Idle, Valid
  <1>2. CASE \E k \in Kinds : x \in Input(k)
    BY <1>2, InputIsValid
  <1> QED
    BY <1>1, <1>2 DEF OpType

-----------------------------------------------------------------------------
(* Types, and who can own: any number of requests may overlap.             *)

\* A call that has been gated holds an operation.
OpInv == \A c \in Call : pc[c] # "idle" => op[c].kind # "none"

RoleInv == TypeOK /\ OpInv /\ OnlyUsersOwn

\* What one SpiceDB write makes of the relations.
LEMMA WriteKeepsRoles ==
    ASSUME RoleInv, NEW x \in OpType, Write(x)
    PROVE  /\ role' \subseteq (Principal \cup Group) \X Role
           /\ members' \subseteq Group \X User
           /\ suspended' \subseteq User
           /\ OnlyUsersOwn'
  <1> Valid(x)
    BY OpIsValid
  <1> /\ role \subseteq (Principal \cup Group) \X Role
      /\ members \subseteq Group \X User
      /\ suspended \subseteq User
      /\ OnlyUsersOwn
    BY DEF RoleInv, TypeOK
  <1>1. CASE RoleAssigned(x)
    BY <1>1 DEF RoleAssigned, Valid, OnlyUsersOwn
  <1>2. CASE RoleUnassigned(x)
    BY <1>2 DEF RoleUnassigned, OnlyUsersOwn
  <1>3. CASE RoleChanged(x)
    BY <1>3 DEF RoleChanged, Valid, OnlyUsersOwn
  <1>4. CASE GroupMembership(x)
    BY <1>4 DEF GroupMembership, Valid, OnlyUsersOwn
  <1>5. CASE MemberSuspension(x)
    BY <1>5 DEF MemberSuspension, Valid, OnlyUsersOwn
  <1> QED
    BY <1>1, <1>2, <1>3, <1>4, <1>5 DEF Write

\* The initial relations are typed and only users own.
LEMMA RoleInit == Init => RoleInv
  <1> SUFFICES ASSUME Init PROVE RoleInv
    OBVIOUS
  <1>1. Idle \in OpType
    BY DEF OpType
  <1>2. TypeOK
    BY <1>1, MembersAssumption DEF Init, TypeOK, Steps
  <1>3. OpInv /\ OnlyUsersOwn
    BY MembersAssumption DEF Init, OpInv, OnlyUsersOwn
  <1> QED
    BY <1>2, <1>3 DEF RoleInv

\* Whatever the handler, it starts a workflow.
LEMMA HandlerStarts == ASSUME NEW c \in Call, Handler(c) PROVE StartWorkflow(c)
  BY DEF Handler, assignTenantRole, unassignTenantRole, changeTenantRole, addGroupMember,
     removeGroupMember, suspendUser, reinstateUser

\* A request that passes the gate makes the call hold its input.
LEMMA RequestSubmits ==
    ASSUME NEW c \in Call, Request(c)
    PROVE  /\ pc[c] = "idle"
           /\ \E k \in Kinds : \E x \in Input(k) :
                Submit(c, x, IF k \in {"suspend", "reinstate"} THEN "target" ELSE "start")
  <1>1. CASE users(c)
    <2>1. PICK actor \in User :
              /\ tenantProcedure(c, actor)
              /\ \E k \in Kinds \cap {"suspend", "reinstate"} : \E x \in Input(k) :
                    x.actor = actor /\ Submit(c, x, "target")
      BY <1>1 DEF users
    <2> QED
      BY <2>1 DEF tenantProcedure
  <1>2. CASE groups(c)
    BY <1>2 DEF groups, tenantProcedure
  <1>3. CASE roles(c)
    BY <1>3 DEF roles, tenantProcedure
  <1> QED
    BY <1>1, <1>2, <1>3 DEF Request

\* Every step of any call keeps them so.
LEMMA RoleStep == RoleInv /\ [Next]_vars => RoleInv'
  <1> SUFFICES ASSUME RoleInv, [Next]_vars PROVE RoleInv'
    OBVIOUS
  <1> Idle \in OpType
    BY DEF OpType
  <1> USE DEF RoleInv, relations
  <1>1. ASSUME NEW c \in Call, Request(c) PROVE RoleInv'
    <2>0. PICK k \in Kinds : \E x \in Input(k) :
              Submit(c, x, IF k \in {"suspend", "reinstate"} THEN "target" ELSE "start")
      BY <1>1, RequestSubmits
    <2>1. PICK x \in Input(k) :
              Submit(c, x, IF k \in {"suspend", "reinstate"} THEN "target" ELSE "start")
      BY <2>0
    <2>2. x \in OpType /\ x.kind # "none"
      BY InputIsValid DEF Mutation
    <2>3. UNCHANGED <<relations, pending, found, wrote>>
      BY <2>1 DEF Submit
    <2>4. TypeOK'
      BY <2>1, <2>2, <2>3 DEF Submit, TypeOK, Steps
    <2>5. OpInv'
      BY <2>1, <2>2 DEF Submit, OpInv, TypeOK
    <2>6. OnlyUsersOwn'
      BY <2>3 DEF OnlyUsersOwn
    <2> QED
      BY <2>4, <2>5, <2>6
  <1>2. ASSUME NEW c \in Call, CheckTarget(c) PROVE RoleInv'
    BY <1>2 DEF CheckTarget, Goto, AfterGovern, TypeOK, Steps, OpInv, OnlyUsersOwn
  <1>3. ASSUME NEW c \in Call, CheckActor(c) PROVE RoleInv'
    BY <1>3 DEF CheckActor, Goto, Finish, AfterGovern, TypeOK, Steps, OpInv, OnlyUsersOwn
  <1>4. ASSUME NEW c \in Call, LookupOwners(c) PROVE RoleInv'
    BY <1>4 DEF LookupOwners, OtherOwners, lookupSubjects, Goto, Finish, TypeOK, Steps, OpInv, OnlyUsersOwn
  <1>5. ASSUME NEW c \in Call, NEW u \in User, ReadFlag(c, u) PROVE RoleInv'
    BY <1>5 DEF ReadFlag, Goto, Finish, TypeOK, Steps, OpInv, OnlyUsersOwn
  <1>6. ASSUME NEW c \in Call, Handler(c) PROVE RoleInv'
    BY <1>6, HandlerStarts DEF StartWorkflow, Goto, TypeOK, Steps, OpInv, OnlyUsersOwn
  <1>7. ASSUME NEW c \in Call, Attempt(c) PROVE RoleInv'
    <2>1. Write(op[c]) /\ op[c] \in OpType /\ UNCHANGED <<pending, found>>
      BY <1>7 DEF Attempt, TypeOK
    <2>2. /\ role' \subseteq (Principal \cup Group) \X Role
          /\ members' \subseteq Group \X User
          /\ suspended' \subseteq User
          /\ OnlyUsersOwn'
      BY <2>1, WriteKeepsRoles
    <2>3. \/ Finish(c) /\ wrote' = [wrote EXCEPT ![c] = FALSE]
          \/ wrote' = [wrote EXCEPT ![c] = TRUE] /\ UNCHANGED <<pc, op>>
      BY <1>7 DEF Attempt
    <2>4. TypeOK'
      BY <2>1, <2>2, <2>3 DEF Finish, TypeOK, Steps
    <2>5. OpInv'
      BY <2>3 DEF Finish, OpInv, TypeOK
    <2> QED
      BY <2>2, <2>4, <2>5
  <1>8. ASSUME NEW c \in Call, CallFails(c) PROVE RoleInv'
    BY <1>8 DEF CallFails, Finish, TypeOK, Steps, OpInv, OnlyUsersOwn
  <1>9. CASE UNCHANGED vars
    BY <1>9 DEF vars, TypeOK, OpInv, OnlyUsersOwn
  <1> QED
    BY <1>1, <1>2, <1>3, <1>4, <1>5, <1>6, <1>7, <1>8, <1>9 DEF Next, CallStep

\* The types, the gated operations and the ownership rule in every reachable
\* state, for any number of overlapping requests.
THEOREM RoleInvariance == Spec => []RoleInv
  BY RoleInit, RoleStep, PTL DEF Spec

\* The type invariant.
THEOREM TypeCorrect == Spec => []TypeOK
  <1>1. RoleInv => TypeOK
    BY DEF RoleInv
  <1> QED
    BY <1>1, RoleInvariance, PTL

\* Only users own the tenant, through every path that writes a role.
THEOREM UsersOwn == Spec => []OnlyUsersOwn
  <1>1. RoleInv => OnlyUsersOwn
    BY DEF RoleInv
  <1> QED
    BY <1>1, RoleInvariance, PTL

\* The relations change only in an attempt, which writes the operation of its
\* call.
LEMMA OnlyAttemptsWrite ==
    ASSUME RoleInv, [Next]_vars, ~UNCHANGED relations
    PROVE  \E c \in Call : Attempt(c) /\ pc[c] = "running" /\ Write(op[c])
                           /\ op[c] \in OpType /\ Valid(op[c])
  <1>1. PICK c \in Call : Request(c) \/ CallStep(c)
    BY DEF Next, vars
  <1>2. ~Request(c)
    BY RequestSubmits DEF Submit
  <1>3. ~Handler(c)
    BY HandlerStarts DEF StartWorkflow
  <1>4. Attempt(c)
    BY <1>1, <1>2, <1>3 DEF CallStep, CheckTarget, CheckActor, LookupOwners, ReadFlag, CallFails
  <1>5. op[c] \in OpType
    BY DEF RoleInv, TypeOK
  <1> QED
    BY <1>4, <1>5, OpIsValid DEF Attempt

\* A principal loses its last direct role by an unassignment only, for any
\* number of overlapping requests.
THEOREM RolesSurvive == Spec => OnlyUnassignStripsLastRole
  <1> DEFINE Strips(s) ==
          (\E r \in Role : <<s, r>> \in role) /\ ~(\E r \in Role : <<s, r>> \in role')
      Unassigns(s) ==
          \E c \in Call : pc[c] = "running" /\ op[c].kind = "unassign" /\ op[c].target = s
  <1>1. RoleInv /\ [Next]_vars => [\A s \in Principal : Strips(s) => Unassigns(s)]_vars
    <2> SUFFICES ASSUME RoleInv, [Next]_vars, NEW s \in Principal, Strips(s)
                 PROVE  Unassigns(s)
      OBVIOUS
    <2>1. ~UNCHANGED relations
      BY DEF relations
    <2>2. PICK c \in Call : pc[c] = "running" /\ Write(op[c]) /\ Valid(op[c])
      BY <2>1, OnlyAttemptsWrite
    <2>3. PICK r \in Role : <<s, r>> \in role /\ <<s, r>> \notin role'
      OBVIOUS
    <2>4. ~RoleAssigned(op[c]) /\ ~GroupMembership(op[c]) /\ ~MemberSuspension(op[c])
      BY <2>3 DEF RoleAssigned, GroupMembership, MemberSuspension
    <2>5. CASE RoleUnassigned(op[c])
      <3>1. op[c].kind = "unassign" /\ op[c].target = s
        BY <2>3, <2>5 DEF RoleUnassigned
      <3> QED
        BY <2>2, <3>1
    <2>6. CASE RoleChanged(op[c])
      <3>1. /\ op[c].target = s /\ op[c].role \in Role
            /\ <<op[c].target, op[c].role>> \in role'
        BY <2>2, <2>3, <2>6 DEF RoleChanged, Valid
      <3> QED
        BY <3>1
    <2> QED
      BY <2>2, <2>4, <2>5, <2>6 DEF Write
  <1> QED
    BY <1>1, RoleInvariance, PTL DEF Spec, OnlyUnassignStripsLastRole

-----------------------------------------------------------------------------
(* Suspension, one request at a time.                                      *)

\* assertCanGovernOwner still holds of a suspension that has passed it.
GovernInv ==
    \A c \in Call :
        /\ op[c].kind = "suspend" /\ pc[c] \in {"owners", "flags", "start", "running"}
        /\ transfer_ownership(op[c].target)
        => transfer_ownership(op[c].actor) \/ op[c].actor \in PlatformAdmin

\* An owner besides the target of call c is not suspended.
Safe(c) == \E u \in OtherOwners(c) : u \notin suspended

\* What assertNotLastOwner has found out so far is still true.
OwnersInv ==
    \A c \in Call :
        /\ pc[c] = "flags" => /\ pending[c] \subseteq OtherOwners(c)
                              /\ found[c] => Safe(c)
        /\ pc[c] # "flags" => ~found[c]
        /\ op[c].kind = "suspend" /\ pc[c] \in {"start", "running"} => Safe(c)

\* Only a suspension reads the owners, and only suspend and reinstate are
\* checked at all.
KindInv ==
    \A c \in Call :
        /\ pc[c] \in {"owners", "flags"} => op[c].kind = "suspend"
        /\ pc[c] \in {"target", "actor"} => op[c].kind \in {"suspend", "reinstate"}

SerialInv == RoleInv /\ GovernInv /\ OwnersInv /\ KindInv

\* Nothing is under way at the start.
LEMMA SerialInit == Init => SerialInv
  BY RoleInit DEF Init, SerialInv, GovernInv, OwnersInv, KindInv, Idle

\* With one call the relations stand still between its guards and its write.
LEMMA SerialStep == Serial /\ SerialInv /\ [Next]_vars => SerialInv'
  <1> SUFFICES ASSUME Serial, SerialInv, [Next]_vars PROVE SerialInv'
    OBVIOUS
  <1>0. RoleInv /\ RoleInv'
    BY RoleStep DEF SerialInv
  <1> DEFINE Parts == GovernInv /\ OwnersInv /\ KindInv
  <1>1. ASSUME NEW c \in Call, Request(c) PROVE Parts'
    <2>0. /\ pc[c] = "idle"
          /\ \E k \in Kinds : \E x \in Input(k) :
                Submit(c, x, IF k \in {"suspend", "reinstate"} THEN "target" ELSE "start")
      BY <1>1, RequestSubmits
    <2>1. PICK k \in Kinds : \E x \in Input(k) :
              Submit(c, x, IF k \in {"suspend", "reinstate"} THEN "target" ELSE "start")
      BY <2>0
    <2>2. PICK x \in Input(k) :
              Submit(c, x, IF k \in {"suspend", "reinstate"} THEN "target" ELSE "start")
      BY <2>1
    <2>3. x.kind = k
      BY InputIsValid
    <2>4. /\ op'[c] = x
          /\ pc'[c] = IF k \in {"suspend", "reinstate"} THEN "target" ELSE "start"
          /\ pc[c] = "idle" /\ found' = found
      BY <1>0, <2>0, <2>2 DEF Submit, RoleInv, TypeOK
    <2> QED
      BY <2>3, <2>4 DEF Serial, SerialInv, GovernInv, OwnersInv, KindInv
  <1>2. ASSUME NEW c \in Call, CheckTarget(c) PROVE Parts'
    <2>1. /\ pc[c] = "target" /\ op' = op /\ UNCHANGED <<relations, found>>
          /\ pc'[c] = IF transfer_ownership(op[c].target) THEN "actor" ELSE AfterGovern(c)
      BY <1>0, <1>2 DEF CheckTarget, targetIsOwner, Goto, RoleInv, TypeOK
    <2>2. transfer_ownership(op[c].target)' <=> transfer_ownership(op[c].target)
      BY <2>1 DEF transfer_ownership, Holds, Blocked, relations
    <2>3. op[c].kind \in {"suspend", "reinstate"} /\ ~found[c]
      BY <2>1 DEF SerialInv, OwnersInv, KindInv
    <2> QED
      BY <2>1, <2>2, <2>3 DEF Serial, AfterGovern, GovernInv, OwnersInv, KindInv
  <1>3. ASSUME NEW c \in Call, CheckActor(c) PROVE Parts'
    <2>1. pc[c] = "actor" /\ UNCHANGED <<relations, found>>
      BY <1>3 DEF CheckActor
    <2>2. op[c].kind \in {"suspend", "reinstate"} /\ ~found[c]
      BY <2>1 DEF SerialInv, OwnersInv, KindInv
    <2>3. CASE /\ transfer_ownership(op[c].actor) \/ op[c].actor \in PlatformAdmin
               /\ pc'[c] = AfterGovern(c) /\ op' = op
      <3>1. transfer_ownership(op[c].actor)' <=> transfer_ownership(op[c].actor)
        BY <2>1, <2>3 DEF transfer_ownership, Holds, Blocked, relations
      <3> QED
        BY <2>1, <2>2, <2>3, <3>1 DEF Serial, AfterGovern, GovernInv, OwnersInv, KindInv
    <2>4. CASE pc'[c] = "idle"
      BY <2>1, <2>2, <2>4 DEF Serial, GovernInv, OwnersInv, KindInv
    <2> QED
      BY <1>0, <1>3, <2>3, <2>4 DEF CheckActor, targetIsOwner, isPlatformAdmin, Goto, Finish,
         RoleInv, TypeOK
  <1>4. ASSUME NEW c \in Call, LookupOwners(c) PROVE Parts'
    <2>1. /\ pc[c] = "owners" /\ UNCHANGED <<relations, found>>
          /\ pending'[c] = OtherOwners(c)
          /\ \/ pc'[c] = "idle"
             \/ pc'[c] = "flags" /\ op' = op
      BY <1>0, <1>4 DEF LookupOwners, Goto, Finish, RoleInv, TypeOK
    <2>2. op[c].kind = "suspend" /\ ~found[c]
      BY <2>1 DEF SerialInv, OwnersInv, KindInv
    <2>3. CASE pc'[c] = "idle"
      BY <2>1, <2>2, <2>3 DEF Serial, GovernInv, OwnersInv, KindInv
    <2>4. CASE pc'[c] = "flags" /\ op' = op
      <3>1. OtherOwners(c)' = OtherOwners(c)
        BY <2>1, <2>4 DEF OtherOwners, lookupSubjects, relations
      <3>2. /\ transfer_ownership(op[c].target)' <=> transfer_ownership(op[c].target)
            /\ transfer_ownership(op[c].actor)' <=> transfer_ownership(op[c].actor)
        BY <2>1, <2>4 DEF transfer_ownership, Holds, Blocked, relations
      <3>3. GovernInv'
        BY <2>1, <2>2, <2>4, <3>2 DEF Serial, SerialInv, GovernInv
      <3> QED
        BY <2>1, <2>2, <2>4, <3>1, <3>3 DEF Serial, OwnersInv, KindInv
    <2> QED
      BY <2>1, <2>3, <2>4
  <1>5. ASSUME NEW c \in Call, NEW u \in User, ReadFlag(c, u) PROVE Parts'
    <2>1. /\ pc[c] = "flags" /\ u \in pending[c] /\ UNCHANGED relations
          /\ pending'[c] = pending[c] \ {u}
          /\ found'[c] = ((found[c] \/ u \notin suspended) /\ pending[c] # {u})
      BY <1>0, <1>5 DEF ReadFlag, isSuspended, RoleInv, TypeOK
    <2>2. op[c].kind = "suspend" /\ pending[c] \subseteq OtherOwners(c) /\ (found[c] => Safe(c))
      BY <2>1 DEF SerialInv, OwnersInv, KindInv
    <2>3. \/ pc'[c] = "idle" /\ pending[c] = {u}
          \/ /\ op' = op
             /\ found[c] \/ u \notin suspended
             /\ pc'[c] = "start" /\ pending[c] = {u}
          \/ op' = op /\ pc'[c] = "flags" /\ pending[c] # {u}
      BY <1>0, <1>5 DEF ReadFlag, isSuspended, Goto, Finish, RoleInv, TypeOK
    <2>4. CASE pc'[c] = "idle"
      BY <2>1, <2>2, <2>3, <2>4 DEF Serial, GovernInv, OwnersInv, KindInv
    <2>5. CASE op' = op /\ pc'[c] \in {"start", "flags"} /\ pc'[c] # "idle"
      <3>1. /\ transfer_ownership(op[c].target)' <=> transfer_ownership(op[c].target)
            /\ transfer_ownership(op[c].actor)' <=> transfer_ownership(op[c].actor)
        BY <2>1, <2>5 DEF transfer_ownership, Holds, Blocked, relations
      <3>2. GovernInv'
        BY <2>1, <2>2, <2>5, <3>1 DEF Serial, SerialInv, GovernInv
      <3>3. OtherOwners(c)' = OtherOwners(c) /\ suspended' = suspended
        BY <2>1, <2>5 DEF OtherOwners, lookupSubjects, relations
      <3>4. found[c] \/ u \notin suspended => Safe(c)
        BY <2>1, <2>2 DEF Safe
      <3>5. Safe(c) <=> Safe(c)'
        BY <3>3 DEF Safe
      <3>6. OwnersInv'
        BY <2>1, <2>2, <2>3, <2>5, <3>3, <3>4, <3>5 DEF Serial, OwnersInv
      <3> QED
        BY <2>2, <2>5, <3>2, <3>6 DEF Serial, KindInv
    <2>6. pc'[c] = "idle" \/ (op' = op /\ pc'[c] \in {"start", "flags"} /\ pc'[c] # "idle")
      BY <2>3
    <2> QED
      BY <2>4, <2>5, <2>6
  <1>6. ASSUME NEW c \in Call, Handler(c) PROVE Parts'
    <2>1. /\ pc[c] = "start" /\ pc'[c] = "running" /\ op' = op /\ UNCHANGED <<relations, found>>
      BY <1>0, <1>6, HandlerStarts DEF StartWorkflow, Goto, RoleInv, TypeOK
    <2>2. /\ transfer_ownership(op[c].target)' <=> transfer_ownership(op[c].target)
          /\ transfer_ownership(op[c].actor)' <=> transfer_ownership(op[c].actor)
          /\ Safe(c)' <=> Safe(c)
      BY <2>1 DEF transfer_ownership, Holds, Blocked, Safe, OtherOwners, lookupSubjects, relations
    <2> QED
      BY <2>1, <2>2 DEF Serial, SerialInv, GovernInv, OwnersInv, KindInv
  <1>7. ASSUME NEW c \in Call, Attempt(c) PROVE Parts'
    <2>1. /\ pc[c] = "running" /\ Write(op[c]) /\ found' = found /\ ~found[c]
      BY <1>7 DEF Attempt, SerialInv, OwnersInv
    <2>2. CASE pc'[c] = "idle"
      BY <2>1, <2>2 DEF Serial, GovernInv, OwnersInv, KindInv
    <2>3. CASE op' = op /\ pc'[c] = "running" /\ op[c].kind # "suspend"
      BY <2>1, <2>3 DEF Serial, GovernInv, OwnersInv, KindInv
    <2>4. CASE op' = op /\ pc'[c] = "running" /\ op[c].kind = "suspend"
      <3>1. /\ role' = role /\ suspended' = suspended \cup {op[c].target}
        BY <2>1, <2>4 DEF Write, RoleAssigned, RoleUnassigned, RoleChanged, GroupMembership,
           MemberSuspension
      <3>2. ~transfer_ownership(op[c].target)'
        BY <2>4, <3>1 DEF transfer_ownership, Blocked
      <3>3. Safe(c)'
        BY <2>1, <2>4, <3>1 DEF SerialInv, OwnersInv, Safe, OtherOwners, lookupSubjects
      <3> QED
        BY <2>1, <2>4, <3>2, <3>3 DEF Serial, GovernInv, OwnersInv, KindInv
    <2> QED
      BY <1>0, <1>7, <2>1, <2>2, <2>3, <2>4 DEF Attempt, Finish, RoleInv, TypeOK
  <1>8. ASSUME NEW c \in Call, CallFails(c) PROVE Parts'
    <2>1. pc'[c] = "idle" /\ found'[c] = FALSE
      BY <1>0, <1>8 DEF CallFails, Finish, RoleInv, TypeOK
    <2> QED
      BY <2>1 DEF Serial, GovernInv, OwnersInv, KindInv
  <1>9. CASE UNCHANGED vars
    <2>1. UNCHANGED <<relations, op, pc, pending, found>>
      BY <1>9 DEF vars
    <2>2. ASSUME NEW u PROVE transfer_ownership(u)' <=> transfer_ownership(u)
      BY <2>1 DEF transfer_ownership, Holds, Blocked, relations
    <2>3. ASSUME NEW c \in Call
          PROVE  OtherOwners(c)' = OtherOwners(c) /\ (Safe(c)' <=> Safe(c))
      BY <2>1 DEF Safe, OtherOwners, lookupSubjects, relations
    <2>4. GovernInv'
      BY <2>1, <2>2 DEF SerialInv, GovernInv
    <2>5. OwnersInv'
      BY <2>1, <2>3 DEF SerialInv, OwnersInv
    <2>6. KindInv'
      BY <2>1 DEF SerialInv, KindInv
    <2> QED
      BY <1>0, <2>4, <2>5, <2>6 DEF SerialInv
  <1> QED
    BY <1>0, <1>1, <1>2, <1>3, <1>4, <1>5, <1>6, <1>7, <1>8, <1>9 DEF Next, CallStep, SerialInv

\* One request at a time, what the guards of a suspension found out is still
\* true when its workflow writes.
THEOREM SerialInvariance == Serial => (Spec => []SerialInv)
  <1> SUFFICES ASSUME Serial PROVE Spec => []SerialInv
    OBVIOUS
  <1>1. SerialInv /\ [Next]_vars => SerialInv'
    BY SerialStep
  <1> QED
    BY SerialInit, <1>1, PTL DEF Spec

\* The write that changes who is suspended.
LEMMA SuspendedChanges ==
    ASSUME SerialInv, [Next]_vars, suspended' # suspended
    PROVE  \E c \in Call :
              /\ pc[c] = "running" /\ role' = role
              /\ \/ op[c].kind = "suspend" /\ suspended' = suspended \cup {op[c].target}
                 \/ op[c].kind = "reinstate" /\ suspended' = suspended \ {op[c].target}
  <1>1. PICK c \in Call : pc[c] = "running" /\ Write(op[c])
    BY OnlyAttemptsWrite DEF SerialInv, relations
  <1>2. MemberSuspension(op[c])
    BY <1>1 DEF Write, RoleAssigned, RoleUnassigned, RoleChanged, GroupMembership
  <1> QED
    BY <1>1, <1>2 DEF MemberSuspension

\* As long as requests do not overlap, no suspension takes the last
\* unsuspended owner away.
THEOREM SuspensionKeeps == Serial => (Spec => SuspensionKeepsAnOwner)
  <1> SUFFICES ASSUME Serial PROVE Spec => SuspensionKeepsAnOwner
    OBVIOUS
  <1>1. SerialInv /\ [Next]_vars =>
          [suspended' # suspended /\ SomeOwnerUnsuspended => SomeOwnerUnsuspended']_vars
    <2> SUFFICES ASSUME SerialInv, [Next]_vars, suspended' # suspended, SomeOwnerUnsuspended
                 PROVE  SomeOwnerUnsuspended'
      OBVIOUS
    <2>1. PICK c \in Call :
              /\ pc[c] = "running" /\ role' = role
              /\ \/ op[c].kind = "suspend" /\ suspended' = suspended \cup {op[c].target}
                 \/ op[c].kind = "reinstate" /\ suspended' = suspended \ {op[c].target}
      BY SuspendedChanges
    <2>2. CASE op[c].kind = "suspend" /\ suspended' = suspended \cup {op[c].target}
      <3>1. PICK u \in OtherOwners(c) : u \notin suspended
        BY <2>1, <2>2 DEF SerialInv, OwnersInv, Safe
      <3> QED
        BY <2>1, <2>2, <3>1 DEF OtherOwners, lookupSubjects, SomeOwnerUnsuspended, Owner
    <2>3. CASE suspended' = suspended \ {op[c].target}
      BY <2>1, <2>3 DEF SomeOwnerUnsuspended, Owner
    <2> QED
      BY <2>1, <2>2, <2>3
  <1> QED
    BY <1>1, SerialInvariance, PTL DEF Spec, SuspensionKeepsAnOwner

\* As long as requests do not overlap, an owner is suspended only for an owner
\* or a platform admin who still is one when the suspension is written.
THEOREM OwnersSuspendOwners == Serial => (Spec => OwnerSuspendedByOwner)
  <1> SUFFICES ASSUME Serial PROVE Spec => OwnerSuspendedByOwner
    OBVIOUS
  <1> DEFINE ByOwner(u) ==
          \E c \in Call : /\ pc[c] = "running"
                          /\ op[c].kind = "suspend" /\ op[c].target = u
                          /\ transfer_ownership(op[c].actor) \/ op[c].actor \in PlatformAdmin
  <1>1. SerialInv /\ [Next]_vars =>
          [\A u \in suspended' \ suspended : Owner(u) /\ u \notin Denied => ByOwner(u)]_vars
    <2> SUFFICES ASSUME SerialInv, [Next]_vars, NEW u \in suspended' \ suspended,
                        Owner(u), u \notin Denied
                 PROVE  ByOwner(u)
      OBVIOUS
    <2>1. PICK c \in Call :
              /\ pc[c] = "running" /\ op[c].kind = "suspend"
              /\ suspended' = suspended \cup {op[c].target}
      BY SuspendedChanges
    <2>2. op[c].target = u
      BY <2>1
    <2>3. transfer_ownership(u)
      BY DEF transfer_ownership, Holds, Owner, Blocked
    <2>4. transfer_ownership(op[c].actor) \/ op[c].actor \in PlatformAdmin
      BY <2>1, <2>2, <2>3 DEF SerialInv, GovernInv
    <2> QED
      BY <2>1, <2>2, <2>4
  <1> QED
    BY <1>1, SerialInvariance, PTL DEF Spec, OwnerSuspendedByOwner

-----------------------------------------------------------------------------
(* The relations of the model in the whole schema.                         *)

\* The objects that occur are told apart by their type and id.
LEMMA ObjectFields ==
    /\ tenantT.type = "tenant" /\ platformT.type = "platform"
    /\ \A u \in User : subject(u).type = "user" /\ subject(u).id = u
    /\ \A s \in ServiceAccount : subject(s).type = "service_account" /\ subject(s).id = s
    /\ \A g : R({})!group(g).type = "group" /\ R({})!group(g).id = g
<1>1. \A s \in ServiceAccount : s \notin User
  BY MembersAssumption
<1> QED BY <1>1 DEF tenantT, platformT, subject, R!tenant, R!platform, R!user, R!service_account,
                    R!group, R!obj

LEMMA RelationshipFields ==
    \A x, r, y :
        /\ rel(x, r, y).resource = x /\ rel(x, r, y).relation = r /\ rel(x, r, y).subject = y
        /\ rel(x, r, y).via = "" /\ rel(x, r, y).caveat = ""
BY DEF rel, R!rel, R!relationship

LEMMA MembershipFields ==
    \A x, r, g :
        /\ R({})!membersOf(x, r, g).resource = x /\ R({})!membersOf(x, r, g).relation = r
        /\ R({})!membersOf(x, r, g).subject = R({})!group(g)
        /\ R({})!membersOf(x, r, g).via = "membership" /\ R({})!membersOf(x, r, g).caveat = ""
BY DEF R!membersOf, R!relationship

\* The constructors are the same over every store.
LEMMA AnyStore ==
    /\ R(Stored)!tenant("t") = tenantT /\ R(Stored)!platform = platformT
    /\ \A u \in User : R(Stored)!user(u) = subject(u)
    /\ \A g : R(Stored)!group(g) = R({})!group(g)
    /\ \A x, r, y : R(Stored)!rel(x, r, y) = rel(x, r, y)
    /\ \A x, r, g : R(Stored)!membersOf(x, r, g) = R({})!membersOf(x, r, g)
BY DEF tenantT, platformT, subject, rel, R!tenant, R!platform, R!user, R!group, R!obj, R!rel,
       R!membersOf, R!relationship

Typed ==
    /\ role \subseteq (Principal \cup Group) \X Role
    /\ members \subseteq Group \X User
    /\ suspended \subseteq User

\* Each relationship of the store is of one of the relations of the model.
Between(y, x, r, p) == y.resource = x /\ y.relation = r /\ y.subject = subject(p) /\ y.via = ""

LEMMA StoredIs ==
    ASSUME Typed, NEW y \in Stored
    PROVE  /\ y.caveat = ""
           /\ \/ /\ y.resource = tenantT /\ y.relation = "platform"
                 /\ y.subject = platformT /\ y.via = ""
              \/ \E u \in PlatformAdmin : Between(y, platformT, "super_admin", u)
              \/ \E u \in Denied : Between(y, tenantT, "denied", u)
              \/ \E u \in suspended : Between(y, tenantT, "suspended", u)
              \/ \E p \in Principal, r \in Role : <<p, r>> \in role /\ Between(y, tenantT, r, p)
              \/ \E g \in Group, r \in Role :
                    /\ <<g, r>> \in role /\ y.resource = tenantT /\ y.relation = r
                    /\ y.subject = R({})!group(g) /\ y.via = "membership"
              \/ \E g \in Group, u \in User :
                    <<g, u>> \in members /\ Between(y, R({})!group(g), "member", u)
<1>1. CASE y = rel(tenantT, "platform", platformT)
  BY <1>1 DEF Between, rel, R!rel, R!relationship
<1>2. ASSUME NEW u \in PlatformAdmin, y = rel(platformT, "super_admin", subject(u))
      PROVE  y.caveat = "" /\ Between(y, platformT, "super_admin", u)
  BY <1>2 DEF Between, rel, R!rel, R!relationship
<1>3. ASSUME NEW u \in Denied, y = rel(tenantT, "denied", subject(u))
      PROVE  y.caveat = "" /\ Between(y, tenantT, "denied", u)
  BY <1>3 DEF Between, rel, R!rel, R!relationship
<1>4. ASSUME NEW u \in suspended, y = rel(tenantT, "suspended", subject(u))
      PROVE  y.caveat = "" /\ Between(y, tenantT, "suspended", u)
  BY <1>4 DEF Between, rel, R!rel, R!relationship
<1>5. ASSUME NEW x \in role, x[1] \in Principal, y = rel(tenantT, x[2], subject(x[1]))
      PROVE  /\ y.caveat = ""
             /\ \E p \in Principal, r \in Role : <<p, r>> \in role /\ Between(y, tenantT, r, p)
  <2>1. x = <<x[1], x[2]>> /\ x[2] \in Role
    BY DEF Typed
  <2> QED BY <1>5, <2>1 DEF Between, rel, R!rel, R!relationship
<1>6. ASSUME NEW x \in role, x[1] \in Group, y = R({})!membersOf(tenantT, x[2], x[1])
      PROVE  /\ y.caveat = ""
             /\ \E g \in Group, r \in Role :
                    /\ <<g, r>> \in role /\ y.resource = tenantT /\ y.relation = r
                    /\ y.subject = R({})!group(g) /\ y.via = "membership"
  <2>1. x = <<x[1], x[2]>> /\ x[2] \in Role
    BY DEF Typed
  <2> QED BY <1>6, <2>1 DEF R!membersOf, R!relationship, R!group
<1>7. ASSUME NEW x \in members, y = rel(R({})!group(x[1]), "member", subject(x[2]))
      PROVE  /\ y.caveat = ""
             /\ \E g \in Group, u \in User :
                    <<g, u>> \in members /\ Between(y, R({})!group(g), "member", u)
  <2>1. x = <<x[1], x[2]>> /\ x[1] \in Group /\ x[2] \in User
    BY DEF Typed
  <2> QED BY <1>7, <2>1 DEF Between, rel, R!rel, R!relationship
<1> QED BY <1>1, <1>2, <1>3, <1>4, <1>5, <1>6, <1>7 DEF Stored


\* The relations of the model are told apart by their names.
LEMMA Apart ==
    /\ \A r \in Role : r \notin {"platform", "super_admin", "denied", "suspended"}
    /\ \A g \in Group : tenantT # R({})!group(g) /\ platformT # R({})!group(g)
    /\ tenantT # platformT
    /\ \A p \in Principal, g \in Group : subject(p) # R({})!group(g) /\ subject(p) # platformT
    /\ \A p, q \in Principal : subject(p) = subject(q) => p = q
    /\ \A g, h \in Group : R({})!group(g) = R({})!group(h) => g = h
    /\ PlatformAdmin \subseteq Principal /\ Denied \subseteq Principal /\ User \subseteq Principal
BY ObjectFields, MembersAssumption DEF Role, Principal

LEMMA RelIsBetween == \A x, r, p : Between(rel(x, r, subject(p)), x, r, p)
BY DEF Between, rel, R!rel, R!relationship

\* What the store says of a user.
LEMMA StoredOfUser ==
    ASSUME Typed, NEW u \in User
    PROVE  /\ \A r \in Role : rel(tenantT, r, subject(u)) \in Stored <=> <<u, r>> \in role
           /\ rel(tenantT, "suspended", subject(u)) \in Stored <=> u \in suspended
           /\ rel(tenantT, "denied", subject(u)) \in Stored <=> u \in Denied
           /\ rel(platformT, "super_admin", subject(u)) \in Stored <=> u \in PlatformAdmin
           /\ \A g \in Group : rel(R({})!group(g), "member", subject(u)) \in Stored
                                   <=> <<g, u>> \in members
<1>0. u \in Principal /\ suspended \subseteq Principal
  BY Apart DEF Typed
<1>1. ASSUME NEW r \in Role PROVE rel(tenantT, r, subject(u)) \in Stored <=> <<u, r>> \in role
  <2>1. <<u, r>> \in role => rel(tenantT, r, subject(u)) \in Stored
    BY <1>0 DEF Stored
  <2>2. ASSUME NEW y \in Stored, Between(y, tenantT, r, u) PROVE <<u, r>> \in role
    BY <2>2, <1>0, StoredIs, Apart DEF Between
  <2> QED BY <2>1, <2>2, RelIsBetween
<1>2. rel(tenantT, "suspended", subject(u)) \in Stored <=> u \in suspended
  <2>1. u \in suspended => rel(tenantT, "suspended", subject(u)) \in Stored
    BY DEF Stored
  <2>2. ASSUME NEW y \in Stored, Between(y, tenantT, "suspended", u) PROVE u \in suspended
    BY <2>2, <1>0, StoredIs, Apart DEF Between
  <2> QED BY <2>1, <2>2, RelIsBetween
<1>3. rel(tenantT, "denied", subject(u)) \in Stored <=> u \in Denied
  <2>1. u \in Denied => rel(tenantT, "denied", subject(u)) \in Stored
    BY DEF Stored
  <2>2. ASSUME NEW y \in Stored, Between(y, tenantT, "denied", u) PROVE u \in Denied
    BY <2>2, <1>0, StoredIs, Apart DEF Between
  <2> QED BY <2>1, <2>2, RelIsBetween
<1>4. rel(platformT, "super_admin", subject(u)) \in Stored <=> u \in PlatformAdmin
  <2>1. u \in PlatformAdmin => rel(platformT, "super_admin", subject(u)) \in Stored
    BY DEF Stored
  <2>2. ASSUME NEW y \in Stored, Between(y, platformT, "super_admin", u) PROVE u \in PlatformAdmin
    BY <2>2, <1>0, StoredIs, Apart DEF Between
  <2> QED BY <2>1, <2>2, RelIsBetween
<1>5. ASSUME NEW g \in Group
      PROVE  rel(R({})!group(g), "member", subject(u)) \in Stored <=> <<g, u>> \in members
  <2>1. <<g, u>> \in members => rel(R({})!group(g), "member", subject(u)) \in Stored
    BY DEF Stored
  <2>2. ASSUME NEW y \in Stored, Between(y, R({})!group(g), "member", u) PROVE <<g, u>> \in members
    BY <2>2, <1>0, StoredIs, Apart DEF Between
  <2> QED BY <2>1, <2>2, RelIsBetween
<1> QED BY <1>1, <1>2, <1>3, <1>4, <1>5

\* What it says of the members of groups; no group is nested in another.
LEMMA StoredOfGroup ==
    ASSUME Typed, NEW g \in Group
    PROVE  /\ \A r \in Role : R({})!membersOf(tenantT, r, g) \in Stored <=> <<g, r>> \in role
           /\ \A h \in Group : R({})!membersOf(R({})!group(h), "member", g) \notin Stored
<1>1. ASSUME NEW r \in Role, <<g, r>> \in role PROVE R({})!membersOf(tenantT, r, g) \in Stored
  BY <1>1 DEF Stored
<1>2. ASSUME NEW r \in Role, NEW y \in Stored, y.resource = tenantT, y.relation = r,
             y.subject = R({})!group(g), y.via = "membership"
      PROVE  <<g, r>> \in role
  BY <1>2, StoredIs, Apart DEF Between
<1>3. ASSUME NEW h \in Group, NEW y \in Stored, y.resource = R({})!group(h), y.via = "membership"
      PROVE  FALSE
  BY <1>3, StoredIs, Apart DEF Between
<1>4. ASSUME NEW x, NEW r
      PROVE  /\ R({})!membersOf(x, r, g).resource = x /\ R({})!membersOf(x, r, g).relation = r
             /\ R({})!membersOf(x, r, g).subject = R({})!group(g)
             /\ R({})!membersOf(x, r, g).via = "membership"
  BY DEF R!membersOf, R!relationship
<1>5. ASSUME NEW r \in Role, R({})!membersOf(tenantT, r, g) \in Stored PROVE <<g, r>> \in role
  BY <1>2, <1>4, <1>5
<1>6. ASSUME NEW h \in Group, R({})!membersOf(R({})!group(h), "member", g) \in Stored PROVE FALSE
  BY <1>3, <1>4, <1>6
<1> QED BY <1>1, <1>5, <1>6

\* Who holds a role, in the small schema and in the whole.
LEMMA HoldingsAgree ==
    ASSUME Typed, NEW u \in User, NEW r \in Role
    PROVE  R(Stored)!Holds(subject(u), r, "t", {}) <=> Holds(u, r)
<1>1. \A g \in Group : R(Stored)!MemberOf(subject(u), g) <=> <<g, u>> \in members
  <2>1. \A h, g \in Group : ~R(Stored)!Nests(h, g)
    BY StoredOfGroup, AnyStore DEF R!Nests
  <2>2. \A h \in Group : R(Stored)!rel(R(Stored)!group(h), "member", subject(u)) \in Stored
                            <=> <<h, u>> \in members
    BY StoredOfUser, AnyStore
  <2>3. ASSUME NEW g \in Group, <<g, u>> \in members PROVE R(Stored)!MemberOf(subject(u), g)
    BY <2>2, <2>3, Zenon DEF R!MemberOf
  <2>4. ASSUME NEW g \in Group, R(Stored)!MemberOf(subject(u), g) PROVE <<g, u>> \in members
    <3> DEFINE closed == {h \in Group : <<h, u>> \in members}
    <3>1. \A h \in Group :
             \/ R(Stored)!rel(R(Stored)!group(h), "member", subject(u)) \in Stored
             \/ \E child \in closed : R(Stored)!Nests(h, child)
             => h \in closed
      BY <2>1, <2>2, Zenon
    <3>2. closed \in SUBSET Group
      OBVIOUS
    <3>3. g \in closed
      BY <2>4, <3>1, <3>2, Zenon DEF R!MemberOf
    <3> QED BY <3>3
  <2> QED BY <2>3, <2>4
<1>2. R(Stored)!rel(R(Stored)!tenant("t"), r, subject(u)) \in Stored <=> <<u, r>> \in role
  <2>1. R(Stored)!rel(R(Stored)!tenant("t"), r, subject(u)) = rel(tenantT, r, subject(u))
    BY AnyStore, Zenon
  <2>2. rel(tenantT, r, subject(u)) \in Stored <=> <<u, r>> \in role
    BY StoredOfUser
  <2> QED BY <2>1, <2>2, Zenon
<1>3. \A g \in Group : R(Stored)!membersOf(R(Stored)!tenant("t"), r, g) \in Stored
                          <=> <<g, r>> \in role
  BY StoredOfGroup, AnyStore
<1> QED BY <1>1, <1>2, <1>3, Zenon DEF R!Holds, Holds

LEMMA BlocksAgree ==
    ASSUME Typed, NEW u \in User PROVE R(Stored)!Blocked(subject(u), "t") <=> Blocked(u)
<1>1. \A r : R(Stored)!rel(R(Stored)!tenant("t"), r, subject(u)) = rel(tenantT, r, subject(u))
  BY AnyStore, Zenon
<1> QED BY <1>1, StoredOfUser DEF R!Blocked, Blocked

LEMMA AdminsAgree ==
    ASSUME Typed, NEW u \in User
    PROVE  R(Stored)!Administered(R(Stored)!tenant("t"), subject(u)) <=> u \in PlatformAdmin
<1>1. R(Stored)!rel(R(Stored)!tenant("t"), "platform", R(Stored)!platform) \in Stored
  <2>1. rel(tenantT, "platform", platformT) \in Stored
    BY DEF Stored
  <2> QED BY <2>1, AnyStore, Zenon
<1>2. R(Stored)!rel(R(Stored)!platform, "super_admin", subject(u)) \in Stored <=> u \in PlatformAdmin
  <2>1. R(Stored)!rel(R(Stored)!platform, "super_admin", subject(u))
            = rel(platformT, "super_admin", subject(u))
    BY AnyStore, Zenon
  <2>2. rel(platformT, "super_admin", subject(u)) \in Stored <=> u \in PlatformAdmin
    BY StoredOfUser
  <2> QED BY <2>1, <2>2, Zenon
<1> QED BY <1>1, <1>2, Zenon DEF R!Administered, R!isPlatformAdmin

\* The whole schema, caveats and nested groups included, gives the answers of
\* the model's gate.
LEMMA GatesAgree ==
    ASSUME Typed, NEW u \in User
    PROVE  /\ manage_members(u) <=>
                R(Stored)!tenantProcedure(Caller(u), "manage_members", FALSE) = "ok"
           /\ transfer_ownership(u) <=> R(Stored)!canOnTenant(u, "transfer_ownership", "t", {})
<1>1. R(Stored)!user(u) = subject(u)
  BY AnyStore
<1>2. /\ R(Stored)!Carries["manage_members"] = {"owner", "admin"}
      /\ R(Stored)!Carries["transfer_ownership"] = {"owner"}
  BY DEF R!Carries, R!TenantPermission
<1>3. "owner" \in Role /\ "admin" \in Role
  BY DEF Role
<1>4. R(Stored)!canOnTenant(u, "manage_members", "t", {}) <=> manage_members(u)
  BY <1>1, <1>2, <1>3, HoldingsAgree, BlocksAgree, AdminsAgree
     DEF R!canOnTenant, R!TenantCheck, R!HoldsOneOf, manage_members
<1>5. R(Stored)!canOnTenant(u, "transfer_ownership", "t", {}) <=> transfer_ownership(u)
  BY <1>1, <1>2, <1>3, HoldingsAgree, BlocksAgree, AdminsAgree
     DEF R!canOnTenant, R!TenantCheck, R!HoldsOneOf, transfer_ownership
<1>6. /\ Caller(u).token = "verified" /\ Caller(u).user.userId = u
      /\ Caller(u).user.tenantId = "t"
  BY DEF Caller
<1>7. R(Stored)!tenantProcedure(Caller(u), "manage_members", FALSE) = "ok"
         <=> R(Stored)!canOnTenant(u, "manage_members", "t", {})
  BY <1>6 DEF R!tenantProcedure, R!authMiddleware
<1> QED BY <1>4, <1>5, <1>7

\* What only users own can be written.
LEMMA SchemaAllows == ASSUME Typed, OnlyUsersOwn PROVE R(Stored)!SchemaHolds
<1> SUFFICES ASSUME NEW y \in Stored PROVE R(Stored)!Allowed(y)
  BY DEF R!SchemaHolds
<1>1. y.caveat = ""
  BY StoredIs
<1>2. CASE y.resource = tenantT /\ y.relation = "platform" /\ y.subject = platformT /\ y.via = ""
  <2>1. y.resource.type = "tenant" /\ y.subject.type = "platform"
    BY <1>2, ObjectFields
  <2> QED BY <1>1, <1>2, <2>1 DEF R!Allowed, R!ServiceAccountRole, R!TenantRole
<1>3. ASSUME NEW u \in PlatformAdmin, Between(y, platformT, "super_admin", u)
      PROVE  R(Stored)!Allowed(y)
  <2>1. u \in User
    BY MembersAssumption
  <2>2. /\ y.resource.type = "platform" /\ y.relation = "super_admin"
        /\ y.subject.type = "user" /\ y.via = ""
    BY <1>3, <2>1, ObjectFields DEF Between
  <2> QED BY <1>1, <2>2 DEF R!Allowed, R!ServiceAccountRole, R!TenantRole
<1>4. ASSUME NEW u \in Denied \cup suspended, NEW r \in {"denied", "suspended"},
             Between(y, tenantT, r, u)
      PROVE  R(Stored)!Allowed(y)
  <2>1. u \in User
    BY MembersAssumption DEF Typed
  <2>2. /\ y.resource.type = "tenant" /\ y.relation \in {"denied", "suspended"}
        /\ y.subject.type = "user" /\ y.via = ""
    BY <1>4, <2>1, ObjectFields DEF Between
  <2> QED BY <1>1, <2>2 DEF R!Allowed, R!ServiceAccountRole, R!TenantRole
<1>5. ASSUME NEW p \in Principal, NEW r \in Role, <<p, r>> \in role, Between(y, tenantT, r, p)
      PROVE  R(Stored)!Allowed(y)
  <2>1. y.resource.type = "tenant" /\ y.relation \in Role /\ y.via = ""
    BY <1>5, ObjectFields DEF Between
  <2>2. CASE p \in User
    <3>1. y.subject.type = "user"
      BY <1>5, <2>2, ObjectFields DEF Between
    <3> QED BY <1>1, <2>1, <3>1 DEF Role, R!Allowed, R!ServiceAccountRole, R!TenantRole
  <2>3. CASE p \notin User
    <3>1. y.subject.type = "service_account"
      BY <1>5, <2>3, ObjectFields DEF Between, Principal
    <3>2. <<p, r>>[2] = "owner" => <<p, r>>[1] \in User
      BY <1>5 DEF OnlyUsersOwn
    <3>3. y.relation # "owner"
      BY <1>5, <2>3, <3>2 DEF Between
    <3> QED BY <1>1, <2>1, <3>1, <3>3 DEF Role, R!Allowed, R!ServiceAccountRole, R!TenantRole
  <2> QED BY <2>2, <2>3
<1>6. ASSUME NEW g \in Group, NEW r \in Role, <<g, r>> \in role, y.resource = tenantT,
             y.relation = r, y.subject = R({})!group(g), y.via = "membership"
      PROVE  R(Stored)!Allowed(y)
  <2>1. y.resource.type = "tenant" /\ y.relation \in Role /\ y.subject.type = "group"
    BY <1>6, ObjectFields
  <2>2. <<g, r>>[2] = "owner" => <<g, r>>[1] \in User
    BY <1>6 DEF OnlyUsersOwn
  <2>3. y.relation # "owner"
    BY <1>6, <2>2, MembersAssumption DEF Principal
  <2> QED BY <1>1, <1>6, <2>1, <2>3 DEF Role, R!Allowed, R!ServiceAccountRole, R!TenantRole
<1>7. ASSUME NEW g \in Group, NEW u \in User, Between(y, R({})!group(g), "member", u)
      PROVE  R(Stored)!Allowed(y)
  <2>1. /\ y.resource = R({})!group(g) /\ y.relation = "member"
        /\ y.subject = subject(u) /\ y.via = ""
    BY <1>7 DEF Between
  <2>2. y.resource.type = "group" /\ y.subject.type = "user"
    BY <2>1, ObjectFields
  <2> QED BY <1>1, <2>1, <2>2 DEF R!Allowed, R!ServiceAccountRole, R!TenantRole
<1> QED BY <1>2, <1>3, <1>4, <1>5, <1>6, <1>7, StoredIs

\* schema.zed: whichever mutations overlap, and whatever they have written so
\* far, the schema allows the store, and the gate and the guards see the
\* permissions that SpiceDB computes from the whole schema.
THEOREM TheViewsAgree == Spec => [](ViewsAgree /\ SchemasAgree)
<1>1. RoleInv => Typed /\ OnlyUsersOwn
  BY DEF RoleInv, TypeOK, Typed
<1>2. RoleInv => ViewsAgree
  BY <1>1, GatesAgree, SchemaAllows DEF ViewsAgree
<1>3. ViewsAgree => SchemasAgree
  BY DEF SchemasAgree
<1> QED BY <1>2, <1>3, RoleInvariance, PTL
=============================================================================
