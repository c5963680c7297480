-------------------------- MODULE MCTenantMembers --------------------------
(* Small instances of TenantMembers and TenantRelations for TLC.           *)
EXTENDS TenantRelations, TLC
CONSTANTS o1, o2, a1, p1, s1, g1
\* Two owners and an admin.
TwoOwners == {<<o1, "owner">>, <<o2, "owner">>, <<a1, "admin">>}
\* The same, and a group that holds admin, and a service account.
MixedRoles == TwoOwners \cup {<<g1, "admin">>, <<s1, "member">>}
OneMember == {<<g1, a1>>}
NoMembers == {}

=============================================================================
