----------------------------- MODULE MCReconcile -----------------------------
(* Instances of Reconcile for TLC. *)
EXTENDS Reconcile, TLC

CONSTANTS r1, r2, anyUser, alice, upperAlice, noGroup, admins, c1, c2

MCRelations == {r1, r2}
MCOneRelation == {r1}
MCUsers == {anyUser, alice}
MCOneUser == {anyUser}
MCSlug == [u \in MCUsers |-> u]
\* Two requested users of which the username keeps the same.
MCThreeUsers == {anyUser, alice, upperAlice}
MCThreeSlug == [u \in MCThreeUsers |-> IF u = upperAlice THEN alice ELSE u]
MCOneSlug == [u \in MCOneUser |-> u]
MCGroups == {noGroup, admins}
MCOneGroup == {noGroup}
MCAuthentikGroups == {admins}
MCNoGroups == {}
MCConfigs == {c1, c2}
MCOneConfig == {c1}
MCProviderPks == {1, 2}
MCOneProviderPk == {1}
MCPasswords == 1..6
RelationSymmetry == Permutations(MCRelations)
Symmetric == Permutations(MCRelations) \union Permutations(MCConfigs)
ConfigSymmetry == Permutations(MCConfigs)

=============================================================================
