--------------------------- MODULE ReconcileProofs ---------------------------
(***************************************************************************)
(* Type correctness of Reconcile.                                          *)
(*                                                                         *)
(* The types alone are not inductive: a step of _update_ldap_relation      *)
(* reads locals that an earlier one set, so LocalsInUse is part of TypeOK  *)
(* and every action shows that the step it goes on to finds its locals.    *)
(***************************************************************************)
EXTENDS Reconcile, TLAPS

RunTypeOK == CommittedTypeOK /\ HookTypeOK
StoreTypeOK == DatabaseTypeOK /\ InputsTypeOK /\ RunTypeOK /\ faults \in 0..MaxFaults

\* A step that goes on leaves a well-typed hook, given a well-typed databag and locals.
LEMMA GoType ==
  ASSUME TypeOK, NEW label \in Steps, NEW v \in PeerData, NEW l \in Locals, Go(label, v, l)
  PROVE  RunTypeOK'
  BY DEF TypeOK, RunTypeOK, CommittedTypeOK, HookTypeOK, Go, committed

\* The empty locals are locals.
LEMMA NoLocalsType == NoLocals \in Locals
  BY DEF NoLocals, Locals, Maybe

\* A hook that ends leaves nothing of itself behind.
LEMMA EndHookType ==
  ASSUME TypeOK, EndHook
  PROVE  /\ pc' \in Steps
         /\ out' \in [Relations -> Maybe(Output)]
         /\ todo' \subseteq Relations
         /\ cur' \in Maybe(Relations)
         /\ local' \in Locals
         /\ fresh' \in BOOLEAN
  BY NoLocalsType DEF EndHook, Steps, NoOutput, Maybe

\* What a hook that ends normally commits has its type.
LEMMA CommitType ==
  ASSUME TypeOK, Commit
  PROVE  RunTypeOK'
<1> USE DEF TypeOK, CommittedTypeOK, HookTypeOK, Commit
<1>1. secret' \in [Relations -> Maybe(Passwords)]
  BY DEF Output, Maybe
<1>2. published' \in [Relations -> Maybe(BindData)]
  BY DEF Output, BindData, Maybe
<1>3. QED
  BY <1>1, <1>2, EndHookType DEF RunTypeOK

\* Turning to the consumers leaves a well-typed hook.
LEMMA BeginServingType ==
  ASSUME TypeOK, BeginServing
  PROVE  RunTypeOK'
  BY NoLocalsType DEF TypeOK, RunTypeOK, CommittedTypeOK, HookTypeOK, BeginServing, committed,
         Active, Steps

\* So does a CharmError, wherever it is caught.
LEMMA RaiseType ==
  ASSUME TypeOK, Raise
  PROVE  RunTypeOK'
  BY CommitType, BeginServingType DEF Raise

\* A databag that forgets its tracked accounts is a databag.
LEMMA NoClientsType == ASSUME NEW v \in PeerData PROVE [v EXCEPT !.client = NoClients] \in PeerData
  BY DEF PeerData, NoClients, Maybe

\* HTTP 404 leaves a well-typed hook, whether it is caught or not.
LEMMA NotFoundType ==
  ASSUME TypeOK, NotFound
  PROVE  RunTypeOK'
<1>1. CASE Reprovision
  BY <1>1, NoLocalsType, NoClientsType
  DEF TypeOK, RunTypeOK, CommittedTypeOK, HookTypeOK, Reprovision, committed, Steps,
      RequestSteps, FreshSteps
<1>2. QED
  BY <1>1, RaiseType DEF NotFound

\* A request that was carried out leaves a well-typed hook, answered or not.
LEMMA AnswerType ==
  ASSUME TypeOK, NEW label \in Steps, NEW v \in PeerData, NEW l \in Locals,
         Answer(Go(label, v, l))
  PROVE  RunTypeOK' /\ faults' \in 0..MaxFaults
<1>1. CASE Go(label, v, l) /\ UNCHANGED faults
  BY <1>1, GoType DEF TypeOK
<1>2. CASE faults < MaxFaults /\ faults' = faults + 1 /\ Raise
  BY <1>2, RaiseType, BoundAssumption DEF TypeOK
<1>3. QED
  BY <1>1, <1>2 DEF Answer

-----------------------------------------------------------------------------
\* Every label an action goes on to is a step.
LEMMA LabelsType ==
  /\ {"provider", "application", "outpost", "token"} \subseteq Steps
  /\ {"check", "update", "role", "grant", "enroll", "cleanup", "serve"} \subseteq Steps
  /\ {"create", "password", "ownRole", "ownGrant", "member"} \subseteq Steps
  /\ {"rotate", "rename", "leaveGroup", "joinGroup", "publish", "idle"} \subseteq Steps
  BY DEF Steps, RequestSteps, EnsureSteps, FreshSteps, AccountSteps

\* The updates the actions make to the locals.
LEMMA LocalsUpdateType ==
  ASSUME NEW l \in Locals
  PROVE  /\ \A p \in Maybe(ProviderPks) : [l EXCEPT !.provider = p] \in Locals
         /\ \A u \in Maybe(Nat) : [l EXCEPT !.outpost = u] \in Locals
         /\ \A u \in Maybe(Nat) : [l EXCEPT !.role = u] \in Locals
         /\ \A u \in Maybe(Nat), S \in SUBSET Pks :
              [l EXCEPT !.role = u, !.applied = S] \in Locals
         /\ \A S \in SUBSET Pks : [l EXCEPT !.applied = S] \in Locals
         /\ \A k \in Pks, n \in Names : [l EXCEPT !.pk = k, !.name = n] \in Locals
         /\ \A n \in Names : [l EXCEPT !.name = n] \in Locals
         /\ \A p \in Passwords : [l EXCEPT !.password = p] \in Locals
  BY DEF Locals, Maybe

\* The updates the actions make to the databag.
LEMMA PeerUpdateType ==
  ASSUME NEW v \in PeerData
  PROVE  /\ \A c \in Configs : [v EXCEPT !.config = c] \in PeerData
         /\ \A p \in Maybe(ProviderPks), u \in Maybe(Nat), c \in Configs :
              [v EXCEPT !.provider = p, !.outpost = u, !.config = c] \in PeerData
         /\ \A u \in Maybe(Nat) : [v EXCEPT !.role = u] \in PeerData
         /\ \A u \in Maybe(Nat) : [v EXCEPT !.verified = v.provider, !.role = u] \in PeerData
         /\ \A u \in Maybe(Nat), S \in SUBSET Pks :
              [v EXCEPT !.cache = [role |-> u, members |-> S]] \in PeerData
         /\ \A r \in Relations, c \in Maybe(Client) :
              [v EXCEPT !.client[r] = c] \in PeerData
  BY DEF PeerData, Maybe

\* The updates the actions make to one account.
LEMMA AccountFieldType ==
  ASSUME NEW a \in Account
  PROVE  /\ [a EXCEPT !.member = TRUE] \in Account
         /\ [a EXCEPT !.member = FALSE] \in Account
         /\ \A p \in Passwords : [a EXCEPT !.password = p] \in Account
         /\ \A n \in Names : [a EXCEPT !.name = n] \in Account
         /\ \A S \in SUBSET AuthentikGroups : [a EXCEPT !.groups = S] \in Account
  BY DEF Account, Maybe

\* The same updates, made in the table of accounts.
LEMMA AccountUpdateType ==
  ASSUME NEW f \in [Pks -> Maybe(Account)], NEW k \in Pks, f[k] # Nil
  PROVE  /\ [f EXCEPT ![k].member = TRUE] \in [Pks -> Maybe(Account)]
         /\ \A p \in Passwords : [f EXCEPT ![k].password = p] \in [Pks -> Maybe(Account)]
         /\ \A n \in Names : [f EXCEPT ![k].name = n] \in [Pks -> Maybe(Account)]
         /\ \A S \in SUBSET AuthentikGroups : [f EXCEPT ![k].groups = S] \in [Pks -> Maybe(Account)]
<1>1. f[k] \in Account
  BY DEF Maybe
<1>2. \A a \in Account : [f EXCEPT ![k] = a] \in [Pks -> Maybe(Account)]
  BY DEF Maybe
<1>3. [f EXCEPT ![k].member = TRUE] \in [Pks -> Maybe(Account)]
  <2>1. [f[k] EXCEPT !.member = TRUE] \in Account
    BY <1>1, AccountFieldType
  <2>2. QED
    BY <2>1, <1>2
<1>4. QED
  BY <1>1, <1>2, <1>3, AccountFieldType

\* The membership cache holds primary keys.
LEMMA CachedMembersType ==
  ASSUME NEW v \in PeerData, NEW uuid
  PROVE  CachedMembers(v, uuid) \subseteq Pks
  BY DEF PeerData, CachedMembers

\* No request of the provisioning writes a value of a wrong type anywhere.
LEMMA ProvisionType == TypeOK /\ Provision => StoreTypeOK'
<1> SUFFICES ASSUME TypeOK, Provision PROVE StoreTypeOK'
  OBVIOUS
<1> USE DEF TypeOK, StoreTypeOK
<1>1. CASE CheckOutpost
  <2>1. RunTypeOK'
    <3>1. CASE outpost = view.outpost
      BY <1>1, <3>1, GoType, LabelsType DEF CheckOutpost, HookTypeOK
    <3>2. CASE outpost # view.outpost
      BY <1>1, <3>2, NotFoundType DEF CheckOutpost
    <3>3. QED
      BY <3>1, <3>2
  <2>2. QED
    BY <1>1, <2>1 DEF CheckOutpost, RunTypeOK, authentik, inputs, DatabaseTypeOK, InputsTypeOK
<1>2. CASE UpdateProvider
  <2>1. CASE provider # Nil /\ provider.pk = view.provider
    <3>1. DatabaseTypeOK'
      BY <1>2, <2>1 DEF UpdateProvider, DatabaseTypeOK, InputsTypeOK, Provider, Maybe
    <3>2. RunTypeOK' /\ faults' \in 0..MaxFaults
      BY <1>2, <2>1, AnswerType, LabelsType, PeerUpdateType
      DEF UpdateProvider, HookTypeOK, InputsTypeOK
    <3>3. QED
      BY <1>2, <3>1, <3>2 DEF UpdateProvider, RunTypeOK, inputs, InputsTypeOK
  <2>2. CASE ~(provider # Nil /\ provider.pk = view.provider)
    <3>1. RunTypeOK'
      BY <1>2, <2>2, NotFoundType DEF UpdateProvider
    <3>2. QED
      BY <1>2, <2>2, <3>1
      DEF UpdateProvider, RunTypeOK, inputs, InputsTypeOK, DatabaseTypeOK
  <2>3. QED
    BY <2>1, <2>2
<1>3. CASE EnsureProvider
  <2>1. provider' \in Provider
    BY <1>3 DEF EnsureProvider, DatabaseTypeOK, InputsTypeOK, Provider, Maybe
  <2>2. [local EXCEPT !.provider = provider'.pk] \in Locals
    BY <2>1, LocalsUpdateType DEF HookTypeOK, Provider, Maybe
  <2>3. RunTypeOK' /\ faults' \in 0..MaxFaults
    BY <1>3, <2>2, AnswerType, LabelsType DEF EnsureProvider, HookTypeOK
  <2>4. QED
    BY <1>3, <2>1, <2>3
    DEF EnsureProvider, RunTypeOK, inputs, InputsTypeOK, DatabaseTypeOK, Maybe
<1>4. CASE EnsureApplication
  <2>1. RunTypeOK' /\ faults' \in 0..MaxFaults
    BY <1>4, AnswerType, RaiseType, LabelsType DEF EnsureApplication, HookTypeOK
  <2>2. QED
    BY <1>4, <2>1 DEF EnsureApplication, RunTypeOK, inputs, InputsTypeOK, DatabaseTypeOK
<1>5. CASE EnsureOutpost
  <2>1. outpost' \in Maybe(Nat)
    BY <1>5 DEF EnsureOutpost, DatabaseTypeOK, Maybe
  <2>2. [local EXCEPT !.outpost = outpost'] \in Locals
    BY <2>1, LocalsUpdateType DEF HookTypeOK
  <2>3. RunTypeOK' /\ faults' \in 0..MaxFaults
    BY <1>5, <2>2, AnswerType, RaiseType, LabelsType DEF EnsureOutpost, HookTypeOK
  <2>4. QED
    BY <1>5, <2>1, <2>3 DEF EnsureOutpost, RunTypeOK, inputs, InputsTypeOK, DatabaseTypeOK
<1>6. CASE ReadToken
  <2>1. [view EXCEPT !.provider = local.provider, !.outpost = local.outpost, !.config = config]
          \in PeerData
    BY PeerUpdateType DEF HookTypeOK, InputsTypeOK, Locals
  <2>2. RunTypeOK'
    BY <1>6, <2>1, GoType, NotFoundType, LabelsType DEF ReadToken, HookTypeOK
  <2>3. QED
    BY <1>6, <2>2 DEF ReadToken, RunTypeOK, authentik, inputs, InputsTypeOK, DatabaseTypeOK
<1>7. CASE EnsureRole
  <2>1. role' \in Maybe(Nat)
    BY <1>7 DEF EnsureRole, RoleIsThere, DatabaseTypeOK, Maybe
  <2>2. CachedMembers(view, role') \in SUBSET Pks
    BY CachedMembersType DEF HookTypeOK
  <2>3. [local EXCEPT !.role = role', !.applied = CachedMembers(view, role')] \in Locals
    BY <2>1, <2>2, LocalsUpdateType DEF HookTypeOK
  <2>4. [view EXCEPT !.role = role'] \in PeerData
    BY <2>1, PeerUpdateType DEF HookTypeOK
  <2>5. RunTypeOK' /\ faults' \in 0..MaxFaults
    BY <1>7, <2>3, <2>4, AnswerType, LabelsType DEF EnsureRole, HookTypeOK
  <2>6. QED
    BY <1>7, <2>1, <2>5 DEF EnsureRole, RunTypeOK, inputs, InputsTypeOK, DatabaseTypeOK
<1>8. CASE GrantSearch
  <2>1. Verified(view, local.role) \in PeerData
    BY PeerUpdateType DEF HookTypeOK, Locals, Verified
  <2>2. RunTypeOK' /\ faults' \in 0..MaxFaults
    BY <1>8, <2>1, AnswerType, NotFoundType, LabelsType DEF GrantSearch, HookTypeOK
  <2>3. QED
    BY <1>8, <2>2 DEF GrantSearch, RunTypeOK, inputs, InputsTypeOK, DatabaseTypeOK
<1>9. CASE Enrolled
  <2>1. [view EXCEPT !.cache = [role |-> local.role, members |-> local.applied]] \in PeerData
    BY PeerUpdateType DEF HookTypeOK, Locals
  <2>2. RunTypeOK'
    BY <1>9, <2>1, GoType, NoLocalsType, LabelsType DEF Enrolled
  <2>3. QED
    BY <1>9, <2>2 DEF Enrolled, RunTypeOK, authentik, inputs, InputsTypeOK, DatabaseTypeOK
<1>10. ASSUME NEW r \in Relations, Enroll(r) PROVE StoreTypeOK'
  <2> DEFINE pk == view.client[r].pk
  <2>1. pk \in Pks
    BY <1>10 DEF Enroll, ToEnroll, HookTypeOK, PeerData, Client, Maybe
  <2>2. account' \in [Pks -> Maybe(Account)]
    BY <1>10, <2>1, AccountUpdateType DEF Enroll, CanJoinRole, JoinsRole, DatabaseTypeOK
  <2>3. [local EXCEPT !.applied = @ \union {pk}] \in Locals
    BY <2>1 DEF HookTypeOK, Locals
  <2>4. RunTypeOK' /\ faults' \in 0..MaxFaults
    BY <1>10, <2>3, AnswerType, NotFoundType, LabelsType DEF Enroll, HookTypeOK
  <2>5. QED
    BY <1>10, <2>2, <2>4 DEF Enroll, RunTypeOK, inputs, InputsTypeOK, DatabaseTypeOK
<1>11. QED
  BY <1>1, <1>2, <1>3, <1>4, <1>5, <1>6, <1>7, <1>8, <1>9, <1>10 DEF Provision

\* No step of the provisioning is a step of serving a consumer.
LEMMA ProvisionLocals == TypeOK /\ Provision => LocalsInUse'
<1> SUFFICES ASSUME TypeOK, Provision PROVE pc' \notin ConsumerSteps
  BY DEF LocalsInUse
<1> USE DEF ConsumerSteps, AccountSteps
<1>1. ASSUME NotFound PROVE pc' \notin ConsumerSteps
  BY <1>1 DEF NotFound, Reprovision, Raise, BeginServing, Commit, EndHook
<1>2. ASSUME Raise PROVE pc' \notin ConsumerSteps
  BY <1>2 DEF Raise, BeginServing, Commit, EndHook
<1>3. CASE CheckOutpost \/ UpdateProvider \/ EnsureProvider \/ EnsureApplication
  BY <1>3, <1>1, <1>2
  DEF CheckOutpost, UpdateProvider, EnsureProvider, EnsureApplication, Answer, Go
<1>4. CASE EnsureOutpost \/ ReadToken \/ EnsureRole \/ GrantSearch \/ Enrolled
  BY <1>4, <1>1, <1>2 DEF EnsureOutpost, ReadToken, EnsureRole, GrantSearch, Enrolled, Answer, Go
<1>5. CASE \E r \in Relations : Enroll(r)
  BY <1>5, <1>1, <1>2 DEF Enroll, Answer, Go
<1>6. QED
  BY <1>3, <1>4, <1>5 DEF Provision

-----------------------------------------------------------------------------
\* The labels a group move may go on to.
LEMMA MoveGroupType ==
  ASSUME NEW r, NEW old
  PROVE  MoveGroup(r, old) \in {"publish", "leaveGroup", "joinGroup"}
  BY DEF MoveGroup

\* The labels the reconciliation of a request may go on to.
LEMMA IdentityStepType ==
  ASSUME NEW r
  PROVE  ReconcileIdentity(r) \in {"rename", "publish", "leaveGroup", "joinGroup"}
  BY MoveGroupType DEF ReconcileIdentity

\* The labels a new account may go on to.
LEMMA AuthorizeType == Authorize \in {"member", "ownRole", "publish", "leaveGroup", "joinGroup"}
  BY MoveGroupType DEF Authorize

\* _bind_user_name yields a name of that relation.
LEMMA BindUserNameType ==
  ASSUME NEW r \in Relations, NEW user \in Users
  PROVE  BindUserName(r, user) \in Names
  BY DEF BindUserName, Names, Slugs

\* After a CharmError no step of a consumer is under way.
LEMMA RaiseLocals == Raise => LocalsInUse'
  BY DEF Raise, BeginServing, Commit, EndHook, LocalsInUse, ConsumerSteps, AccountSteps

\* A step of serving a consumer goes on to another with the locals it needs.
LEMMA AnswerLocals ==
  ASSUME TypeOK, cur \in Relations,
         NEW label \in ConsumerSteps \ {"create"}, NEW v \in PeerData, NEW l \in Locals,
         l.pk \in Pks, l.name \in Names,
         label \in {"password", "rotate"} \/ l.password \in Passwords,
         Answer(Go(label, v, l))
  PROVE  RunTypeOK' /\ LocalsInUse' /\ faults' \in 0..MaxFaults
<1>1. RunTypeOK' /\ faults' \in 0..MaxFaults
  BY AnswerType DEF ConsumerSteps, Steps, RequestSteps
<1>2. CASE Go(label, v, l)
  BY <1>1, <1>2 DEF Go, LocalsInUse
<1>3. CASE Raise
  BY <1>1, <1>3, RaiseLocals
<1>4. QED
  BY <1>1, <1>2, <1>3 DEF Answer

\* Setting a password leaves well-typed stores and a password to publish.
LEMMA SetPasswordType ==
  ASSUME TypeOK, pc \in ConsumerSteps \ {"create"},
         NEW label \in ConsumerSteps \ {"create"}, SetPassword(label)
  PROVE  TypeOK'
<1> USE DEF TypeOK
<1>1. cur \in Relations /\ local.pk \in Pks /\ local.name \in Names
  BY DEF LocalsInUse
<1>2. CASE account[local.pk] # Nil
  <2>1. PICK p \in FreshPasswords(cur) :
          /\ account' = [account EXCEPT ![local.pk].password = p]
          /\ Answer(Go(label, view, [local EXCEPT !.password = p]))
    BY <1>2 DEF SetPassword
  <2>2. p \in Passwords
    BY DEF FreshPasswords
  <2>3. account' \in [Pks -> Maybe(Account)]
    BY <1>1, <1>2, <2>1, <2>2, AccountUpdateType DEF DatabaseTypeOK
  <2> DEFINE l == [local EXCEPT !.password = p]
  <2>4. l \in Locals /\ l.pk = local.pk /\ l.name = local.name /\ l.password = p
    BY <2>2, LocalsUpdateType DEF HookTypeOK, Locals
  <2>5. RunTypeOK' /\ LocalsInUse' /\ faults' \in 0..MaxFaults
    BY <1>1, <2>1, <2>2, <2>4, AnswerLocals DEF HookTypeOK
  <2>6. QED
    BY <2>3, <2>5 DEF SetPassword, RunTypeOK, DatabaseTypeOK, InputsTypeOK, inputs
<1>3. CASE account[local.pk] = Nil
  <2>1. RunTypeOK' /\ LocalsInUse'
    BY <1>3, RaiseType, RaiseLocals DEF SetPassword
  <2>2. QED
    BY <1>3, <2>1 DEF SetPassword, RunTypeOK, DatabaseTypeOK, InputsTypeOK, inputs
<1>4. QED
  BY <1>2, <1>3

\* So does a change of groups.
LEMMA RegroupType ==
  ASSUME TypeOK, pc \in {"leaveGroup", "joinGroup"}, NEW group, NEW groups,
         NEW label \in {"publish", "joinGroup"}, Regroup(group, groups, label),
         group \in AuthentikGroups /\ account[local.pk] # Nil => groups \subseteq AuthentikGroups
  PROVE  TypeOK'
<1> USE DEF TypeOK, ConsumerSteps, AccountSteps
<1>1. cur \in Relations /\ local.pk \in Pks /\ local.name \in Names /\ local.password \in Passwords
  BY DEF LocalsInUse
<1>2. CASE group \notin AuthentikGroups
  <2>1. Go(label, view, local) /\ UNCHANGED <<account, faults>>
    BY <1>2 DEF Regroup
  <2>2. RunTypeOK'
    BY <2>1, GoType, LabelsType DEF HookTypeOK
  <2>3. LocalsInUse'
    BY <1>1, <2>1 DEF Go, LocalsInUse
  <2>4. QED
    BY <2>1, <2>2, <2>3 DEF Regroup, RunTypeOK, DatabaseTypeOK, InputsTypeOK, inputs
<1>3. CASE group \in AuthentikGroups /\ account[local.pk] = Nil
  <2>1. Raise /\ UNCHANGED <<account, faults>>
    BY <1>3 DEF Regroup
  <2>2. RunTypeOK' /\ LocalsInUse'
    BY <2>1, RaiseType, RaiseLocals
  <2>3. QED
    BY <2>1, <2>2 DEF Regroup, RunTypeOK, DatabaseTypeOK, InputsTypeOK, inputs
<1>4. CASE group \in AuthentikGroups /\ account[local.pk] # Nil
  <2>1. /\ account' = [account EXCEPT ![local.pk].groups = groups]
        /\ Answer(Go(label, view, local))
    BY <1>4 DEF Regroup
  <2>2. account' \in [Pks -> Maybe(Account)]
    BY <1>1, <1>4, <2>1, AccountUpdateType DEF DatabaseTypeOK
  <2>3. RunTypeOK' /\ LocalsInUse' /\ faults' \in 0..MaxFaults
    BY <1>1, <2>1, AnswerLocals DEF HookTypeOK
  <2>4. QED
    BY <2>2, <2>3 DEF Regroup, RunTypeOK, DatabaseTypeOK, InputsTypeOK, inputs
<1>5. QED
  BY <1>2, <1>3, <1>4

\* No request made for a consumer, nor a published record, has a wrong type.
LEMMA ServeConsumersType == TypeOK /\ ServeConsumers => TypeOK'
<1> SUFFICES ASSUME TypeOK, ServeConsumers PROVE TypeOK'
  OBVIOUS
<1> USE DEF TypeOK
<1>1. CASE CleanedUp
  <2>1. RunTypeOK' /\ LocalsInUse'
    BY <1>1, BeginServingType
    DEF CleanedUp, BeginServing, LocalsInUse, ConsumerSteps, AccountSteps
  <2>2. QED
    BY <1>1, <2>1 DEF CleanedUp, RunTypeOK, DatabaseTypeOK, InputsTypeOK, authentik, inputs
<1>2. CASE CreateAccount
  <2> DEFINE name == BindUserName(cur, request[cur].user)
             row == [name |-> name, password |-> Nil, member |-> FALSE, groups |-> {}]
             same == {k \in Pks : account[k] # Nil /\ account[k].name = name}
             l(k) == [local EXCEPT !.pk = k, !.name = name]
  <2>1. cur \in Relations
    BY <1>2 DEF CreateAccount, LocalsInUse, ConsumerSteps, AccountSteps
  <2>2. name \in Names
    BY <2>1, BindUserNameType DEF InputsTypeOK, Requests
  <2>3. ASSUME NEW k \in Pks PROVE l(k) \in Locals /\ l(k).pk = k /\ l(k).name = name
    BY <2>2, <2>3, LocalsUpdateType DEF HookTypeOK, Locals
  <2>4. ASSUME NEW k \in Pks, Answer(Go("password", view, l(k)))
        PROVE  RunTypeOK' /\ LocalsInUse' /\ faults' \in 0..MaxFaults
    <3>1. "password" \in ConsumerSteps \ {"create"}
      BY DEF ConsumerSteps, AccountSteps
    <3>2. QED
      BY <2>1, <2>2, <2>3, <2>4, <3>1, AnswerLocals DEF HookTypeOK
  <2>5. CASE /\ \E k \in same : Answer(Go("password", view, l(k)))
             /\ UNCHANGED <<account, nextPk>>
    BY <1>2, <2>4, <2>5
    DEF CreateAccount, RunTypeOK, DatabaseTypeOK, InputsTypeOK, inputs
  <2>6. CASE /\ same = {} /\ nextPk \in Pks
             /\ account' = [account EXCEPT ![nextPk] = row]
             /\ nextPk' = nextPk + 1
             /\ Answer(Go("password", view, l(nextPk)))
    <3>1. row \in Account
      BY <2>2 DEF Account, Maybe
    <3>2. account' \in [Pks -> Maybe(Account)] /\ nextPk' \in Nat \ {0}
      BY <2>6, <3>1 DEF DatabaseTypeOK, Maybe
    <3>3. QED
      BY <1>2, <2>4, <2>6, <3>2
      DEF CreateAccount, RunTypeOK, DatabaseTypeOK, InputsTypeOK, inputs
  <2>7. QED
    BY <1>2, <2>5, <2>6 DEF CreateAccount
<1>3. CASE FirstPassword
  BY <1>3, SetPasswordType, AuthorizeType DEF FirstPassword, ConsumerSteps, AccountSteps
<1>4. CASE OwnRole
  <2>1. role' \in Maybe(Nat)
    BY <1>4 DEF OwnRole, RoleIsThere, DatabaseTypeOK, Maybe
  <2> DEFINE l == [local EXCEPT !.role = role']
  <2>2. l \in Locals /\ l.pk = local.pk /\ l.name = local.name /\ l.password = local.password
    BY <2>1, LocalsUpdateType DEF HookTypeOK, Locals
  <2>3. /\ cur \in Relations /\ l.pk \in Pks /\ l.name \in Names /\ l.password \in Passwords
        /\ "ownGrant" \in ConsumerSteps \ {"create"}
    BY <1>4, <2>2 DEF OwnRole, LocalsInUse, ConsumerSteps, AccountSteps
  <2>4. RunTypeOK' /\ LocalsInUse' /\ faults' \in 0..MaxFaults
    BY <1>4, <2>2, <2>3, AnswerLocals DEF OwnRole, HookTypeOK
  <2>5. QED
    BY <1>4, <2>1, <2>4 DEF OwnRole, RunTypeOK, DatabaseTypeOK, InputsTypeOK, inputs
<1>5. CASE OwnGrant
  <2>1. Verified(view, local.role) \in PeerData
    BY PeerUpdateType DEF HookTypeOK, Locals, Verified
  <2>2. /\ cur \in Relations /\ local.pk \in Pks /\ local.name \in Names
        /\ local.password \in Passwords /\ "member" \in ConsumerSteps \ {"create"}
    BY <1>5 DEF OwnGrant, LocalsInUse, ConsumerSteps, AccountSteps
  <2>3. RunTypeOK' /\ LocalsInUse' /\ faults' \in 0..MaxFaults
    <3>1. CASE Assignable(local.role)
      BY <1>5, <2>1, <2>2, <3>1, AnswerLocals DEF OwnGrant, HookTypeOK
    <3>2. CASE ~Assignable(local.role)
      BY <1>5, <3>2, RaiseType, RaiseLocals DEF OwnGrant
    <3>3. QED
      BY <3>1, <3>2
  <2>4. QED
    BY <1>5, <2>3 DEF OwnGrant, RunTypeOK, DatabaseTypeOK, InputsTypeOK, inputs
<1>6. CASE JoinRole
  <2> DEFINE members == CachedMembers(view, view.role) \union {local.pk}
             v == [view EXCEPT !.cache = [role |-> view.role, members |-> members]]
             label == MoveGroup(cur, NoGroup)
  <2>1. /\ cur \in Relations /\ local.pk \in Pks /\ local.name \in Names
        /\ local.password \in Passwords
    BY <1>6 DEF JoinRole, LocalsInUse, ConsumerSteps, AccountSteps
  <2>2. members \in SUBSET Pks /\ view.role \in Maybe(Nat)
    BY <2>1, CachedMembersType DEF HookTypeOK, PeerData
  <2>3. v \in PeerData
    BY <2>2, PeerUpdateType DEF HookTypeOK
  <2>4. label \in ConsumerSteps \ {"create"}
    BY MoveGroupType DEF ConsumerSteps, AccountSteps
  <2>5. CASE CanJoinRole(view.role, local.pk)
    <3>1. JoinsRole(local.pk) /\ Answer(Go(label, v, local))
      BY <1>6, <2>5 DEF JoinRole
    <3>2. RunTypeOK' /\ LocalsInUse' /\ faults' \in 0..MaxFaults
      BY <2>1, <2>3, <2>4, <3>1, AnswerLocals DEF HookTypeOK
    <3>3. account' \in [Pks -> Maybe(Account)]
      BY <2>1, <2>5, <3>1, AccountUpdateType DEF CanJoinRole, JoinsRole, DatabaseTypeOK
    <3>4. QED
      BY <1>6, <3>2, <3>3 DEF JoinRole, RunTypeOK, DatabaseTypeOK, InputsTypeOK, inputs
  <2>6. CASE ~CanJoinRole(view.role, local.pk)
    <3>1. RunTypeOK' /\ LocalsInUse'
      BY <1>6, <2>6, RaiseType, RaiseLocals DEF JoinRole
    <3>2. QED
      BY <1>6, <2>6, <3>1 DEF JoinRole, RunTypeOK, DatabaseTypeOK, InputsTypeOK, inputs
  <2>7. QED
    BY <2>5, <2>6
<1>7. CASE RotatePassword
  BY <1>7, SetPasswordType, IdentityStepType DEF RotatePassword, ConsumerSteps, AccountSteps
<1>8. CASE Rename
  <2> DEFINE target == BindUserName(cur, request[cur].user)
             l == [local EXCEPT !.name = target]
             label == MoveGroup(cur, view.client[cur].group)
  <2>1. cur \in Relations /\ local.pk \in Pks /\ local.password \in Passwords
    BY <1>8 DEF Rename, LocalsInUse, ConsumerSteps, AccountSteps
  <2>2. target \in Names
    BY <2>1, BindUserNameType DEF InputsTypeOK, Requests
  <2>3. l \in Locals /\ l.pk = local.pk /\ l.name = target /\ l.password = local.password
    BY <2>2, LocalsUpdateType DEF HookTypeOK, Locals
  <2>4. label \in ConsumerSteps \ {"create"}
    BY MoveGroupType DEF ConsumerSteps, AccountSteps
  <2>5. CASE account[local.pk] # Nil /\ ~NameTaken(target, local.pk)
    <3>1. /\ account' = [account EXCEPT ![local.pk].name = target]
          /\ Answer(Go(label, view, l))
      BY <1>8, <2>5 DEF Rename
    <3>2. RunTypeOK' /\ LocalsInUse' /\ faults' \in 0..MaxFaults
      BY <2>1, <2>2, <2>3, <2>4, <3>1, AnswerLocals DEF HookTypeOK
    <3>3. account' \in [Pks -> Maybe(Account)]
      BY <2>1, <2>2, <2>5, <3>1, AccountUpdateType DEF DatabaseTypeOK
    <3>4. QED
      BY <1>8, <3>2, <3>3 DEF Rename, RunTypeOK, DatabaseTypeOK, InputsTypeOK, inputs
  <2>6. CASE ~(account[local.pk] # Nil /\ ~NameTaken(target, local.pk))
    <3>1. Raise /\ UNCHANGED <<account, faults>>
      BY <1>8, <2>6 DEF Rename
    <3>2. RunTypeOK' /\ LocalsInUse'
      BY <3>1, RaiseType, RaiseLocals
    <3>3. QED
      BY <1>8, <3>1, <3>2 DEF Rename, RunTypeOK, DatabaseTypeOK, InputsTypeOK, inputs
  <2>7. QED
    BY <2>5, <2>6
<1>9. CASE LeaveGroup \/ JoinGroup
  <2>1. local.pk \in Pks
    BY <1>9 DEF LeaveGroup, JoinGroup, LocalsInUse, ConsumerSteps, AccountSteps
  <2>2. account[local.pk] # Nil => account[local.pk].groups \subseteq AuthentikGroups
    BY <2>1 DEF DatabaseTypeOK, Account, Maybe
  <2>3. CASE LeaveGroup
    BY <2>2, <2>3, RegroupType DEF LeaveGroup
  <2>4. CASE JoinGroup
    BY <2>2, <2>4, RegroupType DEF JoinGroup
  <2>5. QED
    BY <1>9, <2>3, <2>4
<1>10. CASE Publish
  <2> DEFINE c == [pk |-> local.pk, name |-> local.name,
                   user |-> request[cur].user, group |-> request[cur].group]
             o == [name |-> local.name, config |-> config, password |-> local.password]
  <2>1. /\ cur \in Relations /\ local.pk \in Pks /\ local.name \in Names
        /\ local.password \in Passwords
    BY <1>10 DEF Publish, LocalsInUse, ConsumerSteps, AccountSteps
  <2>2. c \in Maybe(Client) /\ o \in Maybe(Output)
    BY <2>1 DEF InputsTypeOK, Requests, Client, Output, Maybe
  <2>3. view' \in PeerData
    BY <1>10, <2>1, <2>2, PeerUpdateType DEF Publish, HookTypeOK
  <2>4. out' \in [Relations -> Maybe(Output)]
    BY <1>10, <2>1, <2>2 DEF Publish, HookTypeOK
  <2>5. RunTypeOK' /\ LocalsInUse'
    BY <1>10, <2>3, <2>4, NoLocalsType, LabelsType
    DEF Publish, RunTypeOK, CommittedTypeOK, HookTypeOK, committed, Maybe, LocalsInUse,
        ConsumerSteps, AccountSteps
  <2>6. QED
    BY <1>10, <2>5 DEF Publish, RunTypeOK, DatabaseTypeOK, InputsTypeOK, authentik, inputs
<1>11. ASSUME NEW r \in Relations, DeleteOrphan(r) PROVE TypeOK'
  <2>1. /\ pc = "cleanup"
        /\ [view EXCEPT !.client[r] = Nil] \in PeerData
    BY <1>11, PeerUpdateType DEF DeleteOrphan, HookTypeOK, Maybe
  <2>2. RunTypeOK' /\ faults' \in 0..MaxFaults
    BY <1>11, <2>1, AnswerType, LabelsType DEF DeleteOrphan, HookTypeOK
  <2>3. LocalsInUse'
    BY <1>11, RaiseLocals
    DEF DeleteOrphan, Answer, Go, LocalsInUse, ConsumerSteps, AccountSteps
  <2>4. account' \in [Pks -> Maybe(Account)]
    BY <1>11 DEF DeleteOrphan, DatabaseTypeOK, Maybe
  <2>5. QED
    BY <1>11, <2>2, <2>3, <2>4 DEF DeleteOrphan, RunTypeOK, DatabaseTypeOK, InputsTypeOK, inputs
<1>12. ASSUME NEW r \in Relations, Serve(r) PROVE TypeOK'
  <2>1. local' \in Locals
    BY <1>12, NoLocalsType
    DEF Serve, HookTypeOK, CommittedTypeOK, PeerData, Client, NoLocals, Locals, Maybe
  <2>2. FirstStep(r) \in {"create", "rotate", "rename", "publish", "leaveGroup", "joinGroup"}
    BY IdentityStepType DEF FirstStep
  <2>3. RunTypeOK'
    BY <1>12, <2>1, <2>2, LabelsType
    DEF Serve, RunTypeOK, CommittedTypeOK, HookTypeOK, committed, Maybe
  <2>4. ASSUME view.client[r] # Nil
        PROVE  /\ local'.pk \in Pks /\ local'.name \in Names
               /\ FirstStep(r) # "rotate" => local'.password \in Passwords
    BY <1>12, <2>4
    DEF Serve, FirstStep, HookTypeOK, CommittedTypeOK, PeerData, Client, NoLocals, Maybe
  <2>5. view.client[r] = Nil => FirstStep(r) = "create"
    BY DEF FirstStep
  <2>6. LocalsInUse'
    BY <1>12, <2>4, <2>5 DEF Serve, LocalsInUse
  <2>7. QED
    BY <1>12, <2>3, <2>6 DEF Serve, RunTypeOK, DatabaseTypeOK, InputsTypeOK, authentik, inputs
<1>13. QED
  BY <1>1, <1>2, <1>3, <1>4, <1>5, <1>6, <1>7, <1>8, <1>9, <1>10, <1>11, <1>12 DEF ServeConsumers

-----------------------------------------------------------------------------
\* The initial state is well typed.
LEMMA InitType == Init => TypeOK
<1> SUFFICES ASSUME Init PROVE TypeOK
  OBVIOUS
<1>1. EmptyPeer \in PeerData
  BY DEF EmptyPeer, NoClients, PeerData, Maybe
<1>2. DatabaseTypeOK /\ InputsTypeOK
  <2>1. application \in BOOLEAN /\ granted \in BOOLEAN
    BY Zenon DEF Init
  <2>2. account \in [Pks -> Maybe(Account)]
    BY DEF Init, Maybe
  <2>3. InputsTypeOK
    BY BoundAssumption DEF Init, InputsTypeOK
  <2>4. QED
    BY <2>1, <2>2, <2>3 DEF Init, DatabaseTypeOK, Maybe
<1>3. CommittedTypeOK /\ HookTypeOK
  BY <1>1, NoLocalsType, LabelsType
  DEF Init, CommittedTypeOK, HookTypeOK, NoOutput, Maybe
<1>4. LocalsInUse /\ faults \in 0..MaxFaults
  BY BoundAssumption DEF Init, LocalsInUse, ConsumerSteps, AccountSteps
<1>5. QED
  BY <1>2, <1>3, <1>4 DEF TypeOK

\* Failures, crashes and losses keep the types.
LEMMA FailureType == TypeOK /\ Failure => TypeOK'
<1> SUFFICES ASSUME TypeOK, Failure PROVE TypeOK'
  OBVIOUS
<1> USE DEF TypeOK
<1>1. CASE RequestFails
  <2>1. RunTypeOK' /\ LocalsInUse'
    BY <1>1, RaiseType, RaiseLocals DEF RequestFails
  <2>2. QED
    BY <1>1, <2>1, BoundAssumption
    DEF RequestFails, RunTypeOK, DatabaseTypeOK, InputsTypeOK, authentik, inputs
<1>2. CASE Crash
  <2>1. RunTypeOK'
    BY <1>2, EndHookType DEF Crash, RunTypeOK, CommittedTypeOK, HookTypeOK, committed
  <2>2. LocalsInUse'
    BY <1>2 DEF Crash, EndHook, LocalsInUse, ConsumerSteps, AccountSteps
  <2>3. QED
    BY <1>2, <2>1, <2>2, BoundAssumption
    DEF Crash, RunTypeOK, DatabaseTypeOK, InputsTypeOK, authentik, inputs
<1>3. ASSUME UNCHANGED <<inputs, committed, hook, faults>>, DatabaseTypeOK' PROVE TypeOK'
  BY <1>3
  DEF InputsTypeOK, CommittedTypeOK, HookTypeOK, LocalsInUse, inputs, committed, hook
<1>4. CASE LoseDatabase
  <2>1. application' \in BOOLEAN /\ granted' \in BOOLEAN
    BY <1>4, Zenon DEF LoseDatabase
  <2>2. account' \in [Pks -> Maybe(Account)]
    BY <1>4 DEF LoseDatabase, Maybe
  <2>3. DatabaseTypeOK'
    BY <1>4, <2>1, <2>2 DEF LoseDatabase, Loss, DatabaseTypeOK, Maybe
  <2>4. QED
    BY <1>3, <1>4, <2>3 DEF LoseDatabase
<1>5. CASE LoseOutpost
  <2>1. DatabaseTypeOK'
    BY <1>5 DEF LoseOutpost, Loss, DatabaseTypeOK, Maybe
  <2>2. QED
    BY <1>3, <1>5, <2>1 DEF LoseOutpost, inputs
<1>6. CASE LoseRole
  <2>1. account' \in [Pks -> Maybe(Account)]
    <3>1. \A k \in Pks : account[k] # Nil => [account[k] EXCEPT !.member = FALSE] \in Account
      BY AccountFieldType DEF DatabaseTypeOK, Maybe
    <3>2. QED
      BY <1>6, <3>1 DEF LoseRole, Maybe
  <2>2. granted' \in BOOLEAN
    BY <1>6, Zenon DEF LoseRole
  <2>3. DatabaseTypeOK'
    BY <1>6, <2>1, <2>2 DEF LoseRole, Loss, DatabaseTypeOK, Maybe
  <2>4. QED
    BY <1>3, <1>6, <2>3 DEF LoseRole, inputs
<1>7. ASSUME NEW r \in Relations, LoseSecret(r) PROVE TypeOK'
  BY <1>7, BoundAssumption
  DEF LoseSecret, DatabaseTypeOK, InputsTypeOK, CommittedTypeOK, HookTypeOK, LocalsInUse,
      authentik, inputs, hook, Maybe
<1>8. QED
  BY <1>1, <1>2, <1>4, <1>5, <1>6, <1>7 DEF Failure

\* Requirers and the operator keep the types.
LEMMA EnvironmentType == TypeOK /\ Environment => TypeOK'
<1> SUFFICES ASSUME TypeOK, Environment PROVE TypeOK'
  OBVIOUS
<1> USE BoundAssumption
        DEF TypeOK, DatabaseTypeOK, InputsTypeOK, CommittedTypeOK, HookTypeOK, LocalsInUse,
            authentik, committed, hook
<1>1. CASE ChangeConfig
  BY <1>1 DEF ChangeConfig
<1>2. ASSUME NEW r \in Relations, AddRelation(r) PROVE TypeOK'
  BY <1>2 DEF AddRelation
<1>3. ASSUME NEW r \in Relations, RemoveRelation(r) PROVE TypeOK'
  BY <1>3 DEF RemoveRelation, Maybe
<1>4. ASSUME NEW r \in Relations, ChangeRequest(r) PROVE TypeOK'
  BY <1>4 DEF ChangeRequest
<1>5. QED
  BY <1>1, <1>2, <1>3, <1>4 DEF Environment

\* Every step keeps the types: the induction step of TypeCorrect.
LEMMA NextType == TypeOK /\ [Next]_vars => TypeOK'
<1> SUFFICES ASSUME TypeOK, [Next]_vars PROVE TypeOK'
  OBVIOUS
<1>1. CASE StartHook
  BY <1>1, LabelsType
  DEF StartHook, TypeOK, DatabaseTypeOK, InputsTypeOK, CommittedTypeOK, HookTypeOK, LocalsInUse,
      ConsumerSteps, AccountSteps, authentik, inputs, committed
<1>2. CASE Provision
  BY <1>2, ProvisionType, ProvisionLocals DEF TypeOK, StoreTypeOK, RunTypeOK
<1>3. CASE EndOfHook
  <2>1. RunTypeOK'
    BY <1>3, CommitType DEF EndOfHook
  <2>2. LocalsInUse'
    BY <1>3 DEF EndOfHook, Commit, EndHook, LocalsInUse, ConsumerSteps, AccountSteps
  <2>3. QED
    BY <1>3, <2>1, <2>2
    DEF EndOfHook, TypeOK, RunTypeOK, DatabaseTypeOK, InputsTypeOK, authentik, inputs
<1>4. CASE UNCHANGED vars
  BY <1>4
  DEF vars, TypeOK, DatabaseTypeOK, InputsTypeOK, CommittedTypeOK, HookTypeOK, LocalsInUse,
      authentik, inputs, committed, hook
<1>5. QED
  BY <1>1, <1>2, <1>3, <1>4, ServeConsumersType, FailureType, EnvironmentType
  DEF Next, HookStep

\* In every state the databag, the database, the published data and the locals of
\* the hook have their types, and a step of _update_ldap_relation only reads locals
\* that were set: no consumer is published without an account or a password.
THEOREM TypeCorrect == Spec => []TypeOK
<1>1. Init => TypeOK
  BY InitType
<1>2. TypeOK /\ [Next]_vars => TypeOK'
  BY NextType
<1>3. QED
  BY <1>1, <1>2, PTL DEF Spec

=============================================================================
