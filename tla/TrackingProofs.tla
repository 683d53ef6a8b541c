---------------------------- MODULE TrackingProofs ----------------------------
(***************************************************************************)
(* What a tracked account is good for.  While the outpost the charm knows  *)
(* exists, the accounts it tracks exist with the password of their bind    *)
(* secret, no account is forgotten, and published credentials that let a   *)
(* consumer in let it search.                                              *)
(*                                                                         *)
(* All of it needs something of who administers Authentik.  A role deleted *)
(* between a hook's finding it and its last use of it makes the charm      *)
(* forget every account although the outpost is there, so tracking is kept *)
(* in behaviours where that does not happen (RoleStaysInHand): the role    *)
(* may be lost, any number of times, at every other point.  A role deleted *)
(* at any point leaves published accounts without search until the         *)
(* configuration changes, so authorization is shown where nobody deletes   *)
(* it.                                                                     *)
(***************************************************************************)
EXTENDS AccountProofs

(* What a step other than a loss does to accounts *)

StillMembers ==
  /\ granted = TRUE => granted' = TRUE
  /\ \A k \in Pks : account[k] # Nil /\ account'[k] # Nil /\ account[k].member = TRUE =>
       account'[k].member = TRUE

\* A password changes only by a request that sets a fresh one for the account served.
PasswordsSet ==
  \A k \in Pks : account'[k] # Nil =>
    \/ account[k] # Nil /\ account'[k].password = account[k].password
    \/ account[k] = Nil /\ k = nextPk /\ account'[k].password = Nil
    \/ /\ pc \in {"password", "rotate"} /\ k = local.pk /\ account[k] # Nil
       /\ account'[k].password \in FreshPasswords(cur)

Mild == DatabaseKept /\ ActsOnOwn /\ StillMembers /\ PasswordsSet

\* A step that leaves the accounts alone.
LEMMA IdleMild ==
  ASSUME Facts, OwnInv, DatabaseKept, account' = account, granted = TRUE => granted' = TRUE
  PROVE  Mild
  BY DEF Mild, ActsOnOwn, StillMembers, PasswordsSet

\* A request on one account that keeps its owner.
LEMMA RowDatabase ==
  ASSUME Facts, NEW j \in Pks, OnlyRow(j), account'[j].name[1] = account[j].name[1],
         UNCHANGED <<era, outpost, provider, role>>
  PROVE  DatabaseKept
<1>1. nextPk \in Nat
  BY DEF Facts, TypeOK, DatabaseTypeOK
<1>2. OwnersKept
  BY <1>1 DEF OnlyRow, OwnersKept, Owner
<1>3. QED
  BY <1>2 DEF OnlyRow, DatabaseKept, NoAccounts

LEMMA RowMild ==
  ASSUME Facts, NEW j \in Pks, OnlyRow(j), ActsOnOwn,
         account'[j].name[1] = account[j].name[1],
         SamePassword(j) \/ (/\ pc \in {"password", "rotate"} /\ j = local.pk
                             /\ account'[j].password \in FreshPasswords(cur)),
         SameMember(j) \/ account'[j].member = TRUE,
         UNCHANGED <<era, outpost, provider, role, granted>>
  PROVE  Mild
  BY RowDatabase DEF OnlyRow, SamePassword, SameMember, Mild, StillMembers, PasswordsSet

LEMMA ProvisionMild == ASSUME Facts, OwnInv, Provision PROVE Mild
<1>1. DatabaseKept /\ ActsOnOwn
  BY ProvisionDatabase, ProvisionActsOnOwn
<1>2. ASSUME NEW r \in Relations, Enroll(r) PROVE Mild
  <2>1. UNCHANGED <<era, outpost, provider, role, granted>>
    BY <1>2 DEF Enroll
  <2>2. CASE UNCHANGED account
    BY <1>1, <2>1, <2>2, IdleMild
  <2>3. CASE ~UNCHANGED account
    <3> DEFINE j == view.client[r].pk
    <3>1. OnlyRow(j) /\ SameName(j) /\ SamePassword(j) /\ account'[j].member = TRUE
      BY <1>2, <2>3, EnrollEffect
    <3>2. j \in Pks
      BY <3>1 DEF OnlyRow
    <3> HIDE DEF j
    <3>3. QED
      BY <1>1, <2>1, <3>1, <3>2, RowMild DEF SameName
  <2>4. QED
    BY <2>2, <2>3
<1>3. CASE account' = account /\ (granted = TRUE => granted' = TRUE)
  BY <1>1, <1>3, IdleMild
<1>4. QED
  BY <1>2, <1>3
  DEF Provision, CheckOutpost, UpdateProvider, EnsureProvider, EnsureApplication, EnsureOutpost,
    ReadToken, EnsureRole, GrantSearch, Enrolled, authentik

LEMMA ServeMild == ASSUME Facts, OwnInv, ServeConsumers PROVE Mild
<1> USE StepSets
<1>1. ActsOnOwn
  BY ServeActsOnOwn
<1>2. ASSUME account' = account, OwnRole \/ UNCHANGED role,
             UNCHANGED <<nextPk, era, outpost, provider>>, granted = TRUE => granted' = TRUE
      PROVE  Mild
  BY <1>2, NothingDone, IdleMild DEF OwnRole, RoleIsThere
<1>3. CASE CleanedUp \/ OwnRole \/ OwnGrant \/ Publish \/ \E r \in Relations : Serve(r)
  BY <1>2, <1>3 DEF CleanedUp, OwnRole, OwnGrant, Publish, Serve, authentik
<1>4. ASSUME pc \in ConsumerSteps \ {"create"}, UNCHANGED <<era, outpost, provider, role, granted>>,
             OnlyRow(local.pk), account'[local.pk].name[1] = cur \/ SameName(local.pk),
             SamePassword(local.pk) \/ (/\ pc \in {"password", "rotate"}
                                        /\ account'[local.pk].password \in FreshPasswords(cur)),
             SameMember(local.pk) \/ account'[local.pk].member = TRUE
      PROVE  Mild
  BY <1>1, <1>4, RowMild, ServedAccount DEF OnlyRow, SameName
<1>5. CASE FirstPassword \/ RotatePassword
  <2>1. pc \in {"password", "rotate"} /\ UNCHANGED <<era, outpost, provider, role, granted>>
    BY <1>5 DEF FirstPassword, RotatePassword, SetPassword
  <2>2. \E label : SetPassword(label)
    BY <1>5 DEF FirstPassword, RotatePassword
  <2>3. QED
    BY <1>2, <1>4, <2>1, <2>2, SetPasswordEffect
<1>6. CASE JoinRole
  <2>1. UNCHANGED <<era, outpost, provider, role, granted>>
    BY <1>6 DEF JoinRole
  <2>2. QED
    BY <1>2, <1>4, <1>6, <2>1, JoinRoleEffect
<1>7. CASE Rename
  <2>1. UNCHANGED <<era, outpost, provider, role, granted>>
    BY <1>7 DEF Rename
  <2>2. QED
    BY <1>2, <1>4, <1>7, <2>1, RenameEffect
<1>8. CASE LeaveGroup \/ JoinGroup
  <2>1. UNCHANGED <<era, outpost, provider, role, granted>>
    BY <1>8 DEF LeaveGroup, JoinGroup, Regroup
  <2>2. QED
    BY <1>2, <1>4, <1>8, <2>1, GroupsEffect
<1>9. CASE CreateAccount
  <2>1. UNCHANGED <<era, outpost, provider, role, granted>>
    BY <1>9 DEF CreateAccount
  <2>2. pc = "create" /\ nextPk \in Nat
    BY <1>9 DEF CreateAccount, Facts, TypeOK, DatabaseTypeOK
  <2>3. CASE UNCHANGED <<account, nextPk>>
    BY <1>2, <2>1, <2>3
  <2>4. CASE ~UNCHANGED <<account, nextPk>>
    <3>1. PICK k \in Pks : /\ k = nextPk /\ nextPk' = nextPk + 1 /\ account[k] = Nil
                           /\ account'[k].password = Nil
                           /\ \A i \in Pks \ {k} : account'[i] = account[i]
      <4>1. PICK k \in Pks :
              \/ UNCHANGED <<account, nextPk>>
              \/ /\ k = nextPk /\ nextPk' = nextPk + 1 /\ account[k] = Nil
                 /\ account'[k].password = Nil
                 /\ \A i \in Pks \ {k} : account'[i] = account[i]
        BY <1>9, CreateEffect
      <4>2. QED
        BY <2>4, <4>1
    <3>2. OwnersKept
      BY <2>2, <3>1 DEF OwnersKept, Owner
    <3>3. DatabaseKept
      BY <2>1, <2>2, <3>2 DEF DatabaseKept
    <3>4. QED
      BY <1>1, <2>1, <3>1, <3>3 DEF Mild, StillMembers, PasswordsSet
  <2>5. QED
    BY <2>3, <2>4
<1>10. ASSUME NEW r \in Relations, DeleteOrphan(r) PROVE Mild
  <2>1. UNCHANGED <<era, outpost, provider, role, granted, nextPk>>
    BY <1>10 DEF DeleteOrphan
  <2>2. PICK j \in Pks : account'[j] = Nil /\ \A k \in Pks \ {j} : account'[k] = account[k]
    BY <1>10, DeleteEffect
  <2>3. nextPk \in Nat
    BY DEF Facts, TypeOK, DatabaseTypeOK
  <2>4. OwnersKept
    BY <2>1, <2>2, <2>3 DEF OwnersKept, Owner
  <2>5. DatabaseKept
    BY <2>1, <2>2, <2>4 DEF DatabaseKept, NoAccounts
  <2>6. QED
    BY <1>1, <2>1, <2>2, <2>5 DEF Mild, StillMembers, PasswordsSet
<1>11. QED
  BY <1>3, <1>5, <1>6, <1>7, <1>8, <1>9, <1>10 DEF ServeConsumers

LEMMA StepMild == ASSUME Facts, OwnInv, [Next]_vars, era' = era PROVE Mild
<1>1. CASE Provision \/ ServeConsumers
  BY <1>1, ProvisionMild, ServeMild
<1>2. ASSUME UNCHANGED authentik PROVE Mild
  BY <1>2, NothingDone, IdleMild DEF authentik
<1>3. CASE StartHook \/ EndOfHook \/ RequestFails \/ Crash
  BY <1>2, <1>3 DEF StartHook, EndOfHook, RequestFails, Crash
<1>4. CASE Environment \/ (\E r \in Relations : LoseSecret(r)) \/ UNCHANGED vars
  BY <1>2, <1>4, EnvironmentAway
<1>5. CASE LoseDatabase \/ LoseOutpost \/ LoseRole
  BY <1>5 DEF LoseDatabase, LoseOutpost, LoseRole, Loss, Facts, TypeOK, DatabaseTypeOK
<1>6. QED
  BY <1>1, <1>3, <1>4, <1>5 DEF Next, HookStep, Failure

\* A new era begins with a loss only.
LEMMA StepLost ==
  ASSUME Facts, OwnInv, [Next]_vars, era' # era
  PROVE  LoseDatabase \/ LoseOutpost \/ LoseRole
<1>1. ~(Provision \/ ServeConsumers)
  BY ProvisionMild, ServeMild DEF Mild, DatabaseKept
<1>2. ~(StartHook \/ EndOfHook \/ RequestFails \/ Crash)
  BY DEF StartHook, EndOfHook, RequestFails, Crash, authentik
<1>3. ~(Environment \/ (\E r \in Relations : LoseSecret(r)) \/ UNCHANGED vars)
  BY EnvironmentAway DEF authentik
<1>4. QED
  BY <1>1, <1>2, <1>3 DEF Next, HookStep, Failure

-----------------------------------------------------------------------------
(* How a hook moves on *)

\* What a request was refused for when the hook starts over.
Refuted ==
  \/ pc = "check" /\ outpost # view.outpost
  \/ pc = "update" /\ ~ProviderExists(view.provider)
  \/ pc = "grant" /\ ~Assignable(local.role)
  \/ pc = "enroll" /\ \E r \in ToEnroll : ~CanJoinRole(local.role, view.client[r].pk)

\* A step of provisioning goes on with the same accounts, or with none.
Provisions ==
  \E label \in EnsureSteps \union FreshSteps \union {"cleanup"} : \E v, l :
    /\ Go(label, v, l)
    /\ pc \in EnsureSteps \union FreshSteps
    /\ v.client = view.client
    /\ \/ v.outpost = view.outpost
       \/ pc = "token" /\ v.client = NoClients
    /\ label \in EnsureSteps => pc \in EnsureSteps \union {"token"}
    /\ label \in VerifiedSteps =>
         pc \in VerifiedSteps \/ (pc = "check" /\ outpost = view.outpost) \/ pc = "token"
    /\ label \in {"grant", "enroll"} =>
         \/ l.role = role' /\ role' # Nil
         \/ pc \in {"grant", "enroll"} /\ l.role = local.role /\ role' = role

\* The consumer's account, new or adopted, gets a password next.
Created ==
  \E k \in Pks : \E l :
    pc = "create" /\ Go("password", view, l) /\ l.pk = k /\ account'[k] # Nil

\* The password that was set goes on with the hook.
PasswordGoesOn ==
  \E label, l :
    /\ Go(label, view, l) /\ pc \in {"password", "rotate"}
    /\ account[local.pk] # Nil /\ l.pk = local.pk
    /\ account'[local.pk] # Nil /\ l.password = account'[local.pk].password
    /\ l.password \in FreshPasswords(cur)
    /\ IF pc = "password" THEN label \in {"ownRole", "member"}
       ELSE label \in {"rename", "leaveGroup", "joinGroup", "publish"}

\* The other requests for a consumer.
Serves ==
  \E label, v, l :
    /\ Go(label, v, l) /\ pc \in ConsumerSteps \ {"create", "password", "rotate"}
    /\ Alike(v, view) /\ l.pk = local.pk /\ l.password = local.password
    /\ CASE pc \in {"ownRole", "ownGrant"} -> label \in {"ownGrant", "member"}
         [] pc = "member" ->
              /\ label \in {"leaveGroup", "joinGroup", "publish"}
              /\ account'[local.pk] # Nil /\ account'[local.pk].member = TRUE
              /\ view.role = role /\ granted' = granted
         [] OTHER -> /\ pc \notin {"ownRole", "ownGrant", "member"}
                     /\ label \in {"leaveGroup", "joinGroup", "publish"}

\* The account of a removed relation is gone, and so is its tracking.
Forgets ==
  \E r \in Relations :
    /\ pc = "cleanup" /\ view.client[r] # Nil /\ rel[r] # "active"
    /\ account'[view.client[r].pk] = Nil
    /\ Go("cleanup", [view EXCEPT !.client[r] = Nil], local)

\* Nothing runs; what others do leaves the databag alone.
Away ==
  /\ UNCHANGED <<peer, hook, authentik>>
  /\ pc = "idle" \/ UNCHANGED <<secret, rel>>
  /\ \A r \in Relations : secret'[r] \in {secret[r], Nil}
  /\ \A r \in Relations : rel'[r] = "active" => rel[r] \in {"active", "new"}

Moves ==
  \/ Ends \/ (StartsOver /\ Refuted /\ UNCHANGED authentik)
  \/ Provisions \/ Created \/ PasswordGoesOn \/ Serves \/ Forgets
  \/ Publish \/ (\E r \in Relations : Serve(r)) \/ StartHook \/ Crash

LEMMA NotFoundRefutes ==
  ASSUME Facts, NotFound, Refuted, UNCHANGED authentik
  PROVE  Moves
  BY NotFoundShape DEF Facts, Moves

LEMMA ProvisionMoves == ASSUME Facts, OwnInv, Provision PROVE rel' = rel /\ Moves
<1> USE StepSets
<1>1. rel' = rel
  BY DEF Provision, CheckOutpost, UpdateProvider, EnsureProvider, EnsureApplication, EnsureOutpost,
    ReadToken, EnsureRole, GrantSearch, Enrolled, Enroll, inputs
<1>2. view \in PeerData /\ local \in Locals
  BY DEF Facts, TypeOK, HookTypeOK
<1> SUFFICES Moves
  BY <1>1
<1> DEFINE Done == Ends \/ Provisions
<1>3. Done => Moves
  BY DEF Moves
<1>4. ASSUME NEW label \in {"cleanup", "update"}, Go(label, view, local), pc = "check",
             outpost = view.outpost
      PROVE  Provisions
  BY <1>4 DEF Provisions
<1>5. CASE CheckOutpost
  <2>1. pc = "check" /\ UNCHANGED authentik
    BY <1>5 DEF CheckOutpost
  <2>2. CASE outpost = view.outpost
    BY <1>4, <1>5, <1>3, <2>1, <2>2 DEF CheckOutpost
  <2>3. CASE outpost # view.outpost
    BY <1>5, <2>1, <2>3, NotFoundRefutes DEF CheckOutpost, Refuted
  <2>4. QED
    BY <2>2, <2>3
<1>6. ASSUME NEW label \in {"role", "cleanup", "application", "outpost", "token"}, NEW v, NEW l,
             Go(label, v, l), Alike(v, view),
             IF pc \in FreshSteps THEN label \in FreshSteps
             ELSE pc \in {"update", "enroll"} /\ label \notin FreshSteps
      PROVE  Provisions
  BY <1>6 DEF Provisions, VerifiedSteps, Alike
<1>7. CASE UpdateProvider
  <2>1. CASE provider # Nil /\ provider.pk = view.provider
    <3> DEFINE v == [view EXCEPT !.config = config]
    <3>1. Alike(v, view)
      BY <1>2, AlikeUpdates
    <3>2. pc = "update" /\ (Ends \/ Go("role", v, local))
      BY <1>7, <2>1, RaiseShape DEF UpdateProvider, Answer
    <3> HIDE DEF v
    <3>3. QED
      BY <1>6, <1>3, <3>1, <3>2
  <2>2. CASE ~(provider # Nil /\ provider.pk = view.provider)
    <3>1. pc = "update" /\ NotFound /\ UNCHANGED authentik
      BY <1>7, <2>2 DEF UpdateProvider, authentik
    <3>2. Refuted
      BY <2>2, <3>1 DEF Refuted, ProviderExists
    <3>3. QED
      BY <3>1, <3>2, NotFoundRefutes
  <2>3. QED
    BY <2>1, <2>2
<1>8. CASE EnsureProvider \/ EnsureApplication \/ EnsureOutpost
  <2>1. Ends \/ \E label \in {"application", "outpost", "token"} : \E l :
                  Go(label, view, l) /\ pc \in FreshSteps
    BY <1>8, RaiseShape DEF EnsureProvider, EnsureApplication, EnsureOutpost, Answer
  <2>2. QED
    BY <1>6, <1>3, <2>1 DEF Alike
<1>9. CASE ReadToken
  <2> DEFINE v == [view EXCEPT !.provider = local.provider, !.outpost = local.outpost,
                               !.config = config]
  <2>1. v.client = view.client
    BY <1>2 DEF PeerData
  <2>2. CASE outpost = local.outpost
    <3>1. Go("role", v, local) /\ pc = "token" /\ view.client = NoClients
      BY <1>9, <2>2 DEF ReadToken, Facts, HookInv, AtProvisioning
    <3> HIDE DEF v
    <3>2. QED
      BY <1>3, <2>1, <3>1 DEF Provisions
  <2>3. CASE outpost # local.outpost
    <3>1. NotFound /\ pc = "token"
      BY <1>9, <2>3 DEF ReadToken
    <3>2. QED
      BY <1>3, <3>1, RaiseShape DEF NotFound
  <2>4. QED
    BY <2>2, <2>3
<1>10. CASE EnsureRole
  <2> DEFINE l == [local EXCEPT !.role = role', !.applied = CachedMembers(view, role')]
             w == [view EXCEPT !.role = role']
  <2>1. Ends \/ Go("enroll", w, l) \/ Go("grant", view, l)
    BY <1>10, RaiseShape DEF EnsureRole, Answer
  <2>2. l.role = role' /\ Alike(w, view)
    BY <1>2, LocalUpdates, AlikeUpdates
  <2>3. role' # Nil /\ pc = "role"
    BY <1>10, NilAssumption DEF EnsureRole, RoleIsThere, Facts, TypeOK, DatabaseTypeOK
  <2> HIDE DEF l, w
  <2>4. QED
    BY <1>3, <2>1, <2>2, <2>3 DEF Provisions, Alike, VerifiedSteps
<1>11. CASE GrantSearch
  <2>1. CASE Assignable(local.role)
    <3>1. Ends \/ Go("enroll", Verified(view, local.role), local)
      BY <1>11, <2>1, RaiseShape DEF GrantSearch, Answer
    <3>2. pc = "grant" /\ role' = role
      BY <1>11 DEF GrantSearch
    <3>3. Alike(Verified(view, local.role), view)
      BY <1>2, AlikeUpdates
    <3>4. QED
      BY <1>3, <3>1, <3>2, <3>3 DEF Provisions, Alike, VerifiedSteps
  <2>2. CASE ~Assignable(local.role)
    <3>1. pc = "grant" /\ NotFound /\ UNCHANGED authentik
      BY <1>11, <2>2 DEF GrantSearch, authentik
    <3>2. Refuted
      BY <2>2, <3>1 DEF Refuted
    <3>3. QED
      BY <3>1, <3>2, NotFoundRefutes
  <2>3. QED
    BY <2>1, <2>2
<1>12. CASE Enrolled
  <2> DEFINE v == [view EXCEPT !.cache = [role |-> local.role, members |-> local.applied]]
  <2>1. Alike(v, view) /\ Go("cleanup", v, NoLocals) /\ pc = "enroll"
    BY <1>2, <1>12, AlikeUpdates DEF Enrolled
  <2> HIDE DEF v
  <2>2. QED
    BY <1>6, <1>3, <2>1
<1>13. ASSUME NEW r \in Relations, Enroll(r) PROVE Moves
  <2> DEFINE l == [local EXCEPT !.applied = @ \union {view.client[r].pk}]
  <2>1. CASE CanJoinRole(local.role, view.client[r].pk)
    <3>1. Ends \/ Go("enroll", view, l)
      BY <1>13, <2>1, RaiseShape DEF Enroll, Answer
    <3>2. l.role = local.role
      BY <1>2 DEF Locals
    <3>3. pc = "enroll" /\ role' = role
      BY <1>13 DEF Enroll
    <3> HIDE DEF l
    <3>4. QED
      BY <1>3, <3>1, <3>2, <3>3 DEF Provisions, VerifiedSteps
  <2>2. CASE ~CanJoinRole(local.role, view.client[r].pk)
    BY <1>13, <2>2, NotFoundRefutes DEF Enroll, Refuted, authentik
  <2>3. QED
    BY <2>1, <2>2
<1>14. QED
  BY <1>5, <1>7, <1>8, <1>9, <1>10, <1>11, <1>12, <1>13 DEF Provision

LEMMA SetPasswordMoves ==
  ASSUME Facts, OwnInv, NEW label, SetPassword(label), pc \in {"password", "rotate"},
         IF pc = "password" THEN label \in {"ownRole", "member"}
         ELSE label \in {"rename", "leaveGroup", "joinGroup", "publish"}
  PROVE  Ends \/ PasswordGoesOn
<1> DEFINE l == [local EXCEPT !.password = account'[local.pk].password]
<1>1. \/ Ends
      \/ /\ OnlyRow(local.pk) /\ Go(label, view, l)
         /\ account'[local.pk].password \in FreshPasswords(cur)
  BY SetPasswordEffect
<1>2. l.pk = local.pk /\ l.password = account'[local.pk].password
  BY LocalUpdates DEF Facts, TypeOK, HookTypeOK
<1> HIDE DEF l
<1>3. QED
  BY <1>1, <1>2 DEF PasswordGoesOn, OnlyRow

LEMMA ServeMoves == ASSUME Facts, OwnInv, ServeConsumers PROVE rel' = rel /\ Moves
<1> USE StepSets
<1>1. rel' = rel
  BY DEF ServeConsumers, CleanedUp, CreateAccount, FirstPassword, SetPassword, OwnRole, OwnGrant,
    JoinRole, RotatePassword, Rename, LeaveGroup, JoinGroup, Regroup, Publish, DeleteOrphan, Serve,
    inputs
<1> SUFFICES Moves
  BY <1>1
<1> DEFINE Done == Ends \/ Created \/ PasswordGoesOn \/ Serves \/ Forgets
<1>2. Done => Moves
  BY DEF Moves
<1>3. view \in PeerData /\ local \in Locals
  BY DEF Facts, TypeOK, HookTypeOK
<1>4. CASE CleanedUp
  BY <1>2, <1>4 DEF CleanedUp, Ends
<1>5. CASE CreateAccount
  <2>1. PICK k \in Pks : \E n : /\ account'[k] # Nil
                                /\ Ends \/ Go("password", view, [local EXCEPT !.pk = k, !.name = n])
    BY <1>5, CreateEffect
  <2>2. PICK n : /\ account'[k] # Nil
                 /\ Ends \/ Go("password", view, [local EXCEPT !.pk = k, !.name = n])
    BY <2>1
  <2> DEFINE l == [local EXCEPT !.pk = k, !.name = n]
  <2>3. l.pk = k
    BY <1>3, LocalUpdates
  <2>4. pc = "create"
    BY <1>5 DEF CreateAccount
  <2>5. Ends \/ Go("password", view, l)
    BY <2>2
  <2> HIDE DEF l
  <2>6. QED
    BY <1>2, <2>2, <2>3, <2>4, <2>5 DEF Created
<1>6. CASE FirstPassword
  <2>1. Authorize \in {"ownRole", "member"} /\ pc = "password" /\ SetPassword(Authorize)
    BY <1>6, AuthorizeStep, AtConsumerStep DEF FirstPassword, Facts
  <2>2. QED
    BY <1>2, <2>1, SetPasswordMoves
<1>7. CASE RotatePassword
  <2>1. ReconcileIdentity(cur) \in {"rename", "leaveGroup", "joinGroup", "publish"}
    BY IdentityStepType
  <2>2. pc = "rotate" /\ SetPassword(ReconcileIdentity(cur))
    BY <1>7 DEF RotatePassword
  <2>3. QED
    BY <1>2, <2>1, <2>2, SetPasswordMoves
<1>8. CASE OwnRole
  <2> DEFINE l == [local EXCEPT !.role = role']
  <2>1. pc = "ownRole" /\ (Ends \/ Go("ownGrant", view, l))
    BY <1>8, RaiseShape DEF OwnRole, Answer
  <2>2. l.pk = local.pk /\ l.password = local.password
    BY <1>3, LocalUpdates
  <2> HIDE DEF l
  <2>3. QED
    BY <1>2, <2>1, <2>2 DEF Serves, Alike
<1>9. CASE OwnGrant
  <2>1. pc = "ownGrant" /\ (Ends \/ Go("member", Verified(view, local.role), local))
    BY <1>9, RaiseShape DEF OwnGrant, Answer
  <2>2. Alike(Verified(view, local.role), view)
    BY <1>3, AlikeUpdates
  <2>3. QED
    BY <1>2, <2>1, <2>2 DEF Serves
<1>10. CASE JoinRole
  <2> DEFINE v(c) == [view EXCEPT !.cache = c]
  <2>1. PICK c : \/ Ends
                 \/ /\ Go(MoveGroup(cur, NoGroup), v(c), local) /\ OnlyRow(local.pk)
                    /\ account'[local.pk].member = TRUE /\ view.role = role
    BY <1>10, JoinRoleEffect
  <2>2. Alike(v(c), view)
    BY <1>3, AlikeUpdates
  <2>3. MoveGroup(cur, NoGroup) \in {"leaveGroup", "joinGroup", "publish"}
    BY MoveGroupType
  <2>4. pc = "member" /\ granted' = granted
    BY <1>10 DEF JoinRole
  <2> HIDE DEF v
  <2>5. QED
    BY <1>2, <2>1, <2>2, <2>3, <2>4 DEF Serves, OnlyRow
<1>11. ASSUME NEW label \in {"leaveGroup", "joinGroup", "publish"}, NEW l, Go(label, view, l),
              pc \in {"rename", "leaveGroup", "joinGroup"},
              l.pk = local.pk, l.password = local.password
       PROVE  Serves
  BY <1>11 DEF Serves, Alike
<1>12. CASE Rename
  <2> DEFINE l(n) == [local EXCEPT !.name = n]
             label == MoveGroup(cur, view.client[cur].group)
  <2>1. pc = "rename" /\ (Ends \/ \E n : Go(label, view, l(n)))
    BY <1>12, RenameEffect
  <2>2. \A n : l(n).pk = local.pk /\ l(n).password = local.password
    BY <1>3, LocalUpdates
  <2>3. label \in {"leaveGroup", "joinGroup", "publish"}
    BY MoveGroupType
  <2> HIDE DEF l, label
  <2>4. QED
    BY <1>2, <1>11, <2>1, <2>2, <2>3
<1>13. CASE LeaveGroup \/ JoinGroup
  BY <1>2, <1>11, <1>13, GroupsEffect
<1>14. ASSUME NEW r \in Relations, DeleteOrphan(r) PROVE Moves
  BY <1>2, <1>14, DeleteEffect DEF Forgets
<1>15. QED
  BY <1>4, <1>5, <1>6, <1>7, <1>8, <1>9, <1>10, <1>12, <1>13, <1>14 DEF ServeConsumers, Moves

\* Every step but a loss.
LEMMA StepMoves ==
  ASSUME Facts, OwnInv, [Next]_vars, era' = era
  PROVE  (rel' = rel /\ Moves) \/ Away
<1>1. CASE Provision \/ ServeConsumers
  BY <1>1, ProvisionMoves, ServeMoves
<1>2. CASE StartHook \/ Crash
  BY <1>2 DEF StartHook, Crash, inputs, Moves
<1>3. CASE EndOfHook \/ RequestFails
  <2>1. Ends /\ rel' = rel
    BY <1>3, RaiseShape DEF EndOfHook, RequestFails, Ends, inputs
  <2>2. QED
    BY <2>1 DEF Moves
<1>4. CASE UNCHANGED vars
  BY <1>4 DEF vars, inputs, committed, authentik, hook, Away, Facts, TypeOK, InputsTypeOK
<1>5. CASE Environment \/ \E r \in Relations : LoseSecret(r)
  <2>1. UNCHANGED <<peer, hook, authentik>> /\ pc = "idle"
    BY <1>5, EnvironmentAway
    DEF Environment, ChangeConfig, AddRelation, RemoveRelation, ChangeRequest, LoseSecret
  <2>2. \A r \in Relations : secret'[r] \in {secret[r], Nil}
    BY <1>5 DEF Environment, ChangeConfig, AddRelation, RemoveRelation, ChangeRequest, LoseSecret,
      committed, Facts, TypeOK, CommittedTypeOK
  <2>3. \A r \in Relations : rel'[r] = "active" => rel[r] \in {"active", "new"}
    BY <1>5 DEF Environment, ChangeConfig, AddRelation, RemoveRelation, ChangeRequest, LoseSecret,
      inputs, Facts, TypeOK, InputsTypeOK
  <2>4. QED
    BY <2>1, <2>2, <2>3 DEF Away
<1>6. CASE LoseDatabase \/ LoseOutpost \/ LoseRole
  BY <1>6 DEF LoseDatabase, LoseOutpost, LoseRole, Loss, Facts, TypeOK, DatabaseTypeOK
<1>7. QED
  BY <1>1, <1>2, <1>3, <1>4, <1>5, <1>6 DEF Next, HookStep, Failure

-----------------------------------------------------------------------------
(* Tracked accounts exist and none is forgotten *)

\* The accounts that the databag d tracks for consumers exist.
Exist(d) == \A r \in Active : d.client[r] # Nil => account[d.client[r].pk] # Nil

\* The running hook tracks what was tracked before, but for accounts it saw deleted.
Kept ==
  \A r \in Relations : peer.client[r] # Nil =>
    IF view.client[r] = Nil THEN account[peer.client[r].pk] = Nil /\ rel[r] # "active"
    ELSE view.client[r].pk = peer.client[r].pk

RoleInHand == pc \in {"grant", "enroll"} /\ provider # Nil => role # Nil /\ local.role = role
PeerIsKept == Current(peer) => fresh = FALSE /\ view.outpost = peer.outpost /\ Kept /\ Exist(peer)
SameOutpost == pc \in EnsureSteps /\ fresh = FALSE => view.outpost = peer.outpost
ServedExists == pc \in ConsumerSteps \ {"create"} /\ Current(view) => account[local.pk] # Nil

\* Nobody deletes the role between a hook's finding it and its last use of it.
LeavesRoleInHand == LoseRole => pc \notin {"grant", "enroll"}
RoleStaysInHand == [][LeavesRoleInHand]_vars

KeptInv ==
  /\ RoleInHand
  /\ PeerIsKept
  /\ Current(view) => Exist(view)
  /\ SameOutpost
  /\ ServedExists

ExistNext(d) == \A r \in Relations :
  rel'[r] = "active" /\ d.client[r] # Nil => account'[d.client[r].pk] # Nil

\* No relation comes back, and none with an account comes anew.
RelNext == \A r \in Relations : rel'[r] = "active" => rel[r] \in {"active", "new"}

\* The account a databag tracks.
LEMMA TrackedAccount ==
  ASSUME Facts, NEW d \in {peer, view}, NEW r \in Relations, d.client[r] # Nil
  PROVE  d.client[r].pk \in Pks /\ rel[r] # "new" /\ d.outpost # Nil
  BY DEF Facts, TypeOK, CommittedTypeOK, HookTypeOK, PeerData, Client, Maybe, HookInv, Bag

\* An account of a consumer that is served stays.
LEMMA ConsumerStays ==
  ASSUME Facts, Mild, NEW k \in Pks, account[k] # Nil, rel[Owner(k)] = "active"
  PROVE  account'[k] # Nil
  BY DEF Mild, ActsOnOwn, DatabaseKept

LEMMA ExistStays ==
  ASSUME Facts, OwnInv, KeptInv, Mild, RelNext, NEW d \in {peer, view}, CurrentNext(d)
  PROVE  Current(d) /\ ExistNext(d)
<1>1. Current(d) /\ Own(d) /\ Exist(d)
  BY StillCurrent DEF Mild, OwnInv, KeptInv, PeerIsKept
<1>2. ASSUME NEW r \in Relations, rel'[r] = "active", d.client[r] # Nil
      PROVE  account'[d.client[r].pk] # Nil
  <2>1. d.client[r].pk \in Pks /\ rel[r] = "active"
    BY <1>2, TrackedAccount DEF RelNext
  <2>2. account[d.client[r].pk] # Nil /\ Owner(d.client[r].pk) = r
    BY <1>1, <1>2, <2>1 DEF Own, Exist, Active
  <2>3. QED
    BY <2>1, <2>2, ConsumerStays
<1>3. QED
  BY <1>1, <1>2 DEF ExistNext

\* What the hook may do to the tracking of an account that was tracked before.
ClientsKept ==
  \A r \in Relations : peer.client[r] # Nil =>
    \/ view'.client[r] = view.client[r]
    \/ view.client[r] # Nil /\ view'.client[r] # Nil /\ view'.client[r].pk = view.client[r].pk
    \/ /\ view.client[r] # Nil /\ view'.client[r] = Nil
       /\ account'[view.client[r].pk] = Nil /\ rel[r] # "active"

LEMMA PeerStaysKept ==
  ASSUME Facts, OwnInv, KeptInv, Mild, RelNext, peer' = peer,
         Current(peer) => fresh' = FALSE /\ view'.outpost = view.outpost /\ ClientsKept
  PROVE  PeerIsKept'
<1>1. SUFFICES ASSUME CurrentNext(peer) PROVE fresh' = FALSE /\ view'.outpost = peer'.outpost
                                              /\ Kept' /\ Exist(peer)'
  BY DEF PeerIsKept, Current, CurrentNext
<1>2. Current(peer) /\ ExistNext(peer)
  BY <1>1, ExistStays
<1>3. Own(peer) /\ Kept /\ ClientsKept
  BY <1>2 DEF OwnInv, KeptInv, PeerIsKept
<1>4. ASSUME NEW r \in Relations, peer.client[r] # Nil
      PROVE  IF view'.client[r] = Nil THEN account'[peer.client[r].pk] = Nil /\ rel'[r] # "active"
             ELSE view'.client[r].pk = peer.client[r].pk
  <2>1. /\ peer.client[r].pk \in Pks /\ rel[r] # "new" /\ peer.client[r].pk < nextPk
        /\ rel'[r] = "active" => rel[r] = "active"
    BY <1>3, <1>4, TrackedAccount DEF Own, RelNext
  <2>2. account[peer.client[r].pk] = Nil => account'[peer.client[r].pk] = Nil
    BY <2>1 DEF Mild, DatabaseKept, OwnersKept
  <2>3. QED
    BY <1>3, <1>4, <2>1, <2>2 DEF Kept, ClientsKept
<1>5. QED
  BY <1>2, <1>4 DEF KeptInv, PeerIsKept, Kept, Exist, ExistNext, Active

\* Nothing that would make the hook start over goes wrong while its outpost is there.
LEMMA NothingRefuted ==
  ASSUME Facts, OwnInv, KeptInv, Refuted
  PROVE  ~Current(peer)
<1>1. SUFFICES ASSUME Current(peer) PROVE FALSE
  OBVIOUS
<1>2. Current(view) /\ Exist(view) /\ provider # Nil /\ provider.pk = view.provider
  BY <1>1 DEF KeptInv, PeerIsKept, Current, Facts, OutpostInv, With
<1>3. pc \in {"grant", "enroll"} => local.role = role
  BY <1>2 DEF KeptInv, RoleInHand
<1>4. \A r \in ToEnroll : account[view.client[r].pk] # Nil
  BY <1>2 DEF ToEnroll, Exist
<1>5. QED
  BY <1>2, <1>3, <1>4 DEF Refuted, ProviderExists, Assignable, CanJoinRole, Current

\* The account being served is there after a request made for its consumer.
LEMMA ServedStays ==
  ASSUME Facts, OwnInv, KeptInv, Mild, RelNext, pc \in ConsumerSteps \ {"create"},
         CurrentNext(view)
  PROVE  account'[local.pk] # Nil
<1>1. account[local.pk] # Nil
  BY ExistStays DEF KeptInv, ServedExists
<1>2. local.pk \in Pks /\ rel[Owner(local.pk)] = "active"
  BY <1>1, ServedAccount DEF Owner
<1>3. QED
  BY <1>1, <1>2, ConsumerStays

\* A step after which the databag of the hook tracks no more than before.
LEMMA KeptStep ==
  ASSUME Facts, OwnInv, KeptInv, Mild, RelNext, peer' = peer,
         Current(peer) => fresh' = FALSE /\ view'.outpost = view.outpost /\ ClientsKept,
         CurrentNext(view') => ExistNext(view'),
         RoleInHand', SameOutpost', CurrentNext(view') => ServedExists'
  PROVE  KeptInv'
<1>1. PeerIsKept'
  BY PeerStaysKept
<1>2. Current(view)' => Exist(view)'
  BY DEF Current, CurrentNext, Exist, ExistNext, Active
<1>3. ServedExists'
  BY DEF ServedExists, Current, CurrentNext
<1>4. QED
  BY <1>1, <1>2, <1>3 DEF KeptInv

LEMMA KeptEnds ==
  ASSUME Facts, OwnInv, KeptInv, Mild, rel' = rel, Ends
  PROVE  KeptInv'
<1> USE StepSets
<1>1. RelNext
  BY DEF RelNext, Facts, TypeOK, InputsTypeOK
<1>2. CurrentNext(view) => ExistNext(view)
  BY <1>1, ExistStays
<1>3. CASE Commit
  <2>1. peer' = view /\ view' = view /\ pc' = "idle" /\ fresh' = FALSE
    BY <1>3 DEF Commit, EndHook
  <2>2. Kept'
    BY <2>1 DEF Kept
  <2>3. QED
    BY <1>2, <2>1, <2>2 DEF KeptInv, RoleInHand, PeerIsKept, SameOutpost, ServedExists, Current,
      CurrentNext, Exist, ExistNext, Active
<1>4. CASE BeginServing
  <2>1. peer' = peer /\ view' = view /\ pc' = "serve" /\ fresh' = FALSE
    BY <1>4 DEF BeginServing, committed
  <2>2. ClientsKept
    BY <2>1 DEF ClientsKept
  <2>3. QED
    BY <1>1, <1>2, <2>1, <2>2, KeptStep DEF RoleInHand, SameOutpost, ServedExists
<1>5. QED
  BY <1>3, <1>4 DEF Ends

LEMMA KeptProvisions ==
  ASSUME Facts, OwnInv, KeptInv, Mild, rel' = rel, Provisions
  PROVE  KeptInv'
<1> USE StepSets
<1>1. RelNext
  BY DEF RelNext, Facts, TypeOK, InputsTypeOK
<1>2. PICK label, v, l :
        /\ label \in EnsureSteps \union FreshSteps \union {"cleanup"}
        /\ Go(label, v, l)
        /\ pc \in EnsureSteps \union FreshSteps
        /\ v.client = view.client
        /\ \/ v.outpost = view.outpost
           \/ pc = "token" /\ v.client = NoClients
        /\ label \in EnsureSteps => pc \in EnsureSteps \union {"token"}
        /\ label \in {"grant", "enroll"} =>
             \/ l.role = role' /\ role' # Nil
             \/ pc \in {"grant", "enroll"} /\ l.role = local.role /\ role' = role
  BY DEF Provisions
<1>3. pc' = label /\ view' = v /\ local' = l /\ UNCHANGED <<peer, fresh>>
  BY <1>2 DEF Go, committed
<1>4. pc \in FreshSteps => fresh = TRUE
  BY DEF Facts, HookInv, AtProvisioning
<1>5. Current(peer) => fresh' = FALSE /\ view'.outpost = view.outpost /\ ClientsKept
  BY <1>2, <1>3, <1>4 DEF KeptInv, PeerIsKept, ClientsKept
<1>6. CurrentNext(view') => ExistNext(view')
  <2>1. CASE v.outpost = view.outpost
    BY <1>1, <1>2, <1>3, <2>1, ExistStays DEF CurrentNext, ExistNext
  <2>2. CASE v.client = NoClients
    BY <1>3, <2>2 DEF ExistNext, NoClients
  <2>3. QED
    BY <1>2, <2>1, <2>2
<1>7. RoleInHand'
  <2>1. pc \in {"grant", "enroll"} /\ provider' # Nil => provider # Nil
    BY DEF Mild, DatabaseKept
  <2>2. QED
    BY <1>2, <1>3, <2>1 DEF KeptInv, RoleInHand
<1>8. SameOutpost'
  BY <1>2, <1>3, <1>4 DEF KeptInv, SameOutpost
<1>9. ServedExists'
  BY <1>2, <1>3 DEF ServedExists
<1>10. QED
  BY <1>1, <1>3, <1>5, <1>6, <1>7, <1>8, <1>9, KeptStep

\* A step for a consumer: the databag stays, and the account is there if it was.
LEMMA KeptServing ==
  ASSUME Facts, OwnInv, KeptInv, Mild, rel' = rel,
         NEW label \in ConsumerSteps, NEW v, NEW l, Go(label, v, l), Alike(v, view),
         pc \in ConsumerSteps, CurrentNext(view) => account'[l.pk] # Nil
  PROVE  KeptInv'
<1> USE StepSets
<1>1. RelNext
  BY DEF RelNext, Facts, TypeOK, InputsTypeOK
<1>2. pc' = label /\ view' = v /\ local' = l /\ UNCHANGED <<peer, fresh>>
  BY DEF Go, committed
<1>3. Current(peer) => fresh' = FALSE /\ view'.outpost = view.outpost /\ ClientsKept
  BY <1>2 DEF KeptInv, PeerIsKept, ClientsKept, Alike
<1>4. CurrentNext(view') => CurrentNext(view) /\ ExistNext(view')
  BY <1>1, <1>2, ExistStays DEF CurrentNext, ExistNext, Alike
<1>5. CurrentNext(view') => ServedExists'
  BY <1>2, <1>4 DEF ServedExists
<1>6. QED
  BY <1>1, <1>2, <1>3, <1>4, <1>5, KeptStep DEF RoleInHand, SameOutpost

LEMMA KeptForgets ==
  ASSUME Facts, OwnInv, KeptInv, Mild, rel' = rel, Forgets
  PROVE  KeptInv'
<1>1. RelNext
  BY DEF RelNext, Facts, TypeOK, InputsTypeOK
<1>2. PICK r \in Relations :
        /\ pc = "cleanup" /\ view.client[r] # Nil /\ rel[r] # "active"
        /\ account'[view.client[r].pk] = Nil
        /\ Go("cleanup", [view EXCEPT !.client[r] = Nil], local)
  BY DEF Forgets
<1>3. /\ pc' = "cleanup" /\ view' = [view EXCEPT !.client[r] = Nil]
      /\ UNCHANGED <<peer, fresh, local>>
  BY <1>2 DEF Go, committed
<1>4. /\ view'.client[r] = Nil /\ view'.outpost = view.outpost
      /\ \A s \in Relations \ {r} : view'.client[s] = view.client[s]
  BY <1>3, ClientUpdates DEF Facts, TypeOK, HookTypeOK
<1>5. ClientsKept
  BY <1>2, <1>4 DEF ClientsKept
<1>6. Current(peer) => fresh' = FALSE
  BY <1>3 DEF KeptInv, PeerIsKept
<1>7. CurrentNext(view') => ExistNext(view')
  BY <1>1, <1>4, ExistStays DEF CurrentNext, ExistNext
<1>8. QED
  BY <1>1, <1>3, <1>4, <1>5, <1>6, <1>7, KeptStep, StepSets
  DEF RoleInHand, SameOutpost, ServedExists

LEMMA KeptPublish ==
  ASSUME Facts, OwnInv, KeptInv, Mild, rel' = rel, Publish
  PROVE  KeptInv'
<1> DEFINE c == [pk |-> local.pk, name |-> local.name,
                 user |-> request[cur].user, group |-> request[cur].group]
<1> USE StepSets
<1>1. RelNext
  BY DEF RelNext, Facts, TypeOK, InputsTypeOK
<1>2. /\ pc = "publish" /\ pc' = "serve" /\ view' = [view EXCEPT !.client[cur] = c]
      /\ UNCHANGED <<peer, fresh>>
  BY DEF Publish, committed
<1>3. c.pk = local.pk
  OBVIOUS
<1>4. c # Nil
  BY <1>2, NilAssumption, ServedAccount DEF Publish, Facts, TypeOK, HookTypeOK, InputsTypeOK,
    LocalsInUse, Requests, Client
<1> HIDE DEF c
<1>5. cur \in Relations /\ cur \in Active
  BY <1>2, ServedAccount DEF Active
<1>6. /\ view'.client[cur] = c /\ view'.outpost = view.outpost
      /\ \A s \in Relations \ {cur} : view'.client[s] = view.client[s]
  <2>1. view \in PeerData
    BY DEF Facts, TypeOK, HookTypeOK
  <2>2. LET w == [view EXCEPT !.client[cur] = c] IN
        /\ w.client[cur] = c /\ w.outpost = view.outpost
        /\ \A s \in Relations \ {cur} : w.client[s] = view.client[s]
    BY <1>5, <2>1, ClientUpdates
  <2>3. QED
    BY <1>2, <2>2
<1>7. Current(peer) => fresh' = FALSE /\ ClientsKept
  <2>1. view.client[cur] # Nil => local.pk = view.client[cur].pk
    BY <1>2 DEF Facts, HookInv, AtConsumer
  <2>2. Current(peer) /\ peer.client[cur] # Nil => view.client[cur] # Nil
    BY <1>5 DEF KeptInv, PeerIsKept, Kept, Active
  <2>3. QED
    BY <1>2, <1>3, <1>4, <1>6, <2>1, <2>2 DEF KeptInv, PeerIsKept, ClientsKept
<1>8. CurrentNext(view') => ExistNext(view')
  <2>1. SUFFICES ASSUME CurrentNext(view) PROVE ExistNext(view')
    BY <1>6 DEF CurrentNext
  <2>2. ExistNext(view) /\ account'[local.pk] # Nil
    BY <1>1, <1>2, <2>1, ExistStays, ServedStays
  <2>3. QED
    BY <1>3, <1>6, <2>2 DEF ExistNext
<1>9. QED
  BY <1>1, <1>2, <1>6, <1>7, <1>8, KeptStep DEF RoleInHand, SameOutpost, ServedExists

LEMMA KeptServe ==
  ASSUME Facts, OwnInv, KeptInv, Mild, rel' = rel, NEW r \in Relations, Serve(r)
  PROVE  KeptInv'
<1> USE StepSets
<1>1. RelNext
  BY DEF RelNext, Facts, TypeOK, InputsTypeOK
<1>2. /\ pc = "serve" /\ r \in todo /\ pc' = FirstStep(r) /\ view' = view
      /\ UNCHANGED <<peer, fresh>>
  BY DEF Serve, committed
<1>3. /\ pc' \in {"create", "rotate", "rename", "publish", "leaveGroup", "joinGroup"}
      /\ pc' = "create" <=> view.client[r] = Nil
  BY <1>2, IdentityStepType DEF FirstStep
<1>4. view.client[r] # Nil => local'.pk = view.client[r].pk
  BY DEF Serve, NoLocals
<1>5. CurrentNext(view') => ExistNext(view')
  BY <1>1, <1>2, ExistStays
<1>6. rel'[r] = "active"
  BY <1>2 DEF Facts, HookInv, AtConsumer, Active
<1>7. CurrentNext(view') => ServedExists'
  BY <1>2, <1>3, <1>4, <1>5, <1>6 DEF ServedExists, ExistNext
<1>8. Current(peer) => fresh' = FALSE /\ ClientsKept
  BY <1>2 DEF KeptInv, PeerIsKept, ClientsKept
<1>9. QED
  BY <1>1, <1>2, <1>3, <1>5, <1>7, <1>8, KeptStep DEF RoleInHand, SameOutpost

LEMMA KeptMoves ==
  ASSUME Facts, OwnInv, KeptInv, Mild, rel' = rel, Moves
  PROVE  KeptInv'
<1> USE StepSets
<1>1. RelNext
  BY DEF RelNext, Facts, TypeOK, InputsTypeOK
<1>2. CASE Ends
  BY <1>2, KeptEnds
<1>3. CASE StartsOver /\ Refuted /\ UNCHANGED authentik
  <2>1. /\ pc' = "provider" /\ peer' = peer /\ view' = [view EXCEPT !.client = NoClients]
    BY <1>3 DEF StartsOver, Reprovision, committed
  <2>2. view'.client = NoClients
    BY <2>1 DEF Facts, TypeOK, HookTypeOK, PeerData
  <2>3. ~Current(peer) /\ ExistNext(view')
    BY <1>3, <2>2, NothingRefuted DEF ExistNext, NoClients
  <2>4. QED
    BY <1>1, <2>1, <2>3, KeptStep DEF RoleInHand, SameOutpost, ServedExists
<1>4. CASE Provisions
  BY <1>4, KeptProvisions
<1>5. CASE Created \/ PasswordGoesOn \/ Serves
  <2>1. CASE Created
    BY <2>1, KeptServing DEF Created, Alike
  <2>2. CASE PasswordGoesOn
    BY <2>2, KeptServing DEF PasswordGoesOn, Alike
  <2>3. CASE Serves
    BY <1>1, <2>3, ServedStays, KeptServing DEF Serves
  <2>4. QED
    BY <1>5, <2>1, <2>2, <2>3
<1>6. CASE Forgets \/ Publish \/ \E r \in Relations : Serve(r)
  BY <1>6, KeptForgets, KeptPublish, KeptServe
<1>7. CASE StartHook
  <2>1. /\ pc = "idle" /\ pc' = (IF Known THEN "check" ELSE "provider") /\ fresh' = ~Known
        /\ UNCHANGED <<peer, view>>
    BY <1>7 DEF StartHook, committed
  <2>2. view = peer
    BY <2>1 DEF Facts, HookInv, AtProvisioning
  <2>3. Current(peer) => Known
    BY <2>2 DEF Facts, HookInv, Bag, Known, Current
  <2>4. Known => fresh' = FALSE
    BY <2>1
  <2>5. CurrentNext(view') => ExistNext(view')
    BY <1>1, <2>1, ExistStays
  <2>6. QED
    BY <1>1, <2>1, <2>2, <2>3, <2>4, <2>5, KeptStep
    DEF RoleInHand, SameOutpost, ServedExists, ClientsKept
<1>8. CASE Crash
  <2>1. /\ pc' = "idle" /\ fresh' = FALSE /\ view' = peer /\ peer' = peer
    BY <1>8 DEF Crash, EndHook, committed
  <2>2. CurrentNext(peer) => ExistNext(peer)
    BY <1>1, ExistStays
  <2>3. Kept'
    BY <2>1 DEF Kept
  <2>4. QED
    BY <2>1, <2>2, <2>3
    DEF KeptInv, RoleInHand, PeerIsKept, SameOutpost, ServedExists, Current, CurrentNext, Exist,
      ExistNext, Active
<1>9. QED
  BY <1>2, <1>3, <1>4, <1>5, <1>6, <1>7, <1>8 DEF Moves

LEMMA KeptAway ==
  ASSUME Facts, OwnInv, KeptInv, Mild, Away
  PROVE  KeptInv'
<1>1. RelNext /\ UNCHANGED <<peer, view, pc, fresh, local, role, provider, account>>
  BY DEF Away, RelNext, hook, authentik
<1>2. CurrentNext(view') => ExistNext(view')
  BY <1>1, ExistStays
<1>3. Current(peer) => fresh' = FALSE /\ ClientsKept
  BY <1>1 DEF KeptInv, PeerIsKept, ClientsKept
<1>4. RoleInHand' /\ SameOutpost' /\ ServedExists'
  BY <1>1 DEF Away, authentik, KeptInv, RoleInHand, SameOutpost, ServedExists, Current
<1>5. QED
  BY <1>1, <1>2, <1>3, <1>4, KeptStep

\* A lost role takes no account along, every other loss takes the outpost.
LEMMA RoleLossKeeps ==
  ASSUME Facts, LoseRole
  PROVE  /\ UNCHANGED <<outpost, provider, peer, view, pc, fresh, out, cur, local, rel, secret>>
         /\ \A k \in Pks : IF account[k] = Nil THEN account'[k] = Nil
                          ELSE account'[k] # Nil /\ account'[k].password = account[k].password
<1>1. UNCHANGED <<outpost, provider, peer, view, pc, fresh, out, cur, local, rel, secret>>
  BY DEF LoseRole, committed, hook, inputs
<1>2. ASSUME NEW k \in Pks, account[k] # Nil
      PROVE  account'[k] # Nil /\ account'[k].password = account[k].password
  <2> DEFINE row == [account[k] EXCEPT !.member = FALSE]
  <2>1. account[k] \in Account
    BY <1>2 DEF Facts, TypeOK, DatabaseTypeOK, Maybe
  <2>2. row \in Account /\ row.password = account[k].password
    BY <2>1 DEF Account
  <2>3. account'[k] = row
    BY <1>2 DEF LoseRole
  <2>4. QED
    BY <2>2, <2>3, NilAssumption
<1>3. QED
  BY <1>1, <1>2 DEF LoseRole

LEMMA KeptLoss ==
  ASSUME Facts, OwnInv, KeptInv, LoseDatabase \/ LoseOutpost \/ LoseRole, LeavesRoleInHand
  PROVE  KeptInv'
<1>1. CASE LoseDatabase \/ LoseOutpost
  <2>1. /\ outpost' = Nil /\ UNCHANGED <<peer, view, pc, fresh, local>>
        /\ provider' = Nil \/ UNCHANGED <<role, provider>>
    BY <1>1 DEF LoseDatabase, LoseOutpost, committed, hook
  <2>2. QED
    BY <2>1 DEF KeptInv, RoleInHand, PeerIsKept, SameOutpost, ServedExists, Current
<1>2. CASE LoseRole
  <2>1. /\ UNCHANGED <<outpost, peer, view, pc, fresh, local, rel>>
        /\ \A k \in Pks : account'[k] = Nil <=> account[k] = Nil
    BY <1>2, RoleLossKeeps
  <2>2. RoleInHand' /\ SameOutpost'
    BY <1>2, <2>1 DEF LeavesRoleInHand, KeptInv, RoleInHand, SameOutpost
  <2>3. ASSUME NEW d \in {peer, view}, Exist(d)
        PROVE  \A r \in Active : d.client[r] # Nil => account'[d.client[r].pk] # Nil
    BY <2>1, <2>3, TrackedAccount DEF Exist, Active
  <2>4. Kept => Kept'
    BY <2>1, TrackedAccount DEF Kept
  <2>5. ServedExists'
    BY <2>1, ServedAccount DEF KeptInv, ServedExists, Current
  <2>6. PeerIsKept' /\ (Current(view)' => Exist(view)')
    BY <2>1, <2>3, <2>4 DEF KeptInv, PeerIsKept, Current, Exist, Active
  <2>7. QED
    BY <2>2, <2>5, <2>6 DEF KeptInv
<1>3. QED
  BY <1>1, <1>2

LEMMA KeptInductive ==
  ASSUME Facts, OwnInv, KeptInv, [Next]_vars, LeavesRoleInHand
  PROVE  KeptInv'
<1>1. CASE era' = era
  BY <1>1, StepMild, StepMoves, KeptMoves, KeptAway
<1>2. CASE era' # era
  BY <1>2, StepLost, KeptLoss
<1>3. QED
  BY <1>1, <1>2

\* A behaviour that keeps the role keeps it at every step, the idle ones included.
LEMMA RoleAlwaysLeftInHand ==
  ASSUME Facts, [LeavesRoleInHand]_vars
  PROVE  LeavesRoleInHand
<1>1. CASE UNCHANGED vars
  <2>1. era' = era /\ era \in Nat
    BY <1>1 DEF vars, authentik, Facts, TypeOK, DatabaseTypeOK
  <2>2. QED
    BY <2>1 DEF LeavesRoleInHand, LoseRole, Loss
<1>2. QED
  BY <1>1

LEMMA KeptInvHolds == Spec /\ RoleStaysInHand => []KeptInv
<1>1. Init => KeptInv
  BY StepSets DEF Init, EmptyPeer, KeptInv, RoleInHand, PeerIsKept, SameOutpost, ServedExists, Current
<1>2. Basics /\ OwnInv /\ KeptInv /\ [Next]_vars /\ [LeavesRoleInHand]_vars => KeptInv'
  BY NextType, RoleAlwaysLeftInHand, KeptInductive DEF Basics, Facts
<1>3. QED
  BY <1>1, <1>2, BasicsHold, OwnInvHolds, PTL DEF Spec, RoleStaysInHand

\* What a hook commits tracks every account that was tracked and still exists.
LEMMA TrackingStep ==
  ASSUME Facts, OwnInv, KeptInv, [Next]_vars
  PROVE  \A r \in Relations : peer.client[r] # Nil /\ peer'.client[r] = Nil =>
           account[peer.client[r].pk] = Nil \/ peer.outpost # outpost
<1>1. peer' \in {peer, view}
  <2>1. CASE era' = era
    <3>1. CASE Moves
      BY <3>1 DEF Moves, Ends, Commit, BeginServing, StartsOver, Reprovision, Provisions, Created,
        PasswordGoesOn, Serves, Forgets, Go, Publish, Serve, StartHook, Crash, committed
    <3>2. QED
      BY <2>1, <3>1, StepMoves DEF Away
  <2>2. CASE era' # era
    BY <2>2, StepLost DEF LoseDatabase, LoseOutpost, LoseRole, committed
  <2>3. QED
    BY <2>1, <2>2
<1>2. ASSUME NEW r \in Relations, peer.client[r] # Nil, peer'.client[r] = Nil, peer.outpost = outpost
      PROVE  account[peer.client[r].pk] = Nil
  <2>1. Current(peer)
    BY <1>2, TrackedAccount DEF Current
  <2>2. view.client[r] = Nil /\ Kept
    BY <1>1, <1>2, <2>1 DEF KeptInv, PeerIsKept
  <2>3. QED
    BY <1>2, <2>2 DEF Kept
<1>3. QED
  BY <1>2

\* The tracking of an account is dropped only when that account is gone, or its outpost is:
\* a hook starts over, and forgets every account, only for an outpost that Authentik no
\* longer has, unless the role it has just found is deleted before it has used it
\* (_verify_and_update_existing_resources, _cleanup_orphaned_relations).
THEOREM TrackingIsKept == Spec /\ RoleStaysInHand => TrackingKeptUntilGone
<1>1. Basics /\ OwnInv /\ KeptInv /\ [Next]_vars =>
        \A r \in Relations : peer.client[r] # Nil /\ peer'.client[r] = Nil =>
          account[peer.client[r].pk] = Nil \/ peer.outpost # outpost
  BY NextType, TrackingStep DEF Basics, Facts
<1>2. QED
  BY <1>1, BasicsHold, OwnInvHolds, KeptInvHolds, PTL DEF Spec, TrackingKeptUntilGone

-----------------------------------------------------------------------------
(* Tracked accounts have the password of their bind secret *)

PeerSecret ==
  Current(peer) =>
    \A r \in Active : peer.client[r] # Nil /\ secret[r] # Nil =>
      account[peer.client[r].pk].password = secret[r]

\* In a running hook, the password it is about to publish.
ViewSecret ==
  Current(view) =>
    \A r \in Active : view.client[r] # Nil =>
      IF out[r] # Nil THEN account[view.client[r].pk].password = out[r].password
      ELSE secret[r] # Nil => account[view.client[r].pk].password = secret[r]

ServedSecret ==
  pc \in ConsumerSteps \ {"create", "password", "rotate"} /\ Current(view) =>
    account[local.pk].password = local.password

SecretInv == PeerSecret /\ ViewSecret /\ ServedSecret

\* The password of a tracked account changes only while no secret has it.
LEMMA PasswordStays ==
  ASSUME Facts, OwnInv, KeptInv, Mild, RelNext, NEW d \in {peer, view}, CurrentNext(d),
         NEW r \in Relations, rel'[r] = "active", d.client[r] # Nil
  PROVE  /\ rel[r] = "active" /\ Current(d)
         /\ \/ account'[d.client[r].pk].password = account[d.client[r].pk].password
            \/ secret[r] = Nil /\ out[r] = Nil
<1> DEFINE k == d.client[r].pk
<1> USE StepSets
<1>1. k \in Pks /\ rel[r] = "active" /\ Current(d)
  BY TrackedAccount, ExistStays DEF RelNext
<1>2. account'[k] # Nil /\ account[k] # Nil /\ Owner(k) = r
  BY <1>1, ExistStays DEF ExistNext, OwnInv, Own, KeptInv, PeerIsKept, Exist, Active
<1>3. CASE pc \in {"password", "rotate"} /\ k = local.pk
  <2>1. cur = r /\ out[r] = Nil
    BY <1>2, <1>3, ServedAccount, AtConsumerStep DEF Owner, Facts
  <2>2. view.client[r] # Nil
    BY <1>1, <2>1 DEF KeptInv, PeerIsKept, Kept
  <2>3. pc = "rotate" /\ secret[r] = Nil
    BY <1>3, <2>1, <2>2 DEF Facts, HookInv, AtConsumer
  <2>4. QED
    BY <1>1, <2>1, <2>3
<1>4. CASE ~(pc \in {"password", "rotate"} /\ k = local.pk)
  BY <1>1, <1>2, <1>4 DEF Mild, PasswordsSet
<1>5. QED
  BY <1>3, <1>4

\* No secret is written before the hook ends.
SecretsFall == \A r \in Relations : secret'[r] \in {secret[r], Nil}

LEMMA PeerSecretStays ==
  ASSUME Facts, OwnInv, KeptInv, SecretInv, Mild, RelNext, SecretsFall, peer' = peer
  PROVE  PeerSecret'
<1>1. ASSUME CurrentNext(peer), NEW r \in Relations, rel'[r] = "active", peer.client[r] # Nil,
             secret'[r] # Nil
      PROVE  account'[peer.client[r].pk].password = secret'[r]
  BY <1>1, PasswordStays DEF SecretsFall, SecretInv, PeerSecret, Active
<1>2. QED
  BY <1>1 DEF PeerSecret, Current, CurrentNext, Active

LEMMA ViewSecretStays ==
  ASSUME Facts, OwnInv, KeptInv, SecretInv, Mild, RelNext, SecretsFall, out' = out,
         Tracks(view', view)
  PROVE  ViewSecret'
<1>1. ASSUME CurrentNext(view'), NEW r \in Relations, rel'[r] = "active", view'.client[r] # Nil
      PROVE  IF out[r] # Nil THEN account'[view'.client[r].pk].password = out[r].password
             ELSE secret'[r] # Nil => account'[view'.client[r].pk].password = secret'[r]
  <2>1. view.client[r] # Nil /\ view'.client[r] = view.client[r] /\ CurrentNext(view)
    BY <1>1 DEF Tracks, CurrentNext
  <2>2. QED
    BY <1>1, <2>1, PasswordStays DEF SecretsFall, SecretInv, ViewSecret, Active
<1>2. QED
  BY <1>1 DEF ViewSecret, Current, CurrentNext, Active

\* A step on which no secret is written and the hook tracks no more than before.
LEMMA SecretStep ==
  ASSUME Facts, OwnInv, KeptInv, SecretInv, Mild, RelNext, SecretsFall, peer' = peer, out' = out,
         Tracks(view', view) \/ view'.client = NoClients,
         ServedSecret'
  PROVE  SecretInv'
<1>1. CASE Tracks(view', view)
  BY <1>1, PeerSecretStays, ViewSecretStays DEF SecretInv
<1>2. CASE view'.client = NoClients
  <2>1. ViewSecret'
    BY <1>2 DEF ViewSecret, NoClients, Active
  <2>2. QED
    BY <2>1, PeerSecretStays DEF SecretInv
<1>3. QED
  BY <1>1, <1>2

LEMMA SecretEnds ==
  ASSUME Facts, OwnInv, KeptInv, SecretInv, Mild, rel' = rel, Ends
  PROVE  SecretInv'
<1> USE StepSets
<1>1. RelNext /\ Tracks(view, view)
  BY DEF RelNext, Facts, TypeOK, InputsTypeOK, Tracks
<1>2. CASE Commit
  <2>1. /\ peer' = view /\ view' = view /\ pc' = "idle" /\ out' = NoOutput
        /\ \A r \in Relations : secret'[r] = IF out[r] = Nil THEN secret[r] ELSE out[r].password
    BY <1>2 DEF Commit, EndHook
  <2>2. ASSUME CurrentNext(view), NEW r \in Relations, rel'[r] = "active", view.client[r] # Nil,
               secret'[r] # Nil
        PROVE  account'[view.client[r].pk].password = secret'[r]
    BY <1>1, <2>1, <2>2, PasswordStays DEF SecretInv, ViewSecret, Active
  <2>3. QED
    BY <2>1, <2>2
    DEF SecretInv, PeerSecret, ViewSecret, ServedSecret, Current, CurrentNext, Active, NoOutput
<1>3. CASE BeginServing
  <2>1. UNCHANGED <<peer, view, out, secret>> /\ pc' = "serve"
    BY <1>3 DEF BeginServing, committed
  <2>2. QED
    BY <1>1, <2>1, SecretStep DEF SecretsFall, ServedSecret
<1>4. QED
  BY <1>2, <1>3 DEF Ends

LEMMA SecretServing ==
  ASSUME Facts, OwnInv, KeptInv, SecretInv, Mild, rel' = rel,
         NEW label, NEW v, NEW l, Go(label, v, l), Alike(v, view),
         label = "password" \/ account'[l.pk].password = l.password \/ ~CurrentNext(view)
  PROVE  SecretInv'
<1>1. RelNext
  BY DEF RelNext, Facts, TypeOK, InputsTypeOK
<1>2. pc' = label /\ view' = v /\ local' = l /\ UNCHANGED <<peer, out, secret>>
  BY DEF Go, committed
<1>3. Tracks(v, view)
  BY DEF Alike, Tracks
<1>4. ServedSecret'
  BY <1>2 DEF ServedSecret, Current, CurrentNext, Alike
<1>5. QED
  BY <1>1, <1>2, <1>3, <1>4, SecretStep DEF SecretsFall

LEMMA SecretPublish ==
  ASSUME Facts, OwnInv, KeptInv, SecretInv, Mild, rel' = rel, Publish
  PROVE  SecretInv'
<1> DEFINE c == [pk |-> local.pk, name |-> local.name,
                 user |-> request[cur].user, group |-> request[cur].group]
           o == [name |-> local.name, config |-> config, password |-> local.password]
<1> USE StepSets
<1>1. RelNext
  BY DEF RelNext, Facts, TypeOK, InputsTypeOK
<1>2. /\ pc = "publish" /\ pc' = "serve" /\ view' = [view EXCEPT !.client[cur] = c]
      /\ out' = [out EXCEPT ![cur] = o]
      /\ UNCHANGED <<peer, secret>> /\ UNCHANGED authentik
  BY DEF Publish, committed
<1>3. c.pk = local.pk /\ o.password = local.password
  OBVIOUS
<1>4. o \in Output
  BY <1>2, StepSets DEF Output, Facts, TypeOK, LocalsInUse, InputsTypeOK
<1>5. o # Nil
  BY <1>4, NilAssumption
<1> HIDE DEF c, o
<1>6. cur \in Relations
  BY <1>2, ServedAccount
<1>7. /\ view'.client[cur] = c /\ view'.outpost = view.outpost
      /\ \A s \in Relations \ {cur} : view'.client[s] = view.client[s]
  BY <1>2, <1>6, ClientUpdates DEF Facts, TypeOK, HookTypeOK
<1>8. out'[cur] = o /\ \A s \in Relations \ {cur} : out'[s] = out[s]
  BY <1>2, <1>6 DEF Facts, TypeOK, HookTypeOK
<1>9. account' = account /\ outpost' = outpost
  BY <1>2 DEF authentik
<1>10. ViewSecret'
  <2>1. SUFFICES ASSUME Current(view) PROVE ViewSecret'
    BY <1>7, <1>9 DEF ViewSecret, Current
  <2>2. account[local.pk].password = local.password
    BY <1>2, <2>1 DEF SecretInv, ServedSecret
  <2>3. QED
    BY <1>2, <1>3, <1>5, <1>7, <1>8, <1>9, <2>1, <2>2 DEF SecretInv, ViewSecret, Active
<1>11. PeerSecret' /\ ServedSecret'
  BY <1>1, <1>2, PeerSecretStays DEF SecretsFall, ServedSecret
<1>12. QED
  BY <1>10, <1>11 DEF SecretInv

LEMMA SecretServe ==
  ASSUME Facts, OwnInv, KeptInv, SecretInv, Mild, rel' = rel, NEW r \in Relations, Serve(r)
  PROVE  SecretInv'
<1> USE StepSets
<1>1. RelNext /\ Tracks(view, view)
  BY DEF RelNext, Facts, TypeOK, InputsTypeOK, Tracks
<1>2. /\ pc = "serve" /\ r \in todo /\ pc' = FirstStep(r)
      /\ UNCHANGED <<peer, view, out, secret>> /\ UNCHANGED authentik
  BY DEF Serve, committed
<1>3. /\ pc' = "create" <=> view.client[r] = Nil
      /\ pc' = "rotate" <=> view.client[r] # Nil /\ secret[r] = Nil
  BY <1>2, IdentityStepType DEF FirstStep
<1>4. view.client[r] # Nil => local'.pk = view.client[r].pk /\ local'.password = secret[r]
  BY DEF Serve, NoLocals
<1>5. r \in Active /\ out[r] = Nil
  BY <1>2 DEF Facts, HookInv, AtConsumer, Outputs
<1>6. ServedSecret'
  BY <1>2, <1>3, <1>4, <1>5 DEF ServedSecret, SecretInv, ViewSecret, Current, authentik
<1>7. QED
  BY <1>1, <1>2, <1>6, SecretStep DEF SecretsFall

LEMMA SecretMoves ==
  ASSUME Facts, OwnInv, KeptInv, SecretInv, Mild, rel' = rel, Moves
  PROVE  SecretInv'
<1> USE StepSets
<1>1. RelNext
  BY DEF RelNext, Facts, TypeOK, InputsTypeOK
<1>2. CASE Ends
  BY <1>2, SecretEnds
<1>3. CASE StartsOver
  <2>1. /\ pc' = "provider" /\ view' = [view EXCEPT !.client = NoClients]
        /\ UNCHANGED <<peer, out, secret>>
    BY <1>3 DEF StartsOver, Reprovision, committed
  <2>2. view'.client = NoClients
    BY <2>1 DEF Facts, TypeOK, HookTypeOK, PeerData
  <2>3. QED
    BY <1>1, <2>1, <2>2, SecretStep DEF SecretsFall, ServedSecret
<1>4. CASE Provisions
  <2>1. PICK label, v, l :
          /\ label \in EnsureSteps \union FreshSteps \union {"cleanup"}
          /\ Go(label, v, l)
          /\ v.client = view.client
          /\ \/ v.outpost = view.outpost
             \/ pc = "token" /\ v.client = NoClients
    BY <1>4 DEF Provisions
  <2>2. pc' = label /\ view' = v /\ UNCHANGED <<peer, out, secret>>
    BY <2>1 DEF Go, committed
  <2>3. Tracks(view', view) \/ view'.client = NoClients
    BY <2>1, <2>2 DEF Tracks
  <2>4. pc' \notin ConsumerSteps
    BY <2>1, <2>2
  <2>5. ServedSecret'
    BY <2>4 DEF ServedSecret
  <2>6. SecretsFall
    BY <2>2 DEF SecretsFall
  <2>7. QED
    BY <1>1, <2>2, <2>3, <2>5, <2>6, SecretStep
<1>5. CASE Created \/ PasswordGoesOn
  <2>1. Alike(view, view)
    BY DEF Alike
  <2>2. CASE Created
    BY <2>1, <2>2, SecretServing DEF Created
  <2>3. CASE PasswordGoesOn
    BY <2>1, <2>3, SecretServing DEF PasswordGoesOn
  <2>4. QED
    BY <1>5, <2>2, <2>3
<1>6. CASE Serves
  <2>1. PICK label, v, l :
          /\ Go(label, v, l) /\ pc \in ConsumerSteps \ {"create", "password", "rotate"}
          /\ Alike(v, view) /\ l.pk = local.pk /\ l.password = local.password
    BY <1>6 DEF Serves
  <2>2. ASSUME CurrentNext(view) PROVE account'[local.pk].password = local.password
    <3>1. Current(view) /\ account'[local.pk] # Nil /\ local.pk \in Pks
      BY <1>1, <2>1, <2>2, ExistStays, ServedStays, ServedAccount
    <3>2. account[local.pk] # Nil /\ account[local.pk].password = local.password
      BY <2>1, <3>1 DEF KeptInv, ServedExists, SecretInv, ServedSecret
    <3>3. QED
      BY <2>1, <3>1, <3>2 DEF Mild, PasswordsSet
  <2>3. QED
    BY <2>1, <2>2, SecretServing
<1>7. CASE Forgets
  <2>1. PICK r \in Relations : Go("cleanup", [view EXCEPT !.client[r] = Nil], local)
    BY <1>7 DEF Forgets
  <2>2. /\ pc' = "cleanup" /\ view' = [view EXCEPT !.client[r] = Nil]
        /\ UNCHANGED <<peer, out, secret>>
    BY <2>1 DEF Go, committed
  <2>3. Tracks(view', view)
    BY <2>2, ClientUpdates DEF Facts, TypeOK, HookTypeOK, Tracks
  <2>4. QED
    BY <1>1, <2>2, <2>3, SecretStep DEF SecretsFall, ServedSecret
<1>8. CASE Publish \/ \E r \in Relations : Serve(r)
  BY <1>8, SecretPublish, SecretServe
<1>9. CASE StartHook
  <2>1. pc' \in {"check", "provider"} /\ UNCHANGED <<peer, view, out, secret>>
    BY <1>9 DEF StartHook, committed
  <2>2. QED
    BY <1>1, <2>1, SecretStep DEF SecretsFall, ServedSecret, Tracks
<1>10. CASE Crash
  <2>1. /\ pc' = "idle" /\ view' = peer /\ out' = NoOutput
        /\ UNCHANGED <<peer, secret>>
    BY <1>10 DEF Crash, EndHook, committed
  <2>2. PeerSecret'
    BY <1>1, <2>1, PeerSecretStays DEF SecretsFall
  <2>3. QED
    BY <2>1, <2>2
    DEF SecretInv, PeerSecret, ViewSecret, ServedSecret, Current, Active, NoOutput
<1>11. QED
  BY <1>2, <1>3, <1>4, <1>5, <1>6, <1>7, <1>8, <1>9, <1>10 DEF Moves

LEMMA SecretAway ==
  ASSUME Facts, OwnInv, KeptInv, SecretInv, Mild, Away
  PROVE  SecretInv'
<1>1. RelNext /\ SecretsFall /\ UNCHANGED <<peer, view, pc, out, local, account, outpost>>
  BY DEF Away, RelNext, SecretsFall, hook, authentik
<1>2. Tracks(view', view)
  BY <1>1 DEF Tracks
<1>3. ServedSecret'
  BY <1>1 DEF SecretInv, ServedSecret, Current
<1>4. QED
  BY <1>1, <1>2, <1>3, SecretStep

LEMMA SecretLoss ==
  ASSUME Facts, OwnInv, KeptInv, SecretInv, LoseDatabase \/ LoseOutpost \/ LoseRole
  PROVE  SecretInv'
<1>1. CASE LoseDatabase \/ LoseOutpost
  <2>1. outpost' = Nil /\ UNCHANGED <<peer, view>>
    BY <1>1 DEF LoseDatabase, LoseOutpost, committed, hook
  <2>2. QED
    BY <2>1 DEF SecretInv, PeerSecret, ViewSecret, ServedSecret, Current
<1>2. CASE LoseRole
  <2>1. UNCHANGED <<outpost, peer, view, pc, out, local, rel, secret>>
    BY <1>2, RoleLossKeeps
  <2>2. ASSUME NEW k \in Pks, account[k] # Nil
        PROVE  account'[k].password = account[k].password
    BY <1>2, <2>2, RoleLossKeeps
  <2>3. ASSUME NEW d \in {peer, view}, Current(d), NEW r \in Active, d.client[r] # Nil
        PROVE  account'[d.client[r].pk].password = account[d.client[r].pk].password
    <3>1. Exist(d)
      BY <2>3 DEF KeptInv, PeerIsKept
    <3>2. QED
      BY <2>2, <2>3, <3>1, TrackedAccount DEF Exist, Active
  <2>4. PeerSecret' /\ ViewSecret'
    BY <2>1, <2>3 DEF SecretInv, PeerSecret, ViewSecret, Current, Active
  <2>5. ServedSecret'
    BY <2>1, <2>2, ServedAccount DEF KeptInv, ServedExists, SecretInv, ServedSecret, Current
  <2>6. QED
    BY <2>4, <2>5 DEF SecretInv
<1>3. QED
  BY <1>1, <1>2

LEMMA SecretInductive ==
  ASSUME Facts, OwnInv, KeptInv, SecretInv, [Next]_vars
  PROVE  SecretInv'
<1>1. CASE era' = era
  BY <1>1, StepMild, StepMoves, SecretMoves, SecretAway
<1>2. CASE era' # era
  BY <1>2, StepLost, SecretLoss
<1>3. QED
  BY <1>1, <1>2

LEMMA SecretInvHolds == Spec /\ RoleStaysInHand => []SecretInv
<1>1. Init => SecretInv
  BY DEF Init, EmptyPeer, SecretInv, PeerSecret, ViewSecret, ServedSecret, Current
<1>2. Basics /\ OwnInv /\ KeptInv /\ SecretInv /\ [Next]_vars => SecretInv'
  BY NextType, SecretInductive DEF Basics, Facts
<1>3. QED
  BY <1>1, <1>2, BasicsHold, OwnInvHolds, KeptInvHolds, PTL DEF Spec

\* Between hooks every tracked account of a consumer exists, is the consumer's own and has
\* the password of the bind secret, as long as the outpost does: get_bind_password and
\* _reconcile_requested_identity trust the secret without asking Authentik, and a rotation
\* that was cut in half leaves no secret to trust.  A role deleted before the hook that
\* found it has used it is the exception.
THEOREM TrackedAccountsAreUsable == Spec /\ RoleStaysInHand => []TrackedAccountIsUsable
<1>1. Basics /\ OwnInv /\ KeptInv /\ SecretInv => TrackedAccountIsUsable
  <2>1. SUFFICES ASSUME OwnInv, KeptInv, SecretInv, Current(peer), NEW r \in Active,
                        peer.client[r] # Nil
                 PROVE  /\ account[peer.client[r].pk] # Nil
                        /\ account[peer.client[r].pk].name[1] = r
                        /\ secret[r] # Nil => secret[r] = account[peer.client[r].pk].password
    BY DEF TrackedAccountIsUsable, Current
  <2>2. r \in Relations
    BY DEF Active
  <2>3. account[peer.client[r].pk] # Nil
    BY <2>1 DEF KeptInv, PeerIsKept, Exist
  <2>4. account[peer.client[r].pk].name[1] = r
    BY <2>1, <2>2, <2>3 DEF OwnInv, Own, Owner
  <2>5. QED
    BY <2>1, <2>3, <2>4 DEF SecretInv, PeerSecret
<1>2. QED
  BY <1>1, BasicsHold, OwnInvHolds, KeptInvHolds, SecretInvHolds, PTL

-----------------------------------------------------------------------------
(* Published credentials let a consumer search *)

Searches(k) == account[k].member = TRUE /\ granted = TRUE

\* Whoever of the consumer r has the password p may search.
Authorized(r, p) ==
  \A k \in Pks : account[k] # Nil /\ Owner(k) = r /\ account[k].password = p => Searches(k)

AllSearch(d) ==
  \A r \in Relations : d.client[r] # Nil /\ account[d.client[r].pk] # Nil =>
    Searches(d.client[r].pk)

SecretsAuthorized == \A r \in Relations : secret[r] # Nil => Authorized(r, secret[r])
OutAuthorized == \A r \in Relations : out[r] # Nil => Authorized(r, out[r].password)
VerifiedSearch == pc \in VerifiedSteps /\ provider # Nil => AllSearch(view)

\* Until it has joined the role, a new account is the only one with its password.
OnlyServed ==
  pc \in {"ownRole", "ownGrant", "member"} =>
    \A k \in Pks : account[k] # Nil /\ Owner(k) = cur /\ account[k].password = local.password =>
      k = local.pk

ServedAuthorized ==
  pc \in {"rename", "leaveGroup", "joinGroup", "publish"} =>
    Authorized(cur, local.password) /\ (account[local.pk] # Nil => Searches(local.pk))

AuthorizedInv ==
  /\ SecretsAuthorized /\ OutAuthorized
  /\ Current(peer) => AllSearch(peer)
  /\ Current(view) => AllSearch(view)
  /\ VerifiedSearch /\ OnlyServed /\ ServedAuthorized

SearchesNext(k) == account'[k].member = TRUE /\ granted' = TRUE
AuthorizedNext(r, p) ==
  \A k \in Pks : account'[k] # Nil /\ account'[k].name[1] = r /\ account'[k].password = p =>
    SearchesNext(k)
AllSearchNext(d) ==
  \A r \in Relations : d.client[r] # Nil /\ account'[d.client[r].pk] # Nil =>
    SearchesNext(d.client[r].pk)

\* A fresh password is no consumer's secret and no account's of the consumer.
LEMMA FreshIsUnused ==
  ASSUME NEW r, NEW p \in FreshPasswords(r)
  PROVE  /\ p \in Passwords /\ p # secret[r]
         /\ \A k \in Pks : account[k] # Nil /\ Owner(k) = r => account[k].password # p
  BY DEF FreshPasswords, InUse, Owner

LEMMA PasswordsAreNotNil == Nil \notin Passwords
  BY NilAssumption, PasswordAssumption

\* An account that is there after a step was there before, or has no password yet.
LEMMA WasThere ==
  ASSUME Facts, Mild, NEW k \in Pks, account'[k] # Nil
  PROVE  IF account[k] = Nil THEN k = nextPk /\ account'[k].password = Nil
         ELSE account'[k].name[1] = Owner(k) /\ (Searches(k) => SearchesNext(k))
<1>1. account[k] # Nil => k < nextPk
  BY DEF Facts, AuthInv, PksGivenOut
<1>2. QED
  BY <1>1 DEF Mild, DatabaseKept, OwnersKept, StillMembers, PasswordsSet, Searches, SearchesNext

\* A password in use for a consumer is not given to another of its accounts.
LEMMA AuthorizedStays ==
  ASSUME Facts, OwnInv, Mild, NEW r \in Relations, NEW p \in Passwords, Authorized(r, p),
         pc \in {"password", "rotate"} /\ r = cur => p \notin FreshPasswords(cur)
  PROVE  AuthorizedNext(r, p)
<1>1. SUFFICES ASSUME NEW k \in Pks, account'[k] # Nil, account'[k].name[1] = r,
                      account'[k].password = p
               PROVE  SearchesNext(k)
  BY DEF AuthorizedNext
<1>2. /\ account[k] # Nil /\ Owner(k) = r /\ (Searches(k) => SearchesNext(k))
  BY <1>1, WasThere, PasswordsAreNotNil
<1>3. account[k].password = p
  <2>1. CASE pc \in {"password", "rotate"} /\ k = local.pk /\ account'[k].password \in FreshPasswords(cur)
    BY <1>1, <1>2, <2>1, ServedAccount, StepSets DEF Owner
  <2>2. QED
    BY <1>1, <1>2, <2>1 DEF Mild, PasswordsSet
<1>4. QED
  BY <1>2, <1>3 DEF Authorized

\* The accounts of a databag go on searching.
LEMMA AllSearchStays ==
  ASSUME Facts, OwnInv, Mild, NEW d \in {peer, view}, Own(d), AllSearch(d)
  PROVE  AllSearchNext(d)
<1>1. SUFFICES ASSUME NEW r \in Relations, d.client[r] # Nil, account'[d.client[r].pk] # Nil
               PROVE  SearchesNext(d.client[r].pk)
  BY DEF AllSearchNext
<1>2. d.client[r].pk \in Pks /\ d.client[r].pk < nextPk
  BY <1>1, TrackedAccount DEF Own
<1>3. account[d.client[r].pk] # Nil
  BY <1>1, <1>2 DEF Mild, DatabaseKept, OwnersKept
<1>4. QED
  BY <1>1, <1>2, <1>3, WasThere DEF AllSearch

LEMMA CurrentSearches ==
  ASSUME Facts, OwnInv, AuthorizedInv, Mild, NEW d \in {peer, view}, CurrentNext(d)
  PROVE  AllSearchNext(d)
  BY StillCurrent, AllSearchStays DEF Mild, OwnInv, AuthorizedInv

\* So do those of a hook that goes on on a verified outpost.
LEMMA VerifiedSearches ==
  ASSUME Facts, OwnInv, AuthorizedInv, Mild, provider' # Nil,
         pc \in VerifiedSteps \/ (pc = "check" /\ outpost = view.outpost)
  PROVE  AllSearchNext(view)
<1>1. CASE pc \in VerifiedSteps
  <2>1. provider # Nil
    BY <1>1, StepSets DEF VerifiedSteps, Mild, DatabaseKept
  <2>2. QED
    BY <1>1, <2>1, AllSearchStays DEF AuthorizedInv, VerifiedSearch, OwnInv
<1>2. CASE pc = "check" /\ outpost = view.outpost
  <2>1. Current(view)
    BY <1>2, StepSets DEF Facts, HookInv, AtProvisioning, Current
  <2>2. QED
    BY <2>1, AllSearchStays DEF AuthorizedInv, OwnInv
<1>3. QED
  BY <1>1, <1>2

LEMMA SecretsStayAuthorized ==
  ASSUME Facts, OwnInv, AuthorizedInv, Mild, NEW r \in Relations, secret[r] # Nil
  PROVE  AuthorizedNext(r, secret[r])
<1>1. secret[r] \in Passwords
  BY DEF Facts, TypeOK, CommittedTypeOK, Maybe
<1>2. secret[cur] \notin FreshPasswords(cur)
  BY FreshIsUnused
<1>3. QED
  BY <1>1, <1>2, AuthorizedStays DEF AuthorizedInv, SecretsAuthorized

LEMMA OutStaysAuthorized ==
  ASSUME Facts, OwnInv, AuthorizedInv, Mild, NEW r \in Relations, out[r] # Nil
  PROVE  AuthorizedNext(r, out[r].password)
<1>1. out[r].password \in Passwords
  BY DEF Facts, TypeOK, HookTypeOK, Maybe, Output
<1>2. pc \in ConsumerSteps => r # cur
  BY AtConsumerStep DEF Facts
<1>3. QED
  BY <1>1, <1>2, AuthorizedStays, StepSets DEF AuthorizedInv, OutAuthorized

\* A step on which nothing is published and the hook tracks no more than before.
LEMMA AuthorizedStep ==
  ASSUME Facts, OwnInv, AuthorizedInv, Mild, SecretsFall, peer' = peer, out' = out,
         \/ /\ Tracks(view', view)
            /\ pc' \in VerifiedSteps =>
                 pc \in VerifiedSteps \/ (pc = "check" /\ outpost = view.outpost)
         \/ view'.client = NoClients,
         OnlyServed', ServedAuthorized'
  PROVE  AuthorizedInv'
<1>1. SecretsAuthorized' /\ OutAuthorized'
  <2>1. \A r \in Relations : secret'[r] # Nil => AuthorizedNext(r, secret'[r])
    BY SecretsStayAuthorized DEF SecretsFall
  <2>2. \A r \in Relations : out'[r] # Nil => AuthorizedNext(r, out'[r].password)
    BY OutStaysAuthorized
  <2>3. QED
    BY <2>1, <2>2
    DEF SecretsAuthorized, OutAuthorized, Authorized, AuthorizedNext, Searches, SearchesNext, Owner
<1>2. CurrentNext(peer) => AllSearchNext(peer)
  BY CurrentSearches
<1>3. CurrentNext(view') => AllSearchNext(view')
  <2>1. CASE Tracks(view', view)
    BY <2>1, CurrentSearches DEF Tracks, CurrentNext, AllSearchNext
  <2>2. CASE view'.client = NoClients
    BY <2>2 DEF NoClients, AllSearchNext
  <2>3. QED
    BY <2>1, <2>2
<1>4. pc' \in VerifiedSteps /\ provider' # Nil => AllSearchNext(view')
  <2>1. CASE view'.client = NoClients
    BY <2>1 DEF NoClients, AllSearchNext
  <2>2. CASE view'.client # NoClients
    BY <2>2, VerifiedSearches DEF Tracks, AllSearchNext
  <2>3. QED
    BY <2>1, <2>2
<1>5. QED
  BY <1>1, <1>2, <1>3, <1>4
  DEF AuthorizedInv, VerifiedSearch, Current, CurrentNext, AllSearch, AllSearchNext, Searches,
    SearchesNext

LEMMA AuthorizedEnds ==
  ASSUME Facts, OwnInv, AuthorizedInv, Mild, Ends
  PROVE  AuthorizedInv'
<1> USE StepSets
<1>1. CASE Commit
  <2>1. /\ peer' = view /\ view' = view /\ pc' = "idle" /\ out' = NoOutput
        /\ \A r \in Relations : secret'[r] = IF out[r] = Nil THEN secret[r] ELSE out[r].password
    BY <1>1 DEF Commit, EndHook
  <2>2. \A r \in Relations : secret'[r] # Nil => AuthorizedNext(r, secret'[r])
    BY <2>1, SecretsStayAuthorized, OutStaysAuthorized
  <2>3. SecretsAuthorized' /\ OutAuthorized'
    BY <2>1, <2>2 DEF SecretsAuthorized, OutAuthorized, Authorized, AuthorizedNext, Searches,
      SearchesNext, Owner, NoOutput
  <2>4. CurrentNext(view) => AllSearchNext(view)
    BY CurrentSearches
  <2>5. QED
    BY <2>1, <2>3, <2>4
    DEF AuthorizedInv, VerifiedSteps, VerifiedSearch, OnlyServed, ServedAuthorized, Current,
      CurrentNext, AllSearch, AllSearchNext, Searches, SearchesNext
<1>2. CASE BeginServing /\ pc = "cleanup"
  <2>1. UNCHANGED <<peer, view, out, secret>> /\ pc' = "serve"
    BY <1>2 DEF BeginServing, committed
  <2>2. QED
    BY <1>2, <2>1, AuthorizedStep
    DEF SecretsFall, VerifiedSteps, Tracks, OnlyServed, ServedAuthorized
<1>3. QED
  BY <1>1, <1>2 DEF Ends

\* The step that follows a request made for a consumer.
LEMMA AuthorizedServing ==
  ASSUME Facts, OwnInv, AuthorizedInv, Mild, pc \in ConsumerSteps,
         NEW label, NEW v, NEW l, Go(label, v, l), Alike(v, view),
         label \in {"ownRole", "ownGrant", "member"} =>
           \A k \in Pks : account'[k] # Nil /\ account'[k].name[1] = cur
                            /\ account'[k].password = l.password => k = l.pk,
         label \in {"rename", "leaveGroup", "joinGroup", "publish"} =>
           /\ AuthorizedNext(cur, l.password)
           /\ account'[l.pk] # Nil => SearchesNext(l.pk)
  PROVE  AuthorizedInv'
<1>1. pc' = label /\ view' = v /\ local' = l /\ UNCHANGED <<peer, out, secret, cur>>
  BY DEF Go, committed
<1>2. Tracks(v, view)
  BY DEF Alike, Tracks
<1>3. OnlyServed'
  BY <1>1 DEF OnlyServed, Owner
<1>4. ServedAuthorized'
  BY <1>1
  DEF ServedAuthorized, Authorized, AuthorizedNext, Searches, SearchesNext, Owner
<1>5. QED
  BY <1>1, <1>2, <1>3, <1>4, AuthorizedStep DEF SecretsFall, VerifiedSteps

\* A fresh password opens one account only; if that was tracked, it may search already.
LEMMA PasswordAuthorized ==
  ASSUME Facts, OwnInv, AuthorizedInv, Mild, PasswordGoesOn
  PROVE  AuthorizedInv'
<1> USE StepSets
<1>1. PICK label, l :
        /\ Go(label, view, l) /\ pc \in {"password", "rotate"}
        /\ account[local.pk] # Nil /\ l.pk = local.pk
        /\ account'[local.pk] # Nil /\ l.password = account'[local.pk].password
        /\ l.password \in FreshPasswords(cur)
        /\ IF pc = "password" THEN label \in {"ownRole", "member"}
           ELSE label \in {"rename", "leaveGroup", "joinGroup", "publish"}
  BY DEF PasswordGoesOn
<1>2. local.pk \in Pks /\ Owner(local.pk) = cur
  BY <1>1, ServedAccount DEF Owner
<1>3. ASSUME NEW k \in Pks, account'[k] # Nil, account'[k].name[1] = cur,
             account'[k].password = l.password
      PROVE  k = local.pk
  <2>1. l.password \in Passwords
    BY <1>1, FreshIsUnused
  <2>2. account[k] # Nil /\ Owner(k) = cur
    BY <1>3, <2>1, WasThere, PasswordsAreNotNil
  <2>3. account[k].password # l.password
    BY <1>1, <2>2, FreshIsUnused
  <2>4. QED
    BY <1>3, <2>2, <2>3 DEF Mild, PasswordsSet
<1>4. pc = "rotate" => SearchesNext(local.pk)
  <2>1. SUFFICES ASSUME pc = "rotate" PROVE SearchesNext(local.pk)
    OBVIOUS
  <2>2. view.client[cur] # Nil /\ local.pk = view.client[cur].pk /\ cur \in Relations
    BY <2>1, ServedAccount DEF Facts, HookInv, AtConsumer
  <2>3. provider # Nil
    BY <1>1, <1>2, <2>1 DEF OwnInv, VerifiedSteps, AfterLoss, NoAccounts
  <2>4. Searches(local.pk)
    BY <1>1, <2>1, <2>2, <2>3 DEF AuthorizedInv, VerifiedSearch, VerifiedSteps, AllSearch
  <2>5. QED
    BY <1>1, <1>2, <2>4, WasThere
<1>5. pc = "rotate" => AuthorizedNext(cur, l.password)
  BY <1>3, <1>4 DEF AuthorizedNext
<1>6. Alike(view, view)
  BY DEF Alike
<1>7. QED
  BY <1>1, <1>3, <1>4, <1>5, <1>6, AuthorizedServing

\* Joining the role is what makes the only account with the password search.
LEMMA ServesAuthorized ==
  ASSUME Facts, OwnInv, AuthorizedInv, Mild, Serves
  PROVE  AuthorizedInv'
<1> USE StepSets
<1>1. PICK label, v, l :
        /\ Go(label, v, l) /\ pc \in ConsumerSteps \ {"create", "password", "rotate"}
        /\ Alike(v, view) /\ l.pk = local.pk /\ l.password = local.password
        /\ CASE pc \in {"ownRole", "ownGrant"} -> label \in {"ownGrant", "member"}
             [] pc = "member" ->
                  /\ label \in {"leaveGroup", "joinGroup", "publish"}
                  /\ account'[local.pk] # Nil /\ account'[local.pk].member = TRUE
                  /\ view.role = role /\ granted' = granted
             [] OTHER -> /\ pc \notin {"ownRole", "ownGrant", "member"}
                         /\ label \in {"leaveGroup", "joinGroup", "publish"}
  BY DEF Serves
<1>2. local.password \in Passwords /\ local.pk \in Pks /\ cur \in Relations
  BY <1>1, ServedAccount DEF Facts, TypeOK, LocalsInUse
<1>3. pc \in {"ownRole", "ownGrant", "member"} =>
        \A k \in Pks : account'[k] # Nil /\ account'[k].name[1] = cur
                         /\ account'[k].password = local.password => k = local.pk
  <2>1. SUFFICES ASSUME pc \in {"ownRole", "ownGrant", "member"},
                        NEW k \in Pks, account'[k] # Nil, account'[k].name[1] = cur,
                        account'[k].password = local.password
                 PROVE  k = local.pk
    OBVIOUS
  <2>2. account[k] # Nil /\ Owner(k) = cur
    BY <1>2, <2>1, WasThere, PasswordsAreNotNil
  <2>3. account[k].password = local.password
    BY <2>1, <2>2 DEF Mild, PasswordsSet
  <2>4. QED
    BY <2>1, <2>2, <2>3 DEF AuthorizedInv, OnlyServed
<1>4. CASE pc \in {"ownRole", "ownGrant"}
  BY <1>1, <1>3, <1>4, AuthorizedServing
<1>5. CASE pc = "member"
  <2>1. granted = TRUE
    BY <1>1, <1>5 DEF Facts, HookInv, AtConsumer, AuthInv, GoodBag
  <2>2. SearchesNext(local.pk)
    BY <1>1, <1>5, <2>1 DEF SearchesNext
  <2>3. AuthorizedNext(cur, local.password)
    BY <1>3, <1>5, <2>2 DEF AuthorizedNext
  <2>4. QED
    BY <1>1, <1>5, <2>2, <2>3, AuthorizedServing
<1>6. CASE pc \notin {"ownRole", "ownGrant", "member"}
  <2>1. pc \in {"rename", "leaveGroup", "joinGroup", "publish"}
    BY <1>1, <1>6
  <2>2. AuthorizedNext(cur, local.password)
    BY <1>2, <2>1, AuthorizedStays DEF AuthorizedInv, ServedAuthorized
  <2>3. ASSUME account'[local.pk] # Nil PROVE SearchesNext(local.pk)
    <3>1. account[local.pk] # Nil
      <4>1. provider # Nil => account[local.pk] # Nil
        BY <1>2, <2>1, <2>3, ServedAccount DEF Mild, DatabaseKept, OwnersKept
      <4>2. provider # Nil
        BY <1>2, <2>1, <2>3
        DEF OwnInv, VerifiedSteps, AfterLoss, Mild, DatabaseKept, NoAccounts
      <4>3. QED
        BY <4>1, <4>2
    <3>2. Searches(local.pk)
      BY <2>1, <3>1 DEF AuthorizedInv, ServedAuthorized
    <3>3. QED
      BY <1>2, <2>3, <3>1, <3>2, WasThere
  <2>4. label \in {"leaveGroup", "joinGroup", "publish"}
    BY <1>1, <1>6
  <2>5. QED
    BY <1>1, <2>2, <2>3, <2>4, AuthorizedServing
<1>7. QED
  BY <1>4, <1>5, <1>6

\* What is published is the password of accounts that may search.
LEMMA AuthorizedPublish ==
  ASSUME Facts, OwnInv, AuthorizedInv, Publish
  PROVE  AuthorizedInv'
<1> DEFINE c == [pk |-> local.pk, name |-> local.name,
                 user |-> request[cur].user, group |-> request[cur].group]
           o == [name |-> local.name, config |-> config, password |-> local.password]
<1> USE StepSets
<1>1. /\ pc = "publish" /\ pc' = "serve" /\ view' = [view EXCEPT !.client[cur] = c]
      /\ out' = [out EXCEPT ![cur] = o]
      /\ UNCHANGED <<peer, secret>> /\ UNCHANGED authentik
  BY DEF Publish, committed
<1>2. c.pk = local.pk /\ o.password = local.password
  OBVIOUS
<1> HIDE DEF c, o
<1>3. cur \in Relations
  BY <1>1, ServedAccount
<1>4. /\ view'.client[cur] = c /\ view'.outpost = view.outpost
      /\ \A s \in Relations \ {cur} : view'.client[s] = view.client[s]
  BY <1>1, <1>3, ClientUpdates DEF Facts, TypeOK, HookTypeOK
<1>5. out'[cur] = o /\ \A s \in Relations \ {cur} : out'[s] = out[s]
  BY <1>1, <1>3 DEF Facts, TypeOK, HookTypeOK
<1>6. UNCHANGED <<account, outpost, granted, provider>>
  BY <1>1 DEF authentik
<1>7. Authorized(cur, local.password) /\ (account[local.pk] # Nil => Searches(local.pk))
  BY <1>1 DEF AuthorizedInv, ServedAuthorized
<1>8. AllSearch(view) => AllSearch(view)'
  BY <1>2, <1>4, <1>6, <1>7 DEF AllSearch, Searches
<1>9. OutAuthorized'
  BY <1>2, <1>5, <1>6, <1>7 DEF AuthorizedInv, OutAuthorized, Authorized, Searches, Owner
<1>10. SecretsAuthorized' /\ (Current(peer) => AllSearch(peer))'
  BY <1>1, <1>6 DEF AuthorizedInv, SecretsAuthorized, Authorized, Searches, Owner, AllSearch, Current
<1>11. (Current(view) => AllSearch(view))'
  BY <1>4, <1>6, <1>8 DEF AuthorizedInv, Current
<1>12. VerifiedSearch'
  BY <1>1, <1>6, <1>8 DEF AuthorizedInv, VerifiedSearch, VerifiedSteps
<1>13. OnlyServed' /\ ServedAuthorized'
  BY <1>1 DEF OnlyServed, ServedAuthorized
<1>14. QED
  BY <1>9, <1>10, <1>11, <1>12, <1>13 DEF AuthorizedInv

\* A consumer whose account is tracked and whose secret is known is served without asking.
LEMMA AuthorizedServe ==
  ASSUME Facts, OwnInv, AuthorizedInv, Mild, NEW r \in Relations, Serve(r)
  PROVE  AuthorizedInv'
<1> USE StepSets
<1>1. /\ pc = "serve" /\ r \in todo /\ pc' = FirstStep(r) /\ cur' = r
      /\ UNCHANGED <<peer, view, out, secret>> /\ UNCHANGED authentik
  BY DEF Serve, committed
<1>2. /\ pc' \in {"create", "rotate", "rename", "publish", "leaveGroup", "joinGroup"}
      /\ pc' = "create" <=> view.client[r] = Nil
      /\ pc' = "rotate" <=> view.client[r] # Nil /\ secret[r] = Nil
  BY <1>1, IdentityStepType DEF FirstStep
<1>3. view.client[r] # Nil => local'.pk = view.client[r].pk /\ local'.password = secret[r]
  BY DEF Serve, NoLocals
<1>4. UNCHANGED <<account, granted, provider>>
  BY <1>1 DEF authentik
<1>5. ServedAuthorized'
  <2>1. SUFFICES ASSUME view.client[r] # Nil, secret[r] # Nil
                 PROVE  /\ Authorized(r, secret[r])
                        /\ account[view.client[r].pk] # Nil => Searches(view.client[r].pk)
    BY <1>1, <1>2, <1>3, <1>4 DEF ServedAuthorized, Authorized, Searches, Owner
  <2>2. Authorized(r, secret[r])
    BY <2>1 DEF AuthorizedInv, SecretsAuthorized
  <2>3. ASSUME account[view.client[r].pk] # Nil PROVE Searches(view.client[r].pk)
    <3>1. view.client[r].pk \in Pks
      BY <2>1, TrackedAccount
    <3>2. provider # Nil
      BY <1>1, <2>3, <3>1 DEF OwnInv, VerifiedSteps, AfterLoss, NoAccounts, FirstSteps
    <3>3. QED
      BY <1>1, <2>1, <2>3, <3>2 DEF AuthorizedInv, VerifiedSearch, VerifiedSteps, AllSearch
  <2>4. QED
    BY <2>2, <2>3
<1>6. OnlyServed'
  BY <1>2 DEF OnlyServed
<1>7. QED
  BY <1>1, <1>5, <1>6, AuthorizedStep DEF SecretsFall, Tracks, VerifiedSteps

LEMMA AuthorizedMoves ==
  ASSUME Facts, OwnInv, AuthorizedInv, Mild, Moves
  PROVE  AuthorizedInv'
<1> USE StepSets
<1> DEFINE Serving == {"ownRole", "ownGrant", "member", "rename", "leaveGroup", "joinGroup", "publish"}
<1>1. pc' \notin Serving => OnlyServed' /\ ServedAuthorized'
  BY DEF OnlyServed, ServedAuthorized
<1>2. CASE Ends
  BY <1>2, AuthorizedEnds
<1>3. CASE StartsOver
  <2>1. /\ pc' = "provider" /\ view' = [view EXCEPT !.client = NoClients]
        /\ UNCHANGED <<peer, out, secret>>
    BY <1>3 DEF StartsOver, Reprovision, committed
  <2>2. view'.client = NoClients
    BY <2>1 DEF Facts, TypeOK, HookTypeOK, PeerData
  <2>3. QED
    BY <1>1, <2>1, <2>2, AuthorizedStep DEF SecretsFall
<1>4. CASE Provisions
  <2>1. PICK label, v, l :
          /\ label \in EnsureSteps \union FreshSteps \union {"cleanup"}
          /\ Go(label, v, l)
          /\ v.client = view.client
          /\ \/ v.outpost = view.outpost
             \/ pc = "token" /\ v.client = NoClients
          /\ label \in VerifiedSteps =>
               pc \in VerifiedSteps \/ (pc = "check" /\ outpost = view.outpost) \/ pc = "token"
    BY <1>4 DEF Provisions
  <2>2. pc' = label /\ view' = v /\ UNCHANGED <<peer, out, secret>>
    BY <2>1 DEF Go, committed
  <2>3. pc = "token" => view'.client = NoClients
    BY <2>1, <2>2 DEF Facts, HookInv, AtProvisioning
  <2>4. QED
    BY <1>1, <2>1, <2>2, <2>3, AuthorizedStep DEF SecretsFall, Tracks
<1>5. CASE Created
  BY <1>5, AuthorizedServing DEF Created, Alike
<1>6. CASE PasswordGoesOn \/ Serves
  BY <1>6, PasswordAuthorized, ServesAuthorized
<1>7. CASE Forgets
  <2>1. PICK r \in Relations : pc = "cleanup" /\ Go("cleanup", [view EXCEPT !.client[r] = Nil], local)
    BY <1>7 DEF Forgets
  <2>2. /\ pc' = "cleanup" /\ view' = [view EXCEPT !.client[r] = Nil]
        /\ UNCHANGED <<peer, out, secret>>
    BY <2>1 DEF Go, committed
  <2>3. Tracks(view', view)
    BY <2>2, ClientUpdates DEF Facts, TypeOK, HookTypeOK, Tracks
  <2>4. QED
    BY <1>1, <2>1, <2>2, <2>3, AuthorizedStep DEF SecretsFall, VerifiedSteps
<1>8. CASE Publish \/ \E r \in Relations : Serve(r)
  BY <1>8, AuthorizedPublish, AuthorizedServe
<1>9. CASE StartHook
  <2>1. pc' \in {"check", "provider"} /\ UNCHANGED <<peer, view, out, secret>>
    BY <1>9 DEF StartHook, committed
  <2>2. QED
    BY <1>1, <2>1, AuthorizedStep DEF SecretsFall, VerifiedSteps, Tracks
<1>10. CASE Crash
  <2>1. /\ pc' = "idle" /\ view' = peer /\ out' = NoOutput
        /\ UNCHANGED <<peer, secret>>
    BY <1>10 DEF Crash, EndHook, committed
  <2>2. \A r \in Relations : secret'[r] # Nil => AuthorizedNext(r, secret'[r])
    BY <2>1, SecretsStayAuthorized
  <2>3. SecretsAuthorized' /\ OutAuthorized'
    BY <2>1, <2>2 DEF SecretsAuthorized, OutAuthorized, Authorized, AuthorizedNext, Searches,
      SearchesNext, Owner, NoOutput
  <2>4. CurrentNext(peer) => AllSearchNext(peer)
    BY CurrentSearches
  <2>5. QED
    BY <1>1, <2>1, <2>3, <2>4
    DEF AuthorizedInv, VerifiedSteps, VerifiedSearch, Current, CurrentNext, AllSearch,
      AllSearchNext, Searches, SearchesNext
<1>11. QED
  BY <1>2, <1>3, <1>4, <1>5, <1>6, <1>7, <1>8, <1>9, <1>10 DEF Moves

LEMMA AuthorizedAway ==
  ASSUME Facts, OwnInv, AuthorizedInv, Mild, Away
  PROVE  AuthorizedInv'
<1>1. /\ SecretsFall
      /\ UNCHANGED <<peer, view, pc, out, cur, local, account, granted>>
  BY DEF Away, SecretsFall, hook, authentik
<1>2. OnlyServed' /\ ServedAuthorized'
  BY <1>1 DEF AuthorizedInv, OnlyServed, ServedAuthorized, Authorized, Searches, Owner
<1>3. QED
  BY <1>1, <1>2, AuthorizedStep DEF Tracks

\* A lost outpost takes no authorization away, a lost database every account.
LEMMA AuthorizedLoss ==
  ASSUME Facts, OwnInv, AuthorizedInv, LoseDatabase \/ LoseOutpost
  PROVE  AuthorizedInv'
<1> USE StepSets
<1>1. /\ outpost' = Nil
      /\ UNCHANGED <<peer, secret, view, pc, out, cur, local>>
  BY DEF LoseDatabase, LoseOutpost, committed, hook
<1>2. CASE UNCHANGED <<account, granted, provider>>
  BY <1>1, <1>2
  DEF AuthorizedInv, SecretsAuthorized, OutAuthorized, VerifiedSearch, OnlyServed,
    ServedAuthorized, Authorized, AllSearch, Searches, Owner, Current
<1>3. CASE provider' = Nil /\ account' = [k \in Pks |-> Nil]
  <2>1. pc \in ConsumerSteps \ {"create"} => local.pk \in Pks
    BY ServedAccount
  <2>2. QED
    BY <1>1, <1>3, <2>1
    DEF AuthorizedInv, SecretsAuthorized, OutAuthorized, VerifiedSearch, OnlyServed,
      ServedAuthorized, Authorized, Current
<1>4. QED
  BY <1>2, <1>3 DEF LoseDatabase, LoseOutpost

LEMMA AuthorizedInductive ==
  ASSUME "role" \notin Losses, Facts, OwnInv, AuthorizedInv, [Next]_vars
  PROVE  AuthorizedInv'
<1>1. CASE era' = era
  BY <1>1, StepMild, StepMoves, AuthorizedMoves, AuthorizedAway
<1>2. CASE era' # era
  <2>1. LoseDatabase \/ LoseOutpost
    BY <1>2, StepLost DEF LoseRole, Loss
  <2>2. QED
    BY <2>1, AuthorizedLoss
<1>3. QED
  BY <1>1, <1>2

LEMMA AuthorizedInvHolds ==
  ASSUME "role" \notin Losses
  PROVE  Spec => []AuthorizedInv
<1>1. Init => AuthorizedInv
  BY StepSets DEF Init, EmptyPeer, AuthorizedInv, SecretsAuthorized, OutAuthorized, NoOutput,
    VerifiedSearch, VerifiedSteps, OnlyServed, ServedAuthorized, Current
<1>2. Basics /\ OwnInv /\ AuthorizedInv /\ [Next]_vars => AuthorizedInv'
  BY NextType, AuthorizedInductive DEF Basics, Facts
<1>3. QED
  BY <1>1, <1>2, BasicsHold, OwnInvHolds, PTL DEF Spec

\* Credentials that a consumer finds on its relation and that open an account open one that
\* may search: assigning the role to the provider, and an account to the role, is skipped on
\* the strength of the databag, and _reconcile_requested_identity publishes an account it
\* tracks without authorizing it again.
THEOREM PublishedAreAuthorized ==
  ASSUME "role" \notin Losses
  PROVE  Spec => []PublishedIsAuthorized
<1>1. Basics /\ AuthorizedInv => PublishedIsAuthorized
  <2>1. SUFFICES ASSUME HookInv, AuthorizedInv, NEW r \in Active, published[r] # Nil,
                        secret[r] # Nil, NEW k \in Pks, account[k] # Nil,
                        account[k].name = published[r].name, account[k].password = secret[r]
                 PROVE  account[k].member /\ granted
    BY DEF PublishedIsAuthorized, Basics
  <2>2. r \in Relations /\ Owner(k) = r
    BY <2>1 DEF Active, HookInv, Outputs, Owner
  <2>3. Searches(k)
    BY <2>1, <2>2 DEF AuthorizedInv, SecretsAuthorized, Authorized
  <2>4. QED
    BY <2>3 DEF Searches
<1>2. QED
  BY <1>1, BasicsHold, AuthorizedInvHolds, PTL

=============================================================================
