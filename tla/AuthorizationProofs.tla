------------------------- MODULE AuthorizationProofs -------------------------
(***************************************************************************)
(* The caches of _ensure_search_authorization never claim more than        *)
(* Authentik holds, whatever is lost, fails or crashes and whenever.       *)
(*                                                                         *)
(* Neither cache is inductive: that a claim about a role stays true needs  *)
(* that no role made later can have its UUID, that the members claimed for *)
(* a role are accounts which exist or existed (an account made later is no *)
(* member), and that the locals of a running hook are as right as the      *)
(* databag they are about to be written to.                                *)
(***************************************************************************)
EXTENDS ReconcileProofs

\* A role UUID the charm may hold: no role made from now on gets it.
Old(uuid) == uuid # Nil => uuid <= era /\ (role = Nil => uuid < era)

\* Every account that still exists of the pks in S, all of them given out, is a
\* member of the role.
Members(S) == \A k \in S : k < nextPk /\ (account[k] # Nil => account[k].member = TRUE)

GoodBag(d) ==
  /\ Old(d.role)
  /\ Old(d.cache.role)
  /\ d.role # Nil /\ d.role = role => granted = TRUE
  /\ d.cache.role # Nil /\ d.cache.role = role => Members(d.cache.members)

GoodLocals ==
  /\ Old(local.role)
  /\ pc \in {"grant", "enroll"} /\ local.role # Nil /\ local.role = role => Members(local.applied)

PksGivenOut == \A k \in Pks : account[k] # Nil => k < nextPk

AuthInv ==
  /\ PksGivenOut
  /\ Old(role)
  /\ GoodBag(peer)
  /\ GoodBag(view)
  /\ GoodLocals

-----------------------------------------------------------------------------
(* What a step may do to Authentik *)

AccountsKept ==
  /\ nextPk <= nextPk'
  /\ \A k \in Pks :
       k < nextPk /\ account'[k] # Nil =>
         account[k] # Nil /\ (account[k].member = TRUE => account'[k].member = TRUE)
  /\ \A k \in Pks : account'[k] # Nil => k < nextPk'

RoleKept == role' = role /\ (granted = TRUE => granted' = TRUE) /\ era <= era' /\ AccountsKept
RoleMade == role = Nil /\ role' = era /\ era' = era /\ UNCHANGED <<account, nextPk>>
RoleLost ==
  /\ role' = Nil /\ era' = era + 1
  /\ \A k \in Pks : account'[k] # Nil => k < nextPk'

Quiet == RoleKept \/ RoleMade \/ RoleLost

\* What the invariant says of a databag and of a role after the step.
OldNext(uuid) == uuid # Nil => uuid <= era' /\ (role' = Nil => uuid < era')
MembersNext(S) == \A k \in S : k < nextPk' /\ (account'[k] # Nil => account'[k].member = TRUE)
BagNext(d) ==
  /\ OldNext(d.role)
  /\ OldNext(d.cache.role)
  /\ d.role # Nil /\ d.role = role' => granted' = TRUE
  /\ d.cache.role # Nil /\ d.cache.role = role' => MembersNext(d.cache.members)

\* A role that was made, or could have been made, before a step is not one the step makes.
LEMMA OldKept ==
  ASSUME TypeOK, TypeOK', Quiet, NEW u \in Nat, Old(u)
  PROVE  OldNext(u) /\ (role' = u => role = u /\ ~RoleLost)
<1>1. era \in Nat /\ era' \in Nat /\ u # Nil
  BY NilAssumption DEF TypeOK, DatabaseTypeOK
<1>2. CASE RoleKept
  <2>1. role' = role /\ era <= era'
    BY <1>2 DEF RoleKept
  <2>2. u <= era /\ (role = Nil => u < era)
    BY <1>1 DEF Old
  <2>3. ~(role' = u /\ RoleLost)
    BY <1>1 DEF RoleLost
  <2>4. QED
    BY <1>1, <2>1, <2>2, <2>3 DEF OldNext
<1>3. CASE RoleMade
  <2>1. role = Nil /\ role' = era /\ era' = era
    BY <1>3 DEF RoleMade
  <2>2. role' # Nil
    BY <1>1, <2>1, NilAssumption
  <2>3. QED
    BY <1>1, <2>1, <2>2 DEF OldNext, Old
<1>4. CASE RoleLost
  BY <1>1, <1>4 DEF RoleLost, OldNext, Old
<1>5. QED
  BY <1>2, <1>3, <1>4 DEF Quiet

\* The known members of a role stay members as long as the role is there.
LEMMA MembersKept ==
  ASSUME TypeOK, TypeOK', RoleKept \/ RoleMade, NEW S \in SUBSET Pks, Members(S)
  PROVE  MembersNext(S)
<1>1. CASE RoleMade
  BY <1>1 DEF RoleMade, Members, MembersNext
<1>2. CASE RoleKept
  <2>1. nextPk \in Nat /\ nextPk' \in Nat /\ Pks \subseteq Nat
    BY DEF TypeOK, DatabaseTypeOK, Pks
  <2>2. ASSUME NEW k \in S
        PROVE  k < nextPk' /\ (account'[k] # Nil => account'[k].member = TRUE)
    <3>1. k \in Pks /\ k < nextPk /\ (account[k] # Nil => account[k].member = TRUE)
      BY DEF Members
    <3>2. nextPk <= nextPk'
      BY <1>2 DEF RoleKept, AccountsKept
    <3>3. k < nextPk'
      BY <2>1, <3>1, <3>2
    <3>4. account'[k] # Nil => account'[k].member = TRUE
      BY <1>2, <3>1 DEF RoleKept, AccountsKept
    <3>5. QED
      BY <3>3, <3>4
  <2>3. QED
    BY <2>2 DEF MembersNext
<1>3. QED
  BY <1>1, <1>2

\* What is known of the members of an old role is still right after a step.
LEMMA ClaimKept ==
  ASSUME TypeOK, TypeOK', Quiet, NEW u \in Maybe(Nat), NEW S \in SUBSET Pks, Old(u),
         u # Nil /\ u = role => Members(S)
  PROVE  OldNext(u) /\ (u # Nil /\ u = role' => MembersNext(S))
<1>1. CASE u = Nil
  BY <1>1 DEF OldNext
<1>2. CASE u # Nil
  <2>1. u \in Nat
    BY <1>2 DEF Maybe
  <2>2. OldNext(u) /\ (role' = u => role = u /\ ~RoleLost)
    BY <2>1, OldKept
  <2>3. ASSUME u = role' PROVE MembersNext(S)
    BY <1>2, <2>2, <2>3, MembersKept DEF Quiet
  <2>4. QED
    BY <2>2, <2>3
<1>3. QED
  BY <1>1, <1>2

\* What a databag says stays right whatever a step does to Authentik.
LEMMA BagKept ==
  ASSUME TypeOK, TypeOK', Quiet, NEW d \in PeerData, GoodBag(d)
  PROVE  BagNext(d)
<1>1. /\ d.role \in Maybe(Nat) /\ d.cache.role \in Maybe(Nat)
      /\ d.cache.members \in SUBSET Pks
  BY DEF PeerData
<1>2. /\ OldNext(d.cache.role)
      /\ d.cache.role # Nil /\ d.cache.role = role' => MembersNext(d.cache.members)
  BY <1>1, ClaimKept DEF GoodBag
<1>3. CASE d.role = Nil
  BY <1>2, <1>3 DEF BagNext, OldNext
<1>4. CASE d.role # Nil
  <2>1. d.role \in Nat /\ Old(d.role)
    BY <1>1, <1>4 DEF Maybe, GoodBag
  <2>2. OldNext(d.role) /\ (role' = d.role => role = d.role /\ ~RoleLost)
    BY <2>1, OldKept
  <2>3. ASSUME role' = d.role PROVE granted' = TRUE
    <3>1. role = d.role /\ ~RoleLost /\ granted = TRUE
      BY <1>4, <2>2, <2>3 DEF GoodBag
    <3>2. RoleKept
      BY <1>4, <3>1 DEF Quiet, RoleMade
    <3>3. QED
      BY <3>1, <3>2 DEF RoleKept
  <2>4. QED
    BY <1>2, <2>2, <2>3 DEF BagNext
<1>5. QED
  BY <1>3, <1>4

-----------------------------------------------------------------------------
(* How a step goes on *)

\* The invariant follows from what a step writes to the databag and the locals: what
\* it does to Authentik and what it commits never disturbs it.
LEMMA AuthKept ==
  ASSUME TypeOK, TypeOK', AuthInv, Quiet, peer' = peer \/ peer' = view,
         BagNext(view'), GoodLocals'
  PROVE  AuthInv'
<1>1. PksGivenOut'
  BY DEF Quiet, RoleKept, RoleMade, RoleLost, AccountsKept, PksGivenOut, AuthInv
<1>2. Old(role)'
  <2>1. era \in Nat /\ era' \in Nat /\ role \in Maybe(Nat)
    BY DEF TypeOK, DatabaseTypeOK
  <2>2. CASE RoleKept
    BY <2>1, <2>2 DEF RoleKept, Old, AuthInv, Maybe
  <2>3. CASE RoleMade
    BY <2>1, <2>3, NilAssumption DEF RoleMade, Old
  <2>4. CASE RoleLost
    BY <2>4 DEF RoleLost, Old
  <2>5. QED
    BY <2>2, <2>3, <2>4 DEF Quiet
<1>3. BagNext(peer) /\ BagNext(view)
  BY BagKept DEF AuthInv, TypeOK, CommittedTypeOK, HookTypeOK
<1>4. BagNext(peer')
  BY <1>3
<1>5. GoodBag(peer)' /\ GoodBag(view)'
  BY <1>4 DEF BagNext, OldNext, MembersNext, GoodBag, Old, Members
<1>6. QED
  BY <1>1, <1>2, <1>5 DEF AuthInv

\* Steps that leave both caches as they are.
LEMMA CachesKept ==
  ASSUME TypeOK, TypeOK', AuthInv, Quiet, peer' = peer \/ peer' = view, GoodLocals',
         view' = peer \/ (view'.role = view.role /\ view'.cache = view.cache)
  PROVE  AuthInv'
<1>1. BagNext(peer) /\ BagNext(view)
  BY BagKept DEF AuthInv, TypeOK, CommittedTypeOK, HookTypeOK
<1>2. BagNext(view')
  <2>1. CASE view' = peer
    BY <1>1, <2>1
  <2>2. CASE view'.role = view.role /\ view'.cache = view.cache
    BY <1>1, <2>2 DEF BagNext
  <2>3. QED
    BY <2>1, <2>2
<1>3. QED
  BY <1>2, AuthKept

\* Steps whose locals hold no claim about the members of a role.
LEMMA NoClaim ==
  ASSUME TypeOK, TypeOK', AuthInv, Quiet, pc' \notin {"grant", "enroll"},
         local'.role = Nil \/ local'.role = local.role
  PROVE  GoodLocals'
<1>1. local.role \in Maybe(Nat)
  BY DEF TypeOK, HookTypeOK, Locals
<1>2. OldNext(local.role)
  BY <1>1, OldKept DEF AuthInv, GoodLocals, Maybe, OldNext
<1>3. OldNext(local'.role)
  BY <1>2 DEF OldNext
<1>4. QED
  BY <1>3 DEF GoodLocals, OldNext, Old

\* Steps outside the hook leave its locals right.
LEMMA LocalsKept ==
  ASSUME TypeOK, TypeOK', AuthInv, Quiet, pc' = pc, local' = local
  PROVE  GoodLocals'
<1>1. local.role \in Maybe(Nat) /\ local.applied \in SUBSET Pks
  BY DEF TypeOK, HookTypeOK, Locals
<1>2. CASE pc \in {"grant", "enroll"}
  <2>1. /\ OldNext(local.role)
        /\ local.role # Nil /\ local.role = role' => MembersNext(local.applied)
    BY <1>1, <1>2, ClaimKept DEF AuthInv, GoodLocals
  <2>2. QED
    BY <2>1 DEF GoodLocals, OldNext, Old, MembersNext, Members
<1>3. CASE pc \notin {"grant", "enroll"}
  BY <1>3, NoClaim
<1>4. QED
  BY <1>2, <1>3

\* A hook that fails, ends or starts over keeps the invariant.
LEMMA RaiseKeeps ==
  ASSUME TypeOK, TypeOK', AuthInv, Quiet, Raise \/ Commit \/ NotFound
  PROVE  AuthInv'
<1>1. /\ pc' \notin {"grant", "enroll"} /\ local'.role = Nil
      /\ peer' = peer \/ peer' = view
      /\ view'.role = view.role /\ view'.cache = view.cache
  BY DEF TypeOK, HookTypeOK, PeerData, Raise, NotFound, Commit, BeginServing, Reprovision, EndHook,
         NoLocals, committed
<1>2. QED
  BY <1>1, NoClaim, CachesKept

\* A hook that goes on without a word about roles keeps it too.
LEMMA GoKeeps ==
  ASSUME TypeOK, TypeOK', AuthInv, Quiet,
         NEW label, NEW v, NEW l, Answer(Go(label, v, l)) \/ Go(label, v, l),
         label \notin {"grant", "enroll"},
         l.role = Nil \/ l.role = local.role,
         v.role = view.role, v.cache = view.cache
  PROVE  AuthInv'
<1>1. CASE Go(label, v, l)
  BY <1>1, NoClaim, CachesKept DEF Go, committed
<1>2. CASE Raise
  BY <1>2, RaiseKeeps
<1>3. QED
  BY <1>1, <1>2 DEF Answer

-----------------------------------------------------------------------------
(* What the actions do to Authentik *)

\* A step that leaves role, grant and accounts alone.
LEMMA QuietStill ==
  ASSUME TypeOK, AuthInv, UNCHANGED <<role, account, nextPk, era>>, granted = TRUE => granted' = TRUE
  PROVE  Quiet
  BY DEF TypeOK, DatabaseTypeOK, AuthInv, PksGivenOut, Quiet, RoleKept, AccountsKept

\* A step that makes no account and takes none out of the role.
LEMMA QuietAccounts ==
  ASSUME TypeOK, AuthInv, UNCHANGED <<role, granted, nextPk, era>>,
         \A k \in Pks : account'[k] # Nil =>
           account[k] # Nil /\ (account[k].member = TRUE => account'[k].member = TRUE)
  PROVE  Quiet
  BY DEF TypeOK, DatabaseTypeOK, AuthInv, PksGivenOut, Quiet, RoleKept, AccountsKept

\* A step that changes other fields of one account.
LEMMA QuietUpdate ==
  ASSUME TypeOK, AuthInv, UNCHANGED <<role, granted, nextPk, era>>,
         NEW j \in Pks, account[j] # Nil, NEW row,
         account' = [account EXCEPT ![j] = row], row.member = account[j].member \/ row.member = TRUE
  PROVE  Quiet
<1>1. \A k \in Pks : account'[k] # Nil =>
        account[k] # Nil /\ (account[k].member = TRUE => account'[k].member = TRUE)
  BY DEF TypeOK, DatabaseTypeOK
<1>2. QED
  BY <1>1, QuietAccounts

\* A step that makes sure the role exists.
LEMMA QuietRole ==
  ASSUME TypeOK, AuthInv, RoleIsThere, UNCHANGED <<granted, account, nextPk, era>>
  PROVE  Quiet
<1>1. CASE role = Nil
  BY <1>1 DEF RoleIsThere, Quiet, RoleMade
<1>2. CASE role # Nil
  BY <1>2, QuietStill DEF RoleIsThere
<1>3. QED
  BY <1>1, <1>2

\* A step that puts one account in the role.
LEMMA QuietJoin ==
  ASSUME TypeOK, AuthInv, UNCHANGED <<role, granted, nextPk, era>>,
         NEW j \in Pks, account[j] # Nil, JoinsRole(j)
  PROVE  Quiet /\ account'[j].member = TRUE
<1> DEFINE row == [account[j] EXCEPT !.member = TRUE]
<1>1. account[j] \in Account /\ account \in [Pks -> Maybe(Account)]
  BY DEF TypeOK, DatabaseTypeOK, Maybe
<1>2. row.member = TRUE
  BY <1>1 DEF Account
<1>3. account' = [account EXCEPT ![j] = row]
  BY DEF JoinsRole
<1>4. Quiet
  <2> HIDE DEF row
  <2> QED
    BY <1>2, <1>3, QuietUpdate
<1>5. QED
  BY <1>1, <1>2, <1>3, <1>4

-----------------------------------------------------------------------------
(* Provisioning *)

\* The role is made or found, and what the databag and its cache say of it is taken
\* over: neither says anything of a role that was just made.
LEMMA EnsureRoleKeeps == ASSUME TypeOK, TypeOK', AuthInv, EnsureRole PROVE AuthInv'
<1> DEFINE l == [local EXCEPT !.role = role', !.applied = CachedMembers(view, role')]
<1>1. Quiet
  BY QuietRole DEF EnsureRole
<1>2. CASE Raise
  BY <1>1, <1>2, RaiseKeeps
<1>3. CASE \/ Go("enroll", [view EXCEPT !.role = role'], l) /\ AlreadyVerified(role')
           \/ Go("grant", view, l)
  <2>1. /\ role' \in Nat /\ role' # Nil
        /\ local \in Locals /\ view \in PeerData
    BY NilAssumption DEF EnsureRole, RoleIsThere, TypeOK, DatabaseTypeOK, HookTypeOK, Maybe
  <2>2. local' = l /\ peer' = peer
    BY <1>3 DEF Go, committed
  <2>3. local'.role = role' /\ local'.applied = CachedMembers(view, role')
    BY <2>1, <2>2 DEF Locals
  <2>4. view'.role = view.role /\ view'.cache = view.cache
    BY <1>3, <2>1 DEF Go, AlreadyVerified, PeerData
  <2>5. BagNext(view)
    BY <1>1, BagKept DEF AuthInv, TypeOK, HookTypeOK
  <2>6. MembersNext(CachedMembers(view, role'))
    BY <2>1, <2>5 DEF BagNext, CachedMembers, MembersNext
  <2>7. role' <= era'
    <3>1. CASE role = Nil
      BY <3>1 DEF EnsureRole, RoleIsThere, TypeOK, DatabaseTypeOK
    <3>2. CASE role # Nil
      BY <3>2 DEF EnsureRole, RoleIsThere, AuthInv, Old
    <3>3. QED
      BY <3>1, <3>2
  <2>8. GoodLocals'
    BY <2>1, <2>3, <2>6, <2>7 DEF GoodLocals, Old, Members, MembersNext
  <2>9. QED
    BY <1>1, <2>2, <2>4, <2>8, CachesKept
<1>4. QED
  BY <1>2, <1>3 DEF EnsureRole, Answer

\* The grant is made on the live role, and the databag records just that role.
LEMMA VerifiedKeeps ==
  ASSUME TypeOK, TypeOK', AuthInv, UNCHANGED <<role, account, nextPk, era>>,
         granted' = TRUE, local.role = role, NEW label, Go(label, Verified(view, local.role), local),
         pc = "grant" \/ label \notin {"grant", "enroll"}
  PROVE  AuthInv'
<1>1. Quiet
  BY QuietStill
<1>2. local' = local /\ peer' = peer /\ pc' = label /\ view' = Verified(view, local.role)
  BY DEF Go, committed
<1>3. view \in PeerData
  BY DEF TypeOK, HookTypeOK
<1>4. view'.role = role /\ view'.cache = view.cache
  BY <1>2, <1>3 DEF Verified, PeerData
<1>5. BagNext(view)
  BY <1>1, <1>3, BagKept DEF AuthInv
<1>6. OldNext(role)
  BY DEF AuthInv, Old, OldNext
<1>7. BagNext(view')
  BY <1>4, <1>5, <1>6 DEF BagNext
<1>8. GoodLocals'
  <2>1. CASE label \notin {"grant", "enroll"}
    BY <1>1, <1>2, <2>1, NoClaim
  <2>2. CASE pc = "grant"
    BY <1>2, <2>2 DEF AuthInv, GoodLocals, Old, Members
  <2>3. QED
    BY <2>1, <2>2
<1>9. QED
  BY <1>1, <1>2, <1>7, <1>8, AuthKept

\* The grant is recorded as verified only for the role and provider it was made on.
LEMMA GrantSearchKeeps == ASSUME TypeOK, TypeOK', AuthInv, GrantSearch PROVE AuthInv'
<1>1. CASE Assignable(local.role)
  <2>1. /\ granted' = TRUE /\ local.role = role /\ pc = "grant"
        /\ Answer(Go("enroll", Verified(view, local.role), local))
        /\ UNCHANGED <<role, account, nextPk, era>>
    BY <1>1, Zenon DEF GrantSearch, Assignable
  <2>2. CASE Go("enroll", Verified(view, local.role), local)
    BY <2>1, <2>2, VerifiedKeeps
  <2>3. CASE Raise
    BY <2>1, <2>3, QuietStill, RaiseKeeps
  <2>4. QED
    BY <2>1, <2>2, <2>3 DEF Answer
<1>2. CASE ~Assignable(local.role)
  <2>1. NotFound /\ UNCHANGED <<role, granted, account, nextPk, era>>
    BY <1>2 DEF GrantSearch
  <2>2. Quiet
    BY <2>1, QuietStill
  <2>3. QED
    BY <2>1, <2>2, RaiseKeeps
<1>3. QED
  BY <1>1, <1>2

\* A member counts as confirmed only after Authentik put its account in the role.
LEMMA EnrollKeeps ==
  ASSUME TypeOK, TypeOK', AuthInv, NEW r \in Relations, Enroll(r)
  PROVE  AuthInv'
<1> DEFINE pk == view.client[r].pk
           l == [local EXCEPT !.applied = @ \union {pk}]
<1>1. pk \in Pks /\ pc = "enroll" /\ local \in Locals
  BY DEF Enroll, ToEnroll, TypeOK, HookTypeOK, PeerData, Client, Maybe
<1>2. CASE CanJoinRole(local.role, pk)
  <2>1. /\ local.role = role /\ account[pk] # Nil /\ JoinsRole(pk)
        /\ UNCHANGED <<role, granted, nextPk, era>>
        /\ Answer(Go("enroll", view, l))
    BY <1>2 DEF Enroll, CanJoinRole
  <2>2. Quiet /\ account'[pk].member = TRUE
    BY <1>1, <2>1, QuietJoin
  <2>3. CASE Go("enroll", view, l)
    <3>1. view' = view /\ peer' = peer /\ local' = l
      BY <2>3 DEF Go, committed
    <3>2. local'.role = local.role /\ local'.applied = local.applied \union {pk}
      BY <1>1, <3>1 DEF Locals
    <3>3. /\ OldNext(local.role)
          /\ local.role # Nil /\ local.role = role' => MembersNext(local.applied)
      BY <1>1, <2>2, ClaimKept DEF AuthInv, GoodLocals, Locals
    <3>4. pk < nextPk'
      BY <1>1, <2>1 DEF AuthInv, PksGivenOut
    <3>5. GoodLocals'
      BY <2>2, <3>2, <3>3, <3>4 DEF GoodLocals, OldNext, Old, MembersNext, Members
    <3>6. QED
      BY <2>2, <3>1, <3>5, CachesKept
  <2>4. CASE Raise
    BY <2>2, <2>4, RaiseKeeps
  <2>5. QED
    BY <2>1, <2>3, <2>4 DEF Answer
<1>3. CASE ~CanJoinRole(local.role, pk)
  <2>1. NotFound /\ UNCHANGED <<role, granted, account, nextPk, era>>
    BY <1>3 DEF Enroll
  <2>2. Quiet
    BY <2>1, QuietStill
  <2>3. QED
    BY <2>1, <2>2, RaiseKeeps
<1>4. QED
  BY <1>2, <1>3

\* The cache takes over what the loop has confirmed of the role.
LEMMA EnrolledKeeps == ASSUME TypeOK, TypeOK', AuthInv, Enrolled PROVE AuthInv'
<1> DEFINE v == [view EXCEPT !.cache = [role |-> local.role, members |-> local.applied]]
<1>1. /\ pc = "enroll" /\ Go("cleanup", v, NoLocals)
      /\ UNCHANGED <<role, granted, account, nextPk, era>>
  BY DEF Enrolled, authentik
<1>2. Quiet
  BY <1>1, QuietStill
<1>3. view' = v /\ peer' = peer /\ local'.role = Nil /\ pc' = "cleanup"
  BY <1>1 DEF Go, committed, NoLocals
<1>4. local \in Locals /\ view \in PeerData
  BY DEF TypeOK, HookTypeOK
<1>5. /\ view'.role = view.role /\ view'.cache.role = local.role
      /\ view'.cache.members = local.applied
  BY <1>3, <1>4 DEF PeerData
<1>6. BagNext(view)
  BY <1>2, <1>4, BagKept DEF AuthInv
<1>7. /\ OldNext(local.role)
      /\ local.role # Nil /\ local.role = role' => MembersNext(local.applied)
  BY <1>1, <1>2, <1>4, ClaimKept DEF AuthInv, GoodLocals, Locals
<1>8. BagNext(view')
  BY <1>5, <1>6, <1>7 DEF BagNext
<1>9. GoodLocals'
  BY <1>2, <1>3, NoClaim
<1>10. QED
  BY <1>2, <1>3, <1>8, <1>9, AuthKept

\* No request of the provisioning makes a cache claim too much.
LEMMA ProvisionKeeps == ASSUME TypeOK, TypeOK', AuthInv, Provision PROVE AuthInv'
<1>1. local \in Locals /\ view \in PeerData
  BY DEF TypeOK, HookTypeOK
<1> DEFINE still == UNCHANGED <<role, granted, account, nextPk, era>>
<1>2. still => Quiet
  BY QuietStill
<1>3. CASE CheckOutpost
  BY <1>2, <1>3, GoKeeps, RaiseKeeps DEF CheckOutpost, authentik
<1>4. CASE UpdateProvider
  <2> DEFINE v == [view EXCEPT !.config = config]
  <2>1. v.role = view.role /\ v.cache = view.cache
    BY <1>1 DEF PeerData
  <2>2. still /\ (Answer(Go("role", v, local)) \/ NotFound)
    BY <1>4 DEF UpdateProvider
  <2> HIDE DEF v
  <2>3. QED
    BY <1>2, <2>1, <2>2, GoKeeps, RaiseKeeps
<1>5. CASE EnsureProvider
  <2> DEFINE l == [local EXCEPT !.provider = provider'.pk]
  <2>1. l.role = local.role
    BY <1>1 DEF Locals
  <2>2. still /\ Answer(Go("application", view, l))
    BY <1>5 DEF EnsureProvider
  <2> HIDE DEF l
  <2>3. QED
    BY <1>2, <2>1, <2>2, GoKeeps
<1>6. CASE EnsureApplication
  BY <1>2, <1>6, GoKeeps, RaiseKeeps DEF EnsureApplication
<1>7. CASE EnsureOutpost
  <2> DEFINE l == [local EXCEPT !.outpost = outpost']
  <2>1. l.role = local.role
    BY <1>1 DEF Locals
  <2>2. still /\ (Answer(Go("token", view, l)) \/ Raise)
    BY <1>7 DEF EnsureOutpost
  <2> HIDE DEF l
  <2>3. QED
    BY <1>2, <2>1, <2>2, GoKeeps, RaiseKeeps
<1>8. CASE ReadToken
  <2> DEFINE v == [view EXCEPT !.provider = local.provider, !.outpost = local.outpost,
                               !.config = config]
  <2>1. v.role = view.role /\ v.cache = view.cache
    BY <1>1 DEF PeerData
  <2>2. still /\ (Go("role", v, local) \/ NotFound)
    BY <1>8 DEF ReadToken, authentik
  <2> HIDE DEF v
  <2>3. QED
    BY <1>2, <2>1, <2>2, GoKeeps, RaiseKeeps
<1>9. QED
  BY <1>3, <1>4, <1>5, <1>6, <1>7, <1>8, EnsureRoleKeeps, GrantSearchKeeps, EnrollKeeps,
     EnrolledKeeps DEF Provision

-----------------------------------------------------------------------------
(* Serving the consumers *)

\* A new password changes no membership.
LEMMA SetPasswordKeeps ==
  ASSUME TypeOK, TypeOK', AuthInv, NEW label, label \notin {"grant", "enroll"}, local.pk \in Pks,
         SetPassword(label)
  PROVE  AuthInv'
<1>1. UNCHANGED <<role, granted, nextPk, era>>
  BY DEF SetPassword
<1>2. CASE account[local.pk] # Nil
  <2>1. PICK p \in FreshPasswords(cur) :
          /\ account' = [account EXCEPT ![local.pk].password = p]
          /\ Answer(Go(label, view, [local EXCEPT !.password = p]))
    BY <1>2 DEF SetPassword
  <2> DEFINE row == [account[local.pk] EXCEPT !.password = p]
             l == [local EXCEPT !.password = p]
  <2>2. row.member = account[local.pk].member
    BY <1>2 DEF TypeOK, DatabaseTypeOK, Account, Maybe
  <2>3. account' = [account EXCEPT ![local.pk] = row]
    BY <2>1
  <2>4. l.role = local.role
    BY DEF TypeOK, HookTypeOK, Locals
  <2>5. Answer(Go(label, view, l))
    BY <2>1
  <2> HIDE DEF row, l
  <2>6. Quiet
    BY <1>1, <1>2, <2>2, <2>3, QuietUpdate
  <2>7. QED
    BY <2>4, <2>5, <2>6, GoKeeps
<1>3. CASE account[local.pk] = Nil
  BY <1>1, <1>3, QuietStill, RaiseKeeps DEF SetPassword
<1>4. QED
  BY <1>2, <1>3

\* A new account gets a primary key no cache holds for the live role.
LEMMA CreateAccountKeeps == ASSUME TypeOK, TypeOK', AuthInv, CreateAccount PROVE AuthInv'
<1> DEFINE name == BindUserName(cur, request[cur].user)
           row == [name |-> name, password |-> Nil, member |-> FALSE, groups |-> {}]
           l(k) == [local EXCEPT !.pk = k, !.name = name]
<1>1. UNCHANGED <<role, granted, era>>
  BY DEF CreateAccount
<1>2. ASSUME Quiet, NEW k \in Pks, Answer(Go("password", view, l(k))) PROVE AuthInv'
  <2>1. l(k).role = local.role
    BY DEF TypeOK, HookTypeOK, Locals
  <2> HIDE DEF l
  <2>2. QED
    BY <1>2, <2>1, GoKeeps
<1>3. CASE UNCHANGED <<account, nextPk>> /\ \E k \in Pks : Answer(Go("password", view, l(k)))
  BY <1>1, <1>2, <1>3, QuietStill
<1>4. CASE /\ nextPk \in Pks /\ account' = [account EXCEPT ![nextPk] = row]
           /\ nextPk' = nextPk + 1 /\ Answer(Go("password", view, l(nextPk)))
  <2>1. nextPk \in Nat /\ Pks \subseteq Nat /\ era \in Nat
    BY DEF TypeOK, DatabaseTypeOK, Pks
  <2>2. ASSUME NEW k \in Pks
        PROVE  /\ account'[k] # Nil => k < nextPk'
               /\ k < nextPk => account'[k] = account[k]
    BY <1>4, <2>1, <2>2 DEF TypeOK, DatabaseTypeOK, AuthInv, PksGivenOut
  <2>3. AccountsKept
    BY <1>4, <2>1, <2>2 DEF AccountsKept
  <2>4. Quiet
    BY <1>1, <2>1, <2>3 DEF Quiet, RoleKept
  <2>5. QED
    BY <1>2, <1>4, <2>4
<1>5. QED
  BY <1>3, <1>4 DEF CreateAccount

\* An account joins the recorded role only while that role is the live one.
LEMMA JoinRoleKeeps == ASSUME TypeOK, TypeOK', AuthInv, JoinRole PROVE AuthInv'
<1> DEFINE members == CachedMembers(view, view.role) \union {local.pk}
           v == [view EXCEPT !.cache = [role |-> view.role, members |-> members]]
           label == MoveGroup(cur, NoGroup)
<1>1. local.pk \in Pks /\ view \in PeerData /\ label \notin {"grant", "enroll"}
  BY MoveGroupType DEF JoinRole, TypeOK, LocalsInUse, HookTypeOK, ConsumerSteps, AccountSteps
<1>2. UNCHANGED <<role, granted, nextPk, era>>
  BY DEF JoinRole
<1>3. CASE CanJoinRole(view.role, local.pk)
  <2>1. /\ view.role = role /\ account[local.pk] # Nil /\ JoinsRole(local.pk)
        /\ Answer(Go(label, v, local))
    BY <1>3 DEF JoinRole, CanJoinRole
  <2>2. Quiet /\ account'[local.pk].member = TRUE
    BY <1>1, <1>2, <2>1, QuietJoin
  <2>3. CASE Go(label, v, local)
    <3>1. view' = v /\ peer' = peer /\ local' = local /\ pc' = label
      BY <2>3 DEF Go, committed
    <3>2. /\ view'.role = view.role /\ view'.cache.role = view.role
          /\ view'.cache.members = members
      BY <1>1, <3>1 DEF PeerData
    <3>3. BagNext(view)
      BY <1>1, <2>2, BagKept DEF AuthInv
    <3>4. local.pk < nextPk'
      BY <1>1, <1>2, <2>1 DEF AuthInv, PksGivenOut
    <3>5. view.role # Nil /\ view.role = role' => MembersNext(members)
      BY <2>2, <3>3, <3>4 DEF BagNext, MembersNext, CachedMembers
    <3> HIDE DEF members, v, label
    <3>6. BagNext(view')
      BY <3>2, <3>3, <3>5 DEF BagNext
    <3>7. GoodLocals'
      BY <1>1, <2>2, <3>1, NoClaim
    <3>8. QED
      BY <2>2, <3>1, <3>6, <3>7, AuthKept
  <2>4. CASE Raise
    BY <2>2, <2>4, RaiseKeeps
  <2>5. QED
    BY <2>1, <2>3, <2>4 DEF Answer
<1>4. CASE ~CanJoinRole(view.role, local.pk)
  BY <1>2, <1>4, QuietStill, RaiseKeeps DEF JoinRole
<1>5. QED
  BY <1>3, <1>4

\* A change of groups changes no membership of the role.
LEMMA RegroupKeeps ==
  ASSUME TypeOK, TypeOK', AuthInv, NEW group, NEW groups, NEW label,
         label \notin {"grant", "enroll"}, local.pk \in Pks, Regroup(group, groups, label)
  PROVE  AuthInv'
<1> DEFINE row == [account[local.pk] EXCEPT !.groups = groups]
<1>1. UNCHANGED <<role, granted, nextPk, era>>
  BY DEF Regroup
<1>2. CASE UNCHANGED account /\ (Go(label, view, local) \/ Raise)
  BY <1>1, <1>2, QuietStill, GoKeeps, RaiseKeeps
<1>3. CASE /\ account[local.pk] # Nil /\ account' = [account EXCEPT ![local.pk] = row]
           /\ Answer(Go(label, view, local))
  <2>1. row.member = account[local.pk].member
    BY <1>3 DEF TypeOK, DatabaseTypeOK, Account, Maybe
  <2> HIDE DEF row
  <2>2. Quiet
    BY <1>1, <1>3, <2>1, QuietUpdate
  <2>3. QED
    BY <1>3, <2>2, GoKeeps
<1>4. QED
  BY <1>2, <1>3 DEF Regroup

\* Nor does a rename.
LEMMA RenameKeeps == ASSUME TypeOK, TypeOK', AuthInv, Rename PROVE AuthInv'
<1> DEFINE target == BindUserName(cur, request[cur].user)
           row == [account[local.pk] EXCEPT !.name = target]
           l == [local EXCEPT !.name = target]
           label == MoveGroup(cur, view.client[cur].group)
<1>1. local.pk \in Pks /\ label \notin {"grant", "enroll"} /\ l.role = local.role
  BY MoveGroupType
  DEF Rename, TypeOK, LocalsInUse, HookTypeOK, Locals, ConsumerSteps, AccountSteps
<1>2. UNCHANGED <<role, granted, nextPk, era>>
  BY DEF Rename
<1>3. CASE Raise /\ UNCHANGED account
  BY <1>2, <1>3, QuietStill, RaiseKeeps
<1>4. CASE /\ account[local.pk] # Nil /\ account' = [account EXCEPT ![local.pk] = row]
           /\ Answer(Go(label, view, l))
  <2>1. row.member = account[local.pk].member
    BY <1>1, <1>4 DEF TypeOK, DatabaseTypeOK, Account, Maybe
  <2> HIDE DEF row, l, label
  <2>2. Quiet
    BY <1>1, <1>2, <1>4, <2>1, QuietUpdate
  <2>3. QED
    BY <1>1, <1>4, <2>2, GoKeeps
<1>5. QED
  BY <1>3, <1>4 DEF Rename

\* A consumer that finds no recorded role makes sure of one and of its grant itself.
LEMMA OwnRoleKeeps == ASSUME TypeOK, TypeOK', AuthInv, OwnRole PROVE AuthInv'
<1> DEFINE l == [local EXCEPT !.role = role']
<1>1. Quiet
  BY QuietRole DEF OwnRole
<1>2. CASE Go("ownGrant", view, l)
  <2>1. local'.role = role' /\ view' = view /\ peer' = peer /\ pc' = "ownGrant"
    BY <1>2 DEF Go, committed, TypeOK, HookTypeOK, Locals
  <2>2. role' # Nil => role' <= era'
    BY DEF OwnRole, RoleIsThere, AuthInv, Old, TypeOK, DatabaseTypeOK
  <2>3. role' # Nil
    BY NilAssumption DEF OwnRole, RoleIsThere, TypeOK, DatabaseTypeOK
  <2>4. GoodLocals'
    BY <2>1, <2>2, <2>3 DEF GoodLocals, Old
  <2>5. QED
    BY <1>1, <2>1, <2>4, CachesKept
<1>3. CASE Raise
  BY <1>1, <1>3, RaiseKeeps
<1>4. QED
  BY <1>2, <1>3 DEF OwnRole, Answer

\* The grant a consumer makes itself is recorded like that of the provisioning.
LEMMA OwnGrantKeeps == ASSUME TypeOK, TypeOK', AuthInv, OwnGrant PROVE AuthInv'
<1>1. UNCHANGED <<role, account, nextPk, era>>
  BY DEF OwnGrant
<1>2. CASE Assignable(local.role)
  <2>1. /\ granted' = TRUE /\ local.role = role
        /\ Answer(Go("member", Verified(view, local.role), local))
    BY <1>2, Zenon DEF OwnGrant, Assignable
  <2>2. CASE Go("member", Verified(view, local.role), local)
    BY <1>1, <2>1, <2>2, VerifiedKeeps
  <2>3. CASE Raise
    BY <1>1, <2>1, <2>3, QuietStill, RaiseKeeps
  <2>4. QED
    BY <2>1, <2>2, <2>3 DEF Answer
<1>3. CASE ~Assignable(local.role)
  BY <1>1, <1>3, QuietStill, RaiseKeeps DEF OwnGrant
<1>4. QED
  BY <1>2, <1>3

\* A deleted account may stay in the cache: nothing is claimed of an absent account.
LEMMA DeleteOrphanKeeps ==
  ASSUME TypeOK, TypeOK', AuthInv, NEW r \in Relations, DeleteOrphan(r)
  PROVE  AuthInv'
<1> DEFINE v == [view EXCEPT !.client[r] = Nil]
<1>1. v.role = view.role /\ v.cache = view.cache
  BY DEF TypeOK, HookTypeOK, PeerData
<1>2. /\ UNCHANGED <<role, granted, nextPk, era>>
      /\ account' = [account EXCEPT ![view.client[r].pk] = Nil]
      /\ Answer(Go("cleanup", v, local))
  BY DEF DeleteOrphan
<1> HIDE DEF v
<1>3. \A k \in Pks : account'[k] # Nil =>
        account[k] # Nil /\ (account[k].member = TRUE => account'[k].member = TRUE)
  BY <1>2 DEF TypeOK, DatabaseTypeOK
<1>4. Quiet
  BY <1>2, <1>3, QuietAccounts
<1>5. QED
  BY <1>1, <1>2, <1>4, GoKeeps

\* No request made for a consumer makes a cache claim too much.
LEMMA ServeConsumersKeeps == ASSUME TypeOK, TypeOK', AuthInv, ServeConsumers PROVE AuthInv'
<1> DEFINE still == UNCHANGED <<role, granted, account, nextPk, era>>
<1>1. ASSUME still, pc' \notin {"grant", "enroll"}, local'.role = Nil, peer' = peer,
             view'.role = view.role, view'.cache = view.cache
      PROVE  AuthInv'
  BY <1>1, QuietStill, NoClaim, CachesKept
<1>2. CASE CleanedUp
  BY <1>1, <1>2 DEF CleanedUp, BeginServing, NoLocals, authentik, committed
<1>3. CASE FirstPassword
  BY <1>3, SetPasswordKeeps, AuthorizeType
  DEF FirstPassword, TypeOK, LocalsInUse, ConsumerSteps, AccountSteps
<1>4. CASE RotatePassword
  BY <1>4, SetPasswordKeeps, IdentityStepType
  DEF RotatePassword, TypeOK, LocalsInUse, ConsumerSteps, AccountSteps
<1>5. CASE LeaveGroup \/ JoinGroup
  <2>1. local.pk \in Pks
    BY <1>5 DEF LeaveGroup, JoinGroup, TypeOK, LocalsInUse, ConsumerSteps, AccountSteps
  <2>2. QED
    BY <1>5, <2>1, RegroupKeeps DEF LeaveGroup, JoinGroup
<1>6. CASE Publish
  <2>1. still /\ pc' = "serve" /\ local'.role = Nil /\ peer' = peer
    BY <1>6 DEF Publish, authentik, committed, NoLocals
  <2>2. view'.role = view.role /\ view'.cache = view.cache
    BY <1>6 DEF Publish, TypeOK, HookTypeOK, PeerData
  <2>3. QED
    BY <1>1, <2>1, <2>2
<1>7. ASSUME NEW r \in Relations, Serve(r) PROVE AuthInv'
  <2>1. still /\ peer' = peer /\ view' = view
    BY <1>7 DEF Serve, authentik, committed
  <2>2. pc' \notin {"grant", "enroll"}
    BY <1>7, IdentityStepType DEF Serve, FirstStep
  <2>3. local'.role = Nil
    BY <1>7 DEF Serve, NoLocals
  <2>4. QED
    BY <1>1, <2>1, <2>2, <2>3
<1>8. QED
  BY <1>2, <1>3, <1>4, <1>5, <1>6, <1>7, CreateAccountKeeps, OwnRoleKeeps, OwnGrantKeeps,
     JoinRoleKeeps, RenameKeeps, DeleteOrphanKeeps DEF ServeConsumers

-----------------------------------------------------------------------------
(* Failures and the rest *)

\* A crash falls back on a databag that was right, and a loss takes the role along.
LEMMA FailureKeeps == ASSUME TypeOK, TypeOK', AuthInv, Failure PROVE AuthInv'
<1>1. CASE RequestFails
  BY <1>1, QuietStill, RaiseKeeps DEF RequestFails, authentik
<1>2. CASE Crash
  <2>1. /\ Quiet /\ view' = peer /\ peer' = peer
        /\ pc' \notin {"grant", "enroll"} /\ local'.role = Nil
    BY <1>2, QuietStill DEF Crash, EndHook, NoLocals, authentik, committed
  <2>2. QED
    BY <2>1, NoClaim, CachesKept
<1>3. ASSUME Quiet, UNCHANGED <<peer, hook>> PROVE AuthInv'
  <2>1. peer' = peer /\ view' = view /\ pc' = pc /\ local' = local
    BY <1>3 DEF hook
  <2>2. QED
    BY <1>3, <2>1, LocalsKept, CachesKept
<1>4. CASE LoseDatabase
  <2>1. RoleLost
    BY <1>4 DEF LoseDatabase, Loss, RoleLost
  <2>2. QED
    BY <1>3, <1>4, <2>1 DEF LoseDatabase, Quiet, committed
<1>5. CASE LoseOutpost
  <2>1. RoleKept
    BY <1>5 DEF LoseOutpost, Loss, RoleKept, AccountsKept, AuthInv, PksGivenOut, TypeOK, DatabaseTypeOK
  <2>2. QED
    BY <1>3, <1>5, <2>1 DEF LoseOutpost, Quiet, committed
<1>6. CASE LoseRole
  <2>1. \A k \in Pks : account'[k] # Nil => k < nextPk'
    BY <1>6 DEF LoseRole, AuthInv, PksGivenOut
  <2>2. RoleLost
    BY <1>6, <2>1 DEF LoseRole, Loss, RoleLost
  <2>3. QED
    BY <1>3, <1>6, <2>2 DEF LoseRole, Quiet, committed
<1>7. CASE \E r \in Relations : LoseSecret(r)
  BY <1>3, <1>7, QuietStill DEF LoseSecret, authentik
<1>8. QED
  BY <1>1, <1>2, <1>4, <1>5, <1>6, <1>7 DEF Failure

\* Every step keeps the invariant.
LEMMA AuthInvInductive == TypeOK /\ AuthInv /\ [Next]_vars => AuthInv'
<1> SUFFICES ASSUME TypeOK, AuthInv, [Next]_vars PROVE AuthInv'
  OBVIOUS
<1>1. TypeOK'
  BY NextType
<1>2. CASE StartHook
  <2>1. /\ UNCHANGED <<role, granted, account, nextPk, era>> /\ peer' = peer /\ view' = view
        /\ pc' \notin {"grant", "enroll"} /\ local' = local
    BY <1>2 DEF StartHook, authentik, committed
  <2>2. QED
    BY <1>1, <2>1, QuietStill, NoClaim, CachesKept
<1>3. CASE EndOfHook
  BY <1>1, <1>3, QuietStill, RaiseKeeps DEF EndOfHook, authentik
<1>4. CASE Environment \/ UNCHANGED vars
  <2>1. UNCHANGED <<authentik, peer, hook>>
    BY <1>4 DEF Environment, AddRelation, RemoveRelation, ChangeRequest, ChangeConfig, vars,
                committed
  <2>2. QED
    BY <1>1, <2>1, QuietStill, LocalsKept, CachesKept DEF authentik, hook
<1>5. QED
  BY <1>1, <1>2, <1>3, <1>4, ProvisionKeeps, ServeConsumersKeeps, FailureKeeps
  DEF Next, HookStep

\* An empty databag claims nothing.
LEMMA InitAuth == Init => AuthInv
  BY DEF Init, EmptyPeer, NoLocals, AuthInv, PksGivenOut, Old, GoodBag, GoodLocals

\* The invariant holds in every reachable state.
LEMMA AuthInvHolds == Spec => []AuthInv
<1>1. Init => AuthInv
  BY InitAuth
<1>2. TypeOK /\ AuthInv /\ [Next]_vars => AuthInv'
  BY AuthInvInductive
<1>3. QED
  BY <1>1, <1>2, TypeCorrect, PTL DEF Spec

\* Whatever is lost, fails or crashes, a role the databag records as verified holds
\* the grant if it still exists: the skipped assignment is never missing.
THEOREM GrantCacheIsSound == Spec => []GrantCacheSound
<1>1. AuthInv => GrantCacheSound
  BY DEF AuthInv, GoodBag, GrantCacheSound
<1>2. QED
  BY <1>1, AuthInvHolds, PTL

\* Whatever is lost, fails or crashes, an account the databag records as a member of
\* a role that still exists is one: the skipped add_user_to_role is never missing.
THEOREM RoleCacheIsSound == Spec => []RoleCacheSound
<1>1. AuthInv => RoleCacheSound
  BY DEF AuthInv, GoodBag, Members, RoleCacheSound
<1>2. QED
  BY <1>1, AuthInvHolds, PTL

=============================================================================
