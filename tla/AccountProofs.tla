----------------------------- MODULE AccountProofs -----------------------------
(***************************************************************************)
(* What the charm may believe of the accounts it tracks, and what it does  *)
(* to them.                                                                *)
(*                                                                         *)
(* A databag is right about accounts only as long as its outpost is the    *)
(* live one: after a lost database the primary keys it holds belong to     *)
(* nobody, and soon to somebody else.  What keeps the charm from acting on *)
(* such a key is the order of its requests: the outpost is verified before *)
(* any account is touched, and after a database was lost in the middle of  *)
(* a hook every step that needs the provider, the role or an account       *)
(* fails.                                                                  *)
(***************************************************************************)
EXTENDS OutpostProofs, AuthorizationProofs

\* The databag d is about the outpost that exists.
Current(d) == d.outpost # Nil /\ d.outpost = outpost

\* Between the creation of an account and its first authorization.
FirstSteps == {"password", "ownRole", "ownGrant", "member"}

-----------------------------------------------------------------------------
(* The hook's own bookkeeping: nothing here is about Authentik. *)

Bag(d) ==
  /\ d.outpost # Nil => d.provider # Nil
  /\ \A r \in Relations : d.client[r] # Nil =>
       d.outpost # Nil /\ rel[r] # "new" /\ d.client[r].name[1] = r

AtProvisioning ==
  /\ pc = "idle" => view = peer
  /\ pc \in FreshSteps => fresh = TRUE /\ view.client = NoClients
  /\ pc \in {"application", "outpost", "token"} => local.provider # Nil
  /\ pc = "token" => local.outpost # Nil
  /\ pc \notin FreshSteps \union {"idle"} => view.outpost # Nil

AtConsumer ==
  /\ todo \subseteq Active
  /\ pc = "idle" => todo = {}
  /\ pc \in ConsumerSteps => cur \in Active \ todo
  /\ pc \in ConsumerSteps \ {"create"} => local.name[1] = cur
  /\ pc \in {"create"} \union FirstSteps => view.client[cur] = Nil
  /\ pc \in ConsumerSteps /\ view.client[cur] # Nil => local.pk = view.client[cur].pk
  /\ pc = "rotate" => secret[cur] = Nil /\ view.client[cur] # Nil
  /\ pc = "ownGrant" => local.role # Nil
  /\ pc = "member" => view.role # Nil

Outputs ==
  /\ pc \notin {"serve"} \union ConsumerSteps => out = NoOutput
  /\ \A r \in Relations : out[r] # Nil =>
       r \notin todo /\ (pc \in ConsumerSteps => r # cur) /\ out[r].name[1] = r
  /\ \A r \in Relations : published[r] # Nil => published[r].name[1] = r

HookInv == Bag(peer) /\ Bag(view) /\ AtProvisioning /\ AtConsumer /\ Outputs

\* The two databags track the same accounts, for the same outpost.
Alike(d, e) == d.client = e.client /\ d.outpost = e.outpost /\ d.provider = e.provider

\* Databag entries that say nothing of outpost or accounts.
LEMMA AlikeUpdates ==
  ASSUME NEW v \in PeerData
  PROVE  /\ \A c : Alike([v EXCEPT !.config = c], v)
         /\ \A u : Alike([v EXCEPT !.role = u], v) /\ [v EXCEPT !.role = u].role = u
         /\ \A u : Alike(Verified(v, u), v) /\ Verified(v, u).role = u
         /\ \A c : Alike([v EXCEPT !.cache = c], v) /\ [v EXCEPT !.cache = c].role = v.role
  BY DEF PeerData, Alike, Verified

\* Locals that are not about the account being served.
LEMMA LocalUpdates ==
  ASSUME NEW l \in Locals
  PROVE  /\ \A p : /\ [l EXCEPT !.provider = p].provider = p
                   /\ [l EXCEPT !.provider = p].outpost = l.outpost
         /\ \A u : /\ [l EXCEPT !.outpost = u].outpost = u
                   /\ [l EXCEPT !.outpost = u].provider = l.provider
         /\ \A u, S : [l EXCEPT !.role = u, !.applied = S].role = u
         /\ \A S : [l EXCEPT !.applied = S].role = l.role
         /\ \A u : LET m == [l EXCEPT !.role = u] IN
              m.role = u /\ m.pk = l.pk /\ m.name = l.name /\ m.password = l.password
         /\ \A p : LET m == [l EXCEPT !.password = p] IN
              m.role = l.role /\ m.pk = l.pk /\ m.name = l.name /\ m.password = p
         /\ \A n : LET m == [l EXCEPT !.name = n] IN
              m.role = l.role /\ m.pk = l.pk /\ m.name = n /\ m.password = l.password
         /\ \A k, n : LET m == [l EXCEPT !.pk = k, !.name = n] IN m.pk = k /\ m.name = n
  BY DEF Locals

\* The updates that are about accounts.
LEMMA ClientUpdates ==
  ASSUME NEW v \in PeerData, NEW r \in Relations, NEW c
  PROVE  LET w == [v EXCEPT !.client[r] = c] IN
         /\ w.client[r] = c
         /\ \A s \in Relations \ {r} : w.client[s] = v.client[s]
         /\ w.outpost = v.outpost /\ w.provider = v.provider /\ w.role = v.role
  BY DEF PeerData

-----------------------------------------------------------------------------
\* A hook that ends, or that turns to the consumers, or that starts over.
Ends == Commit \/ (BeginServing /\ pc = "cleanup")
StartsOver == Reprovision /\ pc \in EnsureSteps /\ fresh = FALSE

LEMMA RaiseShape == Raise => Ends
  BY DEF Raise, Ends

LEMMA NotFoundShape ==
  ASSUME TypeOK, NotFound
  PROVE  Ends \/ StartsOver
  BY RaiseShape DEF NotFound, StartsOver, TypeOK, HookTypeOK

\* The labels of each part of the hook.
LEMMA StepSets ==
  /\ FreshSteps = {"provider", "application", "outpost", "token"}
  /\ EnsureSteps = {"check", "update", "role", "grant", "enroll"}
  /\ ConsumerSteps = {"create", "password", "ownRole", "ownGrant", "member", "rotate", "rename",
                      "leaveGroup", "joinGroup", "publish"}
  /\ FirstSteps = {"password", "ownRole", "ownGrant", "member"}
  BY DEF FreshSteps, EnsureSteps, ConsumerSteps, AccountSteps, FirstSteps

\* A hook that ends leaves a databag and published data that are in order.
LEMMA EndsInOrder ==
  ASSUME TypeOK, HookInv, Ends, rel' = rel
  PROVE  HookInv'
<1> USE StepSets DEF HookInv
<1>1. CASE Commit
  <2>1. view' = view /\ peer' = view /\ pc' = "idle" /\ out' = NoOutput /\ todo' = {}
    BY <1>1 DEF Commit, EndHook
  <2>2. Bag(peer)' /\ Bag(view)'
    BY <2>1 DEF Bag
  <2>3. AtProvisioning' /\ AtConsumer'
    BY <2>1 DEF AtProvisioning, AtConsumer
  <2>4. Outputs'
    <3>1. ASSUME NEW r \in Relations, published'[r] # Nil PROVE published'[r].name[1] = r
      BY <1>1, <3>1 DEF Commit, Outputs
    <3>2. QED
      BY <2>1, <3>1 DEF Outputs, NoOutput
  <2>5. QED
    BY <2>2, <2>3, <2>4
<1>2. CASE BeginServing /\ pc = "cleanup"
  <2>1. /\ UNCHANGED <<view, peer, out, cur, secret, published>>
        /\ pc' = "serve" /\ todo' = Active /\ out = NoOutput
    BY <1>2 DEF BeginServing, committed, Outputs
  <2>2. AtConsumer'
    BY <2>1 DEF AtConsumer, Active
  <2>3. QED
    BY <1>2, <2>1, <2>2 DEF Bag, AtProvisioning, Outputs, NoOutput
<1>3. QED
  BY <1>1, <1>2 DEF Ends

\* A hook that starts over forgets every account.
LEMMA StartsOverInOrder ==
  ASSUME TypeOK, HookInv, StartsOver, rel' = rel
  PROVE  HookInv'
<1> USE StepSets DEF HookInv
<1>1. /\ UNCHANGED <<peer, out, cur, todo, secret, published>>
      /\ pc' = "provider" /\ fresh' = TRUE /\ pc \in EnsureSteps
      /\ view' = [view EXCEPT !.client = NoClients]
  BY DEF StartsOver, Reprovision, committed
<1>2. view'.client = NoClients /\ view'.outpost = view.outpost /\ view'.provider = view.provider
  BY <1>1 DEF TypeOK, HookTypeOK, PeerData
<1>3. Bag(peer)' /\ Bag(view)'
  BY <1>1, <1>2 DEF Bag, NoClients
<1>4. AtProvisioning' /\ AtConsumer' /\ Outputs'
  BY <1>1, <1>2 DEF AtProvisioning, AtConsumer, Active, Outputs
<1>5. QED
  BY <1>3, <1>4

\* The requests made once the outpost is known.
LEMMA VerifiedInOrder ==
  ASSUME TypeOK, HookInv, rel' = rel,
         NEW label, NEW v, NEW l, Go(label, v, l), Alike(v, view),
         pc \in EnsureSteps \union {"cleanup"},
         label \in EnsureSteps \union {"cleanup"}
  PROVE  HookInv'
<1> USE StepSets DEF HookInv
<1>1. /\ UNCHANGED <<peer, out, cur, todo, fresh, secret, published>> /\ pc' = label
      /\ view' = v
  BY DEF Go, committed
<1>2. Bag(peer)' /\ Bag(view)'
  BY <1>1 DEF Bag, Alike
<1>3. AtProvisioning' /\ AtConsumer' /\ Outputs'
  BY <1>1 DEF AtProvisioning, AtConsumer, Active, Outputs, Alike
<1>4. QED
  BY <1>2, <1>3

\* The requests of _provision_fresh_resources before its last answer.
LEMMA FreshInOrder ==
  ASSUME TypeOK, HookInv, rel' = rel,
         NEW label, NEW l, Go(label, view, l), pc \in FreshSteps,
         label \in {"application", "outpost", "token"},
         l.provider # Nil, label = "token" => l.outpost # Nil
  PROVE  HookInv'
<1> USE StepSets DEF HookInv
<1>1. /\ UNCHANGED <<peer, view, out, cur, todo, fresh, secret, published>> /\ pc' = label
      /\ local' = l
  BY DEF Go, committed
<1>2. Bag(peer)' /\ Bag(view)'
  BY <1>1 DEF Bag
<1>3. AtProvisioning' /\ AtConsumer' /\ Outputs'
  BY <1>1 DEF AtProvisioning, AtConsumer, Active, Outputs
<1>4. QED
  BY <1>2, <1>3

\* Provisioning keeps the books.
LEMMA ProvisionInOrder ==
  ASSUME TypeOK, TypeOK', HookInv, Provision
  PROVE  HookInv'
<1> USE StepSets
<1>1. rel' = rel
  BY DEF Provision, CheckOutpost, UpdateProvider, EnsureProvider, EnsureApplication, EnsureOutpost,
    ReadToken, EnsureRole, GrantSearch, Enrolled, Enroll, inputs
<1>2. view \in PeerData /\ local \in Locals
  BY DEF TypeOK, HookTypeOK
<1>3. Alike(view, view)
  BY DEF Alike
<1>4. CASE Ends \/ StartsOver
  BY <1>1, <1>4, EndsInOrder, StartsOverInOrder
<1>5. CASE ~Ends /\ ~StartsOver
  <2> USE <1>5, RaiseShape, NotFoundShape
  <2>1. CASE CheckOutpost
    BY <1>1, <1>3, <2>1, VerifiedInOrder DEF CheckOutpost
  <2>2. CASE UpdateProvider
    BY <1>1, <1>2, <2>2, AlikeUpdates, VerifiedInOrder DEF UpdateProvider, Answer
  <2>3. CASE EnsureProvider
    <3>1. provider'.pk # Nil
      BY <2>3, NilAssumption
      DEF EnsureProvider, TypeOK, DatabaseTypeOK, InputsTypeOK, Maybe, Provider
    <3>2. [local EXCEPT !.provider = provider'.pk].provider # Nil
      BY <1>2, <3>1, LocalUpdates
    <3>3. Go("application", view, [local EXCEPT !.provider = provider'.pk])
      BY <2>3 DEF EnsureProvider, Answer
    <3>4. QED
      BY <1>1, <2>3, <3>2, <3>3, FreshInOrder DEF EnsureProvider
  <2>4. CASE EnsureApplication
    BY <1>1, <2>4, FreshInOrder DEF EnsureApplication, Answer, HookInv, AtProvisioning
  <2>5. CASE EnsureOutpost
    <3>1. outpost' # Nil
      BY <2>5, NilAssumption DEF EnsureOutpost, TypeOK, DatabaseTypeOK
    <3> DEFINE l == [local EXCEPT !.outpost = outpost']
    <3>2. Go("token", view, l) /\ pc = "outpost"
      BY <2>5 DEF EnsureOutpost, Answer
    <3>3. l.provider # Nil /\ l.outpost # Nil
      BY <1>2, <3>1, <3>2, LocalUpdates DEF HookInv, AtProvisioning
    <3> HIDE DEF l
    <3>4. QED
      BY <1>1, <3>2, <3>3, FreshInOrder
  <2>6. CASE ReadToken
    <3> DEFINE v == [view EXCEPT !.provider = local.provider, !.outpost = local.outpost,
                                 !.config = config]
    <3>1. v.client = NoClients /\ v.outpost # Nil /\ v.provider # Nil
      BY <1>2, <2>6 DEF ReadToken, HookInv, AtProvisioning, PeerData
    <3>2. Go("role", v, local) /\ pc = "token"
      BY <2>6 DEF ReadToken
    <3> HIDE DEF v
    <3>3. /\ UNCHANGED <<peer, out, cur, todo, secret, published>> /\ pc' = "role" /\ view' = v
      BY <3>2 DEF Go, committed
    <3>4. Bag(peer)' /\ Bag(view)'
      BY <1>1, <3>1, <3>3 DEF HookInv, Bag, NoClients
    <3>5. AtProvisioning' /\ AtConsumer' /\ Outputs'
      BY <1>1, <3>1, <3>2, <3>3 DEF HookInv, AtProvisioning, AtConsumer, Active, Outputs
    <3>6. QED
      BY <3>4, <3>5 DEF HookInv
  <2>7. CASE EnsureRole
    <3> DEFINE l == [local EXCEPT !.role = role', !.applied = CachedMembers(view, role')]
    <3>1. Go("enroll", [view EXCEPT !.role = role'], l) \/ Go("grant", view, l)
      BY <2>7 DEF EnsureRole, Answer
    <3> HIDE DEF l
    <3>2. QED
      BY <1>1, <1>2, <1>3, <2>7, <3>1, AlikeUpdates, VerifiedInOrder DEF EnsureRole
  <2>8. CASE GrantSearch
    BY <1>1, <1>2, <2>8, AlikeUpdates, VerifiedInOrder DEF GrantSearch, Answer
  <2>9. CASE Enrolled
    BY <1>1, <1>2, <2>9, AlikeUpdates, VerifiedInOrder DEF Enrolled
  <2>10. CASE \E r \in Relations : Enroll(r)
    BY <1>1, <1>3, <2>10, VerifiedInOrder DEF Enroll, Answer
  <2>11. QED
    BY <2>1, <2>2, <2>3, <2>4, <2>5, <2>6, <2>7, <2>8, <2>9, <2>10 DEF Provision
<1>6. QED
  BY <1>4, <1>5

-----------------------------------------------------------------------------
\* The requests made for one consumer.
LEMMA ConsumerInOrder ==
  ASSUME TypeOK, HookInv, rel' = rel,
         NEW label, NEW v, NEW l, Go(label, v, l), Alike(v, view), pc \in ConsumerSteps,
         label \in ConsumerSteps \ {"create", "rotate"},
         l.name[1] = cur,
         view.client[cur] # Nil => l.pk = view.client[cur].pk /\ label \notin FirstSteps,
         label = "ownGrant" => l.role # Nil,
         label = "member" => v.role # Nil
  PROVE  HookInv'
<1> USE StepSets DEF HookInv
<1>1. /\ UNCHANGED <<peer, out, cur, todo, fresh, secret, published>> /\ pc' = label
      /\ view' = v /\ local' = l
  BY DEF Go, committed
<1>2. Bag(peer)' /\ Bag(view)'
  BY <1>1 DEF Bag, Alike
<1>3. AtProvisioning' /\ AtConsumer' /\ Outputs'
  BY <1>1 DEF AtProvisioning, AtConsumer, Active, Outputs, Alike
<1>4. QED
  BY <1>2, <1>3

\* What the steps of a consumer share.
LEMMA AtConsumerStep ==
  ASSUME TypeOK, HookInv, pc \in ConsumerSteps
  PROVE  /\ cur \in Relations /\ rel[cur] = "active" /\ cur \notin todo
         /\ view \in PeerData /\ local \in Locals
         /\ pc # "create" => local.pk \in Pks /\ local.name[1] = cur
         /\ view.client[cur] # Nil => local.pk = view.client[cur].pk
         /\ pc \in {"create"} \union FirstSteps => view.client[cur] = Nil
         /\ view.outpost # Nil /\ view.provider # Nil
         /\ out[cur] = Nil
  BY StepSets
  DEF TypeOK, HookTypeOK, LocalsInUse, HookInv, AtConsumer, AtProvisioning, Outputs, Bag, Active

\* A group move leads to no step that asks for more than the account.
LEMMA MoveGroupStep ==
  ASSUME NEW old
  PROVE  /\ MoveGroup(cur, old) \in ConsumerSteps \ {"create", "rotate"}
         /\ MoveGroup(cur, old) \notin FirstSteps
         /\ MoveGroup(cur, old) \notin {"ownGrant", "member"}
  BY MoveGroupType, StepSets

LEMMA IdentityStep ==
  /\ ReconcileIdentity(cur) \in ConsumerSteps \ {"create", "rotate"}
  /\ ReconcileIdentity(cur) \notin FirstSteps
  /\ ReconcileIdentity(cur) \notin {"ownGrant", "member"}
  BY IdentityStepType, StepSets

\* With an outpost known, the provider is known: a new account is always authorized.
LEMMA AuthorizeStep ==
  ASSUME view.provider # Nil
  PROVE  \/ Authorize = "member" /\ view.role # Nil
         \/ Authorize = "ownRole" /\ view.role = Nil
  BY DEF Authorize

\* A password is set, or the hook ends.
LEMMA SetPasswordInOrder ==
  ASSUME TypeOK, HookInv, NEW label, SetPassword(label),
         pc \in {"password", "rotate"},
         label \in ConsumerSteps \ {"create", "rotate", "ownGrant"},
         pc = "rotate" => label \notin FirstSteps,
         label = "member" => view.role # Nil
  PROVE  HookInv'
<1> USE StepSets
<1>1. rel' = rel
  BY DEF SetPassword, inputs
<1>2. CASE Ends
  BY <1>1, <1>2, EndsInOrder
<1>3. CASE ~Ends
  <2>1. PICK p : Go(label, view, [local EXCEPT !.password = p])
    BY <1>3, RaiseShape DEF SetPassword, Answer
  <2> DEFINE l == [local EXCEPT !.password = p]
  <2>2. l.name = local.name /\ l.pk = local.pk
    BY AtConsumerStep, LocalUpdates
  <2>3. Go(label, view, l)
    BY <2>1
  <2> HIDE DEF l
  <2>4. QED
    BY <1>1, <2>2, <2>3, AtConsumerStep, ConsumerInOrder DEF Alike
<1>4. QED
  BY <1>2, <1>3

\* The group move, likewise.
LEMMA RegroupInOrder ==
  ASSUME TypeOK, HookInv, NEW group, NEW groups, NEW label, Regroup(group, groups, label),
         pc \in {"leaveGroup", "joinGroup"}, label \in {"joinGroup", "publish"}
  PROVE  HookInv'
<1> USE StepSets
<1>1. rel' = rel
  BY DEF Regroup, inputs
<1>2. CASE Ends
  BY <1>1, <1>2, EndsInOrder
<1>3. CASE ~Ends
  <2>1. Go(label, view, local)
    BY <1>3, RaiseShape DEF Regroup, Answer
  <2>2. QED
    BY <1>1, <2>1, AtConsumerStep, ConsumerInOrder DEF Alike
<1>4. QED
  BY <1>2, <1>3

\* Serving keeps the books.
LEMMA ServeConsumersInOrder ==
  ASSUME TypeOK, TypeOK', HookInv, ServeConsumers
  PROVE  HookInv'
<1> USE StepSets
<1>1. rel' = rel
  BY DEF ServeConsumers, CleanedUp, CreateAccount, FirstPassword, SetPassword, OwnRole, OwnGrant,
    JoinRole, RotatePassword, Rename, LeaveGroup, JoinGroup, Regroup, Publish, DeleteOrphan, Serve,
    inputs
<1>2. view \in PeerData /\ local \in Locals
  BY DEF TypeOK, HookTypeOK
<1>3. CASE Ends
  BY <1>1, <1>3, EndsInOrder
<1>4. CASE FirstPassword
  <2>1. view.provider # Nil
    BY <1>4, AtConsumerStep DEF FirstPassword
  <2>2. QED
    BY <1>4, <2>1, AuthorizeStep, SetPasswordInOrder DEF FirstPassword
<1>5. CASE RotatePassword
  BY <1>5, IdentityStep, SetPasswordInOrder DEF RotatePassword
<1>6. CASE LeaveGroup \/ JoinGroup
  BY <1>6, RegroupInOrder DEF LeaveGroup, JoinGroup
<1>7. CASE CleanedUp
  BY <1>1, <1>7, EndsInOrder DEF CleanedUp, Ends
<1>8. CASE CreateAccount /\ ~Ends
  <2> DEFINE n == BindUserName(cur, request[cur].user)
             l(k) == [local EXCEPT !.pk = k, !.name = n]
  <2>1. PICK k : Go("password", view, l(k))
    BY <1>8, RaiseShape DEF CreateAccount, Answer
  <2>2. l(k).name[1] = cur
    BY <1>2, LocalUpdates DEF BindUserName
  <2> HIDE DEF l
  <2>3. QED
    BY <1>1, <1>8, <2>1, <2>2, AtConsumerStep, ConsumerInOrder DEF CreateAccount, Alike
<1>9. CASE OwnRole /\ ~Ends
  <2> DEFINE l == [local EXCEPT !.role = role']
  <2>1. Go("ownGrant", view, l) /\ role' # Nil
    BY <1>9, RaiseShape, NilAssumption
    DEF OwnRole, Answer, RoleIsThere, TypeOK, DatabaseTypeOK
  <2>2. l.name = local.name /\ l.pk = local.pk /\ l.role = role'
    BY <1>2, LocalUpdates
  <2> HIDE DEF l
  <2>3. QED
    BY <1>1, <1>9, <2>1, <2>2, AtConsumerStep, ConsumerInOrder DEF OwnRole, Alike
<1>10. CASE OwnGrant /\ ~Ends
  <2>1. Go("member", Verified(view, local.role), local) /\ local.role # Nil
    BY <1>10, RaiseShape DEF OwnGrant, Answer, HookInv, AtConsumer
  <2>2. QED
    BY <1>1, <1>2, <1>10, <2>1, AlikeUpdates, AtConsumerStep, ConsumerInOrder DEF OwnGrant
<1>11. CASE JoinRole /\ ~Ends
  <2> DEFINE c == [role |-> view.role,
                   members |-> CachedMembers(view, view.role) \union {local.pk}]
  <2>1. Go(MoveGroup(cur, NoGroup), [view EXCEPT !.cache = c], local) /\ pc = "member"
    BY <1>11, RaiseShape DEF JoinRole, Answer
  <2> HIDE DEF c
  <2>2. QED
    BY <1>1, <1>2, <2>1, AlikeUpdates, MoveGroupStep, AtConsumerStep, ConsumerInOrder
<1>12. CASE Rename /\ ~Ends
  <2> DEFINE n == BindUserName(cur, request[cur].user)
             l == [local EXCEPT !.name = n]
             label == MoveGroup(cur, view.client[cur].group)
  <2>1. Go(label, view, l) /\ pc = "rename"
    BY <1>12, RaiseShape DEF Rename, Answer
  <2>2. l.name[1] = cur /\ l.pk = local.pk
    BY <1>2, LocalUpdates DEF BindUserName
  <2>3. label \in ConsumerSteps \ {"create", "rotate"} /\ label \notin FirstSteps
        /\ label \notin {"ownGrant", "member"}
    BY MoveGroupStep
  <2> HIDE DEF l, label
  <2>4. QED
    BY <1>1, <2>1, <2>2, <2>3, AtConsumerStep, ConsumerInOrder DEF Alike
<1>13. CASE Publish
  <2> DEFINE c == [pk |-> local.pk, name |-> local.name,
                   user |-> request[cur].user, group |-> request[cur].group]
             o == [name |-> local.name, config |-> config, password |-> local.password]
  <2>1. /\ pc = "publish" /\ pc' = "serve" /\ view' = [view EXCEPT !.client[cur] = c]
        /\ out' = [out EXCEPT ![cur] = o]
        /\ UNCHANGED <<peer, secret, published, todo>>
    BY <1>13 DEF Publish, committed
  <2>2. c.name = local.name /\ o.name = local.name
    OBVIOUS
  <2> HIDE DEF c, o
  <2>3. /\ cur \in Relations /\ rel[cur] = "active" /\ cur \notin todo
        /\ local.name[1] = cur /\ view.outpost # Nil
    BY <2>1, AtConsumerStep
  <2>4. /\ view'.client[cur] = c
        /\ \A s \in Relations \ {cur} : view'.client[s] = view.client[s]
        /\ view'.outpost = view.outpost /\ view'.provider = view.provider
    BY <1>2, <2>1, <2>3, ClientUpdates
  <2>5. Bag(peer)' /\ Bag(view)'
    BY <1>1, <2>1, <2>2, <2>3, <2>4 DEF HookInv, Bag
  <2>6. Outputs'
    <3>1. out'[cur] = o /\ \A s \in Relations \ {cur} : out'[s] = out[s]
      BY <2>1, <2>3 DEF TypeOK, HookTypeOK
    <3>2. QED
      BY <2>1, <2>2, <2>3, <3>1 DEF HookInv, Outputs
  <2>7. AtProvisioning' /\ AtConsumer'
    BY <1>1, <2>1, <2>3, <2>4 DEF HookInv, AtProvisioning, AtConsumer, Active
  <2>8. QED
    BY <2>5, <2>6, <2>7 DEF HookInv
<1>14. ASSUME NEW r \in Relations, DeleteOrphan(r), ~Ends PROVE HookInv'
  <2> DEFINE v == [view EXCEPT !.client[r] = Nil]
  <2>1. Go("cleanup", v, local) /\ pc = "cleanup"
    BY <1>14, RaiseShape DEF DeleteOrphan, Answer
  <2>2. /\ v.client[r] = Nil /\ \A s \in Relations \ {r} : v.client[s] = view.client[s]
        /\ v.outpost = view.outpost /\ v.provider = view.provider
    BY <1>2, ClientUpdates
  <2> HIDE DEF v
  <2>3. /\ UNCHANGED <<peer, out, cur, todo, secret, published>> /\ pc' = "cleanup"
        /\ view' = v
    BY <2>1 DEF Go, committed
  <2>4. Bag(peer)' /\ Bag(view)'
    BY <1>1, <2>2, <2>3 DEF HookInv, Bag
  <2>5. AtProvisioning' /\ AtConsumer' /\ Outputs'
    BY <1>1, <2>1, <2>2, <2>3 DEF HookInv, AtProvisioning, AtConsumer, Active, Outputs
  <2>6. QED
    BY <2>4, <2>5 DEF HookInv
<1>15. ASSUME NEW r \in Relations, Serve(r) PROVE HookInv'
  <2>1. /\ pc = "serve" /\ r \in todo /\ cur' = r /\ todo' = todo \ {r} /\ pc' = FirstStep(r)
        /\ UNCHANGED <<peer, secret, published, view, out>>
    BY <1>15 DEF Serve, committed
  <2>2. rel[r] = "active" /\ todo \subseteq Active /\ view.outpost # Nil
    BY <2>1 DEF HookInv, AtConsumer, AtProvisioning, Active
  <2>3. Bag(peer)' /\ Bag(view)' /\ AtProvisioning'
    BY <1>1, <2>1, <2>2, IdentityStepType DEF HookInv, Bag, AtProvisioning, FirstStep
  <2>4. /\ pc' \in {"create", "rotate", "rename", "publish", "leaveGroup", "joinGroup"}
        /\ pc' = "create" <=> view.client[r] = Nil
        /\ pc' = "rotate" => secret[r] = Nil
    BY <2>1, IdentityStepType DEF FirstStep
  <2>5. view.client[r] # Nil => local'.pk = view.client[r].pk /\ local'.name = view.client[r].name
    BY <1>15 DEF Serve, NoLocals
  <2>6. view.client[r] # Nil => view.client[r].name[1] = r
    BY DEF HookInv, Bag
  <2>7. AtConsumer'
    BY <1>1, <2>1, <2>2, <2>4, <2>5, <2>6 DEF AtConsumer, Active
  <2>8. Outputs'
    BY <2>1, <2>4 DEF HookInv, Outputs
  <2>9. QED
    BY <2>3, <2>7, <2>8 DEF HookInv
<1>16. QED
  BY <1>3, <1>4, <1>5, <1>6, <1>7, <1>8, <1>9, <1>10, <1>11, <1>12, <1>13, <1>14, <1>15
  DEF ServeConsumers

-----------------------------------------------------------------------------
\* Failures and what others do between hooks.
LEMMA AroundInOrder ==
  ASSUME TypeOK, TypeOK', HookInv, StartHook \/ EndOfHook \/ Failure \/ Environment
  PROVE  HookInv'
<1> USE StepSets
<1>1. CASE StartHook
  <2>1. /\ pc = "idle" /\ pc' = (IF Known THEN "check" ELSE "provider") /\ fresh' = ~Known
        /\ UNCHANGED <<rel, peer, secret, published, view, out, todo, cur, local>>
    BY <1>1 DEF StartHook, inputs, committed
  <2>2. ~Known => view.client = NoClients
    BY DEF Known, HookInv, Bag, NoClients, TypeOK, HookTypeOK, PeerData
  <2>3. Known => view.outpost # Nil
    BY DEF Known
  <2>4. Bag(peer)' /\ Bag(view)'
    BY <2>1 DEF HookInv, Bag
  <2>5. fresh' = TRUE <=> ~Known
    BY <2>1
  <2>6. AtProvisioning' /\ AtConsumer' /\ Outputs'
    BY <2>1, <2>2, <2>3, <2>5 DEF HookInv, AtProvisioning, AtConsumer, Active, Outputs
  <2>7. QED
    BY <2>4, <2>6 DEF HookInv
<1>2. CASE EndOfHook \/ RequestFails
  BY <1>2, EndsInOrder, RaiseShape DEF EndOfHook, RequestFails, Ends, inputs
<1>3. CASE Crash
  <2>1. /\ view' = peer /\ pc' = "idle" /\ out' = NoOutput /\ todo' = {}
        /\ UNCHANGED <<peer, secret, published, rel>>
    BY <1>3 DEF Crash, EndHook, committed, inputs
  <2>2. QED
    BY <2>1 DEF HookInv, Bag, AtProvisioning, AtConsumer, Outputs, NoOutput
<1>4. ASSUME UNCHANGED <<peer, secret, published, hook, rel>> PROVE HookInv'
  BY <1>4 DEF hook, HookInv, Bag, AtProvisioning, AtConsumer, Active, Outputs
<1>5. CASE \/ LoseDatabase \/ LoseOutpost \/ LoseRole \/ ChangeConfig
           \/ \E r \in Relations : ChangeRequest(r)
  BY <1>4, <1>5
  DEF LoseDatabase, LoseOutpost, LoseRole, ChangeConfig, ChangeRequest, committed, inputs
<1>6. ASSUME NEW r \in Relations, LoseSecret(r) \/ AddRelation(r) \/ RemoveRelation(r)
      PROVE  HookInv'
  <2>1. /\ pc = "idle" /\ UNCHANGED <<peer, hook>>
        /\ \A s \in Relations : published'[s] \in {published[s], Nil}
        /\ \A s \in Relations : rel'[s] = rel[s] \/ (rel'[s] # "new" /\ s = r)
        /\ rel[r] # "active" \/ rel' = rel \/ rel'[r] # "new"
    BY <1>6 DEF LoseSecret, AddRelation, RemoveRelation, committed, inputs, TypeOK, InputsTypeOK,
      CommittedTypeOK
  <2>2. Bag(peer)' /\ Bag(view)'
    BY <2>1 DEF hook, HookInv, Bag
  <2>3. todo = {}
    BY <2>1 DEF HookInv, AtConsumer
  <2>4. AtProvisioning' /\ AtConsumer' /\ Outputs'
    BY <2>1, <2>3 DEF hook, HookInv, AtProvisioning, AtConsumer, Active, Outputs
  <2>5. QED
    BY <2>2, <2>4 DEF HookInv
<1>7. QED
  BY <1>1, <1>2, <1>3, <1>5, <1>6 DEF Failure, Environment

\* The books are in order in every reachable state.
LEMMA HookInvHolds == Spec => []HookInv
<1>1. Init => HookInv
  BY StepSets DEF Init, EmptyPeer, NoClients, NoOutput, HookInv, Bag, AtProvisioning, AtConsumer,
    Outputs
<1>2. TypeOK /\ HookInv /\ [Next]_vars => HookInv'
  <2>1. SUFFICES ASSUME TypeOK, HookInv, [Next]_vars PROVE HookInv'
    OBVIOUS
  <2>2. TypeOK'
    BY <2>1, NextType
  <2>3. CASE UNCHANGED vars
    BY <2>1, <2>3 DEF vars, inputs, committed, hook, HookInv, Bag, AtProvisioning, AtConsumer,
      Active, Outputs
  <2>4. QED
    BY <2>1, <2>2, <2>3, ProvisionInOrder, ServeConsumersInOrder, AroundInOrder DEF Next, HookStep
<1>3. QED
  BY <1>1, <1>2, TypeCorrect, PTL DEF Spec

-----------------------------------------------------------------------------
(* Whose the accounts are that a databag tracks *)

Own(d) ==
  \A r \in Relations : d.client[r] # Nil =>
    d.client[r].pk < nextPk /\ (account[d.client[r].pk] # Nil => Owner(d.client[r].pk) = r)

NoAccounts == \A k \in Pks : account[k] = Nil

\* The steps a hook takes once it knows that its outpost exists.
VerifiedSteps == {"update", "role", "grant", "enroll", "cleanup", "serve"} \union ConsumerSteps

\* The database was lost after the outpost was verified.  No account is left, but for
\* one made for the consumer being served.
AfterLoss == pc \in FirstSteps \/ NoAccounts

OwnLocals ==
  pc \in ConsumerSteps \ {"create"} =>
    /\ provider # Nil => local.pk < nextPk
    /\ account[local.pk] # Nil => Owner(local.pk) = cur

OwnInv ==
  /\ Current(peer) => Own(peer)
  /\ Current(view) => Own(view)
  /\ pc \in VerifiedSteps => IF provider = Nil THEN AfterLoss ELSE Own(view)
  /\ provider = Nil /\ role # Nil => peer.role # role /\ view.role # role
  /\ OwnLocals

\* The same of a databag after a step.
CurrentNext(d) == d.outpost # Nil /\ d.outpost = outpost'
OwnNext(d) ==
  \A r \in Relations : d.client[r] # Nil =>
    /\ d.client[r].pk < nextPk'
    /\ account'[d.client[r].pk] # Nil => account'[d.client[r].pk].name[1] = r

\* No account changes hands, and none is made under a primary key that was given out.
OwnersKept ==
  /\ nextPk <= nextPk'
  /\ \A k \in Pks : k < nextPk /\ account'[k] # Nil =>
       account[k] # Nil /\ account'[k].name[1] = Owner(k)

\* What every step but a loss leaves of the database.
DatabaseKept ==
  /\ OwnersKept
  /\ outpost' = outpost \/ (outpost = Nil /\ outpost' = era)
  /\ provider' = Nil => provider = Nil
  /\ provider = Nil /\ pc # "provider" => provider' = Nil
  /\ NoAccounts /\ pc # "create" => NoAccounts'
  /\ role' = role \/ (role = Nil /\ role' = era)
  /\ era' = era

\* What was proved before of the state a step is taken in, and the types after it.
Basics == TypeOK /\ OutpostInv /\ AuthInv /\ HookInv
Facts == TypeOK /\ TypeOK' /\ OutpostInv /\ AuthInv /\ HookInv

\* An outpost made in a step is none that a databag is about.
LEMMA StillCurrent ==
  ASSUME Facts, DatabaseKept, NEW d \in {peer, view}, CurrentNext(d)
  PROVE  Current(d)
<1>1. d.outpost \in Maybe(Nat) /\ era \in Nat /\ Held(d.outpost)
  BY DEF Facts, TypeOK, CommittedTypeOK, HookTypeOK, DatabaseTypeOK, PeerData, OutpostInv
<1>2. QED
  BY <1>1, NilAssumption DEF CurrentNext, Current, DatabaseKept, Held, Maybe

\* The accounts of a databag stay those of its consumers.
LEMMA StillOwn ==
  ASSUME Facts, OwnersKept, NEW d \in PeerData, Own(d)
  PROVE  OwnNext(d)
<1>1. nextPk \in Nat /\ nextPk' \in Nat /\ Pks \subseteq Nat
  BY DEF Facts, TypeOK, DatabaseTypeOK, Pks
<1>2. ASSUME NEW r \in Relations, d.client[r] # Nil
      PROVE  /\ d.client[r].pk < nextPk'
             /\ account'[d.client[r].pk] # Nil => account'[d.client[r].pk].name[1] = r
  <2>1. d.client[r].pk \in Pks
    BY <1>2 DEF PeerData, Client, Maybe
  <2>2. d.client[r].pk < nextPk /\ (account[d.client[r].pk] # Nil => Owner(d.client[r].pk) = r)
    BY <1>2 DEF Own
  <2>3. nextPk <= nextPk' /\ (account'[d.client[r].pk] # Nil =>
          account[d.client[r].pk] # Nil /\ account'[d.client[r].pk].name[1] = Owner(d.client[r].pk))
    BY <2>1, <2>2 DEF OwnersKept
  <2>4. d.client[r].pk < nextPk'
    <3>1. d.client[r].pk \in Nat
      BY <1>1, <2>1
    <3>2. QED
      BY <1>1, <2>2, <2>3, <3>1
  <2>5. QED
    BY <2>2, <2>3, <2>4
<1>3. QED
  BY <1>2 DEF OwnNext

\* A lost database is the only way to lose the provider, and a role made since then has
\* a UUID the charm does not know.
LEMMA StillForeign ==
  ASSUME Facts, OwnInv, DatabaseKept, provider' = Nil, role' # Nil
  PROVE  peer.role # role' /\ view.role # role'
<1>1. /\ era \in Nat /\ peer.role \in Maybe(Nat) /\ view.role \in Maybe(Nat)
      /\ Old(peer.role) /\ Old(view.role)
  BY DEF Facts, TypeOK, DatabaseTypeOK, CommittedTypeOK, HookTypeOK, PeerData, AuthInv, GoodBag
<1>2. QED
  BY <1>1 DEF OwnInv, DatabaseKept, Old, Maybe

\* The invariant follows from what a step writes to the databag and the locals.
LEMMA OwnKept ==
  ASSUME Facts, OwnInv, DatabaseKept,
         peer' \in {peer, view},
         provider' = Nil => view'.role \in {peer.role, view.role},
         CurrentNext(view') => OwnNext(view'),
         pc' \in VerifiedSteps => IF provider' = Nil THEN AfterLoss' ELSE OwnNext(view'),
         OwnLocals'
  PROVE  OwnInv'
<1>1. CurrentNext(peer') => OwnNext(peer')
  BY StillCurrent, StillOwn
  DEF OwnInv, DatabaseKept, Facts, TypeOK, CommittedTypeOK, HookTypeOK
<1>2. provider' = Nil /\ role' # Nil => peer'.role # role' /\ view'.role # role'
  BY StillForeign
<1>3. QED
  BY <1>1, <1>2 DEF OwnInv, Current, CurrentNext, Own, OwnNext, Owner

\* Of what a databag is right about, one that tracks less is right.
Tracks(v, d) == v.outpost = d.outpost /\ \A r \in Relations : v.client[r] \in {Nil, d.client[r]}

LEMMA TracksOwn ==
  ASSUME Facts, OwnInv, DatabaseKept, NEW d \in {peer, view}, NEW v, Tracks(v, d)
  PROVE  CurrentNext(v) => OwnNext(v)
<1>1. SUFFICES ASSUME CurrentNext(v) PROVE OwnNext(v)
  OBVIOUS
<1>2. CurrentNext(d)
  BY <1>1 DEF Tracks, CurrentNext
<1>3. Own(d) /\ d \in PeerData
  BY <1>2, StillCurrent DEF OwnInv, Facts, TypeOK, CommittedTypeOK, HookTypeOK
<1>4. OwnNext(d)
  BY <1>3, StillOwn DEF DatabaseKept
<1>5. QED
  BY <1>4 DEF Tracks, OwnNext

\* A hook that ends, fails or starts over.
LEMMA OwnEnds ==
  ASSUME Facts, OwnInv, DatabaseKept, Ends \/ StartsOver
  PROVE  OwnInv'
<1> USE StepSets
<1>1. view \in PeerData
  BY DEF Facts, TypeOK, HookTypeOK
<1>2. CASE Ends
  <2>1. /\ view' = view /\ peer' \in {peer, view} /\ pc' \in {"idle", "serve"}
        /\ pc' = "serve" => pc = "cleanup"
    BY <1>2 DEF Ends, Commit, BeginServing, EndHook, committed
  <2>2. CurrentNext(view') => OwnNext(view')
    BY <2>1, TracksOwn DEF Tracks
  <2>3. pc' \in VerifiedSteps => IF provider' = Nil THEN AfterLoss' ELSE OwnNext(view')
    <3>1. SUFFICES ASSUME pc' = "serve", pc = "cleanup"
          PROVE IF provider' = Nil THEN AfterLoss' ELSE OwnNext(view')
      BY <2>1 DEF VerifiedSteps
    <3>2. IF provider = Nil THEN NoAccounts ELSE Own(view)
      BY <3>1 DEF OwnInv, VerifiedSteps, AfterLoss
    <3>3. CASE provider = Nil
      BY <3>1, <3>2, <3>3 DEF DatabaseKept, AfterLoss
    <3>4. CASE provider # Nil
      BY <1>1, <2>1, <3>2, <3>4, StillOwn DEF DatabaseKept
    <3>5. QED
      BY <3>3, <3>4
  <2>4. OwnLocals'
    BY <2>1 DEF OwnLocals
  <2>5. QED
    BY <2>1, <2>2, <2>3, <2>4, OwnKept
<1>3. CASE StartsOver
  <2>1. /\ view' = [view EXCEPT !.client = NoClients] /\ peer' = peer /\ pc' = "provider"
    BY <1>3 DEF StartsOver, Reprovision, committed
  <2>2. view'.client = NoClients /\ view'.role = view.role
    BY <1>1, <2>1 DEF PeerData
  <2>3. OwnNext(view') /\ OwnLocals' /\ pc' \notin VerifiedSteps
    BY <2>1, <2>2 DEF OwnNext, NoClients, OwnLocals, VerifiedSteps
  <2>4. QED
    BY <2>1, <2>2, <2>3, OwnKept
<1>4. QED
  BY <1>2, <1>3

\* A hook that goes on from a step taken on a verified outpost to another.
LEMMA OwnGoes ==
  ASSUME Facts, OwnInv, DatabaseKept,
         NEW label \in VerifiedSteps, NEW v, NEW l, Go(label, v, l),
         pc \in VerifiedSteps, Tracks(v, view), provider = Nil => v.role = view.role,
         provider = Nil => label \in FirstSteps \/ pc \notin FirstSteps \union {"create"},
         label \in ConsumerSteps \ {"create"} =>
           /\ provider # Nil => l.pk < nextPk'
           /\ account'[l.pk] # Nil => account'[l.pk].name[1] = cur
  PROVE  OwnInv'
<1> USE StepSets
<1>1. pc' = label /\ view' = v /\ local' = l /\ UNCHANGED <<peer, cur>>
  BY DEF Go, committed
<1>2. CurrentNext(v) => OwnNext(v)
  BY TracksOwn
<1>3. provider' = Nil <=> provider = Nil
  BY DEF DatabaseKept, VerifiedSteps
<1>4. provider = Nil => AfterLoss'
  BY <1>1 DEF OwnInv, AfterLoss, DatabaseKept
<1>5. ASSUME provider # Nil PROVE OwnNext(v)
  <2>1. OwnNext(view)
    BY <1>5, StillOwn DEF OwnInv, DatabaseKept, Facts, TypeOK, HookTypeOK
  <2>2. QED
    BY <2>1 DEF OwnNext, Tracks
<1>6. OwnLocals'
  BY <1>1, <1>3 DEF OwnLocals, Owner
<1>7. QED
  BY <1>1, <1>2, <1>3, <1>4, <1>5, <1>6, OwnKept

\* A hook that provisions from nothing tracks no account.
LEMMA OwnFresh ==
  ASSUME Facts, OwnInv, DatabaseKept, peer' = peer, view'.client = NoClients,
         view'.role = view.role, pc' \notin ConsumerSteps,
         pc' \in VerifiedSteps => provider' # Nil
  PROVE  OwnInv'
<1>1. OwnNext(view')
  BY DEF OwnNext, NoClients
<1>2. QED
  BY <1>1, OwnKept DEF OwnLocals

-----------------------------------------------------------------------------
(* What the requests do to the database *)

LEMMA NothingDone ==
  ASSUME Facts, UNCHANGED <<account, nextPk, era, outpost>>,
         role' = role \/ (role = Nil /\ role' = era),
         provider' = Nil => provider = Nil, provider = Nil /\ pc # "provider" => provider' = Nil
  PROVE  DatabaseKept
  BY DEF Facts, TypeOK, DatabaseTypeOK, DatabaseKept, OwnersKept, NoAccounts, Owner

LEMMA RowChanged ==
  ASSUME Facts, UNCHANGED <<nextPk, era, outpost, provider, role>>,
         NEW j \in Pks, account[j] # Nil, NEW row, account' = [account EXCEPT ![j] = row],
         row.name[1] = Owner(j)
  PROVE  DatabaseKept
<1>1. account \in [Pks -> Maybe(Account)] /\ nextPk \in Nat
  BY DEF Facts, TypeOK, DatabaseTypeOK
<1>2. \A k \in Pks : account'[k] # Nil => account[k] # Nil /\ account'[k].name[1] = Owner(k)
  BY <1>1 DEF Owner
<1>3. OwnersKept
  BY <1>1, <1>2 DEF OwnersKept
<1>4. QED
  BY <1>3 DEF DatabaseKept, NoAccounts

LEMMA RowDeleted ==
  ASSUME Facts, UNCHANGED <<nextPk, era, outpost, provider, role>>,
         NEW j \in Pks, account' = [account EXCEPT ![j] = Nil]
  PROVE  DatabaseKept
<1>1. account \in [Pks -> Maybe(Account)] /\ nextPk \in Nat
  BY DEF Facts, TypeOK, DatabaseTypeOK
<1>2. \A k \in Pks : account'[k] # Nil => account'[k] = account[k]
  BY <1>1
<1>3. OwnersKept
  BY <1>1, <1>2 DEF OwnersKept, Owner
<1>4. QED
  BY <1>2, <1>3 DEF DatabaseKept, NoAccounts

\* The requests that change an account change one field of it.
LEMMA AccountFields ==
  ASSUME NEW a \in Account
  PROVE  /\ LET b == [a EXCEPT !.member = TRUE] IN
              b.name = a.name /\ b.password = a.password /\ b.member = TRUE /\ b # Nil
         /\ \A p \in Passwords : LET b == [a EXCEPT !.password = p] IN
              b.name = a.name /\ b.password = p /\ b.member = a.member /\ b # Nil
         /\ \A n \in Names : LET b == [a EXCEPT !.name = n] IN
              b.name = n /\ b.password = a.password /\ b.member = a.member /\ b # Nil
         /\ \A S \in SUBSET AuthentikGroups : LET b == [a EXCEPT !.groups = S] IN
              b.name = a.name /\ b.password = a.password /\ b.member = a.member /\ b # Nil
<1>1. /\ [a EXCEPT !.member = TRUE] \in Account
      /\ \A p \in Passwords : [a EXCEPT !.password = p] \in Account
      /\ \A n \in Names : [a EXCEPT !.name = n] \in Account
      /\ \A S \in SUBSET AuthentikGroups : [a EXCEPT !.groups = S] \in Account
  BY AccountFieldType
<1>2. QED
  BY <1>1, NilAssumption DEF Account

\* An account joins the role.
LEMMA RowJoins ==
  ASSUME Facts, UNCHANGED <<nextPk, era, outpost, provider, role>>,
         NEW j \in Pks, account[j] # Nil, JoinsRole(j)
  PROVE  DatabaseKept
<1> DEFINE row == [account[j] EXCEPT !.member = TRUE]
<1>1. account[j] \in Account
  BY DEF Facts, TypeOK, DatabaseTypeOK, Maybe
<1>2. row.name = account[j].name
  BY <1>1, AccountFields
<1>3. account' = [account EXCEPT ![j] = row]
  BY DEF JoinsRole
<1> HIDE DEF row
<1>4. QED
  BY <1>2, <1>3, RowChanged DEF Owner

\* Provisioning changes no owner.
LEMMA ProvisionDatabase ==
  ASSUME Facts, Provision
  PROVE  DatabaseKept
<1>1. CASE CheckOutpost \/ ReadToken \/ Enrolled
  BY <1>1, NothingDone DEF CheckOutpost, ReadToken, Enrolled, authentik
<1>2. CASE EnsureProvider
  <2>1. provider' # Nil
    BY <1>2, NilAssumption
    DEF EnsureProvider, Facts, TypeOK, DatabaseTypeOK, InputsTypeOK, Maybe, Provider
  <2>2. QED
    BY <1>2, <2>1, NothingDone DEF EnsureProvider
<1>3. CASE UpdateProvider
  <2>1. provider # Nil => provider' # Nil
    BY <1>3, NilAssumption
    DEF UpdateProvider, Facts, TypeOK, DatabaseTypeOK, InputsTypeOK, Maybe, Provider
  <2>2. QED
    BY <1>3, <2>1, NothingDone DEF UpdateProvider
<1>4. CASE EnsureApplication \/ GrantSearch \/ EnsureRole
  BY <1>4, NothingDone DEF EnsureApplication, GrantSearch, EnsureRole, RoleIsThere
<1>5. CASE EnsureOutpost
  BY <1>5 DEF EnsureOutpost, Facts, TypeOK, DatabaseTypeOK, DatabaseKept, OwnersKept, NoAccounts,
    Owner
<1>6. ASSUME NEW r \in Relations, Enroll(r) PROVE DatabaseKept
  <2>1. view.client[r].pk \in Pks
    BY <1>6 DEF Enroll, ToEnroll, Facts, TypeOK, HookTypeOK, PeerData, Client, Maybe
  <2>2. CASE CanJoinRole(local.role, view.client[r].pk)
    BY <1>6, <2>1, <2>2, RowJoins DEF Enroll, CanJoinRole
  <2>3. CASE ~CanJoinRole(local.role, view.client[r].pk)
    BY <1>6, <2>3, NothingDone DEF Enroll
  <2>4. QED
    BY <2>2, <2>3
<1>7. QED
  BY <1>1, <1>2, <1>3, <1>4, <1>5, <1>6 DEF Provision

\* Provisioning never takes up accounts of another database: it verifies the outpost first,
\* or forgets every account.
LEMMA ProvisionOwn ==
  ASSUME Facts, OwnInv, Provision
  PROVE  OwnInv'
<1> USE StepSets
<1>1. DatabaseKept
  BY ProvisionDatabase
<1>2. view \in PeerData /\ local \in Locals
  BY DEF Facts, TypeOK, HookTypeOK
<1>3. \A v : Alike(v, view) => Tracks(v, view)
  BY DEF Alike, Tracks
<1>4. ASSUME Ends \/ StartsOver PROVE OwnInv'
  BY <1>1, <1>4, OwnEnds
<1>5. CASE CheckOutpost /\ ~(Ends \/ StartsOver)
  <2>1. /\ Go(IF view.config = config THEN "cleanup" ELSE "update", view, local)
        /\ outpost = view.outpost /\ pc = "check" /\ UNCHANGED authentik
    BY <1>5, NotFoundShape DEF CheckOutpost, Facts
  <2>2. view' = view /\ peer' = peer /\ pc' \in {"cleanup", "update"} /\ provider' = provider
    BY <2>1 DEF Go, committed, authentik
  <2>3. Current(view) /\ provider # Nil
    BY <2>1 DEF Current, Facts, HookInv, AtProvisioning, OutpostInv
  <2>4. OwnNext(view')
    BY <1>1, <1>2, <2>2, <2>3, StillOwn DEF OwnInv, DatabaseKept
  <2>5. QED
    BY <1>1, <2>2, <2>3, <2>4, OwnKept DEF OwnLocals
<1>6. CASE UpdateProvider /\ ~(Ends \/ StartsOver)
  <2> DEFINE v == [view EXCEPT !.config = config]
  <2>1. Go("role", v, local) /\ pc = "update" /\ provider # Nil
    BY <1>6, RaiseShape, NotFoundShape DEF UpdateProvider, Answer, Facts
  <2>2. Tracks(v, view)
    BY <1>2, <1>3, AlikeUpdates
  <2> HIDE DEF v
  <2>3. QED
    BY <1>1, <2>1, <2>2, OwnGoes DEF VerifiedSteps
<1>7. CASE EnsureProvider /\ ~(Ends \/ StartsOver)
  <2>1. /\ pc = "provider" /\ view' = view /\ peer' = peer /\ pc' = "application"
    BY <1>7, RaiseShape DEF EnsureProvider, Answer, Go, committed
  <2>2. QED
    BY <1>1, <2>1, OwnFresh DEF VerifiedSteps, Facts, HookInv, AtProvisioning
<1>8. CASE (EnsureApplication \/ EnsureOutpost) /\ ~(Ends \/ StartsOver)
  <2>1. /\ pc \in {"application", "outpost"} /\ view' = view /\ peer' = peer
        /\ pc' \in {"outpost", "token"}
    BY <1>8, RaiseShape DEF EnsureApplication, EnsureOutpost, Answer, Go, committed
  <2>2. QED
    BY <1>1, <2>1, OwnFresh DEF VerifiedSteps, Facts, HookInv, AtProvisioning
<1>9. CASE ReadToken /\ ~(Ends \/ StartsOver)
  <2> DEFINE v == [view EXCEPT !.provider = local.provider, !.outpost = local.outpost,
                               !.config = config]
  <2>1. v.client = view.client /\ v.role = view.role
    BY <1>2 DEF PeerData
  <2>2. Go("role", v, local) /\ pc = "token" /\ outpost = local.outpost /\ UNCHANGED authentik
    BY <1>9, NotFoundShape DEF ReadToken, Facts
  <2> HIDE DEF v
  <2>3. view.client = NoClients /\ provider # Nil
    BY <2>2 DEF Facts, HookInv, AtProvisioning, OutpostInv
  <2>4. view' = v /\ peer' = peer /\ pc' = "role" /\ provider' = provider
    BY <2>2 DEF Go, committed, authentik
  <2>5. QED
    BY <1>1, <2>1, <2>3, <2>4, OwnFresh DEF VerifiedSteps
<1>10. CASE EnsureRole /\ ~(Ends \/ StartsOver)
  <2> DEFINE l == [local EXCEPT !.role = role', !.applied = CachedMembers(view, role')]
             v == [view EXCEPT !.role = role']
  <2>1. (Go("enroll", v, l) /\ AlreadyVerified(role')) \/ Go("grant", view, l)
    BY <1>10, RaiseShape DEF EnsureRole, Answer
  <2>2. Tracks(v, view) /\ v.role = role' /\ Tracks(view, view)
    BY <1>2, <1>3, AlikeUpdates DEF Alike
  <2>3. pc = "role"
    BY <1>10 DEF EnsureRole
  <2> HIDE DEF v, l
  <2>4. QED
    BY <1>1, <2>1, <2>2, <2>3, OwnGoes DEF VerifiedSteps, AlreadyVerified
<1>11. CASE GrantSearch /\ ~(Ends \/ StartsOver)
  <2>1. Go("enroll", Verified(view, local.role), local) /\ pc = "grant" /\ provider # Nil
    BY <1>11, RaiseShape, NotFoundShape
    DEF GrantSearch, Answer, Assignable, ProviderExists, Facts
  <2>2. Tracks(Verified(view, local.role), view)
    BY <1>2, <1>3, AlikeUpdates
  <2>3. QED
    BY <1>1, <2>1, <2>2, OwnGoes DEF VerifiedSteps
<1>12. CASE Enrolled /\ ~(Ends \/ StartsOver)
  <2> DEFINE v == [view EXCEPT !.cache = [role |-> local.role, members |-> local.applied]]
  <2>1. Go("cleanup", v, NoLocals) /\ pc = "enroll"
    BY <1>12 DEF Enrolled
  <2>2. Tracks(v, view) /\ v.role = view.role
    BY <1>2, <1>3, AlikeUpdates
  <2> HIDE DEF v
  <2>3. QED
    BY <1>1, <2>1, <2>2, OwnGoes DEF VerifiedSteps
<1>13. CASE (\E r \in Relations : Enroll(r)) /\ ~(Ends \/ StartsOver)
  <2>1. pc = "enroll" /\ \E l : Go("enroll", view, l)
    BY <1>13, RaiseShape, NotFoundShape DEF Enroll, Answer, Facts
  <2>2. Tracks(view, view)
    BY DEF Tracks
  <2>3. QED
    BY <1>1, <2>1, <2>2, OwnGoes DEF VerifiedSteps
<1>14. QED
  BY <1>4, <1>5, <1>6, <1>7, <1>8, <1>9, <1>10, <1>11, <1>12, <1>13 DEF Provision

-----------------------------------------------------------------------------
(* Serving *)

\* The account being served is the consumer's own, and a key that was given out.
LEMMA ServedAccount ==
  ASSUME Facts, OwnInv, pc \in ConsumerSteps \ {"create"}
  PROVE  /\ local.pk \in Pks /\ cur \in Relations /\ rel[cur] = "active"
         /\ provider # Nil => local.pk < nextPk
         /\ account[local.pk] # Nil =>
              account[local.pk] \in Account /\ account[local.pk].name[1] = cur
  BY AtConsumerStep, StepSets
  DEF OwnInv, OwnLocals, Owner, Facts, TypeOK, DatabaseTypeOK, Maybe

\* A request on the account being served, which leaves its owner alone, and the step after.
LEMMA ServedGoes ==
  ASSUME Facts, OwnInv, pc \in ConsumerSteps \ {"create"}, account[local.pk] # Nil,
         UNCHANGED <<nextPk, era, outpost, provider, role>>,
         NEW row, account' = [account EXCEPT ![local.pk] = row], row.name[1] = cur,
         NEW label \in ConsumerSteps \ {"create"}, NEW v, NEW l,
         Answer(Go(label, v, l)),
         Tracks(v, view), v.role = view.role, l.pk = local.pk,
         provider = Nil => label \in FirstSteps \/ pc \notin FirstSteps
  PROVE  OwnInv'
<1>1. DatabaseKept
  BY ServedAccount, RowChanged DEF Owner
<1>2. account'[local.pk] # Nil => account'[local.pk].name[1] = cur
  BY ServedAccount DEF Facts, TypeOK, DatabaseTypeOK
<1>3. CASE Go(label, v, l)
  BY <1>1, <1>2, <1>3, ServedAccount, OwnGoes DEF VerifiedSteps
<1>4. CASE Ends
  BY <1>1, <1>4, OwnEnds
<1>5. QED
  BY <1>3, <1>4, RaiseShape DEF Answer

\* A step for a consumer that does nothing to accounts.
LEMMA IdleGoes ==
  ASSUME Facts, OwnInv, pc \in ConsumerSteps \ {"create"}, DatabaseKept,
         UNCHANGED <<nextPk, account>>,
         NEW label \in ConsumerSteps \ {"create"}, NEW v, NEW l, Go(label, v, l),
         Tracks(v, view), provider = Nil => v.role = view.role, l.pk = local.pk,
         provider = Nil => label \in FirstSteps \/ pc \notin FirstSteps
  PROVE  OwnInv'
  BY ServedAccount, OwnGoes DEF VerifiedSteps

\* After the loss of the database no new account is authorized.
LEMMA SetPasswordOwn ==
  ASSUME Facts, OwnInv, NEW label \in ConsumerSteps \ {"create"}, SetPassword(label),
         pc \in {"password", "rotate"}, pc = "password" => label \in FirstSteps
  PROVE  OwnInv'
<1> USE StepSets
<1>1. UNCHANGED <<nextPk, era, outpost, provider, role>>
  BY DEF SetPassword
<1>2. CASE account[local.pk] # Nil
  <2>1. PICK p \in FreshPasswords(cur) :
          /\ account' = [account EXCEPT ![local.pk].password = p]
          /\ Answer(Go(label, view, [local EXCEPT !.password = p]))
    BY <1>2 DEF SetPassword
  <2> DEFINE row == [account[local.pk] EXCEPT !.password = p]
             l == [local EXCEPT !.password = p]
  <2>2. p \in Passwords
    BY DEF FreshPasswords
  <2>3. row.name[1] = cur
    BY <1>2, <2>2, ServedAccount, AccountFields
  <2>4. account' = [account EXCEPT ![local.pk] = row]
    BY <2>1
  <2>5. l.pk = local.pk
    BY LocalUpdates DEF Facts, TypeOK, HookTypeOK
  <2>6. Tracks(view, view) /\ Answer(Go(label, view, l))
    BY <2>1 DEF Tracks
  <2> HIDE DEF row, l
  <2>7. QED
    BY <1>1, <1>2, <2>3, <2>4, <2>5, <2>6, ServedGoes
<1>3. CASE account[local.pk] = Nil
  BY <1>1, <1>3, RaiseShape, NothingDone, OwnEnds DEF SetPassword
<1>4. QED
  BY <1>2, <1>3

LEMMA RegroupOwn ==
  ASSUME Facts, OwnInv, NEW group, NEW groups, NEW label, Regroup(group, groups, label),
         pc \in {"leaveGroup", "joinGroup"}, label \in {"joinGroup", "publish"},
         account[local.pk] # Nil /\ group \in AuthentikGroups => groups \subseteq AuthentikGroups
  PROVE  OwnInv'
<1> USE StepSets
<1>1. UNCHANGED <<nextPk, era, outpost, provider, role>> /\ Tracks(view, view)
  BY DEF Regroup, Tracks
<1>2. CASE group \notin AuthentikGroups
  <2>1. Go(label, view, local) /\ UNCHANGED account
    BY <1>2 DEF Regroup
  <2>2. QED
    BY <1>1, <2>1, NothingDone, IdleGoes
<1>3. CASE group \in AuthentikGroups /\ account[local.pk] = Nil
  BY <1>1, <1>3, RaiseShape, NothingDone, OwnEnds DEF Regroup
<1>4. CASE group \in AuthentikGroups /\ account[local.pk] # Nil
  <2> DEFINE row == [account[local.pk] EXCEPT !.groups = groups]
  <2>1. account' = [account EXCEPT ![local.pk] = row] /\ Answer(Go(label, view, local))
    BY <1>4 DEF Regroup
  <2>2. row.name[1] = cur
    BY <1>4, ServedAccount, AccountFields
  <2> HIDE DEF row
  <2>3. QED
    BY <1>1, <1>4, <2>1, <2>2, ServedGoes
<1>5. QED
  BY <1>2, <1>3, <1>4

\* An account is created for the consumer or adopted by its name, which is the consumer's.
LEMMA CreateAccountOwn == ASSUME Facts, OwnInv, CreateAccount PROVE OwnInv'
<1> DEFINE n == BindUserName(cur, request[cur].user)
           l(k) == [local EXCEPT !.pk = k, !.name = n]
<1> USE StepSets
<1>1. /\ UNCHANGED <<era, outpost, provider, role>> /\ pc = "create"
      /\ nextPk \in Nat /\ account \in [Pks -> Maybe(Account)] /\ Pks \subseteq Nat
  <2>1. Pks \subseteq Nat
    BY DEF Pks
  <2>2. QED
    BY <2>1 DEF CreateAccount, Facts, TypeOK, DatabaseTypeOK
<1>2. ASSUME DatabaseKept, NEW k \in Pks, Answer(Go("password", view, l(k))), k < nextPk',
             account'[k] # Nil => account'[k].name[1] = cur
      PROVE  OwnInv'
  <2>1. l(k).pk = k /\ Tracks(view, view)
    BY LocalUpdates DEF Facts, TypeOK, HookTypeOK, Tracks
  <2> HIDE DEF l
  <2>2. CASE Go("password", view, l(k))
    BY <1>1, <1>2, <2>1, <2>2, OwnGoes DEF VerifiedSteps
  <2>3. CASE Ends
    BY <1>1, <1>2, <2>3, OwnEnds
  <2>4. QED
    BY <1>2, <2>2, <2>3, RaiseShape DEF Answer
<1>3. ASSUME UNCHANGED <<account, nextPk>>, NEW k \in Pks, account[k] # Nil, account[k].name = n,
             Answer(Go("password", view, l(k)))
      PROVE  OwnInv'
  <2>1. DatabaseKept
    BY <1>1, <1>3, NothingDone
  <2>2. k < nextPk' /\ account'[k].name[1] = cur
    BY <1>3 DEF Facts, AuthInv, PksGivenOut, BindUserName
  <2>3. QED
    BY <1>2, <1>3, <2>1, <2>2
<1>4. ASSUME nextPk \in Pks, nextPk' = nextPk + 1, Answer(Go("password", view, l(nextPk))),
             account' = [account EXCEPT ![nextPk] =
                           [name |-> n, password |-> Nil, member |-> FALSE, groups |-> {}]]
      PROVE  OwnInv'
  <2>1. account'[nextPk].name[1] = cur /\ \A k \in Pks : k < nextPk => account'[k] = account[k]
    BY <1>1, <1>4 DEF BindUserName
  <2>2. DatabaseKept
    BY <1>1, <1>4, <2>1 DEF DatabaseKept, OwnersKept, Owner
  <2>3. nextPk < nextPk'
    BY <1>1, <1>4
  <2>4. QED
    BY <1>2, <1>4, <2>1, <2>2, <2>3
<1>5. QED
  BY <1>3, <1>4 DEF CreateAccount

LEMMA OwnRoleOwn == ASSUME Facts, OwnInv, OwnRole PROVE OwnInv'
<1> DEFINE l == [local EXCEPT !.role = role']
<1> USE StepSets
<1>1. DatabaseKept
  BY NothingDone DEF OwnRole, RoleIsThere
<1>2. CASE Go("ownGrant", view, l)
  <2>1. l.pk = local.pk /\ Tracks(view, view)
    BY LocalUpdates DEF Facts, TypeOK, HookTypeOK, Tracks
  <2>2. pc = "ownRole" /\ UNCHANGED <<nextPk, account>>
    BY DEF OwnRole
  <2> HIDE DEF l
  <2>3. QED
    BY <1>1, <1>2, <2>1, <2>2, IdleGoes
<1>3. CASE Raise
  BY <1>1, <1>3, RaiseShape, OwnEnds
<1>4. QED
  BY <1>2, <1>3 DEF OwnRole, Answer

LEMMA OwnGrantOwn == ASSUME Facts, OwnInv, OwnGrant PROVE OwnInv'
<1> USE StepSets
<1>1. DatabaseKept /\ pc = "ownGrant" /\ UNCHANGED <<nextPk, account>>
  BY NothingDone DEF OwnGrant
<1>2. CASE Assignable(local.role) /\ ~Raise
  <2>1. Go("member", Verified(view, local.role), local) /\ provider # Nil
    BY <1>2 DEF OwnGrant, Answer, Assignable, ProviderExists
  <2>2. Tracks(Verified(view, local.role), view)
    BY AlikeUpdates DEF Facts, TypeOK, HookTypeOK, Alike, Tracks
  <2>3. QED
    BY <1>1, <2>1, <2>2, IdleGoes
<1>3. CASE Raise
  BY <1>1, <1>3, RaiseShape, OwnEnds
<1>4. QED
  BY <1>2, <1>3 DEF OwnGrant

\* Nobody joins the recorded role once the database is lost: it is not the live one.
LEMMA JoinRoleOwn == ASSUME Facts, OwnInv, JoinRole PROVE OwnInv'
<1> DEFINE c == [role |-> view.role,
                 members |-> CachedMembers(view, view.role) \union {local.pk}]
           v == [view EXCEPT !.cache = c]
           label == MoveGroup(cur, NoGroup)
<1> USE StepSets
<1>1. UNCHANGED <<nextPk, era, outpost, provider, role>> /\ pc = "member"
  BY DEF JoinRole
<1>2. CASE CanJoinRole(view.role, local.pk)
  <2> DEFINE row == [account[local.pk] EXCEPT !.member = TRUE]
  <2>1. /\ account' = [account EXCEPT ![local.pk] = row] /\ Answer(Go(label, v, local))
        /\ account[local.pk] # Nil /\ role = view.role
    BY <1>2 DEF JoinRole, JoinsRole, CanJoinRole
  <2>2. provider # Nil
    BY <1>1, <2>1 DEF OwnInv, Facts, HookInv, AtConsumer
  <2>3. Tracks(v, view) /\ v.role = view.role
    BY AlikeUpdates DEF Facts, TypeOK, HookTypeOK, Alike, Tracks
  <2>4. row.name[1] = cur
    BY <1>1, <2>1, ServedAccount, AccountFields
  <2>5. label \in ConsumerSteps \ {"create"}
    BY MoveGroupStep
  <2> HIDE DEF c, v, label, row
  <2>6. QED
    BY <1>1, <2>1, <2>2, <2>3, <2>4, <2>5, ServedGoes
<1>3. CASE ~CanJoinRole(view.role, local.pk)
  BY <1>1, <1>3, RaiseShape, NothingDone, OwnEnds DEF JoinRole
<1>4. QED
  BY <1>2, <1>3

\* A rename keeps the relation id the name begins with.
LEMMA RenameOwn == ASSUME Facts, OwnInv, Rename PROVE OwnInv'
<1> DEFINE n == BindUserName(cur, request[cur].user)
           l == [local EXCEPT !.name = n]
           label == MoveGroup(cur, view.client[cur].group)
<1> USE StepSets
<1>1. UNCHANGED <<nextPk, era, outpost, provider, role>> /\ pc = "rename"
  BY DEF Rename
<1>2. CASE account[local.pk] # Nil /\ ~NameTaken(n, local.pk)
  <2> DEFINE row == [account[local.pk] EXCEPT !.name = n]
  <2>1. account' = [account EXCEPT ![local.pk] = row] /\ Answer(Go(label, view, l))
    BY <1>2 DEF Rename
  <2>2. row.name[1] = cur
    <3>1. n[1] = cur
      BY DEF BindUserName
    <3>2. account[local.pk] \in Account
      BY <1>1, <1>2, ServedAccount
    <3>3. row.name = n
      BY <3>2 DEF Account
    <3>4. QED
      BY <3>1, <3>3
  <2>3. label \in ConsumerSteps \ {"create"}
    BY MoveGroupStep
  <2>4. l.pk = local.pk /\ Tracks(view, view)
    BY LocalUpdates DEF Facts, TypeOK, HookTypeOK, Tracks
  <2>5. pc \notin FirstSteps
    BY <1>1
  <2> HIDE DEF n, l, label, row
  <2>6. QED
    BY <1>1, <1>2, <2>1, <2>2, <2>3, <2>4, <2>5, ServedGoes
<1>3. CASE ~(account[local.pk] # Nil /\ ~NameTaken(n, local.pk))
  BY <1>1, <1>3, RaiseShape, NothingDone, OwnEnds DEF Rename
<1>4. QED
  BY <1>2, <1>3

\* What is tracked from now on is the account that was served.
LEMMA PublishOwn == ASSUME Facts, OwnInv, Publish PROVE OwnInv'
<1> DEFINE c == [pk |-> local.pk, name |-> local.name,
                 user |-> request[cur].user, group |-> request[cur].group]
<1> USE StepSets
<1>1. /\ pc = "publish" /\ pc' = "serve" /\ view' = [view EXCEPT !.client[cur] = c]
      /\ peer' = peer /\ UNCHANGED authentik
  BY DEF Publish, committed
<1>2. c.pk = local.pk
  OBVIOUS
<1> HIDE DEF c
<1>3. view \in PeerData /\ cur \in Relations
  BY <1>1, ServedAccount DEF Facts, TypeOK, HookTypeOK
<1>4. /\ view'.client[cur] = c
      /\ \A s \in Relations \ {cur} : view'.client[s] = view.client[s]
      /\ view'.outpost = view.outpost /\ view'.role = view.role
  BY <1>1, <1>3, ClientUpdates
<1>5. DatabaseKept
  BY <1>1, NothingDone DEF authentik
<1>6. provider' = provider /\ account' = account
  BY <1>1 DEF authentik
<1>7. ASSUME provider # Nil PROVE OwnNext(view')
  <2>1. OwnNext(view)
    BY <1>1, <1>3, <1>5, <1>7, StillOwn DEF OwnInv, VerifiedSteps, DatabaseKept
  <2>2. local.pk < nextPk' /\ (account'[local.pk] # Nil => account'[local.pk].name[1] = cur)
    BY <1>1, <1>7, ServedAccount DEF authentik
  <2>3. QED
    BY <1>2, <1>4, <2>1, <2>2 DEF OwnNext
<1>8. CurrentNext(view') => provider # Nil
  BY <1>1, <1>4 DEF CurrentNext, authentik, Facts, OutpostInv
<1>9. provider = Nil => AfterLoss'
  BY <1>1, <1>6 DEF OwnInv, VerifiedSteps, AfterLoss, NoAccounts
<1>10. OwnLocals'
  BY <1>1 DEF OwnLocals
<1>11. QED
  BY <1>1, <1>4, <1>5, <1>6, <1>7, <1>8, <1>9, <1>10, OwnKept

LEMMA DeleteOrphanOwn ==
  ASSUME Facts, OwnInv, NEW r \in Relations, DeleteOrphan(r)
  PROVE  OwnInv'
<1> DEFINE v == [view EXCEPT !.client[r] = Nil]
<1> USE StepSets
<1>1. /\ pc = "cleanup" /\ Answer(Go("cleanup", v, local))
      /\ UNCHANGED <<nextPk, era, outpost, provider, role>>
      /\ account' = [account EXCEPT ![view.client[r].pk] = Nil]
  BY DEF DeleteOrphan
<1>2. view.client[r].pk \in Pks
  BY DEF DeleteOrphan, Orphans, Facts, TypeOK, HookTypeOK, PeerData, Client, Maybe
<1>3. DatabaseKept
  BY <1>1, <1>2, RowDeleted
<1>4. Tracks(v, view) /\ v.role = view.role
  BY ClientUpdates DEF Facts, TypeOK, HookTypeOK, Tracks
<1> HIDE DEF v
<1>5. CASE Go("cleanup", v, local)
  BY <1>1, <1>3, <1>4, <1>5, OwnGoes DEF VerifiedSteps
<1>6. CASE Ends
  BY <1>3, <1>6, OwnEnds
<1>7. QED
  BY <1>1, <1>5, <1>6, RaiseShape DEF Answer

LEMMA ServeOwn ==
  ASSUME Facts, OwnInv, NEW r \in Relations, Serve(r)
  PROVE  OwnInv'
<1> USE StepSets
<1>1. /\ pc = "serve" /\ cur' = r /\ pc' = FirstStep(r) /\ view' = view /\ peer' = peer
      /\ UNCHANGED authentik
  BY DEF Serve, committed
<1>2. DatabaseKept
  BY <1>1, NothingDone DEF authentik
<1>3. /\ pc' \in {"create", "rotate", "rename", "publish", "leaveGroup", "joinGroup"}
      /\ pc' = "create" <=> view.client[r] = Nil
  BY <1>1, IdentityStepType DEF FirstStep
<1>4. view.client[r] # Nil => local'.pk = view.client[r].pk
  BY DEF Serve, NoLocals
<1>5. IF provider = Nil THEN NoAccounts ELSE Own(view)
  BY <1>1 DEF OwnInv, VerifiedSteps, AfterLoss
<1>6. view.client[r] # Nil => view.client[r].pk \in Pks
  BY DEF Facts, TypeOK, HookTypeOK, PeerData, Client, Maybe
<1>7. OwnLocals'
  BY <1>1, <1>3, <1>4, <1>5, <1>6 DEF OwnLocals, Own, NoAccounts, Owner, authentik
<1>8. CurrentNext(view') => OwnNext(view')
  BY <1>1, <1>2, TracksOwn DEF Tracks
<1>9. IF provider' = Nil THEN AfterLoss' ELSE OwnNext(view')
  BY <1>1, <1>5 DEF authentik, AfterLoss, NoAccounts, Own, OwnNext, Owner
<1>10. QED
  BY <1>1, <1>2, <1>7, <1>8, <1>9, OwnKept

\* Serving keeps to the accounts of the consumers.
LEMMA ServeConsumersOwn == ASSUME Facts, OwnInv, ServeConsumers PROVE OwnInv'
<1> USE StepSets
<1>1. CASE CleanedUp
  BY <1>1, NothingDone, OwnEnds DEF CleanedUp, Ends, authentik
<1>2. CASE FirstPassword
  <2>1. Authorize \in {"member", "ownRole"}
    BY <1>2, AuthorizeStep, AtConsumerStep DEF FirstPassword, Facts
  <2>2. QED
    BY <1>2, <2>1, SetPasswordOwn DEF FirstPassword
<1>3. CASE RotatePassword
  BY <1>3, IdentityStep, SetPasswordOwn DEF RotatePassword
<1>4. CASE LeaveGroup \/ JoinGroup
  <2>1. pc \in {"leaveGroup", "joinGroup"}
    BY <1>4 DEF LeaveGroup, JoinGroup
  <2>2. account[local.pk] # Nil => account[local.pk].groups \subseteq AuthentikGroups
    BY <2>1, ServedAccount DEF Account
  <2>3. CASE LeaveGroup
    BY <2>1, <2>2, <2>3, RegroupOwn DEF LeaveGroup
  <2>4. CASE JoinGroup
    BY <2>1, <2>2, <2>4, RegroupOwn DEF JoinGroup
  <2>5. QED
    BY <1>4, <2>3, <2>4
<1>5. QED
  BY <1>1, <1>2, <1>3, <1>4, CreateAccountOwn, OwnRoleOwn, OwnGrantOwn, JoinRoleOwn, RenameOwn,
    PublishOwn, DeleteOrphanOwn, ServeOwn DEF ServeConsumers

-----------------------------------------------------------------------------
(* The rest, and the theorem *)

\* Hooks start, end, fail and crash, and others do what they do between them.
LEMMA AroundOwn ==
  ASSUME Facts, OwnInv, StartHook \/ EndOfHook \/ RequestFails \/ Crash
  PROVE  OwnInv'
<1> USE StepSets
<1>1. DatabaseKept
  BY NothingDone DEF StartHook, EndOfHook, RequestFails, Crash, authentik
<1>2. CASE EndOfHook \/ RequestFails
  BY <1>1, <1>2, RaiseShape, OwnEnds DEF EndOfHook, RequestFails, Ends
<1>3. CASE StartHook
  <2>1. view' = view /\ peer' = peer /\ pc' \notin VerifiedSteps
    BY <1>3 DEF StartHook, committed, VerifiedSteps
  <2>2. CurrentNext(view') => OwnNext(view')
    BY <1>1, <2>1, TracksOwn DEF Tracks
  <2>3. QED
    BY <1>1, <2>1, <2>2, OwnKept DEF OwnLocals, VerifiedSteps
<1>4. CASE Crash
  <2>1. view' = peer /\ peer' = peer /\ pc' = "idle"
    BY <1>4 DEF Crash, EndHook, committed
  <2>2. CurrentNext(view') => OwnNext(view')
    BY <1>1, <2>1, TracksOwn DEF Tracks
  <2>3. QED
    BY <1>1, <2>1, <2>2, OwnKept DEF OwnLocals, VerifiedSteps
<1>5. QED
  BY <1>2, <1>3, <1>4

\* A loss takes accounts along, or leaves whose they are.
LEMMA LossOwn ==
  ASSUME Facts, OwnInv, LoseDatabase \/ LoseOutpost \/ LoseRole
  PROVE  OwnInv'
<1> USE StepSets
<1>1. UNCHANGED <<peer, view, pc, cur, local>>
  BY DEF LoseDatabase, LoseOutpost, LoseRole, committed, hook
<1>2. CASE LoseDatabase
  <2>1. /\ outpost' = Nil /\ provider' = Nil /\ role' = Nil /\ \A k \in Pks : account'[k] = Nil
    BY <1>2 DEF LoseDatabase
  <2>2. pc \in ConsumerSteps \ {"create"} => local.pk \in Pks
    BY DEF Facts, TypeOK, LocalsInUse
  <2>3. QED
    BY <1>1, <2>1, <2>2 DEF OwnInv, Current, AfterLoss, NoAccounts, OwnLocals
<1>3. CASE LoseOutpost
  BY <1>1, <1>3 DEF LoseOutpost, OwnInv, Current, Own, AfterLoss, NoAccounts, OwnLocals, Owner
<1>4. CASE LoseRole
  <2>1. /\ role' = Nil /\ UNCHANGED <<outpost, provider, nextPk>>
        /\ \A k \in Pks : account'[k] # Nil => account[k] # Nil /\ account'[k].name = account[k].name
    <3>1. \A k \in Pks : account[k] # Nil => [account[k] EXCEPT !.member = FALSE].name = account[k].name
      BY DEF Facts, TypeOK, DatabaseTypeOK, Maybe, Account
    <3>2. QED
      BY <1>4, <3>1 DEF LoseRole
  <2>2. \A d \in {peer, view}, r \in Relations : d.client[r] # Nil => d.client[r].pk \in Pks
    BY DEF Facts, TypeOK, CommittedTypeOK, HookTypeOK, PeerData, Client, Maybe
  <2>3. \A d \in {peer, view} : Own(d) => OwnNext(d)
    BY <2>1, <2>2 DEF Own, OwnNext, Owner
  <2>4. Own(peer)' <=> OwnNext(peer)
    BY <1>1 DEF Own, OwnNext, Owner
  <2>5. Own(view)' <=> OwnNext(view)
    BY <1>1 DEF Own, OwnNext, Owner
  <2>6. pc \in ConsumerSteps \ {"create"} => local.pk \in Pks
    BY DEF Facts, TypeOK, LocalsInUse
  <2>7. OwnLocals'
    BY <1>1, <2>1, <2>6 DEF OwnInv, OwnLocals, Owner
  <2>8. QED
    BY <1>1, <2>1, <2>3, <2>4, <2>5, <2>7 DEF OwnInv, Current, AfterLoss, NoAccounts
<1>5. QED
  BY <1>2, <1>3, <1>4

\* Steps that touch neither Authentik nor the hook.
LEMMA AwayOwn ==
  ASSUME OwnInv, UNCHANGED <<authentik, peer, hook>>
  PROVE  OwnInv'
  BY DEF authentik, hook, OwnInv, Current, Own, AfterLoss, NoAccounts, OwnLocals, Owner

LEMMA EnvironmentAway ==
  ASSUME Environment \/ (\E r \in Relations : LoseSecret(r)) \/ UNCHANGED vars
  PROVE  UNCHANGED <<authentik, peer, hook>>
  BY DEF Environment, ChangeConfig, AddRelation, RemoveRelation, ChangeRequest, LoseSecret, vars,
    committed

LEMMA OwnInductive == ASSUME Facts, OwnInv, [Next]_vars PROVE OwnInv'
<1>1. CASE Provision
  BY <1>1, ProvisionOwn
<1>2. CASE ServeConsumers
  BY <1>2, ServeConsumersOwn
<1>3. CASE StartHook \/ EndOfHook \/ RequestFails \/ Crash
  BY <1>3, AroundOwn
<1>4. CASE LoseDatabase \/ LoseOutpost \/ LoseRole
  BY <1>4, LossOwn
<1>5. CASE Environment \/ (\E r \in Relations : LoseSecret(r)) \/ UNCHANGED vars
  BY <1>5, EnvironmentAway, AwayOwn
<1>6. QED
  BY <1>1, <1>2, <1>3, <1>4, <1>5 DEF Next, HookStep, Failure

LEMMA BasicsHold == Spec => []Basics
<1>1. TypeOK /\ OutpostInv /\ AuthInv /\ HookInv => Basics
  BY DEF Basics
<1>2. QED
  BY <1>1, TypeCorrect, OutpostInvHolds, AuthInvHolds, HookInvHolds, PTL

\* A databag is right about its accounts in every reachable state.
LEMMA OwnInvHolds == Spec => []OwnInv
<1>1. Init => OwnInv
  BY StepSets DEF Init, EmptyPeer, OwnInv, Current, VerifiedSteps, OwnLocals
<1>2. Basics /\ OwnInv /\ [Next]_vars => OwnInv'
  BY NextType, OwnInductive DEF Basics, Facts
<1>3. QED
  BY <1>1, <1>2, BasicsHold, PTL DEF Spec

-----------------------------------------------------------------------------
(* What the requests do to the accounts *)

\* A request changes the account j only, which exists before and after.
OnlyRow(j) ==
  /\ j \in Pks /\ account[j] # Nil /\ account'[j] # Nil
  /\ nextPk' = nextPk
  /\ \A k \in Pks \ {j} : account'[k] = account[k]

SameName(j) == account'[j].name = account[j].name
SamePassword(j) == account'[j].password = account[j].password
SameMember(j) == account'[j].member = account[j].member

LEMMA OneRow ==
  ASSUME Facts, NEW j \in Pks, account[j] # Nil, NEW row, row # Nil,
         account' = [account EXCEPT ![j] = row], nextPk' = nextPk
  PROVE  OnlyRow(j) /\ account'[j] = row
  BY DEF Facts, TypeOK, DatabaseTypeOK, OnlyRow

LEMMA SetPasswordEffect ==
  ASSUME Facts, OwnInv, NEW label, SetPassword(label), pc \in {"password", "rotate"}
  PROVE  \/ Ends /\ UNCHANGED <<account, nextPk>>
         \/ /\ OnlyRow(local.pk) /\ SameName(local.pk) /\ SameMember(local.pk)
            /\ account'[local.pk].password \in FreshPasswords(cur)
            /\ \/ Ends
               \/ Go(label, view, [local EXCEPT !.password = account'[local.pk].password])
<1> USE StepSets
<1>1. CASE account[local.pk] = Nil
  BY <1>1, RaiseShape DEF SetPassword
<1>2. CASE account[local.pk] # Nil
  <2>1. PICK p \in FreshPasswords(cur) :
          /\ account' = [account EXCEPT ![local.pk].password = p]
          /\ Answer(Go(label, view, [local EXCEPT !.password = p]))
    BY <1>2 DEF SetPassword
  <2> DEFINE row == [account[local.pk] EXCEPT !.password = p]
  <2>2. p \in Passwords
    BY DEF FreshPasswords
  <2>3. /\ row.name = account[local.pk].name /\ row.password = p
        /\ row.member = account[local.pk].member /\ row # Nil
    BY <1>2, <2>2, ServedAccount, AccountFields
  <2>4. account' = [account EXCEPT ![local.pk] = row] /\ nextPk' = nextPk
    BY <2>1 DEF SetPassword
  <2> HIDE DEF row
  <2>5. OnlyRow(local.pk) /\ account'[local.pk] = row
    BY <1>2, <2>3, <2>4, OneRow, ServedAccount
  <2>6. Ends \/ Go(label, view, [local EXCEPT !.password = p])
    BY <2>1, RaiseShape DEF Answer
  <2>7. QED
    BY <2>3, <2>5, <2>6 DEF SameName, SameMember
<1>3. QED
  BY <1>1, <1>2

LEMMA JoinRowEffect ==
  ASSUME Facts, NEW j \in Pks, account[j] # Nil, JoinsRole(j), nextPk' = nextPk
  PROVE  OnlyRow(j) /\ SameName(j) /\ SamePassword(j) /\ account'[j].member = TRUE
<1> DEFINE row == [account[j] EXCEPT !.member = TRUE]
<1>1. account[j] \in Account
  BY DEF Facts, TypeOK, DatabaseTypeOK, Maybe
<1>2. /\ row.name = account[j].name /\ row.password = account[j].password
      /\ row.member = TRUE /\ row # Nil
  BY <1>1, AccountFields
<1>3. account' = [account EXCEPT ![j] = row]
  BY DEF JoinsRole
<1> HIDE DEF row
<1>4. OnlyRow(j) /\ account'[j] = row
  BY <1>2, <1>3, OneRow
<1>5. QED
  BY <1>2, <1>4 DEF SameName, SamePassword

LEMMA RegroupEffect ==
  ASSUME Facts, OwnInv, NEW group, NEW groups, NEW label, Regroup(group, groups, label),
         pc \in {"leaveGroup", "joinGroup"},
         account[local.pk] # Nil /\ group \in AuthentikGroups => groups \subseteq AuthentikGroups
  PROVE  /\ Ends \/ Go(label, view, local)
         /\ \/ UNCHANGED <<account, nextPk>>
            \/ /\ OnlyRow(local.pk) /\ SameName(local.pk) /\ SamePassword(local.pk)
               /\ SameMember(local.pk)
<1> USE StepSets
<1>1. Ends \/ Go(label, view, local)
  BY RaiseShape DEF Regroup, Answer
<1>2. CASE group \in AuthentikGroups /\ account[local.pk] # Nil
  <2> DEFINE row == [account[local.pk] EXCEPT !.groups = groups]
  <2>1. account' = [account EXCEPT ![local.pk] = row] /\ nextPk' = nextPk
    BY <1>2 DEF Regroup
  <2>2. /\ row.name = account[local.pk].name /\ row.password = account[local.pk].password
        /\ row.member = account[local.pk].member /\ row # Nil
    BY <1>2, ServedAccount, AccountFields
  <2> HIDE DEF row
  <2>3. OnlyRow(local.pk) /\ account'[local.pk] = row
    BY <1>2, <2>1, <2>2, OneRow, ServedAccount
  <2>4. QED
    BY <1>1, <2>2, <2>3 DEF SameName, SamePassword, SameMember
<1>3. CASE ~(group \in AuthentikGroups /\ account[local.pk] # Nil)
  BY <1>1, <1>3 DEF Regroup
<1>4. QED
  BY <1>2, <1>3

LEMMA GroupsEffect ==
  ASSUME Facts, OwnInv, LeaveGroup \/ JoinGroup
  PROVE  /\ pc \in {"leaveGroup", "joinGroup"}
         /\ Ends \/ \E label \in {"joinGroup", "publish"} : Go(label, view, local)
         /\ \/ UNCHANGED <<account, nextPk>>
            \/ /\ OnlyRow(local.pk) /\ SameName(local.pk) /\ SamePassword(local.pk)
               /\ SameMember(local.pk)
<1> USE StepSets
<1>1. pc \in {"leaveGroup", "joinGroup"}
  BY DEF LeaveGroup, JoinGroup
<1>2. account[local.pk] # Nil => account[local.pk].groups \subseteq AuthentikGroups
  BY <1>1, ServedAccount DEF Account
<1>3. CASE LeaveGroup
  BY <1>1, <1>2, <1>3, RegroupEffect DEF LeaveGroup
<1>4. CASE JoinGroup
  BY <1>1, <1>2, <1>4, RegroupEffect DEF JoinGroup
<1>5. QED
  BY <1>3, <1>4

LEMMA RenameEffect ==
  ASSUME Facts, OwnInv, Rename
  PROVE  /\ pc = "rename"
         /\ \/ Ends
            \/ \E n : Go(MoveGroup(cur, view.client[cur].group), view, [local EXCEPT !.name = n])
         /\ \/ UNCHANGED <<account, nextPk>> /\ Ends
            \/ /\ OnlyRow(local.pk) /\ account'[local.pk].name[1] = cur /\ SamePassword(local.pk)
               /\ SameMember(local.pk)
<1> DEFINE n == BindUserName(cur, request[cur].user)
<1> USE StepSets
<1>1. pc = "rename" /\ nextPk' = nextPk
  BY DEF Rename
<1>2. CASE account[local.pk] # Nil /\ ~NameTaken(n, local.pk)
  <2> DEFINE row == [account[local.pk] EXCEPT !.name = n]
  <2>1. /\ account' = [account EXCEPT ![local.pk] = row]
        /\ \/ Ends
           \/ Go(MoveGroup(cur, view.client[cur].group), view, [local EXCEPT !.name = n])
    BY <1>2, RaiseShape DEF Rename, Answer
  <2>2. n \in Names
    BY <1>1, ServedAccount, BindUserNameType DEF Facts, TypeOK, InputsTypeOK, Requests
  <2>3. /\ row.name = n /\ row.password = account[local.pk].password
        /\ row.member = account[local.pk].member /\ row # Nil
    BY <1>1, <1>2, <2>2, ServedAccount, AccountFields
  <2>4. n[1] = cur
    BY DEF BindUserName
  <2> HIDE DEF row, n
  <2>5. OnlyRow(local.pk) /\ account'[local.pk] = row
    BY <1>1, <1>2, <2>1, <2>3, OneRow, ServedAccount
  <2>6. QED
    BY <1>1, <2>1, <2>3, <2>4, <2>5 DEF SamePassword, SameMember
<1>3. CASE ~(account[local.pk] # Nil /\ ~NameTaken(n, local.pk))
  BY <1>1, <1>3, RaiseShape DEF Rename
<1>4. QED
  BY <1>2, <1>3

LEMMA JoinRoleEffect ==
  ASSUME Facts, OwnInv, JoinRole
  PROVE  /\ pc = "member"
         /\ \/ Ends /\ UNCHANGED <<account, nextPk>>
            \/ /\ OnlyRow(local.pk) /\ SameName(local.pk) /\ SamePassword(local.pk)
               /\ account'[local.pk].member = TRUE /\ view.role = role
               /\ \/ Ends
                  \/ \E c : Go(MoveGroup(cur, NoGroup), [view EXCEPT !.cache = c], local)
<1> USE StepSets
<1>1. pc = "member" /\ nextPk' = nextPk
  BY DEF JoinRole
<1>2. CASE CanJoinRole(view.role, local.pk)
  <2>1. /\ JoinsRole(local.pk) /\ account[local.pk] # Nil /\ view.role = role
        /\ Ends \/ \E c : Go(MoveGroup(cur, NoGroup), [view EXCEPT !.cache = c], local)
    BY <1>2, RaiseShape DEF JoinRole, Answer, CanJoinRole
  <2>2. QED
    BY <1>1, <2>1, JoinRowEffect, ServedAccount
<1>3. CASE ~CanJoinRole(view.role, local.pk)
  BY <1>1, <1>3, RaiseShape DEF JoinRole
<1>4. QED
  BY <1>2, <1>3

LEMMA EnrollEffect ==
  ASSUME Facts, OwnInv, NEW r \in Relations, Enroll(r)
  PROVE  /\ pc = "enroll" /\ r \in Active
         /\ \/ UNCHANGED <<account, nextPk>>
            \/ LET j == view.client[r].pk IN
               /\ OnlyRow(j) /\ SameName(j) /\ SamePassword(j) /\ account'[j].member = TRUE
               /\ account[j].name[1] = r
         /\ Ends \/ StartsOver \/ \E S : Go("enroll", view, [local EXCEPT !.applied = S])
<1> DEFINE j == view.client[r].pk
<1> USE StepSets
<1>1. /\ pc = "enroll" /\ r \in Active /\ view.client[r] # Nil /\ nextPk' = nextPk /\ j \in Pks
  BY DEF Enroll, ToEnroll, Facts, TypeOK, HookTypeOK, PeerData, Client, Maybe
<1>2. CASE CanJoinRole(local.role, j)
  <2>1. /\ JoinsRole(j) /\ account[j] # Nil
        /\ Ends \/ Go("enroll", view, [local EXCEPT !.applied = @ \union {j}])
    BY <1>2, RaiseShape DEF Enroll, Answer, CanJoinRole
  <2>2. account[j].name[1] = r
    BY <1>1, <2>1 DEF OwnInv, VerifiedSteps, AfterLoss, NoAccounts, Own, Owner
  <2>3. QED
    BY <1>1, <2>1, <2>2, JoinRowEffect
<1>3. CASE ~CanJoinRole(local.role, j)
  BY <1>1, <1>3, NotFoundShape DEF Enroll, Facts
<1>4. QED
  BY <1>2, <1>3

LEMMA DeleteEffect ==
  ASSUME Facts, OwnInv, NEW r \in Relations, DeleteOrphan(r)
  PROVE  LET j == view.client[r].pk IN
         /\ pc = "cleanup" /\ view.client[r] # Nil /\ rel[r] = "gone" /\ nextPk' = nextPk
         /\ j \in Pks /\ account'[j] = Nil /\ \A k \in Pks \ {j} : account'[k] = account[k]
         /\ account[j] # Nil => Owner(j) = r
         /\ Ends \/ Go("cleanup", [view EXCEPT !.client[r] = Nil], local)
<1> DEFINE j == view.client[r].pk
<1> USE StepSets
<1>1. /\ pc = "cleanup" /\ view.client[r] # Nil /\ rel[r] # "active" /\ j \in Pks
      /\ account' = [account EXCEPT ![j] = Nil] /\ nextPk' = nextPk
      /\ Ends \/ Go("cleanup", [view EXCEPT !.client[r] = Nil], local)
  BY RaiseShape
  DEF DeleteOrphan, Orphans, Answer, Facts, TypeOK, HookTypeOK, PeerData, Client, Maybe
<1>2. rel[r] = "gone"
  BY <1>1 DEF Facts, TypeOK, InputsTypeOK, HookInv, Bag
<1>3. account[j] # Nil => Owner(j) = r
  BY <1>1 DEF OwnInv, VerifiedSteps, AfterLoss, NoAccounts, Own
<1>4. account'[j] = Nil /\ \A k \in Pks \ {j} : account'[k] = account[k]
  BY <1>1 DEF Facts, TypeOK, DatabaseTypeOK
<1>5. QED
  BY <1>1, <1>2, <1>3, <1>4

LEMMA CreateEffect ==
  ASSUME Facts, CreateAccount
  PROVE  /\ pc = "create"
         /\ \E k \in Pks : \E n :
              /\ account'[k] # Nil /\ account'[k].name[1] = cur
              /\ \/ UNCHANGED <<account, nextPk>>
                 \/ /\ k = nextPk /\ nextPk' = nextPk + 1 /\ account[k] = Nil
                    /\ account'[k].password = Nil
                    /\ \A i \in Pks \ {k} : account'[i] = account[i]
              /\ Ends \/ Go("password", view, [local EXCEPT !.pk = k, !.name = n])
<1> DEFINE n == BindUserName(cur, request[cur].user)
           row == [name |-> n, password |-> Nil, member |-> FALSE, groups |-> {}]
<1> USE StepSets
<1>1. pc = "create" /\ n[1] = cur
  BY DEF CreateAccount, BindUserName
<1>2. ASSUME NEW k \in Pks, account[k] # Nil, account[k].name = n, UNCHANGED <<account, nextPk>>,
             Answer(Go("password", view, [local EXCEPT !.pk = k, !.name = n]))
      PROVE  /\ account'[k] # Nil /\ account'[k].name[1] = cur
             /\ Ends \/ Go("password", view, [local EXCEPT !.pk = k, !.name = n])
  BY <1>1, <1>2, RaiseShape DEF Answer
<1>3. ASSUME nextPk \in Pks, account' = [account EXCEPT ![nextPk] = row], nextPk' = nextPk + 1,
             Answer(Go("password", view, [local EXCEPT !.pk = nextPk, !.name = n]))
      PROVE  /\ account'[nextPk] # Nil /\ account'[nextPk].name[1] = cur /\ account[nextPk] = Nil
             /\ account'[nextPk].password = Nil
             /\ \A i \in Pks \ {nextPk} : account'[i] = account[i]
             /\ Ends \/ Go("password", view, [local EXCEPT !.pk = nextPk, !.name = n])
  <2>1. account \in [Pks -> Maybe(Account)] /\ nextPk \in Nat
    BY DEF Facts, TypeOK, DatabaseTypeOK
  <2>2. account[nextPk] = Nil
    BY <1>3, <2>1 DEF Facts, AuthInv, PksGivenOut
  <2>3. n \in Names
    BY <1>1, AtConsumerStep, BindUserNameType DEF Facts, TypeOK, InputsTypeOK, Requests
  <2>4. row \in Account
    BY <2>3 DEF Account, Maybe
  <2>5. account'[nextPk] = row /\ row # Nil
    BY <1>3, <2>1, <2>4, NilAssumption
  <2>6. Ends \/ Go("password", view, [local EXCEPT !.pk = nextPk, !.name = n])
    BY <1>3, RaiseShape DEF Answer
  <2>7. QED
    BY <1>1, <1>3, <2>1, <2>2, <2>5, <2>6
<1> HIDE DEF row
<1>4. CASE \E k \in Pks :
             /\ account[k] # Nil /\ account[k].name = n /\ UNCHANGED <<account, nextPk>>
             /\ Answer(Go("password", view, [local EXCEPT !.pk = k, !.name = n]))
  BY <1>1, <1>2, <1>4
<1>5. CASE /\ nextPk \in Pks /\ account' = [account EXCEPT ![nextPk] = row] /\ nextPk' = nextPk + 1
           /\ Answer(Go("password", view, [local EXCEPT !.pk = nextPk, !.name = n]))
  BY <1>1, <1>3, <1>5
<1>6. QED
  BY <1>4, <1>5 DEF CreateAccount, row

-----------------------------------------------------------------------------
\* One step of ActsOnOwnAccounts.
ActsOnOwn ==
  era' = era =>
    \A k \in Pks : account[k] # Nil /\ account'[k] # account[k] =>
      IF account'[k] = Nil THEN rel[Owner(k)] = "gone"
      ELSE rel[Owner(k)] = "active" /\ (cur = Owner(k) \/ pc = "enroll")

\* A request on the account being served.
LEMMA ServedActsOnOwn ==
  ASSUME Facts, OwnInv, pc \in ConsumerSteps \ {"create"}, OnlyRow(local.pk)
  PROVE  ActsOnOwn
  BY ServedAccount DEF ActsOnOwn, OnlyRow, Owner

LEMMA ProvisionActsOnOwn == ASSUME Facts, OwnInv, Provision PROVE ActsOnOwn
<1>1. ASSUME NEW r \in Relations, Enroll(r) PROVE ActsOnOwn
  BY <1>1, EnrollEffect DEF ActsOnOwn, OnlyRow, Owner, Active
<1>2. CASE account' = account
  BY <1>2 DEF ActsOnOwn
<1>3. QED
  BY <1>1, <1>2
  DEF Provision, CheckOutpost, UpdateProvider, EnsureProvider, EnsureApplication, EnsureOutpost,
    ReadToken, EnsureRole, GrantSearch, Enrolled, authentik

LEMMA ServeActsOnOwn == ASSUME Facts, OwnInv, ServeConsumers PROVE ActsOnOwn
<1> USE StepSets
<1>1. CASE account' = account
  BY <1>1 DEF ActsOnOwn
<1>2. CASE FirstPassword \/ RotatePassword
  BY <1>1, <1>2, SetPasswordEffect, ServedActsOnOwn DEF FirstPassword, RotatePassword
<1>3. CASE JoinRole
  BY <1>1, <1>3, JoinRoleEffect, ServedActsOnOwn
<1>4. CASE Rename
  BY <1>1, <1>4, RenameEffect, ServedActsOnOwn
<1>5. CASE LeaveGroup \/ JoinGroup
  BY <1>1, <1>5, GroupsEffect, ServedActsOnOwn
<1>6. CASE CreateAccount
  BY <1>6, CreateEffect DEF ActsOnOwn
<1>7. ASSUME NEW r \in Relations, DeleteOrphan(r) PROVE ActsOnOwn
  BY <1>7, DeleteEffect DEF ActsOnOwn
<1>8. QED
  BY <1>1, <1>2, <1>3, <1>4, <1>5, <1>6, <1>7
  DEF ServeConsumers, CleanedUp, OwnRole, OwnGrant, Publish, Serve, authentik

LEMMA StepActsOnOwn == ASSUME Facts, OwnInv, [Next]_vars PROVE ActsOnOwn
<1>1. CASE Provision \/ ServeConsumers
  BY <1>1, ProvisionActsOnOwn, ServeActsOnOwn
<1>2. CASE LoseDatabase \/ LoseOutpost \/ LoseRole
  <2>1. era' = era + 1 /\ era \in Nat
    BY <1>2 DEF LoseDatabase, LoseOutpost, LoseRole, Loss, Facts, TypeOK, DatabaseTypeOK
  <2>2. QED
    BY <2>1 DEF ActsOnOwn
<1>3. CASE StartHook \/ EndOfHook \/ RequestFails \/ Crash
  BY <1>3 DEF StartHook, EndOfHook, RequestFails, Crash, authentik, ActsOnOwn
<1>4. CASE Environment \/ (\E r \in Relations : LoseSecret(r)) \/ UNCHANGED vars
  BY <1>4, EnvironmentAway DEF authentik, ActsOnOwn
<1>5. QED
  BY <1>1, <1>2, <1>3, <1>4 DEF Next, HookStep, Failure

\* The charm deletes the accounts of removed relations only and changes none but those of
\* the consumer it serves or enrols, whatever is lost on Authentik and whenever: outpost,
\* role, or the database with every primary key the charm recorded
\* (_cleanup_orphaned_relations, _update_ldap_relation, _ensure_search_authorization).
THEOREM OwnAccountsOnly == Spec => ActsOnOwnAccounts
<1>1. Basics /\ OwnInv /\ [Next]_vars =>
        (era' = era =>
           \A k \in Pks : account[k] # Nil /\ account'[k] # account[k] =>
             IF account'[k] = Nil THEN rel[Owner(k)] = "gone"
             ELSE rel[Owner(k)] = "active" /\ (cur = Owner(k) \/ pc = "enroll"))
  BY NextType, StepActsOnOwn DEF Basics, Facts, ActsOnOwn
<1>2. QED
  BY <1>1, BasicsHold, OwnInvHolds, PTL DEF Spec, ActsOnOwnAccounts

=============================================================================
