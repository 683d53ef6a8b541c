----------------------------- MODULE OutpostProofs -----------------------------
(***************************************************************************)
(* An outpost the charm knows serves the provider the charm knows, however *)
(* _provision_fresh_resources was cut, failed, or overtaken by a loss.     *)
(*                                                                         *)
(* The databag alone does not say so.  That an outpost exists has to imply *)
(* the rest of what it needs, which makes the order of the requests part   *)
(* of the argument; and a UUID the charm still holds of an outpost that is *)
(* gone must never be given to another one.                                *)
(***************************************************************************)
EXTENDS ReconcileProofs

\* A UUID held of an outpost: none made from now on gets it, unless it is the present one.
Held(uuid) == uuid # Nil => uuid <= era /\ (outpost = Nil => uuid < era)

\* If the outpost o is there, it is with the provider pk.
With(o, pk) == o # Nil /\ o = outpost => provider.pk = pk

OutpostInv ==
  /\ outpost # Nil => application /\ provider # Nil
  /\ pc = "outpost" /\ provider # Nil => application
  /\ Held(outpost) /\ Held(peer.outpost) /\ Held(view.outpost) /\ Held(local.outpost)
  /\ With(peer.outpost, peer.provider)
  /\ With(view.outpost, view.provider)
  /\ pc = "token" => With(local.outpost, local.provider)

Same(d, old) == d.outpost = old.outpost /\ d.provider = old.provider

\* The hook goes on with what is known of the outpost, or falls back on what was committed.
HookKept ==
  /\ Same(view', view) \/ Same(view', peer)
  /\ Same(peer', peer) \/ Same(peer', view)
  /\ local'.outpost \in {local.outpost, Nil}
  /\ pc' \notin {"outpost", "token"} \/ UNCHANGED <<pc, local>>

\* The outpost stays as it is, and so does the provider behind it.
ServerKept ==
  /\ UNCHANGED <<outpost, application, era>>
  /\ provider # Nil => provider' # Nil /\ provider'.pk = provider.pk
  /\ provider = Nil => provider' = Nil \/ pc' # "outpost"

-----------------------------------------------------------------------------
(* Steps that keep what is known *)

LEMMA KeptKeeps ==
  ASSUME OutpostInv, HookKept, ServerKept
  PROVE  OutpostInv'
  BY DEF OutpostInv, HookKept, ServerKept, Same, Held, With

\* Whether a step fails or goes on elsewhere, it says nothing new of the outpost.
LEMMA RaiseFallsBack ==
  ASSUME Raise
  PROVE  HookKept /\ pc' # "outpost" /\ pc' # "token" /\ local'.outpost = Nil
  BY DEF Raise, Commit, EndHook, BeginServing, NoLocals, committed, HookKept, Same

LEMMA NotFoundKeeps ==
  ASSUME TypeOK, NotFound
  PROVE  HookKept /\ pc' # "outpost" /\ pc' # "token"
<1>1. CASE Reprovision
  BY <1>1 DEF Reprovision, NoLocals, committed, HookKept, Same, TypeOK, HookTypeOK, PeerData
<1>2. QED
  BY <1>1, RaiseFallsBack DEF NotFound

\* The requests after the outpost is known, and those before it is asked for.
LEMMA ProvisionKnows ==
  ASSUME TypeOK, \/ CheckOutpost \/ UpdateProvider \/ EnsureProvider \/ EnsureRole
                 \/ GrantSearch \/ Enrolled \/ \E r \in Relations : Enroll(r)
  PROVE  HookKept /\ ServerKept
<1> USE DEF Same
<1>1. view \in PeerData /\ local \in Locals
  BY DEF TypeOK, HookTypeOK
<1>2. CASE CheckOutpost
  BY <1>2, NotFoundKeeps, RaiseFallsBack
  DEF Answer, Go, committed, HookKept, CheckOutpost, ServerKept, authentik
<1>3. CASE UpdateProvider
  <2>1. Same([view EXCEPT !.config = config], view)
    BY <1>1 DEF PeerData
  <2>2. CASE ProviderExists(view.provider)
    <3>1. HookKept
      BY <1>3, <2>1, <2>2, RaiseFallsBack
      DEF Answer, Go, committed, HookKept, UpdateProvider, ProviderExists
    <3>2. provider' = [provider EXCEPT !.config = config] /\ provider \in Provider
      BY <1>3, <2>2 DEF UpdateProvider, ProviderExists, TypeOK, DatabaseTypeOK, Maybe
    <3>3. provider'.pk = provider.pk /\ provider' \in Provider
      BY <3>2 DEF Provider, TypeOK, InputsTypeOK
    <3>4. QED
      BY <1>3, <2>2, <3>1, <3>3, NilAssumption DEF UpdateProvider, ProviderExists, ServerKept
  <2>3. CASE ~ProviderExists(view.provider)
    BY <1>3, <2>3, NotFoundKeeps DEF UpdateProvider, ProviderExists, ServerKept
  <2>4. QED
    BY <2>2, <2>3
<1>4. CASE EnsureProvider
  <2>1. [local EXCEPT !.provider = provider'.pk].outpost = local.outpost
    BY <1>1 DEF Locals
  <2>2. HookKept /\ pc' # "outpost"
    BY <1>4, <2>1, RaiseFallsBack DEF Answer, Go, committed, HookKept, EnsureProvider
  <2>3. provider # Nil => provider' # Nil /\ provider'.pk = provider.pk
    <3>1. SUFFICES ASSUME provider # Nil PROVE provider' # Nil /\ provider'.pk = provider.pk
      OBVIOUS
    <3>2. provider' = [provider EXCEPT !.config = config] /\ provider \in Provider
      BY <1>4, <3>1 DEF EnsureProvider, TypeOK, DatabaseTypeOK, Maybe
    <3>3. provider'.pk = provider.pk /\ provider' \in Provider
      BY <3>2 DEF Provider, TypeOK, InputsTypeOK
    <3>4. QED
      BY <3>3, NilAssumption
  <2>4. QED
    BY <1>4, <2>2, <2>3 DEF EnsureProvider, ServerKept
<1>5. CASE EnsureRole
  <2>1. \A u : Same([view EXCEPT !.role = u], view)
    BY <1>1 DEF PeerData
  <2>2. \A u, S : [local EXCEPT !.role = u, !.applied = S].outpost = local.outpost
    BY <1>1 DEF Locals
  <2>3. HookKept
    <3>1. CASE Raise
      BY <3>1, RaiseFallsBack
    <3>2. CASE ~Raise
      <4> DEFINE l == [local EXCEPT !.role = role', !.applied = CachedMembers(view, role')]
      <4>1. Go("enroll", [view EXCEPT !.role = role'], l) \/ Go("grant", view, l)
        BY <1>5, <3>2 DEF EnsureRole, Answer
      <4>2. l.outpost = local.outpost
        BY <2>2
      <4> HIDE DEF l
      <4>3. QED
        BY <2>1, <4>1, <4>2 DEF Go, committed, HookKept
    <3>3. QED
      BY <3>1, <3>2
  <2>4. QED
    BY <1>5, <2>3 DEF EnsureRole, ServerKept
<1>6. CASE GrantSearch
  <2>1. Same(Verified(view, local.role), view)
    BY <1>1 DEF Verified, PeerData
  <2>2. QED
    BY <1>6, <2>1, NotFoundKeeps, RaiseFallsBack
    DEF Answer, Go, committed, HookKept, GrantSearch, ServerKept
<1>7. CASE Enrolled
  <2>1. \A c : Same([view EXCEPT !.cache = c], view)
    BY <1>1 DEF PeerData
  <2>2. QED
    BY <1>7, <2>1, RaiseFallsBack
    DEF Answer, Go, committed, HookKept, Enrolled, ServerKept, authentik, NoLocals
<1>8. CASE \E r \in Relations : Enroll(r)
  <2>1. \A k : [local EXCEPT !.applied = @ \union {k}].outpost = local.outpost
    BY <1>1 DEF Locals
  <2>2. QED
    BY <1>8, <2>1, NotFoundKeeps, RaiseFallsBack
    DEF Answer, Go, committed, HookKept, Enroll, ServerKept
<1>9. QED
  BY <1>2, <1>3, <1>4, <1>5, <1>6, <1>7, <1>8

\* Whatever is done for the consumers.
LEMMA ServingKeeps ==
  ASSUME TypeOK, ServeConsumers
  PROVE  HookKept /\ ServerKept
<1> USE DEF Same
<1>1. view \in PeerData /\ local \in Locals
  BY DEF TypeOK, HookTypeOK
<1>2. UNCHANGED <<outpost, provider, application, era>>
  BY DEF ServeConsumers, CleanedUp, CreateAccount, FirstPassword, SetPassword, OwnRole, OwnGrant,
    JoinRole, RotatePassword, Rename, LeaveGroup, JoinGroup, Regroup, Publish, DeleteOrphan, Serve,
    authentik
<1>3. \A old : MoveGroup(cur, old) \in {"publish", "leaveGroup", "joinGroup"}
  BY MoveGroupType
<1>4. HookKept
  <2>1. CASE CleanedUp
    BY <2>1 DEF CleanedUp, BeginServing, NoLocals, committed, HookKept
  <2>2. CASE CreateAccount
    <3>1. \A k, n : [local EXCEPT !.pk = k, !.name = n].outpost = local.outpost
      BY <1>1 DEF Locals
    <3>2. CASE Raise
      BY <3>2, RaiseFallsBack
    <3>3. CASE ~Raise
      <4>1. \E k, n : Go("password", view, [local EXCEPT !.pk = k, !.name = n])
        BY <2>2, <3>3 DEF CreateAccount, Answer
      <4>2. QED
        BY <3>1, <4>1 DEF Go, committed, HookKept
    <3>4. QED
      BY <3>2, <3>3
  <2>3. ASSUME NEW label, label \notin {"outpost", "token"}, SetPassword(label) PROVE HookKept
    <3>1. \A p : [local EXCEPT !.password = p].outpost = local.outpost
      BY <1>1 DEF Locals
    <3>2. QED
      BY <2>3, <3>1, RaiseFallsBack DEF Answer, Go, committed, HookKept, SetPassword
  <2>4. CASE FirstPassword
    BY <2>3, <2>4, AuthorizeType DEF FirstPassword
  <2>5. CASE RotatePassword
    <3>1. ReconcileIdentity(cur) \notin {"outpost", "token"}
      BY MoveGroupType DEF ReconcileIdentity
    <3>2. QED
      BY <2>3, <2>5, <3>1 DEF RotatePassword
  <2>6. CASE OwnRole
    <3>1. \A u : [local EXCEPT !.role = u].outpost = local.outpost
      BY <1>1 DEF Locals
    <3>2. QED
      BY <2>6, <3>1, RaiseFallsBack DEF Answer, Go, committed, HookKept, OwnRole
  <2>7. CASE OwnGrant
    <3>1. Same(Verified(view, local.role), view)
      BY <1>1 DEF Verified, PeerData
    <3>2. QED
      BY <2>7, <3>1, RaiseFallsBack DEF Answer, Go, committed, HookKept, OwnGrant
  <2>8. CASE JoinRole
    <3>1. \A c : Same([view EXCEPT !.cache = c], view)
      BY <1>1 DEF PeerData
    <3>2. QED
      BY <1>3, <2>8, <3>1, RaiseFallsBack DEF Answer, Go, committed, HookKept, JoinRole
  <2>9. CASE Rename
    <3>1. \A n : [local EXCEPT !.name = n].outpost = local.outpost
      BY <1>1 DEF Locals
    <3>2. QED
      BY <1>3, <2>9, <3>1, RaiseFallsBack DEF Answer, Go, committed, HookKept, Rename
  <2>10. CASE LeaveGroup \/ JoinGroup
    BY <2>10, RaiseFallsBack DEF Answer, Go, committed, HookKept, LeaveGroup, JoinGroup, Regroup
  <2>11. CASE Publish
    <3>1. cur \in Relations /\ view'.outpost = view.outpost /\ view'.provider = view.provider
      BY <1>1, <2>11 DEF Publish, PeerData, TypeOK, LocalsInUse, ConsumerSteps
    <3>2. QED
      BY <2>11, <3>1 DEF Publish, committed, NoLocals, HookKept
  <2>12. ASSUME NEW r \in Relations, DeleteOrphan(r) PROVE HookKept
    <3>1. Same([view EXCEPT !.client[r] = Nil], view)
      BY <1>1 DEF PeerData
    <3>2. QED
      BY <2>12, <3>1, RaiseFallsBack DEF Answer, Go, committed, HookKept, DeleteOrphan
  <2>13. ASSUME NEW r \in Relations, Serve(r) PROVE HookKept
    <3>1. FirstStep(r) \notin {"outpost", "token"}
      BY MoveGroupType DEF FirstStep, ReconcileIdentity
    <3>2. local'.outpost = Nil
      BY <2>13 DEF Serve, NoLocals
    <3>3. QED
      BY <2>13, <3>1, <3>2 DEF Serve, committed, HookKept
  <2>14. QED
    BY <2>1, <2>2, <2>4, <2>5, <2>6, <2>7, <2>8, <2>9, <2>10, <2>11, <2>12, <2>13
    DEF ServeConsumers
<1>5. QED
  BY <1>2, <1>4 DEF ServerKept

\* The start and the end of a hook, its failures, and what others do between hooks.
LEMMA AroundKeeps ==
  ASSUME \/ StartHook \/ EndOfHook \/ RequestFails \/ Crash \/ Environment
         \/ \E r \in Relations : LoseSecret(r)
  PROVE  HookKept /\ ServerKept
<1>1. UNCHANGED authentik
  BY DEF StartHook, EndOfHook, RequestFails, Crash, Environment, LoseSecret, ChangeConfig,
    AddRelation, RemoveRelation, ChangeRequest
<1>2. CASE StartHook
  BY <1>1, <1>2 DEF StartHook, committed, HookKept, Same, authentik, ServerKept
<1>3. CASE EndOfHook \/ RequestFails \/ Crash
  <2>1. HookKept
    BY <1>3, RaiseFallsBack
    DEF EndOfHook, RequestFails, Crash, Commit, EndHook, NoLocals, committed, HookKept, Same
  <2>2. QED
    BY <1>1, <2>1 DEF authentik, ServerKept
<1>4. CASE Environment \/ \E r \in Relations : LoseSecret(r)
  <2>1. UNCHANGED <<peer, hook>>
    BY <1>4
    DEF Environment, LoseSecret, ChangeConfig, AddRelation, RemoveRelation, ChangeRequest,
      committed
  <2>2. QED
    BY <1>1, <2>1 DEF authentik, hook, HookKept, Same, ServerKept
<1>5. QED
  BY <1>2, <1>3, <1>4

-----------------------------------------------------------------------------
(* Steps that make, learn or lose something *)

\* The application is there before an outpost is asked for.
LEMMA ApplicationKeeps ==
  ASSUME TypeOK, OutpostInv, EnsureApplication
  PROVE  OutpostInv'
<1>1. CASE Raise
  <2>1. UNCHANGED <<outpost, provider, era>> /\ (application => application')
    BY DEF EnsureApplication
  <2>2. QED
    BY <1>1, <2>1, RaiseFallsBack DEF OutpostInv, HookKept, Same, Held, With
<1>2. CASE ~Raise
  <2>1. /\ application' /\ pc' = "outpost" /\ provider # Nil
        /\ UNCHANGED <<outpost, provider, era, view, peer, local>>
    BY <1>2 DEF EnsureApplication, ProviderExists, Answer, Go, committed
  <2>2. QED
    BY <2>1 DEF OutpostInv, Held, With
<1>3. QED
  BY <1>1, <1>2

\* A new outpost gets a UUID nobody holds, and one that is there serves the provider adopted.
LEMMA OutpostKeeps ==
  ASSUME TypeOK, OutpostInv, EnsureOutpost
  PROVE  OutpostInv'
<1>1. UNCHANGED <<provider, application, era>>
  BY DEF EnsureOutpost
<1>2. CASE ~ProviderExists(local.provider)
  <2>1. Raise /\ UNCHANGED outpost
    BY <1>2 DEF EnsureOutpost
  <2>2. QED
    BY <1>1, <2>1, RaiseFallsBack, KeptKeeps DEF ServerKept
<1>3. CASE ProviderExists(local.provider)
  <2>1. /\ outpost' = (IF outpost = Nil THEN era ELSE outpost) /\ pc = "outpost"
        /\ provider # Nil /\ provider.pk = local.provider
    BY <1>3 DEF EnsureOutpost, ProviderExists
  <2>2. era \in Nat /\ outpost \in Maybe(Nat) /\ outpost' # Nil
    BY <2>1, NilAssumption DEF TypeOK, DatabaseTypeOK
  <2>3. Held(outpost)'
    BY <1>1, <2>1, <2>2 DEF OutpostInv, Held
  <2>4. ASSUME NEW uuid \in Maybe(Nat), NEW pk, Held(uuid), With(uuid, pk)
        PROVE  /\ uuid # Nil => uuid <= era
               /\ uuid # Nil /\ uuid = outpost' => uuid = outpost /\ provider.pk = pk
    BY <2>1, <2>2, <2>4 DEF Held, With, Maybe
  <2>5. /\ peer.outpost \in Maybe(Nat) /\ view.outpost \in Maybe(Nat)
        /\ local \in Locals /\ local.outpost \in Maybe(Nat)
    BY DEF TypeOK, CommittedTypeOK, HookTypeOK, PeerData, Locals
  <2>6. /\ Held(peer.outpost)' /\ With(peer.outpost, peer.provider)'
        /\ Held(view.outpost)' /\ With(view.outpost, view.provider)'
        /\ Held(local.outpost)' /\ (pc' = "token" => With(local.outpost, local.provider)')
    <3>1. \A d \in {peer, view} :
            /\ d.outpost # Nil => d.outpost <= era'
            /\ d.outpost # Nil /\ d.outpost = outpost' => provider'.pk = d.provider
      BY <1>1, <2>4, <2>5 DEF OutpostInv
    <3>2. CASE Raise
      BY <2>2, <3>1, <3>2, RaiseFallsBack DEF HookKept, Same, Held, With
    <3>3. CASE ~Raise
      <4>1. /\ local'.outpost = outpost' /\ local'.provider = local.provider
            /\ UNCHANGED <<peer, view>>
        BY <1>3, <2>5, <3>3 DEF EnsureOutpost, Answer, Go, committed, Locals
      <4>2. QED
        BY <1>1, <2>1, <2>2, <2>3, <3>1, <4>1 DEF Held, With
    <3>4. QED
      BY <3>2, <3>3
  <2>7. QED
    BY <1>1, <2>1, <2>3, <2>6 DEF OutpostInv
<1>4. QED
  BY <1>2, <1>3

\* The outpost and its provider become known together.
LEMMA TokenKeeps ==
  ASSUME TypeOK, OutpostInv, ReadToken
  PROVE  OutpostInv'
<1>1. UNCHANGED <<outpost, provider, application, era>> /\ pc = "token"
  BY DEF ReadToken, authentik
<1>2. CASE outpost = local.outpost
  <2>1. /\ view'.outpost = local.outpost /\ view'.provider = local.provider
        /\ pc' = "role" /\ UNCHANGED <<peer, local>>
    BY <1>2 DEF ReadToken, Go, committed, TypeOK, HookTypeOK, PeerData
  <2>2. QED
    BY <1>1, <2>1 DEF OutpostInv, Held, With
<1>3. CASE outpost # local.outpost
  <2>1. NotFound
    BY <1>3 DEF ReadToken
  <2>2. QED
    BY <1>1, <2>1, NotFoundKeeps, KeptKeeps DEF ServerKept
<1>4. QED
  BY <1>2, <1>3

\* A loss opens a new era: no UUID of before is ever given out again.
LEMMA LossKeeps ==
  ASSUME TypeOK, OutpostInv, LoseDatabase \/ LoseOutpost \/ LoseRole
  PROVE  OutpostInv'
<1>1. /\ era' = era + 1 /\ UNCHANGED <<peer, view, local, pc>>
      /\ \/ outpost' = Nil /\ provider' = Nil
         \/ outpost' \in {outpost, Nil} /\ UNCHANGED <<provider, application>>
  BY DEF LoseDatabase, LoseOutpost, LoseRole, Loss, committed, hook
<1>2. /\ era \in Nat /\ outpost \in Maybe(Nat) /\ peer.outpost \in Maybe(Nat)
      /\ view.outpost \in Maybe(Nat) /\ local.outpost \in Maybe(Nat)
  BY DEF TypeOK, DatabaseTypeOK, CommittedTypeOK, HookTypeOK, PeerData, Locals
<1>3. /\ Held(outpost)' /\ Held(peer.outpost)' /\ Held(view.outpost)' /\ Held(local.outpost)'
  BY <1>1, <1>2 DEF OutpostInv, Held, Maybe
<1>4. QED
  BY <1>1, <1>3 DEF OutpostInv, With

\* The invariant holds in every reachable state.
LEMMA OutpostInvHolds == Spec => []OutpostInv
<1>1. Init => OutpostInv
  BY DEF Init, EmptyPeer, NoLocals, OutpostInv, Held, With
<1>2. TypeOK /\ OutpostInv /\ [Next]_vars => OutpostInv'
  <2>1. SUFFICES ASSUME TypeOK, OutpostInv, [Next]_vars PROVE OutpostInv'
    OBVIOUS
  <2>2. CASE UNCHANGED vars
    BY <2>1, <2>2 DEF vars, authentik, committed, hook, OutpostInv, Held, With
  <2>3. CASE Provision
    BY <2>1, <2>3, ProvisionKnows, KeptKeeps, ApplicationKeeps, OutpostKeeps, TokenKeeps
    DEF Provision
  <2>4. CASE ServeConsumers
    BY <2>1, <2>4, ServingKeeps, KeptKeeps
  <2>5. CASE StartHook \/ EndOfHook \/ Failure \/ Environment
    BY <2>1, <2>5, AroundKeeps, KeptKeeps, LossKeeps DEF Failure
  <2>6. QED
    BY <2>1, <2>2, <2>3, <2>4, <2>5 DEF Next, HookStep
<1>3. QED
  BY <1>1, <1>2, TypeCorrect, PTL DEF Spec

\* An outpost the charm knows serves the provider the charm knows, and has its application.
THEOREM KnownOutpostsAreComplete == Spec => []KnownOutpostIsComplete
<1>1. OutpostInv => KnownOutpostIsComplete
  BY DEF OutpostInv, With, KnownOutpostIsComplete, ProviderExists
<1>2. QED
  BY <1>1, OutpostInvHolds, PTL

=============================================================================
