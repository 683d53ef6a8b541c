------------------------------ MODULE Reconcile ------------------------------
(***************************************************************************)
(* The hooks of the acting leader, run one after another against           *)
(* Authentik, with everything around them that moves: requirers, the       *)
(* operator, failing requests, crashes and losses on the Authentik side.   *)
(*                                                                         *)
(* Relations, requests and the configuration change only between hooks:    *)
(* Juju shows a hook one snapshot of them.  A loss on the Authentik side   *)
(* may fall between any two requests.                                      *)
(***************************************************************************)
EXTENDS BindAccounts

\* Every observed event runs the same handler.
StartHook ==
  /\ pc = "idle"
  /\ pc' = IF Known THEN "check" ELSE "provider"
  /\ fresh' = ~Known
  /\ UNCHANGED <<authentik, inputs, committed, view, out, todo, cur, local, faults>>

EndOfHook ==
  /\ pc = "serve"
  /\ todo = {}
  /\ Commit
  /\ UNCHANGED <<authentik, inputs, faults>>

HookStep == Provision \/ ServeConsumers \/ EndOfHook

-----------------------------------------------------------------------------
(* Failures *)

\* A request fails, after its retries, without an effect.
RequestFails ==
  /\ pc \in RequestSteps
  /\ pc = "cleanup" => Orphans # {}
  /\ pc = "enroll" => ToEnroll # {}
  /\ faults < MaxFaults
  /\ faults' = faults + 1
  /\ Raise
  /\ UNCHANGED <<authentik, inputs>>

\* The unit stops in the middle of a hook: its buffered writes are lost.
Crash ==
  /\ pc # "idle"
  /\ faults < MaxFaults
  /\ faults' = faults + 1
  /\ EndHook
  /\ view' = peer
  /\ UNCHANGED <<authentik, inputs, committed>>

\* The bind secret of a relation cannot be read any more.
LoseSecret(r) ==
  /\ pc = "idle"
  /\ secret[r] # Nil
  /\ faults < MaxFaults
  /\ faults' = faults + 1
  /\ secret' = [secret EXCEPT ![r] = Nil]
  /\ UNCHANGED <<authentik, inputs, peer, published, hook>>

Loss(what) == what \in Losses /\ era < MaxLosses /\ era' = era + 1

\* authentik-server is related to an empty database.
LoseDatabase ==
  /\ Loss("database")
  /\ outpost' = Nil /\ provider' = Nil /\ application' = FALSE
  /\ role' = Nil /\ granted' = FALSE
  /\ account' = [k \in Pks |-> Nil] /\ nextPk' = 1
  /\ UNCHANGED <<inputs, committed, hook, faults>>

\* An administrator deletes the outpost.
LoseOutpost ==
  /\ Loss("outpost")
  /\ outpost # Nil
  /\ outpost' = Nil
  /\ UNCHANGED <<provider, application, role, granted, account, nextPk, inputs, committed, hook,
                 faults>>

\* An administrator deletes the role, and with it the grant and its members.
LoseRole ==
  /\ Loss("role")
  /\ role # Nil
  /\ role' = Nil /\ granted' = FALSE
  /\ account' = [k \in Pks |-> IF account[k] = Nil THEN Nil ELSE [account[k] EXCEPT !.member = FALSE]]
  /\ UNCHANGED <<outpost, provider, application, nextPk, inputs, committed, hook, faults>>

Failure ==
  \/ RequestFails \/ Crash \/ LoseDatabase \/ LoseOutpost \/ LoseRole
  \/ \E r \in Relations : LoseSecret(r)

-----------------------------------------------------------------------------
(* Requirers and the operator *)

AddRelation(r) ==
  /\ pc = "idle"
  /\ rel[r] = "new"
  /\ rel' = [rel EXCEPT ![r] = "active"]
  /\ UNCHANGED <<authentik, request, config, changes, committed, hook, faults>>

\* relation-broken: the relation and what was published on it are gone.
RemoveRelation(r) ==
  /\ pc = "idle"
  /\ rel[r] = "active"
  /\ rel' = [rel EXCEPT ![r] = "gone"]
  /\ secret' = [secret EXCEPT ![r] = Nil]
  /\ published' = [published EXCEPT ![r] = Nil]
  /\ UNCHANGED <<authentik, request, config, changes, peer, hook, faults>>

ChangeRequest(r) ==
  /\ pc = "idle"
  /\ rel[r] = "active"
  /\ changes < MaxChanges
  /\ changes' = changes + 1
  /\ \E q \in Requests \ {request[r]} : request' = [request EXCEPT ![r] = q]
  /\ UNCHANGED <<authentik, rel, config, committed, hook, faults>>

ChangeConfig ==
  /\ pc = "idle"
  /\ changes < MaxChanges
  /\ changes' = changes + 1
  /\ config' \in Configs \ {config}
  /\ UNCHANGED <<authentik, rel, request, committed, hook, faults>>

Environment ==
  \/ ChangeConfig
  \/ \E r \in Relations : AddRelation(r) \/ RemoveRelation(r) \/ ChangeRequest(r)

Next == StartHook \/ HookStep \/ Failure \/ Environment

Spec == Init /\ [][Next]_vars

\* A hook that started goes on until it ends, fails or crashes, and Juju keeps
\* dispatching hooks: at least update-status, periodically.
FairSpec == Spec /\ WF_vars(StartHook) /\ WF_vars(HookStep)

-----------------------------------------------------------------------------
(* Safety *)

\* A role the databag records holds the grant on the provider, as long as it is
\* the live one: assigning and verifying is skipped on the strength of the databag,
\* and a lost role or database takes the grant away without the charm being told.
GrantCacheSound ==
  \A d \in {peer, view} : d.role # Nil /\ d.role = role => granted

\* An account the membership cache holds for the live role is a member of it, so
\* skipping add_user_to_role never leaves a bind user without search.
RoleCacheSound ==
  \A d \in {peer, view} :
    d.cache.role # Nil /\ d.cache.role = role =>
      \A k \in d.cache.members : account[k] # Nil => account[k].member

\* An outpost the charm knows and that still exists serves the provider the
\* charm knows, through its application: _provision_fresh_resources may be cut
\* anywhere and the next hook only verifies the outpost.
KnownOutpostIsComplete ==
  peer.outpost # Nil /\ peer.outpost = outpost => application /\ ProviderExists(peer.provider)

\* Between hooks, as long as the outpost exists, the account tracked for a
\* consumer exists, is that consumer's own, and has the password of the bind
\* secret: the next hook republishes that secret without asking Authentik.
TrackedAccountIsUsable ==
  pc = "idle" /\ peer.outpost # Nil /\ peer.outpost = outpost =>
    \A r \in Active : peer.client[r] # Nil =>
      LET user == account[peer.client[r].pk] IN
      /\ user # Nil
      /\ user.name[1] = r
      /\ secret[r] # Nil => secret[r] = user.password

\* Published credentials that let a consumer in let it search: the account is in
\* the role, and the role holds the grant.
PublishedIsAuthorized ==
  \A r \in Active : published[r] # Nil /\ secret[r] # Nil =>
    \A k \in Pks :
      account[k] # Nil /\ account[k].name = published[r].name /\ account[k].password = secret[r]
        => account[k].member /\ granted

-----------------------------------------------------------------------------
(* What a step never does *)

Owner(k) == account[k].name[1]

\* The charm deletes the accounts of removed relations only, and changes no
\* account but those of the consumer it is serving or of a consumer it enrols.
\* Primary keys it tracks may belong to somebody else once the database is lost.
ActsOnOwnAccounts ==
  [][era' = era =>
       \A k \in Pks : account[k] # Nil /\ account'[k] # account[k] =>
         IF account'[k] = Nil THEN rel[Owner(k)] = "gone"
         ELSE rel[Owner(k)] = "active" /\ (cur = Owner(k) \/ pc = "enroll")]_vars

\* Tracking of an account is dropped only when that account is gone, or when the
\* outpost it was tracked with is: no failure makes the charm forget an account.
TrackingKeptUntilGone ==
  [][\A r \in Relations : peer.client[r] # Nil /\ peer'.client[r] = Nil =>
       account[peer.client[r].pk] = Nil \/ peer.outpost # outpost]_vars

-----------------------------------------------------------------------------
(* Liveness *)

\* The consumer's published credentials open an account that may search.
Served(r) ==
  /\ published[r] # Nil
  /\ granted
  /\ \E k \in Pks : /\ account[k] # Nil /\ account[k].member
                    /\ account[k].name = published[r].name
                    /\ account[k].password = secret[r]

\* Once failures and changes end, every consumer is served for good.
EventuallyServed == <>[](\A r \in Active : Served(r))

\* The account of a removed relation is deleted and its tracking dropped.
OrphansDeleted ==
  \A r \in Relations :
    rel[r] = "gone" /\ peer.client[r] # Nil
      ~> peer.client[r] = Nil /\ \A k \in Pks : account[k] # Nil => Owner(k) # r

\* The account has the name and the group its requirer asks for.
HasRequestedIdentity(r) ==
  \E k \in Pks :
    /\ account[k] # Nil
    /\ account[k].name = BindUserName(r, request[r].user)
    /\ account[k].groups = AuthentikGroups \intersect {request[r].group}
    /\ published[r] # Nil /\ published[r].name = account[k].name

\* Without failures, what a requirer asks for ends up on its account.
RequestsHonoured == <>[](\A r \in Active : HasRequestedIdentity(r))

-----------------------------------------------------------------------------
(* What the documents promise and the code does not keep *)

\* secure-ldap-reconciliation-state: tracking of an orphan is kept until its
\* account is deleted or found to be absent.
OrphanDeletionIsResumable ==
  [][\A r \in Relations :
       rel[r] = "gone" /\ peer.client[r] # Nil /\ peer'.client[r] = Nil =>
         account[peer.client[r].pk] = Nil]_vars

\* secure-ldap-reconciliation-state: a partial failure leaks no account.  An
\* account of a removed relation that is not tracked is never deleted.
NoLeakedAccount ==
  pc = "idle" =>
    \A r \in Relations : rel[r] = "gone" /\ peer.client[r] = Nil =>
      \A k \in Pks : account[k] # Nil => Owner(k) # r

\* _verify_and_update_existing_resources: it returns True once the configuration is
\* reconciled.  Cleanup starts right after it returned.
ConfigIsReconciled ==
  pc = "cleanup" /\ view.outpost = outpost => provider.config = config

\* charm-reconcile: the published bind DN is the account's.  It is looked at when
\* the charm has nothing left to reconcile: the request is the recorded one.
PublishedNameIsReal ==
  pc = "idle" /\ peer.outpost # Nil /\ peer.outpost = outpost =>
    \A r \in Active :
      LET client == peer.client[r] IN
      /\ client # Nil
      /\ client.user = request[r].user
      /\ client.group = request[r].group
      => published[r].name = account[client.pk].name

=============================================================================
