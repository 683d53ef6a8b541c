----------------------------- MODULE Provisioning -----------------------------
(***************************************************************************)
(* _ensure_authentik_resources of the leader, one action per request to    *)
(* Authentik.  The hook first verifies the outpost it knows; it then       *)
(* updates the provider if the configuration changed, or provisions        *)
(* everything from nothing if there is nothing to verify or Authentik      *)
(* answers 404.  Both paths end in _ensure_search_authorization: the role, *)
(* its grant on the provider, and the membership of every tracked account. *)
(***************************************************************************)
EXTENDS Deployment

Known == view.provider # Nil /\ view.outpost # Nil

\* check_outpost_exists
CheckOutpost ==
  /\ pc = "check"
  /\ IF outpost = view.outpost
       THEN Go(IF view.config = config THEN "cleanup" ELSE "update", view, local)
       ELSE NotFound
  /\ UNCHANGED <<authentik, inputs, faults>>

\* update_provider_config, recorded as last_* when it is answered
UpdateProvider ==
  /\ pc = "update"
  /\ IF provider # Nil /\ provider.pk = view.provider
       THEN /\ provider' = [provider EXCEPT !.config = config]
            /\ Answer(Go("role", [view EXCEPT !.config = config], local))
       ELSE NotFound /\ UNCHANGED <<provider, faults>>
  /\ UNCHANGED <<outpost, application, role, granted, account, nextPk, era, inputs>>

-----------------------------------------------------------------------------
(* _provision_fresh_resources *)

\* Mutant of EnsureProvider: an adopted provider is taken to have its application.
EnsureProviderOnly ==
  /\ pc = "provider"
  /\ IF provider = Nil
       THEN \E pk \in ProviderPks : provider' = [pk |-> pk, config |-> config]
       ELSE provider' = [provider EXCEPT !.config = config]
  /\ Answer(Go(IF provider = Nil THEN "application" ELSE "outpost", view,
               [local EXCEPT !.provider = provider'.pk]))
  /\ UNCHANGED <<outpost, application, role, granted, account, nextPk, era, inputs>>

\* get_or_create_provider
EnsureProvider ==
  /\ pc = "provider"
  /\ IF provider = Nil
       THEN \E pk \in ProviderPks : provider' = [pk |-> pk, config |-> config]
       ELSE provider' = [provider EXCEPT !.config = config]
  /\ Answer(Go("application", view, [local EXCEPT !.provider = provider'.pk]))
  /\ UNCHANGED <<outpost, application, role, granted, account, nextPk, era, inputs>>

\* Authentik accepts a reference to a provider only while that provider exists.
ProviderExists(pk) == provider # Nil /\ provider.pk = pk

\* get_or_create_application
EnsureApplication ==
  /\ pc = "application"
  /\ IF ProviderExists(local.provider)
       THEN application' = TRUE /\ Answer(Go("outpost", view, local))
       ELSE Raise /\ UNCHANGED <<application, faults>>
  /\ UNCHANGED <<outpost, provider, role, granted, account, nextPk, era, inputs>>

\* get_or_create_outpost
EnsureOutpost ==
  /\ pc = "outpost"
  /\ IF ProviderExists(local.provider)
       THEN /\ outpost' = IF outpost = Nil THEN era ELSE outpost
            /\ Answer(Go("token", view, [local EXCEPT !.outpost = outpost']))
       ELSE Raise /\ UNCHANGED <<outpost, faults>>
  /\ UNCHANGED <<provider, application, role, granted, account, nextPk, era, inputs>>

\* get_token_key; its answer is what makes the new resources known: the databag
\* gets provider, outpost, token secret and last_* together.
ReadToken ==
  /\ pc = "token"
  /\ IF outpost = local.outpost
       THEN Go("role",
               [view EXCEPT !.provider = local.provider, !.outpost = local.outpost,
                            !.config = config],
               local)
       ELSE NotFound
  /\ UNCHANGED <<authentik, inputs, faults>>

-----------------------------------------------------------------------------
(* _ensure_search_authorization *)

\* Mutant of CachedMembers: the cache is not keyed by the role.
CachedMembersOfAnyRole(v, uuid) == v.cache.members

\* _get_role_membership: what the cache of databag v says of the role.
CachedMembers(v, uuid) == IF v.cache.role = uuid THEN v.cache.members ELSE {}

\* get_or_create_role
RoleIsThere == role' = IF role = Nil THEN era ELSE role

\* Mutant of AlreadyVerified: only the provider is compared.
AlreadyVerifiedProvider(uuid) == view.verified = view.provider

\* Assigning and verifying is skipped only if it was done for this provider
\* and for this very role.
AlreadyVerified(uuid) == view.verified = view.provider /\ view.role = uuid

EnsureRole ==
  /\ pc = "role"
  /\ RoleIsThere
  /\ LET enrolling == [local EXCEPT !.role = role', !.applied = CachedMembers(view, role')] IN
     Answer(IF AlreadyVerified(role')
              THEN Go("enroll", [view EXCEPT !.role = role'], enrolling)
              ELSE Go("grant", view, enrolling))
  /\ UNCHANGED <<outpost, provider, application, granted, account, nextPk, era, inputs>>

\* assign_provider_search_permission needs the provider and the role.
Assignable(uuid) == ProviderExists(view.provider) /\ role = uuid
Verified(v, uuid) == [v EXCEPT !.verified = v.provider, !.role = uuid]

GrantSearch ==
  /\ pc = "grant"
  /\ IF Assignable(local.role)
       THEN granted' = TRUE /\ Answer(Go("enroll", Verified(view, local.role), local))
       ELSE NotFound /\ UNCHANGED <<granted, faults>>
  /\ UNCHANGED <<outpost, provider, application, role, account, nextPk, era, inputs>>

\* add_user_to_role needs the role and the user.
CanJoinRole(uuid, pk) == role = uuid /\ account[pk] # Nil
JoinsRole(pk) == account' = [account EXCEPT ![pk].member = TRUE]

\* The active relations whose tracked account the role is not known to hold.
ToEnroll == {r \in Active : view.client[r] # Nil /\ view.client[r].pk \notin local.applied}

Enroll(r) ==
  /\ pc = "enroll"
  /\ r \in ToEnroll
  /\ LET pk == view.client[r].pk IN
     IF CanJoinRole(local.role, pk)
       THEN JoinsRole(pk) /\ Answer(Go("enroll", view, [local EXCEPT !.applied = @ \union {pk}]))
       ELSE NotFound /\ UNCHANGED <<account, faults>>
  /\ UNCHANGED <<outpost, provider, application, role, granted, nextPk, era, inputs>>

\* _set_role_membership, once every member was confirmed
Enrolled ==
  /\ pc = "enroll"
  /\ ToEnroll = {}
  /\ Go("cleanup",
        [view EXCEPT !.cache = [role |-> local.role, members |-> local.applied]],
        NoLocals)
  /\ UNCHANGED <<authentik, inputs, faults>>

Provision ==
  \/ CheckOutpost \/ UpdateProvider
  \/ EnsureProvider \/ EnsureApplication \/ EnsureOutpost \/ ReadToken
  \/ EnsureRole \/ GrantSearch \/ Enrolled
  \/ \E r \in Relations : Enroll(r)

=============================================================================
