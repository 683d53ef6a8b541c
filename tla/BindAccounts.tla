----------------------------- MODULE BindAccounts -----------------------------
(***************************************************************************)
(* _ensure_ldap_provider of the leader, one action per request to          *)
(* Authentik: the deletion of the accounts of removed relations, then for  *)
(* each consumer the creation of its bind account, or the rotation of a    *)
(* lost password and the rename and group move its requirer asks for, and  *)
(* the publication of its credentials.                                     *)
(***************************************************************************)
EXTENDS Provisioning

(* _cleanup_orphaned_relations *)

Orphans == {r \in Relations : view.client[r] # Nil /\ rel[r] # "active"}

\* Mutant of DeleteOrphan: tracking is dropped whether or not the request succeeds.
DeleteOrphanForgetting(r) ==
  /\ pc = "cleanup"
  /\ r \in Orphans
  /\ \/ account' = [account EXCEPT ![view.client[r].pk] = Nil] /\ UNCHANGED faults
     \/ faults < MaxFaults /\ faults' = faults + 1 /\ UNCHANGED account
  /\ Go("cleanup", [view EXCEPT !.client[r] = Nil], local)
  /\ UNCHANGED <<outpost, provider, application, role, granted, nextPk, era, inputs>>

\* delete_user does not fail when the user is already absent.
DeleteOrphan(r) ==
  /\ pc = "cleanup"
  /\ r \in Orphans
  /\ account' = [account EXCEPT ![view.client[r].pk] = Nil]
  /\ Answer(Go("cleanup", [view EXCEPT !.client[r] = Nil], local))
  /\ UNCHANGED <<outpost, provider, application, role, granted, nextPk, era, inputs>>

CleanedUp ==
  /\ pc = "cleanup"
  /\ Orphans = {}
  /\ BeginServing
  /\ UNCHANGED <<authentik, inputs, faults>>

-----------------------------------------------------------------------------
(* _update_ldap_relation: which step an account needs next *)

BindUserName(r, user) == <<r, Slug[user]>>

\* Mutant of MoveGroup: the group left behind keeps the account.
MoveGroupJoining(r, old) == IF old = request[r].group THEN "publish" ELSE "joinGroup"

\* _apply_group_membership from the group `old` to the one the requirer asks for
MoveGroup(r, old) ==
  CASE old = request[r].group -> "publish"
    [] old # request[r].group /\ old # NoGroup -> "leaveGroup"
    [] OTHER -> "joinGroup"

\* _reconcile_requested_identity acts only on a request that differs from the
\* one recorded last, and renames only if the account's name differs too.
ReconcileIdentity(r) ==
  LET client == view.client[r] IN
  IF request[r].user # client.user /\ BindUserName(r, request[r].user) # client.name
    THEN "rename"
    ELSE MoveGroup(r, client.group)

\* Mutant of FirstStep: a tracked account is taken to have its secret.
FirstStepTrusting(r) == IF view.client[r] = Nil THEN "create" ELSE ReconcileIdentity(r)

\* Mutant of FirstStep: a consumer whose secret is missing is skipped.
FirstStepWaiting(r) ==
  CASE view.client[r] = Nil -> "create"
    [] view.client[r] # Nil /\ secret[r] = Nil -> "serve"
    [] OTHER -> ReconcileIdentity(r)

\* get_bind_password decides between what is there and a rotation.
FirstStep(r) ==
  CASE view.client[r] = Nil -> "create"
    [] view.client[r] # Nil /\ secret[r] = Nil -> "rotate"
    [] OTHER -> ReconcileIdentity(r)

Serve(r) ==
  /\ pc = "serve"
  /\ r \in todo
  /\ cur' = r
  /\ todo' = todo \ {r}
  /\ pc' = FirstStep(r)
  /\ local' = IF view.client[r] = Nil THEN NoLocals
              ELSE [NoLocals EXCEPT !.pk = view.client[r].pk, !.name = view.client[r].name,
                                    !.password = secret[r]]
  /\ UNCHANGED <<authentik, inputs, committed, view, out, fresh, faults>>

-----------------------------------------------------------------------------
(* _provision_service_account *)

\* create_ldap_bind_user adopts the account that has the exact name.
CreateAccount ==
  /\ pc = "create"
  /\ LET name == BindUserName(cur, request[cur].user)
         same == {k \in Pks : account[k] # Nil /\ account[k].name = name}
     IN
     \/ /\ \E k \in same : Answer(Go("password", view, [local EXCEPT !.pk = k, !.name = name]))
        /\ UNCHANGED <<account, nextPk>>
     \/ /\ same = {} /\ nextPk \in Pks
        /\ account' = [account EXCEPT ![nextPk] =
                         [name |-> name, password |-> Nil, member |-> FALSE, groups |-> {}]]
        /\ nextPk' = nextPk + 1
        /\ Answer(Go("password", view, [local EXCEPT !.pk = nextPk, !.name = name]))
  /\ UNCHANGED <<outpost, provider, application, role, granted, era, inputs>>

\* A random password differs from every one in use for the relation.  Only
\* that matters, so of the unused ones the least is taken.
InUse(r) ==
  LET own == {k \in Pks : account[k] # Nil /\ account[k].name[1] = r}
  IN  {secret[r]} \union {account[k].password : k \in own}
FreshPasswords(r) ==
  LET unused == Passwords \ InUse(r) IN {p \in unused : \A q \in unused : p <= q}

\* set_user_password with a fresh password, then on to `label`
SetPassword(label) ==
  /\ IF account[local.pk] # Nil
       THEN \E p \in FreshPasswords(cur) :
              /\ account' = [account EXCEPT ![local.pk].password = p]
              /\ Answer(Go(label, view, [local EXCEPT !.password = p]))
       ELSE Raise /\ UNCHANGED <<account, faults>>
  /\ UNCHANGED <<outpost, provider, application, role, granted, nextPk, era, inputs>>

\* Mutant of Authorize: an account waits for the role of the next provisioning.
AuthorizeLater == IF view.role # Nil THEN "member" ELSE MoveGroup(cur, NoGroup)

\* The recorded role is trusted; only if none is recorded is it looked up.
Authorize ==
  IF view.role # Nil THEN "member"
  ELSE IF view.provider # Nil THEN "ownRole"
  ELSE MoveGroup(cur, NoGroup)

FirstPassword == pc = "password" /\ SetPassword(Authorize)

OwnRole ==
  /\ pc = "ownRole"
  /\ RoleIsThere
  /\ Answer(Go("ownGrant", view, [local EXCEPT !.role = role']))
  /\ UNCHANGED <<outpost, provider, application, granted, account, nextPk, era, inputs>>

OwnGrant ==
  /\ pc = "ownGrant"
  /\ IF Assignable(local.role)
       THEN granted' = TRUE /\ Answer(Go("member", Verified(view, local.role), local))
       ELSE Raise /\ UNCHANGED <<granted, faults>>
  /\ UNCHANGED <<outpost, provider, application, role, account, nextPk, era, inputs>>

JoinRole ==
  /\ pc = "member"
  /\ IF CanJoinRole(view.role, local.pk)
       THEN /\ JoinsRole(local.pk)
            /\ Answer(Go(MoveGroup(cur, NoGroup),
                         [view EXCEPT !.cache =
                            [role |-> view.role,
                             members |-> CachedMembers(view, view.role) \union {local.pk}]],
                         local))
       ELSE Raise /\ UNCHANGED <<account, faults>>
  /\ UNCHANGED <<outpost, provider, application, role, granted, nextPk, era, inputs>>

-----------------------------------------------------------------------------
(* _rotate_bind_password and _reconcile_requested_identity *)

RotatePassword == pc = "rotate" /\ SetPassword(ReconcileIdentity(cur))

NameTaken(name, pk) == \E k \in Pks \ {pk} : account[k] # Nil /\ account[k].name = name

\* find_user_by_username and rename_user; an occupied name is a permanent error
Rename ==
  /\ pc = "rename"
  /\ LET target == BindUserName(cur, request[cur].user) IN
     IF account[local.pk] # Nil /\ ~NameTaken(target, local.pk)
       THEN /\ account' = [account EXCEPT ![local.pk].name = target]
            /\ Answer(Go(MoveGroup(cur, view.client[cur].group), view,
                         [local EXCEPT !.name = target]))
       ELSE Raise /\ UNCHANGED <<account, faults>>
  /\ UNCHANGED <<outpost, provider, application, role, granted, nextPk, era, inputs>>

-----------------------------------------------------------------------------
(* _apply_group_membership: a group that does not exist is skipped *)

\* A change of the account's groups, skipped unless the group exists.
Regroup(group, groups, label) ==
  /\ CASE group \notin AuthentikGroups -> Go(label, view, local) /\ UNCHANGED <<account, faults>>
       [] group \in AuthentikGroups /\ account[local.pk] = Nil -> Raise /\ UNCHANGED <<account, faults>>
       [] OTHER -> /\ account' = [account EXCEPT ![local.pk].groups = groups]
                   /\ Answer(Go(label, view, local))
  /\ UNCHANGED <<outpost, provider, application, role, granted, nextPk, era, inputs>>

LeaveGroup ==
  /\ pc = "leaveGroup"
  /\ LET old == view.client[cur].group IN
     Regroup(old, account[local.pk].groups \ {old},
             IF request[cur].group = NoGroup THEN "publish" ELSE "joinGroup")

JoinGroup ==
  /\ pc = "joinGroup"
  /\ LET new == request[cur].group IN
     Regroup(new, account[local.pk].groups \union {new}, "publish")

-----------------------------------------------------------------------------
\* No request is left to make: the account is tracked with the request it now
\* stands for, and update_relation_data publishes its credentials.
Publish ==
  /\ pc = "publish"
  /\ pc' = "serve"
  /\ view' = [view EXCEPT !.client[cur] =
                [pk |-> local.pk, name |-> local.name,
                 user |-> request[cur].user, group |-> request[cur].group]]
  /\ out' = [out EXCEPT ![cur] =
               [name |-> local.name, config |-> config, password |-> local.password]]
  /\ cur' = Nil
  /\ local' = NoLocals
  /\ UNCHANGED <<authentik, inputs, committed, todo, fresh, faults>>

ServeConsumers ==
  \/ CleanedUp \/ CreateAccount \/ FirstPassword \/ OwnRole \/ OwnGrant \/ JoinRole
  \/ RotatePassword \/ Rename \/ LeaveGroup \/ JoinGroup \/ Publish
  \/ \E r \in Relations : DeleteOrphan(r) \/ Serve(r)

=============================================================================
