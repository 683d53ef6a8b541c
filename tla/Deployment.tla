------------------------------ MODULE Deployment ------------------------------
(***************************************************************************)
(* The state the reconciliation of the authentik-ldap charm works on, and  *)
(* how a hook of the acting (leader) unit starts, fails and ends.          *)
(*                                                                         *)
(* Three stores meet in a hook and none is updated together with another:  *)
(*   - Authentik's database, changed at once by every HTTP request;        *)
(*   - what Juju keeps for the application: the peer databag, the bind     *)
(*     secrets and the data published on each ldap relation.  Writes made  *)
(*     in a hook are buffered, and kept only if the hook ends normally;    *)
(*   - the locals of the hook.                                             *)
(* Every CharmError is caught in _holistic_handler, so a hook that fails   *)
(* half-way ends normally and its partial writes ARE kept; a crash loses   *)
(* them, but never what Authentik already did.                             *)
(***************************************************************************)
EXTENDS Naturals

CONSTANTS
  Relations,        \* ldap relation ids; Juju never reuses one
  Users,            \* values of the requirer's `user` field
  Slug,             \* Users -> what _bind_user_name keeps of a requested user
  Groups,           \* values of the requirer's `group` field
  NoGroup,          \* the empty group
  AuthentikGroups,  \* groups that exist on Authentik (never created here)
  Configs,          \* values of <<base_dn, search_mode, bind_mode, mfa_support>>
  ProviderPks,      \* provider primary keys; a new database may repeat one
  Passwords,        \* random passwords (only their equality matters)
  MaxPk,            \* bound: user primary keys per database
  MaxFaults,        \* bound: failed requests, lost answers, crashes, lost secrets
  MaxChanges,       \* bound: changes of a request or of the configuration
  MaxLosses,        \* bound: losses on the Authentik side
  Losses,           \* which of "database", "outpost", "role" may be lost
  Nil               \* Python's None, an absent key or row

Pks == 1..MaxPk
Slugs == {Slug[u] : u \in Users}
Names == Relations \X Slugs

ASSUME SlugAssumption == Slug \in [Users -> Slugs]
ASSUME GroupAssumption == NoGroup \in Groups /\ AuthentikGroups \subseteq Groups \ {NoGroup}
ASSUME PasswordAssumption == Passwords \subseteq Nat
ASSUME BoundAssumption ==
  /\ MaxPk \in Nat /\ MaxFaults \in Nat /\ MaxChanges \in Nat /\ MaxLosses \in Nat
  /\ Losses \subseteq {"database", "outpost", "role"}
VARIABLES
  \* Authentik's database.  UUIDs of outposts and roles are the era they were
  \* made in, and every loss opens a new era, so a UUID never comes back.
  outpost, provider, application, role, granted, account, nextPk, era,
  \* Juju: what the operator and the requirers set
  rel, request, config,
  \* Juju: what the charm has committed
  peer, secret, published,
  \* the running hook
  pc, view, out, todo, cur, local, fresh,
  \* what is left of the bounds
  faults, changes

authentik == <<outpost, provider, application, role, granted, account, nextPk, era>>
inputs == <<rel, request, config, changes>>
committed == <<peer, secret, published>>
hook == <<pc, view, out, todo, cur, local, fresh>>
vars == <<authentik, inputs, committed, hook, faults>>

Maybe(S) == S \union {Nil}

Requests == [user : Users, group : Groups]
Provider == [pk : ProviderPks, config : Configs]
Account ==
  [name : Names, password : Maybe(Passwords), member : BOOLEAN, groups : SUBSET AuthentikGroups]
Client == [pk : Pks, name : Names, user : Users, group : Groups]

\* The application databag of the peer relation.  The outpost token secret is
\* written with "outpost" and never without it.
PeerData ==
  [provider : Maybe(ProviderPks), outpost : Maybe(Nat), config : Maybe(Configs),
   role : Maybe(Nat), verified : Maybe(ProviderPks),
   cache : [role : Maybe(Nat), members : SUBSET Pks],
   client : [Relations -> Maybe(Client)]]

BindData == [name : Names, config : Configs]
Output == [name : Names, config : Configs, password : Passwords]
Locals ==
  [provider : Maybe(ProviderPks), outpost : Maybe(Nat), role : Maybe(Nat),
   applied : SUBSET Pks, pk : Maybe(Pks), name : Maybe(Names), password : Maybe(Passwords)]

ASSUME NilAssumption ==
  /\ Nil \notin Nat /\ Nil \notin Relations /\ Nil \notin ProviderPks
  /\ Nil \notin Provider /\ Nil \notin Account /\ Nil \notin Client /\ Nil \notin Output

EnsureSteps == {"check", "update", "role", "grant", "enroll"}
FreshSteps == {"provider", "application", "outpost", "token"}
AccountSteps ==
  {"create", "password", "ownRole", "ownGrant", "member", "rotate", "rename", "leaveGroup",
   "joinGroup"}
RequestSteps == EnsureSteps \union FreshSteps \union AccountSteps \union {"cleanup"}
Steps == RequestSteps \union {"idle", "serve", "publish"}
ConsumerSteps == AccountSteps \union {"publish"}

DatabaseTypeOK ==
  /\ outpost \in Maybe(Nat)
  /\ provider \in Maybe(Provider)
  /\ application \in BOOLEAN
  /\ role \in Maybe(Nat)
  /\ granted \in BOOLEAN
  /\ account \in [Pks -> Maybe(Account)]
  /\ nextPk \in Nat \ {0}
  /\ era \in Nat

InputsTypeOK ==
  /\ rel \in [Relations -> {"new", "active", "gone"}]
  /\ request \in [Relations -> Requests]
  /\ config \in Configs
  /\ changes \in 0..MaxChanges

CommittedTypeOK ==
  /\ peer \in PeerData
  /\ secret \in [Relations -> Maybe(Passwords)]
  /\ published \in [Relations -> Maybe(BindData)]

HookTypeOK ==
  /\ pc \in Steps
  /\ view \in PeerData
  /\ out \in [Relations -> Maybe(Output)]
  /\ todo \subseteq Relations
  /\ cur \in Maybe(Relations)
  /\ local \in Locals
  /\ fresh \in BOOLEAN

\* The locals a step of _update_ldap_relation reads have been set.
LocalsInUse ==
  /\ pc \in ConsumerSteps => cur \in Relations
  /\ pc \in ConsumerSteps \ {"create"} => local.pk \in Pks /\ local.name \in Names
  /\ pc \in ConsumerSteps \ {"create", "password", "rotate"} => local.password \in Passwords

\* Every store has its type, and a step that reads a local finds it set: a consumer is
\* never published without an account and a password.
TypeOK ==
  /\ DatabaseTypeOK
  /\ InputsTypeOK
  /\ CommittedTypeOK
  /\ HookTypeOK
  /\ LocalsInUse
  /\ faults \in 0..MaxFaults

-----------------------------------------------------------------------------
(* Initially nothing is provisioned and no consumer is related. *)

NoLocals ==
  [provider |-> Nil, outpost |-> Nil, role |-> Nil, applied |-> {}, pk |-> Nil, name |-> Nil,
   password |-> Nil]
NoOutput == [r \in Relations |-> Nil]
NoClients == [r \in Relations |-> Nil]
EmptyPeer ==
  [provider |-> Nil, outpost |-> Nil, config |-> Nil, role |-> Nil, verified |-> Nil,
   cache |-> [role |-> Nil, members |-> {}], client |-> NoClients]

Init ==
  /\ outpost = Nil /\ provider = Nil /\ application = FALSE
  /\ role = Nil /\ granted = FALSE
  /\ account = [k \in Pks |-> Nil] /\ nextPk = 1 /\ era = 0
  /\ rel = [r \in Relations |-> "new"]
  /\ request \in [Relations -> Requests]
  /\ config \in Configs
  /\ peer = EmptyPeer
  /\ secret = [r \in Relations |-> Nil]
  /\ published = [r \in Relations |-> Nil]
  /\ pc = "idle" /\ view = EmptyPeer /\ out = NoOutput /\ todo = {} /\ cur = Nil
  /\ local = NoLocals /\ fresh = FALSE
  /\ faults = 0 /\ changes = 0

-----------------------------------------------------------------------------
(* How a step of the hook continues, and how the hook ends. *)

Active == {r \in Relations : rel[r] = "active"}

\* Go on to the step `label` with the databag v and the locals l.
Go(label, v, l) ==
  /\ pc' = label
  /\ view' = v
  /\ local' = l
  /\ UNCHANGED <<out, todo, cur, fresh, committed>>

EndHook ==
  /\ pc' = "idle"
  /\ out' = NoOutput
  /\ todo' = {}
  /\ cur' = Nil
  /\ local' = NoLocals
  /\ fresh' = FALSE

\* The hook ends normally: Juju keeps the buffered databag, secrets and
\* relation data.
Commit ==
  /\ EndHook
  /\ peer' = view
  /\ secret' = [r \in Relations |-> IF out[r] = Nil THEN secret[r] ELSE out[r].password]
  /\ published' =
       [r \in Relations |-> IF out[r] = Nil THEN published[r]
                            ELSE [name |-> out[r].name, config |-> out[r].config]]
  /\ UNCHANGED view

\* _ensure_ldap_provider turns to the consumers once cleanup ended or failed.
BeginServing ==
  /\ pc' = "serve"
  /\ todo' = Active
  /\ local' = NoLocals
  /\ fresh' = FALSE
  /\ UNCHANGED <<view, out, cur, committed>>

\* A CharmError: an error of the orphan cleanup is caught and serving goes on,
\* any other one makes _holistic_handler skip the remaining steps.
Raise == IF pc = "cleanup" THEN BeginServing ELSE Commit

\* Mutant of Reprovision: the tracked accounts are kept.
ReprovisionKeepingAccounts ==
  /\ pc' = "provider"
  /\ fresh' = TRUE
  /\ local' = NoLocals
  /\ UNCHANGED <<view, out, todo, cur, committed>>

\* Forget every tracked account, then provision from nothing.
Reprovision ==
  /\ pc' = "provider"
  /\ fresh' = TRUE
  /\ view' = [view EXCEPT !.client = NoClients]
  /\ local' = NoLocals
  /\ UNCHANGED <<out, todo, cur, committed>>

\* HTTP 404.  Only _verify_and_update_existing_resources catches it.
NotFound == IF pc \in EnsureSteps /\ ~fresh THEN Reprovision ELSE Raise

\* What follows a request Authentik carried out: the hook goes on as `answered`
\* says, or the answer is lost (and the retries fail), which raises.
Answer(answered) ==
  \/ answered /\ UNCHANGED faults
  \/ faults < MaxFaults /\ faults' = faults + 1 /\ Raise

=============================================================================
