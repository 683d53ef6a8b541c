# Verification of the authentik-ldap outpost operator

This project models the `authentik-ldap-outpost` charm: its reconciliation of Authentik, the
API client, the workload and its status, and the charm libraries it uses to talk to other
applications. TLC checks the models on small instances; the central invariants and one
refinement are proved with TLAPS for every instance. File and line references are to the
repository; `charm.py`, `api_client.py`, `services.py` and `integrations.py` are under
`src/src/`, the libraries under `src/lib/charms/`.

## 1. The system

The charm runs LDAP outposts for an Authentik server. One unit, the Juju leader, drives
Authentik over HTTP; every hook runs the same handler (`_holistic_handler`), which reads
what Juju shows it, compares it with what the peer databag remembers, and repairs the
difference with requests that take effect one at a time. Nothing is transactional across
the three stores the handler touches:

| store | changes when | survives |
|---|---|---|
| Authentik's database | at once, with each request | crashes of the charm; may itself be lost |
| peer databag, bind secrets, relation data | when the hook ends normally | crashes of the charm (as of the last committed hook) |
| locals of the hook | as the code runs | nothing |

A `CharmError` is caught in `_holistic_handler` (702), so a hook that fails half-way ends
*normally* and its partial writes are kept. A crash loses the writes and keeps what
Authentik already did. Most of the hard behaviour comes from these two facts.

### Inventory

| component | state | operations | hard behaviour | what makes it correct |
|---|---|---|---|---|
| Hook reconciliation (`charm.py` 120-154, 689-712) | databag, buffered writes | run the steps, catch, commit | partial commits, crashes | every hook resumes what an earlier one left |
| Resource provisioning (`charm.py` 372-602, `api_client.py` 312-494, 546-686) | provider, application, outpost, role, grant; `provider_pk`, `outpost_uuid`, `last_*`, `search_*` keys | verify, update, provision, authorize | cut anywhere; stale caches after a loss; 404 as a signal | a known outpost is complete; caches never claim more than Authentik holds |
| Bind accounts (`charm.py` 604-668, 767-955, `api_client.py` 496-599, 688-740) | accounts, memberships, groups; `client_<id>` records, bind secrets, published data | create/adopt, rotate, rename, move group, delete orphans, publish | password set before it is published; account made before it is tracked; primary keys repeated by a new database | published credentials work and may search; no account is forgotten; nobody else's account is touched |
| Outpost token (`charm.py` 297-350) | app secret, its revisions, its id in the databag | store, resolve, peek | owner and followers see revisions at different times; the hook that stores it may be refused | every unit ends with the token its server has |
| Leadership | who leads | leader-elected | moves between hooks and under a running one, whose writes are void while its effects stay | what one leader left half done the next one repairs |
| API requests (`api_client.py` 97-208) | attempts, pages | retry, classify, paginate | a retried POST whose first attempt worked or arrives later; page cap; a list that grows while it is read | only transient errors are repeated, and no repetition shows on Authentik |
| Bind flow (`api_client.py` 231-310) | flow, stage bindings, shared by deployments | get or create, repair bindings | deployments race; blueprints come late | never a flow without its stages in use |
| Traefik route (`integrations.py` 149-226, `traefik_route.py`) | route, stored host and scheme per unit | submit, remember, publish URLs | what is stored outlives what it describes | every URL told to consumers is served |
| Workload and status (`services.py`, `charm.py` 714-744) | Pebble plan, service, check, changes | plan, replan, start, status | a failed start is visible only in the latest change; restarts wipe everything | active only if the outpost runs with what it should |
| Server info (`authentik_server_info.py`) | relation data, a secret, the revision each unit tracks | publish, rotate, read | tracked revisions | a server's token is refused only after it was replaced |
| Log forwarding (`loki_push_api.py`) | log targets in Pebble's plan | disable, enable | relations that are only partly ready; restarts; Pebble not answering half-way | logs go to the Loki units that can take them |
| Resource patch (`kubernetes_compute_resources_patch.py`) | the StatefulSet's template | validate, patch, dry run, status | the patch kills the hook that made it; a controller at work is misread | limits can be scheduled and come into effect; active means in effect |
| Tracing, metrics, dashboards (`tracing.py`, `prometheus_scrape.py`, `grafana_dashboard.py`) | relation data; dashboards stored per unit | request, publish, send | pods that move, revisions that are mixed, leadership that moves | the other side sees what there is now |
| Environment rendering, packaging | none of their own | formatting, wiring | - | - |

Interactions: relations, requests and configuration reach a hook as one snapshot Juju
takes when it starts; provisioning hands the role and provider to account creation only
through the databag (`search_role_uuid`, `provider_pk`, `search_role_members`); a 404
while verifying makes provisioning drop the `client_<id>` records (492), which is how a
loss reaches the accounts. Pebble holds nothing across a restart of the container and
Kubernetes gives a new pod another address; the other applications act on relation data when
Juju tells them.

## 2. Modules

Four models, each a composition of component modules that share a base of variables.

| model | module | models |
|---|---|---|
| accounts | `Deployment` | the constants and their assumptions, all variables and types, `Init`, and how a hook continues (`Go`), raises (`Raise`, `NotFound`), starts over (`Reprovision`), turns to the consumers (`BeginServing`) and ends (`Commit`, `EndHook`) |
| | `Provisioning` | one action per request of `_ensure_authentik_resources` |
| | `BindAccounts` | one action per request of `_ensure_ldap_provider` |
| | `Reconcile`, `MCReconcile` | the hooks one after another, failures, losses, requirers and the operator; the specifications and properties; the instances TLC checks |
| | `ReconcileProofs`, `AuthorizationProofs`, `OutpostProofs` | type correctness; soundness of the two authorization caches; what a known outpost comes with |
| | `AccountProofs`, `TrackingProofs` | whose accounts a hook acts on; that accounts stay tracked, usable and, once published, authorized |
| bind flow | `SharedFlow` | what `get_or_create_ldap_bind_flow` promises to all deployments that share an Authentik |
| | `ApiRequest` | attempts of one request, error classes, surrender |
| | `BindFlow`, `MCBindFlow` | `get_or_create_provider` request by request for several deployments; implements `SharedFlow` |
| | `BindFlowProofs` | types, the flow behind every provider, why hooks give up, and the refinement |
| pod | `Container` | variables of one unit, its hooks, its container and its StatefulSet |
| | `Workload` | guards, plan, start, exits, check and collect-status |
| | `LogForwarding` | the log targets |
| | `ResourcePatch` | limits, patch, status and Kubernetes' rollout |
| | `Pod`, `MCPod` | one unit with all of these |
| | `PodProofs` | types and all safety properties of the unit |
| application | `JujuUnits` | units, leadership, pending events and hooks to run again |
| | `ServerInfo`, `OutpostToken`, `TraefikRoute`, `Tracing`, `Scraping`, `Dashboards` | one integration each, with the other application's side |
| | `Application`, `MCApplication` | whole hooks of all units over all integrations |
| | `ApplicationProofs` | types, the server's API token, and all that is said of settled units |

State and code of the accounts model:

- `outpost`, `provider`, `application`, `role`, `granted`, `account` are rows of Authentik's
  database. UUIDs of outposts and roles are the *era* they were made in; every loss opens a
  new era, so a UUID never comes back. Integer primary keys of accounts restart in a new
  database, and a new provider may get an old primary key: both are the case in Authentik.
- `peer` is the committed databag, `view` the databag as the running hook sees it (its own
  writes included), `out` the buffered secrets and relation data, `secret` and `published`
  the committed ones. `Commit` moves one to the other; `Crash` falls back.
- `pc` names the next request of the hook, `local` its local variables, `fresh` that it is
  in `_provision_fresh_resources`, where a 404 is not caught, `todo` the consumers still to
  serve and `cur` the one being served.
- Every request has three outcomes: done and answered, done with the answer lost after the
  retries (`Answer`), not done (`RequestFails`). Lookups that precede a write in the same
  helper (`get_or_create_*`, `find_user_by_username`) are one action with it: the acting
  leader is the only one to create or rename these names.

Abstractions there: names are a pair of a relation and the part of the requested user that
`_bind_user_name` keeps (`Slug`, two users may share one); a configuration is one value;
passwords are numbers of which only equality matters, so a fresh one is the least not in
use; an outpost's and an application's provider is not recorded, as neither outlives it.
The order in which consumers are served, enrolled and cleaned up is left open.

The other models:

- *Bind flow.* What `Provisioning` takes as the one action `EnsureProvider` is here a sequence
  of requests. Each attempt of a write may be lost, carried out without an answer, or put into
  `late`, from where it is carried out at any time, while its client repeats it or long after.
  `page` and `seen` are the loop of `_request_all`; `pages` is fixed, so a list does not grow
  past its last page, but what is on the pages does. `before` records what was applied when the
  list was begun, for `UnreadyOnlyIfMissing` only.
- *Pod.* `pc` is the next handler of a hook. The order of the handlers of one event is that in
  which `__init__` observes them (`FirstStep`). `seen` is the snapshot the hook reads, `inputs`
  what relations and options are meanwhile. The steps before the plan are one outcome (`NoPlan`
  or `AddLayer`), as `Reconcile` has their detail. An environment is one value, or `Blank`.
  An ldap consumer is taken to be related, without which a service that does not run is
  reported as blocked. Quantities of resources are in thousandths, so that memory can have a
  fraction of a byte. A StatefulSet's revision is named by its template, as Kubernetes reuses a
  revision with the same template.
- *Application.* A hook is one step, because Juju shows it one snapshot and commits its writes
  at its end; `HookRefused` is the one that loses the lease in between: what it did on Authentik,
  in Pebble and in stored state (which ops commits first) remains, the rest is void and the hook
  runs again. A new pod has another address and an empty plan. `Restart` tells its unit with
  `pebble-ready` or not at all, as a pod that is rescheduled may come back
  (`prometheus_scrape.py` 1634-1641); then only `update-status` repairs what is stale. That
  event is then kept in `pending` although it comes anyway, so that `Settled` can tell when it
  has come. Servers, tokens, addresses, Tempos and revisions are numbered in order.
  A behaviour has one `focus`, the integration whose other side changes, combined with moves of
  leadership and failed calls: integrations meet in the hook, in leadership and in failures, which
  all are there for each focus. Pod and Application have no variable in common; what a unit plans
  is in detail in one and its value in the other.

Definitions whose comment begins with "Mutant of" are faulty variants of the definition
that follows, which show that a property can fail.

## 3. Runs

Bounds are constants spent by guards: `MaxFaults` counts failed requests, lost answers, crashes,
lost secrets and whatever else fails, `MaxLosses` losses on the Authentik side, `MaxChanges`
changes of a request, an option or the other side of a relation, `MaxPk` accounts per database,
`MaxMoves` losses of leadership. `CHECK_DEADLOCK` is never off: a hook can always start.

| run | instance | shows |
|---|---|---|
| `losses` | 2 consumers, 2 configurations, 2 faults, 1 change, 1 loss of any kind; symmetric in consumers and configurations | `TypeOK`, `GrantCacheSound`, `RoleCacheSound`, `KnownOutpostIsComplete`, `TrackedAccountIsUsable`, `ActsOnOwnAccounts` |
| `identity` | 1 consumer, 2 users, 2 groups, 2 faults, 2 changes, 1 lost database or outpost | `PublishedIsAuthorized`, `TrackingKeptUntilGone` |
| `serving` | 2 consumers, 2 faults, 1 change, fair | `EventuallyServed`, `OrphansDeleted` |
| `recovery` | 1 consumer, 3 users of which 2 share a name, 2 groups, 2 database losses, 1 change, fair | `EventuallyServed`, `RequestsHonoured` |
| `bind_flow` | 2 deployments, 2 stages on different pages, 2 attempts, 2 faults, up to 3 pages of which 3 are one too many, fair | `TypeOK`, `ProviderAuthenticates`, `KeepsPromise` (refinement of `SharedFlow`), `UnreadyOnlyIfMissing`, `EventuallyProvided` |
| `pod` | 2 pods, 3 Loki units in 2 relations, 4 settings of the resource options, 1 fault, 2 changes of one kind of input, fair | `TypeOK`, `NeverPlannedBlank`, `FailedStartReported`, `TargetsCurrent`, `TemplateSchedulable`, `ActiveMeansInEffect`, `EventuallyServes`, `LimitsTakeEffect` |
| `application` | 2 units, per focus up to 3 changes, 2 moves and 1 fault, fair | `TypeOK`, `RefusedOnlyAfterRotation`, `TokensAgree`, `LeaderPlansCurrentToken`, `UrlsServed`, `TracesFollowTempo`, `ScrapedWhereTheyAre`, `DashboardsOfTheLeader`, `EventuallyConsistent` |

Two faults let a failure meet the recovery from another; one loss at any step reaches every
pair of a stale local or databag value and the new era; two consumers are needed for a
primary key to pass from one to another. `MaxPk` exceeds the accounts these bounds can
create in `Losses` and `Identity`. In the fair runs a hook that needs an account beyond
`MaxPk` would be stuck; none does, as `EventuallyServed` holds.

In `bind_flow` two deployments are enough for a race, whose third party would only repeat one of
the two, and two stages for a flow that is half bound; two attempts and two faults let a write be
given up, arrive late and meet another one. `pages` starts anywhere from the last stage's page to
the cap. In `pod` one peer shows a rollout that is half done; two units in one Loki relation show
a relation that is not ready and a third one endpoints that remain; one fault is enough to meet
each change, and two changes put an input back. In `application` the leader and one follower change
places; three changes let an integration come, change or go, and come again; an address at Traefik
with each scheme, one of them behind a domain.

`KnownOutpostIsComplete`, `TrackedAccountIsUsable` and `PublishedNameIsReal` speak of states
in which the outpost the charm knows still exists: until a hook has noticed a loss nothing
can be expected of the databag. `TrackedAccountIsUsable` is not expected to survive the
deletion of the role *and* of another resource (see the limits below).

Premises of the others: `FailedStartReported`, `TargetsCurrent` and those of `application` speak of
moments when no event is waiting (`Settled`), for Juju tells a unit of a change some time after it.
`TokensAgree` excepts an outpost lost on the server and an API token replaced there, of which
nobody tells the charm; `EventuallyConsistent` repairs the former. A unit whose pod came back
silently is not settled before its `update-status`: until then Prometheus scrapes a dead address,
and its plan is empty. `ScrapedWhereTheyAre` is about what is there afterwards, and
`EventuallyConsistent` has that it comes to that, by `update-status` alone. `UrlsServed`,
`TracesFollowTempo` and the others are stated for behaviours without failed calls, and
`EventuallyConsistent` for all.

Fairness: in the accounts model `FairSpec` asks for weak fairness of `StartHook` (Juju dispatches `update-status`
periodically, `charm.py` 125) and of `HookStep` (a hook that runs goes on). Nothing is asked
of requirers, the operator or failures, which are bounded. In `BindFlow` it asks the same of each
deployment, and that Authentik applies each blueprint; late writes need not arrive. In `Pod` hooks
start and go on, and the StatefulSet controller and Pebble do their work (backoff, checks, readiness).
In `Application` each unit runs a hook that is due, which `update-status` always is; the other
applications handle what they are told; and Juju elects a leader when there is none.

### Where the code and its documents differ

| run | property | what happens |
|---|---|---|
| `OrphanTracking` | `OrphanDeletionIsResumable` | the outpost alone is deleted: the hook treats every tracked account as lost (492) and forgets an orphan whose account still exists |
| `Leak` | `NoLeakedAccount` | an account is created (861), a later request fails before it is tracked (891), the relation goes: the account stays |
| `Revert` | `PublishedNameIsReal` | renamed (940), not recorded (946), request taken back: the early return (928) keeps publishing a bind DN no account has |
| `ConfigDrift` | `ConfigIsReconciled` | an update whose answer is lost is in effect but not in `last_*`: taking the configuration back is taken for no change (578) |
| `Stuck` | `EventuallyServed` | after a database loss, a failure between recording the outpost (533-536) and the role (539): the next hooks verify the outpost, skip the authorization and trust the lost role (869) for ever |

`PROJECT.json` quotes the documents. `EventuallyServed` holds when a loss and a failed
request do not meet (`Serving`, `Recovery`); `Stuck` is the smallest instance in which they do.

## 4. Proofs

`ReconcileProofs`: `TypeCorrect == Spec => []TypeOK`. The types alone are not inductive:
a step of `_update_ldap_relation` reads locals an earlier one set. `LocalsInUse` is therefore
part of `TypeOK`, and each action shows that the step it goes on to finds its locals.

`AuthorizationProofs`: `GrantCacheIsSound` and `RoleCacheIsSound`. The skipped
`assign_provider_search_permission` (392) and the skipped `add_user_to_role` (402) are never
missing on a role that exists, for any number of consumers, faults and losses. The inductive
invariant `AuthInv` adds what both rest on:

- `Old`: no role made from now on can have a UUID the databag or the locals hold;
- `PksGivenOut` and the first part of `Members`: the members a cache claims have keys that
  were given out, so an account made later is not among them;
- `GoodLocals`: between the first enrolment and the write of the cache, the confirmed
  members are claimed by a local of the hook.

The proof separates what a step does to Authentik (`Quiet`: it keeps the role and its
members, makes a role nobody knows yet, or loses the role) from what it writes (`AuthKept`,
`CachesKept`, `NoClaim`), and then goes through the actions. Assumptions: those named in
`Deployment`, which TLC evaluates in every run. Mutating `AlreadyVerified` or `CachedMembers`
breaks the steps `EnsureRoleKeeps` and `JoinRoleKeeps`.

`BindFlowProofs`: `BindFlowTypeCorrect`, `ProvidersAuthenticate` and `BindFlowKeepsPromise ==
Spec => KeepsPromise`, for any number of deployments, stages, pages, attempts and faults. The
refinement needs to know, at each write, what the hook that sent it had found: that the flow is
there, that the stages of a binding are applied, that nothing is missing when a provider is
created. None of that is in the types. The inductive invariant adds what a hook has `Ensured` when
it is at a step, and to what each write in `late` is `Entitled`; both are kept because Authentik's
side only grows (`Grows`). With that each
step on Authentik is a step of `SharedFlow` or, for a write that is refused, repeated or already
there, a stutter.

`HooksGiveUpForAReason == Spec => UnreadyOnlyIfMissing` adds to that invariant what a hook that
reads the list has seen of it: every stage that was applied when it began and stands on a page
that it has passed. A stage on a later page cannot be missed, for the hook gives up on the last page only.

`OutpostProofs`: `KnownOutpostsAreComplete == Spec => []KnownOutpostIsComplete`, for any losses and
failures. The databag's outpost and provider come from two requests, with others, crashes and
losses between them. `OutpostInv` has the order of the requests (an outpost that exists implies its
application and provider), says of every outpost that databag, view or locals hold that no later
one can be it (`Held`), and that if it is still there it is with the provider beside it (`With`).
Most steps either continue from what is known (`HookKept`) on an unchanged Authentik
(`ServerKept`), or raise; four are left to look at.

`PodProofs`: the type invariant and every safety property of the pod model, for any pods, Loki units,
relations, options and inputs. `TemplatesAreSchedulable` is arithmetic about `WholeBytes` and
`Limit`, and `BlankIsNeverPlanned` a matter of what a step of the plan can write. The reports and the
log targets speak of a unit at rest, so `StatusInv` and `ForwardInv` say what a hook on its way must
know: with no event pending it sees the inputs as they are, and between the two calls on log targets
none is on that should be off. `ActiveIsInEffect` needs that a controller that has observed the
template rolls that one out (`Observed`). Assumptions: `PodAssumption`, `EventsAssumption` (a Loki
relation is none of the other events), `InputsAssumption`, `RequestsAssumption` (the charm requests
whole bytes) and `UsualAssumption`.

`AccountProofs` and `TrackingProofs` follow one consumer's account through the hooks. Their
invariants are stacked, each proved from those below it, and a step is looked at only where it
touches what the invariant speaks of; everything else is summed up once, as what a hook moves
(`Moves`), what it leaves alone (`Mild`) and what the other sides may do.

- `OwnAccountsOnly == Spec => ActsOnOwnAccounts`, for any failures and losses. `HookInv` is the
  bookkeeping of a hook, with nothing about Authentik in it: a databag with an account has an
  outpost, the account bears its relation's name, and what the locals hold at each request (whom the
  hook serves, what it has read). `OwnInv` relates it to Authentik. A databag is right about accounts
  only while its outpost is the live one (`Current`); then a tracked account, if it exists, is the
  one of its relation. A hook that has verified the outpost goes on knowing that, unless the database is lost under it: then
  there are no accounts but one it may be making, and it fails before that one has joined a
  role (`AfterLoss`). A primary key of a former database is therefore never acted on in the next one.
- `TrackingIsKept == Spec /\ RoleStaysInHand => TrackingKeptUntilGone`. A hook that gets a 404 from
  `add_user_to_role` or for the grant takes its outpost for lost, provisions anew and forgets every
  record (`Reprovision`). `KeptInv` has why a 404 means what the charm takes it for: a running hook
  tracks what was tracked but for accounts it saw deleted (`Kept`, `Exist`), so every member it
  enrols exists; the outpost it verified is the committed one (`SameOutpost`); and the role it holds is
  the one that exists (`RoleInHand`).
- `TrackedAccountsAreUsable == Spec /\ RoleStaysInHand => []TrackedAccountIsUsable`. `SecretInv` relates
  the password of the account, the one in the bind secret and the one a hook is about to
  publish, request by request: the three are written by different calls, and a rotation that is cut
  in half must leave no secret that is trusted.
- `PublishedAreAuthorized == Spec => []PublishedIsAuthorized`, with `"role" \notin Losses`.
  `AuthorizedInv` has that whoever can be let in by a secret, or by what a hook is about to publish,
  is a member of a role with the grant (`SecretsAuthorized`, `OutAuthorized`), that the accounts a
  verified hook tracks are (`VerifiedSearch`), and that a new account is the only one with its
  password until it is (`OnlyServed`, `ServedAuthorized`).

`RoleStaysInHand` says that nobody deletes the role between a hook's finding it and its last use of it
(the steps `grant` and `enroll`); it may be deleted any number of times at every other step. It is
needed: a role deleted twice, once before a change of the configuration and once while the hook
of that change runs, ends in the 404 above with the outpost and the accounts still there, and the
records of all are dropped. TLC shows that behaviour in the instance of `losses` with
`TrackingKeptUntilGone` for `MaxLosses = 2` and `Losses = {"role"}`, and none for one deletion.
`PublishedAreAuthorized` needs the stronger hypothesis, as one deletion takes membership and
grant from published accounts at once, and the charm repairs it only when its configuration changes
(it is a limit, below). A lost database takes the role along and is covered everywhere.

`ApplicationProofs`: every invariant and safety property of the application model, for any units,
bounds, options and addresses, and any moves of leadership, refused and raising hooks.
`RefusalsFollowRotations` and `LeadersPlanCurrentTokens` reduce a hook of any outcome and a step of
the surroundings to what they do to the tokens (`HookEffect`, `OtherEffect`). `TokenInv` has that no
unit has read the secret of a later server or a later revision than there is, and that an outpost
and its token are recorded together, for a leader that does not provision plans what is recorded.

The theorems about settled units rest on the events that are pending. Each invariant says for one
integration that a unit (or the leader) which has no event of a certain set to see has written
what is current; `EventsWait` and `LeaderStays` are the lemmas that no step but a hook takes such an
event away and that a new leader has `leader-elected` to see, and `HookPlans` that a hook which
takes one away plans. With them only the steps of the integration itself are left:
`AgreeInv` (`UnitsAgreeOnTokens`): a leader that has handled its election knows the outpost of its
server, and then every unit without a `peer`, `pebble-ready` or awaited `update-status` event has planned
its token; a token
minted in a refused hook is never the recorded one (`NewToken`).
`IngressInv` (`AdvertisedUrlsAreServed`): the stored host of a former relation is gone once
`traefik-broken` has been handled, although `traefik` may be handled before it; a leader without
such events has published Traefik's own address and submitted the route of the options.
`TraceInv` (`TracesAreFollowed`), `ScrapeInv` (`UnitsAreScraped`) and `DashInv`
(`LeadersDashboardsAreShown`) say the same of endpoints, addresses and dashboards; in `ScrapeInv`
the events are `metrics-joined`, `pebble-ready` and, for a pod that came back silently, `update-status`.
`ServingInv` has that outside the behaviours about server and token every call is accepted.
`ApplicationTypeCorrect` bounds what is numbered by the number of changes (`TokenCounts`): the only
one that is not immediate is that a token is minted for a server without one. Assumptions:
`UnitAssumption` and `RouteAssumption` (the options by default, and no host that is called like
the two words for its absence).

Only model-checked: `TrackedAccountIsUsable` when one deletion of the role hits the hook that has just found it (run
`losses`); and everything about liveness
(`EventuallyServed`, `OrphansDeleted`, `RequestsHonoured`, `EventuallyProvided`, `EventuallyServes`,
`LimitsTakeEffect`, `EventuallyConsistent`), which is out of the prover's reach. All other
properties of passing runs are theorems.

## 5. Limits

Of the models:

- The accounts of consumers are modelled with one leader; the application model, in which
  leadership moves, has one consumer that is provisioned, and none of its account.
- Groups neither appear nor disappear. A group created after the request was recorded is
  never joined by the code (928), and an account adopted after the loss of the outpost keeps
  groups of an earlier request: known, not stated as properties.
- A role deleted by an administrator while nothing else changes leaves published accounts
  without search and *new* consumers unserved until the configuration changes (869-878), and two
  deletions of the role can make a 404 of the grant or of `add_user_to_role` drop the records of
  accounts that exist. `losses` has one loss; fair runs have no lost role.
- Authentik's data is otherwise touched by the charm only; accounts of the charm's names made
  by others are not modelled, so `Rename` meets an occupied name only among the consumer's own.
- A hook of the application model is one step. That of the pod model is not, but it has one
  unit. Secrets are readable once their id is: the label is a fallback for the same secret.
- When `prometheus_scrape.py` sees another `relation-changed` (1643-1647), it sets the address as
  well; the model waits for `update-status`. Prometheus is there in the behaviours with `focus` on
  metrics only, and so are restarts; an upgrade's pod matters to the plan.
- `services.py` takes a Pebble that cannot be read for a service without a failed change (115-116,
  126-127, 141-142, 158-159). The pod model has Pebble readable whenever it is up, so
  `FailedStartReported` does not speak of an error between two reads of `collect-status`.
- A follower that has no token yet reads the server's secret in the application model although its
  steps would end before (701), which can only make what it tracks older.
- `identity` has one consumer: that no failure makes the charm forget another's account is the
  theorem `TrackingIsKept` alone.
- Formatting, alert rules, the contents of dashboards, and the parts of the libraries this
  charm does not call are not modelled, nor are packaging and Terraform.

Of the code, met while modelling. Each either is outside the premises of a property, as said
there, or is repaired later and then covered by `EventuallyConsistent` or `EventuallyServes`:

- `LogForwarder._update_logging` returns early when no endpoint is left (`loki_push_api.py`
  2433): the last Loki's target stays enabled. `TargetsCurrent` is about the other cases.
- A memory option below one byte makes `sanitize_resource_spec_dict` raise an
  `InvalidOperation`, which nothing catches: every hook that looks at the patch ends in error
  until the option is changed (`Raises`, excepted in `EventuallyServes`).
- A patch that fails at `config-changed` is not tried again by later hooks, while the status
  follows a dry run and turns active (`LimitsTakeEffect` is for behaviours without failures).
  A StatefulSet that cannot be read is taken for one that is not in progress.
- Options that are put back while their pods are still being replaced let the unit report
  active although a peer has the other resources: the template's revision is then the one
  rolled out last (hence `ActiveMeansInEffect` is
  about that revision only).
- `get_authentik_token` reads the revision of the secret a unit tracks (`get_content`). After
  the server rotates its token every call is refused, until the relation is made anew, since no
  handler observes `secret-changed`. `openspec/specs/charm-reconcile/spec.md` (100) has the charm
  authenticate "using the API token published over `authentik-server-info`". `CallsAccepted` is the premise that excludes it.
- `TracingEndpointRequirer.get_endpoint` raises on a follower when Tempo publishes receivers
  for another client before it has seen the leader's request: the unit is in error until then.
- Scrape jobs are published on `relation-joined` and `pebble-ready` only. If no unit leads
  then, no later election publishes them; hence the premise `jobs` of `UnitsScraped`.
- The LDAPS scheme stays in the library's stored state after the relation is broken; only the
  host is cleared. As `LdapsEnabled` asks for both, nothing is advertised.
- If a later step fails, the route submitted by the hook and the URLs consumers see differ until
  a hook succeeds.
- A leader that loses its lease under the hook that mints a token may run the workload with a
  token whose secret was never committed; the next leader adopts or replaces it.
- `_request_all` raises after 500 pages even if the last one had no next link
  (`EventuallyProvided` has the premise).

## 6. Plan

What is left, in this order; each with its runs and, where noted, proofs.

1. `LeaderHandover`: the accounts of one consumer under two leaders; at most one tracked account.
2. `Consumer`: the abstract contract of one consumer (none, served, being removed), refined by
   `Reconcile`; adoption, groups that appear, and roles deleted by an administrator.
3. Proofs: that one deletion of the role is harmless to tracked accounts at any point (they are
   proved for any number of deletions, but at other points); that a settled application is
   consistent integration by integration when calls have failed.
4. Alert rules, which Loki's and Prometheus' libraries hand over as scrape jobs are.
