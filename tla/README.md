# Verification of keep-api-gateway

TLA+ models of the gateway's state machines and of its query translation,
checked with TLC on small instances and, for eleven of the twelve state
machines, proved with TLAPS for all instances. Paths below are relative to `src/src/` unless they
start with `src/`.

## 1. Inventory

The gateway is a FastAPI application (several uvicorn workers, several
replicas). It accepts alerts and hands them to Kafka, lets users enrich alerts
and manage incidents in the database, stores the configuration of everything
else (providers, rules, presets, tenants, operators, keys), answers queries, and
pushes changes to browsers over server-sent events (SSE). The *event handler*,
another program, consumes the Kafka topics.

| Component | State | Operations | What is hard | What makes it correct |
|---|---|---|---|---|
| SSE broadcaster (`services/sse.py`, `routes/sse_routes.py`) | a queue per open stream, by tenant; the draining flag; gauges | subscribe, notify, close_all, reopen, signal handlers | streams that open, end, are abandoned or cancelled while a shutdown sweeps | the drain reaches every stream; a stream gets its tenant's events in order, without gaps; the shutdown ends |
| SSE fan-out (`services/sse_fanout.py`) | the subscription flag and number, the publisher client, the subscriber task | start, stop, broadcast, publish, subscribe loop | Redis connections that break, half-open sockets, publishes that time out and land later | a process relies on the channel only when that is right; older payloads never overwrite newer ones |
| Ingestion (`services/producers`, `routes/alerts.py`, `routes/healthcheck.py`) | two Kafka clients, the start lock, the last result | produce, start, stop, readiness probe, two ingestion routes | concurrent cold starts, cancelled probes, late sends, both topics failing | what is accepted is in a topic; what is lost is reported so that the sender retries |
| LastAlert rows (`repositories/db.py`, `services/enrichments_bl.py`, `routes/alerts.py`) | one row per fingerprint: the newest occurrence and the user's enrichments | set_last_alert, six enriching routes | concurrent creators, retried older occurrences, commit and publish not atomic, legacy payloads | the newest occurrence holds the row; the user's choice stands until something ends it; event and row agree |
| Incidents (`repositories/db.py`, `services/incidents_bl.py`, `routes/incidents.py`) | links between alerts and incidents; aggregates; status, assignee, audit, enrichments | add, remove, split, merge; create, update, assign, enrich, delete; status, severity, resolution by alerts | links and aggregates are separate commits; the audit is committed first; enrichments are read, merged and written whole | the aggregates follow the links; an alert that moves is never lost; assignments are on record; notes stand |
| Providers, event subscriber (`providers/providers_service.py`, `services/producers/event_subscriber.py`, `routes/providers.py`) | provider rows, secrets, consumer threads | install, oauth2, update, use, webhook, delete, provision; start, stop | three stores changed one after the other; threads; overlapping provisioning | the stores agree; provisioning leaves its configuration and takes away nothing else |
| Lifespan (`main.py`) | the deferred start task | startup, shutdown | the shutdown races the deferred start | no thread runs on after the shutdown |
| CEL to SQL, facets, queries (`repositories/cel_to_sql`, `facets_query_builder`, `alerts.py`, `incidents.py`) | the tenant's facets | translate, count, page, facet options, preflight | enumerations and NULLs, joins that repeat rows, a hard limit, several statements | the query selects what the expression means; pages and count agree |
| Rules: deduplication, correlation, mapping, extraction, maintenance | rows | CRUD, provisioning, execution | overlapping start-ups, ORM commits over changed rows | provisioned rules equal the environment; a commit changes what its request asked |
| API keys and users (`utils/tenant_utils.py`, `routes/settings.py`, `services/identity_manager`) | key hashes in the database, keys in the secret manager, a cache of uses, users | create, rotate, delete, authenticate, impersonate, sign in | two stores, rows rotated under a deletion or a use | the key shown is the key accepted; a deleted one is not |
| Tenants, operators, grants (`routes/tenants.py`, `routes/operators.py`, `services/operator_provisoioning.py`, `integrations`) | rows; consumers and credentials in Kong; contact points and the policy tree in Grafana | CRUD, grants, the provisioning saga and its rollback | lost answers, failed undoing, authority checked before it is used | the three systems agree; a tenant keeps an admin |
| Presets, dashboards (`routes/preset.py`, `routes/dashboard.py`) | presets with options, tags, links, column settings; dashboards | CRUD, provisioning | one JSON column written whole, a commit per new tag | tabs survive updates; a request counts as a whole |
| Secret managers, search, metrics jobs, AI, reports, CLI, models | none of their own | reads, calls | | |

How they interact: routes call services, services call `repositories/db.py`
and, after the commit, the Kafka producer and `notify_sse`; `notify_sse` enters
`sse.broadcast`, which is the fan-out (or, without it, the local broadcaster);
the fan-out's deliveries call the broadcaster's `notify` in every process.
Providers and API keys are changed in the database and the secret manager, and
the webhook routes of the former read the keys of the latter. Provisioning a
provider from a directory provisions deduplication rules too. The lifespan
starts and stops the fan-out, the producer and the event subscriber; uvicorn's
drain stands between a signal and the lifespan's shutdown.

`PROJECT.json` lists every component, also those without a module, and the
hazards at their lines with the properties that would catch them.

## 2. Plan

Done: one module per component that has state worth checking, the translation
of CEL, and the proofs (section 7): every safety property that the runs check, but those
of `Query`, and the refinement of `Ingestion`. What one run shows not to hold
(`kafka_lost`) is a disagreement of the code with its own comment and test.
Next, in this order:

1. A composition of `RedisFanout` with `SSEBroadcaster`. The two meet in one
   call, `notify`, whose sequence is `delivered` in the one and `notify` steps
   in the other, so that each is checked against every behaviour of the other
   already.
2. resolve_on first and last of incidents; the identity managers beside the
   database's.

## 3. The modules

Every module models one step per stretch of code that nothing can interleave:
between two awaits on the event loop, or one committed statement or one call of
a store. Definitions that start with `Mut` are mutated forms of the definition
that follows them: each is a plausible bug that a property must notice, and no
specification uses them. Variables marked *history* record the past for the
properties; no guard reads them. Requests that are refused before they read or
change anything are left out. A module `XProofs` extends the modules of one
component with their theorems and the invariants these rest on; where it extends
two modules, the definitions of one carry a prefix (`FanoutInit`, `ProducerNext`,
`deskVars`). Properties that belong to
one question are conjoined under one name (`ChannelKept == ChannelOrder /\ NoSkipWhileConnected
/\ NewerPayloadWins`), and a module's type invariant may be the first of them.

### SSEBroadcaster

A stream goes `none -> auth -> sending <-> waiting -> ended`, or from `sending`
to `abandoned` when the client leaves while a chunk is being sent: the
generator then stays registered until the loop's finaliser closes it. `queue`
and `connections` are the broadcaster's; `phase`, `sweeps`, `signals` and
`lifespans` are the server: a signal schedules `close_all` on the loop and
starts uvicorn's drain, the drain waits for every response, and a later
lifespan reopens the broadcaster. The locked sections contain no await, so each
is a single step. uvicorn, starlette and asyncio's finaliser are external.

### RedisFanout

Processes and one channel. Redis is external: it numbers messages in publish
order and copies each to the connection of every live subscription (`inbox`); a
connection may die unnoticed (`link = "dead"`) until the missing PONG; a publish
the process gave up on may still land. `broadcast()` is three steps: the
snapshot of the subscription and the PUBLISH, its landing, and the decision to
rely on the channel or tell the streams directly. `delivered` is the sequence of
`notify` calls of each process, where `SSEBroadcaster` starts. `FleetPublish` is
a publication by a process outside the model, so that one process with its
liveness can be checked among many. Timeouts are steps that may happen.

### KafkaProducer and Ingestion

Callers are requests of the generic route, of the provider route, and readiness
probes. Each goes through `_ensure_started` (with the start lock), the attempts
on the main topic, and the DLQ; a probe may be cancelled wherever it waits. A
timed-out send stays in `lateMain` or `lateDlq` and may land at any time. The
answer and the metric of each route are part of the step that ends the request.
`stop()` runs after the drain: no request is in progress then.

`Ingestion` is the promise to a sender, whatever the brokers do: one answer;
accepted (202) only with the event written to the consumed topic, or to the
dead-letter topic where `KEEP_ALERT_DLQ_ACCEPT` counts that; at most
`MaxRetries` copies in the main topic; otherwise "send it again" (503), but for
the senders outside `told`. Those are the provider route's: when both topics
fail it gives a bare 500, which is `Fail`, and `Refuse` is the 503 of either
route. `ImplementsIngestion` maps each caller to it. `LostIsRetryable` asks 503 of both
routes, as the code's comment and its test do; the run `kafka_lost` shows that
the provider route breaks it.

### LastAlert

`set_last_alert` updates an existing row in one step, because it selects it
`FOR UPDATE`; creating one is a read and an insert that may collide. Requests
go through the translation of the route, the dispose flag, the normalisation,
one committed write per fingerprint, and the publication of the event.
Enrichments are functions from column names to values, so that the two
translations are modelled by what they compute. The assignee and ticket
columns, which behave like `deleted`, are left out.

### Incidents and IncidentDesk

In `Incidents` requests are lists of jobs (add or remove alerts), each of which
is the choice of the alerts that are new (for an addition), a commit of the
links, a read, and the `UPDATE` of the aggregates; two additions may choose the
same alert, and the second one's insert collides, rolls its session back and is
retried (`AddCollides`). Users force severities meanwhile. A merge
marks its sources in a session that is committed with the next add or at the
end. A database fault may hit any statement: adds are retried three times by
`retry_on_db_error`, removals are not. Faults are explored for a request that is
alone (`Alone`), and no request starts after one (`MayStart`): what a fault
leaves behind is judged before new requests overlay it. `NotFound` is the loop
that tests membership in a one-shot query result: what is wanted is `Found` as
long as it comes in the order of the rows. `services` stands for sources too;
alerts keep their service and severity, which is one of the five there are.

`IncidentRequests` declares what the two are about. `IncidentDesk` is what users do to an incident itself. Assignments are an audit
commit and a later commit of the assignee; enrichments are one row of arbitrary
keys, read by one statement and written by another, with the merge that protects
the note. A request may fail at any commit.

### Providers

`row`, `secret` and `thr` are the database, the secret manager and the consumer
threads (one per provider and starter, since `add_consumer` and the deferred
`start()` both start them). Each route and each provisioning is a sequence of
single-store steps; the provisioning from the environment computes what to
remove first, the one from a directory works file by file and removes last.
Each name of a directory is read and looked up first, and noted as present only
then, so that a failure of either leaves it to be deprovisioned. An installation
that instantiates a provider whose authentication changes writes it under the
name it was asked for (`misplaced`), not under the id drawn for it. `deferred`
and `life` are the lifespan: the start runs some time after the start-up, the
shutdown cancels it and has an executor thread run `stop()`, which asks one
consumer after the other; the shutdown goes on when `stop()` is over or at its
timeout, and `stop()` then goes on alone. A crash loses the threads only.

### Tenants

Callers check their role in one step (`Authorize`) and change a grant in the
next, so that two admins overlap. Provisioning an operator is a saga:
`ensure_consumer`, `create_or_update_api_key` (Kong may generate a key and omit
it from its answer), `InsertOperator`, `ensure_grafana_connections` (contact
point, then the policy tree in two steps), each of which, the row's insertion
too, may fail before or after it took effect; `_rollback_provisioning` undoes the completed steps, last
first, and may fail too. `ConsoleMoves` is a restart with another address
of the gateway, which new contact points get.

### Access

A key is a row with its hash, and a value in the secret manager under a name
made of its id (`NameOf`): the Kubernetes manager folds case and underscores, so
that two ids may have one secret; with the others `NameOf` is injective. Creating and
rotating change one after the other; rows are changed by the hash that was
read, so that a rotation in between makes the statement match nothing.
`authenticate` takes a request's key to the row, the cache of uses, the update
of last_used and, for an admin's key, the creation of the impersonated user.
Sign-in, creation, deletion and the start-up's default user with its forced
reset are the users of the database identity manager.

### Rules

One row for each of the four kinds that are looked up singly, and a table of
deduplication rules. `Flush` is the ORM's commit: only the columns that differ
from the loaded object are written. A deduplication rule is checked in one
session and changed in another, and each starting replica provisions its own
environment with one commit per rule. A rule is created for an installed
provider whose secret can be read or for one linked by a sample of the alerts.
`apply_deduplication` judges alerts by the rules as they are. Executing a mapping or extraction rule loads it and records an
enrichment event; `check_if_match_and_enrich` scans the rows of the mapping.

### Presets

A preset's options hold its filter and its tabs; a body names either or both.
Requests load them, change them and write the columns that differ back; each tag
is looked up in one step and, when it is new, committed in another, with
whatever the session holds by then. The DELETE of the old links and the INSERT
of the new ones with the commit are two steps, and the DELETE reaches the links
its statement sees. An update that has flushed a changed row holds it until its
commit (`RowFree`), as the database does. Dashboards are created, updated, deleted
and provisioned.

### CelToSql and Query

`CelToSql` has the tree of an expression, the property mapping and the rewrite
of order comparisons with enumerations (`map_props_in_ast`), the outcome of a
conversion with its diagnostic, and the three-valued meaning of the SQL on a
row (`_build_sql_filter`). `Says` is the reference: what the expression says,
written without the mapper. `Query` uses the predicate for the statements of
searches, while alerts arrive, are correlated and incidents resolve: the count
and then page after page, each in a session of its own; facet options (of alerts
their severity and a tenant's own facet on the incident, of incidents their
status and a tenant's own facet on `alert.severity`); the
creation of a facet; the preflight. Whether a decision looks at the text or at
the mapped fields is kept (`note`).

These two modules contain recursive operators and are for TLC only.

## 4. Runs

| Run | Bounds | Shows |
|---|---|---|
| `broadcaster` | 2 streams, 2 tenants (2 notifications and 1), 2 lifespans with a signal each, fair | registration, drain, order, close marker, accounting, progress |
| `fanout` | 1 process among others, 2 broadcasts, 1 fault, 1 undecodable message, fair | order, no skip, reliance, payloads, progress |
| `producer` | 2 callers of any kind, 2 attempts, both settings of `KEEP_ALERT_DLQ_ACCEPT`, fair | bootstrap, lock, true answers, `Ingestion`, every call ends |
| `last_alert` | 2 fingerprints, with or without a row that an earlier occurrence resolved, 2 occurrences, 1 request, all payloads, 3 attempts, 2 faults each | the newest occurrence, creation races, the user's choice and its end, event and row |
| `incidents` | 2 incidents, 2 alerts of different services and severities, 2 clients with a request each of 1 or 2 alerts, merges of 2, 1 fault | aggregates follow links, moves lose nothing |
| `providers` | 2 ids, 2 names (a consumer with a webhook, one whose clean-up refreshes its secret), 2 clients, 3 operations, 1 fault | the stores agree, provisioning is exact, no consumer after the shutdown |
| `tenants` | 2 tenants, a superadmin and 2 persons, 2 operator names, 2 sagas, 1 fault | the three systems agree, lockout |
| `access` | 3 keys (one the webhook's, which shares its secret with another), 2 users, 2 clients, 4 key values, 4 operations, 1 fault, forced reset; beside it 2 incidents, 2 clients of 2 users, 2 requests each | shown and accepted, deletion, sign-in; assignments on record, notes |
| `rules` | 2 names, 1 provider, 2 clients, 2 replicas, 3 rules, 4 operations | provisioning, duplicates, rows, columns |
| `presets` | 2 presets, names, tags, tabs, boards, 2 clients, 3 operations | tabs, links, refused updates |
| `query` | 3 alerts, 2 incidents, pages of 1, hard limit of 2, 3 writes; all leaves, pairs and negations | filters, pages, facets |
| `kafka_lost` | as `producer`, without fairness | a violation: the provider route's 500 (section 5) |

Why the bounds are enough: two streams give one that registers during the sweep
and one that is swept; two notifications of a tenant give an order, one of
another what must not reach its streams; a second lifespan gives a reopened
broadcaster. Two broadcasts give every order of publish, landing and fallback,
against each other and the fleet's. Two callers give a holder of the lock and a
waiter, either of which may be a probe. Two occurrences give a creator and a
loser of the race, or a late retry; a row that was resolved before has the
dispose flag a later choice must reset. Two clients give every read-modify-write
its overlap, and one fault every statement its failure (two, and the lost race,
use up the three attempts of `set_last_alert`); the counters bound how
many requests come before and after. Two sagas give one that is overtaken and a
name that is reused, and four key values a rotation on each side of it. Three
alerts are one more than the hard limit, which is one more than the page, and
two incidents make a join repeat a row. The filters pair every leaf, and its
negation, with one right operand of each way the mapper treats a leaf. `access` runs `Access` and
`IncidentDesk` in one state space because they share nothing: a behaviour takes
steps of one of the two only. Deadlock
is checked in `query`; elsewhere every process may simply be done.

What is claimed only in part, because the code does not do more, is said in the
property: the count of an incident is a subquery of its `UPDATE` and is checked
under concurrency, its services and severity are read before they are written
and are claimed for incidents nobody raced on, and a severity that a user
forced is claimed unless it was forced between another request's read and its
`UPDATE`; the shutdown is claimed to have stopped all consumers when `stop()` is
over, which its timeout may not wait for; an exception in a property
(`raced`, `misjudged`, `overtaken`, `contended`, `contested`, `orphaned`,
`overwritten`, `muddled`, `clobbered`, `mixed`, `torn`) names a
behaviour of the next section.

## 5. Where the code and its comments, docs or names differ

Met while modelling. The models have the behaviour; the properties are worded
around it.

SSE, ingestion, alerts:

* after `stop()` the gauge `sse_fanout_connected` stays at 1, because the
  cancellation skips the last statement of the loop (`services/sse_fanout.py:200`);
* the provider route answers 500 when publishing failed (`routes/alerts.py:744`),
  though `routes/alerts.py:151-152` wants the retryable 503 and
  `src/tests/test_dlq_ingestion_reporting.py:70-71` says the sender must get a
  retryable status: the run `kafka_lost` ends in such an answer;
* that route counts every event it published as a success, and then again under
  its real label (`routes/alerts.py:754`);
* `{"dismiss_until": ts}` alone leaves the previous dispose flag in place
  (`services/enrichments_bl.py:662`), though lines 656-660 say that the flag is
  written on every such action;
* a resolved occurrence ends a time-boxed keep dismissal (`repositories/db.py:4439`),
  while the docstring says that it survives (`db.py:4433`);
* `enrich_alert` normalises the payload for the event, and the database layer
  normalises the result again, which the comment calls idempotent
  (`services/enrichments_bl.py:842`). A payload with a `dismiss_mode` and a null
  `dismiss_until` is the exception: the first pass keeps the mode alone, the
  second derives the status "suppressed" from it, and the row has a status that
  the event lacks (`mixed`);
* a dismissal by the typed `dismiss_mode` is audited as a generic enrichment, the
  legacy flag as a change of status, and an un-dismissal as a change to None.

Incidents:

* removing two alerts at once drops a service another alert still has: the query
  result is consumed by the first membership test (`db.py:3666`; 3596-3597 say
  what is meant); `misjudged` are the incidents where that can have happened;
* an add that is retried after its links were committed finds no new
  fingerprint, and its alerts are never counted (`db.py:3382`);
* a severity that a user forces between an addition's or a removal's read of the
  incident and its `UPDATE` (`db.py:3419-3431`, 3475-3490) is overwritten by the
  one read before, while `forced_severity` stays set (`overtaken`);
* two additions of one alert to one incident: the loser's `IntegrityError` is
  retried, and the rollback takes the marks of a merge with it;
* concurrent adds lose services or severity; two opposite concurrent splits lose
  the alert; a split into the incident itself loses the alerts that the answer
  lists as moved (`routes/incidents.py:487`);
* resolving the alerts of a deleted incident makes it a resolved incident
  (`enrichments_bl.py:1041`); a deleted incident keeps its links;
* a merge that failed in part raises `HTTPException` with the message as its
  status code (`routes/incidents.py:530`); `change_status` does not await
  `batch_enrich` (`incidents_bl.py:451`); `resolve_incident_if_require` is
  never called; confirming a predicted incident sets `is_candidate` to True;
* an update with a severity writes its name into an integer column and fails
  after the audit was committed; audits of updates and assignments are committed
  before the change;
* overlapping enrichments of an incident lose one of them; the first one that
  loses the race of creation is dropped silently and its event still published;
  a note of None is deleted though the comment says it is preserved;
  un-enriching uses the body's fingerprint, not the incident of the path.

Providers:

* the secret is read before it is deleted (`providers_service.py:339`), so a
  provider whose secret is gone cannot be deleted; `remove_consumer` is given
  the row instead of the id (`:351`), so a deleted provider's consumer runs on
  until the shutdown; `add_consumer` and the deferred start both start a thread;
* an update, use or webhook that overlaps the deletion writes the secret again;
  the oauth2 callback leaves its secret when it loses the name; a clean-up that
  refreshes the token rewrites the deleted secret;
* a file that cannot be read deprovisions its provider, and so does a lookup that
  fails (`providers_service.py:635`, caught at 722, removed at 729-738), though
  the comment at 641-642 means to keep a provider that could not be updated; each file of the
  directory provisions its own deduplication rules and deletes the other files'
  (`providers_service.py:718`); `repositories/init.py` uses
  `SINGLE_TENANT_UUID` without importing it;
* what `get_provider` writes back during an installation or `install/prepare`
  (`providers_factory.py:129-142`) goes under the id of the request, its type,
  and not under the id the provider is stored with;
* `stop()` asks the consumers one after the other, each call blocking, and
  `main.py:184-200` abandons it at its timeout: consumers that were not asked
  yet run on.

Tenants and access:

* the docstring of `provision_operator` says that the row is written after Kong
  and Grafana succeeded; it is inserted before Grafana
  (`services/operator_provisoioning.py:123` against 146-161), and the undoing of
  Grafana is never reached;
* the same docstring says that everything is rolled back when a step fails; when
  the commit of the row or the refresh after it fails with the row stored
  (156-160), the step is not marked complete and the rollback leaves the row,
  without the Kong key it removed (`orphaned`);
* a request with a taken name replaces, and in its rollback removes, the existing
  operator's Kong key; deletion leaves Kong and Grafana; an existing contact
  point keeps its old credentials; overlapping provisionings lose a sub-policy;
* two admins may remove each other;
* the Kubernetes secret manager replaces underscores and lowers case in a
  secret's name (`kubernetessecretmanager.py:66,105,126`), so that ids such as
  `Ops` and `ops`, which the table keeps apart, share a secret: creating,
  rotating or deleting one changes what is shown for the other;
* the cache of key uses is never refreshed, though its comment says so
  (`authverifierbase.py:361-375`); scopes are checked after the use was noted
  and the impersonated user created;
* rotating a deleted key answers a key that never works; creating on a taken id
  overwrites the live key's secret; a `StaleDataError` is retried and commits
  nothing;
* `KEEP_DEFAULT_API_KEYS` imports a module that does not exist, and the whole
  commit is lost silently; a forced reset renames whichever user is first.

Rules:

* mapping and extraction call `enrich_entity` with positional arguments it does
  not take, so that a rule that matches answers 500 and enriches nothing; "*" is
  tried as a regular expression first and raises (`enrichments_bl.py:527`);
* an empty environment deprovisions nothing; overlapping replicas create a rule
  twice, after which `get_custom` raises; the PUT route turns 404 and 409 into
  400; provider default rules are listed as not full although the evaluation
  uses a full one; a listing with one rule and no alerts is empty;
* a mapping update with no rows commits, answers 500 and breaks the list;
  an update of a soft-deleted correlation rule succeeds; two overlapping updates
  of a maintenance window may leave start, duration and end of both.

Presets and queries:

* two overlapping updates of a preset's tags leave the union of both: the DELETE
  of one does not see the links the other commits after it (`mixed`); two
  overlapping requests with one new tag end with a 500 for the second;
* the lookup of a tag by name ignores the tenant; provisioning duplicates
  dashboards at every start; column settings cannot be emptied; an update of a
  missing dashboard returns None; with RBAC ids, private presets of others are
  listed;
* an OR with a comparison every value satisfies loses that alternative
  (`cel_to_sql/properties_mapper.py:389-395`); `has()` of a known column is
  always false; a blank filter passes the preflight and is refused when executed;
* facet filters are joined with `&&` without parentheses
  (`base_facets_query_builder.py:71`); `incident['name']` counts joined rows;
  alerts of one instant may be on two pages or none; an offset beyond the hard
  limit makes a negative LIMIT; removed links still join; deleting a missing
  facet answers 500; incident facets answer 500 where alert facets answer 400.

## 6. Fairness

* `SSEBroadcaster`: the event loop runs what is ready (the streams' own steps,
  the scheduled `close_all`, uvicorn's tick and drain). `Sent` is included: a
  client that neither reads nor disconnects is cut off by the proxies in front;
  this is the one assumption the code itself does not enforce. Clients,
  notifiers and signals are not fair.
* `RedisFanout`: the subscriber task and the callers run; Redis answers a
  SUBSCRIBE while the connection lasts; every publish is bounded by `wait_for`.
  No PUBLISH need ever land.
* `KafkaProducer`: every wait of a caller is bounded by the code (connection,
  send and DLQ timeouts, the probe's timeout), so each caller's next step is
  fair; the late landing of a send is not.

The other modules have safety properties only: a request ends when its client,
database and services answer, and the code states no more.

## 7. Proofs

Eight modules of proofs show the safety properties of the state machines for
every value of the constants. Each listed theorem is `Spec => []P` for a property
`P` that a run checks, but `Implementation`, which is the refinement of
`Ingestion`, and `ColumnsAreOwn`, which is about steps.

| Proofs | About | Theorems | Assumed of the constants |
|---|---|---|---|
| `SSEProofs` | `SSEBroadcaster` | `TypeCorrect`, `DrainTheorem`, `OrderTheorem`, `CloseTheorem`, `AccountingTheorem` | `BroadcasterAssumption`: finitely many streams; the close marker is no event |
| | `RedisFanout` | `FanoutTypeCorrect`, `ChannelTheorem`, `ToldTheorem` | `FanoutAssumption`: an undecodable message is no broadcast |
| `AlertsProofs` | `KafkaProducer` | `ProducerTypeCorrect`, `StartTheorem`, `AnswersTheorem`, `Implementation` | `ProducerAssumption`: any number of retries |
| | `LastAlert` | `TypeCorrect`, `RequestTheorem`, `OccurrencesTheorem`, `ChoiceTheorem` | `LastAlertAssumption`: at least two attempts, because with one a creator that loses the race would raise without a fault (the code has three); `PayloadAssumption`: a payload has for a column what the column can hold, and no list of keys to clear names `status_disposable`, which is NOT NULL (such a request ends as `StoreFails` does) |
| `IncidentsProofs` | `Incidents` | `TypeTheorem`, `MovedTheorem`, `AggregatesTheorem` | `IncidentsAssumption`: finitely many incidents and alerts, every alert with a service and one of the five severities; "no incident" is none |
| | `IncidentDesk` | `RecordTheorem`, `NotesTheorem` | `DeskAssumption`: "none", an incident that was not created, is no status |
| `ProvidersProofs` | `Providers` | `ShutdownTheorem`, `StoresTheorem`, `ProvisioningTheorem` | `ProvidersAssumption` |
| `AccessProofs` | `Access` | `DeletionTheorem`, `SignInTheorem`, `KeysTheorem` | `AccessAssumption`: every id has a name in the secret manager, ids may share one |
| `TenantsProofs` | `Tenants` | `OperatorsInAgreement`, `NoLockout` | `TenantsAssumption`: superadmins are callers, groups are subjects, a caller acts as subjects |
| `RulesProofs` | `Rules` | `Deduplicates`, `RowsTold`, `ColumnsAreOwn` | `RulesAssumption`: no name or provider is one of the values a mapping row compares with |
| `PresetsProofs` | `Presets` | `PresetsSound`, `RequestsWhole` | `PresetsAssumption`: a body names a tag once (the code ends a body that does not in a key collision, which stores what a refused update stores); the provisioned dashboards' names are names; a row and a list of tabs are not NULL |

All of them also assume that the bounds are natural numbers and that values for
"nothing" (`NoCaller`, `NoRow`, `None`...) differ from the things themselves. TLC
evaluates each assumption on the instance it checks.

A property is seldom inductive. What each proof adds:

* Broadcaster: `RegisteredWhileOpen`, since the sweep and `notify` reach
  registered streams while the properties speak of open responses;
  `FreshUntilSubscribed`, so that the first event is the first after
  subscribing; `SweepPoint`, that the events ahead of the first close marker end
  at the notification count of the sweep. Order rests on `Shift`, an
  arithmetic fact about the positions of a tail; the gauge is the cardinality of
  the open streams of a tenant (`OpenOf`), the closed counters that of
  `EndedUnder`.
* Fan-out: `ProcInv` says of a process that what waits in its connection is
  increasing and comes after everything delivered from the channel (`Log`), and
  that everything published since the subscription was made has been received
  or waits (`Complete`); `CallInv` says of a broadcast that it is in the channel at most
  once, and, if its process still has the subscription it took for granted,
  after that one was made (`Covered`). An old payload cannot overtake because a
  direct delivery is of a call whose command can no longer land.
* Producer: `ConnectsInOrder` (the main client first, by the same caller),
  `PublishesWithinRetries` and `UnansweredIsBlank` (no answer, metric or copy in
  the DLQ before the step that answers). The refinement uses this invariant; a
  step maps to `Ingestion`'s landing, answer or late landing of the same caller
  or to a stutter.
* LastAlert: a request reads no row, so `Whole` is an invariant of the requests
  alone: what is still to be written, written and not published, or answered.
  `RowOk` and `WriterOk` are the invariant of rows and of the calls that set
  them; a row that a request writes needs in addition what the request was
  accepted with (`Served`). The lemma `StoredIs` says what normalising twice
  stores: the same as once, unless the payload is `Mixed`.
* Incidents: `JobsFit` says of what a request has still to do that it is one
  change, a split (the same alerts added to one incident and then removed from
  another) or the rest of a merge (what is removed is added next). `MovedInv`: what
  a merge has taken and not yet added is `Carried`, and what a split has still to
  remove is in another incident unless another request was to remove it too
  (`SplitSafe`). `AggregatesInv` says of an incident what its only changer has made
  of it at each step (`Pending`): after an addition's links the old aggregates are
  those of the alerts without the new ones, after a removal's the services are at
  least those left and at most those before, and at the `UPDATE` the computed
  values are right. `Counted` needs no such exception, because the count is a
  subquery of the statement that stores it. `ForcedInv`, proved apart, says of a
  forced incident that its severity, and the one any request is about to write
  (`Kept`), is the one last forced, unless `overtaken`.
* IncidentDesk: `AssignmentsAreOnRecord`: a request between its audit and its
  assignment has the audit. Notes stand by themselves once what a request holds
  is typed (`Fits`): `MergeKeepsNote` says of every body the routes build that
  merging it into a row with a note leaves the note.
* Providers: `Drained`: once the shutdown has begun nobody works and the deferred
  start will not come, so that what runs, ran `before`. `ListedInv`: a provider whose row is not committed yet is worked on
  by nobody but the client that drew it (`Fresh`), and only deletions take away
  from one that is known. `AgreeInv`: without faults a row without its secret is
  being deleted, and a secret without its row is being installed or is one of
  those the code is known to leave (`Left`). `ProvisioningInv`: what a
  provisioning took for outdated is not in its files (`Notes`), the operation a
  provisioning started is about its own files (`Serves`), nobody else works
  while it is `Alone`, and, of such a one, what it has handled so far is as its configuration
  says (`Exact`).
* Access: `EndedIsDeleted`: a rotation keeps the flag and nothing is inserted
  over a row; `PasswordMeansEntitled`; `StoresAgree`: on an id nobody has
  muddled at most one request changes the two stores, no other id with its secret
  has a row or is being changed (`Sole`), and the secret is the
  row's or the one this request will put there; `KeysDiffer`: a key drawn is
  never drawn again.

* Tenants: `Held` is what a request still knows when it acts: one that changes a
  grant passed `_guard_self_modification` for the subject it names, and one
  inside the saga has completed exactly the calls that come before its step
  (`DoneAt`). `NamesInOrder` says, of each name that is not contested, which of
  Kong, the row and Grafana are done at the step of the one saga that works on
  it, on the way there and on the way back, and that nothing is left of it when
  none does, but what `retired`, `orphaned` and `reused` name.
* Rules: `Booted`: a start-up that no other overlaps is the only one to touch
  provisioned rules, so that what it has read stays true of the table until it
  writes (`Sees`); a request that found a rule free to change finds it so when it
  commits, since ids are not used twice. `Requested` says what an update still
  has to write and what an execution was given; `Hashed`, with which value an
  alert was stored. That a commit stays in its columns needs of the request that
  commits only that it assigns columns of the kind it loaded.
* Presets: `Asked`: what an update has loaded and stored so far, how many of its
  tags exist by now, that the commit of a new tag stored the row with it
  (`WroteForATag`), and that, unless another request came between, it has
  deleted all the links its preset has (`KnowsLinks`). `TabsHeld` and
  `LinksWanted` are the two properties with the requests under way.

Every invariant conjunct has a step lemma with one case per action or kind of
action (`NextKinds`, `StepKinds`, `ServeKinds` and `AsksStart` sort the actions by what they
change). The invariants were checked by TLC before they were proved.

Only model-checked:

* liveness (`StreamsProgress`, `FanoutProgress`, `EveryCallEnds`): fairness and
  ENABLED are out of this prover's reach;
* the properties of `Query` (`FilterIsExact`, `PagesAreSound`, `FacetsCountBoth`):
  it and `CelToSql` are recursive over expressions, and the provers cannot do
  induction over data.

## 8. Not modelled

The listing of the deduplication rules only reads and is left out: it has
filters of its own (the providers' tag "alert", secrets that cannot be read,
types without default fingerprint fields, a sample of 10000 alerts, the type
"group") and collects what it shows from several sessions, so that nothing can
be said of it that the code keeps. Of the incidents' static facets only the one
on the status is modelled; severity and assignee are columns like it, without
the list of members.

The content of events and rows, logging, the wording of answers, the clock
(timeouts are nondeterministic), the event handler, and the components marked
`not_modelled` in `PROJECT.json`, each with its reason: secret managers and the
identity services are thin clients and appear as external stores; the
Elasticsearch copy is written after the commit with errors logged; metrics jobs,
AI and reports only read; the CLI is a client of the HTTP API; provider
implementations format and call external systems, none of them implements
`start_consume`, and nothing in this process runs `keep_provider`'s alerting.
Permissions are modelled where a step depends on them (grants, API keys) and
otherwise taken as given.

## 9. Running

    tlc -config MCSSEBroadcaster.cfg MCSSEBroadcaster
    tlapm SSEProofs.tla

Each run's module and configuration are in `PROJECT.json`; every `*Proofs.tla`
is checked by `tlapm` alone, in one to four minutes each.
