# Verification of the Tinai platform services

TLA+ models, model-checking runs and machine-checked proofs for the Tinai
platform (`src/platform`): the realtime service, the build-and-deploy service,
the platform API, the billing chain and the metering bridge, the operations,
maintenance and reporting services, and the clients (command line, JavaScript
client, web mail, dashboard).

Every definition that models code is translated from the source; `map` in
`PROJECT.json` names the lines. What the code gets from elsewhere (NATS,
PostgreSQL, Kubernetes, Lago, Razorpay, the socket library) is modelled as the
code uses it.

- [Inventory](#inventory)
- [Modules, and how they correspond to the code](#modules)
- [Runs](#runs)
- [Fairness](#fairness)
- [Proofs](#proofs)
- [Disagreements between code and comments](#disagreements)
- [Hazards no property covers](#hazards-no-property-covers)
- [Not modelled](#not-modelled)
- [Plan](#plan)

## Inventory

The platform is some twenty small services (Go and JavaScript) around
PostgreSQL, NATS and Kubernetes, an API and web front ends (TypeScript). The
services share no memory; they meet in the database, in NATS subjects, in the
Kubernetes API and through webhooks. The list below says where state is kept and
what is hard about it.

### Realtime service (`tinai-realtime`)

| part | state | operations | interacts with |
|---|---|---|---|
| `hub.Hub` | `clients`, `channels` (channel to subscribers), `natsUnsubs`, the bounded queue `cmds` | register, unregister, subscribe, unsubscribe, broadcast, taken one at a time by `Run` | sessions and the relay (queue), NATS (publish, callbacks), `Client.Send` |
| `ws.Handler` | per session: the handler goroutine (`readPump`), the `writePump` goroutine, `done`, the socket | connect, read a frame, deny, clean up, write, ping | hub, bridge, socket library |
| `natsbridge.Bridge` | `tenants` (tenant to connections), `Conn.open`, `Conn.Send`, one wildcard subscription | register, subscribe, unsubscribe, unregister, callback, shutdown | sessions, NATS, `main` |
| `relay` | one LISTEN connection, its back-off | NOTIFY to broadcast, reconnect | PostgreSQL, hub |
| `main` | - | SIGTERM: bridge shutdown, HTTP shutdown, exit | bridge |

Hard: everything is ordered only per goroutine; buffers are bounded, some sends
block and some drop; two goroutines write one socket; a pod can die; NATS is at
most once; several pods relay the same NOTIFY.

Correct when: nobody sends on a closed channel (it would panic the pod); a session
sees its own tenant only; a NOTIFY is not multiplied; copies from a pod's own
relay stay in order; a session that is over is forgotten; either pump stopping
stops the session; a NATS subscription lives exactly as long as it is needed.

### Build-and-deploy service (`tinai-build-api`)

| part | state | operations | interacts with |
|---|---|---|---|
| webhook handlers | none | push, pull request opened/closed | builder |
| `builder` (`job.go`, `preview.go`) | goroutines; build Jobs and their annotations (in the cluster) | TriggerBuild, watchAndDeploy, scan, previews, ReconcileStaleBuilds at start | Kubernetes, Trivy, deployer |
| `deployer` | Deployments, their previous-image annotation, namespaces with quota, limits, policy, secret (in the cluster) | deploy to tenant, staging or preview; promote; rollback | Kubernetes |
| API | none | promote, rollback | deployer |

Hard: one goroutine per build, per pull-request event and per request, with no
lock and no queue between them; each deploy is eight or nine API calls, any of
which fails; a restart loses every watcher, and recovery rebuilds what they knew
from annotations; writes are read-modify-write under optimistic locking.

Correct when: only pushed images run; a tenant's image runs in that tenant's
namespace only, and only behind its guard rails; the rollback annotation is the
image that ran just before; a preview touches its own namespace only; what the
scan refused stays out; every goroutine ends.

### Platform API (`tinai-api`)

One Fastify process, several replicas, PostgreSQL, and calls to Kubernetes,
Forgejo, Razorpay, Stalwart, Cloudflare and MinIO. A request is a sequence of
awaits; between any two, other requests run, and any of them can be the last one.

| part | state | what is hard | correct when |
|---|---|---|---|
| applications (`apps.ts`, `customDomains.ts`, `git.ts`) | rows, ConfigMaps, a database role and a secret, a repository, an Ingress | provisioning in seven steps that each may fail; read-merge-replace of variables | role and secret share a password, unless two names have one slug; variables are neither lost nor resurrected |
| workloads, plans, volumes | rows per tenant, objects per name, a plan cache, a quota | check of a limit before an insert, objects applied part by part | within the plan; no object but a ScaledObject without its row; no quota without its policies |
| projects and their children | rows with foreign keys, flag history | statements without a transaction | a project answered as created has production; history knows every value |
| accounts and teams | users, refresh tokens, codes, keys, roles | refreshes, removals and changes of role that race | one heir per login, one owner per team |
| databases, storage, inference | rows, Jobs, a provisioner in another service | rows and real objects that part | see [hazards](#hazards-no-property-covers) |
| billing | invoices, orders, metering rows | webhooks late, repeated, reordered; ticks on several replicas | paid means captured; the invoice adds up, GST included |
| privacy | requests, consents, breaches, the audit | read-then-write, an audit that never fails a request | one audit event per change, unless it was lost |
| mail and tunnel | rows beside the mail server and Cloudflare | two stores, calls that fail between them | verified means its own record was seen |
| code generation, forge, observability | jobs in the memory of a replica, archives, repositories | a job asked of another replica, files pushed one by one | a deployment answered as whole is whole |

### Services around it

| service | state | what is hard | correct when |
|---|---|---|---|
| payment webhook, trial lifecycle | retry state and processed events in memory, replica counts in annotations | repeated and reordered webhooks, restarts, days that pass | suspended for cause only; a row that says suspended runs nothing |
| plan handler, invoice generator | quota, Lago, a DLQ | two systems changed one after the other | a split between them was answered as a failure |
| metering bridge | the last window, Lago's transaction ids | several batches in a cycle, retries, lost answers, a DLQ that may lose them, manual runs, restarts | billed once; what is lost is counted as failed |
| build-deploy, rollback controller, HPA scaler | a Deployment, monitors | pipelines and monitors over one Deployment | no success of a tenant with nothing serving; no rollback to nothing |
| namespace provisioner, network policies, onboarding | a namespace and its parts, timers | failures half-way, repeated requests | announced whole, welcomed once |
| incident alerting, DLQ monitor, egress, CVE gate, audit | alerts and counters in memory | requests during a mail | nobody is told too little |
| maintenance jobs | annotations, leases, pods | runs that fail half-way and start again | deletion, revocation and force come after notice |
| reporting | nothing kept, Jobs retried | retries, pages, the turn of the year, tenants without an address | complete when it says so |
| command line, JavaScript client, web mail, dashboard | what the user sees | answers late, lost or of something else | what is shown as done was done; what is busy ends |

### The rest

The gateway, the forge engine, the tenant operator, the auth service and the
single-file services are described under [Not modelled](#not-modelled).

`PROJECT.json` lists each part with its sources, status and reason
(`components`) and every hazard a property guards at its line (`hazards`).

## Modules

| module | models | state | checked through |
|---|---|---|---|
| `RealtimeHub` | hub, sessions, relay, NATS between pods | see below | `MCRealtimeHub` |
| `RealtimeBridge` | bridge, its part of a session, SIGTERM | see below | `MCRealtimeBridge` |
| `BuildDeploy` | webhooks, Jobs, watchers, reconciler, deployer | see below | `MCBuildDeploy` |
| `ApiApps` | routes of applications, variables, deploys, domains | row, role and secret, ConfigMaps with their version, images, Ingress | `MCApi` |
| `ApiWorkloads` | workloads, plan gate, namespace, volumes | rows per tenant, objects per name and part, cached limits | `MCApi` |
| `ApiProjects` | projects, children, flags, webhooks, instances | slugs, children, flag and history, deliveries, instance status | `MCApi` |
| `ApiAuth` | accounts, tokens, codes, teams | users, refresh tokens with their ancestor, codes, roles, invitations | `MCApi` |
| `ApiData` | databases, branches, buckets, endpoints | rows, Jobs under way, what really exists | `MCApi` |
| `ApiBilling` | invoices, the orders that pay them, the metering tick | the invoice and its lines, orders here and at Razorpay, ticks | `MCApi` |
| `ApiPrivacy` | erasure, consent, breach, agreements, register | each record, the audit, what of it was lost | `MCApi` |
| `ApiMail` | mailboxes, domains, tunnel | rows, the mail server, DNS, the ingress of the tunnel | `MCApi` |
| `ApiAssist` | code generation, forge proxy, observability | jobs per replica, archives, repositories, views, incidents | `MCApi` |
| `KeyStore` | abstract: what the variable routes promise | the keys, the requests | `ApiApps` |
| `BillingChain` | payment webhook, trial lifecycle, suspension | processed events, retry state, replicas, annotations, the day | `MCServices` |
| `PlansAndInvoices` | plan handler, invoice generator | quota, Lago's plan, webhooks, DLQ | `MCServices` |
| `Metering` | metering bridge | the window, cycles, transaction ids, DLQ | `MCServices` |
| `OpsPipeline` | build-deploy, rollback controller, HPA scaler | the Deployment, ReplicaSets, builds, monitors | `MCServices` |
| `OpsTenants` | namespace provisioner, policies, onboarding | namespace, resources, requests, due mails | `MCServices` |
| `OpsAlerts` | alerting, DLQ monitor, egress, CVE gate, audit export | active alerts, the DLQ store, the baseline | `MCServices` |
| `Maintenance` | storage cleanup, secret rotation, self-healing, backups, images, logs, certificates | claims, leases, pods, runs | `MCServices` |
| `Reporting` | usage, residency and GST reports, MRR dashboard | Jobs, mails, the cache | `MCServices` |
| `InfraCli` | `tinai` command line | configuration, manifests, cluster | `MCServices` |
| `JsClient` | `tinai-js`: session, subscriptions, connection | session, channels, queue, sockets | `MCServices` |
| `WebMail` | web mail: page, windows, routes | the page, its calls, mails | `MCServices` |
| `DashPages`, `DashEnv`, `DashSignIn` | dashboard: lists, configuration of an application, signing in | the page, its calls, the rows behind | `MCServices` |

The `MC` modules give values to constants that a `.cfg` cannot spell, and
compose (see [Runs](#runs)). A definition beside a mapped one, named after it
(`EnqueueNonBlocking` beside `Enqueue`, `TenantTargetIgnored` beside
`TenantTarget`), is a plausible bug of that code; `mutants` in `PROJECT.json`
says which property each one must break.

### RealtimeHub

State: for each pod the queue `cmds`, `clients`, `channels` (a partial function),
`natsSubs`, and what NATS still holds for each subscription (`wire`) or has handed
to a callback that an unsubscribe did not stop (`late`). For each session its
`send` buffer and whether it is closed, where its two goroutines stand (`handler`,
`pump`), who is inside `conn.WriteMessage` (`writer`, the flag of the socket
library) and what has reached the socket (`written`).

- `HubRegister` ... `HubBroadcast` are the five cases of `Hub.Run`. One command
  is one step: the maps belong to that goroutine, and what it does to channels and
  NATS inside a command is seen by the others as a whole. `PublishNATS` reaches
  any subset of the matching subscriptions, this pod's own among them: the
  connection of a pod echoes.
- `Enqueue` is a blocking send: disabled while the queue is full.
- `Connect`, `ReadCommand`, `ReadDenied`, `DenyDone`, `ReadError`, `Unregister`
  are the handler goroutine; `WriteBegin`, `WriteEnd`, `PumpStop`, `WriteError` the
  `writePump`. A write is two steps because the socket library panics on a second
  writer: in the handler (`"panicked"`, recovered by net/http, the clean-up
  skipped) or in the pump (`PumpPanic`, the process dies).
- `RelayDispatch`, `RelayReconnect`, `Notify`: the relay; what is notified while
  it is disconnected is lost. `CrashPod`: a pod and its sessions die.

Abstracted: payloads are the number of their NOTIFY; the JSON around them, pings
as distinct frames, deadlines as durations, JWT parsing. A session belongs to one
pod and connects once (a reconnect is another session).

### RealtimeBridge

State: the tenant map, `open`, the closed channel and its buffer per connection,
the pending messages, the callback's copied `targets`, the handlers and pumps, and
how far `main`'s shutdown is. The steps follow the locks: the callback copies its
targets under `Bridge.mu` (`CallbackSnapshot`) and sends under each `Conn.mu`
(`CallbackSend`); `Unregister` is two steps for the same reason; `Shutdown` is
drain, close, exit. Delivery and drop are those of the non-blocking send.

### BuildDeploy

State: the cluster (build Jobs, pushed images, Deployments with image and
previous-image annotation, supporting objects), the goroutines of the running pod
(`tasks`), the reconciler's list (`todo`), and the history variable `blocked`
(images a watcher refused).

A goroutine is a record: the step it stands before, the place it deploys to, the
image, the Deployment it has read (`seen`) and whether that copy is still current
(`fresh`). `fresh` stands for the resourceVersion: any write that changes a
Deployment clears it in every goroutine that has read it, and an Update with a stale copy
is a conflict, that is, `CallFails`. Each step is one API call:

- `Ensure`: namespace, quota, limits, policy, secret for a tenant; service and
  ingress after the Deployment; the namespace of a preview. Get and create count
  as one step, since losing the race between them only yields the error that
  `CallFails` covers.
- `ApplyGet`, `ApplyPut`: `applyDeployment`. `RevertPut`: the Update of
  `RollbackApp`.
- `CallFails`: any call returns an error; the deploy ends where it stands, with
  nothing undone.
- `TriggerBuild`, `PROpened`, `SubmitPreview`, `PRClosed`, `CleanupPreview`:
  webhooks and their goroutines. A delivery whose Job still exists is answered
  500 and changes nothing, so it needs no action.
- `WatchPoll`, `WatchScan`, `WatchTimeout`: `watchAndDeploy`.
- `ReconcileList`, `ReconcileJob`, `ReconcileEnds`: `ReconcileStaleBuilds`. It
  looks for an existing Deployment in the namespace `regionToStagingNS` names,
  which for the home region (`tinai-staging-in`) is not the one the deployer uses
  (`tinai-staging`); the two are kept apart in the model.
- `Promote`, `Rollback`, `Restart`.

Timing: a finished Job is removed by its TTL after 3600 s; `JobExpires` requires
its watcher to have ended, since a watcher lives fifteen minutes, a scan and a deploy
(five each).
Abstracted: image names are the build they come from; manifests; log output; the
sanitizing of names (an application determines its organisation: two repositories
whose names become equal when `/` turns into `-` are not modelled, nor is the
truncation to 40 characters); a preview's application name, which its namespace
already implies. The model starts after the first start ever of the pod, whose
reconciler finds nothing; the overlap of two pods during a rolling update of
build-api itself is not modelled.

### The API modules

All nine have one shape. A request is a record in a function of requests
(`appTask`, `wlTask`, `acctTask`, ...): the step it stands before, what it was
asked and what it has read. An action is what a handler does between two awaits:
guards and early returns before it, the statement or the call, and where the
handler goes next. Whatever another request does comes between. A call that fails
or a process that dies is an action of its own, so a handler may end after any
statement. A request is handled once and gives the row it inserts its number, so
`id` of a row says who made it.

- `ApiApps`: `InsertApp` and `ProvisionStepFails`, `CreateDatabase`, `CreateRole`,
  `CreateSecret`, `RecordResource` are the registration, which logs a failing step and
  goes on; `TwinDatabase` and `TwinRole` are another application whose name has the same
  slug (`a-b` and `a_b`), and so the same database and role, registered first; `StoreVars`, `ReadMap`, `PutMap` the variable routes (row first, then the
  ConfigMap read, merged and replaced under its resourceVersion); `ChooseImage`,
  `UpsertDeployment`, `RecordDeployment` deploy and promote; `DomainRow`,
  `WriteRoute`, `VerifyDomain` a custom domain.
- `ApiWorkloads`: the gate counts rows, takes a limit from a cache of a minute and
  lets the handler insert; parts of a manifest are applied one by one; applying or
  deleting the ScaledObject may fail without ending the handler (`BestEffort`). All tenants'
  objects share one namespace, as in the code, and two rows may have one name: the unique
  constraint is only in a statement at start that may not have run (`server.ts:529`).
  `UpgradePlan` gives a tenant any plan, with no payment asked for (`plans.ts:160-214`,
  `admin.ts:185-195`).
- `ApiProjects`: children disappear with their project, as the foreign keys say; the
  environments of a new project are inserted one by one, in no transaction, and a creation
  that ends half-way is not answered.
- `ApiAuth`: a refresh deletes the token it was given and inserts another;
  `acctRoot` is the login a token descends from.
- `ApiBilling`: the amounts of an invoice are a sum over its items and the GST on that
  sum, rounded as the code rounds it (`Paise`, `WithGst`). Razorpay is external: a payment of an order fails or is captured, and its
  events are delivered any number of times, in any order.
- `ApiData`: the storage provisioner's loop (claim, create, mark) is a goroutine per
  row, since the code starts one for each row it claims.

`KeyStore` is what the variable routes promise: each request takes effect once, at
one moment, on the keys that are there, or not at all. `ApiApps` is shown to
implement it: `content` is mapped to the keys of the ConfigMaps, `request` to what
each task was asked and whether it is over; `PutMap` is `Apply`, a conflict or a
failure `Drop`, everything else a stutter or `Ask`.

### The service modules

A DLQ may lose what it is given: publishing does nothing without NATS, and a throw is
swallowed (`billing-chain/shared/nats.js:28-40`, the same file of ops-security,
`lago.js:92-114`), so every report to it is a choice, and the properties say
what is known without it.

Each follows the awaits of its source in the same way; a webhook process is
single threaded, but its handlers are not awaited, so several run at once
(`payJob`, `planJob`, `pager` are functions of workers). CronJobs run one at a time
(`concurrencyPolicy: Forbid`) and are retried when they exit with an error. Time
is counted in what the code compares: days (`BillingChain`, `Maintenance`), windows
(`Metering`), months (`Reporting`); only dates at which something may happen are
visited (`BillDays`).

### The client modules

A page is a record of what it shows, its calls a sequence in the order made. A
call is sent, reaches the API or not, is answered or its answer is lost, and is
heard by whatever the page has become: nothing in these clients cancels a call. JMAP reports
the error of one method inside a successful answer, and the routes of the web mail look at little
of it: a route may answer ok with nothing done (`Submit`, `MarkSeen`, `MoveToTrash`). The Enter key
of an input adds a variable or a domain beside a call that is under way (`HandleAdd`,
`AddDomain`), whatever the button next to it says.
The reverse proxy of the dashboard refuses a write without `x-tinai-csrf`, and some
pages do not send it (`Refused`). `JsClient` steps are turns of the event loop.

## Runs

Each run asks one question of one instance.

| run | instance | question | result |
|---|---|---|---|
| `hub_sessions` | 1 pod, 2 sessions of one tenant (symmetric), 2 channels (one foreign), queue of 2, buffer of 1, 1 NOTIFY, 2 frames each, 1 crash | does any order of commands, callbacks and clean-ups send on a closed channel, leak a NATS subscription, or leave an ended session in the hub? | holds |
| `hub_pods` | 2 pods, 1 session, 3 channels of two tenants, two of which (one of each tenant) share a subject, 2 NOTIFYs, 3 frames, 1 crash | how many copies of a NOTIFY reach a session, in what order, on which channels, and notified on which? | holds |
| `hub_liveness` | 1 pod, 2 sessions, queue and buffer of 1 | does one pump stopping end the session although the queue may be full? | holds |
| `hub_cleanup` | as above | is the clean-up always run? | violated, see below |
| `bridge` | 2 sessions of one tenant, a second tenant, buffer of 1, 2 events | do callback, sessions and shutdown interleave without a send on a closed channel, foreign or reordered events, or sessions that never end? | holds |
| `bridge_shutdown` | as above | does Shutdown close every registered connection? | violated |
| `build_deploy` | a tenant's push and its pull request, a platform push in a second region, scan on, 2 events, 1 crash | images, namespaces, guard rails, and does every goroutine end? | holds |
| `build_requests` | 2 builds of one application, 1 promote/rollback request, 4 events, 1 crash | is the rollback annotation the predecessor? | holds |
| `build_preview` | one preview build, 1 crash | does a preview stay out of staging? | violated |
| `build_scan` | a push with a CRITICAL finding, 1 crash | does a refused image stay out? | violated |
| `services` | the services and clients, one focus at a time | do money, usage, deploys, tenants, alerts, leases, reports, connections and pages keep their promises, whatever is repeated, reordered, lost or restarted? | holds |
| `api` | the API modules, one focus at a time | do credentials, variables, limits, records, rights, payments, audit and domains stay right, whatever requests race and wherever one ends? | holds |

### The two sums

The services share no state, nor do the API's route modules as far as they are
modelled (what a route reads of another's table is part of its own module). Their
product says nothing their sum does not, so `MCServices` and `MCApi` let a
behaviour follow one of them, the `focus`, chosen at the start; the others stay as
they started, and what starts in several ways does so in its own focus only. A
component of several independent parts has a focus for each (`pay`, `trial`,
`plan`, `invoice`, `meter`, `batches`, `pipe`, `scale`, `tenants`, `env`, `adds`, ...; `register`, `repo`, `vars`,
`deploy`, `workload`, `quota`, `payment`, ...). A module with
proofs has its own `Next` and `Spec`, which follow all of its parts at once.

Inside a focus the `MC` modules bound further: requests that are interchangeable
arrive in the order of their numbers (`InOrder`, a symmetry that sets of model values
could not express, since ids are compared), a third request only where two do not
show the race, one tenant first (`who # "bolt"` for the first request) where tenants are
interchangeable.

What the properties say (`X = A /\ B`: the parts are defined, with their reasons, in
the modules):

| property | says |
|---|---|
| `SuspendedForCause` | a handler starts a suspension only if its process handled a failed payment three days ago or earlier and no successful one on a later day |
| `MoneyIsAccounted` | an event that has an id is handled once in a day; a trial row that says suspended runs nothing; quota and Lago part only after a change that was answered as a failure, unless changes overlapped or died |
| `UsageIsBilled` | a slot is billed once per life and manual run; what the window has passed was counted, is among the failed events of a cycle's summary, or belongs to a cycle that collected nothing |
| `DeploysAreJudged` | a build announced as a success came up, or was announced over pods of an earlier template that had (the poll does not tell them apart), unless another pipeline or a rollback changed the template meanwhile; while there was one build only, nothing is rolled back to a stripped template |
| `TenantsAreWelcomedWhole` | a tenant is mailed once and announced with all its resources; a half-made one belongs to a request that is at work on it, failed or died |
| `UnattendedIsCareful` | a P1 alert is not muted before somebody was told; a claim is deleted after grace, and after notice unless the mail failed or the answer to the tagging was lost; no client loses its lease before its restart; a pod is forced once per hour for each of its containers |
| `ReportsComplete` | a Job that succeeded mailed every tenant that has an address, at most once per try; the export has exactly the month's paid INR invoices, January included |
| `CompleteMeansApplied` | `tinai deploy` says complete when the cluster has every service, volume and database as `tinai.json` describes it, and the Ingress of every domain that is the last of an existing service |
| `ConnectionIsRight` | a wanted connection is there or on its way; the open one is subscribed to what is wanted, with the session's token |
| `SentAsTold` | a window has one send under way at most; a message is submitted again only after an error; a window closes as sent on an ok answer to a send of its own or of an earlier window |
| `SpinnersEnd` | whatever a page shows as busy has a call under way that ends it |
| `CredentialsMatch` | until the application is deleted, and unless another of the same slug came first, the secret's password is the role's |
| `VariablesAreAtomic` | the variable routes implement `KeyStore` |
| `LimitsHold` | a tenant is within the best plan it has had, unless two requests stood between count and insert; no quota without every policy |
| `RecordsAgree` | no object but a ScaledObject without a row, no project without production, no flag value unknown to its history, an invoice is the sum of its items and the GST, a deployment without warning is whole |
| `RightsHaveOneHolder` | one live token per login; the owner stays the only owner |
| `PaidWasCaptured` | an invoice is paid when Razorpay captured a payment of an order made for it |
| `ConfirmedOnceInAudit` | an erasure or a withdrawal is in the audit once, unless the audit call was lost |
| `VerifiedByOwnRecord` | a verified mail domain has had the record with its own row's token |

Exceptions in these statements are not slack: each names a race or a failure the
code does not handle, recorded in a history variable (`wlRaced`, `planMixed`,
`genMixed`, `auditLost`, `teamBlind`, `appTwin`, `unwarned`, ...) at the step where it happens, so that the
property still speaks of every other behaviour.

### Bounds

The hub's hazards need a queue that is full, a session
that subscribes and unregisters while another broadcasts, and a callback that
outlives its subscription: two sessions, a queue of one or two, and two frames
reach all of them. Multiplication of NOTIFYs needs a second pod, and order needs a second
NOTIFY. Isolation needs a second tenant with two channels, one of which has the subject of the
first tenant's and one that does not. In the bridge two events over a buffer of one give both a drop and a
delivery. Every deploy hazard is between two goroutines at one place, or between a
watcher and the recovery after one crash; `MaxEvents` of 2 to 4 lets two builds, a
rollback and a promote overlap, or an image be pushed, built, its pull request opened
and the pod be restarted in between.

In the API a race needs two requests, and a third that makes what they race for
(three or four requests, two tenants, two names); in the services two workers, two
events and a repetition. Days are those at which a rule changes (0, 1, 4, 7, 13, 14,
25, 30). `MaxReplicas = 1` and `DedupCap = 0` make the pruning of processed events
happen within the run. Pages get two visits, which gives answers to a page that is
gone, and as many calls as two overlapping writes with their reloads need.

`CHECK_DEADLOCK FALSE` in every run: inputs are bounded (webhooks, frames, requests,
NOTIFYs, crashes), and once they are used up the system is at rest, as the real
one is when nothing arrives.

## Fairness

Liveness is checked in the hub, the bridge and the builds, under fairness of the
goroutines and nothing else. The two sums check safety: what their properties ask
(`SpinnersEnd`, `ConnectionOnItsWay`) is that something is under way that ends the
wait, which needs no fairness, since neither the network nor the API owes an answer.

- A goroutine that can run, does (weak fairness): `Hub.Run`, the clean-up steps,
  the watcher, the deployer and the reconciler. Each API call returns: a watcher has
  deadlines of its own (15 minutes, 5 for the scan, 5 for the deploy); the calls of
  the reconciler and of a preview's goroutine have none in this code and rest on the
  API server answering, well or badly. `CallFails` belongs to the same fair action
  as success.
- A sender blocked on a Go channel is queued and served in turn, although others
  fill the channel meanwhile: strong fairness of `Unregister`. `select` picks among
  ready cases at random: strong fairness of `PumpStop`.
- A write ends by its deadline (`WriteEnd`); a read on a closed socket returns
  (`ReadError` when the pump has exited, only then).
- Nothing is owed by peers, publishers, PostgreSQL, NATS, Kaniko, SIGTERM or
  crashes. In particular a Job may run forever, so `GoroutinesEnd` rests on the
  watcher's own deadline.

## Proofs

TLAPS proves, for every value of the constants, what the runs check on small ones.

Assumptions on constants (named in the modules, evaluated by the runs):
`MapsAssumption` (pods, tenants and subjects are functions of sessions and
channels), `BoundsAssumption` (a queue holds at least one command; counters are
natural numbers), `NoneAssumption`; `BridgeAssumption` (a session has one tenant, none of
which is `None`; bounds are natural numbers); `RoutingAssumption` (a build has a region and a
preview's is the home region), `ImageAssumption`, `BoundAssumption`.

Most of the others say that a request or a push has a number, that a bound is a natural
number, and that the word a column uses for nothing is the name of nothing:
`ApiAppsAssumption`, `ApiAuthAssumption`, `ApiWorkloadsAssumption` (which also says that a
network policy is not called quota), `ApiAssistAssumption`, `ApiBillingAssumption` (the usage and the
minutes of the model are bounded by natural numbers),
`InfraCliAssumption`, `WebMailAssumption`, `SignInAssumption` (a minute allows one call),
`DashPagesAssumption` (there are two pictures to launch), `OpsTenantsAssumption` (a network
policy is among what a tenant gets). `BillingAssumption` says days are natural numbers and events have
a provider, a kind and a tenant; `MeteringAssumption` that an interval has a slot and a batch
an attempt; `MaintenanceAssumption` that there is a lease to rotate to; `OpsAlertsAssumption` that
a fingerprint has one severity and a payload is a list of alerts; `OpsPipelineAssumption` that a
monitor polls at least once.

Finiteness is assumed where something is counted: `PodsAssumption` (a bound by the number of
pods needs it), the pushes, and the tenants and tables of the JavaScript client (the bound on
its queue is their number), the invoices and the requests to the dashboard
(`ReportingAssumption`: pages and versions are counted), and the privacy requests
(`ApiPrivacyAssumption`: the clock and the audit entries are bounded by their number). Nothing else is assumed of the number of anything, and
nothing of how tenants share NATS subjects.

### Hub

Theorems: `TypeCorrect`, `SubscribersStayOpen`, `NoSubscriptionLeaks`,
`TenantsAreIsolated` (`OwnTenantOnly`), `PayloadsStayWithTheirTenant`,
`EndedStaysForgotten`, all from `InvariantHolds`. `RelayKeepsOrder` and `CopiesAreBounded` add
two more invariants.

`SubscribersAreOpen` is not inductive: a subscribe may still be queued when its
session leaves. The invariant `IInv` therefore says what the queue of a pod may hold
about a session: a subscribe comes after the session's register
(`SubscribeAfterRegister`), an unregister is its last command
(`UnregisterIsLast`), a register finds its channel open (`RegisterFindsOpen`);
and ties that to the handler's position (`HandlerInv`) and to the maps (`HubInv`).
`TenantInv` carries the check of `readPump` through the queue (`WellFormedQueue`)
to the buffers. `OriginInv` says of everything on its way to a session (in a queue, on the
wire, in a callback, in a buffer) on which channel it was notified: the very channel it is
labelled with if it comes from the pod's own relay, one of the same subject if it comes from NATS.
So what a session receives under its own channel is its tenant's, unless two tenants have
channels that share a subject, which `hub.go:205-206` permits; `PayloadsStayWithTheirTenant`
assumes they do not (`SubjectsSeparateTenants`). Each action has a lemma; the three facts about the initial state,
the step and the consequence are joined by the temporal prover.

`RelayKeepsOrder` (`RelayOrder`) rests on `OrderInv`: what a session has been sent is older
than every relayed broadcast in its pod's queue, that queue is in the order of the NOTIFYs,
and the relay has gone past all of it. A step either drops from the front of a queue or
appends something no relay sent (`QueueMove`), moves a payload from the buffer to the socket
(`SameItems`), queues the next NOTIFY, or delivers the head.

`CopiesAreBounded` (`CopiesBounded`) counts. By `CopyInv` the copies of a NOTIFY that a session
got on a channel, and those still under way to it through its pod (on the wire, in a callback
that outlived its subscription, in the queue), are at most the pods that have published
it: those whose relay is past it with nothing of it left in the queue. A publication
adds a pod to these and at most one message to each subscription; every other step moves a
copy on or loses it. That a pod publishes a NOTIFY once is `OrderInv` again.

### Builds and deploys

Theorems: `BuildTypesHold`, `DeployedWasPushed`, `TenantsRunAtHome`,
`TenantsRunFenced`, `PreviousIsPredecessor`, from `BuildInvariantHolds`.

No property is inductive, because a goroutine carries what it will do through many
calls. `IInv` says what a task may carry given its step (`GoodTask`): a watcher stands
for its own build and that build's target; a deploy carries a pushed image that fits
its place (`Fits`); whoever stands before a Put holds a Deployment that was good for
that place and, when its copy is fresh, the very one that is there; and in a tenant's
namespace the parts of the fence that precede its step exist (`Fenced`,
`DoneBefore`). `DeploymentInv` says the same of what is deployed, the previous-image
annotation included. `GoodTaskStays` shows that other goroutines cannot spoil a task:
images are only added, the parts of a fence are never deleted, and a write that
changes a Deployment takes the freshness of everybody else's copy away. `PreviousIsPredecessor`
is an action property: only `ApplyPut` and `RevertPut` change a Deployment into another,
and both write over exactly what they read.

### Bridge

`RealtimeBridgeProofs`. Theorems: `BridgeInvariantHolds`, `BridgeTypes` (`TypeOK`),
`BridgeHasNoGhosts` (`NoGhosts`), `BridgeOwnEventsInOrder` (`OwnEventsInOrder`) and
`BridgeSendsNothingAfterClose` (`NothingAfterClose`).

None of these is inductive. `NothingAfterClose` needs `ConnInv`: a connection whose
`Send` is closed is not open, and its handler is past the only step that would open it;
then it does not matter how old the callback's copy of its targets is. `NoGhosts` needs
`MapInv`: a set lists sessions of its own tenant that have not reached `Unregister` yet, and
a subscribe happens only in a handler that still reads. `OwnEventsInOrder` needs the
order of everything an event may be behind: what is on the wire is increasing and newer
than the event the callback holds (`WireInv`), and what a session has been sent is
increasing, not newer than that event, and strictly older as long as the session is among
the targets (`StreamInv`). So a send extends an increasing sequence (`Extend`), a
write moves its head across (`Shift`), and the next snapshot makes all of it older.

### The API, one component at a time

`ApiRecordsProofs` proves each against the specification of its own module.

*Applications.* Theorems: `AppsInvariant`, `Credentials` (`CredentialsMatch`) and
`VariablesImplementKeyStore` (`VariablesAreAtomic`).
`CredentialsMatch` is not inductive: a registration that has made the role has yet
to make the secret. `CredInv` says who may hold an unsaved password: before the row
exists neither password does and nobody provisions; since the name is unique, at most
one request provisions; and while it does, each password is absent or its own. A
deletion ends all that, hence `~appDropped`; and so does another application of the same
slug that made the database first, whose role keeps its own password, hence `~appTwin`.
The refinement rests on `AppSeenInv`: a version of a ConfigMap is written once, so a
request that has read the version the map still has has read the keys it still has,
and its replacement is its own addition or removal applied to what is there. Each step
is mapped to `Ask`, `Apply`, `Drop` or a stutter; the initial states are mapped to initial
states; the rest is temporal logic.

*Money.* Theorems: `MoneyInvariant`, `PaidIsCaptured` (`PaidWasCaptured`) and `InvoicesAddUp`.
The order id of an invoice is replaced by every pay request, so what the property needs is
where an order can have been paid and for what: an order exists only once its request asked for
it (`OrderInv`), and an invoice carries only an order that was made for it (`CarriesInv`). A
payment that was captured stays captured, hence a late event of a replaced order marks
the invoice for a reason that is still true. The subtotal of the invoice is a sum over a set
of items: `AddInv` says what the one call under way has still to write, so that the subtotal
is the items there and those to come, and the total that and the GST.

*Mail domains.* Theorems: `DomainInvariant` and `VerifiedWasProved`
(`VerifiedByOwnRecord`). A verification reads a row, waits for the DNS and writes. `RowInv`
says a row is inserted once, by its own request, which ends with that; so what a
verification remembers of a row is true or the row has gone (`SeenInv`), and the update by
id meets the row it read or none.

*Privacy.* Theorems: `PrivacyInvariant` and `ConfirmationsAreRecordedOnce`
(`ConfirmedOnceInAudit`). The change is one conditional statement and the audit another
call: by `AuditInv` a change that happened is owed to the audit by exactly one request, or
lost, or recorded once. `FreeInv` and `StepInv` keep a request that comes later from making
the record it is to confirm.

*Projects and generated applications* have their invariants here (`PrjInv`, `CgInv`,
`ObsInv`) and their theorems below. A project is made by its own request and by no other, which
still owes the production environment until it is there; a deployment has the repository
of its name to itself until it is answered, and what it has not pushed it still has to push
or has counted as an error.

### The API composed

`ApiProofs`, against `ApiSpec`: a step of the API is a step of one module and leaves the
variables of the others alone.

- `LoginsHaveOneHeir`, `TeamsKeepTheirOwner`, `RightsHold` (`RightsHaveOneHolder`). That a login
  has one heir needs the right itself to be counted wherever it is: as a token, or in the
  hands of a request that is about to create one (`HeirInv`, with `TokenInv`). A magic code
  that is kept has bought nothing (`MagicInv`). That a team keeps its owner needs what
  requests remember: none writes the role of owner, and none that has read a membership
  writes to the owner (`RoleInv`, `InviteInv`); before there is a team there is nothing to
  have read (`NoTeamInv`).
- `TenantsKeepToTheirPlan`, `QuotaComesAfterPolicies`, `LimitsAreKept` (`LimitsHold`). Plan, cache
  and what a request read are covered by the best plan the tenant has had (`LimitInv`), so the
  request past the gate, alone there unless it raced, has room for its row (`RoomInv`). A call
  at a step of the provisioning has done the steps before it (`NsInv`).
- `NothingIsOrphaned`, `ProjectsAreWhole`, `DeploymentsAreWhole`, `ViewsAddUp`,
  `RecordsKeepAgreeing` (`RecordsAgree`). The objects of a name that one request uses at a time
  belong to a tenant with a row; a request that applies has the row, one that deletes has
  deleted the parts before its own (`OwnsRows`), the ScaledObject excepted.

- `ApiTypes` (`ApiTypeOK`). A type that is a bound needs what keeps to it. The amount of an
  invoice is at most what two kinds of usage allow, because what a call has read is within the
  bound, and it makes items only of what costs something (`BillInv`, `CallInv`); a replica logs
  only minutes that have passed (`TickInv`). A privacy request advances the clock and writes the audit once, so both are at
  most the number of requests that have got that far (`CountInv`), which is at most that of
  all. A branch is made of the database its request has read, a mailbox belongs to a user,
  and a record to a domain a request has named (`PgInv`, `BoxInv`, `HostInv`). The modules' invariants
  are gathered in groups that are inductive each for itself (`GroupsKeep`, `ApiTyped`).

`SumProofs` has what these need of the sums of the community modules: one more element adds its
number, in whatever order the fold takes them. The induction is on the size of the set,
over the least number that would be wrong.

### The services composed

`ServicesProofs`, against `SvcSpec`; `ClientProofs` has the clients' part. Each service has an
invariant that its own steps keep and that speaks of its own variables only (`PayStands`,
`TrialStands`, ...); a step of the services is one of one of them (`StepOfOne`), so their
conjunction `SvcInv` is inductive (`SvcStep`, `ServicesInvariant`). Theorems and what each needs
beyond its property:

- `MoneyStaysAccounted` (`MoneyIsAccounted`), with `HandledOnce` and `SuspensionsHaveACause`
  (`SuspendedForCause`, a property of steps). `ClockInv` ties the clock of a key to the history:
  it runs from a failure the process handled, and no success was handled on a later day.
  `RecordInv` ties the pruned map to the history: what was handled is recorded with the day of
  its last handling, or more than a day old. A restart forgets both sides at once. `TrialInv`:
  a run says suspended only of a namespace all of whose Deployments it patched, and nothing
  starts one again. `PlanInv`: a tenant none of whose changes failed, died or overlapped has at
  most one change under way, and how far it is says what the quota and Lago hold.
- `UsageStaysBilled` (`UsageIsBilled`). A count of transactions is kept by counting what may still
  be billed: `SlotsKeep` adds to the transactions over a slot the one the scheduler and the
  one a manual run have yet to send; their sum never exceeds the lives and manual runs.
  `PassedKept` says where a slot is that the scheduler has passed.
- `DeploysStayJudged` (`DeploysAreJudged`). A pipeline that waits untouched waits for its own template,
  the newest (`WaitInv`), what has pods up has served (`PodsInv`), what serves in full was sound (`ServingInv`), and as long as a single build has
  begun every template and every old ReplicaSet is that build's (`LoneInv`).
- `TenantsAreWelcomed` (`TenantsAreWelcomedWhole`). One request at most gets past the namespace
  (`CreatorInv`) and has made what it no longer has to make (`WholeInv`); a mail that is due has
  not been sent, to someone announced (`GreetInv`).
- `UnattendedStaysCareful` (`UnattendedIsCareful`). `ClaimInv`: a tag means someone was told, is about to be
  by the run that set it, or was not because that run lost its mail or an answer. `SecretInv`: once the first client was restarted the Secret
  holds a later lease. `HealInv`, `PagerInv`: the container for which a pod was deleted by force is muted for its hour; the
  loop over a payload stops at the P1 alert it is to mail.
- `ReportsStayComplete` (`ReportsComplete`). A tenant has at most one mail of each try, and one at all if it has an address (`BatchOK`). The
  pages of the export are read by rank: the invoices of a month have the ranks 1, 2, ..., each once
  (`RankFacts`, `EveryRank`), so what has been read is the first pages and a page that is not full
  is the last (`LastPage`, `GstOK`).
- `CompleteWasApplied` (`CompleteMeansApplied`). What kubectl has no longer to apply is in the cluster
  as in the file (`CliInv`); that the files are `tinai.json` is a lemma about the generator, in which
  the last domain of a service is the routed one (`RoutedIsLast`).
- `ConnectionStaysRight` (`ConnectionIsRight`). The queue replayed over what is sent on opening gives the
  channels of the application, and an open current socket has an empty queue (`Wire`); while
  something is wanted, a timer, a resolution or a socket will bring it (`Way`).
- `MailsAreSentAsTold` (`SentAsTold`). Of the calls of a compose window one at most has not come
  back with an error, and while its button is enabled none (`SendInv`); the window that an answer
  closes is the one of the send or a later one.
- `SpinnersAlwaysEnd` (`SpinnersEnd`). The property is nearly inductive; it lacks which
  call ends which wait. A form of the endpoints waits for its own creation only
  (`FormWaits`); a panel has at most one call under way and is busy exactly then (`SignInv`); a save
  of the configuration is followed by the reload that its part waits for (`EnvInv`).

- `ServicesTypes` (`SvcTypeOK`). The types that say more than a set of values need an invariant
  each. Every webhook of an invoice that was delivered was mailed, is on the DLQ or has a
  handler (`InvoiceInv`), so mails and DLQ entries are no more than the announcements; what a
  restored namespace is scaled to was saved (`SavedInv`); the DLQ store keeps to its limit
  (`RingInv`); whatever a lease is used for, Vault has issued it (`LeaseInv`).

### Only model-checked

Liveness (`SessionLeaves`, `ClosedSessionsEnd`, `GoroutinesEnd`): liveness under
fairness is beyond the provers used, as is induction over data. Every invariant and
every other action property of the passing runs is proved.

## Disagreements

Four runs show the code doing other than its own comments say. `findings` quotes
the lines.

1. `hub_cleanup`: `ws/handler.go` says the session is unregistered after
   `readPump`. When `readPump` denies a channel while `writePump` is inside a
   write, the socket library panics in the handler; net/http recovers it, and the
   clean-up is skipped. The hub keeps the session.
2. `bridge_shutdown`: `Shutdown` "closes all registered connections"; it closes
   those in the tenant map. A connection that has not subscribed is in no map.
3. `build_preview`: a preview "never touches staging or production namespaces".
   After a restart, `ReconcileStaleBuilds` deploys a succeeded preview Job to shared
   staging: of its annotations it reads `deploy-*` only, not `preview-*`.
4. `build_scan`: the watcher blocks images with CRITICAL findings; after a restart,
   the reconciler deploys them unscanned.

The liveness and safety properties that hold are stated so that they do not depend
on these: `SessionLeaves` speaks of sessions whose handler did not panic.

## Hazards no property covers

What was found while modelling and no property guards, beyond those in `hazards`; the
models contain the behaviour unless it is under Not modelled, and the properties above
are stated so that they do not hide it.

Realtime and builds (`src/platform/services/tinai-realtime`, `tinai-build-api`):
`pg/relay.go:106` back-off never reset; `hub/hub.go:183` a failed NATS subscribe is not
retried; `hub.go:206` channels whose names differ in `:` and `.` only share a subject, so a payload of one tenant
can reach a session of another under the session's own channel (`OwnTenantOnly` says that this is the
only way; `PayloadsStayWithTheirTenant` is what holds without it); `builder/job.go:430`, `:417`, `:391`
recovery of regional and still-running Jobs, order of finished builds;
`preview.go:89` a preview closed while building; `api/handler.go:328`,
`deployer/deploy.go:179` namespaces of a rollback.

Billing: `metering-bridge/src/index.js:66` the window advances after a failed
discovery, and a failed query counts as 0 (`prometheus.js:138`);
`payment-webhook/src/index.js:46` an event without an id is never recognised as a duplicate;
`shared/nats.js:28` and `lago.js:92` what a DLQ was to hear may be lost; `plan-handler:206` two changes of
a tenant that cross leave the quota of one and the plan of the other (`planMixed`);
`payment-webhook/src/index.js:158` Stripe tenants are never suspended, `:55`/`:270` an event
is recorded before it is handled; `shared/k8s-namespace.js:68` a repeated suspension saves
0 as the replicas to restore; `trial-lifecycle:92` a mail that fails after the update is not sent again;
`invoice-generator:147` created and finalized are both mailed.

Operations: `rollback-controller:73` a merge patch drops probes and ports; `:134` the
monitor of an old build judges a newer one; `build-deploy:218` the target of a rollback
is ignored; `:204` updated pods that are not ready and available pods of the old template make a success;
`:304` success, then failure when the mail fails; `hpa-scaler:175`
reconciliation undoes an override; `namespace-provisioner:279` a retry ends at the
namespace that exists; `onboarding-sequence:161` timers do not survive; `dlq-monitor:49`
two subscriptions count a message twice; `egress-anomaly:87` the spike rule cannot fire;
`cve-scanner:87` a failed scan passes.

Maintenance and reporting: `storage-cleanup:172` a tag whose answer was lost is in no mail, and the
claim is deleted a grace period later; `self-healing:148` a pod is deleted once per hour for each
container that crash-loops; `usage-report:140`, `compliance-report:166` a tenant without an address is
passed over and the Job succeeds; `secret-rotation:187` revokes in dry runs too; self-healing
never uncordons; `image-updater` opens duplicates; log rotation archives 5000 lines at most;
`compliance-report:53` nodes that could not be listed are an empty list.

API (`tinai-api/src`): `apps.ts:104` two names with one slug share a database and a role, and the
second's secret has another password; `apps.ts:115` a step of provisioning that fails is logged and the
registration answered; `:704` a deletion removes the row and nothing else; `:1271` and
`:1317` a conflict of the ConfigMap leaves the variable in the row only; `server.ts:149` a
webhook without the CSRF header is refused, `/payments/webhook` among them;
`workloads.ts:387` a ScaledObject that could not be deleted stays when its row goes;
`server.ts:550` the unique name of a workload is missing from `013_workloads.sql`;
`plans.ts:190` a plan with a price is assigned before any payment;
`workloads.ts:433` the tenants share a namespace; `planGate.ts:170` a limit may be a minute
old; `instances.ts:146`, `projects.ts:63` and `teams.ts:275` read and then write;
`volumes.ts:121` a claim that fails is only logged; `auth.ts:354` a magic link leads to a page
the dashboard does not have; `cronJobs.ts:107` a statement that fails after the call is
answered as a failed call; `databases.ts:777` deleting a branch deletes the clusters of all
branches of its parent, `:219` a database row goes although its drop was not dispatched;
`storage.ts:218` and `inference.ts:209` overwrite what a provisioner wrote since the read;
`usageMetering.ts:80` every replica meters; `razorpay.ts:56` its routes are registered nowhere;
`ropa.ts:141` fields not sent are written back as they were read; `cloudflare.ts:46` the
tunnel document is overwritten; `codegen.ts:314` a job is known to one replica;
`forge.ts:48` a call that timed out counts as refused.

Clients: `jmap.ts:25` a method's error inside a successful answer counts as success, and the window closes
as sent; `page.tsx:157` an answer closes whichever compose window is open; `EnvVarEditor.tsx:102` a late
answer may close the dialog of another variable; `tinai.js:190`, `:301` a domain of an unknown service is
skipped and the Ingress of a service's earlier domain overwritten, and deploy still says complete;
`tinai-js/src/realtime.ts:303` what is queued while the socket closes again is
dropped; `infra/cli/tinai.js:269` manifests of services that are gone stay and are applied;
`EmailView.tsx:86` a late mail is shown in place of the one chosen since;
`EnvVarEditor.tsx:256` "mark as secret" saves an empty value; `login/page.tsx:73` the answer
of a panel that is gone replaces the session of a later sign-in; `users/page.tsx:66` a failed
change of role is not shown; pages that send no `x-tinai-csrf` (`instances/new`, `generate`,
the compliance pages, revoking a key, deleting the account) are refused by the dashboard's own
proxy.

## Not modelled

Inside the modelled components: authentication of webhooks and sockets, manifests,
prices but those of invoices, texts, PDFs, logging, metrics, the JSON of frames, language detection and
Dockerfile generation (no state), and real time (back-offs, TTLs and deadlines are
nondeterministic choices, with the timing assumptions named above and in the modules). Also
the wildcards of NATS subjects (no channel name of the code's own has one), the dry run of the storage
clean-up, and the rewriting of what a manifest says of TLS and paths.

Routes of the API that change state and are left out: rotating an application's webhook secret, editing a
cron job, triggering it, queue jobs, renaming a variable, editing a firewall rule and the
IP rules, evaluating flags, the forge's check, pause and rollback, creating alerts and
notebooks, creating an activity, profile and notification settings, tokens of deploy hooks
and integrations. They are single statements on one row.

Whole parts:

- `razorpay.ts` (orders of plans, verification, a second webhook): `server.ts` never registers
  `razorpayRoutes`, so the running API does not serve them. Plans are assigned without a payment
  (`plans.ts:160-214`, `admin.ts:185-195`), which `UpgradePlan` of `ApiWorkloads` models.
- gateway: check, upstream call and record of a quota; left for later.
- forge rollout engine: the API's type assertion never matches it, so it is not
  started today.
- storage provisioner's databases: the pattern of the buckets, which `ApiData` has.
- tenant operator, auth service: left for later.
- functions, backup, usage, edge agent, TLE, developer portal, guard: request handlers
  or periodic jobs without state of their own.
- the dashboard's pages that only show something; infrastructure definitions.

## Plan

What is left, in order of what a failure would cost:

1. `GatewayQuota` (check, upstream call, record) and `TenantOperator` (reconcile under
   failures).
2. `RealtimeHub` as an implementation of an abstract publish/subscribe specification;
   the hub and the bridge composed over one socket, whose single writer they share.
3. The life cycle of a preview (closed while building), and the order of builds that
   recovery disturbs.
4. The crossing of two plan changes, and the dialogs that a late answer closes: what the code should
   promise about either is still to be settled.
5. The remaining pages of the dashboard that write: compliance, settings, projects.
