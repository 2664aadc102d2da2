------------------------------ MODULE BuildDeploy ------------------------------
(***************************************************************************)
(* tinai-build-api: a push (or a pull-request event) becomes a Kaniko Job, *)
(* a goroutine watches the Job and deploys its image when it succeeds, and *)
(* ReconcileStaleBuilds deploys, once per start of the pod, what a         *)
(* previous life of the pod may have missed.  Everything is concurrent:    *)
(* one goroutine per watched Job, one per pull-request event, one          *)
(* reconciler, one per HTTP request; they meet only in the Kubernetes API. *)
(*                                                                         *)
(* A goroutine is a task: the step it stands before (at), the place it     *)
(* deploys to, the image, and the Deployment it has read.  A step is one   *)
(* API call (a get-or-create of a supporting object counts as one: its     *)
(* loser only gets the error that CallFails gives any call).  The          *)
(* resourceVersion that makes a stale Update a conflict is the field       *)
(* fresh: a write to a Deployment clears it in every task that read it.    *)
(***************************************************************************)
EXTENDS Naturals, Sequences, FiniteSets

CONSTANTS
  Builds,         \* what is built: a pushed commit or a pull-request head,
                  \*   each with one Job name and one image tag
  Requests,       \* concurrent promote and rollback requests
  AppOf,          \* [Builds -> app], from the repository's full name
  OrgOf,          \* [app -> organisation], the tenant of a pushed repository
                  \*   (an app is named org-repo, so its name fixes its org)
  Admin,          \* the organisation tinai-admin, deployed to shared staging
  RegionOf,       \* [Builds -> Regions], from the repository's topics
  PullOf,         \* [Builds -> pull request or NoPull]
  NoPull,
  Regions,        \* region codes; HomeRegion is the default one
  HomeRegion,
  Critical,       \* images in which Trivy can find a CRITICAL vulnerability
  ScanEnabled,    \* SCAN_ENABLED
  NoImage,        \* no previous-image annotation
  MaxEvents,      \* bound: webhooks and API requests that arrive
  MaxRestarts     \* bound: crashes of the pod

ASSUME RoutingAssumption ==
  /\ RegionOf \in [Builds -> Regions] /\ HomeRegion \in Regions
  /\ \A b \in Builds : PullOf[b] # NoPull => RegionOf[b] = HomeRegion
ASSUME ImageAssumption == NoImage \notin Builds /\ Critical \subseteq Builds
ASSUME BoundAssumption == MaxEvents \in Nat /\ MaxRestarts \in Nat /\ ScanEnabled \in BOOLEAN

VARIABLES
  jobs,         \* build Jobs in the build namespace: "none" before creation
                \*   and after the TTL removed them
  registry,     \* images Kaniko has pushed
  deployments,  \* [Places -> Deployment or Absent]
  objects,      \* supporting objects that exist, as <<where, kind>>
  tasks,        \* the goroutines of the running pod
  todo,         \* succeeded Jobs the reconciler has listed and not handled
  blocked,      \* history: images a watcher refused because of its scan
  events,       \* webhooks and requests so far
  restarts      \* crashes so far

vars == <<jobs, registry, deployments, objects, tasks, todo, blocked, events, restarts>>

Apps == {AppOf[b] : b \in Builds}
Pulls == {PullOf[b] : b \in Builds} \ {NoPull}
Pushes == {b \in Builds : PullOf[b] = NoPull}

-----------------------------------------------------------------------------
(* Namespaces and places                                                   *)

\* deployer.go names the home region's staging namespace "tinai-staging"; ...
StagingNS(region) ==
  IF region = HomeRegion THEN <<"tinai-staging">> ELSE <<"tinai-staging", region>>
ProdNS(region) ==
  IF region = HomeRegion THEN <<"tinai-prod">> ELSE <<"tinai-prod", region>>
\* ... builder/job.go, which looks for it, spells every region out.
RegionToStagingNS(region) == <<"tinai-staging", region>>
TenantNS(org) == <<"tinai-tenant", org>>
PreviewNS(pull) == <<"preview", pull>>

Place(ns, app) == [ns |-> ns, app |-> app]
NoApp == "noapp"
Whole(ns) == Place(ns, NoApp)  \* the namespace itself, as the owner of an object

\* The target of DeployTenantApp for a tenant's repository and an admin one.
TenantTargetIgnored(app, region, tenantKnown) == Place(StagingNS(region), app)
TenantTarget(app, region, tenantKnown) ==
  IF ~tenantKnown \/ OrgOf[app] = Admin
  THEN Place(StagingNS(region), app)
  ELSE Place(TenantNS(OrgOf[app]), app)

\* Where the watcher sends an image, and where the reconciler does: of a preview
\* Job's annotations it reads the app, the image and the home region, and not
\* those that name the preview.
WatchTarget(b) ==
  IF PullOf[b] # NoPull THEN Place(PreviewNS(PullOf[b]), AppOf[b])
                        ELSE TenantTarget(AppOf[b], RegionOf[b], TRUE)
ReconcileTargetSpelled(b) == Place(RegionToStagingNS(RegionOf[b]), AppOf[b])
ReconcileTarget(b) == TenantTarget(AppOf[b], RegionOf[b], PullOf[b] = NoPull)

Namespaces ==
  {StagingNS(r) : r \in Regions} \cup {ProdNS(r) : r \in Regions}
    \cup {TenantNS(OrgOf[a]) : a \in Apps} \cup {PreviewNS(p) : p \in Pulls}
Places == {Place(n, a) : n \in Namespaces, a \in Apps}
Home(pull) ==  \* the place of a pull request's preview
  Place(PreviewNS(pull), AppOf[CHOOSE b \in Builds : PullOf[b] = pull])

-----------------------------------------------------------------------------
(* Tasks                                                                   *)

Reconciler == "reconciler"
Procs == Builds \cup Requests \cup Pulls \cup {Reconciler}

Absent == [image |-> NoImage, prev |-> NoImage]
Deployments == [image : Builds, prev : Builds \cup {NoImage}] \cup {Absent}
Exists(place) == deployments[place] # Absent

Fence == {"namespace", "quota", "limits", "policy", "secret"}
Ensured == Fence \cup {"preview", "service", "ingress"}

\* The order of the calls of one deploy.
AfterStep(step) ==
  CASE step = "namespace" -> "quota"   [] step = "quota" -> "limits"
    [] step = "limits" -> "policy"     [] step = "policy" -> "secret"
    [] step = "secret" -> "get"        [] step = "service" -> "ingress"
    [] step = "preview" -> "submit"    [] OTHER -> "done"

\* A namespace that exists taken for a namespace that is set up.
AfterNamespaceShortcut(place, step) ==
  IF step = "namespace" /\ <<Whole(place.ns), "namespace">> \in objects THEN "get" ELSE AfterStep(step)
After(place, step) == AfterStep(step)

FirstStep(place) == IF place.ns = TenantNS(OrgOf[place.app]) THEN "namespace" ELSE "get"

Steps == Ensured \cup {"idle", "poll", "scan", "submit", "get", "put", "list",
                       "next", "revert", "delete", "deleteService", "deleteIngress"}
Nowhere == Whole(<<>>)
Idle == [at |-> "idle", place |-> Nowhere, image |-> NoImage, seen |-> Absent, fresh |-> FALSE]
Tasks == [at : Steps, place : Places \cup {Nowhere}, image : Builds \cup {NoImage},
          seen : Deployments, fresh : BOOLEAN]
Task(step, place, image) == [Idle EXCEPT !.at = step, !.place = place, !.image = image]

\* A deploy that has ended, well or badly, ends its goroutine; the reconciler
\* goes on with the next Job.
Rest(p) == IF p = Reconciler THEN [Idle EXCEPT !.at = "next"] ELSE Idle

-----------------------------------------------------------------------------
(* The deployer                                                            *)

\* The same call on the same goroutine's own task, the others unaffected.
SetTask(p, task) == tasks' = [tasks EXCEPT ![p] = task]

\* A write to place: whoever has read the Deployment now holds a stale copy.
Write(p, place, value, task) ==
  /\ deployments' = [deployments EXCEPT ![place] = value]
  /\ tasks' = [q \in Procs |->
       IF q = p THEN task
       ELSE IF tasks[q].place = place /\ value # deployments[place]
            THEN [tasks[q] EXCEPT !.fresh = FALSE] ELSE tasks[q]]

\* ensureTenantNamespace and its parts, ensureService, ensureIngress,
\* ensurePreviewNamespace: get, and create when missing.
Ensure(p) ==
  LET t == tasks[p] next == After(t.place, t.at) IN
  /\ t.at \in Ensured
  /\ objects' = objects \cup
       {<<IF t.at \in {"service", "ingress"} THEN t.place ELSE Whole(t.place.ns), t.at>>}
  /\ SetTask(p, IF next = "done" THEN Rest(p) ELSE [t EXCEPT !.at = next])
  /\ UNCHANGED <<jobs, registry, deployments, todo, blocked, events, restarts>>

\* applyDeployment, the Get.
ApplyGet(p) ==
  LET t == tasks[p] IN
  /\ t.at = "get"
  /\ SetTask(p, [t EXCEPT !.at = "put", !.seen = deployments[t.place], !.fresh = TRUE])
  /\ UNCHANGED <<jobs, registry, deployments, objects, todo, blocked, events, restarts>>

\* Create succeeds on a free name, Update on the version that was read.
WritableBlindly(t) == TRUE
Writable(t) == IF t.seen = Absent THEN ~Exists(t.place) ELSE t.fresh

\* applyDeployment, the Create or Update: the image a Deployment ran becomes
\* its previous-image annotation when the new one differs.
ApplyPut(p) ==
  LET t == tasks[p]
      previous == IF t.seen.image \in {NoImage, t.image} THEN t.seen.prev ELSE t.seen.image
  IN
  /\ t.at = "put" /\ Writable(t)
  /\ Write(p, t.place, [image |-> t.image, prev |-> previous], [t EXCEPT !.at = "service"])
  /\ UNCHANGED <<jobs, registry, objects, todo, blocked, events, restarts>>

\* RollbackApp, the Update that swaps the image and its annotation.
RevertPut(p) ==
  LET t == tasks[p] IN
  /\ t.at = "revert" /\ Writable(t)
  /\ Write(p, t.place, [image |-> t.seen.prev, prev |-> t.seen.image], Rest(p))
  /\ UNCHANGED <<jobs, registry, objects, todo, blocked, events, restarts>>

\* Any API call of a deploy may fail (conflict, AlreadyExists, deadline): the
\* error is logged and the deploy ends where it stands.
CallFails(p) ==
  /\ tasks[p].at \in Ensured \cup {"submit", "get", "put", "revert"}
  /\ SetTask(p, Rest(p))
  /\ UNCHANGED <<jobs, registry, deployments, objects, todo, blocked, events, restarts>>

-----------------------------------------------------------------------------
(* Webhooks and build Jobs                                                 *)

\* One more webhook or request, within the bound.
Arrives == events < MaxEvents /\ events' = events + 1

\* Handler.ServeHTTP / triggerBuild: TriggerBuild creates the Job and starts
\* the watcher.  A Job of that name that is still there makes Create fail and
\* the request answer 500: nothing changes.
TriggerBuild(b) ==
  /\ PullOf[b] = NoPull /\ jobs[b] = "none" /\ tasks[b] = Idle
  /\ jobs' = [jobs EXCEPT ![b] = "running"]
  /\ blocked' = blocked \ {b}
  /\ SetTask(b, Task("poll", WatchTarget(b), b))
  /\ Arrives
  /\ UNCHANGED <<registry, deployments, objects, todo, restarts>>

\* HandlePREvent "opened": its goroutine ensures the namespace, then submits.
PROpened(b) ==
  /\ PullOf[b] # NoPull /\ tasks[b] = Idle
  /\ SetTask(b, Task("preview", WatchTarget(b), b))
  /\ Arrives
  /\ UNCHANGED <<jobs, registry, deployments, objects, todo, blocked, restarts>>

\* triggerBuildJob (a Job that is still there: CallFails).
SubmitPreview(b) ==
  /\ tasks[b].at = "submit" /\ jobs[b] = "none"
  /\ jobs' = [jobs EXCEPT ![b] = "running"]
  /\ blocked' = blocked \ {b}
  /\ SetTask(b, [tasks[b] EXCEPT !.at = "poll"])
  /\ UNCHANGED <<registry, deployments, objects, todo, events, restarts>>

\* HandlePREvent "closed": CleanupPreview, three best-effort deletes.
PRClosed(pull) ==
  /\ tasks[pull] = Idle
  /\ SetTask(pull, Task("delete", Home(pull), NoImage))
  /\ Arrives
  /\ UNCHANGED <<jobs, registry, deployments, objects, todo, blocked, restarts>>

CleanupPreview(pull) ==
  LET t == tasks[pull] IN
  \/ /\ t.at = "delete"
     /\ \/ Write(pull, t.place, Absent, [t EXCEPT !.at = "deleteService"])
        \/ /\ SetTask(pull, [t EXCEPT !.at = "deleteService"])
           /\ UNCHANGED deployments
     /\ UNCHANGED <<jobs, registry, objects, todo, blocked, events, restarts>>
  \/ /\ t.at \in {"deleteService", "deleteIngress"}
     /\ \E failed \in BOOLEAN :
          objects' = IF failed THEN objects
                     ELSE objects \ {<<t.place, IF t.at = "deleteService" THEN "service" ELSE "ingress">>}
     /\ SetTask(pull, IF t.at = "deleteService" THEN [t EXCEPT !.at = "deleteIngress"] ELSE Idle)
     /\ UNCHANGED <<jobs, registry, deployments, todo, blocked, events, restarts>>

\* The cluster runs the Job; the TTL removes it an hour after it finished,
\* long after its watcher (15 minutes and one deploy) has ended.
JobEnds(b) ==
  /\ jobs[b] = "running"
  /\ \/ /\ jobs' = [jobs EXCEPT ![b] = "succeeded"]
        /\ registry' = registry \cup {b}
     \/ /\ jobs' = [jobs EXCEPT ![b] = "failed"]
        /\ UNCHANGED registry
  /\ UNCHANGED <<deployments, objects, tasks, todo, blocked, events, restarts>>

JobExpires(b) ==
  /\ jobs[b] \in {"succeeded", "failed"} /\ tasks[b] = Idle
  /\ jobs' = [jobs EXCEPT ![b] = "none"]
  /\ UNCHANGED <<registry, deployments, objects, tasks, todo, blocked, events, restarts>>

-----------------------------------------------------------------------------
(* watchAndDeploy                                                          *)

WatchPoll(b) ==
  LET t == tasks[b] IN
  /\ t.at = "poll"
  /\ \/ /\ jobs[b] = "succeeded"
        /\ SetTask(b, [t EXCEPT !.at = IF ScanEnabled THEN "scan" ELSE FirstStep(t.place)])
     \/ /\ jobs[b] = "failed"
        /\ SetTask(b, Idle)
  /\ UNCHANGED <<jobs, registry, deployments, objects, todo, blocked, events, restarts>>

\* The scan blocks the deploy only when it reports a CRITICAL vulnerability:
\* a scan that fails or whose output cannot be parsed lets the image through.
WatchScan(b) ==
  LET t == tasks[b] IN
  /\ t.at = "scan"
  /\ \/ /\ SetTask(b, [t EXCEPT !.at = FirstStep(t.place)])
        /\ UNCHANGED blocked
     \/ /\ b \in Critical
        /\ SetTask(b, Idle)
        /\ blocked' = blocked \cup {b}
  /\ UNCHANGED <<jobs, registry, deployments, objects, todo, events, restarts>>

\* Fifteen minutes after it started, whatever the Job does.
WatchTimeoutNever(b) == FALSE /\ UNCHANGED vars
WatchTimeout(b) ==
  /\ tasks[b].at = "poll"
  /\ SetTask(b, Idle)
  /\ UNCHANGED <<jobs, registry, deployments, objects, todo, blocked, events, restarts>>

-----------------------------------------------------------------------------
(* ReconcileStaleBuilds                                                    *)

\* The Jobs the reconciler takes up: finished well, of the list it got.
RecoverableAny == {b \in Builds : jobs[b] # "none"}
Recoverable == {b \in Builds : jobs[b] = "succeeded"}

ReconcileList ==
  /\ tasks[Reconciler].at = "list"
  /\ \/ /\ todo' = Recoverable
        /\ SetTask(Reconciler, [Idle EXCEPT !.at = "next"])
     \/ /\ UNCHANGED todo  \* the List call failed
        /\ SetTask(Reconciler, Idle)
  /\ UNCHANGED <<jobs, registry, deployments, objects, blocked, events, restarts>>

\* One Job of the list, in the API's order (by name, so by commit hash): skip
\* it when a Deployment of the app is found in regionToStagingNS, otherwise
\* (not found, or the Get failed) deploy it.
ReconcileJob(b) ==
  LET checked == Place(RegionToStagingNS(RegionOf[b]), AppOf[b])
      target == ReconcileTarget(b)
  IN
  /\ tasks[Reconciler].at = "next" /\ b \in todo
  /\ todo' = todo \ {b}
  /\ \/ checked \in Places /\ Exists(checked) /\ UNCHANGED tasks
     \/ SetTask(Reconciler, Task(FirstStep(target), target, b))
  /\ UNCHANGED <<jobs, registry, deployments, objects, blocked, events, restarts>>

ReconcileEnds ==
  /\ tasks[Reconciler].at = "next" /\ todo = {}
  /\ SetTask(Reconciler, Idle)
  /\ UNCHANGED <<jobs, registry, deployments, objects, todo, blocked, events, restarts>>

-----------------------------------------------------------------------------
(* Promote, rollback, restart                                              *)

\* PromoteApp reads the staging Deployment once and deploys its image.
Promote(r, app, region) ==
  LET staging == Place(StagingNS(region), app) IN
  /\ tasks[r] = Idle /\ Exists(staging)
  /\ SetTask(r, Task("get", Place(ProdNS(region), app), deployments[staging].image))
  /\ Arrives
  /\ UNCHANGED <<jobs, registry, deployments, objects, todo, blocked, restarts>>

\* RollbackApp: nsName lets the API reach the home region's two namespaces
\* (a name it does not know becomes tinai-staging).
Rollback(r, app) ==
  \E ns \in {StagingNS(HomeRegion), ProdNS(HomeRegion)} :
    LET place == Place(ns, app) IN
    /\ tasks[r] = Idle /\ Exists(place) /\ deployments[place].prev # NoImage
    /\ SetTask(r, [Task("revert", place, NoImage) EXCEPT !.seen = deployments[place], !.fresh = TRUE])
    /\ Arrives
    /\ UNCHANGED <<jobs, registry, deployments, objects, todo, blocked, restarts>>

\* The pod dies with all its goroutines; its successor starts by reconciling.
Restart ==
  /\ restarts < MaxRestarts
  /\ restarts' = restarts + 1
  /\ tasks' = [[p \in Procs |-> Idle] EXCEPT ![Reconciler].at = "list"]
  /\ todo' = {}
  /\ UNCHANGED <<jobs, registry, deployments, objects, blocked, events>>

-----------------------------------------------------------------------------
(* The whole system.  It begins after the first start ever: the reconciler *)
(* found no Job then.                                                      *)

Init ==
  /\ jobs = [b \in Builds |-> "none"]
  /\ registry = {}
  /\ deployments = [p \in Places |-> Absent]
  /\ objects = {}
  /\ tasks = [p \in Procs |-> Idle]
  /\ todo = {}
  /\ blocked = {}
  /\ events = 0
  /\ restarts = 0

Deploy(p) == Ensure(p) \/ ApplyGet(p) \/ ApplyPut(p) \/ RevertPut(p) \/ CallFails(p)
Watch(b) == SubmitPreview(b) \/ WatchPoll(b) \/ WatchScan(b) \/ WatchTimeout(b)

Next ==
  \/ \E p \in Procs : Deploy(p)
  \/ \E b \in Builds : TriggerBuild(b) \/ PROpened(b) \/ JobEnds(b) \/ JobExpires(b)
  \/ \E b \in Builds : Watch(b)
  \/ \E pull \in Pulls : PRClosed(pull) \/ CleanupPreview(pull)
  \/ ReconcileList \/ ReconcileEnds
  \/ \E b \in Builds : ReconcileJob(b)
  \/ \E r \in Requests, app \in Apps :
       Rollback(r, app) \/ \E region \in Regions : Promote(r, app, region)
  \/ Restart

Spec == Init /\ [][Next]_vars

\* A goroutine that can take its next step does; nothing is promised of the
\* outside: pushes, Jobs, requests and crashes come or do not.
FairSpec ==
  /\ Spec
  /\ \A b \in Builds : WF_vars(Watch(b))
  /\ \A p \in Procs : WF_vars(Deploy(p))
  /\ WF_vars(ReconcileList \/ ReconcileEnds \/ \E b \in Builds : ReconcileJob(b))
  /\ \A pull \in Pulls : WF_vars(CleanupPreview(pull))

-----------------------------------------------------------------------------
(* Properties                                                              *)

\* Every variable has its type; a listed Job or a blocked image is a build.
TypeOK ==
  /\ jobs \in [Builds -> {"none", "running", "succeeded", "failed"}]
  /\ registry \subseteq Builds
  /\ deployments \in [Places -> Deployments]
  /\ objects \subseteq (Places \cup {Whole(ns) : ns \in Namespaces}) \X Ensured
  /\ tasks \in [Procs -> Tasks]
  /\ todo \subseteq Builds /\ blocked \subseteq Builds
  /\ events \in 0..MaxEvents /\ restarts \in 0..MaxRestarts

\* No Deployment, its previous-image annotation included, ever names an image
\* that was not pushed: neither watcher nor reconciler deploys a build that
\* has not succeeded, and promote and rollback only move what was deployed.
OnlyPushedImages ==
  \A p \in Places : {deployments[p].image, deployments[p].prev} \subseteq registry \cup {NoImage}

\* What a tenant pushes runs in that tenant's namespace and nowhere else,
\* whoever deploys it (watcher, reconciler after a crash) and whatever is
\* promoted or rolled back meanwhile.
TenantsStayHome ==
  \A p \in Places : Exists(p) =>
    LET b == deployments[p].image IN
      /\ p.app = AppOf[b]
      /\ b \in Pushes /\ OrgOf[AppOf[b]] # Admin => p.ns = TenantNS(OrgOf[AppOf[b]])

\* A tenant's application never runs in a namespace that lacks its quota,
\* limits, network policy or pull secret, although deploys of two builds
\* interleave, fail half-way and die with the pod.
TenantsAreFenced ==
  \A p \in Places :
    Exists(p) /\ p.ns = TenantNS(OrgOf[p.app]) => {Whole(p.ns)} \X Fence \subseteq objects

\* The previous-image annotation is the image that ran just before, so a
\* rollback undoes exactly the last change: no concurrent deploy, promote or
\* rollback is overwritten unseen.
PrevIsPredecessor ==
  [][\A p \in Places :
       Exists(p) /\ Exists(p)' /\ deployments[p] # deployments'[p]
         => /\ deployments'[p].image # deployments[p].image
            /\ deployments'[p].prev = deployments[p].image]_vars

\* No goroutine stays forever: not the watcher of a Job that never ends, not
\* the reconciler behind a failing deploy, not a cleanup.
GoroutinesEnd == \A p \in Procs : tasks[p] # Idle ~> tasks[p] = Idle

\* builder/preview.go:15-16 says a preview "never touches staging or
\* production namespaces".  The reconciler deploys it to staging.
PreviewsAreIsolated ==
  \A p \in Places : Exists(p) =>
    LET b == deployments[p].image IN b \notin Pushes => p.ns = PreviewNS(PullOf[b])

\* builder/job.go:360 says "Scan image before deploying - block on CRITICAL
\* vulnerabilities".  An image blocked for that reason is deployed by the
\* reconciler after the next restart.
BlockedStaysOut ==
  [][\A p \in Places :
       Exists(p)' /\ deployments[p] # deployments'[p] => deployments'[p].image \notin blocked]_vars
=============================================================================
