-------------------------- MODULE BuildDeployProofs --------------------------
(***************************************************************************)
(* Safety of builds and deploys for any set of builds, applications,       *)
(* regions, pull requests and requests, and any number of crashes.         *)
(***************************************************************************)
EXTENDS BuildDeploy, TLAPS

-----------------------------------------------------------------------------
(* The inductive invariant: what a goroutine may carry, given the step it   *)
(* stands before.  The operators take the state as parameters, so that a    *)
(* task can be compared with the state before and after a step.             *)

\* The steps of a watcher before its deploy, and those of a deploy.
WatchSteps == {"preview", "submit", "poll", "scan"}
DeploySteps == (Ensured \ {"preview"}) \cup {"get", "put"}

\* image may run at place: the two parts of TenantsStayHome.
Fits(image, place) ==
  /\ place.app = AppOf[image]
  /\ image \in Pushes /\ OrgOf[AppOf[image]] # Admin
       => place.ns = TenantNS(OrgOf[AppOf[image]])

IsTenants(place) == place.ns = TenantNS(OrgOf[place.app])

\* The parts of the fence that exist when a deploy stands before step.
DoneBefore(step) ==
  CASE step = "namespace" -> {}
    [] step = "quota" -> {"namespace"}
    [] step = "limits" -> {"namespace", "quota"}
    [] step = "policy" -> {"namespace", "quota", "limits"}
    [] step = "secret" -> {"namespace", "quota", "limits", "policy"}
    [] OTHER -> Fence

Fenced(ns, kinds, objs) == \A k \in kinds : <<Whole(ns), k>> \in objs

\* A Deployment that is or was at place.
GoodDeployment(d, place, reg) ==
  /\ d.image # NoImage => d.image \in reg /\ Fits(d.image, place)
  /\ d.prev # NoImage => d.prev \in reg /\ Fits(d.prev, place)

GoodTask(p, t, reg, deps, objs) ==
  /\ t.at \notin {"idle", "list", "next"} => t.place \in Places
  /\ t.at \in WatchSteps => p \in Builds /\ t.image = p /\ t.place = WatchTarget(p)
  /\ t.at \in DeploySteps => t.image \in reg /\ Fits(t.image, t.place)
  /\ t.at = "scan" => t.image \in reg
  /\ t.at \in {"put", "revert"} =>
       /\ GoodDeployment(t.seen, t.place, reg)
       /\ t.fresh => t.seen = deps[t.place]
  /\ t.at = "revert" => t.seen # Absent /\ t.seen.prev # NoImage
  /\ t.at \in Fence \cup {"get", "put", "revert"} /\ IsTenants(t.place) =>
       Fenced(t.place.ns, DoneBefore(t.at), objs)

TaskInv == \A p \in Procs : GoodTask(p, tasks[p], registry, deployments, objects)

JobInv ==
  /\ \A b \in Builds : jobs[b] = "succeeded" => b \in registry
  /\ todo \subseteq registry

DeploymentInv ==
  \A place \in Places :
    /\ GoodDeployment(deployments[place], place, registry)
    /\ Exists(place) => /\ deployments[place].image # deployments[place].prev
                        /\ IsTenants(place) => Fenced(place.ns, Fence, objects)

IInv == TypeOK /\ JobInv /\ DeploymentInv /\ TaskInv

-----------------------------------------------------------------------------
(* Places                                                                   *)

\* Every namespace the code derives for an application is one of Namespaces.
LEMMA PlaceFacts ==
  ASSUME NEW ns \in Namespaces, NEW app \in Apps
  PROVE  /\ Place(ns, app) \in Places
         /\ Place(ns, app).ns = ns
         /\ Place(ns, app).app = app
BY DEF Places, Place

\* A place is one of its namespace and its application.
LEMMA PlaceParts ==
  ASSUME NEW place \in Places
  PROVE  place.ns \in Namespaces /\ place.app \in Apps /\ place = Place(place.ns, place.app)
BY DEF Places, Place

\* Shared staging and production are no tenant's namespace.
LEMMA SharedIsNoTenants ==
  ASSUME NEW region, NEW org
  PROVE  StagingNS(region) # TenantNS(org) /\ ProdNS(region) # TenantNS(org)
BY DEF StagingNS, ProdNS, TenantNS

\* Watcher and reconciler send a build to a place it may run at.
LEMMA TargetFacts ==
  ASSUME NEW b \in Builds
  PROVE  /\ WatchTarget(b) \in Places /\ Fits(b, WatchTarget(b))
         /\ ReconcileTarget(b) \in Places /\ Fits(b, ReconcileTarget(b))
<1> USE RoutingAssumption
<1> DEFINE app == AppOf[b]
<1>1. app \in Apps /\ RegionOf[b] \in Regions
  BY DEF Apps
<1>2. StagingNS(RegionOf[b]) \in Namespaces /\ TenantNS(OrgOf[app]) \in Namespaces
  BY <1>1 DEF Namespaces
<1>3. PullOf[b] # NoPull => PreviewNS(PullOf[b]) \in Namespaces
  BY DEF Namespaces, Pulls
<1>4. ASSUME NEW known \in BOOLEAN, known \/ b \notin Pushes
      PROVE  /\ TenantTarget(app, RegionOf[b], known) \in Places
             /\ Fits(b, TenantTarget(app, RegionOf[b], known))
  BY <1>1, <1>2, <1>4, PlaceFacts DEF TenantTarget, Fits
<1>5. PullOf[b] = NoPull <=> b \in Pushes
  BY DEF Pushes
<1>6. WatchTarget(b) \in Places /\ Fits(b, WatchTarget(b))
  <2>1. CASE PullOf[b] # NoPull
    BY <2>1, <1>1, <1>3, <1>5, PlaceFacts DEF WatchTarget, Fits
  <2>2. CASE PullOf[b] = NoPull
    BY <2>2, <1>4 DEF WatchTarget
  <2> QED
    BY <2>1, <2>2
<1>7. ReconcileTarget(b) \in Places /\ Fits(b, ReconcileTarget(b))
  BY <1>4, <1>5 DEF ReconcileTarget
<1> QED
  BY <1>6, <1>7

\* The preview of a pull request has a place.
LEMMA HomeFacts ==
  ASSUME NEW pull \in Pulls
  PROVE  Home(pull) \in Places
<1> DEFINE b == CHOOSE b \in Builds : PullOf[b] = pull
<1>1. \E x \in Builds : PullOf[x] = pull
  BY DEF Pulls
<1>2. b \in Builds
  BY <1>1
<1>3. AppOf[b] \in Apps
  BY <1>2 DEF Apps
<1>4. PreviewNS(pull) \in Namespaces
  BY DEF Namespaces
<1> QED
  BY <1>3, <1>4, PlaceFacts DEF Home

-----------------------------------------------------------------------------
(* Tasks                                                                    *)

\* A good task stays good while images are pushed, fences grow, and the
\* Deployment it holds a fresh copy of is left alone.
LEMMA GoodTaskStays ==
  ASSUME NEW p, NEW t, NEW reg, NEW reg2, NEW deps, NEW deps2, NEW objs, NEW objs2,
         GoodTask(p, t, reg, deps, objs),
         reg \subseteq reg2,
         t.at \in {"put", "revert"} /\ t.fresh => deps2[t.place] = deps[t.place],
         \A ns, k : k \in Fence /\ <<Whole(ns), k>> \in objs => <<Whole(ns), k>> \in objs2
  PROVE  GoodTask(p, t, reg2, deps2, objs2)
<1>1. DoneBefore(t.at) \subseteq Fence
  BY DEF DoneBefore, Fence
<1>2. ASSUME Fenced(t.place.ns, DoneBefore(t.at), objs)
      PROVE  Fenced(t.place.ns, DoneBefore(t.at), objs2)
  BY <1>1, <1>2 DEF Fenced
<1>3. ASSUME GoodDeployment(t.seen, t.place, reg)
      PROVE  GoodDeployment(t.seen, t.place, reg2)
  BY <1>3 DEF GoodDeployment
<1> QED
  BY <1>2, <1>3 DEF GoodTask

\* A step of p that writes no Deployment.
LEMMA OneTask ==
  ASSUME TypeOK, TaskInv, NEW p \in Procs, NEW t \in Tasks, SetTask(p, t),
         UNCHANGED deployments, registry \subseteq registry',
         \A ns, k : k \in Fence /\ <<Whole(ns), k>> \in objects => <<Whole(ns), k>> \in objects',
         GoodTask(p, t, registry', deployments, objects')
  PROVE  tasks' \in [Procs -> Tasks] /\ TaskInv'
<1>1. tasks' \in [Procs -> Tasks]
  BY DEF TypeOK, SetTask
<1>2. ASSUME NEW q \in Procs
      PROVE  GoodTask(q, tasks'[q], registry', deployments', objects')
  <2>1. CASE q = p
    BY <2>1 DEF TypeOK, SetTask
  <2>2. CASE q # p
    <3>1. tasks'[q] = tasks[q]
      BY <2>2 DEF TypeOK, SetTask
    <3>2. GoodTask(q, tasks[q], registry, deployments, objects)
      BY DEF TaskInv
    <3> QED
      BY <3>1, <3>2, GoodTaskStays
  <2> QED
    BY <2>1, <2>2
<1> QED
  BY <1>1, <1>2 DEF TaskInv

\* A step that touches no task.
LEMMA NoTask ==
  ASSUME TypeOK, TaskInv, UNCHANGED <<tasks, deployments, objects>>, registry \subseteq registry'
  PROVE  tasks' \in [Procs -> Tasks] /\ TaskInv'
<1>1. ASSUME NEW q \in Procs
      PROVE  GoodTask(q, tasks'[q], registry', deployments', objects')
  <2>1. GoodTask(q, tasks[q], registry, deployments, objects)
    BY DEF TaskInv
  <2> QED
    BY <2>1, GoodTaskStays
<1> QED
  BY <1>1 DEF TaskInv, TypeOK

\* A write of p to a Deployment: whoever holds a copy of it has a stale one.
LEMMA WriteTask ==
  ASSUME TypeOK, TaskInv, NEW p \in Procs, NEW t \in Tasks,
         NEW place \in Places, NEW value \in Deployments, Write(p, place, value, t),
         UNCHANGED <<registry, objects>>,
         GoodTask(p, t, registry, deployments', objects)
  PROVE  /\ tasks' \in [Procs -> Tasks] /\ TaskInv'
         /\ deployments' \in [Places -> Deployments]
         /\ deployments'[place] = value
         /\ \A x \in Places : x # place => deployments'[x] = deployments[x]
<1>1. /\ deployments' \in [Places -> Deployments]
      /\ deployments'[place] = value
      /\ \A x \in Places : x # place => deployments'[x] = deployments[x]
  BY DEF TypeOK, Write
<1>2. ASSUME NEW q \in Procs
      PROVE  tasks'[q] \in Tasks /\ GoodTask(q, tasks'[q], registry, deployments', objects)
  <2>1. CASE q = p
    BY <2>1 DEF Write
  <2>2. CASE q # p
    <3> DEFINE old == tasks[q]
               stale == [old EXCEPT !.fresh = FALSE]
    <3>1. old \in Tasks /\ GoodTask(q, old, registry, deployments, objects)
      BY DEF TypeOK, TaskInv
    <3>2. tasks'[q] = IF old.place = place /\ value # deployments[place] THEN stale ELSE old
      BY <2>2 DEF Write
    <3>3. CASE old.place = place /\ value # deployments[place]
      <4>1. /\ stale \in Tasks /\ ~stale.fresh
            /\ stale.at = old.at /\ stale.place = old.place
            /\ stale.image = old.image /\ stale.seen = old.seen
        BY <3>1 DEF Tasks
      <4>2. GoodTask(q, stale, registry, deployments', objects)
        BY <3>1, <4>1 DEF GoodTask
      <4> QED
        BY <3>2, <3>3, <4>1, <4>2
    <3>4. CASE ~(old.place = place /\ value # deployments[place])
      <4>1. old.place \in Places => deployments'[old.place] = deployments[old.place]
        BY <1>1, <3>4
      <4>2. old.at \in {"put", "revert"} => old.place \in Places
        BY <3>1 DEF GoodTask
      <4>3. GoodTask(q, old, registry, deployments', objects)
        BY <3>1, <4>1, <4>2, GoodTaskStays
      <4> QED
        BY <3>1, <3>2, <3>4, <4>3
    <3> QED
      BY <3>3, <3>4
  <2> QED
    BY <2>1, <2>2
<1>3. tasks' \in [Procs -> Tasks]
  BY <1>2 DEF Write
<1> QED
  BY <1>1, <1>2, <1>3 DEF TaskInv

\* The tasks of the code, and what Task builds.
LEMMA TaskFacts ==
  ASSUME NEW step \in Steps, NEW place \in Places \cup {Nowhere},
         NEW image \in Builds \cup {NoImage}
  PROVE  /\ Task(step, place, image) \in Tasks
         /\ Task(step, place, image).at = step
         /\ Task(step, place, image).place = place
         /\ Task(step, place, image).image = image
         /\ Task(step, place, image).seen = Absent
         /\ Task(step, place, image).fresh = FALSE
BY DEF Task, Idle, Tasks, Deployments, Steps

\* A goroutine that has ended, and the reconciler between two Jobs, carry nothing.
LEMMA RestFacts ==
  ASSUME NEW p, NEW t, t.at \in {"idle", "list", "next"}, NEW reg, NEW deps, NEW objs
  PROVE  GoodTask(p, t, reg, deps, objs)
BY DEF GoodTask, WatchSteps, DeploySteps, Ensured, Fence

\* Idle, Rest and the reconciler's own steps are such tasks.
LEMMA IdleFacts ==
  /\ Idle \in Tasks /\ Idle.at = "idle"
  /\ \A step \in Steps : /\ [Idle EXCEPT !.at = step] \in Tasks
                         /\ [Idle EXCEPT !.at = step].at = step
  /\ \A p : Rest(p) \in Tasks /\ Rest(p).at \in {"idle", "next"}
<1>1. Idle \in Tasks /\ Idle.at = "idle"
  BY DEF Idle, Tasks, Deployments, Steps
<1>2. ASSUME NEW step \in Steps
      PROVE  [Idle EXCEPT !.at = step] \in Tasks /\ [Idle EXCEPT !.at = step].at = step
  BY <1>1 DEF Tasks
<1>3. "next" \in Steps
  BY DEF Steps
<1> QED
  BY <1>1, <1>2, <1>3 DEF Rest

\* A deploy of a pushed image that fits its place can start.
LEMMA StartFacts ==
  ASSUME NEW p, NEW t \in Tasks, t.at = FirstStep(t.place), t.place \in Places,
         NEW reg, NEW deps, NEW objs, t.image \in reg, Fits(t.image, t.place)
  PROVE  GoodTask(p, t, reg, deps, objs)
<1>1. t.at = IF IsTenants(t.place) THEN "namespace" ELSE "get"
  BY DEF FirstStep, IsTenants
<1>2. IsTenants(t.place) => Fenced(t.place.ns, DoneBefore(t.at), objs)
  BY <1>1 DEF Fenced, DoneBefore
<1> QED
  BY <1>1, <1>2 DEF GoodTask, WatchSteps, DeploySteps, Ensured, Fence

\* FirstStep is a step.
LEMMA FirstStepType ==
  ASSUME NEW place
  PROVE  FirstStep(place) \in {"namespace", "get"}
BY DEF FirstStep

-----------------------------------------------------------------------------
(* The invariant through a step that sets one task, and through a write.    *)

JobStates == {"none", "running", "succeeded", "failed"}
ObjectKeys == (Places \cup {Whole(ns) : ns \in Namespaces}) \X Ensured
FencesKept == \A ns, k : k \in Fence /\ <<Whole(ns), k>> \in objects => <<Whole(ns), k>> \in objects'

\* No Deployment changes: the invariant holds when the new task is good.
LEMMA SetTaskStep ==
  ASSUME IInv, NEW p \in Procs, NEW t \in Tasks, SetTask(p, t),
         UNCHANGED <<registry, deployments, restarts>>,
         jobs' \in [Builds -> JobStates],
         \A b \in Builds : jobs'[b] = "succeeded" => b \in registry,
         todo' \subseteq registry, blocked' \subseteq Builds, events' \in 0..MaxEvents,
         objects' \subseteq ObjectKeys, FencesKept,
         GoodTask(p, t, registry, deployments, objects')
  PROVE  IInv'
<1>1. tasks' \in [Procs -> Tasks] /\ TaskInv'
  BY OneTask DEF IInv, FencesKept
<1>2. TypeOK'
  BY <1>1 DEF IInv, TypeOK, JobStates, ObjectKeys
<1>3. JobInv'
  BY DEF JobInv
<1>4. DeploymentInv'
  <2>1. ASSUME NEW place \in Places
        PROVE  Fenced(place.ns, Fence, objects) => Fenced(place.ns, Fence, objects')
    BY DEF Fenced, FencesKept
  <2> QED
    BY <2>1 DEF IInv, DeploymentInv, Exists
<1> QED
  BY <1>1, <1>2, <1>3, <1>4 DEF IInv

\* A Deployment changes and nothing else does, but the writer's task.
LEMMA WriteStep ==
  ASSUME IInv, NEW p \in Procs, NEW t \in Tasks,
         NEW place \in Places, NEW value \in Deployments, Write(p, place, value, t),
         UNCHANGED <<jobs, registry, objects, todo, blocked, events, restarts>>,
         GoodDeployment(value, place, registry),
         value # Absent => /\ value.image # value.prev
                           /\ IsTenants(place) => Fenced(place.ns, Fence, objects),
         GoodTask(p, t, registry, deployments', objects)
  PROVE  IInv'
<1>1. /\ tasks' \in [Procs -> Tasks] /\ TaskInv'
      /\ deployments' \in [Places -> Deployments]
      /\ deployments'[place] = value
      /\ \A x \in Places : x # place => deployments'[x] = deployments[x]
  BY WriteTask DEF IInv
<1>2. TypeOK'
  BY <1>1 DEF IInv, TypeOK
<1>3. JobInv'
  BY DEF IInv, JobInv
<1>4. DeploymentInv'
  <2>1. ASSUME NEW x \in Places
        PROVE  /\ GoodDeployment(deployments'[x], x, registry)
               /\ deployments'[x] # Absent =>
                    /\ deployments'[x].image # deployments'[x].prev
                    /\ IsTenants(x) => Fenced(x.ns, Fence, objects)
    BY <1>1 DEF IInv, DeploymentInv, Exists
  <2> QED
    BY <2>1 DEF DeploymentInv, Exists
<1> QED
  BY <1>1, <1>2, <1>3, <1>4 DEF IInv

\* What a Deployment of the invariant is.
LEMMA DeploymentFacts ==
  ASSUME TypeOK, NEW d \in Deployments
  PROVE  /\ d.image \in Builds \cup {NoImage} /\ d.prev \in Builds \cup {NoImage}
         /\ d # Absent => d.image \in Builds /\ d = [image |-> d.image, prev |-> d.prev]
         /\ d.image # NoImage => d # Absent
BY ImageAssumption DEF Deployments, Absent

-----------------------------------------------------------------------------
(* The deployer                                                             *)

\* Ensure: the fence grows by the very part the step stands for.
LEMMA EnsureSafe ==
  ASSUME IInv, NEW p \in Procs, Ensure(p)
  PROVE  IInv'
<1> DEFINE t == tasks[p]
           step == t.at
           key == <<IF step \in {"service", "ingress"} THEN t.place ELSE Whole(t.place.ns), step>>
           next == AfterStep(step)
           new == IF next = "done" THEN Rest(p) ELSE [t EXCEPT !.at = next]
<1>1. /\ t \in Tasks /\ step \in Ensured
      /\ GoodTask(p, t, registry, deployments, objects)
      /\ objects' = objects \cup {key}
      /\ SetTask(p, new)
      /\ UNCHANGED <<jobs, registry, deployments, todo, blocked, events, restarts>>
  BY DEF IInv, TypeOK, TaskInv, Ensure, After
<1>2. t.place \in Places
  BY <1>1 DEF GoodTask, Ensured, Fence
<1>3. key \in ObjectKeys
  BY <1>1, <1>2, PlaceParts DEF ObjectKeys
<1>4. FencesKept
  BY <1>1 DEF FencesKept
<1>5. CASE next = "done"
  <2>1. new \in Tasks /\ GoodTask(p, new, registry, deployments, objects')
    BY <1>5, IdleFacts, RestFacts
  <2> QED
    BY <1>1, <1>3, <1>4, <2>1, SetTaskStep DEF IInv, TypeOK, JobInv, JobStates, ObjectKeys
<1>6. CASE next # "done"
  <2>1. next \in Steps
    BY <1>1, <1>6 DEF AfterStep, Steps, Ensured, Fence
  <2>2. /\ new \in Tasks /\ new.at = next /\ new.place = t.place /\ new.image = t.image
        /\ new.seen = t.seen /\ new.fresh = t.fresh
    BY <1>1, <1>6, <2>1 DEF Tasks
  <2>3. CASE step = "preview"
    <3>1. next = "submit"
      BY <2>3 DEF AfterStep
    <3> QED
      BY <1>1, <1>2, <1>3, <1>4, <2>2, <2>3, <3>1, SetTaskStep
         DEF IInv, TypeOK, JobInv, JobStates, ObjectKeys, GoodTask, WatchSteps, DeploySteps, Ensured, Fence
  <2>4. CASE step = "service"
    <3>1. next = "ingress"
      BY <2>4 DEF AfterStep
    <3>2. GoodTask(p, new, registry, deployments, objects')
      BY <1>1, <1>2, <2>2, <2>4, <3>1 DEF GoodTask, WatchSteps, DeploySteps, Ensured, Fence
    <3> QED
      BY <1>1, <1>3, <1>4, <2>2, <3>2, SetTaskStep DEF IInv, TypeOK, JobInv, JobStates, ObjectKeys
  <2>5. CASE step \in Fence
    <3>1. key = <<Whole(t.place.ns), step>>
      BY <2>5 DEF Fence
    <3>2. DoneBefore(next) \subseteq DoneBefore(step) \cup {step} /\ next \in Fence \cup {"get"}
      BY <2>5 DEF AfterStep, DoneBefore, Fence
    <3>3. ASSUME IsTenants(t.place)
          PROVE  Fenced(t.place.ns, DoneBefore(next), objects')
      <4>1. Fenced(t.place.ns, DoneBefore(step), objects)
        BY <1>1, <2>5, <3>3 DEF GoodTask
      <4> QED
        BY <1>1, <3>1, <3>2, <4>1 DEF Fenced
    <3>4. GoodTask(p, new, registry, deployments, objects')
      BY <1>1, <1>2, <2>2, <2>5, <3>2, <3>3 DEF GoodTask, WatchSteps, DeploySteps, Ensured, Fence
    <3> QED
      BY <1>1, <1>3, <1>4, <2>2, <3>4, SetTaskStep DEF IInv, TypeOK, JobInv, JobStates, ObjectKeys
  <2>6. step # "ingress"
    BY <1>6 DEF AfterStep
  <2> QED
    BY <1>1, <2>3, <2>4, <2>5, <2>6 DEF Ensured
<1> QED
  BY <1>5, <1>6

\* ApplyGet: what is read is what runs at the place.
LEMMA ApplyGetSafe ==
  ASSUME IInv, NEW p \in Procs, ApplyGet(p)
  PROVE  IInv'
<1> DEFINE t == tasks[p]
           new == [t EXCEPT !.at = "put", !.seen = deployments[t.place], !.fresh = TRUE]
<1>1. /\ t \in Tasks /\ t.at = "get"
      /\ GoodTask(p, t, registry, deployments, objects)
      /\ SetTask(p, new)
      /\ UNCHANGED <<jobs, registry, deployments, objects, todo, blocked, events, restarts>>
  BY DEF IInv, TypeOK, TaskInv, ApplyGet
<1>2. t.place \in Places
  BY <1>1 DEF GoodTask
<1>3. /\ new \in Tasks /\ new.at = "put" /\ new.place = t.place /\ new.image = t.image
      /\ new.seen = deployments[t.place]
  BY <1>1, <1>2 DEF Tasks, Steps, IInv, TypeOK
<1>4. GoodDeployment(new.seen, t.place, registry)
  BY <1>2, <1>3 DEF IInv, DeploymentInv
<1>5. DoneBefore("put") = DoneBefore("get")
  BY DEF DoneBefore
<1>6. GoodTask(p, new, registry, deployments, objects)
  BY <1>1, <1>2, <1>3, <1>4, <1>5 DEF GoodTask, WatchSteps, DeploySteps, Ensured, Fence
<1> QED
  BY <1>1, <1>3, <1>6, SetTaskStep DEF IInv, TypeOK, JobInv, JobStates, ObjectKeys, FencesKept

\* What a writable copy says of the place it will be written to.
LEMMA WritableFacts ==
  ASSUME IInv, NEW p \in Procs, tasks[p].at \in {"put", "revert"}, Writable(tasks[p])
  PROVE  LET t == tasks[p] IN
         /\ t \in Tasks /\ t.place \in Places /\ t.seen \in Deployments
         /\ t.seen = deployments[t.place]
         /\ GoodDeployment(t.seen, t.place, registry)
         /\ t.seen # Absent => t.seen.image # t.seen.prev
         /\ IsTenants(t.place) => Fenced(t.place.ns, Fence, objects)
<1> DEFINE t == tasks[p]
<1>1. t \in Tasks /\ GoodTask(p, t, registry, deployments, objects)
  BY DEF IInv, TypeOK, TaskInv
<1>2. t.place \in Places /\ t.seen \in Deployments
  BY <1>1 DEF GoodTask, Tasks
<1>3. t.seen = deployments[t.place]
  BY <1>1 DEF GoodTask, Writable, Exists
<1>4. GoodDeployment(t.seen, t.place, registry) /\ (t.seen # Absent => t.seen.image # t.seen.prev)
  BY <1>2, <1>3 DEF IInv, DeploymentInv, Exists
<1>5. DoneBefore(t.at) = Fence
  BY DEF DoneBefore
<1>6. IsTenants(t.place) => Fenced(t.place.ns, Fence, objects)
  BY <1>1, <1>5 DEF GoodTask
<1> QED
  BY <1>1, <1>2, <1>3, <1>4, <1>6

\* The Deployment that ApplyPut writes.
Applied(t) ==
  [image |-> t.image,
   prev |-> IF t.seen.image \in {NoImage, t.image} THEN t.seen.prev ELSE t.seen.image]

\* Of a new Deployment there is no previous image; an old one passes on its own.
LEMMA AppliedFacts ==
  ASSUME IInv, NEW p \in Procs, tasks[p].at = "put", Writable(tasks[p])
  PROVE  LET t == tasks[p] IN
         /\ Applied(t) \in Deployments /\ Applied(t).image = t.image
         /\ t.image # Applied(t).prev
         /\ GoodDeployment(Applied(t), t.place, registry)
         /\ t.seen # Absent =>
              \/ Applied(t) = t.seen
              \/ t.image # t.seen.image /\ Applied(t).prev = t.seen.image
<1> DEFINE t == tasks[p]
<1>1. /\ t.place \in Places /\ t.seen \in Deployments
      /\ GoodDeployment(t.seen, t.place, registry)
      /\ t.seen # Absent => t.seen.image # t.seen.prev
  BY WritableFacts
<1>2. t.image \in registry /\ Fits(t.image, t.place) /\ t.image \in Builds
  BY DEF IInv, TypeOK, TaskInv, GoodTask, DeploySteps
<1>3. t.image # NoImage
  BY <1>2, ImageAssumption
<1>4. CASE t.seen = Absent
  <2>1. t.seen.image = NoImage /\ t.seen.prev = NoImage
    BY <1>4 DEF Absent
  <2>2. Applied(t) = [image |-> t.image, prev |-> NoImage]
    BY <2>1 DEF Applied
  <2> QED
    BY <1>2, <1>3, <1>4, <2>2 DEF GoodDeployment, Deployments
<1>5. CASE t.seen # Absent /\ t.seen.image = t.image
  <2>1. t.seen = [image |-> t.seen.image, prev |-> t.seen.prev]
    BY <1>1, <1>5, DeploymentFacts DEF IInv
  <2>2. Applied(t) = t.seen
    BY <1>5, <2>1 DEF Applied
  <2> QED
    BY <1>1, <1>5, <2>2
<1>6. CASE t.seen # Absent /\ t.seen.image # t.image
  <2>1. t.seen.image \in Builds
    BY <1>1, <1>6, DeploymentFacts DEF IInv
  <2>2. Applied(t) = [image |-> t.image, prev |-> t.seen.image]
    BY <1>6, <2>1, ImageAssumption DEF Applied
  <2> QED
    BY <1>1, <1>2, <1>3, <1>6, <2>1, <2>2, ImageAssumption DEF GoodDeployment, Deployments
<1> QED
  BY <1>4, <1>5, <1>6

\* ApplyPut writes an image that was pushed, for this application, into a fence.
LEMMA ApplyPutSafe ==
  ASSUME IInv, NEW p \in Procs, ApplyPut(p)
  PROVE  IInv'
<1> DEFINE t == tasks[p]
           new == [t EXCEPT !.at = "service"]
<1>1. /\ t.at = "put" /\ Writable(t)
      /\ Write(p, t.place, Applied(t), new)
      /\ UNCHANGED <<jobs, registry, objects, todo, blocked, events, restarts>>
  BY DEF ApplyPut, Applied
<1>2. /\ t \in Tasks /\ t.place \in Places
      /\ IsTenants(t.place) => Fenced(t.place.ns, Fence, objects)
  BY <1>1, WritableFacts
<1>3. GoodTask(p, t, registry, deployments, objects)
  BY DEF IInv, TaskInv
<1>4. new \in Tasks /\ new.at = "service" /\ new.place = t.place /\ new.image = t.image
  BY <1>2 DEF Tasks, Steps, Ensured
<1>5. GoodTask(p, new, registry, deployments', objects)
  BY <1>1, <1>2, <1>3, <1>4 DEF GoodTask, WatchSteps, DeploySteps, Ensured, Fence
<1> QED
  BY <1>1, <1>2, <1>4, <1>5, AppliedFacts, WriteStep

\* RevertPut swaps two images that ran there.
LEMMA RevertPutSafe ==
  ASSUME IInv, NEW p \in Procs, RevertPut(p)
  PROVE  IInv'
<1> DEFINE t == tasks[p]
           value == [image |-> t.seen.prev, prev |-> t.seen.image]
<1>1. /\ t.at = "revert" /\ Writable(t)
      /\ Write(p, t.place, value, Rest(p))
      /\ UNCHANGED <<jobs, registry, objects, todo, blocked, events, restarts>>
  BY DEF RevertPut
<1>2. /\ t.place \in Places /\ t.seen \in Deployments
      /\ GoodDeployment(t.seen, t.place, registry)
      /\ t.seen # Absent => t.seen.image # t.seen.prev
      /\ IsTenants(t.place) => Fenced(t.place.ns, Fence, objects)
  BY <1>1, WritableFacts
<1>3. t.seen # Absent /\ t.seen.prev # NoImage
  BY <1>1 DEF IInv, TaskInv, GoodTask
<1>4. t.seen.image \in Builds /\ t.seen.prev \in Builds
  BY <1>2, <1>3, DeploymentFacts DEF IInv
<1>5. value \in Deployments /\ value.image = t.seen.prev /\ value.prev = t.seen.image
  BY <1>4 DEF Deployments
<1>6. GoodDeployment(value, t.place, registry)
  BY <1>2, <1>3, <1>4, <1>5, ImageAssumption DEF GoodDeployment
<1>7. Rest(p) \in Tasks /\ GoodTask(p, Rest(p), registry, deployments', objects)
  BY IdleFacts, RestFacts
<1> QED
  BY <1>1, <1>2, <1>3, <1>5, <1>6, <1>7, WriteStep

\* CallFails: the deploy ends where it stands.
LEMMA CallFailsSafe ==
  ASSUME IInv, NEW p \in Procs, CallFails(p)
  PROVE  IInv'
<1>1. Rest(p) \in Tasks /\ GoodTask(p, Rest(p), registry, deployments, objects')
  BY IdleFacts, RestFacts
<1> QED
  BY <1>1, SetTaskStep DEF CallFails, IInv, TypeOK, JobInv, JobStates, ObjectKeys, FencesKept

-----------------------------------------------------------------------------
(* Webhooks and build Jobs                                                  *)

\* A task that a webhook starts at a watcher's step.
LEMMA WatchStart ==
  ASSUME IInv, NEW b \in Builds, NEW step \in {"preview", "poll"}
  PROVE  LET t == Task(step, WatchTarget(b), b) IN
         t \in Tasks /\ GoodTask(b, t, registry, deployments, objects)
<1> DEFINE t == Task(step, WatchTarget(b), b)
<1>1. /\ step \in Steps /\ WatchTarget(b) \in Places
      /\ WatchTarget(b) \in Places \cup {Nowhere} /\ b \in Builds \cup {NoImage}
  BY TargetFacts DEF Steps, Ensured
<1>2. t \in Tasks /\ t.at = step /\ t.place = WatchTarget(b) /\ t.image = b
  BY <1>1, TaskFacts, ZenonT(30)
<1> HIDE DEF t
<1>3. GoodTask(b, t, registry, deployments, objects)
  BY <1>1, <1>2 DEF GoodTask, WatchSteps, DeploySteps, Ensured, Fence
<1> QED
  BY <1>2, <1>3 DEF t

\* A new watcher polls for the image it is named after.
LEMMA TriggerBuildSafe ==
  ASSUME IInv, NEW b \in Builds, TriggerBuild(b)
  PROVE  IInv'
<1> DEFINE t == Task("poll", WatchTarget(b), b)
<1>1. t \in Tasks /\ GoodTask(b, t, registry, deployments, objects)
  BY WatchStart
<1>2. b \in Procs
  BY DEF Procs
<1>3. /\ jobs' \in [Builds -> JobStates]
      /\ \A x \in Builds : jobs'[x] = "succeeded" => x \in registry
      /\ blocked' \subseteq Builds /\ events' \in 0..MaxEvents
  BY BoundAssumption DEF TriggerBuild, Arrives, IInv, TypeOK, JobInv, JobStates
<1>4. SetTask(b, t) /\ UNCHANGED <<registry, deployments, objects, todo, restarts>>
  BY DEF TriggerBuild
<1> HIDE DEF t
<1> QED
  BY <1>1, <1>2, <1>3, <1>4, SetTaskStep DEF IInv, TypeOK, JobInv, ObjectKeys, FencesKept

\* The goroutine of an opened pull request is a watcher too.
LEMMA PROpenedSafe ==
  ASSUME IInv, NEW b \in Builds, PROpened(b)
  PROVE  IInv'
<1> DEFINE t == Task("preview", WatchTarget(b), b)
<1>1. t \in Tasks /\ GoodTask(b, t, registry, deployments, objects)
  BY WatchStart
<1>2. b \in Procs /\ events' \in 0..MaxEvents
  BY BoundAssumption DEF Procs, PROpened, Arrives, IInv, TypeOK
<1>3. SetTask(b, t) /\ UNCHANGED <<jobs, registry, deployments, objects, todo, blocked, restarts>>
  BY DEF PROpened
<1> HIDE DEF t
<1> QED
  BY <1>1, <1>2, <1>3, SetTaskStep DEF IInv, TypeOK, JobInv, JobStates, ObjectKeys, FencesKept

\* The preview Job is submitted, and watched from then on.
LEMMA SubmitPreviewSafe ==
  ASSUME IInv, NEW b \in Builds, SubmitPreview(b)
  PROVE  IInv'
<1> DEFINE t == tasks[b]
           new == [t EXCEPT !.at = "poll"]
<1>1. b \in Procs /\ t.at = "submit" /\ SetTask(b, new)
  BY DEF Procs, SubmitPreview
<1>2. t \in Tasks /\ GoodTask(b, t, registry, deployments, objects)
  BY <1>1 DEF IInv, TypeOK, TaskInv
<1>3. new \in Tasks /\ new.at = "poll" /\ new.place = t.place /\ new.image = t.image
  BY <1>2 DEF Tasks, Steps
<1>4. GoodTask(b, new, registry, deployments, objects)
  BY <1>1, <1>2, <1>3 DEF GoodTask, WatchSteps, DeploySteps, Ensured, Fence
<1>5. /\ jobs' \in [Builds -> JobStates]
      /\ \A x \in Builds : jobs'[x] = "succeeded" => x \in registry
      /\ blocked' \subseteq Builds
      /\ UNCHANGED <<registry, deployments, objects, todo, events, restarts>>
  BY DEF SubmitPreview, IInv, TypeOK, JobInv, JobStates
<1> QED
  BY <1>1, <1>3, <1>4, <1>5, SetTaskStep DEF IInv, TypeOK, JobInv, ObjectKeys, FencesKept

\* A cleanup carries nothing but its place.
LEMMA CleanupTask ==
  ASSUME NEW p, NEW t \in Tasks, t.place \in Places, t.at \in {"delete", "deleteService", "deleteIngress"},
         NEW reg, NEW deps, NEW objs
  PROVE  GoodTask(p, t, reg, deps, objs)
BY DEF GoodTask, WatchSteps, DeploySteps, Ensured, Fence

\* A cleanup carries a place and no image.
LEMMA PRClosedSafe ==
  ASSUME IInv, NEW pull \in Pulls, PRClosed(pull)
  PROVE  IInv'
<1> DEFINE t == Task("delete", Home(pull), NoImage)
<1>0. /\ Home(pull) \in Places /\ Home(pull) \in Places \cup {Nowhere}
      /\ "delete" \in Steps /\ NoImage \in Builds \cup {NoImage}
  BY HomeFacts DEF Steps
<1>1. t \in Tasks /\ t.at = "delete" /\ t.place \in Places
  BY <1>0, TaskFacts
<1>2. SetTask(pull, t) /\ UNCHANGED <<jobs, registry, deployments, objects, todo, blocked, restarts>>
  BY DEF PRClosed
<1> HIDE DEF t
<1>3. pull \in Procs /\ events' \in 0..MaxEvents
  BY BoundAssumption DEF Procs, PRClosed, Arrives, IInv, TypeOK
<1>4. GoodTask(pull, t, registry, deployments, objects')
  BY <1>1, CleanupTask
<1> QED
  BY <1>1, <1>2, <1>3, <1>4, SetTaskStep DEF IInv, TypeOK, JobInv, JobStates, ObjectKeys, FencesKept

\* CleanupPreview deletes a Deployment, a Service and an Ingress: no fence.
LEMMA CleanupPreviewSafe ==
  ASSUME IInv, NEW pull \in Pulls, CleanupPreview(pull)
  PROVE  IInv'
<1> DEFINE t == tasks[pull]
<1>1. pull \in Procs
  BY DEF Procs
<1>2. t \in Tasks /\ GoodTask(pull, t, registry, deployments, objects)
  BY <1>1 DEF IInv, TypeOK, TaskInv
<1>3. ASSUME NEW step \in {"deleteService", "deleteIngress"}
      PROVE  LET new == [t EXCEPT !.at = step] IN
             new \in Tasks /\ new.at = step /\ new.place = t.place
  BY <1>2, <1>3 DEF Tasks, Steps
<1>4. ASSUME t.at = "delete", Write(pull, t.place, Absent, [t EXCEPT !.at = "deleteService"]),
             UNCHANGED <<jobs, registry, objects, todo, blocked, events, restarts>>
      PROVE  IInv'
  <2> DEFINE new == [t EXCEPT !.at = "deleteService"]
  <2>1. t.place \in Places
    BY <1>2, <1>4 DEF GoodTask
  <2>2. new \in Tasks /\ GoodTask(pull, new, registry, deployments', objects)
    BY <1>3, <2>1, CleanupTask
  <2>3. Absent \in Deployments /\ GoodDeployment(Absent, t.place, registry)
    BY DEF Deployments, GoodDeployment, Absent
  <2> HIDE DEF new
  <2>4. Write(pull, t.place, Absent, new)
    BY <1>4 DEF new
  <2> QED
    BY <1>1, <1>4, <2>1, <2>2, <2>3, <2>4, WriteStep
<1>5. ASSUME t.at = "delete", SetTask(pull, [t EXCEPT !.at = "deleteService"]),
             UNCHANGED <<jobs, registry, deployments, objects, todo, blocked, events, restarts>>
      PROVE  IInv'
  <2> DEFINE new == [t EXCEPT !.at = "deleteService"]
  <2>1. t.place \in Places
    BY <1>2, <1>5 DEF GoodTask
  <2>2. new \in Tasks /\ GoodTask(pull, new, registry, deployments, objects')
    BY <1>3, <2>1, CleanupTask
  <2> QED
    BY <1>1, <1>5, <2>2, SetTaskStep DEF IInv, TypeOK, JobInv, JobStates, ObjectKeys, FencesKept
<1>6. ASSUME t.at \in {"deleteService", "deleteIngress"},
             SetTask(pull, IF t.at = "deleteService" THEN [t EXCEPT !.at = "deleteIngress"] ELSE Idle),
             UNCHANGED <<jobs, registry, deployments, todo, blocked, events, restarts>>,
             NEW kind \in {"service", "ingress"},
             objects' = objects \/ objects' = objects \ {<<t.place, kind>>}
      PROVE  IInv'
  <2> DEFINE new == IF t.at = "deleteService" THEN [t EXCEPT !.at = "deleteIngress"] ELSE Idle
  <2>1. t.place \in Places
    BY <1>2, <1>6 DEF GoodTask
  <2>2. new \in Tasks /\ GoodTask(pull, new, registry, deployments, objects')
    <3>1. CASE t.at = "deleteService"
      <4> DEFINE going == [t EXCEPT !.at = "deleteIngress"]
      <4>1. going \in Tasks /\ going.at = "deleteIngress" /\ going.place = t.place
        BY <1>3
      <4> HIDE DEF going
      <4>2. GoodTask(pull, going, registry, deployments, objects')
        BY <2>1, <4>1, CleanupTask
      <4>3. new = going
        BY <3>1 DEF going
      <4> QED
        BY <4>1, <4>2, <4>3
    <3>2. CASE t.at # "deleteService"
      BY <3>2, IdleFacts, RestFacts
    <3> QED
      BY <3>1, <3>2
  <2>3. objects' \subseteq ObjectKeys
    BY <1>6 DEF IInv, TypeOK, ObjectKeys
  <2>4. FencesKept
    BY <1>6 DEF FencesKept, Fence
  <2> QED
    BY <1>1, <1>6, <2>2, <2>3, <2>4, SetTaskStep DEF IInv, TypeOK, JobInv, JobStates
<1> QED
  BY <1>4, <1>5, <1>6 DEF CleanupPreview

\* A Job succeeds with its image in the registry.
LEMMA JobEndsSafe ==
  ASSUME IInv, NEW b \in Builds, JobEnds(b)
  PROVE  IInv'
<1>1. registry \subseteq registry' /\ registry' \subseteq Builds
      /\ UNCHANGED <<deployments, objects, tasks, todo, blocked, events, restarts>>
  BY DEF JobEnds, IInv, TypeOK
<1>2. jobs' \in [Builds -> JobStates] /\ \A x \in Builds : jobs'[x] = "succeeded" => x \in registry'
  BY DEF JobEnds, IInv, TypeOK, JobInv, JobStates
<1>3. TaskInv'
  BY <1>1, NoTask DEF IInv
<1>4. DeploymentInv'
  <2>1. ASSUME NEW place \in Places
        PROVE  GoodDeployment(deployments[place], place, registry')
    BY <1>1 DEF IInv, DeploymentInv, GoodDeployment
  <2> QED
    BY <1>1, <2>1 DEF IInv, DeploymentInv, Exists
<1> QED
  BY <1>1, <1>2, <1>3, <1>4 DEF IInv, TypeOK, JobInv, JobStates

\* An expired Job has not succeeded: the invariant asks nothing of it.
LEMMA JobExpiresSafe ==
  ASSUME IInv, NEW b \in Builds, JobExpires(b)
  PROVE  IInv'
<1>1. UNCHANGED <<registry, deployments, objects, tasks, todo, blocked, events, restarts>>
  BY DEF JobExpires
<1>2. jobs' \in [Builds -> JobStates] /\ \A x \in Builds : jobs'[x] = "succeeded" => x \in registry
  BY DEF JobExpires, IInv, TypeOK, JobInv, JobStates
<1>3. DeploymentInv' /\ TaskInv'
  BY <1>1 DEF IInv, DeploymentInv, Exists, TaskInv
<1> QED
  BY <1>1, <1>2, <1>3 DEF IInv, TypeOK, JobInv, JobStates

-----------------------------------------------------------------------------
(* watchAndDeploy                                                           *)

\* A watcher that goes on to its deploy carries a pushed image, home.
LEMMA WatchDeploys ==
  ASSUME IInv, NEW b \in Builds, tasks[b].at \in {"poll", "scan"}, b \in registry
  PROVE  LET new == [tasks[b] EXCEPT !.at = FirstStep(tasks[b].place)] IN
         new \in Tasks /\ GoodTask(b, new, registry, deployments, objects)
<1> DEFINE t == tasks[b]
           new == [t EXCEPT !.at = FirstStep(t.place)]
<1>1. t \in Tasks /\ GoodTask(b, t, registry, deployments, objects)
  BY DEF IInv, TypeOK, TaskInv, Procs
<1>2. t.image = b /\ t.place = WatchTarget(b)
  BY <1>1 DEF GoodTask, WatchSteps
<1>3. FirstStep(t.place) \in Steps
  BY FirstStepType DEF Steps, Ensured, Fence
<1>4. new \in Tasks /\ new.at = FirstStep(t.place) /\ new.place = t.place /\ new.image = t.image
  BY <1>1, <1>3 DEF Tasks
<1> HIDE DEF new
<1>5. new.place \in Places /\ new.image \in registry /\ Fits(new.image, new.place)
  BY <1>2, <1>4, TargetFacts
<1>6. GoodTask(b, new, registry, deployments, objects)
  BY <1>4, <1>5, StartFacts
<1> QED
  BY <1>4, <1>6 DEF new

\* A Job that succeeded has pushed its image, so the deploy may start.
LEMMA WatchPollSafe ==
  ASSUME IInv, NEW b \in Builds, WatchPoll(b)
  PROVE  IInv'
<1> DEFINE t == tasks[b]
<1>1. b \in Procs /\ t.at = "poll"
      /\ UNCHANGED <<jobs, registry, deployments, objects, todo, blocked, events, restarts>>
  BY DEF Procs, WatchPoll
<1>2. CASE jobs[b] = "succeeded" /\ ScanEnabled /\ SetTask(b, [t EXCEPT !.at = "scan"])
  <2> DEFINE new == [t EXCEPT !.at = "scan"]
  <2>1. t \in Tasks /\ GoodTask(b, t, registry, deployments, objects)
    BY <1>1 DEF IInv, TypeOK, TaskInv
  <2>2. /\ new \in Tasks /\ new.at = "scan" /\ new.place = t.place /\ new.image = t.image
    BY <2>1 DEF Tasks, Steps
  <2>3. b \in registry
    BY <1>2 DEF IInv, JobInv
  <2>4. GoodTask(b, new, registry, deployments, objects)
    BY <1>1, <2>1, <2>2, <2>3 DEF GoodTask, WatchSteps, DeploySteps, Ensured, Fence
  <2> QED
    BY <1>1, <1>2, <2>2, <2>4, SetTaskStep DEF IInv, TypeOK, JobInv, JobStates, ObjectKeys, FencesKept
<1>3. CASE jobs[b] = "succeeded" /\ SetTask(b, [t EXCEPT !.at = FirstStep(t.place)])
  <2>1. b \in registry
    BY <1>3 DEF IInv, JobInv
  <2> DEFINE new == [t EXCEPT !.at = FirstStep(t.place)]
  <2>2. new \in Tasks /\ GoodTask(b, new, registry, deployments, objects)
    BY <1>1, <2>1, WatchDeploys
  <2> QED
    BY <1>1, <1>3, <2>2, SetTaskStep DEF IInv, TypeOK, JobInv, JobStates, ObjectKeys, FencesKept
<1>4. CASE SetTask(b, Idle)
  <2>1. Idle \in Tasks /\ GoodTask(b, Idle, registry, deployments, objects)
    BY IdleFacts, RestFacts
  <2> QED
    BY <1>1, <1>4, <2>1, SetTaskStep DEF IInv, TypeOK, JobInv, JobStates, ObjectKeys, FencesKept
<1> QED
  BY <1>2, <1>3, <1>4 DEF WatchPoll

\* The scan lets the image through or ends the watcher.
LEMMA WatchScanSafe ==
  ASSUME IInv, NEW b \in Builds, WatchScan(b)
  PROVE  IInv'
<1> DEFINE t == tasks[b]
           new == [t EXCEPT !.at = FirstStep(t.place)]
<1>1. /\ b \in Procs /\ t.at = "scan" /\ blocked' \subseteq Builds
      /\ UNCHANGED <<jobs, registry, deployments, objects, todo, events, restarts>>
  BY DEF Procs, WatchScan, IInv, TypeOK
<1>2. CASE SetTask(b, new)
  <2>1. b \in registry
    BY <1>1 DEF IInv, TaskInv, GoodTask, WatchSteps
  <2>2. new \in Tasks /\ GoodTask(b, new, registry, deployments, objects)
    BY <1>1, <2>1, WatchDeploys
  <2> QED
    BY <1>1, <1>2, <2>2, SetTaskStep DEF IInv, TypeOK, JobInv, JobStates, ObjectKeys, FencesKept
<1>3. CASE SetTask(b, Idle)
  <2>1. Idle \in Tasks /\ GoodTask(b, Idle, registry, deployments, objects)
    BY IdleFacts, RestFacts
  <2> QED
    BY <1>1, <1>3, <2>1, SetTaskStep DEF IInv, TypeOK, JobInv, JobStates, ObjectKeys, FencesKept
<1> QED
  BY <1>2, <1>3 DEF WatchScan

\* A watcher that gives up carries nothing.
LEMMA WatchTimeoutSafe ==
  ASSUME IInv, NEW b \in Builds, WatchTimeout(b)
  PROVE  IInv'
<1>1. Idle \in Tasks /\ GoodTask(b, Idle, registry, deployments, objects')
  BY IdleFacts, RestFacts
<1>2. b \in Procs
  BY DEF Procs
<1> QED
  BY <1>1, <1>2, SetTaskStep DEF WatchTimeout, IInv, TypeOK, JobInv, JobStates, ObjectKeys, FencesKept

-----------------------------------------------------------------------------
(* ReconcileStaleBuilds                                                     *)

\* The reconciler lists Jobs that succeeded, whose images are pushed.
LEMMA ReconcileListSafe ==
  ASSUME IInv, ReconcileList
  PROVE  IInv'
<1> DEFINE new == [Idle EXCEPT !.at = "next"]
<1>1. /\ Reconciler \in Procs /\ todo' \subseteq registry
      /\ UNCHANGED <<jobs, registry, deployments, objects, blocked, events, restarts>>
  BY DEF Procs, ReconcileList, Recoverable, IInv, JobInv
<1>2. "next" \in Steps
  BY DEF Steps
<1>3. new \in Tasks /\ new.at = "next" /\ Idle \in Tasks /\ Idle.at = "idle"
  BY <1>2, IdleFacts
<1>4. SetTask(Reconciler, new) \/ SetTask(Reconciler, Idle)
  BY DEF ReconcileList
<1> HIDE DEF new
<1>5. /\ GoodTask(Reconciler, new, registry, deployments, objects)
      /\ GoodTask(Reconciler, Idle, registry, deployments, objects)
  BY <1>3, RestFacts
<1> QED
  BY <1>1, <1>3, <1>4, <1>5, SetTaskStep DEF IInv, TypeOK, JobInv, JobStates, ObjectKeys, FencesKept

\* The reconciler deploys a succeeded Job to the place the annotations name.
LEMMA ReconcileJobSafe ==
  ASSUME IInv, NEW b \in Builds, ReconcileJob(b)
  PROVE  IInv'
<1> DEFINE target == ReconcileTarget(b)
           t == Task(FirstStep(target), target, b)
<1>1. /\ Reconciler \in Procs /\ todo' \subseteq registry /\ b \in registry
      /\ UNCHANGED <<jobs, registry, deployments, objects, blocked, events, restarts>>
  BY DEF Procs, ReconcileJob, IInv, JobInv
<1>2. /\ target \in Places /\ Fits(b, target) /\ target \in Places \cup {Nowhere}
      /\ FirstStep(target) \in Steps /\ b \in Builds \cup {NoImage}
  BY TargetFacts, FirstStepType DEF Steps, Ensured, Fence
<1>3. t \in Tasks /\ t.at = FirstStep(target) /\ t.place = target /\ t.image = b
  BY <1>2, TaskFacts, ZenonT(30)
<1>4. UNCHANGED tasks \/ SetTask(Reconciler, t)
  BY DEF ReconcileJob
<1> HIDE DEF t, target
<1>5. GoodTask(Reconciler, t, registry, deployments, objects)
  BY <1>1, <1>2, <1>3, StartFacts
<1>6. CASE UNCHANGED tasks
  BY <1>1, <1>6 DEF IInv, TypeOK, JobInv, DeploymentInv, Exists, TaskInv
<1>7. CASE SetTask(Reconciler, t)
  BY <1>1, <1>3, <1>5, <1>7, SetTaskStep DEF IInv, TypeOK, JobInv, JobStates, ObjectKeys, FencesKept
<1> QED
  BY <1>4, <1>6, <1>7

\* The reconciler ends with nothing left to do.
LEMMA ReconcileEndsSafe ==
  ASSUME IInv, ReconcileEnds
  PROVE  IInv'
<1>1. Idle \in Tasks /\ GoodTask(Reconciler, Idle, registry, deployments, objects')
  BY IdleFacts, RestFacts
<1>2. Reconciler \in Procs
  BY DEF Procs
<1> QED
  BY <1>1, <1>2, SetTaskStep DEF ReconcileEnds, IInv, TypeOK, JobInv, JobStates, ObjectKeys, FencesKept

-----------------------------------------------------------------------------
(* Promote, rollback, restart                                               *)

\* A promote starts a deploy of an image at the Get.
LEMMA PromoteTask ==
  ASSUME NEW place \in Places, NEW image \in Builds
  PROVE  LET t == Task("get", place, image) IN
         t \in Tasks /\ t.at = "get" /\ t.place = place /\ t.image = image
<1>1. "get" \in Steps /\ place \in Places \cup {Nowhere} /\ image \in Builds \cup {NoImage}
  BY DEF Steps
<1> QED
  BY <1>1, TaskFacts

\* A tenant's image is never in shared staging, so a promote never moves one.
LEMMA PromoteSafe ==
  ASSUME IInv, NEW r \in Requests, NEW app \in Apps, NEW region \in Regions, Promote(r, app, region)
  PROVE  IInv'
<1> DEFINE staging == Place(StagingNS(region), app)
           prod == Place(ProdNS(region), app)
           image == deployments[staging].image
           t == Task("get", prod, image)
<1>1. /\ r \in Procs /\ events' \in 0..MaxEvents
      /\ Exists(staging) /\ SetTask(r, t)
      /\ UNCHANGED <<jobs, registry, deployments, objects, todo, blocked, restarts>>
  BY BoundAssumption DEF Procs, Promote, Arrives, IInv, TypeOK
<1>2. StagingNS(region) \in Namespaces /\ ProdNS(region) \in Namespaces
  BY DEF Namespaces
<1>3. /\ staging \in Places /\ staging.ns = StagingNS(region) /\ staging.app = app
      /\ prod \in Places /\ prod.ns = ProdNS(region) /\ prod.app = app
  BY <1>2, PlaceFacts
<1>4. image \in Builds /\ image # NoImage
  <2>1. deployments[staging] \in Deployments /\ deployments[staging] # Absent
    BY <1>1, <1>3 DEF IInv, TypeOK, Exists
  <2> QED
    BY <2>1, DeploymentFacts, ImageAssumption DEF IInv
<1>5. image \in registry /\ Fits(image, staging)
  BY <1>3, <1>4 DEF IInv, DeploymentInv, GoodDeployment
<1>6. Fits(image, prod)
  BY <1>3, <1>5, SharedIsNoTenants DEF Fits
<1>7. FirstStep(prod) = "get"
  BY <1>3, SharedIsNoTenants DEF FirstStep
<1> HIDE DEF image, prod, staging
<1>8. t \in Tasks /\ t.at = "get" /\ t.place = prod /\ t.image = image
  <2>1. prod \in Places /\ image \in Builds
    BY <1>3, <1>4
  <2> QED
    BY <2>1, PromoteTask
<1> HIDE DEF t
<1>9. GoodTask(r, t, registry, deployments, objects)
  BY <1>3, <1>5, <1>6, <1>7, <1>8, StartFacts
<1> QED
  BY <1>1, <1>8, <1>9, SetTaskStep DEF IInv, TypeOK, JobInv, JobStates, ObjectKeys, FencesKept

\* A rollback starts from a Deployment that exists and has a predecessor.
LEMMA RollbackSafe ==
  ASSUME IInv, NEW r \in Requests, NEW app \in Apps, Rollback(r, app)
  PROVE  IInv'
<1>1. PICK ns \in {StagingNS(HomeRegion), ProdNS(HomeRegion)} :
        LET place == Place(ns, app) IN
        /\ Exists(place) /\ deployments[place].prev # NoImage
        /\ SetTask(r, [Task("revert", place, NoImage) EXCEPT !.seen = deployments[place], !.fresh = TRUE])
        /\ Arrives
        /\ UNCHANGED <<jobs, registry, deployments, objects, todo, blocked, restarts>>
  BY DEF Rollback
<1> DEFINE place == Place(ns, app)
           start == Task("revert", place, NoImage)
           t == [start EXCEPT !.seen = deployments[place], !.fresh = TRUE]
<1>2. r \in Procs /\ events' \in 0..MaxEvents
  BY <1>1, BoundAssumption DEF Procs, Arrives, IInv, TypeOK
<1>3. ns \in Namespaces
  BY RoutingAssumption DEF Namespaces
<1>4. /\ place \in Places /\ place \in Places \cup {Nowhere}
      /\ "revert" \in Steps /\ NoImage \in Builds \cup {NoImage}
  BY <1>3, PlaceFacts DEF Steps
<1>5. start \in Tasks /\ start.at = "revert" /\ start.place = place
  BY <1>4, TaskFacts
<1> HIDE DEF start
<1>6. /\ t \in Tasks /\ t.at = "revert" /\ t.place = place
      /\ t.seen = deployments[place]
  BY <1>4, <1>5 DEF Tasks, IInv, TypeOK
<1>7. /\ GoodDeployment(deployments[place], place, registry)
      /\ deployments[place] # Absent /\ deployments[place].prev # NoImage
      /\ IsTenants(place) => Fenced(place.ns, Fence, objects)
  BY <1>1, <1>4 DEF IInv, DeploymentInv, Exists
<1>8. DoneBefore("revert") = Fence
  BY DEF DoneBefore
<1>9. SetTask(r, t) /\ UNCHANGED <<jobs, registry, deployments, objects, todo, blocked, restarts>>
  BY <1>1 DEF start
<1> HIDE DEF t, place
<1>10. GoodTask(r, t, registry, deployments, objects)
  BY <1>4, <1>6, <1>7, <1>8 DEF GoodTask, WatchSteps, DeploySteps, Ensured, Fence
<1> QED
  BY <1>2, <1>6, <1>9, <1>10, SetTaskStep DEF IInv, TypeOK, JobInv, JobStates, ObjectKeys, FencesKept

\* The new pod has one goroutine, which knows nothing yet.
LEMMA RestartSafe ==
  ASSUME IInv, Restart
  PROVE  IInv'
<1> DEFINE list == [Idle EXCEPT !.at = "list"]
<1>1. "list" \in Steps
  BY DEF Steps
<1>2. list \in Tasks /\ list.at = "list" /\ Idle \in Tasks /\ Idle.at = "idle"
  BY <1>1, IdleFacts
<1>3. tasks' = [[p \in Procs |-> Idle] EXCEPT ![Reconciler].at = "list"]
  BY DEF Restart
<1>4. tasks' = [p \in Procs |-> IF p = Reconciler THEN list ELSE Idle]
  BY <1>3 DEF Procs
<1> HIDE DEF list
<1>5. tasks' \in [Procs -> Tasks] /\ \A p \in Procs : tasks'[p].at \in {"idle", "list"}
  BY <1>2, <1>4
<1>6. TaskInv'
  BY <1>5, RestFacts DEF TaskInv
<1>7. UNCHANGED <<jobs, registry, deployments, objects, blocked, events>> /\ todo' = {}
      /\ restarts' \in 0..MaxRestarts
  BY BoundAssumption DEF Restart, IInv, TypeOK
<1> QED
  BY <1>5, <1>6, <1>7 DEF IInv, TypeOK, JobInv, DeploymentInv, Exists

-----------------------------------------------------------------------------
(* The invariant holds                                                      *)

\* Nothing is built, deployed or running at first.
LEMMA InitInv == Init => IInv
<1> SUFFICES ASSUME Init
             PROVE  IInv
  OBVIOUS
<1>1. TypeOK
  BY BoundAssumption, IdleFacts DEF Init, TypeOK, Deployments
<1>2. JobInv /\ DeploymentInv
  BY DEF Init, JobInv, DeploymentInv, GoodDeployment, Absent, Exists
<1>3. TaskInv
  BY IdleFacts, RestFacts DEF Init, TaskInv
<1> QED
  BY <1>1, <1>2, <1>3 DEF IInv

\* Each action keeps it.
LEMMA StepInv == IInv /\ [Next]_vars => IInv'
<1> SUFFICES ASSUME IInv, [Next]_vars
             PROVE  IInv'
  OBVIOUS
<1>1. CASE \E p \in Procs : Deploy(p)
  BY <1>1, EnsureSafe, ApplyGetSafe, ApplyPutSafe, RevertPutSafe, CallFailsSafe DEF Deploy
<1>2. CASE \E b \in Builds : TriggerBuild(b) \/ PROpened(b) \/ JobEnds(b) \/ JobExpires(b)
  BY <1>2, TriggerBuildSafe, PROpenedSafe, JobEndsSafe, JobExpiresSafe
<1>3. CASE \E b \in Builds : Watch(b)
  BY <1>3, SubmitPreviewSafe, WatchPollSafe, WatchScanSafe, WatchTimeoutSafe DEF Watch
<1>4. CASE \E pull \in Pulls : PRClosed(pull) \/ CleanupPreview(pull)
  BY <1>4, PRClosedSafe, CleanupPreviewSafe
<1>5. CASE ReconcileList \/ ReconcileEnds \/ \E b \in Builds : ReconcileJob(b)
  BY <1>5, ReconcileListSafe, ReconcileEndsSafe, ReconcileJobSafe
<1>6. CASE \E r \in Requests, app \in Apps :
             Rollback(r, app) \/ \E region \in Regions : Promote(r, app, region)
  BY <1>6, RollbackSafe, PromoteSafe
<1>7. CASE Restart
  BY <1>7, RestartSafe
<1>8. CASE UNCHANGED vars
  BY <1>8 DEF vars, IInv, TypeOK, JobInv, DeploymentInv, Exists, TaskInv
<1> QED
  BY <1>1, <1>2, <1>3, <1>4, <1>5, <1>6, <1>7, <1>8 DEF Next

\* The inductive invariant holds in every state of every behaviour.
THEOREM BuildInvariantHolds == Spec => []IInv
BY InitInv, StepInv, PTL DEF Spec

\* Every variable keeps its type: no goroutine stands at a step, a place or an
\* image that the code of the deployer could not hold there.
THEOREM BuildTypesHold == Spec => []TypeOK
<1>1. IInv => TypeOK
  BY DEF IInv
<1> QED
  BY <1>1, BuildInvariantHolds, PTL

\* However builds, deploys, promotes, rollbacks and crashes interleave, a
\* Deployment and its rollback annotation name pushed images only.
THEOREM DeployedWasPushed == Spec => []OnlyPushedImages
<1>1. IInv => OnlyPushedImages
  BY DEF IInv, DeploymentInv, GoodDeployment, OnlyPushedImages
<1> QED
  BY <1>1, BuildInvariantHolds, PTL

\* What a tenant pushed runs in that tenant's namespace only.
THEOREM TenantsRunAtHome == Spec => []TenantsStayHome
<1>1. IInv => TenantsStayHome
  <2> SUFFICES ASSUME IInv, NEW p \in Places, Exists(p)
               PROVE  Fits(deployments[p].image, p)
    BY DEF TenantsStayHome, Fits
  <2>1. deployments[p] \in Deployments /\ deployments[p] # Absent
    BY DEF IInv, TypeOK, Exists
  <2>2. deployments[p].image \in Builds
    BY <2>1, DeploymentFacts DEF IInv
  <2> QED
    BY <2>2, ImageAssumption DEF IInv, DeploymentInv, GoodDeployment
<1> QED
  BY <1>1, BuildInvariantHolds, PTL

\* A tenant's application runs only behind its quota, limits, network policy
\* and pull secret, whichever of several deploys put them there.
THEOREM TenantsRunFenced == Spec => []TenantsAreFenced
<1>1. IInv => TenantsAreFenced
  <2> SUFFICES ASSUME IInv, NEW p \in Places, Exists(p), p.ns = TenantNS(OrgOf[p.app]),
                      NEW k \in Fence
               PROVE  <<Whole(p.ns), k>> \in objects
    BY DEF TenantsAreFenced
  <2> QED
    BY DEF IInv, DeploymentInv, IsTenants, Fenced
<1> QED
  BY <1>1, BuildInvariantHolds, PTL

-----------------------------------------------------------------------------
(* The previous image                                                       *)

\* What a step may do to the Deployment at a place.
SuccessorAt(place) ==
  Exists(place) /\ Exists(place)' /\ deployments[place] # deployments'[place]
    => /\ deployments'[place].image # deployments[place].image
       /\ deployments'[place].prev = deployments[place].image

\* A write to one place is a change of that place only.
LEMMA WriteLeavesOthers ==
  ASSUME TypeOK, NEW p \in Procs, NEW t, NEW place \in Places, NEW value, Write(p, place, value, t)
  PROVE  /\ deployments'[place] = value
         /\ \A x \in Places : x # place => deployments'[x] = deployments[x]
BY DEF TypeOK, Write

\* A step that writes no Deployment has no successor to compare.
LEMMA NoWrite ==
  ASSUME UNCHANGED deployments
  PROVE  \A x \in Places : SuccessorAt(x)
BY DEF SuccessorAt

\* An apply that finds a Deployment keeps its image as the previous one: what
\* it read is what is there.
LEMMA ApplySucceeds ==
  ASSUME IInv, NEW p \in Procs, ApplyPut(p)
  PROVE  \A x \in Places : SuccessorAt(x)
<1> DEFINE t == tasks[p]
<1>1. t.at = "put" /\ Writable(t) /\ Write(p, t.place, Applied(t), [t EXCEPT !.at = "service"])
  BY DEF ApplyPut, Applied
<1>2. t.place \in Places /\ t.seen = deployments[t.place]
  BY <1>1, WritableFacts
<1>3. /\ Applied(t).image = t.image
      /\ t.seen # Absent =>
           \/ Applied(t) = t.seen
           \/ t.image # t.seen.image /\ Applied(t).prev = t.seen.image
  BY <1>1, AppliedFacts
<1>4. /\ deployments'[t.place] = Applied(t)
      /\ \A x \in Places : x # t.place => deployments'[x] = deployments[x]
  BY <1>1, <1>2, WriteLeavesOthers DEF IInv
<1> HIDE DEF t
<1> QED
  BY <1>2, <1>3, <1>4 DEF SuccessorAt, Exists

\* A rollback swaps the image that runs and its annotation.
LEMMA RevertSucceeds ==
  ASSUME IInv, NEW p \in Procs, RevertPut(p)
  PROVE  \A x \in Places : SuccessorAt(x)
<1> DEFINE t == tasks[p]
           value == [image |-> t.seen.prev, prev |-> t.seen.image]
<1>1. t.at = "revert" /\ Writable(t) /\ Write(p, t.place, value, Rest(p))
  BY DEF RevertPut
<1>2. /\ t.place \in Places /\ t.seen = deployments[t.place]
      /\ t.seen # Absent => t.seen.image # t.seen.prev
  BY <1>1, WritableFacts
<1>3. /\ deployments'[t.place] = value
      /\ \A x \in Places : x # t.place => deployments'[x] = deployments[x]
  BY <1>1, <1>2, WriteLeavesOthers DEF IInv
<1>4. value.image = t.seen.prev /\ value.prev = t.seen.image
  OBVIOUS
<1> HIDE DEF t, value
<1> QED
  BY <1>2, <1>3, <1>4 DEF SuccessorAt, Exists

\* A cleanup leaves no Deployment to compare.
LEMMA CleanupSucceeds ==
  ASSUME IInv, NEW pull \in Pulls, CleanupPreview(pull)
  PROVE  \A x \in Places : SuccessorAt(x)
<1> DEFINE t == tasks[pull]
<1>1. CASE UNCHANGED deployments
  BY <1>1, NoWrite
<1>2. CASE t.at = "delete" /\ Write(pull, t.place, Absent, [t EXCEPT !.at = "deleteService"])
  <2>1. pull \in Procs
    BY DEF Procs
  <2>2. GoodTask(pull, t, registry, deployments, objects)
    BY <2>1 DEF IInv, TaskInv
  <2>3. t.place \in Places
    BY <1>2, <2>2 DEF GoodTask
  <2>4. /\ deployments'[t.place] = Absent
        /\ \A x \in Places : x # t.place => deployments'[x] = deployments[x]
    BY <1>2, <2>1, <2>3, WriteLeavesOthers DEF IInv
  <2> QED
    BY <2>4 DEF SuccessorAt, Exists
<1> QED
  BY <1>1, <1>2 DEF CleanupPreview

\* Only those three write a Deployment.
LEMMA StepSucceeds == IInv /\ [Next]_vars => \A x \in Places : SuccessorAt(x)
<1> SUFFICES ASSUME IInv, [Next]_vars
             PROVE  \A x \in Places : SuccessorAt(x)
  OBVIOUS
<1>1. CASE \E p \in Procs : Deploy(p)
  BY <1>1, ApplySucceeds, RevertSucceeds, NoWrite DEF Deploy, Ensure, ApplyGet, CallFails
<1>2. CASE \E pull \in Pulls : CleanupPreview(pull)
  BY <1>2, CleanupSucceeds
<1>3. CASE UNCHANGED deployments
  BY <1>3, NoWrite
<1>4. \/ \E p \in Procs : Deploy(p)
      \/ \E pull \in Pulls : CleanupPreview(pull)
      \/ UNCHANGED deployments
  BY DEF Next, vars, Watch, TriggerBuild, PROpened, SubmitPreview, PRClosed, JobEnds,
         JobExpires, WatchPoll, WatchScan, WatchTimeout, ReconcileList, ReconcileJob,
         ReconcileEnds, Promote, Rollback, Restart
<1> QED
  BY <1>1, <1>2, <1>3, <1>4

\* The annotation a rollback trusts is the image that ran just before, however
\* deploys, promotes and rollbacks of the same application race.
THEOREM PreviousIsPredecessor == Spec => PrevIsPredecessor
<1>1. IInv /\ [Next]_vars =>
        [\A p \in Places :
           Exists(p) /\ Exists(p)' /\ deployments[p] # deployments'[p]
             => /\ deployments'[p].image # deployments[p].image
                /\ deployments'[p].prev = deployments[p].image]_vars
  BY StepSucceeds DEF SuccessorAt
<1> QED
  BY <1>1, BuildInvariantHolds, PTL DEF Spec, PrevIsPredecessor
=============================================================================
