------------------------------ MODULE OpsPipeline ------------------------------
(***************************************************************************)
(* From a git push to a running Deployment in tinai-ops-security: the      *)
(* build-deploy service runs one unawaited pipeline per push, the          *)
(* rollback-controller watches every build that succeeded, and the         *)
(* hpa-scaler keeps the KEDA ScaledObject.  They share nothing but the     *)
(* tenant's Deployment "app" and NATS events, and no lock: the model is of *)
(* one tenant, whose pipelines and monitors interleave freely.  Each await *)
(* on Kubernetes or SMTP ends a step.                                      *)
(*                                                                         *)
(* Kubernetes is external: a template is an image, complete or stripped of *)
(* ports, probes and resources.  The old pods keep serving until those of  *)
(* a new template are ready (maxUnavailable 0, maxSurge 1).                *)
(***************************************************************************)
EXTENDS Integers, Sequences, FiniteSets, SequencesExt

CONSTANTS
    Pushes,       \* pushes to the tenant's repository, one commit each
    Watched,      \* pushes whose success event reaches the controller (core NATS)
    MaxPolls,     \* polls of a monitor before its deadline (20)
    ScalePlans    \* keys of SCALING_PROFILES, "starter" among them

ASSUME OpsPipelineAssumption ==
    /\ Pushes \subseteq Nat \ {0} /\ IsFiniteSet(Pushes)
    /\ Watched \subseteq Pushes /\ MaxPolls \in Nat \ {0} /\ "starter" \in ScalePlans

VARIABLES
    sound,      \* pushes whose image answers its health checks
    bld,        \* builds and their pipelines: [pc, status, touched]
    tmpl,       \* spec.template of the Deployment
    serving,    \* template of the last rollout that completed
    up,         \* available and ready replicas reach the desired number
    rs,         \* ReplicaSets, oldest first
    buildEvents,\* tinai.build.* and tinai.ops.deployment.* : <<kind, push>>
    mon,        \* monitorDeployment per build: [pc, polls, healthy]
    undo,       \* triggerRollback per monitor, and one by hand: [pc, ...]
    served,     \* history: images that came up at least once
    scaled,     \* plan of the ScaledObject app-scaler
    planLabel,  \* label tinai.cloud/plan of the namespace
    scaleTimers \* applications due 30 s after tinai.tenant.provisioned

kubeVars  == <<tmpl, serving, up, rs, served>>
scaleVars == <<scaled, planLabel, scaleTimers>>
watchVars == <<mon, undo>>
pipeVars  == <<sound, bld, kubeVars, buildEvents, watchVars, scaleVars>>

NoTmpl   == [img |-> 0, full |-> FALSE]
FullTmpl(p) == [img |-> p, full |-> TRUE]
ByHand   == 0
NoScale  == "none"
Undoers  == Pushes \cup {ByHand}

PipeInit ==
    /\ sound \in SUBSET Pushes
    /\ bld = [p \in Pushes |-> [pc |-> "none", status |-> "none", touched |-> FALSE]]
    /\ tmpl = NoTmpl /\ serving = NoTmpl /\ up = FALSE /\ rs = <<>> /\ served = {}
    /\ buildEvents = {}
    /\ mon = [p \in Pushes |-> [pc |-> "none", polls |-> 0, healthy |-> 0]]
    /\ undo = [u \in Undoers |-> [pc |-> "idle"]]
    /\ scaled = NoScale /\ planLabel \in ScalePlans /\ scaleTimers = {}

(***************************************************************************)
(* Kubernetes                                                              *)
(***************************************************************************)
\* A changed template gets the ReplicaSet it had before, or a new one; the
\* rollouts other pipelines wait for are no longer of their own template.
SetTemplate(t, by) ==
    /\ tmpl' = t
    /\ rs' = IF Contains(rs, t) THEN rs ELSE Append(rs, t)
    /\ bld' = [p \in Pushes |->
          IF p = by THEN [bld[p] EXCEPT !.pc = "rollout"]
          ELSE IF bld[p].pc \in {"rollout", "notify"} /\ t # tmpl
               THEN [bld[p] EXCEPT !.touched = TRUE] ELSE bld[p]]

RolloutCompletes ==
    /\ tmpl # serving /\ (tmpl.img \in sound \/ ~tmpl.full)
    /\ serving' = tmpl /\ up' = TRUE /\ served' = served \cup {tmpl.img}
    /\ UNCHANGED <<sound, bld, tmpl, rs, buildEvents, watchVars, scaleVars>>

PodsChange ==
    /\ serving # NoTmpl /\ up' = ~up
    /\ UNCHANGED <<sound, bld, tmpl, serving, rs, served, buildEvents, watchVars, scaleVars>>

(***************************************************************************)
(* build-deploy                                                            *)
(***************************************************************************)
Build(p, pc, status) == bld' = [bld EXCEPT ![p].pc = pc, ![p].status = status]

\* A push webhook with a valid signature and tenant id: 202, and the
\* pipeline starts whatever other pipelines of the tenant are doing.
PushWebhook(p) ==
    /\ bld[p].pc = "none" /\ Build(p, "wait", "building")
    /\ buildEvents' = buildEvents \cup {<<"started", p>>}
    /\ UNCHANGED <<sound, kubeVars, watchVars, scaleVars>>

\* The Job was created and waitForJob saw status.succeeded.
BuildJobDone(p) ==
    /\ bld[p].pc = "wait" /\ Build(p, "deploy", "deploying")
    /\ UNCHANGED <<sound, kubeVars, buildEvents, watchVars, scaleVars>>

\* deployToK8s: PATCH, or POST when there is no Deployment yet.
DeployToK8s(p) ==
    /\ bld[p].pc = "deploy"
    /\ SetTemplate(FullTmpl(p), p)
    /\ UNCHANGED <<sound, serving, up, served, buildEvents, watchVars, scaleVars>>

\* A defect of RolledOut: only updatedReplicas is compared.
UpdatedOnly == tmpl # NoTmpl

\* waitForRollout: enough pods are updated and enough are available.  They need
\* not be the same: the available ones may still be of the old template, beside
\* an updated one that is not ready, or the status may be older than the
\* template.  So any available pods will do.  Status and event before the mail.
RolledOut == up

RolloutSeen(p) ==
    /\ bld[p].pc = "rollout" /\ RolledOut
    /\ Build(p, "notify", "success")
    /\ buildEvents' = buildEvents \cup {<<"success", p>>}
    /\ UNCHANGED <<sound, kubeVars, watchVars, scaleVars>>

NotifySuccess(p) ==
    /\ bld[p].pc = "notify" /\ Build(p, "done", "success")
    /\ UNCHANGED <<sound, kubeVars, buildEvents, watchVars, scaleVars>>

\* The one catch of runPipeline: a request or the Job fails, the rollout times
\* out, or the mail of a successful deploy is not accepted.  After a time-out
\* rollback() patches spec.rollbackTo, a field apps/v1 does not have: the
\* Deployment keeps its template.
PipelineFails(p) ==
    /\ bld[p].pc \in {"wait", "deploy", "rollout", "notify"}
    /\ Build(p, "tell", "failed")
    /\ buildEvents' = buildEvents \cup {<<"failed", p>>}
    /\ UNCHANGED <<sound, kubeVars, watchVars, scaleVars>>

\* The mail of the failure, then the DLQ: no mail, no DLQ message.
NotifyFailure(p) ==
    /\ bld[p].pc = "tell" /\ Build(p, "done", "failed")
    /\ \/ buildEvents' = buildEvents \cup {<<"dlq", p>>}
       \/ UNCHANGED buildEvents
    /\ UNCHANGED <<sound, kubeVars, watchVars, scaleVars>>

\* The pod dies: the pipelines die with it, and the map of builds.
BuildDeployRestart ==
    /\ \E p \in Pushes : bld[p].pc \notin {"none", "done", "lost"}
    /\ bld' = [p \in Pushes |-> IF bld[p].pc = "none" THEN bld[p]
                                ELSE [bld[p] EXCEPT !.pc = "lost", !.status = "none"]]
    /\ UNCHANGED <<sound, kubeVars, buildEvents, watchVars, scaleVars>>

(***************************************************************************)
(* rollback-controller                                                     *)
(***************************************************************************)
Monitor(p, pc) == mon' = [mon EXCEPT ![p].pc = pc]

\* triggerRollback lists the ReplicaSets without replicas and takes the newest.
ScaledDown == {i \in DOMAIN rs : rs[i] \notin {tmpl, serving}}

UndoEnds(u) == undo' = [undo EXCEPT ![u] = [pc |-> IF u = ByHand THEN "done" ELSE "mail"]]

RollbackList(u) ==
    \/ ScaledDown = {} /\ UndoEnds(u)
    \/ \E i \in ScaledDown :
          /\ \A j \in ScaledDown : j <= i
          /\ undo' = [undo EXCEPT ![u] = [pc |-> "patch", img |-> rs[i].img]]

MonitorStart(p) ==
    /\ mon[p].pc = "none" /\ p \in Watched /\ <<"success", p>> \in buildEvents
    /\ Monitor(p, "watch")
    /\ UNCHANGED <<sound, bld, kubeVars, buildEvents, undo, scaleVars>>

\* One poll: the availability of the Deployment, not of this build; a failed
\* request and a missed progress deadline only reset the count.
MonitorPoll(p) ==
    LET m == mon[p] IN
    /\ m.pc = "watch" /\ m.polls < MaxPolls
    /\ \E seen \in {up, FALSE} :
          LET n == IF seen THEN m.healthy + 1 ELSE 0 IN
          /\ mon' = [mon EXCEPT ![p] = [pc |-> IF n = 3 THEN "stable" ELSE "watch",
                                        polls |-> m.polls + 1, healthy |-> n]]
          /\ buildEvents' = IF n = 3 THEN buildEvents \cup {<<"stable", p>>} ELSE buildEvents
    /\ UNCHANGED <<sound, bld, kubeVars, undo, scaleVars>>

\* The deadline: triggerRollback marks the Deployment, which may by now run
\* another build than the one watched.
MonitorDeadline(p) ==
    /\ mon[p].pc = "watch" /\ mon[p].polls = MaxPolls
    /\ Monitor(p, "undo") /\ RollbackList(p)
    /\ UNCHANGED <<sound, bld, kubeVars, buildEvents, scaleVars>>

RollbackByHand ==
    /\ undo[ByHand].pc = "idle" /\ tmpl # NoTmpl /\ RollbackList(ByHand)
    /\ UNCHANGED <<sound, bld, kubeVars, buildEvents, mon, scaleVars>>

\* A merge patch of the containers array replaces it: name and image only.
RollbackPatch(u) ==
    /\ undo[u].pc = "patch"
    /\ SetTemplate([img |-> undo[u].img, full |-> FALSE], -1)
    /\ UndoEnds(u)
    /\ UNCHANGED <<sound, serving, up, served, buildEvents, mon, scaleVars>>

\* The mail to the administrator, then the event.
RollbackReported(p) ==
    /\ undo[p].pc = "mail"
    /\ undo' = [undo EXCEPT ![p] = [pc |-> "done"]] /\ Monitor(p, "done")
    /\ buildEvents' = buildEvents \cup {<<"rollback", p>>}
    /\ UNCHANGED <<sound, bld, kubeVars, scaleVars>>

\* A request or the mail fails: the monitor is over, what it did stays.
RollbackFails(u) ==
    /\ undo[u].pc \in {"patch", "mail"}
    /\ undo' = [undo EXCEPT ![u] = [pc |-> "done"]]
    /\ IF u = ByHand THEN UNCHANGED mon ELSE Monitor(u, "done")
    /\ UNCHANGED <<sound, bld, kubeVars, buildEvents, scaleVars>>

(***************************************************************************)
(* hpa-scaler                                                              *)
(***************************************************************************)
ApplyScaledObject(plan) == scaled' = plan

TenantProvisioned ==
    /\ scaled = NoScale /\ scaleTimers' = {planLabel}
    /\ UNCHANGED <<sound, bld, kubeVars, buildEvents, watchVars, scaled, planLabel>>

\* The timer is in memory: fired, or lost with the process.
ScaleTimer(plan) ==
    /\ plan \in scaleTimers /\ scaleTimers' = scaleTimers \ {plan}
    /\ ApplyScaledObject(plan) \/ UNCHANGED scaled
    /\ UNCHANGED <<sound, bld, kubeVars, buildEvents, watchVars, planLabel>>

\* POST /scaling/:tenantId: the plan of the body; min and max are ignored.
ScaleByHand(plan) ==
    /\ ApplyScaledObject(plan)
    /\ UNCHANGED <<sound, bld, kubeVars, buildEvents, watchVars, planLabel, scaleTimers>>

\* reconcileAllTenants: every tenant with a Deployment gets the plan of its
\* label; a profile the table does not have is the starter's.
ReconcileScaling ==
    /\ tmpl # NoTmpl /\ ApplyScaledObject(planLabel)
    /\ UNCHANGED <<sound, bld, kubeVars, buildEvents, watchVars, planLabel, scaleTimers>>

PipeNext ==
    \/ RolloutCompletes \/ PodsChange \/ BuildDeployRestart \/ RollbackByHand
    \/ \E p \in Pushes :
          \/ PushWebhook(p) \/ BuildJobDone(p) \/ DeployToK8s(p)
          \/ RolloutSeen(p) \/ NotifySuccess(p) \/ PipelineFails(p)
          \/ NotifyFailure(p)
          \/ MonitorStart(p) \/ MonitorPoll(p) \/ MonitorDeadline(p) \/ RollbackReported(p)
    \/ \E u \in Undoers : RollbackPatch(u) \/ RollbackFails(u)

ScaleNext ==
    \/ TenantProvisioned \/ ReconcileScaling
    \/ \E plan \in ScalePlans : ScaleTimer(plan) \/ ScaleByHand(plan)

(***************************************************************************)
(* Properties                                                              *)
(***************************************************************************)
PipeTypeOK ==
    /\ tmpl.img \in Pushes \cup {0} /\ up \in BOOLEAN
    /\ \A p \in Pushes : bld[p].status \in {"none", "building", "deploying", "success", "failed"}
    /\ \A p \in Pushes : mon[p].polls \in 0..MaxPolls /\ mon[p].healthy \in 0..3
    /\ scaled \in ScalePlans \cup {NoScale}

\* A build announced as a success came up, healthy, or was announced over pods
\* of an earlier template that had come up (the poll does not tell them apart),
\* unless another pipeline or a rollback changed the template while this one
\* waited.  So no success is announced of a tenant that has nothing serving.
SuccessMeansServed ==
    \A p \in Pushes : bld[p].status = "success" /\ ~bld[p].touched =>
        \/ p \in served \cap sound
        \/ \E i, j \in DOMAIN rs : i < j /\ rs[j] = FullTmpl(p) /\ rs[i].img \in served

\* A tenant is never rolled back while a single build is all that happened
\* to it: with no earlier template to return to, the Deployment keeps the
\* complete template of that build.
NothingToReturnTo ==
    (Cardinality({p \in Pushes : bld[p].pc # "none"}) <= 1) => tmpl.full \/ tmpl = NoTmpl
================================================================================
