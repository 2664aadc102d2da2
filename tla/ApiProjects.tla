-------------------------------- MODULE ApiProjects --------------------------------
(***************************************************************************)
(* Projects of tinai-api and what hangs from them: environments, secrets,  *)
(* variables, webhooks, deploy hooks, cron jobs, queues, feature flags and *)
(* firewall rules, and the GPU instances of a tenant (routes/projects.ts,  *)
(* envVars.ts, webhooks.ts, cronJobs.ts, featureFlags.ts, firewall.ts,     *)
(* instances.ts).  PostgreSQL deletes the children of a deleted project    *)
(* and refuses a child without parent; between two statements of a handler *)
(* anything may happen, and any statement may be the handler's last.       *)
(***************************************************************************)
EXTENDS Naturals, FiniteSets

CONSTANTS
    PrjReqs,      \* requests; the id of a project is that of the request creating it
    Slugs,        \* slugs that names become
    FlagVals,     \* values of a feature flag; the flag of a project is created with FlagZero
    FlagZero,
    HookReqs,     \* events dispatched to webhooks
    Hooks,        \* webhooks subscribed to them
    InstReqs,     \* launches; the id of an instance is that of its launch
    MaxRunning    \* FREE_TIER_MAX_RUNNING

VARIABLES
    prjSlug,      \* slug of each project, "none" when it does not exist
    prjEnvs,      \* environments of each project
    prjOthers,    \* its other children: <<kind, key>>
    prjTask,      \* per request
    prjCreated,   \* history: projects whose creation was answered
    flagRow,      \* per project: value of its flag, or "none"
    flagLog,      \* feature_flag_history: per project, the <<old, new>> recorded
    flagLoose,    \* history: values written by a handler that ended before its record
    hookSent,     \* per event: webhooks posted to
    hookTask,     \* per event: "none", "run" or "done", and the webhooks left
    instRow,      \* per instance: its status
    instTask,     \* per launch or stop
    instLaunch    \* per instance: how far the provisioner's goroutine is

prjVars  == <<prjSlug, prjEnvs, prjOthers, prjTask, prjCreated>>
flagVars == <<flagRow, flagLog, flagLoose>>
hookVars == <<hookSent, hookTask>>
instVars == <<instRow, instTask, instLaunch>>
projectVars == <<prjVars, flagVars, hookVars, instVars>>

PrjIdle == [pc |-> "none", prj |-> 0, slug |-> "none", old |-> "none", todo |-> {}]
DefaultEnvs == {"production", "staging", "development"}
EnvNames == DefaultEnvs \cup {"preview"}
ChildKinds == {"secret", "webhook", "hook", "cron", "queue", "rule", "edge", "variable"}

ProjectsInit ==
    /\ prjSlug = [p \in PrjReqs |-> "none"] /\ prjEnvs = [p \in PrjReqs |-> {}]
    /\ prjOthers = [p \in PrjReqs |-> {}]
    /\ prjTask = [q \in PrjReqs |-> PrjIdle] /\ prjCreated = {}
    /\ flagRow = [p \in PrjReqs |-> "none"] /\ flagLog = [p \in PrjReqs |-> {}]
    /\ flagLoose = [p \in PrjReqs |-> {}]
    /\ hookSent = [v \in HookReqs |-> {}] /\ hookTask = [v \in HookReqs |-> [pc |-> "none", todo |-> {}]]
    /\ instRow = [i \in InstReqs |-> "none"]
    /\ instTask = [i \in InstReqs |-> [pc |-> "none", inst |-> i]] /\ instLaunch = [i \in InstReqs |-> "none"]

Exists(p) == prjSlug[p] # "none"
Taken(s)  == \E p \in PrjReqs : prjSlug[p] = s
PrjAt(q, pc) == prjTask[q].pc = pc
PrjGo(q, pc) == prjTask' = [prjTask EXCEPT ![q].pc = pc]

(***************************************************************************)
(* Projects and environments                                               *)
(***************************************************************************)
\* POST /projects: 409 when the slug is taken, or the insert is next.
CreateProject(q, s) ==
    /\ PrjAt(q, "none") /\ ~Taken(s)
    /\ prjTask' = [prjTask EXCEPT ![q] = [PrjIdle EXCEPT !.pc = "insert", !.prj = q, !.slug = s,
                                                       !.todo = DefaultEnvs]]
    /\ UNCHANGED <<prjSlug, prjEnvs, prjOthers, prjCreated, flagVars, hookVars, instVars>>

\* A slug taken meanwhile violates UNIQUE (tenant_id, slug): 500.
InsertProject(q) ==
    LET t == prjTask[q] IN
    /\ PrjAt(q, "insert")
    /\ PrjGo(q, IF Taken(t.slug) THEN "done" ELSE "envs")
    /\ prjSlug' = IF Taken(t.slug) THEN prjSlug ELSE [prjSlug EXCEPT ![q] = t.slug]
    /\ UNCHANGED <<prjEnvs, prjOthers, prjCreated, flagVars, hookVars, instVars>>

\* The environments one by one, in no transaction: an insert violates the
\* foreign key once the project is gone, or UNIQUE once it is there.
InsertEnvironment(q) ==
    LET t == prjTask[q] IN
    /\ PrjAt(q, "envs")
    /\ \E v \in t.todo :
         LET ok == Exists(t.prj) /\ v \notin prjEnvs[t.prj] IN
         /\ prjEnvs' = IF ok THEN [prjEnvs EXCEPT ![t.prj] = @ \cup {v}] ELSE prjEnvs
         /\ prjTask' = [prjTask EXCEPT ![q].todo = @ \ {v},
                                       ![q].pc = IF ok /\ t.todo # {v} THEN "envs" ELSE "done"]
         /\ prjCreated' = IF ok /\ t.todo = {v} /\ t.slug # "none" THEN prjCreated \cup {q} ELSE prjCreated
    /\ UNCHANGED <<prjSlug, prjOthers, flagVars, hookVars, instVars>>

\* POST /projects/:id/environments: the project and a free name, then the insert.
AddEnvironment(q, p, v) ==
    /\ PrjAt(q, "none") /\ Exists(p) /\ v \notin prjEnvs[p]
    /\ prjTask' = [prjTask EXCEPT ![q] = [PrjIdle EXCEPT !.pc = "envs", !.prj = p, !.todo = {v}]]
    /\ UNCHANGED <<prjSlug, prjEnvs, prjOthers, prjCreated, flagVars, hookVars, instVars>>

\* DELETE /projects/:id/environments/:envId deletes by id what is not production.
DeleteEnvironment(q, p, v) ==
    /\ PrjAt(q, "none") /\ v \in prjEnvs[p] /\ v # "production"
    /\ PrjGo(q, "done") /\ prjEnvs' = [prjEnvs EXCEPT ![p] = @ \ {v}]
    /\ UNCHANGED <<prjSlug, prjOthers, prjCreated, flagVars, hookVars, instVars>>

\* PUT /projects/:id: a new slug must be free among the others when read.
RenameProject(q, p, s) ==
    /\ PrjAt(q, "none") /\ Exists(p) /\ (s # prjSlug[p] => ~Taken(s))
    /\ prjTask' = [prjTask EXCEPT ![q] = [PrjIdle EXCEPT !.pc = "rename", !.prj = p, !.slug = s]]
    /\ UNCHANGED <<prjSlug, prjEnvs, prjOthers, prjCreated, flagVars, hookVars, instVars>>

UpdateProject(q) ==
    LET t == prjTask[q]  clash == \E p \in PrjReqs \ {t.prj} : prjSlug[p] = t.slug IN
    /\ PrjAt(q, "rename") /\ PrjGo(q, "done")
    /\ prjSlug' = IF Exists(t.prj) /\ ~clash THEN [prjSlug EXCEPT ![t.prj] = t.slug] ELSE prjSlug
    /\ UNCHANGED <<prjEnvs, prjOthers, prjCreated, flagVars, hookVars, instVars>>

\* DELETE /projects/:id takes every child with it.
DeleteProject(q, p) ==
    /\ PrjAt(q, "none") /\ Exists(p) /\ PrjGo(q, "done")
    /\ prjSlug' = [prjSlug EXCEPT ![p] = "none"] /\ prjEnvs' = [prjEnvs EXCEPT ![p] = {}]
    /\ prjOthers' = [prjOthers EXCEPT ![p] = {}]
    /\ flagRow' = [flagRow EXCEPT ![p] = "none"] /\ flagLog' = [flagLog EXCEPT ![p] = {}]
    /\ flagLoose' = [flagLoose EXCEPT ![p] = {}]
    /\ UNCHANGED <<prjCreated, hookVars, instVars>>

(***************************************************************************)
(* The other children: one statement each                                  *)
(***************************************************************************)
AddChild(p, kind) ==
    /\ Exists(p) /\ prjOthers' = [prjOthers EXCEPT ![p] = @ \cup {kind}]
DropChild(p, kind) == prjOthers' = [prjOthers EXCEPT ![p] = @ \ {kind}]

CreateVariable(p)   == AddChild(p, "variable")     \* one; 409 when it is there
BulkVariables(p)    == AddChild(p, "variable")     \* upserts
DeleteVariable(p)   == DropChild(p, "variable")
PutSecret(p)        == AddChild(p, "secret")       \* upsert
DeleteSecret(p)     == DropChild(p, "secret")
CreateWebhook(p)    == AddChild(p, "webhook")
DeleteWebhook(p)    == DropChild(p, "webhook")
CreateDeployHook(p) == AddChild(p, "hook")
CreateCron(p)       == AddChild(p, "cron")
DeleteCron(p)       == DropChild(p, "cron")
CreateQueue(p)      == AddChild(p, "queue")
CreateRule(p)       == AddChild(p, "rule")
DeleteRule(p)       == DropChild(p, "rule")
PutEdgeConfig(p)    == AddChild(p, "edge")         \* upsert with its digest
DeleteEdgeConfig(p) == DropChild(p, "edge")

ChildStep(q, p) ==
    /\ PrjAt(q, "none") /\ PrjGo(q, "done")
    /\ \/ CreateVariable(p) \/ BulkVariables(p) \/ DeleteVariable(p)
       \/ PutSecret(p) \/ DeleteSecret(p) \/ CreateWebhook(p) \/ DeleteWebhook(p)
       \/ CreateDeployHook(p) \/ CreateCron(p) \/ DeleteCron(p) \/ CreateQueue(p)
       \/ CreateRule(p) \/ DeleteRule(p) \/ PutEdgeConfig(p) \/ DeleteEdgeConfig(p)
    /\ UNCHANGED <<prjSlug, prjEnvs, prjCreated, flagVars, hookVars, instVars>>

(***************************************************************************)
(* Feature flags: the row first, its history after                         *)
(***************************************************************************)
CreateFlag(q, p) ==
    /\ PrjAt(q, "none") /\ Exists(p) /\ flagRow[p] = "none"
    /\ flagRow' = [flagRow EXCEPT ![p] = FlagZero]
    /\ prjTask' = [prjTask EXCEPT ![q] = [PrjIdle EXCEPT !.pc = "log", !.prj = p, !.slug = FlagZero]]
    /\ UNCHANGED <<prjSlug, prjEnvs, prjOthers, prjCreated, flagLog, flagLoose, hookVars, instVars>>

\* PUT reads the row the history will call the old one, and updates it next.
ReadFlag(q, p, v) ==
    /\ PrjAt(q, "none") /\ flagRow[p] # "none"
    /\ prjTask' = [prjTask EXCEPT ![q] = [PrjIdle EXCEPT !.pc = "flag", !.prj = p, !.slug = v,
                                                       !.old = flagRow[p]]]
    /\ UNCHANGED <<prjSlug, prjEnvs, prjOthers, prjCreated, flagVars, hookVars, instVars>>

UpdateFlag(q) ==
    LET t == prjTask[q]  there == flagRow[t.prj] # "none" IN
    /\ PrjAt(q, "flag") /\ PrjGo(q, IF there THEN "log" ELSE "done")
    /\ flagRow' = IF there THEN [flagRow EXCEPT ![t.prj] = t.slug] ELSE flagRow
    /\ UNCHANGED <<prjSlug, prjEnvs, prjOthers, prjCreated, flagLog, flagLoose, hookVars, instVars>>

\* The history refers to the flag: refused once that is gone.
LogFlag(q) ==
    LET t == prjTask[q] IN
    /\ PrjAt(q, "log") /\ PrjGo(q, "done")
    /\ flagLog' = IF flagRow[t.prj] = "none" THEN flagLog
                  ELSE [flagLog EXCEPT ![t.prj] = @ \cup {<<t.old, t.slug>>}]
    /\ UNCHANGED <<prjSlug, prjEnvs, prjOthers, prjCreated, flagRow, flagLoose, hookVars, instVars>>

DeleteFlag(q, p) ==
    /\ PrjAt(q, "none") /\ PrjGo(q, "done")
    /\ flagRow' = [flagRow EXCEPT ![p] = "none"] /\ flagLog' = [flagLog EXCEPT ![p] = {}]
    /\ flagLoose' = [flagLoose EXCEPT ![p] = {}]
    /\ UNCHANGED <<prjSlug, prjEnvs, prjOthers, prjCreated, hookVars, instVars>>

\* The process dies, or the statement that is next fails.
HandlerEnds(q) ==
    LET t == prjTask[q] IN
    /\ t.pc \notin {"none", "done"} /\ PrjGo(q, "done")
    /\ flagLoose' = IF t.pc = "log" THEN [flagLoose EXCEPT ![t.prj] = @ \cup {t.slug}] ELSE flagLoose
    /\ UNCHANGED <<prjSlug, prjEnvs, prjOthers, prjCreated, flagRow, flagLog, hookVars, instVars>>

ProjectNext == \E q \in PrjReqs :
    \/ InsertProject(q) \/ InsertEnvironment(q) \/ UpdateProject(q) \/ HandlerEnds(q)
    \/ \E s \in Slugs : CreateProject(q, s) \/ \E p \in PrjReqs : RenameProject(q, p, s)
    \/ \E p \in PrjReqs :
         \/ DeleteProject(q, p) \/ ChildStep(q, p)
         \/ \E v \in EnvNames : AddEnvironment(q, p, v) \/ DeleteEnvironment(q, p, v)

FlagNext == \E q \in PrjReqs :
    \/ UpdateFlag(q) \/ LogFlag(q) \/ HandlerEnds(q)
    \/ \E p \in PrjReqs :
         \/ CreateFlag(q, p) \/ DeleteFlag(q, p) \/ DeleteProject(q, p)
         \/ \E v \in FlagVals : ReadFlag(q, p, v)

(***************************************************************************)
(* Webhooks, cron jobs and deploy hooks call out                           *)
(***************************************************************************)
\* dispatchWebhook posts to the webhooks read at the start, in turn.
Dispatch(v) ==
    /\ hookTask[v].pc = "none"
    /\ hookTask' = [hookTask EXCEPT ![v] = [pc |-> "run", todo |-> Hooks]]
    /\ UNCHANGED <<hookSent, prjVars, flagVars, instVars>>

\* A post that fails is recorded like one that is answered; when a record of
\* a failure fails, as it does for a webhook deleted meanwhile, the rest wait
\* for nothing.
PostWebhook(v) ==
    /\ hookTask[v].pc = "run"
    /\ \E h \in hookTask[v].todo :
         /\ hookSent' = [hookSent EXCEPT ![v] = @ \cup {h}]
         /\ \E recorded \in BOOLEAN :
              hookTask' = [hookTask EXCEPT ![v].todo = @ \ {h},
                 ![v].pc = IF recorded /\ hookTask[v].todo # {h} THEN "run" ELSE "done"]
    /\ UNCHANGED <<prjVars, flagVars, instVars>>

HookNext == \E v \in HookReqs : Dispatch(v) \/ PostWebhook(v)

(***************************************************************************)
(* Instances                                                               *)
(***************************************************************************)
InstCounted == {i \in InstReqs : instRow[i] \in {"provisioning", "running"}}

\* POST /instances counts what is provisioning or running: 429 at the limit.
CountInstances(i) ==
    /\ instTask[i].pc = "none"
    /\ instTask' = [instTask EXCEPT ![i].pc = IF Cardinality(InstCounted) < MaxRunning THEN "insert" ELSE "done"]
    /\ UNCHANGED <<instRow, instLaunch, prjVars, flagVars, hookVars>>

\* The row; the provisioner is told, and polls if it is not.
InsertInstance(i) ==
    /\ instTask[i].pc = "insert" /\ instTask' = [instTask EXCEPT ![i].pc = "done"]
    /\ instRow' = [instRow EXCEPT ![i] = "provisioning"]
    /\ UNCHANGED <<instLaunch, prjVars, flagVars, hookVars>>

\* The provisioner starts what it finds provisioning; its goroutine sets the
\* status three times, whatever it has become: "starting" counts for nothing,
\* and an instance stopped meanwhile runs again.
ProvisionerStarts(i) ==
    /\ \/ /\ instLaunch[i] = "none" /\ instRow[i] = "provisioning"
          /\ instLaunch' = [instLaunch EXCEPT ![i] = "found"] /\ UNCHANGED instRow
       \/ /\ instLaunch[i] = "found"
          /\ instLaunch' = [instLaunch EXCEPT ![i] = "marked"]
          /\ instRow' = [instRow EXCEPT ![i] = "starting"]
       \/ /\ instLaunch[i] = "marked"
          /\ instLaunch' = [instLaunch EXCEPT ![i] = "done"]
          /\ \E s \in {"running", "error"} : instRow' = [instRow EXCEPT ![i] = s]
    /\ UNCHANGED <<instTask, prjVars, flagVars, hookVars>>

\* DELETE /instances/:id: 409 when it is stopped or being stopped.
ReadInstance(q, i) ==
    /\ instTask[q].pc = "none" /\ instRow[i] \notin {"none", "stopped", "stopping"}
    /\ instTask' = [instTask EXCEPT ![q] = [pc |-> "stopping", inst |-> i]]
    /\ UNCHANGED <<instRow, instLaunch, prjVars, flagVars, hookVars>>

\* Two updates by id, whatever the status is by then; a handler that dies
\* between them leaves an instance no request can stop.
StopInstance(q) ==
    LET t == instTask[q] IN
    /\ t.pc \in {"stopping", "stopped"}
    /\ instRow' = [instRow EXCEPT ![t.inst] = t.pc]
    /\ \E pc \in IF t.pc = "stopping" THEN {"stopped", "done"} ELSE {"done"} :
         instTask' = [instTask EXCEPT ![q].pc = pc]
    /\ UNCHANGED <<instLaunch, prjVars, flagVars, hookVars>>

InstanceNext == \E i \in InstReqs :
    \/ CountInstances(i) \/ InsertInstance(i) \/ ProvisionerStarts(i) \/ StopInstance(i)
    \/ \E j \in InstReqs : ReadInstance(i, j)

-----------------------------------------------------------------------------
ProjectsTypeOK ==
    /\ prjSlug \in [PrjReqs -> Slugs \cup {"none"}] /\ prjEnvs \in [PrjReqs -> SUBSET EnvNames]
    /\ prjOthers \in [PrjReqs -> SUBSET ChildKinds] /\ prjCreated \subseteq PrjReqs
    /\ flagRow \in [PrjReqs -> FlagVals \cup {FlagZero, "none"}]
    /\ hookSent \in [HookReqs -> SUBSET Hooks]
    /\ \A i \in InstReqs : instRow[i] \in {"none", "provisioning", "starting", "running", "error", "stopping", "stopped"}

(* The value a feature flag has is one its history records, unless a PUT is *)
(* under way or ended between the update and the record.                   *)
FlagsAreRecorded ==
    \A p \in PrjReqs :
       \/ flagRow[p] \in {"none"} \cup flagLoose[p]
       \/ \E h \in flagLog[p] : h[2] = flagRow[p]
       \/ \E q \in PrjReqs : PrjAt(q, "log") /\ prjTask[q].prj = p /\ prjTask[q].slug = flagRow[p]

(* A project whose creation was answered keeps its production environment   *)
(* as long as it exists, and no two projects share a slug, whatever creates *)
(* and renames raced.                                                      *)
CreatedHaveProduction ==
    /\ \A p \in prjCreated : Exists(p) => "production" \in prjEnvs[p]
    /\ \A p, r \in PrjReqs : Exists(p) /\ prjSlug[p] = prjSlug[r] => p = r
===================================================================================
