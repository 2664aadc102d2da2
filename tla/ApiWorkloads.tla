------------------------------- MODULE ApiWorkloads -------------------------------
(***************************************************************************)
(* Workloads and what limits them in tinai-api (routes/workloads.ts,       *)
(* plans.ts, volumes.ts, provisioner.ts, middleware/planGate.ts).  Rows    *)
(* are found by their id, and two of a tenant may have one name: only the  *)
(* table server.ts makes has UNIQUE (tenant_id, name), that of migration   *)
(* 013 has not.  The Kubernetes objects of all tenants share one namespace, *)
(* so there is one per name.  Requests are handled once each and give the  *)
(* row they insert its id; their steps are the handlers' awaits, and the   *)
(* process may die between any two.                                        *)
(***************************************************************************)
EXTENDS Integers, Sequences, FiniteSets

CONSTANTS
    WlReqs,       \* requests about workloads
    WlTenants,    \* tenants
    WlNames,      \* workload names
    WlParts,      \* the objects of a service, in order: deployment, service, ingress,
                  \* "scaledobject"
    PlanLimits,   \* values of max_workloads; -1: unlimited
    NsReqs,       \* calls of provisionNamespace for one namespace
    NsPolicies,   \* its network policies, in order
    NsPlans,      \* plans those calls name
    VolReqs       \* requests about volumes of one deployment

ASSUME ApiWorkloadsAssumption ==
    /\ WlReqs \subseteq Nat \ {0} /\ Len(WlParts) \in Nat /\ PlanLimits \subseteq Nat \cup {-1}
    /\ "none" \notin WlTenants
    /\ NsPolicies \in Seq(STRING) /\ \A i \in 1..Len(NsPolicies) : NsPolicies[i] # "quota"

VARIABLES
    wlRow,        \* workloads: per id [who, name, status, spec], or NoRow
    wlObject,     \* per name and part: the tenant whose manifest is applied, or "none"
    wlTask,       \* per request
    wlPlan,       \* tenant_plans: the limit a tenant has
    wlCache,      \* planCache: a limit read earlier, or Unread
    wlBest,       \* history: the highest limit the tenant has had
    wlRaced,      \* history: tenants with two requests between count and insert
    wlOverlap,    \* history: names two requests used at once
    nsObject,     \* objects of the namespace
    nsQuota,      \* the plan its quota is for
    nsTask,       \* per call: the next step, and the plan
    volClaim,     \* PVCs
    volMount,     \* PVCs mounted in the deployment, and its resourceVersion
    volRow,       \* app_volumes
    volTask       \* per request

wlState  == <<wlRow, wlObject, wlTask, wlPlan, wlCache, wlBest, wlRaced, wlOverlap>>
nsState  == <<nsObject, nsQuota, nsTask>>
volState == <<volClaim, volMount, volRow, volTask>>
workloadVars == <<wlState, nsState, volState>>

NoRow == [who |-> "none", name |-> "none", status |-> "none", spec |-> {}]
WlIdle == [pc |-> "none", op |-> "none", who |-> "none", name |-> "none", limit |-> 0,
           row |-> 0, spec |-> {}, part |-> 1, status |-> "pending"]
Unlimited(n) == n = -1
Unread == -2

WorkloadsInit ==
    /\ wlRow = [r \in WlReqs |-> NoRow]
    /\ wlObject = [n \in WlNames |-> [p \in 1..Len(WlParts) |-> "none"]]
    /\ wlTask = [q \in WlReqs |-> WlIdle]
    /\ wlPlan \in [WlTenants -> PlanLimits]
    /\ wlCache = [t \in WlTenants |-> Unread] /\ wlBest = wlPlan
    /\ wlRaced = {} /\ wlOverlap = {}
    /\ nsObject = {} /\ nsQuota = "none" /\ nsTask = [q \in NsReqs |-> [step |-> 0, plan |-> "none"]]
    /\ volClaim = {} /\ volMount = [ver |-> 0, pvcs |-> {}] /\ volRow = {}
    /\ volTask = [q \in VolReqs |-> [pc |-> "none", pvc |-> 0, ver |-> 0]]

(***************************************************************************)
(* The plan gate                                                           *)
(***************************************************************************)
Rows(t) == {r \in WlReqs : wlRow[r].who = t}
Active(q) == wlTask[q].pc \notin {"none", "done"}
WlAt(q, pc) == wlTask[q].pc = pc
WlGo(q, pc) == wlTask' = [wlTask EXCEPT ![q].pc = pc]

\* A request on a name overlaps another one on it, of any tenant.
Overlap(q, n) == \E r \in WlReqs \ {q} : Active(r) /\ wlTask[r].name = n
Mark(q, n) == wlOverlap' = IF Overlap(q, n) THEN wlOverlap \cup {n} ELSE wlOverlap

\* POST /workloads: the gate takes the limit from its cache, or reads it.
GateLimit(q, t, n) ==
    LET limit == IF wlCache[t] = Unread THEN wlPlan[t] ELSE wlCache[t] IN
    /\ WlAt(q, "none")
    /\ wlTask' = [wlTask EXCEPT ![q] = [WlIdle EXCEPT !.pc = "count", !.op = "create",
                                        !.who = t, !.name = n, !.limit = limit]]
    /\ wlCache' = [wlCache EXCEPT ![t] = limit]
    /\ Mark(q, n)
    /\ UNCHANGED <<wlRow, wlObject, wlPlan, wlBest, wlRaced, nsState, volState>>

\* A defect of GateCount: lets one more in at the limit.
GateAtLimit(q) ==
    LET t == wlTask[q]
        passes == Unlimited(t.limit) \/ Cardinality(Rows(t.who)) <= t.limit
        raced == \E r \in WlReqs \ {q} : WlAt(r, "insert") /\ wlTask[r].who = t.who
    IN
    /\ WlAt(q, "count") /\ WlGo(q, IF passes THEN "insert" ELSE "done")
    /\ wlRaced' = IF passes /\ raced THEN wlRaced \cup {t.who} ELSE wlRaced
    /\ UNCHANGED <<wlRow, wlObject, wlPlan, wlCache, wlBest, wlOverlap, nsState, volState>>

\* It counts the tenant's rows unless the plan has no limit: 402 when full.
GateCount(q) ==
    LET t == wlTask[q]
        passes == Unlimited(t.limit) \/ Cardinality(Rows(t.who)) < t.limit
        raced == \E r \in WlReqs \ {q} : WlAt(r, "insert") /\ wlTask[r].who = t.who
    IN
    /\ WlAt(q, "count") /\ WlGo(q, IF passes THEN "insert" ELSE "done")
    /\ wlRaced' = IF passes /\ raced THEN wlRaced \cup {t.who} ELSE wlRaced
    /\ UNCHANGED <<wlRow, wlObject, wlPlan, wlCache, wlBest, wlOverlap, nsState, volState>>

\* The entry of the cache expires; POST /plans/upgrade does not touch it.
CacheExpires(t) ==
    /\ wlCache[t] # Unread /\ wlCache' = [wlCache EXCEPT ![t] = Unread]
    /\ UNCHANGED <<wlRow, wlObject, wlTask, wlPlan, wlBest, wlRaced, wlOverlap, nsState, volState>>

\* POST /plans/upgrade sets the plan first and asks for the payment after.
UpgradePlan(t, limit) ==
    /\ limit # wlPlan[t] /\ wlPlan' = [wlPlan EXCEPT ![t] = limit]
    /\ wlBest' = [wlBest EXCEPT ![t] = IF Unlimited(limit) THEN limit
                                       ELSE IF Unlimited(@) \/ @ > limit THEN @ ELSE limit]
    /\ UNCHANGED <<wlRow, wlObject, wlTask, wlCache, wlRaced, wlOverlap, nsState, volState>>

(***************************************************************************)
(* Workloads                                                               *)
(***************************************************************************)
\* INSERT; a table with the unique constraint refuses a name the tenant has.
\* Then a build is asked for, or the manifests of the image are applied.
InsertWorkload(q) ==
    LET t == wlTask[q] IN
    /\ WlAt(q, "insert")
    /\ \/ /\ \E r \in Rows(t.who) : wlRow[r].name = t.name
          /\ WlGo(q, "done") /\ UNCHANGED wlRow
       \/ /\ wlRow' = [wlRow EXCEPT ![q] = [who |-> t.who, name |-> t.name, status |-> "pending", spec |-> {}]]
          /\ \/ wlTask' = [wlTask EXCEPT ![q].pc = "apply", ![q].row = q]
             \/ wlTask' = [wlTask EXCEPT ![q].pc = "status", ![q].row = q, ![q].status = "building"]
    /\ UNCHANGED <<wlObject, wlPlan, wlCache, wlBest, wlRaced, wlOverlap, nsState, volState>>

\* The ScaledObject is applied and deleted at best effort.
BestEffort(p) == WlParts[p] = "scaledobject"

\* deployToK8s creates, or replaces what has the name; a failure ends it, except
\* that of creating the ScaledObject.
ApplyPart(q) ==
    LET t == wlTask[q]  last == t.part = Len(WlParts) IN
    /\ WlAt(q, "apply")
    /\ \/ /\ \/ wlObject' = [wlObject EXCEPT ![t.name][t.part] = t.who]
             \/ BestEffort(t.part) /\ UNCHANGED wlObject
          /\ wlTask' = [wlTask EXCEPT ![q].part = @ + 1, ![q].status = "running",
                                      ![q].pc = IF last THEN "status" ELSE "apply"]
       \/ /\ BestEffort(t.part) => wlObject[t.name][t.part] # "none"
          /\ UNCHANGED wlObject
          /\ wlTask' = [wlTask EXCEPT ![q].pc = "status", ![q].status = "failed"]
    /\ UNCHANGED <<wlRow, wlPlan, wlCache, wlBest, wlRaced, wlOverlap, nsState, volState>>

\* UPDATE ... WHERE id: nothing when that row is gone.
SetStatus(q) ==
    LET t == wlTask[q] IN
    /\ WlAt(q, "status") /\ WlGo(q, "done")
    /\ wlRow' = IF wlRow[t.row] = NoRow THEN wlRow ELSE [wlRow EXCEPT ![t.row].status = t.status]
    /\ UNCHANGED <<wlObject, wlPlan, wlCache, wlBest, wlRaced, wlOverlap, nsState, volState>>

\* DELETE, PUT and POST deploy begin by reading the row of the id.
ReadWorkload(q, op, r) ==
    LET w == wlRow[r] IN
    /\ WlAt(q, "none") /\ w # NoRow
    /\ wlTask' = [wlTask EXCEPT ![q] = [WlIdle EXCEPT !.op = op, !.who = w.who, !.name = w.name,
         !.row = r, !.spec = w.spec,
         !.pc = CASE op = "delete" -> "remove" [] op = "put" -> "patch" [] OTHER -> "restart"]]
    /\ Mark(q, w.name)
    /\ UNCHANGED <<wlRow, wlObject, wlPlan, wlCache, wlBest, wlRaced, nsState, volState>>

\* A defect of RemovePart: a failed deletion does not end the handler.
RemoveRegardless(q) ==
    LET t == wlTask[q] IN
    /\ WlAt(q, "remove")
    /\ wlObject' \in {wlObject, [wlObject EXCEPT ![t.name][t.part] = "none"]}
    /\ wlTask' = [wlTask EXCEPT ![q].part = @ + 1,
                               ![q].pc = IF t.part = Len(WlParts) THEN "delrow" ELSE "remove"]
    /\ UNCHANGED <<wlRow, wlPlan, wlCache, wlBest, wlRaced, wlOverlap, nsState, volState>>

\* deleteK8sResources: an object that is not there is as good as deleted,
\* any other failure is the handler's, except with the ScaledObject.
RemovePart(q) ==
    LET t == wlTask[q]  last == t.part = Len(WlParts) IN
    /\ WlAt(q, "remove")
    /\ \/ /\ \/ wlObject' = [wlObject EXCEPT ![t.name][t.part] = "none"]
             \/ BestEffort(t.part) /\ UNCHANGED wlObject
          /\ wlTask' = [wlTask EXCEPT ![q].part = @ + 1, ![q].pc = IF last THEN "delrow" ELSE "remove"]
       \/ ~BestEffort(t.part) /\ UNCHANGED wlObject /\ WlGo(q, "done")
    /\ UNCHANGED <<wlRow, wlPlan, wlCache, wlBest, wlRaced, wlOverlap, nsState, volState>>

DeleteRow(q) ==
    /\ WlAt(q, "delrow") /\ WlGo(q, "done")
    /\ wlRow' = [wlRow EXCEPT ![wlTask[q].row] = NoRow]
    /\ UNCHANGED <<wlObject, wlPlan, wlCache, wlBest, wlRaced, wlOverlap, nsState, volState>>

\* PUT: the Deployment is patched if it can be, and every column of the row
\* is written, those the request does not name from the read.
PutWorkload(q, column) ==
    LET t == wlTask[q] IN
    /\ WlAt(q, "patch") /\ WlGo(q, "done")
    /\ wlRow' = IF wlRow[t.row] = NoRow THEN wlRow ELSE [wlRow EXCEPT ![t.row].spec = t.spec \cup {column}]
    /\ UNCHANGED <<wlObject, wlPlan, wlCache, wlBest, wlRaced, wlOverlap, nsState, volState>>

\* POST deploy: a service is restarted by an annotation on its Deployment,
\* which has to be there; one without an image is built.
RestartWorkload(q) ==
    LET n == wlTask[q].name IN
    /\ WlAt(q, "restart")
    /\ \E s \in {"running", "failed", "building"} :
         /\ s = "running" => wlObject[n][1] # "none"
         /\ wlTask' = [wlTask EXCEPT ![q].pc = "status", ![q].status = s]
    /\ UNCHANGED <<wlRow, wlObject, wlPlan, wlCache, wlBest, wlRaced, wlOverlap, nsState, volState>>

\* The process dies: open requests end where they are, the cache is lost.
ApiDies ==
    /\ \E q \in WlReqs : Active(q)
    /\ wlTask' = [q \in WlReqs |-> IF Active(q) THEN [wlTask[q] EXCEPT !.pc = "done"] ELSE wlTask[q]]
    /\ wlCache' = [t \in WlTenants |-> Unread]
    /\ UNCHANGED <<wlRow, wlObject, wlPlan, wlBest, wlRaced, wlOverlap, nsState, volState>>

WorkloadNext ==
    \/ ApiDies
    \/ \E q \in WlReqs :
         \/ GateCount(q) \/ InsertWorkload(q) \/ ApplyPart(q) \/ SetStatus(q) \/ RemovePart(q)
         \/ DeleteRow(q) \/ RestartWorkload(q)
         \/ \E c \in {"image", "env"} : PutWorkload(q, c)
         \/ \E t \in WlTenants, n \in WlNames : GateLimit(q, t, n)
         \/ \E op \in {"delete", "put", "deploy"}, r \in WlReqs : ReadWorkload(q, op, r)
    \/ \E t \in WlTenants : CacheExpires(t) \/ \E l \in PlanLimits : UpgradePlan(t, l)

(***************************************************************************)
(* provisionNamespace                                                      *)
(***************************************************************************)
NsSteps == <<"namespace">> \o NsPolicies \o <<"quota", "limits">>

\* POST /admin/provision-namespace names a plan; POST /apps and the deploys
\* call it with "starter", whatever the tenant's plan.
ProvisionCall(q, plan) ==
    /\ nsTask[q].step = 0 /\ nsTask' = [nsTask EXCEPT ![q] = [step |-> 1, plan |-> plan]]
    /\ UNCHANGED <<nsObject, nsQuota, wlState, volState>>

\* Every object but the quota is created unless it can be read; the quota is
\* replaced.  A creation that fails, as one that lost a race does, throws.
ProvisionObject(q) ==
    LET i == nsTask[q].step  o == NsSteps[i] IN
    /\ i \in 1..Len(NsSteps)
    /\ o # "namespace" => "namespace" \in nsObject
    /\ nsObject' = nsObject \cup {o}
    /\ nsQuota' = IF o = "quota" THEN nsTask[q].plan ELSE nsQuota
    /\ nsTask' = [nsTask EXCEPT ![q].step = i + 1]
    /\ UNCHANGED <<wlState, volState>>

ProvisionThrows(q) ==
    /\ nsTask[q].step \in 1..Len(NsSteps)
    /\ nsTask' = [nsTask EXCEPT ![q].step = Len(NsSteps) + 1]
    /\ UNCHANGED <<nsObject, nsQuota, wlState, volState>>

NamespaceNext == \E q \in NsReqs :
    (\E p \in NsPlans : ProvisionCall(q, p)) \/ ProvisionObject(q) \/ ProvisionThrows(q)

(***************************************************************************)
(* Volumes                                                                 *)
(***************************************************************************)
VolGo(q, pc) == volTask' = [volTask EXCEPT ![q].pc = pc]

\* POST /volumes: the claim first (502 when it fails), named after the request.
CreateClaim(q) ==
    /\ volTask[q].pc = "none"
    /\ volClaim' = volClaim \cup {q}
    /\ volTask' = [volTask EXCEPT ![q] = [pc |-> "mount", pvc |-> q, ver |-> volMount.ver]]
    /\ UNCHANGED <<volMount, volRow, wlState, nsState>>

\* Then the Deployment read above is replaced with the mount added, or the
\* unmount done; a conflict or a failure is logged.
PatchMount(q) ==
    LET t == volTask[q]  add == t.pc = "mount" IN
    /\ t.pc \in {"mount", "unmount"} /\ VolGo(q, IF add THEN "row" ELSE "unclaim")
    /\ \/ /\ t.ver = volMount.ver
          /\ volMount' = [ver |-> t.ver + 1, pvcs |-> IF add THEN volMount.pvcs \cup {t.pvc}
                                                       ELSE volMount.pvcs \ {t.pvc}]
       \/ UNCHANGED volMount
    /\ UNCHANGED <<volClaim, volRow, wlState, nsState>>

\* The row is inserted last, and may fail.
InsertVolume(q) ==
    /\ volTask[q].pc = "row" /\ VolGo(q, "done")
    /\ volRow' \in {volRow, volRow \cup {volTask[q].pvc}}
    /\ UNCHANGED <<volClaim, volMount, wlState, nsState>>

\* DELETE /volumes/:volume: a row, the unmount, the claim, the row.
DeleteVolume(q, v) ==
    /\ volTask[q].pc = "none" /\ v \in volRow
    /\ volTask' = [volTask EXCEPT ![q] = [pc |-> "unmount", pvc |-> v, ver |-> volMount.ver]]
    /\ UNCHANGED <<volClaim, volMount, volRow, wlState, nsState>>

\* The claim goes, or stays behind with a warning.
DeleteClaim(q) ==
    /\ volTask[q].pc = "unclaim" /\ VolGo(q, "delrow")
    /\ volClaim' \in {volClaim, volClaim \ {volTask[q].pvc}}
    /\ UNCHANGED <<volMount, volRow, wlState, nsState>>

DeleteVolumeRow(q) ==
    /\ volTask[q].pc = "delrow" /\ VolGo(q, "done")
    /\ volRow' = volRow \ {volTask[q].pvc}
    /\ UNCHANGED <<volClaim, volMount, wlState, nsState>>

VolumeNext == \E q \in VolReqs :
    \/ CreateClaim(q) \/ PatchMount(q) \/ InsertVolume(q) \/ DeleteClaim(q) \/ DeleteVolumeRow(q)
    \/ \E v \in VolReqs : DeleteVolume(q, v)

-----------------------------------------------------------------------------
WorkloadsTypeOK ==
    /\ \A r \in WlReqs : wlRow[r] # NoRow => wlRow[r].who \in WlTenants /\ wlRow[r].name \in WlNames
    /\ wlObject \in [WlNames -> [1..Len(WlParts) -> WlTenants \cup {"none"}]]
    /\ wlPlan \in [WlTenants -> PlanLimits] /\ wlBest \in [WlTenants -> PlanLimits]
    /\ nsObject \subseteq {NsSteps[i] : i \in 1..Len(NsSteps)} /\ nsQuota \in NsPlans \cup {"none"}
    /\ volClaim \subseteq VolReqs /\ volRow \subseteq VolReqs /\ volMount.pvcs \subseteq VolReqs

(* A tenant has no more workloads than the best plan it has had allows,     *)
(* however stale the cached limit is, unless two of its requests were       *)
(* between the gate's count and the insert at the same time.               *)
WithinPlan ==
    \A t \in WlTenants : t \in wlRaced \/ Unlimited(wlBest[t]) \/ Cardinality(Rows(t)) <= wlBest[t]

(* A Deployment, Service or Ingress in the cluster belongs to a workload   *)
(* that has a row, at every step, whatever failed and wherever the process *)
(* died, unless two requests used the name at the same time: DELETE only   *)
(* removes a row once every object of its name is gone, another tenant's   *)
(* too.  The ScaledObject is left out: deleteScaledObject swallows its     *)
(* failure (workloads.ts:387-398), and the row goes with the object there. *)
NoOrphans ==
    \A n \in WlNames \ wlOverlap : \A p \in 1..Len(WlParts) :
       wlObject[n][p] # "none" /\ ~BestEffort(p) => \E r \in Rows(wlObject[n][p]) : wlRow[r].name = n

(* A namespace that has its quota has all of its network policies, the deny *)
(* and those that open it again, whichever calls failed or raced.           *)
PoliciesBeforeQuota ==
    nsQuota # "none" => \A i \in 1..Len(NsPolicies) : NsPolicies[i] \in nsObject
===================================================================================
