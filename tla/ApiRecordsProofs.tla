--------------------------- MODULE ApiRecordsProofs ----------------------------
(***************************************************************************)
(* The records of tinai-api, for any set of requests: a database's role    *)
(* has the password of its Secret and no change of a variable is lost;     *)
(* what is marked as paid was captured and the invoice adds up; a verified *)
(* mail domain was proved by the token of its own row; a completed erasure *)
(* and a withdrawn consent are recorded once; a project has its            *)
(* environment, a flag its history, a deployment its files.                *)
(***************************************************************************)
EXTENDS ApiApps, ApiBilling, ApiMail, ApiPrivacy, ApiProjects, ApiAssist, SumProofs, TLAPS

(***************************************************************************)
(* Applications                                                            *)
(***************************************************************************)
AppMapType  == [ver : Nat, keys : SUBSET VarKeys]
AppOps == {"none", "create", "createrepo", "repo", "hook", "delete", "deploy", "adddomain", "deldomain",
        "verify"} \cup KeyOps
AppPcs == {"none", "done", "insert", "org", "repo", "hook", "mayhook", "check", "begin", "database", "role",
        "secret", "map", "put", "upsert", "record", "route"} \cup Tables
AppTaskType == [pc : AppPcs, op : AppOps, who : AppTenants \cup {"none"}, env : AppEnvs,
             keys : SUBSET VarKeys, seen : AppMapType, image : Images \cup {"none"},
             from : RepoOwners \cup AppEnvs \cup {"none"}]

-----------------------------------------------------------------------------
(* The inductive invariant.                                                *)

\* What a request holds at the steps it has reached.
TaskInv ==
    \A q \in AppReqs :
        /\ At(q, "none") => appTask[q] = NoTask
        /\ At(q, "map") => appTask[q].op \in {"setvars", "dropvar"}
        /\ At(q, "put") => appTask[q].op \in KeyOps
        /\ appTask[q].pc \notin {"none", "done"} => appTask[q].who \in AppTenants
        /\ At(q, "repo") => appTask[q].from \in RepoOwners
        /\ appTask[q].pc \in {"upsert", "record"} => appTask[q].image \in Images
        /\ AppOp(q, "deploy") /\ appTask[q].pc \in {"check", "begin"} => appTask[q].from \in AppEnvs \cup {"none"}

\* A version is written once: a request that has read the version the map
\* still has has read the keys the map still has.
AppSeenInv ==
    /\ \A m \in Maps : appMap[m].ver = 0 => appMap[m].keys = {}
    /\ \A q \in AppReqs : At(q, "put") =>
          LET m == appMap[MapOf(q)] IN
          /\ appTask[q].seen.ver <= m.ver
          /\ appTask[q].seen.ver = m.ver => appTask[q].seen = m

\* One registration provisions at a time, and both passwords are its own,
\* unless the database was made for another name.
Provisioning(q) == appTask[q].pc \in {"database", "role", "secret"} \cup Tables
CredInv ==
    ~appDropped /\ ~appTwin =>
        /\ appOwner = "none" => appDb.role = 0 /\ appDb.secret = 0 /\ \A q \in AppReqs : ~Provisioning(q)
        /\ \A q, r \in AppReqs : Provisioning(q) /\ Provisioning(r) => q = r
        /\ \A q \in AppReqs : Provisioning(q) => appDb.role \in {0, q + 1} /\ appDb.secret \in {0, q + 1}

TasksTyped == appTask \in [AppReqs -> AppTaskType]
StateTyped ==
    /\ AppsTypeOK
    /\ appMap \in [Maps -> AppMapType]
    /\ appRoute \in [ver : Nat, rule : BOOLEAN]
    /\ appDropped \in BOOLEAN
TypeInv == TasksTyped /\ StateTyped

AppsInv == TypeInv /\ TaskInv /\ AppSeenInv /\ CredInv /\ CredentialsMatch
-----------------------------------------------------------------------------
(* What the four groups of calls have in common.                           *)
Steady == UNCHANGED <<appOwner, dbVars, gitVars, envVars, deployVars, domVars, appDropped>>

AppArrives(q) ==
    LET t == appTask'[q] IN
    /\ At(q, "none") /\ Steady
    /\ appTask' = [appTask EXCEPT ![q] = t]
    /\ t \in AppTaskType /\ t.who \in AppTenants
    /\ t.pc \in {"insert", "org", "mayhook", "check"}
    /\ t.op = "deploy" => t.from \in AppEnvs \cup {"none"}

LEMMA CallArrives ==
    ASSUME TypeInv, NEW q \in AppReqs, NEW op \in AppOps, NEW who \in AppTenants, NEW env \in AppEnvs,
           NEW keys \in SUBSET VarKeys, NEW image \in Images \cup {"none"},
           NEW from \in RepoOwners \cup AppEnvs \cup {"none"},
           AppCall(q, op, who, env, keys, image, from),
           op = "deploy" => from \in AppEnvs \cup {"none"}
    PROVE  AppArrives(q)
<1>1. PICK pc \in {"insert", "org", "mayhook", "check"} :
           appTask' = [appTask EXCEPT ![q] =
               [pc |-> pc, op |-> op, who |-> who, env |-> env, keys |-> keys,
                seen |-> NoMap, image |-> image, from |-> from]]
  BY DEF AppCall
<1>2. appTask'[q] = [pc |-> pc, op |-> op, who |-> who, env |-> env, keys |-> keys,
                     seen |-> NoMap, image |-> image, from |-> from]
  BY <1>1 DEF TypeInv, TasksTyped
<1>3. appTask'[q] \in AppTaskType
  BY <1>2 DEF AppTaskType, AppMapType, NoMap, AppPcs
<1>4. At(q, "none") /\ Steady
  BY DEF AppCall, Steady
<1>5. appTask' = [appTask EXCEPT ![q] = appTask'[q]]
  BY <1>1, <1>2
<1> QED BY <1>2, <1>3, <1>4, <1>5 DEF AppArrives

LEMMA CallsArrive ==
    ASSUME TypeInv, RegisterCalls \/ RepoCalls \/ VarCalls \/ DeployCalls
    PROVE  \E q \in AppReqs : AppArrives(q)
<1>1. CASE RegisterCalls
  <2>1. PICK q \in AppReqs, w \in AppTenants, op \in {"create", "delete"} :
             AppCall(q, op, w, "production", {}, "none", "none")
    BY <1>1 DEF RegisterCalls
  <2> QED BY <2>1, CallArrives, ApiAppsAssumption DEF AppOps, KeyOps
<1>2. CASE RepoCalls
  <2>1. PICK q \in AppReqs, w \in AppTenants :
             \/ \E op \in {"createrepo", "repo"} : AppCall(q, op, w, "production", {}, "none", "none")
             \/ \E o \in RepoOwners : AppCall(q, "hook", w, "production", {}, "none", o)
    BY <1>2 DEF RepoCalls
  <2> QED BY <2>1, CallArrives, ApiAppsAssumption DEF AppOps, KeyOps
<1>3. CASE VarCalls
  <2>1. PICK q \in AppReqs, w \in AppTenants, ks \in SUBSET VarKeys :
             \/ \E e \in AppEnvs : \/ AppCall(q, "setvars", w, e, ks, "none", "none")
                                   \/ AppCall(q, "dropvar", w, e, ks, "none", "none")
             \/ AppCall(q, "set", w, "production", ks, "none", "none")
             \/ AppCall(q, "unset", w, "production", ks, "none", "none")
    BY <1>3 DEF VarCalls
  <2> QED BY <2>1, CallArrives, ApiAppsAssumption DEF AppOps, KeyOps
<1>4. CASE DeployCalls
  <2>1. PICK q \in AppReqs, w \in AppTenants :
             \/ \E e \in AppEnvs, i \in Images : AppCall(q, "deploy", w, e, {}, i, "none")
             \/ \E e, f \in AppEnvs : AppCall(q, "deploy", w, e, {}, "none", f)
             \/ \E op \in {"adddomain", "deldomain", "verify"} :
                    AppCall(q, op, w, "production", {}, "none", "none")
    BY <1>4 DEF DeployCalls
  <2> QED BY <2>1, CallArrives, ApiAppsAssumption DEF AppOps, KeyOps
<1> QED BY <1>1, <1>2, <1>3, <1>4
-----------------------------------------------------------------------------
(* Every step keeps the invariant.                                         *)
USE DEF At, AppGo, AppOp

LEMMA ArrivalKeeps ==
    ASSUME AppsInv, NEW q \in AppReqs, AppArrives(q)
    PROVE  AppsInv'
<1>1. TasksTyped'
  BY DEF AppsInv, TypeInv, TasksTyped, AppArrives
<1>2. StateTyped'
  BY DEF AppsInv, TypeInv, StateTyped, AppsTypeOK, AppArrives, Steady, dbVars, gitVars, envVars, deployVars, domVars
<1>3. TaskInv'
  BY DEF AppsInv, TypeInv, TasksTyped, TaskInv, AppArrives
<1>4. AppSeenInv'
  BY DEF AppsInv, TypeInv, TasksTyped, AppSeenInv, AppArrives, Steady, envVars, MapOf
<1>5. CredInv' /\ CredentialsMatch'
  BY DEF AppsInv, TypeInv, TasksTyped, CredInv, CredentialsMatch, AppArrives, Steady, dbVars, Provisioning, Tables
<1> QED BY <1>1, <1>2, <1>3, <1>4, <1>5 DEF AppsInv, TypeInv

\* What most steps do to their task: only the program counter moves.
Moves(q) == \E pc \in AppPcs \ {"none"} : AppGo(q, pc)

\* ... and to a step at which TaskInv says nothing of the task but its tenant.
Plainly(q) ==
    /\ appTask[q].pc \notin {"none", "done", "put"} \/ PutMap(q)
    /\ \E pc \in AppPcs \ {"none", "map", "put", "repo", "upsert", "record", "check", "begin"} : AppGo(q, pc)

LEMMA MovesTyped ==
    ASSUME TasksTyped, NEW q \in AppReqs, Moves(q)
    PROVE  TasksTyped'
BY DEF TasksTyped, Moves, AppTaskType

LEMMA ReplacedTyped ==
    ASSUME TasksTyped, NEW q \in AppReqs, NEW t \in AppTaskType, appTask' = [appTask EXCEPT ![q] = t]
    PROVE  TasksTyped'
BY DEF TasksTyped

LEMMA AfterSteps ==
    \A s \in {"database", "role", "secret"} \cup Tables :
        AfterStep(s) \in {"done", "role", "app_databases", "storage_buckets", "secret", "custom_domains"}
<1>1. \A i, j \in 1..6 : ProvisionSteps[i] = ProvisionSteps[j] => i = j
  BY DEF ProvisionSteps
<1>2. SUFFICES ASSUME NEW i \in 1..6
               PROVE  AfterStep(ProvisionSteps[i]) \in
                        {"done", "role", "app_databases", "storage_buckets", "secret", "custom_domains"}
  BY DEF ProvisionSteps, Tables
<1>3. Len(ProvisionSteps) = 6
  BY DEF ProvisionSteps
<1>4. (CHOOSE n \in 1..Len(ProvisionSteps) : ProvisionSteps[n] = ProvisionSteps[i]) = i
  BY <1>1, <1>3
<1>5. AfterStep(ProvisionSteps[i]) = IF i = 6 THEN "done" ELSE ProvisionSteps[i + 1]
  BY <1>3, <1>4 DEF AfterStep
<1> QED BY <1>5 DEF ProvisionSteps

LEMMA StepMoves ==
    ASSUME NEW q \in AppReqs, AppStep(q)
    PROVE  \/ Plainly(q)
           \/ EnsureOrg(q) \/ StoreVars(q) \/ DropVar(q) \/ ReadMap(q) \/ ChooseImage(q) \/ UpsertDeployment(q)
           \/ DomainRow(q) \/ AppCheck(q)
<1> USE DEF Plainly, AppPcs, Tables
<1>1. CASE CreateRepo(q)
  BY <1>1 DEF CreateRepo
<1>2. CASE RegisterWebhook(q)
  BY <1>2 DEF RegisterWebhook
<1>3. CASE HookAllowed(q)
  BY <1>3 DEF HookAllowed
<1>4. CASE InsertApp(q)
  BY <1>4 DEF InsertApp
<1>5. CASE ProvisionStepFails(q)
  BY <1>5, AfterSteps DEF ProvisionStepFails
<1>6. CASE CreateDatabase(q)
  BY <1>6 DEF CreateDatabase
<1>7. CASE CreateRole(q)
  BY <1>7 DEF CreateRole
<1>8. CASE RecordResource(q)
  BY <1>8, AfterSteps DEF RecordResource
<1>9. CASE CreateSecret(q)
  BY <1>9 DEF CreateSecret
<1>10. CASE DeleteApp(q)
  BY <1>10 DEF DeleteApp
<1>11. CASE PutMap(q)
  BY <1>11 DEF PutMap
<1>12. CASE RecordDeployment(q)
  BY <1>12 DEF RecordDeployment
<1>13. CASE WriteRoute(q)
  BY <1>13 DEF WriteRoute
<1>14. CASE VerifyDomain(q)
  BY <1>14 DEF VerifyDomain
<1> QED BY <1>1, <1>2, <1>3, <1>4, <1>5, <1>6, <1>7, <1>8, <1>9, <1>10, <1>11, <1>12, <1>13, <1>14 DEF AppStep

LEMMA TasksStep ==
    ASSUME AppsInv, NEW q \in AppReqs, AppStep(q)
    PROVE  TasksTyped'
<1>0. TasksTyped /\ StateTyped /\ TaskInv
  BY DEF AppsInv, TypeInv
<1> USE DEF TasksTyped, AppTaskType, AppPcs
<1>1. CASE Plainly(q)
  BY <1>0, <1>1, MovesTyped DEF Plainly, Moves
<1>2. CASE EnsureOrg(q)
  <2>1. appTask[q].who \in AppTenants
    BY <1>0, <1>2 DEF EnsureOrg, TaskInv
  <2>2. PICK o \in RepoOwners : appTask' = [appTask EXCEPT ![q] = [@ EXCEPT !.pc = "repo", !.from = o]]
    BY <1>2, <2>1 DEF EnsureOrg, RepoOwners
  <2> DEFINE t == [appTask[q] EXCEPT !.pc = "repo", !.from = o]
  <2>3. t \in AppTaskType
    BY <1>0, <2>2, ZenonT(30)
  <2>4. appTask' = [appTask EXCEPT ![q] = t]
    BY <1>0, <2>2
  <2> QED BY <1>0, <2>3, <2>4, ReplacedTyped
<1>3. CASE ReadMap(q)
  <2>1. MapOf(q) \in Maps
    BY <1>0 DEF MapOf, Maps
  <2>2. appMap[MapOf(q)] \in AppMapType
    BY <1>0, <2>1 DEF StateTyped
  <2> DEFINE t == [appTask[q] EXCEPT !.pc = "put", !.seen = appMap[MapOf(q)]]
  <2>3. t \in AppTaskType
    BY <1>0, <1>3, <2>2
  <2>4. appTask' = [appTask EXCEPT ![q] = t]
    BY <1>0, <1>3, <2>2 DEF ReadMap
  <2> QED BY <1>0, <2>3, <2>4, ReplacedTyped
<1>4. CASE ChooseImage(q)
  <2>1. PICK img \in Images \cup {"none"}, pc \in {"done", "upsert"} :
             appTask' = [appTask EXCEPT ![q] = [@ EXCEPT !.pc = pc, !.image = img]]
    BY <1>0, <1>4 DEF ChooseImage, StateTyped, AppsTypeOK, TaskInv
  <2> DEFINE t == [appTask[q] EXCEPT !.pc = pc, !.image = img]
  <2>3. t \in AppTaskType
    BY <1>0, <2>1, ZenonT(30)
  <2>4. appTask' = [appTask EXCEPT ![q] = t]
    BY <1>0, <2>1
  <2> QED BY <1>0, <2>3, <2>4, ReplacedTyped
<1>5. CASE DomainRow(q)
  <2>1. appRoute.ver \in Nat
    BY <1>0 DEF StateTyped
  <2>2. \/ appTask' = [appTask EXCEPT ![q].pc = "route", ![q].seen.ver = appRoute.ver]
        \/ appTask' = [appTask EXCEPT ![q].pc = "done"]
    BY <1>5 DEF DomainRow
  <2> DEFINE seen == [appTask[q].seen EXCEPT !.ver = appRoute.ver]
             t == [appTask[q] EXCEPT !.pc = "route", !.seen = seen]
             u == [appTask[q] EXCEPT !.pc = "done"]
  <2>3. appTask[q] \in AppTaskType /\ appTask[q].seen \in AppMapType
    BY <1>0
  <2>4. seen \in AppMapType
    BY <2>1, <2>3 DEF AppMapType
  <2>5. t \in AppTaskType /\ u \in AppTaskType
    BY <2>3, <2>4
  <2>6. \/ appTask' = [appTask EXCEPT ![q] = t]
        \/ appTask' = [appTask EXCEPT ![q] = u]
    <3>1. CASE appTask' = [appTask EXCEPT ![q].pc = "route", ![q].seen.ver = appRoute.ver]
      <4>1. appTask' = [appTask EXCEPT ![q] = [[@ EXCEPT !.pc = "route"] EXCEPT !.seen.ver = appRoute.ver]]
        BY <1>0, <3>1 DEF TasksTyped
      <4> QED BY <2>3, <4>1
    <3>2. CASE appTask' = [appTask EXCEPT ![q].pc = "done"]
      BY <3>2
    <3> QED BY <2>2, <3>1, <3>2
  <2> QED BY <1>0, <2>5, <2>6, ReplacedTyped, ZenonT(30)
<1>6. CASE StoreVars(q) \/ DropVar(q) \/ UpsertDeployment(q) \/ AppCheck(q)
  BY <1>0, <1>6, MovesTyped DEF Moves, StoreVars, DropVar, UpsertDeployment, AppCheck
<1> QED BY <1>1, <1>2, <1>3, <1>4, <1>5, <1>6, StepMoves

LEMMA StateStep ==
    ASSUME AppsInv, NEW q \in AppReqs, AppStep(q)
    PROVE  StateTyped'
<1> USE DEF StateTyped, AppsTypeOK, dbVars, gitVars, envVars, deployVars, domVars
<1>0. StateTyped /\ TaskInv /\ appTask[q] \in AppTaskType
  BY DEF AppsInv, TypeInv, TasksTyped
<1>1. CASE EnsureOrg(q)
  BY <1>0, <1>1 DEF EnsureOrg
<1>2. CASE CreateRepo(q)
  <2>1. appTask[q].from \in RepoOwners
    BY <1>0, <1>2 DEF CreateRepo, TaskInv
  <2> QED BY <1>0, <2>1, <1>2 DEF CreateRepo
<1>3. CASE RegisterWebhook(q)
  BY <1>0, <1>3 DEF RegisterWebhook
<1>4. CASE HookAllowed(q)
  BY <1>0, <1>4 DEF HookAllowed
<1>5. CASE AppCheck(q)
  BY <1>0, <1>5 DEF AppCheck
<1>6. CASE InsertApp(q)
  <2>1. appTask[q].who \in AppTenants
    BY <1>0, <1>6 DEF InsertApp, TaskInv
  <2> QED BY <1>0, <2>1, <1>6 DEF InsertApp
<1>7. CASE ProvisionStepFails(q)
  BY <1>0, <1>7 DEF ProvisionStepFails
<1>8. CASE CreateDatabase(q)
  BY <1>0, <1>8 DEF CreateDatabase
<1>9. CASE CreateRole(q)
  <2>1. q + 1 \in Nat
    BY ApiAppsAssumption
  <2>2. appDb' \in [role : Nat, secret : Nat]
    BY <1>0, <2>1, <1>9 DEF CreateRole
  <2> QED BY <1>0, <2>2, <1>9 DEF CreateRole
<1>10. CASE RecordResource(q)
  BY <1>0, <1>10 DEF RecordResource
<1>11. CASE CreateSecret(q)
  <2>1. q + 1 \in Nat
    BY ApiAppsAssumption
  <2>2. appDb' \in [role : Nat, secret : Nat]
    BY <1>0, <2>1, <1>11 DEF CreateSecret
  <2> QED BY <1>0, <2>2, <1>11 DEF CreateSecret
<1>12. CASE DeleteApp(q)
  BY <1>0, <1>12 DEF DeleteApp
<1>13. CASE StoreVars(q)
  BY <1>0, <1>13 DEF StoreVars, AppTaskType
<1>14. CASE DropVar(q)
  BY <1>0, <1>14 DEF DropVar
<1>15. CASE ReadMap(q)
  BY <1>0, <1>15 DEF ReadMap
<1>16. CASE PutMap(q)
  <2>1. MapOf(q) \in Maps
    BY <1>0 DEF MapOf, Maps, AppTaskType
  <2>2. MapAfter(q, appMap[MapOf(q)]) \in AppMapType
    BY <1>0, <2>1 DEF MapAfter, AppTaskType, AppMapType
  <2>3. appMap' \in [Maps -> AppMapType]
    BY <1>0, <2>1, <2>2, <1>16 DEF PutMap
  <2> QED BY <1>0, <2>3, <1>16 DEF PutMap, AppMapType
<1>17. CASE ChooseImage(q)
  BY <1>0, <1>17 DEF ChooseImage
<1>18. CASE UpsertDeployment(q)
  BY <1>0, <1>18 DEF UpsertDeployment, AppTaskType
<1>19. CASE RecordDeployment(q)
  <2>1. appTask[q].image \in Images /\ appTask[q].env \in AppEnvs
    BY <1>0, <1>19 DEF RecordDeployment, TaskInv, AppTaskType
  <2>2. \A h \in appHistory' : h[1] \in AppEnvs /\ h[2] \in Images
    BY <1>0, <2>1, <1>19 DEF RecordDeployment
  <2> QED BY <1>0, <2>2, <1>19 DEF RecordDeployment
<1>20. CASE DomainRow(q)
  BY <1>0, <1>20 DEF DomainRow
<1>21. CASE WriteRoute(q)
  <2>1. appRoute' \in [ver : Nat, rule : BOOLEAN]
    <3>1. appRoute' = [ver |-> appRoute.ver + 1, rule |-> appTask[q].op = "adddomain"] \/ appRoute' = appRoute
      BY <1>21 DEF WriteRoute
    <3>2. \A b \in BOOLEAN : [ver |-> appRoute.ver + 1, rule |-> b] \in [ver : Nat, rule : BOOLEAN]
      BY <1>0
    <3> QED BY <1>0, <3>1, <3>2
  <2> QED BY <1>0, <2>1, <1>21 DEF WriteRoute
<1>22. CASE VerifyDomain(q)
  BY <1>0, <1>22 DEF VerifyDomain
<1> QED BY <1>1, <1>2, <1>3, <1>4, <1>5, <1>6, <1>7, <1>8, <1>9, <1>10, <1>11, <1>12, <1>13, <1>14, <1>15, <1>16, <1>17, <1>18, <1>19, <1>20, <1>21, <1>22 DEF AppStep
LEMMA Noted ==
    ASSUME TasksTyped, NEW q \in AppReqs
    PROVE  /\ EnsureOrg(q) => appTask'[q].pc = "repo"
           /\ ReadMap(q) => appTask'[q].pc = "put"
           /\ ChooseImage(q) => appTask'[q].pc \in {"done", "upsert"}
           /\ DomainRow(q) => appTask'[q].pc \in {"done", "route"}
<1>0. appTask[q] \in AppTaskType
  BY DEF TasksTyped
<1>1. ASSUME EnsureOrg(q) PROVE appTask'[q].pc = "repo"
  <2>1. PICK o : appTask' = [appTask EXCEPT ![q] = [@ EXCEPT !.pc = "repo", !.from = o]]
    BY <1>1 DEF EnsureOrg
  <2>2. appTask'[q] = [appTask[q] EXCEPT !.pc = "repo", !.from = o]
    BY <2>1 DEF TasksTyped
  <2> QED BY <1>0, <2>2 DEF AppTaskType
<1>2. ASSUME ReadMap(q) PROVE appTask'[q].pc = "put"
  <2>1. appTask'[q] = [appTask[q] EXCEPT !.pc = "put", !.seen = appMap[MapOf(q)]]
    BY <1>2 DEF ReadMap, TasksTyped
  <2> QED BY <1>0, <2>1 DEF AppTaskType
<1>3. ASSUME ChooseImage(q) PROVE appTask'[q].pc \in {"done", "upsert"}
  <2> DEFINE img == IF appTask[q].from = "none" THEN appTask[q].image ELSE appImage[appTask[q].from]
             pc == IF img = "none" THEN "done" ELSE "upsert"
  <2>1. appTask' = [appTask EXCEPT ![q] = [@ EXCEPT !.pc = pc, !.image = img]]
    BY <1>3 DEF ChooseImage
  <2> HIDE DEF img
  <2>2. appTask'[q] = [appTask[q] EXCEPT !.pc = pc, !.image = img]
    BY <2>1 DEF TasksTyped
  <2> QED BY <1>0, <2>2 DEF AppTaskType
<1>4. ASSUME DomainRow(q) PROVE appTask'[q].pc \in {"done", "route"}
  <2>1. CASE appTask' = [appTask EXCEPT ![q].pc = "route", ![q].seen.ver = appRoute.ver]
    BY <2>1 DEF TasksTyped, AppTaskType
  <2>2. CASE AppGo(q, "done")
    BY <2>2 DEF TasksTyped, AppTaskType
  <2> QED BY <1>4, <2>1, <2>2 DEF DomainRow
<1> QED BY <1>1, <1>2, <1>3, <1>4

LEMMA OthersStay ==
    ASSUME TasksTyped, NEW q \in AppReqs, AppStep(q)
    PROVE  \A r \in AppReqs \ {q} : appTask'[r] = appTask[r]
<1> USE DEF TasksTyped
<1>1. CASE Plainly(q)
  BY <1>1 DEF Plainly
<1>2. CASE EnsureOrg(q)
  BY <1>2 DEF EnsureOrg
<1>3. CASE ReadMap(q)
  BY <1>3 DEF ReadMap
<1>4. CASE ChooseImage(q)
  BY <1>4 DEF ChooseImage
<1>5. CASE StoreVars(q) \/ DropVar(q) \/ UpsertDeployment(q) \/ AppCheck(q)
  BY <1>5 DEF StoreVars, DropVar, UpsertDeployment, AppCheck
<1>6. CASE DomainRow(q)
  BY <1>6 DEF DomainRow
<1> QED BY <1>1, <1>2, <1>3, <1>4, <1>5, <1>6, StepMoves

LEMMA TaskStep ==
    ASSUME AppsInv, NEW q \in AppReqs, AppStep(q)
    PROVE  TaskInv'
<1>0. TasksTyped /\ StateTyped /\ TaskInv /\ appTask[q] \in AppTaskType
  BY DEF AppsInv, TypeInv, TasksTyped
<1> USE DEF TasksTyped, AppTaskType, TaskInv
<1>1. CASE Plainly(q)
  BY <1>0, <1>1 DEF Plainly, PutMap
<1>2. CASE EnsureOrg(q)
  <2>1. appTask[q].who \in AppTenants
    BY <1>0, <1>2 DEF EnsureOrg
  <2>2. PICK o \in RepoOwners : appTask' = [appTask EXCEPT ![q] = [@ EXCEPT !.pc = "repo", !.from = o]]
    BY <1>2, <2>1 DEF EnsureOrg, RepoOwners
  <2> QED BY <1>0, <2>1, <2>2
<1>3. CASE StoreVars(q)
  BY <1>0, <1>3 DEF StoreVars
<1>4. CASE DropVar(q)
  BY <1>0, <1>4 DEF DropVar
<1>5. CASE ReadMap(q)
  BY <1>0, <1>5 DEF ReadMap, KeyOps
<1>6. CASE ChooseImage(q)
  BY <1>0, <1>6 DEF ChooseImage, StateTyped, AppsTypeOK
<1>7. CASE UpsertDeployment(q)
  BY <1>0, <1>7 DEF UpsertDeployment
<1>8. CASE DomainRow(q)
  BY <1>0, <1>8 DEF DomainRow
<1>9. CASE AppCheck(q)
  BY <1>0, <1>9 DEF AppCheck
<1> QED BY <1>1, <1>2, <1>3, <1>4, <1>5, <1>6, <1>7, <1>8, <1>9, StepMoves

LEMMA SeenStep ==
    ASSUME AppsInv, NEW q \in AppReqs, AppStep(q)
    PROVE  AppSeenInv'
<1>0. TasksTyped /\ StateTyped /\ TaskInv /\ AppSeenInv /\ TasksTyped'
  BY TasksStep DEF AppsInv, TypeInv
<1>1. \A r \in AppReqs : MapOf(r) \in Maps
  BY <1>0 DEF TasksTyped, AppTaskType, MapOf, Maps
<1> USE DEF AppSeenInv
<1>2. CASE PutMap(q)
  <2>1. \A r \in AppReqs \ {q} : appTask'[r] = appTask[r] /\ MapOf(r)' = MapOf(r)
    BY <1>0, <1>2 DEF PutMap, MapOf, TasksTyped
  <2>2. appMap[MapOf(q)] \in AppMapType /\ appTask[q].seen \in AppMapType
    BY <1>0, <1>1 DEF StateTyped, TasksTyped, AppTaskType
  <2>3. LET m == appMap[MapOf(q)]  n == MapAfter(q, m) IN
        n = m \/ n.ver = m.ver + 1
    BY <2>2 DEF MapAfter, AppMapType
  <2>4. \A r \in AppReqs \ {q} : appTask[r].seen \in AppMapType /\ appMap[MapOf(r)] \in AppMapType
    BY <1>0, <1>1 DEF StateTyped, TasksTyped, AppTaskType
  <2>5. \A m \in Maps : appMap'[m] = IF m = MapOf(q) THEN MapAfter(q, appMap[m]) ELSE appMap[m]
    BY <1>0, <1>1, <1>2 DEF PutMap, StateTyped
  <2>6. \A r \in AppReqs : At(r, "put")' => r # q
    BY <1>0, <1>2 DEF PutMap, TasksTyped
  <2>7. \A m \in Maps : appMap'[m].ver = 0 => appMap'[m].keys = {}
    BY <1>0, <1>1, <2>2, <2>3, <2>5 DEF AppMapType
  <2>8. ASSUME NEW r \in AppReqs, At(r, "put")'
        PROVE  LET m == appMap'[MapOf(r)'] IN
               /\ appTask'[r].seen.ver <= m.ver
               /\ appTask'[r].seen.ver = m.ver => appTask'[r].seen = m
    BY <1>0, <1>1, <2>1, <2>2, <2>3, <2>4, <2>5, <2>6, <2>8 DEF AppMapType
  <2> QED BY <2>7, <2>8
<1>3. CASE ReadMap(q)
  <2>1. \A r \in AppReqs : MapOf(r)' = MapOf(r)
    BY <1>0, <1>3 DEF ReadMap, MapOf, TasksTyped, AppTaskType
  <2>2. appTask'[q].seen = appMap[MapOf(q)] /\ \A r \in AppReqs \ {q} : appTask'[r] = appTask[r]
    BY <1>0, <1>3 DEF ReadMap, TasksTyped, AppTaskType
  <2>3. appMap' = appMap
    BY <1>3 DEF ReadMap, envVars
  <2>4. appMap[MapOf(q)].ver \in Nat
    BY <1>0, <1>1 DEF StateTyped, AppMapType
  <2> QED BY <1>0, <2>1, <2>2, <2>3, <2>4
<1>4. CASE ~PutMap(q) /\ ~ReadMap(q)
  <2>1. appMap' = appMap
    BY <1>4 DEF AppStep, envVars, EnsureOrg, CreateRepo, RegisterWebhook, HookAllowed, AppCheck, InsertApp,
                ProvisionStepFails, CreateDatabase, CreateRole, RecordResource, CreateSecret, DeleteApp,
                StoreVars, DropVar, ChooseImage, UpsertDeployment, RecordDeployment, DomainRow, WriteRoute,
                VerifyDomain
  <2>2. /\ \A r \in AppReqs \ {q} : appTask'[r] = appTask[r]
        /\ ~At(q, "put")'
    <3>1. CASE Plainly(q)
      BY <1>0, <3>1, OthersStay DEF Plainly, TasksTyped, AppTaskType
    <3>2. CASE StoreVars(q) \/ DropVar(q) \/ UpsertDeployment(q) \/ AppCheck(q)
      BY <1>0, <3>2, OthersStay DEF AppCheck, StoreVars, DropVar, UpsertDeployment, TasksTyped, AppTaskType
    <3>3. CASE EnsureOrg(q) \/ ChooseImage(q) \/ DomainRow(q)
      BY <1>0, <3>3, OthersStay, Noted
    <3> QED BY <1>4, <3>1, <3>2, <3>3, StepMoves
  <2>3. \A r \in AppReqs \ {q} : MapOf(r)' = MapOf(r)
    BY <2>2 DEF MapOf
  <2> QED BY <1>0, <2>1, <2>2, <2>3
<1> QED BY <1>2, <1>3, <1>4

LEMMA CredStep ==
    ASSUME AppsInv, NEW q \in AppReqs, AppStep(q)
    PROVE  CredInv' /\ CredentialsMatch'
<1>0. /\ TasksTyped /\ StateTyped /\ TaskInv /\ CredInv /\ CredentialsMatch
      /\ appTask[q] \in AppTaskType /\ appDb \in [role : Nat, secret : Nat]
      /\ q \in Nat \ {0}
  BY ApiAppsAssumption DEF AppsInv, TypeInv, TasksTyped, StateTyped, AppsTypeOK
<1>2. \A r \in AppReqs \ {q} : appTask'[r] = appTask[r]
  BY <1>0, OthersStay
<1>3. CASE InsertApp(q)
  <2>1. appTask[q].who # "none"
    BY <1>0, <1>3, ApiAppsAssumption DEF InsertApp, TaskInv
  <2>2. CASE appOwner = "none"
    <3>1. appOwner' # "none" /\ UNCHANGED <<appDb, appTwin, appDropped>>
      BY <1>3, <2>1, <2>2 DEF InsertApp, dbVars
    <3>2. ~appDropped /\ ~appTwin => \A r \in AppReqs : Provisioning(r)' => r = q
      BY <1>0, <1>2, <2>2 DEF CredInv, Provisioning
    <3> QED BY <1>0, <2>2, <3>1, <3>2 DEF CredInv, CredentialsMatch
  <2>3. CASE appOwner # "none"
    <3>1. UNCHANGED <<appOwner, appDb, appTwin, appDropped>> /\ ~Provisioning(q)'
      BY <1>0, <1>3, <2>3 DEF InsertApp, dbVars, TasksTyped, AppTaskType, Provisioning, Tables
    <3> QED BY <1>0, <1>2, <3>1 DEF CredInv, CredentialsMatch, Provisioning
  <2> QED BY <2>2, <2>3
<1>4. CASE CreateRole(q) \/ CreateSecret(q)
  BY <1>0, <1>2, <1>4 DEF CreateRole, CreateSecret, CredInv, CredentialsMatch, Provisioning, Tables, TasksTyped
<1>5. CASE ProvisionStepFails(q) \/ CreateDatabase(q) \/ RecordResource(q)
  <2>1. Provisioning(q) /\ UNCHANGED <<appOwner, appDb, appTwin, appDropped>>
    BY <1>5 DEF ProvisionStepFails, CreateDatabase, RecordResource, Provisioning, dbVars, Tables
  <2> QED BY <1>0, <1>2, <2>1 DEF CredInv, CredentialsMatch, Provisioning
<1>6. CASE DeleteApp(q)
  BY <1>6 DEF DeleteApp, CredInv, CredentialsMatch
<1>7. CASE ~(InsertApp(q) \/ CreateRole(q) \/ CreateSecret(q) \/ ProvisionStepFails(q) \/ CreateDatabase(q)
             \/ RecordResource(q) \/ DeleteApp(q))
  <2>1. UNCHANGED <<appOwner, appDb, appTwin, appDropped>>
    BY <1>7 DEF AppStep, dbVars, EnsureOrg, CreateRepo, RegisterWebhook, HookAllowed, AppCheck, StoreVars, DropVar,
                ReadMap, PutMap, ChooseImage, UpsertDeployment, RecordDeployment, DomainRow, WriteRoute, VerifyDomain
  <2>2. ~Provisioning(q)'
    <3>1. CASE EnsureOrg(q) \/ ReadMap(q) \/ ChooseImage(q) \/ DomainRow(q)
      BY <1>0, <3>1, Noted DEF Provisioning, Tables
    <3>2. CASE CreateRepo(q) \/ RegisterWebhook(q) \/ HookAllowed(q) \/ AppCheck(q) \/ StoreVars(q) \/ DropVar(q)
      BY <1>0, <3>2 DEF CreateRepo, RegisterWebhook, HookAllowed, AppCheck, StoreVars, DropVar, TasksTyped, AppTaskType,
                        Provisioning, Tables
    <3>3. CASE PutMap(q) \/ UpsertDeployment(q) \/ RecordDeployment(q) \/ WriteRoute(q) \/ VerifyDomain(q)
      BY <1>0, <3>3 DEF PutMap, UpsertDeployment, RecordDeployment, WriteRoute, VerifyDomain, TasksTyped, AppTaskType,
                        Provisioning, Tables
    <3> QED BY <1>7, <3>1, <3>2, <3>3 DEF AppStep
  <2> QED BY <1>0, <1>2, <2>1, <2>2 DEF CredInv, CredentialsMatch, Provisioning
<1> QED BY <1>3, <1>4, <1>5, <1>6, <1>7

LEMMA TemplateKeeps ==
    ASSUME AppsInv, NEW q \in AppReqs, InsertTemplate(q)
    PROVE  AppsInv'
<1>1. TasksTyped'
  BY MovesTyped DEF AppsInv, TypeInv, InsertTemplate, Moves, AppPcs
<1>2. StateTyped'
  BY DEF AppsInv, TypeInv, StateTyped, AppsTypeOK, InsertTemplate, dbVars, gitVars, envVars, deployVars, domVars
<1>3. TaskInv'
  BY DEF AppsInv, TypeInv, TasksTyped, AppTaskType, TaskInv, InsertTemplate, NoTask
<1>4. AppSeenInv'
  BY DEF AppsInv, TypeInv, TasksTyped, AppTaskType, AppSeenInv, InsertTemplate, envVars, MapOf
<1>5. CredInv' /\ CredentialsMatch'
  BY DEF AppsInv, TypeInv, TasksTyped, CredInv, CredentialsMatch, InsertTemplate, dbVars, Provisioning, Tables
<1> QED BY <1>1, <1>2, <1>3, <1>4, <1>5 DEF AppsInv, TypeInv

LEMMA TwinKeeps == AppsInv /\ (TwinDatabase \/ TwinRole) => AppsInv'
<1> SUFFICES ASSUME AppsInv, TwinDatabase \/ TwinRole PROVE AppsInv'
  OBVIOUS
<1>1. UNCHANGED <<appOwner, appTask, gitVars, envVars, deployVars, domVars, appDropped>>
  BY DEF TwinDatabase, TwinRole
<1>2. appDb' \in [role : Nat, secret : Nat] /\ appRows' \subseteq Tables \cup {"database"} /\ appTwin' = TRUE
  <2>1. appDb \in [role : Nat, secret : Nat] /\ appRows \subseteq Tables \cup {"database"} /\ appTwin \in BOOLEAN
    BY DEF AppsInv, TypeInv, StateTyped, AppsTypeOK
  <2> QED BY <2>1 DEF TwinDatabase, TwinRole
<1>3. TypeInv'
  BY <1>1, <1>2 DEF AppsInv, TypeInv, TasksTyped, StateTyped, AppsTypeOK, gitVars, envVars, deployVars, domVars
<1>4. TaskInv' /\ AppSeenInv'
  BY <1>1 DEF AppsInv, TaskInv, AppSeenInv, At, AppOp, MapOf, envVars
<1>5. CredInv' /\ CredentialsMatch'
  BY <1>2 DEF CredInv, CredentialsMatch
<1> QED BY <1>3, <1>4, <1>5 DEF AppsInv

LEMMA AppsStart == AppsInit => AppsInv
<1> SUFFICES ASSUME AppsInit PROVE AppsInv
  OBVIOUS
<1>1. TasksTyped
  BY ApiAppsAssumption DEF AppsInit, TasksTyped, AppTaskType, NoTask, NoMap, AppMapType, AppPcs, AppOps
<1>2. StateTyped
  <2>0. appDb \in [role : Nat, secret : Nat]
    BY DEF AppsInit
  <2>1. AppsTypeOK
    <3>1. appOwner \in AppTenants \cup {"none", "admin"} /\ appRows \subseteq Tables \cup {"database"}
      BY DEF AppsInit
    <3>2. /\ appTwin \in BOOLEAN /\ appVars \in [AppEnvs -> SUBSET VarKeys]
          /\ \A m \in Maps : appMap[m].keys \subseteq VarKeys
      BY DEF AppsInit, NoMap
    <3>3. appImage \in [AppEnvs -> Images \cup {"none"}] /\ appHistory = {}
      BY DEF AppsInit
    <3>4. /\ appRepos \subseteq RepoOwners /\ appHooks \in [RepoOwners -> Nat]
          /\ appDomain \in {"none", "pending", "verified"}
      BY DEF AppsInit
    <3> QED BY <2>0, <3>1, <3>2, <3>3, <3>4 DEF AppsTypeOK
  <2> QED BY <2>1 DEF AppsInit, StateTyped, NoMap, AppMapType
<1>3. TaskInv /\ AppSeenInv
  BY DEF AppsInit, TaskInv, AppSeenInv, NoTask, NoMap
<1>4. CredInv /\ CredentialsMatch
  BY ApiAppsAssumption DEF AppsInit, CredInv, CredentialsMatch, NoTask, Provisioning, Tables
<1> QED BY <1>1, <1>2, <1>3, <1>4 DEF AppsInv, TypeInv

LEMMA AppsKeep == AppsInv /\ [AppsNext]_appVarsAll => AppsInv'
<1> SUFFICES ASSUME AppsInv, [AppsNext]_appVarsAll PROVE AppsInv'
  OBVIOUS
<1>1. CASE RegisterCalls \/ RepoCalls \/ VarCalls \/ DeployCalls
  BY <1>1, CallsArrive, ArrivalKeeps DEF AppsInv
<1>2. CASE \E q \in AppReqs : InsertTemplate(q)
  BY <1>2, TemplateKeeps
<1>3. CASE AppSteps
  <2>1. PICK q \in AppReqs : AppStep(q)
    BY <1>3 DEF AppSteps
  <2> QED BY <2>1, TasksStep, StateStep, TaskStep, SeenStep, CredStep DEF AppsInv, TypeInv
<1>4. CASE UNCHANGED appVarsAll
  BY <1>4 DEF appVarsAll, AppsInv, TypeInv, TasksTyped, StateTyped, AppsTypeOK, TaskInv, AppSeenInv, MapOf, CredInv,
              Provisioning, CredentialsMatch
<1>5. CASE TwinDatabase \/ TwinRole
  BY <1>5, TwinKeeps
<1> QED BY <1>1, <1>2, <1>3, <1>4, <1>5 DEF AppsNext, RegisterNext, RepoNext, VarNext, DeployNext

(* Whatever the requests and the failures, the application's state has its  *)
(* types and the requests know what TaskInv and AppSeenInv say.               *)
THEOREM AppsInvariant == AppsSpec => []AppsInv
BY AppsStart, AppsKeep, PTL DEF AppsSpec

(* Until the application is deleted, the password in its secret is the one *)
(* of its database role, unless the database of its slug was made first for *)
(* another name: of its own registrations only one provisions.             *)
THEOREM Credentials == AppsSpec => []CredentialsMatch
<1>1. AppsInv => CredentialsMatch
  BY DEF AppsInv
<1> QED BY <1>1, AppsInvariant, PTL

-----------------------------------------------------------------------------
(* The variable routes implement KeyStore.                                 *)
LEMMA StepKeeps ==
    ASSUME TasksTyped, NEW q \in AppReqs, AppStep(q)
    PROVE  /\ appTask[q].pc \notin {"none", "done"} /\ appTask'[q].pc # "none"
           /\ appTask'[q].op = appTask[q].op
           /\ appTask'[q].env = appTask[q].env
           /\ appTask'[q].keys = appTask[q].keys
<1>0. appTask[q] \in AppTaskType
  BY DEF TasksTyped
<1> USE DEF TasksTyped, AppTaskType
<1>1. CASE Plainly(q)
  BY <1>0, <1>1 DEF Plainly, PutMap
<1>2. CASE EnsureOrg(q)
  <2>1. PICK o : appTask' = [appTask EXCEPT ![q] = [@ EXCEPT !.pc = "repo", !.from = o]]
    BY <1>2 DEF EnsureOrg
  <2>2. appTask'[q] = [appTask[q] EXCEPT !.pc = "repo", !.from = o]
    BY <2>1
  <2> QED BY <1>0, <1>2, <2>2 DEF EnsureOrg
<1>3. CASE ReadMap(q)
  <2>1. appTask'[q] = [appTask[q] EXCEPT !.pc = "put", !.seen = appMap[MapOf(q)]]
    BY <1>3 DEF ReadMap
  <2> QED BY <1>0, <1>3, <2>1 DEF ReadMap
<1>4. CASE ChooseImage(q)
  <2> DEFINE img == IF appTask[q].from = "none" THEN appTask[q].image ELSE appImage[appTask[q].from]
             pc == IF img = "none" THEN "done" ELSE "upsert"
  <2>1. appTask' = [appTask EXCEPT ![q] = [@ EXCEPT !.pc = pc, !.image = img]]
    BY <1>4 DEF ChooseImage
  <2> HIDE DEF img
  <2>2. appTask'[q] = [appTask[q] EXCEPT !.pc = pc, !.image = img]
    BY <2>1
  <2> QED BY <1>0, <1>4, <2>2 DEF ChooseImage
<1>5. CASE DomainRow(q)
  <2>1. CASE appTask' = [appTask EXCEPT ![q].pc = "route", ![q].seen.ver = appRoute.ver]
    BY <1>0, <1>5, <2>1 DEF DomainRow
  <2>2. CASE AppGo(q, "done")
    BY <1>0, <1>5, <2>2 DEF DomainRow
  <2> QED BY <1>5, <2>1, <2>2 DEF DomainRow
<1>6. CASE StoreVars(q) \/ DropVar(q) \/ UpsertDeployment(q) \/ AppCheck(q)
  BY <1>0, <1>6 DEF StoreVars, DropVar, UpsertDeployment, AppCheck
<1> QED BY <1>1, <1>2, <1>3, <1>4, <1>5, <1>6, StepMoves

\* A request as KeyStore sees it, without the function around it.
Asked(q) ==
    IF At(q, "none") \/ appTask[q].op \notin KeyOps
    THEN [op |-> "none", store |-> "none", keys |-> {}, over |-> FALSE]
    ELSE [op |-> IF appTask[q].op \in {"set", "setvars"} THEN "add" ELSE "remove",
          store |-> MapOf(q), keys |-> appTask[q].keys, over |-> At(q, "done")]

LEMMA AskedIs ==
    /\ AskedOf = [q \in AppReqs |-> Asked(q)]
    /\ AskedOf' = [q \in AppReqs |-> Asked(q)']
BY DEF AskedOf, Asked

LEMMA SameTaskSameRequest ==
    ASSUME NEW r \in AppReqs, appTask'[r] = appTask[r]
    PROVE  Asked(r)' = Asked(r)
BY DEF Asked, MapOf

LEMMA AskedEnds ==
    ASSUME NEW q, appTask[q].op \in KeyOps, ~At(q, "none"), ~At(q, "done"), At(q, "done")',
           appTask'[q].op = appTask[q].op, MapOf(q)' = MapOf(q), appTask'[q].keys = appTask[q].keys
    PROVE  Asked(q)' = [Asked(q) EXCEPT !.over = TRUE] /\ Asked(q).op # "none" /\ ~Asked(q).over
<1> DEFINE r(b) == [op |-> IF appTask[q].op \in {"set", "setvars"} THEN "add" ELSE "remove",
                    store |-> MapOf(q), keys |-> appTask[q].keys, over |-> b]
<1>1. Asked(q) = r(At(q, "done"))
  BY DEF Asked
<1>2. Asked(q)' = r(At(q, "done")')
  BY DEF Asked
<1>3. At(q, "done") = FALSE /\ At(q, "done")' = TRUE
  OBVIOUS
<1>4. Asked(q) = r(FALSE)
  BY <1>1, <1>3, Zenon
<1>5. Asked(q)' = r(TRUE)
  BY <1>2, <1>3, Zenon
<1>6. r(FALSE).op # "none" /\ ~r(FALSE).over
  OBVIOUS
<1>7. \A b, c : [r(b) EXCEPT !.over = c] = r(c)
  OBVIOUS
<1> HIDE DEF r
<1>8. [r(FALSE) EXCEPT !.over = TRUE] = r(TRUE)
  BY <1>7, Zenon
<1> QED BY <1>4, <1>5, <1>6, <1>8, Zenon

LEMMA ArrivalAsks ==
    ASSUME AppsInv, NEW q \in AppReqs, AppArrives(q)
    PROVE  [Promised!Next]_(Promised!keyVars)
<1>1. \A r \in AppReqs \ {q} : Asked(r)' = Asked(r)
  BY SameTaskSameRequest DEF AppsInv, TypeInv, TasksTyped, AppArrives
<1>2. KeysOf' = KeysOf
  BY DEF AppArrives, Steady, envVars, KeysOf
<1>3. appTask'[q] \in AppTaskType /\ appTask'[q].pc \notin {"none", "done"} /\ At(q, "none")
  BY DEF AppArrives
<1>4. CASE appTask'[q].op \in KeyOps
  <2>1. Asked(q) = Promised!NoRequest
    BY <1>3 DEF Asked, Promised!NoRequest
  <2>2. MapOf(q)' \in Maps
    BY <1>3 DEF MapOf, Maps, AppTaskType
  <2>3. Asked(q)' \in Promised!NewRequests
    BY <1>3, <1>4, <2>2 DEF Asked, Promised!NewRequests, AppTaskType
  <2>4. AskedOf' = [AskedOf EXCEPT ![q] = AskedOf'[q]]
    BY <1>1, AskedIs
  <2>5. AskedOf[q] = Promised!NoRequest /\ AskedOf'[q] \in Promised!NewRequests
    BY <2>1, <2>3, AskedIs
  <2> QED BY <1>2, <2>4, <2>5 DEF Promised!Next, Promised!Ask
<1>5. CASE appTask'[q].op \notin KeyOps
  <2>1. Asked(q)' = Asked(q)
    BY <1>3, <1>5 DEF Asked
  <2> QED BY <1>1, <1>2, <2>1, AskedIs DEF Promised!keyVars
<1> QED BY <1>4, <1>5

LEMMA StepAnswers ==
    ASSUME AppsInv, NEW q \in AppReqs, AppStep(q)
    PROVE  [Promised!Next]_(Promised!keyVars)
<1>0. TasksTyped /\ StateTyped /\ TaskInv /\ AppSeenInv /\ TasksTyped' /\ appTask[q] \in AppTaskType
  BY TasksStep DEF AppsInv, TypeInv, TasksTyped
<1>1. \A r \in AppReqs \ {q} : Asked(r)' = Asked(r)
  BY <1>0, OthersStay, SameTaskSameRequest
<1>2. /\ appTask[q].pc \notin {"none", "done"} /\ appTask'[q].pc # "none"
      /\ appTask'[q].op = appTask[q].op /\ MapOf(q)' = MapOf(q)
      /\ appTask'[q].keys = appTask[q].keys
  BY <1>0, StepKeeps DEF MapOf
<1>3. MapOf(q) \in Maps
  BY <1>0 DEF MapOf, Maps, AppTaskType
<1>4. CASE PutMap(q)
  <2> DEFINE m == appMap[MapOf(q)]
             merged == IF appTask[q].op \in {"set", "setvars"} THEN m.keys \cup appTask[q].keys
                                                               ELSE m.keys \ appTask[q].keys
  <2>1. appTask[q].op \in KeyOps /\ m \in AppMapType /\ appTask[q].seen \in AppMapType
    BY <1>0, <1>3, <1>4 DEF PutMap, TaskInv, StateTyped, AppTaskType
  <2>2. MapAfter(q, m).keys \in {m.keys, merged}
    BY <1>0, <1>3, <1>4, <2>1 DEF PutMap, MapAfter, Matches, AppSeenInv, AppMapType
  <2>3. At(q, "done")'
    BY <1>0, <1>4 DEF PutMap, TasksTyped, AppTaskType
  <2>4. Asked(q)' = [Asked(q) EXCEPT !.over = TRUE] /\ Asked(q).op # "none" /\ ~Asked(q).over
    BY <1>2, <2>1, <2>3, AskedEnds
  <2>5. AskedOf' = [AskedOf EXCEPT ![q].over = TRUE]
    BY <1>1, <2>4, AskedIs
  <2>6. Promised!Ends(q)
    BY <2>4, <2>5, AskedIs DEF Promised!Ends, Promised!Pending
  <2>7. KeysOf' = [KeysOf EXCEPT ![MapOf(q)] = MapAfter(q, m).keys]
    BY <1>0, <1>3, <1>4 DEF PutMap, KeysOf, StateTyped
  <2>8. AskedOf[q].store = MapOf(q) /\ AskedOf[q].keys = appTask[q].keys
        /\ (AskedOf[q].op = "add" <=> appTask[q].op \in {"set", "setvars"})
    BY <1>2, <2>1, AskedIs DEF Asked
  <2>9. KeysOf[MapOf(q)] = m.keys
    BY <1>3 DEF KeysOf
  <2>10. CASE MapAfter(q, m).keys = m.keys
    <3>1. KeysOf' = KeysOf
      BY <2>7, <2>9, <2>10 DEF KeysOf
    <3> QED BY <2>6, <3>1 DEF Promised!Next, Promised!Drop
  <2>11. CASE MapAfter(q, m).keys = merged
    <3>1. Promised!Apply(q)
      BY <2>6, <2>7, <2>8, <2>9, <2>11 DEF Promised!Apply, KeysOf
    <3> QED BY <3>1 DEF Promised!Next
  <2> QED BY <2>2, <2>10, <2>11
<1>5. CASE ~PutMap(q)
  <2>1. appMap' = appMap
    BY <1>5 DEF AppStep, envVars, EnsureOrg, CreateRepo, RegisterWebhook, HookAllowed, AppCheck, InsertApp,
                ProvisionStepFails, CreateDatabase, CreateRole, RecordResource, CreateSecret, DeleteApp,
                StoreVars, DropVar, ReadMap, ChooseImage, UpsertDeployment, RecordDeployment, DomainRow, WriteRoute,
                VerifyDomain
  <2>2. KeysOf' = KeysOf
    BY <2>1 DEF KeysOf
  <2>3. CASE appTask[q].op \in KeyOps /\ At(q, "done")'
    <3>1. Asked(q)' = [Asked(q) EXCEPT !.over = TRUE] /\ Asked(q).op # "none" /\ ~Asked(q).over
      BY <1>2, <2>3, AskedEnds
    <3>2. Promised!Ends(q)
      BY <1>1, <3>1, AskedIs DEF Promised!Ends, Promised!Pending
    <3> QED BY <2>2, <3>2 DEF Promised!Next, Promised!Drop
  <2>4. CASE ~(appTask[q].op \in KeyOps /\ At(q, "done")')
    <3>1. Asked(q)' = Asked(q)
      BY <1>2, <2>4 DEF Asked
    <3> QED BY <1>1, <2>2, <3>1, AskedIs DEF Promised!keyVars
  <2> QED BY <2>3, <2>4
<1> QED BY <1>4, <1>5

LEMMA TemplateStutters ==
    ASSUME AppsInv, NEW q \in AppReqs, InsertTemplate(q)
    PROVE  UNCHANGED Promised!keyVars
<1>1. appTask[q] = NoTask /\ appTask'[q].op = NoTask.op
  BY DEF AppsInv, TypeInv, TasksTyped, TaskInv, InsertTemplate, NoTask
<1>2. Asked(q)' = Asked(q)
  BY <1>1 DEF Asked, NoTask, KeyOps
<1>3. \A r \in AppReqs \ {q} : Asked(r)' = Asked(r)
  BY SameTaskSameRequest DEF AppsInv, TypeInv, TasksTyped, InsertTemplate
<1>4. KeysOf' = KeysOf
  BY DEF InsertTemplate, envVars, KeysOf
<1> QED BY <1>2, <1>3, <1>4, AskedIs DEF Promised!keyVars

(* Every request of the variable routes adds or removes its keys at one     *)
(* moment, on the keys there are at that moment, or not at all: the read,   *)
(* the merge and the replacement of the handler implement KeyStore.         *)
THEOREM VariablesImplementKeyStore == AppsSpec => VariablesAreAtomic
<1>1. AppsInit => Promised!Init
  BY DEF AppsInit, NoTask, NoMap, KeysOf, AskedOf, Promised!Init, Promised!NoRequest
<1>2. AppsInv /\ [AppsNext]_appVarsAll => [Promised!Next]_(Promised!keyVars)
  <2> SUFFICES ASSUME AppsInv, [AppsNext]_appVarsAll PROVE [Promised!Next]_(Promised!keyVars)
    OBVIOUS
  <2>1. CASE RegisterCalls \/ RepoCalls \/ VarCalls \/ DeployCalls
    BY <2>1, CallsArrive, ArrivalAsks DEF AppsInv
  <2>2. CASE \E q \in AppReqs : InsertTemplate(q)
    BY <2>2, TemplateStutters
  <2>3. CASE AppSteps
    BY <2>3, StepAnswers DEF AppSteps
  <2>4. CASE UNCHANGED appVarsAll
    BY <2>4 DEF appVarsAll, KeysOf, AskedOf, MapOf, Promised!keyVars
  <2>5. CASE TwinDatabase \/ TwinRole
    BY <2>5 DEF TwinDatabase, TwinRole, envVars, KeysOf, AskedOf, MapOf, At, Promised!keyVars
  <2> QED BY <2>1, <2>2, <2>3, <2>4, <2>5 DEF AppsNext, RegisterNext, RepoNext, VarNext, DeployNext
<1> QED BY <1>1, <1>2, AppsInvariant, PTL DEF AppsSpec, VariablesAreAtomic, Promised!Spec

(***************************************************************************)
(* Money                                                                   *)
(***************************************************************************)
RzStates == {"none", "lost", "created", "failed", "captured"}
BillType == [status : {"draft", "paid"}, pay : {"none", "pending", "captured", "failed"}, order : OrdReqs \cup {0}]
OrdTaskType == [pc : {"none", "link", "done"}, of : Invoices]

-----------------------------------------------------------------------------
(* The inductive invariant.                                                *)

\* An order exists at Razorpay only after its call asked for it, and an invoice
\* carries only an order that was made for it.
OrderInv ==
    /\ rzOrder \in [OrdReqs -> RzStates] /\ ordTask \in [OrdReqs -> OrdTaskType]
    /\ \A o \in OrdReqs : ordTask[o].pc = "none" => rzOrder[o] = "none"
CarriesInv ==
    /\ bill \in [Invoices -> BillType]
    /\ \A i \in Invoices : bill[i].order # 0 =>
         ordTask[bill[i].order].pc # "none" /\ ordTask[bill[i].order].of = i
MoneyInv == OrderInv /\ CarriesInv /\ PaidWasCaptured

-----------------------------------------------------------------------------
LEMMA MoneyStart == ApiBillingInit => MoneyInv
<1> SUFFICES ASSUME ApiBillingInit PROVE MoneyInv
  OBVIOUS
<1>1. OrderInv
  BY DEF ApiBillingInit, OrderInv, RzStates, OrdIdle, OrdTaskType, Invoices
<1>2. CarriesInv /\ PaidWasCaptured
  BY DEF ApiBillingInit, CarriesInv, BillType, Unpaid, PaidWasCaptured
<1> QED
  BY <1>1, <1>2 DEF MoneyInv

\* A call that orders: the order is new, and no invoice carries it yet.
LEMMA OrderKeeps ==
    ASSUME MoneyInv, NEW o \in OrdReqs, NEW i \in Invoices, PaymentOrder(o, i)
    PROVE  MoneyInv'
<1>1. PICK r \in {"answered", "lost", "refused"} :
        /\ rzOrder' = [rzOrder EXCEPT ![o] = CASE r = "answered" -> "created" [] r = "lost" -> "lost"
                                               [] r = "refused" -> "none"]
        /\ ordTask' = [ordTask EXCEPT ![o] = [pc |-> IF r = "answered" THEN "link" ELSE "done", of |-> i]]
  BY DEF PaymentOrder
<1>2. ordTask[o].pc = "none" /\ rzOrder[o] # "captured" /\ bill' = bill
  BY DEF PaymentOrder, MoneyInv, OrderInv
<1>3. OrderInv'
  BY <1>1 DEF MoneyInv, OrderInv, RzStates, OrdTaskType
<1>4. \A p \in OrdReqs \ {o} : rzOrder'[p] = rzOrder[p] /\ ordTask'[p] = ordTask[p]
  BY <1>1 DEF MoneyInv, OrderInv
<1>5. CarriesInv'
  <2>1. \A j \in Invoices : bill[j].order # 0 => bill[j].order \in OrdReqs \ {o}
    BY <1>2 DEF MoneyInv, CarriesInv, BillType
  <2> QED
    BY <1>2, <1>4, <2>1 DEF MoneyInv, CarriesInv
<1>6. PaidWasCaptured'
  BY <1>2, <1>4 DEF MoneyInv, PaidWasCaptured
<1> QED
  BY <1>3, <1>5, <1>6 DEF MoneyInv

LEMMA LinkKeeps ==
    ASSUME MoneyInv, NEW o \in OrdReqs, LinkOrder(o)
    PROVE  MoneyInv'
<1> USE ApiBillingAssumption
<1>1. PICK i \in Invoices : i = ordTask[o].of
  BY DEF MoneyInv, OrderInv, OrdTaskType
<1>2. /\ ordTask' = [ordTask EXCEPT ![o].pc = "done"] /\ rzOrder' = rzOrder
      /\ bill' = [bill EXCEPT ![i].order = o, ![i].pay = "pending"]
  BY <1>1 DEF LinkOrder
<1>3. OrderInv'
  BY <1>2 DEF MoneyInv, OrderInv, OrdTaskType
<1>4. \A p \in OrdReqs : ordTask'[p].of = ordTask[p].of /\ (ordTask[p].pc # "none" => ordTask'[p].pc # "none")
  BY <1>2 DEF MoneyInv, OrderInv, OrdTaskType
<1>5. /\ bill' \in [Invoices -> BillType] /\ \A j \in Invoices \ {i} : bill'[j] = bill[j]
      /\ bill'[i].order = o /\ bill'[i].status = bill[i].status
  <2> DEFINE f == [bill EXCEPT ![i].order = o]
             g == [f EXCEPT ![i].pay = "pending"]
  <2>1. /\ f \in [Invoices -> BillType] /\ \A j \in Invoices \ {i} : f[j] = bill[j]
        /\ f[i].order = o /\ f[i].status = bill[i].status
    BY DEF MoneyInv, CarriesInv, BillType
  <2>2. bill' = g
    BY <1>2
  <2> HIDE DEF f
  <2>3. /\ g \in [Invoices -> BillType] /\ \A j \in Invoices \ {i} : g[j] = f[j]
        /\ g[i].order = f[i].order /\ g[i].status = f[i].status
    BY <2>1 DEF BillType
  <2> HIDE DEF g
  <2> QED
    BY <2>1, <2>2, <2>3
<1>6. ordTask'[o].pc = "done" /\ ordTask'[o].of = i
  BY <1>1, <1>2 DEF MoneyInv, OrderInv, OrdTaskType
<1>7. CarriesInv'
  <2> SUFFICES ASSUME NEW j \in Invoices, bill'[j].order # 0
               PROVE  ordTask'[bill'[j].order].pc # "none" /\ ordTask'[bill'[j].order].of = j
    BY <1>5 DEF CarriesInv
  <2>1. CASE j = i
    BY <1>5, <1>6, <2>1
  <2>2. CASE j # i
    <3>1. bill'[j] = bill[j] /\ bill[j].order \in OrdReqs
      BY <1>5, <2>2 DEF MoneyInv, CarriesInv, BillType
    <3> QED
      BY <1>4, <3>1 DEF MoneyInv, CarriesInv
  <2> QED
    BY <2>1, <2>2
<1>8. PaidWasCaptured'
  BY <1>2, <1>4, <1>5 DEF MoneyInv, PaidWasCaptured
<1> QED
  BY <1>3, <1>7, <1>8 DEF MoneyInv

\* An event reaches only the invoice that carries its order, which was made for it.
LEMMA EventKeeps ==
    ASSUME MoneyInv, NEW o \in OrdReqs, RazorpayCaptured(o) \/ RazorpayFailed(o)
    PROVE  MoneyInv'
<1>1. ordTask' = ordTask /\ rzOrder' = rzOrder
  BY DEF RazorpayCaptured, RazorpayFailed
<1>2. /\ bill' \in [Invoices -> BillType]
      /\ \A i \in Invoices : /\ bill'[i].order = bill[i].order
                             /\ bill'[i].status = bill[i].status
                                \/ (bill[i].order = o /\ rzOrder[o] = "captured")
  <2>1. CASE RazorpayCaptured(o)
    <3>1. /\ rzOrder[o] = "captured"
          /\ bill' = [i \in Invoices |->
                       IF bill[i].order = o THEN [bill[i] EXCEPT !.status = "paid", !.pay = "captured"] ELSE bill[i]]
      BY <2>1 DEF RazorpayCaptured, InvoiceOf
    <3>2. ASSUME NEW b \in BillType
          PROVE  /\ [b EXCEPT !.status = "paid", !.pay = "captured"] \in BillType
                 /\ [b EXCEPT !.status = "paid", !.pay = "captured"].order = b.order
      BY DEF BillType
    <3>3. bill \in [Invoices -> BillType]
      BY DEF MoneyInv, CarriesInv
    <3> QED
      BY <3>1, <3>2, <3>3
  <2>2. CASE RazorpayFailed(o)
    <3>1. bill' = [i \in Invoices |-> IF bill[i].order = o THEN [bill[i] EXCEPT !.pay = "failed"] ELSE bill[i]]
      BY <2>2 DEF RazorpayFailed, InvoiceOf
    <3>2. ASSUME NEW b \in BillType
          PROVE  /\ [b EXCEPT !.pay = "failed"] \in BillType
                 /\ [b EXCEPT !.pay = "failed"].order = b.order
                 /\ [b EXCEPT !.pay = "failed"].status = b.status
      BY DEF BillType
    <3>3. bill \in [Invoices -> BillType]
      BY DEF MoneyInv, CarriesInv
    <3> QED
      BY <3>1, <3>2, <3>3
  <2> QED
    BY <2>1, <2>2
<1>3. OrderInv' /\ CarriesInv'
  BY <1>1, <1>2 DEF MoneyInv, OrderInv, CarriesInv
<1>4. PaidWasCaptured'
  <2> SUFFICES ASSUME NEW i \in Invoices, bill'[i].status = "paid"
               PROVE  \E p \in OrdReqs : rzOrder[p] = "captured" /\ ordTask[p].of = i
    BY <1>1 DEF PaidWasCaptured
  <2>1. CASE bill[i].status = "paid"
    BY <2>1 DEF MoneyInv, PaidWasCaptured
  <2>2. CASE bill[i].order = o /\ rzOrder[o] = "captured"
    <3>1. ordTask[o].of = i
      BY <2>2, ApiBillingAssumption DEF MoneyInv, CarriesInv
    <3> QED
      BY <2>2, <3>1
  <2> QED
    BY <1>2, <2>1, <2>2
<1> QED
  BY <1>3, <1>4 DEF MoneyInv

LEMMA PaysKeep ==
    ASSUME MoneyInv, NEW o \in OrdReqs, NEW outcome \in {"failed", "captured"}, CustomerPays(o, outcome)
    PROVE  MoneyInv'
<1>1. rzOrder' = [rzOrder EXCEPT ![o] = outcome] /\ ordTask' = ordTask /\ bill' = bill
      /\ ordTask[o].pc = "done" /\ rzOrder[o] # "captured"
  BY DEF CustomerPays
<1>2. OrderInv'
  BY <1>1 DEF MoneyInv, OrderInv, RzStates
<1>3. \A p \in OrdReqs : rzOrder[p] = "captured" => rzOrder'[p] = "captured"
  BY <1>1 DEF MoneyInv, OrderInv
<1> QED
  BY <1>1, <1>2, <1>3 DEF MoneyInv, CarriesInv, PaidWasCaptured

LEMMA MoneyKeeps == MoneyInv /\ [ApiBillingNext]_apiBillingVars => MoneyInv'
<1> SUFFICES ASSUME MoneyInv, [ApiBillingNext]_apiBillingVars PROVE MoneyInv'
  OBVIOUS
<1>1. ASSUME UNCHANGED payVars PROVE MoneyInv'
  BY <1>1 DEF MoneyInv, payVars, OrderInv, CarriesInv, PaidWasCaptured
<1>2. ASSUME NEW k \in Kinds, Usage(k) PROVE UNCHANGED payVars
  BY <1>2 DEF Usage, payVars
<1>3. ASSUME NEW q \in GenReqs,
             \/ Generate(q) \/ FindInvoice(q) \/ InsertInvoice(q) \/ UpdateInvoice(q)
             \/ ClearLines(q) \/ InsertLine(q) \/ GenerateDies(q)
      PROVE  UNCHANGED payVars
  BY <1>3 DEF Generate, FindInvoice, InsertInvoice, UpdateInvoice, ClearLines, InsertLine, GenerateDies, payVars
<1>4. CASE TickNext \/ UNCHANGED apiBillingVars
  <2>1. UNCHANGED payVars
    BY <1>4 DEF TickNext, MeterMinute, ListPods, LogPod, SnapshotTenant, CreateAlert, DeleteAlert, apiBillingVars,
                invoiceVars, payVars
  <2> QED
    BY <1>1, <2>1
<1>5. CASE InvoiceNext
  BY <1>1, <1>2, <1>3, <1>5, OrderKeeps, LinkKeeps, EventKeeps, PaysKeep DEF InvoiceNext, CheckoutSession
<1> QED
  BY <1>1, <1>4, <1>5 DEF ApiBillingNext

\* The inductive invariant of invoices and their orders holds in every state.
THEOREM MoneyInvariant == ApiBillingSpec => []MoneyInv
BY MoneyStart, MoneyKeeps, PTL DEF ApiBillingSpec

\* An invoice is 'paid' only when Razorpay captured a payment of an order made
\* for it, whatever calls race, fail half-way and are repeated, whichever order
\* replaced another, and however late an event is delivered.
THEOREM PaidIsCaptured == ApiBillingSpec => []PaidWasCaptured
BY MoneyInvariant, PTL DEF MoneyInv

(***************************************************************************)
(* The total of the invoice                                                *)
(***************************************************************************)
GenPcs == {"none", "select", "insert", "update", "clear", "lines", "done"}
GenTaskType == [pc : GenPcs, sum : [Kinds -> Nat], todo : SUBSET Kinds]
InvType == {i \in [there : BOOLEAN, subtotal : Nat, total : Nat] : i.total = WithGst(i.subtotal)}
Busy(q) == genTask[q].pc \notin {"none", "done"}

GenTypes ==
    /\ usage \in [Kinds -> Nat] /\ genTask \in [GenReqs -> GenTaskType] /\ inv \in InvType
    /\ lines \subseteq GenReqs \X Kinds \X Nat /\ IsFiniteSet(lines) /\ genMixed \in BOOLEAN

\* What a call has still to write of its items.
Share(t, k) == IF k \in t.todo THEN t.sum[k] ELSE 0
Left(t) == Share(t, "cpu") + Share(t, "memory")

\* An invoice that is not there has no item, and one call at a time knows what
\* it found: nothing, or an invoice whose total it writes before the items.
EmptyInv ==
    /\ ~inv.there => inv.subtotal = 0 /\ lines = {}
    /\ \A q \in GenReqs : genTask[q].pc \in {"update", "clear", "lines"} => inv.there
AloneInv == ~genMixed => \A q, r \in GenReqs : Busy(q) /\ Busy(r) => q = r
SumInv == ~genMixed => \A q \in GenReqs :
    /\ genTask[q].pc \in {"select", "insert", "update", "clear"} =>
         genTask[q].todo = {k \in Kinds : genTask[q].sum[k] > 0}
    /\ GenAt(q, "insert") => ~inv.there
    /\ GenAt(q, "clear") => inv.subtotal = Amount(genTask[q].sum)
    /\ GenAt(q, "lines") =>
         /\ inv.subtotal = SumOfLines + Left(genTask[q])
         /\ \A l \in lines : l[2] \notin genTask[q].todo
LinesAdd == ~genMixed /\ ~GenBusy => inv.subtotal = SumOfLines
AddInv == GenTypes /\ EmptyInv /\ AloneInv /\ SumInv /\ LinesAdd

LEMMA GstAdds ==
    /\ NoInvoice \in InvType /\ NoInvoice.there = FALSE /\ NoInvoice.subtotal = 0
    /\ \A n \in Nat : Billed(n) \in InvType /\ Billed(n).there /\ Billed(n).subtotal = n
<1>1. \A n \in Nat : WithGst(n) \in Nat
  BY DEF WithGst
<1>2. WithGst(0) = 0
  BY DEF WithGst
<1> QED BY <1>1, <1>2 DEF NoInvoice, Billed, InvType

LEMMA LinesAreSummed == SumOfLines = Total([l \in lines |-> l[3]], lines)
BY DEF SumOfLines, SumFunction, Total

LEMMA NoLines == lines = {} => SumOfLines = 0
BY LinesAreSummed, TotalEmpty

LEMMA LineAdds ==
    ASSUME GenTypes, NEW x \in GenReqs \X Kinds \X Nat, x \notin lines, lines' = lines \cup {x}
    PROVE  SumOfLines' = SumOfLines + x[3] /\ SumOfLines \in Int
<1> DEFINE f == [l \in lines |-> l[3]]
           g == [l \in lines \cup {x} |-> l[3]]
<1>1. IsFiniteSet(lines) /\ IsFiniteSet(lines \cup {x})
  BY FS_AddElement DEF GenTypes
<1>2. \A l \in lines \cup {x} : g[l] \in Int /\ l[3] \in Int
  BY DEF GenTypes
<1>3. \A l \in lines : f[l] = g[l] /\ f[l] \in Int
  BY <1>2
<1>4. g[x] = x[3]
  OBVIOUS
<1>5. SumOfLines = Total(f, lines) /\ SumOfLines' = Total(g, lines \cup {x})
  BY LinesAreSummed DEF SumOfLines, SumFunction, Total
<1> HIDE DEF f, g
<1>6. Total(f, lines) = Total(g, lines) /\ Total(f, lines) \in Int
  BY <1>1, <1>3, TotalAgrees, TotalIsInt
<1>7. Total(g, lines \cup {x}) = Total(g, lines) + g[x]
  <2>1. x \in (lines \cup {x}) \ lines
    OBVIOUS
  <2>2. lines \subseteq lines \cup {x}
    OBVIOUS
  <2> QED BY <1>1, <1>2, <2>1, <2>2, TotalAdds
<1> QED BY <1>4, <1>5, <1>6, <1>7

LEMMA AddStarts == ApiBillingInit => AddInv
<1> SUFFICES ASSUME ApiBillingInit
             PROVE  AddInv
  OBVIOUS
<1>1. GenTypes
  <2>1. GenIdle \in GenTaskType /\ NoInvoice \in InvType
    BY GstAdds DEF GenIdle, GenTaskType, GenPcs
  <2> QED BY <2>1, FS_EmptySet DEF ApiBillingInit, GenTypes
<1>2. \A q \in GenReqs : genTask[q].pc = "none"
  BY DEF ApiBillingInit, GenIdle
<1>3. inv.there = FALSE /\ inv.subtotal = 0 /\ lines = {}
  BY DEF ApiBillingInit, NoInvoice
<1>4. EmptyInv /\ LinesAdd
  BY <1>2, <1>3, NoLines DEF EmptyInv, LinesAdd
<1>5. AloneInv /\ SumInv
  BY <1>2 DEF AloneInv, SumInv, Busy, GenAt
<1> QED BY <1>1, <1>4, <1>5 DEF AddInv

\* Steps that leave the total, the items and the calls alone.
LEMMA InvoiceStays ==
    ASSUME AddInv, usage' \in [Kinds -> Nat], inv' \in InvType, inv'.there = inv.there, inv'.subtotal = inv.subtotal,
           UNCHANGED <<lines, genTask, genMixed>>
    PROVE  AddInv'
<1>1. GenTypes'
  BY DEF AddInv, GenTypes
<1>2. EmptyInv' /\ AloneInv'
  BY DEF AddInv, EmptyInv, AloneInv, Busy
<1>3. SumOfLines' = SumOfLines
  BY DEF SumOfLines
<1>4. SumInv'
  BY <1>3 DEF AddInv, SumInv, GenAt
<1>5. LinesAdd'
  BY <1>3 DEF AddInv, LinesAdd, GenBusy
<1> QED BY <1>1, <1>2, <1>4, <1>5 DEF AddInv

\* What a step of a call does to the calls.
GenGoes(q, pc) ==
    /\ genTask' \in [GenReqs -> GenTaskType] /\ \A r \in GenReqs \ {q} : genTask'[r] = genTask[r]
    /\ genTask'[q].pc = pc /\ genTask'[q].sum = genTask[q].sum

LEMMA GenMoves ==
    ASSUME GenTypes, NEW q \in GenReqs, NEW pc \in GenPcs, genTask' = [genTask EXCEPT ![q].pc = pc]
    PROVE  GenGoes(q, pc) /\ genTask'[q].todo = genTask[q].todo
BY DEF GenTypes, GenTaskType, GenGoes

LEMMA GenTakes ==
    ASSUME GenTypes, NEW q \in GenReqs, NEW pc \in GenPcs, NEW k,
           genTask' = [genTask EXCEPT ![q].todo = @ \ {k}, ![q].pc = pc]
    PROVE  GenGoes(q, pc) /\ genTask'[q].todo = genTask[q].todo \ {k}
<1> DEFINE f == [genTask EXCEPT ![q].todo = @ \ {k}]
           g == [f EXCEPT ![q].pc = pc]
<1>1. genTask' = g
  OBVIOUS
<1>2. /\ f \in [GenReqs -> GenTaskType] /\ \A r \in GenReqs \ {q} : f[r] = genTask[r]
      /\ f[q].sum = genTask[q].sum /\ f[q].todo = genTask[q].todo \ {k}
  BY DEF GenTypes, GenTaskType
<1> HIDE DEF f
<1>3. /\ g \in [GenReqs -> GenTaskType] /\ \A r \in GenReqs \ {q} : g[r] = f[r]
      /\ g[q].pc = pc /\ g[q].sum = f[q].sum /\ g[q].todo = f[q].todo
  BY <1>2 DEF GenTaskType
<1> QED BY <1>1, <1>2, <1>3 DEF GenGoes

\* The calls alone: a call that comes, dies or looks for the invoice.
LEMMA CallKeepsSum ==
    ASSUME AddInv, NEW q \in GenReqs, Generate(q) \/ FindInvoice(q) \/ GenerateDies(q)
    PROVE  AddInv'
<1>0. GenTypes /\ EmptyInv /\ AloneInv /\ SumInv /\ LinesAdd
  BY DEF AddInv
<1>1. UNCHANGED <<usage, inv, lines>> /\ SumOfLines' = SumOfLines
  BY DEF Generate, FindInvoice, GenerateDies, SumOfLines
<1>2. ASSUME NEW pc \in {"select", "update", "insert", "done"}, pc = "update" => inv.there,
             \A r \in GenReqs \ {q} : genTask'[r] = genTask[r], genTask'[q].pc = pc
      PROVE  EmptyInv'
  BY <1>0, <1>1, <1>2 DEF EmptyInv
<1>3. CASE Generate(q)
  <2> DEFINE t == [pc |-> "select", sum |-> usage, todo |-> {k \in Kinds : usage[k] > 0}]
  <2>1. /\ genTask' \in [GenReqs -> GenTaskType] /\ \A r \in GenReqs \ {q} : genTask'[r] = genTask[r]
        /\ genTask'[q] = t
    <3>1. t \in GenTaskType
      BY <1>0 DEF GenTypes, GenTaskType, GenPcs
    <3>2. genTask' = [genTask EXCEPT ![q] = t]
      BY <1>3 DEF Generate
    <3> HIDE DEF t
    <3> QED BY <1>0, <3>1, <3>2 DEF GenTypes
  <2>2. GenAt(q, "none") /\ genMixed' = (genMixed \/ GenBusy)
    BY <1>3 DEF Generate
  <2>3. GenTypes'
    BY <1>0, <1>1, <2>1, <2>2 DEF GenTypes, GenBusy
  <2>4. ~genMixed' => ~genMixed /\ \A r \in GenReqs : ~Busy(r)
    BY <2>2 DEF GenBusy, Busy
  <2>5. AloneInv'
    BY <2>1, <2>4 DEF AloneInv, Busy
  <2>6. SumInv'
    <3> SUFFICES ASSUME ~genMixed', NEW r \in GenReqs, Busy(r)'
                 PROVE  r = q /\ genTask'[q] = t
      BY <2>1 DEF SumInv, Busy, GenAt
    <3> QED BY <2>1, <2>4 DEF Busy
  <2>7. GenBusy'
    BY <2>1 DEF GenBusy
  <2>8. EmptyInv'
    BY <1>2, <2>1
  <2> QED BY <2>3, <2>5, <2>6, <2>7, <2>8 DEF AddInv, LinesAdd
<1>4. CASE FindInvoice(q)
  <2>1. PICK pc \in {"update", "insert"} : pc = IF inv.there THEN "update" ELSE "insert"
    OBVIOUS
  <2>2. GenGoes(q, pc) /\ genTask'[q].todo = genTask[q].todo /\ GenAt(q, "select") /\ genMixed' = genMixed
    BY <1>0, <1>4, <2>1, GenMoves DEF FindInvoice, GenPcs
  <2>3. GenTypes'
    BY <1>0, <1>1, <2>2 DEF GenTypes, GenGoes
  <2>4. AloneInv'
    BY <1>0, <2>2 DEF AloneInv, GenGoes, Busy, GenAt
  <2>5. SumInv'
    <3> SUFFICES ASSUME ~genMixed, NEW r \in GenReqs, Busy(r)'
                 PROVE  r = q
      BY <1>0, <1>1, <2>1, <2>2 DEF SumInv, GenGoes, GenAt, Busy
    <3> QED BY <1>0, <2>2 DEF AloneInv, GenGoes, GenAt, Busy
  <2>6. GenBusy'
    BY <2>2 DEF GenBusy, GenGoes
  <2>7. EmptyInv'
    BY <1>2, <2>1, <2>2 DEF GenGoes
  <2> QED BY <2>3, <2>4, <2>5, <2>6, <2>7 DEF AddInv, LinesAdd
<1>5. CASE GenerateDies(q)
  <2>1. GenGoes(q, "done") /\ genMixed' = TRUE
    BY <1>0, <1>5, GenMoves DEF GenerateDies, GenPcs
  <2>2. GenTypes'
    BY <1>0, <1>1, <2>1 DEF GenTypes, GenGoes
  <2>3. EmptyInv'
    BY <1>2, <2>1 DEF GenGoes
  <2> QED BY <2>1, <2>2, <2>3 DEF AddInv, AloneInv, SumInv, LinesAdd
<1> QED BY <1>3, <1>4, <1>5

\* The invoice: its row, then its items.
LEMMA WriteKeepsSum ==
    ASSUME AddInv, NEW q \in GenReqs, InsertInvoice(q) \/ UpdateInvoice(q) \/ ClearLines(q)
    PROVE  AddInv'
<1>0. GenTypes /\ EmptyInv /\ AloneInv /\ SumInv /\ LinesAdd
  BY DEF AddInv
<1>1. PICK t, w : t = genTask[q] /\ w = Written(q)
  OBVIOUS
<1>2. t \in GenTaskType /\ w \in {"done", "lines"} /\ Amount(t.sum) \in Nat /\ (w = "done" <=> t.todo = {})
  BY <1>0, <1>1 DEF GenTypes, GenTaskType, Written, Amount, Kinds
<1>3. t.todo = {k \in Kinds : t.sum[k] > 0} => Left(t) = Amount(t.sum) /\ (t.todo = {} => Amount(t.sum) = 0)
  BY <1>2 DEF Left, Share, Amount, Kinds, GenTaskType
<1>4. ~genMixed => t.todo = {k \in Kinds : t.sum[k] > 0}
  BY <1>0, <1>1 DEF SumInv, InsertInvoice, UpdateInvoice, ClearLines, GenAt
<1>5. UNCHANGED <<usage, genMixed>> /\ Busy(q)
  BY DEF InsertInvoice, UpdateInvoice, ClearLines, Busy, GenAt
<1>6. ~genMixed => \A r \in GenReqs : Busy(r) => r = q
  BY <1>0, <1>5 DEF AloneInv
\* The items begin with none, and the total is written.
<1>7. ASSUME GenGoes(q, w), genTask'[q].todo = t.todo, inv' \in InvType, inv'.there,
             lines' = {}, ~genMixed => inv'.subtotal = Amount(t.sum)
      PROVE  AddInv'
  <2>1. GenTypes'
    BY <1>0, <1>5, <1>7, FS_EmptySet DEF GenTypes, GenGoes
  <2>2. EmptyInv'
    BY <1>7 DEF EmptyInv
  <2>3. \A r \in GenReqs : Busy(r)' => Busy(r)
    BY <1>5, <1>7 DEF GenGoes, Busy
  <2>4. AloneInv'
    BY <1>5, <1>6, <2>3 DEF AloneInv
  <2>5. SumOfLines' = 0
    BY <1>7, NoLines, TotalEmpty DEF SumOfLines, SumFunction, Total
  <2>6. Left(genTask'[q]) = Left(t)
    BY <1>1, <1>7 DEF Left, Share, GenGoes
  <2>7. Left(t) \in Int
    BY <1>2 DEF Left, Share, GenTaskType, Kinds
  <2>8. SumInv'
    <3> SUFFICES ASSUME ~genMixed, NEW r \in GenReqs, Busy(r)'
                 PROVE  r = q
      BY <1>2, <1>3, <1>4, <1>5, <1>7, <2>5, <2>6, <2>7 DEF SumInv, GenAt, Busy, GenGoes
    <3> QED BY <1>6, <2>3
  <2>9. LinesAdd'
    BY <1>2, <1>3, <1>4, <1>5, <1>7, <2>5 DEF LinesAdd, GenBusy, GenGoes
  <2> QED BY <2>1, <2>2, <2>4, <2>8, <2>9 DEF AddInv
<1>8. CASE InsertInvoice(q)
  <2>1. CASE inv.there
    <3>1. GenGoes(q, "done") /\ UNCHANGED <<inv, lines>>
      BY <1>0, <1>8, <2>1, GenMoves DEF InsertInvoice, GenPcs
    <3>2. genMixed
      BY <1>0, <1>8, <2>1 DEF InsertInvoice, SumInv
    <3>3. GenTypes' /\ EmptyInv'
      BY <1>0, <1>5, <3>1 DEF GenTypes, EmptyInv, GenGoes
    <3> QED BY <1>5, <3>2, <3>3 DEF AddInv, AloneInv, SumInv, LinesAdd
  <2>2. CASE ~inv.there
    <3>1. GenGoes(q, w) /\ genTask'[q].todo = t.todo /\ lines' = lines
      BY <1>0, <1>1, <1>2, <1>8, <2>2, GenMoves DEF InsertInvoice, GenPcs
    <3>2. inv' = Billed(Amount(t.sum))
      BY <1>1, <1>8, <2>2 DEF InsertInvoice
    <3>3. inv' \in InvType /\ inv'.there /\ inv'.subtotal = Amount(t.sum)
      BY <1>2, <3>2, GstAdds
    <3>4. lines' = {}
      BY <1>0, <2>2, <3>1 DEF EmptyInv
    <3> QED BY <1>7, <3>1, <3>3, <3>4
  <2> QED BY <2>1, <2>2
<1>9. CASE UpdateInvoice(q)
  <2>1. GenGoes(q, "clear") /\ genTask'[q].todo = t.todo /\ lines' = lines
    BY <1>0, <1>1, <1>9, GenMoves DEF UpdateInvoice, GenPcs
  <2>0. inv' = Billed(Amount(t.sum))
    BY <1>1, <1>9 DEF UpdateInvoice
  <2>2. inv' \in InvType /\ inv'.there = TRUE /\ inv'.subtotal = Amount(t.sum)
    BY <1>2, <2>0, GstAdds
  <2>3. GenTypes'
    BY <1>0, <1>5, <2>1, <2>2 DEF GenTypes, GenGoes
  <2>4. \A r \in GenReqs : Busy(r)' => Busy(r)
    BY <1>5, <2>1 DEF GenGoes, Busy
  <2>5. AloneInv'
    BY <1>5, <1>6, <2>4 DEF AloneInv
  <2>6. inv.there
    BY <1>0, <1>9 DEF EmptyInv, UpdateInvoice, GenAt
  <2>7. EmptyInv'
    BY <2>2, <2>6 DEF EmptyInv
  <2>8. SumInv'
    <3> SUFFICES ASSUME ~genMixed, NEW r \in GenReqs, Busy(r)'
                 PROVE  r = q
      BY <1>1, <1>4, <1>5, <2>1, <2>2, <2>6 DEF SumInv, GenAt, Busy, GenGoes
    <3> QED BY <1>6, <2>4
  <2>9. GenBusy'
    BY <2>1 DEF GenBusy, GenGoes
  <2> QED BY <2>3, <2>5, <2>7, <2>8, <2>9 DEF AddInv, LinesAdd
<1>10. CASE ClearLines(q)
  <2>1. GenGoes(q, w) /\ genTask'[q].todo = t.todo /\ inv' = inv /\ lines' = {}
    BY <1>0, <1>1, <1>2, <1>10, GenMoves DEF ClearLines, GenPcs
  <2>2. inv.there /\ inv \in InvType
    BY <1>0, <1>10 DEF EmptyInv, ClearLines, GenAt, GenTypes
  <2>3. ~genMixed => inv.subtotal = Amount(t.sum)
    BY <1>0, <1>1, <1>10 DEF SumInv, ClearLines
  <2> QED BY <1>7, <2>1, <2>2, <2>3
<1> QED BY <1>8, <1>9, <1>10

LEMMA LineKeepsSum ==
    ASSUME AddInv, NEW q \in GenReqs, InsertLine(q)
    PROVE  AddInv'
<1>0. GenTypes /\ EmptyInv /\ AloneInv /\ SumInv /\ LinesAdd
  BY DEF AddInv
<1>1. PICK t : t = genTask[q]
  OBVIOUS
<1>2. PICK k \in t.todo : /\ lines' = lines \cup {<<q, k, t.sum[k]>>}
                         /\ genTask' = [genTask EXCEPT ![q].todo = @ \ {k},
                                                       ![q].pc = IF t.todo = {k} THEN "done" ELSE "lines"]
  BY <1>1 DEF InsertLine
<1>3. t \in GenTaskType /\ k \in Kinds /\ t.sum[k] \in Nat /\ UNCHANGED <<usage, inv, genMixed>> /\ GenAt(q, "lines")
  BY <1>0, <1>1, <1>2 DEF GenTypes, GenTaskType, InsertLine
<1>4. PICK pc \in {"done", "lines"} : pc = IF t.todo = {k} THEN "done" ELSE "lines"
  OBVIOUS
<1>5. GenGoes(q, pc) /\ genTask'[q].todo = t.todo \ {k}
  <2>1. genTask' = [genTask EXCEPT ![q].todo = @ \ {k}, ![q].pc = pc]
    BY <1>2, <1>4
  <2>2. pc \in GenPcs
    BY <1>4 DEF GenPcs
  <2> QED BY <1>0, <1>1, <2>1, <2>2, GenTakes
<1> DEFINE x == <<q, k, t.sum[k]>>
<1>6. GenTypes'
  <2>1. IsFiniteSet(lines')
    BY <1>0, <1>2, FS_AddElement DEF GenTypes
  <2> QED BY <1>0, <1>2, <1>3, <1>5, <2>1 DEF GenTypes, GenGoes
<1>7. EmptyInv'
  BY <1>0, <1>3, <1>4, <1>5 DEF EmptyInv, GenGoes, GenAt
<1>8. \A r \in GenReqs : Busy(r)' => Busy(r)
  BY <1>3, <1>5 DEF GenGoes, Busy, GenAt
<1>9. AloneInv'
  BY <1>0, <1>3, <1>8 DEF AloneInv
<1>10. ~genMixed => SumOfLines' = SumOfLines + t.sum[k] /\ SumOfLines \in Int
  <2> SUFFICES ASSUME ~genMixed
               PROVE  SumOfLines' = SumOfLines + t.sum[k] /\ SumOfLines \in Int
    OBVIOUS
  <2>1. x \notin lines /\ x \in GenReqs \X Kinds \X Nat /\ x[3] = t.sum[k]
    BY <1>0, <1>1, <1>2, <1>3 DEF SumInv
  <2> HIDE DEF x
  <2>2. lines' = lines \cup {x}
    BY <1>2 DEF x
  <2> QED BY <1>0, <2>1, <2>2, LineAdds
<1>11. Left(t) = Left(genTask'[q]) + t.sum[k] /\ Left(genTask'[q]) \in Int
       /\ (pc = "done" => Left(genTask'[q]) = 0)
  <2>1. genTask'[q].sum = t.sum /\ genTask'[q].todo = t.todo \ {k}
    BY <1>1, <1>5 DEF GenGoes
  <2>2. t.sum["cpu"] \in Nat /\ t.sum["memory"] \in Nat /\ k \in {"cpu", "memory"}
    BY <1>3 DEF GenTaskType, Kinds
  <2>3. pc = "done" => t.todo = {k}
    BY <1>4
  <2> QED BY <2>1, <2>2, <2>3 DEF Left, Share
<1>12. ~genMixed => inv.subtotal = SumOfLines' + Left(genTask'[q])
  <2>1. ~genMixed => inv.subtotal = SumOfLines + Left(t)
    BY <1>0, <1>1, <1>3 DEF SumInv
  <2> QED BY <1>3, <1>10, <1>11, <2>1
<1>13. SumInv'
  <2> SUFFICES ASSUME ~genMixed, NEW r \in GenReqs, Busy(r)'
               PROVE  /\ r = q
                      /\ \A l \in lines' : l[2] \notin genTask'[q].todo
    BY <1>3, <1>4, <1>5, <1>12 DEF SumInv, GenAt, Busy, GenGoes
  <2>1. r = q
    BY <1>0, <1>3, <1>8 DEF AloneInv, Busy, GenAt
  <2>2. \A l \in lines : l[2] \notin t.todo
    BY <1>0, <1>1, <1>3 DEF SumInv
  <2>3. x[2] = k /\ lines' = lines \cup {x}
    BY <1>2
  <2> HIDE DEF x
  <2>4. \A l \in lines' : l[2] \notin genTask'[q].todo
    BY <1>5, <2>2, <2>3
  <2> QED BY <2>1, <2>4
<1>14. LinesAdd'
  <2>1. CASE pc = "done"
    BY <1>0, <1>3, <1>10, <1>11, <1>12, <2>1 DEF LinesAdd
  <2>2. CASE pc = "lines"
    BY <1>5, <2>2 DEF LinesAdd, GenBusy, GenGoes
  <2> QED BY <2>1, <2>2
<1> QED BY <1>6, <1>7, <1>9, <1>13, <1>14 DEF AddInv

LEMMA AddKeeps == AddInv /\ [InvoiceNext]_invoiceVars => AddInv'
<1> SUFFICES ASSUME AddInv, [InvoiceNext]_invoiceVars
             PROVE  AddInv'
  OBVIOUS
<1>0. inv \in InvType /\ usage \in [Kinds -> Nat]
  BY DEF AddInv, GenTypes
<1>1. CASE UNCHANGED invoiceVars
  BY <1>0, <1>1, InvoiceStays DEF invoiceVars
<1>2. ASSUME NEW k \in Kinds, Usage(k)
      PROVE  AddInv'
  <2>1. usage' \in [Kinds -> Nat]
    BY <1>0, <1>2 DEF Usage, Paise
  <2> QED BY <1>0, <1>2, <2>1, InvoiceStays DEF Usage
<1>3. ASSUME NEW q \in GenReqs,
             \/ Generate(q) \/ FindInvoice(q) \/ InsertInvoice(q) \/ UpdateInvoice(q)
             \/ ClearLines(q) \/ InsertLine(q) \/ GenerateDies(q)
      PROVE  AddInv'
  BY <1>3, CallKeepsSum, WriteKeepsSum, LineKeepsSum
<1>4. ASSUME NEW o \in OrdReqs,
             \/ LinkOrder(o) \/ RazorpayCaptured(o) \/ RazorpayFailed(o)
             \/ \E i \in Invoices : PaymentOrder(o, i) \/ CheckoutSession(o, i)
             \/ \E outcome \in {"failed", "captured"} : CustomerPays(o, outcome)
      PROVE  AddInv'
  <2>1. UNCHANGED genVars
    BY <1>4 DEF PaymentOrder, CheckoutSession, LinkOrder, RazorpayCaptured, RazorpayFailed, CustomerPays
  <2> QED BY <1>0, <2>1, InvoiceStays DEF genVars
<1> QED BY <1>1, <1>2, <1>3, <1>4 DEF InvoiceNext

LEMMA BillsKeep == AddInv /\ [ApiBillingNext]_apiBillingVars => AddInv'
<1>2. TickNext => UNCHANGED invoiceVars
  BY DEF TickNext, MeterMinute, LogPod, SnapshotTenant, ListPods, CreateAlert, DeleteAlert
<1>3. UNCHANGED apiBillingVars => UNCHANGED invoiceVars
  BY DEF apiBillingVars
<1> QED BY <1>2, <1>3, AddKeeps DEF ApiBillingNext

(* The invoice adds up, whatever calls come: unless two of them             *)
(* overlapped or one died half-way, its total is the sum of its items and   *)
(* the GST on it whenever none is under way (billing.ts:109-153).           *)
THEOREM InvoicesAddUp == ApiBillingSpec => []InvoiceAddsUp
<1>1. AddInv => InvoiceAddsUp
  BY DEF AddInv, GenTypes, InvType, LinesAdd, InvoiceAddsUp
<1> QED BY <1>1, AddStarts, BillsKeep, PTL DEF ApiBillingSpec

(***************************************************************************)
(* Mail domains                                                            *)
(***************************************************************************)
MailRowType == [tenant : MailTenants \cup {"none"}, domain : MailDomains \cup {"none"}, verified : BOOLEAN]
MailPcs == {"none", "done", "mailbox", "clear", "sign", "insert", "dns", "user", "drop", "verified",
            "dkim", "delete"}
MailTaskType == [pc : MailPcs, row : MailReqs \cup {0}, user : MailUsers \cup {"none"}, default : BOOLEAN,
             row2 : MailRowType]
HoldsRow == {"dns", "verified"}

-----------------------------------------------------------------------------
(* The inductive invariant.                                                *)

DomainTypes ==
    /\ mailDomains \in [MailReqs -> MailRowType]
    /\ mailTask \in [MailReqs -> MailTaskType]
    /\ signatures \in [MailReqs -> [user : MailUsers \cup {"none"}, default : BOOLEAN]]
    /\ txtRecords \subseteq txtEver

\* A row is inserted once, by its own request, which ends with that: a row that
\* is there is the one it has always been.
RowInv == \A i \in MailReqs : mailDomains[i] # NoMailRow => mailTask[i].pc = "done"

\* What a request remembers of a row is still true of it unless it has gone.
SeenInv == \A q \in MailReqs :
    LET t == mailTask[q] IN
    /\ t.pc \in HoldsRow =>
         /\ t.row \in MailReqs /\ mailTask[t.row].pc = "done"
         /\ mailDomains[t.row] # NoMailRow => mailDomains[t.row].domain = t.row2.domain
    /\ t.pc = "verified" => <<t.row2.domain, t.row>> \in txtEver
    /\ t.pc = "insert" => t.row2.verified = FALSE

OwnInv == \A i \in MailReqs :
    mailDomains[i].verified = TRUE => <<mailDomains[i].domain, i>> \in txtEver

DomainInv == DomainTypes /\ RowInv /\ SeenInv /\ OwnInv

-----------------------------------------------------------------------------
LEMMA Records ==
    /\ NoMailRow \in MailRowType /\ NoMailRow.verified = FALSE
    /\ MailIdle \in MailTaskType /\ MailIdle.pc = "none"
    /\ NoSignature \in [user : MailUsers \cup {"none"}, default : BOOLEAN]
BY DEF NoMailRow, MailRowType, MailIdle, MailTaskType, MailPcs, NoSignature

\* A request goes on to a step at which it holds no row, and no row changes.
LEMMA OtherStep ==
    ASSUME DomainInv, NEW q \in MailReqs, NEW t \in MailTaskType,
           mailTask[q].pc # "done", t.pc \notin HoldsRow,
           t.pc = "insert" => t.row2.verified = FALSE,
           mailTask' = [mailTask EXCEPT ![q] = t],
           signatures' \in [MailReqs -> [user : MailUsers \cup {"none"}, default : BOOLEAN]],
           UNCHANGED <<mailDomains, txtRecords, txtEver>>
    PROVE  DomainInv'
<1>1. DomainTypes /\ RowInv /\ SeenInv /\ OwnInv
  BY DEF DomainInv
<1>2. mailTask'[q] = t /\ \A p \in MailReqs : p # q => mailTask'[p] = mailTask[p]
  BY <1>1 DEF DomainTypes
<1>3. \A p \in MailReqs : mailTask[p].pc = "done" => mailTask'[p].pc = "done"
  BY <1>2
<1>4. DomainTypes'
  BY <1>1 DEF DomainTypes
<1>5. RowInv' /\ OwnInv'
  BY <1>1, <1>3 DEF RowInv, OwnInv
<1>6. SeenInv'
  <2> SUFFICES ASSUME NEW p \in MailReqs
               PROVE  LET u == mailTask'[p] IN
                      /\ u.pc \in HoldsRow =>
                           /\ u.row \in MailReqs /\ mailTask'[u.row].pc = "done"
                           /\ mailDomains[u.row] # NoMailRow => mailDomains[u.row].domain = u.row2.domain
                      /\ u.pc = "verified" => <<u.row2.domain, u.row>> \in txtEver
                      /\ u.pc = "insert" => u.row2.verified = FALSE
    BY <1>1 DEF SeenInv
  <2>1. CASE p = q
    BY <1>2, <2>1 DEF HoldsRow
  <2>2. CASE p # q
    <3>1. mailTask'[p] = mailTask[p]
      BY <1>2, <2>2
    <3>2. mailTask[p].pc \in HoldsRow =>
            /\ mailTask[p].row \in MailReqs /\ mailTask'[mailTask[p].row].pc = "done"
            /\ mailDomains[mailTask[p].row] # NoMailRow
                 => mailDomains[mailTask[p].row].domain = mailTask[p].row2.domain
      BY <1>1, <1>3 DEF SeenInv
    <3> QED
      BY <1>1, <3>1, <3>2 DEF SeenInv
  <2> QED
    BY <2>1, <2>2
<1> QED
  BY <1>4, <1>5, <1>6 DEF DomainInv

\* The same, when only the step changes.
LEMMA OtherGo ==
    ASSUME DomainInv, NEW q \in MailReqs, NEW pc \in MailPcs \ HoldsRow, pc # "insert",
           mailTask[q].pc # "done", MailGo(q, pc),
           signatures' \in [MailReqs -> [user : MailUsers \cup {"none"}, default : BOOLEAN]],
           UNCHANGED <<mailDomains, txtRecords, txtEver>>
    PROVE  DomainInv'
<1> DEFINE t == [mailTask[q] EXCEPT !.pc = pc]
<1>1. mailTask[q] \in MailTaskType
  BY DEF DomainInv, DomainTypes
<1>2. t \in MailTaskType /\ t.pc = pc
  BY <1>1 DEF MailTaskType
<1>3. mailTask' = [mailTask EXCEPT ![q] = t]
  BY DEF MailGo
<1> HIDE DEF t
<1> QED
  BY <1>2, <1>3, OtherStep

-----------------------------------------------------------------------------
LEMMA DomainStart == ApiMailInit => DomainInv
<1> SUFFICES ASSUME ApiMailInit PROVE DomainInv
  OBVIOUS
<1>1. DomainTypes
  BY Records DEF ApiMailInit, DomainTypes
<1>2. RowInv /\ OwnInv
  BY Records DEF ApiMailInit, RowInv, OwnInv
<1>3. SeenInv
  BY Records DEF ApiMailInit, SeenInv, HoldsRow
<1> QED
  BY <1>1, <1>2, <1>3 DEF DomainInv

\* The steps that touch no row of a domain and hold none.
LEMMA OthersKeep ==
    ASSUME DomainInv, NEW q \in MailReqs,
           \/ ProvisionMailbox(q) \/ ClearDefaults(q) \/ WriteSignature(q) \/ SetupDkim(q) \/ DropDomain(q)
           \/ \E u \in MailUsers : ReadMailUser(q, u) \/ \E b \in BOOLEAN : CreateSignature(q, u, b)
           \/ \E i \in MailReqs : DeleteSignature(q, i) \/ \E b \in BOOLEAN : FindSignature(q, i, b)
           \/ \E t \in MailTenants, d \in MailDomains : RegisterDomain(q, t, d)
           \/ \E n \in Names : CreateDomainUser(q, n)
    PROVE  DomainInv'
<1> DEFINE Sig == [user : MailUsers \cup {"none"}, default : BOOLEAN]
<1>0. signatures \in [MailReqs -> Sig] /\ mailTask[q] \in MailTaskType
  BY DEF DomainInv, DomainTypes
<1>1. CASE ProvisionMailbox(q) \/ SetupDkim(q) \/ DropDomain(q) \/ \E n \in Names : CreateDomainUser(q, n)
  <2>1. /\ MailGo(q, "done") \/ MailGo(q, "delete")
        /\ mailTask[q].pc # "done"
        /\ UNCHANGED <<signatures, mailDomains, txtRecords, txtEver>>
    BY <1>1 DEF ProvisionMailbox, SetupDkim, DropDomain, CreateDomainUser, MailAt
  <2> QED
    BY <1>0, <2>1, OtherGo DEF MailPcs, HoldsRow
<1>2. CASE ClearDefaults(q)
  <2>1. signatures' \in [MailReqs -> Sig]
    <3>1. ASSUME NEW i \in MailReqs PROVE [signatures[i] EXCEPT !.default = FALSE] \in Sig /\ signatures[i] \in Sig
      BY <1>0
    <3> HIDE DEF Sig
    <3> QED
      BY <1>2, <3>1 DEF ClearDefaults
  <2>2. /\ MailGo(q, "sign") /\ mailTask[q].pc # "done"
        /\ UNCHANGED <<mailDomains, txtRecords, txtEver>>
    BY <1>2 DEF ClearDefaults, MailAt
  <2> QED
    BY <2>1, <2>2, OtherGo DEF MailPcs, HoldsRow
<1>3. CASE WriteSignature(q)
  <2>1. signatures' \in [MailReqs -> Sig]
    <3>1. [user |-> mailTask[q].user, default |-> mailTask[q].default] \in Sig
      BY <1>0 DEF MailTaskType
    <3> HIDE DEF Sig
    <3> QED
      BY <1>0, <1>3, <3>1 DEF WriteSignature
  <2>2. /\ MailGo(q, "done") /\ mailTask[q].pc # "done"
        /\ UNCHANGED <<mailDomains, txtRecords, txtEver>>
    BY <1>3 DEF WriteSignature, MailAt
  <2> QED
    BY <2>1, <2>2, OtherGo DEF MailPcs, HoldsRow
<1>4. ASSUME NEW i \in MailReqs, DeleteSignature(q, i) PROVE DomainInv'
  <2>1. signatures' \in [MailReqs -> Sig]
    BY <1>0, <1>4, Records DEF DeleteSignature
  <2>2. /\ MailGo(q, "done") /\ mailTask[q].pc # "done"
        /\ UNCHANGED <<mailDomains, txtRecords, txtEver>>
    BY <1>4 DEF DeleteSignature, MailAt
  <2> QED
    BY <2>1, <2>2, OtherGo DEF MailPcs, HoldsRow
<1>5. ASSUME NEW pc \in {"mailbox", "clear", "sign"}, NEW i \in MailReqs \cup {0}, NEW u \in MailUsers \cup {"none"},
             NEW b \in BOOLEAN, MailAt(q, "none"), UNCHANGED <<signatures, mailDomains, txtRecords, txtEver>>,
             MailTo(q, [MailIdle EXCEPT !.pc = pc, !.row = i, !.user = u, !.default = b])
      PROVE  DomainInv'
  <2> DEFINE t == [MailIdle EXCEPT !.pc = pc, !.row = i, !.user = u, !.default = b]
  <2>1. t \in MailTaskType /\ t.pc = pc
    BY Records DEF MailIdle, MailTaskType, MailPcs
  <2>2. mailTask' = [mailTask EXCEPT ![q] = t] /\ mailTask[q].pc # "done"
    BY <1>5 DEF MailTo, MailAt
  <2> HIDE DEF t
  <2> QED
    BY <1>0, <1>5, <2>1, <2>2, OtherStep DEF HoldsRow
<1>6. ASSUME NEW u \in MailUsers, ReadMailUser(q, u) PROVE DomainInv'
  <2> DEFINE t == [MailIdle EXCEPT !.pc = "mailbox", !.user = u]
  <2>1. t \in MailTaskType /\ t.pc = "mailbox"
    BY DEF MailIdle, MailTaskType, MailPcs, NoMailRow, MailRowType
  <2>2. /\ mailTask' = [mailTask EXCEPT ![q] = t] /\ mailTask[q].pc # "done"
        /\ UNCHANGED <<signatures, mailDomains, txtRecords, txtEver>>
    BY <1>6 DEF ReadMailUser, MailTo, MailAt
  <2> HIDE DEF t
  <2> QED
    BY <1>0, <2>1, <2>2, OtherStep DEF HoldsRow
<1>7. ASSUME NEW u \in MailUsers, NEW b \in BOOLEAN, CreateSignature(q, u, b) PROVE DomainInv'
  <2>1. (IF b THEN "clear" ELSE "sign") \in {"mailbox", "clear", "sign"}
    OBVIOUS
  <2> QED
    BY <1>5, <1>7, <2>1 DEF CreateSignature
<1>8. ASSUME NEW i \in MailReqs, NEW b \in BOOLEAN, FindSignature(q, i, b) PROVE DomainInv'
  <2>1. (IF b THEN "clear" ELSE "sign") \in {"mailbox", "clear", "sign"}
    OBVIOUS
  <2>2. signatures[i].user \in MailUsers \cup {"none"}
    BY <1>0
  <2> QED
    BY <1>5, <1>8, <2>1, <2>2 DEF FindSignature
<1>9. ASSUME NEW t \in MailTenants, NEW d \in MailDomains, RegisterDomain(q, t, d) PROVE DomainInv'
  <2> DEFINE r == [tenant |-> t, domain |-> d, verified |-> FALSE]
             u == [MailIdle EXCEPT !.pc = "insert", !.row2 = r]
  <2>1. r \in MailRowType /\ r.verified = FALSE
    BY DEF MailRowType
  <2>2. u \in MailTaskType /\ u.pc = "insert" /\ u.row2 = r
    BY <2>1 DEF MailIdle, MailTaskType, MailPcs
  <2>3. /\ mailTask[q].pc # "done" /\ UNCHANGED <<signatures, mailDomains, txtRecords, txtEver>>
        /\ MailTo(q, u) \/ MailGo(q, "done")
    BY <1>9 DEF RegisterDomain, MailAt
  <2> HIDE DEF r, u
  <2>4. CASE MailTo(q, u)
    BY <1>0, <2>1, <2>2, <2>3, <2>4, OtherStep DEF MailTo, HoldsRow
  <2>5. CASE MailGo(q, "done")
    BY <1>0, <2>3, <2>5, OtherGo DEF MailPcs, HoldsRow
  <2> QED
    BY <2>3, <2>4, <2>5
<1> QED
  BY <1>1, <1>2, <1>3, <1>4, <1>6, <1>7, <1>8, <1>9

\* The facts a step needs of the request that takes it.
LEMMA TaskFacts ==
    ASSUME DomainInv, NEW q \in MailReqs, NEW pc \in MailPcs, MailGo(q, pc)
    PROVE  /\ mailTask[q] \in MailTaskType /\ mailTask' \in [MailReqs -> MailTaskType]
           /\ mailTask'[q] = [mailTask[q] EXCEPT !.pc = pc]
           /\ mailTask'[q].pc = pc /\ mailTask'[q].row = mailTask[q].row /\ mailTask'[q].row2 = mailTask[q].row2
           /\ \A p \in MailReqs : p # q => mailTask'[p] = mailTask[p]
<1> DEFINE t == [mailTask[q] EXCEPT !.pc = pc]
<1>1. mailTask \in [MailReqs -> MailTaskType] /\ mailTask[q] \in MailTaskType
  BY DEF DomainInv, DomainTypes
<1>2. t \in MailTaskType /\ t.pc = pc /\ t.row = mailTask[q].row /\ t.row2 = mailTask[q].row2
  BY <1>1 DEF MailTaskType
<1>3. mailTask' = [mailTask EXCEPT ![q] = t]
  BY DEF MailGo
<1> HIDE DEF t
<1>4. /\ mailTask' \in [MailReqs -> MailTaskType] /\ mailTask'[q] = t
      /\ \A p \in MailReqs : p # q => mailTask'[p] = mailTask[p]
  BY <1>1, <1>2, <1>3
<1> QED
  BY <1>1, <1>2, <1>4 DEF t

LEMMA InsertKeeps ==
    ASSUME DomainInv, NEW q \in MailReqs, InsertDomain(q)
    PROVE  DomainInv'
<1>0. DomainTypes /\ RowInv /\ SeenInv /\ OwnInv
  BY DEF DomainInv
<1>1. /\ mailTask[q].pc = "insert" /\ MailGo(q, "done")
      /\ UNCHANGED <<signatures, txtRecords, txtEver>>
      /\ mailDomains' = mailDomains \/ mailDomains' = [mailDomains EXCEPT ![q] = mailTask[q].row2]
  BY DEF InsertDomain, MailAt
<1>2. /\ mailTask[q] \in MailTaskType /\ mailTask' \in [MailReqs -> MailTaskType] /\ mailTask'[q].pc = "done"
      /\ \A p \in MailReqs : p # q => mailTask'[p] = mailTask[p]
  BY <1>1, TaskFacts DEF MailPcs
<1>3. mailTask[q].row2 \in MailRowType /\ mailTask[q].row2.verified = FALSE
  BY <1>0, <1>1, <1>2 DEF MailTaskType, SeenInv
<1>4. /\ mailDomains' \in [MailReqs -> MailRowType]
      /\ \A p \in MailReqs : p # q => mailDomains'[p] = mailDomains[p]
      /\ mailDomains'[q] = mailDomains[q] \/ mailDomains'[q] = mailTask[q].row2
  BY <1>0, <1>1, <1>3 DEF DomainTypes
<1>5. DomainTypes' /\ RowInv'
  BY <1>0, <1>1, <1>2, <1>4 DEF DomainTypes, RowInv
<1>6. OwnInv'
  BY <1>0, <1>1, <1>3, <1>4 DEF OwnInv
<1>7. SeenInv'
  <2> SUFFICES ASSUME NEW p \in MailReqs
               PROVE  LET u == mailTask'[p] IN
                      /\ u.pc \in HoldsRow =>
                           /\ u.row \in MailReqs /\ mailTask'[u.row].pc = "done"
                           /\ mailDomains'[u.row] # NoMailRow => mailDomains'[u.row].domain = u.row2.domain
                      /\ u.pc = "verified" => <<u.row2.domain, u.row>> \in txtEver
                      /\ u.pc = "insert" => u.row2.verified = FALSE
    BY <1>1 DEF SeenInv
  <2>1. CASE p = q
    BY <1>2, <2>1 DEF HoldsRow
  <2>2. CASE p # q
    <3>1. mailTask[p].pc \in HoldsRow => mailTask[p].row \in MailReqs /\ mailTask[p].row # q
      BY <1>0, <1>1 DEF SeenInv
    <3> QED
      BY <1>0, <1>2, <1>4, <2>2, <3>1 DEF SeenInv
  <2> QED
    BY <2>1, <2>2
<1> QED
  BY <1>5, <1>6, <1>7 DEF DomainInv

LEMMA ReadKeeps ==
    ASSUME DomainInv, NEW q \in MailReqs, NEW i \in MailReqs, NEW pc \in {"dns", "user", "drop"},
           ReadDomain(q, i, pc)
    PROVE  DomainInv'
<1> DEFINE t == [MailIdle EXCEPT !.pc = pc, !.row = i, !.row2 = mailDomains[i]]
<1>0. DomainTypes /\ RowInv /\ SeenInv /\ OwnInv
  BY DEF DomainInv
<1>1. mailDomains[i] \in MailRowType
  BY <1>0 DEF DomainTypes
<1>2. t \in MailTaskType /\ t.pc = pc /\ t.row = i /\ t.row2 = mailDomains[i]
  BY <1>1 DEF MailIdle, MailTaskType, MailPcs
<1>3. /\ mailTask[q].pc = "none" /\ mailTask' = [mailTask EXCEPT ![q] = t]
      /\ mailDomains[i] # NoMailRow /\ UNCHANGED <<signatures, mailDomains, txtRecords, txtEver>>
  BY DEF ReadDomain, MailAt, MailTo
<1> HIDE DEF t
<1>4. /\ mailTask' \in [MailReqs -> MailTaskType] /\ mailTask'[q] = t
      /\ \A p \in MailReqs : p # q => mailTask'[p] = mailTask[p]
  BY <1>0, <1>2, <1>3 DEF DomainTypes
<1>5. mailTask[i].pc = "done" /\ \A p \in MailReqs : mailTask[p].pc = "done" => mailTask'[p].pc = "done"
  BY <1>0, <1>3, <1>4 DEF RowInv
<1>6. DomainTypes' /\ RowInv' /\ OwnInv'
  BY <1>0, <1>3, <1>4, <1>5 DEF DomainTypes, RowInv, OwnInv
<1>7. SeenInv'
  <2> SUFFICES ASSUME NEW p \in MailReqs
               PROVE  LET u == mailTask'[p] IN
                      /\ u.pc \in HoldsRow =>
                           /\ u.row \in MailReqs /\ mailTask'[u.row].pc = "done"
                           /\ mailDomains[u.row] # NoMailRow => mailDomains[u.row].domain = u.row2.domain
                      /\ u.pc = "verified" => <<u.row2.domain, u.row>> \in txtEver
                      /\ u.pc = "insert" => u.row2.verified = FALSE
    BY <1>3 DEF SeenInv
  <2>1. CASE p = q
    BY <1>2, <1>4, <1>5, <2>1
  <2>2. CASE p # q
    BY <1>0, <1>4, <1>5, <2>2 DEF SeenInv
  <2> QED
    BY <2>1, <2>2
<1> QED
  BY <1>6, <1>7 DEF DomainInv

\* The record was looked up under the domain and the token of the row read.
LEMMA ResolveKeeps ==
    ASSUME DomainInv, NEW q \in MailReqs, ResolveTxt(q)
    PROVE  DomainInv'
<1>0. DomainTypes /\ RowInv /\ SeenInv /\ OwnInv
  BY DEF DomainInv
<1>1. mailTask[q].pc = "dns" /\ UNCHANGED <<signatures, mailDomains, txtRecords, txtEver>>
  BY DEF ResolveTxt, MailAt
<1>2. CASE MailGo(q, "done")
  BY <1>0, <1>1, <1>2, OtherGo DEF DomainTypes, MailPcs, HoldsRow
<1>3. CASE MailGo(q, "verified") /\ <<mailTask[q].row2.domain, mailTask[q].row>> \in txtRecords
  <2>1. /\ mailTask' \in [MailReqs -> MailTaskType] /\ mailTask'[q].pc = "verified"
        /\ mailTask'[q].row = mailTask[q].row /\ mailTask'[q].row2 = mailTask[q].row2
        /\ \A p \in MailReqs : p # q => mailTask'[p] = mailTask[p]
    BY <1>3, TaskFacts DEF MailPcs
  <2>2. \A p \in MailReqs : mailTask[p].pc = "done" => mailTask'[p].pc = "done"
    BY <1>1, <2>1
  <2>3. DomainTypes' /\ RowInv' /\ OwnInv'
    BY <1>0, <1>1, <2>1, <2>2 DEF DomainTypes, RowInv, OwnInv
  <2>4. <<mailTask[q].row2.domain, mailTask[q].row>> \in txtEver
    BY <1>0, <1>3 DEF DomainTypes
  <2>5. SeenInv'
    <3> SUFFICES ASSUME NEW p \in MailReqs
                 PROVE  LET u == mailTask'[p] IN
                        /\ u.pc \in HoldsRow =>
                             /\ u.row \in MailReqs /\ mailTask'[u.row].pc = "done"
                             /\ mailDomains[u.row] # NoMailRow => mailDomains[u.row].domain = u.row2.domain
                        /\ u.pc = "verified" => <<u.row2.domain, u.row>> \in txtEver
                        /\ u.pc = "insert" => u.row2.verified = FALSE
      BY <1>1 DEF SeenInv
    <3>1. CASE p = q
      BY <1>0, <1>1, <2>1, <2>2, <2>4, <3>1 DEF SeenInv, HoldsRow
    <3>2. CASE p # q
      BY <1>0, <2>1, <2>2, <3>2 DEF SeenInv
    <3> QED
      BY <3>1, <3>2
  <2> QED
    BY <2>3, <2>5 DEF DomainInv
<1> QED
  BY <1>2, <1>3 DEF ResolveTxt

\* The row marked is the one whose record was found, or there is none.
LEMMA MarkKeeps ==
    ASSUME DomainInv, NEW q \in MailReqs, MarkVerified(q)
    PROVE  DomainInv'
<1> DEFINE i == mailTask[q].row
           r == [mailDomains[i] EXCEPT !.verified = TRUE]
<1>0. DomainTypes /\ RowInv /\ SeenInv /\ OwnInv
  BY DEF DomainInv
<1>1. /\ mailTask[q].pc = "verified" /\ MailGo(q, "dkim")
      /\ UNCHANGED <<signatures, txtRecords, txtEver>>
  BY DEF MarkVerified, MailAt
<1>2. CASE mailDomains' = mailDomains
  BY <1>0, <1>1, <1>2, OtherGo DEF DomainTypes, MailPcs, HoldsRow
<1>3. CASE mailDomains[i] # NoMailRow /\ mailDomains' = [mailDomains EXCEPT ![i] = r]
  <2>1. /\ mailTask' \in [MailReqs -> MailTaskType] /\ mailTask'[q].pc = "dkim"
        /\ \A p \in MailReqs : p # q => mailTask'[p] = mailTask[p]
    BY <1>1, TaskFacts DEF MailPcs
  <2>2. i \in MailReqs /\ mailTask[i].pc = "done" /\ <<mailDomains[i].domain, i>> \in txtEver
    BY <1>0, <1>1, <1>3 DEF SeenInv, HoldsRow
  <2>3. mailDomains[i] \in MailRowType
    BY <1>0, <2>2 DEF DomainTypes
  <2>4. r \in MailRowType /\ r.domain = mailDomains[i].domain
    BY <2>3 DEF MailRowType
  <2> HIDE DEF r, i
  <2>5. /\ mailDomains' \in [MailReqs -> MailRowType] /\ mailDomains'[i] = r
        /\ \A p \in MailReqs : p # i => mailDomains'[p] = mailDomains[p]
    BY <1>0, <1>3, <2>2, <2>4 DEF DomainTypes
  <2>6. \A p \in MailReqs : mailTask[p].pc = "done" => mailTask'[p].pc = "done"
    BY <1>1, <2>1
  <2>7. DomainTypes' /\ RowInv' /\ OwnInv'
    BY <1>0, <1>1, <2>1, <2>2, <2>4, <2>5, <2>6 DEF DomainTypes, RowInv, OwnInv
  <2>8. SeenInv'
    <3> SUFFICES ASSUME NEW p \in MailReqs
                 PROVE  LET u == mailTask'[p] IN
                        /\ u.pc \in HoldsRow =>
                             /\ u.row \in MailReqs /\ mailTask'[u.row].pc = "done"
                             /\ mailDomains'[u.row] # NoMailRow => mailDomains'[u.row].domain = u.row2.domain
                        /\ u.pc = "verified" => <<u.row2.domain, u.row>> \in txtEver
                        /\ u.pc = "insert" => u.row2.verified = FALSE
      BY <1>1 DEF SeenInv
    <3>1. CASE p = q
      BY <2>1, <3>1 DEF HoldsRow
    <3>2. CASE p # q
      BY <1>0, <1>3, <2>1, <2>4, <2>5, <2>6, <3>2 DEF SeenInv
    <3> QED
      BY <3>1, <3>2
  <2> QED
    BY <2>7, <2>8 DEF DomainInv
<1> QED
  BY <1>2, <1>3 DEF MarkVerified

LEMMA DeleteKeeps ==
    ASSUME DomainInv, NEW q \in MailReqs, DeleteDomain(q)
    PROVE  DomainInv'
<1>0. DomainTypes /\ RowInv /\ SeenInv /\ OwnInv
  BY DEF DomainInv
<1>1. /\ mailTask[q].pc = "delete" /\ MailGo(q, "done") /\ UNCHANGED <<signatures, txtRecords, txtEver>>
      /\ mailDomains' = [mailDomains EXCEPT ![mailTask[q].row] = NoMailRow]
  BY DEF DeleteDomain, MailAt
<1>2. /\ mailTask' \in [MailReqs -> MailTaskType] /\ mailTask'[q].pc = "done"
      /\ \A p \in MailReqs : p # q => mailTask'[p] = mailTask[p]
  BY <1>1, TaskFacts DEF MailPcs
<1>3. /\ mailDomains' \in [MailReqs -> MailRowType]
      /\ \A p \in MailReqs : mailDomains'[p] = mailDomains[p] \/ mailDomains'[p] = NoMailRow
  BY <1>0, <1>1, Records DEF DomainTypes
<1>4. DomainTypes' /\ RowInv' /\ OwnInv'
  BY <1>0, <1>1, <1>2, <1>3, Records DEF DomainTypes, RowInv, OwnInv
<1>5. SeenInv'
  <2> SUFFICES ASSUME NEW p \in MailReqs
               PROVE  LET u == mailTask'[p] IN
                      /\ u.pc \in HoldsRow =>
                           /\ u.row \in MailReqs /\ mailTask'[u.row].pc = "done"
                           /\ mailDomains'[u.row] # NoMailRow => mailDomains'[u.row].domain = u.row2.domain
                      /\ u.pc = "verified" => <<u.row2.domain, u.row>> \in txtEver
                      /\ u.pc = "insert" => u.row2.verified = FALSE
    BY <1>1 DEF SeenInv
  <2>1. CASE p = q
    BY <1>2, <2>1 DEF HoldsRow
  <2>2. CASE p # q
    BY <1>0, <1>1, <1>2, <1>3, <2>2 DEF SeenInv
  <2> QED
    BY <2>1, <2>2
<1> QED
  BY <1>4, <1>5 DEF DomainInv

LEMMA DomainKeeps == DomainInv /\ [ApiMailNext]_apiMailVars => DomainInv'
<1> SUFFICES ASSUME DomainInv, [ApiMailNext]_apiMailVars PROVE DomainInv'
  OBVIOUS
<1>1. CASE MailNext
  <2>1. ASSUME NEW q \in MailReqs, EditTxt(q) PROVE DomainInv'
    <3>1. /\ UNCHANGED <<signatures, mailDomains, mailTask>>
          /\ txtEver \subseteq txtEver' /\ (txtRecords \subseteq txtEver => txtRecords' \subseteq txtEver')
      BY <2>1 DEF EditTxt
    <3> QED
      BY <3>1 DEF DomainInv, DomainTypes, RowInv, SeenInv, OwnInv
  <2> QED
    BY <1>1, <2>1, OthersKeep, InsertKeeps, ReadKeeps, ResolveKeeps, MarkKeeps, DeleteKeeps DEF MailNext
<1>2. CASE TunnelNext \/ UNCHANGED apiMailVars
  <2>1. UNCHANGED mailVars
    BY <1>2 DEF TunnelNext, GetTunnelConfig, AddTunnelRoute, RemoveTunnelRoute, apiMailVars
  <2> QED
    BY <2>1 DEF mailVars, DomainInv, DomainTypes, RowInv, SeenInv, OwnInv
<1> QED
  BY <1>1, <1>2 DEF ApiMailNext

\* The inductive invariant of mail domains holds in every state.
THEOREM DomainInvariant == ApiMailSpec => []DomainInv
BY DomainStart, DomainKeeps, PTL DEF ApiMailSpec

\* A verified domain has had the record with its own row's token, whatever
\* registrations, verifications and deletions interleave.
THEOREM VerifiedWasProved == ApiMailSpec => []VerifiedByOwnRecord
<1>1. DomainInv => VerifiedByOwnRecord
  BY DEF DomainInv, OwnInv, VerifiedByOwnRecord
<1> QED
  BY <1>1, DomainInvariant, PTL

(***************************************************************************)
(* Privacy records                                                         *)
(***************************************************************************)
PrivTaskType == [pc : {"none", "write", "audit", "done"}, op : Actions \cup {"none"}, id : PrivReqs \cup {0},
             vals : [RopaFields -> RopaVals \cup {"none"}]]
ConsentType == [purpose : Purposes \cup {"none"}, granted : BOOLEAN, withdrawn : BOOLEAN]

\* The events that happen once to a record.
Keys == {"erasure_completed", "consent_withdraw"} \X PrivReqs
Happened(k) ==
    IF k[1] = "erasure_completed" THEN erasures[k[2]] = "completed" ELSE consents[k[2]].withdrawn = TRUE
Pending(q, k) == privTask[q].pc = "audit" /\ <<privTask[q].op, privTask[q].id>> = k
Owed(k)       == \E q \in PrivReqs : Pending(q, k)

-----------------------------------------------------------------------------
(* The inductive invariant.                                                *)

PrivTypes ==
    /\ erasures \in [PrivReqs -> {"none", "pending", "completed"}]
    /\ consents \in [PrivReqs -> ConsentType]
    /\ ropa \in [RopaFields -> RopaVals]
    /\ privTask \in [PrivReqs -> PrivTaskType]
    /\ privAudit \in [Actions \X PrivReqs -> Nat]

\* A request that has not come has made no record.
FreeInv == \A i \in PrivReqs : Free(i) => erasures[i] = "none" /\ consents[i] = NoConsent

\* A request under way names an action, and the record it confirms exists.
Sound(t) ==
    /\ t.pc \in {"write", "audit"} => t.op \in Actions /\ t.id \in PrivReqs
    /\ t.pc = "write" /\ t.op = "ropa_update" => t.vals \in [RopaFields -> RopaVals]
StepInv == \A q \in PrivReqs :
    LET t == privTask[q] IN
    Sound(t) /\ (t.pc = "write" /\ <<t.op, t.id>> \in Keys => privTask[t.id].pc # "none")

\* What happened is owed to the audit by one request, or lost, or recorded once.
AuditInv == \A k \in Keys :
    /\ \A q, r \in PrivReqs : Pending(q, k) /\ Pending(r, k) => q = r
    /\ privAudit[k] \in {0, 1}
    /\ Owed(k) => Happened(k) /\ privAudit[k] = 0 /\ k \notin auditLost
    /\ k \in auditLost => Happened(k) /\ privAudit[k] = 0
    /\ privAudit[k] = 1 => Happened(k)
    /\ Happened(k) => Owed(k) \/ k \in auditLost \/ privAudit[k] = 1

PrivInv == PrivTypes /\ FreeInv /\ StepInv /\ AuditInv

-----------------------------------------------------------------------------
LEMMA KeyFacts ==
    ASSUME NEW k \in Keys
    PROVE  /\ k = <<k[1], k[2]>> /\ k[2] \in PrivReqs /\ k \in Actions \X PrivReqs
           /\ k[1] = "erasure_completed" \/ k[1] = "consent_withdraw"
BY DEF Keys, Actions

\* PrivGo replaces the task of one request.
LEMMA GoFacts ==
    ASSUME PrivTypes, NEW q \in PrivReqs, NEW pc \in {"write", "audit", "done"}, NEW op \in Actions \cup {"none"},
           NEW i \in PrivReqs, PrivGo(q, pc, op, i)
    PROVE  \E t \in PrivTaskType : privTask' = [privTask EXCEPT ![q] = t] /\ t.pc = pc /\ t.op = op /\ t.id = i
<1> DEFINE t == [PrivIdle EXCEPT !.pc = pc, !.op = op, !.id = i]
<1>1. t \in PrivTaskType /\ t.pc = pc /\ t.op = op /\ t.id = i
  BY DEF PrivIdle, PrivTaskType
<1>2. privTask' = [privTask EXCEPT ![q] = t]
  BY DEF PrivGo
<1> HIDE DEF t
<1> QED
  BY <1>1, <1>2

LEMMA PrivStart == PrivacyInit => PrivInv
<1> SUFFICES ASSUME PrivacyInit PROVE PrivInv
  OBVIOUS
<1>1. PrivIdle \in PrivTaskType /\ PrivIdle.pc = "none" /\ NoConsent \in ConsentType /\ NoConsent.withdrawn = FALSE
  BY DEF PrivIdle, PrivTaskType, NoConsent, ConsentType
<1>2. PrivTypes
  BY <1>1 DEF PrivacyInit, PrivTypes
<1>3. FreeInv /\ StepInv
  BY <1>1 DEF PrivacyInit, FreeInv, StepInv, Sound
<1>4. AuditInv
  <2> SUFFICES ASSUME NEW k \in Keys
               PROVE  /\ \A q \in PrivReqs : ~Pending(q, k)
                      /\ privAudit[k] = 0 /\ k \notin auditLost /\ ~Happened(k)
    BY DEF AuditInv, Owed
  <2>1. \A q \in PrivReqs : ~Pending(q, k)
    BY <1>1 DEF PrivacyInit, Pending
  <2>2. privAudit[k] = 0 /\ k \notin auditLost
    BY KeyFacts DEF PrivacyInit
  <2>3. ~Happened(k)
    BY <1>1, KeyFacts DEF PrivacyInit, Happened
  <2> QED
    BY <2>1, <2>2, <2>3
<1> QED
  BY <1>2, <1>3, <1>4 DEF PrivInv

\* A step of q that is no audit and leaves none behind that happens once.
LEMMA QuietStep ==
    ASSUME PrivInv, NEW q \in PrivReqs, NEW t \in PrivTaskType,
           privTask[q].pc # "audit", t.pc # "none",
           Sound(t), t.pc = "write" /\ <<t.op, t.id>> \in Keys => privTask[t.id].pc # "none",
           t.pc = "audit" => <<t.op, t.id>> \notin Keys,
           privTask' = [privTask EXCEPT ![q] = t],
           UNCHANGED <<privAudit, auditLost>>, PrivTypes',
           \A i \in PrivReqs : i # q => erasures'[i] = erasures[i] /\ consents'[i] = consents[i],
           \A k \in Keys : Happened(k)' <=> Happened(k)
    PROVE  PrivInv'
<1>0. PrivTypes /\ FreeInv /\ StepInv /\ AuditInv
  BY DEF PrivInv
<1>1. privTask'[q] = t /\ \A p \in PrivReqs : p # q => privTask'[p] = privTask[p]
  BY <1>0 DEF PrivTypes
<1>2. \A i \in PrivReqs : Free(i)' => Free(i) /\ i # q
  BY <1>1 DEF Free
<1>3. FreeInv'
  BY <1>0, <1>2 DEF FreeInv
<1>4. StepInv'
  <2> SUFFICES ASSUME NEW p \in PrivReqs
               PROVE  LET u == privTask'[p] IN
                      /\ Sound(u)
                      /\ u.pc = "write" /\ <<u.op, u.id>> \in Keys => privTask'[u.id].pc # "none"
    BY DEF StepInv, Sound
  <2>1. \A i \in PrivReqs : privTask[i].pc # "none" => privTask'[i].pc # "none"
    BY <1>2 DEF Free
  <2>2. \A op, i : <<op, i>> \in Keys => i \in PrivReqs
    BY DEF Keys
  <2>3. CASE p = q
    BY <1>1, <2>1, <2>2, <2>3
  <2>4. CASE p # q
    BY <1>0, <1>1, <2>1, <2>2, <2>4 DEF StepInv
  <2> QED
    BY <2>3, <2>4
<1>5. AuditInv'
  <2>1. ASSUME NEW k \in Keys, NEW p \in PrivReqs PROVE Pending(p, k)' <=> Pending(p, k)
    BY <1>1, <2>1 DEF Pending
  <2>2. \A k \in Keys : Owed(k)' <=> Owed(k)
    BY <2>1 DEF Owed
  <2> QED
    BY <1>0, <2>1, <2>2 DEF AuditInv
<1> QED
  BY <1>3, <1>4, <1>5 DEF PrivInv

\* The steps that confirm nothing.
LEMMA OtherSteps ==
    ASSUME PrivInv, NEW q \in PrivReqs,
           \/ CreateErasure(q) \/ DraftNotification(q) \/ CreateBreach(q) \/ NotifyRegulator(q)
           \/ ResolveBreach(q) \/ UpdateRopa(q) \/ ResidencyReport(q)
           \/ \E i \in PrivReqs : \/ ReadErasure(q, i) \/ ReadConsent(q, i)
                                  \/ \E op \in {"breach_notified", "breach_resolved"} : ReadBreach(q, i, op)
           \/ \E p \in Purposes, granted \in BOOLEAN : RecordConsent(q, p, granted)
           \/ \E j \in Jurisdictions, v \in {1} : SignDpa(q, j, v)
           \/ \E f \in RopaFields, v \in RopaVals : ReadRopa(q, f, v)
    PROVE  PrivInv'
<1>0. PrivTypes /\ FreeInv /\ StepInv
  BY DEF PrivInv
<1> DEFINE Same == erasures' = erasures /\ consents' = consents /\ privAudit' = privAudit /\ auditLost' = auditLost
<1>1. ASSUME Same, ropa' \in [RopaFields -> RopaVals], privTask[q].pc # "audit",
             NEW pc \in {"write", "audit", "done"}, NEW op \in Actions \cup {"none"}, NEW i \in PrivReqs,
             PrivGo(q, pc, op, i), pc = "done" \/ op \in Actions,
             ~(pc = "write" /\ op = "ropa_update"),
             \/ op \notin {"erasure_completed", "consent_withdraw"}
             \/ pc = "write" /\ ~Free(i)
      PROVE  PrivInv'
  <2>1. PICK t \in PrivTaskType : privTask' = [privTask EXCEPT ![q] = t] /\ t.pc = pc /\ t.op = op /\ t.id = i
    BY <1>0, <1>1, GoFacts
  <2>2. PrivTypes'
    BY <1>0, <1>1, <2>1 DEF PrivTypes
  <2>3. \A k \in Keys : Happened(k)' <=> Happened(k)
    BY <1>1 DEF Happened
  <2>4. op \notin {"erasure_completed", "consent_withdraw"} => <<t.op, t.id>> \notin Keys
    BY <2>1 DEF Keys
  <2>5. /\ Sound(t)
        /\ t.pc = "write" /\ <<t.op, t.id>> \in Keys => privTask[t.id].pc # "none"
        /\ t.pc = "audit" => <<t.op, t.id>> \notin Keys
        /\ t.pc # "none"
    BY <1>1, <2>1, <2>4 DEF Sound, Free
  <2> QED
    BY <1>1, <2>1, <2>2, <2>3, <2>5, QuietStep
<1> HIDE DEF Same
<1>2. CASE DraftNotification(q) \/ CreateBreach(q) \/ NotifyRegulator(q) \/ ResolveBreach(q)
  <2>1. CASE DraftNotification(q)
    BY <1>0, <1>1, <2>1 DEF DraftNotification, Free, Actions, PrivTypes, Same
  <2>2. CASE CreateBreach(q)
    BY <1>0, <1>1, <2>2 DEF CreateBreach, ThenAudit, PrivAt, Actions, PrivTypes, Same
  <2>3. ASSUME NotifyRegulator(q) \/ ResolveBreach(q) PROVE privTask[q].id \in PrivReqs
    BY <1>0, <2>3 DEF NotifyRegulator, ResolveBreach, PrivAt, StepInv, Sound
  <2>4. CASE NotifyRegulator(q)
    BY <1>0, <1>1, <2>3, <2>4 DEF NotifyRegulator, ThenAudit, PrivAt, Actions, PrivTypes, Same
  <2>5. CASE ResolveBreach(q)
    BY <1>0, <1>1, <2>3, <2>5 DEF ResolveBreach, ThenAudit, PrivAt, Actions, PrivTypes, Same
  <2> QED
    BY <1>2, <2>1, <2>2, <2>4, <2>5
<1>3. CASE UpdateRopa(q)
  <2>1. ropa' \in [RopaFields -> RopaVals]
    BY <1>0, <1>3 DEF UpdateRopa, PrivAt, StepInv, Sound
  <2> QED
    BY <1>1, <1>3, <2>1 DEF UpdateRopa, ThenAudit, PrivAt, Actions, Same
<1>4. CASE ResidencyReport(q)
  BY <1>0, <1>1, <1>4 DEF ResidencyReport, Free, PrivTypes, Same
<1>5. ASSUME NEW j \in Jurisdictions, NEW v \in {1}, SignDpa(q, j, v) PROVE PrivInv'
  BY <1>0, <1>1, <1>5 DEF SignDpa, ThenAudit, Free, Actions, PrivTypes, Same
<1>6. ASSUME NEW i \in PrivReqs, ReadErasure(q, i) PROVE PrivInv'
  <2>1. ~Free(i)
    BY <1>0, <1>6 DEF ReadErasure, FreeInv
  <2> QED
    BY <1>0, <1>1, <1>6, <2>1 DEF ReadErasure, Free, Actions, PrivTypes, Same
<1>7. ASSUME NEW i \in PrivReqs, ReadConsent(q, i) PROVE PrivInv'
  <2>1. ~Free(i)
    BY <1>0, <1>7 DEF ReadConsent, FreeInv
  <2> QED
    BY <1>0, <1>1, <1>7, <2>1 DEF ReadConsent, Free, Actions, PrivTypes, Same
<1>8. ASSUME NEW i \in PrivReqs, NEW op \in {"breach_notified", "breach_resolved"}, ReadBreach(q, i, op)
      PROVE  PrivInv'
  BY <1>0, <1>1, <1>8 DEF ReadBreach, Free, Actions, PrivTypes, Same
<1>9. ASSUME NEW f \in RopaFields, NEW v \in RopaVals, ReadRopa(q, f, v) PROVE PrivInv'
  <2> DEFINE t == [pc |-> "write", op |-> "ropa_update", id |-> q, vals |-> [ropa EXCEPT ![f] = v]]
  <2>1. [ropa EXCEPT ![f] = v] \in [RopaFields -> RopaVals]
    BY <1>0 DEF PrivTypes
  <2>2. t \in PrivTaskType /\ Sound(t) /\ t.pc = "write" /\ t.op = "ropa_update" /\ <<t.op, t.id>> \notin Keys
    BY <2>1 DEF PrivTaskType, Actions, Sound, Keys
  <2>3. /\ privTask[q].pc # "audit" /\ privTask' = [privTask EXCEPT ![q] = t]
        /\ UNCHANGED <<erasures, consents, ropa, privAudit, auditLost>>
    BY <1>9 DEF ReadRopa, Free
  <2> HIDE DEF t
  <2>4. PrivTypes'
    BY <1>0, <2>2, <2>3 DEF PrivTypes
  <2>5. \A k \in Keys : Happened(k)' <=> Happened(k)
    BY <2>3 DEF Happened
  <2> QED
    BY <2>2, <2>3, <2>4, <2>5, QuietStep
<1>10. ASSUME privTask[q].pc = "none", ropa' = ropa, privAudit' = privAudit, auditLost' = auditLost,
              NEW op \in Actions \ {"erasure_completed", "consent_withdraw"}, PrivGo(q, "audit", op, q),
              erasures' \in [PrivReqs -> {"none", "pending", "completed"}], consents' \in [PrivReqs -> ConsentType],
              erasures'[q] # "completed", consents'[q].withdrawn = FALSE,
              \A i \in PrivReqs : i # q => erasures'[i] = erasures[i] /\ consents'[i] = consents[i]
       PROVE  PrivInv'
  <2>1. PICK t \in PrivTaskType : privTask' = [privTask EXCEPT ![q] = t] /\ t.pc = "audit" /\ t.op = op /\ t.id = q
    BY <1>0, <1>10, GoFacts
  <2>2. PrivTypes'
    BY <1>0, <1>10, <2>1 DEF PrivTypes
  <2>3. erasures[q] = "none" /\ consents[q].withdrawn = FALSE
    BY <1>0, <1>10 DEF FreeInv, Free, NoConsent
  <2>4. ASSUME NEW k \in Keys PROVE Happened(k)' <=> Happened(k)
    BY <1>10, <2>3, KeyFacts DEF Happened
  <2>5. Sound(t) /\ <<t.op, t.id>> \notin Keys
    BY <2>1 DEF Sound, Keys
  <2> QED
    BY <1>10, <2>1, <2>2, <2>4, <2>5, QuietStep
<1>11. CASE CreateErasure(q)
  <2>1. consents[q].withdrawn = FALSE
    BY <1>0, <1>11 DEF CreateErasure, FreeInv, NoConsent
  <2> QED
    BY <1>0, <1>10, <1>11, <2>1 DEF CreateErasure, ThenAudit, Free, Actions, PrivTypes
<1>12. ASSUME NEW p \in Purposes, NEW granted \in BOOLEAN, RecordConsent(q, p, granted) PROVE PrivInv'
  <2> DEFINE c == [purpose |-> p, granted |-> granted, withdrawn |-> FALSE]
  <2>1. c \in ConsentType /\ c.withdrawn = FALSE
    BY DEF ConsentType
  <2>2. erasures[q] # "completed"
    BY <1>0, <1>12 DEF RecordConsent, FreeInv
  <2>3. consents' = [consents EXCEPT ![q] = c]
    BY <1>12 DEF RecordConsent
  <2> HIDE DEF c
  <2>4. /\ consents' \in [PrivReqs -> ConsentType] /\ consents'[q].withdrawn = FALSE
        /\ \A i \in PrivReqs : i # q => consents'[i] = consents[i]
    BY <1>0, <2>1, <2>3 DEF PrivTypes
  <2> QED
    BY <1>0, <1>10, <1>12, <2>2, <2>4 DEF RecordConsent, ThenAudit, Free, Actions, PrivTypes
<1> QED
  BY <1>2, <1>3, <1>4, <1>5, <1>6, <1>7, <1>8, <1>9, <1>11, <1>12

\* An event that has happened once: the update that matched is the only one,
\* since the record was not in that state before.
LEMMA HappensStep ==
    ASSUME PrivInv, NEW q \in PrivReqs, NEW h \in Keys, ~Happened(h), privTask[q].pc = "write",
           PrivGo(q, "audit", h[1], h[2]), Happened(h)',
           \A k \in Keys : k # h => (Happened(k)' <=> Happened(k)),
           erasures' \in [PrivReqs -> {"none", "pending", "completed"}], consents' \in [PrivReqs -> ConsentType],
           privTask[h[2]].pc # "none",
           \A i \in PrivReqs : i # h[2] => erasures'[i] = erasures[i] /\ consents'[i] = consents[i],
           UNCHANGED <<ropa, privAudit, auditLost>>
    PROVE  PrivInv'
<1>0. PrivTypes /\ FreeInv /\ StepInv /\ AuditInv
  BY DEF PrivInv
<1>1. h = <<h[1], h[2]>> /\ h[2] \in PrivReqs /\ h[1] \in Actions
  BY KeyFacts DEF Actions
<1>2. PICK t \in PrivTaskType : privTask' = [privTask EXCEPT ![q] = t] /\ t.pc = "audit" /\ t.op = h[1] /\ t.id = h[2]
  BY <1>0, <1>1, GoFacts
<1>3. privTask'[q] = t /\ \A p \in PrivReqs : p # q => privTask'[p] = privTask[p]
  BY <1>0, <1>2 DEF PrivTypes
<1>4. PrivTypes'
  BY <1>0, <1>2 DEF PrivTypes
<1>5. FreeInv'
  BY <1>0, <1>2, <1>3 DEF FreeInv, Free
<1>6. StepInv'
  <2> SUFFICES ASSUME NEW p \in PrivReqs
               PROVE  LET u == privTask'[p] IN
                      /\ Sound(u)
                      /\ u.pc = "write" /\ <<u.op, u.id>> \in Keys => privTask'[u.id].pc # "none"
    BY DEF StepInv, Sound
  <2>1. \A i \in PrivReqs : privTask[i].pc # "none" => privTask'[i].pc # "none"
    BY <1>2, <1>3
  <2>2. \A op, i : <<op, i>> \in Keys => i \in PrivReqs
    BY DEF Keys
  <2>3. CASE p = q
    BY <1>1, <1>2, <1>3, <2>3 DEF Sound
  <2>4. CASE p # q
    BY <1>0, <1>3, <2>1, <2>2, <2>4 DEF StepInv
  <2> QED
    BY <2>3, <2>4
<1>7. AuditInv'
  <2>1. \A p \in PrivReqs : Pending(p, h)' => p = q
    <3>1. ~Owed(h)
      BY <1>0 DEF AuditInv
    <3> QED
      BY <1>3, <3>1 DEF Owed, Pending
  <2>2. Pending(q, h)'
    BY <1>1, <1>2, <1>3 DEF Pending
  <2>3. privAudit[h] = 0 /\ h \notin auditLost
    BY <1>0 DEF AuditInv
  <2>4. ASSUME NEW k \in Keys, k # h, NEW p \in PrivReqs PROVE Pending(p, k)' <=> Pending(p, k)
    BY <1>1, <1>2, <1>3, <2>4 DEF Pending
  <2>5. \A k \in Keys : k # h => (Owed(k)' <=> Owed(k))
    BY <2>4 DEF Owed
  <2>6. Owed(h)'
    BY <2>2 DEF Owed
  <2> SUFFICES ASSUME NEW k \in Keys
               PROVE  /\ \A p, r \in PrivReqs : Pending(p, k)' /\ Pending(r, k)' => p = r
                      /\ privAudit[k] \in {0, 1}
                      /\ Owed(k)' => Happened(k)' /\ privAudit[k] = 0 /\ k \notin auditLost
                      /\ k \in auditLost => Happened(k)' /\ privAudit[k] = 0
                      /\ privAudit[k] = 1 => Happened(k)'
                      /\ Happened(k)' => Owed(k)' \/ k \in auditLost \/ privAudit[k] = 1
    BY DEF AuditInv
  <2>7. CASE k = h
    BY <2>1, <2>3, <2>6, <2>7
  <2>8. CASE k # h
    BY <1>0, <2>4, <2>5, <2>8 DEF AuditInv
  <2> QED
    BY <2>7, <2>8
<1> QED
  BY <1>4, <1>5, <1>6, <1>7 DEF PrivInv

\* An update that matches nothing ends the request.
LEMMA NothingToDo ==
    ASSUME PrivInv, NEW q \in PrivReqs, privTask[q].pc = "write", NEW op \in Actions,
           NEW i \in PrivReqs, PrivGo(q, "done", op, i),
           UNCHANGED <<erasures, consents, ropa, privAudit, auditLost>>
    PROVE  PrivInv'
<1>0. PrivTypes
  BY DEF PrivInv
<1>1. PICK t \in PrivTaskType : privTask' = [privTask EXCEPT ![q] = t] /\ t.pc = "done"
  BY <1>0, GoFacts
<1>2. PrivTypes'
  BY <1>0, <1>1 DEF PrivTypes
<1>3. \A k \in Keys : Happened(k)' <=> Happened(k)
  BY DEF Happened
<1> QED
  BY <1>1, <1>2, <1>3, QuietStep DEF Sound

LEMMA CompleteKeeps ==
    ASSUME PrivInv, NEW q \in PrivReqs, CompleteErasure(q)
    PROVE  PrivInv'
<1>0. PrivTypes /\ StepInv
  BY DEF PrivInv
<1>1. privTask[q].pc = "write" /\ privTask[q].op = "erasure_completed"
  BY DEF CompleteErasure, PrivAt
<1>2. PICK i \in PrivReqs : i = privTask[q].id
  BY <1>0, <1>1 DEF StepInv, Sound
<1> DEFINE h == <<"erasure_completed", i>>
<1>3. h \in Keys /\ privTask[i].pc # "none"
  <2>1. h \in Keys
    BY DEF Keys
  <2> QED
    BY <1>0, <1>1, <1>2, <2>1 DEF StepInv
<1>4. CASE erasures[i] # "completed"
  <2>1. /\ erasures' = [erasures EXCEPT ![i] = "completed"] /\ PrivGo(q, "audit", h[1], h[2])
        /\ UNCHANGED <<consents, ropa, privAudit, auditLost>>
    BY <1>4, <1>2 DEF CompleteErasure, ThenAudit
  <2>2. /\ erasures' \in [PrivReqs -> {"none", "pending", "completed"}] /\ erasures'[i] = "completed"
        /\ \A j \in PrivReqs : j # i => erasures'[j] = erasures[j]
    BY <1>0, <1>3, <2>1 DEF PrivTypes
  <2>3. ~Happened(h) /\ Happened(h)'
    BY <1>4, <2>2 DEF Happened
  <2>4. ASSUME NEW k \in Keys, k # h PROVE Happened(k)' <=> Happened(k)
    BY <2>1, <2>2, <2>4, KeyFacts DEF Happened
  <2>5. consents' \in [PrivReqs -> ConsentType] /\ h[2] = i
    BY <1>0, <2>1 DEF PrivTypes
  <2> HIDE DEF h
  <2> QED
    BY <1>1, <1>3, <2>1, <2>2, <2>3, <2>4, <2>5, HappensStep
<1>5. CASE erasures[i] = "completed"
  <2>1. /\ PrivGo(q, "done", "erasure_completed", i)
        /\ UNCHANGED <<erasures, consents, ropa, privAudit, auditLost>>
    BY <1>5, <1>2 DEF CompleteErasure, ThenEnds
  <2> QED
    BY <1>1, <1>3, <2>1, NothingToDo DEF Actions
<1> QED
  BY <1>4, <1>5

LEMMA WithdrawKeeps ==
    ASSUME PrivInv, NEW q \in PrivReqs, WithdrawConsent(q)
    PROVE  PrivInv'
<1>0. PrivTypes /\ StepInv
  BY DEF PrivInv
<1>1. privTask[q].pc = "write" /\ privTask[q].op = "consent_withdraw"
  BY DEF WithdrawConsent, PrivAt
<1>2. PICK i \in PrivReqs : i = privTask[q].id
  BY <1>0, <1>1 DEF StepInv, Sound
<1> DEFINE h == <<"consent_withdraw", i>>
           c == [consents[i] EXCEPT !.granted = FALSE, !.withdrawn = TRUE]
<1>3. h \in Keys /\ privTask[i].pc # "none"
  <2>1. h \in Keys
    BY DEF Keys
  <2> QED
    BY <1>0, <1>1, <1>2, <2>1 DEF StepInv
<1>4. CASE ~consents[i].withdrawn
  <2>1. /\ consents' = [consents EXCEPT ![i].granted = FALSE, ![i].withdrawn = TRUE]
        /\ PrivGo(q, "audit", h[1], h[2]) /\ UNCHANGED <<erasures, ropa, privAudit, auditLost>>
    BY <1>4, <1>2 DEF WithdrawConsent, ThenAudit
  <2>2. consents[i] \in ConsentType
    BY <1>0, <1>3 DEF PrivTypes
  <2>3. c \in ConsentType /\ c.withdrawn = TRUE
    BY <2>2 DEF ConsentType
  <2>4. consents' = [consents EXCEPT ![i] = c]
    BY <1>0, <1>3, <2>1 DEF PrivTypes
  <2> HIDE DEF c
  <2>5. /\ consents' \in [PrivReqs -> ConsentType] /\ consents'[i].withdrawn = TRUE
        /\ \A j \in PrivReqs : j # i => consents'[j] = consents[j]
    BY <1>0, <1>3, <2>3, <2>4 DEF PrivTypes
  <2>6. ~Happened(h) /\ Happened(h)'
    BY <1>4, <2>5 DEF Happened
  <2>7. ASSUME NEW k \in Keys, k # h PROVE Happened(k)' <=> Happened(k)
    BY <2>1, <2>5, <2>7, KeyFacts DEF Happened
  <2>8. erasures' \in [PrivReqs -> {"none", "pending", "completed"}] /\ h[2] = i
    BY <1>0, <2>1 DEF PrivTypes
  <2> HIDE DEF h
  <2> QED
    BY <1>1, <1>3, <2>1, <2>5, <2>6, <2>7, <2>8, HappensStep
<1>5. CASE consents[i].withdrawn
  <2>1. /\ PrivGo(q, "done", "consent_withdraw", i)
        /\ UNCHANGED <<erasures, consents, ropa, privAudit, auditLost>>
    BY <1>5, <1>2 DEF WithdrawConsent, ThenEnds
  <2> QED
    BY <1>1, <1>3, <2>1, NothingToDo DEF Actions
<1> QED
  BY <1>4, <1>5

\* The one request that owes an event records it or loses it.
LEMMA AuditKeeps ==
    ASSUME PrivInv, NEW q \in PrivReqs, WriteAuditEvent(q) \/ AuditNeverComes(q)
    PROVE  PrivInv'
<1> DEFINE h == <<privTask[q].op, privTask[q].id>>
<1>0. PrivTypes /\ FreeInv /\ StepInv /\ AuditInv
  BY DEF PrivInv
<1>1. /\ privTask[q].pc = "audit" /\ PrivGo(q, "done", privTask[q].op, privTask[q].id)
      /\ UNCHANGED <<erasures, consents, ropa>>
      /\ \/ privAudit' = [privAudit EXCEPT ![h] = privAudit[h] + 1] /\ auditLost' = auditLost
         \/ privAudit' = privAudit /\ auditLost' = auditLost \cup {h}
  BY DEF WriteAuditEvent, AuditNeverComes
<1>2. privTask[q].op \in Actions /\ privTask[q].id \in PrivReqs /\ h \in Actions \X PrivReqs
  BY <1>0, <1>1 DEF StepInv, Sound
<1>3. PICK t \in PrivTaskType : privTask' = [privTask EXCEPT ![q] = t] /\ t.pc = "done"
  BY <1>0, <1>1, <1>2, GoFacts
<1>4. privTask'[q] = t /\ \A p \in PrivReqs : p # q => privTask'[p] = privTask[p]
  BY <1>0, <1>3 DEF PrivTypes
<1>5. Pending(q, h) /\ \A k : Pending(q, k) => k = h
  BY <1>1 DEF Pending
<1> HIDE DEF h
<1>6. PrivTypes'
  BY <1>0, <1>1, <1>2, <1>3 DEF PrivTypes
<1>7. FreeInv'
  BY <1>0, <1>1, <1>3, <1>4 DEF FreeInv, Free
<1>8. StepInv'
  <2> SUFFICES ASSUME NEW p \in PrivReqs
               PROVE  LET u == privTask'[p] IN
                      /\ Sound(u)
                      /\ u.pc = "write" /\ <<u.op, u.id>> \in Keys => privTask'[u.id].pc # "none"
    BY DEF StepInv, Sound
  <2>1. \A i \in PrivReqs : privTask[i].pc # "none" => privTask'[i].pc # "none"
    BY <1>3, <1>4
  <2>2. \A op, i : <<op, i>> \in Keys => i \in PrivReqs
    BY DEF Keys
  <2>3. CASE p = q
    BY <1>3, <1>4, <2>3 DEF Sound
  <2>4. CASE p # q
    BY <1>0, <1>4, <2>1, <2>2, <2>4 DEF StepInv
  <2> QED
    BY <2>3, <2>4
<1>9. AuditInv'
  <2>1. \A k : ~Pending(q, k)'
    BY <1>3, <1>4 DEF Pending
  <2>2. ASSUME NEW k \in Keys, NEW p \in PrivReqs, p # q PROVE Pending(p, k)' <=> Pending(p, k)
    BY <1>4, <2>2 DEF Pending
  <2>3. \A k \in Keys : Happened(k)' <=> Happened(k)
    BY <1>1 DEF Happened
  <2> SUFFICES ASSUME NEW k \in Keys
               PROVE  /\ \A p, r \in PrivReqs : Pending(p, k)' /\ Pending(r, k)' => p = r
                      /\ privAudit'[k] \in {0, 1}
                      /\ Owed(k)' => Happened(k) /\ privAudit'[k] = 0 /\ k \notin auditLost'
                      /\ k \in auditLost' => Happened(k) /\ privAudit'[k] = 0
                      /\ privAudit'[k] = 1 => Happened(k)
                      /\ Happened(k) => Owed(k)' \/ k \in auditLost' \/ privAudit'[k] = 1
    BY <2>3 DEF AuditInv
  <2>4. \A p, r \in PrivReqs : Pending(p, k)' /\ Pending(r, k)' => p = r
    BY <1>0, <2>1, <2>2 DEF AuditInv
  <2>5. CASE k = h
    <3>1. Happened(k) /\ privAudit[k] = 0 /\ k \notin auditLost
      BY <1>0, <1>5, <2>5 DEF AuditInv, Owed
    <3>2. ~Owed(k)'
      BY <1>0, <1>5, <2>1, <2>2, <2>5 DEF AuditInv, Owed
    <3>3. \/ privAudit'[k] = 1 /\ auditLost' = auditLost
          \/ privAudit'[k] = 0 /\ k \in auditLost'
      BY <1>0, <1>1, <1>2, <2>5, <3>1 DEF PrivTypes
    <3> QED
      BY <2>4, <3>1, <3>2, <3>3
  <2>6. CASE k # h
    <3>1. privAudit'[k] = privAudit[k] /\ (k \in auditLost' <=> k \in auditLost)
      BY <1>0, <1>1, <1>2, <2>6, KeyFacts DEF PrivTypes
    <3>2. Owed(k)' <=> Owed(k)
      BY <1>5, <2>1, <2>2, <2>6 DEF Owed
    <3> QED
      BY <1>0, <2>4, <3>1, <3>2 DEF AuditInv
  <2> QED
    BY <2>5, <2>6
<1> QED
  BY <1>6, <1>7, <1>8, <1>9 DEF PrivInv

LEMMA PrivKeeps == PrivInv /\ [PrivacyNext]_privVars => PrivInv'
<1> SUFFICES ASSUME PrivInv, [PrivacyNext]_privVars PROVE PrivInv'
  OBVIOUS
<1>1. CASE PrivacyNext
  BY <1>1, OtherSteps, CompleteKeeps, WithdrawKeeps, AuditKeeps DEF PrivacyNext
<1>2. CASE UNCHANGED privVars
  BY <1>2 DEF privVars, PrivInv, PrivTypes, FreeInv, Free, StepInv, AuditInv, Owed, Pending, Happened
<1> QED
  BY <1>1, <1>2

\* The inductive invariant of the privacy records holds in every state.
THEOREM PrivacyInvariant == PrivacySpec => []PrivInv
BY PrivStart, PrivKeeps, PTL DEF PrivacySpec

\* A completed erasure and a withdrawn consent are recorded exactly once,
\* however many operators confirm them at the same time, unless the audit is
\* still to come or was lost.
THEOREM ConfirmationsAreRecordedOnce == PrivacySpec => []ConfirmedOnceInAudit
<1>1. PrivInv => ConfirmedOnceInAudit
  <2> SUFFICES ASSUME PrivInv, NEW i \in PrivReqs
               PROVE  /\ Recorded("erasure_completed", i, erasures[i] = "completed")
                      /\ Recorded("consent_withdraw", i, consents[i].withdrawn)
    BY DEF ConfirmedOnceInAudit
  <2>0. PrivTypes /\ AuditInv
    BY DEF PrivInv
  <2>1. ASSUME NEW op \in {"erasure_completed", "consent_withdraw"}
        PROVE  /\ <<op, i>> \in Keys
               /\ AuditPending(op, i) <=> Owed(<<op, i>>)
    BY DEF Keys, AuditPending, Owed, Pending, PrivAt
  <2>2. ASSUME NEW op \in {"erasure_completed", "consent_withdraw"}
        PROVE  Recorded(op, i, Happened(<<op, i>>))
    BY <2>0, <2>1 DEF AuditInv, Recorded
  <2>3. Happened(<<"erasure_completed", i>>) <=> erasures[i] = "completed"
    BY DEF Happened
  <2>4. Happened(<<"consent_withdraw", i>>) <=> consents[i].withdrawn
    <3>1. consents[i].withdrawn \in BOOLEAN
      BY <2>0 DEF PrivTypes, ConsentType
    <3> QED
      BY <3>1 DEF Happened
  <2>5. Recorded("erasure_completed", i, erasures[i] = "completed")
    BY <2>2, <2>3 DEF Recorded
  <2>6. Recorded("consent_withdraw", i, consents[i].withdrawn)
    BY <2>2, <2>4 DEF Recorded
  <2> QED
    BY <2>5, <2>6
<1> QED
  BY <1>1, PrivacyInvariant, PTL
(***************************************************************************)
(* Projects, their environments and their flags                            *)
(***************************************************************************)
PrjPcs == {"none", "insert", "envs", "rename", "flag", "log", "done"}
FlagAll == FlagVals \cup {FlagZero, "none"}
PrjTaskType == [pc : PrjPcs, prj : PrjReqs \cup {0}, slug : Slugs \cup FlagAll, old : FlagAll, todo : SUBSET EnvNames]
PrjStep == ProjectNext \/ FlagNext \/ HookNext \/ InstanceNext

PrjTypes ==
    /\ prjTask \in [PrjReqs -> PrjTaskType] /\ prjSlug \in [PrjReqs -> Slugs \cup {"none"}]
    /\ prjEnvs \in [PrjReqs -> SUBSET EnvNames] /\ prjCreated \subseteq PrjReqs
    /\ flagRow \in [PrjReqs -> FlagAll] /\ flagLog \in [PrjReqs -> SUBSET (FlagAll \X FlagAll)]
    /\ flagLoose \in [PrjReqs -> SUBSET FlagAll]

\* What a request knows: a project is made by its own request and by no other,
\* which then has its default environments to add; production is one of them
\* until it is there.
PrjKnows(q) ==
    /\ PrjAt(q, "none") \/ PrjAt(q, "insert") => ~Exists(q) /\ q \notin prjCreated
    /\ PrjAt(q, "insert") => prjTask[q].prj = q /\ prjTask[q].todo = DefaultEnvs
    /\ PrjAt(q, "insert") \/ PrjAt(q, "rename") => prjTask[q].slug \in Slugs
    /\ PrjAt(q, "flag") \/ PrjAt(q, "log") => prjTask[q].slug \in FlagAll
    /\ PrjAt(q, "envs") /\ prjTask[q].slug # "none" =>
          /\ prjTask[q].prj = q
          /\ Exists(q) => "production" \in prjTask[q].todo \cup prjEnvs[q]
PrjInv == PrjTypes /\ (\A q \in PrjReqs : PrjKnows(q)) /\ CreatedHaveProduction /\ FlagsAreRecorded

\* A step of one request.
PrjAlone(q) == \A r \in PrjReqs \ {q} : prjTask'[r] = prjTask[r]

LEMMA PrjEnds ==
    ASSUME prjTask \in [PrjReqs -> PrjTaskType], NEW q \in PrjReqs, NEW pc \in PrjPcs, PrjGo(q, pc)
    PROVE  /\ prjTask' \in [PrjReqs -> PrjTaskType] /\ PrjAlone(q) /\ PrjAt(q, pc)'
           /\ prjTask'[q].prj = prjTask[q].prj /\ prjTask'[q].slug = prjTask[q].slug
           /\ prjTask'[q].todo = prjTask[q].todo
BY DEF PrjGo, PrjTaskType, PrjAlone, PrjAt

LEMMA PrjBegins ==
    ASSUME prjTask \in [PrjReqs -> PrjTaskType], NEW q \in PrjReqs, NEW t \in PrjTaskType,
           prjTask' = [prjTask EXCEPT ![q] = t]
    PROVE  prjTask' \in [PrjReqs -> PrjTaskType] /\ PrjAlone(q) /\ prjTask'[q] = t
BY DEF PrjAlone

\* The task of a request that starts, field by field.
PrjTaskOf(pc, p, s, o, d) == [pc |-> pc, prj |-> p, slug |-> s, old |-> o, todo |-> d]
LEMMA PrjIdleOf == PrjIdle = PrjTaskOf("none", 0, "none", "none", {})
BY DEF PrjIdle, PrjTaskOf
LEMMA PrjFields ==
    \A pc, p, s, o, d, x :
      /\ [PrjTaskOf(pc, p, s, o, d) EXCEPT !.pc = x] = PrjTaskOf(x, p, s, o, d)
      /\ [PrjTaskOf(pc, p, s, o, d) EXCEPT !.prj = x] = PrjTaskOf(pc, x, s, o, d)
      /\ [PrjTaskOf(pc, p, s, o, d) EXCEPT !.slug = x] = PrjTaskOf(pc, p, x, o, d)
      /\ [PrjTaskOf(pc, p, s, o, d) EXCEPT !.old = x] = PrjTaskOf(pc, p, s, x, d)
      /\ [PrjTaskOf(pc, p, s, o, d) EXCEPT !.todo = x] = PrjTaskOf(pc, p, s, o, x)
BY DEF PrjTaskOf

LEMMA PrjInitHolds == ProjectsInit => PrjInv
<1> SUFFICES ASSUME ProjectsInit
             PROVE  PrjInv
  OBVIOUS
<1>1. PrjIdle \in PrjTaskType
  BY DEF PrjIdle, PrjTaskType, PrjPcs, FlagAll
<1>2. PrjTypes
  BY <1>1 DEF ProjectsInit, PrjTypes, FlagAll
<1>3. \A q \in PrjReqs : PrjAt(q, "none") /\ ~Exists(q) /\ flagRow[q] = "none"
  BY DEF ProjectsInit, PrjIdle, PrjAt, Exists
<1>4. prjCreated = {}
  BY DEF ProjectsInit
<1>5. \A q \in PrjReqs : PrjKnows(q)
  BY <1>3, <1>4 DEF PrjKnows, PrjAt
<1>6. CreatedHaveProduction /\ FlagsAreRecorded
  BY <1>3, <1>4 DEF CreatedHaveProduction, FlagsAreRecorded
<1> QED BY <1>2, <1>5, <1>6 DEF PrjInv

\* Steps of a request that leave the flags alone keep what is known of them,
\* unless the request was about to record one.
LEMMA FlagsStay ==
    ASSUME FlagsAreRecorded, NEW q \in PrjReqs, PrjAlone(q), ~PrjAt(q, "log"), UNCHANGED flagVars
    PROVE  FlagsAreRecorded'
<1>1. \A r \in PrjReqs : PrjAt(r, "log") => r # q /\ PrjAt(r, "log")' /\ prjTask'[r] = prjTask[r]
  BY DEF PrjAlone, PrjAt
<1> QED BY <1>1 DEF FlagsAreRecorded, flagVars

\* Steps that leave the projects alone, by a request that does not begin or end
\* the creation of one.
LEMMA ProjectsStay ==
    ASSUME PrjTypes, \A r \in PrjReqs : PrjKnows(r), CreatedHaveProduction,
           NEW q \in PrjReqs, PrjAlone(q), UNCHANGED <<prjSlug, prjEnvs, prjCreated>>,
           prjTask'[q].pc \in {"flag", "log", "done"},
           prjTask'[q].pc \in {"flag", "log"} => prjTask'[q].slug \in FlagAll
    PROVE  (\A r \in PrjReqs : PrjKnows(r)') /\ CreatedHaveProduction'
<1>1. CreatedHaveProduction'
  BY DEF CreatedHaveProduction, Exists
<1>2. ASSUME NEW r \in PrjReqs
      PROVE  PrjKnows(r)'
  <2>1. CASE r = q
    BY <2>1 DEF PrjKnows, PrjAt
  <2>2. CASE r # q
    <3>1. PrjKnows(r) /\ prjTask'[r] = prjTask[r]
      BY <2>2 DEF PrjAlone
    <3> QED BY <3>1 DEF PrjKnows, PrjAt, Exists
  <2> QED BY <2>1, <2>2
<1> QED BY <1>1, <1>2

-----------------------------------------------------------------------------
LEMMA CreateProjectKeeps ==
    ASSUME PrjInv, NEW q \in PrjReqs, NEW s \in Slugs, CreateProject(q, s)
    PROVE  PrjInv'
<1>0. PrjTypes /\ (\A r \in PrjReqs : PrjKnows(r)) /\ CreatedHaveProduction /\ FlagsAreRecorded
  BY DEF PrjInv
<1> DEFINE t == [pc |-> "insert", prj |-> q, slug |-> s, old |-> "none", todo |-> DefaultEnvs]
<1>1. t \in PrjTaskType
  <2>1. "insert" \in PrjPcs /\ s \in Slugs \cup FlagAll /\ "none" \in FlagAll /\ DefaultEnvs \in SUBSET EnvNames
    BY DEF PrjPcs, FlagAll, EnvNames
  <2> QED BY <2>1 DEF PrjTaskType
<1>2. prjTask' = [prjTask EXCEPT ![q] = t]
  <2> DEFINE a == [PrjIdle EXCEPT !.pc = "insert"]
             b == [a EXCEPT !.prj = q]
             c == [b EXCEPT !.slug = s]
             d == [c EXCEPT !.todo = DefaultEnvs]
  <2>1. prjTask' = [prjTask EXCEPT ![q] = d]
    BY DEF CreateProject
  <2>2. a = PrjTaskOf("insert", 0, "none", "none", {})
    BY PrjIdleOf, PrjFields
  <2> HIDE DEF a
  <2>3. b = PrjTaskOf("insert", q, "none", "none", {})
    BY <2>2, PrjFields
  <2> HIDE DEF b
  <2>4. c = PrjTaskOf("insert", q, s, "none", {})
    BY <2>3, PrjFields
  <2> HIDE DEF c
  <2>5. d = PrjTaskOf("insert", q, s, "none", DefaultEnvs)
    BY <2>4, PrjFields
  <2> HIDE DEF d
  <2> QED BY <2>1, <2>5 DEF PrjTaskOf
<1>3. PrjAt(q, "none") /\ UNCHANGED <<prjSlug, prjEnvs, prjCreated, flagVars>>
  BY DEF CreateProject
<1>4. t.pc = "insert" /\ t.prj = q /\ t.slug = s /\ t.todo = DefaultEnvs
  OBVIOUS
<1> HIDE DEF t
<1>5. prjTask' \in [PrjReqs -> PrjTaskType] /\ PrjAlone(q) /\ prjTask'[q] = t
  BY <1>0, <1>1, <1>2, PrjBegins DEF PrjTypes
<1>6. PrjTypes'
  BY <1>0, <1>3, <1>5 DEF PrjTypes, flagVars
<1>7. CreatedHaveProduction' /\ FlagsAreRecorded'
  BY <1>0, <1>3, <1>5, FlagsStay DEF CreatedHaveProduction, Exists, PrjAt
<1>8. ASSUME NEW r \in PrjReqs
      PROVE  PrjKnows(r)'
  <2>1. CASE r = q
    BY <1>0, <1>3, <1>4, <1>5, <2>1 DEF PrjKnows, PrjAt, Exists
  <2>2. CASE r # q
    <3>1. PrjKnows(r) /\ prjTask'[r] = prjTask[r]
      BY <1>0, <1>5, <2>2 DEF PrjAlone
    <3> QED BY <1>3, <3>1 DEF PrjKnows, PrjAt, Exists
  <2> QED BY <2>1, <2>2
<1> QED BY <1>6, <1>7, <1>8 DEF PrjInv

LEMMA InsertProjectKeeps ==
    ASSUME PrjInv, NEW q \in PrjReqs, InsertProject(q)
    PROVE  PrjInv'
<1>0. PrjTypes /\ (\A r \in PrjReqs : PrjKnows(r)) /\ CreatedHaveProduction /\ FlagsAreRecorded
  BY DEF PrjInv
<1>1. PICK s : s = prjTask[q].slug
  OBVIOUS
<1>2. /\ PrjAt(q, "insert") /\ PrjGo(q, IF Taken(s) THEN "done" ELSE "envs")
      /\ prjSlug' = IF Taken(s) THEN prjSlug ELSE [prjSlug EXCEPT ![q] = s]
      /\ UNCHANGED <<prjEnvs, prjCreated, flagVars>>
  BY <1>1 DEF InsertProject
<1>3. /\ s \in Slugs /\ ~Exists(q) /\ q \notin prjCreated
      /\ prjTask[q].prj = q /\ prjTask[q].todo = DefaultEnvs
  BY <1>0, <1>1, <1>2 DEF PrjKnows
<1>4. PICK pc \in {"done", "envs"} : pc = IF Taken(s) THEN "done" ELSE "envs"
  OBVIOUS
<1>5. /\ prjTask' \in [PrjReqs -> PrjTaskType] /\ PrjAlone(q) /\ PrjAt(q, pc)'
      /\ prjTask'[q].prj = q /\ prjTask'[q].todo = DefaultEnvs
  <2>1. PrjGo(q, pc) /\ pc \in PrjPcs
    BY <1>2, <1>4 DEF PrjPcs
  <2> QED BY <1>0, <1>3, <2>1, PrjEnds DEF PrjTypes
<1>6. prjSlug' \in [PrjReqs -> Slugs \cup {"none"}]
  BY <1>0, <1>2, <1>3 DEF PrjTypes
<1>7. PrjTypes'
  BY <1>0, <1>2, <1>5, <1>6 DEF PrjTypes, flagVars
<1>8. \A r \in PrjReqs \ {q} : prjSlug'[r] = prjSlug[r] /\ (Exists(r)' <=> Exists(r))
  BY <1>0, <1>2 DEF PrjTypes, Exists
<1>9. CreatedHaveProduction'
  <2>1. \A p \in prjCreated' : Exists(p)' => "production" \in prjEnvs'[p]
    BY <1>0, <1>2, <1>3, <1>8 DEF CreatedHaveProduction, PrjTypes
  <2>2. CASE Taken(s)
    BY <1>0, <1>2, <2>1, <2>2 DEF CreatedHaveProduction, Exists
  <2>3. CASE ~Taken(s)
    <3>1. prjSlug'[q] = s /\ \A p \in PrjReqs : prjSlug[p] # s
      BY <1>0, <1>2, <2>3 DEF PrjTypes, Taken
    <3>2. ASSUME NEW p \in PrjReqs, NEW r \in PrjReqs, Exists(p)', prjSlug'[p] = prjSlug'[r]
          PROVE  p = r
      BY <1>0, <1>8, <3>1, <3>2 DEF CreatedHaveProduction
    <3> QED BY <2>1, <3>2 DEF CreatedHaveProduction
  <2> QED BY <2>2, <2>3
<1>10. FlagsAreRecorded'
  BY <1>0, <1>2, <1>5, FlagsStay DEF PrjAt
<1>11. ASSUME NEW r \in PrjReqs
       PROVE  PrjKnows(r)'
  <2>1. CASE r = q
    BY <1>5, <2>1 DEF PrjKnows, PrjAt, DefaultEnvs
  <2>2. CASE r # q
    <3>1. PrjKnows(r) /\ prjTask'[r] = prjTask[r] /\ (Exists(r)' <=> Exists(r))
      BY <1>0, <1>5, <1>8, <2>2 DEF PrjAlone
    <3> QED BY <1>2, <3>1 DEF PrjKnows, PrjAt
  <2> QED BY <2>1, <2>2
<1> QED BY <1>7, <1>9, <1>10, <1>11 DEF PrjInv

LEMMA InsertEnvironmentKeeps ==
    ASSUME PrjInv, NEW q \in PrjReqs, InsertEnvironment(q)
    PROVE  PrjInv'
<1>0. PrjTypes /\ (\A r \in PrjReqs : PrjKnows(r)) /\ CreatedHaveProduction /\ FlagsAreRecorded
  BY DEF PrjInv
<1>1. PICK t : t = prjTask[q]
  OBVIOUS
<1>2. t \in PrjTaskType /\ PrjAt(q, "envs") /\ UNCHANGED <<prjSlug, flagVars>>
  BY <1>0, <1>1 DEF InsertEnvironment, PrjTypes
<1>3. PICK v \in t.todo, ok \in BOOLEAN :
         /\ ok <=> Exists(t.prj) /\ v \notin prjEnvs[t.prj]
         /\ prjEnvs' = IF ok THEN [prjEnvs EXCEPT ![t.prj] = @ \cup {v}] ELSE prjEnvs
         /\ prjTask' = [prjTask EXCEPT ![q].todo = @ \ {v},
                                       ![q].pc = IF ok /\ t.todo # {v} THEN "envs" ELSE "done"]
         /\ prjCreated' = IF ok /\ t.todo = {v} /\ t.slug # "none" THEN prjCreated \cup {q} ELSE prjCreated
  BY <1>1 DEF InsertEnvironment
<1>4. PICK pc \in {"done", "envs"} : pc = IF ok /\ t.todo # {v} THEN "envs" ELSE "done"
  OBVIOUS
<1>5. /\ prjTask' \in [PrjReqs -> PrjTaskType] /\ PrjAlone(q)
      /\ prjTask'[q].pc = pc /\ prjTask'[q].todo = t.todo \ {v}
      /\ prjTask'[q].prj = t.prj /\ prjTask'[q].slug = t.slug
  <2> DEFINE f == [prjTask EXCEPT ![q].todo = @ \ {v}]
             g == [f EXCEPT ![q].pc = pc]
  <2>1. f \in [PrjReqs -> PrjTaskType] /\ f[q].todo = t.todo \ {v} /\ f[q].prj = t.prj /\ f[q].slug = t.slug
        /\ \A r \in PrjReqs \ {q} : f[r] = prjTask[r]
    BY <1>0, <1>1, <1>2 DEF PrjTypes, PrjTaskType
  <2>2. prjTask' = g
    BY <1>3, <1>4
  <2>3. pc \in PrjPcs
    BY DEF PrjPcs
  <2> HIDE DEF f
  <2> QED BY <2>1, <2>2, <2>3 DEF PrjTaskType, PrjAlone
<1>6. /\ prjEnvs' \in [PrjReqs -> SUBSET EnvNames]
      /\ \A p \in PrjReqs : prjEnvs[p] \subseteq prjEnvs'[p]
      /\ ok /\ t.prj \in PrjReqs => v \in prjEnvs'[t.prj]
  <2>1. v \in EnvNames /\ prjEnvs \in [PrjReqs -> SUBSET EnvNames]
    BY <1>0, <1>2, <1>3 DEF PrjTypes, PrjTaskType
  <2>2. CASE ok
    <3>1. prjEnvs' = [prjEnvs EXCEPT ![t.prj] = @ \cup {v}]
      BY <1>3, <2>2
    <3> QED BY <2>1, <3>1
  <2>3. CASE ~ok
    <3>1. prjEnvs' = prjEnvs
      BY <1>3, <2>3
    <3> QED BY <2>1, <2>3, <3>1
  <2> QED BY <2>2, <2>3
<1>7. PrjTypes'
  BY <1>0, <1>2, <1>3, <1>5, <1>6 DEF PrjTypes, flagVars
<1>8. t.slug # "none" => /\ t.prj = q
                         /\ Exists(q) => "production" \in t.todo \cup prjEnvs[q]
  BY <1>0, <1>1, <1>2 DEF PrjKnows
<1>9. t.slug # "none" /\ Exists(q) /\ ok => "production" \in (t.todo \ {v}) \cup prjEnvs'[q]
  BY <1>6, <1>8
<1>10. CreatedHaveProduction'
  <2>1. ASSUME NEW p \in prjCreated', Exists(p)
        PROVE  "production" \in prjEnvs'[p]
    <3>1. CASE p \in prjCreated
      BY <1>0, <1>6, <2>1, <3>1 DEF CreatedHaveProduction, PrjTypes
    <3>2. CASE p \notin prjCreated
      <4>1. ok /\ t.todo = {v} /\ t.slug # "none" /\ p = q
        BY <1>3, <3>2
      <4> QED BY <1>9, <2>1, <4>1
    <3> QED BY <3>1, <3>2
  <2> QED BY <1>0, <1>2, <2>1 DEF CreatedHaveProduction, Exists
<1>11. FlagsAreRecorded'
  BY <1>0, <1>2, <1>5, FlagsStay DEF PrjAt
<1>12. ASSUME NEW r \in PrjReqs
       PROVE  PrjKnows(r)'
  <2>1. CASE r = q
    <3>1. CASE pc = "done"
      BY <1>5, <2>1, <3>1 DEF PrjKnows, PrjAt
    <3>2. CASE pc = "envs"
      <4>1. ok
        BY <1>4, <3>2
      <4> QED BY <1>2, <1>5, <1>8, <1>9, <2>1, <3>2, <4>1 DEF PrjKnows, PrjAt, Exists
    <3> QED BY <3>1, <3>2
  <2>2. CASE r # q
    <3>1. PrjKnows(r) /\ prjTask'[r] = prjTask[r] /\ (Exists(r)' <=> Exists(r))
      BY <1>0, <1>2, <1>5, <2>2 DEF PrjAlone, Exists
    <3>2. r \in prjCreated' <=> r \in prjCreated
      BY <1>3, <2>2
    <3> QED BY <1>6, <3>1, <3>2 DEF PrjKnows, PrjAt
  <2> QED BY <2>1, <2>2
<1> QED BY <1>7, <1>10, <1>11, <1>12 DEF PrjInv

LEMMA AddEnvironmentKeeps ==
    ASSUME PrjInv, NEW q \in PrjReqs, NEW p \in PrjReqs, NEW v \in EnvNames, AddEnvironment(q, p, v)
    PROVE  PrjInv'
<1>0. PrjTypes /\ (\A r \in PrjReqs : PrjKnows(r)) /\ CreatedHaveProduction /\ FlagsAreRecorded
  BY DEF PrjInv
<1> DEFINE t == [pc |-> "envs", prj |-> p, slug |-> "none", old |-> "none", todo |-> {v}]
<1>1. t \in PrjTaskType
  <2>1. "envs" \in PrjPcs /\ "none" \in Slugs \cup FlagAll /\ "none" \in FlagAll /\ {v} \in SUBSET EnvNames
    BY DEF PrjPcs, FlagAll
  <2> QED BY <2>1 DEF PrjTaskType
<1>2. prjTask' = [prjTask EXCEPT ![q] = t]
  <2> DEFINE a == [PrjIdle EXCEPT !.pc = "envs"]
             b == [a EXCEPT !.prj = p]
             c == [b EXCEPT !.todo = {v}]
  <2>1. prjTask' = [prjTask EXCEPT ![q] = c]
    BY DEF AddEnvironment
  <2>2. a = PrjTaskOf("envs", 0, "none", "none", {})
    BY PrjIdleOf, PrjFields
  <2> HIDE DEF a
  <2>3. b = PrjTaskOf("envs", p, "none", "none", {})
    BY <2>2, PrjFields
  <2> HIDE DEF b
  <2>4. c = PrjTaskOf("envs", p, "none", "none", {v})
    <3>1. PICK w : w = {v}
      OBVIOUS
    <3>2. [b EXCEPT !.todo = w] = PrjTaskOf("envs", p, "none", "none", w)
      BY <2>3, PrjFields
    <3> QED BY <3>1, <3>2
  <2> HIDE DEF c
  <2> QED BY <2>1, <2>4 DEF PrjTaskOf
<1>3. PrjAt(q, "none") /\ UNCHANGED <<prjSlug, prjEnvs, prjCreated, flagVars>>
  BY DEF AddEnvironment
<1>4. t.pc = "envs" /\ t.slug = "none"
  OBVIOUS
<1> HIDE DEF t
<1>5. prjTask' \in [PrjReqs -> PrjTaskType] /\ PrjAlone(q) /\ prjTask'[q] = t
  BY <1>0, <1>1, <1>2, PrjBegins DEF PrjTypes
<1>6. PrjTypes'
  BY <1>0, <1>3, <1>5 DEF PrjTypes, flagVars
<1>7. CreatedHaveProduction' /\ FlagsAreRecorded'
  BY <1>0, <1>3, <1>5, FlagsStay DEF CreatedHaveProduction, Exists, PrjAt
<1>8. ASSUME NEW r \in PrjReqs
      PROVE  PrjKnows(r)'
  <2>1. CASE r = q
    BY <1>4, <1>5, <2>1 DEF PrjKnows, PrjAt
  <2>2. CASE r # q
    <3>1. PrjKnows(r) /\ prjTask'[r] = prjTask[r]
      BY <1>0, <1>5, <2>2 DEF PrjAlone
    <3> QED BY <1>3, <3>1 DEF PrjKnows, PrjAt, Exists
  <2> QED BY <2>1, <2>2
<1> QED BY <1>6, <1>7, <1>8 DEF PrjInv

\* What ends at once: a deleted environment, another child.
LEMMA DeleteEnvironmentKeeps ==
    ASSUME PrjInv, NEW q \in PrjReqs, NEW p \in PrjReqs, NEW v \in EnvNames, DeleteEnvironment(q, p, v)
    PROVE  PrjInv'
<1>0. PrjTypes /\ (\A r \in PrjReqs : PrjKnows(r)) /\ CreatedHaveProduction /\ FlagsAreRecorded
  BY DEF PrjInv
<1>1. /\ PrjAt(q, "none") /\ PrjGo(q, "done") /\ v # "production" /\ prjEnvs' = [prjEnvs EXCEPT ![p] = @ \ {v}]
      /\ UNCHANGED <<prjSlug, prjCreated, flagVars>>
  BY DEF DeleteEnvironment
<1>2. prjTask' \in [PrjReqs -> PrjTaskType] /\ PrjAlone(q) /\ PrjAt(q, "done")'
  BY <1>0, <1>1, PrjEnds DEF PrjTypes, PrjPcs
<1>3. /\ prjEnvs' \in [PrjReqs -> SUBSET EnvNames]
      /\ \A r \in PrjReqs : "production" \in prjEnvs[r] => "production" \in prjEnvs'[r]
  BY <1>0, <1>1 DEF PrjTypes
<1>4. PrjTypes'
  BY <1>0, <1>1, <1>2, <1>3 DEF PrjTypes, flagVars
<1>5. CreatedHaveProduction'
  BY <1>0, <1>1, <1>3 DEF CreatedHaveProduction, Exists, PrjTypes
<1>6. FlagsAreRecorded'
  BY <1>0, <1>1, <1>2, FlagsStay DEF PrjAt
<1>7. ASSUME NEW r \in PrjReqs
      PROVE  PrjKnows(r)'
  <2>1. CASE r = q
    BY <1>2, <2>1 DEF PrjKnows, PrjAt
  <2>2. CASE r # q
    <3>1. PrjKnows(r) /\ prjTask'[r] = prjTask[r]
      BY <1>0, <1>2, <2>2 DEF PrjAlone
    <3> QED BY <1>1, <1>3, <3>1 DEF PrjKnows, PrjAt, Exists
  <2> QED BY <2>1, <2>2
<1> QED BY <1>4, <1>5, <1>6, <1>7 DEF PrjInv

LEMMA ChildKeeps ==
    ASSUME PrjInv, NEW q \in PrjReqs, NEW p \in PrjReqs, ChildStep(q, p)
    PROVE  PrjInv'
<1>0. PrjTypes /\ (\A r \in PrjReqs : PrjKnows(r)) /\ CreatedHaveProduction /\ FlagsAreRecorded
  BY DEF PrjInv
<1>1. PrjAt(q, "none") /\ PrjGo(q, "done") /\ UNCHANGED <<prjSlug, prjEnvs, prjCreated, flagVars>>
  BY DEF ChildStep
<1>2. prjTask' \in [PrjReqs -> PrjTaskType] /\ PrjAlone(q) /\ PrjAt(q, "done")'
  BY <1>0, <1>1, PrjEnds DEF PrjTypes, PrjPcs
<1>3. PrjTypes'
  BY <1>0, <1>1, <1>2 DEF PrjTypes, flagVars
<1>4. FlagsAreRecorded'
  BY <1>0, <1>1, <1>2, FlagsStay DEF PrjAt
<1> QED BY <1>0, <1>1, <1>2, <1>3, <1>4, ProjectsStay DEF PrjInv, PrjAt

LEMMA RenameProjectKeeps ==
    ASSUME PrjInv, NEW q \in PrjReqs, NEW p \in PrjReqs, NEW s \in Slugs, RenameProject(q, p, s)
    PROVE  PrjInv'
<1>0. PrjTypes /\ (\A r \in PrjReqs : PrjKnows(r)) /\ CreatedHaveProduction /\ FlagsAreRecorded
  BY DEF PrjInv
<1> DEFINE t == [pc |-> "rename", prj |-> p, slug |-> s, old |-> "none", todo |-> {}]
<1>1. t \in PrjTaskType
  <2>1. "rename" \in PrjPcs /\ s \in Slugs \cup FlagAll /\ "none" \in FlagAll /\ {} \in SUBSET EnvNames
    BY DEF PrjPcs, FlagAll
  <2> QED BY <2>1 DEF PrjTaskType
<1>2. prjTask' = [prjTask EXCEPT ![q] = t]
  <2> DEFINE a == [PrjIdle EXCEPT !.pc = "rename"]
             b == [a EXCEPT !.prj = p]
             c == [b EXCEPT !.slug = s]
  <2>1. prjTask' = [prjTask EXCEPT ![q] = c]
    BY DEF RenameProject
  <2>2. a = PrjTaskOf("rename", 0, "none", "none", {})
    BY PrjIdleOf, PrjFields
  <2> HIDE DEF a
  <2>3. b = PrjTaskOf("rename", p, "none", "none", {})
    BY <2>2, PrjFields
  <2> HIDE DEF b
  <2>4. c = PrjTaskOf("rename", p, s, "none", {})
    BY <2>3, PrjFields
  <2> HIDE DEF c
  <2> QED BY <2>1, <2>4 DEF PrjTaskOf
<1>3. PrjAt(q, "none") /\ UNCHANGED <<prjSlug, prjEnvs, prjCreated, flagVars>>
  BY DEF RenameProject
<1>4. t.pc = "rename" /\ t.slug = s
  OBVIOUS
<1> HIDE DEF t
<1>5. prjTask' \in [PrjReqs -> PrjTaskType] /\ PrjAlone(q) /\ prjTask'[q] = t
  BY <1>0, <1>1, <1>2, PrjBegins DEF PrjTypes
<1>6. PrjTypes'
  BY <1>0, <1>3, <1>5 DEF PrjTypes, flagVars
<1>7. CreatedHaveProduction' /\ FlagsAreRecorded'
  BY <1>0, <1>3, <1>5, FlagsStay DEF CreatedHaveProduction, Exists, PrjAt
<1>8. ASSUME NEW r \in PrjReqs
      PROVE  PrjKnows(r)'
  <2>1. CASE r = q
    BY <1>4, <1>5, <2>1 DEF PrjKnows, PrjAt
  <2>2. CASE r # q
    <3>1. PrjKnows(r) /\ prjTask'[r] = prjTask[r]
      BY <1>0, <1>5, <2>2 DEF PrjAlone
    <3> QED BY <1>3, <3>1 DEF PrjKnows, PrjAt, Exists
  <2> QED BY <2>1, <2>2
<1> QED BY <1>6, <1>7, <1>8 DEF PrjInv

LEMMA UpdateProjectKeeps ==
    ASSUME PrjInv, NEW q \in PrjReqs, UpdateProject(q)
    PROVE  PrjInv'
<1>0. PrjTypes /\ (\A r \in PrjReqs : PrjKnows(r)) /\ CreatedHaveProduction /\ FlagsAreRecorded
  BY DEF PrjInv
<1>1. PICK t : t = prjTask[q]
  OBVIOUS
<1>2. /\ PrjAt(q, "rename") /\ PrjGo(q, "done") /\ UNCHANGED <<prjEnvs, prjCreated, flagVars>>
      /\ prjSlug' = IF Exists(t.prj) /\ ~\E p \in PrjReqs \ {t.prj} : prjSlug[p] = t.slug
                    THEN [prjSlug EXCEPT ![t.prj] = t.slug] ELSE prjSlug
  BY <1>1 DEF UpdateProject
<1>3. t.slug \in Slugs
  BY <1>0, <1>1, <1>2 DEF PrjKnows
<1>4. prjTask' \in [PrjReqs -> PrjTaskType] /\ PrjAlone(q) /\ PrjAt(q, "done")'
  BY <1>0, <1>2, PrjEnds DEF PrjTypes, PrjPcs
<1>5. prjSlug' \in [PrjReqs -> Slugs \cup {"none"}]
  BY <1>0, <1>2, <1>3 DEF PrjTypes
<1>6. PrjTypes'
  BY <1>0, <1>2, <1>4, <1>5 DEF PrjTypes, flagVars
<1>7. \A r \in PrjReqs : Exists(r)' => Exists(r)
  BY <1>0, <1>2 DEF Exists, PrjTypes
<1>8. ASSUME NEW p \in PrjReqs, NEW r \in PrjReqs, Exists(p)', prjSlug'[p] = prjSlug'[r]
      PROVE  p = r
  <2>1. CASE prjSlug' = prjSlug
    BY <1>0, <1>8, <2>1 DEF CreatedHaveProduction, Exists
  <2>2. CASE prjSlug' # prjSlug
    <3>1. \A x \in PrjReqs \ {t.prj} : prjSlug'[x] = prjSlug[x] /\ prjSlug[x] # t.slug
      BY <1>0, <1>2, <2>2 DEF PrjTypes
    <3>2. t.prj \in PrjReqs => prjSlug'[t.prj] = t.slug
      BY <1>0, <1>2, <2>2 DEF PrjTypes
    <3>3. CASE p # t.prj /\ r # t.prj
      BY <1>0, <1>8, <3>1, <3>3 DEF CreatedHaveProduction, Exists
    <3> QED BY <1>8, <3>1, <3>2, <3>3
  <2> QED BY <2>1, <2>2
<1>9. CreatedHaveProduction'
  BY <1>0, <1>2, <1>7, <1>8 DEF CreatedHaveProduction, PrjTypes
<1>10. FlagsAreRecorded'
  BY <1>0, <1>2, <1>4, FlagsStay DEF PrjAt
<1>11. ASSUME NEW r \in PrjReqs
       PROVE  PrjKnows(r)'
  <2>1. CASE r = q
    BY <1>4, <2>1 DEF PrjKnows, PrjAt
  <2>2. CASE r # q
    <3>1. PrjKnows(r) /\ prjTask'[r] = prjTask[r] /\ (Exists(r)' => Exists(r))
      BY <1>0, <1>4, <1>7, <2>2 DEF PrjAlone
    <3> QED BY <1>2, <3>1 DEF PrjKnows, PrjAt
  <2> QED BY <2>1, <2>2
<1> QED BY <1>6, <1>9, <1>10, <1>11 DEF PrjInv

LEMMA DeleteProjectKeeps ==
    ASSUME PrjInv, NEW q \in PrjReqs, NEW p \in PrjReqs, DeleteProject(q, p)
    PROVE  PrjInv'
<1>0. PrjTypes /\ (\A r \in PrjReqs : PrjKnows(r)) /\ CreatedHaveProduction /\ FlagsAreRecorded
  BY DEF PrjInv
<1>1. /\ PrjAt(q, "none") /\ PrjGo(q, "done") /\ prjCreated' = prjCreated
      /\ prjSlug' = [prjSlug EXCEPT ![p] = "none"] /\ prjEnvs' = [prjEnvs EXCEPT ![p] = {}]
      /\ flagRow' = [flagRow EXCEPT ![p] = "none"] /\ flagLog' = [flagLog EXCEPT ![p] = {}]
      /\ flagLoose' = [flagLoose EXCEPT ![p] = {}]
  BY DEF DeleteProject
<1>2. prjTask' \in [PrjReqs -> PrjTaskType] /\ PrjAlone(q) /\ PrjAt(q, "done")'
  BY <1>0, <1>1, PrjEnds DEF PrjTypes, PrjPcs
<1>3. PrjTypes'
  <2>1. flagRow' \in [PrjReqs -> FlagAll] /\ flagLog' \in [PrjReqs -> SUBSET (FlagAll \X FlagAll)]
        /\ flagLoose' \in [PrjReqs -> SUBSET FlagAll]
    BY <1>0, <1>1 DEF PrjTypes, FlagAll
  <2> QED BY <1>0, <1>1, <1>2, <2>1 DEF PrjTypes
<1>4. /\ \A r \in PrjReqs \ {p} : /\ prjSlug'[r] = prjSlug[r] /\ prjEnvs'[r] = prjEnvs[r] /\ flagRow'[r] = flagRow[r]
                                 /\ flagLog'[r] = flagLog[r] /\ flagLoose'[r] = flagLoose[r]
      /\ prjSlug'[p] = "none" /\ flagRow'[p] = "none"
  BY <1>0, <1>1 DEF PrjTypes
<1>5. CreatedHaveProduction'
  BY <1>0, <1>1, <1>4 DEF CreatedHaveProduction, Exists, PrjTypes
<1>6. \A r \in PrjReqs : PrjAt(r, "log") => r # q /\ PrjAt(r, "log")' /\ prjTask'[r] = prjTask[r]
  BY <1>1, <1>2 DEF PrjAlone, PrjAt
<1>7. FlagsAreRecorded'
  BY <1>0, <1>4, <1>6 DEF FlagsAreRecorded
<1>8. ASSUME NEW r \in PrjReqs
      PROVE  PrjKnows(r)'
  <2>1. CASE r = q
    BY <1>2, <2>1 DEF PrjKnows, PrjAt
  <2>2. CASE r # q
    <3>1. PrjKnows(r) /\ prjTask'[r] = prjTask[r]
      BY <1>0, <1>2, <2>2 DEF PrjAlone
    <3>2. Exists(r)' => Exists(r) /\ prjEnvs'[r] = prjEnvs[r]
      BY <1>4 DEF Exists
    <3> QED BY <1>1, <3>1, <3>2 DEF PrjKnows, PrjAt
  <2> QED BY <2>1, <2>2
<1> QED BY <1>3, <1>5, <1>7, <1>8 DEF PrjInv

\* The flags.
LEMMA CreateFlagKeeps ==
    ASSUME PrjInv, NEW q \in PrjReqs, NEW p \in PrjReqs, CreateFlag(q, p)
    PROVE  PrjInv'
<1>0. PrjTypes /\ (\A r \in PrjReqs : PrjKnows(r)) /\ CreatedHaveProduction /\ FlagsAreRecorded
  BY DEF PrjInv
<1> DEFINE t == [pc |-> "log", prj |-> p, slug |-> FlagZero, old |-> "none", todo |-> {}]
<1>1. t \in PrjTaskType
  <2>1. "log" \in PrjPcs /\ FlagZero \in Slugs \cup FlagAll /\ "none" \in FlagAll /\ {} \in SUBSET EnvNames
    BY DEF PrjPcs, FlagAll
  <2> QED BY <2>1 DEF PrjTaskType
<1>2. prjTask' = [prjTask EXCEPT ![q] = t]
  <2> DEFINE a == [PrjIdle EXCEPT !.pc = "log"]
             b == [a EXCEPT !.prj = p]
             c == [b EXCEPT !.slug = FlagZero]
  <2>1. prjTask' = [prjTask EXCEPT ![q] = c]
    BY DEF CreateFlag
  <2>2. a = PrjTaskOf("log", 0, "none", "none", {})
    BY PrjIdleOf, PrjFields
  <2> HIDE DEF a
  <2>3. b = PrjTaskOf("log", p, "none", "none", {})
    BY <2>2, PrjFields
  <2> HIDE DEF b
  <2>4. c = PrjTaskOf("log", p, FlagZero, "none", {})
    BY <2>3, PrjFields
  <2> HIDE DEF c
  <2> QED BY <2>1, <2>4 DEF PrjTaskOf
<1>3. PrjAt(q, "none") /\ UNCHANGED <<prjSlug, prjEnvs, prjCreated, flagLog, flagLoose>>
      /\ flagRow' = [flagRow EXCEPT ![p] = FlagZero]
  BY DEF CreateFlag
<1>4. t.pc = "log" /\ t.prj = p /\ t.slug = FlagZero
  OBVIOUS
<1> HIDE DEF t
<1>5. prjTask' \in [PrjReqs -> PrjTaskType] /\ PrjAlone(q) /\ prjTask'[q] = t
  BY <1>0, <1>1, <1>2, PrjBegins DEF PrjTypes
<1>6. PrjTypes'
  <2>1. flagRow' \in [PrjReqs -> FlagAll]
    BY <1>0, <1>3 DEF PrjTypes, FlagAll
  <2> QED BY <1>0, <1>3, <1>5, <2>1 DEF PrjTypes
<1>7. \A r \in PrjReqs : PrjAt(r, "log") => r # q /\ PrjAt(r, "log")' /\ prjTask'[r] = prjTask[r]
  BY <1>3, <1>5 DEF PrjAlone, PrjAt
<1>8. PrjAt(q, "log")' /\ prjTask'[q].prj = p /\ prjTask'[q].slug = FlagZero
  BY <1>4, <1>5 DEF PrjAt
<1>9. ASSUME NEW x \in PrjReqs
      PROVE  \/ flagRow'[x] \in {"none"} \cup flagLoose'[x]
             \/ \E h \in flagLog'[x] : h[2] = flagRow'[x]
             \/ \E r \in PrjReqs : PrjAt(r, "log")' /\ prjTask'[r].prj = x /\ prjTask'[r].slug = flagRow'[x]
  <2>1. CASE x = p
    <3>1. flagRow'[x] = FlagZero
      BY <1>0, <1>3, <2>1 DEF PrjTypes
    <3> QED BY <1>8, <2>1, <3>1
  <2>2. CASE x # p
    <3>1. flagRow'[x] = flagRow[x] /\ flagLog'[x] = flagLog[x] /\ flagLoose'[x] = flagLoose[x]
      BY <1>0, <1>3, <2>2 DEF PrjTypes
    <3> QED BY <1>0, <1>7, <3>1 DEF FlagsAreRecorded
  <2> QED BY <2>1, <2>2
<1>10. FlagsAreRecorded'
  BY <1>9 DEF FlagsAreRecorded
<1>11. prjTask'[q].pc \in {"flag", "log", "done"} /\ prjTask'[q].slug \in FlagAll
  BY <1>8 DEF PrjAt, FlagAll
<1> QED BY <1>0, <1>3, <1>5, <1>6, <1>10, <1>11, ProjectsStay DEF PrjInv

LEMMA ReadFlagKeeps ==
    ASSUME PrjInv, NEW q \in PrjReqs, NEW p \in PrjReqs, NEW v \in FlagVals, ReadFlag(q, p, v)
    PROVE  PrjInv'
<1>0. PrjTypes /\ (\A r \in PrjReqs : PrjKnows(r)) /\ CreatedHaveProduction /\ FlagsAreRecorded
  BY DEF PrjInv
<1>1. PICK o : o = flagRow[p]
  OBVIOUS
<1>2. o \in FlagAll
  BY <1>0, <1>1 DEF PrjTypes
<1> DEFINE t == [pc |-> "flag", prj |-> p, slug |-> v, old |-> o, todo |-> {}]
<1>3. t \in PrjTaskType
  <2>1. "flag" \in PrjPcs /\ v \in Slugs \cup FlagAll /\ {} \in SUBSET EnvNames
    BY DEF PrjPcs, FlagAll
  <2> QED BY <1>2, <2>1 DEF PrjTaskType
<1>4. prjTask' = [prjTask EXCEPT ![q] = t]
  <2> DEFINE a == [PrjIdle EXCEPT !.pc = "flag"]
             b == [a EXCEPT !.prj = p]
             c == [b EXCEPT !.slug = v]
             d == [c EXCEPT !.old = o]
  <2>1. prjTask' = [prjTask EXCEPT ![q] = d]
    BY <1>1 DEF ReadFlag
  <2>2. a = PrjTaskOf("flag", 0, "none", "none", {})
    BY PrjIdleOf, PrjFields
  <2> HIDE DEF a
  <2>3. b = PrjTaskOf("flag", p, "none", "none", {})
    BY <2>2, PrjFields
  <2> HIDE DEF b
  <2>4. c = PrjTaskOf("flag", p, v, "none", {})
    BY <2>3, PrjFields
  <2> HIDE DEF c
  <2>5. d = PrjTaskOf("flag", p, v, o, {})
    BY <2>4, PrjFields
  <2> HIDE DEF d
  <2> QED BY <2>1, <2>5 DEF PrjTaskOf
<1>5. PrjAt(q, "none") /\ UNCHANGED <<prjSlug, prjEnvs, prjCreated, flagVars>>
  BY DEF ReadFlag
<1>6. t.pc = "flag" /\ t.slug \in FlagAll
  BY DEF FlagAll
<1> HIDE DEF t
<1>7. prjTask' \in [PrjReqs -> PrjTaskType] /\ PrjAlone(q) /\ prjTask'[q] = t
  BY <1>0, <1>3, <1>4, PrjBegins DEF PrjTypes
<1>8. PrjTypes'
  BY <1>0, <1>5, <1>7 DEF PrjTypes, flagVars
<1>9. FlagsAreRecorded'
  BY <1>0, <1>5, <1>7, FlagsStay DEF PrjAt
<1> QED BY <1>0, <1>5, <1>6, <1>7, <1>8, <1>9, ProjectsStay DEF PrjInv

LEMMA UpdateFlagKeeps ==
    ASSUME PrjInv, NEW q \in PrjReqs, UpdateFlag(q)
    PROVE  PrjInv'
<1>0. PrjTypes /\ (\A r \in PrjReqs : PrjKnows(r)) /\ CreatedHaveProduction /\ FlagsAreRecorded
  BY DEF PrjInv
<1>1. PICK t, there : t = prjTask[q] /\ there = (flagRow[t.prj] # "none")
  OBVIOUS
<1>2. /\ t \in PrjTaskType /\ PrjAt(q, "flag") /\ PrjGo(q, IF there THEN "log" ELSE "done")
      /\ flagRow' = IF there THEN [flagRow EXCEPT ![t.prj] = t.slug] ELSE flagRow
      /\ UNCHANGED <<prjSlug, prjEnvs, prjCreated, flagLog, flagLoose>>
      /\ t.slug \in FlagAll
  BY <1>0, <1>1 DEF UpdateFlag, PrjTypes, PrjKnows
<1>3. PICK pc \in {"log", "done"} : pc = IF there THEN "log" ELSE "done"
  BY <1>1
<1>4. /\ prjTask' \in [PrjReqs -> PrjTaskType] /\ PrjAlone(q) /\ PrjAt(q, pc)'
      /\ prjTask'[q].prj = t.prj /\ prjTask'[q].slug = t.slug
  <2>1. PrjGo(q, pc) /\ pc \in PrjPcs
    BY <1>2, <1>3 DEF PrjPcs
  <2> QED BY <1>0, <1>1, <2>1, PrjEnds DEF PrjTypes
<1>5. PrjTypes'
  <2>1. flagRow' \in [PrjReqs -> FlagAll]
    BY <1>0, <1>2 DEF PrjTypes
  <2> QED BY <1>0, <1>2, <1>4, <2>1 DEF PrjTypes
<1>6. \A r \in PrjReqs : PrjAt(r, "log") => r # q /\ PrjAt(r, "log")' /\ prjTask'[r] = prjTask[r]
  BY <1>2, <1>4 DEF PrjAlone, PrjAt
<1>7. ASSUME NEW x \in PrjReqs
      PROVE  \/ flagRow'[x] \in {"none"} \cup flagLoose'[x]
             \/ \E h \in flagLog'[x] : h[2] = flagRow'[x]
             \/ \E r \in PrjReqs : PrjAt(r, "log")' /\ prjTask'[r].prj = x /\ prjTask'[r].slug = flagRow'[x]
  <2>1. CASE there /\ x = t.prj
    <3>1. flagRow'[x] = t.slug /\ pc = "log"
      BY <1>0, <1>2, <1>3, <2>1 DEF PrjTypes
    <3> QED BY <1>4, <2>1, <3>1
  <2>2. CASE ~(there /\ x = t.prj)
    <3>1. flagRow'[x] = flagRow[x] /\ flagLog'[x] = flagLog[x] /\ flagLoose'[x] = flagLoose[x]
      BY <1>0, <1>1, <1>2, <2>2 DEF PrjTypes
    <3> QED BY <1>0, <1>6, <3>1 DEF FlagsAreRecorded
  <2> QED BY <2>1, <2>2
<1>8. FlagsAreRecorded'
  BY <1>7 DEF FlagsAreRecorded
<1>9. prjTask'[q].pc \in {"flag", "log", "done"} /\ prjTask'[q].slug \in FlagAll
  BY <1>2, <1>4 DEF PrjAt
<1> QED BY <1>0, <1>2, <1>4, <1>5, <1>8, <1>9, ProjectsStay DEF PrjInv

\* The record is made, or it never will be.
LEMMA LogFlagKeeps ==
    ASSUME PrjInv, NEW q \in PrjReqs, LogFlag(q)
    PROVE  PrjInv'
<1>0. PrjTypes /\ (\A r \in PrjReqs : PrjKnows(r)) /\ CreatedHaveProduction /\ FlagsAreRecorded
  BY DEF PrjInv
<1>1. PICK t : t = prjTask[q]
  OBVIOUS
<1>2. /\ PrjAt(q, "log") /\ PrjGo(q, "done") /\ UNCHANGED <<prjSlug, prjEnvs, prjCreated, flagRow, flagLoose>>
      /\ flagLog' = IF flagRow[t.prj] = "none" THEN flagLog
                    ELSE [flagLog EXCEPT ![t.prj] = @ \cup {<<t.old, t.slug>>}]
      /\ t.slug \in FlagAll /\ t.old \in FlagAll
  BY <1>0, <1>1 DEF LogFlag, PrjKnows, PrjTypes, PrjTaskType
<1>3. prjTask' \in [PrjReqs -> PrjTaskType] /\ PrjAlone(q) /\ PrjAt(q, "done")'
  BY <1>0, <1>2, PrjEnds DEF PrjTypes, PrjPcs
<1>4. PrjTypes'
  <2>1. flagLog' \in [PrjReqs -> SUBSET (FlagAll \X FlagAll)]
    <3>1. <<t.old, t.slug>> \in FlagAll \X FlagAll
      BY <1>2
    <3>2. CASE flagRow[t.prj] # "none"
      <4>1. flagLog' = [flagLog EXCEPT ![t.prj] = @ \cup {<<t.old, t.slug>>}]
        BY <1>2, <3>2
      <4> QED BY <1>0, <3>1, <4>1 DEF PrjTypes
    <3> QED BY <1>0, <1>2, <3>2 DEF PrjTypes
  <2> QED BY <1>0, <1>2, <1>3, <2>1 DEF PrjTypes
<1>5. \A r \in PrjReqs \ {q} : PrjAt(r, "log") => PrjAt(r, "log")' /\ prjTask'[r] = prjTask[r]
  BY <1>3 DEF PrjAlone, PrjAt
<1>6. \A x \in PrjReqs : flagLog[x] \subseteq flagLog'[x]
  BY <1>0, <1>2 DEF PrjTypes
<1>7. ASSUME NEW x \in PrjReqs
      PROVE  \/ flagRow'[x] \in {"none"} \cup flagLoose'[x]
             \/ \E h \in flagLog'[x] : h[2] = flagRow'[x]
             \/ \E r \in PrjReqs : PrjAt(r, "log")' /\ prjTask'[r].prj = x /\ prjTask'[r].slug = flagRow'[x]
  <2>1. CASE t.prj = x /\ t.slug = flagRow[x] /\ flagRow[x] # "none"
    <3>1. flagLog'[x] = flagLog[x] \cup {<<t.old, t.slug>>}
      BY <1>0, <1>2, <2>1 DEF PrjTypes
    <3>2. <<t.old, t.slug>> \in flagLog'[x] /\ <<t.old, t.slug>>[2] = flagRow'[x]
      BY <1>2, <2>1, <3>1
    <3> QED BY <3>2
  <2>2. CASE ~(t.prj = x /\ t.slug = flagRow[x]) \/ flagRow[x] = "none"
    BY <1>0, <1>1, <1>2, <1>5, <1>6, <2>2 DEF FlagsAreRecorded
  <2> QED BY <2>1, <2>2
<1>8. FlagsAreRecorded'
  BY <1>7 DEF FlagsAreRecorded
<1>9. prjTask'[q].pc = "done"
  BY <1>3 DEF PrjAt
<1> QED BY <1>0, <1>2, <1>3, <1>4, <1>8, <1>9, ProjectsStay DEF PrjInv

LEMMA HandlerEndsKeeps ==
    ASSUME PrjInv, NEW q \in PrjReqs, HandlerEnds(q)
    PROVE  PrjInv'
<1>0. PrjTypes /\ (\A r \in PrjReqs : PrjKnows(r)) /\ CreatedHaveProduction /\ FlagsAreRecorded
  BY DEF PrjInv
<1>1. PICK t : t = prjTask[q]
  OBVIOUS
<1>2. /\ PrjGo(q, "done") /\ UNCHANGED <<prjSlug, prjEnvs, prjCreated, flagRow, flagLog>>
      /\ flagLoose' = IF t.pc = "log" THEN [flagLoose EXCEPT ![t.prj] = @ \cup {t.slug}] ELSE flagLoose
      /\ t.pc = "log" => t.slug \in FlagAll
  BY <1>0, <1>1 DEF HandlerEnds, PrjKnows, PrjAt
<1>3. prjTask' \in [PrjReqs -> PrjTaskType] /\ PrjAlone(q) /\ PrjAt(q, "done")'
  BY <1>0, <1>2, PrjEnds DEF PrjTypes, PrjPcs
<1>4. PrjTypes'
  <2>1. flagLoose' \in [PrjReqs -> SUBSET FlagAll]
    BY <1>0, <1>2 DEF PrjTypes
  <2> QED BY <1>0, <1>2, <1>3, <2>1 DEF PrjTypes
<1>5. \A r \in PrjReqs \ {q} : PrjAt(r, "log") => PrjAt(r, "log")' /\ prjTask'[r] = prjTask[r]
  BY <1>3 DEF PrjAlone, PrjAt
<1>6. \A x \in PrjReqs : flagLoose[x] \subseteq flagLoose'[x]
  BY <1>0, <1>2 DEF PrjTypes
<1>7. ASSUME NEW x \in PrjReqs
      PROVE  \/ flagRow'[x] \in {"none"} \cup flagLoose'[x]
             \/ \E h \in flagLog'[x] : h[2] = flagRow'[x]
             \/ \E r \in PrjReqs : PrjAt(r, "log")' /\ prjTask'[r].prj = x /\ prjTask'[r].slug = flagRow'[x]
  <2>1. CASE t.pc = "log" /\ t.prj = x /\ t.slug = flagRow[x]
    <3>1. flagLoose'[x] = flagLoose[x] \cup {t.slug}
      BY <1>0, <1>2, <2>1 DEF PrjTypes
    <3> QED BY <1>2, <2>1, <3>1
  <2>2. CASE ~(t.pc = "log" /\ t.prj = x /\ t.slug = flagRow[x])
    <3>1. ~(PrjAt(q, "log") /\ prjTask[q].prj = x /\ prjTask[q].slug = flagRow[x])
      BY <1>1, <2>2 DEF PrjAt
    <3> QED BY <1>0, <1>2, <1>5, <1>6, <3>1 DEF FlagsAreRecorded
  <2> QED BY <2>1, <2>2
<1>8. FlagsAreRecorded'
  BY <1>7 DEF FlagsAreRecorded
<1>9. prjTask'[q].pc = "done"
  BY <1>3 DEF PrjAt
<1> QED BY <1>0, <1>2, <1>3, <1>4, <1>8, <1>9, ProjectsStay DEF PrjInv

LEMMA DeleteFlagKeeps ==
    ASSUME PrjInv, NEW q \in PrjReqs, NEW p \in PrjReqs, DeleteFlag(q, p)
    PROVE  PrjInv'
<1>0. PrjTypes /\ (\A r \in PrjReqs : PrjKnows(r)) /\ CreatedHaveProduction /\ FlagsAreRecorded
  BY DEF PrjInv
<1>1. /\ PrjAt(q, "none") /\ PrjGo(q, "done") /\ UNCHANGED <<prjSlug, prjEnvs, prjCreated>>
      /\ flagRow' = [flagRow EXCEPT ![p] = "none"] /\ flagLog' = [flagLog EXCEPT ![p] = {}]
      /\ flagLoose' = [flagLoose EXCEPT ![p] = {}]
  BY DEF DeleteFlag
<1>2. prjTask' \in [PrjReqs -> PrjTaskType] /\ PrjAlone(q) /\ PrjAt(q, "done")'
  BY <1>0, <1>1, PrjEnds DEF PrjTypes, PrjPcs
<1>3. PrjTypes'
  <2>1. flagRow' \in [PrjReqs -> FlagAll] /\ flagLog' \in [PrjReqs -> SUBSET (FlagAll \X FlagAll)]
        /\ flagLoose' \in [PrjReqs -> SUBSET FlagAll]
    BY <1>0, <1>1 DEF PrjTypes, FlagAll
  <2> QED BY <1>0, <1>1, <1>2, <2>1 DEF PrjTypes
<1>4. /\ \A r \in PrjReqs \ {p} : /\ flagRow'[r] = flagRow[r] /\ flagLog'[r] = flagLog[r]
                                 /\ flagLoose'[r] = flagLoose[r]
      /\ flagRow'[p] = "none"
  BY <1>0, <1>1 DEF PrjTypes
<1>5. \A r \in PrjReqs : PrjAt(r, "log") => r # q /\ PrjAt(r, "log")' /\ prjTask'[r] = prjTask[r]
  BY <1>1, <1>2 DEF PrjAlone, PrjAt
<1>6. FlagsAreRecorded'
  BY <1>0, <1>4, <1>5 DEF FlagsAreRecorded
<1>7. prjTask'[q].pc = "done"
  BY <1>2 DEF PrjAt
<1> QED BY <1>0, <1>1, <1>2, <1>3, <1>6, <1>7, ProjectsStay DEF PrjInv

\* Whatever the handlers of the module do, in any order.
LEMMA PrjKeeps == PrjInv /\ [PrjStep]_projectVars => PrjInv'
<1> SUFFICES ASSUME PrjInv, [PrjStep]_projectVars
             PROVE  PrjInv'
  OBVIOUS
<1>1. CASE ProjectNext
  BY <1>1, InsertProjectKeeps, InsertEnvironmentKeeps, UpdateProjectKeeps, HandlerEndsKeeps, CreateProjectKeeps,
     RenameProjectKeeps, DeleteProjectKeeps, ChildKeeps, AddEnvironmentKeeps, DeleteEnvironmentKeeps DEF ProjectNext
<1>2. CASE FlagNext
  BY <1>2, UpdateFlagKeeps, LogFlagKeeps, HandlerEndsKeeps, CreateFlagKeeps, DeleteFlagKeeps,
     DeleteProjectKeeps, ReadFlagKeeps DEF FlagNext
<1>3. CASE HookNext \/ InstanceNext \/ UNCHANGED projectVars
  <2>1. HookNext => UNCHANGED <<prjVars, flagVars>>
    BY DEF HookNext, Dispatch, PostWebhook
  <2>2. InstanceNext => UNCHANGED <<prjVars, flagVars>>
    BY DEF InstanceNext, CountInstances, InsertInstance, ProvisionerStarts, StopInstance, ReadInstance
  <2>3. UNCHANGED <<prjVars, flagVars>>
    BY <1>3, <2>1, <2>2 DEF projectVars
  <2>4. UNCHANGED <<prjSlug, prjEnvs, prjTask, prjCreated, flagRow, flagLog, flagLoose>>
    BY <2>3 DEF prjVars, flagVars
  <2>5. PrjTypes' /\ CreatedHaveProduction' /\ FlagsAreRecorded'
    BY <2>4 DEF PrjInv, PrjTypes, CreatedHaveProduction, FlagsAreRecorded, Exists, PrjAt
  <2>6. \A q \in PrjReqs : PrjKnows(q)'
    BY <2>4 DEF PrjInv, PrjKnows, Exists, PrjAt
  <2> QED BY <2>5, <2>6 DEF PrjInv
<1> QED BY <1>1, <1>2, <1>3 DEF PrjStep

(***************************************************************************)
(* Generated applications                                                  *)
(***************************************************************************)
CgPcs == {"none", "upload", "keep", "download", "repo", "push", "register", "done"}
CgTaskType == [pc : CgPcs, at : CgReplicas \cup {"none"}, job : CgReqs \cup {0}, app : CgApps \cup {"none"},
               todo : SUBSET FileNos, errors : Nat]
RepoType == [job : CgReqs \cup {0}, files : SUBSET FileNos]
Deploying(q) == cgTask[q].pc \in {"push", "register"}

CgTypes ==
    /\ cgTask \in [CgReqs -> CgTaskType] /\ repos \in [CgApps -> RepoType]
    /\ jobStore \in [CgReplicas -> SUBSET CgReqs] /\ codeRepos \subseteq CgApps
    /\ cgBuilds \subseteq CgApps \X CgReqs /\ cgAnswers \subseteq CgReqs \X CgApps \X Nat

\* A deployment has the repository of its name to itself, and what it has not
\* pushed of its job, nor counted as failed, it still has to push.
CgHas(q) == cgTask[q].pc \in {"download", "repo", "push", "register"} =>
    cgTask[q].job \in CgReqs /\ cgTask[q].app \in CgApps
CgPushes(q) == Deploying(q) =>
    /\ repos[cgTask[q].app].job = cgTask[q].job
    /\ cgTask[q].errors = 0 => repos[cgTask[q].app].files \cup cgTask[q].todo = FileNos
    /\ cgTask[q].pc = "register" => cgTask[q].todo = {}
CgAlone == \A q, r \in CgReqs : Deploying(q) /\ Deploying(r) /\ cgTask[q].app = cgTask[r].app => q = r

\* Once it is answered nobody else touches that repository.
CgAnswered(ans) ==
    /\ cgTask[ans[1]].pc = "done" /\ cgTask[ans[1]].job \in CgReqs
    /\ repos[ans[2]].job = cgTask[ans[1]].job
    /\ ans[3] = 0 => repos[ans[2]].files = FileNos
    /\ \A q \in CgReqs : Deploying(q) => cgTask[q].app # ans[2]
CgInv == /\ CgTypes /\ CgAlone
         /\ \A q \in CgReqs : CgHas(q) /\ CgPushes(q)
         /\ \A ans \in cgAnswers : CgAnswered(ans)

CgOthers(q) == \A r \in CgReqs \ {q} : cgTask'[r] = cgTask[r]

LEMMA CgMoves ==
    ASSUME cgTask \in [CgReqs -> CgTaskType], NEW q \in CgReqs, NEW pc \in CgPcs, CgGo(q, pc)
    PROVE  /\ cgTask' \in [CgReqs -> CgTaskType] /\ CgOthers(q) /\ cgTask'[q].pc = pc
           /\ cgTask'[q].job = cgTask[q].job /\ cgTask'[q].app = cgTask[q].app
           /\ cgTask'[q].todo = cgTask[q].todo /\ cgTask'[q].errors = cgTask[q].errors
BY DEF CgGo, CgTaskType, CgOthers

\* A request that is not deploying and takes another step leaves the
\* repositories and the answers alone.
LEMMA CgStays ==
    ASSUME CgInv, NEW q \in CgReqs, CgOthers(q), CgTypes', cgTask[q].pc # "done", ~Deploying(q)',
           CgHas(q)', UNCHANGED <<repos, cgAnswers>>
    PROVE  CgInv'
<1>1. \A r \in CgReqs : Deploying(r)' => r # q /\ Deploying(r) /\ cgTask'[r] = cgTask[r]
  BY DEF CgOthers, Deploying
<1>2. ASSUME NEW r \in CgReqs
      PROVE  CgHas(r)' /\ CgPushes(r)'
  <2>1. CASE r = q
    BY <2>1 DEF CgPushes
  <2>2. CASE r # q
    <3>1. cgTask'[r] = cgTask[r]
      BY <2>2 DEF CgOthers
    <3> QED BY <3>1 DEF CgInv, CgHas, CgPushes, Deploying
  <2> QED BY <2>1, <2>2
<1>3. CgAlone'
  BY <1>1 DEF CgInv, CgAlone
<1>4. ASSUME NEW ans \in cgAnswers
      PROVE  CgAnswered(ans)'
  <2>1. CgAnswered(ans) /\ ans[1] # q /\ ans[1] \in CgReqs
    BY DEF CgInv, CgAnswered, CgTypes
  <2>2. cgTask'[ans[1]] = cgTask[ans[1]]
    BY <2>1 DEF CgOthers
  <2> QED BY <1>1, <2>1, <2>2 DEF CgAnswered
<1> QED BY <1>2, <1>3, <1>4 DEF CgInv

LEMMA CgStarts == AssistInit => CgInv
<1> SUFFICES ASSUME AssistInit
             PROVE  CgInv
  OBVIOUS
<1>1. CgIdle \in CgTaskType /\ NoRepo \in RepoType
  BY DEF CgIdle, CgTaskType, CgPcs, NoRepo, RepoType
<1>2. CgTypes
  BY <1>1 DEF AssistInit, CgTypes
<1>3. \A q \in CgReqs : cgTask[q].pc = "none"
  BY DEF AssistInit, CgIdle
<1> QED BY <1>2, <1>3 DEF AssistInit, CgInv, CgAlone, CgHas, CgPushes, Deploying

-----------------------------------------------------------------------------
\* The task of a request that starts.
LEMMA CgField ==
    ASSUME NEW t \in CgTaskType
    PROVE  /\ \A x \in CgPcs : [t EXCEPT !.pc = x] \in CgTaskType /\ [t EXCEPT !.pc = x].pc = x
           /\ \A x \in CgReplicas : [t EXCEPT !.at = x] \in CgTaskType /\ [t EXCEPT !.at = x].pc = t.pc
           /\ \A x \in CgReqs : [t EXCEPT !.job = x] \in CgTaskType /\ [t EXCEPT !.job = x].pc = t.pc
                                /\ [t EXCEPT !.job = x].job = x
           /\ \A x \in CgApps : [t EXCEPT !.app = x] \in CgTaskType /\ [t EXCEPT !.app = x].pc = t.pc
                                /\ [t EXCEPT !.app = x].job = t.job /\ [t EXCEPT !.app = x].app = x
BY DEF CgTaskType

LEMMA CgIdleTyped == CgIdle \in CgTaskType
BY DEF CgIdle, CgTaskType, CgPcs

LEMMA CgBegins ==
    ASSUME cgTask \in [CgReqs -> CgTaskType], NEW q \in CgReqs, NEW t \in CgTaskType, cgTask' = [cgTask EXCEPT ![q] = t]
    PROVE  cgTask' \in [CgReqs -> CgTaskType] /\ CgOthers(q) /\ cgTask'[q] = t
BY DEF CgOthers

LEMMA GenerateCodeKeeps ==
    ASSUME CgInv, NEW q \in CgReqs, NEW r \in CgReplicas, GenerateCode(q, r)
    PROVE  CgInv'
<1>1. CgTypes /\ cgTask[q].pc = "none" /\ UNCHANGED <<jobStore, repos, codeRepos, cgBuilds, cgAnswers>>
  BY DEF GenerateCode, CgInv, CgAt
<1>2. CgGo(q, "done") => CgInv'
  <2> SUFFICES ASSUME CgGo(q, "done")
               PROVE  CgInv'
    OBVIOUS
  <2>1. cgTask' \in [CgReqs -> CgTaskType] /\ CgOthers(q) /\ cgTask'[q].pc = "done"
    BY <1>1, CgMoves DEF CgTypes, CgPcs
  <2> QED BY <1>1, <2>1, CgStays DEF CgTypes, Deploying, CgHas
<1>3. ASSUME cgTask' = [cgTask EXCEPT ![q] = [CgIdle EXCEPT !.pc = "upload", !.at = r, !.job = q]]
      PROVE  CgInv'
  <2>1. PICK t : t = [CgIdle EXCEPT !.pc = "upload", !.at = r, !.job = q]
    OBVIOUS
  <2>2. t \in CgTaskType /\ t.pc = "upload"
    <3> DEFINE a == [CgIdle EXCEPT !.pc = "upload"]
               b == [a EXCEPT !.at = r]
               c == [b EXCEPT !.job = q]
    <3>1. a \in CgTaskType /\ a.pc = "upload"
      BY CgIdleTyped, CgField DEF CgPcs
    <3>2. t = c
      BY <2>1
    <3> HIDE DEF a
    <3>3. b \in CgTaskType /\ b.pc = "upload"
      BY <3>1, CgField
    <3> HIDE DEF b
    <3> QED BY <3>2, <3>3, CgField
  <2>3. cgTask' = [cgTask EXCEPT ![q] = t]
    BY <1>3, <2>1
  <2>4. cgTask' \in [CgReqs -> CgTaskType] /\ CgOthers(q) /\ cgTask'[q] = t
    BY <1>1, <2>2, <2>3, CgBegins DEF CgTypes
  <2> QED BY <1>1, <2>2, <2>4, CgStays DEF CgTypes, Deploying, CgHas
<1> QED BY <1>2, <1>3 DEF GenerateCode

LEMMA FindJobKeeps ==
    ASSUME CgInv, NEW q \in CgReqs, NEW r \in CgReplicas, NEW j \in CgReqs, NEW a \in CgApps, FindJob(q, r, j, a)
    PROVE  CgInv'
<1>1. CgTypes /\ cgTask[q].pc = "none" /\ UNCHANGED <<jobStore, repos, codeRepos, cgBuilds, cgAnswers>>
  BY DEF FindJob, CgInv, CgAt
<1>2. PICK pc \in {"download", "done"} : pc = IF j \in jobStore[r] THEN "download" ELSE "done"
  OBVIOUS
<1>3. PICK t : t = [CgIdle EXCEPT !.pc = pc, !.at = r, !.job = j, !.app = a]
  OBVIOUS
<1>4. t \in CgTaskType /\ t.pc = pc /\ t.job = j /\ t.app = a
  <2> DEFINE a1 == [CgIdle EXCEPT !.pc = pc]
             b1 == [a1 EXCEPT !.at = r]
             c1 == [b1 EXCEPT !.job = j]
             d1 == [c1 EXCEPT !.app = a]
  <2>0. pc \in CgPcs
    BY DEF CgPcs
  <2>1. a1 \in CgTaskType /\ a1.pc = pc
    BY <2>0, CgIdleTyped, CgField
  <2>2. t = d1
    BY <1>3
  <2> HIDE DEF a1
  <2>3. b1 \in CgTaskType /\ b1.pc = pc
    BY <2>1, CgField
  <2> HIDE DEF b1
  <2>4. c1 \in CgTaskType /\ c1.pc = pc /\ c1.job = j
    BY <2>3, CgField
  <2> HIDE DEF c1
  <2> QED BY <2>2, <2>4, CgField
<1>5. cgTask' = [cgTask EXCEPT ![q] = t]
  BY <1>2, <1>3 DEF FindJob
<1>6. cgTask' \in [CgReqs -> CgTaskType] /\ CgOthers(q) /\ cgTask'[q] = t
  BY <1>1, <1>4, <1>5, CgBegins DEF CgTypes
<1> QED BY <1>1, <1>4, <1>6, CgStays DEF CgTypes, Deploying, CgHas

\* The steps of a generation, and the download.
LEMMA CgQuiet ==
    ASSUME CgInv, NEW q \in CgReqs, MinioUpload(q) \/ KeepJob(q) \/ MinioDownload(q)
    PROVE  CgInv'
<1>1. CgTypes /\ CgHas(q) /\ UNCHANGED <<repos, codeRepos, cgBuilds, cgAnswers>> /\ cgTask[q].pc # "done"
  BY DEF MinioUpload, KeepJob, MinioDownload, CgInv, CgAt
<1>2. PICK pc \in {"keep", "done", "repo"} : CgGo(q, pc) /\ (pc = "repo" => cgTask[q].pc = "download")
  BY DEF MinioUpload, KeepJob, MinioDownload, CgAt
<1>3. /\ cgTask' \in [CgReqs -> CgTaskType] /\ CgOthers(q) /\ cgTask'[q].pc = pc
      /\ cgTask'[q].job = cgTask[q].job /\ cgTask'[q].app = cgTask[q].app
  <2>1. pc \in CgPcs
    BY DEF CgPcs
  <2> QED BY <1>1, <1>2, <2>1, CgMoves DEF CgTypes
<1>4. jobStore' \in [CgReplicas -> SUBSET CgReqs]
  BY <1>1 DEF MinioUpload, KeepJob, MinioDownload, CgTypes
<1>5. CgHas(q)'
  BY <1>1, <1>2, <1>3 DEF CgHas
<1> QED BY <1>1, <1>3, <1>4, <1>5, CgStays DEF CgTypes, Deploying

\* Forgejo gives a name once.
LEMMA CreateCodeRepoKeeps ==
    ASSUME CgInv, NEW q \in CgReqs, CreateCodeRepo(q)
    PROVE  CgInv'
<1>0. CgTypes /\ CgAlone /\ CgHas(q) /\ (\A r \in CgReqs : CgHas(r) /\ CgPushes(r)) /\ \A ans \in cgAnswers : CgAnswered(ans)
  BY DEF CgInv
<1>1. PICK t : t = cgTask[q]
  OBVIOUS
<1>2. /\ t \in CgTaskType /\ t.pc = "repo" /\ t.job \in CgReqs /\ t.app \in CgApps
      /\ UNCHANGED <<jobStore, codeRepos, cgBuilds, cgAnswers>>
  BY <1>0, <1>1 DEF CreateCodeRepo, CgTypes, CgHas, CgAt
<1>3. PICK new : new = [job |-> t.job, files |-> {}]
  OBVIOUS
<1>4. new \in RepoType /\ new.job = t.job /\ new.files = {}
  BY <1>2, <1>3 DEF RepoType
<1>5. CASE repos' = repos /\ CgGo(q, "done")
  <2>1. cgTask' \in [CgReqs -> CgTaskType] /\ CgOthers(q) /\ cgTask'[q].pc = "done"
    BY <1>0, <1>5, CgMoves DEF CgTypes, CgPcs
  <2> QED BY <1>0, <1>1, <1>2, <1>5, <2>1, CgStays DEF CgTypes, Deploying, CgHas
<1>6. ASSUME repos[t.app] = NoRepo, repos' = [repos EXCEPT ![t.app] = new],
             \/ CgGo(q, "done")
             \/ cgTask' = [cgTask EXCEPT ![q].pc = "push", ![q].todo = FileNos]
      PROVE  CgInv'
  <2>1. PICK pc \in {"push", "done"} :
           /\ cgTask' \in [CgReqs -> CgTaskType] /\ CgOthers(q) /\ cgTask'[q].pc = pc
           /\ cgTask'[q].job = t.job /\ cgTask'[q].app = t.app
           /\ pc = "push" => cgTask'[q].todo = FileNos
    <3>1. CASE CgGo(q, "done")
      BY <1>0, <1>1, <3>1, CgMoves DEF CgTypes, CgPcs
    <3>2. CASE cgTask' = [cgTask EXCEPT ![q].pc = "push", ![q].todo = FileNos]
      <4> DEFINE f == [cgTask EXCEPT ![q].pc = "push"]
                 g == [f EXCEPT ![q].todo = FileNos]
      <4>1. f \in [CgReqs -> CgTaskType] /\ f[q].pc = "push" /\ f[q].job = t.job /\ f[q].app = t.app
            /\ \A r \in CgReqs \ {q} : f[r] = cgTask[r]
        BY <1>0, <1>1 DEF CgTypes, CgTaskType, CgPcs
      <4>2. cgTask' = g
        BY <3>2
      <4> HIDE DEF f
      <4> QED BY <4>1, <4>2 DEF CgTaskType, CgOthers
    <3> QED BY <1>6, <3>1, <3>2
  <2>2. repos' \in [CgApps -> RepoType] /\ repos'[t.app] = new /\ \A a \in CgApps \ {t.app} : repos'[a] = repos[a]
    BY <1>0, <1>2, <1>4, <1>6 DEF CgTypes
  <2>3. CgTypes'
    BY <1>0, <1>2, <2>1, <2>2 DEF CgTypes
  <2>4. \A r \in CgReqs : Deploying(r) => cgTask[r].app \in CgApps /\ cgTask[r].app # t.app /\ r # q
    <3>1. repos[t.app].job = 0
      BY <1>6 DEF NoRepo
    <3> QED BY <1>0, <1>1, <1>2, <3>1, ApiAssistAssumption DEF CgHas, CgPushes, Deploying
  <2>5. \A ans \in cgAnswers : ans[1] \in CgReqs /\ ans[1] # q /\ ans[2] \in CgApps /\ ans[2] # t.app
    <3>1. repos[t.app].job = 0
      BY <1>6 DEF NoRepo
    <3> QED BY <1>0, <1>1, <1>2, <3>1, ApiAssistAssumption DEF CgAnswered, CgTypes
  <2>6. \A r \in CgReqs \ {q} : cgTask'[r] = cgTask[r] /\ (Deploying(r)' => Deploying(r))
    BY <2>1 DEF CgOthers, Deploying
  <2>7. CgAlone'
    BY <1>0, <2>1, <2>4, <2>6 DEF CgAlone
  <2>8. ASSUME NEW r \in CgReqs
        PROVE  CgHas(r)' /\ CgPushes(r)'
    <3>1. CASE r = q
      BY <1>2, <1>4, <2>1, <2>2, <3>1 DEF CgHas, CgPushes, Deploying
    <3>2. CASE r # q
      <4>1. CgHas(r) /\ CgPushes(r) /\ cgTask'[r] = cgTask[r]
        BY <1>0, <2>6, <3>2
      <4>2. Deploying(r)' => repos'[cgTask[r].app] = repos[cgTask[r].app]
        BY <2>2, <2>4, <2>6, <3>2
      <4> QED BY <4>1, <4>2 DEF CgHas, CgPushes, Deploying
    <3> QED BY <3>1, <3>2
  <2>9. ASSUME NEW ans \in cgAnswers
        PROVE  CgAnswered(ans)'
    <3>1. CgAnswered(ans) /\ cgTask'[ans[1]] = cgTask[ans[1]] /\ repos'[ans[2]] = repos[ans[2]]
      BY <1>0, <2>2, <2>5, <2>6
    <3>2. ans[2] # t.app
      BY <2>5
    <3> QED BY <2>1, <2>6, <3>1, <3>2 DEF CgAnswered
  <2> QED BY <1>2, <2>3, <2>7, <2>8, <2>9 DEF CgInv
<1>7. \/ repos[t.app] = NoRepo /\ repos' = [repos EXCEPT ![t.app] = new]
         /\ (CgGo(q, "done") \/ cgTask' = [cgTask EXCEPT ![q].pc = "push", ![q].todo = FileNos])
      \/ repos' = repos /\ CgGo(q, "done")
  BY <1>1, <1>3 DEF CreateCodeRepo
<1> QED BY <1>5, <1>6, <1>7

\* The smallest of the files left is one of them.
LEMMA NextFile ==
    ASSUME NEW todo \in SUBSET FileNos, todo # {}
    PROVE  (CHOOSE x \in todo : \A y \in todo : x <= y) \in todo
<1>1. todo \subseteq Nat
  BY ApiAssistAssumption DEF FileNos
<1>2. \E x \in todo : \A y \in todo : x <= y
  BY <1>1, LeastNumber
<1> QED BY <1>2

\* A step of a deployment on its own repository.
LEMMA DeploymentSteps ==
    ASSUME CgInv, NEW q \in CgReqs, Deploying(q), CgOthers(q), CgTypes', UNCHANGED cgAnswers,
           \A a \in CgApps : a # cgTask[q].app => repos'[a] = repos[a],
           cgTask'[q].app = cgTask[q].app, Deploying(q)', CgHas(q)', CgPushes(q)'
    PROVE  CgInv'
<1>1. \A r \in CgReqs \ {q} : cgTask'[r] = cgTask[r] /\ (Deploying(r)' <=> Deploying(r))
  BY DEF CgOthers, Deploying
<1>2. CgAlone'
  BY <1>1 DEF CgInv, CgAlone
<1>3. ASSUME NEW r \in CgReqs
      PROVE  CgHas(r)' /\ CgPushes(r)'
  <2>1. CASE r = q
    BY <2>1
  <2>2. CASE r # q
    <3>1. CgHas(r) /\ CgPushes(r) /\ cgTask'[r] = cgTask[r]
      BY <1>1, <2>2 DEF CgInv
    <3>2. Deploying(r) => cgTask[r].app \in CgApps /\ cgTask[r].app # cgTask[q].app
      BY <2>2, <3>1 DEF CgInv, CgAlone, CgHas, Deploying
    <3>3. Deploying(r) => repos'[cgTask[r].app] = repos[cgTask[r].app]
      BY <3>2
    <3> QED BY <3>1, <3>3 DEF CgHas, CgPushes, Deploying
  <2> QED BY <2>1, <2>2
<1>4. ASSUME NEW ans \in cgAnswers
      PROVE  CgAnswered(ans)'
  <2>1. CgAnswered(ans) /\ ans[1] \in CgReqs /\ ans[2] \in CgApps
    BY DEF CgInv, CgTypes
  <2>2. ans[1] # q /\ ans[2] # cgTask[q].app
    BY <2>1 DEF CgAnswered, Deploying
  <2>3. cgTask'[ans[1]] = cgTask[ans[1]] /\ repos'[ans[2]] = repos[ans[2]]
    BY <1>1, <2>1, <2>2
  <2> QED BY <1>1, <2>1, <2>2, <2>3 DEF CgAnswered
<1> QED BY <1>2, <1>3, <1>4 DEF CgInv

LEMMA PushFileKeeps ==
    ASSUME CgInv, NEW q \in CgReqs, PushFile(q)
    PROVE  CgInv'
<1>0. CgTypes /\ CgHas(q) /\ CgPushes(q)
  BY DEF CgInv
<1>1. PICK t, f : t = cgTask[q] /\ f = CHOOSE x \in t.todo : \A y \in t.todo : x <= y
  OBVIOUS
<1>2. /\ t \in CgTaskType /\ t.pc = "push" /\ t.job \in CgReqs /\ t.app \in CgApps /\ f \in t.todo
      /\ UNCHANGED <<jobStore, codeRepos, cgBuilds, cgAnswers>>
  <2>1. t \in CgTaskType /\ t.pc = "push" /\ t.todo \in SUBSET FileNos /\ t.todo # {}
    BY <1>0, <1>1 DEF PushFile, CgTypes, CgTaskType, CgAt
  <2> QED BY <1>0, <1>1, <2>1, NextFile DEF PushFile, CgHas
<1>3. repos[t.app].job = t.job /\ (t.errors = 0 => repos[t.app].files \cup t.todo = FileNos)
  BY <1>0, <1>1, <1>2 DEF CgPushes, Deploying
<1>4. PICK e \in {t.errors, t.errors + 1} :
        /\ \/ cgTask' = [cgTask EXCEPT ![q].todo = @ \ {f}, ![q].errors = e]
           \/ e = t.errors /\ cgTask' = [cgTask EXCEPT ![q].todo = @ \ {f}]
        /\ \/ e = t.errors /\ repos' = [repos EXCEPT ![t.app].files = @ \cup {f}]
           \/ e = t.errors + 1 /\ repos' = repos
  BY <1>0, <1>1 DEF PushFile, CgTypes
<1>5. /\ cgTask' \in [CgReqs -> CgTaskType] /\ CgOthers(q) /\ cgTask'[q].pc = "push"
      /\ cgTask'[q].job = t.job /\ cgTask'[q].app = t.app /\ cgTask'[q].todo = t.todo \ {f} /\ cgTask'[q].errors = e
  <2> DEFINE g == [cgTask EXCEPT ![q].todo = @ \ {f}]
             h == [g EXCEPT ![q].errors = e]
  <2>1. /\ g \in [CgReqs -> CgTaskType] /\ g[q].pc = "push" /\ g[q].job = t.job /\ g[q].app = t.app
        /\ g[q].todo = t.todo \ {f} /\ g[q].errors = t.errors /\ \A r \in CgReqs \ {q} : g[r] = cgTask[r]
    BY <1>0, <1>1, <1>2 DEF CgTypes, CgTaskType
  <2>2. cgTask' = h \/ (e = t.errors /\ cgTask' = g)
    BY <1>4
  <2>3. e \in Nat
    BY <1>2 DEF CgTaskType
  <2> HIDE DEF g
  <2> QED BY <2>1, <2>2, <2>3 DEF CgTaskType, CgOthers
<1>6. /\ repos' \in [CgApps -> RepoType] /\ repos'[t.app].job = t.job
      /\ e = t.errors => repos'[t.app].files = repos[t.app].files \cup {f}
      /\ \A a \in CgApps : a # t.app => repos'[a] = repos[a]
  <2>1. f \in FileNos /\ t.errors \in Nat
    BY <1>2 DEF CgTaskType
  <2>2. CASE e = t.errors /\ repos' = [repos EXCEPT ![t.app].files = @ \cup {f}]
    BY <1>0, <1>2, <1>3, <2>1, <2>2 DEF CgTypes, RepoType
  <2>3. CASE e = t.errors + 1 /\ repos' = repos
    BY <1>0, <1>2, <1>3, <2>1, <2>3 DEF CgTypes
  <2> QED BY <1>4, <2>2, <2>3
<1>7. CgTypes'
  BY <1>0, <1>2, <1>5, <1>6 DEF CgTypes
<1>8. e = 0 => repos'[t.app].files \cup (t.todo \ {f}) = FileNos
  <2>1. t.errors \in Nat
    BY <1>2 DEF CgTaskType
  <2> QED BY <1>2, <1>3, <1>6, <2>1
<1>9. Deploying(q) /\ Deploying(q)' /\ CgHas(q)' /\ CgPushes(q)'
  BY <1>1, <1>2, <1>5, <1>6, <1>8 DEF Deploying, CgHas, CgPushes
<1> QED BY <1>1, <1>2, <1>5, <1>6, <1>7, <1>9, DeploymentSteps

LEMMA TriggerBuildKeeps ==
    ASSUME CgInv, NEW q \in CgReqs, TriggerBuild(q)
    PROVE  CgInv'
<1>0. CgTypes /\ CgHas(q) /\ CgPushes(q)
  BY DEF CgInv
<1>1. PICK t : t = cgTask[q]
  OBVIOUS
<1>2. /\ t.pc = "push" /\ t.todo = {} /\ t.job \in CgReqs /\ t.app \in CgApps /\ CgGo(q, "register")
      /\ cgBuilds' \in {cgBuilds, cgBuilds \cup {<<t.app, t.job>>}}
      /\ UNCHANGED <<jobStore, repos, codeRepos, cgAnswers>>
  BY <1>0, <1>1 DEF TriggerBuild, CgHas, CgAt
<1>3. /\ cgTask' \in [CgReqs -> CgTaskType] /\ CgOthers(q) /\ cgTask'[q].pc = "register"
      /\ cgTask'[q].job = t.job /\ cgTask'[q].app = t.app /\ cgTask'[q].todo = t.todo
      /\ cgTask'[q].errors = t.errors
  BY <1>0, <1>1, <1>2, CgMoves DEF CgTypes, CgPcs
<1>4. CgTypes'
  BY <1>0, <1>2, <1>3 DEF CgTypes
<1>5. Deploying(q) /\ Deploying(q)' /\ CgHas(q)' /\ CgPushes(q)'
  BY <1>0, <1>1, <1>2, <1>3 DEF Deploying, CgHas, CgPushes
<1> QED BY <1>1, <1>2, <1>3, <1>4, <1>5, DeploymentSteps

\* The answer ends the deployment.
LEMMA RegisterAppKeeps ==
    ASSUME CgInv, NEW q \in CgReqs, RegisterApp(q)
    PROVE  CgInv'
<1>0. CgTypes /\ CgAlone /\ CgHas(q) /\ CgPushes(q)
  BY DEF CgInv
<1>1. PICK t : t = cgTask[q]
  OBVIOUS
<1>2. /\ t \in CgTaskType /\ t.pc = "register" /\ t.job \in CgReqs /\ t.app \in CgApps /\ CgGo(q, "done")
      /\ codeRepos' \in {codeRepos, codeRepos \cup {t.app}}
      /\ cgAnswers' = cgAnswers \cup {<<q, t.app, t.errors>>}
      /\ UNCHANGED <<jobStore, repos, cgBuilds>>
  BY <1>0, <1>1 DEF RegisterApp, CgHas, CgAt, CgTypes
<1>3. /\ cgTask' \in [CgReqs -> CgTaskType] /\ CgOthers(q) /\ cgTask'[q].pc = "done"
      /\ cgTask'[q].job = t.job /\ cgTask'[q].app = t.app
  BY <1>0, <1>1, <1>2, CgMoves DEF CgTypes, CgPcs
<1>4. CgTypes'
  <2>1. t.errors \in Nat
    BY <1>2 DEF CgTaskType
  <2> QED BY <1>0, <1>2, <1>3, <2>1 DEF CgTypes
<1>5. /\ \A r \in CgReqs \ {q} : cgTask'[r] = cgTask[r] /\ (Deploying(r)' <=> Deploying(r))
      /\ Deploying(q) /\ ~Deploying(q)'
  BY <1>1, <1>2, <1>3 DEF CgOthers, Deploying
<1>6. CgAlone'
  BY <1>0, <1>5 DEF CgAlone
<1>7. ASSUME NEW r \in CgReqs
      PROVE  CgHas(r)' /\ CgPushes(r)'
  <2>1. CASE r = q
    BY <1>3, <1>5, <2>1 DEF CgHas, CgPushes
  <2>2. CASE r # q
    BY <1>2, <1>5, <2>2 DEF CgInv, CgHas, CgPushes, Deploying
  <2> QED BY <2>1, <2>2
<1>8. ASSUME NEW ans \in cgAnswers'
      PROVE  CgAnswered(ans)'
  <2>1. CASE ans \in cgAnswers
    <3>1. CgAnswered(ans) /\ ans[1] \in CgReqs
      BY <2>1 DEF CgInv, CgTypes
    <3>2. ans[1] # q
      BY <1>1, <1>2, <3>1 DEF CgAnswered
    <3>3. cgTask'[ans[1]] = cgTask[ans[1]]
      BY <1>5, <3>1, <3>2
    <3> QED BY <1>2, <1>5, <3>1, <3>3 DEF CgAnswered
  <2>2. CASE ans = <<q, t.app, t.errors>>
    <3>1. ans[1] = q /\ ans[2] = t.app /\ ans[3] = t.errors
      BY <2>2
    <3>2. repos[t.app].job = t.job /\ (t.errors = 0 => repos[t.app].files = FileNos)
      BY <1>0, <1>1, <1>2 DEF CgPushes, Deploying
    <3>3. \A r \in CgReqs : Deploying(r)' => cgTask'[r].app # t.app
      BY <1>0, <1>1, <1>5 DEF CgAlone
    <3> QED BY <1>2, <1>3, <3>1, <3>2, <3>3 DEF CgAnswered
  <2> QED BY <1>2, <2>1, <2>2
<1> QED BY <1>4, <1>6, <1>7, <1>8 DEF CgInv

\* A restart ends every request of its replica.
LEMMA ApiRestartsKeeps ==
    ASSUME CgInv, NEW r \in CgReplicas, ApiRestarts(r)
    PROVE  CgInv'
<1>0. CgTypes /\ CgAlone
  BY DEF CgInv
<1>1. /\ jobStore' = [jobStore EXCEPT ![r] = {}]
      /\ cgTask' = [q \in CgReqs |-> IF cgTask[q].at = r THEN [cgTask[q] EXCEPT !.pc = "done"] ELSE cgTask[q]]
      /\ UNCHANGED <<repos, codeRepos, cgBuilds, cgAnswers>>
  BY DEF ApiRestarts
<1>2. \A q \in CgReqs : /\ cgTask'[q] \in CgTaskType /\ cgTask'[q].job = cgTask[q].job /\ cgTask'[q].app = cgTask[q].app
                        /\ (cgTask'[q].pc = "done" \/ cgTask'[q] = cgTask[q])
  BY <1>0, <1>1 DEF CgTypes, CgTaskType, CgPcs
<1>3. cgTask' \in [CgReqs -> CgTaskType]
  BY <1>1, <1>2
<1>4. CgTypes'
  BY <1>0, <1>1, <1>3 DEF CgTypes
<1>5. \A q \in CgReqs : Deploying(q)' => Deploying(q) /\ cgTask'[q] = cgTask[q]
  BY <1>2 DEF Deploying
<1>6. CgAlone'
  BY <1>0, <1>5 DEF CgAlone
<1>7. ASSUME NEW q \in CgReqs
      PROVE  CgHas(q)' /\ CgPushes(q)'
  <2>1. CgHas(q) /\ CgPushes(q)
    BY DEF CgInv
  <2> QED BY <1>1, <1>2, <1>5, <2>1 DEF CgHas, CgPushes
<1>8. ASSUME NEW ans \in cgAnswers
      PROVE  CgAnswered(ans)'
  <2>1. CgAnswered(ans) /\ ans[1] \in CgReqs
    BY DEF CgInv, CgTypes
  <2>2. cgTask'[ans[1]].pc = "done" /\ cgTask'[ans[1]].job = cgTask[ans[1]].job
    BY <1>2, <2>1 DEF CgAnswered
  <2> QED BY <1>1, <1>5, <2>1, <2>2 DEF CgAnswered
<1> QED BY <1>1, <1>4, <1>6, <1>7, <1>8 DEF CgInv

LEMMA CgKeeps == CgInv /\ [CodegenNext \/ ForgeNext \/ ObsNext]_assistVars => CgInv'
<1> SUFFICES ASSUME CgInv, [CodegenNext \/ ForgeNext \/ ObsNext]_assistVars
             PROVE  CgInv'
  OBVIOUS
<1>1. CASE CodegenNext
  BY <1>1, CgQuiet, CreateCodeRepoKeeps, PushFileKeeps, TriggerBuildKeeps, RegisterAppKeeps, GenerateCodeKeeps,
     FindJobKeeps, ApiRestartsKeeps DEF CodegenNext
<1>2. CASE ForgeNext \/ ObsNext \/ UNCHANGED assistVars
  <2>1. ForgeNext => UNCHANGED codegenVars
    BY DEF ForgeNext, CallForge, ForgeStarts, ForgeAnswers, ForgeCallback
  <2>2. ObsNext => UNCHANGED codegenVars
    BY DEF ObsNext, IngestView, AcknowledgeIncident, IncidentEnds, UpdateNotebook
  <2>3. UNCHANGED <<jobStore, repos, codeRepos, cgBuilds, cgTask, cgAnswers>>
    BY <1>2, <2>1, <2>2 DEF assistVars, codegenVars
  <2> QED BY <2>3 DEF CgInv, CgTypes, CgAlone, CgHas, CgPushes, CgAnswered, Deploying
<1> QED BY <1>1, <1>2

LEMMA CgDeploysWhole == CgInv => DeployedWhole
BY DEF CgInv, CgAnswered, DeployedWhole

-----------------------------------------------------------------------------
\* The rest of the module: its views add up.
ObsInv ==
    /\ forgeAudit \subseteq ForgeReqs /\ incidents \in {"firing", "acknowledged", "resolved"}
    /\ IsFiniteSet(DOMAIN views) /\ (\A k \in DOMAIN views : views[k] \in Int)
    /\ viewsSeen \in Nat /\ SumFunction(views) = viewsSeen

LEMMA ObsStarts == AssistInit => ObsInv
<1> SUFFICES ASSUME AssistInit
             PROVE  ObsInv
  OBVIOUS
<1>1. DOMAIN views = {} /\ viewsSeen = 0
  BY DEF AssistInit
<1>2. SumFunction(views) = Total(views, {})
  BY <1>1 DEF SumFunction, Total
<1>3. SumFunction(views) = 0
  BY <1>2, TotalEmpty
<1> QED BY <1>1, <1>3, FS_EmptySet DEF AssistInit, ObsInv

LEMMA IngestKeeps ==
    ASSUME ObsInv, NEW q \in ObsReqs, NEW c \in {"null", "IN"}, IngestView(q, c)
    PROVE  ObsInv'
<1>1. PICK key : key = <<c, IF c = "null" THEN viewsSeen + 1 ELSE 0>>
  OBVIOUS
<1>2. /\ viewsSeen' = viewsSeen + 1 /\ UNCHANGED <<forgeAudit, incidents>>
      /\ views' = [k \in DOMAIN views \cup {key} |->
                     IF k # key THEN views[k] ELSE IF key \in DOMAIN views THEN views[k] + 1 ELSE 1]
  BY <1>1 DEF IngestView, forgeVars
<1>3. /\ DOMAIN views' = DOMAIN views \cup {key} /\ (\A k \in DOMAIN views \ {key} : views'[k] = views[k])
      /\ views'[key] = IF key \in DOMAIN views THEN views[key] + 1 ELSE 1
  BY <1>2
<1>4. IsFiniteSet(DOMAIN views') /\ \A k \in DOMAIN views' : views'[k] \in Int
  BY <1>3, FS_AddElement DEF ObsInv
<1>5. SumFunction(views) = Total(views, DOMAIN views) /\ SumFunction(views)' = Total(views', DOMAIN views')
  BY DEF SumFunction, Total
<1>6. Total(views', DOMAIN views') = Total(views, DOMAIN views) + 1
  BY <1>3, TotalCounts DEF ObsInv
<1> QED BY <1>2, <1>4, <1>5, <1>6 DEF ObsInv

LEMMA ObsKeeps == ObsInv /\ [CodegenNext \/ ForgeNext \/ ObsNext]_assistVars => ObsInv'
<1> SUFFICES ASSUME ObsInv, [CodegenNext \/ ForgeNext \/ ObsNext]_assistVars
             PROVE  ObsInv'
  OBVIOUS
<1>1. CodegenNext => UNCHANGED <<forgeVars, obsVars>>
  BY DEF CodegenNext, GenerateCode, MinioUpload, KeepJob, FindJob, MinioDownload, CreateCodeRepo, PushFile,
         TriggerBuild, RegisterApp, ApiRestarts
<1>2. CASE UNCHANGED <<forgeVars, obsVars>>
  BY <1>2 DEF forgeVars, obsVars, ObsInv
<1>3. CASE ForgeNext
  <2>1. UNCHANGED obsVars /\ forgeAudit' \subseteq ForgeReqs
    BY <1>3 DEF ForgeNext, CallForge, ForgeStarts, ForgeAnswers, ForgeCallback, ObsInv
  <2> QED BY <2>1 DEF obsVars, ObsInv
<1>4. CASE ObsNext
  <2>1. CASE AcknowledgeIncident \/ IncidentEnds \/ \E q \in ObsReqs, f \in {"title", "cells"} : UpdateNotebook(q, f)
    BY <2>1 DEF AcknowledgeIncident, IncidentEnds, UpdateNotebook, forgeVars, ObsInv
  <2> QED BY <1>4, <2>1, IngestKeeps DEF ObsNext
<1>5. UNCHANGED assistVars => UNCHANGED <<forgeVars, obsVars>>
  BY DEF assistVars
<1> QED BY <1>1, <1>2, <1>3, <1>4, <1>5

LEMMA AssistTyped == CgInv /\ ObsInv => AssistTypeOK
BY DEF CgInv, CgTypes, RepoType, ObsInv, AssistTypeOK

================================================================================
