--------------------------------- MODULE ApiApps ---------------------------------
(***************************************************************************)
(* The application routes of tinai-api (routes/apps.ts, customDomains.ts,  *)
(* git.ts, the registration of templates.ts).  One application name that two      *)
(* tenants may register one after the other, its database credentials,     *)
(* environment variables, deployments and one custom domain.  A request is *)
(* a task whose steps are the handler's awaits: whatever another request   *)
(* does comes between them.  Every handler but the registrations starts    *)
(* with the same read of the row and refusal of other tenants.             *)
(***************************************************************************)
EXTENDS Integers, Sequences, FiniteSets

CONSTANTS
    AppReqs,      \* requests, each handled once
    AppTenants,   \* tenants; "admin" registers templates as tinai-admin
    AppEnvs,      \* environments, "production" among them
    VarKeys,      \* names of environment variables
    Images        \* images a deploy request names

ASSUME ApiAppsAssumption ==
    /\ "production" \in AppEnvs /\ "none" \notin Images
    /\ AppReqs \subseteq Nat \ {0}
    /\ {"none", "admin"} \cap AppTenants = {}

VARIABLES
    appOwner,     \* apps.owner of the row, or "none": no row
    appTask,      \* per request: what it does, where it is, what it has read
    appDb,        \* [role, secret]: generation of the password in each, 0 absent
    appRows,      \* tables in which provisioning has left a row for the name, and
                  \* "database" when the database itself is there
    appTwin,      \* the database was made for another name with the same slug
    appVars,      \* app_env_vars: per environment, the keys
    appMap,       \* ConfigMaps: [ver, keys] per environment and "legacy"
    appImage,     \* image of the Deployment per environment, or "none"
    appHistory,   \* app_deployments: <<environment, image, promoted from>>
    appDomain,    \* custom_domains row: "none", "pending" or "verified"
    appRepos,     \* Forgejo: owners under which a repository of the name exists
    appHooks,     \* Forgejo: build webhooks registered on each of them
    appRoute,     \* [ver, rule]: the Ingress, and whether it routes the domain
    appDropped    \* history: the row has been deleted

appVarsAll == <<appOwner, appTask, appDb, appRows, appTwin, appVars, appMap, appImage,
                appHistory, appDomain, appRoute, appRepos, appHooks, appDropped>>
dbVars     == <<appDb, appRows, appTwin>>
gitVars    == <<appRepos, appHooks>>
envVars    == <<appVars, appMap>>
deployVars == <<appImage, appHistory>>
domVars    == <<appDomain, appRoute>>

Maps   == AppEnvs \cup {"legacy"}
NoMap  == [ver |-> 0, keys |-> {}]
NoTask == [pc |-> "none", op |-> "none", who |-> "none", env |-> "production",
           keys |-> {}, seen |-> NoMap, image |-> "none", from |-> "none"]

RepoOwners == AppTenants \cup {"tinai-admin"}

\* The tables autoProvisionResources writes, in its order around the secret.
Tables == {"app_databases", "storage_buckets", "custom_domains"}
ProvisionSteps == <<"database", "role", "app_databases", "storage_buckets", "secret", "custom_domains">>

AppsInit ==
    /\ appTask = [q \in AppReqs |-> NoTask]
    /\ \/ appOwner = "none" /\ appDb = [role |-> 0, secret |-> 0] /\ appRows = {}
       \/ appOwner \in AppTenants /\ appDb = [role |-> 1, secret |-> 1]
          /\ appRows = Tables \cup {"database"}
    /\ appTwin = FALSE
    /\ appVars = [e \in AppEnvs |-> {}] /\ appMap = [m \in Maps |-> NoMap]
    /\ appImage = [e \in AppEnvs |-> "none"] /\ appHistory = {}
    /\ appDomain = "none" /\ appRoute = [ver |-> 0, rule |-> FALSE]
    /\ appRepos = {} /\ appHooks = [o \in RepoOwners |-> 0]
    /\ appDropped = FALSE

At(q, pc) == appTask[q].pc = pc
AppGo(q, pc) == appTask' = [appTask EXCEPT ![q].pc = pc]
AppOp(q, op) == appTask[q].op = op

\* A request arrives.  A registration goes to its insert, or first to Forgejo
\* when it asks for a repository; other handlers go to the read of the row.
AppCall(q, op, who, env, keys, image, from) ==
    /\ At(q, "none")
    /\ appTask' = [appTask EXCEPT ![q] =
         [pc |-> CASE op = "create" -> "insert" [] op \in {"createrepo", "repo"} -> "org"
                   [] op = "hook" -> "mayhook" [] OTHER -> "check", op |-> op, who |-> who,
          env |-> env, keys |-> keys, seen |-> NoMap, image |-> image, from |-> from]]
    /\ UNCHANGED <<appOwner, dbVars, gitVars, envVars, deployVars, domVars, appDropped>>

\* SELECT owner FROM apps: 404 without a row, 403 when it is another tenant's.
AppCheck(q) ==
    /\ At(q, "check")
    /\ AppGo(q, IF appOwner = appTask[q].who THEN "begin" ELSE "done")
    /\ UNCHANGED <<appOwner, dbVars, gitVars, envVars, deployVars, domVars, appDropped>>

(***************************************************************************)
(* Forgejo                                                                 *)
(***************************************************************************)
\* ensureTenantOrg: the organisation is there or made, or the repository will
\* be tinai-admin's.  The task's `from' is the owner.
EnsureOrg(q) ==
    /\ At(q, "org")
    /\ \E o \in {appTask[q].who, "tinai-admin"} :
         appTask' = [appTask EXCEPT ![q] = [@ EXCEPT !.pc = "repo", !.from = o]]
    /\ UNCHANGED <<appOwner, dbVars, gitVars, envVars, deployVars, domVars, appDropped>>

\* POST .../repos: an existing repository (409) ends POST /git/repos and is
\* taken over by POST /apps; any other failure ends both.
CreateRepo(q) ==
    LET o == appTask[q].from IN
    /\ At(q, "repo")
    /\ \/ o \notin appRepos /\ appRepos' = appRepos \cup {o} /\ AppGo(q, "hook")
       \/ o \in appRepos /\ AppOp(q, "createrepo") /\ UNCHANGED appRepos /\ AppGo(q, "hook")
       \/ UNCHANGED appRepos /\ AppGo(q, "done")
    /\ UNCHANGED <<appOwner, dbVars, appHooks, envVars, deployVars, domVars, appDropped>>

\* registerWebhook adds a hook, whether or not one is there; a failure is
\* logged.  POST /apps then inserts its row.
RegisterWebhook(q) ==
    LET o == appTask[q].from IN
    /\ At(q, "hook")
    /\ AppGo(q, IF AppOp(q, "createrepo") THEN "insert" ELSE "done")
    /\ \/ o \in appRepos /\ appHooks' = [appHooks EXCEPT ![o] = @ + 1]
       \/ UNCHANGED appHooks
    /\ UNCHANGED <<appOwner, dbVars, appRepos, envVars, deployVars, domVars, appDropped>>

\* POST /git/webhooks: for a repository under the tenant's own name, or one
\* that its application row names.
HookAllowed(q) ==
    LET t == appTask[q] IN
    /\ At(q, "mayhook")
    /\ AppGo(q, IF t.from = t.who \/ appOwner = t.who THEN "hook" ELSE "done")
    /\ UNCHANGED <<appOwner, dbVars, gitVars, envVars, deployVars, domVars, appDropped>>

(***************************************************************************)
(* Registration and deletion                                               *)
(***************************************************************************)
\* A defect of InsertApp: the owner registers a second time.
InsertAgain(q) ==
    /\ At(q, "insert")
    /\ IF appOwner \in {"none", appTask[q].who} THEN appOwner' = appTask[q].who /\ AppGo(q, "database")
                                               ELSE appOwner' = appOwner /\ AppGo(q, "done")
    /\ UNCHANGED <<dbVars, gitVars, envVars, deployVars, domVars, appDropped>>

\* INSERT INTO apps: the name is unique, a second row fails the request.
InsertApp(q) ==
    /\ At(q, "insert")
    /\ IF appOwner = "none" THEN appOwner' = appTask[q].who /\ AppGo(q, "database")
                            ELSE appOwner' = appOwner /\ AppGo(q, "done")
    /\ UNCHANGED <<dbVars, gitVars, envVars, deployVars, domVars, appDropped>>

\* POST /apps/from-template: looks, then inserts for tinai-admin, and
\* provisions nothing.
InsertTemplate(q) ==
    /\ At(q, "none") /\ appOwner = "none"
    /\ appOwner' = "admin" /\ AppGo(q, "done")
    /\ UNCHANGED <<dbVars, gitVars, envVars, deployVars, domVars, appDropped>>

AfterStep(s) ==
    LET i == CHOOSE n \in 1..Len(ProvisionSteps) : ProvisionSteps[n] = s IN
    IF i = Len(ProvisionSteps) THEN "done" ELSE ProvisionSteps[i + 1]

\* autoProvisionResources, one best-effort step at a time: a failed step is
\* put on the list of errors and the next one is tried.
ProvisionStepFails(q) ==
    /\ \E s \in {"database", "role", "secret"} \cup Tables :
         At(q, s) /\ AppGo(q, IF s = "database" THEN "app_databases" ELSE AfterStep(s))
    /\ UNCHANGED <<appOwner, dbVars, gitVars, envVars, deployVars, domVars, appDropped>>

\* CREATE DATABASE of the slug: one that exists skips the role.  The password of request
\* q is generation q + 1.
CreateDatabase(q) ==
    /\ At(q, "database")
    /\ IF "database" \in appRows THEN AppGo(q, "app_databases") /\ UNCHANGED appRows
                                 ELSE AppGo(q, "role") /\ appRows' = appRows \cup {"database"}
    /\ UNCHANGED <<appOwner, appDb, appTwin, gitVars, envVars, deployVars, domVars, appDropped>>

CreateRole(q) ==
    /\ At(q, "role") /\ AppGo(q, "app_databases")
    /\ appDb' = [appDb EXCEPT !.role = IF @ = 0 THEN q + 1 ELSE @]
    /\ UNCHANGED <<appOwner, appRows, appTwin, gitVars, envVars, deployVars, domVars, appDropped>>

\* The slug takes '-' for '_', so an application of another name, a_b beside
\* a-b, may be provisioned into the same database and role.  When its request
\* comes second it changes nothing here; when it comes first the role has its
\* password, the generation 1 that no request of this name makes.
TwinDatabase ==
    /\ "database" \notin appRows /\ appRows' = appRows \cup {"database"} /\ appTwin' = TRUE
    /\ UNCHANGED <<appOwner, appTask, appDb, gitVars, envVars, deployVars, domVars, appDropped>>

TwinRole ==
    /\ appTwin /\ appDb.role = 0 /\ appDb' = [appDb EXCEPT !.role = 1]
    /\ UNCHANGED <<appOwner, appTask, appRows, appTwin, gitVars, envVars, deployVars, domVars, appDropped>>

\* The rows of the other tables: read, and insert what is missing.
RecordResource(q) ==
    /\ \E t \in Tables : At(q, t) /\ appRows' = appRows \cup {t} /\ AppGo(q, AfterStep(t))
    /\ UNCHANGED <<appOwner, appDb, appTwin, gitVars, envVars, deployVars, domVars, appDropped>>

\* The Kubernetes secret: kept when it can be read, created when it cannot.
CreateSecret(q) ==
    /\ At(q, "secret") /\ AppGo(q, "custom_domains")
    /\ appDb' = [appDb EXCEPT !.secret = IF @ = 0 THEN q + 1 ELSE @]
    /\ UNCHANGED <<appOwner, appRows, appTwin, gitVars, envVars, deployVars, domVars, appDropped>>

\* DELETE /apps/:name removes the row, by name, and nothing else.
DeleteApp(q) ==
    /\ At(q, "begin") /\ AppOp(q, "delete")
    /\ appOwner' = "none" /\ appDropped' = TRUE /\ AppGo(q, "done")
    /\ UNCHANGED <<dbVars, gitVars, envVars, deployVars, domVars>>

(***************************************************************************)
(* Environment variables                                                   *)
(***************************************************************************)
MapOf(q) == IF appTask[q].op \in {"set", "unset"} THEN "legacy" ELSE appTask[q].env

\* POST /env/:environment inserts one key after the other; DELETE removes
\* one, 404 when it is not there.
StoreVars(q) ==
    /\ At(q, "begin") /\ AppOp(q, "setvars")
    /\ appVars' = [appVars EXCEPT ![appTask[q].env] = @ \cup appTask[q].keys]
    /\ AppGo(q, "map")
    /\ UNCHANGED <<appOwner, dbVars, gitVars, appMap, deployVars, domVars, appDropped>>

DropVar(q) ==
    LET t == appTask[q] IN
    /\ At(q, "begin") /\ AppOp(q, "dropvar")
    /\ appVars' = [appVars EXCEPT ![t.env] = @ \ t.keys]
    /\ AppGo(q, IF t.keys \subseteq appVars[t.env] THEN "map" ELSE "done")
    /\ UNCHANGED <<appOwner, dbVars, gitVars, appMap, deployVars, domVars, appDropped>>

\* The ConfigMap is read with its resourceVersion ...
ReadMap(q) ==
    /\ \/ At(q, "map")
       \/ At(q, "begin") /\ appTask[q].op \in {"set", "unset"}
    /\ appTask' = [appTask EXCEPT ![q] = [@ EXCEPT !.pc = "put", !.seen = appMap[MapOf(q)]]]
    /\ UNCHANGED <<appOwner, dbVars, gitVars, envVars, deployVars, domVars, appDropped>>

\* A defect of Matches: the replacement names no resourceVersion.
AnyVersion(m, seen) == m.ver # 0

Matches(m, seen) == m.ver # 0 /\ m.ver = seen.ver

\* ... and replaced by the merge.  When the read or the replacement failed,
\* an addition tries to create the map, which only succeeds if there is none.
MapAfter(q, m) ==
    LET t == appTask[q]  adds == t.op \in {"set", "setvars"} IN
    IF Matches(m, t.seen)
    THEN [ver |-> m.ver + 1, keys |-> IF adds THEN t.seen.keys \cup t.keys ELSE t.seen.keys \ t.keys]
    ELSE IF adds /\ m.ver = 0 THEN [ver |-> 1, keys |-> t.keys] ELSE m
PutMap(q) ==
    /\ At(q, "put") /\ AppGo(q, "done")
    /\ appMap' = [appMap EXCEPT ![MapOf(q)] = MapAfter(q, @)]
    /\ UNCHANGED <<appOwner, dbVars, gitVars, appVars, deployVars, domVars, appDropped>>

(***************************************************************************)
(* Deployments                                                             *)
(***************************************************************************)
\* POST /deploy/env takes the image of the request, /promote the one the
\* source environment runs, and refuses when there is none.
ChooseImage(q) ==
    LET t == appTask[q]  img == IF t.from = "none" THEN t.image ELSE appImage[t.from] IN
    /\ At(q, "begin") /\ AppOp(q, "deploy")
    /\ appTask' = [appTask EXCEPT ![q] =
         [@ EXCEPT !.pc = IF img = "none" THEN "done" ELSE "upsert", !.image = img]]
    /\ UNCHANGED <<appOwner, dbVars, gitVars, envVars, deployVars, domVars, appDropped>>

\* upsertK8sDeployment: replace without a resourceVersion, or create; when
\* both fail the request fails and nothing is recorded.
UpsertDeployment(q) ==
    LET t == appTask[q] IN
    /\ At(q, "upsert")
    /\ \/ appImage' = [appImage EXCEPT ![t.env] = t.image] /\ AppGo(q, "record")
       \/ UNCHANGED appImage /\ AppGo(q, "done")
    /\ UNCHANGED <<appOwner, dbVars, gitVars, envVars, appHistory, domVars, appDropped>>

\* The history row; a failed insert is logged.
RecordDeployment(q) ==
    LET t == appTask[q] IN
    /\ At(q, "record") /\ AppGo(q, "done")
    /\ \/ appHistory' = appHistory \cup {<<t.env, t.image, t.from>>}
       \/ UNCHANGED appHistory
    /\ UNCHANGED <<appOwner, dbVars, gitVars, envVars, appImage, domVars, appDropped>>

(***************************************************************************)
(* Custom domain                                                           *)
(***************************************************************************)
\* POST /domains: 409 for one that is registered; DELETE: 404 for one that
\* is not.  Then the Ingress is read and replaced, or created, or left.
DomainRow(q) ==
    LET op == appTask[q].op IN
    /\ At(q, "begin") /\ op \in {"adddomain", "deldomain"}
    /\ IF (op = "adddomain") = (appDomain = "none")
       THEN /\ appDomain' = IF op = "adddomain" THEN "pending" ELSE "none"
            /\ appTask' = [appTask EXCEPT ![q].pc = "route", ![q].seen.ver = appRoute.ver]
       ELSE AppGo(q, "done") /\ UNCHANGED appDomain
    /\ UNCHANGED <<appOwner, dbVars, gitVars, envVars, deployVars, appRoute, appDropped>>

\* upsertIngressRule, removeIngressRule: a conflict or a failure is logged.
WriteRoute(q) ==
    /\ At(q, "route") /\ AppGo(q, "done")
    /\ \/ /\ appRoute.ver = appTask[q].seen.ver
          /\ appRoute.ver # 0 \/ AppOp(q, "adddomain")
          /\ appRoute' = [ver |-> appRoute.ver + 1, rule |-> AppOp(q, "adddomain")]
       \/ UNCHANGED appRoute
    /\ UNCHANGED <<appOwner, dbVars, gitVars, envVars, deployVars, appDomain, appDropped>>

\* POST /domains/:domain/verify: the TXT record is looked up between the read
\* and the update; a row deleted meanwhile stays deleted.
VerifyDomain(q) ==
    /\ At(q, "begin") /\ AppOp(q, "verify") /\ AppGo(q, "done")
    /\ \/ appDomain # "none" /\ appDomain' = "verified"
       \/ UNCHANGED appDomain
    /\ UNCHANGED <<appOwner, dbVars, gitVars, envVars, deployVars, appRoute, appDropped>>

AppStep(q) ==
    \/ EnsureOrg(q) \/ CreateRepo(q) \/ RegisterWebhook(q) \/ HookAllowed(q)
    \/ AppCheck(q) \/ InsertApp(q) \/ ProvisionStepFails(q) \/ CreateDatabase(q) \/ CreateRole(q)
    \/ RecordResource(q) \/ CreateSecret(q) \/ DeleteApp(q) \/ StoreVars(q) \/ DropVar(q)
    \/ ReadMap(q) \/ PutMap(q) \/ ChooseImage(q) \/ UpsertDeployment(q) \/ RecordDeployment(q)
    \/ DomainRow(q) \/ WriteRoute(q) \/ VerifyDomain(q)

\* Registrations and deletions; variables; deployments and the domain: three
\* groups of requests that a run can take one at a time.
RegisterCalls == \E q \in AppReqs, w \in AppTenants : \E op \in {"create", "delete"} :
    AppCall(q, op, w, "production", {}, "none", "none")
RepoCalls == \E q \in AppReqs, w \in AppTenants :
    \/ \E op \in {"createrepo", "repo"} : AppCall(q, op, w, "production", {}, "none", "none")
    \/ \E o \in RepoOwners : AppCall(q, "hook", w, "production", {}, "none", o)
VarCalls == \E q \in AppReqs, w \in AppTenants, ks \in SUBSET VarKeys :
    \/ ks # {} /\ \E e \in AppEnvs : AppCall(q, "setvars", w, e, ks, "none", "none")
    \/ ks # {} /\ AppCall(q, "set", w, "production", ks, "none", "none")
    \/ Cardinality(ks) = 1 /\ \E e \in AppEnvs : AppCall(q, "dropvar", w, e, ks, "none", "none")
    \/ Cardinality(ks) = 1 /\ AppCall(q, "unset", w, "production", ks, "none", "none")
DeployCalls == \E q \in AppReqs, w \in AppTenants :
    \/ \E e \in AppEnvs, i \in Images : AppCall(q, "deploy", w, e, {}, i, "none")
    \/ \E e, f \in AppEnvs : f \notin {e, "production"} /\ AppCall(q, "deploy", w, e, {}, "none", f)
    \/ \E op \in {"adddomain", "deldomain", "verify"} : AppCall(q, op, w, "production", {}, "none", "none")

AppSteps     == \E q \in AppReqs : AppStep(q)
RegisterNext == RegisterCalls \/ (\E q \in AppReqs : InsertTemplate(q)) \/ TwinDatabase \/ TwinRole \/ AppSteps
RepoNext     == RepoCalls \/ AppSteps
VarNext      == VarCalls \/ AppSteps
DeployNext   == DeployCalls \/ AppSteps
AppsNext     == RegisterNext \/ RepoNext \/ VarNext \/ DeployNext
AppsSpec     == AppsInit /\ [][AppsNext]_appVarsAll

-----------------------------------------------------------------------------
AppsTypeOK ==
    /\ appOwner \in AppTenants \cup {"none", "admin"}
    /\ appDb \in [role : Nat, secret : Nat]
    /\ appRows \subseteq Tables \cup {"database"} /\ appTwin \in BOOLEAN
    /\ appVars \in [AppEnvs -> SUBSET VarKeys]
    /\ \A m \in Maps : appMap[m].keys \subseteq VarKeys
    /\ appImage \in [AppEnvs -> Images \cup {"none"}]
    /\ \A h \in appHistory : h[1] \in AppEnvs /\ h[2] \in Images
    /\ appRepos \subseteq RepoOwners /\ appHooks \in [RepoOwners -> Nat]
    /\ appDomain \in {"none", "pending", "verified"}

(* As long as the application has not been deleted, the password in its    *)
(* Kubernetes secret is the one its database role has, whichever steps of  *)
(* provisioning failed, however often the registration was sent and even   *)
(* when another name with the same slug is registered after it: the unique *)
(* name lets one registration through, and the first database makes the    *)
(* role.  It is not so for the second of two names with one slug, nor after *)
(* a deletion, which leaves role and secret behind (apps.ts:104-131).       *)
CredentialsMatch ==
    ~appDropped /\ ~appTwin /\ appDb.role # 0 /\ appDb.secret # 0 => appDb.role = appDb.secret

(* Every request of the variable routes takes effect on its ConfigMap once, *)
(* at one moment, or not at all (KeyStore): of two concurrent              *)
(* read-merge-replace handlers the resourceVersion refuses the one that    *)
(* did not see the other's keys, so no key is lost and none comes back.     *)
KeyOps == {"set", "setvars", "unset", "dropvar"}
KeysOf == [m \in Maps |-> appMap[m].keys]
AskedOf == [q \in AppReqs |->
    IF At(q, "none") \/ appTask[q].op \notin KeyOps
    THEN [op |-> "none", store |-> "none", keys |-> {}, over |-> FALSE]
    ELSE [op |-> IF appTask[q].op \in {"set", "setvars"} THEN "add" ELSE "remove",
          store |-> MapOf(q), keys |-> appTask[q].keys, over |-> At(q, "done")]]
Promised == INSTANCE KeyStore WITH Stores <- Maps, Requests <- AppReqs, Keys <- VarKeys,
                                   content <- KeysOf, request <- AskedOf
VariablesAreAtomic == Promised!Spec
=================================================================================
