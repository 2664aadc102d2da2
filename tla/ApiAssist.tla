-------------------------------- MODULE ApiAssist --------------------------------
(***************************************************************************)
(* Generated applications (routes/codegen.ts), the proxy of the forge      *)
(* (routes/forge.ts) and the records of observability (routes/             *)
(* observability.ts) in tinai-api.  A generated job is kept in the memory  *)
(* of the replica that answered; its archive is in MinIO, its repository   *)
(* in Forgejo.  Handlers interleave between their calls, a call may fail,  *)
(* and a replica may restart.                                              *)
(***************************************************************************)
EXTENDS Naturals, Sequences, FiniteSets, FiniteSetsExt

CONSTANTS
    CgReqs,       \* requests; a job's id is the request that generated it
    CgReplicas,
    CgApps,
    CgFiles,      \* the files of a generated application, a sequence of sizes
    ForgeReqs,
    ObsReqs

\* The job 0 is none; the files are written in their order.
ASSUME ApiAssistAssumption == 0 \notin CgReqs /\ CgFiles \in Seq(Nat)

VARIABLES
    jobStore,     \* per replica: jobs in its memory
    archives,     \* MinIO: the archive of a job as the offsets of its files
    repos,        \* Forgejo: per application the job and the files in its repository
    codeRepos,     \* rows of apps: per application, and whether it names the repository
    cgBuilds,     \* builds triggered: <<application, job>>
    cgTask,       \* per request: step, replica, job, application, files to push, errors
    cgAnswers,    \* history: <<request, application, warnings>> of deployments answered 201
    forgeCalls,   \* per request: its state at the proxy and in the forge
    forgeAudit,   \* rows the forge's callbacks left in audit_log
    views,        \* web_analytics rows: per <<country, request or 0>> the page views
    viewsSeen,    \* history: views ingested
    incidents,    \* status of an alert's incident
    notebook      \* title and cells of a notebook

codegenVars == <<jobStore, archives, repos, codeRepos, cgBuilds, cgTask, cgAnswers>>
forgeVars   == <<forgeCalls, forgeAudit>>
obsVars     == <<views, viewsSeen, incidents, notebook>>
assistVars  == <<codegenVars, forgeVars, obsVars>>

CgIdle == [pc |-> "none", at |-> "none", job |-> 0, app |-> "none", todo |-> {}, errors |-> 0]
NoRepo == [job |-> 0, files |-> {}]
FileNos == DOMAIN CgFiles

AssistInit ==
    /\ jobStore = [r \in CgReplicas |-> {}] /\ archives = [j \in CgReqs |-> <<>>]
    /\ repos = [a \in CgApps |-> NoRepo] /\ codeRepos = {} /\ cgBuilds = {}
    /\ cgTask = [q \in CgReqs |-> CgIdle] /\ cgAnswers = {}
    /\ forgeCalls = [q \in ForgeReqs |-> [proxy |-> "none", forge |-> "none"]] /\ forgeAudit = {}
    /\ views = [k \in {} |-> 0] /\ viewsSeen = 0 /\ incidents = "firing"
    /\ notebook = [title |-> 0, cells |-> 0]

CgAt(q, pc) == cgTask[q].pc = pc
CgGo(q, pc) == cgTask' = [cgTask EXCEPT ![q].pc = pc]

(***************************************************************************)
(* Generated applications                                                  *)
(***************************************************************************)
\* buildZip: a local header of 30 bytes and the name (one byte here) precede
\* each file; the central directory gives the offset of each.
ZipOffsets(sizes) ==
    [k \in DOMAIN sizes |-> MapThenSumSet(LAMBDA j : 31 + sizes[j], 1..(k - 1))]

\* POST /codegen/generate: the model answers, or 502.
GenerateCode(q, r) ==
    /\ CgAt(q, "none")
    /\ \/ cgTask' = [cgTask EXCEPT ![q] = [CgIdle EXCEPT !.pc = "upload", !.at = r, !.job = q]]
       \/ CgGo(q, "done")
    /\ UNCHANGED <<jobStore, archives, repos, codeRepos, cgBuilds, cgAnswers, forgeVars, obsVars>>

\* minioUpload: whatever becomes of it, of the bucket and of the second attempt,
\* the job is kept and answered.
MinioUpload(q) ==
    /\ CgAt(q, "upload") /\ CgGo(q, "keep")
    /\ archives' \in {archives, [archives EXCEPT ![q] = ZipOffsets(CgFiles)]}
    /\ UNCHANGED <<jobStore, repos, codeRepos, cgBuilds, cgAnswers, forgeVars, obsVars>>

KeepJob(q) ==
    /\ CgAt(q, "keep") /\ CgGo(q, "done")
    /\ jobStore' = [jobStore EXCEPT ![cgTask[q].at] = @ \cup {q}]
    /\ UNCHANGED <<archives, repos, codeRepos, cgBuilds, cgAnswers, forgeVars, obsVars>>

\* POST /codegen/deploy, answered by any replica: 404 unless the job is in its
\* memory, 502 unless the archive is in MinIO.
FindJob(q, r, j, a) ==
    /\ CgAt(q, "none")
    /\ cgTask' = [cgTask EXCEPT ![q] =
          [CgIdle EXCEPT !.pc = IF j \in jobStore[r] THEN "download" ELSE "done",
                         !.at = r, !.job = j, !.app = a]]
    /\ UNCHANGED <<jobStore, archives, repos, codeRepos, cgBuilds, cgAnswers, forgeVars, obsVars>>

MinioDownload(q) ==
    /\ CgAt(q, "download")
    /\ \/ archives[cgTask[q].job] # <<>> /\ CgGo(q, "repo")
       \/ CgGo(q, "done")
    /\ UNCHANGED <<jobStore, archives, repos, codeRepos, cgBuilds, cgAnswers, forgeVars, obsVars>>

\* Forgejo refuses a name that exists: an application is deployed once, and one
\* whose deployment ended half-way, or whose answer was lost, never.
CreateCodeRepo(q) ==
    LET t == cgTask[q]
        created == [repos EXCEPT ![t.app] = [job |-> t.job, files |-> {}]] IN
    /\ CgAt(q, "repo")
    /\ \/ /\ repos[t.app] = NoRepo /\ repos' = created
          /\ cgTask' = [cgTask EXCEPT ![q].pc = "push", ![q].todo = FileNos]
       \/ /\ CgGo(q, "done")
          /\ repos' \in {repos} \cup {rs \in {created} : repos[t.app] = NoRepo}
    /\ UNCHANGED <<jobStore, archives, codeRepos, cgBuilds, cgAnswers, forgeVars, obsVars>>

\* The files are pushed one by one; one that fails is counted and left out.
PushFile(q) ==
    LET t == cgTask[q]
        f == CHOOSE x \in t.todo : \A y \in t.todo : x <= y IN
    /\ CgAt(q, "push") /\ t.todo # {}
    /\ \/ /\ repos' = [repos EXCEPT ![t.app].files = @ \cup {f}]
          /\ cgTask' = [cgTask EXCEPT ![q].todo = @ \ {f}]
       \/ /\ repos' = repos
          /\ cgTask' = [cgTask EXCEPT ![q].todo = @ \ {f}, ![q].errors = @ + 1]
    /\ UNCHANGED <<jobStore, archives, codeRepos, cgBuilds, cgAnswers, forgeVars, obsVars>>

\* A build that cannot be triggered is 'pending' in the answer, and stays so.
TriggerBuild(q) ==
    LET t == cgTask[q] IN
    /\ CgAt(q, "push") /\ t.todo = {} /\ CgGo(q, "register")
    /\ cgBuilds' \in {cgBuilds, cgBuilds \cup {<<t.app, t.job>>}}
    /\ UNCHANGED <<jobStore, archives, repos, codeRepos, cgAnswers, forgeVars, obsVars>>

\* The row of apps is best effort; the answer is 201, with the failed pushes.
RegisterApp(q) ==
    LET t == cgTask[q] IN
    /\ CgAt(q, "register") /\ CgGo(q, "done")
    /\ codeRepos' \in {codeRepos, codeRepos \cup {t.app}}
    /\ cgAnswers' = cgAnswers \cup {<<q, t.app, t.errors>>}
    /\ UNCHANGED <<jobStore, archives, repos, cgBuilds, forgeVars, obsVars>>

\* The map of jobs is lost, and with it every request of the replica.
ApiRestarts(r) ==
    /\ jobStore[r] # {} \/ \E q \in CgReqs : cgTask[q].at = r /\ cgTask[q].pc # "done"
    /\ jobStore' = [jobStore EXCEPT ![r] = {}]
    /\ cgTask' = [q \in CgReqs |-> IF cgTask[q].at = r THEN [cgTask[q] EXCEPT !.pc = "done"] ELSE cgTask[q]]
    /\ UNCHANGED <<archives, repos, codeRepos, cgBuilds, cgAnswers, forgeVars, obsVars>>

CodegenNext ==
    \/ \E q \in CgReqs :
          \/ MinioUpload(q) \/ KeepJob(q) \/ MinioDownload(q) \/ CreateCodeRepo(q)
          \/ PushFile(q) \/ TriggerBuild(q) \/ RegisterApp(q)
          \/ \E r \in CgReplicas : \/ GenerateCode(q, r)
                                   \/ \E j \in CgReqs, a \in CgApps : FindJob(q, r, j, a)
    \/ \E r \in CgReplicas : ApiRestarts(r)

(***************************************************************************)
(* The forge                                                               *)
(***************************************************************************)
\* proxyToForge of a build or a rollout: the forge may not be there at all.
CallForge(q) ==
    /\ forgeCalls[q].proxy = "none"
    /\ forgeCalls' \in {[forgeCalls EXCEPT ![q] = [proxy |-> "waiting", forge |-> "asked"]],
                        [forgeCalls EXCEPT ![q].proxy = "503"]}
    /\ UNCHANGED <<codegenVars, forgeAudit, obsVars>>

\* The forge starts, whether or not somebody still waits.
ForgeStarts(q) ==
    /\ forgeCalls[q].forge = "asked" /\ forgeCalls' = [forgeCalls EXCEPT ![q].forge = "started"]
    /\ UNCHANGED <<codegenVars, forgeAudit, obsVars>>

\* The answer, or the timeout of 10 seconds, after which the caller reads 503
\* for what may be under way.
ForgeAnswers(q) ==
    /\ forgeCalls[q].proxy = "waiting"
    /\ \/ forgeCalls[q].forge # "asked" /\ forgeCalls' = [forgeCalls EXCEPT ![q].proxy = "202"]
       \/ forgeCalls' = [forgeCalls EXCEPT ![q].proxy = "503"]
    /\ UNCHANGED <<codegenVars, forgeAudit, obsVars>>

\* POST /forge/callbacks/...-complete: the forge reads 202 even when the row is lost.
ForgeCallback(q) ==
    /\ forgeCalls[q].forge = "started" /\ forgeCalls' = [forgeCalls EXCEPT ![q].forge = "reported"]
    /\ forgeAudit' \in {forgeAudit, forgeAudit \cup {q}}
    /\ UNCHANGED <<codegenVars, obsVars>>

ForgeNext == \E q \in ForgeReqs : CallForge(q) \/ ForgeStarts(q) \/ ForgeAnswers(q) \/ ForgeCallback(q)

(***************************************************************************)
(* Observability                                                           *)
(***************************************************************************)
\* A defect of IngestView: the conflict clause sets the count instead of adding.
IngestOverwrites(q, country) ==
    LET key == <<country, IF country = "null" THEN viewsSeen + 1 ELSE 0>> IN
    /\ viewsSeen < Cardinality(ObsReqs) /\ viewsSeen' = viewsSeen + 1
    /\ views' = [k \in DOMAIN views \cup {key} |-> IF k # key THEN views[k] ELSE 1]
    /\ UNCHANGED <<codegenVars, forgeVars, incidents, notebook>>

\* POST /analytics/ingest: a view without a country or a device conflicts with
\* no row, since they are NULL, and is given a row of its own.
IngestView(q, country) ==
    LET key == <<country, IF country = "null" THEN viewsSeen + 1 ELSE 0>> IN
    /\ viewsSeen < Cardinality(ObsReqs) /\ viewsSeen' = viewsSeen + 1
    /\ views' = [k \in DOMAIN views \cup {key} |->
                    IF k # key THEN views[k] ELSE IF key \in DOMAIN views THEN views[k] + 1 ELSE 1]
    /\ UNCHANGED <<codegenVars, forgeVars, incidents, notebook>>

\* PUT /alerts/incidents/:id/acknowledge takes a resolved incident back.
AcknowledgeIncident ==
    /\ incidents' = "acknowledged" /\ UNCHANGED <<codegenVars, forgeVars, views, viewsSeen, notebook>>
IncidentEnds ==
    /\ incidents # "resolved" /\ incidents' = "resolved"
    /\ UNCHANGED <<codegenVars, forgeVars, views, viewsSeen, notebook>>

\* PUT /observability/notebooks/:id writes only what the body has.
UpdateNotebook(q, field) ==
    /\ notebook' = [notebook EXCEPT ![field] = q]
    /\ UNCHANGED <<codegenVars, forgeVars, views, viewsSeen, incidents>>

ObsNext ==
    \/ \E q \in ObsReqs : \/ \E c \in {"null", "IN"} : IngestView(q, c)
                          \/ \E f \in {"title", "cells"} : UpdateNotebook(q, f)
    \/ AcknowledgeIncident \/ IncidentEnds

(***************************************************************************)
(* Properties                                                              *)
(***************************************************************************)
\* Types of every variable; the views of the rows add up to those ingested.
AssistTypeOK ==
    /\ jobStore \in [CgReplicas -> SUBSET CgReqs]
    /\ \A a \in CgApps : repos[a].files \subseteq FileNos /\ repos[a].job \in CgReqs \cup {0}
    /\ codeRepos \subseteq CgApps /\ cgBuilds \subseteq CgApps \X CgReqs
    /\ forgeAudit \subseteq ForgeReqs /\ incidents \in {"firing", "acknowledged", "resolved"}
    /\ SumFunction(views) = viewsSeen

\* A deployment answered 201 without a warning left every file of its job in the
\* repository, and nobody else's, whichever other deployments of the name were
\* under way or which replicas restarted (codegen.ts:460-515, 572-579).
DeployedWhole == \A ans \in cgAnswers :
    /\ repos[ans[2]].job = cgTask[ans[1]].job
    /\ ans[3] = 0 => repos[ans[2]].files = FileNos
================================================================================
