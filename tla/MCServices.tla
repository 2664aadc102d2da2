------------------------------ MODULE MCServices ------------------------------
(***************************************************************************)
(* One instance of the services and of the clients around the platform     *)
(* API.  They share no state, so a behaviour follows one of them, the      *)
(* focus, while the others stay as they started; a component of several    *)
(* parts has a focus for each.                                             *)
(***************************************************************************)
EXTENDS BillingChain, PlansAndInvoices, Metering, OpsPipeline, OpsTenants, OpsAlerts,
        Maintenance, Reporting, InfraCli, JsClient, WebMail, DashPages, DashEnv, DashSignIn

VARIABLE focus

MCPayEvents == {[id |-> 1, provider |-> "razorpay", kind |-> "failed", tenant |-> "acme"],
                [id |-> 2, provider |-> "razorpay", kind |-> "success", tenant |-> "acme"],
                [id |-> 4, provider |-> "stripe", kind |-> "failed", tenant |-> "acme"],
                [id |-> 0, provider |-> "razorpay", kind |-> "failed", tenant |-> "acme"]}
Firing(a)   == [fp |-> a, status |-> "firing"]
Resolved(a) == [fp |-> a, status |-> "resolved"]
MCPayloads  == {<<Firing("a"), Firing("b")>>, <<Resolved("a")>>, <<Firing("b"), Firing("c")>>,
                <<Resolved("b"), Resolved("c")>>}
MCDlqSubject == [s1 |-> "billing", s2 |-> "billing", s3 |-> "ops"]

Foci == {"pay", "trial", "plan", "invoice", "meter", "batches", "pipe", "scale", "tenants", "incident", "dlq", "egress", "scan",
         "claim", "secret", "heal", "jobs", "usage", "compliance", "gst", "mrr", "cli",
         "client", "reader", "writer", "pages", "env", "adds", "signin"}

\* What starts in several ways does so only in its own focus.
SvcInit ==
    /\ focus \in Foci
    /\ BillInit /\ MeterInit /\ InvInit /\ TenantsInit /\ AlertsInit
    /\ PlanInit /\ (focus # "plan" => \A t \in PlanTenants : quota[t] = NoPlan /\ lagoPlan[t] = "pro")
    /\ PipeInit /\ (focus # "pipe" => sound = {}) /\ sound # Pushes /\ (focus # "scale" => planLabel = "starter")
    /\ MaintInit /\ (focus # "claim" => mounted = {}) /\ (focus # "secret" => dryRun = FALSE /\ oldLease = FALSE)
    /\ ReportingInit /\ (focus \notin {"usage", "compliance", "gst"} => repMonth = 13)
    /\ (focus # "gst" => \A i \in InvIds : repInvoices[i] = [month |-> repMonth - 1, inr |-> TRUE, paid |-> TRUE])
    /\ CliInit /\ (focus # "cli" => (\A s \in Services : ~HasService(s)) /\ spec.domains = <<>>)
    /\ JsInit /\ (focus # "client" => stored = "none" /\ token = "none")
    /\ WebMailInit /\ (focus \notin {"reader", "writer"} => cookie = "none")
    /\ DashPagesInit /\ (focus # "pages" => dash.kind = "generate")
    /\ EnvInit /\ (focus # "env" => configMap = NoVars)
    /\ SignInit /\ (focus # "signin" => sessionPosts = 0)

\* With one life of the process the namespaces are posted in any batches.
AllInOneBatch == \A r \in Runs : cycle[r].pc = "post" => cycle[r].batch = MeterNs

\* One report at a time, as each has a CronJob of its own.
OnlyReport(k) == \A other \in Reports \ {k} : job'[other] = JobIdle

\* Nothing is done on the configuration page but adding a variable or a domain.
OnlyAdds ==
    /\ editor.edit = "none" /\ editor.confirm = "none" /\ ~editor.bulk
    /\ \A c \in DOMAIN envCalls :
          envCalls[c].op \notin {"deploy", "unset"} /\ (envCalls[c].op = "set" => envCalls[c].part = "add")
    /\ config.tab # "settings"

ClientSide == <<jsVars, webMailVars, dashVars, editorVars, signVars>>

BillStep ==
    /\ \/ focus = "pay" /\ (PayNext \/ (billDay < 4 /\ BillTick))
       \/ focus = "trial" /\ (TrialNext \/ BillTick)
    /\ UNCHANGED <<planVars, invVars, meterVars, pipeVars, tenantVars, alertVars, maintVars, reportingVars, cliVars, ClientSide>>
DeskStep ==
    /\ \/ focus = "plan" /\ PlanNext /\ UNCHANGED <<invVars, meterVars>>
       \/ focus = "invoice" /\ InvNext /\ UNCHANGED <<planVars, meterVars>>
       \/ focus = "meter" /\ MeterNext /\ AllInOneBatch' /\ UNCHANGED <<planVars, invVars>>
       \/ focus = "batches" /\ MeterNext /\ meterLives' = 1 /\ manualRuns' = 0 /\ UNCHANGED <<planVars, invVars>>
    /\ UNCHANGED <<billVars, pipeVars, tenantVars, alertVars, maintVars, reportingVars, cliVars, ClientSide>>
OpsStep ==
    /\ \/ focus = "pipe" /\ PipeNext /\ UNCHANGED <<tenantVars, alertVars>>
       \/ focus = "scale" /\ ScaleNext /\ UNCHANGED <<tenantVars, alertVars>>
       \/ focus = "tenants" /\ TenantsNext /\ UNCHANGED <<pipeVars, alertVars>>
       \/ focus = "incident" /\ IncidentNext /\ UNCHANGED <<pipeVars, tenantVars>>
       \/ focus = "dlq" /\ DlqNext /\ UNCHANGED <<pipeVars, tenantVars>>
       \/ focus = "egress" /\ EgressNext /\ UNCHANGED <<pipeVars, tenantVars>>
       \/ focus = "scan" /\ ScanNext /\ UNCHANGED <<pipeVars, tenantVars>>
    /\ UNCHANGED <<billVars, planVars, invVars, meterVars, maintVars, reportingVars, cliVars, ClientSide>>
MaintStep ==
    /\ \/ focus = "claim" /\ ClaimNext
       \/ focus = "secret" /\ SecretNext
       \/ focus = "heal" /\ HealNext
       \/ focus = "jobs" /\ JobNext
    /\ UNCHANGED <<billVars, planVars, invVars, meterVars, pipeVars, tenantVars, alertVars, reportingVars, cliVars, ClientSide>>
ReportStep ==
    /\ \/ focus = "usage" /\ ReportNext /\ OnlyReport("usage") /\ attested' = {}
       \/ focus = "compliance" /\ ReportNext /\ OnlyReport("compliance")
       \/ focus = "gst" /\ ReportNext /\ OnlyReport("gst") /\ attested' = {}
       \/ focus = "mrr" /\ DashNext
    /\ UNCHANGED <<billVars, planVars, invVars, meterVars, pipeVars, tenantVars, alertVars, maintVars, cliVars, ClientSide>>
CliStep ==
    /\ focus = "cli" /\ CliNext
    /\ UNCHANGED <<billVars, planVars, invVars, meterVars, pipeVars, tenantVars, alertVars, maintVars, reportingVars, ClientSide>>

\* The writer reads nothing, the reader writes nothing.
ServiceSide == <<billVars, planVars, invVars, meterVars, pipeVars, tenantVars, alertVars, maintVars, reportingVars, cliVars>>
ClientStep ==
    /\ \/ focus = "client" /\ JsNext /\ UNCHANGED <<webMailVars, dashVars, editorVars, signVars>>
       \/ focus = "writer" /\ WebMailNext /\ UNCHANGED <<jsVars, dashVars, editorVars, signVars>>
                           /\ ui'.mail = 0 /\ ~ui'.search /\ seen \subseteq seen' /\ ui'.box \in {"none", "inbox"}
                           /\ cookie' # "none"
       \/ focus = "reader" /\ WebMailNext /\ composed'.opened = 0 /\ (Len(calls') = MaxCalls => ui'.mail # 0)
                           /\ UNCHANGED <<jsVars, dashVars, editorVars, signVars>>
       \/ focus = "pages" /\ DashPagesNext /\ (dash'.visit > 1 => Len(asked') < MaxAsked)
                          /\ UNCHANGED <<jsVars, webMailVars, editorVars, signVars>>
       \/ focus \in {"env", "adds"} /\ EnvNext /\ (focus = "env" => Len(envCalls') <= 3) /\ (focus = "adds" => OnlyAdds')
                          /\ UNCHANGED <<jsVars, webMailVars, dashVars, signVars>>
       \/ focus = "signin" /\ SignNext /\ UNCHANGED <<jsVars, webMailVars, dashVars, editorVars>>
    /\ UNCHANGED ServiceSide

SvcVars == <<focus, billVars, planVars, invVars, meterVars, pipeVars, tenantVars, alertVars, maintVars,
             reportingVars, cliVars, ClientSide>>
SvcNext == focus' = focus /\ (BillStep \/ DeskStep \/ OpsStep \/ MaintStep \/ ReportStep \/ CliStep \/ ClientStep)
SvcSpec == SvcInit /\ [][SvcNext]_SvcVars

\* The type invariant of each of the services, with the calls, mails and
\* rows its program counters refer to.
SvcTypeOK ==
    /\ BillTypeOK /\ DeskTypeOK /\ MeterTypeOK /\ PipeTypeOK /\ TenantsTypeOK /\ AlertsTypeOK
    /\ MaintTypeOK /\ ReportingTypeOK /\ CliTypeOK
    /\ JsTypeOK /\ WebMailTypeOK /\ DashPagesTypeOK /\ EnvTypeOK /\ SignTypeOK

\* What a tenant pays and what it gets part only when a change failed: no webhook
\* that names itself is handled again while it is remembered, a row that says
\* suspended belongs to a namespace that runs nothing, and a plan that Lago and
\* the quota do not share belongs to a tenant one of whose changes failed or
\* died, or was overtaken by another (payment-webhook, trial-lifecycle,
\* plan-handler).
MoneyIsAccounted == HandledOncePerDay /\ MarkedMeansPaused /\ SplitPlanIsReported

\* Usage is billed once per life and manual run of the metering bridge, and what
\* is not billed is counted as failed in the summary of its cycle or belongs to
\* a cycle that collected nothing (metering-bridge: index.js, publishers/lago.js).
UsageIsBilled == BilledOncePerLifeAndRun /\ NothingLostInSilence

\* No success is announced of a tenant with nothing serving since, and a lone
\* first build is never stripped by a rollback (build-deploy,
\* rollback-controller).
DeploysAreJudged == SuccessMeansServed /\ NothingToReturnTo

\* A tenant is welcomed once and announced when it has all of its resources, and
\* a half-provisioned one belongs to a request that is at work or failed
\* (namespace-provisioner, onboarding-sequence).
TenantsAreWelcomedWhole == WelcomedOnce /\ AnnouncedWhole

\* What runs unattended gives notice: a P1 alert was mailed before it counts as
\* known, a claim is deleted after its grace period and its mail, unless the
\* mail failed or the answer to its tagging was lost, a lease is revoked after
\* the clients have another, a pod is forced once an hour for each of its
\* containers (incident-alerting, storage-cleanup, secret-rotation, self-healing).
UnattendedIsCareful == P1Noticed /\ DeletedWithNotice /\ RevokedOnlyReplaced /\ ForcedOncePerHour

\* The connection of the JavaScript client is on its way when it is wanted, and
\* is subscribed to what is wanted once it is there (tinai-js realtime.ts).
ConnectionIsRight == ConnectionOnItsWay /\ CurrentSocketIsRight

\* What a page of the web mail or of the dashboard shows as busy has a call
\* under way that ends it: no answer, late, failed or lost, leaves a spinner
\* or a disabled button for good.
SpinnersEnd == LoadersEnd /\ BusyMeansUnderWay /\ SavesEnd /\ OneSignInAtOnce
===============================================================================
