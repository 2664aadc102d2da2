--------------------------------- MODULE MCApi ---------------------------------
(***************************************************************************)
(* One instance of the route modules of tinai-api.  They share no state,   *)
(* so a behaviour follows one of them, the focus, while the others stay as *)
(* they started.                                                           *)
(***************************************************************************)
EXTENDS ApiApps, ApiWorkloads, ApiProjects, ApiAuth, ApiData, ApiBilling, ApiPrivacy, ApiMail, ApiAssist

VARIABLE focus

MCParts    == <<"deployment", "ingress", "scaledobject">>
MCLimits   == {1, -1}
MCPolicies == <<"deny", "dns">>
MCLocal    == [u \in MailUsers |-> "ann"]
MCFiles    == <<2, 3>>

Foci == {"register", "repo", "vars", "deploy", "workload", "quota", "namespace", "volume",
         "project", "flag", "webhook", "instance", "session", "sms", "team", "database", "storage", "endpoint",
         "invoice", "payment", "tick", "privacy", "mailbox", "domain", "tunnel", "codegen", "forge", "observe"}

\* What starts in several ways does so only in its own focus.
ApiInit ==
    /\ focus \in Foci
    /\ AppsInit /\ (focus \in {"vars", "deploy"} => appOwner = "acme")
                /\ (focus \notin {"register", "repo", "vars", "deploy"} => appOwner = "none")
    /\ WorkloadsInit /\ (focus # "workload" => \A t \in WlTenants : wlPlan[t] = 1)
    /\ ProjectsInit /\ AuthInit /\ DataInit /\ ApiBillingInit
    /\ PrivacyInit /\ (\A f \in RopaFields : ropa[f] = "x")
    /\ ApiMailInit /\ AssistInit

\* Requests are interchangeable: they arrive in the order of their numbers.
InOrder(task, idle) == \A q \in DOMAIN task \ {1} : task[q] # idle => task[q - 1] # idle

AppStepped ==
    /\ \/ focus = "register" /\ RegisterNext /\ appTask'[1].who # "bolt"
                             /\ InOrder(appTask', NoTask)
       \/ focus = "repo" /\ RepoNext /\ appTask'[3] = NoTask /\ appTask'[1].who # "bolt"
       \/ focus = "vars" /\ VarNext /\ appTask'[3] = NoTask
       \/ focus = "deploy" /\ DeployNext /\ appTask'[3] = NoTask
    /\ focus = "repo" => InOrder(appTask', NoTask)
    /\ UNCHANGED <<workloadVars, projectVars, authVars, dataVars>>
WorkloadStepped ==
    /\ \/ focus = "workload" /\ WorkloadNext /\ wlTask'[3] = WlIdle /\ wlTask'[1].who # "bolt"
                             /\ (\A q \in WlReqs : wlTask'[q].name # "api") /\ wlPlan'["bolt"] = 1
       \/ focus = "quota" /\ WorkloadNext /\ wlPlan' = wlPlan
                          /\ \A q \in WlReqs : wlTask'[q].who \in {"none", "acme"} /\ wlTask'[q].op \in {"none", "create", "delete"}
       \/ focus = "namespace" /\ NamespaceNext
       \/ focus = "volume" /\ VolumeNext
    /\ InOrder(wlTask', WlIdle)
    /\ UNCHANGED <<appVarsAll, projectVars, authVars, dataVars>>
ProjectStepped ==
    /\ \/ focus = "project" /\ ProjectNext /\ InOrder(prjTask', PrjIdle)
       \/ focus = "flag" /\ \/ FlagNext
                            \/ \E q \in PrjReqs \cap {1} : InsertProject(q) \/ \E s \in Slugs : CreateProject(q, s)
       \/ focus = "webhook" /\ HookNext
       \/ focus = "instance" /\ InstanceNext
    /\ UNCHANGED <<appVarsAll, workloadVars, authVars, dataVars>>
AuthStepped ==
    /\ \/ focus = "session" /\ SessionNext
       \/ focus = "sms" /\ SmsNext
       \/ focus = "team" /\ TeamNext /\ InOrder(teamTask', TeamIdle)
    /\ UNCHANGED <<appVarsAll, workloadVars, projectVars, dataVars>>
DataStepped ==
    /\ \/ focus = "database" /\ DbNext
       \/ focus = "storage" /\ StoreNext /\ storeTask'[3].pc # "insert"
       \/ focus = "endpoint" /\ EndNext
    /\ UNCHANGED <<appVarsAll, workloadVars, projectVars, authVars>>
FirstHalf == <<appVarsAll, workloadVars, projectVars, authVars, dataVars>>

MoneyStepped ==
    /\ \/ focus = "invoice" /\ InvoiceNext /\ InOrder(genTask', GenIdle) /\ ordTask'[2] = OrdIdle
       \/ focus = "payment" /\ InvoiceNext /\ genTask'[2] = GenIdle /\ usage'["cpu"] = 0
       \/ focus = "tick" /\ TickNext
    /\ UNCHANGED <<privVars, apiMailVars, assistVars>>
PrivacyStepped ==
    /\ focus = "privacy" /\ PrivacyNext /\ InOrder(privTask', PrivIdle)
                          /\ (privTask'[3] # PrivIdle => ropa' = ropa)
    /\ UNCHANGED <<apiBillingVars, apiMailVars, assistVars>>
MailStepped ==
    /\ \/ focus = "mailbox" /\ MailNext /\ mailTask'[4] = MailIdle /\ stDomains' = stDomains
                            /\ UNCHANGED <<mailDomains, txtRecords>>
       \/ focus = "domain" /\ MailNext /\ UNCHANGED <<signatures, mailboxes>>
                           /\ \A q \in MailReqs : mailTask'[q].user = "none"
                           /\ InOrder(mailTask', MailIdle)
       \/ focus = "tunnel" /\ TunnelNext
    /\ UNCHANGED <<apiBillingVars, privVars, assistVars>>
AssistStepped ==
    /\ \/ focus = "codegen" /\ CodegenNext /\ InOrder(cgTask', CgIdle)
       \/ focus = "forge" /\ ForgeNext
       \/ focus = "observe" /\ ObsNext
    /\ UNCHANGED <<apiBillingVars, privVars, apiMailVars>>
SecondHalf == <<apiBillingVars, privVars, apiMailVars, assistVars>>

ApiVars == <<focus, FirstHalf, SecondHalf>>
ApiNext ==
    /\ focus' = focus
    /\ \/ /\ AppStepped \/ WorkloadStepped \/ ProjectStepped \/ AuthStepped \/ DataStepped
          /\ UNCHANGED SecondHalf
       \/ /\ MoneyStepped \/ PrivacyStepped \/ MailStepped \/ AssistStepped
          /\ UNCHANGED FirstHalf
ApiSpec == ApiInit /\ [][ApiNext]_ApiVars

\* The type invariant of each of the modules.
ApiTypeOK ==
    /\ AppsTypeOK /\ WorkloadsTypeOK /\ ProjectsTypeOK /\ AuthTypeOK /\ DataTypeOK /\ ApiBillingTypeOK
    /\ PrivacyTypeOK /\ ApiMailTypeOK /\ AssistTypeOK

\* Limits hold whatever races: a tenant keeps to the best plan it has had, and a
\* namespace has its quota only with all of its network policies (planGate.ts,
\* provisioner.ts).
LimitsHold == WithinPlan /\ PoliciesBeforeQuota

\* Records that are written apart agree: no object of the cluster, a
\* ScaledObject excepted, without the row of its workload, no project without
\* production, no flag value its history does not know, no invoice whose total is
\* not that of its lines with the GST on it, no deployment answered 201 that left
\* files out (workloads.ts, projects.ts, featureFlags.ts, billing.ts, codegen.ts).
RecordsAgree == NoOrphans /\ CreatedHaveProduction /\ FlagsAreRecorded /\ InvoiceAddsUp /\ DeployedWhole

\* A login has one heir and a team one owner, whatever refreshes, logouts and
\* changes of role race (auth.ts, teams.ts).
RightsHaveOneHolder == OneHeirPerLogin /\ OwnerStays
================================================================================
