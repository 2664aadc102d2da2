------------------------------- MODULE OpsTenants -------------------------------
(***************************************************************************)
(* What happens around a new tenant in tinai-ops-security: the             *)
(* namespace-provisioner creates its namespace, the network-policy job     *)
(* re-creates the policy it misses, and the onboarding service mails the   *)
(* tenant on a schedule kept in setTimeout.  The model is of one tenant,   *)
(* for which /provision may be called more than once; a request answered   *)
(* 202 runs on unawaited.  Each POST to Kubernetes is a step.              *)
(***************************************************************************)
EXTENDS Integers, FiniteSets

CONSTANTS
    ProvRequests,   \* calls of POST /provision for the tenant
    Resources,      \* the resources created at once (6), "policy" among them
    Externals,      \* Lago, Gitea, Harbor, Vault
    MailSteps       \* the steps of SEQUENCE (6)

ASSUME OpsTenantsAssumption == "policy" \in Resources

VARIABLES
    nsMade,       \* the namespace exists
    made,         \* resources that exist in it
    prov,         \* provisionTenant per request: [pc, todo]
    external,     \* external services that have the tenant
    provDLQ,      \* requests reported to the DLQ
    announced,    \* requests that published tinai.tenant.provisioned
    enforcer,     \* the network-policy job: [pc]
    toGreet,      \* provisioned events the onboarding service has yet to read
    mailDue,      \* mails scheduled: <<request, step>>
    mailSent      \* mails sent, in order of request and step: a bag

provVars  == <<nsMade, made, prov, external, provDLQ, announced>>
greetVars == <<toGreet, mailDue, mailSent>>
tenantVars == <<provVars, enforcer, greetVars>>

TenantsInit ==
    /\ nsMade = FALSE /\ made = {} /\ external = {}
    /\ prov = [q \in ProvRequests |-> [pc |-> "none", todo |-> {}]]
    /\ provDLQ = {} /\ announced = {}
    /\ enforcer = "idle"
    /\ toGreet = {} /\ mailDue = {} /\ mailSent = [s \in MailSteps |-> 0]

(***************************************************************************)
(* namespace-provisioner                                                   *)
(***************************************************************************)
Prov(q, pc, todo) == prov' = [prov EXCEPT ![q] = [pc |-> pc, todo |-> todo]]

\* POST /provision: authorised, with a tenant id and a mail address.
Provision(q) ==
    /\ prov[q].pc = "none" /\ Prov(q, "namespace", {})
    /\ UNCHANGED <<nsMade, made, external, provDLQ, announced, enforcer, greetVars>>

\* The namespace is created; a second creation is refused with a 409.
CreateNamespace(q) ==
    /\ prov[q].pc = "namespace" /\ ~nsMade
    /\ nsMade' = TRUE /\ Prov(q, "resources", Resources)
    /\ UNCHANGED <<made, external, provDLQ, announced, enforcer, greetVars>>

\* One of the POSTs sent at once: refused when the resource is there, as the
\* policy is when the network-policy job came first.
CreateResource(q, r) ==
    LET rest == prov[q].todo \ {r} IN
    /\ r \in prov[q].todo /\ r \notin made
    /\ made' = made \cup {r}
    /\ Prov(q, IF rest = {} /\ prov[q].pc = "resources" THEN "external" ELSE prov[q].pc, rest)
    /\ UNCHANGED <<nsMade, external, provDLQ, announced, enforcer, greetVars>>

\* A defect of ProvisionFails: Promise.allSettled, so that a failed POST is passed over.
FailsPassedOver(q) ==
    \E r \in prov[q].todo :
        LET rest == prov[q].todo \ {r} IN
        /\ Prov(q, IF rest = {} /\ prov[q].pc = "resources" THEN "external" ELSE prov[q].pc, rest)
        /\ UNCHANGED <<nsMade, made, external, provDLQ, announced, enforcer, greetVars>>

\* A POST fails, perhaps after Kubernetes has done it: the first failure
\* rejects the whole, which is logged and goes to the DLQ if NATS takes it,
\* while the other POSTs are still under way and may yet succeed.
ProvisionFails(q) ==
    /\ \/ /\ prov[q].pc = "namespace" /\ Prov(q, "failed", {})
          /\ nsMade' \in {nsMade, TRUE} /\ UNCHANGED made
       \/ \E r \in prov[q].todo :
             /\ Prov(q, "failed", prov[q].todo \ {r})
             /\ made' \in {made, made \cup {r}} /\ UNCHANGED nsMade
    /\ provDLQ' \in {provDLQ, provDLQ \cup {q}}
    /\ UNCHANGED <<external, announced, enforcer, greetVars>>

\* Promise.allSettled on the external services, whose answers are hardly
\* looked at: whatever they did, the tenant is announced, unless NATS is
\* missing or throws; who does not listen then does not hear it.
SettleExternals(q) ==
    /\ prov[q].pc = "external"
    /\ external' \in {external \cup e : e \in SUBSET Externals}
    /\ announced' \in {announced, announced \cup {q}}
    /\ toGreet' \in {toGreet, toGreet \cup (announced' \ announced)}
    /\ Prov(q, "done", {})
    /\ UNCHANGED <<nsMade, made, provDLQ, enforcer, mailDue, mailSent>>

\* The process dies: the caller has its 202, and nobody is told.
ProvisionerDies ==
    LET open == {q \in ProvRequests : prov[q].pc \notin {"none", "done", "failed"}} IN
    /\ open # {}
    /\ prov' = [q \in ProvRequests |-> [pc |-> IF q \in open THEN "failed" ELSE prov[q].pc,
                                        todo |-> {}]]
    /\ UNCHANGED <<nsMade, made, external, provDLQ, announced, enforcer, greetVars>>

(***************************************************************************)
(* network-policy                                                          *)
(***************************************************************************)
\* enforceNamespacePolicies lists the policies of a tenant namespace; one
\* that is missing is to be created.
EnforceList ==
    /\ enforcer = "idle" /\ nsMade /\ "policy" \notin made
    /\ enforcer' = "post"
    /\ UNCHANGED <<provVars, greetVars>>

\* The POST succeeds, or is refused because the policy came meanwhile.
EnforcePost ==
    /\ enforcer = "post" /\ enforcer' = "idle"
    /\ made' \in {made, made \cup {"policy"}}
    /\ UNCHANGED <<nsMade, prov, external, provDLQ, announced, greetVars>>

(***************************************************************************)
(* onboarding-sequence                                                     *)
(***************************************************************************)
ScheduleSequence(q) ==
    /\ q \in toGreet /\ toGreet' = toGreet \ {q}
    /\ mailDue' = mailDue \cup ({q} \X MailSteps)
    /\ UNCHANGED <<provVars, enforcer, mailSent>>

\* A timer fires: the mail is sent, or fails and is not tried again.
SequenceMail(q, s) ==
    /\ <<q, s>> \in mailDue /\ mailDue' = mailDue \ {<<q, s>>}
    /\ mailSent' \in {mailSent, [mailSent EXCEPT ![s] = @ + 1]}
    /\ UNCHANGED <<provVars, enforcer, toGreet>>

\* The timers, and the events published meanwhile, are lost with the process.
OnboardingRestart ==
    /\ mailDue # {} \/ toGreet # {}
    /\ mailDue' = {} /\ toGreet' = {}
    /\ UNCHANGED <<provVars, enforcer, mailSent>>

TenantsNext ==
    \/ ProvisionerDies \/ EnforceList \/ EnforcePost \/ OnboardingRestart
    \/ \E q \in ProvRequests :
          \/ Provision(q) \/ CreateNamespace(q) \/ ProvisionFails(q) \/ SettleExternals(q)
          \/ \E r \in Resources : CreateResource(q, r)
          \/ ScheduleSequence(q) \/ \E s \in MailSteps : SequenceMail(q, s)

TenantsSpec == TenantsInit /\ [][TenantsNext]_tenantVars

(***************************************************************************)
(* Properties                                                              *)
(***************************************************************************)
TenantsTypeOK ==
    /\ nsMade \in BOOLEAN /\ made \subseteq Resources /\ external \subseteq Externals
    /\ prov \in [ProvRequests -> [pc : {"none", "namespace", "resources", "external",
                                        "done", "failed"},
                                  todo : SUBSET Resources]]
    /\ provDLQ \subseteq ProvRequests /\ announced \subseteq ProvRequests
    /\ enforcer \in {"idle", "post"}
    /\ toGreet \subseteq ProvRequests /\ mailDue \subseteq ProvRequests \X MailSteps
    /\ mailSent \in [MailSteps -> Nat]

\* No tenant is welcomed twice, however often it is provisioned and however
\* the runs interleave: only one request gets past the namespace.
WelcomedOnce == \A s \in MailSteps : mailSent[s] <= 1

\* Who announces a tenant, or is about to, has seen it whole; and a namespace
\* left without some of its resources belongs to a request that is at work on
\* it, or that has failed (logged, though the DLQ may miss it) or died.
AnnouncedWhole ==
    /\ \A q \in ProvRequests : q \in announced \/ prov[q].pc \in {"external", "done"} => made = Resources
    /\ nsMade /\ made # Resources => \E q \in ProvRequests : prov[q].pc \in {"resources", "failed"}
=================================================================================
