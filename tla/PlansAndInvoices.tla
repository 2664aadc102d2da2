--------------------------- MODULE PlansAndInvoices ---------------------------
(***************************************************************************)
(* Two request-driven services of the billing chain: the plan handler      *)
(* (tinai-billing-chain/plan-handler), which moves a tenant to another     *)
(* plan in Kubernetes and then in Lago, and the invoice generator          *)
(* (invoice-generator), which turns Lago's invoice webhooks into mails and *)
(* NATS events.  Each await on Kubernetes, Lago or SMTP ends a step.       *)
(***************************************************************************)
EXTENDS Integers, FiniteSets

CONSTANTS
    PlanTenants, PlanCodes,  \* tenants; the keys of PLANS
    PlanWorkers,             \* plan changes that may run at the same time
    Invoices,                \* invoices of Lago
    InvoiceWorkers,          \* webhook handlers that may run at the same time
    NoPlan                   \* no ResourceQuota tenant-quota in the namespace

VARIABLES
    quota,      \* plan whose limits tenant-quota holds
    lagoPlan,   \* plan_code of the tenant's subscription in Lago
    planJob,    \* executePlanChange per worker
    planDLQ,    \* tenants with a failed change on the DLQ
    planFailed, \* tenants a change of whom was answered 500
    planEvents, \* tinai.tenant.plan.changed: <<tenant, plan>>
    planMixed,  \* history: tenants of whom changes overlapped, or one died
    delivered,  \* invoice webhooks Lago has sent: <<invoice, webhook_type>>
    invJob,     \* handleInvoiceFinalized per worker
    invMails,   \* mails with the invoice as attachment
    invEvents,  \* tinai.billing.invoice.finalized published
    invDLQ      \* failed invoice handlings on the DLQ

planVars == <<quota, lagoPlan, planJob, planDLQ, planFailed, planEvents, planMixed>>
invVars  == <<delivered, invJob, invMails, invEvents, invDLQ>>

DeskIdle == [pc |-> "idle"]

PlanInit ==
    /\ quota \in [PlanTenants -> PlanCodes \cup {NoPlan}]
    /\ lagoPlan \in [PlanTenants -> PlanCodes]
    /\ \A t \in PlanTenants : quota[t] \in {NoPlan, lagoPlan[t]}
    /\ planJob = [w \in PlanWorkers |-> DeskIdle]
    /\ planDLQ = {} /\ planFailed = {} /\ planEvents = {} /\ planMixed = {}

InvInit ==
    /\ delivered = {}
    /\ invJob = [w \in InvoiceWorkers |-> DeskIdle]
    /\ invMails = [i \in Invoices |-> 0]
    /\ invEvents = [i \in Invoices |-> 0]
    /\ invDLQ = [i \in Invoices |-> 0]

(***************************************************************************)
(* plan-handler                                                            *)
(***************************************************************************)
PlanBusy(t) == \E w \in PlanWorkers : planJob[w].pc # "idle" /\ planJob[w].tenant = t

PlanGo(w, job) == planJob' = [planJob EXCEPT ![w] = job]

\* POST /internal/plan-change: the caller states both plans; that the tenant
\* is on the first one is not checked, only that they differ.
PlanChange(w, t, from, to) ==
    /\ planJob[w] = DeskIdle /\ from # to
    /\ PlanGo(w, [pc |-> "patch", tenant |-> t, to |-> to])
    /\ planMixed' = IF PlanBusy(t) THEN planMixed \cup {t} ELSE planMixed
    /\ UNCHANGED <<quota, lagoPlan, planDLQ, planFailed, planEvents>>

\* updateResourceQuota: PATCH what exists; a 404 sends it to POST.
PatchQuota(w) ==
    LET job == planJob[w] IN
    /\ job.pc = "patch"
    /\ IF quota[job.tenant] # NoPlan
       THEN quota' = [quota EXCEPT ![job.tenant] = job.to] /\ PlanGo(w, [job EXCEPT !.pc = "lago"])
       ELSE UNCHANGED quota /\ PlanGo(w, [job EXCEPT !.pc = "post"])
    /\ UNCHANGED <<lagoPlan, planDLQ, planFailed, planEvents, planMixed>>

\* POST answers 409 when another change created the quota in between.
CreateQuota(w) ==
    LET job == planJob[w] IN
    /\ job.pc = "post" /\ quota[job.tenant] = NoPlan
    /\ quota' = [quota EXCEPT ![job.tenant] = job.to]
    /\ PlanGo(w, [job EXCEPT !.pc = "lago"])
    /\ UNCHANGED <<lagoPlan, planDLQ, planFailed, planEvents, planMixed>>

SwitchLagoPlan(w) ==
    LET job == planJob[w] IN
    /\ job.pc = "lago"
    /\ lagoPlan' = [lagoPlan EXCEPT ![job.tenant] = job.to]
    /\ PlanGo(w, [job EXCEPT !.pc = "mail"])
    /\ UNCHANGED <<quota, planDLQ, planFailed, planEvents, planMixed>>

\* The mail went out or there was no address: the event is published, or lost
\* without NATS.
PlanChanged(w) ==
    LET job == planJob[w] IN
    /\ job.pc = "mail"
    /\ planEvents' \in {planEvents, planEvents \cup {<<job.tenant, job.to>>}}
    /\ PlanGo(w, DeskIdle)
    /\ UNCHANGED <<quota, lagoPlan, planDLQ, planFailed, planMixed>>

\* A defect of PlanFails: a caller whose first request went through is answered 200.
FailsUnreported(w) ==
    /\ planJob[w].pc \in {"patch", "post", "lago", "mail"} /\ PlanGo(w, DeskIdle)
    /\ planDLQ' \in {planDLQ, planDLQ \cup {planJob[w].tenant}}
    /\ planFailed' = IF planJob[w].pc = "patch" THEN planFailed \cup {planJob[w].tenant} ELSE planFailed
    /\ UNCHANGED <<quota, lagoPlan, planEvents, planMixed>>

\* Any request fails, the mail included: the route answers 500, and reports it
\* to the DLQ if NATS takes it; what was done before stays done.
PlanFails(w) ==
    /\ planJob[w].pc \in {"patch", "post", "lago", "mail"}
    /\ planDLQ' \in {planDLQ, planDLQ \cup {planJob[w].tenant}}
    /\ planFailed' = planFailed \cup {planJob[w].tenant}
    /\ PlanGo(w, DeskIdle)
    /\ UNCHANGED <<quota, lagoPlan, planEvents, planMixed>>

\* The process dies: the callers get no answer, and nobody is told.
PlanCrash ==
    /\ \E w \in PlanWorkers : planJob[w] # DeskIdle
    /\ planMixed' = planMixed \cup {t \in PlanTenants : PlanBusy(t)}
    /\ planJob' = [w \in PlanWorkers |-> DeskIdle]
    /\ UNCHANGED <<quota, lagoPlan, planDLQ, planFailed, planEvents>>

PlanNext == PlanCrash \/ \E w \in PlanWorkers :
    \/ \E t \in PlanTenants, from, to \in PlanCodes : PlanChange(w, t, from, to)
    \/ PatchQuota(w) \/ CreateQuota(w) \/ SwitchLagoPlan(w)
    \/ PlanChanged(w) \/ PlanFails(w)

(***************************************************************************)
(* invoice-generator                                                       *)
(***************************************************************************)
\* POST /webhooks/lago, signature valid: answered at once; created and
\* finalized are handled alike, nothing remembers what was handled.
\* Bound: Lago sends each webhook of an invoice once.
InvoiceWebhook(w, i, type) ==
    /\ <<i, type>> \notin delivered /\ delivered' = delivered \cup {<<i, type>>}
    /\ invJob[w] = DeskIdle
    /\ invJob' = [invJob EXCEPT ![w] = [pc |-> "fetch", inv |-> i]]
    /\ UNCHANGED <<invMails, invEvents, invDLQ>>

FetchInvoice(w) ==
    /\ invJob[w].pc = "fetch"
    /\ invJob' = [invJob EXCEPT ![w].pc = "mail"]
    /\ UNCHANGED <<delivered, invMails, invEvents, invDLQ>>

\* The mail with the PDF is accepted; the event follows, if NATS takes it.
MailInvoice(w) ==
    LET i == invJob[w].inv IN
    /\ invJob[w].pc = "mail"
    /\ invMails' = [invMails EXCEPT ![i] = @ + 1]
    /\ invEvents' \in {invEvents, [invEvents EXCEPT ![i] = @ + 1]}
    /\ invJob' = [invJob EXCEPT ![w] = DeskIdle]
    /\ UNCHANGED <<delivered, invDLQ>>

\* The webhook was answered long ago: without NATS the failure is only logged.
InvoiceFails(w) ==
    /\ invJob[w].pc \in {"fetch", "mail"}
    /\ invDLQ' \in {invDLQ, [invDLQ EXCEPT ![invJob[w].inv] = @ + 1]}
    /\ invJob' = [invJob EXCEPT ![w] = DeskIdle]
    /\ UNCHANGED <<delivered, invMails, invEvents>>

InvNext == \E w \in InvoiceWorkers :
    \/ \E i \in Invoices, type \in {"invoice.created", "invoice.finalized"} :
          InvoiceWebhook(w, i, type)
    \/ FetchInvoice(w) \/ MailInvoice(w) \/ InvoiceFails(w)

(***************************************************************************)
(* Properties                                                              *)
(***************************************************************************)
DeskTypeOK ==
    /\ quota \in [PlanTenants -> PlanCodes \cup {NoPlan}]
    /\ lagoPlan \in [PlanTenants -> PlanCodes]
    /\ \A w \in PlanWorkers : planJob[w].pc \in {"idle", "patch", "post", "lago", "mail"}
    /\ planDLQ \subseteq planFailed /\ planFailed \subseteq PlanTenants /\ planMixed \subseteq PlanTenants
    /\ planEvents \subseteq PlanTenants \X PlanCodes
    /\ \A i \in Invoices : invMails[i] \in 0..2 /\ invEvents[i] \in 0..2 /\ invDLQ[i] \in 0..2

\* A tenant's limits and what Lago bills part only when a caller is told: with
\* no change of the tenant running, two different plans mean a change that was
\* answered 500 (the DLQ may have missed it), or changes of that tenant that
\* overlapped or died.
SplitPlanIsReported ==
    \A t \in PlanTenants :
        ~PlanBusy(t) /\ quota[t] \notin {NoPlan, lagoPlan[t]}
            => t \in planFailed \cup planMixed
=============================================================================
