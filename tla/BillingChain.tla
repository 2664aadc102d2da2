----------------------------- MODULE BillingChain -----------------------------
(***************************************************************************)
(* The billing chain's hold on tenant namespaces: the payment webhook      *)
(* (tinai-billing-chain/payment-webhook), the trial-lifecycle CronJob      *)
(* (trial-lifecycle) and the namespace operations both import              *)
(* (shared/k8s-namespace.js).                                              *)
(*                                                                         *)
(* Every await on the Kubernetes API or on SMTP ends a step: the webhook   *)
(* process is single threaded, but its handlers are not awaited by the     *)
(* HTTP route, so several run interleaved.  An await on the stub           *)
(* fetchTenantEmail gives way to no other request, and belongs to its      *)
(* step; the stub returns null, so the webhook mails nobody.               *)
(***************************************************************************)
EXTENDS Integers, FiniteSets

CONSTANTS
    BillTenants,    \* tenant ids, the external ids of the payment providers
    BillDeps,       \* names of the Deployments of a tenant namespace
    PayEvents,      \* webhook events: [id, provider, kind, tenant]; 0: it has no id
    PayWorkers,     \* slots for handlers that run at the same time
    BillDays,       \* the days at which something can happen, 0 among them
    MaxReplicas,    \* replicas of a Deployment before any suspension
    DedupCap        \* size above which processedEvents is pruned (10000)

ASSUME BillingAssumption ==
    /\ BillDays \subseteq Nat /\ 0 \in BillDays
    /\ MaxReplicas \in Nat \ {0} /\ DedupCap \in Nat
    /\ PayEvents \subseteq [id : Nat, provider : {"razorpay", "stripe"},
                            kind : {"success", "failed"}, tenant : BillTenants]

VARIABLES
    billDay,        \* the clock, in days since the trials started
    processed,      \* processedEvents: event id -> day it was recorded
    retry,          \* retryState: <<provider, tenant>> -> first failure
    payJob,         \* the suspension each webhook handler is carrying out
    nsLive,         \* namespaces that exist
    replicas,       \* spec.replicas of every Deployment
    saved,          \* the annotation tinai.cloud/pre-suspend-replicas
    trialRow,       \* the row of the tenants table the CronJob works from
    trialJob,       \* what the running CronJob is doing for a tenant
    trialMail,      \* mails the tenant got from the trial lifecycle
    billDLQ,        \* messages on tinai.billing.dlq
    payHistory      \* history: the payment events handled, [event, day]

payVars   == <<processed, retry, payJob, payHistory>>
trialVars == <<trialRow, trialJob, trialMail>>
nsVars    == <<nsLive, replicas, saved>>
billVars  == <<billDay, payVars, nsVars, trialVars, billDLQ>>

Never     == -1
Unsaved   == -1
PayIdle   == [pc |-> "idle"]
PayKeys   == {"razorpay", "stripe"} \X BillTenants

TrialFlags == {"suspended", "deleted", "day7", "day13", "day25"}

(***************************************************************************)
(* What a namespace's Deployments look like before anything is suspended.  *)
(* The rows are those of the query quoted in fetchTrialTenants, whose body *)
(* is a stub: the table itself is outside the repository.                  *)
(***************************************************************************)
BillInit ==
    /\ billDay = 0
    /\ processed = [e \in PayEvents |-> Never]
    /\ retry = [k \in PayKeys |-> Never]
    /\ payJob = [w \in PayWorkers |-> PayIdle]
    /\ nsLive = [t \in BillTenants |-> TRUE]
    /\ replicas = [t \in BillTenants |-> [d \in BillDeps |-> MaxReplicas]]
    /\ saved = [t \in BillTenants |-> [d \in BillDeps |-> Unsaved]]
    /\ trialRow = [t \in BillTenants |-> {}]
    /\ trialJob = [t \in BillTenants |-> PayIdle]
    /\ trialMail = [t \in BillTenants |-> {}]
    /\ billDLQ = {}
    /\ payHistory = {}

(***************************************************************************)
(* shared/k8s-namespace.js                                                 *)
(***************************************************************************)
\* tenantToNamespace accepts only DNS labels.  The Stripe mapper hands it a
\* mail address or a cus_... id, neither of which is one: it throws.
NamespaceOf(key) == IF key[1] = "razorpay" THEN {key[2]} ELSE {}

\* suspendNamespace, first request: the Deployments with the counts they
\* have now; the request fails when the namespace is gone.
SuspendList(t) ==
    [d \in BillDeps |-> replicas[t][d]]

\* One PATCH of the loop: the count listed earlier goes into the annotation,
\* the Deployment to 0, whatever happened to it since the list.
SuspendPatch(t, d, listed) ==
    /\ replicas' = [replicas EXCEPT ![t][d] = 0]
    /\ saved' = [saved EXCEPT ![t][d] = listed]

\* deleteNamespace: everything in the namespace goes with it.
DeleteNamespace(t) ==
    /\ nsLive[t]
    /\ nsLive' = [nsLive EXCEPT ![t] = FALSE]
    /\ replicas' = [replicas EXCEPT ![t] = [d \in BillDeps |-> 0]]
    /\ saved' = [saved EXCEPT ![t] = [d \in BillDeps |-> Unsaved]]

\* publishToDLQ gives up silently without NATS or when the publish throws.
PublishToDLQ(from, t) == billDLQ' \in {billDLQ, billDLQ \cup {[from |-> from, tenant |-> t]}}

(***************************************************************************)
(* payment-webhook                                                         *)
(***************************************************************************)
\* isDuplicate prunes what is older than 24 hours, and only when the map has
\* grown past its cap; an event without an id is never looked up nor recorded.
Remembered ==
    LET known == {e \in PayEvents : processed[e] # Never}
    IN  IF Cardinality(known) > DedupCap
        THEN {e \in known : billDay - processed[e] <= 1}
        ELSE known

HasId(e) == e.id # 0

Record(e) ==
    processed' = IF HasId(e)
                 THEN [f \in PayEvents |-> IF f = e THEN billDay
                                           ELSE IF f \in Remembered THEN processed[f]
                                           ELSE Never]
                 ELSE processed

\* A genuine delivery of an event already recorded is answered and dropped;
\* the pruning it may have caused stays.
DuplicateWebhook(e) ==
    /\ e \in Remembered
    /\ processed' = [f \in PayEvents |-> IF f \in Remembered THEN processed[f] ELSE Never]
    /\ UNCHANGED <<billDay, retry, payJob, payHistory, nsVars, trialVars, billDLQ>>

Handled(e) == payHistory' = payHistory \cup {[event |-> e, day |-> billDay]}

\* A defect of PaymentSuccess: the retry state survives a payment.
SuccessKeepsClock(e) ==
    /\ e.kind = "success" /\ e \notin Remembered
    /\ Record(e) /\ Handled(e)
    /\ UNCHANGED <<billDay, retry, payJob, nsVars, trialVars, billDLQ>>

\* handlePaymentSuccess: the retry state is cleared, and nothing is resumed.
PaymentSuccess(e) ==
    /\ e.kind = "success" /\ e \notin Remembered
    /\ Record(e) /\ Handled(e)
    /\ retry' = [retry EXCEPT ![<<e.provider, e.tenant>>] = Never]
    /\ UNCHANGED <<billDay, payJob, nsVars, trialVars, billDLQ>>

FirstFailure(key) == IF retry[key] = Never THEN billDay ELSE retry[key]

\* handlePaymentFailed before its first request to Kubernetes: the failure
\* counts from the first one, and past SUSPEND_AFTER_DAYS = 3 the handler
\* goes on to suspend, or throws when the tenant id names no namespace.
PaymentFailed(e, w) ==
    LET key == <<e.provider, e.tenant>>
        due == billDay - FirstFailure(key) >= 3
    IN
    /\ e.kind = "failed" /\ e \notin Remembered
    /\ Record(e) /\ Handled(e)
    /\ retry' = [retry EXCEPT ![key] = FirstFailure(key)]
    /\ IF due /\ NamespaceOf(key) # {}
       THEN /\ payJob[w] = PayIdle
            /\ payJob' = [payJob EXCEPT ![w] = [pc |-> "list", tenant |-> e.tenant]]
       ELSE UNCHANGED payJob
    /\ IF due /\ NamespaceOf(key) = {} THEN PublishToDLQ("webhook", e.tenant) ELSE UNCHANGED billDLQ
    /\ UNCHANGED <<billDay, nsVars, trialVars>>

PayList(w) ==
    /\ payJob[w].pc = "list" /\ nsLive[payJob[w].tenant]
    /\ payJob' = [payJob EXCEPT ![w] = [pc |-> "patch", tenant |-> payJob[w].tenant,
                                        todo |-> SuspendList(payJob[w].tenant)]]
    /\ UNCHANGED <<billDay, processed, retry, payHistory, nsVars, trialVars, billDLQ>>

\* After the last PATCH the event namespace.suspended is published.
PayPatch(w, d) ==
    LET job  == payJob[w]
        rest == [x \in DOMAIN job.todo \ {d} |-> job.todo[x]]
    IN
    /\ job.pc = "patch" /\ d \in DOMAIN job.todo /\ nsLive[job.tenant]
    /\ SuspendPatch(job.tenant, d, job.todo[d])
    /\ payJob' = [payJob EXCEPT ![w] = IF DOMAIN rest = {} THEN PayIdle
                                       ELSE [job EXCEPT !.todo = rest]]
    /\ UNCHANGED <<billDay, processed, retry, payHistory, nsLive, trialVars, billDLQ>>

\* A request fails: what was patched stays patched, the event goes to the DLQ
\* if NATS takes it.
PayFails(w) ==
    /\ payJob[w].pc \in {"list", "patch"}
    /\ PublishToDLQ("webhook", payJob[w].tenant)
    /\ payJob' = [payJob EXCEPT ![w] = PayIdle]
    /\ UNCHANGED <<billDay, processed, retry, payHistory, nsVars, trialVars>>

\* Both maps are in memory and the route answered 200 before the handler
\* ended: a restart forgets the events, the failures and the open handlers.
WebhookRestart ==
    /\ processed' = [e \in PayEvents |-> Never]
    /\ retry' = [k \in PayKeys |-> Never]
    /\ payJob' = [w \in PayWorkers |-> PayIdle]
    /\ payHistory' = {}
    /\ UNCHANGED <<billDay, nsVars, trialVars, billDLQ>>

(***************************************************************************)
(* trial-lifecycle                                                         *)
(***************************************************************************)
TrialDeleteDay == 30
TrialWarnDay   == 25
TrialEndDay    == 14

\* The branch processTrialTenant takes for a row read at the start of a run.
TrialBranch(row) ==
    CASE billDay >= TrialDeleteDay /\ "deleted" \notin row -> "delete"
      [] billDay < TrialDeleteDay /\ billDay >= TrialWarnDay /\ "day25" \notin row -> "day25"
      [] billDay >= TrialEndDay /\ billDay < TrialDeleteDay
            /\ (billDay < TrialWarnDay \/ "day25" \in row)
            /\ "suspended" \notin row -> "list"
      [] billDay = 13 /\ "day13" \notin row -> "day13"
      [] billDay = 7 /\ "day7" \notin row -> "day7"
      [] OTHER -> "idle"

\* main: one run at a time (concurrencyPolicy: Forbid), all tenants of the
\* query at once; the query leaves out rows with deleted_at.
TrialRun ==
    /\ \A t \in BillTenants : trialJob[t] = PayIdle
    /\ trialJob' = [t \in BillTenants |->
            IF "deleted" \in trialRow[t] THEN PayIdle ELSE [pc |-> TrialBranch(trialRow[t])]]
    /\ trialJob' # trialJob
    /\ UNCHANGED <<billDay, payVars, nsVars, trialRow, trialMail, billDLQ>>

TrialStep(t, job) == trialJob' = [trialJob EXCEPT ![t] = job]

\* updateTenantState writes the columns of one row.
UpdateTenantState(t, flag) == trialRow' = [trialRow EXCEPT ![t] = @ \cup {flag}]

TrialDelete(t) ==
    /\ trialJob[t].pc = "delete"
    /\ DeleteNamespace(t)
    /\ TrialStep(t, [pc |-> "deleted"])
    /\ UNCHANGED <<billDay, payVars, trialRow, trialMail, billDLQ>>

\* The mails of day 7, 13 and 25: sent first, recorded in the row after.
TrialMail(t) ==
    /\ trialJob[t].pc \in {"day7", "day13", "day25"}
    /\ trialMail' = [trialMail EXCEPT ![t] = @ \cup {trialJob[t].pc}]
    /\ TrialStep(t, [pc |-> "mailed", flag |-> trialJob[t].pc])
    /\ UNCHANGED <<billDay, payVars, nsVars, trialRow, billDLQ>>

TrialList(t) ==
    /\ trialJob[t].pc = "list" /\ nsLive[t]
    /\ TrialStep(t, [pc |-> "patch", todo |-> SuspendList(t)])
    /\ UNCHANGED <<billDay, payVars, nsVars, trialRow, trialMail, billDLQ>>

TrialPatch(t, d) ==
    LET job  == trialJob[t]
        rest == [x \in DOMAIN job.todo \ {d} |-> job.todo[x]]
    IN
    /\ job.pc = "patch" /\ d \in DOMAIN job.todo /\ nsLive[t]
    /\ SuspendPatch(t, d, job.todo[d])
    /\ TrialStep(t, IF DOMAIN rest = {} THEN [pc |-> "suspended"]
                    ELSE [job EXCEPT !.todo = rest])
    /\ UNCHANGED <<billDay, payVars, nsLive, trialRow, trialMail, billDLQ>>

\* updateTenantState: the run is over for this tenant, except that after the
\* suspension the mail of the last day follows.
TrialRecord(t) ==
    /\ trialJob[t].pc \in {"deleted", "mailed", "suspended"}
    /\ UpdateTenantState(t, IF trialJob[t].pc = "mailed" THEN trialJob[t].flag
                            ELSE trialJob[t].pc)
    /\ TrialStep(t, IF trialJob[t].pc = "suspended" THEN [pc |-> "expiry"] ELSE PayIdle)
    /\ UNCHANGED <<billDay, payVars, nsVars, trialMail, billDLQ>>

TrialExpiryMail(t) ==
    /\ trialJob[t].pc = "expiry"
    /\ trialMail' = [trialMail EXCEPT ![t] = @ \cup {"expiry"}]
    /\ TrialStep(t, PayIdle)
    /\ UNCHANGED <<billDay, payVars, nsVars, trialRow, billDLQ>>

\* A request or a mail fails: delete and suspend are caught and go to the
\* DLQ, a warning mail only counts as failed.
TrialFails(t) ==
    /\ trialJob[t].pc \in {"delete", "list", "patch", "expiry", "day7", "day13", "day25"}
    /\ IF trialJob[t].pc \in {"day7", "day13", "day25"} THEN UNCHANGED billDLQ
       ELSE PublishToDLQ("trial", t)
    /\ TrialStep(t, PayIdle)
    /\ UNCHANGED <<billDay, payVars, nsVars, trialRow, trialMail>>

\* The pod dies or the run meets activeDeadlineSeconds.
TrialCrash ==
    /\ \E t \in BillTenants : trialJob[t] # PayIdle
    /\ trialJob' = [t \in BillTenants |-> PayIdle]
    /\ UNCHANGED <<billDay, payVars, nsVars, trialRow, trialMail, billDLQ>>

\* A CronJob run ends long before the next day of interest.
BillTick ==
    /\ \A t \in BillTenants : trialJob[t] = PayIdle
    /\ \E n \in BillDays :
          /\ n > billDay /\ \A m \in BillDays : m > billDay => n <= m
          /\ billDay' = n
    /\ UNCHANGED <<payVars, nsVars, trialVars, billDLQ>>

PayNext ==
    \/ \E e \in PayEvents : DuplicateWebhook(e) \/ PaymentSuccess(e)
    \/ \E e \in PayEvents, w \in PayWorkers : PaymentFailed(e, w)
    \/ \E w \in PayWorkers : PayList(w) \/ PayFails(w) \/ \E d \in BillDeps : PayPatch(w, d)
    \/ WebhookRestart

TrialNext ==
    \/ TrialRun \/ TrialCrash
    \/ \E t \in BillTenants :
          \/ TrialDelete(t) \/ TrialMail(t) \/ TrialList(t) \/ TrialRecord(t)
          \/ TrialExpiryMail(t) \/ TrialFails(t)
          \/ \E d \in BillDeps : TrialPatch(t, d)

BillNext == PayNext \/ TrialNext \/ BillTick

BillSpec == BillInit /\ [][BillNext]_billVars

(***************************************************************************)
(* Properties                                                              *)
(***************************************************************************)
BillTypeOK ==
    /\ billDay \in BillDays
    /\ processed \in [PayEvents -> BillDays \cup {Never}]
    /\ retry \in [PayKeys -> BillDays \cup {Never}]
    /\ nsLive \in [BillTenants -> BOOLEAN]
    /\ replicas \in [BillTenants -> [BillDeps -> 0..MaxReplicas]]
    /\ saved \in [BillTenants -> [BillDeps -> {Unsaved} \cup 0..MaxReplicas]]
    /\ trialRow \in [BillTenants -> SUBSET TrialFlags]

\* Payments suspend a namespace only for cause: a handler starts a suspension
\* only when its process has handled a failed payment of that tenant at least
\* three days ago and has handled no successful one on a later day.
SuspendedForCause ==
    [][\A w \in PayWorkers : payJob[w].pc = "idle" /\ payJob'[w].pc = "list" =>
        LET mine(kind) == {h \in payHistory' : /\ h.event.provider = "razorpay"
                                               /\ h.event.tenant = payJob'[w].tenant
                                               /\ h.event.kind = kind}
        IN  \E f \in mine("failed") :
                /\ billDay - f.day >= 3
                /\ \A s \in mine("success") : s.day <= f.day]_billVars

\* Within the life of the webhook process no event that has an id is handled a
\* second time before its record may be pruned, more than a day later.
HandledOncePerDay ==
    \A h \in payHistory, k \in payHistory :
        HasId(h.event) /\ h.event = k.event /\ h.day < k.day => k.day - h.day > 1

\* A row that says suspended belongs to a namespace the run found and scaled
\* to nothing: no Deployment of it runs.
MarkedMeansPaused ==
    \A t \in BillTenants : "suspended" \in trialRow[t] =>
        \A d \in BillDeps : replicas[t][d] = 0
=============================================================================
