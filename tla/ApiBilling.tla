------------------------------- MODULE ApiBilling -------------------------------
(***************************************************************************)
(* Money in tinai-api: the invoice of a tenant for the running month, the  *)
(* payment of invoices (routes/billing.ts), the metering tick (jobs/       *)
(* usageMetering.ts) and what is computed from usage (usageAnalytics.ts).  *)
(* Razorpay is external: an order is created by its API, then a payment of *)
(* it fails or is captured, and each event is delivered any number of      *)
(* times, in any order.                                                    *)
(***************************************************************************)
EXTENDS Naturals, FiniteSets, Functions

CONSTANTS
    MaxUsage,     \* bound on the cost of the month's usage, in paise per kind
    GenReqs,      \* calls of /billing/invoices/generate
    OldInvoices,  \* invoices of months past
    OrdReqs,      \* calls that order the payment of an invoice; the order is its call
    Replicas,     \* replicas of tinai-api, each with the cron job
    Pods, MaxMinute

ASSUME ApiBillingAssumption ==
    /\ "now" \notin OldInvoices /\ 0 \notin OrdReqs
    /\ MaxUsage \in Nat /\ MaxMinute \in Nat

VARIABLES
    usage,        \* cost of the month so far, per kind
    inv,          \* the invoice of this month: whether its row is there, its sums
    lines,        \* its line items: <<call, kind, amount>>
    bill,         \* per invoice: status, payment_status, razorpay_order_id
    genTask,      \* per call
    genMixed,     \* history: calls overlapped, or one died
    rzOrder,      \* Razorpay: state of each order
    ordTask,      \* per call its step and its invoice
    meterMinute,
    meterTick,    \* per replica and minute: pods left to record, and those counted
    cpuLog,       \* cpu_seconds_log rows of the tick: <<replica, minute, pod>>
    snapshots,    \* usage_snapshots rows of the tick: <<minute, pods>>
    spendAlerts   \* spending_alerts thresholds

payVars     == <<bill, rzOrder, ordTask>>
invoiceVars == <<usage, inv, lines, genTask, genMixed, payVars>>
tickVars    == <<meterMinute, meterTick, cpuLog, snapshots, spendAlerts>>
apiBillingVars == <<invoiceVars, tickVars>>

Kinds == {"cpu", "memory"}
Invoices  == {"now"} \cup OldInvoices
NoInvoice == [there |-> FALSE, subtotal |-> 0, total |-> 0]
Unpaid    == [status |-> "draft", pay |-> "none", order |-> 0]
OrdIdle   == [pc |-> "none", of |-> "now"]
GenIdle   == [pc |-> "none", sum |-> [k \in Kinds |-> 0], todo |-> {}]
Ticks     == Replicas \X (1..MaxMinute)
TickIdle  == [pc |-> "idle", todo |-> {}, counted |-> {}]

ApiBillingInit ==
    /\ usage = [k \in Kinds |-> 0] /\ inv = NoInvoice /\ lines = {}
    /\ genTask = [q \in GenReqs |-> GenIdle] /\ genMixed = FALSE
    /\ bill = [i \in Invoices |-> Unpaid]
    /\ rzOrder = [o \in OrdReqs |-> "none"] /\ ordTask = [o \in OrdReqs |-> OrdIdle]
    /\ meterMinute = 0 /\ meterTick = [r \in Ticks |-> TickIdle]
    /\ cpuLog = {} /\ snapshots = {} /\ spendAlerts = {}

(***************************************************************************)
(* The invoice of the month                                                *)
(***************************************************************************)
Paise(k) == IF k = "cpu" THEN 50 ELSE 25
Usage(k) ==
    /\ usage[k] + Paise(k) <= MaxUsage /\ usage' = [usage EXCEPT ![k] = @ + Paise(k)]
    /\ UNCHANGED <<inv, lines, genTask, genMixed, payVars, tickVars>>

GenBusy == \E q \in GenReqs : genTask[q].pc \notin {"none", "done"}
GenAt(q, pc) == genTask[q].pc = pc
Amount(sum)  == sum["cpu"] + sum["memory"]
WithGst(n)   == n + (18 * n + 50) \div 100
Billed(n)    == [there |-> TRUE, subtotal |-> n, total |-> WithGst(n)]
SumOfLines   == SumFunction([l \in lines |-> l[3]])

\* POST /billing/invoices/generate sums the usage; items are made of what costs.
Generate(q) ==
    /\ GenAt(q, "none")
    /\ genTask' = [genTask EXCEPT ![q] = [pc |-> "select", sum |-> usage,
                                         todo |-> {k \in Kinds : usage[k] > 0}]]
    /\ genMixed' = (genMixed \/ GenBusy)
    /\ UNCHANGED <<usage, inv, lines, payVars, tickVars>>

\* SELECT of the invoice decides between UPDATE and INSERT.
FindInvoice(q) ==
    /\ GenAt(q, "select")
    /\ genTask' = [genTask EXCEPT ![q].pc = IF inv.there THEN "update" ELSE "insert"]
    /\ UNCHANGED <<usage, inv, lines, genMixed, payVars, tickVars>>

Written(q) == IF genTask[q].todo = {} THEN "done" ELSE "lines"

\* INSERT of the sums, GST of 18% on top: UNIQUE (tenant, month) refuses a
\* second one, 500.
InsertInvoice(q) ==
    /\ GenAt(q, "insert")
    /\ inv' = IF inv.there THEN inv ELSE Billed(Amount(genTask[q].sum))
    /\ genTask' = [genTask EXCEPT ![q].pc = IF inv.there THEN "done" ELSE Written(q)]
    /\ UNCHANGED <<usage, lines, genMixed, payVars, tickVars>>

\* UPDATE writes the sums whatever the status of the invoice is.
UpdateInvoice(q) ==
    /\ GenAt(q, "update") /\ inv' = Billed(Amount(genTask[q].sum))
    /\ genTask' = [genTask EXCEPT ![q].pc = "clear"]
    /\ UNCHANGED <<usage, lines, genMixed, payVars, tickVars>>

ClearLines(q) ==
    /\ GenAt(q, "clear") /\ lines' = {} /\ genTask' = [genTask EXCEPT ![q].pc = Written(q)]
    /\ UNCHANGED <<usage, inv, genMixed, payVars, tickVars>>

InsertLine(q) ==
    LET t == genTask[q] IN
    /\ GenAt(q, "lines")
    /\ \E k \in t.todo :
         /\ lines' = lines \cup {<<q, k, t.sum[k]>>}
         /\ genTask' = [genTask EXCEPT ![q].todo = @ \ {k}, ![q].pc = IF t.todo = {k} THEN "done" ELSE "lines"]
    /\ UNCHANGED <<usage, inv, genMixed, payVars, tickVars>>

\* A statement fails, or the pod goes: nothing is undone.
GenerateDies(q) ==
    /\ genTask[q].pc \notin {"none", "done"} /\ genTask' = [genTask EXCEPT ![q].pc = "done"]
    /\ genMixed' = TRUE /\ UNCHANGED <<usage, inv, lines, payVars, tickVars>>

(***************************************************************************)
(* The payment of an invoice                                               *)
(***************************************************************************)
There(i) == i = "now" => inv.there
genVars  == <<usage, inv, lines, genTask, genMixed>>

\* POST /billing/payment-orders: an order of Razorpay for the invoice's total.
PaymentOrder(o, i) ==
    /\ ordTask[o].pc = "none" /\ There(i)
    /\ \E r \in {"answered", "lost", "refused"} :
         /\ rzOrder' = [rzOrder EXCEPT ![o] = CASE r = "answered" -> "created" [] r = "lost" -> "lost" [] r = "refused" -> "none"]
         /\ ordTask' = [ordTask EXCEPT ![o] = [pc |-> IF r = "answered" THEN "link" ELSE "done", of |-> i]]
    /\ UNCHANGED <<genVars, bill, tickVars>>

\* POST /billing/checkout-session does the same when it is given an invoice.
CheckoutSession(o, i) == PaymentOrder(o, i)

\* The order replaces the one of an earlier call, and a payment already made.
LinkOrder(o) ==
    /\ ordTask[o].pc = "link" /\ ordTask' = [ordTask EXCEPT ![o].pc = "done"]
    /\ bill' = [bill EXCEPT ![ordTask[o].of].order = o, ![ordTask[o].of].pay = "pending"]
    /\ UNCHANGED <<genVars, rzOrder, tickVars>>

CustomerPays(o, outcome) ==
    /\ rzOrder[o] \in {"created", "failed"} /\ ordTask[o].pc = "done" /\ rzOrder' = [rzOrder EXCEPT ![o] = outcome]
    /\ UNCHANGED <<genVars, bill, ordTask, tickVars>>

\* A defect of InvoiceOf: the invoice that awaits a payment is taken for the
\* one of the order.
AwaitsPayment(i, o) == bill[i].pay = "pending"

\* POST /billing/webhooks/razorpay: UPDATE ... WHERE razorpay_order_id.
InvoiceOf(i, o) == bill[i].order = o
RazorpayCaptured(o) ==
    /\ rzOrder[o] = "captured"
    /\ bill' = [i \in Invoices |->
                  IF InvoiceOf(i, o) THEN [bill[i] EXCEPT !.status = "paid", !.pay = "captured"] ELSE bill[i]]
    /\ UNCHANGED <<genVars, rzOrder, ordTask, tickVars>>

\* A failed payment of an order may be reported after a later one was captured.
RazorpayFailed(o) ==
    /\ rzOrder[o] \in {"failed", "captured"}
    /\ bill' = [i \in Invoices |-> IF InvoiceOf(i, o) THEN [bill[i] EXCEPT !.pay = "failed"] ELSE bill[i]]
    /\ UNCHANGED <<genVars, rzOrder, ordTask, tickVars>>

InvoiceNext ==
    \/ \E k \in Kinds : Usage(k)
    \/ \E q \in GenReqs : \/ Generate(q) \/ FindInvoice(q) \/ InsertInvoice(q) \/ UpdateInvoice(q)
                          \/ ClearLines(q) \/ InsertLine(q) \/ GenerateDies(q)
    \/ \E o \in OrdReqs : \/ LinkOrder(o) \/ \E i \in Invoices : PaymentOrder(o, i) \/ CheckoutSession(o, i)
                          \/ RazorpayCaptured(o) \/ RazorpayFailed(o)
                          \/ \E outcome \in {"failed", "captured"} : CustomerPays(o, outcome)

(***************************************************************************)
(* The metering tick, once a minute in every replica                       *)
(***************************************************************************)
MeterMinute ==
    /\ meterMinute < MaxMinute /\ meterMinute' = meterMinute + 1
    /\ UNCHANGED <<meterTick, cpuLog, snapshots, spendAlerts, invoiceVars>>

\* The pods that run; a failed list skips the tick.
ListPods(r, running) ==
    /\ r[2] = meterMinute /\ meterTick[r].pc = "idle" /\ running # {}
    /\ meterTick' = [meterTick EXCEPT ![r] = [pc |-> "log", todo |-> running, counted |-> {}]]
    /\ UNCHANGED <<meterMinute, cpuLog, snapshots, spendAlerts, invoiceVars>>

\* A row per pod; one that fails is logged, and its pod is counted all the same.
LogPod(r) ==
    LET t == meterTick[r] IN
    /\ t.pc = "log"
    /\ \E p \in t.todo :
         /\ \/ cpuLog' = cpuLog \cup {<<r[1], meterMinute, p>>}
            \/ cpuLog' = cpuLog
         /\ meterTick' = [meterTick EXCEPT ![r] = [pc |-> IF t.todo = {p} THEN "snapshot" ELSE "log",
                                                  todo |-> t.todo \ {p}, counted |-> t.counted \cup {p}]]
    /\ UNCHANGED <<meterMinute, snapshots, spendAlerts, invoiceVars>>

\* Upsert of the tenant's counts.
SnapshotTenant(r) ==
    /\ meterTick[r].pc = "snapshot" /\ meterTick' = [meterTick EXCEPT ![r].pc = "done"]
    /\ \/ snapshots' = snapshots \cup {<<meterMinute, meterTick[r].counted>>}
       \/ snapshots' = snapshots
    /\ UNCHANGED <<meterMinute, cpuLog, spendAlerts, invoiceVars>>

CreateAlert(a) ==
    /\ spendAlerts' = spendAlerts \cup {a}
    /\ UNCHANGED <<meterMinute, meterTick, cpuLog, snapshots, invoiceVars>>
DeleteAlert(a) ==
    /\ spendAlerts' = spendAlerts \ {a}
    /\ UNCHANGED <<meterMinute, meterTick, cpuLog, snapshots, invoiceVars>>

\* GET /usage/costs: days of the running month, and the month's cost projected.
Projected(total, day, days) == IF day > 0 THEN (total * days) \div day ELSE 0

TickNext ==
    \/ MeterMinute
    \/ \E r \in Ticks : \/ LogPod(r) \/ SnapshotTenant(r)
                           \/ \E running \in SUBSET Pods : ListPods(r, running)
    \/ \E a \in Pods : CreateAlert(a) \/ DeleteAlert(a)

ApiBillingNext == InvoiceNext \/ TickNext
ApiBillingSpec == ApiBillingInit /\ [][ApiBillingNext]_apiBillingVars

(***************************************************************************)
(* Properties                                                              *)
(***************************************************************************)
\* Types of every variable.
ApiBillingTypeOK ==
    /\ usage \in [Kinds -> 0..MaxUsage] /\ inv.there \in BOOLEAN /\ {inv.subtotal, inv.total} \subseteq Nat
    /\ lines \subseteq GenReqs \X Kinds \X (1..MaxUsage) /\ genMixed \in BOOLEAN
    /\ bill \in [Invoices -> [status : {"draft", "paid"}, pay : {"none", "pending", "captured", "failed"},
                              order : OrdReqs \cup {0}]]
    /\ \A o \in OrdReqs : /\ rzOrder[o] \in {"none", "lost", "created", "failed", "captured"}
                          /\ ordTask[o] \in [pc : {"none", "link", "done"}, of : Invoices]
    /\ meterMinute \in 0..MaxMinute /\ cpuLog \subseteq Replicas \X (1..MaxMinute) \X Pods

\* What is marked as paid was paid: an invoice is 'paid' only when Razorpay
\* captured a payment of an order made for this very invoice, though a later
\* order may replace the one that is paid, payments of several invoices cross,
\* and events are delivered twice, late and out of order (billing.ts:331-338,
\* 379-404).
PaidWasCaptured ==
    \A i \in Invoices : bill[i].status = "paid" =>
        \E o \in OrdReqs : rzOrder[o] = "captured" /\ ordTask[o].of = i

\* The invoice adds up: unless calls overlapped or one died, its total is the
\* sum of its line items and the GST on it whenever no call is under way
\* (billing.ts:109-153).
InvoiceAddsUp ==
    ~genMixed /\ ~GenBusy => inv.subtotal = SumOfLines /\ inv.total = WithGst(SumOfLines)
================================================================================
