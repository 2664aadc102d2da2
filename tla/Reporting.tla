-------------------------------- MODULE Reporting --------------------------------
(***************************************************************************)
(* tinai-reporting: the monthly usage report, the GST export and the       *)
(* quarterly residency report, each a CronJob whose pod is retried when it *)
(* exits with an error, and the MRR dashboard with its cache.  Lago, the   *)
(* mail server and the Kubernetes API are external: a call may fail, and a *)
(* pod may end at any step.                                                *)
(***************************************************************************)
EXTENDS Integers, FiniteSets, FiniteSetsExt

CONSTANTS
    RepTenants,   \* customers in Lago
    Addressed,    \* those Lago has an e-mail address of
    PageSize,     \* invoices per page (100)
    BackoffLimit, \* retries of a Job
    RepMonths,    \* months in which the CronJobs may run, counted from year 0
    InvIds,       \* invoices, in the order Lago lists them
    DashReqs      \* requests to the dashboard

ASSUME ReportingAssumption ==
    /\ Addressed \subseteq RepTenants
    /\ PageSize \in Nat \ {0} /\ BackoffLimit \in Nat /\ RepMonths \subseteq Nat
    /\ InvIds \subseteq Nat /\ IsFiniteSet(InvIds) /\ IsFiniteSet(DashReqs)

VARIABLES
    repMonth,     \* the running month
    repInvoices,  \* Lago: per invoice its month, whether it is in INR, whether paid
    job,          \* per report: its step, page, invoices read, tenants' stages, tries
    reported,     \* mails with a report: <<report, tenant, month>>, and how many
    gstRows,      \* the last GST export mailed: <<month, its invoices>>
    attested,     \* residency reports: <<tenant, whether the nodes were listed>>
    lagoData,     \* version of the data in Lago
    mrrCache,     \* version in the cache and whether its 30 minutes have passed
    mrrTask,      \* per request: its step and the version it read
    mrrDigests    \* versions mailed in daily digests

reportVars  == <<repMonth, repInvoices, job, reported, gstRows, attested>>
mrrVars == <<lagoData, mrrCache, mrrTask, mrrDigests>>
reportingVars == <<reportVars, mrrVars>>

ReportBatch == {"usage", "compliance"}   \* one mail per tenant
Reports == ReportBatch \cup {"gst"}
JobIdle == [pc |-> "idle", month |-> 0, page |-> 0, read |-> {}, nodes |-> FALSE,
            stage |-> [t \in RepTenants |-> "none"], tries |-> 0]

ReportingInit ==
    /\ repMonth \in RepMonths
    /\ repInvoices \in [InvIds -> {[month |-> repMonth - 1, inr |-> TRUE, paid |-> FALSE],
                                  [month |-> repMonth - 1, inr |-> TRUE, paid |-> TRUE],
                                  [month |-> repMonth, inr |-> TRUE, paid |-> TRUE],
                                  [month |-> repMonth - 1, inr |-> FALSE, paid |-> TRUE]}]
    /\ job = [k \in Reports |-> JobIdle] /\ gstRows = <<0, {}>> /\ attested = {}
    /\ reported = [r \in ReportBatch \X RepTenants |-> 0]
    /\ lagoData = 0 /\ mrrCache = [data |-> -1, fresh |-> FALSE]
    /\ mrrTask = [q \in DashReqs |-> [pc |-> "none", data |-> 0, digest |-> FALSE]] /\ mrrDigests = {}

JobAt(k, pc) == job[k].pc = pc
JobGo(k, pc) == job' = [job EXCEPT ![k].pc = pc]

(***************************************************************************)
(* Periods                                                                 *)
(***************************************************************************)
Year(m)  == m \div 12
Month(m) == m % 12            \* getMonth(), from 0

\* getReportingWindow: new Date(year, month - 1, 1), which Date normalises.
ReportingWindow(m) == Year(m) * 12 + Month(m) - 1
\* A defect of PreviousMonth: December of the year that has begun.
SameYear(m) == LET month == IF Month(m) = 0 THEN 12 ELSE Month(m) IN Year(m) * 12 + month - 1

\* getPreviousMonth: the year and the month, from 1, taken apart by hand.
PreviousMonth(m) ==
    LET year  == IF Month(m) = 0 THEN Year(m) - 1 ELSE Year(m)
        month == IF Month(m) = 0 THEN 12 ELSE Month(m) IN
    year * 12 + month - 1
\* getCurrentQuarterPeriod: the first month of the quarter before this one.
QuarterPeriod(m) ==
    LET q     == Month(m) \div 3
        prevQ == IF q = 0 THEN 3 ELSE q - 1
        year  == IF q = 0 THEN Year(m) - 1 ELSE Year(m) IN
    year * 12 + 3 * prevQ

Window(k) == IF k = "usage" THEN ReportingWindow(repMonth)
             ELSE IF k = "gst" THEN PreviousMonth(repMonth) ELSE QuarterPeriod(repMonth)

(***************************************************************************)
(* The Jobs                                                                *)
(***************************************************************************)
\* The CronJob creates a Job once in its month; the pod computes its period.
StartReport(k) ==
    /\ JobAt(k, "idle")
    /\ k = "compliance" => repMonth % 3 = 0
    /\ job' = [job EXCEPT ![k] = [JobIdle EXCEPT !.pc = "fetch", !.month = Window(k), !.page = 1, !.tries = 1]]
    /\ UNCHANGED <<repMonth, repInvoices, reported, gstRows, attested, mrrVars>>

\* The pod of a Job that exits with an error is started again, from the beginning.
ExitsWithError(k) ==
    LET j == job[k] IN
    job' = [job EXCEPT ![k] =
        IF j.tries > BackoffLimit THEN [j EXCEPT !.pc = "failed"]
        ELSE [JobIdle EXCEPT !.pc = "fetch", !.month = j.month, !.page = 1, !.tries = j.tries + 1]]

JobCrashes(k) ==
    /\ job[k].pc \in {"fetch", "mail"} /\ ExitsWithError(k)
    /\ UNCHANGED <<repMonth, repInvoices, reported, gstRows, attested, mrrVars>>

\* fetchInvoices: one page of those issued in the period, whatever their status.
InRange(m)    == {i \in InvIds : repInvoices[i].month = m}
PageOf(m, p)  == {i \in InRange(m) : LET rank == Cardinality({x \in InRange(m) : x <= i}) IN
                                     rank > (p - 1) * PageSize /\ rank <= p * PageSize}

\* fetchAllInvoicesInRange: a page that is not full is the last one; the
\* customers and the nodes are read meanwhile.
FetchPage(k) ==
    LET j == job[k]
        batch == PageOf(j.month, j.page) IN
    /\ JobAt(k, "fetch") /\ k # "compliance"
    /\ job' = [job EXCEPT ![k] =
          IF Cardinality(batch) < PageSize
          THEN [j EXCEPT !.pc = "mail", !.read = j.read \cup batch, !.stage = [t \in RepTenants |-> "metrics"]]
          ELSE [j EXCEPT !.page = j.page + 1, !.read = j.read \cup batch]]
    /\ UNCHANGED <<repMonth, repInvoices, reported, gstRows, attested, mrrVars>>

\* fetchClusterNodes: an error of the API is an empty list.
FetchNodes ==
    /\ JobAt("compliance", "fetch")
    /\ \E listed \in BOOLEAN :
          job' = [job EXCEPT !["compliance"] =
                     [@ EXCEPT !.pc = "mail", !.nodes = listed, !.stage = [t \in RepTenants |-> "metrics"]]]
    /\ UNCHANGED <<repMonth, repInvoices, reported, gstRows, attested, mrrVars>>

\* processOneTenant: the subscriptions of a tenant may not be had, which is an
\* error of this tenant alone; metrics that cannot be had are 0.
ReadTenant(k, t) ==
    /\ k \in ReportBatch /\ JobAt(k, "mail") /\ job[k].stage[t] = "metrics"
    /\ \E s \in {"send", "error"} :
          /\ s = "error" => k = "usage"
          /\ job' = [job EXCEPT ![k].stage[t] = s]
    /\ UNCHANGED <<repMonth, repInvoices, reported, gstRows, attested, mrrVars>>

\* A customer without an address is passed over without a word.  sendEmail
\* throws what the server answers; a mail may be on its way all the same.
SendReport(k, t) ==
    /\ k \in ReportBatch /\ JobAt(k, "mail") /\ job[k].stage[t] = "send"
    /\ \E s \in {"sent", "error"} :
          /\ job' = [job EXCEPT ![k].stage[t] = s]
          /\ \/ t \in Addressed /\ reported' = [reported EXCEPT ![<<k, t>>] = @ + 1]
             \/ (t \in Addressed => s = "error") /\ UNCHANGED reported
          /\ attested' = IF k = "compliance" /\ s = "sent"
                         THEN attested \cup {<<t, job[k].nodes>>} ELSE attested
    /\ UNCHANGED <<repMonth, repInvoices, gstRows, mrrVars>>

\* Promise.allSettled: one tenant in error makes the whole Job exit with 1, and
\* its retry mails every tenant again.
FinishBatch(k) ==
    /\ k \in ReportBatch /\ JobAt(k, "mail") /\ \A t \in RepTenants : job[k].stage[t] \in {"sent", "error"}
    /\ IF \E t \in RepTenants : job[k].stage[t] = "error" THEN ExitsWithError(k) ELSE JobGo(k, "done")
    /\ UNCHANGED <<repMonth, repInvoices, reported, gstRows, attested, mrrVars>>

\* What is exported: invoices in INR that are paid by the time of the run.
GstRow(i) == repInvoices[i].inr /\ repInvoices[i].paid
ExportGst ==
    /\ JobAt("gst", "mail")
    /\ \/ gstRows' = <<job["gst"].month, {i \in job["gst"].read : GstRow(i)}>> /\ JobGo("gst", "done")
       \/ gstRows' = gstRows /\ ExitsWithError("gst")
    /\ UNCHANGED <<repMonth, repInvoices, reported, attested, mrrVars>>

\* POST /compliance-report/:tenantId makes one at any time.
ComplianceOnDemand(t) ==
    /\ \E listed \in BOOLEAN : attested' = attested \cup {<<t, listed>>}
    /\ UNCHANGED <<repMonth, repInvoices, job, reported, gstRows, mrrVars>>

ReportNext ==
    \/ \E k \in Reports : \/ StartReport(k) \/ JobCrashes(k) \/ FetchPage(k) \/ FinishBatch(k)
                          \/ \E t \in RepTenants : ReadTenant(k, t) \/ SendReport(k, t)
    \/ FetchNodes \/ ExportGst \/ \E t \in RepTenants : ComplianceOnDemand(t)

(***************************************************************************)
(* The dashboard                                                           *)
(***************************************************************************)
LagoChanges ==
    /\ lagoData < Cardinality(DashReqs) /\ lagoData' = lagoData + 1
    /\ UNCHANGED <<reportVars, mrrCache, mrrTask, mrrDigests>>
CacheExpires ==
    /\ mrrCache.fresh /\ mrrCache' = [mrrCache EXCEPT !.fresh = FALSE]
    /\ UNCHANGED <<reportVars, lagoData, mrrTask, mrrDigests>>

\* getMetrics: a fresh cache unless the caller forces; otherwise three reads of
\* Lago, in any number of requests at once.
GetMetrics(q, force, digest) ==
    /\ mrrTask[q].pc = "none" /\ digest => force
    /\ mrrTask' = [mrrTask EXCEPT ![q] =
          IF ~force /\ mrrCache.fresh THEN [pc |-> "done", data |-> mrrCache.data, digest |-> FALSE]
          ELSE [pc |-> "store", data |-> lagoData, digest |-> digest]]
    /\ UNCHANGED <<reportVars, lagoData, mrrCache, mrrDigests>>

\* The last to return fills the cache for 30 minutes, with what it read first or last.
StoreMetrics(q) ==
    LET t == mrrTask[q] IN
    /\ t.pc = "store"
    /\ \/ /\ mrrCache' = [data |-> t.data, fresh |-> TRUE]
          /\ mrrTask' = [mrrTask EXCEPT ![q].pc = IF t.digest THEN "digest" ELSE "done"]
       \/ mrrTask' = [mrrTask EXCEPT ![q].pc = "error"] /\ mrrCache' = mrrCache
    /\ UNCHANGED <<reportVars, lagoData, mrrDigests>>

\* POST /digest mails what it has just read.
SendDailyDigest(q) ==
    /\ mrrTask[q].pc = "digest" /\ mrrTask' = [mrrTask EXCEPT ![q].pc = "done"]
    /\ mrrDigests' \in {mrrDigests, mrrDigests \cup {mrrTask[q].data}}
    /\ UNCHANGED <<reportVars, lagoData, mrrCache>>

DashNext ==
    \/ LagoChanges \/ CacheExpires
    \/ \E q \in DashReqs : \/ StoreMetrics(q) \/ SendDailyDigest(q)
                           \/ \E force, digest \in BOOLEAN : GetMetrics(q, force, digest)

(***************************************************************************)
(* Properties                                                              *)
(***************************************************************************)
\* Types of every variable.
ReportingTypeOK ==
    /\ \A k \in Reports : /\ job[k].pc \in {"idle", "fetch", "mail", "done", "failed"}
                          /\ job[k].tries \in 0..(BackoffLimit + 1) /\ job[k].read \subseteq InvIds
    /\ \A r \in DOMAIN reported : reported[r] \in 0..(BackoffLimit + 1)
    /\ attested \subseteq RepTenants \X BOOLEAN /\ gstRows[2] \subseteq InvIds
    /\ lagoData \in 0..Cardinality(DashReqs) /\ mrrCache.data \in -1..lagoData
    /\ \A v \in mrrDigests : v \in 0..lagoData

\* A Job that succeeded has mailed every tenant it has an address of, and
\* none more often than its pod was started; an export that was mailed has
\* every paid INR invoice of the month before the run and no other, on however
\* many pages Lago listed them and at whichever month the run happens
\* (usage-report/src/index.js:33-49, 140-151, 196-229, gst-export/src/index.js:
\* 26-41, 144-181, shared/lago.js:31-41).
ReportsComplete ==
    /\ \A k \in ReportBatch : JobAt(k, "done") => \A t \in Addressed : reported[<<k, t>>] \in 1..job[k].tries
    /\ JobAt("gst", "done") =>
          gstRows = <<repMonth - 1, {i \in InvIds : GstRow(i) /\ repInvoices[i].month = repMonth - 1}>>
================================================================================
