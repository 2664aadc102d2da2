------------------------------- MODULE OpsAlerts -------------------------------
(***************************************************************************)
(* The watchers of tinai-ops-security and what they keep in memory:        *)
(* incident-alerting (alerts of Alertmanager), dlq-monitor (dead letters), *)
(* egress-anomaly (traffic of a tenant), the CVE gate and the export of    *)
(* the audit log.  A mail is an await: other requests and timers run while *)
(* it is under way.                                                        *)
(***************************************************************************)
EXTENDS Integers, Sequences, FiniteSets, SequencesExt

CONSTANTS
    Alerts,         \* fingerprints
    P1, P2,         \* those classifySeverity puts in P1 and P2
    Payloads,       \* webhook bodies: sequences of [fp, status], fps distinct
    AlertWorkers,   \* payloads handled at the same time
    DlqSubs,        \* subscriptions: the billing subject is listed twice
    DlqSubject,     \* the subject of each
    DlqThreshold, DlqStore, DlqMax,  \* 10, 1000; bound: messages published
    Traffic,        \* egress of a tenant in a window, in units
    SpikeFactor, SpikeFloor, EgressLimit  \* 5, 1 MB, 10 GB

ASSUME OpsAlertsAssumption ==
    /\ P1 \subseteq Alerts /\ P2 \subseteq Alerts /\ P1 \cap P2 = {}
    /\ {DlqThreshold, DlqStore, SpikeFactor, SpikeFloor, EgressLimit} \subseteq Nat
    /\ Traffic \subseteq Nat
    /\ Payloads \subseteq Seq([fp : Alerts, status : {"firing", "resolved"}])

VARIABLES
    active,      \* activeAlerts
    digest,      \* digestQueue
    pager,       \* handleAlertmanagerPayload per worker: [pc, alert, rest]
    told,        \* history: P1 alerts mailed since they fired
    untold,      \* history: P1 alerts whose mail failed since they fired
    dlqQueue,    \* messages each subscription has yet to read
    dlqStore,    \* dlqEvents, oldest first
    dlqCount,    \* hourlyCount.count
    dlqHour,     \* more than an hour has passed since windowStart
    dlqMail,     \* subscriptions awaiting sendDLQAlert
    dlqSent,     \* messages published so far
    replayed,    \* messages replayed by hand
    baseline,    \* egressBaseline of the tenant; NoBaseline before the first
    muted,       \* an alert was sent less than an hour ago
    egressMail,  \* what the check awaits: "idle", "mail", "quarantine"
    quarantined, \* tenant-isolation denies everything
    egressWhy,   \* reasons given so far: "spike", "absolute"
    gate,        \* verdicts of the CVE gate: <<scan, verdict>>
    auditLog     \* days exported: <<day, stored>>

incidentVars == <<active, digest, pager, told, untold>>
dlqVars      == <<dlqQueue, dlqStore, dlqCount, dlqHour, dlqMail, dlqSent, replayed>>
egressVars   == <<baseline, muted, egressMail, quarantined, egressWhy>>
scanVars     == <<gate, auditLog>>
alertVars    == <<incidentVars, dlqVars, egressVars, scanVars>>

PagerIdle  == [pc |-> "idle"]
NoBaseline == -1

AlertsInit ==
    /\ active = {} /\ digest = {} /\ told = {} /\ untold = {}
    /\ pager = [w \in AlertWorkers |-> PagerIdle]
    /\ dlqQueue = [s \in DlqSubs |-> <<>>] /\ dlqStore = <<>> /\ dlqCount = 0
    /\ dlqHour = FALSE /\ dlqMail = {} /\ dlqSent = 0 /\ replayed = {}
    /\ baseline = NoBaseline /\ muted = FALSE /\ egressMail = "idle"
    /\ quarantined = FALSE /\ egressWhy = {}
    /\ gate = {} /\ auditLog = {}

(***************************************************************************)
(* incident-alerting                                                       *)
(***************************************************************************)
\* The loop awaits at a P1 alert that is resolved or was not active.
Awaits(a) == a.fp \in P1 /\ (a.status = "resolved" \/ a.fp \notin active)

\* The alerts of a payload up to and including the first that awaits.
Batch(alerts) ==
    LET stops == {i \in 1..Len(alerts) : Awaits(alerts[i])}
    IN  IF stops = {} THEN alerts
        ELSE SubSeq(alerts, 1, CHOOSE i \in stops : \A j \in stops : i <= j)

HandleAlerts(w, alerts, toldNow) ==
    LET now   == Batch(alerts)
        fps(status) == {now[i].fp : i \in {j \in 1..Len(now) : now[j].status = status}}
        fired == fps("firing") \ active
        rest  == SubSeq(alerts, Len(now) + 1, Len(alerts))
    IN
    /\ active' = (active \ fps("resolved")) \cup fired
    /\ digest' = digest \cup (fired \cap P2)
    /\ told' = toldNow \ fired /\ untold' = untold \ fired
    /\ pager' = [pager EXCEPT ![w] =
          IF now = <<>> \/ ~Awaits(Last(now)) THEN PagerIdle
          ELSE [pc |-> "mail", alert |-> Last(now), rest |-> rest]]

AlertWebhook(w, p) ==
    /\ pager[w] = PagerIdle /\ HandleAlerts(w, p, told)
    /\ UNCHANGED <<dlqVars, egressVars, scanVars>>

\* The mail is accepted, the page too: the loop goes on.
AlertMailed(w) ==
    /\ pager[w].pc = "mail"
    /\ HandleAlerts(w, pager[w].rest, IF pager[w].alert.status = "firing"
                                      THEN told \cup {pager[w].alert.fp} ELSE told)
    /\ UNCHANGED <<dlqVars, egressVars, scanVars>>

\* The mail or the page fails: the rest of the payload is dropped, and the
\* alert stays in activeAlerts, where its next notification is skipped.
AlertMailFails(w) ==
    /\ pager[w].pc = "mail"
    /\ untold' = IF pager[w].alert.status = "firing"
                 THEN untold \cup {pager[w].alert.fp} ELSE untold
    /\ pager' = [pager EXCEPT ![w] = PagerIdle]
    /\ UNCHANGED <<active, digest, told, dlqVars, egressVars, scanVars>>

\* The digest takes the whole queue before its mail is sent, or lost.
SendDigest ==
    /\ digest # {} /\ digest' = {}
    /\ UNCHANGED <<active, pager, told, untold, dlqVars, egressVars, scanVars>>

AlertingRestart ==
    /\ active' = {} /\ digest' = {} /\ told' = {} /\ untold' = {}
    /\ pager' = [w \in AlertWorkers |-> PagerIdle]
    /\ UNCHANGED <<dlqVars, egressVars, scanVars>>

(***************************************************************************)
(* dlq-monitor                                                             *)
(***************************************************************************)
\* A service publishes to its DLQ: every subscription of the subject has it.
DeadLetter(subject) ==
    /\ dlqSent < DlqMax /\ dlqSent' = dlqSent + 1
    /\ dlqQueue' = [s \in DlqSubs |-> IF DlqSubject[s] = subject
                       THEN Append(dlqQueue[s], dlqSent') ELSE dlqQueue[s]]
    /\ UNCHANGED <<dlqStore, dlqCount, dlqHour, dlqMail, replayed, incidentVars, egressVars, scanVars>>

\* A defect of StoreDLQEvent: the ring is never trimmed.
StoreUnbounded(s) ==
    /\ s \notin dlqMail /\ dlqQueue[s] # <<>>
    /\ dlqQueue' = [dlqQueue EXCEPT ![s] = Tail(@)]
    /\ dlqStore' = Append(dlqStore, Head(dlqQueue[s]))
    /\ dlqHour' = FALSE /\ dlqCount' = IF dlqHour THEN 1 ELSE dlqCount + 1
    /\ dlqMail' = IF ~dlqHour /\ dlqCount' >= DlqThreshold THEN dlqMail \cup {s} ELSE dlqMail
    /\ UNCHANGED <<dlqSent, replayed, incidentVars, egressVars, scanVars>>

\* storeDLQEvent into the ring, then the window: past the hour it starts
\* again at 1, else the threshold sends an alert, awaited by this loop alone.
StoreDLQEvent(s) ==
    LET full == Append(dlqStore, Head(dlqQueue[s])) IN
    /\ s \notin dlqMail /\ dlqQueue[s] # <<>>
    /\ dlqQueue' = [dlqQueue EXCEPT ![s] = Tail(@)]
    /\ dlqStore' = IF Len(dlqStore) >= DlqStore THEN Tail(full) ELSE full
    /\ dlqHour' = FALSE
    /\ IF dlqHour THEN dlqCount' = 1 /\ UNCHANGED dlqMail
       ELSE /\ dlqCount' = dlqCount + 1
            /\ dlqMail' = IF dlqCount' >= DlqThreshold THEN dlqMail \cup {s} ELSE dlqMail
    /\ UNCHANGED <<dlqSent, replayed, incidentVars, egressVars, scanVars>>

\* The mail was sent or its failure caught: the count is reset either way, with
\* what came meanwhile.
DLQAlert(s) ==
    /\ s \in dlqMail /\ dlqMail' = dlqMail \ {s}
    /\ dlqCount' = 0
    /\ UNCHANGED <<dlqQueue, dlqStore, dlqHour, dlqSent, replayed, incidentVars, egressVars, scanVars>>

DLQHour ==
    /\ ~dlqHour /\ dlqCount > 0 /\ dlqHour' = TRUE
    /\ UNCHANGED <<dlqQueue, dlqStore, dlqCount, dlqMail, dlqSent, replayed,
                   incidentVars, egressVars, scanVars>>

\* POST /dlq/replay/:id publishes on a subject no service subscribes to.
ReplayDLQ(m) ==
    /\ Contains(dlqStore, m) /\ replayed' = replayed \cup {m}
    /\ UNCHANGED <<dlqQueue, dlqStore, dlqCount, dlqHour, dlqMail, dlqSent,
                   incidentVars, egressVars, scanVars>>

(***************************************************************************)
(* egress-anomaly; fractions of a unit are rounded up                      *)
(***************************************************************************)
\* updateBaseline: 0.8 of the old average, 0.2 of the current value.
NewBaseline(cur) ==
    LET prev == IF baseline = NoBaseline THEN cur ELSE baseline
    IN  (4 * prev + cur + 4) \div 5

IsSpike(cur, avg) == avg > SpikeFloor /\ cur > avg * SpikeFactor

\* One namespace of checkEgressAnomalies; the hour of silence begins before
\* the mail is sent.
CheckEgress(cur) ==
    LET avg == NewBaseline(cur)
        why == IF IsSpike(cur, avg) THEN {"spike"}
               ELSE IF cur > EgressLimit THEN {"absolute"} ELSE {}
    IN
    /\ egressMail = "idle" /\ baseline' = avg
    /\ IF why # {} /\ ~muted
       THEN muted' = TRUE /\ egressMail' = "mail" /\ egressWhy' = egressWhy \cup why
       ELSE UNCHANGED <<muted, egressMail, egressWhy>>
    /\ UNCHANGED <<quarantined, incidentVars, dlqVars, scanVars>>

\* The mail succeeds and the namespace is quarantined next; when it fails so
\* does the quarantine, and the namespace stays muted.
EgressMailed ==
    /\ egressMail = "mail" /\ egressMail' \in {"quarantine", "idle"}
    /\ UNCHANGED <<baseline, muted, quarantined, egressWhy, incidentVars, dlqVars, scanVars>>

\* quarantineNamespace: nothing in the repository ever lifts it.
Quarantine ==
    /\ egressMail = "quarantine" /\ egressMail' = "idle"
    /\ quarantined' \in {TRUE, quarantined}
    /\ UNCHANGED <<baseline, muted, egressWhy, incidentVars, dlqVars, scanVars>>

EgressHour ==
    /\ muted /\ muted' = FALSE
    /\ UNCHANGED <<baseline, egressMail, quarantined, egressWhy, incidentVars, dlqVars, scanVars>>

(***************************************************************************)
(* cve-scanner, audit-log-export                                           *)
(***************************************************************************)
\* trivyScan and parseScanResult in CI: a scan that failed has no results,
\* hence no critical ones.
CiScan(scan) ==
    /\ gate' = gate \cup {<<scan, IF scan = "critical" THEN "block" ELSE "pass">>}
    /\ UNCHANGED <<auditLog, incidentVars, dlqVars, egressVars>>

\* exportAuditLogs: yesterday's lines are uploaded; the status of the upload
\* is not looked at, and the export is reported either way.
ExportAuditLogs(stored) ==
    /\ auditLog' = auditLog \cup {<<"reported", stored>>}
    /\ UNCHANGED <<gate, incidentVars, dlqVars, egressVars>>

IncidentNext ==
    \/ SendDigest \/ AlertingRestart
    \/ \E w \in AlertWorkers :
          AlertMailed(w) \/ AlertMailFails(w) \/ \E p \in Payloads : AlertWebhook(w, p)

DlqNext ==
    \/ DLQHour \/ \E subject \in {DlqSubject[s] : s \in DlqSubs} : DeadLetter(subject)
    \/ \E s \in DlqSubs : StoreDLQEvent(s) \/ DLQAlert(s)
    \/ \E m \in 1..DlqMax : ReplayDLQ(m)

EgressNext ==
    \/ EgressMailed \/ Quarantine \/ EgressHour \/ \E cur \in Traffic : CheckEgress(cur)

ScanNext ==
    \/ \E scan \in {"clean", "critical", "failed"} : CiScan(scan)
    \/ \E stored \in BOOLEAN : ExportAuditLogs(stored)

AlertsNext == IncidentNext \/ DlqNext \/ EgressNext \/ ScanNext

(***************************************************************************)
(* Properties                                                              *)
(***************************************************************************)
AlertsTypeOK ==
    /\ active \subseteq Alerts /\ digest \subseteq P2
    /\ \A w \in AlertWorkers : pager[w].pc \in {"idle", "mail"}
    /\ Len(dlqStore) <= DlqStore /\ dlqMail \subseteq DlqSubs
    /\ baseline \in Nat \cup {NoBaseline} /\ egressMail \in {"idle", "mail", "quarantine"}

\* A P1 alert is never taken for known without anybody being told: one in
\* activeAlerts was mailed, is being mailed, or its mail failed.
P1Noticed ==
    \A fp \in active \cap P1 :
        \/ fp \in told \cup untold
        \/ \E w \in AlertWorkers : pager[w].pc = "mail" /\ pager[w].alert.fp = fp
               /\ pager[w].alert.status = "firing"
=================================================================================
