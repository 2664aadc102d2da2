------------------------------- MODULE ApiPrivacy -------------------------------
(***************************************************************************)
(* Privacy records of tinai-api: erasure requests, consents, breach        *)
(* incidents, data processing agreements, the register of processing       *)
(* activities and residency reports (routes/erasure.ts, consent.ts,        *)
(* breach.ts, dpa.ts, ropa.ts, compliance.ts), each change followed by an  *)
(* audit event whose failure never fails the request (utils/audit.ts).     *)
(* Between the read, the write and the audit of a handler others run; a    *)
(* handler may also end early with its pod.                                *)
(***************************************************************************)
EXTENDS Naturals, FiniteSets

CONSTANTS
    PrivReqs,     \* requests; a record's id is that of the request creating it
    Purposes,     \* purposes of a consent
    RopaVals      \* values of a field of a processing activity

ASSUME ApiPrivacyAssumption == IsFiniteSet(PrivReqs)

VARIABLES
    erasures,     \* status of each request for erasure
    consents,     \* per id: purpose, granted, withdrawn
    breaches,     \* per id: status, and the last time the regulator was notified
    privDpas,     \* agreements signed: <<jurisdiction, version>> and by whom
    ropa,         \* the fields of one processing activity
    reports,      \* residency_reports: <<nodes were listed, pods were listed>>
    privTask,     \* per request: its next step, record, operation and values read
    privAudit,    \* audit_events: per <<action, id>> how many
    auditLost,    \* history: <<action, id>> whose audit failed or never came
    privClock     \* number of writes so far

privVars == <<erasures, consents, breaches, privDpas, ropa, reports, privTask,
              privAudit, auditLost, privClock>>

Jurisdictions == {"IN", "QA", "AE"}
RopaFields == {"purpose", "basis"}
Actions == {"erasure_created", "erasure_completed", "consent_record", "consent_withdraw",
            "breach_detected", "breach_notified", "breach_resolved", "dpa_signed", "ropa_update"}
PrivIdle  == [pc |-> "none", op |-> "none", id |-> 0, vals |-> [f \in RopaFields |-> "none"]]
NoConsent == [purpose |-> "none", granted |-> FALSE, withdrawn |-> FALSE]
NoBreach  == [status |-> "none", notified |-> 0]

PrivacyInit ==
    /\ erasures = [i \in PrivReqs |-> "none"] /\ consents = [i \in PrivReqs |-> NoConsent]
    /\ breaches = [i \in PrivReqs |-> NoBreach] /\ privDpas = [j \in {} |-> 0]
    /\ ropa \in [RopaFields -> RopaVals] /\ reports = {}
    /\ privTask = [q \in PrivReqs |-> PrivIdle] /\ privAudit = [a \in Actions \X PrivReqs |-> 0]
    /\ auditLost = {} /\ privClock = 0

PrivAt(q, pc, op) == privTask[q].pc = pc /\ privTask[q].op = op
PrivGo(q, pc, op, i) ==
    privTask' = [privTask EXCEPT ![q] = [PrivIdle EXCEPT !.pc = pc, !.op = op, !.id = i]]
Free(q) == privTask[q].pc = "none"
\* What every write is followed by: the audit of the operation is next.
ThenAudit(q, op, i) ==
    /\ PrivGo(q, "audit", op, i) /\ privClock' = privClock + 1
    /\ UNCHANGED <<privAudit, auditLost>>
ThenEnds(q, op, i) == PrivGo(q, "done", op, i) /\ UNCHANGED <<privAudit, auditLost, privClock>>

(***************************************************************************)
(* Audit events                                                            *)
(***************************************************************************)
\* writeAuditEvent: an INSERT that fails is logged, and the answer is the same.
WriteAuditEvent(q) ==
    LET key == <<privTask[q].op, privTask[q].id>> IN
    /\ privTask[q].pc = "audit" /\ PrivGo(q, "done", privTask[q].op, privTask[q].id)
    /\ \/ privAudit' = [privAudit EXCEPT ![key] = @ + 1] /\ auditLost' = auditLost
       \/ privAudit' = privAudit /\ auditLost' = auditLost \cup {key}
    /\ UNCHANGED <<erasures, consents, breaches, privDpas, ropa, reports, privClock>>

\* The pod ends between a write and its audit.
AuditNeverComes(q) ==
    /\ privTask[q].pc = "audit" /\ PrivGo(q, "done", privTask[q].op, privTask[q].id)
    /\ auditLost' = auditLost \cup {<<privTask[q].op, privTask[q].id>>}
    /\ UNCHANGED <<erasures, consents, breaches, privDpas, ropa, reports, privAudit, privClock>>

(***************************************************************************)
(* Erasure and consent                                                     *)
(***************************************************************************)
CreateErasure(q) ==
    /\ Free(q) /\ erasures' = [erasures EXCEPT ![q] = "pending"] /\ ThenAudit(q, "erasure_created", q)
    /\ UNCHANGED <<consents, breaches, privDpas, ropa, reports>>

\* POST /compliance/erasure/:id/complete reads whose it is, whatever its status.
ReadErasure(q, i) ==
    /\ Free(q) /\ erasures[i] # "none" /\ PrivGo(q, "write", "erasure_completed", i)
    /\ UNCHANGED <<erasures, consents, breaches, privDpas, ropa, reports, privAudit, auditLost, privClock>>

\* UPDATE ... AND status != 'completed': 404 without an audit when there is nothing to do.
CompleteErasure(q) ==
    LET i == privTask[q].id IN
    /\ PrivAt(q, "write", "erasure_completed")
    /\ IF erasures[i] # "completed"
       THEN erasures' = [erasures EXCEPT ![i] = "completed"] /\ ThenAudit(q, "erasure_completed", i)
       ELSE erasures' = erasures /\ ThenEnds(q, "erasure_completed", i)
    /\ UNCHANGED <<consents, breaches, privDpas, ropa, reports>>

RecordConsent(q, p, granted) ==
    /\ Free(q) /\ consents' = [consents EXCEPT ![q] = [purpose |-> p, granted |-> granted, withdrawn |-> FALSE]]
    /\ ThenAudit(q, "consent_record", q)
    /\ UNCHANGED <<erasures, breaches, privDpas, ropa, reports>>

ReadConsent(q, i) ==
    /\ Free(q) /\ consents[i] # NoConsent /\ PrivGo(q, "write", "consent_withdraw", i)
    /\ UNCHANGED <<erasures, consents, breaches, privDpas, ropa, reports, privAudit, auditLost, privClock>>

\* A defect of WithdrawConsent: without the condition of its UPDATE.
WithdrawAgain(q) ==
    LET i == privTask[q].id IN
    /\ PrivAt(q, "write", "consent_withdraw")
    /\ consents' = [consents EXCEPT ![i].granted = FALSE, ![i].withdrawn = TRUE]
    /\ ThenAudit(q, "consent_withdraw", i)
    /\ UNCHANGED <<erasures, breaches, privDpas, ropa, reports>>

\* UPDATE ... AND withdrawn_at IS NULL.
WithdrawConsent(q) ==
    LET i == privTask[q].id IN
    /\ PrivAt(q, "write", "consent_withdraw")
    /\ IF ~consents[i].withdrawn
       THEN /\ consents' = [consents EXCEPT ![i].granted = FALSE, ![i].withdrawn = TRUE]
            /\ ThenAudit(q, "consent_withdraw", i)
       ELSE consents' = consents /\ ThenEnds(q, "consent_withdraw", i)
    /\ UNCHANGED <<erasures, breaches, privDpas, ropa, reports>>

\* GET /compliance/consent/status: the newest record of a purpose counts.
Granted(p) ==
    \E i \in PrivReqs : /\ consents[i].purpose = p /\ consents[i].granted
                        /\ \A k \in PrivReqs : k > i => consents[k].purpose # p

(***************************************************************************)
(* Breaches                                                                *)
(***************************************************************************)
\* POST /compliance/breach: the notification is drafted first, by a model or
\* from the template when that fails, and the incident is then inserted.
DraftNotification(q) ==
    /\ Free(q) /\ PrivGo(q, "write", "breach_detected", q)
    /\ UNCHANGED <<erasures, consents, breaches, privDpas, ropa, reports, privAudit, auditLost, privClock>>

CreateBreach(q) ==
    /\ PrivAt(q, "write", "breach_detected")
    /\ breaches' = [breaches EXCEPT ![q].status = "detected"] /\ ThenAudit(q, "breach_detected", q)
    /\ UNCHANGED <<erasures, consents, privDpas, ropa, reports>>

ReadBreach(q, i, op) ==
    /\ Free(q) /\ breaches[i].status # "none" /\ PrivGo(q, "write", op, i)
    /\ UNCHANGED <<erasures, consents, breaches, privDpas, ropa, reports, privAudit, auditLost, privClock>>

\* Both updates are unconditional: a closed incident is reopened as 'notified',
\* and the time of an earlier notification is overwritten.
NotifyRegulator(q) ==
    LET i == privTask[q].id IN
    /\ PrivAt(q, "write", "breach_notified")
    /\ breaches' = [breaches EXCEPT ![i] = [status |-> "notified", notified |-> privClock + 1]]
    /\ ThenAudit(q, "breach_notified", i)
    /\ UNCHANGED <<erasures, consents, privDpas, ropa, reports>>

ResolveBreach(q) ==
    LET i == privTask[q].id IN
    /\ PrivAt(q, "write", "breach_resolved")
    /\ breaches' = [breaches EXCEPT ![i].status = "closed"] /\ ThenAudit(q, "breach_resolved", i)
    /\ UNCHANGED <<erasures, consents, privDpas, ropa, reports>>

\* computeBreachFields: the regulator must be notified within 72 hours.
DeadlinePassed(hours)  == hours > 72
HoursRemaining(hours)  == IF hours > 72 THEN 0 ELSE 72 - hours

(***************************************************************************)
(* Agreements, register and residency                                      *)
(***************************************************************************)
\* POST /compliance/dpa/sign: a second signature of a version replaces the first.
SignDpa(q, j, v) ==
    /\ Free(q) /\ ThenAudit(q, "dpa_signed", q)
    /\ privDpas' = [d \in DOMAIN privDpas \cup {<<j, v>>} |-> IF d = <<j, v>> THEN q ELSE privDpas[d]]
    /\ UNCHANGED <<erasures, consents, breaches, ropa, reports>>

\* PUT /compliance/ropa/:id: what the body leaves out is taken from the row read.
ReadRopa(q, f, v) ==
    /\ Free(q)
    /\ privTask' = [privTask EXCEPT ![q] = [pc |-> "write", op |-> "ropa_update", id |-> q,
                                           vals |-> [ropa EXCEPT ![f] = v]]]
    /\ UNCHANGED <<erasures, consents, breaches, privDpas, ropa, reports, privAudit, auditLost, privClock>>

\* It writes every field: an update of another one meanwhile is lost.
UpdateRopa(q) ==
    /\ PrivAt(q, "write", "ropa_update") /\ ropa' = privTask[q].vals /\ ThenAudit(q, "ropa_update", q)
    /\ UNCHANGED <<erasures, consents, breaches, privDpas, reports>>

\* POST /compliance/residency-report: nodes and pods that cannot be listed are
\* none; the report asserts residency all the same.
ResidencyReport(q) ==
    /\ Free(q) /\ PrivGo(q, "done", "none", q)
    /\ \E nodes, pods \in BOOLEAN : reports' = reports \cup {<<nodes, pods>>}
    /\ UNCHANGED <<erasures, consents, breaches, privDpas, ropa, privAudit, auditLost, privClock>>

PrivacyNext == \E q \in PrivReqs :
    \/ WriteAuditEvent(q) \/ AuditNeverComes(q)
    \/ CreateErasure(q) \/ CompleteErasure(q) \/ WithdrawConsent(q)
    \/ DraftNotification(q) \/ CreateBreach(q) \/ NotifyRegulator(q) \/ ResolveBreach(q)
    \/ UpdateRopa(q) \/ ResidencyReport(q)
    \/ \E i \in PrivReqs : \/ ReadErasure(q, i) \/ ReadConsent(q, i)
                           \/ \E op \in {"breach_notified", "breach_resolved"} : ReadBreach(q, i, op)
    \/ \E p \in Purposes, granted \in BOOLEAN : RecordConsent(q, p, granted)
    \/ \E j \in Jurisdictions, v \in {1} : SignDpa(q, j, v)
    \/ \E f \in RopaFields, v \in RopaVals : ReadRopa(q, f, v)

PrivacySpec == PrivacyInit /\ [][PrivacyNext]_privVars

(***************************************************************************)
(* Properties                                                              *)
(***************************************************************************)
\* Types of every variable.
PrivacyTypeOK ==
    /\ erasures \in [PrivReqs -> {"none", "pending", "completed"}]
    /\ \A i \in PrivReqs : consents[i].purpose \in Purposes \cup {"none"}
    /\ \A i \in PrivReqs : breaches[i].status \in {"none", "detected", "notified", "closed"}
    /\ DOMAIN privDpas \subseteq Jurisdictions \X {1} /\ ropa \in [RopaFields -> RopaVals]
    /\ privAudit \in [Actions \X PrivReqs -> 0..Cardinality(PrivReqs)]
    /\ auditLost \subseteq Actions \X PrivReqs /\ privClock \in 0..Cardinality(PrivReqs)

\* An erasure that is completed, and a consent that is withdrawn, is recorded
\* exactly once however many operators confirm it at the same time, unless the
\* audit is still to come, failed, or ended with the pod (erasure.ts:127-152,
\* consent.ts:114-133, utils/audit.ts:22-40).
AuditPending(op, i) == \E q \in PrivReqs : PrivAt(q, "audit", op) /\ privTask[q].id = i
Recorded(op, i, happened) ==
    LET n == privAudit[<<op, i>>] IN
    IF ~happened THEN n = 0 /\ <<op, i>> \notin auditLost
    ELSE IF AuditPending(op, i) \/ <<op, i>> \in auditLost THEN n = 0 ELSE n = 1
ConfirmedOnceInAudit == \A i \in PrivReqs :
    /\ Recorded("erasure_completed", i, erasures[i] = "completed")
    /\ Recorded("consent_withdraw", i, consents[i].withdrawn)
================================================================================
