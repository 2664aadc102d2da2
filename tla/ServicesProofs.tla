---------------------------- MODULE ServicesProofs ----------------------------
(***************************************************************************)
(* The services around the API, for any values of their constants: the     *)
(* payment webhook, the trials, the changes of plan, the metering bridge,  *)
(* deploys, new tenants, alerts, maintenance and reports.  Each has an     *)
(* invariant that its own steps keep; with those of the clients they make  *)
(* SvcInv, an invariant of them all, which says what the runs check.       *)
(***************************************************************************)
EXTENDS ClientProofs, FunctionTheorems


-----------------------------------------------------------------------------
(* The payment webhook: a clock that runs was started by a failure, and    *)
(* what was handled within a day is remembered, or the process restarted.  *)

KeyOf(e) == <<e.provider, e.tenant>>

PayTypes ==
    /\ billDay \in BillDays
    /\ processed \in [PayEvents -> BillDays \cup {Never}]
    /\ retry \in [PayKeys -> BillDays \cup {Never}]
    /\ payJob = [w \in PayWorkers |-> payJob[w]]
    /\ payHistory \subseteq [event : PayEvents, day : BillDays]

PastInv == \A h \in payHistory : h.day <= billDay

\* A clock that runs was started by a failure of its key that the process
\* handled, and no success of that key was handled on a later day than that.
ClockInv == \A k \in PayKeys : retry[k] # Never =>
    /\ \E f \in payHistory : f.event.kind = "failed" /\ KeyOf(f.event) = k /\ f.day = retry[k]
    /\ \A s \in payHistory : s.event.kind = "success" /\ KeyOf(s.event) = k => s.day <= retry[k]

\* What was handled is recorded with the day of its last handling if it has an
\* id, unless more than a day has passed since.
RecordInv == \A h \in payHistory :
    HasId(h.event) => h.day <= processed[h.event] \/ billDay - h.day > 1

PayInv == PayTypes /\ PastInv /\ ClockInv /\ RecordInv /\ HandledOncePerDay

-----------------------------------------------------------------------------
LEMMA DayFacts ==
    /\ \A d \in BillDays : d \in Nat /\ d # Never
    /\ \A e \in PayEvents : KeyOf(e) \in PayKeys /\ KeyOf(e) = <<e.provider, e.tenant>>
    /\ Never \in Int /\ \A d \in BillDays : d > Never
BY BillingAssumption DEF Never, KeyOf, PayKeys

\* Whatever the map forgets is older than a day.
LEMMA Forgotten ==
    ASSUME PayTypes, NEW e \in PayEvents, e \notin Remembered
    PROVE  processed[e] = Never \/ (processed[e] \in BillDays /\ billDay - processed[e] > 1)
BY DayFacts DEF PayTypes, Remembered

\* What Record leaves of the other events.
LEMMA Recorded ==
    ASSUME PayTypes, NEW e \in PayEvents, Record(e)
    PROVE  /\ processed' \in [PayEvents -> BillDays \cup {Never}]
           /\ HasId(e) => processed'[e] = billDay
           /\ \A f \in PayEvents : f # e => processed'[f] = processed[f] \/ f \notin Remembered
BY DEF PayTypes, Record

LEMMA PayStart == BillInit => PayInv
BY BillingAssumption DEF BillInit, PayInv, PayTypes, PastInv, ClockInv, RecordInv, HandledOncePerDay

\* An event handled now, that the map did not remember.
LEMMA HandleKeeps ==
    ASSUME PayInv, NEW e \in PayEvents, e \notin Remembered, Record(e), Handled(e), billDay' = billDay
    PROVE  /\ PastInv' /\ RecordInv' /\ HandledOncePerDay'
           /\ processed' \in [PayEvents -> BillDays \cup {Never}]
           /\ payHistory' \subseteq [event : PayEvents, day : BillDays]
<1> DEFINE new == [event |-> e, day |-> billDay]
<1>1. payHistory' = payHistory \cup {new} /\ new.event = e /\ new.day = billDay
  BY DEF Handled
<1>2. /\ PayTypes /\ PastInv /\ RecordInv /\ HandledOncePerDay
      /\ billDay \in Nat /\ new \in [event : PayEvents, day : BillDays]
  BY DayFacts DEF PayInv, PayTypes
<1> HIDE DEF new
<1>3. payHistory' \subseteq [event : PayEvents, day : BillDays] /\ PastInv'
  BY <1>1, <1>2 DEF PayTypes, PastInv
<1>4. \A h \in payHistory' : h.event \in PayEvents /\ h.day \in Nat
  BY <1>3, DayFacts
<1>5. ASSUME NEW f \in PayEvents, f \notin Remembered, NEW h \in payHistory, h.event = f, HasId(f)
      PROVE  billDay - h.day > 1
  <2>1. h.day \in Nat /\ h.day \in BillDays /\ (h.day <= processed[f] \/ billDay - h.day > 1)
    BY <1>1, <1>2, <1>4, <1>5 DEF RecordInv, PayTypes
  <2>2. CASE processed[f] = Never
    BY <1>2, <2>1, <2>2 DEF Never
  <2>3. CASE processed[f] \in BillDays /\ billDay - processed[f] > 1
    BY <1>2, <2>1, <2>3, DayFacts
  <2> QED
    BY <1>2, <1>5, <2>2, <2>3, Forgotten
<1>6. RecordInv'
  <2> SUFFICES ASSUME NEW h \in payHistory', HasId(h.event)
               PROVE  h.day <= processed'[h.event] \/ billDay - h.day > 1
    BY DEF RecordInv, HasId
  <2>1. CASE h.event = e
    BY <1>2, <1>3, <1>4, <2>1, Recorded DEF PastInv
  <2>2. CASE h.event # e
    <3>1. h \in payHistory
      BY <1>1, <2>2
    <3>2. h.event \notin Remembered \/ processed'[h.event] = processed[h.event]
      BY <1>2, <1>4, <2>2, Recorded
    <3> QED
      BY <1>2, <1>4, <1>5, <3>1, <3>2 DEF RecordInv
  <2> QED
    BY <2>1, <2>2
<1>7. HandledOncePerDay'
  <2> SUFFICES ASSUME NEW h \in payHistory', NEW k \in payHistory', HasId(h.event),
                      h.event = k.event, h.day < k.day
               PROVE  k.day - h.day > 1
    BY DEF HandledOncePerDay, HasId
  <2>1. CASE h \in payHistory /\ k \in payHistory
    BY <1>2, <2>1 DEF HandledOncePerDay
  <2>2. CASE k = new /\ h \in payHistory
    BY <1>1, <1>5, <2>2
  <2>3. h # new
    <3> SUFFICES ASSUME h = new PROVE FALSE
      OBVIOUS
    <3> QED
      BY <1>1, <1>2, <1>3, <1>4 DEF PastInv
  <2> QED
    BY <1>1, <2>1, <2>2, <2>3
<1> QED
  BY <1>2, <1>3, <1>6, <1>7, Recorded

\* A success stops the clock of its key.
LEMMA SuccessKeeps ==
    ASSUME PayInv, NEW e \in PayEvents, PaymentSuccess(e)
    PROVE  PayInv'
<1> DEFINE key == KeyOf(e)
<1>1. /\ e.kind = "success" /\ e \notin Remembered /\ Record(e) /\ Handled(e)
      /\ retry' = [retry EXCEPT ![key] = Never] /\ UNCHANGED <<billDay, payJob>>
  BY DEF PaymentSuccess, KeyOf
<1>2. PayTypes /\ ClockInv /\ key \in PayKeys
  BY DayFacts DEF PayInv
<1>3. /\ PastInv' /\ RecordInv' /\ HandledOncePerDay'
      /\ processed' \in [PayEvents -> BillDays \cup {Never}]
      /\ payHistory' \subseteq [event : PayEvents, day : BillDays]
  BY <1>1, HandleKeeps
<1>4. PayTypes'
  BY <1>1, <1>2, <1>3 DEF PayTypes
<1>5. ClockInv'
  <2> SUFFICES ASSUME NEW k \in PayKeys, retry'[k] # Never
               PROVE  /\ \E f \in payHistory' : f.event.kind = "failed" /\ KeyOf(f.event) = k /\ f.day = retry'[k]
                      /\ \A s \in payHistory' : s.event.kind = "success" /\ KeyOf(s.event) = k => s.day <= retry'[k]
    BY DEF ClockInv
  <2>1. k # key /\ retry'[k] = retry[k]
    BY <1>1, <1>2 DEF PayTypes
  <2>2. \A h \in payHistory' : h \in payHistory \/ h.event = e
    BY <1>1 DEF Handled
  <2>3. payHistory \subseteq payHistory'
    BY <1>1 DEF Handled
  <2> QED
    BY <1>2, <2>1, <2>2, <2>3 DEF ClockInv
<1> QED
  BY <1>3, <1>4, <1>5 DEF PayInv

\* A failure starts the clock of its key, or leaves it running.
LEMMA FailureKeeps ==
    ASSUME PayInv, NEW e \in PayEvents, NEW w \in PayWorkers, PaymentFailed(e, w)
    PROVE  PayInv'
<1> DEFINE key == KeyOf(e)
           now == [event |-> e, day |-> billDay]
<1>1. /\ e.kind = "failed" /\ e \notin Remembered /\ Record(e) /\ Handled(e)
      /\ retry' = [retry EXCEPT ![key] = FirstFailure(key)] /\ billDay' = billDay
      /\ \/ payJob' = payJob
         \/ payJob' = [payJob EXCEPT ![w] = [pc |-> "list", tenant |-> e.tenant]]
  BY DEF PaymentFailed, KeyOf
<1>2. PayTypes /\ PastInv /\ ClockInv /\ key \in PayKeys
  BY DayFacts DEF PayInv
<1>3. /\ PastInv' /\ RecordInv' /\ HandledOncePerDay'
      /\ processed' \in [PayEvents -> BillDays \cup {Never}]
      /\ payHistory' \subseteq [event : PayEvents, day : BillDays]
  BY <1>1, HandleKeeps
<1>4. FirstFailure(key) \in BillDays
  BY <1>2 DEF FirstFailure, PayTypes
<1>5. payJob' = [v \in PayWorkers |-> payJob'[v]]
  BY <1>1, <1>2 DEF PayTypes
<1>6. PayTypes'
  BY <1>1, <1>2, <1>3, <1>4, <1>5 DEF PayTypes
<1>7. ClockInv'
  <2> SUFFICES ASSUME NEW k \in PayKeys, retry'[k] # Never
               PROVE  /\ \E f \in payHistory' : f.event.kind = "failed" /\ KeyOf(f.event) = k /\ f.day = retry'[k]
                      /\ \A s \in payHistory' : s.event.kind = "success" /\ KeyOf(s.event) = k => s.day <= retry'[k]
    BY DEF ClockInv
  <2>1. payHistory' = payHistory \cup {now} /\ now.event = e /\ now.day = billDay
    BY <1>1 DEF Handled
  <2> HIDE DEF now
  <2>2. \A s \in payHistory' : s.event.kind = "success" => s \in payHistory
    BY <1>1, <2>1
  <2>3. CASE retry[k] # Never
    <3>1. retry'[k] = retry[k]
      BY <1>1, <1>2, <2>3 DEF FirstFailure, PayTypes
    <3> QED
      BY <1>2, <2>1, <2>2, <2>3, <3>1 DEF ClockInv
  <2>4. CASE retry[k] = Never
    <3>1. k = key /\ retry'[k] = billDay
      BY <1>1, <1>2, <2>4 DEF FirstFailure, PayTypes
    <3>2. \A s \in payHistory : s.day <= billDay
      BY <1>2 DEF PastInv
    <3> QED
      BY <1>1, <2>1, <2>2, <3>1, <3>2
  <2> QED
    BY <2>3, <2>4
<1> QED
  BY <1>3, <1>6, <1>7 DEF PayInv

\* What a handler does after it has decided touches no clock and no history.
LEMMA JobKeeps ==
    ASSUME PayInv, NEW w \in PayWorkers, NEW j, payJob' = [payJob EXCEPT ![w] = j],
           UNCHANGED <<billDay, processed, retry, payHistory>>
    PROVE  PayInv'
<1>1. payJob' = [v \in PayWorkers |-> payJob'[v]]
  BY DEF PayInv, PayTypes
<1>2. PayTypes'
  BY <1>1 DEF PayInv, PayTypes
<1> QED
  BY <1>2 DEF PayInv, PastInv, ClockInv, RecordInv, HandledOncePerDay, HasId

LEMMA DuplicateKeeps ==
    ASSUME PayInv, NEW e \in PayEvents, DuplicateWebhook(e)
    PROVE  PayInv'
<1>1. /\ processed' = [f \in PayEvents |-> IF f \in Remembered THEN processed[f] ELSE Never]
      /\ UNCHANGED <<billDay, retry, payJob, payHistory>>
  BY DEF DuplicateWebhook
<1>2. PayTypes /\ PastInv /\ ClockInv /\ RecordInv /\ HandledOncePerDay
  BY DEF PayInv
<1>3. PayTypes'
  BY <1>1, <1>2 DEF PayTypes
<1>4. RecordInv'
  <2> SUFFICES ASSUME NEW h \in payHistory, HasId(h.event)
               PROVE  h.day <= processed'[h.event] \/ billDay - h.day > 1
    BY <1>1 DEF RecordInv, HasId
  <2>1. h.event \in PayEvents /\ h.day \in BillDays /\ billDay \in BillDays
    BY <1>2 DEF PayTypes
  <2>2. h.day <= processed[h.event] \/ billDay - h.day > 1
    BY <1>2 DEF RecordInv
  <2>3. CASE h.event \in Remembered
    BY <1>1, <2>1, <2>2, <2>3
  <2>4. CASE h.event \notin Remembered
    <3>1. CASE processed[h.event] = Never
      BY <2>1, <2>2, <3>1, DayFacts
    <3>2. CASE processed[h.event] \in BillDays /\ billDay - processed[h.event] > 1
      BY <2>1, <2>2, <3>2, DayFacts
    <3> QED
      BY <1>2, <2>1, <2>4, <3>1, <3>2, Forgotten
  <2> QED
    BY <2>3, <2>4
<1> QED
  BY <1>1, <1>2, <1>3, <1>4 DEF PayInv, PastInv, ClockInv, HandledOncePerDay, HasId

\* A restart forgets the clocks together with what they were started by.
LEMMA RestartKeeps == PayInv /\ WebhookRestart => PayInv'
BY DEF PayInv, PayTypes, PastInv, ClockInv, RecordInv, HandledOncePerDay, WebhookRestart, HasId

LEMMA TickKeeps == PayInv /\ BillTick => PayInv'
<1> SUFFICES ASSUME PayInv, BillTick PROVE PayInv'
  OBVIOUS
<1>1. /\ billDay' \in BillDays /\ billDay' > billDay
      /\ UNCHANGED <<processed, retry, payJob, payHistory>>
  BY DEF BillTick, payVars
<1>2. PayTypes /\ PastInv /\ ClockInv /\ RecordInv /\ HandledOncePerDay
  BY DEF PayInv
<1>3. /\ billDay \in Nat /\ billDay' \in Nat
      /\ \A h \in payHistory : h.day \in Nat /\ processed[h.event] \in BillDays \cup {Never}
  BY <1>1, <1>2, DayFacts DEF PayTypes
<1>4. PayTypes' /\ PastInv'
  BY <1>1, <1>2, <1>3 DEF PayTypes, PastInv
<1>5. RecordInv'
  BY <1>1, <1>2, <1>3 DEF RecordInv, HasId
<1> QED
  BY <1>1, <1>2, <1>4, <1>5 DEF PayInv, ClockInv, HandledOncePerDay, HasId

LEMMA PayStep == PayInv /\ [BillNext]_billVars => PayInv'
<1> SUFFICES ASSUME PayInv, [BillNext]_billVars PROVE PayInv'
  OBVIOUS
<1>1. ASSUME NEW w \in PayWorkers, PayList(w) \/ PayFails(w) \/ \E d \in BillDeps : PayPatch(w, d)
      PROVE  PayInv'
  <2>1. UNCHANGED <<billDay, processed, retry, payHistory>> /\ \E j : payJob' = [payJob EXCEPT ![w] = j]
    BY <1>1 DEF PayList, PayFails, PayPatch
  <2> QED
    BY <2>1, JobKeeps
<1>2. CASE PayNext
  BY <1>1, <1>2, DuplicateKeeps, SuccessKeeps, FailureKeeps, RestartKeeps DEF PayNext
<1>3. CASE TrialNext \/ UNCHANGED billVars
  <2>1. UNCHANGED <<billDay, payVars>>
    BY <1>3 DEF TrialNext, TrialRun, TrialCrash, TrialDelete, TrialMail, TrialList, TrialRecord,
                TrialExpiryMail, TrialFails, TrialPatch, billVars
  <2> QED
    BY <2>1 DEF payVars, PayInv, PayTypes, PastInv, ClockInv, RecordInv, HandledOncePerDay, HasId
<1> QED
  BY <1>2, <1>3, TickKeeps DEF BillNext

-----------------------------------------------------------------------------
\* A handler goes on to suspend only with a clock that has run for three days.
LEMMA CauseOfSuspension ==
    ASSUME PayInv, NEW e \in PayEvents, NEW w \in PayWorkers, PaymentFailed(e, w),
           payJob'[w].pc = "list", payJob[w].pc = "idle"
    PROVE  LET mine(kind) == {h \in payHistory' : /\ h.event.provider = "razorpay"
                                                 /\ h.event.tenant = payJob'[w].tenant
                                                 /\ h.event.kind = kind}
           IN  \E f \in mine("failed") :
                   /\ billDay - f.day >= 3
                   /\ \A s \in mine("success") : s.day <= f.day
<1> DEFINE key == KeyOf(e)
           t   == payJob'[w].tenant
<1>1. /\ e.kind = "failed" /\ Handled(e) /\ key = <<e.provider, e.tenant>>
      /\ key \in PayKeys /\ PayTypes /\ ClockInv
  BY DayFacts DEF PaymentFailed, PayInv
<1>2. /\ billDay - FirstFailure(key) >= 3 /\ NamespaceOf(key) # {}
      /\ payJob' = [payJob EXCEPT ![w] = [pc |-> "list", tenant |-> e.tenant]]
  BY <1>1 DEF PaymentFailed
<1>3. e.provider = "razorpay" /\ t = e.tenant
  BY <1>1, <1>2 DEF NamespaceOf, PayTypes
<1>4. retry[key] # Never /\ billDay - retry[key] >= 3
  BY <1>1, <1>2, DayFacts DEF FirstFailure, PayTypes
<1>5. PICK f \in payHistory : f.event.kind = "failed" /\ KeyOf(f.event) = key /\ f.day = retry[key]
  BY <1>1, <1>4 DEF ClockInv
<1>6. \A s \in payHistory : s.event.kind = "success" /\ KeyOf(s.event) = key => s.day <= f.day
  BY <1>1, <1>4, <1>5 DEF ClockInv
<1>7. \A h : KeyOf(h.event) = key <=> h.event.provider = "razorpay" /\ h.event.tenant = t
  BY <1>1, <1>3 DEF KeyOf
<1>8. payHistory' = payHistory \cup {[event |-> e, day |-> billDay]}
  BY <1>1 DEF Handled
<1>9. \A s \in payHistory' : s.event.kind = "success" => s \in payHistory
  BY <1>1, <1>8
<1> QED
  BY <1>4, <1>5, <1>6, <1>7, <1>8, <1>9

\* The inductive invariant of the payment webhook holds in every state.
THEOREM PayInvariant == BillSpec => []PayInv
BY PayStart, PayStep, PTL DEF BillSpec

\* Within the life of the process no event with an id is handled again within
\* a day, although the map of processed events is pruned.
THEOREM HandledOnce == BillSpec => []HandledOncePerDay
<1>1. PayInv => HandledOncePerDay
  BY DEF PayInv
<1> QED
  BY <1>1, PayInvariant, PTL

\* A handler starts a suspension only if its process has handled a failed
\* payment of that tenant at least three days ago and no successful one on a
\* later day, whatever the providers repeat or delay.
THEOREM SuspensionsHaveACause == BillSpec => SuspendedForCause
<1>1. PayInv /\ [BillNext]_billVars =>
      [\A w \in PayWorkers : payJob[w].pc = "idle" /\ payJob'[w].pc = "list" =>
        LET mine(kind) == {h \in payHistory' : /\ h.event.provider = "razorpay"
                                               /\ h.event.tenant = payJob'[w].tenant
                                               /\ h.event.kind = kind}
        IN  \E f \in mine("failed") :
                /\ billDay - f.day >= 3
                /\ \A s \in mine("success") : s.day <= f.day]_billVars
  <2> SUFFICES ASSUME PayInv, BillNext, NEW w \in PayWorkers, payJob[w].pc = "idle", payJob'[w].pc = "list"
               PROVE
           LET mine(kind) == {h \in payHistory' : /\ h.event.provider = "razorpay"
                                                  /\ h.event.tenant = payJob'[w].tenant
                                                  /\ h.event.kind = kind}
           IN  \E f \in mine("failed") :
                   /\ billDay - f.day >= 3
                   /\ \A s \in mine("success") : s.day <= f.day
    OBVIOUS
  <2>1. payJob' # payJob /\ payJob = [v \in PayWorkers |-> payJob[v]]
    BY DEF PayInv, PayTypes
  <2>2. PayNext
    BY <2>1 DEF BillNext, BillTick, TrialNext, TrialRun, TrialCrash, TrialDelete, TrialMail, TrialList,
                TrialRecord, TrialExpiryMail, TrialFails, TrialPatch, payVars
  <2>3. PICK e \in PayEvents, v \in PayWorkers : PaymentFailed(e, v)
    <3>1. ASSUME NEW v \in PayWorkers, PayList(v) \/ PayFails(v) \/ \E d \in BillDeps : PayPatch(v, d)
          PROVE  FALSE
      <4>1. payJob[v].pc \in {"list", "patch"} /\ \E j : payJob' = [payJob EXCEPT ![v] = j]
        BY <3>1 DEF PayList, PayFails, PayPatch
      <4> QED
        BY <2>1, <4>1
    <3>2. ~WebhookRestart
      BY DEF WebhookRestart, PayIdle
    <3>3. \A e \in PayEvents : ~DuplicateWebhook(e) /\ ~PaymentSuccess(e)
      BY <2>1 DEF DuplicateWebhook, PaymentSuccess
    <3> QED
      BY <2>2, <3>1, <3>2, <3>3 DEF PayNext
  <2>4. v = w
    BY <2>1, <2>3 DEF PaymentFailed
  <2> QED
    BY <2>3, <2>4, CauseOfSuspension
<1> QED
  BY <1>1, PayInvariant, PTL DEF BillSpec, SuspendedForCause

-----------------------------------------------------------------------------
(* The trial: nothing starts a Deployment again, and a run says suspended  *)
(* only of a namespace all of whose Deployments it has patched.            *)

Paused(t) == \A d \in BillDeps : replicas[t][d] = 0

TrialTypes ==
    /\ replicas \in [BillTenants -> [BillDeps -> 0..MaxReplicas]]
    /\ trialRow \in [BillTenants -> SUBSET TrialFlags]
    /\ trialJob = [t \in BillTenants |-> trialJob[t]]

\* How far the run has come with a tenant.
TrialProgress(t) ==
    LET j == trialJob[t] IN
    /\ j.pc = "suspended" => Paused(t)
    /\ j.pc = "patch" => /\ j = [pc |-> "patch", todo |-> j.todo]
                         /\ \A d \in BillDeps \ DOMAIN j.todo : replicas[t][d] = 0
    /\ j.pc = "mailed" => j.flag \in {"day7", "day13", "day25"}

TrialInv ==
    /\ TrialTypes
    /\ \A t \in BillTenants : TrialProgress(t) /\ ("suspended" \in trialRow[t] => Paused(t))

LEMMA TrialStarts == BillInit => TrialInv
BY BillingAssumption DEF BillInit, TrialInv, TrialTypes, TrialProgress, PayIdle

LEMMA TrialBranches ==
    ASSUME NEW row
    PROVE  TrialBranch(row) \in {"delete", "day25", "list", "day13", "day7", "idle"}
BY DEF TrialBranch

\* No step starts a Deployment.
LEMMA ReplicasFall ==
    ASSUME TrialTypes, BillNext
    PROVE  /\ replicas' \in [BillTenants -> [BillDeps -> 0..MaxReplicas]]
           /\ \A t \in BillTenants, d \in BillDeps : replicas'[t][d] \in {0, replicas[t][d]}
<1>1. 0 \in 0..MaxReplicas
  BY BillingAssumption
<1>2. ASSUME NEW t, NEW d, NEW n, SuspendPatch(t, d, n)
      PROVE  /\ replicas' \in [BillTenants -> [BillDeps -> 0..MaxReplicas]]
             /\ \A u \in BillTenants, e \in BillDeps : replicas'[u][e] \in {0, replicas[u][e]}
  BY <1>1, <1>2 DEF TrialTypes, SuspendPatch
<1>3. ASSUME NEW t \in BillTenants, DeleteNamespace(t)
      PROVE  /\ replicas' \in [BillTenants -> [BillDeps -> 0..MaxReplicas]]
             /\ \A u \in BillTenants, e \in BillDeps : replicas'[u][e] \in {0, replicas[u][e]}
  BY <1>1, <1>3 DEF TrialTypes, DeleteNamespace
<1>4. CASE UNCHANGED replicas
  BY <1>4 DEF TrialTypes
<1>5. \/ UNCHANGED replicas \/ \E t \in BillTenants : DeleteNamespace(t)
      \/ \E t, d, n : SuspendPatch(t, d, n)
  <2>1. CASE PayNext
    <3>1. \A w \in PayWorkers, d \in BillDeps : PayPatch(w, d) => \E t, e, n : SuspendPatch(t, e, n)
      BY DEF PayPatch
    <3> QED
      BY <2>1, <3>1 DEF PayNext, DuplicateWebhook, PaymentSuccess, PaymentFailed, PayList, PayFails, WebhookRestart, nsVars
  <2>2. CASE TrialNext
    <3>1. \A t \in BillTenants, d \in BillDeps : TrialPatch(t, d) => \E u, e, n : SuspendPatch(u, e, n)
      BY DEF TrialPatch
    <3> QED
      BY <2>2, <3>1 DEF TrialNext, TrialRun, TrialCrash, TrialDelete, TrialMail, TrialList, TrialRecord,
                        TrialExpiryMail, TrialFails, nsVars
  <2> QED
    BY <2>1, <2>2 DEF BillNext, BillTick, nsVars
<1> QED
  BY <1>2, <1>3, <1>4, <1>5

\* What is paused, or patched, stays so.
LEMMA PauseStays ==
    ASSUME TrialTypes, BillNext, NEW t \in BillTenants
    PROVE  /\ \A d \in BillDeps : replicas[t][d] = 0 => replicas'[t][d] = 0
           /\ Paused(t) => Paused(t)'
BY ReplicasFall DEF Paused

\* A tenant whose job and row a step leaves alone.
LEMMA TrialLeaves ==
    ASSUME TrialInv, BillNext, NEW t \in BillTenants, trialJob'[t] = trialJob[t], trialRow'[t] = trialRow[t]
    PROVE  TrialProgress(t)' /\ ("suspended" \in trialRow'[t] => Paused(t)')
BY PauseStays DEF TrialInv, TrialProgress

\* A tenant whose run goes to a step of which nothing is asked.
LEMMA TrialGoes ==
    ASSUME TrialInv, BillNext, NEW t \in BillTenants, trialRow'[t] = trialRow[t],
           trialJob'[t].pc \notin {"suspended", "patch", "mailed"}
    PROVE  TrialProgress(t)' /\ ("suspended" \in trialRow'[t] => Paused(t)')
BY PauseStays DEF TrialInv, TrialProgress

LEMMA TrialKeeps == TrialInv /\ BillNext => TrialInv'
<1> SUFFICES ASSUME TrialInv, BillNext PROVE TrialInv'
  OBVIOUS
<1>1. TrialTypes /\ replicas' \in [BillTenants -> [BillDeps -> 0..MaxReplicas]]
  BY ReplicasFall DEF TrialInv
<1> DEFINE TrialFine(t) == TrialProgress(t)' /\ ("suspended" \in trialRow'[t] => Paused(t)')
<1>2. SUFFICES /\ trialRow' \in [BillTenants -> SUBSET TrialFlags]
               /\ trialJob' = [t \in BillTenants |-> trialJob'[t]]
               /\ \A t \in BillTenants : TrialFine(t)
  BY <1>1 DEF TrialInv, TrialTypes
<1>3. CASE UNCHANGED <<trialRow, trialJob>>
  BY <1>1, <1>3, TrialLeaves DEF TrialTypes
<1>4. CASE TrialRun \/ TrialCrash
  <2>1. trialRow' = trialRow /\ trialJob' = [t \in BillTenants |-> trialJob'[t]]
    BY <1>4 DEF TrialRun, TrialCrash
  <2>2. \A t \in BillTenants : trialJob'[t].pc \notin {"suspended", "patch", "mailed"}
    BY <1>4, TrialBranches DEF TrialRun, TrialCrash, PayIdle
  <2> QED
    BY <1>1, <2>1, <2>2, TrialGoes DEF TrialTypes
<1>5. ASSUME NEW t \in BillTenants,
             \/ TrialDelete(t) \/ TrialMail(t) \/ TrialList(t) \/ TrialRecord(t)
             \/ TrialExpiryMail(t) \/ TrialFails(t)
             \/ \E d \in BillDeps : TrialPatch(t, d)
      PROVE  TrialInv'
  <2>1. \E j : trialJob' = [trialJob EXCEPT ![t] = j]
    BY <1>5 DEF TrialDelete, TrialMail, TrialList, TrialRecord, TrialExpiryMail, TrialFails, TrialPatch, TrialStep
  <2>2. trialJob' = [u \in BillTenants |-> trialJob'[u]] /\ \A u \in BillTenants \ {t} : trialJob'[u] = trialJob[u]
    BY <1>1, <2>1 DEF TrialTypes
  <2>3. /\ trialRow' \in [BillTenants -> SUBSET TrialFlags]
        /\ \A u \in BillTenants \ {t} : trialRow'[u] = trialRow[u]
    <3>1. CASE TrialRecord(t)
      <4>1. PICK flag \in TrialFlags \cup {trialJob[t].flag} :
               /\ trialRow' = [trialRow EXCEPT ![t] = @ \cup {flag}]
               /\ flag = IF trialJob[t].pc = "mailed" THEN trialJob[t].flag ELSE trialJob[t].pc
        BY <3>1 DEF TrialRecord, UpdateTenantState, TrialFlags
      <4>2. flag \in TrialFlags
        BY <3>1, <4>1 DEF TrialRecord, TrialInv, TrialProgress, TrialFlags
      <4> QED
        BY <1>1, <4>1, <4>2 DEF TrialTypes
    <3>2. CASE ~TrialRecord(t)
      BY <1>1, <1>5, <3>2 DEF TrialDelete, TrialMail, TrialList, TrialExpiryMail, TrialFails, TrialPatch, trialVars, TrialTypes
    <3> QED
      BY <3>1, <3>2
  <2>4. \A u \in BillTenants \ {t} : TrialFine(u)
    BY <2>2, <2>3, TrialLeaves
  <2>a. trialRow' = trialRow => ("suspended" \in trialRow'[t] => Paused(t)')
    BY PauseStays DEF TrialInv
  <2>5. TrialFine(t)
    <3>1. CASE TrialRecord(t)
      <4>1. /\ trialJob[t].pc \in {"deleted", "mailed", "suspended"}
            /\ trialJob'[t] = IF trialJob[t].pc = "suspended" THEN [pc |-> "expiry"] ELSE PayIdle
            /\ trialRow'[t] = trialRow[t] \cup {IF trialJob[t].pc = "mailed" THEN trialJob[t].flag
                                                ELSE trialJob[t].pc}
        BY <1>1, <3>1 DEF TrialRecord, TrialStep, UpdateTenantState, TrialTypes
      <4>2. trialJob'[t].pc \notin {"suspended", "patch", "mailed"}
        BY <4>1 DEF PayIdle
      <4>3. "suspended" \in trialRow'[t] => "suspended" \in trialRow[t] \/ trialJob[t].pc = "suspended"
        BY <4>1 DEF TrialInv, TrialProgress
      <4>4. "suspended" \in trialRow'[t] => Paused(t)'
        BY <1>1, <4>3, PauseStays DEF TrialInv, TrialProgress
      <4> QED
        BY <4>2, <4>4 DEF TrialProgress
    <3>2. CASE \E d \in BillDeps : TrialPatch(t, d)
      <4>1. PICK d \in BillDeps : TrialPatch(t, d)
        BY <3>2
      <4> DEFINE rest == [x \in DOMAIN trialJob[t].todo \ {d} |-> trialJob[t].todo[x]]
      <4>2. /\ trialJob[t].pc = "patch" /\ trialRow' = trialRow
            /\ trialJob'[t] = IF DOMAIN rest = {} THEN [pc |-> "suspended"] ELSE [trialJob[t] EXCEPT !.todo = rest]
        BY <1>1, <4>1 DEF TrialPatch, TrialStep, TrialTypes, trialVars
      <4>3. replicas'[t][d] = 0
        BY <1>1, <4>1 DEF TrialPatch, SuspendPatch, TrialTypes
      <4>4. \A e \in BillDeps : e \notin DOMAIN rest => replicas'[t][e] = 0
        BY <1>1, <4>2, <4>3, PauseStays DEF TrialInv, TrialProgress
      <4>5. trialJob[t] = [pc |-> "patch", todo |-> trialJob[t].todo]
        BY <4>2 DEF TrialInv, TrialProgress
      <4> HIDE DEF rest
      <4>6. CASE DOMAIN rest = {}
        BY <4>2, <4>4, <4>6, <1>1, PauseStays DEF TrialProgress, Paused, TrialInv
      <4>7. CASE DOMAIN rest # {}
        <5>1. trialJob'[t] = [pc |-> "patch", todo |-> rest]
          BY <4>2, <4>5, <4>7
        <5> QED
          BY <2>a, <4>2, <4>4, <5>1 DEF TrialProgress
      <4> QED
        BY <4>6, <4>7
    <3>3. CASE TrialList(t)
      <4>1. trialJob'[t] = [pc |-> "patch", todo |-> SuspendList(t)] /\ trialRow' = trialRow
        BY <1>1, <3>3 DEF TrialList, TrialStep, TrialTypes
      <4>2. DOMAIN SuspendList(t) = BillDeps
        BY DEF SuspendList
      <4> QED
        BY <2>a, <4>1, <4>2 DEF TrialProgress
    <3>4. CASE TrialMail(t)
      <4>1. /\ trialJob'[t] = [pc |-> "mailed", flag |-> trialJob[t].pc] /\ trialRow' = trialRow
            /\ trialJob[t].pc \in {"day7", "day13", "day25"}
        BY <1>1, <3>4 DEF TrialMail, TrialStep, TrialTypes
      <4> QED
        BY <2>a, <4>1 DEF TrialProgress
    <3>5. CASE TrialDelete(t) \/ TrialExpiryMail(t) \/ TrialFails(t)
      <4>1. trialRow' = trialRow /\ trialJob'[t] \in {[pc |-> "deleted"], PayIdle}
        BY <1>1, <3>5 DEF TrialDelete, TrialExpiryMail, TrialFails, TrialStep, TrialTypes, trialVars
      <4> QED
        BY <4>1, TrialGoes DEF PayIdle
    <3> QED
      BY <1>5, <3>1, <3>2, <3>3, <3>4, <3>5
  <2> QED
    BY <1>1, <2>2, <2>3, <2>4, <2>5 DEF TrialInv, TrialTypes
<1>6. UNCHANGED <<trialRow, trialJob>> \/ TrialNext
  BY DEF BillNext, BillTick, PayNext, DuplicateWebhook, PaymentSuccess, PaymentFailed, PayList, PayFails,
         PayPatch, WebhookRestart, trialVars
<1>7. TrialInv' \/ UNCHANGED <<trialRow, trialJob>> \/ TrialRun \/ TrialCrash
  BY <1>5, <1>6 DEF TrialNext
<1> QED
  BY <1>3, <1>4, <1>7 DEF TrialInv, TrialTypes

LEMMA TrialImplies == TrialInv => MarkedMeansPaused
BY DEF TrialInv, Paused, MarkedMeansPaused

-----------------------------------------------------------------------------
(***************************************************************************)
(* The annotation that a suspension leaves holds a count that a Deployment *)
(* had: the handlers and the CronJob carry the counts they listed.         *)

Counts == 0..MaxReplicas

\* What a suspension has still to patch.
ToPatch(todo) == DOMAIN todo \subseteq BillDeps /\ \A d \in DOMAIN todo : todo[d] \in Counts

SavedInv ==
    /\ nsLive \in [BillTenants -> BOOLEAN]
    /\ saved \in [BillTenants -> [BillDeps -> {Unsaved} \cup Counts]]
    /\ \A w \in PayWorkers :
          /\ payJob[w].pc \in {"list", "patch"} => payJob[w].tenant \in BillTenants
          /\ payJob[w].pc = "patch" =>
                /\ payJob[w] = [pc |-> "patch", tenant |-> payJob[w].tenant, todo |-> payJob[w].todo]
                /\ ToPatch(payJob[w].todo)
    /\ \A t \in BillTenants : trialJob[t].pc = "patch" => ToPatch(trialJob[t].todo)

LEMMA SavedStarts == BillInit => SavedInv
BY DEF BillInit, SavedInv, PayIdle

\* A Deployment that is patched is one of those listed, with the count listed.
LEMMA PatchSaves ==
    ASSUME SavedInv, NEW t \in BillTenants, NEW d \in BillDeps, NEW n \in Counts, SuspendPatch(t, d, n)
    PROVE  saved' \in [BillTenants -> [BillDeps -> {Unsaved} \cup Counts]]
BY DEF SavedInv, SuspendPatch

\* What is left to patch was listed too.
LEMMA LessToPatch ==
    ASSUME NEW todo, ToPatch(todo), NEW d
    PROVE  ToPatch([x \in DOMAIN todo \ {d} |-> todo[x]])
BY DEF ToPatch

LEMMA ListSaves ==
    ASSUME TrialTypes, NEW t \in BillTenants
    PROVE  ToPatch(SuspendList(t))
BY DEF TrialTypes, SuspendList, ToPatch, Counts

LEMMA PaySaves == ASSUME SavedInv, PayTypes, TrialTypes, PayNext PROVE SavedInv'
<1> DEFINE JobFine(j) == /\ j.pc \in {"list", "patch"} => j.tenant \in BillTenants
                         /\ j.pc = "patch" => /\ j = [pc |-> "patch", tenant |-> j.tenant, todo |-> j.todo]
                                              /\ ToPatch(j.todo)
<1>1. \A w \in PayWorkers : JobFine(payJob[w])
  BY DEF SavedInv
<1>2. payJob = [w \in PayWorkers |-> payJob[w]]
  BY DEF PayTypes
<1>3. ASSUME   /\ \A w \in PayWorkers : JobFine(payJob'[w])
               /\ saved' \in [BillTenants -> [BillDeps -> {Unsaved} \cup Counts]]
               /\ UNCHANGED <<nsLive, trialJob>>
      PROVE    SavedInv'
  BY <1>3 DEF SavedInv
<1>4. JobFine(PayIdle)
  BY DEF PayIdle
<1>5. ASSUME NEW w \in PayWorkers, NEW j, JobFine(j), payJob' = [payJob EXCEPT ![w] = j]
      PROVE  \A v \in PayWorkers : JobFine(payJob'[v])
  <2>1. \A v \in PayWorkers : payJob'[v] \in {j, payJob[v]}
    BY <1>2, <1>5
  <2> HIDE DEF JobFine
  <2> QED
    BY <1>1, <1>5, <2>1
<1>6. UNCHANGED <<nsLive, trialJob>>
  BY DEF PayNext, DuplicateWebhook, PaymentSuccess, PaymentFailed, PayList, PayFails, PayPatch, WebhookRestart, nsVars,
         trialVars
<1>7. CASE UNCHANGED <<payJob, saved>>
  BY <1>1, <1>6, <1>7 DEF SavedInv
<1>8. CASE WebhookRestart
  <2>1. \A w \in PayWorkers : payJob'[w] = PayIdle
    BY <1>8 DEF WebhookRestart
  <2> QED
    BY <1>4, <1>6, <1>8, <2>1 DEF WebhookRestart, nsVars, SavedInv
<1>9. ASSUME NEW e \in PayEvents, NEW w \in PayWorkers, PaymentFailed(e, w) PROVE SavedInv' 
  <2>1. e.tenant \in BillTenants
    BY BillingAssumption
  <2>2. JobFine([pc |-> "list", tenant |-> e.tenant])
    BY <2>1
  <2>3. saved' = saved /\ (payJob' = payJob \/ payJob' = [payJob EXCEPT ![w] = [pc |-> "list", tenant |-> e.tenant]])
    BY <1>9 DEF PaymentFailed, nsVars
  <2> QED
    BY <1>5, <1>6, <1>7, <2>2, <2>3 DEF SavedInv
<1>10. ASSUME NEW w \in PayWorkers, PayList(w) \/ PayFails(w) PROVE SavedInv'
  <2>1. CASE PayFails(w)
    BY <1>4, <1>5, <1>6, <2>1 DEF PayFails, nsVars, SavedInv
  <2>2. CASE PayList(w)
    <3> DEFINE t == payJob[w].tenant
               j == [pc |-> "patch", tenant |-> t, todo |-> SuspendList(t)]
    <3>1. t \in BillTenants
      BY <2>2 DEF PayList, SavedInv
    <3>2. JobFine(j)
      BY <3>1, ListSaves
    <3> QED
      BY <1>5, <1>6, <2>2, <3>2 DEF PayList, nsVars, SavedInv
  <2> QED
    BY <1>10, <2>1, <2>2
<1>11. ASSUME NEW w \in PayWorkers, NEW d \in BillDeps, PayPatch(w, d) PROVE SavedInv'
  <2> DEFINE old  == payJob[w]
             rest == [x \in DOMAIN old.todo \ {d} |-> old.todo[x]]
  <2>1. /\ old.pc = "patch" /\ d \in DOMAIN old.todo /\ SuspendPatch(old.tenant, d, old.todo[d])
        /\ payJob' = [payJob EXCEPT ![w] = IF DOMAIN rest = {} THEN PayIdle ELSE [old EXCEPT !.todo = rest]]
    BY <1>11 DEF PayPatch
  <2>2. /\ old.tenant \in BillTenants /\ ToPatch(old.todo) /\ old.todo[d] \in Counts
        /\ old = [pc |-> "patch", tenant |-> old.tenant, todo |-> old.todo]
    BY <2>1 DEF SavedInv, ToPatch
  <2>3. ToPatch(rest)
    BY <2>2, LessToPatch
  <2> HIDE DEF rest
  <2>4. JobFine([old EXCEPT !.todo = rest])
    <3>1. [old EXCEPT !.todo = rest] = [pc |-> "patch", tenant |-> old.tenant, todo |-> rest]
      BY <2>2
    <3> QED
      BY <2>2, <2>3, <3>1
  <2>5. \A v \in PayWorkers : JobFine(payJob'[v])
    BY <1>4, <1>5, <2>1, <2>4
  <2>6. saved' \in [BillTenants -> [BillDeps -> {Unsaved} \cup Counts]]
    BY <2>1, <2>2, PatchSaves
  <2> QED
    BY <1>6, <2>5, <2>6 DEF SavedInv
<1>12. ASSUME NEW e \in PayEvents, DuplicateWebhook(e) \/ PaymentSuccess(e) PROVE UNCHANGED <<payJob, saved>>
  BY <1>12 DEF DuplicateWebhook, PaymentSuccess, nsVars
<1> QED
  BY <1>3, <1>7, <1>8, <1>9, <1>10, <1>11, <1>12 DEF PayNext, SavedInv

LEMMA TrialSaves == ASSUME SavedInv, TrialInv, TrialNext PROVE SavedInv'
<1>0. /\ \A t \in BillTenants : trialJob[t].pc = "patch" => ToPatch(trialJob[t].todo)
      /\ TrialTypes /\ ~(PayIdle.pc = "patch")
  BY DEF SavedInv, TrialInv, PayIdle
<1>1. UNCHANGED payJob
  BY DEF TrialNext, TrialRun, TrialCrash, TrialDelete, TrialMail, TrialList, TrialRecord, TrialExpiryMail, TrialFails,
         TrialPatch, payVars
<1>2. ASSUME NEW t \in BillTenants, NEW j, TrialStep(t, j), j.pc = "patch" => ToPatch(j.todo)
      PROVE  \A u \in BillTenants : trialJob'[u].pc = "patch" => ToPatch(trialJob'[u].todo)
  BY <1>0, <1>2 DEF TrialStep, TrialTypes
<1>3. CASE TrialRun \/ TrialCrash
  <2>1. \A t \in BillTenants : trialJob'[t].pc # "patch"
    BY <1>3, TrialBranches DEF TrialRun, TrialCrash, PayIdle
  <2> QED
    BY <1>1, <1>3, <2>1 DEF TrialRun, TrialCrash, nsVars, SavedInv
<1>4. ASSUME NEW t \in BillTenants, TrialDelete(t) PROVE SavedInv'
  <2>1. TrialStep(t, [pc |-> "deleted"])
    BY <1>4 DEF TrialDelete
  <2>2. \A u \in BillTenants : trialJob'[u].pc = "patch" => ToPatch(trialJob'[u].todo)
    BY <1>2, <2>1
  <2>3. /\ nsLive' \in [BillTenants -> BOOLEAN]
        /\ saved' \in [BillTenants -> [BillDeps -> {Unsaved} \cup Counts]]
    BY <1>4 DEF TrialDelete, DeleteNamespace, SavedInv
  <2> QED
    BY <1>1, <2>2, <2>3 DEF SavedInv
<1>5. ASSUME NEW t \in BillTenants, TrialMail(t) \/ TrialRecord(t) \/ TrialExpiryMail(t) \/ TrialFails(t) PROVE SavedInv'
  <2>1. UNCHANGED nsVars
    BY <1>5 DEF TrialMail, TrialRecord, TrialExpiryMail, TrialFails
  <2>2. \E j : TrialStep(t, j) /\ j.pc # "patch"
    BY <1>5 DEF TrialMail, TrialRecord, TrialExpiryMail, TrialFails, PayIdle
  <2> QED
    BY <1>1, <1>2, <2>1, <2>2 DEF nsVars, SavedInv
<1>6. ASSUME NEW t \in BillTenants, TrialList(t) PROVE SavedInv'
  <2>1. ToPatch(SuspendList(t))
    BY <1>0, ListSaves
  <2> QED
    BY <1>1, <1>2, <1>6, <2>1 DEF TrialList, nsVars, SavedInv
<1>7. ASSUME NEW t \in BillTenants, NEW d \in BillDeps, TrialPatch(t, d) PROVE SavedInv'
  <2> DEFINE old  == trialJob[t]
             rest == [x \in DOMAIN old.todo \ {d} |-> old.todo[x]]
  <2>1. /\ old.pc = "patch" /\ d \in DOMAIN old.todo /\ SuspendPatch(t, d, old.todo[d]) /\ UNCHANGED nsLive
        /\ TrialStep(t, IF DOMAIN rest = {} THEN [pc |-> "suspended"] ELSE [old EXCEPT !.todo = rest])
    BY <1>7 DEF TrialPatch
  <2>2. ToPatch(old.todo) /\ old.todo[d] \in Counts /\ old = [pc |-> "patch", todo |-> old.todo]
    BY <2>1 DEF SavedInv, ToPatch, TrialInv, TrialProgress
  <2>3. ToPatch(rest)
    BY <2>2, LessToPatch
  <2> HIDE DEF rest
  <2>4. [old EXCEPT !.todo = rest] = [pc |-> "patch", todo |-> rest]
    BY <2>2
  <2>5. \A u \in BillTenants : trialJob'[u].pc = "patch" => ToPatch(trialJob'[u].todo)
    BY <1>2, <2>1, <2>3, <2>4
  <2>6. saved' \in [BillTenants -> [BillDeps -> {Unsaved} \cup Counts]]
    BY <2>1, <2>2, PatchSaves
  <2> QED
    BY <1>1, <2>1, <2>5, <2>6 DEF SavedInv
<1> QED
  BY <1>3, <1>4, <1>5, <1>6, <1>7 DEF TrialNext

LEMMA SavedKeeps == PayInv /\ TrialInv /\ SavedInv /\ BillNext => SavedInv'
<1>1. BillTick => UNCHANGED <<nsLive, saved, payJob, trialJob>>
  BY DEF BillTick, payVars, nsVars, trialVars
<1> QED
  BY <1>1, PaySaves, TrialSaves DEF BillNext, PayInv, TrialInv, SavedInv

LEMMA SavedStands == SavedInv /\ UNCHANGED billVars => SavedInv'
BY DEF SavedInv, billVars, payVars, nsVars, trialVars

LEMMA BillsImply == PayInv /\ TrialInv /\ SavedInv => BillTypeOK
BY DEF PayInv, PayTypes, TrialInv, TrialTypes, SavedInv, BillTypeOK, Counts

-----------------------------------------------------------------------------
(* Changes of plan: as long as nothing of a tenant failed or overlapped,   *)
(* one change of it runs at most, and how far it has come says what the    *)
(* quota and Lago hold.                                                    *)

PlanPcs == {"patch", "post", "lago", "mail"}

\* A change of plan of a worker: on its way for a tenant, towards a plan.
PlanJobAt(w, pc, t, to) ==
    planJob[w].pc = pc /\ planJob[w].tenant = t /\ planJob[w].to = to

PlanTypes ==
    /\ quota \in [PlanTenants -> PlanCodes \cup {NoPlan}]
    /\ lagoPlan \in [PlanTenants -> PlanCodes]
    /\ planJob = [w \in PlanWorkers |-> planJob[w]]
    /\ \A w \in PlanWorkers :
          \/ planJob[w] = DeskIdle
          \/ \E pc \in PlanPcs, t \in PlanTenants, to \in PlanCodes :
                planJob[w] = [pc |-> pc, tenant |-> t, to |-> to]

\* The plan of a tenant before and after each step of the change of worker w.
PlanProgress(w, t) ==
    LET j == planJob[w] IN
    /\ j.pc \in {"patch", "post"} => quota[t] \in {NoPlan, lagoPlan[t]}
    /\ j.pc \in {"lago", "mail"} => quota[t] = j.to
    /\ j.pc = "mail" => lagoPlan[t] = j.to

\* What holds of a tenant none of whose changes failed, overlapped or died.
PlanSmooth(t) ==
    /\ \A v, w \in PlanWorkers :
          planJob[v].pc # "idle" /\ planJob[v].tenant = t /\ planJob[w].pc # "idle" /\ planJob[w].tenant = t => v = w
    /\ \A w \in PlanWorkers : planJob[w].pc # "idle" /\ planJob[w].tenant = t => PlanProgress(w, t)
    /\ ~PlanBusy(t) => quota[t] \in {NoPlan, lagoPlan[t]}

PlanInv == PlanTypes /\ \A t \in PlanTenants : t \in planFailed \cup planMixed \/ PlanSmooth(t)

LEMMA PlanStarts == PlanInit => PlanInv
BY DEF PlanInit, PlanInv, PlanTypes, PlanSmooth, PlanBusy, DeskIdle

\* What is known of the job of a worker.
LEMMA PlanJobFacts ==
    ASSUME PlanTypes, NEW w \in PlanWorkers
    PROVE  /\ planJob[w].pc = "idle" <=> planJob[w] = DeskIdle
           /\ planJob[w].pc # "idle" => /\ planJob[w].pc \in PlanPcs /\ planJob[w].tenant \in PlanTenants
                                        /\ planJob[w].to \in PlanCodes
                                        /\ planJob[w] = [pc |-> planJob[w].pc, tenant |-> planJob[w].tenant, to |-> planJob[w].to]
BY DEF PlanTypes, PlanPcs, DeskIdle

\* A worker goes on with the change it carries out.
LEMMA PlanMoves ==
    ASSUME PlanTypes, NEW w \in PlanWorkers, planJob[w].pc # "idle", NEW pc \in PlanPcs,
           PlanGo(w, [planJob[w] EXCEPT !.pc = pc])
    PROVE  /\ planJob'[w].pc = pc /\ planJob'[w].tenant = planJob[w].tenant /\ planJob'[w].to = planJob[w].to
           /\ \A v \in PlanWorkers \ {w} : planJob'[v] = planJob[v]
           /\ planJob' = [v \in PlanWorkers |-> planJob'[v]]
           /\ \A v \in PlanWorkers :
                 \/ planJob'[v] = DeskIdle
                 \/ \E p \in PlanPcs, t \in PlanTenants, to \in PlanCodes :
                       planJob'[v] = [pc |-> p, tenant |-> t, to |-> to]
<1> DEFINE j == [pc |-> pc, tenant |-> planJob[w].tenant, to |-> planJob[w].to]
<1>1. [planJob[w] EXCEPT !.pc = pc] = j
  <2>1. PICK p \in PlanPcs, t \in PlanTenants, to \in PlanCodes : planJob[w] = [pc |-> p, tenant |-> t, to |-> to]
    BY DEF PlanTypes, DeskIdle
  <2> QED
    BY <2>1
<1>2. planJob' = [planJob EXCEPT ![w] = j]
  BY <1>1 DEF PlanGo
<1>3. planJob[w].tenant \in PlanTenants /\ planJob[w].to \in PlanCodes
  BY PlanJobFacts
<1>4. planJob'[w] = j /\ \A v \in PlanWorkers \ {w} : planJob'[v] = planJob[v]
  BY <1>2 DEF PlanTypes
<1> QED
  BY <1>2, <1>3, <1>4 DEF PlanTypes

\* A worker is done with its change, or drops it.
LEMMA PlanEnds ==
    ASSUME PlanTypes, NEW w \in PlanWorkers, PlanGo(w, DeskIdle), UNCHANGED <<quota, lagoPlan>>
    PROVE  /\ PlanTypes' /\ planJob'[w].pc = "idle"
           /\ \A v \in PlanWorkers \ {w} : planJob'[v] = planJob[v]
BY DEF PlanTypes, PlanGo, DeskIdle

\* A tenant the step of a worker is not about.
LEMMA PlanOthers ==
    ASSUME NEW w \in PlanWorkers, NEW t \in PlanTenants, PlanSmooth(t),
           \A v \in PlanWorkers \ {w} : planJob'[v] = planJob[v],
           planJob[w].pc = "idle" \/ planJob[w].tenant # t,
           planJob'[w].pc = "idle" \/ planJob'[w].tenant # t,
           quota'[t] = quota[t], lagoPlan'[t] = lagoPlan[t]
    PROVE  PlanSmooth(t)'
BY DEF PlanSmooth, PlanBusy, PlanProgress

\* A tenant whose only change is that of the worker that steps.
LEMMA PlanMine ==
    ASSUME NEW w \in PlanWorkers, NEW t \in PlanTenants, PlanSmooth(t),
           \A v \in PlanWorkers \ {w} : planJob'[v] = planJob[v],
           planJob[w].pc # "idle", planJob[w].tenant = t,
           planJob'[w].pc # "idle", planJob'[w].tenant = t, PlanProgress(w, t)'
    PROVE  PlanSmooth(t)'
BY DEF PlanSmooth, PlanBusy

LEMMA PlanKeeps == PlanInv /\ PlanNext => PlanInv'
<1> SUFFICES ASSUME PlanInv, PlanNext PROVE PlanInv'
  OBVIOUS
<1> USE DEF PlanInv
<1>1. ASSUME NEW w \in PlanWorkers, PatchQuota(w) \/ CreateQuota(w) \/ SwitchLagoPlan(w) PROVE PlanInv'
  <2>1. /\ planJob[w].pc # "idle" /\ UNCHANGED <<planFailed, planMixed>>
        /\ \E pc \in PlanPcs : PlanGo(w, [planJob[w] EXCEPT !.pc = pc])
    BY <1>1 DEF PatchQuota, CreateQuota, SwitchLagoPlan, PlanPcs
  <2>2. PICK t \in PlanTenants, to \in PlanCodes : t = planJob[w].tenant /\ to = planJob[w].to
    BY <2>1, PlanJobFacts
  <2>3. quota' \in [PlanTenants -> PlanCodes \cup {NoPlan}] /\ lagoPlan' \in [PlanTenants -> PlanCodes]
    BY <1>1, <2>2 DEF PatchQuota, CreateQuota, SwitchLagoPlan, PlanTypes
  <2>4. PICK pc \in PlanPcs : PlanGo(w, [planJob[w] EXCEPT !.pc = pc])
    BY <2>1
  <2>5. PlanTypes'
    BY <2>1, <2>3, <2>4, PlanMoves DEF PlanTypes
  <2>6. /\ planJob'[w].pc = pc /\ pc # "idle" /\ planJob'[w].tenant = t /\ planJob'[w].to = to
        /\ \A v \in PlanWorkers \ {w} : planJob'[v] = planJob[v]
    BY <2>1, <2>2, <2>4, PlanMoves DEF PlanPcs
  <2>7. \A u \in PlanTenants \ {t} : quota'[u] = quota[u] /\ lagoPlan'[u] = lagoPlan[u]
    BY <1>1, <2>2 DEF PatchQuota, CreateQuota, SwitchLagoPlan, PlanTypes
  <2>8. \A u \in PlanTenants \ {t} : PlanSmooth(u) => PlanSmooth(u)'
    BY <2>2, <2>6, <2>7, PlanOthers
  <2>9. ASSUME PlanSmooth(t) PROVE PlanProgress(w, t)'
    <3>1. PlanProgress(w, t)
      BY <2>1, <2>2, <2>9 DEF PlanSmooth
    <3>a. \A p \in PlanPcs : PlanGo(w, [planJob[w] EXCEPT !.pc = p]) => planJob'[w].pc = p
      BY <2>1, PlanMoves
    <3>b. PlanPcs = {"patch", "post", "lago", "mail"}
      BY DEF PlanPcs
    <3>2. CASE PatchQuota(w) \/ CreateQuota(w)
      <4>1. \/ quota'[t] = to /\ planJob'[w].pc = "lago"
            \/ quota' = quota /\ lagoPlan' = lagoPlan /\ planJob'[w].pc = "post" /\ planJob[w].pc = "patch"
        BY <3>2, <2>2, <3>a, <3>b DEF PatchQuota, CreateQuota, PlanTypes
      <4> QED
        BY <2>2, <2>6, <3>1, <4>1 DEF PlanProgress
    <3>3. CASE SwitchLagoPlan(w)
      <4>1. quota' = quota /\ lagoPlan'[t] = to /\ planJob'[w].pc = "mail" /\ planJob[w].pc = "lago"
        BY <3>3, <2>2, <3>a, <3>b DEF SwitchLagoPlan, PlanTypes
      <4> QED
        BY <2>2, <2>6, <3>1, <4>1 DEF PlanProgress
    <3> QED
      BY <1>1, <3>2, <3>3
  <2>10. PlanSmooth(t) => PlanSmooth(t)'
    BY <2>1, <2>2, <2>6, <2>9, PlanMine
  <2>11. ASSUME NEW u \in PlanTenants PROVE u \in planFailed' \cup planMixed' \/ PlanSmooth(u)'
    BY <2>1, <2>8, <2>10, <2>11
  <2> QED
    BY <2>5, <2>11
<1>2. ASSUME NEW w \in PlanWorkers, PlanChanged(w) \/ PlanFails(w) PROVE PlanInv'
  <2>1. /\ planJob[w].pc # "idle" /\ PlanGo(w, DeskIdle) /\ UNCHANGED <<quota, lagoPlan, planMixed>>
        /\ planFailed \subseteq planFailed' /\ (planJob[w].tenant \in planFailed' \/ planJob[w].pc = "mail")
    BY <1>2 DEF PlanChanged, PlanFails
  <2>2. PICK t \in PlanTenants : t = planJob[w].tenant
    BY <2>1, PlanJobFacts
  <2>3. PlanTypes' /\ planJob'[w].pc = "idle" /\ \A v \in PlanWorkers \ {w} : planJob'[v] = planJob[v]
    BY <2>1, PlanEnds
  <2>4. \A u \in PlanTenants \ {t} : PlanSmooth(u) => PlanSmooth(u)'
    BY <2>1, <2>2, <2>3, PlanOthers
  <2>5. PlanSmooth(t) /\ planJob[w].pc = "mail" => PlanSmooth(t)'
    BY <2>1, <2>2, <2>3 DEF PlanSmooth, PlanProgress, PlanBusy
  <2>6. ASSUME NEW u \in PlanTenants PROVE u \in planFailed' \cup planMixed' \/ PlanSmooth(u)'
    BY <2>1, <2>2, <2>4, <2>5, <2>6
  <2> QED
    BY <2>3, <2>6
<1>3. ASSUME NEW w \in PlanWorkers, NEW t \in PlanTenants, NEW from \in PlanCodes, NEW to \in PlanCodes,
             PlanChange(w, t, from, to)
      PROVE  PlanInv'
  <2> DEFINE j == [pc |-> "patch", tenant |-> t, to |-> to]
  <2>1. /\ planJob[w].pc = "idle" /\ planJob' = [planJob EXCEPT ![w] = j]
        /\ planMixed' = IF PlanBusy(t) THEN planMixed \cup {t} ELSE planMixed
        /\ UNCHANGED <<quota, lagoPlan, planFailed>>
    BY <1>3 DEF PlanChange, PlanGo, DeskIdle
  <2>2. planJob'[w] = j /\ \A v \in PlanWorkers \ {w} : planJob'[v] = planJob[v]
    BY <2>1 DEF PlanTypes
  <2>3. "patch" \in PlanPcs
    BY DEF PlanPcs
  <2>4. PlanTypes'
    BY <2>1, <2>2, <2>3 DEF PlanTypes
  <2>5. \A u \in PlanTenants \ {t} : PlanSmooth(u) => PlanSmooth(u)'
    BY <2>1, <2>2, PlanOthers
  <2>6. PlanSmooth(t) /\ ~PlanBusy(t) => PlanSmooth(t)'
    BY <2>1, <2>2 DEF PlanSmooth, PlanProgress, PlanBusy
  <2> QED
    BY <2>1, <2>2, <2>4, <2>5, <2>6
<1>4. CASE PlanCrash
  <2>1. /\ planMixed' = planMixed \cup {t \in PlanTenants : PlanBusy(t)}
        /\ planJob' = [w \in PlanWorkers |-> DeskIdle] /\ UNCHANGED <<quota, lagoPlan, planFailed>>
    BY <1>4 DEF PlanCrash
  <2>2. PlanTypes'
    BY <2>1 DEF PlanTypes
  <2>3. \A t \in PlanTenants : PlanSmooth(t) /\ ~PlanBusy(t) => PlanSmooth(t)'
    BY <2>1 DEF PlanSmooth, PlanBusy, DeskIdle
  <2> QED
    BY <2>1, <2>2, <2>3
<1> QED
  BY <1>1, <1>2, <1>3, <1>4 DEF PlanNext

LEMMA PlanImplies == PlanInv => SplitPlanIsReported
BY DEF PlanInv, PlanSmooth, SplitPlanIsReported

-----------------------------------------------------------------------------
(***************************************************************************)
(* A webhook of an invoice that Lago delivered was mailed once, or put on  *)
(* the DLQ once, or has a handler at work on it, or failed where NATS was  *)
(* away; so no invoice is mailed more often than it was announced.         *)

InvTypes == {"invoice.created", "invoice.finalized"}
InvBusy(i) == {w \in InvoiceWorkers : invJob[w].pc # "idle" /\ invJob[w].inv = i}
Announcements(i) == {x \in delivered : x[1] = i}

InvoiceInv ==
    /\ delivered \subseteq Invoices \X InvTypes
    /\ invJob \in [InvoiceWorkers -> {DeskIdle} \cup [pc : {"fetch", "mail"}, inv : Invoices]]
    /\ invMails \in [Invoices -> Nat] /\ invEvents \in [Invoices -> Nat] /\ invDLQ \in [Invoices -> Nat]
    /\ \A i \in Invoices :
          /\ IsFiniteSet(InvBusy(i)) /\ invEvents[i] <= invMails[i]
          /\ invMails[i] + invDLQ[i] + Cardinality(InvBusy(i)) <= Cardinality(Announcements(i))

LEMMA InvoicesStart == InvInit => InvoiceInv
<1> SUFFICES ASSUME InvInit PROVE InvoiceInv
  OBVIOUS
<1>1. \A i \in Invoices : InvBusy(i) = {} /\ Announcements(i) = {}
  BY DEF InvInit, InvBusy, Announcements, DeskIdle
<1> QED
  BY <1>1, FS_EmptySet DEF InvInit, InvoiceInv

\* What is known of the handler of a worker.
LEMMA HandlerFacts ==
    ASSUME InvoiceInv, NEW w \in InvoiceWorkers, invJob[w].pc # "idle"
    PROVE  /\ invJob[w].inv \in Invoices /\ invJob[w].pc \in {"fetch", "mail"}
           /\ invJob[w] = [pc |-> invJob[w].pc, inv |-> invJob[w].inv]
BY DEF InvoiceInv, DeskIdle

\* The handlers at work on an invoice after a step of one worker.
LEMMA HandlersMove ==
    ASSUME InvoiceInv, NEW w \in InvoiceWorkers, NEW j, invJob' = [invJob EXCEPT ![w] = j]
    PROVE  \A i : InvBusy(i)' = IF j.pc # "idle" /\ j.inv = i THEN InvBusy(i) \cup {w} ELSE InvBusy(i) \ {w}
<1>1. \A v \in InvoiceWorkers : invJob'[v] = IF v = w THEN j ELSE invJob[v]
  BY DEF InvoiceInv
<1> QED
  BY <1>1 DEF InvBusy

\* Each of its webhooks announces an invoice once, so that there are two.
LEMMA TwoAnnouncements ==
    ASSUME InvoiceInv, NEW i \in Invoices
    PROVE  IsFiniteSet(Announcements(i)) /\ Cardinality(Announcements(i)) \in 0..2
<1> DEFINE both == {<<i, "invoice.created">>} \cup {<<i, "invoice.finalized">>}
<1>1. Announcements(i) \subseteq both
  <2>1. \A x \in Invoices \X InvTypes : x[1] = i => x \in both
    BY DEF InvTypes
  <2>2. \A x \in Announcements(i) : x \in Invoices \X InvTypes /\ x[1] = i
    BY DEF InvoiceInv, Announcements
  <2> HIDE DEF both
  <2> QED
    BY <2>1, <2>2
<1>2. IsFiniteSet(both) /\ Cardinality(both) <= 2
  <2> DEFINE one == {<<i, "invoice.created">>}
  <2>1. IsFiniteSet(one) /\ Cardinality(one) = 1
    BY FS_Singleton
  <2> HIDE DEF one
  <2>3. \A x : IsFiniteSet(one \cup {x}) /\ Cardinality(one \cup {x}) <= 2
    BY <2>1, FS_AddElement
  <2>2. IsFiniteSet(one \cup {<<i, "invoice.finalized">>}) /\ Cardinality(one \cup {<<i, "invoice.finalized">>}) <= 2
    BY <2>3
  <2> QED
    BY <2>2 DEF one
<1>3. IsFiniteSet(Announcements(i)) /\ Cardinality(Announcements(i)) <= Cardinality(both)
  BY <1>1, <1>2, FS_Subset
<1> HIDE DEF both
<1> QED
  BY <1>2, <1>3, FS_CardinalityType

LEMMA WebhookAnnounces ==
    ASSUME InvoiceInv, NEW w \in InvoiceWorkers, NEW i \in Invoices, NEW type \in InvTypes, InvoiceWebhook(w, i, type)
    PROVE  InvoiceInv'
<1> DEFINE j == [pc |-> "fetch", inv |-> i]
<1>1. /\ <<i, type>> \notin delivered /\ delivered' = delivered \cup {<<i, type>>}
      /\ invJob[w] = DeskIdle /\ invJob' = [invJob EXCEPT ![w] = j]
      /\ UNCHANGED <<invMails, invEvents, invDLQ>>
  BY DEF InvoiceWebhook
<1>2. \A k \in Invoices : /\ w \notin InvBusy(k)
                          /\ InvBusy(k)' = IF k = i THEN InvBusy(k) \cup {w} ELSE InvBusy(k)
  <2>1. j.pc # "idle" /\ j.inv = i
    OBVIOUS
  <2>2. \A k : w \notin InvBusy(k)
    BY <1>1 DEF InvBusy, DeskIdle
  <2>3. \A k : InvBusy(k)' = IF j.pc # "idle" /\ j.inv = k THEN InvBusy(k) \cup {w} ELSE InvBusy(k) \ {w}
    BY <1>1, HandlersMove
  <2> HIDE DEF j
  <2> QED
    BY <2>1, <2>2, <2>3
<1>3. \A k \in Invoices : Announcements(k)' = IF k = i THEN Announcements(k) \cup {<<i, type>>} ELSE Announcements(k)
  BY <1>1 DEF Announcements
<1>4. <<i, type>> \notin Announcements(i)
  BY <1>1 DEF Announcements
<1>5. ASSUME NEW k \in Invoices
      PROVE  /\ IsFiniteSet(InvBusy(k)')
             /\ invMails'[k] + invDLQ'[k] + Cardinality(InvBusy(k)') <= Cardinality(Announcements(k)')
  <2>1. IsFiniteSet(InvBusy(k)) /\ IsFiniteSet(Announcements(k))
    BY TwoAnnouncements DEF InvoiceInv
  <2>2. /\ Cardinality(InvBusy(k)) \in Nat /\ Cardinality(Announcements(k)) \in Nat
        /\ invMails[k] \in Nat /\ invDLQ[k] \in Nat
        /\ invMails[k] + invDLQ[k] + Cardinality(InvBusy(k)) <= Cardinality(Announcements(k))
    BY <2>1, FS_CardinalityType DEF InvoiceInv
  <2>3. CASE k = i
    <3>1. IsFiniteSet(InvBusy(k)') /\ Cardinality(InvBusy(k)') = Cardinality(InvBusy(k)) + 1
      BY <1>2, <2>1, <2>3, FS_AddElement
    <3>2. Cardinality(Announcements(k)') = Cardinality(Announcements(k)) + 1
      BY <1>3, <1>4, <2>1, <2>3, FS_AddElement
    <3> QED
      BY <1>1, <2>2, <3>1, <3>2
  <2>4. CASE k # i
    BY <1>1, <1>2, <1>3, <2>1, <2>2, <2>4
  <2> QED
    BY <2>3, <2>4
<1>6. invJob' \in [InvoiceWorkers -> {DeskIdle} \cup [pc : {"fetch", "mail"}, inv : Invoices]]
  BY <1>1 DEF InvoiceInv
<1> QED
  BY <1>1, <1>5, <1>6 DEF InvoiceInv

LEMMA FetchStays == ASSUME InvoiceInv, NEW w \in InvoiceWorkers, FetchInvoice(w) PROVE InvoiceInv'
<1> DEFINE j == [invJob[w] EXCEPT !.pc = "mail"]
<1>1. /\ invJob[w].pc = "fetch" /\ invJob' = [invJob EXCEPT ![w] = j]
      /\ UNCHANGED <<delivered, invMails, invEvents, invDLQ>>
  BY DEF FetchInvoice
<1>2. invJob[w].inv \in Invoices /\ j = [pc |-> "mail", inv |-> invJob[w].inv]
  <2>1. invJob[w] = [pc |-> invJob[w].pc, inv |-> invJob[w].inv] /\ invJob[w].inv \in Invoices
    BY <1>1, HandlerFacts
  <2> QED
    BY <2>1
<1> HIDE DEF j
<1>3. \A i \in Invoices : InvBusy(i)' = InvBusy(i) /\ Announcements(i)' = Announcements(i)
  <2> SUFFICES ASSUME NEW i \in Invoices PROVE InvBusy(i)' = InvBusy(i)
    BY <1>1 DEF Announcements
  <2>1. w \in InvBusy(i) <=> invJob[w].inv = i
    BY <1>1 DEF InvBusy
  <2>2. j.pc # "idle" /\ j.inv = invJob[w].inv
    BY <1>2
  <2>3. InvBusy(i)' = IF j.pc # "idle" /\ j.inv = i THEN InvBusy(i) \cup {w} ELSE InvBusy(i) \ {w}
    BY <1>1, HandlersMove
  <2> QED
    BY <2>1, <2>2, <2>3
<1>4. invJob' \in [InvoiceWorkers -> {DeskIdle} \cup [pc : {"fetch", "mail"}, inv : Invoices]]
  BY <1>1, <1>2 DEF InvoiceInv
<1> QED
  BY <1>1, <1>3, <1>4 DEF InvoiceInv

\* A handler ends, and what it has done is counted.
LEMMA HandlerEnds ==
    ASSUME InvoiceInv, NEW w \in InvoiceWorkers, invJob[w].pc # "idle", invJob' = [invJob EXCEPT ![w] = DeskIdle],
           UNCHANGED delivered, invMails' \in [Invoices -> Nat], invEvents' \in [Invoices -> Nat],
           invDLQ' \in [Invoices -> Nat], \A i \in Invoices : invEvents'[i] <= invMails'[i],
           \A i \in Invoices : invMails'[i] + invDLQ'[i] <=
                invMails[i] + invDLQ[i] + (IF i = invJob[w].inv THEN 1 ELSE 0)
    PROVE  InvoiceInv'
<1>1. ASSUME NEW i \in Invoices
      PROVE  /\ IsFiniteSet(InvBusy(i)')
             /\ invMails'[i] + invDLQ'[i] + Cardinality(InvBusy(i)') <= Cardinality(Announcements(i)')
  <2>1. IsFiniteSet(InvBusy(i)) /\ InvBusy(i)' = InvBusy(i) \ {w} /\ Announcements(i)' = Announcements(i)
    <3>1. \A k : InvBusy(k)' = IF DeskIdle.pc # "idle" /\ DeskIdle.inv = k THEN InvBusy(k) \cup {w} ELSE InvBusy(k) \ {w}
      BY HandlersMove
    <3> QED
      BY <3>1 DEF InvoiceInv, DeskIdle, Announcements
  <2>2. w \in InvBusy(i) <=> invJob[w].inv = i
    BY DEF InvBusy
  <2>3. /\ IsFiniteSet(InvBusy(i)')
        /\ Cardinality(InvBusy(i)') = Cardinality(InvBusy(i)) - (IF i = invJob[w].inv THEN 1 ELSE 0)
    BY <2>1, <2>2, FS_RemoveElement, FS_CardinalityType
  <2>4. /\ Cardinality(InvBusy(i)) \in Nat /\ Cardinality(Announcements(i)) \in Nat
        /\ invMails[i] \in Nat /\ invDLQ[i] \in Nat /\ invMails'[i] \in Nat /\ invDLQ'[i] \in Nat
        /\ invMails[i] + invDLQ[i] + Cardinality(InvBusy(i)) <= Cardinality(Announcements(i))
    BY <2>1, TwoAnnouncements, FS_CardinalityType DEF InvoiceInv
  <2> QED
    BY <2>1, <2>3, <2>4
<1>2. invJob' \in [InvoiceWorkers -> {DeskIdle} \cup [pc : {"fetch", "mail"}, inv : Invoices]]
  BY DEF InvoiceInv
<1> QED
  BY <1>1, <1>2 DEF InvoiceInv

LEMMA InvoicesKeep == InvoiceInv /\ InvNext => InvoiceInv'
<1> SUFFICES ASSUME InvoiceInv, InvNext PROVE InvoiceInv'
  OBVIOUS
<1>1. ASSUME NEW w \in InvoiceWorkers, MailInvoice(w) PROVE InvoiceInv'
  <2>1. invJob[w].pc # "idle" /\ invJob[w].inv \in Invoices
    BY <1>1, HandlerFacts DEF MailInvoice
  <2>2. /\ invJob' = [invJob EXCEPT ![w] = DeskIdle] /\ UNCHANGED delivered
        /\ invMails' \in [Invoices -> Nat] /\ invEvents' \in [Invoices -> Nat] /\ invDLQ' \in [Invoices -> Nat]
        /\ \A i \in Invoices : invEvents'[i] <= invMails'[i]
    BY <1>1, <2>1 DEF MailInvoice, InvoiceInv
  <2>3. \A i \in Invoices : invMails'[i] + invDLQ'[i] <=
              invMails[i] + invDLQ[i] + (IF i = invJob[w].inv THEN 1 ELSE 0)
    BY <1>1, <2>1 DEF MailInvoice, InvoiceInv
  <2> QED
    BY <2>1, <2>2, <2>3, HandlerEnds
<1>2. ASSUME NEW w \in InvoiceWorkers, InvoiceFails(w) PROVE InvoiceInv'
  <2>1. invJob[w].pc # "idle" /\ invJob[w].inv \in Invoices
    BY <1>2, HandlerFacts DEF InvoiceFails
  <2>2. /\ invJob' = [invJob EXCEPT ![w] = DeskIdle] /\ UNCHANGED delivered
        /\ invMails' \in [Invoices -> Nat] /\ invEvents' \in [Invoices -> Nat] /\ invDLQ' \in [Invoices -> Nat]
        /\ \A i \in Invoices : invEvents'[i] <= invMails'[i]
    BY <1>2, <2>1 DEF InvoiceFails, InvoiceInv
  <2>3. \A i \in Invoices : invMails'[i] + invDLQ'[i] <=
              invMails[i] + invDLQ[i] + (IF i = invJob[w].inv THEN 1 ELSE 0)
    BY <1>2, <2>1 DEF InvoiceFails, InvoiceInv
  <2> QED
    BY <2>1, <2>2, <2>3, HandlerEnds
<1> QED
  BY <1>1, <1>2, WebhookAnnounces, FetchStays DEF InvNext, InvTypes

LEMMA InvoicesStand == InvoiceInv /\ UNCHANGED invVars => InvoiceInv'
BY DEF InvoiceInv, InvBusy, Announcements, invVars

\* So an invoice is mailed, or put on the DLQ, twice at most.
LEMMA InvoicesBounded ==
    ASSUME InvoiceInv, NEW i \in Invoices
    PROVE  invMails[i] \in 0..2 /\ invEvents[i] \in 0..2 /\ invDLQ[i] \in 0..2
<1>1. Cardinality(Announcements(i)) \in 0..2
  BY TwoAnnouncements
<1>2. Cardinality(InvBusy(i)) \in Nat
  BY FS_CardinalityType DEF InvoiceInv
<1>3. /\ invMails[i] + invDLQ[i] + Cardinality(InvBusy(i)) <= Cardinality(Announcements(i))
      /\ invMails[i] \in Nat /\ invEvents[i] \in Nat /\ invEvents[i] <= invMails[i] /\ invDLQ[i] \in Nat
  BY DEF InvoiceInv
<1> QED
  BY <1>1, <1>2, <1>3

\* What is published and put on the DLQ is of tenants and of plans there are.
EventInv ==
    /\ planEvents \subseteq PlanTenants \X PlanCodes /\ planDLQ \subseteq planFailed
    /\ planFailed \subseteq PlanTenants /\ planMixed \subseteq PlanTenants

LEMMA EventsStart == PlanInit => EventInv
BY DEF PlanInit, EventInv

LEMMA EventsKeep == ASSUME PlanTypes, EventInv, PlanNext PROVE EventInv'
<1>1. ASSUME NEW w \in PlanWorkers, PlanChanged(w) \/ PlanFails(w) PROVE EventInv'
  <2>1. planJob[w].tenant \in PlanTenants /\ planJob[w].to \in PlanCodes
    BY <1>1, PlanJobFacts DEF PlanChanged, PlanFails
  <2> QED
    BY <1>1, <2>1 DEF PlanChanged, PlanFails, EventInv
<1>2. ASSUME NEW w \in PlanWorkers, PatchQuota(w) \/ CreateQuota(w) \/ SwitchLagoPlan(w) PROVE EventInv'
  BY <1>2 DEF PatchQuota, CreateQuota, SwitchLagoPlan, EventInv
<1>3. ASSUME NEW w \in PlanWorkers, NEW t \in PlanTenants, NEW from \in PlanCodes, NEW to \in PlanCodes,
             PlanChange(w, t, from, to)
      PROVE  EventInv'
  BY <1>3 DEF PlanChange, EventInv
<1>4. CASE PlanCrash
  BY <1>4 DEF PlanCrash, EventInv
<1> QED
  BY <1>1, <1>2, <1>3, <1>4 DEF PlanNext

LEMMA EventsStand == EventInv /\ UNCHANGED planVars => EventInv'
BY DEF EventInv, planVars

LEMMA DeskImplies == PlanInv /\ EventInv /\ InvoiceInv => DeskTypeOK
<1> SUFFICES ASSUME PlanInv, EventInv, InvoiceInv PROVE DeskTypeOK
  OBVIOUS
<1>1. \A w \in PlanWorkers : planJob[w].pc \in {"idle", "patch", "post", "lago", "mail"}
  BY PlanJobFacts DEF PlanInv, PlanPcs
<1> QED
  BY <1>1, InvoicesBounded DEF PlanInv, PlanTypes, EventInv, DeskTypeOK

-----------------------------------------------------------------------------
(* The metering bridge: a slot is billed once per life of the scheduler,   *)
(* whose windows follow one another, and once per manual run.  The claim   *)
(* is kept by what each of them may still bill: a unit of every slot the   *)
(* scheduler has not passed, and of the window of a manual run under way,  *)
(* unless Lago has that transaction already.                               *)

Windows     == [pc : {"discover"}, from : 0..MaxSlot, to : 0..MaxSlot]
Posts       == [pc : {"post"}, from : 0..MaxSlot, to : 0..MaxSlot, batch : SUBSET MeterNs,
                todo : SUBSET MeterNs, attempt : Nat, failed : SUBSET MeterNs]
TxTypes     == [ns : MeterNs, from : 0..MaxSlot, to : 0..MaxSlot]
CycleTypes  == \A r \in Runs : cycle[r] \in {NoCycle} \cup Windows \cup Posts
Busy(r)     == cycle[r] # NoCycle
Tx(n, c)    == [ns |-> n, from |-> c.from, to |-> c.to]
Covers(x, s) == x.from < s /\ s <= x.to
Billed(n, s) == {x \in lagoSeen : x.ns = n /\ x.from < s /\ s <= x.to}
BySched(n, s) ==
    IF lastWindowEnd < s /\ ~(Busy("sched") /\ Covers(cycle["sched"], s) /\ Tx(n, cycle["sched"]) \in lagoSeen)
    THEN 1 ELSE 0
ByHandRun(n, s) ==
    IF Busy("manual") /\ Covers(cycle["manual"], s) /\ Tx(n, cycle["manual"]) \notin lagoSeen THEN 1 ELSE 0

SlotsKeep ==
    \A n \in MeterNs, s \in 1..MaxSlot :
        IsFiniteSet(Billed(n, s)) /\ Cardinality(Billed(n, s)) + BySched(n, s) + ByHandRun(n, s) <= meterLives + manualRuns
WindowsFollow ==
    /\ lastWindowEnd <= slot
    /\ Busy("sched") => /\ cycle["sched"].from = lastWindowEnd /\ lastWindowEnd <= cycle["sched"].to
                        /\ cycle["sched"].to <= slot
\* What is no longer to post was skipped, or Lago has it, or it is to be counted
\* as failed.
LeftOut(r) ==
    cycle[r].pc = "post" =>
        \A n \in MeterNs \ (cycle[r].batch \cup cycle[r].todo), s \in Slots(cycle[r]) :
            <<n, s>> \in skippedSlots \/ Tx(n, cycle[r]) \in lagoSeen \/ n \in cycle[r].failed
PassedKept ==
    meterLives = 1 =>
        \A n \in MeterNs, s \in 1..lastWindowEnd :
            Billed(n, s) # {} \/ (\E x \in meterFailed : x.ns = n /\ Covers(x, s)) \/ <<n, s>> \in skippedSlots

MeterShape ==
    /\ DOMAIN cycle = Runs /\ CycleTypes /\ MeterTypeOK
MeterInv == MeterShape /\ SlotsKeep /\ WindowsFollow /\ LeftOut("sched") /\ PassedKept

-----------------------------------------------------------------------------
LEMMA MeterStarts == MeterInit => MeterInv
<1> SUFFICES ASSUME MeterInit PROVE MeterInv
  OBVIOUS
<1> USE MeteringAssumption
<1>1. \A r \in Runs : cycle[r] = NoCycle
  BY DEF MeterInit
<1>2. MeterTypeOK /\ DOMAIN cycle = Runs
  BY DEF MeterInit, MeterTypeOK, Waiting
<1>3. CycleTypes /\ WindowsFollow /\ LeftOut("sched")
  BY <1>1 DEF CycleTypes, WindowsFollow, LeftOut, Busy, NoCycle, Runs, MeterInit
<1>4. SlotsKeep
  <2> SUFFICES ASSUME NEW n \in MeterNs, NEW s \in 1..MaxSlot
               PROVE IsFiniteSet(Billed(n, s)) /\ Cardinality(Billed(n, s)) + BySched(n, s) + ByHandRun(n, s) <= meterLives + manualRuns
    BY DEF SlotsKeep
  <2>1. Billed(n, s) = {}
    BY DEF MeterInit, Billed
  <2>2. BySched(n, s) \in {0, 1} /\ ByHandRun(n, s) = 0
    BY <1>1 DEF BySched, ByHandRun, Busy, Runs
  <2> QED
    BY <2>1, <2>2, FS_EmptySet DEF MeterInit
<1>5. PassedKept
  BY DEF PassedKept, MeterInit
<1> QED
  BY <1>2, <1>3, <1>4, <1>5 DEF MeterInv, MeterShape

\* A transaction more is one more of its namespace and slots.
LEMMA OneMore ==
    ASSUME NEW n, NEW s, NEW x, IsFiniteSet(Billed(n, s)), x.ns = n, Covers(x, s),
           Billed(n, s)' = Billed(n, s) \cup {x}
    PROVE  /\ IsFiniteSet(Billed(n, s)') /\ Cardinality(Billed(n, s)) \in Nat
           /\ Cardinality(Billed(n, s)') = IF x \in lagoSeen THEN Cardinality(Billed(n, s)) ELSE Cardinality(Billed(n, s)) + 1
<1>1. x \in lagoSeen <=> x \in Billed(n, s)
  BY DEF Billed, Covers
<1>2. PICK B : B = Billed(n, s)
  OBVIOUS
<1> QED
  BY <1>1, <1>2, FS_AddElement, FS_CardinalityType

\* What Lago may have stored after an attempt, whatever the answer.
Stored(r) == lagoSeen' \in {lagoSeen, lagoSeen \cup BatchOf(r)}

LEMMA StoredIsBilled ==
    ASSUME MeterShape, NEW r \in Runs, cycle[r].pc = "post", Stored(r), NEW n \in MeterNs, NEW s \in 1..MaxSlot
    PROVE  LET x == Tx(n, cycle[r]) IN
           \/ /\ UNCHANGED Billed(n, s)
              /\ \A c \in Windows \cup Posts : Covers(c, s) => (Tx(n, c) \in lagoSeen' <=> Tx(n, c) \in lagoSeen)
           \/ /\ Covers(x, s) /\ Billed(n, s)' = Billed(n, s) \cup {x} /\ x \in lagoSeen'
              /\ \A c \in Windows \cup Posts : Tx(n, c) \in lagoSeen' <=> (Tx(n, c) \in lagoSeen \/ Tx(n, c) = x)
<1> DEFINE x == Tx(n, cycle[r])
<1>1. CASE lagoSeen' = lagoSeen
  BY <1>1 DEF Billed
<1>2. CASE lagoSeen' = lagoSeen \cup BatchOf(r)
  <2>1. \A y : y \in BatchOf(r) <=> \E m \in cycle[r].batch : y = Tx(m, cycle[r])
    BY DEF BatchOf, Transactions, Tx
  <2>2. \A m : Tx(m, cycle[r]).ns = m /\ Tx(m, cycle[r]).from = cycle[r].from /\ Tx(m, cycle[r]).to = cycle[r].to
    BY DEF Tx
  <2>3. CASE n \in cycle[r].batch /\ Covers(x, s)
    <3>1. Billed(n, s)' = Billed(n, s) \cup {x} /\ x \in lagoSeen'
      BY <1>2, <2>1, <2>2, <2>3 DEF Billed, Covers
    <3>2. \A c : Tx(n, c) \in lagoSeen' <=> (Tx(n, c) \in lagoSeen \/ Tx(n, c) = x)
      <4> SUFFICES ASSUME NEW c PROVE Tx(n, c) \in lagoSeen' <=> (Tx(n, c) \in lagoSeen \/ Tx(n, c) = x)
        OBVIOUS
      <4>1. Tx(n, c).ns = n
        BY DEF Tx
      <4> QED
        BY <1>2, <2>1, <2>2, <2>3, <4>1
    <3> QED
      BY <2>3, <3>1, <3>2
  <2>4. CASE ~(n \in cycle[r].batch /\ Covers(x, s))
    <3>1. \A y \in BatchOf(r) : ~(y.ns = n /\ y.from < s /\ s <= y.to)
      BY <2>1, <2>2, <2>4 DEF Covers
    <3>2. UNCHANGED Billed(n, s)
      BY <1>2, <3>1 DEF Billed
    <3>3. \A c : Covers(c, s) => (Tx(n, c) \in lagoSeen' <=> Tx(n, c) \in lagoSeen)
      <4> SUFFICES ASSUME NEW c, Covers(c, s) PROVE Tx(n, c) \notin BatchOf(r)
        BY <1>2
      <4>1. Tx(n, c).ns = n /\ Tx(n, c).from = c.from /\ Tx(n, c).to = c.to
        BY DEF Tx
      <4> QED
        BY <3>1, <4>1 DEF Covers
    <3> QED
      BY <3>2, <3>3
  <2> QED
    BY <2>3, <2>4
<1> QED
  BY <1>1, <1>2 DEF Stored

\* What a step leaves of the shape, when the cycle of one run changes.
LEMMA ShapeKept ==
    ASSUME MeterShape, NEW r \in Runs, NEW c \in {NoCycle} \cup Windows \cup Posts, cycle' = [cycle EXCEPT ![r] = c]
    PROVE  DOMAIN cycle' = Runs /\ CycleTypes' /\ cycle'[r] = c /\ \A q \in Runs \ {r} : cycle'[q] = cycle[q]
BY DEF MeterShape, CycleTypes

LEMMA PcShapes ==
    ASSUME MeterShape, NEW r \in Runs
    PROVE  /\ cycle[r].pc = "discover" => cycle[r] \in Windows
           /\ cycle[r].pc = "post" => cycle[r] \in Posts
           /\ Busy(r) => cycle[r] \in Windows \cup Posts
           /\ Busy(r) <=> cycle[r].pc # "none"
<1>1. NoCycle.pc = "none" /\ (\A c \in Windows : c.pc = "discover") /\ (\A c \in Posts : c.pc = "post")
  BY DEF NoCycle, Windows, Posts
<1>2. cycle[r] \in {NoCycle} \cup Windows \cup Posts
  BY DEF MeterShape, CycleTypes
<1> QED
  BY <1>1, <1>2 DEF Busy

\* The sched and the manual share of a slot, over a step.
Shares(n, s) == Cardinality(Billed(n, s)) + BySched(n, s) + ByHandRun(n, s)

LEMMA SlotsFollow ==
    ASSUME MeterInv, NEW d \in {0, 1}, (meterLives + manualRuns)' = meterLives + manualRuns + d,
           \A n \in MeterNs, s \in 1..MaxSlot : IsFiniteSet(Billed(n, s)') /\ Shares(n, s)' <= Shares(n, s) + d
    PROVE  SlotsKeep'
<1> SUFFICES ASSUME NEW n \in MeterNs, NEW s \in 1..MaxSlot
             PROVE (IsFiniteSet(Billed(n, s)) /\ Shares(n, s) <= meterLives + manualRuns)'
  BY DEF SlotsKeep, Shares
<1>1. /\ IsFiniteSet(Billed(n, s)) /\ IsFiniteSet(Billed(n, s)') /\ Shares(n, s)' <= Shares(n, s) + d
      /\ Shares(n, s) <= meterLives + manualRuns
  BY DEF MeterInv, SlotsKeep, Shares
<1>2. Cardinality(Billed(n, s)) \in Nat /\ Cardinality(Billed(n, s)') \in Nat
  BY <1>1, FS_CardinalityType
<1>3. Shares(n, s) \in Nat /\ Shares(n, s)' \in Nat
  BY <1>2 DEF Shares, BySched, ByHandRun
<1>4. meterLives + manualRuns \in Nat
  BY MeteringAssumption DEF MeterInv, MeterShape, MeterTypeOK
<1> QED
  BY <1>1, <1>3, <1>4

\* A step that leaves Lago alone bills nothing.
LEMMA NothingNewBilled ==
    ASSUME MeterInv, UNCHANGED lagoSeen, NEW d \in {0, 1}, (meterLives + manualRuns)' = meterLives + manualRuns + d,
           \A n \in MeterNs, s \in 1..MaxSlot :
              BySched(n, s)' + ByHandRun(n, s)' <= BySched(n, s) + ByHandRun(n, s) + d
    PROVE  SlotsKeep'
<1> SUFFICES ASSUME NEW n \in MeterNs, NEW s \in 1..MaxSlot
             PROVE  IsFiniteSet(Billed(n, s)') /\ Shares(n, s)' <= Shares(n, s) + d
  BY SlotsFollow
<1>1. Billed(n, s)' = Billed(n, s)
  BY DEF Billed
<1>2. IsFiniteSet(Billed(n, s)) /\ Cardinality(Billed(n, s)) \in Nat
  BY FS_CardinalityType DEF MeterInv, SlotsKeep
<1>3. BySched(n, s) \in Nat /\ BySched(n, s)' \in Nat /\ ByHandRun(n, s) \in Nat /\ ByHandRun(n, s)' \in Nat
  BY DEF BySched, ByHandRun
<1>4. BySched(n, s)' + ByHandRun(n, s)' <= BySched(n, s) + ByHandRun(n, s) + d
  OBVIOUS
<1>5. Cardinality(Billed(n, s)') = Cardinality(Billed(n, s))
  BY <1>1
<1> QED
  BY <1>1, <1>2, <1>3, <1>4, <1>5 DEF Shares

\* How a run leaves a step of its cycle: ended, or with a batch to post.
CycleLeft(r) ==
    /\ DOMAIN cycle' = Runs /\ CycleTypes' /\ \A q \in Runs \ {r} : cycle'[q] = cycle[q]
    /\ \/ cycle'[r] = NoCycle
       \/ cycle'[r] \in Posts /\ cycle'[r].from = cycle[r].from /\ cycle'[r].to = cycle[r].to
    /\ lastWindowEnd' = IF r = "sched" /\ cycle'[r] = NoCycle THEN cycle[r].to ELSE lastWindowEnd
    /\ nextTick' \in {nextTick, slot + Interval}

\* The same, with what is left to post and what is to be counted as failed.
Goes(r, todo, failed) ==
    /\ CycleLeft(r)
    /\ \/ /\ cycle'[r] = NoCycle /\ todo = {}
          /\ meterFailed' = meterFailed \cup Transactions(cycle[r], failed)
       \/ /\ cycle'[r] \in Posts /\ cycle'[r].batch \cup cycle'[r].todo = todo
          /\ cycle'[r].failed = failed /\ UNCHANGED meterFailed

LEMMA BatchesGo ==
    ASSUME MeterShape, NEW r \in Runs, cycle[r] \in Windows \cup Posts,
           NEW todo \in SUBSET MeterNs, NEW failed \in SUBSET MeterNs, NextBatch(r, todo, failed)
    PROVE  Goes(r, todo, failed)
<1>1. cycle[r].from \in 0..MaxSlot /\ cycle[r].to \in 0..MaxSlot
  BY DEF Windows, Posts
<1>2. CASE todo = {}
  <2>1. /\ cycle' = [cycle EXCEPT ![r] = NoCycle]
        /\ meterFailed' = meterFailed \cup Transactions(cycle[r], failed)
        /\ lastWindowEnd' = IF r = "sched" THEN cycle[r].to ELSE lastWindowEnd
        /\ nextTick' \in {nextTick, slot + Interval}
    BY <1>2 DEF NextBatch, Finish
  <2>2. DOMAIN cycle' = Runs /\ CycleTypes' /\ cycle'[r] = NoCycle /\ \A q \in Runs \ {r} : cycle'[q] = cycle[q]
    BY <2>1, ShapeKept
  <2> QED
    BY <1>2, <2>1, <2>2 DEF Goes, CycleLeft
<1>3. CASE todo # {}
  <2>1. PICK b \in SUBSET todo :
           cycle' = [cycle EXCEPT ![r] = [pc |-> "post", from |-> @.from, to |-> @.to, batch |-> b,
                                          todo |-> todo \ b, attempt |-> 1, failed |-> failed]]
    BY <1>3 DEF NextBatch
  <2>2. PICK c : c = [pc |-> "post", from |-> cycle[r].from, to |-> cycle[r].to, batch |-> b,
                      todo |-> todo \ b, attempt |-> 1, failed |-> failed]
    OBVIOUS
  <2>3. /\ c \in Posts /\ c.from = cycle[r].from /\ c.to = cycle[r].to /\ c # NoCycle
        /\ c.batch \cup c.todo = todo /\ c.failed = failed
    BY <1>1, <2>1, <2>2 DEF Posts, NoCycle
  <2>4. cycle' = [cycle EXCEPT ![r] = c]
    BY <2>1, <2>2 DEF MeterShape
  <2>5. DOMAIN cycle' = Runs /\ CycleTypes' /\ cycle'[r] = c /\ \A q \in Runs \ {r} : cycle'[q] = cycle[q]
    BY <2>3, <2>4, ShapeKept
  <2>6. UNCHANGED <<lastWindowEnd, nextTick, meterFailed>>
    BY <1>3 DEF NextBatch
  <2> QED
    BY <2>3, <2>5, <2>6 DEF Goes, CycleLeft
<1> QED
  BY <1>2, <1>3

\* What an attempt may bill, the run that makes it no longer may.
LEMMA PostBillsItsShare ==
    ASSUME MeterInv, NEW r \in Runs, cycle[r].pc = "post", CycleLeft(r), Stored(r),
           UNCHANGED <<meterLives, manualRuns>>
    PROVE  SlotsKeep'
<1> SUFFICES ASSUME NEW n \in MeterNs, NEW s \in 1..MaxSlot
             PROVE  IsFiniteSet(Billed(n, s)') /\ Shares(n, s)' <= Shares(n, s) + 0
  BY SlotsFollow DEF MeterInv, MeterShape, MeterTypeOK
<1> DEFINE x == Tx(n, cycle[r])
<1>1. IsFiniteSet(Billed(n, s)) /\ Cardinality(Billed(n, s)) \in Nat
  BY FS_CardinalityType DEF MeterInv, SlotsKeep
<1>2. lastWindowEnd \in Nat /\ r \in {"sched", "manual"}
  BY MeteringAssumption DEF MeterInv, MeterShape, MeterTypeOK, Runs
<1>3. /\ cycle[r] \in Posts /\ Busy(r) /\ \A q \in Runs : Busy(q) => cycle[q] \in Windows \cup Posts
  BY PcShapes DEF MeterInv
<1>4. \A q \in Runs : Busy(q)' => /\ Busy(q) /\ cycle'[q].from = cycle[q].from /\ cycle'[q].to = cycle[q].to
  BY <1>3 DEF Busy, CycleLeft
<1>5. \A q \in Runs : Busy(q)' => Tx(n, cycle'[q]) = Tx(n, cycle[q]) /\ (Covers(cycle'[q], s) <=> Covers(cycle[q], s))
  BY <1>4 DEF Tx, Covers
<1>6. lastWindowEnd' = IF r = "sched" /\ ~Busy("sched")' THEN cycle["sched"].to ELSE lastWindowEnd
  BY DEF Busy, CycleLeft
<1>7. Busy("sched") => cycle["sched"].from = lastWindowEnd /\ lastWindowEnd <= cycle["sched"].to /\ cycle["sched"].to \in Nat
  BY <1>3, MeteringAssumption DEF MeterInv, WindowsFollow, Windows, Posts, Runs
<1>8. \A q \in Runs \ {r} : Busy(q) => Busy(q)'
  BY DEF Busy, CycleLeft
<1>9. ASSUME UNCHANGED Billed(n, s),
             \A c \in Windows \cup Posts : Covers(c, s) => (Tx(n, c) \in lagoSeen' <=> Tx(n, c) \in lagoSeen)
      PROVE  IsFiniteSet(Billed(n, s)') /\ Shares(n, s)' <= Shares(n, s) + 0
  <2>1. \A q \in Runs : Busy(q) /\ Covers(cycle[q], s) => (Tx(n, cycle[q]) \in lagoSeen' <=> Tx(n, cycle[q]) \in lagoSeen)
    BY <1>3, <1>9
  <2>2. ByHandRun(n, s)' <= ByHandRun(n, s) /\ ByHandRun(n, s) \in Nat /\ ByHandRun(n, s)' \in Nat
    BY <1>4, <1>5, <2>1 DEF ByHandRun, Runs
  <2>3. BySched(n, s)' <= BySched(n, s) /\ BySched(n, s) \in Nat /\ BySched(n, s)' \in Nat
    <3>1. CASE r = "sched" /\ ~Busy("sched")'
      BY <1>2, <1>3, <1>6, <1>7, <2>1, <3>1 DEF BySched, Runs, Covers
    <3>2. CASE ~(r = "sched" /\ ~Busy("sched")')
      BY <1>2, <1>3, <1>4, <1>5, <1>6, <1>8, <2>1, <3>2 DEF BySched, Runs
    <3> QED
      BY <3>1, <3>2
  <2>4. Cardinality(Billed(n, s)') = Cardinality(Billed(n, s))
    BY <1>9
  <2> QED
    BY <1>1, <1>9, <2>2, <2>3, <2>4 DEF Shares
<1>10. ASSUME Covers(x, s), Billed(n, s)' = Billed(n, s) \cup {x}, x \in lagoSeen', x \notin lagoSeen,
              \A c \in Windows \cup Posts : Tx(n, c) \in lagoSeen' <=> (Tx(n, c) \in lagoSeen \/ Tx(n, c) = x)
       PROVE  IsFiniteSet(Billed(n, s)') /\ Shares(n, s)' <= Shares(n, s) + 0
  <2>1. \A q \in Runs : Busy(q) => (Tx(n, cycle[q]) \in lagoSeen => Tx(n, cycle[q]) \in lagoSeen')
    BY <1>3, <1>10
  <2>2. x.ns = n /\ Covers(cycle[r], s)
    BY <1>10 DEF Tx, Covers
  <2>3. IsFiniteSet(Billed(n, s)') /\ Cardinality(Billed(n, s)') = Cardinality(Billed(n, s)) + 1
    BY <1>1, <1>10, <2>2, OneMore
  <2>4. BySched(n, s) \in Nat /\ BySched(n, s)' \in Nat /\ ByHandRun(n, s) \in Nat /\ ByHandRun(n, s)' \in Nat
    BY DEF BySched, ByHandRun
  <2>5. CASE r = "sched"
    <3>1. ByHandRun(n, s)' <= ByHandRun(n, s)
      BY <1>4, <1>5, <1>8, <2>1, <2>5 DEF ByHandRun, Runs
    <3>2. BySched(n, s) = 1
      BY <1>2, <1>3, <1>7, <1>10, <2>2, <2>5 DEF BySched, Covers
    <3>3. BySched(n, s)' = 0
      <4>1. CASE Busy("sched")'
        BY <1>5, <1>10, <2>2, <2>5, <4>1 DEF BySched, Runs
      <4>2. CASE ~Busy("sched")'
        BY <1>3, <1>6, <1>7, <2>2, <2>5, <4>2 DEF BySched, Covers
      <4> QED
        BY <4>1, <4>2
    <3> QED
      BY <1>1, <2>3, <2>4, <3>1, <3>2, <3>3 DEF Shares
  <2>6. CASE r = "manual"
    <3>1. BySched(n, s)' <= BySched(n, s)
      BY <1>2, <1>4, <1>5, <1>6, <1>8, <2>1, <2>6 DEF BySched, Runs
    <3>2. ByHandRun(n, s) = 1 /\ ByHandRun(n, s)' = 0
      BY <1>3, <1>5, <1>10, <2>2, <2>6 DEF ByHandRun, Runs
    <3> QED
      BY <1>1, <2>3, <2>4, <3>1, <3>2 DEF Shares
  <2> QED
    BY <1>2, <2>5, <2>6
<1>11. ASSUME Covers(x, s), Billed(n, s)' = Billed(n, s) \cup {x}, x \in lagoSeen, x \in lagoSeen',
              \A c \in Windows \cup Posts : Tx(n, c) \in lagoSeen' <=> (Tx(n, c) \in lagoSeen \/ Tx(n, c) = x)
       PROVE  /\ UNCHANGED Billed(n, s)
              /\ \A c \in Windows \cup Posts : Covers(c, s) => (Tx(n, c) \in lagoSeen' <=> Tx(n, c) \in lagoSeen)
  <2>1. x \in Billed(n, s)
    BY <1>11 DEF Billed, Covers, Tx
  <2> QED
    BY <1>11, <2>1
<1> HIDE DEF x
<1>12. \/ /\ UNCHANGED Billed(n, s)
          /\ \A c \in Windows \cup Posts : Covers(c, s) => (Tx(n, c) \in lagoSeen' <=> Tx(n, c) \in lagoSeen)
       \/ /\ Covers(x, s) /\ Billed(n, s)' = Billed(n, s) \cup {x} /\ x \in lagoSeen'
          /\ \A c \in Windows \cup Posts : Tx(n, c) \in lagoSeen' <=> (Tx(n, c) \in lagoSeen \/ Tx(n, c) = x)
  BY StoredIsBilled DEF MeterInv, x
<1> QED
  BY <1>9, <1>10, <1>11, <1>12

\* What the scheduler's window has passed, it has passed with all it collected.
LEMMA PassedFollows ==
    ASSUME MeterInv, lagoSeen \subseteq lagoSeen', meterFailed \subseteq meterFailed', skippedSlots \subseteq skippedSlots',
           meterLives' = 1 => meterLives = 1,
           meterLives' = 1 /\ lastWindowEnd' # lastWindowEnd =>
              /\ Busy("sched") /\ lastWindowEnd' = cycle["sched"].to
              /\ \A n \in MeterNs, s \in Slots(cycle["sched"]) :
                    \/ Billed(n, s)' # {} \/ (\E x \in meterFailed' : x.ns = n /\ Covers(x, s)) \/ <<n, s>> \in skippedSlots',
           lastWindowEnd' \in 0..MaxSlot
    PROVE  PassedKept'
<1> SUFFICES ASSUME meterLives' = 1, NEW n \in MeterNs, NEW s \in 1..lastWindowEnd'
             PROVE \/ Billed(n, s)' # {} \/ (\E x \in meterFailed' : x.ns = n /\ Covers(x, s)) \/ <<n, s>> \in skippedSlots'
  BY DEF PassedKept
<1>1. s \in 1..MaxSlot /\ lastWindowEnd \in Nat
  BY MeteringAssumption DEF MeterInv, MeterShape, MeterTypeOK
<1>2. CASE s <= lastWindowEnd
  <2>1. Billed(n, s) # {} \/ (\E x \in meterFailed : x.ns = n /\ Covers(x, s)) \/ <<n, s>> \in skippedSlots
    BY <1>1, <1>2 DEF MeterInv, PassedKept
  <2> QED
    BY <2>1 DEF Billed
<1>3. CASE lastWindowEnd < s
  <2>1. lastWindowEnd' # lastWindowEnd /\ cycle["sched"].from = lastWindowEnd /\ lastWindowEnd' = cycle["sched"].to
    BY <1>1, <1>3 DEF MeterInv, WindowsFollow
  <2>2. s \in Slots(cycle["sched"])
    BY <1>1, <1>3, <2>1 DEF Slots
  <2> QED
    BY <2>1, <2>2
<1> QED
  BY <1>1, <1>2, <1>3

\* The transactions of a window are of the right type.
LEMMA TxFacts ==
    ASSUME NEW c \in Windows \cup Posts, NEW N \in SUBSET MeterNs
    PROVE  /\ Transactions(c, N) \subseteq TxTypes
           /\ \A n \in N : Tx(n, c) \in Transactions(c, N)
           /\ \A n \in MeterNs, s \in Slots(c) : Tx(n, c).ns = n /\ Covers(Tx(n, c), s)
BY DEF Transactions, Windows, Posts, Tx, Slots, Covers, TxTypes

\* A step of a cycle that accounts for whatever it no longer has to post.
LEMMA CycleKeeps ==
    ASSUME MeterInv, NEW r \in Runs, Busy(r), NEW todo \in SUBSET MeterNs, NEW failed \in SUBSET MeterNs,
           Goes(r, todo, failed), SlotsKeep', lagoSeen \subseteq lagoSeen', lagoSeen' \subseteq TxTypes,
           meterDLQ' \subseteq TxTypes, skippedSlots \subseteq skippedSlots',
           r = "sched" => \A n \in MeterNs \ todo, s \in Slots(cycle[r]) :
              <<n, s>> \in skippedSlots' \/ Tx(n, cycle[r]) \in lagoSeen' \/ n \in failed,
           UNCHANGED <<slot, manualRuns, meterLives>>
    PROVE  MeterInv'
<1>1. /\ DOMAIN cycle' = Runs /\ CycleTypes' /\ \A q \in Runs \ {r} : cycle'[q] = cycle[q]
      /\ \/ cycle'[r] = NoCycle
         \/ cycle'[r] \in Posts /\ cycle'[r].from = cycle[r].from /\ cycle'[r].to = cycle[r].to
      /\ lastWindowEnd' = IF r = "sched" /\ cycle'[r] = NoCycle THEN cycle[r].to ELSE lastWindowEnd
      /\ nextTick' \in {nextTick, slot + Interval}
  BY DEF Goes, CycleLeft
<1>2. \/ /\ cycle'[r] = NoCycle /\ todo = {}
         /\ meterFailed' = meterFailed \cup Transactions(cycle[r], failed)
      \/ /\ cycle'[r] \in Posts /\ cycle'[r].batch \cup cycle'[r].todo = todo
         /\ cycle'[r].failed = failed /\ UNCHANGED meterFailed
  BY DEF Goes
<1>3. cycle[r] \in Windows \cup Posts /\ \A c \in Posts : c # NoCycle
  BY PcShapes DEF MeterInv, Posts, NoCycle
<1>4. \A c \in Windows \cup Posts : c.from \in 0..MaxSlot /\ c.to \in 0..MaxSlot
  BY DEF Windows, Posts
<1>5. lastWindowEnd' \in 0..MaxSlot
  BY <1>1, <1>3, <1>4 DEF MeterInv, MeterShape, MeterTypeOK
<1>6. meterFailed' \subseteq TxTypes /\ meterFailed \subseteq meterFailed'
  BY <1>2, <1>3, TxFacts DEF MeterInv, MeterShape, MeterTypeOK, TxTypes
<1>7. MeterTypeOK'
  <2>1. nextTick' \in {Waiting} \cup 0..(MaxSlot + Interval)
    BY <1>1, MeteringAssumption DEF MeterInv, MeterShape, MeterTypeOK
  <2> QED
    BY <1>5, <1>6, <2>1 DEF MeterInv, MeterShape, MeterTypeOK, TxTypes
<1>8. WindowsFollow'
  <2>1. CASE r = "sched" /\ cycle'[r] = NoCycle
    <3>1. lastWindowEnd' = cycle["sched"].to /\ ~(Busy("sched")')
      BY <1>1, <2>1 DEF Busy
    <3>2. cycle["sched"].to <= slot
      BY <2>1 DEF MeterInv, WindowsFollow
    <3> QED
      BY <3>1, <3>2 DEF WindowsFollow
  <2>2. CASE ~(r = "sched" /\ cycle'[r] = NoCycle)
    <3>1. Busy("sched")' => Busy("sched") /\ cycle'["sched"].from = cycle["sched"].from /\ cycle'["sched"].to = cycle["sched"].to
      BY <1>1, <2>2 DEF Busy, Runs
    <3> QED
      BY <1>1, <2>2, <3>1 DEF MeterInv, WindowsFollow
  <2> QED
    BY <2>1, <2>2
<1>9. LeftOut("sched")'
  <2>1. CASE r = "sched"
    <3> SUFFICES ASSUME cycle'[r].pc = "post"
                 PROVE  \A n \in MeterNs \ (cycle'[r].batch \cup cycle'[r].todo), s \in Slots(cycle'[r]) :
                            <<n, s>> \in skippedSlots' \/ Tx(n, cycle'[r]) \in lagoSeen' \/ n \in cycle'[r].failed
      BY <2>1 DEF LeftOut
    <3>1. cycle'[r] # NoCycle
      BY DEF NoCycle
    <3>2. /\ cycle'[r].batch \cup cycle'[r].todo = todo /\ cycle'[r].failed = failed
          /\ cycle'[r].from = cycle[r].from /\ cycle'[r].to = cycle[r].to
      BY <1>1, <1>2, <3>1
    <3>3. Slots(cycle'[r]) = Slots(cycle[r]) /\ \A n : Tx(n, cycle'[r]) = Tx(n, cycle[r])
      BY <3>2 DEF Slots, Tx
    <3> QED
      BY <2>1, <3>2, <3>3
  <2>2. CASE r # "sched"
    <3>1. cycle'["sched"] = cycle["sched"]
      BY <1>1, <2>2 DEF Runs
    <3> QED
      BY <3>1 DEF LeftOut, MeterInv
  <2> QED
    BY <2>1, <2>2
<1>10. PassedKept'
  <2>1. lastWindowEnd' # lastWindowEnd => r = "sched" /\ cycle'[r] = NoCycle /\ lastWindowEnd' = cycle["sched"].to
    BY <1>1
  <2>2. ASSUME r = "sched", cycle'[r] = NoCycle, NEW n \in MeterNs, NEW s \in Slots(cycle[r])
        PROVE \/ Billed(n, s)' # {} \/ (\E x \in meterFailed' : x.ns = n /\ Covers(x, s)) \/ <<n, s>> \in skippedSlots'
    <3>1. Tx(n, cycle[r]).ns = n /\ Covers(Tx(n, cycle[r]), s)
      BY <1>3, <2>2, TxFacts
    <3>2. todo = {} /\ meterFailed' = meterFailed \cup Transactions(cycle[r], failed)
      BY <1>2, <1>3, <2>2
    <3>3. n \in failed => Tx(n, cycle[r]) \in meterFailed'
      BY <1>3, <3>2, TxFacts
    <3>4. Tx(n, cycle[r]) \in lagoSeen' => Tx(n, cycle[r]) \in Billed(n, s)'
      BY <3>1 DEF Billed, Covers
    <3> QED
      BY <2>2, <3>1, <3>2, <3>3, <3>4
  <2> QED
    BY <1>5, <1>6, <2>1, <2>2, PassedFollows
<1> QED
  BY <1>1, <1>7, <1>8, <1>9, <1>10 DEF MeterInv, MeterShape

\* A batch is accepted, retried or given up: what is not posted again is
\* stored, or to be counted.
LEMMA PostKeeps ==
    ASSUME MeterInv, NEW r \in Runs, cycle[r].pc = "post", NEW todo \in SUBSET MeterNs, NEW failed \in SUBSET MeterNs,
           Goes(r, todo, failed), Stored(r), meterDLQ' \in {meterDLQ, meterDLQ \cup BatchOf(r)},
           cycle[r].todo \subseteq todo, cycle[r].failed \subseteq failed,
           cycle[r].batch \subseteq todo \/ cycle[r].batch \subseteq failed \/ BatchOf(r) \subseteq lagoSeen',
           UNCHANGED <<slot, manualRuns, skippedSlots, meterLives>>
    PROVE  MeterInv'
<1>1. cycle[r] \in Posts /\ Busy(r) /\ cycle[r].batch \in SUBSET MeterNs
  BY PcShapes DEF MeterInv, Posts
<1>2. SlotsKeep'
  BY PostBillsItsShare DEF Goes
<1>3. BatchOf(r) \subseteq TxTypes /\ \A n \in cycle[r].batch : Tx(n, cycle[r]) \in BatchOf(r)
  BY <1>1, TxFacts DEF BatchOf
<1>4. lagoSeen \subseteq lagoSeen' /\ lagoSeen' \subseteq TxTypes /\ meterDLQ' \subseteq TxTypes
  BY <1>3 DEF Stored, MeterInv, MeterShape, MeterTypeOK, TxTypes
<1>5. ASSUME NEW n \in MeterNs \ todo, NEW s \in Slots(cycle[r]), r = "sched"
      PROVE  <<n, s>> \in skippedSlots' \/ Tx(n, cycle[r]) \in lagoSeen' \/ n \in failed
  <2>1. CASE n \in cycle[r].batch
    BY <1>3, <1>5, <2>1
  <2>2. CASE n \notin cycle[r].batch
    BY <1>4, <1>5, <2>2 DEF MeterInv, LeftOut
  <2> QED
    BY <2>1, <2>2
<1> QED
  BY <1>1, <1>2, <1>4, <1>5, CycleKeeps

\* Cycles that are gone, or of the same window as before, may bill no more than before.
LEMMA NoMoreToBill ==
    ASSUME MeterInv, UNCHANGED <<lagoSeen, meterLives, manualRuns>>,
           \A q \in Runs : Busy(q)' => Busy(q) /\ cycle'[q].from = cycle[q].from /\ cycle'[q].to = cycle[q].to,
           \/ UNCHANGED lastWindowEnd /\ (Busy("sched") => Busy("sched")')
           \/ Busy("sched") /\ lastWindowEnd' = cycle["sched"].to
    PROVE  SlotsKeep'
<1> SUFFICES ASSUME NEW n \in MeterNs, NEW s \in 1..MaxSlot
             PROVE  BySched(n, s)' + ByHandRun(n, s)' <= BySched(n, s) + ByHandRun(n, s) + 0
  BY NothingNewBilled DEF MeterInv, MeterShape, MeterTypeOK
<1>1. \A q \in Runs : Busy(q)' => Tx(n, cycle'[q]) = Tx(n, cycle[q]) /\ (Covers(cycle'[q], s) <=> Covers(cycle[q], s))
  BY DEF Tx, Covers
<1>2. ByHandRun(n, s)' <= ByHandRun(n, s)
  BY <1>1 DEF ByHandRun, Runs
<1>3. lastWindowEnd \in Nat /\ lastWindowEnd' \in Int
  BY MeteringAssumption, PcShapes DEF MeterInv, MeterShape, MeterTypeOK, Windows, Posts, Runs
<1>4. BySched(n, s)' <= BySched(n, s)
  <2>1. CASE UNCHANGED lastWindowEnd /\ (Busy("sched") => Busy("sched")')
    BY <1>1, <2>1 DEF BySched, Runs
  <2>2. CASE Busy("sched") /\ lastWindowEnd' = cycle["sched"].to
    BY <1>3, <2>2 DEF BySched, Covers, MeterInv, WindowsFollow
  <2> QED
    BY <2>1, <2>2
<1>5. BySched(n, s) \in Nat /\ BySched(n, s)' \in Nat /\ ByHandRun(n, s) \in Nat /\ ByHandRun(n, s)' \in Nat
  BY DEF BySched, ByHandRun
<1> QED
  BY <1>2, <1>4, <1>5

\* A cycle that ends before it posts, or goes on to post, with what it leaves out.
LEMMA CollectKeeps ==
    ASSUME MeterInv, NEW r \in Runs, cycle[r].pc = "discover", NEW found \in SUBSET MeterNs,
           skippedSlots' = skippedSlots \cup ((MeterNs \ found) \X Slots(cycle[r])), NextBatch(r, found, {}),
           UNCHANGED <<slot, manualRuns, lagoSeen, meterDLQ, meterLives>>
    PROVE  MeterInv'
<1>1. cycle[r] \in Windows /\ Busy(r)
  BY PcShapes DEF MeterInv
<1>2. Goes(r, found, {})
  BY <1>1, BatchesGo DEF MeterInv
<1>3. SlotsKeep'
  <2>1. \A q \in Runs : Busy(q)' => Busy(q) /\ cycle'[q].from = cycle[q].from /\ cycle'[q].to = cycle[q].to
    BY <1>1, <1>2 DEF Goes, CycleLeft, Busy
  <2>2. \/ UNCHANGED lastWindowEnd /\ (Busy("sched") => Busy("sched")')
        \/ Busy("sched") /\ lastWindowEnd' = cycle["sched"].to
    BY <1>1, <1>2 DEF Goes, CycleLeft, Busy, Runs
  <2> QED
    BY <2>1, <2>2, NoMoreToBill
<1>4. lagoSeen' \subseteq TxTypes /\ meterDLQ' \subseteq TxTypes
  BY DEF MeterInv, MeterShape, MeterTypeOK, TxTypes
<1> QED
  BY <1>1, <1>2, <1>3, <1>4, CycleKeeps

\* A cycle begins.
LEMMA BeginFacts ==
    ASSUME MeterInv, NEW r \in Runs, NEW from \in 0..MaxSlot, NEW to \in 0..MaxSlot, Begin(r, from, to)
    PROVE  /\ DOMAIN cycle' = Runs /\ CycleTypes' /\ ~Busy(r) /\ cycle'[r].pc = "discover"
           /\ cycle'[r].from = from /\ cycle'[r].to = to /\ \A q \in Runs \ {r} : cycle'[q] = cycle[q]
<1>1. PICK c : c = [pc |-> "discover", from |-> from, to |-> to]
  OBVIOUS
<1>2. c \in Windows /\ c.pc = "discover" /\ c.from = from /\ c.to = to
  BY <1>1 DEF Windows
<1>3. cycle' = [cycle EXCEPT ![r] = c] /\ ~Busy(r)
  BY <1>1 DEF Begin, Busy
<1> QED
  BY <1>2, <1>3, ShapeKept DEF MeterInv

LEMMA TickBilling == MeterInv /\ MeterTick => MeterInv'
<1> SUFFICES ASSUME MeterInv, MeterTick PROVE MeterInv'
  OBVIOUS
<1>1. /\ UNCHANGED <<slot, lastWindowEnd, manualRuns, lagoSeen, meterDLQ, meterFailed, skippedSlots, meterLives>>
      /\ nextTick' = Waiting
  BY DEF MeterTick
<1>2. /\ DOMAIN cycle' = Runs /\ CycleTypes' /\ ~Busy("sched") /\ cycle'["sched"].pc = "discover"
      /\ cycle'["sched"].from = lastWindowEnd /\ cycle'["sched"].to = slot /\ cycle'["manual"] = cycle["manual"]
  BY BeginFacts DEF MeterTick, Runs, MeterInv, MeterShape, MeterTypeOK
<1>3. SlotsKeep'
  <2> SUFFICES ASSUME NEW n \in MeterNs, NEW s \in 1..MaxSlot
               PROVE  BySched(n, s)' + ByHandRun(n, s)' <= BySched(n, s) + ByHandRun(n, s) + 0
    BY <1>1, NothingNewBilled DEF MeterInv, MeterShape, MeterTypeOK
  <2>1. ByHandRun(n, s)' = ByHandRun(n, s) /\ BySched(n, s)' <= BySched(n, s)
    BY <1>1, <1>2 DEF BySched, ByHandRun, Busy
  <2> QED
    BY <2>1 DEF BySched, ByHandRun
<1>4. WindowsFollow'
  BY <1>1, <1>2 DEF WindowsFollow, MeterInv, MeterShape, MeterTypeOK
<1>5. LeftOut("sched")'
  BY <1>2 DEF LeftOut
<1>6. PassedKept'
  BY <1>1 DEF PassedKept, MeterInv, Billed
<1>7. MeterTypeOK'
  BY <1>1 DEF MeterTypeOK, MeterInv, MeterShape
<1> QED
  BY <1>2, <1>3, <1>4, <1>5, <1>6, <1>7 DEF MeterInv, MeterShape

LEMMA ManualBilling == MeterInv /\ ManualRun => MeterInv'
<1> SUFFICES ASSUME MeterInv, ManualRun PROVE MeterInv'
  OBVIOUS
<1> USE MeteringAssumption
<1>1. /\ UNCHANGED <<slot, lastWindowEnd, nextTick, lagoSeen, meterDLQ, meterFailed, skippedSlots, meterLives>>
      /\ manualRuns < MaxManual /\ manualRuns' = manualRuns + 1
  BY DEF ManualRun
<1>2. PICK from \in 0..MaxSlot : Begin("manual", from, slot)
  BY DEF ManualRun, MeterInv, MeterShape, MeterTypeOK
<1>3. /\ DOMAIN cycle' = Runs /\ CycleTypes' /\ ~Busy("manual") /\ cycle'["sched"] = cycle["sched"]
  BY <1>2, BeginFacts DEF Runs, MeterInv, MeterShape, MeterTypeOK
<1>4. SlotsKeep'
  <2>1. (meterLives + manualRuns)' = meterLives + manualRuns + 1
    BY <1>1 DEF MeterInv, MeterShape, MeterTypeOK
  <2> SUFFICES ASSUME NEW n \in MeterNs, NEW s \in 1..MaxSlot
               PROVE  BySched(n, s)' + ByHandRun(n, s)' <= BySched(n, s) + ByHandRun(n, s) + 1
    BY <1>1, <2>1, NothingNewBilled
  <2>2. BySched(n, s)' = BySched(n, s) /\ ByHandRun(n, s)' \in {0, 1} /\ ByHandRun(n, s) = 0
    BY <1>1, <1>3 DEF BySched, ByHandRun, Busy
  <2> QED
    BY <2>2 DEF BySched
<1>5. WindowsFollow' /\ LeftOut("sched")'
  BY <1>1, <1>3 DEF WindowsFollow, LeftOut, MeterInv, Busy, Slots
<1>6. PassedKept'
  BY <1>1 DEF PassedKept, MeterInv, Billed
<1>7. MeterTypeOK'
  BY <1>1 DEF MeterTypeOK, MeterInv, MeterShape
<1> QED
  BY <1>3, <1>4, <1>5, <1>6, <1>7 DEF MeterInv, MeterShape

LEMMA RestartBilling == MeterInv /\ MeterRestart => MeterInv'
<1> SUFFICES ASSUME MeterInv, MeterRestart PROVE MeterInv'
  OBVIOUS
<1> USE MeteringAssumption
<1>1. /\ UNCHANGED <<slot, manualRuns, lagoSeen, meterDLQ, meterFailed, skippedSlots>> /\ meterLives = 1 /\ meterLives' = 2
      /\ nextTick' = slot /\ lastWindowEnd' \in 0..MaxSlot /\ lastWindowEnd' <= slot
  BY DEF MeterRestart, MeterInv, MeterShape, MeterTypeOK
<1>2. DOMAIN cycle' = Runs /\ \A r \in Runs : cycle'[r] = NoCycle
  BY DEF MeterRestart
<1>3. CycleTypes' /\ LeftOut("sched")' /\ WindowsFollow' /\ PassedKept'
  BY <1>1, <1>2 DEF CycleTypes, LeftOut, WindowsFollow, PassedKept, Busy, Runs, NoCycle
<1>4. SlotsKeep'
  <2>1. (meterLives + manualRuns)' = meterLives + manualRuns + 1
    BY <1>1 DEF MeterInv, MeterShape, MeterTypeOK
  <2> SUFFICES ASSUME NEW n \in MeterNs, NEW s \in 1..MaxSlot
               PROVE  BySched(n, s)' + ByHandRun(n, s)' <= BySched(n, s) + ByHandRun(n, s) + 1
    BY <1>1, <2>1, NothingNewBilled
  <2>2. BySched(n, s)' \in {0, 1} /\ ByHandRun(n, s)' = 0
    BY <1>2 DEF BySched, ByHandRun, Busy, Runs
  <2> QED
    BY <2>2 DEF BySched, ByHandRun
<1>5. MeterTypeOK'
  BY <1>1 DEF MeterTypeOK, MeterInv, MeterShape
<1> QED
  BY <1>2, <1>3, <1>4, <1>5 DEF MeterInv, MeterShape

LEMMA ClockBilling == MeterInv /\ MeterClock => MeterInv'
<1> SUFFICES ASSUME MeterInv, MeterClock PROVE MeterInv'
  OBVIOUS
<1>1. /\ UNCHANGED <<lastWindowEnd, nextTick, cycle, manualRuns, lagoSeen, meterDLQ, meterFailed, skippedSlots, meterLives>>
      /\ slot < MaxSlot /\ slot' = slot + 1
  BY DEF MeterClock
<1>2. DOMAIN cycle' = Runs /\ CycleTypes' /\ LeftOut("sched")' /\ PassedKept'
  BY <1>1 DEF CycleTypes, LeftOut, PassedKept, MeterInv, MeterShape, Slots, Billed
<1>3. SlotsKeep'
  BY <1>1 DEF SlotsKeep, MeterInv, Billed, BySched, ByHandRun, Busy
<1>4. MeterTypeOK'
  BY <1>1, MeteringAssumption DEF MeterTypeOK, MeterInv, MeterShape
<1>5. WindowsFollow'
  <2>1. Busy("sched") => cycle["sched"].to \in 0..MaxSlot
    BY PcShapes DEF MeterInv, Windows, Posts, Runs
  <2> QED
    BY <1>1, <2>1, MeteringAssumption DEF WindowsFollow, MeterInv, MeterShape, MeterTypeOK, Busy
<1> QED
  BY <1>2, <1>3, <1>4, <1>5 DEF MeterInv, MeterShape

LEMMA MeterKeeps == MeterInv /\ MeterNext => MeterInv'
<1> SUFFICES ASSUME MeterInv, MeterNext PROVE MeterInv'
  OBVIOUS
<1>1. CASE MeterTick \/ ManualRun \/ MeterRestart \/ MeterClock
  BY <1>1, TickBilling, ManualBilling, RestartBilling, ClockBilling
<1>2. ASSUME NEW r \in Runs, DiscoverNothing(r) PROVE MeterInv'
  <2>1. /\ cycle[r].pc = "discover" /\ NextBatch(r, {}, {})
        /\ skippedSlots' = skippedSlots \cup ((MeterNs \ {}) \X Slots(cycle[r]))
        /\ UNCHANGED <<slot, manualRuns, lagoSeen, meterDLQ, meterLives>>
    BY <1>2 DEF DiscoverNothing, NextBatch
  <2>2. {} \in SUBSET MeterNs
    OBVIOUS
  <2> QED
    BY <2>1, <2>2, CollectKeeps
<1>3. ASSUME NEW r \in Runs, Collect(r) PROVE MeterInv'
  <2>1. PICK found \in SUBSET MeterNs :
           /\ cycle[r].pc = "discover" /\ NextBatch(r, found, {})
           /\ skippedSlots' = skippedSlots \cup ((MeterNs \ found) \X Slots(cycle[r]))
           /\ UNCHANGED <<slot, manualRuns, lagoSeen, meterDLQ, meterLives>>
    BY <1>3 DEF Collect
  <2> QED
    BY <2>1, CollectKeeps
<1>4. ASSUME NEW r \in Runs, PostAccepted(r) PROVE MeterInv'
  <2>1. /\ cycle[r].pc = "post" /\ NextBatch(r, cycle[r].todo, cycle[r].failed)
        /\ Stored(r) /\ BatchOf(r) \subseteq lagoSeen' /\ meterDLQ' = meterDLQ
        /\ UNCHANGED <<slot, manualRuns, skippedSlots, meterLives>>
    BY <1>4 DEF PostAccepted, Stored
  <2>2. cycle[r] \in Posts /\ cycle[r].todo \in SUBSET MeterNs /\ cycle[r].failed \in SUBSET MeterNs
    BY <2>1, PcShapes DEF MeterInv, Posts
  <2>3. Goes(r, cycle[r].todo, cycle[r].failed)
    BY <2>1, <2>2, BatchesGo DEF MeterInv
  <2> QED
    BY <2>1, <2>2, <2>3, PostKeeps
<1>5. ASSUME NEW r \in Runs, PostRetried(r) PROVE MeterInv'
  <2>1. /\ cycle[r].pc = "post" /\ cycle' = [cycle EXCEPT ![r].attempt = @ + 1] /\ Stored(r)
        /\ UNCHANGED <<slot, lastWindowEnd, nextTick, manualRuns, meterDLQ, meterFailed, skippedSlots, meterLives>>
    BY <1>5 DEF PostRetried, Stored
  <2>2. /\ cycle[r] \in Posts /\ cycle[r].todo \in SUBSET MeterNs /\ cycle[r].batch \in SUBSET MeterNs
        /\ cycle[r].failed \in SUBSET MeterNs
    BY <2>1, PcShapes DEF MeterInv, Posts
  <2>3. PICK c : c = [cycle[r] EXCEPT !.attempt = @ + 1]
    OBVIOUS
  <2>4. /\ c \in Posts /\ c.from = cycle[r].from /\ c.to = cycle[r].to /\ c.batch = cycle[r].batch
        /\ c.todo = cycle[r].todo /\ c.failed = cycle[r].failed /\ c # NoCycle
    BY <2>2, <2>3 DEF Posts, NoCycle
  <2>5. DOMAIN cycle' = Runs /\ CycleTypes' /\ cycle'[r] = c /\ \A q \in Runs \ {r} : cycle'[q] = cycle[q]
    BY <2>1, <2>3, <2>4, ShapeKept DEF MeterInv
  <2>6. Goes(r, cycle[r].batch \cup cycle[r].todo, cycle[r].failed)
    BY <2>1, <2>4, <2>5 DEF Goes, CycleLeft
  <2>7. cycle[r].batch \cup cycle[r].todo \in SUBSET MeterNs
    BY <2>2
  <2> QED
    BY <2>1, <2>2, <2>6, <2>7, PostKeeps
<1>6. ASSUME NEW r \in Runs, PostGivenUp(r) PROVE MeterInv'
  <2>1. /\ cycle[r].pc = "post" /\ NextBatch(r, cycle[r].todo, cycle[r].failed \cup cycle[r].batch)
        /\ Stored(r) /\ meterDLQ' \in {meterDLQ, meterDLQ \cup BatchOf(r)}
        /\ UNCHANGED <<slot, manualRuns, skippedSlots, meterLives>>
    BY <1>6 DEF PostGivenUp, Stored
  <2>2. cycle[r] \in Posts /\ cycle[r].todo \in SUBSET MeterNs /\ cycle[r].failed \cup cycle[r].batch \in SUBSET MeterNs
    BY <2>1, PcShapes DEF MeterInv, Posts
  <2>3. Goes(r, cycle[r].todo, cycle[r].failed \cup cycle[r].batch)
    BY <2>1, <2>2, BatchesGo DEF MeterInv
  <2> QED
    BY <2>1, <2>2, <2>3, PostKeeps
<1> QED
  BY <1>1, <1>2, <1>3, <1>4, <1>5, <1>6 DEF MeterNext

\* The two statements about usage.
LEMMA MeterImplies == MeterInv => UsageIsBilled /\ MeterTypeOK
<1> SUFFICES ASSUME MeterInv PROVE UsageIsBilled /\ MeterTypeOK
  OBVIOUS
<1>1. \A n, s : Counted(n, s) = Cardinality(Billed(n, s))
  BY DEF Counted, Billed
<1>2. \A n \in MeterNs, s \in 1..MaxSlot : IsFiniteSet(Billed(n, s)) /\ Cardinality(Billed(n, s)) \in Nat
  BY FS_CardinalityType DEF MeterInv, SlotsKeep
<1>3. meterLives + manualRuns \in Nat /\ lastWindowEnd \in 0..MaxSlot
  BY MeteringAssumption DEF MeterInv, MeterShape, MeterTypeOK
<1>4. BilledOncePerLifeAndRun
  <2> SUFFICES ASSUME NEW n \in MeterNs, NEW s \in 1..MaxSlot
               PROVE  Counted(n, s) <= meterLives + manualRuns
    BY DEF BilledOncePerLifeAndRun
  <2>1. Cardinality(Billed(n, s)) + BySched(n, s) + ByHandRun(n, s) <= meterLives + manualRuns
    BY DEF MeterInv, SlotsKeep
  <2> QED
    BY <1>1, <1>2, <1>3, <2>1 DEF BySched, ByHandRun
<1>5. NothingLostInSilence
  <2> SUFFICES ASSUME meterLives = 1, NEW n \in MeterNs, NEW s \in 1..lastWindowEnd
               PROVE  \/ Counted(n, s) > 0
                      \/ \E x \in meterFailed : x.ns = n /\ x.from < s /\ s <= x.to
                      \/ <<n, s>> \in skippedSlots
    BY DEF NothingLostInSilence
  <2>1. s \in 1..MaxSlot
    BY <1>3, MeteringAssumption
  <2>2. Billed(n, s) # {} => Counted(n, s) > 0
    BY <1>1, <1>2, <2>1, FS_EmptySet
  <2> QED
    BY <2>2 DEF MeterInv, PassedKept, Covers
<1> QED
  BY <1>4, <1>5 DEF UsageIsBilled, MeterInv, MeterShape

-----------------------------------------------------------------------------
(* From a push to a rollout: a pipeline that waits untouched waits for its *)
(* own template, the newest there is; available pods are of a template     *)
(* that came up; and with a single build there is one template only.       *)

Tmpls       == [img : Pushes \cup {0}, full : BOOLEAN]
BldPcs      == {"none", "wait", "deploy", "rollout", "notify", "tell", "done", "lost"}
BldStatuses == {"none", "building", "deploying", "success", "failed"}
Blds        == [pc : BldPcs, status : BldStatuses, touched : BOOLEAN]

BldTypes == bld \in [Pushes -> Blds]

MonTypes ==
    /\ mon \in [Pushes -> [pc : {"none", "watch", "stable", "undo", "done"}, polls : 0..MaxPolls, healthy : 0..3]]
    /\ \A p \in Pushes : mon[p].pc \in {"none", "watch"} => mon[p].healthy <= 2

UndoTypes ==
    /\ undo = [u \in Undoers |-> undo[u]]
    /\ \A u \in Undoers : undo[u].pc = "patch" => undo[u].img \in Pushes \cup {0}

KubeTypes == tmpl \in Tmpls /\ serving \in Tmpls /\ up \in BOOLEAN /\ rs \in Seq(Tmpls)

Set(t)    == \E i \in DOMAIN rs : rs[i] = t
Newest(t) == rs # <<>> /\ rs[Len(rs)] = t

WaitInv    == \A p \in Pushes : bld[p].pc = "rollout" /\ ~bld[p].touched => tmpl = FullTmpl(p) /\ Newest(tmpl)
FreshInv   == \A p \in Pushes : bld[p].pc \in {"none", "wait", "deploy"} => ~Set(FullTmpl(p))
PodsInv    ==
    /\ Set(tmpl) \/ (tmpl = NoTmpl /\ serving = NoTmpl)
    /\ up \/ serving # NoTmpl => Set(serving) /\ serving.img \in served
NotifyInv  == \A p \in Pushes : bld[p].pc = "notify" => bld[p].status = "success"
ServingInv == serving.full => serving.img \in served \cap sound

Begun == {p \in Pushes : bld[p].pc # "none"}
Lone  == \A p, q \in Begun : p = q
LoneInv ==
    Lone => /\ tmpl = NoTmpl \/ \E p \in Begun : tmpl = FullTmpl(p)
            /\ \A i \in DOMAIN rs : rs[i] = tmpl /\ tmpl # NoTmpl
            /\ \A u \in Undoers : undo[u].pc # "patch"

PipeInv ==
    /\ BldTypes /\ MonTypes /\ UndoTypes /\ KubeTypes /\ scaled \in ScalePlans \cup {NoScale}
    /\ scaleTimers \subseteq ScalePlans /\ planLabel \in ScalePlans
    /\ WaitInv /\ FreshInv /\ PodsInv /\ NotifyInv /\ ServingInv /\ SuccessMeansServed /\ LoneInv

-----------------------------------------------------------------------------
LEMMA PipeStarts == PipeInit => PipeInv
<1> SUFFICES ASSUME PipeInit PROVE PipeInv
  OBVIOUS
<1>0. /\ \A p \in Pushes : bld[p].pc = "none" /\ bld[p].status = "none"
      /\ ~serving.full
  BY DEF PipeInit, NoTmpl
<1>a. BldTypes
  BY DEF PipeInit, BldTypes, Blds, BldPcs, BldStatuses
<1>b. KubeTypes
  <2>1. NoTmpl \in Tmpls
    BY DEF Tmpls, NoTmpl
  <2>2. <<>> \in Seq(Tmpls)
    OBVIOUS
  <2>3. tmpl = NoTmpl /\ serving = NoTmpl /\ up = FALSE /\ rs = <<>>
    BY DEF PipeInit
  <2> HIDE DEF Tmpls, NoTmpl
  <2> QED
    BY <2>1, <2>2, <2>3 DEF KubeTypes
<1>1. BldTypes /\ KubeTypes /\ WaitInv /\ NotifyInv /\ ServingInv /\ SuccessMeansServed
  BY <1>0, <1>a, <1>b DEF WaitInv, NotifyInv, ServingInv, SuccessMeansServed
<1>c. FreshInv /\ PodsInv
  BY DEF PipeInit, FreshInv, PodsInv, Set
<1>2. MonTypes
  BY OpsPipelineAssumption DEF PipeInit, MonTypes
<1>3. UndoTypes /\ LoneInv
  BY DEF PipeInit, UndoTypes, LoneInv, NoTmpl
<1> QED
  BY <1>1, <1>2, <1>3, <1>c DEF PipeInit, PipeInv, NoScale

\* One build goes on.
LEMMA BuildFacts ==
    ASSUME BldTypes, NEW p \in Pushes, NEW pc \in BldPcs, NEW st \in BldStatuses, Build(p, pc, st)
    PROVE  /\ BldTypes' /\ bld'[p].pc = pc /\ bld'[p].status = st /\ bld'[p].touched = bld[p].touched
           /\ \A q \in Pushes \ {p} : bld'[q] = bld[q]
<1>1. bld' = [bld EXCEPT ![p] = [[bld[p] EXCEPT !.pc = pc] EXCEPT !.status = st]]
  BY DEF Build, BldTypes
<1>2. PICK b \in Blds : b = bld[p]
  BY DEF BldTypes
<1>3. /\ [[b EXCEPT !.pc = pc] EXCEPT !.status = st] \in Blds
      /\ [[b EXCEPT !.pc = pc] EXCEPT !.status = st].pc = pc
      /\ [[b EXCEPT !.pc = pc] EXCEPT !.status = st].status = st
      /\ [[b EXCEPT !.pc = pc] EXCEPT !.status = st].touched = b.touched
  BY DEF Blds
<1> QED
  BY <1>1, <1>2, <1>3 DEF BldTypes

\* Steps of one build that leave the cluster alone: they may not forget that a
\* build began, and one that waits or tells of success got there as it should.
LEMMA BuildKeeps ==
    ASSUME PipeInv, NEW p \in Pushes, NEW pc \in BldPcs \ {"none", "rollout"}, NEW st \in BldStatuses, Build(p, pc, st),
           UNCHANGED <<sound, kubeVars, watchVars, scaleVars>>,
           pc = "notify" => st = "success",
           pc \in {"wait", "deploy"} => bld[p].pc \in {"none", "wait"},
           st = "success" => bld[p].status = "success" \/ (bld[p].pc = "rollout" /\ up)
    PROVE  PipeInv'
<1>1. /\ BldTypes /\ MonTypes /\ UndoTypes /\ KubeTypes /\ scaled \in ScalePlans \cup {NoScale}
      /\ scaleTimers \subseteq ScalePlans /\ planLabel \in ScalePlans
      /\ WaitInv /\ FreshInv /\ PodsInv /\ NotifyInv /\ ServingInv /\ SuccessMeansServed /\ LoneInv
  BY DEF PipeInv
<1>2. /\ BldTypes' /\ bld'[p].pc = pc /\ bld'[p].status = st /\ bld'[p].touched = bld[p].touched
      /\ \A q \in Pushes \ {p} : bld'[q] = bld[q]
  BY <1>1, BuildFacts
<1>3. /\ UNCHANGED <<sound, tmpl, serving, up, rs, served, mon, undo, scaled, planLabel, scaleTimers>>
  BY DEF kubeVars, watchVars, scaleVars
<1>4. WaitInv' /\ FreshInv' /\ PodsInv' /\ NotifyInv' /\ ServingInv'
  <2>1. FreshInv'
    <3> SUFFICES ASSUME NEW q \in Pushes, bld'[q].pc \in {"none", "wait", "deploy"} PROVE ~Set(FullTmpl(q))
      BY <1>3 DEF FreshInv, Set
    <3>1. bld[q].pc \in {"none", "wait", "deploy"}
      BY <1>2
    <3> QED
      BY <1>1, <3>1 DEF FreshInv
  <2>2. WaitInv'
    BY <1>1, <1>2, <1>3 DEF WaitInv, Newest
  <2>3. PodsInv'
    BY <1>1, <1>3 DEF PodsInv, Set
  <2> QED
    BY <1>1, <1>2, <1>3, <2>1, <2>2, <2>3 DEF NotifyInv, ServingInv
<1>5. SuccessMeansServed'
  <2>1. ASSUME bld[p].pc = "rollout", up, ~bld[p].touched
        PROVE  \/ p \in served \cap sound
               \/ \E i, j \in DOMAIN rs : i < j /\ rs[j] = FullTmpl(p) /\ rs[i].img \in served
    <3>1. /\ rs # <<>> /\ rs[Len(rs)] = FullTmpl(p) /\ Set(serving) /\ serving.img \in served
          /\ rs \in Seq(Tmpls)
      BY <1>1, <2>1 DEF WaitInv, Newest, PodsInv, KubeTypes
    <3>2. PICK i \in DOMAIN rs : rs[i] = serving
      BY <3>1 DEF Set
    <3>3. i \in Nat /\ Len(rs) \in DOMAIN rs /\ i <= Len(rs)
      BY <3>1, <3>2
    <3>4. CASE i = Len(rs)
      BY <1>1, <3>1, <3>2, <3>4 DEF ServingInv, FullTmpl
    <3>5. CASE i < Len(rs)
      BY <3>1, <3>2, <3>3, <3>5
    <3> QED
      BY <3>3, <3>4, <3>5
  <2> QED
    BY <1>1, <1>2, <1>3, <2>1 DEF SuccessMeansServed
<1>6. LoneInv'
  <2>1. Begun \subseteq Begun'
    BY <1>2 DEF Begun
  <2>2. Lone' => Lone
    BY <2>1 DEF Lone
  <2> QED
    BY <1>1, <1>3, <2>1, <2>2 DEF LoneInv
<1> QED
  BY <1>1, <1>2, <1>3, <1>4, <1>5, <1>6 DEF PipeInv, MonTypes, UndoTypes, KubeTypes

-----------------------------------------------------------------------------
\* A template in the Deployment, set for a build or by a rollback.
LEMMA TemplateFacts ==
    ASSUME PipeInv, NEW t \in Tmpls, NEW by, SetTemplate(t, by), UNCHANGED <<sound, serving, up, served>>,
           \/ by \in Pushes /\ t = FullTmpl(by) /\ bld[by].pc = "deploy"
           \/ by \notin Pushes /\ ~t.full
    PROVE  /\ BldTypes' /\ tmpl' \in Tmpls /\ rs' \in Seq(Tmpls)
           /\ WaitInv' /\ FreshInv' /\ PodsInv' /\ NotifyInv' /\ SuccessMeansServed'
           /\ \A p \in Pushes : bld[p].pc # "none" \/ p = by => bld'[p].pc # "none"
           /\ \A i \in DOMAIN rs' : rs'[i] = t \/ (i \in DOMAIN rs /\ rs'[i] = rs[i])
<1>1. BldTypes /\ KubeTypes /\ WaitInv /\ FreshInv /\ PodsInv /\ NotifyInv /\ SuccessMeansServed
  BY DEF PipeInv
<1>2. /\ tmpl' = t /\ rs' = IF Contains(rs, t) THEN rs ELSE Append(rs, t)
      /\ bld' = [p \in Pushes |->
          IF p = by THEN [bld[p] EXCEPT !.pc = "rollout"]
          ELSE IF bld[p].pc \in {"rollout", "notify"} /\ t # tmpl
               THEN [bld[p] EXCEPT !.touched = TRUE] ELSE bld[p]]
  BY DEF SetTemplate
<1>3. \A b \in Blds : /\ [b EXCEPT !.pc = "rollout"] \in Blds /\ [b EXCEPT !.pc = "rollout"].pc = "rollout"
                      /\ [b EXCEPT !.pc = "rollout"].status = b.status
                      /\ [b EXCEPT !.pc = "rollout"].touched = b.touched
                      /\ [b EXCEPT !.touched = TRUE] \in Blds /\ [b EXCEPT !.touched = TRUE].touched = TRUE
                      /\ [b EXCEPT !.touched = TRUE].pc = b.pc /\ [b EXCEPT !.touched = TRUE].status = b.status
  BY DEF Blds, BldPcs
<1>4. \A p \in Pushes : /\ bld'[p] \in Blds /\ bld'[p].status = bld[p].status
                        /\ bld'[p].pc = IF p = by THEN "rollout" ELSE bld[p].pc
                        /\ ~bld'[p].touched => ~bld[p].touched
                        /\ ~bld'[p].touched /\ p # by /\ bld'[p].pc = "rollout" => t = tmpl
  BY <1>1, <1>2, <1>3 DEF BldTypes, Blds
<1>5. BldTypes'
  BY <1>2, <1>4 DEF BldTypes
<1>6. /\ rs \in Seq(Tmpls) /\ rs' \in Seq(Tmpls)
      /\ \A i \in DOMAIN rs : i \in DOMAIN rs' /\ rs'[i] = rs[i]
      /\ \A i \in DOMAIN rs' : rs'[i] = t \/ (i \in DOMAIN rs /\ rs'[i] = rs[i])
  BY <1>1, <1>2 DEF KubeTypes
<1>7. rs' = IF Set(t) THEN rs ELSE Append(rs, t)
  BY <1>2, <1>6 DEF Contains, Set
<1>8. Set(t)' /\ \A x : Set(x) => Set(x)'
  <2>1. Append(rs, t)[Len(rs) + 1] = t /\ Len(rs) + 1 \in DOMAIN Append(rs, t)
    BY <1>6
  <2> QED
    BY <1>6, <1>7, <2>1 DEF Set
<1>9. FreshInv'
  <2> SUFFICES ASSUME NEW p \in Pushes, bld'[p].pc \in {"none", "wait", "deploy"}, Set(FullTmpl(p))'
               PROVE  FALSE
    BY DEF FreshInv
  <2>1. p # by /\ bld[p].pc \in {"none", "wait", "deploy"}
    BY <1>4
  <2>2. FullTmpl(p) # t
    BY <2>1 DEF FullTmpl
  <2>3. Set(FullTmpl(p))
    BY <1>6, <2>2 DEF Set
  <2> QED
    BY <1>1, <2>1, <2>3 DEF FreshInv
<1>10. WaitInv'
  <2> SUFFICES ASSUME NEW p \in Pushes, bld'[p].pc = "rollout", ~bld'[p].touched
               PROVE  t = FullTmpl(p) /\ rs' # <<>> /\ rs'[Len(rs')] = t
    BY <1>2 DEF WaitInv, Newest
  <2>1. CASE p = by
    <3>1. t = FullTmpl(p) /\ ~Set(t)
      BY <1>1, <2>1 DEF FreshInv
    <3> QED
      BY <1>6, <1>7, <3>1
  <2>2. CASE p # by
    <3>1. t = tmpl /\ bld[p].pc = "rollout" /\ ~bld[p].touched
      BY <1>4, <2>2
    <3>2. t = FullTmpl(p) /\ rs # <<>> /\ rs[Len(rs)] = t
      BY <1>1, <3>1 DEF WaitInv, Newest
    <3>3. Set(t)
      BY <1>6, <3>2 DEF Set
    <3> QED
      BY <1>7, <3>2, <3>3
  <2> QED
    BY <2>1, <2>2
<1>11. PodsInv' /\ NotifyInv'
  BY <1>1, <1>2, <1>4, <1>8 DEF PodsInv, NotifyInv
<1>12. SuccessMeansServed'
  <2> SUFFICES ASSUME NEW p \in Pushes, bld'[p].status = "success", ~bld'[p].touched
               PROVE  \/ p \in served \cap sound
                      \/ \E i, j \in DOMAIN rs' : i < j /\ rs'[j] = FullTmpl(p) /\ rs'[i].img \in served
    BY DEF SuccessMeansServed
  <2>1. bld[p].status = "success" /\ ~bld[p].touched
    BY <1>4
  <2> QED
    BY <1>1, <1>6, <2>1 DEF SuccessMeansServed
<1> QED
  BY <1>2, <1>4, <1>5, <1>6, <1>9, <1>10, <1>11, <1>12

LEMMA DeployKeeps ==
    ASSUME PipeInv, NEW p \in Pushes, DeployToK8s(p)
    PROVE  PipeInv'
<1>1. /\ MonTypes /\ UndoTypes /\ KubeTypes /\ scaled \in ScalePlans \cup {NoScale}
      /\ scaleTimers \subseteq ScalePlans /\ planLabel \in ScalePlans /\ ServingInv /\ LoneInv
      /\ BldTypes
  BY DEF PipeInv
<1>2. /\ bld[p].pc = "deploy" /\ SetTemplate(FullTmpl(p), p)
      /\ UNCHANGED <<sound, serving, up, served, mon, undo, scaled, planLabel, scaleTimers>>
  BY DEF DeployToK8s, watchVars, scaleVars
<1>3. FullTmpl(p) \in Tmpls /\ tmpl' = FullTmpl(p)
  BY <1>2 DEF FullTmpl, Tmpls, SetTemplate
<1>4. /\ BldTypes' /\ tmpl' \in Tmpls /\ rs' \in Seq(Tmpls)
      /\ WaitInv' /\ FreshInv' /\ PodsInv' /\ NotifyInv' /\ SuccessMeansServed'
      /\ \A q \in Pushes : bld[q].pc # "none" \/ q = p => bld'[q].pc # "none"
      /\ \A i \in DOMAIN rs' : rs'[i] = FullTmpl(p) \/ (i \in DOMAIN rs /\ rs'[i] = rs[i])
  BY <1>2, <1>3, TemplateFacts
<1>5. LoneInv'
  <2> SUFFICES ASSUME Lone'
               PROVE  /\ tmpl' = NoTmpl \/ \E q \in Begun' : tmpl' = FullTmpl(q)
                      /\ \A i \in DOMAIN rs' : rs'[i] = tmpl' /\ tmpl' # NoTmpl
                      /\ \A u \in Undoers : undo'[u].pc # "patch"
    BY DEF LoneInv
  <2>1. Begun \subseteq Begun' /\ p \in Begun'
    BY <1>4 DEF Begun
  <2>2. Lone /\ \A q \in Begun : q = p
    BY <2>1 DEF Lone
  <2>3. FullTmpl(p) # NoTmpl
    BY DEF FullTmpl, NoTmpl
  <2>4. \A i \in DOMAIN rs : rs[i] = FullTmpl(p)
    BY <1>1, <2>2 DEF LoneInv
  <2> QED
    BY <1>1, <1>2, <1>3, <1>4, <2>1, <2>2, <2>3, <2>4 DEF LoneInv
<1> QED
  BY <1>1, <1>2, <1>4, <1>5 DEF PipeInv, MonTypes, UndoTypes, KubeTypes, ServingInv

\* A rollback has patched, or is over.
LEMMA UndoEndFacts ==
    ASSUME UndoTypes, NEW u \in Undoers, UndoEnds(u) \/ undo' = [undo EXCEPT ![u] = [pc |-> "done"]]
    PROVE  /\ UndoTypes' /\ undo'[u].pc # "patch" /\ \A v \in Undoers \ {u} : undo'[v] = undo[v]
<1>1. PICK pc \in {"done", "mail"} : undo' = [undo EXCEPT ![u] = [pc |-> pc]]
  BY DEF UndoEnds
<1>2. undo'[u] = [pc |-> pc] /\ \A v \in Undoers \ {u} : undo'[v] = undo[v]
  BY <1>1 DEF UndoTypes
<1>3. undo'[u].pc # "patch"
  BY <1>2
<1> QED
  BY <1>1, <1>2, <1>3 DEF UndoTypes

LEMMA UndoKeeps ==
    ASSUME PipeInv, NEW u \in Undoers, RollbackPatch(u)
    PROVE  PipeInv'
<1>1. /\ MonTypes /\ UndoTypes /\ KubeTypes /\ scaled \in ScalePlans \cup {NoScale}
      /\ scaleTimers \subseteq ScalePlans /\ planLabel \in ScalePlans /\ ServingInv /\ LoneInv /\ BldTypes
  BY DEF PipeInv
<1> DEFINE t == [img |-> undo[u].img, full |-> FALSE]
<1>2. /\ undo[u].pc = "patch" /\ SetTemplate(t, -1) /\ UndoEnds(u)
      /\ UNCHANGED <<sound, serving, up, served, mon, scaled, planLabel, scaleTimers>>
  BY DEF RollbackPatch, scaleVars
<1>3. t \in Tmpls /\ -1 \notin Pushes /\ ~t.full
  BY <1>1, <1>2, OpsPipelineAssumption DEF Tmpls, UndoTypes
<1>4. /\ BldTypes' /\ tmpl' \in Tmpls /\ rs' \in Seq(Tmpls)
      /\ WaitInv' /\ FreshInv' /\ PodsInv' /\ NotifyInv' /\ SuccessMeansServed'
      /\ \A q \in Pushes : bld[q].pc # "none" => bld'[q].pc # "none"
  BY <1>2, <1>3, TemplateFacts
<1>5. UndoTypes'
  BY <1>1, <1>2, UndoEndFacts
<1>6. ~Lone'
  <2>1. ~Lone
    BY <1>1, <1>2 DEF LoneInv
  <2>2. Begun \subseteq Begun'
    BY <1>4 DEF Begun
  <2> QED
    BY <2>1, <2>2 DEF Lone
<1> QED
  BY <1>1, <1>2, <1>4, <1>5, <1>6 DEF PipeInv, MonTypes, KubeTypes, ServingInv, LoneInv

-----------------------------------------------------------------------------
\* What Kubernetes and the process of the builds do by themselves.
LEMMA KubeKeeps ==
    ASSUME PipeInv, RolloutCompletes \/ PodsChange
    PROVE  PipeInv'
<1>1. /\ UNCHANGED <<sound, bld, tmpl, rs, mon, undo, scaled, planLabel, scaleTimers>>
  BY DEF RolloutCompletes, PodsChange, watchVars, scaleVars
<1>2. /\ served \subseteq served' /\ serving' \in Tmpls /\ up' \in BOOLEAN /\ ServingInv'
  BY <1>1 DEF RolloutCompletes, PodsChange, PipeInv, KubeTypes, ServingInv
<1>3. PodsInv'
  BY <1>1 DEF RolloutCompletes, PodsChange, PipeInv, PodsInv, Set
<1>4. WaitInv' /\ FreshInv'
  BY <1>1 DEF PipeInv, WaitInv, FreshInv, Newest, Set
<1>5. SuccessMeansServed'
  BY <1>1, <1>2 DEF PipeInv, SuccessMeansServed
<1> QED
  BY <1>1, <1>2, <1>3, <1>4, <1>5 DEF PipeInv, BldTypes, MonTypes, UndoTypes, KubeTypes, NotifyInv, LoneInv, Lone, Begun

LEMMA BuildRestartKeeps ==
    ASSUME PipeInv, BuildDeployRestart
    PROVE  PipeInv'
<1>1. /\ BldTypes /\ MonTypes /\ UndoTypes /\ KubeTypes /\ ServingInv /\ LoneInv
      /\ UNCHANGED <<sound, tmpl, serving, up, rs, served, mon, undo, scaled, planLabel, scaleTimers>>
      /\ bld' = [p \in Pushes |-> IF bld[p].pc = "none" THEN bld[p]
                                  ELSE [bld[p] EXCEPT !.pc = "lost", !.status = "none"]]
  BY DEF PipeInv, BuildDeployRestart, kubeVars, watchVars, scaleVars
<1>2. \A b \in Blds : /\ [b EXCEPT !.pc = "lost", !.status = "none"] \in Blds
                      /\ [b EXCEPT !.pc = "lost", !.status = "none"].pc = "lost"
                      /\ [b EXCEPT !.pc = "lost", !.status = "none"].status = "none"
  BY DEF Blds, BldPcs, BldStatuses
<1>3. \A p \in Pushes : /\ bld'[p] \in Blds /\ (bld[p].pc = "none" <=> bld'[p].pc = "none")
                        /\ bld'[p] = bld[p] \/ (bld'[p].pc = "lost" /\ bld'[p].status = "none")
  BY <1>1, <1>2 DEF BldTypes
<1>4. BldTypes'
  BY <1>1, <1>3 DEF BldTypes
<1>5. WaitInv' /\ FreshInv' /\ PodsInv' /\ NotifyInv' /\ SuccessMeansServed'
  BY <1>1, <1>3 DEF PipeInv, WaitInv, FreshInv, PodsInv, Newest, Set, NotifyInv, SuccessMeansServed
<1>6. Begun' = Begun
  BY <1>3 DEF Begun
<1>7. LoneInv'
  BY <1>1, <1>6 DEF LoneInv, Lone
<1> QED
  BY <1>1, <1>4, <1>5, <1>7 DEF PipeInv, MonTypes, UndoTypes, KubeTypes, ServingInv

\* The monitors and the rollbacks decided on: with a single build there is no
\* template to return to.
LEMMA ListFacts ==
    ASSUME PipeInv, NEW u \in Undoers, RollbackList(u)
    PROVE  UndoTypes' /\ (Lone => \A v \in Undoers : undo'[v].pc # "patch")
<1>1. UndoTypes /\ KubeTypes /\ LoneInv
  BY DEF PipeInv
<1>2. CASE UndoEnds(u)
  <2>2. UndoTypes' /\ undo'[u].pc # "patch" /\ \A v \in Undoers \ {u} : undo'[v] = undo[v]
    BY <1>1, <1>2, UndoEndFacts
  <2> QED
    BY <1>1, <2>2 DEF LoneInv
<1>3. ASSUME NEW i \in ScaledDown, undo' = [undo EXCEPT ![u] = [pc |-> "patch", img |-> rs[i].img]]
      PROVE  UndoTypes' /\ ~Lone
  <2>1. i \in DOMAIN rs /\ rs[i] # tmpl /\ rs[i] \in Tmpls
    BY <1>1, <1>3 DEF ScaledDown, KubeTypes
  <2>2. ~Lone
    BY <1>1, <2>1 DEF LoneInv
  <2>3. rs[i].img \in Pushes \cup {0}
    BY <2>1 DEF Tmpls
  <2>4. UndoTypes'
    BY <1>1, <1>3, <2>3 DEF UndoTypes
  <2> QED
    BY <2>2, <2>4
<1> QED
  BY <1>2, <1>3 DEF RollbackList

LEMMA MonitorKeeps ==
    ASSUME PipeInv, UNCHANGED <<sound, bld, kubeVars, scaleVars>>, MonTypes', UndoTypes',
           Lone => \A u \in Undoers : undo'[u].pc # "patch"
    PROVE  PipeInv'
<1>1. UNCHANGED <<sound, bld, tmpl, serving, up, rs, served, scaled, planLabel, scaleTimers>>
  BY DEF kubeVars, scaleVars
<1> QED
  BY <1>1 DEF PipeInv, BldTypes, KubeTypes, WaitInv, FreshInv, PodsInv, Newest, Set, NotifyInv, ServingInv,
              SuccessMeansServed, LoneInv, Lone, Begun

LEMMA MonitorTypes ==
    ASSUME MonTypes, NEW p \in Pushes, NEW pc \in {"watch", "stable", "undo", "done"}, Monitor(p, pc),
           pc = "watch" => mon[p].healthy <= 2
    PROVE  MonTypes'
<1>1. mon' = [mon EXCEPT ![p] = [mon[p] EXCEPT !.pc = pc]]
  BY DEF Monitor, MonTypes
<1>2. PICK m \in [pc : {"none", "watch", "stable", "undo", "done"}, polls : 0..MaxPolls, healthy : 0..3] : m = mon[p]
  BY DEF MonTypes
<1>3. /\ [m EXCEPT !.pc = pc] \in [pc : {"none", "watch", "stable", "undo", "done"}, polls : 0..MaxPolls, healthy : 0..3]
      /\ [m EXCEPT !.pc = pc].pc = pc /\ [m EXCEPT !.pc = pc].healthy = m.healthy
  OBVIOUS
<1> QED
  BY <1>1, <1>2, <1>3 DEF MonTypes

LEMMA WatchKeeps ==
    ASSUME PipeInv,
           \/ RollbackByHand
           \/ \E p \in Pushes : MonitorStart(p) \/ MonitorPoll(p) \/ MonitorDeadline(p) \/ RollbackReported(p)
           \/ \E u \in Undoers : RollbackFails(u)
    PROVE  PipeInv'
<1>1. MonTypes /\ UndoTypes /\ LoneInv /\ Pushes \subseteq Undoers /\ ByHand \in Undoers
  BY DEF PipeInv, Undoers
<1>2. UNCHANGED <<sound, bld, kubeVars, scaleVars>>
  BY DEF RollbackByHand, MonitorStart, MonitorPoll, MonitorDeadline, RollbackReported, RollbackFails
<1>3. CASE RollbackByHand
  BY <1>1, <1>2, <1>3, ListFacts, MonitorKeeps DEF RollbackByHand, MonTypes
<1>4. ASSUME NEW p \in Pushes, MonitorStart(p) PROVE PipeInv'
  <2>1. mon[p].pc = "none" /\ Monitor(p, "watch") /\ undo' = undo
    BY <1>4 DEF MonitorStart
  <2>2. MonTypes'
    <3>1. mon[p].healthy <= 2
      BY <1>1, <2>1 DEF MonTypes
    <3> QED
      BY <1>1, <2>1, <3>1, MonitorTypes
  <2>3. UndoTypes' /\ (Lone => \A u \in Undoers : undo'[u].pc # "patch")
    BY <1>1, <2>1 DEF UndoTypes, LoneInv
  <2> QED
    BY <1>2, <2>2, <2>3, MonitorKeeps
<1>5. ASSUME NEW p \in Pushes, MonitorPoll(p) PROVE PipeInv'
  <2>1. /\ mon[p].pc = "watch" /\ mon[p].polls < MaxPolls /\ undo' = undo
        /\ \E n \in {mon[p].healthy + 1, 0} :
              mon' = [mon EXCEPT ![p] = [pc |-> IF n = 3 THEN "stable" ELSE "watch",
                                         polls |-> mon[p].polls + 1, healthy |-> n]]
    BY <1>5 DEF MonitorPoll
  <2>2. mon[p].healthy \in 0..2 /\ mon[p].polls + 1 \in 0..MaxPolls
    BY <1>1, <2>1, OpsPipelineAssumption DEF MonTypes
  <2>3. MonTypes'
    BY <1>1, <2>1, <2>2 DEF MonTypes
  <2> QED
    BY <1>1, <1>2, <2>1, <2>3, MonitorKeeps DEF UndoTypes, LoneInv
<1>6. ASSUME NEW p \in Pushes, MonitorDeadline(p) PROVE PipeInv'
  <2>1. Monitor(p, "undo") /\ RollbackList(p)
    BY <1>6 DEF MonitorDeadline
  <2>2. MonTypes'
    BY <1>1, <2>1, MonitorTypes
  <2> QED
    BY <1>1, <1>2, <2>1, <2>2, ListFacts, MonitorKeeps
<1>7. ASSUME NEW u \in Undoers, RollbackFails(u) \/ (u \in Pushes /\ RollbackReported(u)) PROVE PipeInv'
  <2>1. /\ undo' = [undo EXCEPT ![u] = [pc |-> "done"]]
        /\ mon' = mon \/ (u \in Pushes /\ Monitor(u, "done"))
    BY <1>7 DEF RollbackFails, RollbackReported, Undoers
  <2>2. UndoTypes' /\ undo'[u].pc # "patch" /\ \A v \in Undoers \ {u} : undo'[v] = undo[v]
    BY <1>1, <2>1, UndoEndFacts
  <2>3. MonTypes'
    BY <1>1, <2>1, MonitorTypes DEF MonTypes
  <2> QED
    BY <1>1, <1>2, <2>2, <2>3, MonitorKeeps DEF LoneInv
<1> QED
  BY <1>1, <1>3, <1>4, <1>5, <1>6, <1>7

LEMMA PipeKeeps == PipeInv /\ PipeNext => PipeInv'
<1> SUFFICES ASSUME PipeInv, PipeNext PROVE PipeInv'
  OBVIOUS
<1>1. ASSUME NEW p \in Pushes,
             \/ PushWebhook(p) \/ BuildJobDone(p) \/ RolloutSeen(p) \/ NotifySuccess(p)
             \/ PipelineFails(p) \/ NotifyFailure(p)
      PROVE  PipeInv'
  <2>1. UNCHANGED <<sound, kubeVars, watchVars, scaleVars>>
    BY <1>1 DEF PushWebhook, BuildJobDone, RolloutSeen, NotifySuccess, PipelineFails, NotifyFailure
  <2>2. PICK pc \in BldPcs \ {"none", "rollout"}, st \in BldStatuses :
           /\ Build(p, pc, st) /\ (pc = "notify" => st = "success")
           /\ pc \in {"wait", "deploy"} => bld[p].pc \in {"none", "wait"}
           /\ st = "success" => bld[p].pc = "notify" \/ (bld[p].pc = "rollout" /\ up)
    BY <1>1 DEF PushWebhook, BuildJobDone, RolloutSeen, RolledOut, NotifySuccess, PipelineFails, NotifyFailure, BldPcs, BldStatuses
  <2>3. bld[p].pc = "notify" => bld[p].status = "success"
    BY DEF PipeInv, NotifyInv
  <2> QED
    BY <2>1, <2>2, <2>3, BuildKeeps
<1> QED
  BY <1>1, DeployKeeps, UndoKeeps, KubeKeeps, BuildRestartKeeps, WatchKeeps DEF PipeNext

\* The scaler knows the plans of its table only.
LEMMA ScaleKeeps == PipeInv /\ ScaleNext => PipeInv'
<1> SUFFICES ASSUME PipeInv, ScaleNext PROVE PipeInv'
  OBVIOUS
<1>1. /\ UNCHANGED <<sound, bld, kubeVars, watchVars, planLabel>>
      /\ scaled' \in ScalePlans \cup {NoScale} /\ scaleTimers' \subseteq ScalePlans
  BY DEF ScaleNext, TenantProvisioned, ReconcileScaling, ScaleTimer, ScaleByHand, ApplyScaledObject, PipeInv, NoScale
<1>2. UNCHANGED <<sound, bld, tmpl, serving, up, rs, served, mon, undo, planLabel>>
  BY <1>1 DEF kubeVars, watchVars
<1> QED
  BY <1>1, <1>2 DEF PipeInv, BldTypes, MonTypes, UndoTypes, KubeTypes, WaitInv, FreshInv, PodsInv, Newest, Set, NotifyInv, ServingInv,
                    SuccessMeansServed, LoneInv, Lone, Begun

LEMMA PipeImplies == PipeInv => DeploysAreJudged /\ PipeTypeOK
<1> SUFFICES ASSUME PipeInv PROVE DeploysAreJudged /\ PipeTypeOK
  OBVIOUS
<1>1. PipeTypeOK
  BY DEF PipeInv, PipeTypeOK, BldTypes, Blds, BldStatuses, MonTypes, KubeTypes, Tmpls
<1>2. NothingToReturnTo
  <2> SUFFICES ASSUME Cardinality({p \in Pushes : bld[p].pc # "none"}) <= 1 PROVE tmpl.full \/ tmpl = NoTmpl
    BY DEF NothingToReturnTo
  <2>1. IsFiniteSet(Begun)
    BY OpsPipelineAssumption, FS_Subset DEF Begun
  <2>2. Cardinality(Begun) <= 1 /\ Cardinality(Begun) \in Nat
    BY <2>1, FS_CardinalityType DEF Begun
  <2>3. Lone
    <3>1. CASE Cardinality(Begun) = 0
      BY <2>1, <3>1, FS_EmptySet DEF Lone
    <3>2. CASE Cardinality(Begun) = 1
      <4>1. PICK x : Begun = {x}
        BY <2>1, <3>2, FS_Singleton
      <4> QED
        BY <4>1 DEF Lone
    <3> QED
      BY <2>2, <3>1, <3>2
  <2> QED
    BY <2>3 DEF PipeInv, LoneInv, FullTmpl
<1> QED
  BY <1>1, <1>2 DEF PipeInv, DeploysAreJudged

-----------------------------------------------------------------------------
(* New tenants: one request at most gets past the namespace, and it is     *)
(* announced once; its mails are due once each.                            *)

\* The request whose POST made the namespace, while anything shows it.
Creator(q) == prov[q].pc \in {"resources", "external", "done"} \/ prov[q].todo # {}

CreatorInv ==
    /\ \A q \in ProvRequests : Creator(q) => nsMade
    /\ \A p, q \in ProvRequests : Creator(p) /\ Creator(q) => p = q

WholeInv ==
    \A q \in ProvRequests :
        /\ prov[q].pc \in {"external", "done"} => prov[q].todo = {} /\ made = Resources
        /\ prov[q].pc = "resources" => Resources \subseteq made \cup prov[q].todo
        /\ q \in announced => prov[q].pc = "done"

KnownInv ==
    nsMade /\ made # Resources => \E q \in ProvRequests : prov[q].pc \in {"resources", "failed"}

GreetInv ==
    /\ toGreet \subseteq announced
    /\ announced = {} => \A s \in MailSteps : mailSent[s] = 0
    /\ toGreet # {} => mailDue = {} /\ \A s \in MailSteps : mailSent[s] = 0
    /\ \A x \in mailDue : x[1] \in announced /\ mailSent[x[2]] = 0
    /\ WelcomedOnce

TenantsInv == TenantsTypeOK /\ CreatorInv /\ WholeInv /\ KnownInv /\ GreetInv

LEMMA TenantsStart == TenantsInit => TenantsInv
<1> SUFFICES ASSUME TenantsInit PROVE TenantsInv
  OBVIOUS
<1>1. \A q \in ProvRequests : prov[q].pc = "none" /\ prov[q].todo = {}
  BY DEF TenantsInit
<1>2. TenantsTypeOK
  BY DEF TenantsInit, TenantsTypeOK
<1>3. CreatorInv /\ WholeInv /\ KnownInv
  BY <1>1 DEF TenantsInit, CreatorInv, Creator, WholeInv, KnownInv
<1>4. GreetInv
  BY DEF TenantsInit, GreetInv, WelcomedOnce
<1> QED
  BY <1>2, <1>3, <1>4 DEF TenantsInv

\* A step of one request.
LEMMA ProvSteps ==
    ASSUME TenantsTypeOK, NEW q \in ProvRequests, NEW pc, NEW todo, Prov(q, pc, todo)
    PROVE  /\ prov'[q].pc = pc /\ prov'[q].todo = todo
           /\ \A p \in ProvRequests \ {q} : prov'[p] = prov[p]
           /\ pc \in {"none", "namespace", "resources", "external", "done", "failed"} /\ todo \in SUBSET Resources
              => prov' \in [ProvRequests -> [pc : {"none", "namespace", "resources", "external", "done", "failed"},
                                             todo : SUBSET Resources]]
BY DEF TenantsTypeOK, Prov

\* The namespace is asked for, refused, or given up before it exists.
LEMMA AskingKeeps ==
    ASSUME TenantsInv, NEW q \in ProvRequests, Provision(q) \/ CreateNamespace(q) \/ ProvisionFails(q)
    PROVE  TenantsInv'
<1>1. TenantsTypeOK /\ CreatorInv /\ WholeInv /\ KnownInv /\ GreetInv
  BY DEF TenantsInv
<1>2. UNCHANGED <<external, announced, enforcer, toGreet, mailDue, mailSent>>
  BY DEF Provision, CreateNamespace, ProvisionFails, greetVars
<1>3. GreetInv'
  BY <1>1, <1>2 DEF GreetInv, WelcomedOnce
<1>4. CASE Provision(q)
  <2>1. prov[q].pc = "none" /\ Prov(q, "namespace", {}) /\ UNCHANGED <<nsMade, made, provDLQ>>
    BY <1>4 DEF Provision
  <2>2. /\ prov'[q].pc = "namespace" /\ prov'[q].todo = {} /\ \A p \in ProvRequests \ {q} : prov'[p] = prov[p]
        /\ TenantsTypeOK'
    BY <1>1, <1>2, <2>1, ProvSteps DEF TenantsTypeOK
  <2>3. CreatorInv' /\ WholeInv' /\ KnownInv'
    BY <1>1, <1>2, <2>1, <2>2 DEF CreatorInv, Creator, WholeInv, KnownInv
  <2> QED
    BY <1>3, <2>2, <2>3 DEF TenantsInv
<1>5. CASE CreateNamespace(q)
  <2>1. /\ prov[q].pc = "namespace" /\ ~nsMade /\ nsMade' = TRUE /\ Prov(q, "resources", Resources)
        /\ UNCHANGED <<made, provDLQ>>
    BY <1>5 DEF CreateNamespace
  <2>2. /\ prov'[q].pc = "resources" /\ prov'[q].todo = Resources /\ \A p \in ProvRequests \ {q} : prov'[p] = prov[p]
        /\ TenantsTypeOK'
    BY <1>1, <1>2, <2>1, ProvSteps DEF TenantsTypeOK
  <2>3. CreatorInv' /\ WholeInv' /\ KnownInv'
    BY <1>1, <1>2, <2>1, <2>2 DEF CreatorInv, Creator, WholeInv, KnownInv
  <2> QED
    BY <1>3, <2>2, <2>3 DEF TenantsInv
<1>6. CASE ProvisionFails(q)
  <2>1. prov[q].todo \subseteq Resources /\ made \subseteq Resources
    BY <1>1 DEF TenantsTypeOK
  <2>2. PICK todo \in SUBSET prov[q].todo : Prov(q, "failed", todo)
    BY <1>6 DEF ProvisionFails
  <2>a. /\ nsMade' \in BOOLEAN /\ (nsMade => nsMade') /\ made \subseteq made' /\ made' \subseteq Resources
        /\ prov[q].pc = "namespace" \/ prov[q].todo # {}
    <3>1. CASE prov[q].pc = "namespace" /\ nsMade' \in {nsMade, TRUE} /\ UNCHANGED made
      <4>1. nsMade \in BOOLEAN
        BY <1>1 DEF TenantsTypeOK
      <4>2. CASE nsMade' = nsMade
        BY <2>1, <3>1, <4>1, <4>2
      <4>3. CASE nsMade' = TRUE
        BY <2>1, <3>1, <4>3
      <4> QED
        BY <3>1, <4>2, <4>3
    <3>2. ASSUME NEW r \in prov[q].todo, made' \in {made, made \cup {r}}, nsMade' = nsMade
          PROVE  /\ nsMade' \in BOOLEAN /\ (nsMade => nsMade') /\ made \subseteq made' /\ made' \subseteq Resources
                 /\ prov[q].todo # {}
      <4>1. nsMade \in BOOLEAN /\ r \in Resources
        BY <1>1, <2>1 DEF TenantsTypeOK
      <4>2. made \subseteq made' /\ made' \subseteq Resources /\ prov[q].todo # {}
        BY <2>1, <3>2, <4>1
      <4> QED
        BY <3>2, <4>1, <4>2
    <3> QED
      BY <1>6, <3>1, <3>2 DEF ProvisionFails
  <2>b. todo # {} => nsMade'
    BY <1>1, <2>a DEF CreatorInv, Creator
  <2>3. provDLQ' \subseteq ProvRequests
    BY <1>1, <1>6 DEF ProvisionFails, TenantsTypeOK
  <2>4. /\ prov'[q].pc = "failed" /\ prov'[q].todo = todo /\ \A p \in ProvRequests \ {q} : prov'[p] = prov[p]
        /\ TenantsTypeOK'
    BY <1>1, <1>2, <2>1, <2>2, <2>a, <2>3, ProvSteps DEF TenantsTypeOK
  <2>5. CreatorInv'
    BY <1>1, <1>2, <2>a, <2>b, <2>4 DEF CreatorInv, Creator
  <2>6. WholeInv'
    BY <1>1, <1>2, <2>1, <2>a, <2>4 DEF WholeInv
  <2>7. KnownInv'
    BY <2>4 DEF KnownInv
  <2> QED
    BY <1>3, <2>4, <2>5, <2>6, <2>7 DEF TenantsInv
<1> QED
  BY <1>4, <1>5, <1>6

LEMMA ResourceKeeps ==
    ASSUME TenantsInv, NEW q \in ProvRequests, NEW r \in Resources, CreateResource(q, r)
    PROVE  TenantsInv'
<1>1. TenantsTypeOK /\ CreatorInv /\ WholeInv /\ KnownInv /\ GreetInv
  BY DEF TenantsInv
<1>2. PICK rest \in SUBSET Resources : rest = prov[q].todo \ {r}
  BY <1>1 DEF TenantsTypeOK
<1>3. PICK pc \in {"none", "namespace", "resources", "external", "done", "failed"} :
         /\ pc = IF rest = {} /\ prov[q].pc = "resources" THEN "external" ELSE prov[q].pc
         /\ Prov(q, pc, rest)
  BY <1>1, <1>2 DEF CreateResource, TenantsTypeOK
<1>4. /\ r \in prov[q].todo /\ made' = made \cup {r}
      /\ UNCHANGED <<nsMade, external, provDLQ, announced, enforcer, toGreet, mailDue, mailSent>>
  BY DEF CreateResource, greetVars
<1>5. /\ prov'[q].pc = pc /\ prov'[q].todo = rest /\ \A p \in ProvRequests \ {q} : prov'[p] = prov[p]
      /\ prov' \in [ProvRequests -> [pc : {"none", "namespace", "resources", "external", "done", "failed"},
                                     todo : SUBSET Resources]]
  BY <1>1, <1>3, ProvSteps
<1>6. TenantsTypeOK'
  BY <1>1, <1>4, <1>5 DEF TenantsTypeOK
<1>7. GreetInv'
  BY <1>1, <1>4 DEF GreetInv, WelcomedOnce
<1>8. CreatorInv'
  <2>1. Creator(q)
    BY <1>4 DEF Creator
  <2> QED
    BY <1>1, <1>4, <1>5, <2>1 DEF CreatorInv, Creator
<1>9. WholeInv'
  <2>1. made \subseteq Resources
    BY <1>1 DEF TenantsTypeOK
  <2>2. prov[q].pc \notin {"external", "done"} /\ q \notin announced
    BY <1>1, <1>4 DEF WholeInv
  <2>3. pc = "external" => rest = {} /\ made' = Resources
    BY <1>1, <1>2, <1>3, <1>4, <2>1, <2>2 DEF WholeInv
  <2>4. pc # "done" /\ (pc = "resources" => Resources \subseteq made' \cup rest)
    BY <1>1, <1>2, <1>3, <1>4, <2>2 DEF WholeInv
  <2>5. made = Resources => made' = Resources
    BY <1>4, <2>1
  <2>6. made \subseteq made'
    BY <1>4
  <2> QED
    BY <1>1, <1>4, <1>5, <2>2, <2>3, <2>4, <2>5, <2>6 DEF WholeInv
<1>10. KnownInv'
  <2>1. prov[q].pc \in {"resources", "failed"} => pc \in {"resources", "failed"} \/ made' = Resources
    BY <1>3, <1>4, <1>5, <1>9 DEF WholeInv
  <2>2. made = Resources => made' = Resources
    BY <1>1, <1>4 DEF TenantsTypeOK
  <2> QED
    BY <1>1, <1>4, <1>5, <2>1, <2>2 DEF KnownInv
<1> QED
  BY <1>6, <1>7, <1>8, <1>9, <1>10 DEF TenantsInv

LEMMA SettleKeeps ==
    ASSUME TenantsInv, NEW q \in ProvRequests, SettleExternals(q)
    PROVE  TenantsInv'
<1>1. TenantsTypeOK /\ CreatorInv /\ WholeInv /\ KnownInv /\ GreetInv
  BY DEF TenantsInv
<1>2. /\ prov[q].pc = "external" /\ Prov(q, "done", {})
      /\ announced' \in {announced, announced \cup {q}} /\ external' \subseteq Externals
      /\ toGreet' \in {toGreet, toGreet \cup (announced' \ announced)}
      /\ UNCHANGED <<nsMade, made, provDLQ, enforcer, mailDue, mailSent>>
  BY <1>1 DEF SettleExternals, TenantsTypeOK
<1>3. /\ prov'[q].pc = "done" /\ prov'[q].todo = {} /\ \A p \in ProvRequests \ {q} : prov'[p] = prov[p]
      /\ TenantsTypeOK'
  BY <1>1, <1>2, ProvSteps DEF TenantsTypeOK
<1>4. CreatorInv' /\ WholeInv'
  BY <1>1, <1>2, <1>3 DEF CreatorInv, Creator, WholeInv
<1>5. KnownInv'
  BY <1>1, <1>2, <1>3 DEF KnownInv, WholeInv
<1>6. announced = {}
  <2> SUFFICES ASSUME NEW p \in announced PROVE FALSE
    OBVIOUS
  <2>1. p \in ProvRequests /\ prov[p].pc = "done"
    BY <1>1 DEF TenantsTypeOK, WholeInv
  <2> QED
    BY <1>1, <1>2, <2>1 DEF CreatorInv, Creator
<1>7. mailDue = {} /\ \A s \in MailSteps : mailSent[s] = 0
  BY <1>1, <1>6 DEF GreetInv
<1>8. GreetInv'
  BY <1>1, <1>2, <1>7 DEF GreetInv, WelcomedOnce
<1> QED
  BY <1>3, <1>4, <1>5, <1>8 DEF TenantsInv

\* The process dies, or the policy job runs.
LEMMA AroundKeeps ==
    ASSUME TenantsInv, ProvisionerDies \/ EnforceList \/ EnforcePost
    PROVE  TenantsInv'
<1>1. TenantsTypeOK /\ CreatorInv /\ WholeInv /\ KnownInv /\ GreetInv
  BY DEF TenantsInv
<1>2. UNCHANGED <<nsMade, external, provDLQ, announced, toGreet, mailDue, mailSent>>
  BY DEF ProvisionerDies, EnforceList, EnforcePost, greetVars, provVars
<1>3. GreetInv'
  BY <1>1, <1>2 DEF GreetInv, WelcomedOnce
<1>4. CASE ProvisionerDies
  <2>1. /\ UNCHANGED <<made, enforcer>>
        /\ prov' = [q \in ProvRequests |-> [pc |-> IF prov[q].pc \notin {"none", "done", "failed"} THEN "failed"
                                                   ELSE prov[q].pc, todo |-> {}]]
    BY <1>4 DEF ProvisionerDies
  <2>2. TenantsTypeOK'
    <3>1. \A q \in ProvRequests : prov'[q] \in [pc : {"none", "namespace", "resources", "external", "done", "failed"},
                                               todo : SUBSET Resources]
      BY <1>1, <2>1 DEF TenantsTypeOK
    <3> QED
      BY <1>1, <1>2, <2>1, <3>1 DEF TenantsTypeOK
  <2>3. \A q \in ProvRequests : prov'[q].todo = {} /\ prov'[q].pc \in {prov[q].pc, "failed"}
                                /\ prov'[q].pc \notin {"resources", "external"}
                                /\ (prov[q].pc = "done" => prov'[q].pc = "done")
                                /\ (prov[q].pc \in {"resources", "failed"} => prov'[q].pc = "failed")
    BY <1>1, <2>1 DEF TenantsTypeOK
  <2>4. CreatorInv'
    BY <1>1, <1>2, <2>3 DEF CreatorInv, Creator
  <2>5. WholeInv' /\ KnownInv'
    BY <1>1, <1>2, <2>1, <2>3 DEF WholeInv, KnownInv
  <2> QED
    BY <1>3, <2>2, <2>4, <2>5 DEF TenantsInv
<1>5. CASE EnforceList \/ EnforcePost
  <2>1. /\ UNCHANGED prov /\ made' \in {made, made \cup {"policy"}} /\ enforcer' \in {"idle", "post"}
    BY <1>5 DEF EnforceList, EnforcePost, provVars
  <2>2. /\ TenantsTypeOK' /\ made \subseteq made' /\ made \subseteq Resources /\ made' \subseteq Resources
    BY <1>1, <1>2, <2>1, OpsTenantsAssumption DEF TenantsTypeOK
  <2>3. CreatorInv' /\ WholeInv' /\ KnownInv'
    BY <1>1, <1>2, <2>1, <2>2 DEF CreatorInv, Creator, WholeInv, KnownInv
  <2> QED
    BY <1>3, <2>2, <2>3 DEF TenantsInv
<1> QED
  BY <1>4, <1>5

LEMMA GreetingKeeps ==
    ASSUME TenantsInv,
           OnboardingRestart \/ \E q \in ProvRequests : ScheduleSequence(q) \/ \E s \in MailSteps : SequenceMail(q, s)
    PROVE  TenantsInv'
<1>1. TenantsTypeOK /\ CreatorInv /\ WholeInv /\ KnownInv /\ GreetInv
  BY DEF TenantsInv
<1>2. UNCHANGED <<nsMade, made, prov, external, provDLQ, announced, enforcer>>
  BY DEF OnboardingRestart, ScheduleSequence, SequenceMail, provVars
<1>3. CreatorInv' /\ WholeInv' /\ KnownInv'
  BY <1>1, <1>2 DEF CreatorInv, Creator, WholeInv, KnownInv
<1>4. CASE OnboardingRestart
  <2>1. mailDue' = {} /\ toGreet' = {} /\ mailSent' = mailSent
    BY <1>4 DEF OnboardingRestart
  <2> QED
    BY <1>1, <1>2, <1>3, <2>1 DEF TenantsInv, TenantsTypeOK, GreetInv, WelcomedOnce
<1>5. ASSUME NEW q \in ProvRequests, ScheduleSequence(q) PROVE TenantsInv'
  <2>1. /\ q \in toGreet /\ toGreet' = toGreet \ {q} /\ mailDue' = mailDue \cup ({q} \X MailSteps)
        /\ mailSent' = mailSent /\ mailDue = {} /\ \A s \in MailSteps : mailSent[s] = 0
    BY <1>1, <1>5 DEF ScheduleSequence, GreetInv
  <2>2. \A p \in announced : p = q
    BY <1>1, <2>1 DEF GreetInv, TenantsTypeOK, CreatorInv, Creator, WholeInv
  <2>3. q \in announced /\ toGreet' = {}
    BY <1>1, <2>1, <2>2 DEF GreetInv
  <2>4. TenantsTypeOK'
    BY <1>1, <1>2, <2>1 DEF TenantsTypeOK
  <2>5. GreetInv'
    BY <1>1, <1>2, <2>1, <2>3 DEF GreetInv, WelcomedOnce
  <2> QED
    BY <1>3, <2>4, <2>5 DEF TenantsInv
<1>6. ASSUME NEW q \in ProvRequests, NEW s \in MailSteps, SequenceMail(q, s) PROVE TenantsInv'
  <2>1. /\ <<q, s>> \in mailDue /\ mailDue' = mailDue \ {<<q, s>>} /\ toGreet' = toGreet
        /\ mailSent' \in {mailSent, [mailSent EXCEPT ![s] = @ + 1]}
    BY <1>6 DEF SequenceMail
  <2>2. q \in announced /\ mailSent[s] = 0 /\ toGreet = {}
    BY <1>1, <2>1 DEF GreetInv
  <2>3. /\ \A u \in MailSteps \ {s} : mailSent'[u] = mailSent[u] /\ mailSent'[s] \in {0, 1}
        /\ mailSent' \in [MailSteps -> Nat]
    BY <1>1, <2>1, <2>2 DEF TenantsTypeOK
  <2>4. TenantsTypeOK'
    BY <1>1, <1>2, <2>1, <2>3 DEF TenantsTypeOK
  <2>5. \A x \in mailDue' : x[2] # s /\ x[2] \in MailSteps /\ x[1] \in announced
    <3> SUFFICES ASSUME NEW x \in mailDue', x[2] = s PROVE FALSE
      BY <1>1, <2>1 DEF GreetInv, TenantsTypeOK
    <3>1. x \in ProvRequests \X MailSteps /\ x[1] \in announced /\ q \in announced
      BY <1>1, <2>1, <2>2 DEF GreetInv, TenantsTypeOK
    <3>2. x[1] = q
      BY <1>1, <3>1 DEF CreatorInv, Creator, WholeInv
    <3> QED
      BY <2>1, <3>1, <3>2
  <2>6. GreetInv'
    BY <1>1, <1>2, <2>1, <2>2, <2>3, <2>5 DEF GreetInv, WelcomedOnce
  <2> QED
    BY <1>3, <2>4, <2>6 DEF TenantsInv
<1> QED
  BY <1>4, <1>5, <1>6

LEMMA TenantsKeep == TenantsInv /\ TenantsNext => TenantsInv'
BY AskingKeeps, ResourceKeeps, SettleKeeps, AroundKeeps, GreetingKeeps DEF TenantsNext

LEMMA TenantsImply == TenantsInv => TenantsAreWelcomedWhole
BY DEF TenantsInv, TenantsAreWelcomedWhole, GreetInv, AnnouncedWhole, KnownInv, WholeInv, TenantsTypeOK

-----------------------------------------------------------------------------
(* What runs unattended: the storage cleanup.                              *)

\* The run under way holds what it listed, which nobody else changes, and has
\* found what nobody was told of yet.
ClaimTypes ==
    /\ mDay \in 0..MaxDay /\ gone \subseteq Pvcs /\ tag \in [Pvcs -> {NoTag} \cup 0..MaxDay]
    /\ \/ sweep = SweepIdle
       \/ sweep = [pc |-> "claims", found |-> sweep.found, todo |-> sweep.todo]

Announced(p) == p \in warned \cup unwarned

ClaimInv ==
    /\ ClaimTypes
    /\ \A p \in Pvcs : tag[p] # NoTag => Announced(p) \/ (sweep.pc = "claims" /\ p \in sweep.found)
    /\ sweep.pc = "claims" => \A c \in sweep.todo :
          /\ c = [pvc |-> c.pvc, tag |-> c.tag] /\ c.pvc \in Pvcs /\ c.tag = tag[c.pvc]
          /\ c.tag # NoTag => Announced(c.pvc)
    /\ DeletedWithNotice

LEMMA ClaimStarts == MaintInit => ClaimInv
BY MaintenanceAssumption DEF MaintInit, ClaimInv, ClaimTypes, SweepIdle, DeletedWithNotice, NoTag

LEMMA ClaimKeeps == ClaimInv /\ ClaimNext => ClaimInv'
<1> SUFFICES ASSUME ClaimInv, ClaimNext PROVE ClaimInv'
  OBVIOUS
<1>1. /\ ClaimTypes /\ DeletedWithNotice
      /\ \A p \in Pvcs : tag[p] # NoTag => Announced(p) \/ (sweep.pc = "claims" /\ p \in sweep.found)
      /\ sweep.pc = "claims" => \A c \in sweep.todo :
            /\ c = [pvc |-> c.pvc, tag |-> c.tag] /\ c.pvc \in Pvcs /\ c.tag = tag[c.pvc]
            /\ c.tag # NoTag => Announced(c.pvc)
  BY DEF ClaimInv
<1>2. NoTag \notin Nat /\ mDay \in Nat /\ \A p \in Pvcs : tag[p] \in Nat \cup {NoTag}
  BY <1>1, MaintenanceAssumption DEF ClaimTypes, NoTag
<1>3. CASE SweepStart
  <2>1. /\ sweep' = [pc |-> "claims", found |-> {}, todo |-> sweep'.todo]
        /\ sweep'.todo = {[pvc |-> p, tag |-> tag[p]] : p \in (Pvcs \ mounted) \ gone}
        /\ sweep = SweepIdle /\ UNCHANGED <<mDay, tag, gone, warned, unwarned>>
    BY <1>3 DEF SweepStart
  <2>2. \A p \in Pvcs : tag[p] # NoTag => Announced(p)
    BY <1>1, <2>1 DEF SweepIdle
  <2>3. \A c \in sweep'.todo : \E p \in Pvcs : c = [pvc |-> p, tag |-> tag[p]]
    BY <2>1
  <2>4. ClaimTypes'
    BY <1>1, <2>1 DEF ClaimTypes
  <2> QED
    BY <1>1, <2>1, <2>2, <2>3, <2>4 DEF ClaimInv, DeletedWithNotice, Announced
<1>4. ASSUME NEW p \in Pvcs, NEW t \in 0..MaxDay \cup {NoTag}, SweepClaim([pvc |-> p, tag |-> t]) PROVE ClaimInv'
  <2> DEFINE c == [pvc |-> p, tag |-> t]
  <2>1. /\ sweep.pc = "claims" /\ c \in sweep.todo /\ t = tag[p] /\ (t # NoTag => Announced(p))
        /\ sweep = [pc |-> "claims", found |-> sweep.found, todo |-> sweep.todo]
    BY <1>1, <1>4 DEF SweepClaim, ClaimTypes, SweepIdle
  <2>2. /\ sweep' = [pc |-> "claims", found |-> sweep'.found, todo |-> sweep'.todo]
        /\ sweep'.todo = sweep.todo \ {c}
        /\ sweep'.found = IF t = NoTag THEN sweep.found \cup {p} ELSE sweep.found
    <3>1. sweep' = [sweep EXCEPT !.todo = @ \ {c}, !.found = IF t = NoTag THEN @ \cup {p} ELSE @]
      BY <1>4 DEF SweepClaim
    <3> DEFINE a == [sweep EXCEPT !.todo = @ \ {c}]
    <3>2. a = [pc |-> "claims", found |-> sweep.found, todo |-> sweep.todo \ {c}]
      BY <2>1
    <3>3. sweep' = [a EXCEPT !.found = IF t = NoTag THEN @ \cup {p} ELSE @]
      BY <3>1
    <3> HIDE DEF a, c
    <3> QED
      BY <3>2, <3>3
  <2>3. /\ IF t = NoTag THEN tag' = [tag EXCEPT ![p] = mDay] /\ gone' = gone
           ELSE tag' = tag /\ gone' = IF mDay - t >= GraceDays THEN gone \cup {p} ELSE gone
        /\ UNCHANGED <<mDay, warned, unwarned>>
    BY <1>4 DEF SweepClaim, TagOrDelete
  <2> HIDE DEF c
  <2>4. ClaimTypes'
    BY <1>1, <2>2, <2>3 DEF ClaimTypes
  <2>5. \A q \in Pvcs : tag'[q] # NoTag => Announced(q)' \/ (sweep'.pc = "claims" /\ q \in sweep'.found)
    BY <1>1, <2>1, <2>2, <2>3 DEF ClaimTypes, Announced
  <2>6. \A x \in sweep'.todo :
            /\ x = [pvc |-> x.pvc, tag |-> x.tag] /\ x.pvc \in Pvcs /\ x.tag = tag'[x.pvc]
            /\ x.tag # NoTag => Announced(x.pvc)'
    <3> SUFFICES ASSUME NEW x \in sweep'.todo
                 PROVE  /\ x = [pvc |-> x.pvc, tag |-> x.tag] /\ x.pvc \in Pvcs /\ x.tag = tag'[x.pvc]
                        /\ x.tag # NoTag => Announced(x.pvc)'
      OBVIOUS
    <3>1. /\ x = [pvc |-> x.pvc, tag |-> x.tag] /\ x.pvc \in Pvcs /\ x.tag = tag[x.pvc]
          /\ x.tag # NoTag => Announced(x.pvc)
      BY <1>1, <2>1, <2>2
    <3>2. x.pvc # p
      BY <2>1, <2>2, <3>1 DEF c
    <3>3. tag'[x.pvc] = tag[x.pvc]
      BY <1>1, <2>3, <3>1, <3>2 DEF ClaimTypes
    <3> QED
      BY <2>3, <3>1, <3>3 DEF Announced
  <2>7. DeletedWithNotice'
    <3>1. ASSUME NEW q \in gone
          PROVE  tag'[q] = tag[q] /\ tag[q] # NoTag /\ mDay - tag[q] >= GraceDays /\ q \in warned \cup unwarned
      BY <1>1, <2>1, <2>3, <3>1 DEF DeletedWithNotice, ClaimTypes
    <3>2. CASE gone' = gone
      BY <2>3, <3>1, <3>2 DEF DeletedWithNotice
    <3>3. CASE gone' # gone
      BY <2>1, <2>3, <3>1, <3>3 DEF DeletedWithNotice, Announced
    <3> QED
      BY <3>2, <3>3
  <2> QED
    BY <2>2, <2>4, <2>5, <2>6, <2>7 DEF ClaimInv
<1>5. ASSUME NEW p \in Pvcs, NEW t \in 0..MaxDay \cup {NoTag}, SweepFails([pvc |-> p, tag |-> t]) PROVE ClaimInv'
  <2> DEFINE c == [pvc |-> p, tag |-> t]
  <2>1. /\ sweep.pc = "claims" /\ t = tag[p] /\ (t # NoTag => Announced(p))
        /\ sweep = [pc |-> "claims", found |-> sweep.found, todo |-> sweep.todo]
    BY <1>1, <1>5 DEF SweepFails, ClaimTypes, SweepIdle
  <2>2. sweep' = [pc |-> "claims", found |-> sweep.found, todo |-> {}]
    BY <1>5, <2>1 DEF SweepFails
  <2>3. /\ UNCHANGED <<mDay, warned>>
        /\ \/ t = NoTag /\ tag' = [tag EXCEPT ![p] = mDay] /\ gone' = gone
           \/ t # NoTag /\ tag' = tag /\ gone' = IF mDay - t >= GraceDays THEN gone \cup {p} ELSE gone
           \/ tag' = tag /\ gone' = gone
        /\ unwarned' = IF tag' # tag THEN unwarned \cup {p} ELSE unwarned
    BY <1>5 DEF SweepFails, TagOrDelete
  <2>4. ClaimTypes' /\ \A q \in Pvcs \ {p} : tag'[q] = tag[q]
    BY <1>1, <2>2, <2>3 DEF ClaimTypes
  <2>5. \A q : Announced(q) => Announced(q)'
    BY <2>3 DEF Announced
  <2>6. tag'[p] # NoTag => Announced(p)' \/ p \in sweep.found
    BY <1>1, <2>1, <2>3, <2>5 DEF Announced
  <2>7. \A q \in Pvcs : tag'[q] # NoTag => Announced(q)' \/ (sweep'.pc = "claims" /\ q \in sweep'.found)
    BY <1>1, <2>2, <2>4, <2>5, <2>6
  <2>8. DeletedWithNotice'
    <3>1. ASSUME NEW q \in gone
          PROVE  tag'[q] = tag[q] /\ tag[q] # NoTag /\ mDay - tag[q] >= GraceDays /\ Announced(q)
      BY <1>1, <2>1, <2>3, <3>1 DEF DeletedWithNotice, ClaimTypes, Announced
    <3>2. CASE gone' = gone
      BY <2>3, <2>5, <3>1, <3>2 DEF DeletedWithNotice, Announced
    <3>3. CASE gone' # gone
      BY <2>1, <2>3, <2>5, <3>1, <3>3 DEF DeletedWithNotice, Announced
    <3> QED
      BY <3>2, <3>3
  <2> QED
    BY <2>2, <2>4, <2>7, <2>8 DEF ClaimInv
<1>6. CASE SweepMail \/ SweepDies
  <2>1. /\ sweep.pc = "claims" /\ sweep' = SweepIdle /\ UNCHANGED <<mDay, tag, gone>>
        /\ warned' \cup unwarned' = warned \cup unwarned \cup sweep.found
    BY <1>1, <1>6 DEF SweepMail, SweepDies, ClaimTypes
  <2> QED
    BY <1>1, <2>1 DEF ClaimInv, ClaimTypes, DeletedWithNotice, Announced, SweepIdle
<1>7. CASE MaintDay
  <2>1. /\ mDay < MaxDay /\ mDay' = mDay + 1 /\ UNCHANGED <<tag, gone, sweep, warned, unwarned>>
    BY <1>7 DEF MaintDay
  <2>2. ClaimTypes'
    BY <1>1, <2>1, MaintenanceAssumption DEF ClaimTypes
  <2>3. DeletedWithNotice'
    BY <1>1, <1>2, <2>1, MaintenanceAssumption DEF DeletedWithNotice, ClaimTypes
  <2> QED
    BY <1>1, <2>1, <2>2, <2>3 DEF ClaimInv, Announced
<1>8. CASE UNCHANGED <<mDay, tag, gone, sweep, warned, unwarned>>
  BY <1>1, <1>8 DEF ClaimInv, ClaimTypes, DeletedWithNotice, Announced
<1>9. \A p \in Pvcs : MountChange(p) => UNCHANGED <<mDay, tag, gone, sweep, warned, unwarned>>
  BY DEF MountChange
<1> QED
  BY <1>3, <1>4, <1>5, <1>6, <1>7, <1>8, <1>9 DEF ClaimNext

-----------------------------------------------------------------------------
(* The rotation of the database credentials: before the first lease is     *)
(* revoked the Secret holds a later one and every client was asked.        *)

SecretTypes ==
    /\ leases \in 1..MaxLease /\ inSecret \in 1..MaxLease /\ inPods \in [Clients -> 1..MaxLease]
    /\ revoked \subseteq {1} /\ dryRun \in BOOLEAN
    /\ \/ rotation = SweepIdle
       \/ /\ rotation = [pc |-> rotation.pc, lease |-> rotation.lease, todo |-> rotation.todo]
          /\ rotation.pc \in {"secret", "restart"} /\ rotation.lease \in 2..MaxLease

\* Everyone but those still to be asked has left the first lease, or is known
\* to hold on to it.
Replaced(todo) ==
    inSecret # 1 /\ \A c \in Clients \ todo : inPods[c] = 1 => c \in notRestarted \cup restarting

SecretInv ==
    /\ SecretTypes
    /\ ~dryRun => /\ rotation.pc = "restart" => Replaced(rotation.todo)
                  /\ revoked # {} => Replaced({})

LEMMA SecretStarts == MaintInit => SecretInv
BY MaintenanceAssumption DEF MaintInit, SecretInv, SecretTypes, SweepIdle

LEMMA SecretKeeps == SecretInv /\ SecretNext => SecretInv'
<1> SUFFICES ASSUME SecretInv, SecretNext PROVE SecretInv'
  OBVIOUS
<1>1. /\ SecretTypes /\ MaxLease \in Nat
      /\ ~dryRun => (rotation.pc = "restart" => Replaced(rotation.todo)) /\ (revoked # {} => Replaced({}))
  BY MaintenanceAssumption DEF SecretInv
<1>2. dryRun' = dryRun
  BY DEF SecretNext, ReadVault, UpdateK8sSecret, RestartClient, RevokeOld, RotationFails, ClientRestarted
<1>3. CASE ReadVault
  <2>1. /\ rotation' = [pc |-> "secret", lease |-> leases', todo |-> {}]
        /\ leases < MaxLease /\ leases' = leases + 1 /\ UNCHANGED <<revoked, inSecret, inPods, restarting, notRestarted>>
    BY <1>3 DEF ReadVault, Rotate
  <2>2. SecretTypes'
    BY <1>1, <1>2, <2>1 DEF SecretTypes
  <2> QED
    BY <1>1, <1>2, <2>1, <2>2 DEF SecretInv, Replaced
<1>4. CASE UpdateK8sSecret
  <2>1. /\ rotation' = [pc |-> "restart", lease |-> rotation.lease, todo |-> IF dryRun THEN {} ELSE Clients]
        /\ inSecret' = IF dryRun THEN inSecret ELSE rotation.lease
        /\ UNCHANGED <<leases, revoked, inPods, restarting, notRestarted>> /\ rotation.pc = "secret"
    BY <1>4 DEF UpdateK8sSecret, Rotate
  <2>2. rotation.lease \in 2..MaxLease
    BY <1>1, <2>1 DEF SecretTypes, SweepIdle
  <2>3. SecretTypes'
    BY <1>1, <1>2, <2>1, <2>2 DEF SecretTypes
  <2> QED
    BY <1>1, <1>2, <2>1, <2>2, <2>3 DEF SecretInv, Replaced
<1>5. ASSUME NEW c \in Clients, RestartClient(c) PROVE SecretInv'
  <2>1. /\ rotation' = [pc |-> "restart", lease |-> rotation.lease, todo |-> rotation.todo \ {c}]
        /\ c \in notRestarted' \cup restarting' /\ notRestarted \cup restarting \subseteq notRestarted' \cup restarting'
        /\ UNCHANGED <<leases, revoked, inSecret, inPods>> /\ rotation.pc = "restart"
    BY <1>5 DEF RestartClient, Rotate
  <2>2. rotation.lease \in 2..MaxLease
    BY <1>1, <2>1 DEF SecretTypes, SweepIdle
  <2>3. SecretTypes'
    BY <1>1, <1>2, <2>1, <2>2 DEF SecretTypes
  <2>4. \A todo : Replaced(todo) => Replaced(todo \ {c})'
    BY <2>1 DEF Replaced
  <2>5. Replaced({}) => Replaced({})'
    BY <2>1 DEF Replaced
  <2>6. rotation'.todo = rotation.todo \ {c}
    BY <2>1
  <2>7. Replaced(rotation.todo) => Replaced(rotation.todo)'
    BY <2>1, <2>6 DEF Replaced
  <2> QED
    BY <1>1, <1>2, <2>1, <2>3, <2>5, <2>7 DEF SecretInv
<1>6. CASE RevokeOld
  <2>1. /\ rotation' = SweepIdle /\ revoked' \in {revoked, revoked \cup {1}} /\ rotation.pc = "restart" /\ rotation.todo = {}
        /\ UNCHANGED <<leases, inSecret, inPods, restarting, notRestarted>>
    BY <1>6 DEF RevokeOld
  <2>2. SecretTypes'
    BY <1>1, <1>2, <2>1 DEF SecretTypes
  <2> QED
    BY <1>1, <1>2, <2>1, <2>2 DEF SecretInv, Replaced, SweepIdle
<1>7. CASE RotationFails
  BY <1>1, <1>7 DEF RotationFails, SecretInv, SecretTypes, Replaced, SweepIdle
<1>8. ASSUME NEW c \in Clients, ClientRestarted(c) PROVE SecretInv'
  <2>1. /\ inPods' = [inPods EXCEPT ![c] = inSecret] /\ restarting' = restarting \ {c}
        /\ UNCHANGED <<leases, revoked, inSecret, rotation, notRestarted>>
    BY <1>8 DEF ClientRestarted
  <2>2. SecretTypes'
    BY <1>1, <1>2, <2>1 DEF SecretTypes
  <2>3. inPods'[c] = inSecret /\ \A d \in Clients \ {c} : inPods'[d] = inPods[d]
    BY <1>1, <2>1 DEF SecretTypes
  <2>4. Replaced({}) => Replaced({})'
    BY <2>1, <2>3 DEF Replaced
  <2>5. Replaced(rotation.todo) => Replaced(rotation.todo)'
    BY <2>1, <2>3 DEF Replaced
  <2> QED
    BY <1>1, <1>2, <2>1, <2>2, <2>4, <2>5 DEF SecretInv
<1> QED
  BY <1>3, <1>4, <1>5, <1>6, <1>7, <1>8 DEF SecretNext

LEMMA SecretImplies == SecretInv => RevokedOnlyReplaced
BY DEF SecretInv, SecretTypes, Replaced, RevokedOnlyReplaced

-----------------------------------------------------------------------------
\* Whatever a lease is used for, Vault has issued it.
LeaseInv ==
    /\ inSecret \in 1..leases /\ inPods \in [Clients -> 1..leases]
    /\ rotation # SweepIdle => rotation.lease \in 1..leases

LEMMA LeasesStart == MaintInit => LeaseInv
BY DEF MaintInit, LeaseInv

LEMMA LeasesKeep == ASSUME SecretInv, LeaseInv, SecretNext PROVE LeaseInv'
<1>0. /\ leases \in Nat /\ leases >= 1 /\ inSecret \in 1..leases /\ inPods \in [Clients -> 1..leases]
      /\ rotation # SweepIdle => rotation.lease \in 1..leases
      /\ ~(SweepIdle.pc \in {"secret", "restart"})
  BY MaintenanceAssumption DEF SecretInv, SecretTypes, LeaseInv, SweepIdle
<1>1. CASE ReadVault
  <2>1. leases' = leases + 1 /\ rotation'.lease = leases' /\ UNCHANGED <<inSecret, inPods>>
    BY <1>1 DEF ReadVault, Rotate
  <2> QED
    BY <1>0, <2>1 DEF LeaseInv
<1>2. CASE UpdateK8sSecret
  <2>1. rotation.lease \in 1..leases
    BY <1>0, <1>2 DEF UpdateK8sSecret
  <2> QED
    BY <1>0, <1>2, <2>1 DEF UpdateK8sSecret, Rotate, LeaseInv
<1>3. CASE RevokeOld \/ RotationFails
  BY <1>0, <1>3 DEF RevokeOld, RotationFails, LeaseInv
<1>4. ASSUME NEW c \in Clients, RestartClient(c) PROVE LeaseInv'
  <2>1. rotation.lease \in 1..leases
    BY <1>0, <1>4 DEF RestartClient
  <2> QED
    BY <1>0, <1>4, <2>1 DEF RestartClient, Rotate, LeaseInv
<1>5. ASSUME NEW c \in Clients, ClientRestarted(c) PROVE LeaseInv'
  BY <1>0, <1>5 DEF ClientRestarted, LeaseInv
<1> QED
  BY <1>1, <1>2, <1>3, <1>4, <1>5 DEF SecretNext

LEMMA LeasesStand == LeaseInv /\ UNCHANGED secretVars => LeaseInv'
BY DEF LeaseInv, secretVars

-----------------------------------------------------------------------------
(* Self-healing: a container whose pod was deleted is muted for its hour.  *)

HealInv ==
    /\ forced = [x \in Pods \X Containers |-> forced[x]]
    /\ \A x \in Pods \X Containers : forced[x] \in {0, 1} /\ (x \notin muted1h => forced[x] = 0)

LEMMA HealStarts == MaintInit => HealInv
BY DEF MaintInit, HealInv

LEMMA HealKeeps == HealInv /\ HealNext => HealInv'
<1> SUFFICES ASSUME HealInv, HealNext PROVE HealInv'
  OBVIOUS
<1>1. ASSUME NEW k \in Checks, NEW x \in healing[k], HealPod(k, x) PROVE HealInv'
  <2>1. \/ UNCHANGED <<muted1h, forced>>
        \/ x \notin muted1h /\ muted1h' = muted1h \cup {x} /\ forced' = [forced EXCEPT ![x] = @ + 1]
    BY <1>1 DEF HealPod, ShouldAlert
  <2> QED
    BY <2>1 DEF HealInv
<1>2. ASSUME NEW key, HealHour(key) PROVE HealInv'
  BY <1>2 DEF HealHour, HealInv
<1>3. CASE CordonNode
  BY <1>3 DEF CordonNode, ShouldAlert, HealInv
<1>4. CASE ClusterChange \/ \E k \in Checks : HealStart(k)
  BY <1>4 DEF ClusterChange, HealStart, HealInv
<1> QED
  BY <1>1, <1>2, <1>3, <1>4 DEF HealNext

LEMMA HealImplies == HealInv => ForcedOncePerHour
BY DEF HealInv, ForcedOncePerHour

\* What is muted and looked at are containers and pods of the tenant, or the node.
HealTypes ==
    /\ muted1h \subseteq Pods \X Containers \cup {NodeKey}
    /\ healing \in [Checks -> SUBSET (Pods \X (Containers \cup {Evicted}))]

LEMMA HealTypesStart == MaintInit => HealTypes
BY DEF MaintInit, HealTypes

LEMMA HealTypesKeep == ASSUME HealTypes, HealNext PROVE HealTypes'
<1>1. CASE CordonNode \/ ClusterChange
  BY <1>1 DEF CordonNode, ShouldAlert, ClusterChange, HealTypes
<1>2. ASSUME NEW key, HealHour(key) PROVE HealTypes'
  BY <1>2 DEF HealHour, HealTypes
<1>3. ASSUME NEW k \in Checks, HealStart(k) PROVE HealTypes'
  <2> DEFINE sick == {x \in Pods \X (Containers \cup {Evicted}) : x[2] \in podState[x[1]]}
  <2>1. healing' = [healing EXCEPT ![k] = sick] /\ muted1h' = muted1h
    BY <1>3 DEF HealStart
  <2>2. sick \in SUBSET (Pods \X (Containers \cup {Evicted}))
    OBVIOUS
  <2> HIDE DEF sick
  <2> QED
    BY <2>1, <2>2 DEF HealTypes
<1>4. ASSUME NEW k \in Checks, NEW x \in healing[k], HealPod(k, x) PROVE HealTypes'
  <2>1. x \in Pods \X (Containers \cup {Evicted})
    BY DEF HealTypes
  <2>2. healing' \in [Checks -> SUBSET (Pods \X (Containers \cup {Evicted}))]
    BY <1>4 DEF HealPod, HealTypes
  <2>3. x[2] # Evicted => x \in Pods \X Containers
    BY <2>1
  <2>4. muted1h' \subseteq Pods \X Containers \cup {NodeKey}
    BY <1>4, <2>3 DEF HealPod, ShouldAlert, HealTypes
  <2> QED
    BY <2>2, <2>4 DEF HealTypes
<1> QED
  BY <1>1, <1>2, <1>3, <1>4 DEF HealNext

LEMMA HealTypesStand == HealTypes /\ UNCHANGED healVars => HealTypes'
BY DEF HealTypes, healVars

UpkeepTypes == mounted \subseteq Pvcs /\ backups \in 0..Retained

\* The mounts belong to the claims, the backups to the jobs.
LEMMA MountsKeep == mounted \subseteq Pvcs /\ ClaimNext => mounted' \subseteq Pvcs
BY DEF ClaimNext, SweepStart, SweepFails, SweepMail, SweepDies, MaintDay, MountChange, SweepClaim

LEMMA BackupsKeep == backups \in 0..Retained /\ JobNext => backups' \in 0..Retained
BY MaintenanceAssumption
   DEF JobNext, TakeBackup, BackupFails, ArchiveWeek, OpenUpdateIssue, BackupMail, VerifyBackup

LEMMA CertsChecked == CheckCerts
BY DEF CheckCerts, CertStatus

LEMMA MaintImplies == ClaimInv /\ SecretInv /\ LeaseInv /\ HealTypes /\ UpkeepTypes => MaintTypeOK
BY CertsChecked, MaintenanceAssumption
   DEF ClaimInv, ClaimTypes, SecretInv, SecretTypes, LeaseInv, HealTypes, UpkeepTypes, MaintTypeOK

-----------------------------------------------------------------------------
(* Alerts: the loop over a payload stops at a P1 alert that fires anew, to *)
(* mail it.                                                                *)

AlertRecords == [fp : Alerts, status : {"firing", "resolved"}]

PagerInv ==
    /\ pager = [w \in AlertWorkers |-> pager[w]]
    /\ \A w \in AlertWorkers : pager[w] = PagerIdle \/ (pager[w].pc = "mail" /\ pager[w].rest \in Seq(AlertRecords))
    /\ P1Noticed

LEMMA PagerStarts == AlertsInit => PagerInv
BY DEF AlertsInit, PagerInv, P1Noticed

\* The alerts looked at are a beginning of the payload, of which only the last
\* one awaits.
LEMMA BatchFacts ==
    ASSUME NEW alerts \in Seq(AlertRecords)
    PROVE  /\ Batch(alerts) \in Seq(AlertRecords) /\ Len(Batch(alerts)) <= Len(alerts)
           /\ \A i \in 1..Len(Batch(alerts)) : Awaits(Batch(alerts)[i]) => i = Len(Batch(alerts))
<1> DEFINE stops == {i \in 1..Len(alerts) : Awaits(alerts[i])}
<1>1. CASE stops = {}
  BY <1>1 DEF Batch
<1>2. CASE stops # {}
  <2>1. PICK n \in stops : \A j \in stops : n <= j
    <3>1. stops \subseteq Nat /\ stops # {}
      BY <1>2
    <3> QED
      BY <3>1, LeastNumber
  <2> DEFINE first == CHOOSE i \in stops : \A j \in stops : i <= j
  <2>2. first \in stops /\ \A j \in stops : first <= j
    BY <2>1
  <2>3. Batch(alerts) = SubSeq(alerts, 1, first)
    BY <1>2 DEF Batch
  <2> HIDE DEF first
  <2>4. first \in 1..Len(alerts)
    BY <2>2
  <2>5. /\ SubSeq(alerts, 1, first) \in Seq(AlertRecords) /\ Len(SubSeq(alerts, 1, first)) = first
        /\ \A i \in 1..first : SubSeq(alerts, 1, first)[i] = alerts[i]
    BY <2>4
  <2>6. ASSUME NEW i \in 1..first, Awaits(alerts[i]) PROVE i = first
    BY <2>2, <2>4, <2>6
  <2> QED
    BY <2>3, <2>4, <2>5, <2>6
<1> QED
  BY <1>1, <1>2

\* What the loop does until it awaits, or ends.
LEMMA HandlingKeeps ==
    ASSUME PagerInv, NEW w \in AlertWorkers, NEW alerts \in Seq(AlertRecords), NEW toldNow,
           HandleAlerts(w, alerts, toldNow), told \subseteq toldNow,
           pager[w] = PagerIdle \/ (pager[w].alert.status = "firing" => pager[w].alert.fp \in toldNow)
    PROVE  PagerInv'
<1> DEFINE now  == Batch(alerts)
           fps(status) == {now[i].fp : i \in {j \in 1..Len(now) : now[j].status = status}}
           fired == fps("firing") \ active
           rest == SubSeq(alerts, Len(now) + 1, Len(alerts))
           stops == ~(now = <<>> \/ ~Awaits(Last(now)))
<1>1. /\ active' = (active \ fps("resolved")) \cup fired
      /\ told' = toldNow \ fired /\ untold' = untold \ fired
      /\ pager' = [pager EXCEPT ![w] = IF stops THEN [pc |-> "mail", alert |-> Last(now), rest |-> rest]
                                       ELSE PagerIdle]
  BY DEF HandleAlerts
<1>2. /\ now \in Seq(AlertRecords) /\ Len(now) <= Len(alerts)
      /\ \A i \in 1..Len(now) : Awaits(now[i]) => i = Len(now)
  BY BatchFacts
<1>3. ASSUME NEW fp \in fired \cap P1
      PROVE  stops /\ Last(now).fp = fp /\ Last(now).status = "firing"
  <2>1. PICK i \in 1..Len(now) : now[i].status = "firing" /\ now[i].fp = fp
    OBVIOUS
  <2>2. Awaits(now[i])
    BY <1>3, <2>1 DEF Awaits
  <2>3. i = Len(now) /\ now # <<>> /\ Last(now) = now[i]
    BY <1>2, <2>2 DEF Last
  <2> QED
    BY <2>1, <2>2, <2>3
<1>4. rest \in Seq(AlertRecords)
  BY <1>2
<1> HIDE DEF rest, stops, now, fired
<1>5. /\ \A v \in AlertWorkers \ {w} : pager'[v] = pager[v]
      /\ pager' = [v \in AlertWorkers |-> pager'[v]]
      /\ pager'[w] = IF stops THEN [pc |-> "mail", alert |-> Last(now), rest |-> rest] ELSE PagerIdle
  BY <1>1 DEF PagerInv
<1>6. pager'[w] = PagerIdle \/ (pager'[w].pc = "mail" /\ pager'[w].rest \in Seq(AlertRecords))
  BY <1>4, <1>5
<1>7. P1Noticed'
  <2> SUFFICES ASSUME NEW fp \in active' \cap P1
               PROVE  \/ fp \in told' \cup untold'
                      \/ \E v \in AlertWorkers : pager'[v].pc = "mail" /\ pager'[v].alert.fp = fp
                             /\ pager'[v].alert.status = "firing"
    BY DEF P1Noticed
  <2>1. CASE fp \in fired
    <3>1. stops /\ Last(now).fp = fp /\ Last(now).status = "firing"
      BY <1>3, <2>1
    <3>2. pager'[w] = [pc |-> "mail", alert |-> Last(now), rest |-> rest]
      BY <1>5, <3>1
    <3>3. pager'[w].pc = "mail" /\ pager'[w].alert = Last(now)
      BY <3>2
    <3> QED
      BY <3>1, <3>3
  <2>2. CASE fp \notin fired
    <3>1. fp \in active
      BY <1>1, <2>2
    <3>2. CASE fp \in told \cup untold
      BY <1>1, <2>2, <3>2
    <3>3. CASE fp \notin told \cup untold
      <4>1. PICK v \in AlertWorkers : pager[v].pc = "mail" /\ pager[v].alert.fp = fp /\ pager[v].alert.status = "firing"
        BY <3>1, <3>3 DEF PagerInv, P1Noticed
      <4>2. CASE v = w
        BY <1>1, <2>2, <4>1, <4>2 DEF PagerIdle
      <4>3. CASE v # w
        BY <1>5, <4>1, <4>3
      <4> QED
        BY <4>2, <4>3
    <3> QED
      BY <3>2, <3>3
  <2> QED
    BY <2>1, <2>2
<1> QED
  BY <1>5, <1>6, <1>7 DEF PagerInv

LEMMA PagerKeeps == PagerInv /\ IncidentNext => PagerInv'
<1> SUFFICES ASSUME PagerInv, IncidentNext PROVE PagerInv'
  OBVIOUS
<1>1. ASSUME NEW w \in AlertWorkers, NEW p \in Payloads, AlertWebhook(w, p) PROVE PagerInv'
  <2>1. p \in Seq(AlertRecords) /\ pager[w] = PagerIdle /\ HandleAlerts(w, p, told)
    BY <1>1, OpsAlertsAssumption DEF AlertWebhook, AlertRecords
  <2> QED
    BY <2>1, HandlingKeeps
<1>2. ASSUME NEW w \in AlertWorkers, AlertMailed(w) PROVE PagerInv'
  <2>1. PICK toldNow : /\ toldNow = IF pager[w].alert.status = "firing" THEN told \cup {pager[w].alert.fp} ELSE told
                       /\ HandleAlerts(w, pager[w].rest, toldNow)
    BY <1>2 DEF AlertMailed
  <2>2. PICK alerts \in Seq(AlertRecords) : alerts = pager[w].rest
    BY <1>2 DEF AlertMailed, PagerInv, PagerIdle
  <2>3. HandleAlerts(w, alerts, toldNow)
    BY <2>1, <2>2
  <2>4. told \subseteq toldNow /\ (pager[w].alert.status = "firing" => pager[w].alert.fp \in toldNow)
    BY <2>1
  <2> QED
    BY <2>3, <2>4, HandlingKeeps
<1>3. ASSUME NEW w \in AlertWorkers, AlertMailFails(w) PROVE PagerInv'
  <2>1. /\ untold' = IF pager[w].alert.status = "firing" THEN untold \cup {pager[w].alert.fp} ELSE untold
        /\ pager' = [pager EXCEPT ![w] = PagerIdle] /\ UNCHANGED <<active, told>>
    BY <1>3 DEF AlertMailFails
  <2>2. /\ \A v \in AlertWorkers \ {w} : pager'[v] = pager[v]
        /\ pager' = [v \in AlertWorkers |-> pager'[v]] /\ pager'[w] = PagerIdle
    BY <2>1 DEF PagerInv
  <2>3. P1Noticed'
    <3> SUFFICES ASSUME NEW fp \in active \cap P1, fp \notin told \cup untold'
                 PROVE  \E v \in AlertWorkers : pager'[v].pc = "mail" /\ pager'[v].alert.fp = fp
                             /\ pager'[v].alert.status = "firing"
      BY <2>1 DEF P1Noticed
    <3>1. PICK v \in AlertWorkers : pager[v].pc = "mail" /\ pager[v].alert.fp = fp /\ pager[v].alert.status = "firing"
      BY <2>1 DEF PagerInv, P1Noticed
    <3> QED
      BY <2>1, <2>2, <3>1
  <2> QED
    BY <2>2, <2>3 DEF PagerInv
<1>4. CASE SendDigest
  BY <1>4 DEF SendDigest, PagerInv, P1Noticed
<1>5. CASE AlertingRestart
  BY <1>5 DEF AlertingRestart, PagerInv, P1Noticed
<1> QED
  BY <1>1, <1>2, <1>3, <1>4, <1>5 DEF IncidentNext

LEMMA UnattendedImplied == PagerInv /\ ClaimInv /\ SecretInv /\ HealInv => UnattendedIsCareful
BY SecretImplies, HealImplies DEF PagerInv, ClaimInv, UnattendedIsCareful

-----------------------------------------------------------------------------
(* The rest of the alerts: what is active and what is in the digest; the   *)
(* ring of the DLQ monitor, which never holds more than it is meant to;    *)
(* the baseline of the traffic.                                            *)

AlertInv == active \subseteq Alerts /\ digest \subseteq P2

RingInv ==
    /\ dlqSent \in Nat /\ dlqQueue \in [DlqSubs -> Seq(Nat)]
    /\ dlqStore \in Seq(Nat) /\ Len(dlqStore) <= DlqStore /\ dlqMail \subseteq DlqSubs

EgressInv == baseline \in Nat \cup {NoBaseline} /\ egressMail \in {"idle", "mail", "quarantine"}

LEMMA AlertsStart == AlertsInit => AlertInv
BY DEF AlertsInit, AlertInv

\* Only alerts of the payload fire, and only those of P2 go into the digest.
LEMMA FiringStays ==
    ASSUME AlertInv, NEW w, NEW alerts \in Seq(AlertRecords), NEW toldNow, HandleAlerts(w, alerts, toldNow)
    PROVE  AlertInv'
<1> DEFINE now  == Batch(alerts)
           fps(status) == {now[i].fp : i \in {j \in 1..Len(now) : now[j].status = status}}
<1>1. /\ active' = (active \ fps("resolved")) \cup (fps("firing") \ active)
      /\ digest' = digest \cup ((fps("firing") \ active) \cap P2)
  BY DEF HandleAlerts
<1>2. now \in Seq(AlertRecords)
  BY BatchFacts
<1>3. fps("firing") \subseteq Alerts
  <2>1. \A i \in 1..Len(now) : now[i].fp \in Alerts
    <3>1. \A i \in 1..Len(now) : now[i] \in AlertRecords
      BY <1>2
    <3> HIDE DEF now
    <3> QED
      BY <3>1 DEF AlertRecords
  <2> HIDE DEF now
  <2> QED
    BY <2>1
<1> HIDE DEF fps
<1> QED
  BY <1>1, <1>3 DEF AlertInv

LEMMA AlertsKeep == ASSUME PagerInv, AlertInv, IncidentNext PROVE AlertInv'
<1>1. CASE SendDigest \/ AlertingRestart
  BY <1>1 DEF SendDigest, AlertingRestart, AlertInv
<1>2. ASSUME NEW w \in AlertWorkers, AlertMailed(w) PROVE AlertInv'
  <2>1. pager[w].pc = "mail"
    BY <1>2 DEF AlertMailed
  <2>2. pager[w].rest \in Seq(AlertRecords)
    BY <2>1 DEF PagerInv, PagerIdle
  <2>3. \E toldNow : HandleAlerts(w, pager[w].rest, toldNow)
    BY <1>2 DEF AlertMailed
  <2> QED
    BY <2>2, <2>3, FiringStays
<1>3. ASSUME NEW w \in AlertWorkers, AlertMailFails(w) PROVE AlertInv'
  BY <1>3 DEF AlertMailFails, AlertInv
<1>4. ASSUME NEW w \in AlertWorkers, NEW p \in Payloads, AlertWebhook(w, p) PROVE AlertInv'
  <2>1. p \in Seq(AlertRecords)
    BY OpsAlertsAssumption DEF AlertRecords
  <2> QED
    BY <1>4, <2>1, FiringStays DEF AlertWebhook
<1> QED
  BY <1>1, <1>2, <1>3, <1>4 DEF IncidentNext

LEMMA AlertsStand == AlertInv /\ UNCHANGED incidentVars => AlertInv'
BY DEF AlertInv, incidentVars

LEMMA RingStarts == AlertsInit => RingInv
BY OpsAlertsAssumption DEF AlertsInit, RingInv

LEMMA RingKeeps == ASSUME RingInv, DlqNext PROVE RingInv'
<1>1. ASSUME NEW s \in DlqSubs, StoreDLQEvent(s) PROVE RingInv'
  <2> DEFINE full == Append(dlqStore, Head(dlqQueue[s]))
  <2>1. /\ dlqQueue[s] # <<>> /\ dlqQueue' = [dlqQueue EXCEPT ![s] = Tail(dlqQueue[s])]
        /\ dlqStore' = IF Len(dlqStore) >= DlqStore THEN Tail(full) ELSE full
        /\ dlqMail' \in {dlqMail, dlqMail \cup {s}} /\ dlqSent' = dlqSent
    BY <1>1 DEF StoreDLQEvent
  <2>2. Head(dlqQueue[s]) \in Nat /\ Tail(dlqQueue[s]) \in Seq(Nat)
    BY <2>1 DEF RingInv
  <2>3. full \in Seq(Nat) /\ Len(full) = Len(dlqStore) + 1 /\ full # <<>>
    <3>1. dlqStore \in Seq(Nat) /\ \A x \in Nat : Append(dlqStore, x) \in Seq(Nat) /\ Len(Append(dlqStore, x)) = Len(dlqStore) + 1
      BY DEF RingInv
    <3>2. full \in Seq(Nat) /\ Len(full) = Len(dlqStore) + 1 /\ Len(dlqStore) \in Nat
      BY <2>2, <3>1
    <3> HIDE DEF full
    <3> QED
      BY <3>2
  <2> HIDE DEF full
  <2>4. Tail(full) \in Seq(Nat) /\ Len(Tail(full)) = Len(dlqStore)
    BY <2>3 DEF RingInv
  <2>5. DlqStore \in Nat /\ Len(dlqStore) \in Nat /\ Len(dlqStore) <= DlqStore
    BY OpsAlertsAssumption DEF RingInv
  <2>6. dlqStore' \in Seq(Nat) /\ Len(dlqStore') <= DlqStore
    BY <2>1, <2>3, <2>4, <2>5
  <2>7. dlqQueue' \in [DlqSubs -> Seq(Nat)]
    BY <2>1, <2>2 DEF RingInv
  <2> QED
    BY <2>1, <2>6, <2>7 DEF RingInv
<1>2. ASSUME NEW s \in DlqSubs, DLQAlert(s) PROVE RingInv'
  BY <1>2 DEF DLQAlert, RingInv
<1>3. CASE DLQHour \/ \E m \in 1..DlqMax : ReplayDLQ(m)
  BY <1>3 DEF DLQHour, ReplayDLQ, RingInv
<1>4. ASSUME NEW subject, DeadLetter(subject) PROVE RingInv'
  <2>1. dlqSent' \in Nat /\ UNCHANGED <<dlqStore, dlqMail>>
        /\ dlqQueue' = [s \in DlqSubs |-> IF DlqSubject[s] = subject THEN Append(dlqQueue[s], dlqSent') ELSE dlqQueue[s]]
    BY <1>4 DEF DeadLetter, RingInv
  <2>2. dlqQueue' \in [DlqSubs -> Seq(Nat)]
    BY <2>1 DEF RingInv
  <2> QED
    BY <2>1, <2>2 DEF RingInv
<1> QED
  BY <1>1, <1>2, <1>3, <1>4 DEF DlqNext

LEMMA RingStands == RingInv /\ UNCHANGED dlqVars => RingInv'
BY DEF RingInv, dlqVars

LEMMA EgressStarts == AlertsInit => EgressInv
BY DEF AlertsInit, EgressInv

LEMMA EgressKeeps == ASSUME EgressInv, EgressNext PROVE EgressInv'
<1>1. ASSUME NEW cur \in Traffic, CheckEgress(cur) PROVE EgressInv'
  <2>1. cur \in Nat
    BY OpsAlertsAssumption
  <2> DEFINE prev == IF baseline = NoBaseline THEN cur ELSE baseline
  <2>2. prev \in Nat
    BY <2>1 DEF EgressInv
  <2> HIDE DEF prev
  <2>3. (4 * prev + cur + 4) \div 5 \in Nat
    BY <2>1, <2>2
  <2>4. NewBaseline(cur) \in Nat
    BY <2>3 DEF NewBaseline, prev
  <2>5. baseline' = NewBaseline(cur) /\ egressMail' \in {"idle", "mail"}
    BY <1>1 DEF CheckEgress
  <2> QED
    BY <2>4, <2>5 DEF EgressInv
<1>2. CASE EgressMailed \/ Quarantine \/ EgressHour
  BY <1>2 DEF EgressMailed, Quarantine, EgressHour, EgressInv
<1> QED
  BY <1>1, <1>2 DEF EgressNext

LEMMA EgressStands == EgressInv /\ UNCHANGED egressVars => EgressInv'
BY DEF EgressInv, egressVars

LEMMA AlertsImply == PagerInv /\ AlertInv /\ RingInv /\ EgressInv => AlertsTypeOK
BY DEF PagerInv, PagerIdle, AlertInv, RingInv, EgressInv, AlertsTypeOK

-----------------------------------------------------------------------------
(* Reports: no tenant was mailed more often than the pod was started, and  *)
(* the pages read of the export are the first ones of the month.           *)

\* The invoices of a finite set have the ranks 1, 2, ..., each once.
RankIn(S, i) == Cardinality({x \in S : x <= i})

LEMMA RankFacts ==
    ASSUME NEW S \in SUBSET Nat, IsFiniteSet(S), NEW i \in S
    PROVE  /\ RankIn(S, i) \in 1..Cardinality(S)
           /\ \A j \in S : i < j => RankIn(S, i) < RankIn(S, j)
<1>1. PICK B : B = {x \in S : x <= i}
  OBVIOUS
<1>2. IsFiniteSet(B) /\ Cardinality(B) <= Cardinality(S) /\ i \in B
  BY <1>1, FS_Subset
<1>3. Cardinality(B) \in Nat /\ Cardinality(S) \in Nat /\ Cardinality(B) # 0
  BY <1>2, FS_CardinalityType, FS_EmptySet
<1>4. ASSUME NEW j \in S, i < j PROVE RankIn(S, i) < RankIn(S, j)
  <2>1. PICK C : C = {x \in S : x <= j}
    OBVIOUS
  <2>2. IsFiniteSet(C)
    BY <2>1, FS_Subset
  <2>4. B \in SUBSET C /\ j \in C /\ j \notin B
    <3>1. \A x \in B : x \in Nat /\ x \in S /\ x <= i
      BY <1>1
    <3>2. i \in Nat /\ j \in Nat
      OBVIOUS
    <3>3. j \in C
      BY <2>1, <3>2
    <3>4. j \notin B
      BY <1>4, <3>1, <3>2
    <3>5. ASSUME NEW x \in B PROVE x \in C
      BY <1>4, <2>1, <3>1, <3>2
    <3> QED
      BY <3>3, <3>4, <3>5
  <2>3. Cardinality(B) <= Cardinality(C) /\ Cardinality(B) # Cardinality(C) /\ Cardinality(C) \in Nat
    BY <2>2, <2>4, FS_Subset, FS_CardinalityType
  <2> QED
    BY <1>1, <1>3, <2>1, <2>3 DEF RankIn
<1> QED
  BY <1>1, <1>2, <1>3, <1>4 DEF RankIn

LEMMA EveryRank ==
    ASSUME NEW S \in SUBSET Nat, IsFiniteSet(S), NEW n \in 1..Cardinality(S)
    PROVE  \E i \in S : RankIn(S, i) = n
<1>1. Cardinality(S) \in Nat
  BY FS_CardinalityType
<1>2. PICK N : N = 1..Cardinality(S)
  OBVIOUS
<1>3. IsFiniteSet(N) /\ Cardinality(N) = Cardinality(S)
  BY <1>1, <1>2, FS_Interval
<1>4. PICK f : f = [i \in S |-> RankIn(S, i)]
  OBVIOUS
<1>5. f \in [S -> N]
  BY <1>2, <1>4, RankFacts
<1>6. ASSUME NEW i \in S, NEW j \in S, f[i] = f[j] PROVE i = j
  <2>1. RankIn(S, i) \in Nat /\ RankIn(S, i) = RankIn(S, j)
    BY <1>1, <1>4, <1>6, RankFacts
  <2>2. ~(i < j) /\ ~(j < i)
    BY <2>1, RankFacts
  <2> QED
    BY <2>2
<1>7. f \in Injection(S, N)
  BY <1>5, <1>6 DEF Injection, IsInjective
<1>8. f \in Surjection(S, N)
  BY <1>3, <1>7, FS_Injection
<1>9. \E i \in S : f[i] = n
  BY <1>2, <1>8 DEF Surjection
<1> QED
  BY <1>4, <1>9

\* A page that is not full is the last one.
LEMMA LastPage ==
    ASSUME NEW S \in SUBSET Nat, IsFiniteSet(S), NEW size \in Nat \ {0}, NEW from \in Nat,
           NEW B, B = {i \in S : RankIn(S, i) > from /\ RankIn(S, i) <= from + size}, Cardinality(B) < size,
           NEW i \in S
    PROVE  RankIn(S, i) <= from + size
<1> SUFFICES ASSUME RankIn(S, i) > from + size PROVE FALSE
  BY RankFacts, FS_CardinalityType
<1>1. Cardinality(S) \in Nat /\ RankIn(S, i) \in 1..Cardinality(S)
  BY RankFacts, FS_CardinalityType
<1>2. PICK N : N = (from + 1)..(from + size)
  OBVIOUS
<1>3. IsFiniteSet(N) /\ Cardinality(N) = size
  BY <1>2, FS_Interval
<1>4. IsFiniteSet(B)
  BY FS_Subset
<1>5. PICK f : f = [x \in B |-> RankIn(S, x)]
  OBVIOUS
<1>6. f \in [B -> N]
  <2>1. ASSUME NEW x \in B PROVE RankIn(S, x) \in N
    <3>1. x \in S /\ RankIn(S, x) > from /\ RankIn(S, x) <= from + size
      OBVIOUS
    <3>2. RankIn(S, x) \in 1..Cardinality(S)
      BY <3>1, RankFacts
    <3>3. RankIn(S, x) \in Nat
      BY <1>1, <3>2
    <3> QED
      BY <1>2, <3>1, <3>3
  <2> QED
    BY <1>5, <2>1
<1>7. ASSUME NEW n \in N PROVE \E x \in B : f[x] = n
  <2>1. n \in 1..Cardinality(S) /\ n > from /\ n <= from + size
    BY <1>1, <1>2
  <2>2. PICK x \in S : RankIn(S, x) = n
    BY <2>1, EveryRank
  <2> QED
    BY <1>5, <2>1, <2>2
<1>8. f \in Surjection(B, N)
  BY <1>6, <1>7 DEF Surjection
<1>9. Cardinality(N) <= Cardinality(B)
  BY <1>4, <1>8, FS_Surjection
<1> QED
  BY <1>3, <1>4, <1>9, FS_CardinalityType

\* The periods by their months.
LEMMA MonthBefore == ASSUME NEW m \in Nat PROVE PreviousMonth(m) = m - 1
BY DEF PreviousMonth, Year, Month

Stages    == {"none", "metrics", "send", "sent", "error"}
Jobs      == [pc : {"idle", "fetch", "mail", "done", "failed"}, month : Int, page : Nat, read : SUBSET InvIds,
              nodes : BOOLEAN, stage : [RepTenants -> Stages], tries : 0..(BackoffLimit + 1)]
InvRecords == [month : Int, inr : BOOLEAN, paid : BOOLEAN]
DashTasks == [pc : {"none", "store", "digest", "done", "error"}, data : Int, digest : BOOLEAN]

RepTypes ==
    /\ repMonth \in RepMonths /\ repInvoices \in [InvIds -> InvRecords]
    /\ job \in [Reports -> Jobs] /\ reported \in [ReportBatch \X RepTenants -> Nat]
    /\ attested \subseteq RepTenants \X BOOLEAN /\ gstRows \in Int \X SUBSET InvIds

\* A tenant has n mails of the Job, at most one of them of this try; if the
\* Job counts it as served and knows its address, it has one at least.
BatchOK(j, t, n) ==
    /\ n <= j.tries /\ (j.pc = "idle" => n = 0)
    /\ j.pc = "fetch" => n < j.tries
    /\ j.pc = "mail" => IF j.stage[t] \in {"sent", "error"} THEN j.stage[t] = "sent" /\ t \in Addressed => n >= 1
                        ELSE n < j.tries
    /\ j.pc = "done" /\ t \in Addressed => n >= 1

\* The pages read so far are the first invoices of the month.
UpTo(m, rank) == {i \in InRange(m) : RankIn(InRange(m), i) <= rank}
GstOK ==
    LET j == job["gst"] IN
    /\ j.pc # "idle" => j.month = repMonth - 1
    /\ j.pc = "fetch" => j.page >= 1 /\ j.read = UpTo(j.month, (j.page - 1) * PageSize)
    /\ j.pc = "mail" => j.read = InRange(j.month)
    /\ j.pc = "done" =>
          gstRows = <<repMonth - 1, {i \in InvIds : GstRow(i) /\ repInvoices[i].month = repMonth - 1}>>

\* What the dashboard has read is no newer than Lago.
MrrInv ==
    /\ lagoData \in 0..Cardinality(DashReqs) /\ mrrTask \in [DashReqs -> DashTasks]
    /\ mrrCache \in [data : Int, fresh : BOOLEAN] /\ mrrCache.data \in -1..lagoData
    /\ mrrCache.fresh => mrrCache.data >= 0
    /\ \A q \in DashReqs : mrrTask[q].data \in 0..lagoData
    /\ mrrDigests \subseteq 0..lagoData

BatchInv == \A k \in ReportBatch : \A t \in RepTenants : BatchOK(job[k], t, reported[<<k, t>>])
RepInv   == RepTypes /\ BatchInv /\ GstOK /\ MrrInv

LEMMA RepStarts == ReportingInit => RepInv
<1> SUFFICES ASSUME ReportingInit PROVE RepInv
  OBVIOUS
<1>1. /\ repMonth \in RepMonths /\ repMonth \in Int
      /\ job = [k \in Reports |-> JobIdle] /\ gstRows = <<0, {}>> /\ attested = {}
      /\ reported = [r \in ReportBatch \X RepTenants |-> 0]
  BY ReportingAssumption DEF ReportingInit
<1>2. JobIdle \in Jobs /\ JobIdle.pc = "idle" /\ JobIdle.tries = 0
  <2>1. [t \in RepTenants |-> "none"] \in [RepTenants -> Stages] /\ 0 \in 0..(BackoffLimit + 1)
    BY ReportingAssumption DEF Stages
  <2> QED
    BY <2>1 DEF JobIdle, Jobs
<1>3. repInvoices \in [InvIds -> InvRecords]
  <2>1. \A inr, paid \in BOOLEAN : \A m \in Int : [month |-> m, inr |-> inr, paid |-> paid] \in InvRecords
    BY DEF InvRecords
  <2>2. repMonth - 1 \in Int
    BY <1>1
  <2>3. \A i \in InvIds : \E inr, paid \in BOOLEAN, m \in {repMonth, repMonth - 1} :
            repInvoices[i] = [month |-> m, inr |-> inr, paid |-> paid]
    BY DEF ReportingInit
  <2>4. repInvoices = [i \in InvIds |-> repInvoices[i]]
    BY DEF ReportingInit
  <2> QED
    BY <1>1, <2>1, <2>2, <2>3, <2>4
<1>4. RepTypes
  BY <1>1, <1>2, <1>3 DEF RepTypes
<1>5. BatchInv /\ GstOK
  BY <1>1, <1>2 DEF BatchInv, BatchOK, GstOK, Reports, ReportBatch
<1>6. MrrInv
  <2>1. Cardinality(DashReqs) \in Nat
    BY ReportingAssumption, FS_CardinalityType
  <2> QED
    BY <2>1 DEF ReportingInit, MrrInv, DashTasks
<1> QED
  BY <1>4, <1>5, <1>6 DEF RepInv

-----------------------------------------------------------------------------
\* What a step may make of a Job: nothing, a start, a retry or a failure.
FirstTry(k)  == [JobIdle EXCEPT !.pc = "fetch", !.month = Window(k), !.page = 1, !.tries = 1]
Retried(j)   == [JobIdle EXCEPT !.pc = "fetch", !.month = j.month, !.page = 1, !.tries = j.tries + 1]

LEMMA FirstTryFacts ==
    ASSUME RepTypes, NEW k \in Reports, NEW j, j = FirstTry(k)
    PROVE  j \in Jobs /\ j.pc = "fetch" /\ j.month = Window(k) /\ j.page = 1 /\ j.read = {} /\ j.tries = 1
<1>1. Window(k) \in Int
  <2>1. repMonth \in Nat
    BY ReportingAssumption DEF RepTypes
  <2> QED
    BY <2>1 DEF Window, ReportingWindow, PreviousMonth, QuarterPeriod, Year, Month
<1>2. 1 \in 0..(BackoffLimit + 1)
  BY ReportingAssumption
<1> QED
  BY <1>1, <1>2 DEF FirstTry, JobIdle, Jobs, Stages

LEMMA RetriedFacts ==
    ASSUME NEW old \in Jobs, NEW j, j = Retried(old), ~(old.tries > BackoffLimit)
    PROVE  j \in Jobs /\ j.pc = "fetch" /\ j.month = old.month /\ j.page = 1 /\ j.read = {} /\ j.tries = old.tries + 1
<1>1. old.month \in Int /\ old.tries + 1 \in 0..(BackoffLimit + 1)
  BY ReportingAssumption DEF Jobs
<1> QED
  BY <1>1 DEF Retried, JobIdle, Jobs, Stages

\* The pod is started again or the Job has failed; either way the mails stand.
LEMMA ExitFacts ==
    ASSUME RepTypes, NEW k \in Reports, ExitsWithError(k)
    PROVE  \E j \in Jobs : /\ job' = [job EXCEPT ![k] = j] /\ j.month = job[k].month
                           /\ \/ j.pc = "failed" /\ j.tries = job[k].tries
                              \/ j.pc = "fetch" /\ j.page = 1 /\ j.read = {} /\ j.tries = job[k].tries + 1
<1>1. PICK old \in Jobs : old = job[k]
  BY DEF RepTypes
<1>2. CASE old.tries > BackoffLimit
  <2>1. PICK j : j = [old EXCEPT !.pc = "failed"]
    OBVIOUS
  <2>2. j \in Jobs /\ j.pc = "failed" /\ j.month = old.month /\ j.tries = old.tries
    BY <2>1 DEF Jobs
  <2>3. job' = [job EXCEPT ![k] = j]
    BY <1>1, <1>2, <2>1 DEF ExitsWithError
  <2> QED
    BY <1>1, <2>2, <2>3
<1>3. CASE ~(old.tries > BackoffLimit)
  <2>1. PICK j : j = Retried(old)
    OBVIOUS
  <2>2. /\ j \in Jobs /\ j.pc = "fetch" /\ j.month = old.month /\ j.page = 1 /\ j.read = {}
        /\ j.tries = old.tries + 1
    BY <1>3, <2>1, RetriedFacts
  <2>3. job' = [job EXCEPT ![k] = j]
    BY <1>1, <1>3, <2>1 DEF ExitsWithError, Retried
  <2> QED
    BY <1>1, <2>2, <2>3
<1> QED
  BY <1>2, <1>3

LEMMA SameGst ==
    ASSUME GstOK, UNCHANGED <<repMonth, repInvoices, gstRows>>, job'["gst"] = job["gst"]
    PROVE  GstOK'
<1>1. \A m : InRange(m)' = InRange(m)
  BY DEF InRange
<1>2. \A m, rank : UpTo(m, rank)' = UpTo(m, rank)
  BY <1>1 DEF UpTo, RankIn
<1>3. \A i : GstRow(i)' <=> GstRow(i)
  BY DEF GstRow
<1> QED
  BY <1>1, <1>2, <1>3 DEF GstOK

\* A step of one Job, which may mail one of its tenants.
LEMMA JobStep ==
    ASSUME RepInv, NEW k \in Reports, NEW j \in Jobs, job' = [job EXCEPT ![k] = j],
           UNCHANGED <<repMonth, repInvoices, mrrVars>>,
           reported' \in [ReportBatch \X RepTenants -> Nat],
           attested' \subseteq RepTenants \X BOOLEAN, gstRows' \in Int \X SUBSET InvIds,
           \A r \in ReportBatch \X RepTenants : r[1] # k => reported'[r] = reported[r],
           k \in ReportBatch => gstRows' = gstRows /\ \A t \in RepTenants : BatchOK(j, t, reported'[<<k, t>>]),
           k = "gst" => GstOK'
    PROVE  RepInv'
<1>1. job \in [Reports -> Jobs] /\ job' \in [Reports -> Jobs] /\ job'[k] = j
      /\ \A other \in Reports : other # k => job'[other] = job[other]
  BY DEF RepInv, RepTypes
<1>2. RepTypes'
  BY <1>1 DEF RepInv, RepTypes
<1>3. BatchInv'
  <2> SUFFICES ASSUME NEW o \in ReportBatch, NEW t \in RepTenants PROVE BatchOK(job'[o], t, reported'[<<o, t>>])
    BY DEF BatchInv
  <2>1. CASE o = k
    BY <1>1, <2>1
  <2>2. CASE o # k
    <3>1. job'[o] = job[o] /\ reported'[<<o, t>>] = reported[<<o, t>>]
      BY <1>1, <2>2 DEF Reports
    <3>2. BatchOK(job[o], t, reported[<<o, t>>])
      BY DEF RepInv, BatchInv
    <3> QED
      BY <3>1, <3>2
  <2> QED
    BY <2>1, <2>2
<1>4. GstOK'
  <2>1. CASE k # "gst"
    <3>1. k \in ReportBatch /\ job'["gst"] = job["gst"] /\ gstRows' = gstRows
      BY <1>1, <2>1 DEF Reports, ReportBatch
    <3>2. GstOK /\ repMonth' = repMonth /\ repInvoices' = repInvoices
      BY DEF RepInv
    <3> QED
      BY <3>1, <3>2, SameGst
  <2> QED
    BY <2>1
<1>5. MrrInv'
  BY DEF RepInv, MrrInv, mrrVars
<1> QED
  BY <1>2, <1>3, <1>4, <1>5 DEF RepInv

-----------------------------------------------------------------------------
\* Only the Job moves.
NoMail == UNCHANGED <<repMonth, repInvoices, reported, gstRows, attested, mrrVars>>

LEMMA QuietStep ==
    ASSUME RepInv, NEW k \in Reports, NEW j \in Jobs, job' = [job EXCEPT ![k] = j], NoMail,
           k \in ReportBatch => \A t \in RepTenants : BatchOK(j, t, reported[<<k, t>>]),
           k = "gst" => GstOK'
    PROVE  RepInv'
<1>1. /\ UNCHANGED <<repMonth, repInvoices, mrrVars>> /\ reported' = reported /\ attested' = attested
      /\ gstRows' = gstRows
  BY DEF NoMail
<1>2. /\ reported \in [ReportBatch \X RepTenants -> Nat] /\ attested \subseteq RepTenants \X BOOLEAN
      /\ gstRows \in Int \X SUBSET InvIds
  BY DEF RepInv, RepTypes
<1> QED
  BY <1>1, <1>2, JobStep

\* The export begins, or begins again, with nothing read.
LEMMA NothingRead ==
    ASSUME RepInv, job'["gst"].pc = "fetch", job'["gst"].page = 1, job'["gst"].read = {},
           job'["gst"].month = repMonth - 1, UNCHANGED <<repMonth, repInvoices>>
    PROVE  GstOK'
<1>1. PICK S : S = InRange(repMonth - 1)'
  OBVIOUS
<1>2. S \in SUBSET Nat /\ IsFiniteSet(S)
  BY <1>1, ReportingAssumption, FS_Subset DEF InRange
<1>3. \A i \in S : ~(RankIn(S, i) <= 0)
  BY <1>2, RankFacts, FS_CardinalityType
<1>4. UpTo(repMonth - 1, 0)' = {}
  BY <1>1, <1>3 DEF UpTo
<1>5. (1 - 1) * PageSize = 0
  BY ReportingAssumption
<1> QED
  BY <1>4, <1>5 DEF GstOK

LEMMA GstFailed ==
    ASSUME job'["gst"].pc = "failed", job'["gst"].month = repMonth - 1, UNCHANGED repMonth
    PROVE  GstOK'
BY DEF GstOK

LEMMA StartKeeps == ASSUME RepInv, NEW k \in Reports, StartReport(k) PROVE RepInv'
<1>1. PICK j : j = FirstTry(k)
  OBVIOUS
<1>2. j \in Jobs /\ j.pc = "fetch" /\ j.month = Window(k) /\ j.page = 1 /\ j.read = {} /\ j.tries = 1
  BY <1>1, FirstTryFacts DEF RepInv
<1>3. job' = [job EXCEPT ![k] = j] /\ NoMail /\ job[k].pc = "idle"
  BY <1>1 DEF StartReport, FirstTry, NoMail, JobAt
<1>4. job \in [Reports -> Jobs] /\ job'[k] = j /\ repMonth \in Nat
  BY <1>3, ReportingAssumption DEF RepInv, RepTypes
<1>5. ASSUME k \in ReportBatch, NEW t \in RepTenants PROVE BatchOK(j, t, reported[<<k, t>>])
  BY <1>2, <1>3, <1>5 DEF RepInv, BatchInv, BatchOK
<1>6. ASSUME k = "gst" PROVE GstOK'
  <2>1. j.month = repMonth - 1
    BY <1>2, <1>4, <1>6, MonthBefore DEF Window
  <2> QED
    BY <1>2, <1>3, <1>4, <1>6, <2>1, NothingRead DEF NoMail
<1> QED
  BY <1>2, <1>3, <1>5, <1>6, QuietStep

\* A pod that ends before its mails are complete leaves the Job as it should be.
LEMMA ExitKeeps ==
    ASSUME RepInv, NEW k \in Reports, job[k].pc \in {"fetch", "mail"}, ExitsWithError(k), NoMail
    PROVE  RepInv'
<1>1. PICK j \in Jobs : /\ job' = [job EXCEPT ![k] = j] /\ j.month = job[k].month
                       /\ \/ j.pc = "failed" /\ j.tries = job[k].tries
                          \/ j.pc = "fetch" /\ j.page = 1 /\ j.read = {} /\ j.tries = job[k].tries + 1
  BY ExitFacts DEF RepInv
<1>2. job \in [Reports -> Jobs] /\ job'[k] = j /\ job[k].tries \in Nat
  BY <1>1, ReportingAssumption DEF RepInv, RepTypes, Jobs
<1>3. ASSUME k \in ReportBatch, NEW t \in RepTenants PROVE BatchOK(j, t, reported[<<k, t>>])
  <2>1. reported[<<k, t>>] \in Nat /\ reported[<<k, t>>] <= job[k].tries
    BY <1>3 DEF RepInv, RepTypes, BatchInv, BatchOK
  <2> QED
    BY <1>1, <1>2, <2>1 DEF BatchOK
<1>4. ASSUME k = "gst" PROVE GstOK'
  <2>1. j.month = repMonth - 1 /\ UNCHANGED <<repMonth, repInvoices>>
    BY <1>1, <1>4 DEF RepInv, GstOK, NoMail
  <2> QED
    BY <1>1, <1>2, <1>4, <2>1, NothingRead, GstFailed
<1> QED
  BY <1>1, <1>3, <1>4, QuietStep

LEMMA CrashKeeps == ASSUME RepInv, NEW k \in Reports, JobCrashes(k) PROVE RepInv'
BY ExitKeeps DEF JobCrashes, NoMail

\* One page more of the month is read, and the last page completes it.
LEMMA ExportPageReads ==
    ASSUME RepTypes, NEW m, NEW p \in Nat, p >= 1
    PROVE  /\ UpTo(m, (p - 1) * PageSize) \cup PageOf(m, p) = UpTo(m, ((p + 1) - 1) * PageSize)
           /\ Cardinality(PageOf(m, p)) < PageSize => UpTo(m, ((p + 1) - 1) * PageSize) = InRange(m)
           /\ PageOf(m, p) \subseteq InvIds
<1>1. PICK S : S = InRange(m)
  OBVIOUS
<1>2. S \in SUBSET Nat /\ IsFiniteSet(S) /\ S \subseteq InvIds
  BY <1>1, ReportingAssumption, FS_Subset DEF InRange
<1>3. PICK from \in Nat : from = (p - 1) * PageSize
  <2>1. p - 1 \in Nat /\ PageSize \in Nat
    BY ReportingAssumption
  <2> QED
    BY <2>1
<1>4. p * PageSize = from + PageSize /\ ((p + 1) - 1) * PageSize = p * PageSize /\ PageSize \in Nat \ {0}
  BY <1>3, ReportingAssumption
<1>5. PageOf(m, p) = {i \in S : RankIn(S, i) > from /\ RankIn(S, i) <= from + PageSize}
  BY <1>1, <1>3, <1>4 DEF PageOf, RankIn
<1>6. UpTo(m, (p - 1) * PageSize) = {i \in S : RankIn(S, i) <= from}
  BY <1>1, <1>3 DEF UpTo
<1>7. UpTo(m, ((p + 1) - 1) * PageSize) = {i \in S : RankIn(S, i) <= from + PageSize}
  BY <1>1, <1>4 DEF UpTo
<1>8. \A i \in S : RankIn(S, i) \in Nat
  BY <1>2, RankFacts, FS_CardinalityType
<1>9. {i \in S : RankIn(S, i) <= from} \cup PageOf(m, p) = {i \in S : RankIn(S, i) <= from + PageSize}
  <2>1. ASSUME NEW i \in S
        PROVE  RankIn(S, i) <= from \/ (RankIn(S, i) > from /\ RankIn(S, i) <= from + PageSize)
                 <=> RankIn(S, i) <= from + PageSize
    BY <1>3, <1>4, <1>8
  <2> QED
    BY <1>5, <2>1
<1>10. ASSUME Cardinality(PageOf(m, p)) < PageSize
       PROVE  {i \in S : RankIn(S, i) <= from + PageSize} = S
  <2>1. \A i \in S : RankIn(S, i) <= from + PageSize
    BY <1>2, <1>3, <1>4, <1>5, <1>10, LastPage
  <2> QED
    BY <2>1
<1> QED
  BY <1>1, <1>2, <1>5, <1>6, <1>7, <1>9, <1>10

LEMMA FetchKeeps == ASSUME RepInv, NEW k \in Reports, FetchPage(k) PROVE RepInv'
<1>1. PICK old \in Jobs : old = job[k]
  BY DEF RepInv, RepTypes
<1>2. PICK batch : batch = PageOf(old.month, old.page)
  OBVIOUS
<1>3. old.pc = "fetch" /\ k # "compliance" /\ NoMail
  BY <1>1 DEF FetchPage, JobAt, NoMail
<1>4. batch \subseteq InvIds
  BY <1>2 DEF PageOf, InRange
<1>5. PICK stage \in [RepTenants -> Stages] : stage = [t \in RepTenants |-> "metrics"]
  BY DEF Stages
<1>8. job' = [job EXCEPT ![k] =
                IF Cardinality(batch) < PageSize
                THEN [old EXCEPT !.pc = "mail", !.read = old.read \cup batch, !.stage = stage]
                ELSE [old EXCEPT !.page = old.page + 1, !.read = old.read \cup batch]]
  <2>1. PICK next : next =
            IF Cardinality(batch) < PageSize
            THEN [old EXCEPT !.pc = "mail", !.read = old.read \cup batch,
                             !.stage = [t \in RepTenants |-> "metrics"]]
            ELSE [old EXCEPT !.page = old.page + 1, !.read = old.read \cup batch]
    OBVIOUS
  <2>2. job' = [job EXCEPT ![k] = next]
    BY <1>1, <1>2, <2>1 DEF FetchPage
  <2>3. next = IF Cardinality(batch) < PageSize
               THEN [old EXCEPT !.pc = "mail", !.read = old.read \cup batch, !.stage = stage]
               ELSE [old EXCEPT !.page = old.page + 1, !.read = old.read \cup batch]
    BY <1>5, <2>1
  <2> QED
    BY <2>2, <2>3, Zenon
<1>9. old.page \in Nat /\ old.page + 1 \in Nat /\ old.read \cup batch \in SUBSET InvIds
  BY <1>4 DEF Jobs
<1>6. CASE Cardinality(batch) < PageSize
  <2>1. PICK j : j = [old EXCEPT !.pc = "mail", !.read = old.read \cup batch, !.stage = stage]
    OBVIOUS
  <2>2. /\ j \in Jobs /\ j.pc = "mail" /\ j.month = old.month /\ j.read = old.read \cup batch
        /\ j.stage = stage /\ j.tries = old.tries
    BY <1>9, <2>1 DEF Jobs
  <2>3. job' = [job EXCEPT ![k] = j]
    BY <1>6, <1>8, <2>1
  <2>4. job'[k] = j
    BY <2>3 DEF RepInv, RepTypes
  <2>5. ASSUME k \in ReportBatch, NEW t \in RepTenants PROVE BatchOK(j, t, reported[<<k, t>>])
    BY <1>1, <1>3, <1>5, <2>2, <2>5 DEF RepInv, BatchInv, BatchOK
  <2>6. ASSUME k = "gst" PROVE GstOK'
    <3>1. old.page \in Nat /\ old.page >= 1 /\ old.month = repMonth - 1
          /\ old.read = UpTo(old.month, (old.page - 1) * PageSize)
      BY <1>1, <1>3, <2>6 DEF RepInv, GstOK, Jobs
    <3>2. j.read = InRange(old.month)
      BY <1>2, <1>6, <2>2, <3>1, ExportPageReads DEF RepInv
    <3>3. \A m : InRange(m)' = InRange(m)
      BY <1>3 DEF InRange, NoMail
    <3> QED
      BY <1>3, <2>2, <2>4, <2>6, <3>1, <3>2, <3>3 DEF GstOK, NoMail
  <2> QED
    BY <1>3, <2>2, <2>3, <2>5, <2>6, QuietStep
<1>7. CASE ~(Cardinality(batch) < PageSize)
  <2>1. PICK j : j = [old EXCEPT !.page = old.page + 1, !.read = old.read \cup batch]
    OBVIOUS
  <2>2. /\ j \in Jobs /\ j.pc = "fetch" /\ j.month = old.month /\ j.read = old.read \cup batch
        /\ j.page = old.page + 1 /\ j.tries = old.tries
    BY <1>3, <1>9, <2>1 DEF Jobs
  <2>3. job' = [job EXCEPT ![k] = j]
    BY <1>7, <1>8, <2>1
  <2>4. job'[k] = j
    BY <2>3 DEF RepInv, RepTypes
  <2>5. ASSUME k \in ReportBatch, NEW t \in RepTenants PROVE BatchOK(j, t, reported[<<k, t>>])
    BY <1>1, <1>3, <2>2, <2>5 DEF RepInv, BatchInv, BatchOK
  <2>6. ASSUME k = "gst" PROVE GstOK'
    <3>1. old.page \in Nat /\ old.page >= 1 /\ old.month = repMonth - 1
          /\ old.read = UpTo(old.month, (old.page - 1) * PageSize)
      BY <1>1, <1>3, <2>6 DEF RepInv, GstOK, Jobs
    <3>2. j.read = UpTo(j.month, (j.page - 1) * PageSize) /\ j.page >= 1
      BY <1>2, <2>2, <3>1, ExportPageReads DEF RepInv
    <3>3. \A m : InRange(m)' = InRange(m)
      BY <1>3 DEF InRange, NoMail
    <3>4. \A m, rank : UpTo(m, rank)' = UpTo(m, rank)
      BY <3>3 DEF UpTo, RankIn
    <3> QED
      BY <1>3, <2>2, <2>4, <2>6, <3>1, <3>2, <3>4 DEF GstOK, NoMail
  <2> QED
    BY <1>3, <2>2, <2>3, <2>5, <2>6, QuietStep
<1> QED
  BY <1>6, <1>7

\* The nodes are listed, for the residency report alone.
LEMMA NodesKeep == RepInv /\ FetchNodes => RepInv'
<1> SUFFICES ASSUME RepInv, FetchNodes PROVE RepInv'
  OBVIOUS
<1>1. PICK k : k = "compliance"
  OBVIOUS
<1>2. k \in ReportBatch /\ k \in Reports /\ k # "gst"
  BY <1>1 DEF ReportBatch, Reports
<1>3. PICK old \in Jobs : old = job[k]
  BY <1>2 DEF RepInv, RepTypes
<1>4. PICK stage \in [RepTenants -> Stages] : stage = [t \in RepTenants |-> "metrics"]
  BY DEF Stages
<1>5. PICK listed \in BOOLEAN : job' = [job EXCEPT ![k] = [@ EXCEPT !.pc = "mail", !.nodes = listed, !.stage = stage]]
  BY <1>1, <1>4 DEF FetchNodes
<1>6. old.pc = "fetch" /\ NoMail
  BY <1>1, <1>3 DEF FetchNodes, JobAt, NoMail
<1>7. PICK j : j = [old EXCEPT !.pc = "mail", !.nodes = listed, !.stage = stage]
  OBVIOUS
<1>8. j \in Jobs /\ j.pc = "mail" /\ j.stage = stage /\ j.tries = old.tries
  BY <1>7 DEF Jobs
<1>9. job' = [job EXCEPT ![k] = j]
  BY <1>3, <1>5, <1>7
<1>10. \A t \in RepTenants : BatchOK(j, t, reported[<<k, t>>])
  BY <1>2, <1>3, <1>4, <1>6, <1>8 DEF RepInv, BatchInv, BatchOK
<1> QED
  BY <1>2, <1>6, <1>8, <1>9, <1>10, QuietStep

\* A tenant that was not served yet has another stage, which is not the sent one.
LEMMA StageMoves ==
    ASSUME RepInv, NEW k \in ReportBatch, NEW t \in RepTenants, NEW s \in Stages \ {"sent"},
           job[k].pc = "mail", job[k].stage[t] \notin {"sent", "error"}, job' = [job EXCEPT ![k].stage[t] = s], NoMail
    PROVE  RepInv'
<1>1. k \in Reports
  BY DEF Reports
<1>2. PICK old \in Jobs : old = job[k]
  BY <1>1 DEF RepInv, RepTypes
<1>3. PICK stage : stage = [old.stage EXCEPT ![t] = s]
  OBVIOUS
<1>4. old.stage \in [RepTenants -> Stages] /\ stage \in [RepTenants -> Stages]
      /\ \A u \in RepTenants : stage[u] = IF u = t THEN s ELSE old.stage[u]
  BY <1>3 DEF Jobs
<1>5. PICK j : j = [old EXCEPT !.stage = stage]
  OBVIOUS
<1>6. j \in Jobs /\ j.pc = old.pc /\ j.stage = stage /\ j.tries = old.tries
  BY <1>4, <1>5 DEF Jobs
<1>7. job' = [job EXCEPT ![k] = j]
  BY <1>2, <1>3, <1>5
<1>8. ASSUME NEW u \in RepTenants PROVE BatchOK(j, u, reported[<<k, u>>])
  <2>1. BatchOK(old, u, reported[<<k, u>>])
    BY <1>2 DEF RepInv, BatchInv
  <2> QED
    BY <1>2, <1>4, <1>6, <2>1 DEF BatchOK
<1>9. k # "gst"
  BY DEF ReportBatch
<1> QED
  BY <1>1, <1>6, <1>7, <1>8, <1>9, QuietStep

LEMMA ReadKeeps == ASSUME RepInv, NEW k \in Reports, NEW t \in RepTenants, ReadTenant(k, t) PROVE RepInv'
<1>1. PICK s \in {"send", "error"} : job' = [job EXCEPT ![k].stage[t] = s]
  BY DEF ReadTenant
<1>2. s \in Stages \ {"sent"}
  BY <1>1 DEF Stages
<1>3. k \in ReportBatch /\ job[k].pc = "mail" /\ job[k].stage[t] = "metrics" /\ NoMail
  BY DEF ReadTenant, JobAt, NoMail
<1> QED
  BY <1>1, <1>2, <1>3, StageMoves

LEMMA SendReportKeeps == ASSUME RepInv, NEW k \in Reports, NEW t \in RepTenants, SendReport(k, t) PROVE RepInv'
<1>1. k \in ReportBatch /\ job[k].pc = "mail" /\ job[k].stage[t] = "send" /\ k # "gst"
  BY DEF SendReport, JobAt, ReportBatch
<1>2. PICK s \in {"sent", "error"} :
         /\ job' = [job EXCEPT ![k].stage[t] = s]
         /\ \/ t \in Addressed /\ reported' = [reported EXCEPT ![<<k, t>>] = @ + 1]
            \/ (t \in Addressed => s = "error") /\ UNCHANGED reported
         /\ attested' = IF k = "compliance" /\ s = "sent"
                        THEN attested \cup {<<t, job[k].nodes>>} ELSE attested
  BY DEF SendReport
<1>3. PICK old \in Jobs : old = job[k]
  BY DEF RepInv, RepTypes
<1>4. PICK stage : stage = [old.stage EXCEPT ![t] = s]
  OBVIOUS
<1>5. old.stage \in [RepTenants -> Stages] /\ stage \in [RepTenants -> Stages]
      /\ \A u \in RepTenants : stage[u] = IF u = t THEN s ELSE old.stage[u]
  BY <1>4 DEF Jobs, Stages
<1>6. PICK j : j = [old EXCEPT !.stage = stage]
  OBVIOUS
<1>7. j \in Jobs /\ j.pc = old.pc /\ j.stage = stage /\ j.tries = old.tries /\ old.nodes \in BOOLEAN
  BY <1>5, <1>6 DEF Jobs
<1>8. job' = [job EXCEPT ![k] = j]
  BY <1>2, <1>3, <1>4, <1>6
<1>9. /\ reported \in [ReportBatch \X RepTenants -> Nat] /\ attested \subseteq RepTenants \X BOOLEAN
      /\ gstRows \in Int \X SUBSET InvIds
  BY DEF RepInv, RepTypes
<1>10. PICK n \in {0, 1} :
          /\ reported' \in [ReportBatch \X RepTenants -> Nat]
          /\ \A r \in ReportBatch \X RepTenants :
                reported'[r] = IF r = <<k, t>> THEN reported[r] + n ELSE reported[r]
          /\ t \in Addressed /\ s = "sent" => n = 1
  <2>1. CASE t \in Addressed /\ reported' = [reported EXCEPT ![<<k, t>>] = @ + 1]
    <3>1. /\ reported' \in [ReportBatch \X RepTenants -> Nat]
          /\ \A r \in ReportBatch \X RepTenants :
                reported'[r] = IF r = <<k, t>> THEN reported[r] + 1 ELSE reported[r]
      BY <1>1, <1>9, <2>1
    <3> QED
      BY <3>1
  <2>2. CASE (t \in Addressed => s = "error") /\ UNCHANGED reported
    <3>1. \A r \in ReportBatch \X RepTenants :
             reported'[r] = IF r = <<k, t>> THEN reported[r] + 0 ELSE reported[r]
      BY <1>9, <2>2
    <3> QED
      BY <1>9, <2>2, <3>1
  <2> QED
    BY <1>2, <2>1, <2>2
<1>11. attested' \subseteq RepTenants \X BOOLEAN
  BY <1>2, <1>3, <1>7, <1>9
<1>12. ASSUME NEW u \in RepTenants PROVE BatchOK(j, u, reported'[<<k, u>>])
  <2>1. BatchOK(old, u, reported[<<k, u>>]) /\ old.pc = "mail" /\ old.stage[t] = "send"
    BY <1>1, <1>3 DEF RepInv, BatchInv
  <2>2. reported[<<k, u>>] \in Nat /\ old.tries \in Nat
    BY <1>1, <1>3, <1>9, ReportingAssumption DEF Jobs
  <2>3. reported'[<<k, u>>] = IF u = t THEN reported[<<k, u>>] + n ELSE reported[<<k, u>>]
    BY <1>1, <1>10
  <2>4. CASE u = t
    <3>1. reported[<<k, t>>] < old.tries /\ j.stage[t] = s
      BY <1>5, <1>7, <2>1, <2>4 DEF BatchOK
    <3> QED
      BY <1>7, <1>10, <2>1, <2>2, <2>3, <2>4, <3>1 DEF BatchOK
  <2>5. CASE u # t
    <3>1. j.stage[u] = old.stage[u]
      BY <1>5, <1>7, <2>5
    <3> QED
      BY <1>7, <2>1, <2>3, <2>5, <3>1 DEF BatchOK
  <2> QED
    BY <2>4, <2>5
<1>13. UNCHANGED <<repMonth, repInvoices, mrrVars>> /\ gstRows' = gstRows
  BY DEF SendReport
<1>14. \A r \in ReportBatch \X RepTenants : r[1] # k => reported'[r] = reported[r]
  BY <1>10
<1> QED
  BY <1>1, <1>7, <1>8, <1>9, <1>10, <1>11, <1>12, <1>13, <1>14, JobStep

LEMMA FinishKeeps == ASSUME RepInv, NEW k \in Reports, FinishBatch(k) PROVE RepInv'
<1>1. /\ k \in ReportBatch /\ k # "gst" /\ job[k].pc = "mail" /\ NoMail
      /\ \A t \in RepTenants : job[k].stage[t] \in {"sent", "error"}
  BY DEF FinishBatch, JobAt, ReportBatch, NoMail
<1>2. CASE \E t \in RepTenants : job[k].stage[t] = "error"
  BY <1>1, <1>2, ExitKeeps DEF FinishBatch
<1>3. CASE ~ \E t \in RepTenants : job[k].stage[t] = "error"
  <2>1. PICK old \in Jobs : old = job[k]
    BY DEF RepInv, RepTypes
  <2>2. PICK j : j = [old EXCEPT !.pc = "done"]
    OBVIOUS
  <2>3. j \in Jobs /\ j.pc = "done" /\ j.tries = old.tries
    BY <2>2 DEF Jobs
  <2>4. job' = [job EXCEPT ![k] = j]
    BY <1>3, <2>1, <2>2 DEF FinishBatch, JobGo
  <2>5. \A t \in RepTenants : BatchOK(j, t, reported[<<k, t>>])
    BY <1>1, <1>3, <2>1, <2>3 DEF RepInv, BatchInv, BatchOK
  <2> QED
    BY <1>1, <2>3, <2>4, <2>5, QuietStep
<1> QED
  BY <1>2, <1>3

LEMMA ExportKeeps == RepInv /\ ExportGst => RepInv'
<1> SUFFICES ASSUME RepInv, ExportGst PROVE RepInv'
  OBVIOUS
<1>1. PICK k : k = "gst"
  OBVIOUS
<1>2. k \in Reports /\ k \notin ReportBatch /\ job[k].pc = "mail"
  BY <1>1 DEF ExportGst, JobAt, Reports, ReportBatch
<1>3. CASE gstRows' = gstRows /\ ExitsWithError("gst")
  <2>1. ExitsWithError(k) /\ NoMail
    BY <1>1, <1>3 DEF ExportGst, NoMail
  <2> QED
    BY <1>2, <2>1, ExitKeeps
<1>4. CASE gstRows' = <<job["gst"].month, {i \in job["gst"].read : GstRow(i)}>> /\ JobGo("gst", "done")
  <2>1. PICK old \in Jobs : old = job[k]
    BY <1>2 DEF RepInv, RepTypes
  <2>2. PICK j : j = [old EXCEPT !.pc = "done"]
    OBVIOUS
  <2>3. j \in Jobs /\ j.pc = "done" /\ j.month = old.month
    BY <2>2 DEF Jobs
  <2>4. job' = [job EXCEPT ![k] = j]
    BY <1>1, <1>4, <2>1, <2>2 DEF JobGo
  <2>5. UNCHANGED <<repMonth, repInvoices, mrrVars>> /\ reported' = reported /\ attested' = attested
    BY DEF ExportGst
  <2>6. old.month = repMonth - 1 /\ old.read = InRange(old.month)
    BY <1>1, <1>2, <2>1 DEF RepInv, GstOK
  <2>7. gstRows' = <<old.month, {i \in old.read : GstRow(i)}>>
    BY <1>1, <1>4, <2>1
  <2>8. gstRows' = <<repMonth - 1, {i \in InvIds : GstRow(i) /\ repInvoices[i].month = repMonth - 1}>>
    BY <2>6, <2>7 DEF InRange
  <2>9. gstRows' \in Int \X SUBSET InvIds
    <3>1. old.month \in Int /\ {i \in old.read : GstRow(i)} \in SUBSET InvIds
      BY <2>1 DEF Jobs
    <3> QED
      BY <2>7, <3>1
  <2>10. job'["gst"] = j
    BY <1>1, <1>2, <2>4 DEF RepInv, RepTypes
  <2>11. GstOK'
    BY <2>3, <2>5, <2>6, <2>8, <2>10 DEF GstOK, GstRow
  <2>12. reported \in [ReportBatch \X RepTenants -> Nat] /\ attested \subseteq RepTenants \X BOOLEAN
    BY DEF RepInv, RepTypes
  <2> QED
    BY <1>1, <1>2, <2>3, <2>4, <2>5, <2>9, <2>11, <2>12, JobStep
<1> QED
  BY <1>3, <1>4 DEF ExportGst

\* A residency report on demand is outside the Jobs.
LEMMA DemandKeeps == ASSUME RepInv, NEW t \in RepTenants, ComplianceOnDemand(t) PROVE RepInv'
<1>1. UNCHANGED <<repMonth, repInvoices, job, reported, gstRows, mrrVars>>
  BY DEF ComplianceOnDemand
<1>2. RepTypes'
  BY DEF ComplianceOnDemand, RepInv, RepTypes
<1>3. GstOK'
  BY <1>1, SameGst DEF RepInv
<1> QED
  BY <1>1, <1>2, <1>3 DEF RepInv, BatchInv, MrrInv, mrrVars

\* The dashboard touches no report.
LEMMA RepReadsStand ==
    ASSUME RepInv, UNCHANGED reportVars, MrrInv' PROVE RepInv'
<1>1. UNCHANGED <<repMonth, repInvoices, job, reported, gstRows, attested>>
  BY DEF reportVars
<1>2. GstOK'
  BY <1>1, SameGst DEF RepInv
<1> QED
  BY <1>1, <1>2 DEF RepInv, RepTypes, BatchInv

LEMMA DashKeeps == RepInv /\ DashNext => RepInv'
<1> SUFFICES ASSUME RepInv, DashNext PROVE RepInv'
  OBVIOUS
<1>1. MrrInv /\ lagoData \in Nat /\ Cardinality(DashReqs) \in Nat
  BY ReportingAssumption, FS_CardinalityType DEF RepInv, MrrInv
<1>2. ASSUME LagoChanges PROVE MrrInv' /\ UNCHANGED reportVars
  BY <1>1, <1>2 DEF LagoChanges, MrrInv
<1>3. ASSUME CacheExpires PROVE MrrInv' /\ UNCHANGED reportVars
  BY <1>1, <1>3 DEF CacheExpires, MrrInv
<1>4. ASSUME NEW q \in DashReqs, NEW force \in BOOLEAN, NEW dg \in BOOLEAN, GetMetrics(q, force, dg)
      PROVE  MrrInv' /\ UNCHANGED reportVars
  <2>1. PICK task : task = IF ~force /\ mrrCache.fresh THEN [pc |-> "done", data |-> mrrCache.data, digest |-> FALSE]
                         ELSE [pc |-> "store", data |-> lagoData, digest |-> dg]
    OBVIOUS
  <2>2. mrrTask' = [mrrTask EXCEPT ![q] = task] /\ UNCHANGED <<reportVars, lagoData, mrrCache, mrrDigests>>
    BY <1>4, <2>1 DEF GetMetrics
  <2>3. task \in DashTasks /\ task.data \in 0..lagoData
    BY <1>1, <2>1 DEF MrrInv, DashTasks
  <2> QED
    BY <1>1, <2>2, <2>3 DEF MrrInv
<1>5. ASSUME NEW q \in DashReqs, StoreMetrics(q) PROVE MrrInv' /\ UNCHANGED reportVars
  <2>1. PICK t \in DashTasks : t = mrrTask[q]
    BY <1>1 DEF MrrInv
  <2>2. t.data \in 0..lagoData /\ UNCHANGED <<reportVars, lagoData, mrrDigests>>
    BY <1>1, <1>5, <2>1 DEF MrrInv, StoreMetrics
  <2>3. PICK pc \in {"digest", "done", "error"} : mrrTask' = [mrrTask EXCEPT ![q] = [t EXCEPT !.pc = pc]]
    BY <1>1, <1>5, <2>1 DEF StoreMetrics, MrrInv
  <2>4. PICK task : task = [t EXCEPT !.pc = pc]
    OBVIOUS
  <2>5. task \in DashTasks /\ task.data = t.data /\ mrrTask' = [mrrTask EXCEPT ![q] = task]
    BY <2>3, <2>4 DEF DashTasks
  <2>6. mrrCache' = mrrCache \/ mrrCache' = [data |-> t.data, fresh |-> TRUE]
    BY <1>5, <2>1 DEF StoreMetrics
  <2>7. /\ mrrCache' \in [data : Int, fresh : BOOLEAN] /\ mrrCache'.data \in -1..lagoData
        /\ mrrCache'.fresh => mrrCache'.data >= 0
    <3>1. CASE mrrCache' = mrrCache
      BY <1>1, <3>1 DEF MrrInv
    <3>2. CASE mrrCache' = [data |-> t.data, fresh |-> TRUE]
      <4>1. t.data \in Int /\ t.data >= 0 /\ t.data \in -1..lagoData
        BY <1>1, <2>2
      <4> QED
        BY <3>2, <4>1
    <3> QED
      BY <2>6, <3>1, <3>2
  <2> QED
    BY <1>1, <2>1, <2>2, <2>5, <2>7 DEF MrrInv
<1>6. ASSUME NEW q \in DashReqs, SendDailyDigest(q) PROVE MrrInv' /\ UNCHANGED reportVars
  <2>1. PICK t \in DashTasks : t = mrrTask[q]
    BY <1>1 DEF MrrInv
  <2>2. PICK task : task = [t EXCEPT !.pc = "done"]
    OBVIOUS
  <2>3. task \in DashTasks /\ task.data = t.data /\ t.data \in 0..lagoData
    BY <1>1, <2>1, <2>2 DEF DashTasks, MrrInv
  <2>4. mrrTask' = [mrrTask EXCEPT ![q] = task] /\ UNCHANGED <<reportVars, lagoData, mrrCache>>
    BY <1>1, <1>6, <2>1, <2>2 DEF SendDailyDigest, MrrInv
  <2>5. mrrDigests' \subseteq 0..lagoData
    BY <1>1, <1>6, <2>1, <2>3 DEF SendDailyDigest, MrrInv
  <2> QED
    BY <1>1, <2>3, <2>4, <2>5 DEF MrrInv
<1> QED
  BY <1>2, <1>3, <1>4, <1>5, <1>6, RepReadsStand DEF DashNext

LEMMA RepKeeps == RepInv /\ (ReportNext \/ DashNext) => RepInv'
<1>1. ASSUME RepInv, ReportNext PROVE RepInv'
  BY <1>1, StartKeeps, CrashKeeps, FetchKeeps, FinishKeeps, ReadKeeps, SendReportKeeps, NodesKeep, ExportKeeps, DemandKeeps
     DEF ReportNext
<1> QED
  BY <1>1, DashKeeps

LEMMA RepStands == RepInv /\ UNCHANGED reportingVars => RepInv'
<1> SUFFICES ASSUME RepInv, UNCHANGED reportingVars PROVE RepInv'
  OBVIOUS
<1>1. MrrInv' /\ UNCHANGED reportVars
  BY DEF reportingVars, mrrVars, RepInv, MrrInv
<1> QED
  BY <1>1, RepReadsStand

LEMMA RepImplies == RepInv => ReportsComplete /\ ReportingTypeOK
<1> SUFFICES ASSUME RepInv PROVE ReportsComplete /\ ReportingTypeOK
  OBVIOUS
<1>1. ASSUME NEW k \in ReportBatch, NEW t \in RepTenants
      PROVE  /\ JobAt(k, "done") /\ t \in Addressed => reported[<<k, t>>] \in 1..job[k].tries
             /\ reported[<<k, t>>] \in 0..(BackoffLimit + 1)
  <2>1. k \in Reports /\ BatchOK(job[k], t, reported[<<k, t>>]) /\ reported[<<k, t>>] \in Nat
    BY <1>1 DEF RepInv, RepTypes, BatchInv, Reports
  <2>2. job[k].tries \in 0..(BackoffLimit + 1)
    BY <2>1 DEF RepInv, RepTypes, Jobs
  <2> QED
    BY <2>1, <2>2, ReportingAssumption DEF BatchOK, JobAt
<1>2. ReportsComplete
  BY <1>1, ReportingAssumption DEF ReportsComplete, RepInv, GstOK, JobAt
<1>3. \A r \in DOMAIN reported : reported[r] \in 0..(BackoffLimit + 1)
  <2>1. DOMAIN reported = ReportBatch \X RepTenants
    BY DEF RepInv, RepTypes
  <2>2. \A r \in ReportBatch \X RepTenants : \E k \in ReportBatch, t \in RepTenants : r = <<k, t>>
    OBVIOUS
  <2> QED
    BY <1>1, <2>1, <2>2
<1>4. \A k \in Reports : job[k] \in Jobs
  BY DEF RepInv, RepTypes
<1>5. gstRows[2] \subseteq InvIds /\ attested \subseteq RepTenants \X BOOLEAN
  BY DEF RepInv, RepTypes
<1>6. /\ lagoData \in 0..Cardinality(DashReqs) /\ mrrCache.data \in -1..lagoData
      /\ \A v \in mrrDigests : v \in 0..lagoData
  BY DEF RepInv, MrrInv
<1>7. ReportingTypeOK
  BY <1>3, <1>4, <1>5, <1>6 DEF ReportingTypeOK, Jobs
<1> QED
  BY <1>2, <1>7

-----------------------------------------------------------------------------
(* All of them together: a step of the services is a step of one of them,  *)
(* and leaves the variables of the others alone.                           *)

BillsInv  == PayInv /\ TrialInv /\ SavedInv
DeskInv   == PlanInv /\ EventInv /\ InvoiceInv /\ MeterInv
OpsInv    == PipeInv /\ TenantsInv /\ PagerInv /\ AlertInv /\ RingInv /\ EgressInv
UpkeepInv == ClaimInv /\ SecretInv /\ LeaseInv /\ HealInv /\ HealTypes /\ UpkeepTypes /\ RepInv
ClientInv == CliInv /\ JsInv /\ JsBounds /\ WebInv
DashInv   == PagesInv /\ EnvInv /\ SignInv
SvcInv    == BillsInv /\ DeskInv /\ OpsInv /\ UpkeepInv /\ ClientInv /\ DashInv

LEMMA SvcStarts == SvcInit => SvcInv
<1> SUFFICES ASSUME SvcInit PROVE SvcInv
  OBVIOUS
<1>1. BillInit /\ MeterInit /\ PlanInit /\ InvInit /\ PipeInit /\ TenantsInit /\ AlertsInit /\ MaintInit /\ ReportingInit /\ CliInit
      /\ JsInit /\ WebMailInit /\ DashPagesInit /\ EnvInit /\ SignInit
  BY DEF SvcInit
<1>2. BillsInv /\ DeskInv
  BY <1>1, PayStart, TrialStarts, SavedStarts, PlanStarts, EventsStart, InvoicesStart, MeterStarts DEF BillsInv, DeskInv
<1>3. OpsInv /\ UpkeepInv
  <2>1. UpkeepTypes
    BY <1>1, MaintenanceAssumption DEF MaintInit, UpkeepTypes
  <2> QED
    BY <1>1, <2>1, PipeStarts, TenantsStart, PagerStarts, AlertsStart, RingStarts, EgressStarts, ClaimStarts, SecretStarts,
       LeasesStart, HealStarts, HealTypesStart, RepStarts
       DEF OpsInv, UpkeepInv
<1>4. ClientInv
  BY <1>1, CliStarts, JsStarts, BoundsStart, WebStarts DEF ClientInv
<1>5. DashInv
  BY <1>1, PagesStarts, EnvStarts, SignStarts DEF DashInv
<1> QED
  BY <1>2, <1>3, <1>4, <1>5 DEF SvcInv

\* What a step of the services is to each of them.
LEMMA StepOfOne ==
    ASSUME SvcNext
    PROVE  /\ BillNext \/ UNCHANGED billVars
           /\ PlanNext \/ UNCHANGED planVars
           /\ InvNext \/ UNCHANGED invVars
           /\ MeterNext \/ UNCHANGED meterVars
           /\ PipeNext \/ ScaleNext \/ UNCHANGED pipeVars
           /\ TenantsNext \/ UNCHANGED tenantVars
           /\ IncidentNext \/ UNCHANGED incidentVars
           /\ DlqNext \/ UNCHANGED dlqVars
           /\ EgressNext \/ UNCHANGED egressVars
           /\ ClaimNext \/ UNCHANGED claimVars
           /\ SecretNext \/ UNCHANGED secretVars
           /\ HealNext \/ UNCHANGED healVars
           /\ JobNext \/ UNCHANGED jobVars
           /\ ReportNext \/ DashNext \/ UNCHANGED reportingVars
           /\ CliNext \/ UNCHANGED cliVars
           /\ JsNext \/ UNCHANGED jsVars
           /\ WebMailNext \/ UNCHANGED webMailVars
           /\ DashPagesNext \/ UNCHANGED dashVars
           /\ EnvNext \/ UNCHANGED editorVars
           /\ SignNext \/ UNCHANGED signVars
<1>1. CASE BillStep
  BY <1>1 DEF BillStep, BillNext, ClientSide, alertVars, maintVars
<1>2. CASE DeskStep
  BY <1>2 DEF DeskStep, ClientSide, alertVars, maintVars
<1>3. CASE OpsStep
  <2>1. DlqNext => UNCHANGED <<incidentVars, egressVars>>
    BY DEF DlqNext, DLQHour, DeadLetter, StoreDLQEvent, DLQAlert, ReplayDLQ
  <2>2. EgressNext => UNCHANGED <<incidentVars, dlqVars>>
    BY DEF EgressNext, EgressMailed, Quarantine, EgressHour, CheckEgress
  <2>3. ScanNext => UNCHANGED <<incidentVars, dlqVars, egressVars>>
    BY DEF ScanNext, CiScan, ExportAuditLogs
  <2>4. IncidentNext => UNCHANGED <<dlqVars, egressVars>>
    BY DEF IncidentNext, SendDigest, AlertingRestart, AlertMailed, AlertMailFails, AlertWebhook
  <2>5. UNCHANGED alertVars => UNCHANGED <<incidentVars, dlqVars, egressVars>>
    BY DEF alertVars
  <2> QED
    BY <1>3, <2>1, <2>2, <2>3, <2>4, <2>5 DEF OpsStep, ClientSide, maintVars
<1>4. CASE MaintStep
  <2>1. ClaimNext => UNCHANGED <<secretVars, healVars, jobVars>>
    BY DEF ClaimNext, SweepStart, SweepFails, SweepMail, SweepDies, MaintDay, MountChange, SweepClaim
  <2>2. SecretNext => UNCHANGED <<claimVars, healVars, jobVars>>
    BY DEF SecretNext, ReadVault, UpdateK8sSecret, RevokeOld, RotationFails, RestartClient, ClientRestarted
  <2>3. HealNext => UNCHANGED <<claimVars, secretVars, jobVars>>
    BY DEF HealNext, CordonNode, ClusterChange, HealHour, HealStart, HealPod
  <2>4. JobNext => UNCHANGED <<claimVars, secretVars, healVars>>
    BY DEF JobNext, TakeBackup, BackupFails, ArchiveWeek, OpenUpdateIssue, BackupMail, VerifyBackup
  <2> QED
    BY <1>4, <2>1, <2>2, <2>3, <2>4 DEF MaintStep, ClientSide, alertVars
<1>5. CASE ReportStep
  BY <1>5 DEF ReportStep, ClientSide, alertVars, maintVars
<1>6. CASE CliStep
  BY <1>6 DEF CliStep, ClientSide, alertVars, maintVars
<1>7. CASE ClientStep
  BY <1>7 DEF ClientStep, ServiceSide, alertVars, maintVars
<1> QED
  BY <1>1, <1>2, <1>3, <1>4, <1>5, <1>6, <1>7 DEF SvcNext

\* The same of a step that leaves everything as it is.
LEMMA StepsOfOne ==
    ASSUME [SvcNext]_SvcVars
    PROVE  /\ BillNext \/ UNCHANGED billVars
           /\ PlanNext \/ UNCHANGED planVars
           /\ InvNext \/ UNCHANGED invVars
           /\ MeterNext \/ UNCHANGED meterVars
           /\ PipeNext \/ ScaleNext \/ UNCHANGED pipeVars
           /\ TenantsNext \/ UNCHANGED tenantVars
           /\ IncidentNext \/ UNCHANGED incidentVars
           /\ DlqNext \/ UNCHANGED dlqVars
           /\ EgressNext \/ UNCHANGED egressVars
           /\ ClaimNext \/ UNCHANGED claimVars
           /\ SecretNext \/ UNCHANGED secretVars
           /\ HealNext \/ UNCHANGED healVars
           /\ JobNext \/ UNCHANGED jobVars
           /\ ReportNext \/ DashNext \/ UNCHANGED reportingVars
           /\ CliNext \/ UNCHANGED cliVars
           /\ JsNext \/ UNCHANGED jsVars
           /\ WebMailNext \/ UNCHANGED webMailVars
           /\ DashPagesNext \/ UNCHANGED dashVars
           /\ EnvNext \/ UNCHANGED editorVars
           /\ SignNext \/ UNCHANGED signVars
<1>1. CASE UNCHANGED SvcVars
  BY <1>1 DEF SvcVars, ClientSide, alertVars, maintVars
<1> QED
  BY <1>1, StepOfOne

\* Each invariant is about the variables of its own service.
LEMMA PayStands == PayInv /\ UNCHANGED billVars => PayInv'
BY PayStep
LEMMA TrialStands == TrialInv /\ UNCHANGED billVars => TrialInv'
BY DEF TrialInv, TrialTypes, TrialProgress, Paused, billVars, nsVars, trialVars
LEMMA PlanStands == PlanInv /\ UNCHANGED planVars => PlanInv'
BY DEF PlanInv, PlanTypes, PlanSmooth, PlanProgress, PlanBusy, planVars
LEMMA MeterStands == MeterInv /\ UNCHANGED meterVars => MeterInv'
<1> SUFFICES ASSUME MeterInv, UNCHANGED meterVars PROVE MeterInv'
  OBVIOUS
<1>1. UNCHANGED <<slot, lastWindowEnd, nextTick, cycle, manualRuns, lagoSeen, meterDLQ, meterFailed, skippedSlots, meterLives>>
  BY DEF meterVars
<1>2. MeterShape'
  BY <1>1 DEF MeterInv, MeterShape, CycleTypes, MeterTypeOK
<1>3. SlotsKeep'
  BY <1>1 DEF MeterInv, SlotsKeep, Billed, BySched, ByHandRun, Busy
<1>4. WindowsFollow' /\ LeftOut("sched")' /\ PassedKept'
  BY <1>1 DEF MeterInv, WindowsFollow, LeftOut, PassedKept, Billed, Busy
<1> QED
  BY <1>2, <1>3, <1>4 DEF MeterInv
LEMMA PipeStands == PipeInv /\ UNCHANGED pipeVars => PipeInv'
BY DEF PipeInv, BldTypes, MonTypes, UndoTypes, KubeTypes, WaitInv, FreshInv, PodsInv, Newest, Set, NotifyInv, ServingInv, SuccessMeansServed, LoneInv,
       Lone, Begun, pipeVars, kubeVars, watchVars, scaleVars
LEMMA TenantsStand == TenantsInv /\ UNCHANGED tenantVars => TenantsInv'
BY DEF TenantsInv, TenantsTypeOK, CreatorInv, Creator, WholeInv, KnownInv, GreetInv, WelcomedOnce, tenantVars, provVars,
       greetVars
LEMMA PagerStands == PagerInv /\ UNCHANGED incidentVars => PagerInv'
BY DEF PagerInv, P1Noticed, incidentVars
LEMMA ClaimStands == ClaimInv /\ UNCHANGED claimVars => ClaimInv'
BY DEF ClaimInv, ClaimTypes, Announced, DeletedWithNotice, claimVars
LEMMA SecretStands == SecretInv /\ UNCHANGED secretVars => SecretInv'
BY DEF SecretInv, SecretTypes, Replaced, secretVars
LEMMA HealStands == HealInv /\ UNCHANGED healVars => HealInv'
BY DEF HealInv, healVars
LEMMA CliStands == CliInv /\ UNCHANGED cliVars => CliInv'
BY SameSpec DEF CliInv, CliTypeOK, DirectoryIsCurrent, AppliedAsWritten, cliVars
LEMMA JsStands == JsInv /\ JsBounds /\ UNCHANGED jsVars => JsInv' /\ JsBounds'
BY DEF JsInv, JsBounds, JsShape, Unloaded, Wire, Way, Live, Open, jsVars, authSide, subSide, connSide
LEMMA WebStands == WebInv /\ UNCHANGED webMailVars => WebInv'
<1> SUFFICES ASSUME WebInv, UNCHANGED webMailVars PROVE WebInv'
  OBVIOUS
<1>1. UNCHANGED <<place, seen, cookie, ui, calls, composed>>
  BY DEF webMailVars
<1> QED
  BY <1>1, MailAroundKeeps DEF WebInv, ServerOK

LEMMA UpkeepStands ==
    ASSUME UpkeepTypes, ClaimNext \/ UNCHANGED claimVars, JobNext \/ UNCHANGED jobVars
    PROVE  UpkeepTypes'
<1>1. mounted' \subseteq Pvcs
  BY MountsKeep DEF UpkeepTypes, claimVars
<1>2. backups' \in 0..Retained
  BY BackupsKeep DEF UpkeepTypes, jobVars
<1> QED
  BY <1>1, <1>2 DEF UpkeepTypes

LEMMA SvcStep == SvcInv /\ [SvcNext]_SvcVars => SvcInv'
<1> SUFFICES ASSUME SvcInv, [SvcNext]_SvcVars PROVE SvcInv'
  OBVIOUS
<1>1. BillsInv'
  BY StepsOfOne, PayStep, TrialKeeps, TrialStands, SavedKeeps, SavedStands DEF SvcInv, BillsInv
<1>2. DeskInv'
  <2>1. PlanInv' /\ MeterInv'
    BY StepsOfOne, PlanKeeps, PlanStands, MeterKeeps, MeterStands DEF SvcInv, DeskInv
  <2>2. EventInv' /\ InvoiceInv'
    BY StepsOfOne, EventsKeep, EventsStand, InvoicesKeep, InvoicesStand DEF SvcInv, DeskInv, PlanInv
  <2> QED
    BY <2>1, <2>2 DEF DeskInv
<1>3. OpsInv'
  <2>1. PipeInv' /\ TenantsInv' /\ PagerInv'
    BY StepsOfOne, PipeKeeps, ScaleKeeps, PipeStands, TenantsKeep, TenantsStand, PagerKeeps, PagerStands DEF SvcInv, OpsInv
  <2>2. AlertInv' /\ RingInv' /\ EgressInv'
    BY StepsOfOne, AlertsKeep, AlertsStand, RingKeeps, RingStands, EgressKeeps, EgressStands DEF SvcInv, OpsInv
  <2> QED
    BY <2>1, <2>2 DEF OpsInv
<1>4. UpkeepInv'
  <2>1. ClaimInv' /\ SecretInv' /\ HealInv' /\ RepInv'
    BY StepsOfOne, ClaimKeeps, ClaimStands, SecretKeeps, SecretStands, HealKeeps, HealStands, RepKeeps, RepStands
       DEF SvcInv, UpkeepInv
  <2>2. LeaseInv' /\ HealTypes' /\ UpkeepTypes'
    BY StepsOfOne, LeasesKeep, LeasesStand, HealTypesKeep, HealTypesStand, UpkeepStands DEF SvcInv, UpkeepInv
  <2> QED
    BY <2>1, <2>2 DEF UpkeepInv
<1>5. ClientInv'
  BY StepsOfOne, CliKeeps, CliStands, JsKeeps, BoundsKeep, JsStands, WebKeeps, WebStands DEF SvcInv, ClientInv
<1>6. DashInv'
  BY StepsOfOne, PagesKeeps, PagesStands, EnvKeeps, EnvStands, SignKeeps, SignStands DEF SvcInv, DashInv
<1> QED
  BY <1>1, <1>2, <1>3, <1>4, <1>5, <1>6 DEF SvcInv

\* The inductive invariant of the services holds in every state.
THEOREM ServicesInvariant == SvcSpec => []SvcInv
BY SvcStarts, SvcStep, PTL DEF SvcSpec

\* Every variable of every service keeps its type, with what the program
\* counters refer to: a suspension carries counts that the Deployments had, an
\* invoice is mailed twice at most, the ring of the DLQ monitor stays within
\* its size, and no lease is used that Vault has not issued.
THEOREM ServicesTypes == SvcSpec => []SvcTypeOK
<1>1. SvcInv => SvcTypeOK
  <2> SUFFICES ASSUME SvcInv PROVE SvcTypeOK
    OBVIOUS
  <2>1. BillTypeOK /\ DeskTypeOK
    BY BillsImply, DeskImplies DEF SvcInv, BillsInv, DeskInv
  <2>2. MeterTypeOK
    BY MeterImplies DEF SvcInv, DeskInv
  <2>3. PipeTypeOK /\ TenantsTypeOK /\ AlertsTypeOK
    BY PipeImplies, AlertsImply DEF SvcInv, OpsInv, TenantsInv
  <2>4. MaintTypeOK /\ ReportingTypeOK
    BY MaintImplies, RepImplies DEF SvcInv, UpkeepInv
  <2>5. CliTypeOK /\ JsTypeOK /\ WebMailTypeOK
    BY JsTyped, WebImplies DEF SvcInv, ClientInv, CliInv
  <2>6. DashPagesTypeOK /\ EnvTypeOK /\ SignTypeOK
    BY PagesImplies, EnvImplies, SignImplies DEF SvcInv, DashInv
  <2> QED
    BY <2>1, <2>2, <2>3, <2>4, <2>5, <2>6 DEF SvcTypeOK
<1> QED
  BY <1>1, ServicesInvariant, PTL

\* What a tenant pays and what it gets part only when a change failed: no webhook
\* that names itself is handled again while it is remembered, a row that says
\* suspended belongs to a namespace that runs nothing, and a plan that Lago and
\* the quota do not share belongs to a tenant one of whose changes failed or
\* died, or was overtaken by another, whatever the DLQ loses.
THEOREM MoneyStaysAccounted == SvcSpec => []MoneyIsAccounted
<1>1. SvcInv => MoneyIsAccounted
  BY TrialImplies, PlanImplies DEF SvcInv, BillsInv, DeskInv, PayInv, MoneyIsAccounted
<1> QED
  BY <1>1, ServicesInvariant, PTL

\* Usage is billed once per life and manual run of the metering bridge, and
\* what is not billed is counted as failed in the summary of its cycle or was
\* never collected, however often the bridge restarts, retries and is run by
\* hand, and whatever the DLQ loses.
THEOREM UsageStaysBilled == SvcSpec => []UsageIsBilled
<1>1. SvcInv => UsageIsBilled
  BY MeterImplies DEF SvcInv, DeskInv
<1> QED
  BY <1>1, ServicesInvariant, PTL

\* No success is announced of a tenant with nothing serving since, and a lone
\* first build is never stripped by a rollback, in whatever order the rollout,
\* the monitor and a rollback by hand interleave.
THEOREM DeploysStayJudged == SvcSpec => []DeploysAreJudged
<1>1. SvcInv => DeploysAreJudged
  BY PipeImplies DEF SvcInv, OpsInv
<1> QED
  BY <1>1, ServicesInvariant, PTL

\* A tenant is welcomed once and announced when it has all of its resources,
\* and a half-provisioned one belongs to a request that is at work or failed,
\* for any number of requests that provision it at once.
THEOREM TenantsAreWelcomed == SvcSpec => []TenantsAreWelcomedWhole
<1>1. SvcInv => TenantsAreWelcomedWhole
  BY TenantsImply DEF SvcInv, OpsInv
<1> QED
  BY <1>1, ServicesInvariant, PTL

\* What runs unattended gives notice: a P1 alert was mailed before it counts
\* as known, a claim is deleted after its grace period and its mail, unless the
\* mail failed or the answer to its tagging was lost, a lease is revoked after
\* the clients have another, a pod is forced once an hour for each of its
\* containers.
THEOREM UnattendedStaysCareful == SvcSpec => []UnattendedIsCareful
<1>1. SvcInv => UnattendedIsCareful
  BY UnattendedImplied DEF SvcInv, OpsInv, UpkeepInv
<1> QED
  BY <1>1, ServicesInvariant, PTL

\* A report that is done was mailed to every tenant it has an address of, and
\* to none more often than its pod was started, and a tax export that was mailed
\* has every paid INR invoice of the month before and no other, on however many
\* pages they came.
THEOREM ReportsStayComplete == SvcSpec => []ReportsComplete
<1>1. SvcInv => ReportsComplete
  BY RepImplies DEF SvcInv, UpkeepInv
<1> QED
  BY <1>1, ServicesInvariant, PTL

\* When the command line tool says complete, the cluster has what tinai.json
\* describes: the services with their images, the volumes, the databases, and
\* each domain that is the last of a service it names.
THEOREM CompleteWasApplied == SvcSpec => []CompleteMeansApplied
<1>1. SvcInv => CompleteMeansApplied
  BY CliImplies DEF SvcInv, ClientInv
<1> QED
  BY <1>1, ServicesInvariant, PTL

\* The connection of the JavaScript client is on its way when it is wanted,
\* and is subscribed to what is wanted once it is there, however often it
\* drops and whatever the application asks meanwhile.
THEOREM ConnectionStaysRight == SvcSpec => []ConnectionIsRight
<1>1. SvcInv => ConnectionIsRight
  BY JsImplies DEF SvcInv, ClientInv
<1> QED
  BY <1>1, ServicesInvariant, PTL

\* A compose window never has two sends under way, and a mail is submitted again
\* only when an earlier attempt came back with an error; a window closes as sent
\* on an answer to a send of its own or of an earlier window that was ok.
THEOREM MailsAreSentAsTold == SvcSpec => []SentAsTold
<1>1. SvcInv => SentAsTold
  BY WebImplies DEF SvcInv, ClientInv
<1> QED
  BY <1>1, ServicesInvariant, PTL

\* What a page of the web mail or of the dashboard shows as busy has a call
\* under way that ends it, in whatever order the answers come and whatever the
\* person does meanwhile.
THEOREM SpinnersAlwaysEnd == SvcSpec => []SpinnersEnd
<1>1. SvcInv => SpinnersEnd
  BY WebImplies, PagesImplies, EnvImplies, SignImplies DEF SvcInv, ClientInv, DashInv, SpinnersEnd
<1> QED
  BY <1>1, ServicesInvariant, PTL
===============================================================================
