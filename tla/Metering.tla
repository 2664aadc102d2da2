------------------------------- MODULE Metering -------------------------------
(***************************************************************************)
(* The metering bridge (tinai-metering-bridge): a scheduler and an admin   *)
(* route that run metering cycles over windows of time, collect usage from *)
(* Prometheus and post it to Lago, which counts a transaction_id once.     *)
(*                                                                         *)
(* A cycle is a task of its own, since the admin route does not wait for   *)
(* the scheduler.  Its awaits are discovery, collection and one POST per   *)
(* attempt.  Time is a slot number; a slot stands for the minutes between  *)
(* two ticks.  Usage is one unit per namespace and slot, so what Lago has  *)
(* counted for a slot is the number of accepted transactions over it.      *)
(***************************************************************************)
EXTENDS Integers, FiniteSets

CONSTANTS
    MeterNs,         \* tenant namespaces Prometheus knows
    MaxSlot,         \* bound: the last slot
    Interval,        \* config.schedule.intervalMs, in slots
    Lookback,        \* config.schedule.lookbackMs, in slots
    RetryAttempts,   \* config.lago.retryAttempts
    MaxManual        \* bound: runs by POST /run

ASSUME MeteringAssumption ==
    /\ MaxSlot \in Nat /\ Interval \in Nat \ {0} /\ Lookback \in 0..MaxSlot
    /\ RetryAttempts \in Nat \ {0} /\ MaxManual \in Nat

VARIABLES
    slot,            \* now
    lastWindowEnd,   \* where the next scheduled window starts
    nextTick,        \* when setTimeout fires again; Waiting while a tick runs
    cycle,           \* "sched" and "manual" cycles: [pc, from, to], and while posting
                     \* [todo, batch, attempt, failed]: namespaces of the events
    manualRuns,      \* runs triggered so far
    lagoSeen,        \* transaction ids Lago has: [ns, from, to]
    meterDLQ,        \* batches on tinai.metering.dlq
    meterFailed,     \* transactions that summaries of cycles count as failed
    skippedSlots,    \* history: slots of cycles that ended before collecting,
                     \* and of namespaces whose collection gave nothing
    meterLives       \* history: starts of the process

meterVars == <<slot, lastWindowEnd, nextTick, cycle, manualRuns, lagoSeen, meterDLQ,
               meterFailed, skippedSlots, meterLives>>

Waiting == -1
Runs    == {"sched", "manual"}
NoCycle == [pc |-> "none"]

Slots(c) == {s \in 1..MaxSlot : c.from < s /\ s <= c.to}

MeterInit ==
    /\ slot = Lookback
    /\ lastWindowEnd = 0          \* Date.now() - lookbackMs
    /\ nextTick = slot            \* tick() runs at once
    /\ cycle = [r \in Runs |-> NoCycle]
    /\ manualRuns = 0 /\ meterLives = 1
    /\ lagoSeen = {} /\ meterDLQ = {} /\ meterFailed = {} /\ skippedSlots = {}

Begin(r, from, to) ==
    /\ cycle[r] = NoCycle
    /\ cycle' = [cycle EXCEPT ![r] = [pc |-> "discover", from |-> from, to |-> to]]

\* tick: the window runs from the end of the last one to now.
MeterTick ==
    /\ nextTick # Waiting /\ slot >= nextTick
    /\ Begin("sched", lastWindowEnd, slot)
    /\ nextTick' = Waiting
    /\ UNCHANGED <<slot, lastWindowEnd, manualRuns, lagoSeen, meterDLQ, meterFailed, skippedSlots, meterLives>>

\* POST /run: the interval that ends now, whatever the scheduler has billed.
ManualRun ==
    /\ manualRuns < MaxManual /\ manualRuns' = manualRuns + 1
    /\ Begin("manual", IF slot > Interval THEN slot - Interval ELSE 0, slot)
    /\ UNCHANGED <<slot, lastWindowEnd, nextTick, lagoSeen, meterDLQ, meterFailed, skippedSlots, meterLives>>

Transactions(c, N) == {[ns |-> n, from |-> c.from, to |-> c.to] : n \in N}

\* runMeteringCycle has returned with its summary, which counts the events of
\* `failed': the scheduler advances its window for any status, failed discovery
\* included, and sets the next timer.
Finish(r, failed) ==
    /\ meterFailed' = meterFailed \cup Transactions(cycle[r], failed)
    /\ cycle' = [cycle EXCEPT ![r] = NoCycle]
    /\ IF r = "sched"
       THEN lastWindowEnd' = cycle[r].to /\ nextTick' = slot + Interval
       ELSE UNCHANGED <<lastWindowEnd, nextTick>>

\* discoverTenantNamespaces failed or found nothing: the cycle returns.
DiscoverNothing(r) ==
    /\ cycle[r].pc = "discover"
    /\ Finish(r, {})
    /\ skippedSlots' = skippedSlots \cup (MeterNs \X Slots(cycle[r]))
    /\ UNCHANGED <<slot, manualRuns, lagoSeen, meterDLQ, meterLives>>

\* chunkEvents: the next batch, of any size, or the end of the cycle.
NextBatch(r, todo, failed) ==
    IF todo = {}
    THEN Finish(r, failed)
    ELSE /\ \E b \in SUBSET todo \ {{}} :
              cycle' = [cycle EXCEPT ![r] = [pc |-> "post", from |-> @.from, to |-> @.to, batch |-> b,
                                             todo |-> todo \ b, attempt |-> 1, failed |-> failed]]
         /\ UNCHANGED <<lastWindowEnd, nextTick, meterFailed>>

\* The namespaces are known and every query has answered or counted as 0;
\* the namespaces whose queries all gave 0 are left out.
Collect(r) ==
    /\ cycle[r].pc = "discover"
    /\ \E active \in SUBSET MeterNs :
          /\ skippedSlots' = skippedSlots \cup ((MeterNs \ active) \X Slots(cycle[r]))
          /\ NextBatch(r, active, {})
    /\ UNCHANGED <<slot, manualRuns, lagoSeen, meterDLQ, meterLives>>

BatchOf(r) == Transactions(cycle[r], cycle[r].batch)

\* postBatch is accepted; the ids depend on the window alone, so Lago counts
\* a batch it has seen no second time.
PostAccepted(r) ==
    /\ cycle[r].pc = "post"
    /\ lagoSeen' = lagoSeen \cup BatchOf(r)
    /\ NextBatch(r, cycle[r].todo, cycle[r].failed)
    /\ UNCHANGED <<slot, manualRuns, meterDLQ, skippedSlots, meterLives>>

\* 429, 5xx: retried up to the configured number of attempts, though Lago
\* may have stored the batch before the error.
PostRetried(r) ==
    /\ cycle[r].pc = "post" /\ cycle[r].attempt < RetryAttempts
    /\ cycle' = [cycle EXCEPT ![r].attempt = @ + 1]
    /\ lagoSeen' \in {lagoSeen, lagoSeen \cup BatchOf(r)}
    /\ UNCHANGED <<slot, lastWindowEnd, nextTick, manualRuns, meterDLQ, meterFailed, skippedSlots, meterLives>>

\* A defect of PostGivenUp: only the last batch's failure is counted.
GivenUpUncounted(r) ==
    /\ cycle[r].pc = "post"
    /\ meterDLQ' \in {meterDLQ, meterDLQ \cup BatchOf(r)}
    /\ lagoSeen' \in {lagoSeen, lagoSeen \cup BatchOf(r)}
    /\ NextBatch(r, cycle[r].todo, cycle[r].batch)
    /\ UNCHANGED <<slot, manualRuns, skippedSlots, meterLives>>

\* Retries exhausted or an error that is not retryable, which a timed out
\* request is, although Lago may have stored it: sendToDLQ, which loses the
\* events without NATS or when it throws; the loop goes on.
PostGivenUp(r) ==
    /\ cycle[r].pc = "post"
    /\ meterDLQ' \in {meterDLQ, meterDLQ \cup BatchOf(r)}
    /\ lagoSeen' \in {lagoSeen, lagoSeen \cup BatchOf(r)}
    /\ NextBatch(r, cycle[r].todo, cycle[r].failed \cup cycle[r].batch)
    /\ UNCHANGED <<slot, manualRuns, skippedSlots, meterLives>>

\* The pod restarts: the window of the new life starts lookbackMs ago.
MeterRestart ==
    /\ meterLives < 2 /\ meterLives' = meterLives + 1
    /\ lastWindowEnd' = IF slot > Lookback THEN slot - Lookback ELSE 0
    /\ nextTick' = slot
    /\ cycle' = [r \in Runs |-> NoCycle]
    /\ UNCHANGED <<slot, manualRuns, lagoSeen, meterDLQ, meterFailed, skippedSlots>>

MeterClock ==
    /\ slot < MaxSlot /\ slot' = slot + 1
    /\ UNCHANGED <<lastWindowEnd, nextTick, cycle, manualRuns, lagoSeen, meterDLQ,
                   meterFailed, skippedSlots, meterLives>>

MeterNext ==
    \/ MeterTick \/ ManualRun \/ MeterRestart \/ MeterClock
    \/ \E r \in Runs : DiscoverNothing(r) \/ Collect(r) \/ PostAccepted(r)
                          \/ PostRetried(r) \/ PostGivenUp(r)

(***************************************************************************)
(* Properties                                                              *)
(***************************************************************************)
Counted(n, s) == Cardinality({x \in lagoSeen : x.ns = n /\ x.from < s /\ s <= x.to})

MeterTypeOK ==
    /\ slot \in 0..MaxSlot /\ lastWindowEnd \in 0..MaxSlot
    /\ nextTick \in {Waiting} \cup 0..(MaxSlot + Interval)
    /\ manualRuns \in 0..MaxManual /\ meterLives \in 1..2
    /\ lagoSeen \subseteq [ns : MeterNs, from : 0..MaxSlot, to : 0..MaxSlot]
    /\ meterDLQ \subseteq [ns : MeterNs, from : 0..MaxSlot, to : 0..MaxSlot]
    /\ meterFailed \subseteq [ns : MeterNs, from : 0..MaxSlot, to : 0..MaxSlot]

\* No slot is billed twice to a namespace, however often a batch is retried
\* or its answer lost, but once more for each restart and each manual run,
\* whose windows overlap the scheduler's.
BilledOncePerLifeAndRun ==
    \A n \in MeterNs, s \in 1..MaxSlot : Counted(n, s) <= meterLives + manualRuns

\* Usage is not lost in silence: what the scheduler's window has passed was
\* counted, or is among the failed events of a cycle's summary (and only then
\* may Lago or the DLQ miss it), or belongs to a cycle that could not collect
\* it.  (A life that ends in the middle of a cycle, longer than the lookback,
\* may leave a gap: the property speaks of the first life.)
NothingLostInSilence ==
    meterLives = 1 =>
        \A n \in MeterNs, s \in 1..lastWindowEnd :
            \/ Counted(n, s) > 0
            \/ \E x \in meterFailed : x.ns = n /\ x.from < s /\ s <= x.to
            \/ <<n, s>> \in skippedSlots
=============================================================================
