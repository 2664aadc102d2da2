------------------------------ MODULE Maintenance ------------------------------
(***************************************************************************)
(* The maintenance jobs of tinai-maintenance.  The CronJobs run one at a   *)
(* time each (concurrencyPolicy: Forbid) and are retried by Kubernetes     *)
(* when they exit with an error; self-healing is a server whose timer does *)
(* not wait for the last check.  Each await on Kubernetes, Vault or SMTP   *)
(* ends a step; what users and pods do in between is the environment's.    *)
(***************************************************************************)
EXTENDS Integers, FiniteSets

CONSTANTS
    Pvcs, GraceDays, MaxDay,     \* claims of a tenant; ORPHAN_GRACE_DAYS; bound
    Clients, MaxLease,           \* restartDeployments; bound on Vault leases
    Pods, Containers, Checks,    \* of a tenant; checks running at once
    Retained, MaxWeek            \* RETENTION_FULL; bound on the weeks

ASSUME MaintenanceAssumption ==
    /\ {GraceDays, MaxDay, MaxLease, Retained, MaxWeek} \subseteq Nat
    /\ MaxLease >= 2 /\ Retained >= 1

VARIABLES
    mDay,        \* days since the first run of storage-cleanup
    mounted,     \* claims some pod mounts
    tag,         \* annotation tinai.cloud/orphaned-at: a day, or NoTag
    gone,        \* claims deleted
    sweep,       \* the storage-cleanup run: [pc, todo, found]
    warned,      \* claims named as new orphans in a mail that was sent
    unwarned,    \* history: claims tagged by a run whose mail was not sent, or
                 \* by a request whose answer did not arrive
    leases,      \* leases Vault has issued so far; the newest is the last
    revoked,     \* leases revoked
    inSecret,    \* lease whose credentials the Secret holds
    inPods,      \* lease the pods of each client were started with
    rotation,    \* the secret-rotation run: [pc, lease, todo]
    restarting,  \* clients with a rolling restart under way
    notRestarted,\* clients whose last restart failed
    dryRun,      \* DRY_RUN, and whether VAULT_LEASE_... names the first lease
    oldLease,
    podState,    \* containers of a pod that crash-loop, or that it is evicted
    muted1h,     \* alertsSent: keys younger than an hour
    healing,     \* runCheck per slot: <<pod, container>> still to be looked at
    forced,      \* history: force-deletions for a container within its hour
    cordoned,    \* the node is unschedulable; pressed: under pressure
    pressed,
    backups,     \* base backups in the repository
    backupJob,   \* db-backup: [pc, attempt]
    verified,    \* verdicts of the weekly restore
    mWeek,       \* weeks passed; archived: those whose logs are in MinIO
    archived,
    issues       \* issues image-updater has opened for one pending update

claimVars  == <<mDay, mounted, tag, gone, sweep, warned, unwarned>>
secretVars == <<leases, revoked, inSecret, inPods, rotation, restarting, notRestarted,
                dryRun, oldLease>>
healVars   == <<podState, muted1h, healing, forced, cordoned, pressed>>
jobVars    == <<backups, backupJob, verified, mWeek, archived, issues>>
maintVars  == <<claimVars, secretVars, healVars, jobVars>>

NoTag == -1
SweepIdle == [pc |-> "idle"]
Evicted == "evicted"
NodeKey == <<"node", "cordon">>

MaintInit ==
    /\ mDay = 0 /\ mounted \in SUBSET Pvcs /\ tag = [p \in Pvcs |-> NoTag] /\ gone = {}
    /\ sweep = SweepIdle /\ warned = {} /\ unwarned = {}
    /\ leases = 1 /\ revoked = {} /\ inSecret = 1 /\ inPods = [c \in Clients |-> 1]
    /\ rotation = SweepIdle /\ restarting = {} /\ notRestarted = {}
    /\ dryRun \in BOOLEAN /\ oldLease \in BOOLEAN
    /\ podState = [p \in Pods |-> {}] /\ muted1h = {} /\ healing = [k \in Checks |-> {}]
    /\ forced = [x \in Pods \X Containers |-> 0] /\ cordoned = FALSE /\ pressed = FALSE
    /\ backups = Retained /\ backupJob = [pc |-> "idle", attempt |-> 0] /\ verified = {}
    /\ mWeek = 0 /\ archived = {} /\ issues = 0

(***************************************************************************)
(* storage-cleanup                                                         *)
(***************************************************************************)
\* getPVCsWithPodUsage: what the run decides on, for the rest of the run.
SweepStart ==
    /\ sweep = SweepIdle
    /\ sweep' = [pc |-> "claims", found |-> {},
                 todo |-> {[pvc |-> p, tag |-> tag[p]] : p \in (Pvcs \ mounted) \ gone}]
    /\ UNCHANGED <<mDay, mounted, tag, gone, warned, unwarned, secretVars, healVars, jobVars>>

\* An unmounted claim: tagged the first time; deleted when the tag it was
\* listed with is old enough; else left for another run.
TagOrDelete(c) ==
    IF c.tag = NoTag
    THEN tag' = [tag EXCEPT ![c.pvc] = mDay] /\ UNCHANGED gone
    ELSE UNCHANGED tag /\ gone' = IF mDay - c.tag >= GraceDays THEN gone \cup {c.pvc} ELSE gone

SweepClaim(c) ==
    /\ sweep.pc = "claims" /\ c \in sweep.todo /\ TagOrDelete(c)
    /\ sweep' = [sweep EXCEPT !.todo = @ \ {c},
                              !.found = IF c.tag = NoTag THEN @ \cup {c.pvc} ELSE @]
    /\ UNCHANGED <<mDay, mounted, warned, unwarned, secretVars, healVars, jobVars>>

\* A request fails, or only its answer is lost: the claim is not in the mail
\* either way, and the rest of the namespace is left out of this run.
SweepFails(c) ==
    /\ sweep.pc = "claims" /\ c \in sweep.todo
    /\ TagOrDelete(c) \/ UNCHANGED <<tag, gone>>
    /\ unwarned' = IF tag' # tag THEN unwarned \cup {c.pvc} ELSE unwarned
    /\ sweep' = [sweep EXCEPT !.todo = {}]
    /\ UNCHANGED <<mDay, mounted, warned, secretVars, healVars, jobVars>>

SweepMail ==
    /\ sweep.pc = "claims" /\ sweep.todo = {}
    /\ warned' = warned \cup sweep.found /\ sweep' = SweepIdle
    /\ UNCHANGED <<mDay, mounted, tag, gone, unwarned, secretVars, healVars, jobVars>>

\* The pod dies, or the mail is not accepted and the job exits with an error.
SweepDies ==
    /\ sweep # SweepIdle /\ sweep' = SweepIdle
    /\ unwarned' = unwarned \cup sweep.found
    /\ UNCHANGED <<mDay, mounted, tag, gone, warned, secretVars, healVars, jobVars>>

\* A pod starts or stops to mount a claim: nobody takes the tag away.
MountChange(p) ==
    /\ p \notin gone
    /\ mounted' = IF p \in mounted THEN mounted \ {p} ELSE mounted \cup {p}
    /\ UNCHANGED <<mDay, tag, gone, sweep, warned, unwarned, secretVars, healVars, jobVars>>

MaintDay ==
    /\ mDay < MaxDay /\ sweep = SweepIdle /\ mDay' = mDay + 1
    /\ UNCHANGED <<mounted, tag, gone, sweep, warned, unwarned, secretVars, healVars, jobVars>>

(***************************************************************************)
(* secret-rotation                                                         *)
(***************************************************************************)
Rotate(pc, lease, todo) == rotation' = [pc |-> pc, lease |-> lease, todo |-> todo]

\* vaultRead: reading dynamic credentials issues a lease, in a dry run too.
ReadVault ==
    /\ rotation = SweepIdle /\ leases < MaxLease
    /\ leases' = leases + 1 /\ Rotate("secret", leases', {})
    /\ UNCHANGED <<revoked, inSecret, inPods, restarting, notRestarted, dryRun, oldLease,
                   claimVars, healVars, jobVars>>

UpdateK8sSecret ==
    /\ rotation.pc = "secret"
    /\ inSecret' = IF dryRun THEN inSecret ELSE rotation.lease
    /\ Rotate("restart", rotation.lease, IF dryRun THEN {} ELSE Clients)
    /\ UNCHANGED <<leases, revoked, inPods, restarting, notRestarted, dryRun, oldLease,
                   claimVars, healVars, jobVars>>

\* rolloutRestart of one client: accepted, or noted as failed.
RestartClient(c) ==
    /\ rotation.pc = "restart" /\ c \in rotation.todo
    /\ \/ restarting' = restarting \cup {c} /\ notRestarted' = notRestarted \ {c}
       \/ restarting' = restarting /\ notRestarted' = notRestarted \cup {c}
    /\ Rotate("restart", rotation.lease, rotation.todo \ {c})
    /\ UNCHANGED <<leases, revoked, inSecret, inPods, dryRun, oldLease, claimVars, healVars, jobVars>>

\* A defect of RevokeOld: before every client was told to restart.
RevokeEarly ==
    /\ rotation.pc = "restart"
    /\ revoked' = IF oldLease THEN revoked \cup {1} ELSE revoked
    /\ rotation' = SweepIdle
    /\ UNCHANGED <<leases, inSecret, inPods, restarting, notRestarted, dryRun, oldLease,
                   claimVars, healVars, jobVars>>

\* The old lease is revoked after the restarts were asked for, failed or not,
\* in a dry run as well.
RevokeOld ==
    /\ rotation.pc = "restart" /\ rotation.todo = {}
    /\ revoked' = IF oldLease THEN revoked \cup {1} ELSE revoked
    /\ rotation' = SweepIdle
    /\ UNCHANGED <<leases, inSecret, inPods, restarting, notRestarted, dryRun, oldLease,
                   claimVars, healVars, jobVars>>

RotationFails ==
    /\ rotation # SweepIdle /\ rotation' = SweepIdle
    /\ UNCHANGED <<leases, revoked, inSecret, inPods, restarting, notRestarted, dryRun, oldLease,
                   claimVars, healVars, jobVars>>

\* The rolling restart is through: the pods have what the Secret holds.
ClientRestarted(c) ==
    /\ c \in restarting /\ restarting' = restarting \ {c}
    /\ inPods' = [inPods EXCEPT ![c] = inSecret]
    /\ UNCHANGED <<leases, revoked, inSecret, rotation, notRestarted, dryRun, oldLease,
                   claimVars, healVars, jobVars>>

(***************************************************************************)
(* self-healing                                                            *)
(***************************************************************************)
\* shouldAlert tests and sets without an await in between.
ShouldAlert(key) == key \notin muted1h /\ muted1h' = muted1h \cup {key}

\* runCheck, by the timer: the pods and containers as they are listed now.
HealStart(k) ==
    LET sick == {x \in Pods \X (Containers \cup {Evicted}) : x[2] \in podState[x[1]]} IN
    /\ healing[k] = {} /\ sick # {} /\ healing' = [healing EXCEPT ![k] = sick]
    /\ UNCHANGED <<podState, muted1h, forced, cordoned, pressed, claimVars, secretVars, jobVars>>

\* checkPods: an evicted pod is deleted; for each of its containers that
\* crash-loops the whole pod is deleted by force, once per hour and
\* container; a DELETE may fail, and the key stays muted.
HealPod(k, x) ==
    /\ x \in healing[k] /\ healing' = [healing EXCEPT ![k] = @ \ {x}]
    /\ \/ /\ x[2] # Evicted /\ x \in muted1h
          /\ UNCHANGED <<podState, muted1h, forced>>
       \/ /\ podState' \in {podState, [podState EXCEPT ![x[1]] = {}]}
          /\ IF x[2] = Evicted THEN UNCHANGED <<muted1h, forced>>
             ELSE ShouldAlert(x) /\ forced' = [forced EXCEPT ![x] = @ + 1]
    /\ UNCHANGED <<cordoned, pressed, claimVars, secretVars, jobVars>>

\* checkNodes: a node short of memory or disk is cordoned; nothing here ever
\* uncordons it.
CordonNode ==
    /\ pressed /\ ShouldAlert(NodeKey) /\ cordoned' \in {TRUE, cordoned}
    /\ UNCHANGED <<podState, healing, forced, pressed, claimVars, secretVars, jobVars>>

HealHour(key) ==
    /\ key \in muted1h /\ muted1h' = muted1h \ {key}
    /\ forced' = [x \in Pods \X Containers |-> IF x = key THEN 0 ELSE forced[x]]
    /\ UNCHANGED <<podState, healing, cordoned, pressed, claimVars, secretVars, jobVars>>

ClusterChange ==
    /\ \/ \E p \in Pods, s \in SUBSET Containers \cup {{Evicted}} :
             podState' = [podState EXCEPT ![p] = s] /\ UNCHANGED pressed
       \/ pressed' = ~pressed /\ UNCHANGED podState
    /\ UNCHANGED <<muted1h, healing, forced, cordoned, claimVars, secretVars, jobVars>>

(***************************************************************************)
(* db-backup, its verification, log-rotation, image-updater                *)
(***************************************************************************)
\* pgBackRest makes a backup, reports it, and expires the oldest ones.
TakeBackup ==
    /\ backupJob.pc = "idle"
    /\ backups' = IF backups < Retained THEN backups + 1 ELSE Retained
    /\ backupJob' = [backupJob EXCEPT !.pc = "mail"]
    /\ UNCHANGED <<verified, mWeek, archived, issues, claimVars, secretVars, healVars>>

\* The mail is sent; a failed mail ends the job with an error, and
\* Kubernetes runs it once more (backoffLimit: 1), backup included.
BackupMail(ok) ==
    /\ backupJob.pc = "mail"
    /\ backupJob' = [pc |-> IF ok \/ backupJob.attempt = 0 THEN "idle" ELSE "failed",
                     attempt |-> IF ok THEN 0 ELSE backupJob.attempt + 1]
    /\ UNCHANGED <<backups, verified, mWeek, archived, issues, claimVars, secretVars, healVars>>

\* The backup itself fails: DLQ, a mail that says so, and the same retry.
BackupFails ==
    /\ backupJob.pc = "idle"
    /\ backupJob' = [pc |-> IF backupJob.attempt = 0 THEN "idle" ELSE "failed",
                     attempt |-> backupJob.attempt + 1]
    /\ UNCHANGED <<backups, verified, mWeek, archived, issues, claimVars, secretVars, healVars>>

\* The weekly restore into the verification pod: restore, start, five tables
\* at least, a query; PostgreSQL is stopped again either way.
VerifyBackup(ok) ==
    /\ ok => backups > 0
    /\ verified' = verified \cup {ok}
    /\ UNCHANGED <<backups, backupJob, mWeek, archived, issues, claimVars, secretVars, healVars>>

\* log-rotation: the week that ended ARCHIVE_AFTER days ago, one query of at
\* most 5000 lines per namespace; a week whose run fails is not made up for.
ArchiveWeek ==
    /\ mWeek < MaxWeek /\ mWeek' = mWeek + 1
    /\ archived' \in {archived, archived \cup {<<mWeek, "whole">>}, archived \cup {<<mWeek, "cut">>}}
    /\ UNCHANGED <<backups, backupJob, verified, issues, claimVars, secretVars, healVars>>

\* image-updater: each daily run opens an issue for an update it finds,
\* whether or not an earlier one is still open.
OpenUpdateIssue ==
    /\ issues < MaxWeek /\ issues' = issues + 1
    /\ UNCHANGED <<backups, backupJob, verified, mWeek, archived, claimVars, secretVars, healVars>>

\* cert-renewal: parseCertStatus by readiness and days left, in this order.
CertStatus(ready, days) ==
    IF ~ready THEN "not-ready"
    ELSE IF days < 3 THEN "critical" ELSE IF days < 14 THEN "warning" ELSE "ok"

CheckCerts == \A d \in 0..13 : CertStatus(TRUE, d) # "ok" /\ CertStatus(FALSE, d + 14) # "ok"

ClaimNext ==
    \/ SweepStart \/ SweepMail \/ SweepDies \/ MaintDay
    \/ \E p \in Pvcs : MountChange(p)
    \/ \E p \in Pvcs, t \in 0..MaxDay \cup {NoTag} :
          SweepClaim([pvc |-> p, tag |-> t]) \/ SweepFails([pvc |-> p, tag |-> t])
SecretNext ==
    \/ ReadVault \/ UpdateK8sSecret \/ RevokeOld \/ RotationFails
    \/ \E c \in Clients : RestartClient(c) \/ ClientRestarted(c)
HealNext ==
    \/ CordonNode \/ ClusterChange \/ \E key \in Pods \X Containers \cup {NodeKey} : HealHour(key)
    \/ \E k \in Checks : HealStart(k) \/ \E x \in healing[k] : HealPod(k, x)
JobNext ==
    \/ TakeBackup \/ BackupFails \/ ArchiveWeek \/ OpenUpdateIssue
    \/ \E ok \in BOOLEAN : BackupMail(ok) \/ VerifyBackup(ok)

MaintNext == ClaimNext \/ SecretNext \/ HealNext \/ JobNext

(***************************************************************************)
(* Properties                                                              *)
(***************************************************************************)
MaintTypeOK ==
    /\ mounted \subseteq Pvcs /\ gone \subseteq Pvcs /\ tag \in [Pvcs -> {NoTag} \cup 0..MaxDay]
    /\ leases \in 1..MaxLease /\ revoked \subseteq 1..leases /\ inSecret \in 1..leases
    /\ inPods \in [Clients -> 1..leases] /\ muted1h \subseteq Pods \X Containers \cup {NodeKey}
    /\ backups \in 0..Retained /\ CheckCerts

\* A claim is deleted only after the grace period of its tag, and only after
\* the mail of an earlier run announced it, unless that mail failed or the
\* answer to the request that tagged it was lost.
DeletedWithNotice ==
    \A p \in gone : /\ tag[p] # NoTag /\ mDay - tag[p] >= GraceDays
                    /\ p \in warned \cup unwarned

\* Outside dry runs no client is cut off by the rotation unless its restart
\* failed or is still rolling out.
RevokedOnlyReplaced ==
    ~dryRun => \A c \in Clients :
                  inPods[c] \in revoked => c \in notRestarted \cup restarting

\* However many checks overlap, a pod is deleted by force at most once per
\* hour for each of its containers.
ForcedOncePerHour == \A x \in Pods \X Containers : forced[x] <= 1
=================================================================================
