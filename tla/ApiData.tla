-------------------------------- MODULE ApiData --------------------------------
(***************************************************************************)
(* Data services of tinai-api: the database of an application and its      *)
(* point-in-time branches (routes/databases.ts), the buckets and databases *)
(* a tenant asks of the storage provisioner (routes/storage.ts, with       *)
(* tinai-storage-provisioner), and inference endpoints (routes/            *)
(* inference.ts).  A handler may be cut short after any statement.         *)
(***************************************************************************)
EXTENDS Naturals, FiniteSets

CONSTANTS
    DbReqs,       \* requests about the database of one application; its id is its request
    Branches,     \* names of branches
    StoreReqs,    \* requests for a bucket or a database; the id of the row is its request
    StoreNames,
    EndReqs       \* requests about one inference endpoint

VARIABLES
    dbRow,        \* app_databases: id of the application's row, 0 when there is none
    dbUsable,     \* its status is 'available'
    dbReal,       \* databases that exist in PostgreSQL
    dbJobs,       \* psql Jobs dispatched and not run yet: <<"create" or "drop", db>>
    dbTask,       \* per request
    dbAudit,      \* history: statements run for the tenant whose audit row was written
    branchRows,   \* database_branches: <<parent, name>>
    branchCRs,    \* Cluster objects: <<parent, request>>
    storeRow,     \* per id: <<kind, name, status>>
    storeReal,    \* ids whose bucket or cluster exists
    storeTask,    \* per request
    storeWork,    \* per id: how far the provisioner's goroutine is
    endRow,       \* status of the endpoint, "none" before it is created
    endTask,      \* per request: what it read and will write
    endGone       \* history: the endpoint was answered deleted

pgVars    == <<dbRow, dbUsable, dbReal, dbJobs, dbTask, dbAudit, branchRows, branchCRs>>
storeVars == <<storeRow, storeReal, storeTask, storeWork>>
endVars   == <<endRow, endTask, endGone>>
dataVars  == <<pgVars, storeVars, endVars>>

DbIdle    == [pc |-> "none", db |-> 0, name |-> "none"]
NoStore   == [kind |-> "none", name |-> "none", status |-> "none"]
StoreIdle == [pc |-> "none", row |-> NoStore, id |-> 0]

DataInit ==
    /\ dbRow = 0 /\ dbUsable = FALSE /\ dbReal = {} /\ dbJobs = {} /\ dbAudit = {}
    /\ dbTask = [q \in DbReqs |-> DbIdle] /\ branchRows = {} /\ branchCRs = {}
    /\ storeRow = [q \in StoreReqs |-> NoStore] /\ storeReal = {}
    /\ storeTask = [q \in StoreReqs |-> StoreIdle] /\ storeWork = [q \in StoreReqs |-> "none"]
    /\ endRow = "none" /\ endTask = [q \in EndReqs |-> [pc |-> "none", to |-> "none"]] /\ endGone = FALSE

DbAt(q, pc) == dbTask[q].pc = pc
DbGo(q, pc, db, name) == dbTask' = [dbTask EXCEPT ![q] = [pc |-> pc, db |-> db, name |-> name]]

(***************************************************************************)
(* The database of an application                                          *)
(***************************************************************************)
\* POST: 409 once there is a row; then the Job is dispatched (its failure is
\* only logged) before the row is inserted.
AskDatabase(q) ==
    /\ DbAt(q, "none") /\ dbRow = 0
    /\ \E ok \in BOOLEAN : dbJobs' = IF ok THEN dbJobs \cup {<<"create", q>>} ELSE dbJobs
    /\ DbGo(q, "insert", q, "none")
    /\ UNCHANGED <<dbRow, dbUsable, dbReal, dbAudit, branchRows, branchCRs, storeVars, endVars>>

\* A row that came meanwhile violates UNIQUE (app_name): 500, the Job stays.
InsertDatabase(q) ==
    /\ DbAt(q, "insert")
    /\ dbRow' = IF dbRow = 0 THEN q ELSE dbRow
    /\ dbUsable' = (dbUsable /\ dbRow # 0)
    /\ DbGo(q, IF dbRow = 0 THEN "answered" ELSE "done", q, "none")
    /\ UNCHANGED <<dbReal, dbJobs, dbAudit, branchRows, branchCRs, storeVars, endVars>>

\* DELETE: the row names what the drop Job removes; the row goes by app_name.
DropDatabase(q) ==
    /\ DbAt(q, "none") /\ dbRow # 0
    /\ \E ok \in BOOLEAN : dbJobs' = IF ok THEN dbJobs \cup {<<"drop", dbRow>>} ELSE dbJobs
    /\ DbGo(q, "delete", dbRow, "none")
    /\ UNCHANGED <<dbRow, dbUsable, dbReal, dbAudit, branchRows, branchCRs, storeVars, endVars>>

DeleteDatabaseRow(q) ==
    /\ DbAt(q, "delete") /\ DbGo(q, "done", dbTask[q].db, "none")
    /\ dbRow' = 0 /\ dbUsable' = FALSE
    /\ UNCHANGED <<dbReal, dbJobs, dbAudit, branchRows, branchCRs, storeVars, endVars>>

\* A psql Job runs or fails, in any order; restartPolicy is Never.
RunPsqlJob(j) ==
    /\ j \in dbJobs /\ dbJobs' = dbJobs \ {j}
    /\ \/ dbReal' = IF j[1] = "create" THEN dbReal \cup {j[2]} ELSE dbReal \ {j[2]}
       \/ dbReal' = dbReal
    /\ UNCHANGED <<dbRow, dbUsable, dbTask, dbAudit, branchRows, branchCRs, storeVars, endVars>>

\* Nothing in the sources sets 'available': an operator does.
MarkAvailable ==
    /\ dbRow # 0 /\ dbRow \in dbReal /\ ~dbUsable /\ dbUsable' = TRUE
    /\ UNCHANGED <<dbRow, dbReal, dbJobs, dbTask, dbAudit, branchRows, branchCRs, storeVars, endVars>>

\* POST /databases/:app/query and vector-search: what ran (or was refused by
\* the tenant's database) is recorded, best effort, when the row is available.
QueryDatabase(q) ==
    /\ DbAt(q, "none") /\ dbUsable /\ DbGo(q, "audit", dbRow, "none")
    /\ UNCHANGED <<dbRow, dbUsable, dbReal, dbJobs, dbAudit, branchRows, branchCRs, storeVars, endVars>>
VectorSearch(q) == QueryDatabase(q)

AuditQuery(q) ==
    /\ DbAt(q, "audit") /\ DbGo(q, "answered", dbTask[q].db, "none")
    /\ \/ dbAudit' = dbAudit \cup {q}
       \/ dbAudit' = dbAudit
    /\ UNCHANGED <<dbRow, dbUsable, dbReal, dbJobs, branchRows, branchCRs, storeVars, endVars>>

\* GET and any method under /databases/:app/api: passed on to PostgREST while available.
ProxyToPostgrest(q) ==
    /\ DbAt(q, "none") /\ dbUsable /\ DbGo(q, "answered", dbRow, "none")
    /\ UNCHANGED <<dbRow, dbUsable, dbReal, dbJobs, dbAudit, branchRows, branchCRs, storeVars, endVars>>
ProxyTable(q) == ProxyToPostgrest(q)

(***************************************************************************)
(* Branches                                                                *)
(***************************************************************************)
\* POST: the Cluster object first (its failure is only logged), then the row.
CreateBranch(q, b) ==
    /\ DbAt(q, "none") /\ dbRow # 0 /\ DbGo(q, "branch", dbRow, b)
    /\ \E ok \in BOOLEAN : branchCRs' = IF ok THEN branchCRs \cup {<<dbRow, q>>} ELSE branchCRs
    /\ UNCHANGED <<dbRow, dbUsable, dbReal, dbJobs, dbAudit, branchRows, storeVars, endVars>>

\* UNIQUE (parent_id, name): 500, the Cluster stays.
InsertBranch(q) ==
    LET key == <<dbTask[q].db, dbTask[q].name>> IN
    /\ DbAt(q, "branch") /\ branchRows' = branchRows \cup {key}
    /\ DbGo(q, IF key \in branchRows THEN "done" ELSE "answered", key[1], key[2])
    /\ UNCHANGED <<dbRow, dbUsable, dbReal, dbJobs, dbAudit, branchCRs, storeVars, endVars>>

\* DELETE removes every Cluster labelled with the parent, whatever its branch.
DeleteBranch(q, b) ==
    /\ DbAt(q, "none") /\ dbRow # 0 /\ <<dbRow, b>> \in branchRows /\ DbGo(q, "unbranch", dbRow, b)
    /\ \E kept \in SUBSET {c \in branchCRs : c[1] = dbRow} :
         branchCRs' = {c \in branchCRs : c[1] # dbRow} \cup kept
    /\ UNCHANGED <<dbRow, dbUsable, dbReal, dbJobs, dbAudit, branchRows, storeVars, endVars>>

DeleteBranchRow(q) ==
    /\ DbAt(q, "unbranch") /\ DbGo(q, "done", dbTask[q].db, dbTask[q].name)
    /\ branchRows' = branchRows \ {<<dbTask[q].db, dbTask[q].name>>}
    /\ UNCHANGED <<dbRow, dbUsable, dbReal, dbJobs, dbAudit, branchCRs, storeVars, endVars>>

DbNext ==
    \/ \E q \in DbReqs :
         \/ AskDatabase(q) \/ InsertDatabase(q) \/ DropDatabase(q) \/ DeleteDatabaseRow(q)
         \/ QueryDatabase(q) \/ VectorSearch(q) \/ AuditQuery(q) \/ ProxyToPostgrest(q) \/ ProxyTable(q)
         \/ InsertBranch(q) \/ DeleteBranchRow(q)
         \/ \E b \in Branches : CreateBranch(q, b) \/ DeleteBranch(q, b)
    \/ \E j \in dbJobs : RunPsqlJob(j)
    \/ MarkAvailable

(***************************************************************************)
(* Buckets and databases of the storage provisioner                        *)
(***************************************************************************)
HasName(kind, n) == \E i \in StoreReqs : storeRow[i].kind = kind /\ storeRow[i].name = n
StoreGo(q, pc, row, i) == storeTask' = [storeTask EXCEPT ![q] = [pc |-> pc, row |-> row, id |-> i]]
Status(i, s) == storeRow' = [storeRow EXCEPT ![i].status = s]

\* POST: no row of that name, deleted ones included, then the insert.
AskStore(q, kind, n) ==
    /\ storeTask[q].pc = "none" /\ ~HasName(kind, n)
    /\ StoreGo(q, "insert", [kind |-> kind, name |-> n, status |-> "provisioning"], q)
    /\ UNCHANGED <<storeRow, storeReal, storeWork, pgVars, endVars>>
AskBucket(q, n)   == AskStore(q, "bucket", n)
AskCluster(q, n)  == AskStore(q, "database", n)

\* UNIQUE (tenant_id, name) turns the loser of a race into a 500.
InsertStore(q) ==
    LET row == storeTask[q].row IN
    /\ storeTask[q].pc = "insert" /\ StoreGo(q, "done", NoStore, q)
    /\ storeRow' = IF HasName(row.kind, row.name) THEN storeRow ELSE [storeRow EXCEPT ![q] = row]
    /\ UNCHANGED <<storeReal, storeWork, pgVars, endVars>>

\* DELETE reads the status (409 when it has been asked before), then writes.
Going(kind) == IF kind = "bucket" THEN {"deleting", "deleted"} ELSE {"stopping", "stopped"}
AskRemoval(q, i) ==
    /\ storeTask[q].pc = "none" /\ storeRow[i].kind # "none"
    /\ storeRow[i].status \notin Going(storeRow[i].kind)
    /\ StoreGo(q, "remove", NoStore, i)
    /\ UNCHANGED <<storeRow, storeReal, storeWork, pgVars, endVars>>

SetRemoval(q) ==
    LET i == storeTask[q].id IN
    /\ storeTask[q].pc = "remove" /\ StoreGo(q, "done", NoStore, i)
    /\ Status(i, IF storeRow[i].kind = "bucket" THEN "deleting" ELSE "stopping")
    /\ UNCHANGED <<storeReal, storeWork, pgVars, endVars>>

\* A poll takes a row in 'provisioning'; a second goroutine of the next poll
\* may still hold the bucket, a database is claimed by one.
ProvisionerClaims(i) ==
    /\ storeRow[i].status = "provisioning" /\ storeWork[i] = "none"
    /\ Status(i, IF storeRow[i].kind = "bucket" THEN "active" ELSE "running")
    /\ storeWork' = [storeWork EXCEPT ![i] = "claimed"]
    /\ UNCHANGED <<storeReal, storeTask, pgVars, endVars>>

\* It creates the object and writes the connection; a bucket's last update also
\* writes its status, whatever it is by then; a failure writes another one.
ProvisionerEnds(i) ==
    /\ storeWork[i] = "claimed" /\ storeWork' = [storeWork EXCEPT ![i] = "done"]
    /\ \/ /\ storeReal' = storeReal \cup {i}
          /\ storeRow' = IF storeRow[i].kind = "bucket" THEN [storeRow EXCEPT ![i].status = "active"] ELSE storeRow
       \/ /\ storeReal' = storeReal
          /\ Status(i, IF storeRow[i].kind = "bucket" THEN "suspended" ELSE "error")
    /\ UNCHANGED <<storeTask, pgVars, endVars>>

StoreNext ==
    \/ \E q \in StoreReqs :
         \/ InsertStore(q) \/ SetRemoval(q)
         \/ \E n \in StoreNames : AskBucket(q, n) \/ AskCluster(q, n)
         \/ \E i \in StoreReqs : AskRemoval(q, i)
    \/ \E i \in StoreReqs : ProvisionerClaims(i) \/ ProvisionerEnds(i)

(***************************************************************************)
(* One inference endpoint                                                  *)
(***************************************************************************)
EndGo(q, pc, to) == endTask' = [endTask EXCEPT ![q] = [pc |-> pc, to |-> to]]

CreateEndpoint(q) ==
    /\ endTask[q].pc = "none" /\ endRow = "none" /\ EndGo(q, "done", "none")
    /\ endRow' = "active" /\ UNCHANGED <<endGone, pgVars, storeVars>>

\* PATCH and DELETE read the status first; "same" stands for limits only.
ReadEndpoint(q, to) ==
    /\ endTask[q].pc = "none" /\ endRow \notin {"none", "deleted"}
    /\ EndGo(q, "write", to) /\ UNCHANGED <<endRow, endGone, pgVars, storeVars>>

\* UPDATE ... WHERE id: it no longer asks what the status is.
PatchEndpoint(q) ==
    /\ endTask[q].pc = "write" /\ endTask[q].to # "deleted" /\ EndGo(q, "done", "none")
    /\ endRow' = IF endTask[q].to = "same" THEN endRow ELSE endTask[q].to
    /\ UNCHANGED <<endGone, pgVars, storeVars>>

DeleteEndpoint(q) ==
    /\ endTask[q].pc = "write" /\ endTask[q].to = "deleted" /\ EndGo(q, "done", "none")
    /\ endRow' = "deleted" /\ endGone' = TRUE /\ UNCHANGED <<pgVars, storeVars>>

EndNext == \E q \in EndReqs :
    \/ CreateEndpoint(q) \/ PatchEndpoint(q) \/ DeleteEndpoint(q)
    \/ \E to \in {"active", "paused", "same", "deleted"} : ReadEndpoint(q, to)

(***************************************************************************)
(* Properties                                                              *)
(***************************************************************************)
\* Types of every variable.
DataTypeOK ==
    /\ dbRow \in DbReqs \cup {0} /\ dbUsable \in BOOLEAN /\ dbReal \subseteq DbReqs
    /\ dbJobs \subseteq {"create", "drop"} \X DbReqs /\ dbAudit \subseteq DbReqs
    /\ \A q \in DbReqs : dbTask[q].db \in DbReqs \cup {0}
    /\ branchRows \subseteq DbReqs \X Branches /\ branchCRs \subseteq DbReqs \X DbReqs
    /\ \A i \in StoreReqs : storeRow[i].kind \in {"none", "bucket", "database"}
    /\ storeReal \subseteq StoreReqs
    /\ endRow \in {"none", "active", "paused", "deleted"} /\ endGone \in BOOLEAN
================================================================================
