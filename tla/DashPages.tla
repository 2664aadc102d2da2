------------------------------- MODULE DashPages -------------------------------
(***************************************************************************)
(* List pages of tinai-dashboard and the rows behind them: the bucket and  *)
(* database tabs of storage, the inference endpoints, the administrator's  *)
(* users, and two pages that only create: instances/new and generate.  A   *)
(* page loads its rows once, edits its own copy from the answers of its    *)
(* calls, and every call goes through the reverse proxy, which refuses     *)
(* writes without the CSRF header.                                         *)
(***************************************************************************)
EXTENDS Naturals, Sequences, FiniteSets

CONSTANTS
    MaxRows,    \* rows of a kind
    MaxAsked,   \* calls made by the pages
    MaxVisits   \* pages visited

\* The pictures that instances/new offers are numbered as rows are.
ASSUME DashPagesAssumption == MaxRows \in Nat \ {0, 1} /\ MaxAsked \in Nat \ {0}

Tabs  == {"buckets", "databases"}
Lists == Tabs \cup {"endpoints", "users"}
PageKinds == Lists \cup {"launch", "generate"}
RowIds == 1 .. MaxRows
RowStates == {"none", "active", "paused", "tenant", "admin"}

VARIABLES
    stock,   \* the API: state of each row, per kind
    dash,    \* the page in the browser
    asked    \* its calls, in the order it made them

dashVars == <<stock, dash, asked>>

Fresh(k, n) == [kind |-> k, visit |-> n, list |-> {}, loading |-> k # "generate", failed |-> FALSE, form |-> 0,
                creating |-> FALSE, target |-> 0, deleting |-> FALSE, toggling |-> 0, role |-> "none",
                counting |-> FALSE, image |-> 0, sizing |-> FALSE, sized |-> FALSE, size |-> FALSE]
Ask(op, k, n, id, st, csrf) == [op |-> op, kind |-> k, visit |-> n, id |-> id, st |-> st, csrf |-> csrf,
                                pc |-> "sent", ok |-> FALSE, rows |-> {}]
\* A page reads its rows when it is mounted, instances/new its images.
FirstCall(k, n) == IF k = "generate" THEN <<>> ELSE <<Ask("list", k, n, 0, "none", FALSE)>>
Read(op)          == Ask(op, dash.kind, dash.visit, 0, "none", FALSE)
Write(op, id, st) == Ask(op, dash.kind, dash.visit, id, st, dash.kind \in Lists)

DashPagesInit ==
    /\ stock = [k \in Lists |-> [i \in RowIds |-> IF i > 1 THEN "none"
                                                  ELSE IF k = "users" THEN "tenant" ELSE "active"]]
    /\ \E k \in PageKinds : dash = Fresh(k, 1) /\ asked = FirstCall(k, 1)

Asks(cs)  == Len(asked) + Len(cs) <= MaxAsked /\ asked' = asked \o cs
Outstanding(op)  == {c \in DOMAIN asked : asked[c].op = op /\ asked[c].visit = dash.visit /\ asked[c].pc # "heard"}
Dialog    == dash.target # 0
Shows(ks) == dash.kind \in ks /\ ~Dialog

\* Another page, or the other tab of storage; the page left is unmounted and
\* what its calls answer is dropped.
Visit(k) ==
    /\ ~Dialog /\ dash.visit < MaxVisits /\ dash' = Fresh(k, dash.visit + 1)
    /\ Asks(FirstCall(k, dash.visit + 1)) /\ stock' = stock

(***************************************************************************)
(* Lists                                                                   *)
(***************************************************************************)
\* A form opened has a number of its own.  The form of the endpoints is a
\* component: closing it forgets that a creation is under way.
ToggleForm ==
    /\ Shows(Tabs \cup {"endpoints"})
    /\ dash' = [dash EXCEPT !.form = IF @ = 0 THEN Len(asked) + 1 ELSE 0, !.creating = @ /\ dash.kind # "endpoints"]
    /\ UNCHANGED <<stock, asked>>

Submits ==
    /\ dash.form # 0 /\ ~dash.creating /\ dash' = [dash EXCEPT !.creating = TRUE]
    /\ Asks(<<Write("create", dash.form, "active")>>) /\ stock' = stock
SubmitBucket   == Shows({"buckets"}) /\ Submits
SubmitDatabase == Shows({"databases"}) /\ Submits
\* Not rendered until the models are there.
SubmitEndpoint == Shows({"endpoints"}) /\ ~dash.loading /\ Submits

\* The rows are not rendered while they load, nor those of the users after an error.
Rendered(i) == ~dash.loading /\ ~dash.failed /\ \E row \in dash.list : row.id = i
Targets(i) == Rendered(i) /\ dash' = [dash EXCEPT !.target = i] /\ UNCHANGED <<stock, asked>>
AskDeleteBucket(i)   == Shows({"buckets"}) /\ Targets(i)
AskDeleteDatabase(i) == Shows({"databases"}) /\ Targets(i)
AskDeleteEndpoint(i) == Shows({"endpoints"}) /\ Targets(i)

\* Both buttons of the dialog are disabled while it deletes.
DialogIdle == Dialog /\ dash.kind # "users" /\ ~dash.deleting
CancelDelete ==
    /\ DialogIdle /\ dash' = [dash EXCEPT !.target = 0]
    /\ UNCHANGED <<stock, asked>>
ConfirmDelete ==
    /\ DialogIdle /\ dash' = [dash EXCEPT !.deleting = TRUE]
    /\ Asks(<<Write("delete", dash.target, "none")>>) /\ stock' = stock

\* Pause or resume, by the state the page shows; only the row that toggles last is disabled.
HandleToggle(row) ==
    /\ Shows({"endpoints"}) /\ ~dash.loading /\ dash.toggling # row.id
    /\ dash' = [dash EXCEPT !.toggling = row.id]
    /\ Asks(<<Write("patch", row.id, IF row.st = "active" THEN "paused" ELSE "active")>>)
    /\ stock' = stock

(***************************************************************************)
(* Users                                                                   *)
(***************************************************************************)
RefreshUsers ==
    /\ Shows({"users"}) /\ dash' = [dash EXCEPT !.loading = TRUE, !.failed = FALSE] /\ Asks(<<Read("list")>>)
    /\ stock' = stock

AskRole(i, r) ==
    /\ Shows({"users"}) /\ Rendered(i) /\ dash.toggling # i
    /\ dash' = [dash EXCEPT !.target = i, !.role = r]
    /\ UNCHANGED <<stock, asked>>

\* Cancel stays enabled while the change is under way.
CancelRole ==
    /\ dash.kind = "users" /\ Dialog /\ dash' = [dash EXCEPT !.target = 0]
    /\ UNCHANGED <<stock, asked>>
ConfirmRole ==
    /\ dash.kind = "users" /\ Dialog /\ dash.toggling # dash.target
    /\ dash' = [dash EXCEPT !.toggling = dash.target]
    /\ Asks(<<Write("patch", dash.target, dash.role)>>) /\ stock' = stock

AskDeleteUser(i) ==
    /\ Shows({"users"}) /\ Rendered(i) /\ dash' = dash /\ Asks(<<Write("delete", i, "none")>>)
    /\ stock' = stock

(***************************************************************************)
(* instances/new and generate                                              *)
(***************************************************************************)
\* Another image loads the types again; the same one only forgets the type.
PickImage(i) ==
    /\ dash.kind = "launch" /\ Rendered(i)
    /\ dash' = [dash EXCEPT !.image = i, !.size = FALSE, !.sizing = @ \/ i # dash.image]
    /\ IF i # dash.image THEN Asks(<<Read("types")>>) ELSE asked' = asked
    /\ stock' = stock
PickType ==
    /\ dash.kind = "launch" /\ dash.image # 0 /\ ~dash.sizing /\ dash.sized
    /\ dash' = [dash EXCEPT !.size = TRUE] /\ UNCHANGED <<stock, asked>>
HandleLaunch ==
    /\ dash.kind = "launch" /\ dash.image # 0 /\ dash.size /\ ~dash.creating
    /\ dash' = [dash EXCEPT !.creating = TRUE] /\ Asks(<<Write("create", 0, "active")>>)
    /\ stock' = stock

HandleGenerate ==
    /\ dash.kind = "generate" /\ ~dash.creating
    /\ dash' = [dash EXCEPT !.creating = TRUE] /\ Asks(<<Write("create", 0, "active")>>)
    /\ stock' = stock

(***************************************************************************)
(* The proxy and the API                                                   *)
(***************************************************************************)
Sent(c, ops) == c \in DOMAIN asked /\ asked[c].pc = "sent" /\ asked[c].op \in ops
Replies(c, ok, rows) == asked' = [asked EXCEPT ![c] = [@ EXCEPT !.pc = "answered", !.ok = ok, !.rows = rows]]
Writes == {"create", "delete", "patch"}
\* A write that the proxy lets through.
Reaches(c, op) == Sent(c, {op}) /\ asked[c].csrf

\* Refused by the proxy, or failed before it took effect.
Refused(c) ==
    /\ Sent(c, Writes \cup {"list", "types", "usage"}) /\ Replies(c, FALSE, {})
    /\ UNCHANGED <<stock, dash>>

Row(k, i) == [id |-> i, st |-> stock[k][i]]
ListRows(c) ==
    LET k == asked[c].kind IN
    /\ Sent(c, {"list"}) /\ UNCHANGED <<stock, dash>>
    /\ Replies(c, TRUE, IF k = "launch" THEN {[id |-> 1, st |-> "active"], [id |-> 2, st |-> "active"]}
                        ELSE {Row(k, i) : i \in {x \in RowIds : stock[k][x] # "none"}})
ReadTypes(c) == Sent(c, {"types", "usage"}) /\ Replies(c, TRUE, {}) /\ UNCHANGED <<stock, dash>>

\* The answer of a write that took effect may be lost.
CreateRow(c, i) ==
    LET k == asked[c].kind IN
    /\ Reaches(c, "create") /\ stock[k][i] = "none" /\ stock' = [stock EXCEPT ![k][i] = "active"]
    /\ \E ok \in BOOLEAN : Replies(c, ok, {[id |-> i, st |-> "active"]})
    /\ dash' = dash
WriteRow(c) ==
    LET k == asked[c].kind  i == asked[c].id IN
    /\ Reaches(c, "delete") \/ Reaches(c, "patch")
    /\ stock[k][i] # "none" /\ stock' = [stock EXCEPT ![k][i] = asked[c].st]
    /\ \E ok \in BOOLEAN : Replies(c, ok, {[id |-> i, st |-> asked[c].st]})
    /\ dash' = dash

(***************************************************************************)
(* Answers                                                                 *)
(***************************************************************************)
Hears(c, op, ks) ==
    /\ c \in DOMAIN asked /\ asked[c].pc = "answered" /\ asked[c].op = op
    /\ asked[c].visit = dash.visit /\ dash.kind \in ks
Done(c, cs) == /\ Len(asked) + Len(cs) <= MaxAsked /\ stock' = stock
               /\ asked' = [asked EXCEPT ![c].pc = "heard"] \o cs
\* Endpoints that changed have the usage of them all read again; its figures are left out.
Recount(list) == IF dash.kind = "endpoints" /\ list # {} THEN <<Read("usage")>> ELSE <<>>
Listed(d, list) == [d EXCEPT !.list = list, !.counting = @ \/ Recount(list) # <<>>]

HearList(c) ==
    LET rows == IF asked[c].ok THEN asked[c].rows ELSE dash.list IN
    /\ Hears(c, "list", Lists \cup {"launch"})
    /\ Done(c, IF asked[c].ok THEN Recount(rows) ELSE <<>>)
    /\ dash' = [(IF asked[c].ok THEN Listed(dash, rows) ELSE dash) EXCEPT !.loading = FALSE, !.failed = dash.kind = "users" /\ ~asked[c].ok]

\* Closes the form that is open; only its own answer ends a form's wait.
HearCreated(c) ==
    LET list == dash.list \cup asked[c].rows IN
    /\ Hears(c, "create", Tabs \cup {"endpoints"})
    /\ Done(c, IF asked[c].ok THEN Recount(list) ELSE <<>>)
    /\ dash' = [(IF asked[c].ok THEN [Listed(dash, list) EXCEPT !.form = 0] ELSE dash)
                EXCEPT !.creating = @ /\ ~asked[c].ok /\ dash.kind = "endpoints" /\ asked[c].id # dash.form]

HearDeleted(c) ==
    LET list == {row \in dash.list : row.id # asked[c].id} IN
    /\ Hears(c, "delete", Tabs \cup {"endpoints"})
    /\ Done(c, IF asked[c].ok THEN Recount(list) ELSE <<>>)
    /\ dash' = [(IF asked[c].ok THEN [Listed(dash, list) EXCEPT !.target = 0] ELSE dash)
                EXCEPT !.deleting = FALSE]

Patched(c) == UNION {IF row.id = asked[c].id THEN asked[c].rows ELSE {row} : row \in dash.list}
HearToggled(c) ==
    /\ Hears(c, "patch", {"endpoints"})
    /\ Done(c, IF asked[c].ok THEN Recount(dash.list) ELSE <<>>)
    /\ dash' = [(IF asked[c].ok THEN Listed(dash, Patched(c)) ELSE dash) EXCEPT !.toggling = 0]

\* Closes whichever dialog is open; a failure is not shown.
HearRole(c) ==
    /\ Hears(c, "patch", {"users"}) /\ Done(c, <<>>)
    /\ dash' = [dash EXCEPT !.list = IF asked[c].ok THEN Patched(c) ELSE @, !.toggling = 0, !.target = 0]

HearUserDeleted(c) ==
    /\ Hears(c, "delete", {"users"}) /\ Done(c, IF asked[c].ok THEN <<Read("list")>> ELSE <<>>)
    /\ dash' = [dash EXCEPT !.loading = @ \/ asked[c].ok, !.failed = @ /\ ~asked[c].ok]

HearUsage(c) ==
    /\ Hears(c, "usage", {"endpoints"}) /\ Done(c, <<>>)
    /\ dash' = [dash EXCEPT !.counting = FALSE]

HearTypes(c) ==
    /\ Hears(c, "types", {"launch"}) /\ Done(c, <<>>)
    /\ dash' = [dash EXCEPT !.sized = @ \/ asked[c].ok, !.sizing = FALSE]

\* Neither page sends the header: the proxy refuses, and the error is shown.
HearRefusal(c) ==
    /\ Hears(c, "create", {"launch", "generate"}) /\ Done(c, <<>>)
    /\ dash' = [dash EXCEPT !.creating = FALSE]

DashPagesNext ==
    \/ \E k \in PageKinds : Visit(k)
    \/ ToggleForm \/ SubmitBucket \/ SubmitDatabase \/ SubmitEndpoint
    \/ CancelDelete \/ ConfirmDelete \/ RefreshUsers \/ CancelRole \/ ConfirmRole
    \/ PickType \/ HandleLaunch \/ HandleGenerate
    \/ \E i \in RowIds : \/ AskDeleteBucket(i) \/ AskDeleteDatabase(i) \/ AskDeleteEndpoint(i) \/ AskDeleteUser(i) \/ PickImage(i)
                         \/ \E r \in {"tenant", "admin"} : AskRole(i, r)
    \/ \E row \in dash.list : HandleToggle(row)
    \/ \E c \in 1 .. MaxAsked : \/ Refused(c) \/ ListRows(c) \/ ReadTypes(c) \/ WriteRow(c)
                                \/ \E i \in RowIds : CreateRow(c, i)
                                \/ HearList(c) \/ HearCreated(c) \/ HearDeleted(c) \/ HearToggled(c)
                                \/ HearRole(c) \/ HearUserDeleted(c) \/ HearUsage(c) \/ HearTypes(c)
                                \/ HearRefusal(c)
DashPagesSpec == DashPagesInit /\ [][DashPagesNext]_dashVars

(***************************************************************************)
(* Properties                                                              *)
(***************************************************************************)
DashPagesTypeOK ==
    /\ stock \in [Lists -> [RowIds -> RowStates]] /\ Len(asked) <= MaxAsked
    /\ dash.kind \in PageKinds /\ dash.target \in 0 .. MaxRows
    /\ dash.list \subseteq [id : RowIds, st : RowStates]

\* What a page disables or shows as busy has a call of this visit under way
\* that ends it, and a dialog that deletes is about the row its call deletes:
\* an answer that comes late never leaves a page stuck nor closes the dialog
\* of another row (the finally clauses and ConfirmDeleteDialog's busy).
BusyMeansUnderWay ==
    /\ dash.loading  => Outstanding("list") # {}
    /\ dash.counting => Outstanding("usage") # {}
    /\ dash.sizing   => Outstanding("types") # {}
    /\ dash.creating => Outstanding("create") # {}
    /\ dash.deleting => \E c \in Outstanding("delete") : asked[c].id = dash.target
    /\ dash.toggling # 0 => \E c \in Outstanding("patch") : asked[c].id = dash.toggling
================================================================================
