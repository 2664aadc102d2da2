-------------------------------- MODULE DashEnv --------------------------------
(***************************************************************************)
(* The configuration page of an app in tinai-dashboard (workloads/[id]/    *)
(* config) and its EnvVarEditor: variables edited one by one, added,       *)
(* removed, marked as secret or edited in bulk, and custom domains.  Every *)
(* save is a call to the API followed by a reload of what is shown; both   *)
(* may fail, be answered late, or lose their answer.                       *)
(***************************************************************************)
EXTENDS Naturals, Sequences, FiniteSets

CONSTANTS
    EnvKeys, EnvValues,   \* "" is a value, "none" no variable
    MaxEnvCalls, MaxTabs

EnvText == EnvValues \cup {"", "none"}
NoVars  == [k \in EnvKeys |-> "none"]

VARIABLES
    configMap,   \* the API: value of each variable of the app
    config,      \* the page
    editor,      \* the EnvVarEditor on it
    envCalls     \* the calls of the page

editorVars == <<configMap, config, editor, envCalls>>

NewEditor(n) == [id |-> n, edit |-> "none", text |-> "", confirm |-> "none", adding |-> FALSE, addBusy |-> FALSE,
                 bulk |-> FALSE, bulkText |-> NoVars, bulkBusy |-> FALSE]
\* A call: what it asks, the variables it writes, and the part of which editor
\* waits for it.
EnvCall(op, vars, part) == [op |-> op, vars |-> vars, part |-> part, id |-> editor.id,
                            pc |-> "sent", ok |-> "no", got |-> NoVars]
Reload(part) == EnvCall("env", NoVars, part)
Rehost(part) == EnvCall("hosts", NoVars, part)

EnvInit ==
    /\ configMap \in [EnvKeys -> {"none"} \cup EnvValues]
    /\ editor = NewEditor(1)
    /\ config = [tab |-> "variables", app |-> FALSE, loadingApp |-> TRUE, vars |-> NoVars, loadingEnv |-> TRUE,
                 addingHost |-> FALSE, tabs |-> 1]
    /\ envCalls = <<EnvCall("app", NoVars, "none"), Reload("none")>>

Calls(cs) == Len(envCalls) + Len(cs) <= MaxEnvCalls /\ envCalls' = envCalls \o cs
InFlight(ops) == {c \in DOMAIN envCalls : envCalls[c].op \in ops /\ envCalls[c].pc # "heard"}
OnTab(t) == config.app /\ config.tab = t
\* The modal dialogs of the editor cover the page.
Editing  == OnTab("variables") /\ editor.confirm = "none" /\ ~editor.bulk
RowShown(k) == Editing /\ ~config.loadingEnv /\ config.vars[k] # "none"
EditorOnly == UNCHANGED <<configMap, config, envCalls>>
PageLeaves == UNCHANGED <<configMap, config>>

\* A tab mounts its own content, a new editor among it, and loads it.
SetTab(t) ==
    /\ config.app /\ t # config.tab /\ config.tabs < MaxTabs /\ editor.confirm = "none" /\ ~editor.bulk
    /\ config' = [config EXCEPT !.tab = t, !.tabs = @ + 1, !.loadingEnv = @ \/ t = "variables"]
    /\ editor' = IF t = "variables" THEN NewEditor(editor.id + 1) ELSE editor
    /\ CASE t = "variables" -> Calls(<<[Reload("none") EXCEPT !.id = editor.id + 1]>>)
         [] t = "domains" -> Calls(<<Rehost("none")>>)
         [] OTHER -> envCalls' = envCalls
    /\ configMap' = configMap

RestartApp ==
    /\ config.app /\ editor.confirm = "none" /\ ~editor.bulk
    /\ Calls(<<EnvCall("deploy", NoVars, "none")>>) /\ UNCHANGED editor /\ PageLeaves

(***************************************************************************)
(* The editor                                                              *)
(***************************************************************************)
One(k, v) == [NoVars EXCEPT ![k] = v]
StartEdit(k, v) ==
    /\ RowShown(k) /\ editor' = [editor EXCEPT !.edit = k, !.text = v] /\ EditorOnly

\* Enter, or leaving the input; again and again while the save is under way.
CommitEdit ==
    LET k == editor.edit IN
    /\ k # "none" /\ RowShown(k)
    /\ IF editor.text = config.vars[k]
       THEN editor' = [editor EXCEPT !.edit = "none"] /\ UNCHANGED envCalls
       ELSE /\ Calls(<<EnvCall("set", One(k, editor.text), "edit")>>)
            /\ editor' = editor
    /\ PageLeaves

\* "Mark as secret": the page saves the patch's value, which the patch does not have.
ToggleSecret(k) ==
    /\ RowShown(k) /\ Calls(<<EnvCall("set", One(k, ""), "none")>>)
    /\ UNCHANGED editor /\ PageLeaves

OpenAdd ==
    /\ Editing /\ ~editor.adding /\ editor' = [editor EXCEPT !.adding = TRUE] /\ EditorOnly
CloseAdd ==
    /\ Editing /\ editor.adding /\ editor' = [editor EXCEPT !.adding = FALSE] /\ EditorOnly

\* The button, or Enter in one of the inputs, which works while the addition is
\* under way.  A key that is shown already is refused by the editor, not by the
\* API.
HandleAdd(k, v) ==
    /\ Editing /\ editor.adding /\ ~config.loadingEnv /\ config.vars[k] = "none"
    /\ editor' = [editor EXCEPT !.addBusy = TRUE]
    /\ Calls(<<EnvCall("set", One(k, v), "add")>>) /\ PageLeaves

AskRemove(k) ==
    /\ RowShown(k) /\ editor' = [editor EXCEPT !.confirm = k] /\ EditorOnly
CancelRemove ==
    /\ editor.confirm # "none" /\ editor' = [editor EXCEPT !.confirm = "none"] /\ EditorOnly
ConfirmRemove ==
    /\ editor.confirm # "none" /\ Calls(<<EnvCall("unset", One(editor.confirm, ""), "remove")>>)
    /\ editor' = editor /\ PageLeaves

\* Bulk edit starts from the variables shown; the user changes or drops one line.
HandleBulkOpen ==
    /\ Editing /\ editor' = [editor EXCEPT !.bulk = TRUE, !.bulkText = config.vars] /\ EditorOnly
EditBulk(k, v) ==
    /\ editor.bulk /\ editor' = [editor EXCEPT !.bulkText[k] = v]
    /\ UNCHANGED envCalls /\ PageLeaves
CloseBulk ==
    /\ editor.bulk /\ editor' = [editor EXCEPT !.bulk = FALSE] /\ EditorOnly
HandleBulkSave ==
    /\ editor.bulk /\ ~editor.bulkBusy /\ editor' = [editor EXCEPT !.bulkBusy = TRUE]
    /\ Calls(<<EnvCall("set", editor.bulkText, "bulk")>>) /\ PageLeaves

(***************************************************************************)
(* Domains                                                                 *)
(***************************************************************************)
\* The button, or Enter again and again.  The API has no such route: nothing is
\* ever added, and no domain is listed.
AddDomain ==
    /\ OnTab("domains") /\ config' = [config EXCEPT !.addingHost = TRUE]
    /\ Calls(<<EnvCall("addHost", NoVars, "none")>>) /\ UNCHANGED <<configMap, editor>>

(***************************************************************************)
(* The API, and another client of it                                       *)
(***************************************************************************)
AtApi(c, ops) == c \in DOMAIN envCalls /\ envCalls[c].pc = "sent" /\ envCalls[c].op \in ops
Answers(c, ok, got) ==
    /\ envCalls' = [envCalls EXCEPT ![c] = [@ EXCEPT !.pc = "answered", !.ok = ok, !.got = got]]
    /\ UNCHANGED <<config, editor>>

\* An error answer, or none.
CallFails(c) ==
    /\ c \in DOMAIN envCalls /\ envCalls[c].pc = "sent"
    /\ \E ok \in {"no", "lost"} : Answers(c, ok, NoVars)
    /\ configMap' = configMap
\* A ConfigMap that cannot be read is answered as one without variables.
Reads(c) ==
    /\ AtApi(c, {"app", "env", "deploy"}) /\ configMap' = configMap
    /\ \E got \in {configMap, NoVars} : Answers(c, "yes", got)
\* POST merges into what is there: a line dropped from the bulk text stays.
SetsVars(c) ==
    LET vars == envCalls[c].vars IN
    /\ AtApi(c, {"set"})
    /\ configMap' = [k \in EnvKeys |-> IF vars[k] = "none" THEN configMap[k] ELSE vars[k]]
    /\ \E ok \in {"yes", "lost"} : Answers(c, ok, NoVars)
RemovesVar(c) ==
    /\ AtApi(c, {"unset"})
    /\ configMap' = [k \in EnvKeys |-> IF envCalls[c].vars[k] = "none" THEN configMap[k] ELSE "none"]
    /\ \E ok \in {"yes", "lost"} : Answers(c, ok, NoVars)

(***************************************************************************)
(* Answers                                                                 *)
(***************************************************************************)
HearsCall(c, ops) == c \in DOMAIN envCalls /\ envCalls[c].pc = "answered" /\ envCalls[c].op \in ops
Then(c, cs) ==
    /\ Len(envCalls) + Len(cs) <= MaxEnvCalls
    /\ envCalls' = [envCalls EXCEPT ![c].pc = "heard"] \o cs
    /\ configMap' = configMap
\* A defect of Closes: a failed addition leaves its button busy.
StaysBusy(part, done) ==
    CASE part = "edit"   -> [editor EXCEPT !.edit = IF done THEN "none" ELSE @]
      [] part = "add"    -> [editor EXCEPT !.adding = @ /\ ~done, !.addBusy = @ /\ ~done]
      [] part = "remove" -> [editor EXCEPT !.confirm = IF done THEN "none" ELSE @]
      [] part = "bulk"   -> [editor EXCEPT !.bulk = @ /\ ~done, !.bulkBusy = FALSE]
      [] OTHER -> editor

\* What a part of the editor does when its save and the reload are over, or failed.
Closes(part, done) ==
    CASE part = "edit"   -> [editor EXCEPT !.edit = IF done THEN "none" ELSE @]
      [] part = "add"    -> [editor EXCEPT !.adding = @ /\ ~done, !.addBusy = FALSE]
      [] part = "remove" -> [editor EXCEPT !.confirm = IF done THEN "none" ELSE @]
      [] part = "bulk"   -> [editor EXCEPT !.bulk = @ /\ ~done, !.bulkBusy = FALSE]
      [] OTHER -> editor
EditorHears(c, done) == editor' = IF envCalls[c].id = editor.id THEN Closes(envCalls[c].part, done) ELSE editor

HearApp(c) ==
    /\ HearsCall(c, {"app"}) /\ Then(c, <<>>) /\ editor' = editor
    /\ config' = [config EXCEPT !.app = @ \/ envCalls[c].ok = "yes", !.loadingApp = FALSE]
\* Only a call without any answer throws; an error answer keeps what is shown.
HearEnv(c) ==
    /\ HearsCall(c, {"env"}) /\ Then(c, <<>>) /\ EditorHears(c, envCalls[c].ok # "lost")
    /\ config' = [config EXCEPT !.vars = IF envCalls[c].ok = "yes" THEN envCalls[c].got ELSE @,
                                !.loadingEnv = FALSE]
HearSaved(c) ==
    /\ HearsCall(c, {"set", "unset"})
    /\ IF envCalls[c].ok = "yes"
       THEN /\ Then(c, <<[Reload(envCalls[c].part) EXCEPT !.id = envCalls[c].id]>>)
            /\ config' = [config EXCEPT !.loadingEnv = TRUE] /\ editor' = editor
       ELSE Then(c, <<>>) /\ EditorHears(c, FALSE) /\ config' = config
\* The status of the answer is not looked at: the domains are read again, and
\* what that answers, never a list, leaves those shown as they are.
HearHost(c) ==
    /\ HearsCall(c, {"addHost"}) /\ editor' = editor
    /\ IF envCalls[c].ok = "lost"
       THEN Then(c, <<>>) /\ config' = [config EXCEPT !.addingHost = FALSE]
       ELSE Then(c, <<Rehost("addHost")>>) /\ config' = config
HearHosts(c) ==
    /\ HearsCall(c, {"hosts"}) /\ Then(c, <<>>) /\ editor' = editor
    /\ config' = [config EXCEPT !.addingHost = @ /\ envCalls[c].part # "addHost"]
HearDeploy(c) ==
    /\ HearsCall(c, {"deploy"}) /\ UNCHANGED <<config, editor>>
    /\ Then(c, IF envCalls[c].ok = "lost" THEN <<>> ELSE <<EnvCall("app", NoVars, "none")>>)

EnvNext ==
    \/ \E t \in {"variables", "settings", "domains"} : SetTab(t)
    \/ RestartApp \/ AddDomain \/ CommitEdit \/ OpenAdd \/ CloseAdd \/ CancelRemove \/ ConfirmRemove
    \/ HandleBulkOpen \/ CloseBulk \/ HandleBulkSave
    \/ \E k \in EnvKeys : \/ ToggleSecret(k) \/ AskRemove(k)
                          \/ \E v \in EnvValues : StartEdit(k, v) \/ HandleAdd(k, v)
                          \/ \E v \in EnvValues \cup {"none"} : EditBulk(k, v)
    \/ \E c \in 1 .. MaxEnvCalls : \/ CallFails(c) \/ Reads(c) \/ SetsVars(c) \/ RemovesVar(c)
                                   \/ HearApp(c) \/ HearEnv(c) \/ HearSaved(c) \/ HearHost(c) \/ HearHosts(c)
                                   \/ HearDeploy(c)
EnvSpec == EnvInit /\ [][EnvNext]_editorVars

(***************************************************************************)
(* Properties                                                              *)
(***************************************************************************)
EnvTypeOK ==
    /\ configMap \in [EnvKeys -> EnvText]
    /\ config.vars \in [EnvKeys -> EnvText]
    /\ editor.edit \in EnvKeys \cup {"none"} /\ editor.confirm \in EnvKeys \cup {"none"}

\* What the page shows as busy, the list, the row being added, the bulk editor
\* and the new domain, has a call under way that ends it, for the editor on the
\* screen: switching tabs, a save that fails and a reload that fails never
\* leave a button disabled for good (the finally clauses of EnvVarEditor and
\* config/page.tsx, and onAdd and onBulkSave awaiting their reload).  The
\* converse is not so: Enter adds again while an addition is under way, and
\* the first of the two to end enables the button.
SavesEnd ==
    LET waits(part) == \E c \in InFlight({"set", "unset", "env"}) :
                         envCalls[c].part = part /\ envCalls[c].id = editor.id IN
    /\ config.loadingApp => InFlight({"app"}) # {}
    /\ config.loadingEnv => InFlight({"env"}) # {}
    /\ editor.addBusy    => waits("add")
    /\ editor.bulkBusy   => waits("bulk")
    /\ config.addingHost => \E c \in InFlight({"addHost", "hosts"}) : "addHost" \in {envCalls[c].op, envCalls[c].part}
================================================================================
