-------------------------------- MODULE WebMail --------------------------------
(***************************************************************************)
(* The web mail client tinai-mail: its page (app/(app)/page.tsx,           *)
(* EmailView, ComposeModal) in the user's browser, its API routes and the  *)
(* mail server behind them.  The page never cancels a call: every call is  *)
(* answered in its own time, and its answer is applied to whatever the     *)
(* page has become.  A call fails before or after it took effect.          *)
(***************************************************************************)
EXTENDS Naturals, Sequences, FiniteSets

CONSTANTS
    Received,     \* mails 1 .. Received are in the inbox
    MaxCalls,     \* calls of the page; the mail sent by call c is Received + c
    MaxComposes   \* compose windows opened

ASSUME WebMailAssumption == Received \in Nat /\ MaxCalls \in Nat /\ MaxComposes \in Nat

Mails   == 1 .. (Received + MaxCalls)
Folders == {"inbox", "drafts", "sent", "trash"}

VARIABLES
    place,    \* mail server: the folder of each mail, "none" when there is no such mail
    seen,     \* mail server: the mails marked read
    cookie,   \* the browser's token: "none", "valid" or "expired"
    ui,       \* state of the page
    calls,    \* calls of the page, in the order it made them
    composed  \* history: compose windows opened, and those that an answer closed
              \* as sent, each with the window whose mail was answered

mailSrvVars == <<place, seen>>
webMailVars == <<place, seen, cookie, ui, calls, composed>>

Login  == [open |-> FALSE, box |-> "none", mail |-> 0, boxes |-> FALSE, list |-> {}, found |-> {},
           search |-> FALSE, view |-> "folders", compose |-> 0, shown |-> 0, failed |-> FALSE,
           listing |-> FALSE, searching |-> FALSE, viewing |-> FALSE, sending |-> FALSE, refreshing |-> FALSE]
\* A call: what it asks, about which mail or compose window, the folder that
\* was selected, and whether it belongs to a refresh.
Call(op, id, box, re) == [op |-> op, id |-> id, box |-> box, re |-> re,
                          pc |-> "sent", done |-> FALSE, ok |-> FALSE, got |-> {}]

WebMailInit ==
    /\ place = [m \in Mails |-> IF m <= Received THEN "inbox" ELSE "none"] /\ seen = {}
    /\ cookie \in {"none", "valid"} /\ ui = Login /\ calls = <<>>
    /\ composed = [opened |-> 0, sent |-> {}]

Issue(cs) == Len(calls) + Len(cs) <= MaxCalls /\ calls' = calls \o cs
CallAt(c, pc) == c \in DOMAIN calls /\ calls[c].pc = pc
Pending(op) == {c \in DOMAIN calls : calls[c].op = op /\ calls[c].pc # "heard"}
\* The compose window covers the page.
FreeCall  == ui.open /\ ui.compose = 0

(***************************************************************************)
(* Signing in                                                              *)
(***************************************************************************)
SubmitLogin(ok) ==
    /\ ~ui.open /\ cookie' = IF ok THEN "valid" ELSE cookie
    /\ UNCHANGED <<mailSrvVars, ui, calls, composed>>

\* The layout lets a valid token through; the page asks for the mailboxes.
OpenPage ==
    /\ ~ui.open /\ cookie = "valid" /\ \A c \in DOMAIN calls : calls[c].pc = "heard"
    /\ ui' = [Login EXCEPT !.open = TRUE] /\ Issue(<<Call("boxes", 0, "none", FALSE)>>)
    /\ UNCHANGED <<mailSrvVars, cookie, composed>>

\* The token expires, or another tab signs out.
LoseToken ==
    /\ cookie = "valid" /\ cookie' \in {"none", "expired"}
    /\ UNCHANGED <<mailSrvVars, ui, calls, composed>>

\* Leaving the page drops the answers still to come.
Logout ==
    /\ FreeCall /\ cookie' = "none" /\ ui' = Login
    /\ calls' = [c \in DOMAIN calls |-> [calls[c] EXCEPT !.pc = IF @ = "answered" THEN "heard" ELSE @]]
    /\ UNCHANGED <<mailSrvVars, composed>>

(***************************************************************************)
(* The page                                                                *)
(***************************************************************************)
SelectMailbox(f) ==
    /\ FreeCall /\ ui.boxes
    /\ ui' = [ui EXCEPT !.box = f, !.mail = 0, !.view = "list", !.shown = IF ui.mail = 0 THEN @ ELSE 0,
                        !.listing = @ \/ f # ui.box]
    /\ IF f = ui.box THEN calls' = calls ELSE Issue(<<Call("list", 0, f, FALSE)>>)
    /\ UNCHANGED <<mailSrvVars, cookie, composed>>

\* The list shown is not rendered while a list or a search is loading.
Shown == IF ui.search THEN ui.found ELSE ui.list
SelectEmail(m) ==
    /\ FreeCall /\ ~ui.listing /\ ~ui.searching /\ m \in Shown /\ m # ui.mail
    /\ ui' = [ui EXCEPT !.mail = m, !.view = "detail", !.viewing = TRUE, !.failed = FALSE]
    /\ Issue(<<Call("read", m, ui.box, FALSE)>>)
    /\ UNCHANGED <<mailSrvVars, cookie, composed>>

Refresh ==
    /\ FreeCall /\ ui' = [ui EXCEPT !.refreshing = TRUE] /\ Issue(<<Call("boxes", 0, ui.box, TRUE)>>)
    /\ UNCHANGED <<mailSrvVars, cookie, composed>>

Search ==
    /\ FreeCall /\ ui' = [ui EXCEPT !.searching = TRUE, !.search = TRUE]
    /\ Issue(<<Call("search", 0, ui.box, FALSE)>>)
    /\ UNCHANGED <<mailSrvVars, cookie, composed>>

ClearSearch ==
    /\ FreeCall /\ ui.search /\ ui' = [ui EXCEPT !.search = FALSE, !.found = {}]
    /\ UNCHANGED <<mailSrvVars, cookie, calls, composed>>

\* What EmailView shows below its buttons: the last mail read, whichever is selected.
Viewing == FreeCall /\ ui.mail # 0 /\ ~ui.viewing /\ ~ui.failed /\ ui.shown # 0
Back ==
    /\ Viewing /\ ui' = [ui EXCEPT !.view = "list", !.mail = 0, !.shown = 0]
    /\ UNCHANGED <<mailSrvVars, cookie, calls, composed>>

\* Delete asks for the mail selected.
HandleDelete ==
    /\ Viewing /\ ui' = ui /\ Issue(<<Call("delete", ui.mail, ui.box, FALSE)>>)
    /\ UNCHANGED <<mailSrvVars, cookie, composed>>

\* Compose, or Reply and Forward of the mail shown.
OpenCompose ==
    /\ composed.opened < MaxComposes /\ FreeCall
    /\ composed' = [composed EXCEPT !.opened = @ + 1]
    /\ ui' = [ui EXCEPT !.compose = composed.opened + 1, !.sending = FALSE]
    /\ UNCHANGED <<mailSrvVars, cookie, calls>>

\* Discard leaves a call of the window under way.
Discard ==
    /\ ui.compose # 0 /\ ui' = [ui EXCEPT !.compose = 0]
    /\ UNCHANGED <<mailSrvVars, cookie, calls, composed>>

\* A defect of HandleSend: the button works while a mail is being sent.
SendsAgain ==
    /\ ui.compose # 0 /\ ui' = [ui EXCEPT !.sending = TRUE]
    /\ Issue(<<Call("send", ui.compose, ui.box, FALSE)>>)
    /\ UNCHANGED <<mailSrvVars, cookie, composed>>

HandleSend ==
    /\ ui.compose # 0 /\ ~ui.sending /\ ui' = [ui EXCEPT !.sending = TRUE]
    /\ Issue(<<Call("send", ui.compose, ui.box, FALSE)>>)
    /\ UNCHANGED <<mailSrvVars, cookie, composed>>

(***************************************************************************)
(* The routes                                                              *)
(***************************************************************************)
Answer(c, done, ok, got) ==
    calls' = [calls EXCEPT ![c] = [@ EXCEPT !.pc = "answered", !.done = done, !.ok = ok, !.got = got]]
Step(c, pc) == calls' = [calls EXCEPT ![c].pc = pc]
RouteLeaves == UNCHANGED <<cookie, ui, composed>>

\* No token, a token that does not verify, or the mail server does not answer.
RouteFails(c) ==
    /\ c \in DOMAIN calls /\ calls[c].pc \notin {"answered", "heard"} /\ Answer(c, FALSE, FALSE, {})
    /\ UNCHANGED mailSrvVars /\ RouteLeaves

GetMailboxes(c) ==
    /\ CallAt(c, "sent") /\ calls[c].op = "boxes" /\ cookie = "valid" /\ Answer(c, TRUE, TRUE, {})
    /\ UNCHANGED mailSrvVars /\ RouteLeaves

InFolder(f) == {m \in Mails : place[m] = f}
GetEmails(c) ==
    /\ CallAt(c, "sent") /\ calls[c].op = "list" /\ cookie = "valid"
    /\ Answer(c, TRUE, TRUE, InFolder(calls[c].box))
    /\ UNCHANGED mailSrvVars /\ RouteLeaves

\* The matches in the folder, or in all of them when none is selected.
GetSearch(c) ==
    /\ CallAt(c, "sent") /\ calls[c].op = "search" /\ cookie = "valid"
    /\ \E found \in {{}, {1}} :
         Answer(c, TRUE, TRUE, {m \in found : calls[c].box \in {"none", place[m]}})
    /\ UNCHANGED mailSrvVars /\ RouteLeaves

\* An unread mail is marked by a second call, whose failure fails the answer;
\* that the mail server refused it is not looked at.
GetEmail(c) ==
    LET m == calls[c].id IN
    /\ CallAt(c, "sent") /\ calls[c].op = "read" /\ cookie = "valid" /\ place[m] # "none"
    /\ IF m \in seen THEN Answer(c, TRUE, TRUE, {m}) ELSE Step(c, "mark")
    /\ UNCHANGED mailSrvVars /\ RouteLeaves
MarkSeen(c) ==
    /\ CallAt(c, "mark") /\ seen' \in {seen, seen \cup {calls[c].id}}
    /\ \E ok \in BOOLEAN : Answer(c, TRUE, ok, {calls[c].id})
    /\ UNCHANGED place /\ RouteLeaves

FindTrash(c) ==
    /\ CallAt(c, "sent") /\ calls[c].op = "delete" /\ cookie = "valid" /\ Step(c, "move")
    /\ UNCHANGED mailSrvVars /\ RouteLeaves
MoveToTrash(c) ==
    LET m == calls[c].id IN
    /\ CallAt(c, "move") /\ place[m] # "none"
    /\ \/ place' = [place EXCEPT ![m] = "trash"] /\ \E ok \in BOOLEAN : Answer(c, TRUE, ok, {})
       \/ place' = place /\ Answer(c, FALSE, TRUE, {})     \* an error in place of the result
    /\ UNCHANGED seen /\ RouteLeaves

\* DELETE with "permanent": another client of the same account.
DestroyEmail(m) ==
    /\ ui.open /\ place[m] = "trash" /\ place' = [place EXCEPT ![m] = "none"]
    /\ UNCHANGED <<seen, cookie, ui, calls, composed>>

\* PUT replaces the keywords as a whole.
UpdateEmail(m) ==
    /\ ui.open /\ m \in seen /\ seen' = seen \ {m}
    /\ UNCHANGED <<place, cookie, ui, calls, composed>>

\* Identity, Drafts and Sent are looked up first.
SetupSend(c) ==
    /\ CallAt(c, "sent") /\ calls[c].op = "send" /\ cookie = "valid" /\ Step(c, "submit")
    /\ UNCHANGED mailSrvVars /\ RouteLeaves

\* One request creates the draft, submits it and moves it to Sent.  The route
\* reports what was not created; when the mail server answers a method with an
\* error in place of its result, the answer is ok though nothing was submitted.
\* The answer of a mail sent may be lost, and a draft stays when the submission
\* fails.
Submit(c) ==
    LET m == Received + c IN
    /\ CallAt(c, "submit")
    /\ \/ /\ place' = [place EXCEPT ![m] = "sent"] /\ seen' = seen \cup {m}
          /\ \E ok \in BOOLEAN : Answer(c, TRUE, ok, {})
       \/ /\ place' = [place EXCEPT ![m] = "drafts"] /\ seen' = seen \cup {m}
          /\ \E ok \in BOOLEAN : Answer(c, FALSE, ok, {})
       \/ UNCHANGED mailSrvVars /\ Answer(c, FALSE, TRUE, {})
    /\ RouteLeaves

(***************************************************************************)
(* Answers                                                                 *)
(***************************************************************************)
Heard(c, cs) == LET now == [calls EXCEPT ![c].pc = "heard"] IN
    Len(calls) + Len(cs) <= MaxCalls /\ calls' = now \o cs
Relist(box, re) == IF box = "none" THEN <<>> ELSE <<Call("list", 0, box, re)>>
AnswerLeaves == UNCHANGED <<mailSrvVars, cookie>>

\* The first mailboxes select the inbox, whatever was selected since.  A
\* refresh goes on to the list that was selected when it was pressed.
HearMailboxes(c) ==
    LET t == calls[c]  first == t.ok /\ t.box = "none"
        cs == (IF first /\ ui.box # "inbox" THEN Relist("inbox", FALSE) ELSE <<>>)
              \o (IF t.re THEN Relist(t.box, TRUE) ELSE <<>>) IN
    /\ CallAt(c, "answered") /\ t.op = "boxes" /\ ui.open /\ Heard(c, cs)
    /\ ui' = [ui EXCEPT !.boxes = @ \/ t.ok, !.box = IF first THEN "inbox" ELSE @,
                        !.refreshing = @ /\ ~(t.re /\ t.box = "none"), !.listing = @ \/ cs # <<>>]
    /\ UNCHANGED composed /\ AnswerLeaves

HearEmails(c) ==
    LET t == calls[c] IN
    /\ CallAt(c, "answered") /\ t.op = "list" /\ ui.open /\ Heard(c, <<>>)
    /\ ui' = [ui EXCEPT !.list = IF t.ok THEN t.got ELSE @, !.listing = FALSE, !.refreshing = @ /\ ~t.re]
    /\ UNCHANGED composed /\ AnswerLeaves

HearSearch(c) ==
    LET t == calls[c] IN
    /\ CallAt(c, "answered") /\ t.op = "search" /\ ui.open /\ Heard(c, <<>>)
    /\ ui' = [ui EXCEPT !.found = IF t.ok THEN t.got ELSE @, !.searching = FALSE]
    /\ UNCHANGED composed /\ AnswerLeaves

HearEmail(c) ==
    LET t == calls[c] IN
    /\ CallAt(c, "answered") /\ t.op = "read" /\ ui.open /\ Heard(c, <<>>)
    /\ ui' = [ui EXCEPT !.shown = IF t.ok THEN t.id ELSE @, !.failed = @ \/ ~t.ok, !.viewing = FALSE]
    /\ UNCHANGED composed /\ AnswerLeaves

\* Back to the list, whichever mail is selected by now.
HearDelete(c) ==
    LET t == calls[c] IN
    /\ CallAt(c, "answered") /\ t.op = "delete" /\ ui.open /\ Heard(c, <<>>)
    /\ ui' = IF t.ok THEN [ui EXCEPT !.view = "list", !.mail = 0, !.shown = IF ui.mail = 0 THEN @ ELSE 0] ELSE ui
    /\ UNCHANGED composed /\ AnswerLeaves

\* Success closes the window on the screen, which may be another by now, and
\* reloads the list and the mailboxes; the button belongs to the window that sent.
HearSend(c) ==
    LET t == calls[c] IN
    /\ CallAt(c, "answered") /\ t.op = "send" /\ ui.open
    /\ ui' = [ui EXCEPT !.sending = @ /\ ui.compose # t.id, !.compose = IF t.ok THEN 0 ELSE @,
                        !.listing = @ \/ (t.ok /\ t.box # "none")]
    /\ composed' = [composed EXCEPT !.sent = IF t.ok /\ ui.compose # 0 THEN @ \cup {<<ui.compose, t.id>>} ELSE @]
    /\ Heard(c, IF t.ok THEN Relist(t.box, FALSE) \o <<Call("boxes", 0, t.box, FALSE)>> ELSE <<>>)
    /\ AnswerLeaves

\* An answer to a page that was left.
Dropped(c) ==
    /\ CallAt(c, "answered") /\ ~ui.open /\ Heard(c, <<>>)
    /\ UNCHANGED <<ui, composed>> /\ AnswerLeaves

WebMailNext ==
    \/ \E ok \in BOOLEAN : SubmitLogin(ok)
    \/ OpenPage \/ LoseToken \/ Logout \/ Refresh \/ Search \/ ClearSearch
    \/ \E f \in Folders : SelectMailbox(f)
    \/ \E m \in Mails : SelectEmail(m) \/ DestroyEmail(m) \/ UpdateEmail(m)
    \/ Back \/ HandleDelete \/ OpenCompose \/ Discard \/ HandleSend
    \/ \E c \in 1 .. MaxCalls : \/ RouteFails(c) \/ GetMailboxes(c) \/ GetEmails(c) \/ GetSearch(c)
                                \/ GetEmail(c) \/ MarkSeen(c) \/ FindTrash(c) \/ MoveToTrash(c)
                                \/ SetupSend(c) \/ Submit(c)
                                \/ HearMailboxes(c) \/ HearEmails(c) \/ HearSearch(c) \/ HearEmail(c)
                                \/ HearDelete(c) \/ HearSend(c) \/ Dropped(c)
WebMailSpec == WebMailInit /\ [][WebMailNext]_webMailVars

(***************************************************************************)
(* Properties                                                              *)
(***************************************************************************)
WebMailTypeOK ==
    /\ place \in [Mails -> Folders \cup {"none"}] /\ seen \subseteq Mails
    /\ cookie \in {"none", "valid", "expired"} /\ Len(calls) <= MaxCalls
    /\ ui.list \subseteq Mails /\ ui.mail \in {0} \cup Mails /\ ui.compose \in 0 .. MaxComposes

\* However the answers arrive, a compose window never has two sends under way,
\* and its message is submitted again only when an earlier attempt came back
\* with an error.  A window closes as sent on an answer to a send of its own
\* or of a window opened before it, and that answer was ok: that the message
\* was submitted does not follow, since the route does not look at errors the
\* mail server puts in place of a result (ComposeModal.tsx:31-79, page.tsx:157-164,
\* send/route.ts:155-175).
SentAsTold ==
    /\ \A k \in 1 .. MaxComposes :
          LET attempts  == {c \in DOMAIN calls : calls[c].op = "send" /\ calls[c].id = k}
              submitted == {c \in attempts : calls[c].done}
              refused   == {c \in attempts : calls[c].pc = "heard" /\ ~calls[c].ok} IN
          /\ Cardinality({c \in attempts : calls[c].pc # "heard"}) <= 1
          /\ Cardinality(submitted) <= 1 + Cardinality(refused)
    /\ \A x \in composed.sent :
          /\ x[2] <= x[1]
          /\ \E c \in DOMAIN calls : calls[c].op = "send" /\ calls[c].id = x[2] /\ calls[c].ok

\* A page that shows a list, a search or a mail as loading has a call under
\* way that ends it: the loader never outlives its calls (the finally clauses
\* of page.tsx and EmailView).
LoadersEnd ==
    /\ ui.listing   => Pending("list") # {}
    /\ ui.searching => Pending("search") # {}
    /\ ui.viewing   => Pending("read") # {}
    /\ (ui.sending /\ ui.compose # 0) => \E c \in Pending("send") : calls[c].id = ui.compose
================================================================================
