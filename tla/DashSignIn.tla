------------------------------ MODULE DashSignIn ------------------------------
(***************************************************************************)
(* Signing in to tinai-dashboard: the login page with its e-mail and its   *)
(* mobile panel, the signup page, the session route that turns a token of  *)
(* the API into the cookie, and the middleware that lets a page through.   *)
(* A panel that a tab replaces is unmounted, but the call it awaits is not *)
(* cancelled: its answer is handled all the same.                          *)
(***************************************************************************)
EXTENDS Naturals, Sequences, FiniteSets

CONSTANTS
    MaxSignCalls, MaxPanels,
    SessionLimit     \* sessions an address may ask for within a minute

SignOps   == {"login", "verify", "register"}               \* answered with a token
SendOps   == {"magic", "otp", "resend"}
ASSUME SignInAssumption == SessionLimit \in Nat \ {0}

VARIABLES
    signedAs,      \* "none", "stale" (expired), or the sign-in whose token it is
    screen,       \* what the browser shows: the page, and the panel mounted on it
    signCalls,    \* the calls of all panels
    sessionPosts  \* the route's count for this address in this minute

signVars == <<signedAs, screen, signCalls, sessionPosts>>

Panel(path, tab, n) == [path |-> path, tab |-> tab, id |-> n, loading |-> FALSE, stage |-> "input",
                        wait |-> FALSE, magic |-> FALSE]
FreshPanel(path) == Panel(path, "email", screen.id + 1)

SignInit ==
    /\ signedAs = "none" /\ screen = Panel("login", "email", 1)
    /\ signCalls = <<>>
    \* Others behind the same address, or behind none, count too.
    /\ sessionPosts \in 0 .. SessionLimit

SignCall(op, for) == [op |-> op, for |-> for, panel |-> screen.id, pc |-> "sent", ok |-> "no"]
SignAsks(op, for) ==
    /\ Len(signCalls) < MaxSignCalls
    /\ signCalls' = Append(signCalls, SignCall(op, for))

(***************************************************************************)
(* The pages                                                               *)
(***************************************************************************)
OnPanel(path, tab) == screen.path = path /\ screen.tab = tab
\* A press of a button that the panel disables while it is loading.
Press(op) ==
    /\ ~screen.loading /\ screen' = [screen EXCEPT !.loading = TRUE]
    /\ SignAsks(op, op) /\ UNCHANGED <<signedAs, sessionPosts>>

HandleSignIn    == OnPanel("login", "email") /\ ~screen.magic /\ Press("login")
HandleMagicLink == OnPanel("login", "email") /\ ~screen.magic /\ Press("magic")
HandleSendOTP   == OnPanel("login", "mobile") /\ screen.stage = "input" /\ Press("otp")
HandleVerify    == OnPanel("login", "mobile") /\ screen.stage = "verify" /\ Press("verify")
HandleResend    == OnPanel("login", "mobile") /\ screen.stage = "verify" /\ ~screen.wait /\ Press("resend")
HandleSignUp    == screen.path = "signup" /\ Press("register")

PanelOnly(s) == screen' = s /\ UNCHANGED <<signedAs, signCalls, sessionPosts>>
BackToSignIn == OnPanel("login", "email") /\ screen.magic /\ PanelOnly([screen EXCEPT !.magic = FALSE])
\* Not disabled while a call is under way.
ChangeNumber == OnPanel("login", "mobile") /\ screen.stage = "verify" /\ PanelOnly([screen EXCEPT !.stage = "input"])
CountdownEnds ==
    /\ OnPanel("login", "mobile") /\ screen.stage = "verify" /\ screen.wait
    /\ PanelOnly([screen EXCEPT !.wait = FALSE])
SetActiveTab(tab) ==
    /\ screen.path = "login" /\ tab # screen.tab /\ screen.id < MaxPanels
    /\ PanelOnly(Panel("login", tab, screen.id + 1))

(***************************************************************************)
(* The middleware                                                          *)
(***************************************************************************)
SignedIn == signedAs \in SignOps
\* Where a request for a page ends: the app needs a good cookie, login and
\* signup are left by who has one.
Lands(path) == IF SignedIn THEN "app" ELSE IF path = "app" THEN "login" ELSE path
\* A cookie that does not verify is deleted on the way to a page that needs one.
Passes(path) ==
    /\ signedAs' = IF path = "app" /\ ~SignedIn THEN "none" ELSE signedAs
    /\ screen' = IF Lands(path) = screen.path THEN screen ELSE FreshPanel(Lands(path))

\* A link that loads the page anew: no call of the old one is heard again.
LoadAnew(path) ==
    /\ screen.id < MaxPanels /\ Passes(path)
    /\ signCalls' = [c \in DOMAIN signCalls |-> [signCalls[c] EXCEPT !.pc = "heard"]]
    /\ sessionPosts' = sessionPosts
ToSignup == screen.path = "login" /\ LoadAnew("signup")
\* A link within the application: the calls go on.
ToLogin ==
    /\ screen.path = "signup" /\ screen.id < MaxPanels /\ Passes("login")
    /\ UNCHANGED <<signCalls, sessionPosts>>
Revisit == screen.path = "app" /\ ~SignedIn /\ LoadAnew("app")

\* The route deletes the cookie whoever asks; the page then loads /login.
LogOut ==
    /\ screen.path = "app" /\ screen.id < MaxPanels
    /\ signedAs' = "none" /\ screen' = FreshPanel("login")
    /\ signCalls' = [c \in DOMAIN signCalls |-> [signCalls[c] EXCEPT !.pc = "heard"]]
    /\ sessionPosts' = sessionPosts
TokenExpires == SignedIn /\ signedAs' = "stale" /\ UNCHANGED <<screen, signCalls, sessionPosts>>

(***************************************************************************)
(* The API and the session route                                           *)
(***************************************************************************)
SignAt(c, pc, ops) == c \in DOMAIN signCalls /\ signCalls[c].pc = pc /\ signCalls[c].op \in ops
SignAnswered(c, ok) == signCalls' = [signCalls EXCEPT ![c] = [@ EXCEPT !.pc = "answered", !.ok = ok]]

\* A token, an error, or no answer.
ApiAnswers(c) ==
    /\ SignAt(c, "sent", SignOps \cup SendOps) /\ \E ok \in {"yes", "no", "lost"} : SignAnswered(c, ok)
    /\ UNCHANGED <<signedAs, screen, sessionPosts>>
PostSession(c) ==
    /\ SignAt(c, "sent", {"session"}) /\ sessionPosts < SessionLimit
    /\ sessionPosts' = sessionPosts + 1
    /\ \/ SignAnswered(c, "yes") /\ signedAs' = signCalls[c].for
       \/ SignAnswered(c, "lost") /\ signedAs' = signedAs
    /\ screen' = screen
CheckRateLimit(c) ==
    /\ SignAt(c, "sent", {"session"}) /\ sessionPosts >= SessionLimit
    /\ SignAnswered(c, "no") /\ UNCHANGED <<signedAs, screen, sessionPosts>>
WindowEnds == sessionPosts # 0 /\ sessionPosts' = 0 /\ UNCHANGED <<signedAs, screen, signCalls>>

(***************************************************************************)
(* Answers                                                                 *)
(***************************************************************************)
OnScreen(c) == signCalls[c].panel = screen.id
SignHears(c, cs) ==
    /\ Len(signCalls) + Len(cs) <= MaxSignCalls
    /\ signCalls' = [signCalls EXCEPT ![c].pc = "heard"] \o cs
    /\ sessionPosts' = sessionPosts
PanelEnds(c, s) == screen' = IF OnScreen(c) THEN [s EXCEPT !.loading = FALSE] ELSE screen

\* The token goes to the session route; the panel stays loading.
HearToken(c) ==
    /\ SignAt(c, "answered", SignOps) /\ signedAs' = signedAs
    /\ IF signCalls[c].ok = "yes"
       THEN /\ screen' = screen
            /\ SignHears(c, <<[SignCall("session", signCalls[c].for) EXCEPT !.panel = signCalls[c].panel]>>)
       ELSE PanelEnds(c, screen) /\ SignHears(c, <<>>)
HearSent(c) ==
    /\ SignAt(c, "answered", SendOps) /\ signedAs' = signedAs /\ SignHears(c, <<>>)
    /\ LET op == signCalls[c].op IN
       PanelEnds(c, IF signCalls[c].ok # "yes" THEN screen
               ELSE IF op = "magic" THEN [screen EXCEPT !.magic = TRUE]
               ELSE [screen EXCEPT !.stage = IF op = "otp" THEN "verify" ELSE @, !.wait = TRUE])

\* Whatever the route answers, a refusal too, the page pushes /apps; a page that
\* lands where it is stays mounted.
HearSession(c) ==
    /\ SignAt(c, "answered", {"session"}) /\ SignHears(c, <<>>)
    /\ IF signCalls[c].ok = "lost" THEN signedAs' = signedAs /\ PanelEnds(c, screen)
       ELSE /\ screen.id < MaxPanels
            /\ signedAs' = IF SignedIn THEN signedAs ELSE "none"
            /\ IF Lands("app") = screen.path THEN PanelEnds(c, screen) ELSE screen' = FreshPanel(Lands("app"))

SignNext ==
    \/ HandleSignIn \/ HandleMagicLink \/ HandleSendOTP \/ HandleVerify \/ HandleResend \/ HandleSignUp
    \/ BackToSignIn \/ ChangeNumber \/ CountdownEnds \/ \E tab \in {"email", "mobile"} : SetActiveTab(tab)
    \/ ToSignup \/ ToLogin \/ Revisit \/ LogOut \/ TokenExpires \/ WindowEnds
    \/ \E c \in 1 .. MaxSignCalls : \/ ApiAnswers(c) \/ PostSession(c) \/ CheckRateLimit(c)
                                    \/ HearToken(c) \/ HearSent(c) \/ HearSession(c)
SignSpec == SignInit /\ [][SignNext]_signVars

(***************************************************************************)
(* Properties                                                              *)
(***************************************************************************)
SignTypeOK ==
    /\ signedAs \in {"none", "stale"} \cup SignOps
    /\ screen.path \in {"login", "signup", "app"} /\ screen.stage \in {"input", "verify"}
    /\ sessionPosts \in 0 .. SessionLimit

\* A panel shows that it is busy exactly while one call of its own is under way,
\* the sign-in, the sending or the session that follows: it never asks twice at
\* once, and no answer, refused, late or lost, leaves its buttons disabled (the
\* finally clauses of login/page.tsx and signup/page.tsx).
OneSignInAtOnce ==
    Cardinality({c \in DOMAIN signCalls : OnScreen(c) /\ signCalls[c].pc # "heard"}) = (IF screen.loading THEN 1 ELSE 0)
================================================================================
