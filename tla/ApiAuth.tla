--------------------------------- MODULE ApiAuth ---------------------------------
(***************************************************************************)
(* Accounts, sessions, one-time codes and teams of tinai-api              *)
(* (routes/auth.ts, settings.ts, admin.ts, teams.ts, the hooks of          *)
(* server.ts).  A request creates at most one account, one refresh token   *)
(* and one code, which carry its number.  A handler ends between any two   *)
(* statements when the process dies or the statement that is next fails;   *)
(* time only shows in what expires.                                        *)
(***************************************************************************)
EXTENDS Naturals, Sequences, FiniteSets

CONSTANTS
    AuthReqs,     \* requests, positive numbers
    Emails,       \* addresses of accounts
    Mobiles,      \* mobile numbers; one whose code is verified has its own address
    TeamUsers,    \* users the routes of the team are called by and for
    TeamReqs      \* requests about the team

ASSUME ApiAuthAssumption == "none" \notin TeamUsers

VARIABLES
    acctUser,     \* per address: [id, pw, magic]; id 0: no account
    acctRefresh,  \* refresh_tokens: <<request that created it, address>>
    acctCodes,    \* sms_otps: per mobile, rows in order of creation
    acctKeys,     \* api_keys: addresses that have one
    acctTask,     \* per request
    acctRoot,     \* history: per token, the login it descends from; 0: no token
    acctVouched,  \* history: per magic code, the sessions it was exchanged for
    teamOwner,    \* the user who owns the team, or "none"
    teamRole,     \* role of each user in the team, or "none"
    teamInvite,   \* per request: the invitation it created
    teamTask,     \* per request
    teamBlind     \* history: users changed by a request that had read another membership

acctVars == <<acctUser, acctRefresh, acctCodes, acctKeys, acctTask, acctRoot, acctVouched>>
teamVars == <<teamOwner, teamRole, teamInvite, teamTask, teamBlind>>
authVars == <<acctVars, teamVars>>

NoAccount == [id |-> 0, pw |-> 0, magic |-> 0]
AcctIdle  == [pc |-> "none", who |-> "none", id |-> 0, code |-> 0, root |-> 0]
TeamIdle  == [pc |-> "none", by |-> "none", who |-> "none", role |-> "none", inv |-> 0]
TeamRoles == {"admin", "member"}

AuthInit ==
    /\ acctUser = [m \in Emails |-> NoAccount]
    /\ acctRefresh = {} /\ acctKeys = {} /\ acctCodes = [m \in Mobiles |-> <<>>]
    /\ acctTask = [q \in AuthReqs |-> AcctIdle]
    /\ acctRoot = [q \in AuthReqs |-> 0] /\ acctVouched = [q \in AuthReqs |-> 0]
    /\ teamOwner = "none" /\ teamRole = [u \in TeamUsers |-> "none"]
    /\ teamInvite = [q \in TeamReqs |-> [role |-> "none", open |-> FALSE]]
    /\ teamTask = [q \in TeamReqs |-> TeamIdle] /\ teamBlind = {}

AcctAt(q, pc) == acctTask[q].pc = pc
AcctGo(q, pc) == acctTask' = [acctTask EXCEPT ![q].pc = pc]
AcctCall(q, pc, m, id, code, root) ==
    /\ AcctAt(q, "none")
    /\ acctTask' = [acctTask EXCEPT ![q] = [pc |-> pc, who |-> m, id |-> id, code |-> code, root |-> root]]
Known(m) == acctUser[m].id # 0

(***************************************************************************)
(* Accounts                                                                *)
(***************************************************************************)
\* POST /auth/register: 409 when the address is known, or the insert is next.
Register(q, m) ==
    /\ ~Known(m) /\ AcctCall(q, "insert", m, 0, 0, 0)
    /\ UNCHANGED <<acctUser, acctRefresh, acctCodes, acctKeys, acctRoot, acctVouched, teamVars>>

\* UNIQUE (email) refuses the second of two; the default project and the
\* free plan are best effort.
InsertUser(q) ==
    LET m == acctTask[q].who IN
    /\ AcctAt(q, "insert") /\ AcctGo(q, "done")
    /\ acctUser' = IF Known(m) THEN acctUser ELSE [acctUser EXCEPT ![m] = [NoAccount EXCEPT !.id = q, !.pw = q]]
    /\ UNCHANGED <<acctRefresh, acctCodes, acctKeys, acctRoot, acctVouched, teamVars>>

\* PUT /settings/password checks the current one as read, then writes: the
\* refresh tokens of the account stay.
ReadPassword(q, m) ==
    /\ Known(m) /\ AcctCall(q, "password", m, acctUser[m].id, 0, 0)
    /\ UNCHANGED <<acctUser, acctRefresh, acctCodes, acctKeys, acctRoot, acctVouched, teamVars>>

SetPassword(q) ==
    LET t == acctTask[q] IN
    /\ AcctAt(q, "password") /\ AcctGo(q, "done")
    /\ acctUser' = IF acctUser[t.who].id = t.id THEN [acctUser EXCEPT ![t.who].pw = q] ELSE acctUser
    /\ UNCHANGED <<acctRefresh, acctCodes, acctKeys, acctRoot, acctVouched, teamVars>>

\* POST and DELETE /settings/api-keys.
CreateApiKey(q, m) ==
    /\ Known(m) /\ AcctCall(q, "done", m, 0, 0, 0) /\ acctKeys' = acctKeys \cup {m}
    /\ UNCHANGED <<acctUser, acctRefresh, acctCodes, acctRoot, acctVouched, teamVars>>
DeleteApiKey(q, m) ==
    /\ Known(m) /\ AcctCall(q, "done", m, 0, 0, 0) /\ acctKeys' = acctKeys \ {m}
    /\ UNCHANGED <<acctUser, acctRefresh, acctCodes, acctRoot, acctVouched, teamVars>>

\* DELETE /settings/account: keys, tokens and account, one after the other;
\* the tokens of a deleted account go with it.
DeleteAccount(q, m) ==
    /\ Known(m) /\ AcctCall(q, "tokens", m, acctUser[m].id, 0, 0) /\ acctKeys' = acctKeys \ {m}
    /\ UNCHANGED <<acctUser, acctRefresh, acctCodes, acctRoot, acctVouched, teamVars>>

TokensOf(m) == {k \in acctRefresh : k[2] = m}

DeleteTokens(q) ==
    /\ AcctAt(q, "tokens") /\ AcctGo(q, "user")
    /\ acctRefresh' = acctRefresh \ TokensOf(acctTask[q].who)
    /\ UNCHANGED <<acctUser, acctCodes, acctKeys, acctRoot, acctVouched, teamVars>>

DeleteUser(q) ==
    LET t == acctTask[q]  there == acctUser[t.who].id = t.id IN
    /\ AcctAt(q, "user") /\ AcctGo(q, "done")
    /\ acctUser' = IF there THEN [acctUser EXCEPT ![t.who] = NoAccount] ELSE acctUser
    /\ acctRefresh' = IF there THEN acctRefresh \ TokensOf(t.who) ELSE acctRefresh
    /\ acctKeys' = IF there THEN acctKeys \ {t.who} ELSE acctKeys
    /\ UNCHANGED <<acctCodes, acctRoot, acctVouched, teamVars>>

\* DELETE /admin/users/:id: without the column deleted_at, a DELETE.
AdminDeletes(q, m) ==
    /\ Known(m) /\ AcctCall(q, "user", m, acctUser[m].id, 0, 0)
    /\ UNCHANGED <<acctUser, acctRefresh, acctCodes, acctKeys, acctRoot, acctVouched, teamVars>>

(***************************************************************************)
(* Sessions                                                                *)
(***************************************************************************)
\* POST /auth/login: the password as read, then the refresh token.
LogIn(q, m) ==
    /\ Known(m) /\ AcctCall(q, "token", m, acctUser[m].id, 0, q)
    /\ UNCHANGED <<acctUser, acctRefresh, acctCodes, acctKeys, acctRoot, acctVouched, teamVars>>

\* createRefreshToken refers to the user, who must exist.
CreateRefreshToken(q) ==
    LET t == acctTask[q]  there == acctUser[t.who].id = t.id IN
    /\ AcctAt(q, "token") /\ AcctGo(q, "done")
    /\ acctRefresh' = IF there THEN acctRefresh \cup {<<q, t.who>>} ELSE acctRefresh
    /\ acctRoot' = IF there THEN [acctRoot EXCEPT ![q] = t.root] ELSE acctRoot
    /\ UNCHANGED <<acctUser, acctCodes, acctKeys, acctVouched, teamVars>>

\* A defect of TakeToken: the token stays valid.
KeepToken(k) == acctRefresh' = acctRefresh /\ k \in acctRefresh

TakeToken(k) == acctRefresh' = acctRefresh \ {k}

\* POST /auth/refresh: one DELETE ... RETURNING takes the token, and a new
\* one is inserted next: when that does not come to pass, the session is over.
RotateRefreshToken(q, k) ==
    /\ k \in acctRefresh /\ AcctCall(q, "token", k[2], acctUser[k[2]].id, 0, acctRoot[k[1]])
    /\ TakeToken(k)
    /\ UNCHANGED <<acctUser, acctCodes, acctKeys, acctRoot, acctVouched, teamVars>>

\* POST /auth/logout with an access token ends every session of the user that
\* has its refresh token at that time, with a refresh token that one.
LogOut(q, m) ==
    /\ Known(m) /\ AcctCall(q, "done", m, 0, 0, 0)
    /\ \/ acctRefresh' = acctRefresh \ TokensOf(m)
       \/ \E k \in TokensOf(m) : acctRefresh' = acctRefresh \ {k}
    /\ UNCHANGED <<acctUser, acctCodes, acctKeys, acctRoot, acctVouched, teamVars>>

TokenExpires == \E k \in acctRefresh :
    /\ acctRefresh' = acctRefresh \ {k}
    /\ UNCHANGED <<acctUser, acctCodes, acctKeys, acctTask, acctRoot, acctVouched, teamVars>>

(***************************************************************************)
(* One-time codes                                                          *)
(***************************************************************************)
\* POST /auth/magic-link: a new code replaces the one the account had.
MagicLink(q, m) ==
    /\ Known(m) /\ AcctCall(q, "done", m, 0, 0, 0)
    /\ acctUser' = [acctUser EXCEPT ![m].magic = q]
    /\ UNCHANGED <<acctRefresh, acctCodes, acctKeys, acctRoot, acctVouched, teamVars>>

\* POST /auth/verify-magic-link compares and clears the code in one UPDATE.
VerifyMagicLink(q, m, code) ==
    /\ code # 0 /\ acctUser[m].magic = code /\ AcctCall(q, "token", m, acctUser[m].id, 0, q)
    /\ acctUser' = [acctUser EXCEPT ![m].magic = 0]
    /\ acctVouched' = [acctVouched EXCEPT ![code] = @ + 1]
    /\ UNCHANGED <<acctRefresh, acctCodes, acctKeys, acctRoot, teamVars>>

MagicExpires == \E m \in Emails :
    /\ acctUser[m].magic # 0 /\ acctUser' = [acctUser EXCEPT ![m].magic = 0]
    /\ UNCHANGED <<acctRefresh, acctCodes, acctKeys, acctTask, acctRoot, acctVouched, teamVars>>

\* POST /auth/sms-otp deletes the codes of the number, sends, and inserts; so
\* does POST /auth/resend-sms when there is none of the last minute.
SmsOtp(q, m) ==
    /\ AcctCall(q, "code", m, 0, q, 0) /\ acctCodes' = [acctCodes EXCEPT ![m] = <<>>]
    /\ UNCHANGED <<acctUser, acctRefresh, acctKeys, acctRoot, acctVouched, teamVars>>

ResendSms(q, m) == acctCodes[m] = <<>> /\ SmsOtp(q, m)

InsertOtp(q) ==
    LET m == acctTask[q].who IN
    /\ AcctAt(q, "code") /\ AcctGo(q, "done")
    /\ acctCodes' = [acctCodes EXCEPT ![m] = Append(@, [code |-> q, used |-> FALSE])]
    /\ UNCHANGED <<acctUser, acctRefresh, acctKeys, acctRoot, acctVouched, teamVars>>

Unused(m) == {i \in 1..Len(acctCodes[m]) : ~acctCodes[m][i].used}

\* POST /auth/verify-sms reads the newest unused code, marks it, and looks
\* for the account of the number, to insert it if there is none.
VerifySms(q, m) ==
    /\ Unused(m) # {}
    /\ LET i == CHOOSE i \in Unused(m) : \A j \in Unused(m) : j <= i IN
       AcctCall(q, "use", m, 0, acctCodes[m][i].code, 0)
    /\ UNCHANGED <<acctUser, acctRefresh, acctCodes, acctKeys, acctRoot, acctVouched, teamVars>>

UseOtp(q) ==
    LET t == acctTask[q] IN
    /\ AcctAt(q, "use") /\ AcctGo(q, IF Known(t.who) THEN "done" ELSE "insert")
    /\ acctCodes' = [acctCodes EXCEPT ![t.who] =
         [i \in DOMAIN @ |-> IF @[i].code = t.code THEN [@[i] EXCEPT !.used = TRUE] ELSE @[i]]]
    /\ UNCHANGED <<acctUser, acctRefresh, acctKeys, acctRoot, acctVouched, teamVars>>

AcctHandlerEnds(q) ==
    /\ acctTask[q].pc \notin {"none", "done"} /\ AcctGo(q, "done")
    /\ UNCHANGED <<acctUser, acctRefresh, acctCodes, acctKeys, acctRoot, acctVouched, teamVars>>

AccountStep(q) == AcctHandlerEnds(q) \/ InsertUser(q) \/ CreateRefreshToken(q) \/ DeleteTokens(q) \/ DeleteUser(q)

SessionNext ==
    \/ TokenExpires \/ MagicExpires
    \/ \E q \in AuthReqs :
         \/ AccountStep(q) \/ SetPassword(q)
         \/ \E k \in acctRefresh : RotateRefreshToken(q, k)
         \/ \E m \in Emails \ Mobiles :
              \/ Register(q, m) \/ ReadPassword(q, m) \/ CreateApiKey(q, m) \/ DeleteApiKey(q, m)
              \/ DeleteAccount(q, m) \/ AdminDeletes(q, m) \/ LogIn(q, m) \/ LogOut(q, m)
              \/ MagicLink(q, m) \/ \E c \in AuthReqs : VerifyMagicLink(q, m, c)

SmsNext == \E q \in AuthReqs :
    \/ AccountStep(q) \/ InsertOtp(q) \/ UseOtp(q)
    \/ \E m \in Mobiles : SmsOtp(q, m) \/ ResendSms(q, m) \/ VerifySms(q, m) \/ AdminDeletes(q, m)

(***************************************************************************)
(* Teams: one team                                                         *)
(***************************************************************************)
TeamAt(q, pc) == teamTask[q].pc = pc
TeamCall(q, pc, by, who, role) ==
    /\ TeamAt(q, "none")
    /\ teamTask' = [teamTask EXCEPT ![q] = [pc |-> pc, by |-> by, who |-> who, role |-> role, inv |-> 0]]
TeamGo(q, pc) == teamTask' = [teamTask EXCEPT ![q].pc = pc]
Manages(u) == teamRole[u] \in {"owner", "admin"}

\* POST /teams: team, owner and audit record in one transaction.
CreateTeam(q, u) ==
    /\ teamOwner = "none" /\ TeamCall(q, "done", u, u, "owner")
    /\ teamOwner' = u /\ teamRole' = [teamRole EXCEPT ![u] = "owner"]
    /\ UNCHANGED <<teamInvite, teamBlind, acctVars>>

\* PUT /teams/:slug/members/:memberId: the caller, the target, the update.
ChangeRole(q, by, u, role) ==
    /\ Manages(by) /\ TeamCall(q, "target", by, u, role)
    /\ UNCHANGED <<teamOwner, teamRole, teamInvite, teamBlind, acctVars>>

\* DELETE: the caller unless it is the member, the target, the delete.
RemoveMember(q, by, u) ==
    /\ by = u \/ Manages(by)
    /\ TeamCall(q, "target", by, u, "none")
    /\ UNCHANGED <<teamOwner, teamRole, teamInvite, teamBlind, acctVars>>

\* An owner is neither changed nor removed; a removal goes on when there is
\* no such member, and the team is looked up again by its slug.
ReadTarget(q) ==
    LET t == teamTask[q]  r == teamRole[t.who] IN
    /\ TeamAt(q, "target")
    /\ TeamGo(q, CASE r = "owner" -> "done" [] r \in TeamRoles -> "write"
                   [] OTHER -> IF t.role = "none" THEN "blind" ELSE "done")
    /\ UNCHANGED <<teamOwner, teamRole, teamInvite, teamBlind, acctVars>>

WriteRole(q) ==
    LET t == teamTask[q]  there == teamRole[t.who] # "none" IN
    /\ t.pc \in {"write", "blind"} /\ TeamGo(q, "done")
    /\ teamRole' = IF there THEN [teamRole EXCEPT ![t.who] = t.role] ELSE teamRole
    /\ teamBlind' = IF there /\ t.pc = "blind" THEN teamBlind \cup {t.who} ELSE teamBlind
    /\ UNCHANGED <<teamOwner, teamInvite, acctVars>>

\* POST /teams/:slug/invitations.
Invite(q, by, role) ==
    /\ Manages(by) /\ TeamCall(q, "done", by, "none", role)
    /\ teamInvite' = [teamInvite EXCEPT ![q] = [role |-> role, open |-> TRUE]]
    /\ UNCHANGED <<teamOwner, teamRole, teamBlind, acctVars>>

\* POST /teams/invitations/:token/accept: an open invitation is read, then
\* one transaction inserts the member unless it is one, and closes it.
ReadInvite(q, u, i) ==
    /\ TeamAt(q, "none") /\ teamInvite[i].open
    /\ teamTask' = [teamTask EXCEPT ![q] = [TeamIdle EXCEPT !.pc = "accept", !.who = u, !.inv = i]]
    /\ UNCHANGED <<teamOwner, teamRole, teamInvite, teamBlind, acctVars>>

AcceptInvite(q) ==
    LET t == teamTask[q] IN
    /\ TeamAt(q, "accept") /\ TeamGo(q, "done")
    /\ teamRole' = IF teamRole[t.who] = "none" THEN [teamRole EXCEPT ![t.who] = teamInvite[t.inv].role] ELSE teamRole
    /\ teamInvite' = [teamInvite EXCEPT ![t.inv].open = FALSE]
    /\ UNCHANGED <<teamOwner, teamBlind, acctVars>>

\* The account of a user is deleted: membership, and the team of an owner,
\* go with it; what a request read of that team says nothing of the next one.
UserGoes(u) ==
    /\ teamRole[u] # "none"
    /\ IF teamOwner = u
       THEN /\ teamOwner' = "none" /\ teamRole' = [v \in TeamUsers |-> "none"]
            /\ teamInvite' = [q \in TeamReqs |-> [role |-> "none", open |-> FALSE]]
            /\ teamTask' = [q \in TeamReqs |-> [teamTask[q] EXCEPT
                 !.pc = CASE @ = "write" -> "blind" [] @ = "accept" -> "done" [] OTHER -> @]]
       ELSE teamRole' = [teamRole EXCEPT ![u] = "none"] /\ UNCHANGED <<teamOwner, teamInvite, teamTask>>
    /\ UNCHANGED <<teamBlind, acctVars>>

TeamNext ==
    \/ \E u \in TeamUsers : UserGoes(u)
    \/ \E q \in TeamReqs :
         \/ ReadTarget(q) \/ WriteRole(q) \/ AcceptInvite(q)
         \/ \E u \in TeamUsers :
              \/ CreateTeam(q, u)
              \/ \E i \in TeamReqs : ReadInvite(q, u, i)
              \/ \E r \in TeamRoles : Invite(q, u, r) \/ \E v \in TeamUsers : ChangeRole(q, u, v, r)
              \/ \E v \in TeamUsers : RemoveMember(q, u, v)

-----------------------------------------------------------------------------
AuthTypeOK ==
    /\ \A m \in Emails : acctUser[m].id \in AuthReqs \cup {0} /\ acctUser[m].magic \in AuthReqs \cup {0}
    /\ acctRefresh \subseteq AuthReqs \X Emails /\ acctKeys \subseteq Emails
    /\ acctRoot \in [AuthReqs -> AuthReqs \cup {0}]
    /\ teamOwner \in TeamUsers \cup {"none"}
    /\ teamRole \in [TeamUsers -> TeamRoles \cup {"owner", "none"}]

(* A login has one heir at most: of the refresh tokens that descend from it *)
(* and the requests about to insert one there is never a second, however    *)
(* many refreshes of the same token race and wherever they end; and a magic *)
(* code buys one session.                                                  *)
OneHeirPerLogin ==
    /\ \A r \in AuthReqs :
         Cardinality({k \in acctRefresh : acctRoot[k[1]] = r}) +
         Cardinality({q \in AuthReqs : AcctAt(q, "token") /\ acctTask[q].root = r}) <= 1
    /\ \A c \in AuthReqs : acctVouched[c] <= 1

(* The team's owner keeps the role of owner, and nobody else has it,        *)
(* whatever changes of role, removals and invitations race, unless what a   *)
(* request read was no member, or one of an earlier team of that slug.     *)
OwnerStays ==
    \A u \in TeamUsers \ teamBlind : teamRole[u] = "owner" <=> (teamOwner = u)
===================================================================================
