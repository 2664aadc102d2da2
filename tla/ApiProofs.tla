-------------------------------- MODULE ApiProofs --------------------------------
(***************************************************************************)
(* The route modules of tinai-api together: what ApiSpec promises of       *)
(* accounts, teams, workloads, namespaces and of records written apart,    *)
(* and the types of all variables, for any set of requests, tenants,       *)
(* users, names, plans and policies.                                       *)
(***************************************************************************)
EXTENDS MCApi, ApiRecordsProofs, FiniteSetTheorems, TLAPS

(***************************************************************************)
(* Accounts and sessions                                                   *)
(***************************************************************************)
AuthNext == SessionNext \/ SmsNext \/ TeamNext

UserType == [id : AuthReqs \cup {0}, pw : AuthReqs \cup {0}, magic : AuthReqs \cup {0}]

\* Requests are records of the fields of AcctIdle; users have numbers.
AcctTypes ==
    /\ acctTask = [q \in AuthReqs |-> acctTask[q]]
    /\ \A q \in AuthReqs :
         acctTask[q] = [pc |-> acctTask[q].pc, who |-> acctTask[q].who, id |-> acctTask[q].id,
                        code |-> acctTask[q].code, root |-> acctTask[q].root]
    /\ acctUser \in [Emails -> UserType]
    /\ acctRefresh \subseteq AuthReqs \X Emails /\ acctKeys \subseteq Emails
    /\ acctRoot \in [AuthReqs -> AuthReqs \cup {0}]
    /\ acctVouched \in [AuthReqs -> {0, 1}]

\* A login is a request that has come.
Login(r) == r \in AuthReqs /\ acctTask[r].pc # "none"

\* A token was created by a request that ended with it, and descends from a login;
\* so does a request that is about to create one.
TokenInv ==
    /\ \A k \in acctRefresh :
         acctTask[k[1]].pc = "done" /\ acctTask[k[1]].who = k[2] /\ Login(acctRoot[k[1]])
    /\ \A q \in AuthReqs : AcctAt(q, "token") => acctTask[q].who \in Emails /\ Login(acctTask[q].root)

\* Two of one login are the same.
HeirInv ==
    /\ \A k, l \in acctRefresh : acctRoot[k[1]] = acctRoot[l[1]] => k = l
    /\ \A p, q \in AuthReqs :
         AcctAt(p, "token") /\ AcctAt(q, "token") /\ acctTask[p].root = acctTask[q].root => p = q
    /\ \A k \in acctRefresh, q \in AuthReqs : AcctAt(q, "token") => acctRoot[k[1]] # acctTask[q].root

\* A magic code that is kept has come, belongs to one account and bought nothing.
MagicInv ==
    /\ \A c \in AuthReqs : acctTask[c].pc = "none" => acctVouched[c] = 0
    /\ \A m \in Emails :
         LET c == acctUser[m].magic IN c # 0 => Login(c) /\ acctTask[c].who = m /\ acctVouched[c] = 0

AcctInv == AcctTypes /\ TokenInv /\ HeirInv /\ MagicInv

-----------------------------------------------------------------------------
\* What a step does to the requests.
OtherAcct(q) == \A r \in AuthReqs \ {q} : acctTask'[r] = acctTask[r]
AcctRecords ==
    /\ acctTask' = [q \in AuthReqs |-> acctTask'[q]]
    /\ \A q \in AuthReqs :
         acctTask'[q] = [pc |-> acctTask'[q].pc, who |-> acctTask'[q].who, id |-> acctTask'[q].id,
                         code |-> acctTask'[q].code, root |-> acctTask'[q].root]
AcctComes(q, pc, m, root) ==
    /\ OtherAcct(q) /\ AcctRecords /\ acctTask[q].pc = "none"
    /\ acctTask'[q].pc = pc /\ acctTask'[q].who = m /\ acctTask'[q].root = root
AcctMoves(q, pc) ==
    /\ OtherAcct(q) /\ AcctRecords
    /\ acctTask'[q].pc = pc /\ acctTask'[q].who = acctTask[q].who /\ acctTask'[q].root = acctTask[q].root

LEMMA AcctCallComes ==
    ASSUME AcctTypes, NEW q \in AuthReqs, NEW pc, NEW m, NEW id, NEW code, NEW root,
           AcctCall(q, pc, m, id, code, root)
    PROVE  AcctComes(q, pc, m, root)
BY DEF AcctTypes, AcctCall, AcctAt, AcctComes, OtherAcct, AcctRecords

LEMMA AcctGoMoves ==
    ASSUME AcctTypes, NEW q \in AuthReqs, NEW pc, AcctGo(q, pc)
    PROVE  AcctMoves(q, pc)
BY DEF AcctTypes, AcctGo, AcctMoves, OtherAcct, AcctRecords

\* Steps that add neither a token nor a request about to create one.
Quiet ==
    /\ acctRefresh' \subseteq acctRefresh
    /\ \A r \in AuthReqs : Login(r) => Login(r)' /\ acctTask'[r].who = acctTask[r].who
    /\ \A r \in AuthReqs : AcctAt(r, "done") => AcctAt(r, "done")'
    /\ \A r \in AuthReqs : AcctAt(r, "token")' => AcctAt(r, "token") /\ acctTask'[r].root = acctTask[r].root
    /\ UNCHANGED acctRoot

LEMMA QuietKeeps ==
    ASSUME AcctInv, Quiet
    PROVE  TokenInv' /\ HeirInv'
<1>1. \A k \in acctRefresh : k[1] \in AuthReqs /\ k[2] \in Emails
  BY DEF AcctInv, AcctTypes
<1>2. \A k \in acctRefresh : /\ AcctAt(k[1], "done") /\ acctTask[k[1]].who = k[2] /\ Login(acctRoot[k[1]])
                             /\ Login(k[1])
  BY <1>1 DEF AcctInv, TokenInv, AcctAt, Login
<1>3. \A k \in acctRefresh' : k \in acctRefresh /\ acctRoot'[k[1]] = acctRoot[k[1]]
  BY DEF Quiet
<1>4. \A k \in acctRefresh' :
        acctTask'[k[1]].pc = "done" /\ acctTask'[k[1]].who = k[2] /\ Login(acctRoot[k[1]])'
  BY <1>1, <1>2, <1>3 DEF Quiet, AcctAt, Login
<1>5. \A q \in AuthReqs : AcctAt(q, "token")' => acctTask'[q].who \in Emails /\ Login(acctTask[q].root)'
  <2> SUFFICES ASSUME NEW q \in AuthReqs, AcctAt(q, "token")'
               PROVE  acctTask'[q].who \in Emails /\ Login(acctTask[q].root)'
    OBVIOUS
  <2>1. AcctAt(q, "token") /\ acctTask'[q].root = acctTask[q].root
    BY DEF Quiet
  <2>2. acctTask[q].who \in Emails /\ Login(acctTask[q].root) /\ Login(q)
    BY <2>1 DEF AcctInv, TokenInv, AcctAt, Login
  <2> QED BY <2>1, <2>2 DEF Quiet, Login
<1>6. TokenInv'
  BY <1>4, <1>5 DEF TokenInv
<1>7. HeirInv'
  BY <1>3 DEF Quiet, AcctInv, HeirInv
<1> QED BY <1>6, <1>7

LEMMA ComesQuietly ==
    ASSUME AcctInv, NEW q \in AuthReqs, NEW pc, NEW m, NEW root,
           AcctComes(q, pc, m, root), pc \notin {"none", "token"},
           acctRefresh' \subseteq acctRefresh, UNCHANGED acctRoot
    PROVE  Quiet
BY DEF AcctComes, OtherAcct, Login, AcctAt, Quiet

LEMMA MovesQuietly ==
    ASSUME AcctInv, NEW q \in AuthReqs, NEW pc,
           AcctMoves(q, pc), pc \notin {"none", "token"}, pc = "done" \/ ~AcctAt(q, "done"),
           acctRefresh' \subseteq acctRefresh, UNCHANGED acctRoot
    PROVE  Quiet
BY DEF AcctMoves, OtherAcct, Login, AcctAt, Quiet

\* Steps that keep every magic code or drop it.
LEMMA MagicKeeps ==
    ASSUME AcctInv, UNCHANGED acctVouched,
           \A m \in Emails : acctUser'[m].magic \in {0, acctUser[m].magic},
           \A r \in AuthReqs : Login(r) => Login(r)' /\ acctTask'[r].who = acctTask[r].who
    PROVE  MagicInv'
<1>1. \A c \in AuthReqs : acctTask'[c].pc = "none" => acctVouched'[c] = 0
  BY DEF AcctInv, MagicInv, Login
<1>2. ASSUME NEW m \in Emails, acctUser'[m].magic # 0
      PROVE  Login(acctUser[m].magic)' /\ acctTask'[acctUser'[m].magic].who = m /\ acctVouched'[acctUser'[m].magic] = 0
  <2>1. acctUser'[m].magic = acctUser[m].magic
    BY <1>2
  <2>2. Login(acctUser[m].magic) /\ acctTask[acctUser[m].magic].who = m /\ acctVouched[acctUser[m].magic] = 0
    BY <1>2, <2>1 DEF AcctInv, MagicInv
  <2> QED BY <2>1, <2>2 DEF Login
<1> QED BY <1>1, <1>2 DEF MagicInv

LEMMA QuietCall ==
    ASSUME AcctInv, NEW q \in AuthReqs, NEW pc, NEW m, NEW root,
           AcctComes(q, pc, m, root), pc \notin {"none", "token"},
           acctRefresh' \subseteq acctRefresh, acctKeys' \subseteq Emails,
           UNCHANGED <<acctUser, acctRoot, acctVouched>>
    PROVE  AcctInv'
<1>1. Quiet
  BY ComesQuietly
<1>2. AcctTypes'
  BY DEF AcctInv, AcctTypes, AcctComes, AcctRecords
<1>3. MagicInv'
  BY <1>1, MagicKeeps DEF Quiet
<1> QED BY <1>1, <1>2, <1>3, QuietKeeps DEF AcctInv

LEMMA QuietMove ==
    ASSUME AcctInv, NEW q \in AuthReqs, NEW pc,
           AcctMoves(q, pc), pc \notin {"none", "token"}, pc = "done" \/ ~AcctAt(q, "done"),
           acctRefresh' \subseteq acctRefresh, acctKeys' \subseteq Emails,
           acctUser' \in [Emails -> UserType], \A m \in Emails : acctUser'[m].magic \in {0, acctUser[m].magic},
           UNCHANGED <<acctRoot, acctVouched>>
    PROVE  AcctInv'
<1>1. Quiet
  BY MovesQuietly
<1>2. AcctTypes'
  BY DEF AcctInv, AcctTypes, AcctMoves, AcctRecords, UserType
<1>3. MagicInv'
  BY <1>1, MagicKeeps DEF Quiet
<1> QED BY <1>1, <1>2, <1>3, QuietKeeps DEF AcctInv

\* A request that comes to create a token of a login no token descends from.
LEMMA TokenCall ==
    ASSUME AcctInv, NEW q \in AuthReqs, NEW m \in Emails, NEW root \in AuthReqs,
           AcctComes(q, "token", m, root), acctRefresh' \subseteq acctRefresh, UNCHANGED acctRoot,
           root = q \/ Login(root),
           \A k \in acctRefresh' : acctRoot[k[1]] # root,
           \A r \in AuthReqs : AcctAt(r, "token") => acctTask[r].root # root
    PROVE  TokenInv' /\ HeirInv'
<1>1. \A k \in acctRefresh : k[1] \in AuthReqs /\ k[2] \in Emails
  BY DEF AcctInv, AcctTypes
<1>2. \A k \in acctRefresh : AcctAt(k[1], "done") /\ acctTask[k[1]].who = k[2] /\ Login(acctRoot[k[1]])
  BY DEF AcctInv, TokenInv, AcctAt
<1>3. ~Login(q) /\ \A r \in AuthReqs : Login(r) => acctTask'[r] = acctTask[r] /\ Login(r)'
  BY DEF AcctComes, OtherAcct, Login
<1>4. Login(root)'
  BY <1>3 DEF AcctComes, Login
<1>5. \A k \in acctRefresh' :
        acctTask'[k[1]].pc = "done" /\ acctTask'[k[1]].who = k[2] /\ Login(acctRoot[k[1]])'
  BY <1>1, <1>2, <1>3 DEF AcctAt, Login
<1>6. \A r \in AuthReqs : AcctAt(r, "token")' =>
        \/ r = q /\ acctTask'[r].root = root /\ acctTask'[r].who = m
        \/ AcctAt(r, "token") /\ acctTask'[r] = acctTask[r] /\ r # q
  BY DEF AcctComes, OtherAcct, AcctAt
<1>7. \A r \in AuthReqs : AcctAt(r, "token") => acctTask[r].who \in Emails /\ Login(acctTask[r].root)
  BY DEF AcctInv, TokenInv
<1>8. TokenInv'
  BY <1>3, <1>4, <1>5, <1>6, <1>7 DEF TokenInv, Login
<1>9. HeirInv'
  BY <1>6 DEF AcctInv, HeirInv
<1> QED BY <1>8, <1>9

LEMMA AcctStarts == AuthInit => AcctInv
<1> SUFFICES ASSUME AuthInit PROVE AcctInv
  OBVIOUS
<1>1. AcctTypes
  BY DEF AuthInit, AcctTypes, AcctIdle, NoAccount, UserType
<1>2. TokenInv /\ HeirInv
  BY DEF AuthInit, TokenInv, HeirInv, AcctIdle, AcctAt
<1>3. MagicInv
  BY DEF AuthInit, MagicInv, NoAccount
<1> QED BY <1>1, <1>2, <1>3 DEF AcctInv

\* The steps of a request under way, and the calls that create no token.
LEMMA AccountKeeps ==
    ASSUME AcctInv, NEW q \in AuthReqs,
           \/ AcctHandlerEnds(q) \/ InsertUser(q) \/ DeleteTokens(q) \/ DeleteUser(q) \/ SetPassword(q)
           \/ InsertOtp(q) \/ UseOtp(q)
    PROVE  AcctInv'
<1> USE DEF AcctInv
<1>1. CASE AcctHandlerEnds(q)
  <2>1. AcctMoves(q, "done")
    BY <1>1, AcctGoMoves DEF AcctHandlerEnds
  <2> QED BY <1>1, <2>1, QuietMove DEF AcctHandlerEnds, AcctTypes
<1>2. CASE InsertUser(q)
  <2>1. AcctMoves(q, "done")
    BY <1>2, AcctGoMoves DEF InsertUser
  <2>2. acctUser' \in [Emails -> UserType] /\ \A m \in Emails : acctUser'[m].magic \in {0, acctUser[m].magic}
    BY <1>2 DEF InsertUser, AcctTypes, UserType, NoAccount
  <2> QED BY <1>2, <2>1, <2>2, QuietMove DEF InsertUser, AcctTypes
<1>3. CASE DeleteTokens(q)
  <2>1. AcctMoves(q, "user") /\ ~AcctAt(q, "done")
    BY <1>3, AcctGoMoves DEF DeleteTokens, AcctAt
  <2> QED BY <1>3, <2>1, QuietMove DEF DeleteTokens, AcctTypes
<1>4. CASE DeleteUser(q)
  <2>1. AcctMoves(q, "done")
    BY <1>4, AcctGoMoves DEF DeleteUser
  <2>2. acctUser' \in [Emails -> UserType] /\ \A m \in Emails : acctUser'[m].magic \in {0, acctUser[m].magic}
    BY <1>4 DEF DeleteUser, AcctTypes, UserType, NoAccount
  <2> QED BY <1>4, <2>1, <2>2, QuietMove DEF DeleteUser, AcctTypes
<1>5. CASE SetPassword(q)
  <2>1. AcctMoves(q, "done")
    BY <1>5, AcctGoMoves DEF SetPassword
  <2>2. acctUser' \in [Emails -> UserType] /\ \A m \in Emails : acctUser'[m].magic \in {0, acctUser[m].magic}
    <3>1. PICK m : m = acctTask[q].who
      OBVIOUS
    <3>2. PICK u : u = [acctUser[m] EXCEPT !.pw = q]
      OBVIOUS
    <3>3. acctUser' = acctUser \/ acctUser' = [acctUser EXCEPT ![m] = u]
      BY <1>5, <3>1, <3>2 DEF SetPassword
    <3>4. acctUser \in [Emails -> UserType]
      BY DEF AcctInv, AcctTypes
    <3>5. CASE m \in Emails
      <4>1. u \in UserType /\ u.magic = acctUser[m].magic
        BY <3>2, <3>4, <3>5 DEF UserType
      <4> QED
        BY <3>3, <3>4, <3>5, <4>1
    <3>6. CASE m \notin Emails
      BY <3>3, <3>4, <3>6
    <3> QED
      BY <3>5, <3>6
  <2> QED BY <1>5, <2>1, <2>2, QuietMove DEF SetPassword, AcctTypes
<1>6. CASE InsertOtp(q)
  <2>1. AcctMoves(q, "done")
    BY <1>6, AcctGoMoves DEF InsertOtp
  <2> QED BY <1>6, <2>1, QuietMove DEF InsertOtp, AcctTypes
<1>7. CASE UseOtp(q)
  <2>1. PICK pc \in {"done", "insert"} : AcctGo(q, pc)
    BY <1>7 DEF UseOtp
  <2>2. AcctMoves(q, pc) /\ ~AcctAt(q, "done")
    BY <1>7, <2>1, AcctGoMoves DEF UseOtp, AcctAt
  <2> QED BY <1>7, <2>2, QuietMove DEF UseOtp, AcctTypes
<1> QED BY <1>1, <1>2, <1>3, <1>4, <1>5, <1>6, <1>7

LEMMA CallKeeps ==
    ASSUME AcctInv, NEW q \in AuthReqs, NEW m,
           \/ Register(q, m) \/ ReadPassword(q, m) \/ (m \in Emails /\ CreateApiKey(q, m)) \/ DeleteApiKey(q, m)
           \/ DeleteAccount(q, m) \/ AdminDeletes(q, m) \/ LogOut(q, m)
           \/ SmsOtp(q, m) \/ ResendSms(q, m) \/ VerifySms(q, m)
    PROVE  AcctInv'
<1>1. PICK pc \in {"insert", "password", "done", "tokens", "user", "code", "use"} :
        \E id, code : AcctCall(q, pc, m, id, code, 0)
  BY DEF Register, ReadPassword, CreateApiKey, DeleteApiKey, DeleteAccount, AdminDeletes, LogOut, SmsOtp,
         ResendSms, VerifySms
<1>2. AcctComes(q, pc, m, 0)
  BY <1>1, AcctCallComes DEF AcctInv
<1>3. /\ acctRefresh' \subseteq acctRefresh /\ acctKeys' \subseteq Emails
      /\ UNCHANGED <<acctUser, acctRoot, acctVouched>>
  BY DEF AcctInv, AcctTypes, Register, ReadPassword, CreateApiKey, DeleteApiKey, DeleteAccount, AdminDeletes,
         LogOut, SmsOtp, ResendSms, VerifySms
<1> QED BY <1>2, <1>3, QuietCall

LEMMA MagicLinkKeeps ==
    ASSUME AcctInv, NEW q \in AuthReqs, NEW m \in Emails, MagicLink(q, m)
    PROVE  AcctInv'
<1>1. AcctComes(q, "done", m, 0)
  BY AcctCallComes DEF MagicLink, AcctInv
<1>2. Quiet
  BY <1>1, ComesQuietly DEF MagicLink
<1>3. AcctTypes'
  BY <1>1 DEF AcctInv, AcctTypes, AcctComes, AcctRecords, MagicLink, UserType
<1>4. MagicInv'
  <2>1. \A c \in AuthReqs : acctTask'[c].pc = "none" => acctVouched'[c] = 0
    BY <1>2 DEF Quiet, Login, AcctInv, MagicInv, MagicLink
  <2>2. ASSUME NEW n \in Emails, acctUser'[n].magic # 0
        PROVE  /\ Login(acctUser[n].magic)' /\ acctTask'[acctUser'[n].magic].who = n
               /\ acctVouched'[acctUser'[n].magic] = 0
    <3>1. CASE n = m
      BY <1>1, <3>1 DEF AcctComes, AcctInv, AcctTypes, MagicInv, MagicLink, Login, UserType
    <3>2. CASE n # m
      BY <1>2, <2>2, <3>2 DEF Quiet, AcctInv, AcctTypes, MagicInv, MagicLink, Login
    <3> QED BY <3>1, <3>2
  <2> QED BY <2>1, <2>2 DEF MagicInv
<1> QED BY <1>2, <1>3, <1>4, QuietKeeps DEF AcctInv

\* No token and no request about to create one descends from a request that has
\* not come.
LEMMA NewLogin ==
    ASSUME AcctInv, NEW q \in AuthReqs, AcctAt(q, "none")
    PROVE  /\ \A k \in acctRefresh : acctRoot[k[1]] # q
           /\ \A r \in AuthReqs : AcctAt(r, "token") => acctTask[r].root # q
BY DEF AcctInv, TokenInv, Login, AcctAt

LEMMA LogInKeeps ==
    ASSUME AcctInv, NEW q \in AuthReqs, NEW m \in Emails, LogIn(q, m)
    PROVE  AcctInv'
<1>1. AcctComes(q, "token", m, q) /\ AcctAt(q, "none")
  BY AcctCallComes DEF LogIn, AcctInv, AcctCall
<1>2. TokenInv' /\ HeirInv'
  BY <1>1, NewLogin, TokenCall DEF LogIn
<1>3. AcctTypes'
  BY <1>1 DEF AcctInv, AcctTypes, AcctComes, AcctRecords, LogIn
<1>4. MagicInv'
  BY <1>1, MagicKeeps DEF AcctComes, OtherAcct, Login, LogIn
<1> QED BY <1>2, <1>3, <1>4 DEF AcctInv

LEMMA VerifyMagicKeeps ==
    ASSUME AcctInv, NEW q \in AuthReqs, NEW m \in Emails, NEW code \in AuthReqs, VerifyMagicLink(q, m, code)
    PROVE  AcctInv'
<1>1. AcctComes(q, "token", m, q) /\ AcctAt(q, "none")
  BY AcctCallComes DEF VerifyMagicLink, AcctInv, AcctCall
<1>2. TokenInv' /\ HeirInv'
  BY <1>1, NewLogin, TokenCall DEF VerifyMagicLink
<1>3. Login(code) /\ acctTask[code].who = m /\ acctVouched[code] = 0
  BY DEF AcctInv, MagicInv, VerifyMagicLink
<1>4. /\ acctUser' = [acctUser EXCEPT ![m].magic = 0]
      /\ acctVouched' = [acctVouched EXCEPT ![code] = 1]
  BY <1>3 DEF VerifyMagicLink, AcctInv, AcctTypes
<1>5. AcctTypes'
  <2>1. UNCHANGED <<acctRefresh, acctKeys, acctRoot>>
    BY DEF VerifyMagicLink
  <2>2. acctUser' \in [Emails -> UserType] /\ acctVouched' \in [AuthReqs -> {0, 1}]
    BY <1>4 DEF AcctInv, AcctTypes, UserType
  <2> QED BY <1>1, <2>1, <2>2 DEF AcctInv, AcctTypes, AcctComes, AcctRecords
<1>6. \A r \in AuthReqs : Login(r) => Login(r)' /\ acctTask'[r].who = acctTask[r].who
  BY <1>1 DEF AcctComes, OtherAcct, Login
<1>7. MagicInv'
  <2>1. \A c \in AuthReqs : acctTask'[c].pc = "none" => acctVouched'[c] = 0
    BY <1>3, <1>4, <1>6 DEF Login, AcctInv, AcctTypes, MagicInv
  <2>2. ASSUME NEW n \in Emails, acctUser'[n].magic # 0
        PROVE  /\ Login(acctUser[n].magic)' /\ acctTask'[acctUser'[n].magic].who = n
               /\ acctVouched'[acctUser'[n].magic] = 0
    <3>1. n # m /\ acctUser'[n] = acctUser[n]
      BY <1>4, <2>2 DEF AcctInv, AcctTypes, UserType
    <3>2. Login(acctUser[n].magic) /\ acctTask[acctUser[n].magic].who = n /\ acctVouched[acctUser[n].magic] = 0
      BY <2>2, <3>1 DEF AcctInv, MagicInv
    <3> QED BY <1>3, <1>4, <1>6, <3>1, <3>2 DEF Login, AcctInv, AcctTypes
  <2> QED BY <2>1, <2>2 DEF MagicInv
<1> QED BY <1>2, <1>5, <1>7 DEF AcctInv

\* A refresh hands the login of the token it takes to the request.
LEMMA RotateKeeps ==
    ASSUME AcctInv, NEW q \in AuthReqs, NEW k \in acctRefresh, RotateRefreshToken(q, k)
    PROVE  AcctInv'
<1>1. k[1] \in AuthReqs /\ k[2] \in Emails /\ Login(acctRoot[k[1]])
  BY DEF AcctInv, AcctTypes, TokenInv
<1>2. AcctComes(q, "token", k[2], acctRoot[k[1]])
  BY AcctCallComes DEF RotateRefreshToken, AcctInv
<1>3. /\ \A l \in acctRefresh' : l \in acctRefresh /\ acctRoot[l[1]] # acctRoot[k[1]]
      /\ \A r \in AuthReqs : AcctAt(r, "token") => acctTask[r].root # acctRoot[k[1]]
  BY DEF AcctInv, HeirInv, RotateRefreshToken, TakeToken
<1>4. TokenInv' /\ HeirInv'
  BY <1>1, <1>2, <1>3, TokenCall DEF RotateRefreshToken, Login
<1>5. AcctTypes'
  BY <1>2, <1>3 DEF AcctInv, AcctTypes, AcctComes, AcctRecords, RotateRefreshToken
<1>6. MagicInv'
  BY <1>2, MagicKeeps DEF AcctComes, OtherAcct, Login, RotateRefreshToken
<1> QED BY <1>4, <1>5, <1>6 DEF AcctInv

\* The request that creates a token hands its login to it.
LEMMA CreateKeeps ==
    ASSUME AcctInv, NEW q \in AuthReqs, CreateRefreshToken(q)
    PROVE  AcctInv'
<1> DEFINE m == acctTask[q].who
<1>1. AcctMoves(q, "done") /\ AcctAt(q, "token") /\ ~AcctAt(q, "done")
  BY AcctGoMoves DEF AcctInv, CreateRefreshToken, AcctAt
<1>2. CASE acctUser[m].id # acctTask[q].id
  BY <1>1, <1>2, QuietMove DEF CreateRefreshToken, AcctInv, AcctTypes
<1>3. CASE acctUser[m].id = acctTask[q].id
  <2>1. /\ acctRefresh' = acctRefresh \cup {<<q, m>>}
        /\ acctRoot' = [acctRoot EXCEPT ![q] = acctTask[q].root]
        /\ UNCHANGED <<acctUser, acctKeys, acctVouched>>
    BY <1>3 DEF CreateRefreshToken
  <2>2. m \in Emails /\ Login(acctTask[q].root)
    BY <1>1 DEF AcctInv, TokenInv
  <2>3. /\ \A k \in acctRefresh : k[1] \in AuthReqs /\ k[1] # q /\ acctRoot'[k[1]] = acctRoot[k[1]]
        /\ acctRoot'[q] = acctTask[q].root
    BY <1>1, <2>1 DEF AcctInv, AcctTypes, TokenInv, AcctAt
  <2>4. AcctTypes'
    BY <1>1, <2>1, <2>2 DEF AcctInv, AcctTypes, AcctMoves, AcctRecords, Login
  <2>5. \A r \in AuthReqs : Login(r) => Login(r)' /\ acctTask'[r].who = acctTask[r].who
    BY <1>1 DEF AcctMoves, OtherAcct, Login
  <2>6. \A r \in AuthReqs : AcctAt(r, "token")' => AcctAt(r, "token") /\ r # q /\ acctTask'[r] = acctTask[r]
    BY <1>1 DEF AcctMoves, OtherAcct, AcctAt
  <2>7. TokenInv'
    <3>1. ASSUME NEW k \in acctRefresh'
          PROVE  acctTask'[k[1]].pc = "done" /\ acctTask'[k[1]].who = k[2] /\ Login(acctRoot[k[1]])'
      <4>1. CASE k \in acctRefresh
        <5>1. acctTask[k[1]].pc = "done" /\ acctTask[k[1]].who = k[2] /\ Login(acctRoot[k[1]])
          BY <4>1 DEF AcctInv, TokenInv
        <5>2. acctTask'[k[1]] = acctTask[k[1]]
          BY <1>1, <2>3, <4>1 DEF AcctMoves, OtherAcct
        <5> QED BY <2>3, <2>5, <4>1, <5>1, <5>2 DEF Login
      <4>2. CASE k = <<q, m>>
        <5>1. acctTask'[q].pc = "done" /\ acctTask'[q].who = m
          BY <1>1 DEF AcctMoves
        <5>2. Login(acctRoot[q])'
          BY <2>2, <2>3, <2>5 DEF Login
        <5> QED BY <4>2, <5>1, <5>2
      <4> QED BY <2>1, <4>1, <4>2
    <3>2. \A r \in AuthReqs : AcctAt(r, "token")' => acctTask'[r].who \in Emails /\ Login(acctTask[r].root)'
      BY <2>5, <2>6 DEF AcctInv, TokenInv, Login
    <3> QED BY <3>1, <3>2 DEF TokenInv
  <2>8. HeirInv'
    <3>1. \A k \in acctRefresh : acctRoot[k[1]] # acctTask[q].root
      BY <1>1 DEF AcctInv, HeirInv
    <3>2. \A k \in acctRefresh' : k \in acctRefresh \/ k = <<q, m>>
      BY <2>1
    <3>3. \A k, l \in acctRefresh' : acctRoot'[k[1]] = acctRoot'[l[1]] => k = l
      BY <2>3, <3>1, <3>2 DEF AcctInv, HeirInv
    <3>4. \A k \in acctRefresh', r \in AuthReqs : AcctAt(r, "token")' => acctRoot'[k[1]] # acctTask'[r].root
      BY <1>1, <2>3, <2>6, <3>2 DEF AcctInv, HeirInv
    <3>5. \A p, r \in AuthReqs : AcctAt(p, "token")' /\ AcctAt(r, "token")' /\ acctTask'[p].root = acctTask'[r].root => p = r
      BY <2>6 DEF AcctInv, HeirInv
    <3> QED BY <3>3, <3>4, <3>5 DEF HeirInv
  <2>9. MagicInv'
    BY <2>1, <2>5, MagicKeeps
  <2> QED BY <2>4, <2>7, <2>8, <2>9 DEF AcctInv
<1> QED BY <1>2, <1>3

LEMMA ExpiryKeeps ==
    ASSUME AcctInv, TokenExpires \/ MagicExpires
    PROVE  AcctInv'
<1>1. /\ acctRefresh' \subseteq acctRefresh /\ UNCHANGED <<acctKeys, acctTask, acctRoot, acctVouched>>
      /\ acctUser' \in [Emails -> UserType] /\ \A m \in Emails : acctUser'[m].magic \in {0, acctUser[m].magic}
  <2>1. AcctTypes
    BY DEF AcctInv
  <2>2. CASE TokenExpires
    BY <2>1, <2>2 DEF TokenExpires, AcctTypes, UserType
  <2>3. CASE MagicExpires
    BY <2>1, <2>3 DEF MagicExpires, AcctTypes, UserType
  <2> QED BY <2>2, <2>3
<1>2. Quiet
  BY <1>1 DEF Quiet, Login, AcctAt
<1>3. AcctTypes'
  BY <1>1 DEF AcctInv, AcctTypes
<1>4. MagicInv'
  BY <1>1, <1>2, MagicKeeps DEF Quiet
<1> QED BY <1>2, <1>3, <1>4, QuietKeeps DEF AcctInv

LEMMA AcctKeeps == AcctInv /\ [SessionNext \/ SmsNext]_acctVars => AcctInv'
<1> SUFFICES ASSUME AcctInv, [SessionNext \/ SmsNext]_acctVars PROVE AcctInv'
  OBVIOUS
<1>1. CASE UNCHANGED acctVars
  BY <1>1 DEF acctVars, AcctInv, AcctTypes, TokenInv, HeirInv, MagicInv, Login, AcctAt
<1>2. CASE SessionNext
  <2>1. CASE TokenExpires \/ MagicExpires
    BY <2>1, ExpiryKeeps
  <2>2. ASSUME NEW q \in AuthReqs, AccountStep(q) \/ SetPassword(q)
        PROVE  AcctInv'
    BY <2>2, AccountKeeps, CreateKeeps DEF AccountStep
  <2>3. ASSUME NEW q \in AuthReqs, NEW k \in acctRefresh, RotateRefreshToken(q, k)
        PROVE  AcctInv'
    BY <2>3, RotateKeeps
  <2>4. ASSUME NEW q \in AuthReqs, NEW m \in Emails,
               \/ Register(q, m) \/ ReadPassword(q, m) \/ CreateApiKey(q, m) \/ DeleteApiKey(q, m)
               \/ DeleteAccount(q, m) \/ AdminDeletes(q, m) \/ LogIn(q, m) \/ LogOut(q, m)
               \/ MagicLink(q, m) \/ \E c \in AuthReqs : VerifyMagicLink(q, m, c)
        PROVE  AcctInv'
    BY <2>4, CallKeeps, LogInKeeps, MagicLinkKeeps, VerifyMagicKeeps
  <2> QED BY <1>2, <2>1, <2>2, <2>3, <2>4 DEF SessionNext
<1>3. CASE SmsNext
  <2>1. ASSUME NEW q \in AuthReqs, AccountStep(q) \/ InsertOtp(q) \/ UseOtp(q)
        PROVE  AcctInv'
    BY <2>1, AccountKeeps, CreateKeeps DEF AccountStep
  <2>2. ASSUME NEW q \in AuthReqs, NEW m \in Mobiles,
               SmsOtp(q, m) \/ ResendSms(q, m) \/ VerifySms(q, m) \/ AdminDeletes(q, m)
        PROVE  AcctInv'
    BY <2>2, CallKeeps
  <2> QED BY <1>3, <2>1, <2>2 DEF SmsNext
<1> QED BY <1>1, <1>2, <1>3

LEMMA OneHeir == AcctInv => OneHeirPerLogin
<1> SUFFICES ASSUME AcctInv PROVE OneHeirPerLogin
  OBVIOUS
<1>1. ASSUME NEW r \in AuthReqs
      PROVE  Cardinality({k \in acctRefresh : acctRoot[k[1]] = r}) +
             Cardinality({q \in AuthReqs : AcctAt(q, "token") /\ acctTask[q].root = r}) <= 1
  <2> DEFINE A == {k \in acctRefresh : acctRoot[k[1]] = r}
             B == {q \in AuthReqs : AcctAt(q, "token") /\ acctTask[q].root = r}
  <2>1. /\ \A k, l \in A : k = l
        /\ \A p, q \in B : p = q
        /\ A = {} \/ B = {}
    BY DEF AcctInv, HeirInv
  <2> HIDE DEF A, B
  <2>2. \A S : (\A x, y \in S : x = y) => Cardinality(S) \in {0, 1}
    <3> SUFFICES ASSUME NEW S, \A x, y \in S : x = y PROVE Cardinality(S) \in {0, 1}
      OBVIOUS
    <3>1. CASE S = {}
      BY <3>1, FS_EmptySet
    <3>2. CASE \E x : S = {x}
      BY <3>2, FS_Singleton
    <3>3. S = {} \/ \E x : S = {x}
      OBVIOUS
    <3> QED BY <3>1, <3>2, <3>3
  <2>3. Cardinality(A) \in {0, 1} /\ Cardinality(B) \in {0, 1}
    BY <2>1, <2>2
  <2>4. Cardinality(A) = 0 \/ Cardinality(B) = 0
    BY <2>1, FS_EmptySet
  <2>5. Cardinality(A) + Cardinality(B) <= 1
    BY <2>3, <2>4
  <2> QED BY <2>5 DEF A, B
<1>2. \A c \in AuthReqs : acctVouched[c] <= 1
  BY DEF AcctInv, AcctTypes
<1> QED BY <1>1, <1>2 DEF OneHeirPerLogin

(***************************************************************************)
(* The team                                                                *)
(***************************************************************************)
TeamPcs  == {"none", "done", "target", "write", "blind", "accept"}
TeamTask == [pc : TeamPcs, by : TeamUsers \cup {"none"}, who : TeamUsers \cup {"none"},
             role : TeamRoles \cup {"owner", "none"}, inv : TeamReqs \cup {0}]

TeamTypes ==
    /\ teamOwner \in TeamUsers \cup {"none"}
    /\ teamRole \in [TeamUsers -> TeamRoles \cup {"owner", "none"}]
    /\ teamInvite \in [TeamReqs -> [role : TeamRoles \cup {"none"}, open : BOOLEAN]]
    /\ teamTask \in [TeamReqs -> TeamTask]

\* No request writes the role of owner, and none that has read a membership
\* writes to the owner.
RoleInv == \A q \in TeamReqs :
    /\ teamTask[q].pc \in {"target", "write", "blind"} =>
         teamTask[q].who \in TeamUsers /\ teamTask[q].role \in TeamRoles \cup {"none"}
    /\ TeamAt(q, "write") => teamRole[teamTask[q].who] # "owner"

InviteInv ==
    /\ \A i \in TeamReqs : teamInvite[i].open = TRUE => teamInvite[i].role \in TeamRoles
    /\ \A q \in TeamReqs : TeamAt(q, "accept") =>
         /\ teamTask[q].who \in TeamUsers /\ teamTask[q].inv \in TeamReqs
         /\ teamInvite[teamTask[q].inv].role \in TeamRoles

\* Without a team there is no member, no invitation, and no request that has
\* read either.
NoTeamInv == teamOwner = "none" =>
    /\ \A u \in TeamUsers : teamRole[u] = "none"
    /\ \A i \in TeamReqs : teamInvite[i].open = FALSE
    /\ \A q \in TeamReqs : ~TeamAt(q, "write") /\ ~TeamAt(q, "accept")

TeamInv == TeamTypes /\ RoleInv /\ InviteInv /\ NoTeamInv /\ OwnerStays

-----------------------------------------------------------------------------
LEMMA TeamStarts == AuthInit => TeamInv
BY ApiAuthAssumption
   DEF AuthInit, TeamInv, TeamTypes, RoleInv, InviteInv, NoTeamInv, OwnerStays, TeamIdle, TeamTask, TeamPcs, TeamAt

\* What a step does to the requests about the team.
TeamStep(q, pcs) ==
    /\ teamTask' \in [TeamReqs -> TeamTask]
    /\ teamTask'[q].pc \in pcs
    /\ \A r \in TeamReqs \ {q} : teamTask'[r] = teamTask[r]

LEMMA TeamMoves ==
    ASSUME TeamTypes, NEW q \in TeamReqs, NEW pc \in TeamPcs, TeamGo(q, pc)
    PROVE  TeamStep(q, {pc}) /\ teamTask'[q] = [teamTask[q] EXCEPT !.pc = pc]
BY DEF TeamTypes, TeamGo, TeamStep, TeamTask

LEMMA TeamComes ==
    ASSUME TeamTypes, NEW q \in TeamReqs, NEW pc \in TeamPcs, NEW by \in TeamUsers,
           NEW who \in TeamUsers \cup {"none"}, NEW role \in TeamRoles \cup {"owner", "none"},
           TeamCall(q, pc, by, who, role)
    PROVE  /\ TeamStep(q, {pc})
           /\ teamTask'[q] = [pc |-> pc, by |-> by, who |-> who, role |-> role, inv |-> 0]
BY DEF TeamTypes, TeamCall, TeamStep, TeamTask

\* Calls and reads leave the team alone.
LEMMA ReadsKeep ==
    ASSUME TeamInv, NEW q \in TeamReqs, UNCHANGED <<teamOwner, teamRole, teamInvite, teamBlind>>,
           TeamStep(q, {"done", "target", "write", "blind"}),
           ~TeamAt(q, "done")' => teamTask'[q].who \in TeamUsers /\ teamTask'[q].role \in TeamRoles \cup {"none"},
           TeamAt(q, "write")' => teamRole[teamTask'[q].who] \notin {"owner", "none"}
    PROVE  TeamInv'
<1>1. TeamTypes'
  BY DEF TeamInv, TeamTypes, TeamStep
<1>2. RoleInv'
  BY DEF TeamInv, RoleInv, TeamStep, TeamAt
<1>3. InviteInv'
  BY DEF TeamInv, InviteInv, TeamStep, TeamAt
<1>4. NoTeamInv'
  BY DEF TeamInv, NoTeamInv, TeamStep, TeamAt
<1>5. OwnerStays'
  BY DEF TeamInv, OwnerStays
<1> QED BY <1>1, <1>2, <1>3, <1>4, <1>5 DEF TeamInv

LEMMA CallsKeep ==
    ASSUME TeamInv, NEW q \in TeamReqs, NEW u \in TeamUsers, NEW v \in TeamUsers, NEW r \in TeamRoles,
           ChangeRole(q, u, v, r) \/ RemoveMember(q, u, v)
    PROVE  TeamInv'
<1>1. PICK s \in TeamRoles \cup {"none"} : TeamCall(q, "target", u, v, s)
  BY DEF ChangeRole, RemoveMember
<1>2. TeamStep(q, {"target"}) /\ teamTask'[q] = [pc |-> "target", by |-> u, who |-> v, role |-> s, inv |-> 0]
  BY <1>1, TeamComes DEF TeamInv, TeamPcs
<1>3. UNCHANGED <<teamOwner, teamRole, teamInvite, teamBlind>>
  BY DEF ChangeRole, RemoveMember
<1> QED BY <1>2, <1>3, ReadsKeep DEF TeamStep, TeamAt

LEMMA ReadTargetKeeps ==
    ASSUME TeamInv, NEW q \in TeamReqs, ReadTarget(q)
    PROVE  TeamInv'
<1>1. PICK pc \in {"done", "write", "blind"} :
        TeamGo(q, pc) /\ (pc = "write" => teamRole[teamTask[q].who] \notin {"owner", "none"})
  <2> DEFINE r == teamRole[teamTask[q].who]
  <2>1. CASE r = "owner"
    BY <2>1 DEF ReadTarget, TeamGo, TeamRoles
  <2>2. CASE r = "none"
    BY <2>2 DEF ReadTarget, TeamGo, TeamRoles
  <2>3. CASE r \in TeamRoles
    BY <2>3 DEF ReadTarget, TeamGo, TeamRoles
  <2>4. r \in TeamRoles \cup {"owner", "none"}
    BY DEF ReadTarget, TeamInv, TeamTypes, RoleInv, TeamAt
  <2> QED BY <2>1, <2>2, <2>3, <2>4
<1>2. TeamStep(q, {pc}) /\ teamTask'[q] = [teamTask[q] EXCEPT !.pc = pc]
  BY <1>1, TeamMoves DEF TeamInv, TeamPcs
<1>3. teamTask[q] \in TeamTask /\ teamTask[q].who \in TeamUsers /\ teamTask[q].role \in TeamRoles \cup {"none"}
  BY DEF ReadTarget, TeamInv, RoleInv, TeamTypes, TeamAt
<1>4. UNCHANGED <<teamOwner, teamRole, teamInvite, teamBlind>>
  BY DEF ReadTarget
<1>5. /\ teamTask'[q].pc = pc /\ teamTask'[q].who = teamTask[q].who /\ teamTask'[q].role = teamTask[q].role
  BY <1>2, <1>3 DEF TeamTask
<1> QED BY <1>1, <1>2, <1>3, <1>4, <1>5, ReadsKeep DEF TeamStep, TeamAt

LEMMA WriteRoleKeeps ==
    ASSUME TeamInv, NEW q \in TeamReqs, WriteRole(q)
    PROVE  TeamInv'
<1> DEFINE u == teamTask[q].who
<1>1. u \in TeamUsers /\ teamTask[q].role \in TeamRoles \cup {"none"}
  BY DEF WriteRole, TeamInv, RoleInv
<1>2. TeamStep(q, {"done"})
  BY TeamMoves DEF WriteRole, TeamInv, TeamPcs
<1>3. UNCHANGED <<teamOwner, teamInvite>>
  BY DEF WriteRole
<1>4. \/ UNCHANGED <<teamRole, teamBlind>> /\ teamRole[u] = "none"
      \/ /\ teamRole[u] # "none" /\ teamRole' = [teamRole EXCEPT ![u] = teamTask[q].role]
         /\ \/ TeamAt(q, "write") /\ teamBlind' = teamBlind
            \/ teamBlind' = teamBlind \cup {u}
  BY DEF WriteRole, TeamAt
<1>5. TeamTypes'
  BY <1>1, <1>2, <1>3, <1>4 DEF TeamInv, TeamTypes, TeamStep
<1>6. \A v \in TeamUsers : teamRole'[v] = "owner" => teamRole[v] = "owner"
  BY <1>1, <1>4 DEF TeamInv, TeamTypes, TeamRoles
<1>7. RoleInv'
  BY <1>2, <1>6 DEF TeamInv, RoleInv, TeamStep, TeamAt
<1>8. InviteInv'
  BY <1>2, <1>3 DEF TeamInv, InviteInv, TeamStep, TeamAt
<1>9. NoTeamInv'
  BY <1>1, <1>2, <1>3, <1>4 DEF TeamInv, NoTeamInv, TeamStep, TeamAt
<1>10. OwnerStays'
  <2> SUFFICES ASSUME NEW v \in TeamUsers \ teamBlind'
               PROVE  teamRole'[v] = "owner" <=> (teamOwner = v)
    BY <1>3 DEF OwnerStays
  <2>1. v \notin teamBlind /\ (teamRole[v] = "owner" <=> (teamOwner = v))
    BY <1>4 DEF TeamInv, OwnerStays
  <2>2. CASE v # u
    BY <1>1, <1>4, <2>1, <2>2 DEF TeamInv, TeamTypes
  <2>3. CASE v = u
    <3>1. CASE UNCHANGED teamRole
      BY <2>1, <3>1
    <3>2. CASE TeamAt(q, "write") /\ teamRole' = [teamRole EXCEPT ![u] = teamTask[q].role]
      <4>1. teamRole[u] # "owner"
        BY <3>2 DEF TeamInv, RoleInv
      <4>2. teamRole'[u] # "owner"
        BY <1>1, <3>2 DEF TeamInv, TeamTypes, TeamRoles
      <4> QED BY <2>1, <2>3, <4>1, <4>2
    <3> QED BY <1>4, <2>3, <3>1, <3>2
  <2> QED BY <2>2, <2>3
<1> QED BY <1>5, <1>7, <1>8, <1>9, <1>10 DEF TeamInv

LEMMA AcceptKeeps ==
    ASSUME TeamInv, NEW q \in TeamReqs, AcceptInvite(q)
    PROVE  TeamInv'
<1> DEFINE u == teamTask[q].who
           i == teamTask[q].inv
<1>1. u \in TeamUsers /\ i \in TeamReqs /\ teamInvite[i].role \in TeamRoles
  BY DEF AcceptInvite, TeamInv, InviteInv
<1>2. TeamStep(q, {"done"})
  BY TeamMoves DEF AcceptInvite, TeamInv, TeamPcs
<1>3. /\ UNCHANGED <<teamOwner, teamBlind>> /\ teamInvite' = [teamInvite EXCEPT ![i].open = FALSE]
      /\ teamOwner # "none"
      /\ \/ UNCHANGED teamRole
         \/ teamRole[u] = "none" /\ teamRole' = [teamRole EXCEPT ![u] = teamInvite[i].role]
  BY DEF AcceptInvite, TeamInv, NoTeamInv
<1>4. TeamTypes'
  <2>1. teamInvite' \in [TeamReqs -> [role : TeamRoles \cup {"none"}, open : BOOLEAN]]
    <3>1. teamInvite \in [TeamReqs -> [role : TeamRoles \cup {"none"}, open : BOOLEAN]]
      BY DEF TeamInv, TeamTypes
    <3>2. teamInvite' = [teamInvite EXCEPT ![i].open = FALSE]
      BY <1>3
    <3> HIDE DEF i
    <3> QED BY <3>1, <3>2
  <2>2. teamRole' \in [TeamUsers -> TeamRoles \cup {"owner", "none"}]
    BY <1>1, <1>3 DEF TeamInv, TeamTypes
  <2> QED BY <1>2, <1>3, <2>1, <2>2 DEF TeamInv, TeamTypes, TeamStep
<1>5. \A v \in TeamUsers : teamRole'[v] = "owner" <=> teamRole[v] = "owner"
  BY <1>1, <1>3 DEF TeamInv, TeamTypes, TeamRoles
<1>6. RoleInv'
  BY <1>2, <1>5 DEF TeamInv, RoleInv, TeamStep, TeamAt
<1>7. \A j \in TeamReqs : teamInvite'[j].role = teamInvite[j].role /\ (teamInvite'[j].open = TRUE => teamInvite[j].open = TRUE)
  BY <1>1, <1>3 DEF TeamInv, TeamTypes
<1>8. InviteInv'
  BY <1>2, <1>7 DEF TeamInv, InviteInv, TeamStep, TeamAt
<1>9. NoTeamInv'
  BY <1>3 DEF NoTeamInv
<1>10. OwnerStays'
  BY <1>3, <1>5 DEF TeamInv, OwnerStays
<1> QED BY <1>4, <1>6, <1>8, <1>9, <1>10 DEF TeamInv

LEMMA InvitesKeep ==
    ASSUME TeamInv, NEW q \in TeamReqs, NEW u \in TeamUsers,
           (\E i \in TeamReqs : ReadInvite(q, u, i)) \/ (\E r \in TeamRoles : Invite(q, u, r))
    PROVE  TeamInv'
<1>1. CASE \E r \in TeamRoles : Invite(q, u, r)
  <2>1. PICK r \in TeamRoles : Invite(q, u, r)
    BY <1>1
  <2>2. TeamStep(q, {"done"})
    BY <2>1, TeamComes DEF Invite, TeamInv, TeamPcs
  <2>3. /\ UNCHANGED <<teamOwner, teamRole, teamBlind>> /\ Manages(u)
        /\ teamInvite' = [teamInvite EXCEPT ![q] = [role |-> r, open |-> TRUE]]
    BY <2>1 DEF Invite
  <2>4. TeamTypes'
    BY <2>2, <2>3 DEF TeamInv, TeamTypes, TeamStep
  <2>5. RoleInv' /\ OwnerStays'
    BY <2>2, <2>3 DEF TeamInv, RoleInv, OwnerStays, TeamStep, TeamAt
  <2>6. \A j \in TeamReqs : teamInvite'[j].role \in TeamRoles \/ teamInvite'[j] = teamInvite[j]
    BY <2>3 DEF TeamInv, TeamTypes
  <2>7. InviteInv'
    BY <2>2, <2>6 DEF TeamInv, InviteInv, TeamStep, TeamAt
  <2>8. NoTeamInv'
    BY <2>3 DEF TeamInv, NoTeamInv, Manages
  <2> QED BY <2>4, <2>5, <2>7, <2>8 DEF TeamInv
<1>2. CASE \E i \in TeamReqs : ReadInvite(q, u, i)
  <2>1. PICK i \in TeamReqs : ReadInvite(q, u, i)
    BY <1>2
  <2> DEFINE t == [TeamIdle EXCEPT !.pc = "accept", !.who = u, !.inv = i]
  <2>2. /\ teamTask' = [teamTask EXCEPT ![q] = t] /\ teamTask[q].pc = "none"
        /\ UNCHANGED <<teamOwner, teamRole, teamInvite, teamBlind>> /\ teamInvite[i].open = TRUE
    <3>1. teamInvite[i].open \in BOOLEAN
      BY DEF TeamInv, TeamTypes
    <3>2. teamInvite[i].open = TRUE
      BY <2>1, <3>1 DEF ReadInvite
    <3> QED BY <2>1, <3>2 DEF ReadInvite, TeamAt
  <2>3. t \in TeamTask /\ t.pc = "accept" /\ t.who = u /\ t.inv = i
    <3>1. TeamIdle = [pc |-> "none", by |-> "none", who |-> "none", role |-> "none", inv |-> 0]
      BY DEF TeamIdle
    <3> QED BY <3>1 DEF TeamTask, TeamPcs
  <2> HIDE DEF t
  <2>4. teamTask'[q] = t /\ \A r \in TeamReqs \ {q} : teamTask'[r] = teamTask[r]
    BY <2>2 DEF TeamInv, TeamTypes
  <2>5. TeamTypes'
    BY <2>2, <2>3 DEF TeamInv, TeamTypes
  <2>6. RoleInv' /\ OwnerStays'
    BY <2>2, <2>3, <2>4 DEF TeamInv, RoleInv, OwnerStays, TeamAt
  <2>7. InviteInv'
    BY <2>2, <2>3, <2>4 DEF TeamInv, InviteInv, TeamAt
  <2>8. NoTeamInv'
    BY <2>2, <2>3, <2>4 DEF TeamInv, NoTeamInv, TeamAt
  <2> QED BY <2>5, <2>6, <2>7, <2>8 DEF TeamInv
<1> QED BY <1>1, <1>2

LEMMA CreateTeamKeeps ==
    ASSUME TeamInv, NEW q \in TeamReqs, NEW u \in TeamUsers, CreateTeam(q, u)
    PROVE  TeamInv'
<1>1. TeamStep(q, {"done"})
  BY TeamComes DEF CreateTeam, TeamInv, TeamPcs
<1>2. /\ UNCHANGED <<teamInvite, teamBlind>> /\ teamOwner = "none" /\ teamOwner' = u
      /\ teamRole' = [teamRole EXCEPT ![u] = "owner"]
  BY DEF CreateTeam
<1>3. TeamTypes'
  BY <1>1, <1>2 DEF TeamInv, TeamTypes, TeamStep
<1>4. RoleInv'
  BY <1>1, <1>2 DEF TeamInv, RoleInv, NoTeamInv, TeamStep, TeamAt
<1>5. InviteInv' /\ NoTeamInv'
  BY <1>1, <1>2, ApiAuthAssumption DEF TeamInv, InviteInv, NoTeamInv, TeamStep, TeamAt
<1>6. OwnerStays'
  BY <1>2 DEF TeamInv, TeamTypes, NoTeamInv, OwnerStays
<1> QED BY <1>3, <1>4, <1>5, <1>6 DEF TeamInv

LEMMA UserGoesKeeps ==
    ASSUME TeamInv, NEW u \in TeamUsers, UserGoes(u)
    PROVE  TeamInv'
<1>1. CASE teamOwner = u
  <2>1. /\ teamOwner' = "none" /\ teamRole' = [v \in TeamUsers |-> "none"] /\ teamBlind' = teamBlind
        /\ teamInvite' = [q \in TeamReqs |-> [role |-> "none", open |-> FALSE]]
        /\ teamTask' = [q \in TeamReqs |-> [teamTask[q] EXCEPT
             !.pc = CASE @ = "write" -> "blind" [] @ = "accept" -> "done" [] OTHER -> @]]
    BY <1>1 DEF UserGoes
  <2>2. ASSUME NEW q \in TeamReqs
        PROVE  /\ teamTask'[q] \in TeamTask
               /\ teamTask'[q].who = teamTask[q].who /\ teamTask'[q].role = teamTask[q].role
               /\ teamTask'[q].pc \notin {"write", "accept"}
               /\ teamTask'[q].pc \in {"target", "blind"} => teamTask[q].pc \in {"target", "write", "blind"}
    <3>1. teamTask[q] \in TeamTask
      BY DEF TeamInv, TeamTypes
    <3>2. PICK pc \in TeamPcs : /\ teamTask'[q] = [teamTask[q] EXCEPT !.pc = pc]
                                /\ pc \notin {"write", "accept"}
                                /\ pc \in {"target", "blind"} => teamTask[q].pc \in {"target", "write", "blind"}
      BY <2>1, <3>1 DEF TeamTask, TeamPcs
    <3> QED BY <3>1, <3>2 DEF TeamTask
  <2>3. TeamTypes'
    <3>1. teamTask' \in [TeamReqs -> TeamTask]
      BY <2>1, <2>2
    <3> QED BY <2>1, <3>1 DEF TeamTypes
  <2>4. RoleInv' /\ InviteInv' /\ NoTeamInv'
    BY <2>1, <2>2 DEF TeamInv, RoleInv, InviteInv, NoTeamInv, TeamAt
  <2>5. OwnerStays'
    BY <2>1, ApiAuthAssumption DEF OwnerStays
  <2> QED BY <2>3, <2>4, <2>5 DEF TeamInv
<1>2. CASE teamOwner # u
  <2>1. /\ UNCHANGED <<teamOwner, teamInvite, teamTask, teamBlind>>
        /\ teamRole' = [teamRole EXCEPT ![u] = "none"]
    BY <1>2 DEF UserGoes
  <2>2. TeamTypes'
    BY <2>1 DEF TeamInv, TeamTypes
  <2>3. RoleInv' /\ InviteInv' /\ NoTeamInv'
    BY <2>1 DEF TeamInv, TeamTypes, RoleInv, InviteInv, NoTeamInv, TeamAt
  <2>4. OwnerStays'
    BY <1>2, <2>1 DEF TeamInv, TeamTypes, OwnerStays
  <2> QED BY <2>2, <2>3, <2>4 DEF TeamInv
<1> QED BY <1>1, <1>2

LEMMA TeamKeeps == TeamInv /\ [TeamNext]_teamVars => TeamInv'
<1> SUFFICES ASSUME TeamInv, [TeamNext]_teamVars PROVE TeamInv'
  OBVIOUS
<1>1. CASE UNCHANGED teamVars
  BY <1>1 DEF teamVars, TeamInv, TeamTypes, RoleInv, InviteInv, NoTeamInv, OwnerStays, TeamAt
<1>2. CASE TeamNext
  <2>1. ASSUME NEW u \in TeamUsers, UserGoes(u) PROVE TeamInv'
    BY <2>1, UserGoesKeeps
  <2>2. ASSUME NEW q \in TeamReqs, ReadTarget(q) \/ WriteRole(q) \/ AcceptInvite(q) PROVE TeamInv'
    BY <2>2, ReadTargetKeeps, WriteRoleKeeps, AcceptKeeps
  <2>3. ASSUME NEW q \in TeamReqs, NEW u \in TeamUsers,
               \/ CreateTeam(q, u) \/ \E i \in TeamReqs : ReadInvite(q, u, i)
               \/ \E r \in TeamRoles : Invite(q, u, r)
        PROVE  TeamInv'
    BY <2>3, CreateTeamKeeps, InvitesKeep
  <2>4. ASSUME NEW q \in TeamReqs, NEW u \in TeamUsers, NEW v \in TeamUsers,
               RemoveMember(q, u, v) \/ \E r \in TeamRoles : ChangeRole(q, u, v, r)
        PROVE  TeamInv'
    BY <2>4, CallsKeep DEF TeamRoles
  <2> QED BY <1>2, <2>1, <2>2, <2>3, <2>4 DEF TeamNext
<1> QED BY <1>1, <1>2

(***************************************************************************)
(* The rights of the composed routes                                       *)
(***************************************************************************)
LEMMA SessionFrame == SessionNext \/ SmsNext => UNCHANGED teamVars
<1>1. ASSUME NEW q \in AuthReqs, AccountStep(q) PROVE UNCHANGED teamVars
  BY <1>1 DEF AccountStep, AcctHandlerEnds, InsertUser, CreateRefreshToken, DeleteTokens, DeleteUser
<1>2. ASSUME SmsNext PROVE UNCHANGED teamVars
  BY <1>1, <1>2 DEF SmsNext, InsertOtp, UseOtp, SmsOtp, ResendSms, VerifySms, AdminDeletes
<1>3. ASSUME NEW q \in AuthReqs, NEW m \in Emails,
             \/ Register(q, m) \/ ReadPassword(q, m) \/ CreateApiKey(q, m) \/ DeleteApiKey(q, m)
             \/ DeleteAccount(q, m) \/ AdminDeletes(q, m) \/ LogIn(q, m) \/ LogOut(q, m)
             \/ MagicLink(q, m) \/ \E c \in AuthReqs : VerifyMagicLink(q, m, c)
      PROVE  UNCHANGED teamVars
  BY <1>3 DEF Register, ReadPassword, CreateApiKey, DeleteApiKey, DeleteAccount, AdminDeletes, LogIn, LogOut, MagicLink,
              VerifyMagicLink
<1>4. ASSUME SessionNext PROVE UNCHANGED teamVars
  BY <1>1, <1>3, <1>4 DEF SessionNext, TokenExpires, MagicExpires, SetPassword, RotateRefreshToken
<1> QED BY <1>2, <1>4

LEMMA TeamFrame == TeamNext => UNCHANGED acctVars
BY DEF TeamNext, UserGoes, ReadTarget, WriteRole, AcceptInvite, CreateTeam, ReadInvite, Invite, ChangeRole,
       RemoveMember

\* A step of the API is one of the accounts, one of the team, or leaves both alone.
LEMMA AuthStep == [ApiNext]_ApiVars => [SessionNext \/ SmsNext]_acctVars /\ [TeamNext]_teamVars
<1> SUFFICES ASSUME [ApiNext]_ApiVars PROVE [SessionNext \/ SmsNext]_acctVars /\ [TeamNext]_teamVars
  OBVIOUS
<1>1. CASE UNCHANGED authVars
  BY <1>1 DEF authVars
<1>2. CASE AuthStepped
  BY <1>2, SessionFrame, TeamFrame DEF AuthStepped
<1>3. UNCHANGED ApiVars \/ UNCHANGED FirstHalf => UNCHANGED authVars
  BY DEF ApiVars, FirstHalf
<1>4. AppStepped \/ WorkloadStepped \/ ProjectStepped \/ DataStepped => UNCHANGED authVars
  BY DEF AppStepped, WorkloadStepped, ProjectStepped, DataStepped
<1> QED BY <1>1, <1>2, <1>3, <1>4 DEF ApiNext

\* Whatever refreshes, logouts, deletions and expiries race, a login has one heir
\* (routes/auth.ts: createRefreshToken, DELETE ... RETURNING of /auth/refresh).
THEOREM LoginsHaveOneHeir == ApiSpec => []OneHeirPerLogin
<1>1. ApiInit => AcctInv
  BY AcctStarts DEF ApiInit
<1>2. AcctInv /\ [ApiNext]_ApiVars => AcctInv'
  BY AcctKeeps, AuthStep
<1> QED BY <1>1, <1>2, OneHeir, PTL DEF ApiSpec

\* Whatever changes of role, removals, invitations and deletions race, a team
\* keeps its owner (routes/teams.ts).
THEOREM TeamsKeepTheirOwner == ApiSpec => []OwnerStays
<1>1. ApiInit => TeamInv
  BY TeamStarts DEF ApiInit
<1>2. TeamInv /\ [ApiNext]_ApiVars => TeamInv'
  BY TeamKeeps, AuthStep
<1>3. TeamInv => OwnerStays
  BY DEF TeamInv
<1> QED BY <1>1, <1>2, <1>3, PTL DEF ApiSpec

\* A login has one heir and a team one owner.
THEOREM RightsHold == ApiSpec => []RightsHaveOneHolder
<1>1. OneHeirPerLogin /\ OwnerStays => RightsHaveOneHolder
  BY DEF RightsHaveOneHolder
<1> QED BY <1>1, LoginsHaveOneHeir, TeamsKeepTheirOwner, PTL

(***************************************************************************)
(* Workloads                                                               *)
(***************************************************************************)
Statuses == {"none", "pending", "building", "running", "failed"}
WlRowType == [who : WlTenants \cup {"none"}, name : WlNames \cup {"none"}, status : Statuses,
              spec : SUBSET {"image", "env"}]
WlPcs == {"none", "done", "count", "insert", "apply", "status", "remove", "delrow", "patch", "restart"}
WlTaskType == [pc : WlPcs, op : {"none", "create", "delete", "put", "deploy"}, who : WlTenants \cup {"none"},
               name : WlNames \cup {"none"}, limit : PlanLimits \cup {0}, row : WlReqs \cup {0},
               spec : SUBSET {"image", "env"}, part : Nat, status : Statuses]

\* A request that has not inserted its row.
Early(q) == wlTask[q].pc \in {"none", "count", "insert"}

WlTypes ==
    /\ wlRow \in [WlReqs -> WlRowType]
    /\ wlObject \in [WlNames -> [1..Len(WlParts) -> WlTenants \cup {"none"}]]
    /\ wlTask \in [WlReqs -> WlTaskType]
    /\ wlPlan \in [WlTenants -> PlanLimits] /\ wlBest \in [WlTenants -> PlanLimits]
    /\ wlCache \in [WlTenants -> PlanLimits \cup {Unread}]
    /\ \A q \in WlReqs : Active(q) => wlTask[q].who \in WlTenants /\ wlTask[q].name \in WlNames
    /\ \A q \in WlReqs : Active(q) /\ ~Early(q) => wlTask[q].row \in WlReqs
    /\ \A r \in WlReqs : wlRow[r] # NoRow => wlRow[r].who \in WlTenants /\ wlRow[r].name \in WlNames

\* A row has the id of the request that inserted it, and whoever works on it
\* has its tenant and its name.
IdInv ==
    /\ \A q \in WlReqs : Early(q) => wlRow[q] = NoRow /\ \A r \in WlReqs : wlTask[r].row # q
    /\ \A q \in WlReqs : LET r == wlTask[q].row IN
         Active(q) /\ ~Early(q) /\ wlRow[r] # NoRow => wlRow[r].who = wlTask[q].who /\ wlRow[r].name = wlTask[q].name

\* A tenant has a row of a name; a step that changes neither that nor the ids.
Has(t, n) == \E r \in Rows(t) : wlRow[r].name = n
Stay == \A t \in WlTenants : Rows(t)' = Rows(t) /\ \A n \in WlNames : Has(t, n)' = Has(t, n)

\* No limit a tenant has, or had when it was read, is above the best one.
Covers(b, l) == Unlimited(b) \/ (~Unlimited(l) /\ l <= b)
LimitInv ==
    /\ \A t \in WlTenants : Covers(wlBest[t], wlPlan[t])
    /\ \A t \in WlTenants : wlCache[t] # Unread => Covers(wlBest[t], wlCache[t])
    /\ \A q \in WlReqs : WlAt(q, "count") => Covers(wlBest[wlTask[q].who], wlTask[q].limit)

\* The request of a tenant that is past the gate is alone there, and its row fits.
Inserts(q, t) == WlAt(q, "insert") /\ wlTask[q].who = t
RoomInv == \A t \in WlTenants : t \notin wlRaced =>
    /\ \A p, q \in WlReqs : Inserts(p, t) /\ Inserts(q, t) => p = q
    /\ ~Unlimited(wlBest[t]) =>
         /\ Cardinality(Rows(t)) <= wlBest[t]
         /\ \A q \in WlReqs : Inserts(q, t) => Cardinality(Rows(t)) + 1 <= wlBest[t]

FiniteInv == \A t \in WlTenants : IsFiniteSet(Rows(t))

LimitsInv == FiniteInv /\ LimitInv /\ RoomInv

-----------------------------------------------------------------------------
\* What the setting of one field does to the requests.
Keeps(f, g, q) ==
    /\ g \in [WlReqs -> WlTaskType]
    /\ \A r \in WlReqs \ {q} : g[r] = f[r]
    /\ g[q].who = f[q].who /\ g[q].name = f[q].name

LEMMA FieldsSet ==
    ASSUME NEW f \in [WlReqs -> WlTaskType], NEW q \in WlReqs
    PROVE  /\ \A pc \in WlPcs : LET g == [f EXCEPT ![q].pc = pc] IN
                Keeps(f, g, q) /\ g[q].pc = pc /\ g[q].part = f[q].part /\ g[q].row = f[q].row
           /\ \A st \in Statuses : LET g == [f EXCEPT ![q].status = st] IN
                Keeps(f, g, q) /\ g[q].pc = f[q].pc /\ g[q].part = f[q].part /\ g[q].row = f[q].row
           /\ \A part \in Nat : LET g == [f EXCEPT ![q].part = part] IN
                Keeps(f, g, q) /\ g[q].pc = f[q].pc /\ g[q].part = part /\ g[q].row = f[q].row
           /\ \A row \in WlReqs : LET g == [f EXCEPT ![q].row = row] IN
                Keeps(f, g, q) /\ g[q].pc = f[q].pc /\ g[q].part = f[q].part /\ g[q].row = row
<1>1. \A pc \in WlPcs : LET g == [f EXCEPT ![q].pc = pc] IN
                Keeps(f, g, q) /\ g[q].pc = pc /\ g[q].part = f[q].part /\ g[q].row = f[q].row
  BY DEF Keeps, WlTaskType
<1>2. \A st \in Statuses : LET g == [f EXCEPT ![q].status = st] IN
                Keeps(f, g, q) /\ g[q].pc = f[q].pc /\ g[q].part = f[q].part /\ g[q].row = f[q].row
  BY DEF Keeps, WlTaskType
<1>3. \A part \in Nat : LET g == [f EXCEPT ![q].part = part] IN
                Keeps(f, g, q) /\ g[q].pc = f[q].pc /\ g[q].part = part /\ g[q].row = f[q].row
  BY DEF Keeps, WlTaskType
<1>4. \A row \in WlReqs : LET g == [f EXCEPT ![q].row = row] IN
                Keeps(f, g, q) /\ g[q].pc = f[q].pc /\ g[q].part = f[q].part /\ g[q].row = row
  BY DEF Keeps, WlTaskType
<1> QED BY <1>1, <1>2, <1>3, <1>4

LEMMA KeepsOn ==
    ASSUME NEW f, NEW g, NEW h, NEW q, Keeps(f, g, q), Keeps(g, h, q)
    PROVE  Keeps(f, h, q)
BY DEF Keeps

\* What a step does to the requests.
WlMove(q, pcs) == Keeps(wlTask, wlTask', q) /\ wlTask'[q].pc \in pcs
WlStep(q, pcs) == WlMove(q, pcs) /\ wlTask'[q].row = wlTask[q].row

LEMMA WlGoes ==
    ASSUME WlTypes, NEW q \in WlReqs, NEW pc \in WlPcs, WlGo(q, pc)
    PROVE  WlStep(q, {pc})
<1>1. wlTask \in [WlReqs -> WlTaskType] /\ wlTask' = [wlTask EXCEPT ![q].pc = pc]
  BY DEF WlTypes, WlGo
<1>2. Keeps(wlTask, wlTask', q) /\ wlTask'[q].pc = pc /\ wlTask'[q].row = wlTask[q].row
  BY <1>1 DEF Keeps, WlTaskType
<1> QED BY <1>2 DEF WlStep, WlMove

LEMMA WlFails ==
    ASSUME WlTypes, NEW q \in WlReqs, NEW pc \in WlPcs, NEW st \in Statuses,
           wlTask' = [wlTask EXCEPT ![q].pc = pc, ![q].status = st]
    PROVE  WlStep(q, {pc})
<1> DEFINE f == [wlTask EXCEPT ![q].pc = pc]
           g == [f EXCEPT ![q].status = st]
<1>1. wlTask' = g
  OBVIOUS
<1>0. wlTask \in [WlReqs -> WlTaskType]
  BY DEF WlTypes
<1>2. Keeps(wlTask, f, q) /\ f[q].pc = pc /\ f[q].row = wlTask[q].row
  BY <1>0 DEF Keeps, WlTaskType
<1> HIDE DEF f
<1>3. Keeps(f, g, q) /\ g[q].pc = pc /\ g[q].row = f[q].row
  BY <1>2, FieldsSet DEF Keeps
<1> QED BY <1>1, <1>2, <1>3, KeepsOn DEF WlStep, WlMove

LEMMA WlRemoves ==
    ASSUME WlTypes, NEW q \in WlReqs, NEW pc \in WlPcs, NEW part \in Nat,
           wlTask' = [wlTask EXCEPT ![q].part = part, ![q].pc = pc]
    PROVE  WlStep(q, {pc}) /\ wlTask'[q].part = part
<1> DEFINE f == [wlTask EXCEPT ![q].part = part]
           g == [f EXCEPT ![q].pc = pc]
<1>1. wlTask' = g
  OBVIOUS
<1>0. wlTask \in [WlReqs -> WlTaskType]
  BY DEF WlTypes
<1>2. Keeps(wlTask, f, q) /\ f[q].part = part /\ f[q].row = wlTask[q].row
  BY <1>0 DEF Keeps, WlTaskType
<1> HIDE DEF f
<1>3. Keeps(f, g, q) /\ g[q].pc = pc /\ g[q].part = part /\ g[q].row = f[q].row
  BY <1>2, FieldsSet DEF Keeps
<1> QED BY <1>1, <1>2, <1>3, KeepsOn DEF WlStep, WlMove

LEMMA WlApplies ==
    ASSUME WlTypes, NEW q \in WlReqs, NEW pc \in WlPcs, NEW part \in Nat, NEW st \in Statuses,
           wlTask' = [wlTask EXCEPT ![q].part = part, ![q].status = st, ![q].pc = pc]
    PROVE  WlStep(q, {pc})
<1> DEFINE f == [wlTask EXCEPT ![q].part = part]
           g == [f EXCEPT ![q].status = st]
           h == [g EXCEPT ![q].pc = pc]
<1>1. wlTask' = h
  OBVIOUS
<1>0. wlTask \in [WlReqs -> WlTaskType]
  BY DEF WlTypes
<1>2. Keeps(wlTask, f, q) /\ f[q].row = wlTask[q].row
  BY <1>0 DEF Keeps, WlTaskType
<1> HIDE DEF f
<1>3. Keeps(f, g, q) /\ g[q].row = f[q].row
  BY <1>2, FieldsSet DEF Keeps
<1> HIDE DEF g
<1>4. Keeps(g, h, q) /\ h[q].pc = pc /\ h[q].row = g[q].row
  BY <1>3, FieldsSet DEF Keeps
<1> QED BY <1>1, <1>2, <1>3, <1>4, KeepsOn DEF WlStep, WlMove

LEMMA WlInserts ==
    ASSUME WlTypes, NEW q \in WlReqs, NEW pc \in WlPcs, NEW row \in WlReqs, NEW st \in Statuses,
           \/ wlTask' = [wlTask EXCEPT ![q].pc = pc, ![q].row = row]
           \/ wlTask' = [wlTask EXCEPT ![q].pc = pc, ![q].row = row, ![q].status = st]
    PROVE  WlMove(q, {pc}) /\ wlTask'[q].row = row
<1> DEFINE f == [wlTask EXCEPT ![q].pc = pc]
           g == [f EXCEPT ![q].row = row]
           h == [g EXCEPT ![q].status = st]
<1>1. wlTask' = g \/ wlTask' = h
  OBVIOUS
<1>0. wlTask \in [WlReqs -> WlTaskType]
  BY DEF WlTypes
<1>2. Keeps(wlTask, f, q) /\ f[q].pc = pc
  BY <1>0 DEF Keeps, WlTaskType
<1> HIDE DEF f
<1>3. Keeps(f, g, q) /\ g[q].pc = pc /\ g[q].row = row
  BY <1>2, FieldsSet DEF Keeps
<1> HIDE DEF g
<1>4. Keeps(g, h, q) /\ h[q].pc = pc /\ h[q].row = row
  BY <1>3, FieldsSet DEF Keeps
<1>5. Keeps(wlTask, g, q) /\ Keeps(wlTask, h, q)
  BY <1>2, <1>3, <1>4, KeepsOn
<1> QED BY <1>1, <1>3, <1>4, <1>5 DEF WlMove

\* A request that comes.
Arrives(q, pc, t, n, row) ==
    /\ wlTask' \in [WlReqs -> WlTaskType]
    /\ \A r \in WlReqs \ {q} : wlTask'[r] = wlTask[r]
    /\ WlAt(q, "none") /\ wlTask'[q].pc = pc
    /\ wlTask'[q].who = t /\ wlTask'[q].name = n /\ wlTask'[q].part = 1
    /\ wlTask'[q].row = row

LEMMA FieldSet ==
    ASSUME NEW x \in WlTaskType
    PROVE  /\ \A v \in WlPcs : LET y == [x EXCEPT !.pc = v] IN
                y \in WlTaskType /\ y.pc = v /\ y.part = x.part /\ y.who = x.who /\ y.name = x.name /\ y.row = x.row
           /\ \A v \in {"create", "delete", "put", "deploy"} : LET y == [x EXCEPT !.op = v] IN
                y \in WlTaskType /\ y.pc = x.pc /\ y.part = x.part /\ y.row = x.row
           /\ \A v \in WlTenants : LET y == [x EXCEPT !.who = v] IN
                y \in WlTaskType /\ y.pc = x.pc /\ y.part = x.part /\ y.who = v /\ y.row = x.row
           /\ \A v \in WlNames : LET y == [x EXCEPT !.name = v] IN
                y \in WlTaskType /\ y.pc = x.pc /\ y.part = x.part /\ y.who = x.who /\ y.name = v /\ y.row = x.row
           /\ \A v \in PlanLimits : LET y == [x EXCEPT !.limit = v] IN
                /\ y \in WlTaskType /\ y.pc = x.pc /\ y.part = x.part /\ y.who = x.who /\ y.name = x.name
                /\ y.limit = v /\ y.row = x.row
           /\ \A v \in WlReqs : LET y == [x EXCEPT !.row = v] IN
                y \in WlTaskType /\ y.pc = x.pc /\ y.part = x.part /\ y.who = x.who /\ y.name = x.name /\ y.row = v
           /\ \A v \in SUBSET {"image", "env"} : LET y == [x EXCEPT !.spec = v] IN
                y \in WlTaskType /\ y.pc = x.pc /\ y.part = x.part /\ y.who = x.who /\ y.name = x.name /\ y.row = x.row
<1>1. \A v \in WlPcs : LET y == [x EXCEPT !.pc = v] IN
                y \in WlTaskType /\ y.pc = v /\ y.part = x.part /\ y.who = x.who /\ y.name = x.name /\ y.row = x.row
  BY DEF WlTaskType
<1>2. \A v \in {"create", "delete", "put", "deploy"} : LET y == [x EXCEPT !.op = v] IN
                y \in WlTaskType /\ y.pc = x.pc /\ y.part = x.part /\ y.row = x.row
  BY DEF WlTaskType
<1>3. \A v \in WlTenants : LET y == [x EXCEPT !.who = v] IN
                y \in WlTaskType /\ y.pc = x.pc /\ y.part = x.part /\ y.who = v /\ y.row = x.row
  BY DEF WlTaskType
<1>4. \A v \in WlNames : LET y == [x EXCEPT !.name = v] IN
                y \in WlTaskType /\ y.pc = x.pc /\ y.part = x.part /\ y.who = x.who /\ y.name = v /\ y.row = x.row
  BY DEF WlTaskType
<1>5. \A v \in PlanLimits : LET y == [x EXCEPT !.limit = v] IN
                /\ y \in WlTaskType /\ y.pc = x.pc /\ y.part = x.part /\ y.who = x.who /\ y.name = x.name
                /\ y.limit = v /\ y.row = x.row
  BY DEF WlTaskType
<1>6. \A v \in WlReqs : LET y == [x EXCEPT !.row = v] IN
                y \in WlTaskType /\ y.pc = x.pc /\ y.part = x.part /\ y.who = x.who /\ y.name = x.name /\ y.row = v
  BY DEF WlTaskType
<1>7. \A v \in SUBSET {"image", "env"} : LET y == [x EXCEPT !.spec = v] IN
                y \in WlTaskType /\ y.pc = x.pc /\ y.part = x.part /\ y.who = x.who /\ y.name = x.name /\ y.row = x.row
  BY DEF WlTaskType
<1> QED BY <1>1, <1>2, <1>3, <1>4, <1>5, <1>6, <1>7

LEMMA IdleTyped == WlIdle \in WlTaskType /\ WlIdle.part = 1 /\ WlIdle.row = 0
BY DEF WlIdle, WlTaskType, WlPcs, NoRow, WlRowType, Statuses

LEMMA GateArrives ==
    ASSUME WlTypes, NEW q \in WlReqs, NEW t \in WlTenants, NEW n \in WlNames, GateLimit(q, t, n)
    PROVE  \E limit \in PlanLimits :
             /\ limit = IF wlCache[t] = Unread THEN wlPlan[t] ELSE wlCache[t]
             /\ Arrives(q, "count", t, n, 0) /\ wlTask'[q].limit = limit
             /\ wlCache' = [wlCache EXCEPT ![t] = limit]
<1> DEFINE limit == IF wlCache[t] = Unread THEN wlPlan[t] ELSE wlCache[t]
           a == [WlIdle EXCEPT !.pc = "count"]
           b == [a EXCEPT !.op = "create"]
           c == [b EXCEPT !.who = t]
           d == [c EXCEPT !.name = n]
           e == [d EXCEPT !.limit = limit]
<1>1. wlTask' = [wlTask EXCEPT ![q] = e] /\ WlAt(q, "none") /\ wlCache' = [wlCache EXCEPT ![t] = limit]
  BY DEF GateLimit
<1>2. limit \in PlanLimits
  BY DEF WlTypes
<1> HIDE DEF limit
<1>3. a \in WlTaskType /\ a.pc = "count" /\ a.part = 1 /\ a.row = 0
  BY IdleTyped, FieldSet DEF WlPcs
<1> HIDE DEF a
<1>4. b \in WlTaskType /\ b.pc = "count" /\ b.part = 1 /\ b.row = 0
  BY <1>3, FieldSet
<1> HIDE DEF b
<1>5. c \in WlTaskType /\ c.pc = "count" /\ c.part = 1 /\ c.who = t /\ c.row = 0
  BY <1>4, FieldSet
<1> HIDE DEF c
<1>6. d \in WlTaskType /\ d.pc = "count" /\ d.part = 1 /\ d.who = t /\ d.name = n /\ d.row = 0
  BY <1>5, FieldSet
<1> HIDE DEF d
<1>7. e \in WlTaskType /\ e.pc = "count" /\ e.part = 1 /\ e.who = t /\ e.name = n /\ e.limit = limit /\ e.row = 0
  BY <1>2, <1>6, FieldSet
<1> HIDE DEF e
<1>8. Arrives(q, "count", t, n, 0) /\ wlTask'[q].limit = limit
  BY <1>1, <1>7 DEF Arrives, WlTypes
<1> QED BY <1>1, <1>2, <1>8 DEF limit

LEMMA ReadArrives ==
    ASSUME WlTypes, NEW q \in WlReqs, NEW op \in {"delete", "put", "deploy"},
           NEW r \in WlReqs, ReadWorkload(q, op, r)
    PROVE  \E pc \in {"remove", "patch", "restart"}, t \in WlTenants, n \in WlNames :
             /\ Arrives(q, pc, t, n, r) /\ Mark(q, n)
             /\ wlRow[r] # NoRow /\ wlRow[r].who = t /\ wlRow[r].name = n
<1> DEFINE pc == CASE op = "delete" -> "remove" [] op = "put" -> "patch" [] OTHER -> "restart"
           t == wlRow[r].who
           n == wlRow[r].name
           a == [WlIdle EXCEPT !.op = op]
           b == [a EXCEPT !.who = t]
           c == [b EXCEPT !.name = n]
           d == [c EXCEPT !.row = r]
           s == [d EXCEPT !.spec = wlRow[r].spec]
           e == [s EXCEPT !.pc = pc]
<1>1. wlTask' = [wlTask EXCEPT ![q] = e] /\ WlAt(q, "none") /\ wlRow[r] # NoRow /\ Mark(q, n)
  BY DEF ReadWorkload
<1>2. pc \in {"remove", "patch", "restart"} /\ wlRow[r].spec \in SUBSET {"image", "env"}
      /\ t \in WlTenants /\ n \in WlNames
  BY <1>1 DEF WlTypes, WlRowType
<1> HIDE DEF pc, t, n
<1>3. a \in WlTaskType /\ a.part = 1
  <2>1. a \in WlTaskType /\ a.part = WlIdle.part
    BY IdleTyped DEF WlTaskType
  <2> QED BY <2>1, IdleTyped
<1> HIDE DEF a
<1>4. b \in WlTaskType /\ b.part = 1 /\ b.who = t
  BY <1>2, <1>3, FieldSet
<1> HIDE DEF b
<1>5. c \in WlTaskType /\ c.part = 1 /\ c.who = t /\ c.name = n
  BY <1>2, <1>4, FieldSet
<1> HIDE DEF c
<1>6. d \in WlTaskType /\ d.part = 1 /\ d.who = t /\ d.name = n /\ d.row = r
  BY <1>5, FieldSet
<1> HIDE DEF d
<1>7. s \in WlTaskType /\ s.part = 1 /\ s.who = t /\ s.name = n /\ s.row = r
  BY <1>2, <1>6, FieldSet
<1> HIDE DEF s
<1>8. e \in WlTaskType /\ e.part = 1 /\ e.who = t /\ e.name = n /\ e.row = r /\ e.pc = pc
  <2>1. pc \in WlPcs
    BY <1>2 DEF WlPcs
  <2> QED BY <1>7, <2>1, FieldSet
<1> HIDE DEF e
<1>9. Arrives(q, pc, t, n, r)
  BY <1>1, <1>8 DEF Arrives, WlTypes
<1> QED BY <1>1, <1>2, <1>9 DEF t, n

\* The objects of a name that was used by one request at a time.
On(q, n) == Active(q) /\ wlTask[q].name = n
Kept == {p \in 1..Len(WlParts) : ~BestEffort(p)}
OwnsRows(n) ==
    /\ \A p \in Kept : wlObject[n][p] # "none" => Has(wlObject[n][p], n)
    /\ \A q, r \in WlReqs : On(q, n) /\ On(r, n) => q = r
    /\ \A q \in WlReqs : On(q, n) =>
         /\ WlAt(q, "apply") => Has(wlTask[q].who, n)
         /\ WlAt(q, "remove") => \A p \in Kept : p < wlTask[q].part => wlObject[n][p] = "none"
         /\ WlAt(q, "delrow") => \A p \in Kept : wlObject[n][p] = "none"
ObjInv == \A n \in WlNames \ wlOverlap : OwnsRows(n)

WlInv == WlTypes /\ IdInv /\ LimitsInv /\ ObjInv

-----------------------------------------------------------------------------
LEMMA WlStarts == WorkloadsInit => WlInv
<1> SUFFICES ASSUME WorkloadsInit PROVE WlInv
  OBVIOUS
<1>1. WlTypes
  <2>1. /\ wlTask \in [WlReqs -> WlTaskType] /\ \A q \in WlReqs : ~Active(q)
    BY IdleTyped DEF WorkloadsInit, Active, WlIdle
  <2>2. NoRow \in WlRowType
    BY DEF NoRow, WlRowType, Statuses
  <2>3. wlRow \in [WlReqs -> WlRowType] /\ \A r \in WlReqs : wlRow[r] = NoRow
    BY <2>2 DEF WorkloadsInit
  <2>4. wlObject \in [WlNames -> [1..Len(WlParts) -> WlTenants \cup {"none"}]]
    BY DEF WorkloadsInit
  <2>5. /\ wlPlan \in [WlTenants -> PlanLimits] /\ wlBest \in [WlTenants -> PlanLimits]
        /\ wlCache \in [WlTenants -> PlanLimits \cup {Unread}]
    BY DEF WorkloadsInit
  <2>6. /\ \A q \in WlReqs : Active(q) => wlTask[q].who \in WlTenants /\ wlTask[q].name \in WlNames
        /\ \A q \in WlReqs : Active(q) /\ ~Early(q) => wlTask[q].row \in WlReqs
        /\ \A r \in WlReqs : wlRow[r] # NoRow => wlRow[r].who \in WlTenants /\ wlRow[r].name \in WlNames
    BY <2>1, <2>3
  <2> QED BY <2>1, <2>3, <2>4, <2>5, <2>6 DEF WlTypes
<1>2. \A t \in WlTenants : Rows(t) = {}
  <2>1. NoRow.who \notin WlTenants
    BY ApiWorkloadsAssumption DEF NoRow
  <2> QED BY <2>1 DEF WorkloadsInit, Rows
<1>3. \A q \in WlReqs : wlTask[q].pc = "none"
  BY DEF WorkloadsInit, WlIdle
<1>4. LimitsInv
  <2>1. FiniteInv
    BY <1>2, FS_EmptySet DEF FiniteInv
  <2>2. \A t \in WlTenants : wlBest[t] \in Nat \cup {-1} /\ wlPlan[t] = wlBest[t] /\ wlCache[t] = Unread
    BY <1>1, ApiWorkloadsAssumption DEF WlTypes, WorkloadsInit
  <2>3. LimitInv
    <3>1. \A t \in WlTenants : Covers(wlBest[t], wlPlan[t])
      BY <2>2 DEF Covers, Unlimited
    <3> QED BY <1>3, <2>2, <3>1 DEF LimitInv, WlAt
  <2>4. RoomInv
    <3>1. \A t \in WlTenants : Cardinality(Rows(t)) = 0
      BY <1>2, FS_EmptySet
    <3>2. \A t \in WlTenants : ~Unlimited(wlBest[t]) => Cardinality(Rows(t)) <= wlBest[t]
      BY <2>2, <3>1 DEF Unlimited
    <3> QED BY <1>3, <3>2 DEF RoomInv, Inserts, WlAt
  <2> QED BY <2>1, <2>3, <2>4 DEF LimitsInv
<1>5. ObjInv
  BY <1>3 DEF WorkloadsInit, ObjInv, OwnsRows, On, Active, Kept
<1>6. IdInv
  BY <1>3, ApiWorkloadsAssumption DEF WorkloadsInit, IdInv, Active, WlIdle
<1> QED BY <1>1, <1>4, <1>5, <1>6 DEF WlInv

\* Rows that keep their tenant and their name, and rows some of which go.
SameRows ==
    /\ wlRow' \in [WlReqs -> WlRowType]
    /\ \A r \in WlReqs : /\ wlRow'[r] = NoRow <=> wlRow[r] = NoRow
                         /\ wlRow'[r].who = wlRow[r].who /\ wlRow'[r].name = wlRow[r].name
LessRows ==
    /\ wlRow' \in [WlReqs -> WlRowType]
    /\ \A r \in WlReqs : wlRow'[r] # NoRow =>
         wlRow[r] # NoRow /\ wlRow'[r].who = wlRow[r].who /\ wlRow'[r].name = wlRow[r].name

LEMMA RowsKept == WlTypes /\ UNCHANGED wlRow => SameRows
BY DEF WlTypes, SameRows

LEMMA SameStay == SameRows => Stay /\ LessRows
<1> SUFFICES ASSUME SameRows PROVE Stay /\ LessRows
  OBVIOUS
<1>1. LessRows
  BY DEF SameRows, LessRows
<1>2. \A t \in WlTenants : Rows(t)' = Rows(t)
  BY DEF SameRows, Rows
<1>3. \A t \in WlTenants, n \in WlNames : Has(t, n)' = Has(t, n)
  BY <1>2 DEF SameRows, Has, Rows
<1> QED BY <1>1, <1>2, <1>3 DEF Stay

\* A step of a request that inserts no row.
Goes(q, pc) ==
    /\ Active(q) /\ WlStep(q, {pc}) /\ pc \notin {"none", "count"}
    /\ Early(q) => pc \in {"insert", "done"}
    /\ pc = "insert" => Early(q)

LEMMA StepTyped ==
    ASSUME WlTypes, IdInv, NEW q \in WlReqs, NEW pc, Goes(q, pc), LessRows,
           wlObject' \in [WlNames -> [1..Len(WlParts) -> WlTenants \cup {"none"}]],
           UNCHANGED <<wlPlan, wlBest, wlCache>>
    PROVE  WlTypes' /\ IdInv'
<1>1. /\ wlTask' \in [WlReqs -> WlTaskType] /\ \A r \in WlReqs \ {q} : wlTask'[r] = wlTask[r]
      /\ wlTask'[q].who = wlTask[q].who /\ wlTask'[q].name = wlTask[q].name /\ wlTask'[q].pc = pc
      /\ wlTask'[q].row = wlTask[q].row
  BY DEF Goes, WlStep, WlMove, Keeps
<1>2. \A r \in WlReqs : /\ Active(r)' => Active(r)
                        /\ Early(r)' => Early(r)
                        /\ Active(r)' /\ ~Early(r)' => ~Early(r)
                        /\ wlTask'[r].row = wlTask[r].row
                        /\ wlTask'[r].who = wlTask[r].who /\ wlTask'[r].name = wlTask[r].name
  <2> SUFFICES ASSUME NEW r \in WlReqs
               PROVE  /\ Active(r)' => Active(r)
                      /\ Early(r)' => Early(r)
                      /\ Active(r)' /\ ~Early(r)' => ~Early(r)
                      /\ wlTask'[r].row = wlTask[r].row
                      /\ wlTask'[r].who = wlTask[r].who /\ wlTask'[r].name = wlTask[r].name
    OBVIOUS
  <2>1. CASE r = q
    BY <1>1, <2>1 DEF Goes, Active, Early
  <2>2. CASE r # q
    BY <1>1, <2>2 DEF Active, Early
  <2> QED BY <2>1, <2>2
<1>3. WlTypes'
  BY <1>1, <1>2 DEF WlTypes, LessRows
<1>4. ASSUME NEW r \in WlReqs, Early(r)'
      PROVE  wlRow'[r] = NoRow /\ \A x \in WlReqs : wlTask'[x].row # r
  BY <1>2, <1>4 DEF IdInv, LessRows
<1>5. ASSUME NEW r \in WlReqs, Active(r)', ~Early(r)', wlRow'[wlTask'[r].row] # NoRow
      PROVE  wlRow'[wlTask'[r].row].who = wlTask'[r].who /\ wlRow'[wlTask'[r].row].name = wlTask'[r].name
  <2>1. Active(r) /\ ~Early(r) /\ wlTask'[r].row = wlTask[r].row /\ wlTask[r].row \in WlReqs
    BY <1>2, <1>5 DEF WlTypes
  <2>2. wlRow[wlTask[r].row] # NoRow /\ wlRow'[wlTask[r].row].who = wlRow[wlTask[r].row].who
        /\ wlRow'[wlTask[r].row].name = wlRow[wlTask[r].row].name
    BY <1>5, <2>1 DEF LessRows
  <2> QED BY <1>2, <2>1, <2>2 DEF IdInv
<1>6. IdInv'
  BY <1>4, <1>5 DEF IdInv
<1> QED BY <1>3, <1>6

\* Steps of a request after its insert keep every limit.
LEMMA StepLimits ==
    ASSUME WlTypes, LimitsInv, NEW q \in WlReqs, NEW pc, WlStep(q, {pc}), pc \notin {"count", "insert"},
           Stay,
           UNCHANGED <<wlPlan, wlBest, wlCache, wlRaced>>
    PROVE  LimitsInv'
<1>1. \A r \in WlReqs : WlAt(r, "count")' => WlAt(r, "count") /\ wlTask'[r] = wlTask[r]
  BY DEF WlStep, WlMove, Keeps, WlAt
<1>2. \A r \in WlReqs, t \in WlTenants : Inserts(r, t)' => Inserts(r, t)
  BY DEF WlStep, WlMove, Keeps, WlAt, Inserts
<1>3. FiniteInv'
  BY DEF LimitsInv, FiniteInv, Stay
<1>4. LimitInv'
  BY <1>1 DEF LimitsInv, LimitInv
<1>5. RoomInv'
  BY <1>2 DEF LimitsInv, RoomInv, Stay
<1> QED BY <1>3, <1>4, <1>5 DEF LimitsInv

\* A name whose objects and rows stay, and on which only requests go on that
\* apply, remove or delete nothing.
LEMMA NameStays ==
    ASSUME WlTypes, NEW n \in WlNames, OwnsRows(n), UNCHANGED wlObject,
           Stay,
           \A r, s \in WlReqs : On(r, n)' /\ On(s, n)' => r = s,
           \A r \in WlReqs : On(r, n)' /\ wlTask'[r].pc \in {"apply", "remove", "delrow"} =>
               On(r, n) /\ wlTask'[r] = wlTask[r]
    PROVE  OwnsRows(n)'
<1>1. \A p \in Kept : wlObject[n][p] # "none" => Has(wlObject[n][p], n)'
  BY DEF OwnsRows, WlTypes, Stay, Kept
<1>2. ASSUME NEW r \in WlReqs, On(r, n)', wlTask'[r].pc \in {"apply", "remove", "delrow"}
      PROVE  /\ WlAt(r, "apply")' => Has(wlTask[r].who, n)'
             /\ WlAt(r, "remove")' => \A p \in Kept : p < wlTask'[r].part => wlObject[n][p] = "none"
             /\ WlAt(r, "delrow")' => \A p \in Kept : wlObject[n][p] = "none"
  <2>1. wlTask'[r] = wlTask[r] /\ On(r, n)
    BY <1>2
  <2>2. wlTask[r].who \in WlTenants
    BY <2>1 DEF On, WlTypes
  <2> QED BY <2>1, <2>2 DEF OwnsRows, WlAt, Stay
<1> QED BY <1>1, <1>2 DEF OwnsRows, WlAt

\* So do steps that leave the objects and the rows that are there.
LEMMA StepObjects ==
    ASSUME WlTypes, ObjInv, NEW q \in WlReqs, NEW pc, Active(q), WlStep(q, {pc}),
           pc \notin {"apply", "remove", "delrow"},
           Stay,
           UNCHANGED <<wlObject, wlOverlap>>
    PROVE  ObjInv'
<1> SUFFICES ASSUME NEW n \in WlNames \ wlOverlap
             PROVE  OwnsRows(n)'
  BY DEF ObjInv
<1>1. \A r \in WlReqs : On(r, n)' => On(r, n)
  BY DEF On, WlStep, WlMove, Keeps, Active
<1>2. \A r \in WlReqs : wlTask'[r].pc \in {"apply", "remove", "delrow"} => wlTask'[r] = wlTask[r]
  BY DEF WlStep, WlMove, Keeps
<1>3. OwnsRows(n)
  BY DEF ObjInv
<1>4. \A r, s \in WlReqs : On(r, n)' /\ On(s, n)' => r = s
  BY <1>1, <1>3 DEF OwnsRows
<1> QED BY <1>1, <1>2, <1>3, <1>4, NameStays

LEMMA LimitValues == \A l \in PlanLimits \cup {0} : l \in Nat \cup {-1}
<1>1. PlanLimits \subseteq Nat \cup {-1}
  BY ApiWorkloadsAssumption
<1> QED BY <1>1

LEMMA CoversOn ==
    ASSUME NEW a \in PlanLimits, NEW b \in PlanLimits, NEW c \in PlanLimits, Covers(a, b), Covers(b, c)
    PROVE  Covers(a, c)
BY ApiWorkloadsAssumption DEF Covers, Unlimited

LEMMA ArrivesTyped ==
    ASSUME WlTypes, IdInv, NEW q \in WlReqs, NEW pc, NEW t \in WlTenants, NEW n \in WlNames, NEW row,
           Arrives(q, pc, t, n, row),
           \/ pc = "count" /\ row = 0
           \/ /\ pc \in {"remove", "patch", "restart"} /\ row \in WlReqs
              /\ wlRow[row] # NoRow /\ wlRow[row].who = t /\ wlRow[row].name = n,
           wlCache' \in [WlTenants -> PlanLimits \cup {Unread}],
           UNCHANGED <<wlRow, wlObject, wlPlan, wlBest>>
    PROVE  WlTypes' /\ IdInv'
<1>1. WlTypes'
  BY DEF WlTypes, Arrives, Active, Early
<1>2. ASSUME NEW r \in WlReqs, Early(r)'
      PROVE  wlRow'[r] = NoRow /\ \A x \in WlReqs : wlTask'[x].row # r
  <2>1. Early(r)
    BY <1>2 DEF Arrives, Early, WlAt
  <2>2. wlRow[r] = NoRow /\ \A x \in WlReqs : wlTask[x].row # r
    BY <2>1 DEF IdInv
  <2>3. row # r
    BY <2>2, ApiWorkloadsAssumption
  <2> QED BY <2>2, <2>3 DEF Arrives
<1>3. ASSUME NEW r \in WlReqs, Active(r)', ~Early(r)', wlRow'[wlTask'[r].row] # NoRow
      PROVE  wlRow'[wlTask'[r].row].who = wlTask'[r].who /\ wlRow'[wlTask'[r].row].name = wlTask'[r].name
  <2>1. CASE r = q
    BY <1>3, <2>1 DEF Arrives, Early
  <2>2. CASE r # q
    BY <1>3, <2>2 DEF Arrives, Early, Active, IdInv
  <2> QED BY <2>1, <2>2
<1>4. IdInv'
  BY <1>2, <1>3 DEF IdInv
<1> QED BY <1>1, <1>4

LEMMA GateLimitKeeps ==
    ASSUME WlInv, NEW q \in WlReqs, NEW t \in WlTenants, NEW n \in WlNames, GateLimit(q, t, n)
    PROVE  WlInv'
<1>1. WlTypes /\ IdInv /\ LimitsInv /\ ObjInv
  BY DEF WlInv
<1>2. PICK limit \in PlanLimits :
        /\ limit = IF wlCache[t] = Unread THEN wlPlan[t] ELSE wlCache[t]
        /\ Arrives(q, "count", t, n, 0) /\ wlTask'[q].limit = limit
        /\ wlCache' = [wlCache EXCEPT ![t] = limit]
  BY <1>1, GateArrives
<1>3. UNCHANGED <<wlRow, wlObject, wlPlan, wlBest, wlRaced>> /\ Mark(q, n)
  BY DEF GateLimit
<1>4. WlTypes' /\ IdInv'
  <2>1. wlCache' \in [WlTenants -> PlanLimits \cup {Unread}]
    BY <1>1, <1>2 DEF WlTypes
  <2> QED BY <1>1, <1>2, <1>3, <2>1, ArrivesTyped
<1>5. Stay
  BY <1>1, <1>3, RowsKept, SameStay
<1>6. LimitsInv'
  <2>1. Covers(wlBest[t], limit)
    BY <1>1, <1>2 DEF LimitsInv, LimitInv
  <2>2. FiniteInv'
    BY <1>1, <1>5 DEF LimitsInv, FiniteInv, Stay
  <2>3. LimitInv'
    BY <1>1, <1>2, <1>3, <2>1 DEF LimitsInv, LimitInv, Arrives, WlAt, WlTypes
  <2>4. \A r \in WlReqs, u \in WlTenants : Inserts(r, u)' => Inserts(r, u)
    BY <1>2 DEF Inserts, Arrives, WlAt
  <2>5. RoomInv'
    BY <1>1, <1>3, <1>5, <2>4 DEF LimitsInv, RoomInv, Stay
  <2> QED BY <2>2, <2>3, <2>5 DEF LimitsInv
<1>7. ObjInv'
  <2> SUFFICES ASSUME NEW m \in WlNames \ wlOverlap'
               PROVE  OwnsRows(m)'
    BY DEF ObjInv
  <2>1. m \notin wlOverlap /\ (m = n => ~Overlap(q, n))
    BY <1>3 DEF Mark
  <2>2. \A r \in WlReqs : On(r, m)' => (r = q /\ m = n) \/ (r # q /\ On(r, m) /\ wlTask'[r] = wlTask[r])
    BY <1>2 DEF On, Arrives, Active
  <2>3. \A r \in WlReqs \ {q} : m = n => ~On(r, n)
    BY <2>1 DEF Overlap, On
  <2>4. \A r, s \in WlReqs : On(r, m)' /\ On(s, m)' => r = s
    BY <1>1, <2>1, <2>2, <2>3 DEF ObjInv, OwnsRows
  <2>5. \A r \in WlReqs : On(r, m)' /\ wlTask'[r].pc \in {"apply", "remove", "delrow"} =>
                           On(r, m) /\ wlTask'[r] = wlTask[r]
    BY <1>2, <2>2 DEF Arrives
  <2>6. OwnsRows(m)
    BY <1>1, <2>1 DEF ObjInv
  <2> QED BY <1>1, <1>3, <1>5, <2>4, <2>5, <2>6, NameStays
<1> QED BY <1>4, <1>6, <1>7 DEF WlInv

LEMMA ReadKeepsWl ==
    ASSUME WlInv, NEW q \in WlReqs, NEW op \in {"delete", "put", "deploy"},
           NEW row \in WlReqs, ReadWorkload(q, op, row)
    PROVE  WlInv'
<1>1. WlTypes /\ IdInv /\ LimitsInv /\ ObjInv
  BY DEF WlInv
<1>2. PICK pc \in {"remove", "patch", "restart"}, t \in WlTenants, n \in WlNames :
        /\ Arrives(q, pc, t, n, row) /\ Mark(q, n)
        /\ wlRow[row] # NoRow /\ wlRow[row].who = t /\ wlRow[row].name = n
  BY <1>1, ReadArrives
<1>3. UNCHANGED <<wlRow, wlObject, wlPlan, wlCache, wlBest, wlRaced>> /\ Mark(q, n)
  BY <1>2 DEF ReadWorkload
<1>4. WlTypes' /\ IdInv'
  <2>1. wlCache' \in [WlTenants -> PlanLimits \cup {Unread}]
    BY <1>1, <1>3 DEF WlTypes
  <2> QED BY <1>1, <1>2, <1>3, <2>1, ArrivesTyped
<1>5. Stay
  BY <1>1, <1>3, RowsKept, SameStay
<1>6. LimitsInv'
  <2>1. \A r \in WlReqs : WlAt(r, "count")' => WlAt(r, "count") /\ wlTask'[r] = wlTask[r]
    BY <1>2 DEF Arrives, WlAt
  <2>2. \A r \in WlReqs, u \in WlTenants : Inserts(r, u)' => Inserts(r, u)
    BY <1>2 DEF Inserts, Arrives, WlAt
  <2>3. FiniteInv'
    BY <1>1, <1>5 DEF LimitsInv, FiniteInv, Stay
  <2>4. LimitInv'
    BY <1>1, <1>3, <2>1 DEF LimitsInv, LimitInv
  <2>5. RoomInv'
    BY <1>1, <1>3, <1>5, <2>2 DEF LimitsInv, RoomInv, Stay
  <2> QED BY <2>3, <2>4, <2>5 DEF LimitsInv
<1>7. ObjInv'
  <2> SUFFICES ASSUME NEW m \in WlNames \ wlOverlap'
               PROVE  OwnsRows(m)'
    BY DEF ObjInv
  <2>1. m \notin wlOverlap /\ (m = n => ~Overlap(q, n))
    BY <1>3 DEF Mark
  <2>2. \A r \in WlReqs : On(r, m)' => (r = q /\ m = n) \/ (r # q /\ On(r, m) /\ wlTask'[r] = wlTask[r])
    BY <1>2 DEF On, Arrives, Active
  <2>3. \A r \in WlReqs \ {q} : m = n => ~On(r, n)
    BY <2>1 DEF Overlap, On
  <2>4. OwnsRows(m)
    BY <1>1, <2>1 DEF ObjInv
  <2>5. \A r, s \in WlReqs : On(r, m)' /\ On(s, m)' => r = s
    BY <2>2, <2>3, <2>4 DEF OwnsRows
  <2>6. \A p \in Kept : wlObject[m][p] # "none" => Has(wlObject[m][p], m)'
    BY <1>1, <1>3, <1>5, <2>4 DEF OwnsRows, WlTypes, Stay, Kept
  <2>7. ASSUME NEW r \in WlReqs, On(r, m)'
        PROVE  /\ WlAt(r, "apply")' => Has(wlTask[r].who, m)'
               /\ WlAt(r, "remove")' => \A p \in Kept : p < wlTask'[r].part => wlObject[m][p] = "none"
               /\ WlAt(r, "delrow")' => \A p \in Kept : wlObject[m][p] = "none"
    <3>1. CASE r = q
      <4>1. wlTask'[q].part = 1 /\ wlTask'[q].pc \in {"remove", "patch", "restart"}
        BY <1>2 DEF Arrives
      <4>2. \A p \in Kept : ~(p < 1)
        BY ApiWorkloadsAssumption DEF Kept
      <4> QED BY <3>1, <4>1, <4>2 DEF WlAt
    <3>2. CASE r # q
      <4>1. On(r, m) /\ wlTask'[r] = wlTask[r]
        BY <2>2, <2>7, <3>2
      <4>2. wlTask[r].who \in WlTenants
        BY <1>1, <4>1 DEF On, WlTypes
      <4> QED BY <1>5, <2>4, <4>1, <4>2 DEF OwnsRows, WlAt, Stay
    <3> QED BY <3>1, <3>2
  <2> QED BY <1>3, <2>5, <2>6, <2>7 DEF OwnsRows
<1> QED BY <1>4, <1>6, <1>7 DEF WlInv

LEMMA GateCountKeeps ==
    ASSUME WlInv, NEW q \in WlReqs, GateCount(q)
    PROVE  WlInv'
<1> DEFINE t == wlTask[q].who
           passes == Unlimited(wlTask[q].limit) \/ Cardinality(Rows(t)) < wlTask[q].limit
<1>1. WlTypes /\ IdInv /\ LimitsInv /\ ObjInv /\ WlAt(q, "count") /\ Active(q) /\ t \in WlTenants
  BY DEF WlInv, GateCount, Active, WlAt, WlTypes
<1>2. UNCHANGED <<wlRow, wlObject, wlPlan, wlCache, wlBest, wlOverlap>>
  BY DEF GateCount
<1>3. Stay /\ LessRows
  BY <1>1, <1>2, RowsKept, SameStay
<1>6. Early(q)
  BY <1>1 DEF Early, WlAt
<1>4. CASE ~passes
  <2>1. WlStep(q, {"done"}) /\ UNCHANGED wlRaced
    BY <1>1, <1>4, WlGoes DEF GateCount, WlPcs
  <2>2. WlTypes' /\ IdInv'
    <3>1. Goes(q, "done")
      BY <1>1, <2>1 DEF Goes
    <3> QED BY <1>1, <1>2, <1>3, <3>1, StepTyped DEF WlTypes
  <2> QED BY <1>1, <1>2, <1>3, <2>1, <2>2, StepLimits, StepObjects DEF WlInv
<1>5. CASE passes
  <2>1. WlStep(q, {"insert"})
    BY <1>1, <1>5, WlGoes DEF GateCount, WlPcs
  <2>2. WlTypes' /\ IdInv' /\ ObjInv'
    <3>1. Goes(q, "insert")
      BY <1>1, <1>6, <2>1 DEF Goes
    <3>2. WlTypes' /\ IdInv'
      BY <1>1, <1>2, <1>3, <3>1, StepTyped DEF WlTypes
    <3> QED BY <1>1, <1>2, <1>3, <2>1, <3>2, StepObjects
  <2>3. wlRaced' = IF \E r \in WlReqs \ {q} : Inserts(r, t) THEN wlRaced \cup {t} ELSE wlRaced
    BY <1>5 DEF GateCount, Inserts
  <2>4. \A r \in WlReqs : WlAt(r, "count")' => WlAt(r, "count") /\ wlTask'[r] = wlTask[r]
    BY <2>1 DEF WlStep, WlMove, Keeps, WlAt
  <2>5. \A r \in WlReqs, u \in WlTenants : Inserts(r, u)' => (r = q /\ u = t) \/ Inserts(r, u)
    BY <2>1 DEF WlStep, WlMove, Keeps, WlAt, Inserts
  <2>6. FiniteInv'
    BY <1>1, <1>3 DEF LimitsInv, FiniteInv, Stay
  <2>7. LimitInv'
    BY <1>1, <1>2, <2>4 DEF LimitsInv, LimitInv
  <2>8. Unlimited(wlBest[t]) \/ Cardinality(Rows(t)) + 1 <= wlBest[t]
    <3>1. Covers(wlBest[t], wlTask[q].limit)
      BY <1>1 DEF LimitsInv, LimitInv
    <3>2. Cardinality(Rows(t)) \in Nat
      BY <1>1, FS_CardinalityType DEF LimitsInv, FiniteInv
    <3>3. wlTask[q].limit \in Nat \cup {-1} /\ wlBest[t] \in Nat \cup {-1}
      <4>1. wlTask[q].limit \in PlanLimits \cup {0} /\ wlBest[t] \in PlanLimits
        BY <1>1 DEF WlTypes, WlTaskType
      <4> QED BY <4>1, LimitValues
    <3> QED BY <1>5, <3>1, <3>2, <3>3 DEF Covers, Unlimited
  <2>9. RoomInv'
    <3> SUFFICES ASSUME NEW u \in WlTenants, u \notin wlRaced'
                 PROVE  /\ \A r, s \in WlReqs : Inserts(r, u)' /\ Inserts(s, u)' => r = s
                        /\ ~Unlimited(wlBest[u]) =>
                             /\ Cardinality(Rows(u)) <= wlBest[u]
                             /\ \A r \in WlReqs : Inserts(r, u)' => Cardinality(Rows(u)) + 1 <= wlBest[u]
      BY <1>2, <1>3 DEF RoomInv, Stay
    <3>1. u \notin wlRaced /\ (u = t => \A r \in WlReqs \ {q} : ~Inserts(r, t))
      BY <2>3
    <3> QED BY <1>1, <2>5, <2>8, <3>1 DEF LimitsInv, RoomInv
  <2> QED BY <2>2, <2>6, <2>7, <2>9 DEF WlInv, LimitsInv
<1> QED BY <1>4, <1>5

\* Steps that leave the rows, the objects and the limits alone.
LEMMA PlainStep ==
    ASSUME WlInv, NEW q \in WlReqs, NEW pc, Goes(q, pc),
           pc \notin {"insert", "apply", "remove", "delrow"}, SameRows,
           UNCHANGED <<wlObject, wlPlan, wlCache, wlBest, wlRaced, wlOverlap>>
    PROVE  WlInv'
<1>0. Stay /\ LessRows /\ Active(q) /\ WlStep(q, {pc}) /\ pc \notin {"count", "insert"}
  BY SameStay DEF Goes
<1>1. WlTypes' /\ IdInv'
  BY <1>0, StepTyped DEF WlInv, WlTypes
<1>2. LimitsInv'
  BY <1>0, StepLimits DEF WlInv
<1>3. ObjInv'
  BY <1>0, StepObjects DEF WlInv
<1> QED BY <1>1, <1>2, <1>3 DEF WlInv

\* What a row keeps when its status or its columns are written.
LEMMA RowWritten ==
    ASSUME WlTypes, NEW r \in WlReqs, NEW st \in Statuses, NEW sp \in SUBSET {"image", "env"}, wlRow[r] # NoRow,
           wlRow' = [wlRow EXCEPT ![r].status = st] \/ wlRow' = [wlRow EXCEPT ![r].spec = sp]
    PROVE  SameRows
<1> DEFINE x == [wlRow[r] EXCEPT !.status = st]
           y == [wlRow[r] EXCEPT !.spec = sp]
<1>1. wlRow[r] \in WlRowType /\ wlRow[r].who \in WlTenants
  BY DEF WlTypes
<1>2. /\ x \in WlRowType /\ x.who = wlRow[r].who /\ x.name = wlRow[r].name
      /\ y \in WlRowType /\ y.who = wlRow[r].who /\ y.name = wlRow[r].name
  BY <1>1 DEF WlRowType
<1>3. x # NoRow /\ y # NoRow
  BY <1>1, <1>2, ApiWorkloadsAssumption DEF NoRow
<1>4. wlRow' = [wlRow EXCEPT ![r] = x] \/ wlRow' = [wlRow EXCEPT ![r] = y]
  OBVIOUS
<1> HIDE DEF x, y
<1>5. ASSUME NEW v \in {x, y}, wlRow' = [wlRow EXCEPT ![r] = v]
      PROVE  SameRows
  BY <1>2, <1>3, <1>5 DEF SameRows, WlTypes
<1> QED BY <1>4, <1>5

LEMMA WriteKeeps ==
    ASSUME WlInv, NEW q \in WlReqs,
           SetStatus(q) \/ RestartWorkload(q) \/ \E c \in {"image", "env"} : PutWorkload(q, c)
    PROVE  WlInv'
<1> DEFINE r == wlTask[q].row
<1>1. WlTypes /\ Active(q) /\ ~Early(q) /\ r \in WlReqs /\ wlTask[q].status \in Statuses
      /\ wlTask[q].spec \in SUBSET {"image", "env"}
  BY DEF WlInv, WlTypes, SetStatus, RestartWorkload, PutWorkload, Active, Early, WlAt, WlTaskType
<1>2. UNCHANGED <<wlObject, wlPlan, wlCache, wlBest, wlRaced, wlOverlap>>
  BY DEF SetStatus, RestartWorkload, PutWorkload
<1>3. CASE SetStatus(q)
  <2>1. Goes(q, "done")
    BY <1>1, <1>3, WlGoes DEF SetStatus, WlPcs, Goes
  <2>2. SameRows
    <3>1. CASE wlRow[r] = NoRow
      BY <1>1, <1>3, <3>1, RowsKept DEF SetStatus
    <3>2. CASE wlRow[r] # NoRow
      <4>1. wlRow' = [wlRow EXCEPT ![r].status = wlTask[q].status]
        BY <1>3, <3>2 DEF SetStatus
      <4> QED BY <1>1, <3>2, <4>1, RowWritten
    <3> QED BY <3>1, <3>2
  <2> QED BY <1>2, <2>1, <2>2, PlainStep
<1>4. ASSUME NEW c \in {"image", "env"}, PutWorkload(q, c)
      PROVE  WlInv'
  <2>1. Goes(q, "done")
    BY <1>1, <1>4, WlGoes DEF PutWorkload, WlPcs, Goes
  <2>2. SameRows
    <3>1. CASE wlRow[r] = NoRow
      BY <1>1, <1>4, <3>1, RowsKept DEF PutWorkload
    <3>2. CASE wlRow[r] # NoRow
      <4>1. wlRow' = [wlRow EXCEPT ![r].spec = wlTask[q].spec \cup {c}]
        BY <1>4, <3>2 DEF PutWorkload
      <4>2. wlTask[q].spec \cup {c} \in SUBSET {"image", "env"}
        BY <1>1
      <4> QED BY <1>1, <3>2, <4>1, <4>2, RowWritten
    <3> QED BY <3>1, <3>2
  <2> QED BY <1>2, <2>1, <2>2, PlainStep
<1>5. CASE RestartWorkload(q)
  <2>1. PICK s \in {"running", "failed", "building"} : wlTask' = [wlTask EXCEPT ![q].pc = "status", ![q].status = s]
    BY <1>5 DEF RestartWorkload
  <2>2. Goes(q, "status")
    BY <1>1, <2>1, WlFails DEF WlPcs, Statuses, Goes
  <2>3. SameRows
    BY <1>1, <1>5, RowsKept DEF RestartWorkload
  <2> QED BY <1>2, <2>2, <2>3, PlainStep
<1> QED BY <1>3, <1>4, <1>5

LEMMA InsertKeepsWl ==
    ASSUME WlInv, NEW q \in WlReqs, InsertWorkload(q)
    PROVE  WlInv'
<1>0. PICK t, n : t = wlTask[q].who /\ n = wlTask[q].name
  OBVIOUS
<1> DEFINE new == [who |-> t, name |-> n, status |-> "pending", spec |-> {}]
<1>1. WlTypes /\ IdInv /\ LimitsInv /\ ObjInv /\ Active(q) /\ t \in WlTenants /\ n \in WlNames /\ Inserts(q, t)
      /\ Early(q)
  BY <1>0 DEF WlInv, WlTypes, InsertWorkload, Active, WlAt, Inserts, Early
<1>2. UNCHANGED <<wlObject, wlPlan, wlCache, wlBest, wlRaced, wlOverlap>>
  BY DEF InsertWorkload
<1>3. CASE WlGo(q, "done") /\ UNCHANGED wlRow
  <2>1. Goes(q, "done")
    BY <1>1, <1>3, WlGoes DEF WlPcs, Goes
  <2>2. SameRows
    BY <1>1, <1>3, RowsKept
  <2> QED BY <1>2, <2>1, <2>2, PlainStep
<1>4. CASE /\ wlRow' = [wlRow EXCEPT ![q] = new]
           /\ \/ wlTask' = [wlTask EXCEPT ![q].pc = "apply", ![q].row = q]
              \/ wlTask' = [wlTask EXCEPT ![q].pc = "status", ![q].row = q, ![q].status = "building"]
  <2>1. new \in WlRowType /\ new # NoRow /\ new.who = t /\ new.name = n
    BY <1>1, ApiWorkloadsAssumption DEF WlRowType, Statuses, NoRow
  <2> HIDE DEF new
  <2>2. PICK pc \in {"apply", "status"} :
          /\ wlTask' = [wlTask EXCEPT ![q].pc = pc, ![q].row = q]
             \/ wlTask' = [wlTask EXCEPT ![q].pc = pc, ![q].row = q, ![q].status = "building"]
    BY <1>4
  <2>3. WlMove(q, {pc}) /\ wlTask'[q].row = q
    BY <1>1, <2>2, WlInserts DEF WlPcs, Statuses
  <2>14. wlRow[q] = NoRow /\ \A r \in WlReqs : wlTask[r].row # q
    BY <1>1 DEF IdInv
  <2>4. wlRow' \in [WlReqs -> WlRowType] /\ wlRow'[q] = new /\ \A r \in WlReqs \ {q} : wlRow'[r] = wlRow[r]
    BY <1>1, <1>4, <2>1 DEF WlTypes
  <2>5. /\ \A u \in WlTenants : Rows(u)' = IF u = t THEN Rows(t) \cup {q} ELSE Rows(u)
        /\ \A u \in WlTenants : q \notin Rows(u)
    <3>1. NoRow.who \notin WlTenants
      BY ApiWorkloadsAssumption DEF NoRow
    <3> QED BY <1>1, <2>1, <2>4, <2>14, <3>1 DEF Rows
  <2>15. /\ \A u \in WlTenants, m \in WlNames : Has(u, m) => Has(u, m)'
         /\ Has(t, n)'
    <3>1. ASSUME NEW u \in WlTenants, NEW m \in WlNames, Has(u, m)
          PROVE  Has(u, m)'
      <4>1. PICK x \in Rows(u) : wlRow[x].name = m
        BY <3>1 DEF Has
      <4>2. x \in WlReqs /\ x # q /\ x \in Rows(u)'
        BY <2>5, <4>1 DEF Rows
      <4> QED BY <2>4, <4>1, <4>2 DEF Has
    <3>2. q \in Rows(t)' /\ wlRow'[q].name = n
      BY <1>1, <2>1, <2>4, <2>5
    <3>3. Has(t, n)'
      BY <3>2 DEF Has
    <3> QED BY <3>1, <3>3
  <2>16. \A r \in WlReqs : /\ Active(r)' => Active(r)
                           /\ Early(r)' => Early(r) /\ r # q
                           /\ r # q => wlTask'[r] = wlTask[r]
    BY <1>1, <2>3 DEF WlMove, Keeps, Active, Early
  <2>17. wlTask'[q].who = t /\ wlTask'[q].name = n /\ wlTask' \in [WlReqs -> WlTaskType] /\ wlTask'[q].pc = pc
    BY <1>0, <2>3 DEF WlMove, Keeps
  <2>6. WlTypes' /\ IdInv'
    <3>1. ASSUME NEW r \in WlReqs
          PROVE  /\ Active(r)' => wlTask'[r].who \in WlTenants /\ wlTask'[r].name \in WlNames
                 /\ Active(r)' /\ ~Early(r)' => wlTask'[r].row \in WlReqs
                 /\ wlRow'[r] # NoRow => wlRow'[r].who \in WlTenants /\ wlRow'[r].name \in WlNames
      <4>1. CASE r = q
        BY <1>1, <2>1, <2>3, <2>4, <2>17, <4>1
      <4>2. CASE r # q
        BY <1>1, <2>4, <2>16, <4>2 DEF WlTypes, Active, Early
      <4> QED BY <4>1, <4>2
    <3>2. WlTypes'
      BY <1>1, <1>2, <2>4, <2>17, <3>1 DEF WlTypes
    <3>3. ASSUME NEW r \in WlReqs, Early(r)'
          PROVE  wlRow'[r] = NoRow /\ \A x \in WlReqs : wlTask'[x].row # r
      <4>1. Early(r) /\ r # q
        BY <2>16, <3>3
      <4> QED BY <1>1, <2>3, <2>4, <2>16, <4>1 DEF IdInv
    <3>4. ASSUME NEW r \in WlReqs, Active(r)', ~Early(r)', wlRow'[wlTask'[r].row] # NoRow
          PROVE  wlRow'[wlTask'[r].row].who = wlTask'[r].who /\ wlRow'[wlTask'[r].row].name = wlTask'[r].name
      <4>1. CASE r = q
        BY <2>1, <2>3, <2>4, <2>17, <4>1
      <4>2. CASE r # q
        <5>1. wlTask'[r] = wlTask[r] /\ Active(r) /\ ~Early(r)
          BY <2>16, <3>4, <4>2 DEF Active, Early
        <5>2. wlTask[r].row # q /\ wlTask[r].row \in WlReqs
          BY <1>1, <2>14, <5>1 DEF WlTypes
        <5> QED BY <1>1, <2>4, <3>4, <5>1, <5>2 DEF IdInv
      <4> QED BY <4>1, <4>2
    <3> QED BY <3>2, <3>3, <3>4 DEF IdInv
  <2>7. \A r \in WlReqs : WlAt(r, "count")' => WlAt(r, "count") /\ wlTask'[r] = wlTask[r]
    BY <2>16, <2>17 DEF WlAt
  <2>8. \A r \in WlReqs, u \in WlTenants : Inserts(r, u)' => Inserts(r, u) /\ r # q
    BY <2>16, <2>17 DEF WlAt, Inserts
  <2>9. /\ IsFiniteSet(Rows(t) \cup {q}) /\ q \notin Rows(t) /\ Cardinality(Rows(t)) \in Nat
        /\ Cardinality(Rows(t) \cup {q}) = Cardinality(Rows(t)) + 1
    <3>1. IsFiniteSet(Rows(t)) /\ q \notin Rows(t)
      BY <1>1, <2>5 DEF LimitsInv, FiniteInv
    <3> QED BY <3>1, FS_AddElement, FS_CardinalityType
  <2>10. FiniteInv'
    BY <1>1, <2>5, <2>9 DEF LimitsInv, FiniteInv
  <2>11. LimitInv'
    BY <1>1, <1>2, <2>7 DEF LimitsInv, LimitInv
  <2>12. RoomInv'
    <3> SUFFICES ASSUME NEW u \in WlTenants, u \notin wlRaced
                 PROVE  /\ \A r, s \in WlReqs : Inserts(r, u)' /\ Inserts(s, u)' => r = s
                        /\ ~Unlimited(wlBest[u]) =>
                             /\ Cardinality(Rows(u)') <= wlBest[u]
                             /\ \A r \in WlReqs : Inserts(r, u)' => Cardinality(Rows(u)') + 1 <= wlBest[u]
      BY <1>2 DEF RoomInv
    <3>1. CASE u # t
      BY <1>1, <2>5, <2>8, <3>1 DEF LimitsInv, RoomInv
    <3>2. CASE u = t
      <4>3. /\ \A r, s \in WlReqs : Inserts(r, t) /\ Inserts(s, t) => r = s
            /\ ~Unlimited(wlBest[t]) => \A r \in WlReqs : Inserts(r, t) => Cardinality(Rows(t)) + 1 <= wlBest[t]
        <5>1. RoomInv /\ t \in WlTenants /\ t \notin wlRaced
          BY <1>1, <3>2 DEF LimitsInv
        <5> QED BY <5>1 DEF RoomInv
      <4>1. \A r \in WlReqs : ~Inserts(r, t)'
        <5> QED BY <1>1, <2>8, <4>3
      <4>2. ~Unlimited(wlBest[t]) => Cardinality(Rows(t)) + 1 <= wlBest[t]
        BY <1>1, <4>3
      <4> QED BY <1>1, <2>5, <2>9, <3>2, <4>1, <4>2
    <3> QED BY <3>1, <3>2
  <2>13. ObjInv'
    <3> SUFFICES ASSUME NEW m \in WlNames \ wlOverlap
                 PROVE  OwnsRows(m)'
      BY <1>2 DEF ObjInv
    <3>1. OwnsRows(m)
      BY <1>1 DEF ObjInv
    <3>2. \A r \in WlReqs : On(r, m)' => On(r, m)
      BY <1>0, <1>1, <2>16, <2>17 DEF On
    <3>3. \A p \in Kept : wlObject'[m][p] # "none" => Has(wlObject[m][p], m)'
      <4> SUFFICES ASSUME NEW p \in Kept, wlObject[m][p] # "none"
                   PROVE  Has(wlObject[m][p], m)'
        BY <1>2
      <4>0. wlObject[m] \in [1..Len(WlParts) -> WlTenants \cup {"none"}] /\ p \in 1..Len(WlParts)
        BY <1>1 DEF WlTypes, Kept
      <4>1. PICK u \in WlTenants : u = wlObject[m][p]
        BY <4>0
      <4>2. Has(u, m)'
        BY <2>15, <3>1, <4>1 DEF OwnsRows
      <4> QED BY <1>2, <4>1, <4>2
    <3>4. ASSUME NEW r \in WlReqs, On(r, m)'
          PROVE  /\ WlAt(r, "apply")' => Has(wlTask[r].who, m)'
                 /\ WlAt(r, "remove")' => \A p \in Kept : p < wlTask'[r].part => wlObject'[m][p] = "none"
                 /\ WlAt(r, "delrow")' => \A p \in Kept : wlObject'[m][p] = "none"
      <4>1. CASE r = q
        <5>1. m = n /\ wlTask'[q].pc \in {"apply", "status"}
          BY <2>17, <3>4, <4>1 DEF On
        <5>2. Has(wlTask[q].who, n)'
          BY <2>15, <2>17 DEF Has, Rows
        <5> QED BY <4>1, <5>1, <5>2 DEF WlAt
      <4>2. CASE r # q
        <5>1. On(r, m) /\ wlTask'[r] = wlTask[r]
          BY <2>16, <3>2, <3>4, <4>2
        <5>2. wlTask[r].who \in WlTenants
          BY <1>1, <5>1 DEF On, WlTypes
        <5> QED BY <1>2, <2>15, <3>1, <5>1, <5>2 DEF OwnsRows, WlAt
      <4> QED BY <4>1, <4>2
    <3>5. \A r, s \in WlReqs : On(r, m)' /\ On(s, m)' => r = s
      BY <3>1, <3>2 DEF OwnsRows
    <3> QED BY <3>3, <3>4, <3>5 DEF OwnsRows
  <2> QED BY <2>6, <2>10, <2>11, <2>12, <2>13 DEF WlInv, LimitsInv
<1> QED BY <1>0, <1>3, <1>4 DEF InsertWorkload

\* One object is applied or deleted.
LEMMA ObjectSet ==
    ASSUME WlTypes, NEW n \in WlNames, NEW part \in Nat, NEW v \in WlTenants \cup {"none"},
           wlObject' = [wlObject EXCEPT ![n][part] = v]
    PROVE  /\ wlObject' \in [WlNames -> [1..Len(WlParts) -> WlTenants \cup {"none"}]]
           /\ \A m \in WlNames, p \in 1..Len(WlParts) :
                wlObject'[m][p] = IF m = n /\ p = part THEN v ELSE wlObject[m][p]
<1> DEFINE o == [wlObject[n] EXCEPT ![part] = v]
<1>1. wlObject[n] \in [1..Len(WlParts) -> WlTenants \cup {"none"}]
  BY DEF WlTypes
<1>2. /\ o \in [1..Len(WlParts) -> WlTenants \cup {"none"}]
      /\ \A p \in 1..Len(WlParts) : o[p] = IF p = part THEN v ELSE wlObject[n][p]
  BY <1>1
<1>3. wlObject' = [wlObject EXCEPT ![n] = o]
  OBVIOUS
<1> HIDE DEF o
<1> QED BY <1>2, <1>3 DEF WlTypes

\* The objects that the step of a request on a name leaves, where its pc is then.
Leaves(q, n, pc) ==
    /\ \A p \in Kept : wlObject'[n][p] # "none" => Has(wlObject'[n][p], n)
    /\ pc = "apply" => Has(wlTask[q].who, n)
    /\ pc = "remove" => \A p \in Kept : p < wlTask'[q].part => wlObject'[n][p] = "none"
    /\ pc = "delrow" => \A p \in Kept : wlObject'[n][p] = "none"

\* A step that applies or deletes objects of its name.
ObjectStep(q, n, pc) ==
    /\ Goes(q, pc) /\ n = wlTask[q].name
    /\ UNCHANGED <<wlRow, wlPlan, wlCache, wlBest, wlRaced, wlOverlap>>
    /\ wlObject' \in [WlNames -> [1..Len(WlParts) -> WlTenants \cup {"none"}]]
    /\ \A m \in WlNames : m # n => wlObject'[m] = wlObject[m]
    /\ OwnsRows(n) => Leaves(q, n, pc)

LEMMA NameSteps ==
    ASSUME WlInv, NEW q \in WlReqs, NEW n \in WlNames, NEW pc \in {"status", "apply", "delrow", "remove"},
           ObjectStep(q, n, pc)
    PROVE  WlInv'
<1>0. /\ WlTypes /\ IdInv /\ LimitsInv /\ ObjInv /\ Active(q) /\ WlStep(q, {pc}) /\ n = wlTask[q].name
      /\ Goes(q, pc)
      /\ UNCHANGED <<wlRow, wlPlan, wlCache, wlBest, wlRaced, wlOverlap>>
      /\ wlObject' \in [WlNames -> [1..Len(WlParts) -> WlTenants \cup {"none"}]]
      /\ \A m \in WlNames : m # n => wlObject'[m] = wlObject[m]
      /\ OwnsRows(n) => Leaves(q, n, pc)
      /\ pc \notin {"count", "insert"}
  BY DEF ObjectStep, WlInv, Goes
<1> USE <1>0
<1>1. Stay /\ LessRows
  BY RowsKept, SameStay
<1>2. WlTypes' /\ IdInv'
  BY <1>1, StepTyped
<1>3. LimitsInv'
  BY <1>1, StepLimits
<1>4. ObjInv'
  <2> SUFFICES ASSUME NEW m \in WlNames \ wlOverlap
               PROVE  OwnsRows(m)'
    BY DEF ObjInv
  <2>1. OwnsRows(m)
    BY DEF ObjInv
  <2>2. \A r \in WlReqs : On(r, m)' => On(r, m)
    BY DEF On, WlStep, WlMove, Keeps, Active
  <2>3. \A r, s \in WlReqs : On(r, m)' /\ On(s, m)' => r = s
    BY <2>1, <2>2 DEF OwnsRows
  <2>4. ASSUME NEW p \in Kept, wlObject'[m][p] # "none"
        PROVE  Has(wlObject[m][p], m)'
    <3>0. p \in 1..Len(WlParts) /\ wlObject'[m] \in [1..Len(WlParts) -> WlTenants \cup {"none"}]
      BY DEF Kept
    <3>1. PICK u \in WlTenants : u = wlObject'[m][p]
      BY <2>4, <3>0
    <3>2. Has(u, m)
      <4>1. CASE m = n
        BY <2>1, <2>4, <3>1, <4>1 DEF Leaves
      <4>2. CASE m # n
        BY <2>1, <2>4, <3>1, <4>2 DEF OwnsRows
      <4> QED BY <4>1, <4>2
    <3>3. Has(u, m)'
      BY <1>1, <3>2 DEF Stay
    <3> QED BY <3>1, <3>3 DEF Has, Rows
  <2>5. ASSUME NEW r \in WlReqs, On(r, m)'
        PROVE  /\ WlAt(r, "apply")' => Has(wlTask[r].who, m)'
               /\ WlAt(r, "remove")' => \A p \in Kept : p < wlTask'[r].part => wlObject'[m][p] = "none"
               /\ WlAt(r, "delrow")' => \A p \in Kept : wlObject'[m][p] = "none"
    <3>1. PICK u \in WlTenants : u = wlTask[r].who /\ u = wlTask'[r].who
      <4>1. On(r, m) /\ wlTask'[r].who = wlTask[r].who
        BY <2>2, <2>5 DEF WlStep, WlMove, Keeps
      <4> QED BY <4>1 DEF On, WlTypes
    <3>4. Has(u, m)' = Has(wlTask[r].who, m)' /\ Has(u, m)' = Has(u, m)
      <4>1. Has(u, m)' = Has(wlTask[r].who, m)'
        BY <3>1 DEF Has, Rows
      <4> QED BY <1>1, <4>1 DEF Stay
    <3>2. CASE r = q
      <4>1. m = n /\ wlTask'[q].pc = pc
        BY <2>2, <2>5, <3>2 DEF On, WlStep, WlMove
      <4> QED BY <2>1, <3>1, <3>2, <3>4, <4>1 DEF WlAt, Leaves
    <3>3. CASE r # q
      <4>1. On(r, m) /\ wlTask'[r] = wlTask[r]
        BY <2>2, <2>5, <3>3 DEF WlStep, WlMove, Keeps
      <4>2. m # n
        BY <2>1, <3>3, <4>1 DEF OwnsRows, On
      <4> QED BY <2>1, <3>1, <3>4, <4>1, <4>2 DEF OwnsRows, WlAt
    <3> QED BY <3>2, <3>3
  <2> QED BY <2>3, <2>4, <2>5 DEF OwnsRows
<1> QED BY <1>2, <1>3, <1>4 DEF WlInv

LEMMA ApplyKeeps ==
    ASSUME WlInv, NEW q \in WlReqs, ApplyPart(q)
    PROVE  WlInv'
<1>0. PICK t, n, part : t = wlTask[q].who /\ n = wlTask[q].name /\ part = wlTask[q].part
  OBVIOUS
<1>1. WlTypes /\ LimitsInv /\ ObjInv /\ Active(q) /\ t \in WlTenants /\ n \in WlNames /\ part \in Nat
      /\ WlAt(q, "apply") /\ On(q, n) /\ ~Early(q)
  BY <1>0 DEF WlInv, WlTypes, ApplyPart, Active, WlAt, WlTaskType, On, Early
<1>2. UNCHANGED <<wlRow, wlPlan, wlCache, wlBest, wlRaced, wlOverlap>>
  BY DEF ApplyPart
<1>3. CASE /\ \/ wlObject' = [wlObject EXCEPT ![n][part] = t]
              \/ BestEffort(part) /\ UNCHANGED wlObject
           /\ wlTask' = [wlTask EXCEPT ![q].part = part + 1, ![q].status = "running",
                                       ![q].pc = IF part = Len(WlParts) THEN "status" ELSE "apply"]
  <2>1. PICK pc \in {"status", "apply"} : pc = IF part = Len(WlParts) THEN "status" ELSE "apply"
    OBVIOUS
  <2>2. WlStep(q, {pc})
    <3>1. wlTask' = [wlTask EXCEPT ![q].part = part + 1, ![q].status = "running", ![q].pc = pc]
      BY <1>3, <2>1
    <3>2. pc \in WlPcs /\ "running" \in Statuses /\ part + 1 \in Nat
      BY <1>1 DEF WlPcs, Statuses
    <3> QED BY <1>1, <3>1, <3>2, WlApplies
  <2>3. /\ wlObject' \in [WlNames -> [1..Len(WlParts) -> WlTenants \cup {"none"}]]
        /\ \A p \in Kept : wlObject'[n][p] = IF p = part THEN t ELSE wlObject[n][p]
    <3>1. CASE wlObject' = [wlObject EXCEPT ![n][part] = t]
      BY <1>1, <3>1, ObjectSet DEF Kept
    <3>2. CASE BestEffort(part) /\ UNCHANGED wlObject
      BY <1>1, <3>2 DEF WlTypes, Kept
    <3> QED BY <1>3, <3>1, <3>2
  <2>4. \A m \in WlNames : m # n => wlObject'[m] = wlObject[m]
    BY <1>1, <1>3 DEF WlTypes
  <2>5. OwnsRows(n) =>
          /\ \A p \in Kept : wlObject'[n][p] # "none" => Has(wlObject'[n][p], n)
          /\ Has(t, n)
    BY <1>0, <1>1, <2>3 DEF OwnsRows
  <2>6. pc \notin {"count", "insert", "remove", "delrow"} /\ n = wlTask[q].name
    BY <1>0, <2>1
  <2>7. OwnsRows(n) => Leaves(q, n, pc)
    BY <1>0, <2>5, <2>6 DEF Leaves
  <2>8. ObjectStep(q, n, pc)
    BY <1>0, <1>1, <1>2, <2>1, <2>2, <2>3, <2>4, <2>7 DEF ObjectStep, Goes
  <2> QED BY <1>1, <2>8, NameSteps
<1>4. CASE wlObject' = wlObject /\ wlTask' = [wlTask EXCEPT ![q].pc = "status", ![q].status = "failed"]
  <2>1. Goes(q, "status")
    BY <1>1, <1>4, WlFails DEF WlPcs, Statuses, Goes
  <2>2. SameRows
    BY <1>1, <1>2, RowsKept
  <2> QED BY <1>2, <1>4, <2>1, <2>2, PlainStep
<1> QED BY <1>0, <1>3, <1>4 DEF ApplyPart

LEMMA RemoveKeeps ==
    ASSUME WlInv, NEW q \in WlReqs, RemovePart(q)
    PROVE  WlInv'
<1>0. PICK n, part : n = wlTask[q].name /\ part = wlTask[q].part
  OBVIOUS
<1>1. WlTypes /\ LimitsInv /\ ObjInv /\ Active(q) /\ n \in WlNames /\ part \in Nat
      /\ WlAt(q, "remove") /\ On(q, n) /\ ~Early(q)
  BY <1>0 DEF WlInv, WlTypes, RemovePart, Active, WlAt, WlTaskType, On, Early
<1>2. UNCHANGED <<wlRow, wlPlan, wlCache, wlBest, wlRaced, wlOverlap>>
  BY DEF RemovePart
<1>3. CASE /\ \/ wlObject' = [wlObject EXCEPT ![n][part] = "none"]
              \/ BestEffort(part) /\ UNCHANGED wlObject
           /\ wlTask' = [wlTask EXCEPT ![q].part = part + 1,
                                       ![q].pc = IF part = Len(WlParts) THEN "delrow" ELSE "remove"]
  <2>1. PICK pc \in {"delrow", "remove"} : pc = IF part = Len(WlParts) THEN "delrow" ELSE "remove"
    OBVIOUS
  <2>2. WlStep(q, {pc}) /\ wlTask'[q].part = part + 1
    <3>1. wlTask' = [wlTask EXCEPT ![q].part = part + 1, ![q].pc = pc]
      BY <1>3, <2>1
    <3>2. pc \in WlPcs /\ part + 1 \in Nat
      BY <1>1 DEF WlPcs
    <3> QED BY <1>1, <3>1, <3>2, WlRemoves
  <2>3. /\ wlObject' \in [WlNames -> [1..Len(WlParts) -> WlTenants \cup {"none"}]]
        /\ \A p \in Kept : wlObject'[n][p] = IF p = part THEN "none" ELSE wlObject[n][p]
    <3>1. CASE wlObject' = [wlObject EXCEPT ![n][part] = "none"]
      BY <1>1, <3>1, ObjectSet DEF Kept
    <3>2. CASE BestEffort(part) /\ UNCHANGED wlObject
      BY <1>1, <3>2 DEF WlTypes, Kept
    <3> QED BY <1>3, <3>1, <3>2
  <2>4. \A m \in WlNames : m # n => wlObject'[m] = wlObject[m]
    BY <1>1, <1>3 DEF WlTypes
  <2>11. \A p \in Kept : p \in 1..Len(WlParts) /\ p \in Int
    BY DEF Kept
  <2>5. OwnsRows(n) =>
          /\ \A p \in Kept : wlObject'[n][p] # "none" => Has(wlObject'[n][p], n)
          /\ \A p \in Kept : p <= part => wlObject'[n][p] = "none"
    <3>1. OwnsRows(n) => \A p \in Kept : p < part => wlObject[n][p] = "none"
      BY <1>0, <1>1 DEF OwnsRows
    <3>2. OwnsRows(n) => \A p \in Kept : wlObject'[n][p] # "none" => Has(wlObject'[n][p], n)
      BY <1>1, <2>3 DEF OwnsRows
    <3> QED BY <1>1, <2>3, <2>11, <3>1, <3>2
  <2>6. OwnsRows(n) /\ pc = "remove" =>
          \A p \in Kept : p < wlTask'[q].part => wlObject'[n][p] = "none"
    BY <1>1, <2>2, <2>5, <2>11
  <2>7. OwnsRows(n) /\ pc = "delrow" => \A p \in Kept : wlObject'[n][p] = "none"
    BY <1>1, <2>1, <2>5, <2>11
  <2>8. pc \notin {"count", "insert", "apply"} /\ n = wlTask[q].name
    BY <1>0, <2>1
  <2>9. OwnsRows(n) => Leaves(q, n, pc)
    BY <2>5, <2>6, <2>7, <2>8 DEF Leaves
  <2>10. ObjectStep(q, n, pc)
    BY <1>0, <1>1, <1>2, <2>1, <2>2, <2>3, <2>4, <2>9 DEF ObjectStep, Goes
  <2> QED BY <1>1, <2>10, NameSteps
<1>4. CASE wlObject' = wlObject /\ WlGo(q, "done")
  <2>1. Goes(q, "done")
    BY <1>1, <1>4, WlGoes DEF WlPcs, Goes
  <2>2. SameRows
    BY <1>1, <1>2, RowsKept
  <2> QED BY <1>2, <1>4, <2>1, <2>2, PlainStep
<1> QED BY <1>0, <1>3, <1>4 DEF RemovePart

LEMMA DeleteRowKeeps ==
    ASSUME WlInv, NEW q \in WlReqs, DeleteRow(q)
    PROVE  WlInv'
<1>0. PICK n, r : n = wlTask[q].name /\ r = wlTask[q].row
  OBVIOUS
<1>1. WlTypes /\ IdInv /\ LimitsInv /\ ObjInv /\ Active(q) /\ ~Early(q) /\ n \in WlNames /\ r \in WlReqs
      /\ WlAt(q, "delrow") /\ On(q, n)
  BY <1>0 DEF WlInv, WlTypes, DeleteRow, Active, Early, WlAt, WlTaskType, On
<1>2. UNCHANGED <<wlObject, wlPlan, wlCache, wlBest, wlRaced, wlOverlap>>
  BY DEF DeleteRow
<1>3. WlStep(q, {"done"}) /\ Goes(q, "done")
  BY <1>1, WlGoes DEF DeleteRow, WlPcs, Goes
<1>4. wlRow' \in [WlReqs -> WlRowType] /\ wlRow'[r] = NoRow /\ \A x \in WlReqs \ {r} : wlRow'[x] = wlRow[x]
  <2>1. NoRow \in WlRowType
    BY DEF WlRowType, Statuses, NoRow
  <2> QED BY <1>0, <1>1, <2>1 DEF DeleteRow, WlTypes
<1>5. LessRows
  BY <1>4 DEF LessRows
<1>6. WlTypes' /\ IdInv'
  BY <1>1, <1>2, <1>3, <1>5, StepTyped DEF WlTypes
<1>7. \A u \in WlTenants : Rows(u)' = Rows(u) \ {r}
  <2>1. NoRow.who \notin WlTenants
    BY ApiWorkloadsAssumption DEF NoRow
  <2> QED BY <1>1, <1>4, <2>1 DEF Rows
<1>8. \A u \in WlTenants, m \in WlNames : m # n /\ Has(u, m) => Has(u, m)'
  <2> SUFFICES ASSUME NEW u \in WlTenants, NEW m \in WlNames, m # n, Has(u, m)
               PROVE  Has(u, m)'
    OBVIOUS
  <2>1. PICK x \in Rows(u) : wlRow[x].name = m
    BY DEF Has
  <2>2. x # r
    <3>1. wlRow[r] # NoRow => wlRow[r].name = n
      BY <1>0, <1>1 DEF IdInv
    <3>2. wlRow[x] # NoRow
      BY <2>1, ApiWorkloadsAssumption DEF Rows, NoRow
    <3> QED BY <2>1, <3>1, <3>2
  <2>3. x \in WlReqs /\ x \in Rows(u)' /\ wlRow'[x].name = m
    BY <1>4, <1>7, <2>1, <2>2 DEF Rows
  <2> QED BY <2>3 DEF Has
<1>9. \A u \in WlTenants : /\ IsFiniteSet(Rows(u)) /\ Cardinality(Rows(u)) \in Nat
                           /\ IsFiniteSet(Rows(u) \ {r}) /\ Cardinality(Rows(u) \ {r}) \in Nat
                           /\ Cardinality(Rows(u) \ {r}) <= Cardinality(Rows(u))
  BY <1>1, FS_CardinalityType, FS_Subset DEF LimitsInv, FiniteInv
<1>10. \A x \in WlReqs : /\ Active(x)' => Active(x) /\ x # q /\ wlTask'[x] = wlTask[x]
                         /\ WlAt(x, "count")' => WlAt(x, "count") /\ wlTask'[x] = wlTask[x]
  BY <1>3 DEF WlStep, WlMove, Keeps, WlAt, Active
<1>11. LimitsInv'
  <2>1. FiniteInv'
    BY <1>7, <1>9 DEF FiniteInv
  <2>2. LimitInv'
    BY <1>1, <1>2, <1>10 DEF LimitsInv, LimitInv
  <2>3. RoomInv'
    <3> SUFFICES ASSUME NEW u \in WlTenants, u \notin wlRaced
                 PROVE  /\ \A x, y \in WlReqs : Inserts(x, u)' /\ Inserts(y, u)' => x = y
                        /\ ~Unlimited(wlBest[u]) =>
                             /\ Cardinality(Rows(u)') <= wlBest[u]
                             /\ \A x \in WlReqs : Inserts(x, u)' => Cardinality(Rows(u)') + 1 <= wlBest[u]
      BY <1>2 DEF RoomInv
    <3>1. \A x \in WlReqs : Inserts(x, u)' => Inserts(x, u)
      BY <1>3 DEF WlStep, WlMove, Keeps, WlAt, Inserts
    <3>2. /\ \A x, y \in WlReqs : Inserts(x, u) /\ Inserts(y, u) => x = y
          /\ ~Unlimited(wlBest[u]) =>
               /\ Cardinality(Rows(u)) <= wlBest[u]
               /\ \A x \in WlReqs : Inserts(x, u) => Cardinality(Rows(u)) + 1 <= wlBest[u]
      BY <1>1 DEF LimitsInv, RoomInv
    <3>3. Cardinality(Rows(u)') <= Cardinality(Rows(u)) /\ Cardinality(Rows(u)') \in Nat /\ Cardinality(Rows(u)) \in Nat
      BY <1>7, <1>9
    <3>4. wlBest[u] \in Int
      <4>1. wlBest[u] \in PlanLimits
        BY <1>1 DEF WlTypes
      <4> QED BY <4>1, LimitValues
    <3>5. ~Unlimited(wlBest[u]) => Cardinality(Rows(u)') <= wlBest[u]
      BY <3>2, <3>3, <3>4
    <3>6. ~Unlimited(wlBest[u]) => \A x \in WlReqs : Inserts(x, u)' => Cardinality(Rows(u)') + 1 <= wlBest[u]
      BY <3>1, <3>2, <3>3, <3>4
    <3> QED BY <3>1, <3>2, <3>5, <3>6
  <2> QED BY <2>1, <2>2, <2>3 DEF LimitsInv
<1>12. ObjInv'
  <2> SUFFICES ASSUME NEW m \in WlNames \ wlOverlap
               PROVE  OwnsRows(m)'
    BY <1>2 DEF ObjInv
  <2>1. OwnsRows(m)
    BY <1>1 DEF ObjInv
  <2>2. \A x \in WlReqs : On(x, m)' => On(x, m) /\ x # q /\ wlTask'[x] = wlTask[x]
    BY <1>10 DEF On
  <2>3. m = n => \A p \in Kept : wlObject[m][p] = "none"
    BY <1>1, <2>1 DEF OwnsRows
  <2>4. ASSUME NEW p \in Kept, wlObject'[m][p] # "none"
        PROVE  Has(wlObject[m][p], m)'
    <3>1. wlObject'[m] \in [1..Len(WlParts) -> WlTenants \cup {"none"}] /\ p \in 1..Len(WlParts)
      BY <1>6 DEF WlTypes, Kept
    <3>2. PICK u \in WlTenants : u = wlObject'[m][p]
      BY <2>4, <3>1
    <3>3. Has(u, m) /\ m # n
      BY <1>2, <2>1, <2>3, <2>4, <3>2 DEF OwnsRows
    <3>4. Has(u, m)'
      BY <1>8, <3>3
    <3> QED BY <3>2, <3>4 DEF Has, Rows
  <2>5. ASSUME NEW x \in WlReqs, On(x, m)'
        PROVE  /\ WlAt(x, "apply")' => Has(wlTask[x].who, m)'
               /\ WlAt(x, "remove")' => \A p \in Kept : p < wlTask'[x].part => wlObject'[m][p] = "none"
               /\ WlAt(x, "delrow")' => \A p \in Kept : wlObject'[m][p] = "none"
    <3>1. On(x, m) /\ x # q /\ wlTask'[x] = wlTask[x]
      BY <2>2, <2>5
    <3>2. PICK u \in WlTenants : u = wlTask[x].who
      BY <1>1, <3>1 DEF On, WlTypes
    <3>3. m # n
      BY <1>1, <2>1, <3>1 DEF OwnsRows
    <3>4. Has(u, m) => Has(wlTask[x].who, m)'
      <4>1. Has(u, m)' => Has(wlTask[x].who, m)'
        BY <3>1, <3>2 DEF Has, Rows
      <4> QED BY <1>8, <3>3, <4>1
    <3> QED BY <1>2, <2>1, <3>1, <3>2, <3>4 DEF OwnsRows, WlAt
  <2>6. \A x, y \in WlReqs : On(x, m)' /\ On(y, m)' => x = y
    BY <2>1, <2>2 DEF OwnsRows
  <2> QED BY <2>4, <2>5, <2>6 DEF OwnsRows
<1> QED BY <1>6, <1>11, <1>12 DEF WlInv

LEMMA DeathKeeps ==
    ASSUME WlInv, ApiDies
    PROVE  WlInv'
<1>1. WlTypes /\ IdInv /\ LimitsInv /\ ObjInv
  BY DEF WlInv
<1>2. UNCHANGED <<wlRow, wlObject, wlPlan, wlBest, wlRaced, wlOverlap>>
      /\ wlCache' = [t \in WlTenants |-> Unread]
  BY DEF ApiDies
<1>3. /\ wlTask' \in [WlReqs -> WlTaskType]
      /\ \A q \in WlReqs : ~Active(q)' /\ (Early(q)' => Early(q)) /\ wlTask'[q].row = wlTask[q].row
  <2>1. \A q \in WlReqs : LET y == [wlTask[q] EXCEPT !.pc = "done"] IN
          y \in WlTaskType /\ y.pc = "done" /\ y.row = wlTask[q].row
    <3>1. \A q \in WlReqs : wlTask[q] \in WlTaskType
      BY <1>1 DEF WlTypes
    <3>2. "done" \in WlPcs
      BY DEF WlPcs
    <3> QED BY <3>1, <3>2, FieldSet
  <2>2. wlTask' = [q \in WlReqs |-> IF Active(q) THEN [wlTask[q] EXCEPT !.pc = "done"] ELSE wlTask[q]]
    BY DEF ApiDies
  <2> QED BY <1>1, <2>1, <2>2 DEF WlTypes, Active, Early
<1>4. Stay
  BY <1>1, <1>2, RowsKept, SameStay
<1>5. \A q \in WlReqs : ~WlAt(q, "count")' /\ ~WlAt(q, "insert")'
  BY <1>3 DEF Active, WlAt
<1>6. WlTypes' /\ IdInv'
  <2>1. WlTypes'
    BY <1>1, <1>2, <1>3 DEF WlTypes
  <2>2. IdInv'
    BY <1>1, <1>2, <1>3 DEF IdInv
  <2> QED BY <2>1, <2>2
<1>7. LimitsInv'
  <2>1. FiniteInv'
    BY <1>1, <1>4 DEF LimitsInv, FiniteInv, Stay
  <2>2. LimitInv'
    BY <1>1, <1>2, <1>5 DEF LimitsInv, LimitInv
  <2>3. RoomInv'
    BY <1>1, <1>2, <1>4, <1>5 DEF LimitsInv, RoomInv, Inserts, Stay
  <2> QED BY <2>1, <2>2, <2>3 DEF LimitsInv
<1>8. ObjInv'
  <2> SUFFICES ASSUME NEW n \in WlNames \ wlOverlap
               PROVE  OwnsRows(n)'
    BY <1>2 DEF ObjInv
  <2>1. OwnsRows(n) /\ \A r \in WlReqs : ~On(r, n)'
    BY <1>1, <1>3 DEF ObjInv, On
  <2> QED BY <1>1, <1>2, <1>4, <2>1, NameStays
<1> QED BY <1>6, <1>7, <1>8 DEF WlInv

LEMMA PlanKeeps ==
    ASSUME WlInv, NEW t \in WlTenants, CacheExpires(t) \/ \E l \in PlanLimits : UpgradePlan(t, l)
    PROVE  WlInv'
<1>1. WlTypes /\ IdInv /\ LimitsInv /\ ObjInv
  BY DEF WlInv
<1>2. UNCHANGED <<wlRow, wlObject, wlTask, wlRaced, wlOverlap>>
  BY DEF CacheExpires, UpgradePlan
<1>3. Stay
  BY <1>1, <1>2, RowsKept, SameStay
<1>4. /\ wlPlan' \in [WlTenants -> PlanLimits] /\ wlBest' \in [WlTenants -> PlanLimits]
      /\ wlCache' \in [WlTenants -> PlanLimits \cup {Unread}]
      /\ \A u \in WlTenants : Covers(wlBest'[u], wlBest[u]) /\ Covers(wlBest'[u], wlPlan'[u])
      /\ \A u \in WlTenants : wlCache'[u] # Unread => wlCache'[u] = wlCache[u]
  <2>0. \A u \in WlTenants : wlBest[u] \in PlanLimits /\ wlBest[u] \in Nat \cup {-1} /\ Covers(wlBest[u], wlBest[u])
                             /\ Covers(wlBest[u], wlPlan[u])
    <3>1. \A u \in WlTenants : wlBest[u] \in PlanLimits
      BY <1>1 DEF WlTypes
    <3>2. \A u \in WlTenants : wlBest[u] \in Nat \cup {-1}
      BY <3>1, LimitValues
    <3> QED BY <1>1, <3>1, <3>2 DEF Covers, Unlimited, LimitsInv, LimitInv
  <2>1. CASE CacheExpires(t)
    <3>1. UNCHANGED <<wlPlan, wlBest>> /\ wlCache' = [wlCache EXCEPT ![t] = Unread]
      BY <2>1 DEF CacheExpires
    <3> QED BY <1>1, <2>0, <3>1 DEF WlTypes
  <2>2. ASSUME NEW l \in PlanLimits, UpgradePlan(t, l)
        PROVE  /\ wlPlan' \in [WlTenants -> PlanLimits] /\ wlBest' \in [WlTenants -> PlanLimits]
               /\ wlCache' \in [WlTenants -> PlanLimits \cup {Unread}]
               /\ \A u \in WlTenants : Covers(wlBest'[u], wlBest[u]) /\ Covers(wlBest'[u], wlPlan'[u])
               /\ \A u \in WlTenants : wlCache'[u] # Unread => wlCache'[u] = wlCache[u]
    <3>1. PICK b : /\ b = IF Unlimited(l) THEN l ELSE IF Unlimited(wlBest[t]) \/ wlBest[t] > l THEN wlBest[t] ELSE l
                   /\ wlBest' = [wlBest EXCEPT ![t] = b] /\ wlPlan' = [wlPlan EXCEPT ![t] = l]
                   /\ wlCache' = wlCache
      BY <1>1, <2>2 DEF UpgradePlan, WlTypes
    <3>2. b \in PlanLimits /\ Covers(b, l) /\ Covers(b, wlBest[t])
      <4>1. l \in Nat \cup {-1}
        BY LimitValues
      <4> QED BY <2>0, <3>1, <4>1 DEF Covers, Unlimited
    <3> QED BY <1>1, <2>0, <3>1, <3>2 DEF WlTypes
  <2> QED BY <2>1, <2>2
<1>5. WlTypes' /\ IdInv'
  BY <1>1, <1>2, <1>4 DEF WlTypes, IdInv, Active, Early
<1>6. FiniteInv'
  BY <1>1, <1>3 DEF LimitsInv, FiniteInv, Stay
<1>7. LimitInv'
  <2> SUFFICES ASSUME TRUE
               PROVE  /\ \A u \in WlTenants : wlCache'[u] # Unread => Covers(wlBest'[u], wlCache'[u])
                      /\ \A q \in WlReqs : WlAt(q, "count") => Covers(wlBest'[wlTask[q].who], wlTask[q].limit)
    BY <1>2, <1>4 DEF LimitInv, WlAt
  <2>1. \A a, b, c \in PlanLimits \cup {0} : Covers(a, b) /\ Covers(b, c) => Covers(a, c)
    <3> SUFFICES ASSUME NEW a \in PlanLimits \cup {0}, NEW b \in PlanLimits \cup {0}, NEW c \in PlanLimits \cup {0},
                        Covers(a, b), Covers(b, c)
                 PROVE  Covers(a, c)
      OBVIOUS
    <3>1. a \in Nat \cup {-1} /\ b \in Nat \cup {-1} /\ c \in Nat \cup {-1}
      BY LimitValues
    <3> QED BY <3>1 DEF Covers, Unlimited
  <2>2. ASSUME NEW u \in WlTenants, wlCache'[u] # Unread
        PROVE  Covers(wlBest'[u], wlCache'[u])
    <3>1. wlCache'[u] \in PlanLimits /\ wlBest'[u] \in PlanLimits /\ wlBest[u] \in PlanLimits
      BY <1>1, <1>4, <2>2 DEF WlTypes
    <3>2. Covers(wlBest[u], wlCache'[u])
      BY <1>1, <1>4, <2>2 DEF LimitsInv, LimitInv
    <3> QED BY <1>4, <2>1, <3>1, <3>2
  <2>3. ASSUME NEW q \in WlReqs, WlAt(q, "count")
        PROVE  Covers(wlBest'[wlTask[q].who], wlTask[q].limit)
    <3>1. PICK u \in WlTenants : u = wlTask[q].who
      BY <1>1, <2>3 DEF WlTypes, Active, WlAt
    <3>2. wlTask[q].limit \in PlanLimits \cup {0} /\ wlBest'[u] \in PlanLimits /\ wlBest[u] \in PlanLimits
      BY <1>1, <1>4 DEF WlTypes, WlTaskType
    <3>3. Covers(wlBest[u], wlTask[q].limit)
      BY <1>1, <2>3, <3>1 DEF LimitsInv, LimitInv
    <3> QED BY <1>4, <2>1, <3>1, <3>2, <3>3
  <2> QED BY <2>2, <2>3
<1>8. RoomInv'
  <2> SUFFICES ASSUME NEW u \in WlTenants, u \notin wlRaced
               PROVE  /\ \A r, s \in WlReqs : Inserts(r, u) /\ Inserts(s, u) => r = s
                      /\ ~Unlimited(wlBest'[u]) =>
                           /\ Cardinality(Rows(u)) <= wlBest'[u]
                           /\ \A r \in WlReqs : Inserts(r, u) => Cardinality(Rows(u)) + 1 <= wlBest'[u]
    BY <1>2, <1>3 DEF RoomInv, Inserts, WlAt, Stay
  <2>1. /\ \A r, s \in WlReqs : Inserts(r, u) /\ Inserts(s, u) => r = s
        /\ ~Unlimited(wlBest[u]) =>
             /\ Cardinality(Rows(u)) <= wlBest[u]
             /\ \A r \in WlReqs : Inserts(r, u) => Cardinality(Rows(u)) + 1 <= wlBest[u]
    BY <1>1 DEF LimitsInv, RoomInv
  <2>2. Cardinality(Rows(u)) \in Nat
    BY <1>1, FS_CardinalityType DEF LimitsInv, FiniteInv
  <2>3. wlBest[u] \in Nat \cup {-1} /\ wlBest'[u] \in Nat \cup {-1}
    <3>1. wlBest[u] \in PlanLimits /\ wlBest'[u] \in PlanLimits
      BY <1>1, <1>4 DEF WlTypes
    <3> QED BY <3>1, LimitValues
  <2>4. ~Unlimited(wlBest'[u]) => ~Unlimited(wlBest[u]) /\ wlBest[u] <= wlBest'[u]
    BY <1>4 DEF Covers
  <2>5. ~Unlimited(wlBest'[u]) => Cardinality(Rows(u)) <= wlBest'[u]
    BY <2>1, <2>2, <2>3, <2>4
  <2>6. ~Unlimited(wlBest'[u]) => \A r \in WlReqs : Inserts(r, u) => Cardinality(Rows(u)) + 1 <= wlBest'[u]
    BY <2>1, <2>2, <2>3, <2>4
  <2> QED BY <2>1, <2>5, <2>6
<1>9. ObjInv'
  <2> SUFFICES ASSUME NEW n \in WlNames \ wlOverlap
               PROVE  OwnsRows(n)'
    BY <1>2 DEF ObjInv
  <2>1. OwnsRows(n)
    BY <1>1 DEF ObjInv
  <2>2. \A r \in WlReqs : On(r, n)' => On(r, n) /\ wlTask'[r] = wlTask[r]
    BY <1>2 DEF On, Active
  <2>3. \A r, s \in WlReqs : On(r, n)' /\ On(s, n)' => r = s
    BY <2>1, <2>2 DEF OwnsRows
  <2> QED BY <1>1, <1>2, <1>3, <2>1, <2>2, <2>3, NameStays
<1> QED BY <1>5, <1>6, <1>7, <1>8, <1>9 DEF WlInv, LimitsInv

\* No step of a handler, no death of the process and no change of plan breaks it.
LEMMA WlKeeps == WlInv /\ [WorkloadNext]_wlState => WlInv'
<1> SUFFICES ASSUME WlInv, [WorkloadNext]_wlState
             PROVE  WlInv'
  OBVIOUS
<1>1. CASE UNCHANGED wlState
  <2>1. UNCHANGED <<wlRow, wlObject, wlTask, wlPlan, wlCache, wlBest, wlRaced, wlOverlap>>
    BY <1>1 DEF wlState
  <2>2. WlTypes' /\ IdInv'
    BY <2>1 DEF WlInv, WlTypes, IdInv, Active, Early
  <2>3. LimitsInv'
    BY <2>1 DEF WlInv, LimitsInv, FiniteInv, LimitInv, RoomInv, Rows, Inserts, WlAt
  <2>4. ObjInv'
    BY <2>1 DEF WlInv, ObjInv, OwnsRows, On, Active, Has, Rows, WlAt
  <2> QED BY <2>2, <2>3, <2>4 DEF WlInv
<1>2. CASE WorkloadNext
  <2>1. CASE ApiDies
    BY <2>1, DeathKeeps
  <2>2. ASSUME NEW t \in WlTenants, CacheExpires(t) \/ \E l \in PlanLimits : UpgradePlan(t, l)
        PROVE  WlInv'
    BY <2>2, PlanKeeps
  <2>3. ASSUME NEW q \in WlReqs, NEW t \in WlTenants, NEW n \in WlNames, GateLimit(q, t, n)
        PROVE  WlInv'
    BY <2>3, GateLimitKeeps
  <2>4. ASSUME NEW q \in WlReqs, NEW r \in WlReqs, NEW op \in {"delete", "put", "deploy"}, ReadWorkload(q, op, r)
        PROVE  WlInv'
    BY <2>4, ReadKeepsWl
  <2>5. ASSUME NEW q \in WlReqs, SetStatus(q) \/ RestartWorkload(q) \/ \E c \in {"image", "env"} : PutWorkload(q, c)
        PROVE  WlInv'
    BY <2>5, WriteKeeps
  <2>6. ASSUME NEW q \in WlReqs, GateCount(q) \/ InsertWorkload(q) \/ ApplyPart(q) \/ RemovePart(q) \/ DeleteRow(q)
        PROVE  WlInv'
    BY <2>6, GateCountKeeps, InsertKeepsWl, ApplyKeeps, RemoveKeeps, DeleteRowKeeps
  <2> QED BY <1>2, <2>1, <2>2, <2>3, <2>4, <2>5, <2>6 DEF WorkloadNext
<1> QED BY <1>1, <1>2

LEMMA WlHolds == WlInv => WithinPlan /\ NoOrphans
<1> SUFFICES ASSUME WlInv
             PROVE  WithinPlan /\ NoOrphans
  OBVIOUS
<1>1. WithinPlan
  BY DEF WlInv, LimitsInv, RoomInv, WithinPlan
<1>2. NoOrphans
  <2> SUFFICES ASSUME NEW n \in WlNames \ wlOverlap, NEW p \in 1..Len(WlParts), wlObject[n][p] # "none",
                      ~BestEffort(p)
               PROVE  \E r \in Rows(wlObject[n][p]) : wlRow[r].name = n
    BY DEF NoOrphans
  <2>1. Has(wlObject[n][p], n)
    BY DEF WlInv, ObjInv, OwnsRows, Kept
  <2> QED BY <2>1 DEF Has
<1> QED BY <1>1, <1>2

-----------------------------------------------------------------------------
(***************************************************************************)
(* The namespace                                                           *)
(***************************************************************************)
\* Where the steps of provisionNamespace stand.
LEMMA StepsOfNamespace ==
    /\ Len(NsPolicies) \in Nat /\ Len(NsSteps) = Len(NsPolicies) + 3
    /\ NsSteps[1] = "namespace" /\ NsSteps[Len(NsPolicies) + 3] = "limits"
    /\ \A i \in 1..Len(NsPolicies) : NsSteps[i + 1] = NsPolicies[i] /\ NsPolicies[i] # "quota"
    /\ \A i \in 1..Len(NsSteps) : NsSteps[i] = "quota" => i = Len(NsPolicies) + 2
BY ApiWorkloadsAssumption DEF NsSteps

\* A call that is at a step has done those before it.
NsInv ==
    /\ nsTask \in [NsReqs -> [step : Nat, plan : NsPlans \cup {"none"}]]
    /\ \A q \in NsReqs : nsTask[q].step \in 1..Len(NsSteps) =>
         \A i \in 1..Len(NsSteps) : i < nsTask[q].step => NsSteps[i] \in nsObject
    /\ PoliciesBeforeQuota

LEMMA NsStarts == WorkloadsInit => NsInv
BY DEF WorkloadsInit, NsInv, PoliciesBeforeQuota

LEMMA NsKeeps == NsInv /\ [NamespaceNext]_nsState => NsInv'
<1> SUFFICES ASSUME NsInv, [NamespaceNext]_nsState
             PROVE  NsInv'
  OBVIOUS
<1>1. CASE UNCHANGED nsState
  BY <1>1 DEF nsState, NsInv, PoliciesBeforeQuota
<1>2. ASSUME NEW q \in NsReqs, NEW p \in NsPlans, ProvisionCall(q, p)
      PROVE  NsInv'
  <2>1. nsTask' = [nsTask EXCEPT ![q] = [step |-> 1, plan |-> p]] /\ UNCHANGED <<nsObject, nsQuota>>
    BY <1>2 DEF ProvisionCall
  <2>2. nsTask' \in [NsReqs -> [step : Nat, plan : NsPlans \cup {"none"}]]
    BY <2>1 DEF NsInv
  <2>3. ASSUME NEW r \in NsReqs, nsTask'[r].step \in 1..Len(NsSteps),
               NEW i \in 1..Len(NsSteps), i < nsTask'[r].step
        PROVE  NsSteps[i] \in nsObject
    <3>1. r # q
      BY <2>1, <2>3, StepsOfNamespace DEF NsInv
    <3> QED BY <2>1, <2>3, <3>1 DEF NsInv
  <2> QED BY <2>1, <2>2, <2>3 DEF NsInv, PoliciesBeforeQuota
<1>3. ASSUME NEW q \in NsReqs, ProvisionThrows(q)
      PROVE  NsInv'
  <2>1. nsTask' = [nsTask EXCEPT ![q].step = Len(NsSteps) + 1] /\ UNCHANGED <<nsObject, nsQuota>>
    BY <1>3 DEF ProvisionThrows
  <2>2. nsTask' \in [NsReqs -> [step : Nat, plan : NsPlans \cup {"none"}]]
        /\ nsTask'[q].step = Len(NsSteps) + 1 /\ \A r \in NsReqs \ {q} : nsTask'[r] = nsTask[r]
    BY <2>1, StepsOfNamespace, SMTT(20) DEF NsInv
  <2>3. nsTask'[q].step \notin 1..Len(NsSteps)
    BY <2>2, StepsOfNamespace
  <2>4. \A r \in NsReqs : nsTask'[r].step \in 1..Len(NsSteps) => nsTask'[r] = nsTask[r]
    BY <2>2, <2>3
  <2> QED BY <2>1, <2>2, <2>4 DEF NsInv, PoliciesBeforeQuota
<1>4. ASSUME NEW q \in NsReqs, ProvisionObject(q)
      PROVE  NsInv'
  <2>1. PICK i : i = nsTask[q].step
    OBVIOUS
  <2>2. /\ i \in 1..Len(NsSteps) /\ nsTask' = [nsTask EXCEPT ![q].step = i + 1]
        /\ nsObject' = nsObject \cup {NsSteps[i]}
        /\ nsQuota' = IF NsSteps[i] = "quota" THEN nsTask[q].plan ELSE nsQuota
    BY <1>4, <2>1 DEF ProvisionObject
  <2>3. nsTask' \in [NsReqs -> [step : Nat, plan : NsPlans \cup {"none"}]]
        /\ nsTask'[q].step = i + 1 /\ \A r \in NsReqs \ {q} : nsTask'[r] = nsTask[r]
    BY <2>2, StepsOfNamespace DEF NsInv
  <2>4. \A j \in 1..Len(NsSteps) : j < i => NsSteps[j] \in nsObject
    BY <2>1, <2>2 DEF NsInv
  <2>5. ASSUME NEW r \in NsReqs, nsTask'[r].step \in 1..Len(NsSteps),
               NEW j \in 1..Len(NsSteps), j < nsTask'[r].step
        PROVE  NsSteps[j] \in nsObject'
    <3>1. CASE r = q
      <4>1. j < i \/ j = i
        BY <2>2, <2>3, <2>5, <3>1
      <4> QED BY <2>2, <2>4, <4>1
    <3>2. CASE r # q
      BY <2>2, <2>3, <2>5, <3>2 DEF NsInv
    <3> QED BY <3>1, <3>2
  <2>6. PoliciesBeforeQuota'
    <3> SUFFICES ASSUME nsQuota' # "none", NEW j \in 1..Len(NsPolicies)
                 PROVE  NsPolicies[j] \in nsObject'
      BY DEF PoliciesBeforeQuota
    <3>1. CASE NsSteps[i] = "quota"
      <4>1. j + 1 \in 1..Len(NsSteps) /\ j + 1 < i /\ NsSteps[j + 1] = NsPolicies[j]
        BY <2>2, <3>1, StepsOfNamespace
      <4> QED BY <2>2, <2>4, <4>1
    <3>2. CASE NsSteps[i] # "quota"
      BY <2>2, <3>2 DEF NsInv, PoliciesBeforeQuota
    <3> QED BY <3>1, <3>2
  <2> QED BY <2>3, <2>5, <2>6 DEF NsInv
<1> QED BY <1>1, <1>2, <1>3, <1>4 DEF NamespaceNext

-----------------------------------------------------------------------------
\* The three parts of the module leave each other alone.
LEMMA WorkloadFrame == WorkloadNext => UNCHANGED <<nsState, volState>>
<1>1. \A q \in WlReqs : GateCount(q) \/ InsertWorkload(q) \/ ApplyPart(q) \/ SetStatus(q) \/ RemovePart(q)
                         \/ DeleteRow(q) \/ RestartWorkload(q) => UNCHANGED <<nsState, volState>>
  BY DEF GateCount, InsertWorkload, ApplyPart, SetStatus, RemovePart, DeleteRow, RestartWorkload
<1>2. \A q, c : PutWorkload(q, c) => UNCHANGED <<nsState, volState>>
  BY DEF PutWorkload
<1>3. \A q, t, n, op, r : GateLimit(q, t, n) \/ ReadWorkload(q, op, r) => UNCHANGED <<nsState, volState>>
  BY DEF GateLimit, ReadWorkload
<1>4. \A t, l : CacheExpires(t) \/ UpgradePlan(t, l) => UNCHANGED <<nsState, volState>>
  BY DEF CacheExpires, UpgradePlan
<1>5. ApiDies => UNCHANGED <<nsState, volState>>
  BY DEF ApiDies
<1> QED BY <1>1, <1>2, <1>3, <1>4, <1>5 DEF WorkloadNext

LEMMA NamespaceFrame == NamespaceNext => UNCHANGED <<wlState, volState>>
BY DEF NamespaceNext, ProvisionCall, ProvisionObject, ProvisionThrows

LEMMA VolumeFrame == VolumeNext => UNCHANGED <<wlState, nsState>>
BY DEF VolumeNext, CreateClaim, PatchMount, InsertVolume, DeleteVolume, DeleteClaim, DeleteVolumeRow

LEMMA LimitsStep == [ApiNext]_ApiVars => [WorkloadNext]_wlState /\ [NamespaceNext]_nsState
<1> SUFFICES ASSUME [ApiNext]_ApiVars
             PROVE  [WorkloadNext]_wlState /\ [NamespaceNext]_nsState
  OBVIOUS
<1>1. UNCHANGED workloadVars \/ WorkloadNext \/ NamespaceNext \/ VolumeNext
  BY DEF ApiNext, ApiVars, AppStepped, WorkloadStepped, ProjectStepped, AuthStepped, DataStepped, FirstHalf
<1>2. CASE UNCHANGED workloadVars
  BY <1>2 DEF workloadVars
<1>3. CASE WorkloadNext
  BY <1>3, WorkloadFrame
<1>4. CASE NamespaceNext
  BY <1>4, NamespaceFrame
<1>5. CASE VolumeNext
  BY <1>5, VolumeFrame
<1> QED BY <1>1, <1>2, <1>3, <1>4, <1>5

(* A tenant keeps to the best plan it has had, whatever limit a request read *)
(* from the cache, unless two of its requests were between the gate's count  *)
(* and the insert at once (planGate.ts, workloads.ts).                       *)
THEOREM TenantsKeepToTheirPlan == ApiSpec => []WithinPlan
<1>1. ApiInit => WlInv
  BY WlStarts DEF ApiInit
<1>2. WlInv /\ [ApiNext]_ApiVars => WlInv'
  BY WlKeeps, LimitsStep
<1>3. WlInv => WithinPlan
  BY WlHolds
<1> QED BY <1>1, <1>2, <1>3, PTL DEF ApiSpec

(* A namespace has its quota only with all of its network policies, whichever *)
(* calls of provisionNamespace failed or raced.                               *)
THEOREM QuotaComesAfterPolicies == ApiSpec => []PoliciesBeforeQuota
<1>1. ApiInit => NsInv
  BY NsStarts DEF ApiInit
<1>2. NsInv /\ [ApiNext]_ApiVars => NsInv'
  BY NsKeeps, LimitsStep
<1>3. NsInv => PoliciesBeforeQuota
  BY DEF NsInv
<1> QED BY <1>1, <1>2, <1>3, PTL DEF ApiSpec

(* Both limits hold at every step of the API, whatever races. *)
THEOREM LimitsAreKept == ApiSpec => []LimitsHold
<1>1. WithinPlan /\ PoliciesBeforeQuota => LimitsHold
  BY DEF LimitsHold
<1> QED BY <1>1, TenantsKeepToTheirPlan, QuotaComesAfterPolicies, PTL

(* An object in the cluster belongs to a workload that has a row, whatever  *)
(* failed and wherever the process died, for every name that one request    *)
(* uses at a time and for every object but the ScaledObject, whose failed   *)
(* deletion is swallowed (workloads.ts, deployToK8s, deleteK8sResources).   *)
THEOREM NothingIsOrphaned == ApiSpec => []NoOrphans
<1>1. ApiInit => WlInv
  BY WlStarts DEF ApiInit
<1>2. WlInv /\ [ApiNext]_ApiVars => WlInv'
  BY WlKeeps, LimitsStep
<1>3. WlInv => NoOrphans
  BY WlHolds
<1> QED BY <1>1, <1>2, <1>3, PTL DEF ApiSpec
(***************************************************************************)
(* Records that are written apart                                          *)
(***************************************************************************)
\* A step of the API is one of the projects, one of the bills, one of what is
\* generated and observed, or leaves them alone.
LEMMA RecordsStep == [ApiNext]_ApiVars => /\ [PrjStep]_projectVars
                                          /\ [ApiBillingNext]_apiBillingVars
                                          /\ [CodegenNext \/ ForgeNext \/ ObsNext]_assistVars
<1> SUFFICES ASSUME [ApiNext]_ApiVars
             PROVE  /\ [PrjStep]_projectVars
                    /\ [ApiBillingNext]_apiBillingVars
                    /\ [CodegenNext \/ ForgeNext \/ ObsNext]_assistVars
  OBVIOUS
<1>1. ProjectStepped => PrjStep
  BY DEF ProjectStepped, PrjStep, ProjectNext
<1>2. UNCHANGED projectVars \/ ProjectStepped
  BY DEF ApiNext, ApiVars, AppStepped, WorkloadStepped, AuthStepped, DataStepped, FirstHalf
<1>3. UNCHANGED apiBillingVars \/ MoneyStepped
  BY DEF ApiNext, ApiVars, PrivacyStepped, MailStepped, AssistStepped, SecondHalf
<1>4. UNCHANGED assistVars \/ AssistStepped
  BY DEF ApiNext, ApiVars, PrivacyStepped, MailStepped, MoneyStepped, SecondHalf
<1>5. MoneyStepped => ApiBillingNext
  BY DEF MoneyStepped, ApiBillingNext
<1>6. AssistStepped => CodegenNext \/ ForgeNext \/ ObsNext
  BY DEF AssistStepped
<1> QED BY <1>1, <1>2, <1>3, <1>4, <1>5, <1>6

(* A project whose creation was answered keeps its production environment,  *)
(* no two projects share a slug, and the history of a flag knows the value  *)
(* it has, whatever creates, renames, deletions and updates race and        *)
(* wherever their handlers end (projects.ts, featureFlags.ts).              *)
THEOREM ProjectsAreWhole == ApiSpec => [](CreatedHaveProduction /\ FlagsAreRecorded)
<1>1. ApiInit => PrjInv
  BY PrjInitHolds DEF ApiInit
<1>2. PrjInv /\ [ApiNext]_ApiVars => PrjInv'
  BY PrjKeeps, RecordsStep
<1>3. PrjInv => CreatedHaveProduction /\ FlagsAreRecorded
  BY DEF PrjInv
<1> QED BY <1>1, <1>2, <1>3, PTL DEF ApiSpec

(* A deployment answered 201 without a warning left every file of its job   *)
(* in the repository of its name, and nobody else's, whichever deployments  *)
(* of the name raced and whichever replicas restarted (codegen.ts).         *)
THEOREM DeploymentsAreWhole == ApiSpec => []DeployedWhole
<1>1. ApiInit => CgInv
  BY CgStarts DEF ApiInit
<1>2. CgInv /\ [ApiNext]_ApiVars => CgInv'
  BY CgKeeps, RecordsStep
<1> QED BY <1>1, <1>2, CgDeploysWhole, PTL DEF ApiSpec

\* The types of what is generated and observed; the views of the rows add up.
THEOREM ViewsAddUp == ApiSpec => []AssistTypeOK
<1>1. ApiInit => CgInv /\ ObsInv
  BY CgStarts, ObsStarts DEF ApiInit
<1>2. CgInv /\ ObsInv /\ [ApiNext]_ApiVars => CgInv' /\ ObsInv'
  BY CgKeeps, ObsKeeps, RecordsStep
<1> QED BY <1>1, <1>2, AssistTyped, PTL DEF ApiSpec

(* Records that are written apart agree, at every step of the API. *)
THEOREM RecordsKeepAgreeing == ApiSpec => []RecordsAgree
<1>1. ApiInit => AddInv
  BY AddStarts DEF ApiInit
<1>2. AddInv /\ [ApiNext]_ApiVars => AddInv'
  BY BillsKeep, RecordsStep
<1>3. AddInv => InvoiceAddsUp
  BY DEF AddInv, GenTypes, InvType, LinesAdd, InvoiceAddsUp
<1>4. ApiSpec => []InvoiceAddsUp
  BY <1>1, <1>2, <1>3, PTL DEF ApiSpec
<1>5. NoOrphans /\ CreatedHaveProduction /\ FlagsAreRecorded /\ InvoiceAddsUp /\ DeployedWhole => RecordsAgree
  BY DEF RecordsAgree
<1> QED BY <1>4, <1>5, NothingIsOrphaned, ProjectsAreWhole, DeploymentsAreWhole, PTL

(***************************************************************************)
(* What every variable of the API holds                                    *)
(***************************************************************************)
\* Databases and their branches: a request that is about to insert a branch
\* has read the row of the database.
DbPcs == {"none", "insert", "delete", "audit", "branch", "unbranch", "answered", "done"}
DbTaskType == [pc : DbPcs, db : DbReqs \cup {0}, name : Branches \cup {"none"}]
PgState ==
    /\ dbRow \in DbReqs \cup {0} /\ dbUsable \in BOOLEAN /\ dbReal \subseteq DbReqs
    /\ dbJobs \subseteq {"create", "drop"} \X DbReqs /\ dbAudit \subseteq DbReqs
    /\ branchRows \subseteq DbReqs \X Branches /\ branchCRs \subseteq DbReqs \X DbReqs
PgInv ==
    /\ PgState /\ dbTask \in [DbReqs -> DbTaskType]
    /\ \A q \in DbReqs : DbAt(q, "branch") => dbTask[q].db \in DbReqs /\ dbTask[q].name \in Branches

\* Buckets and clusters.
StoreStates == {"none", "provisioning", "active", "running", "suspended", "error", "deleting", "stopping"}
StoreRowType == [kind : {"none", "bucket", "database"}, name : StoreNames \cup {"none"}, status : StoreStates]
StoreInv ==
    /\ storeRow \in [StoreReqs -> StoreRowType] /\ storeReal \subseteq StoreReqs
    /\ storeTask \in [StoreReqs -> [pc : {"none", "insert", "remove", "done"}, row : StoreRowType,
                                    id : StoreReqs \cup {0}]]

\* Inference endpoints: what a request will write is a status, or nothing new.
EndInv ==
    /\ endRow \in {"none", "active", "paused", "deleted"} /\ endGone \in BOOLEAN
    /\ endTask \in [EndReqs -> [pc : {"none", "write", "done"}, to : {"none", "active", "paused", "same", "deleted"}]]
DataInv == PgInv /\ StoreInv /\ EndInv

LEMMA DataStarts == DataInit => DataInv
<1> SUFFICES ASSUME DataInit PROVE DataInv
  OBVIOUS
<1>1. PgInv
  <2>1. DbIdle \in DbTaskType /\ DbIdle.pc = "none"
    BY DEF DbIdle, DbTaskType, DbPcs
  <2> QED BY <2>1 DEF DataInit, PgInv, PgState, DbAt
<1>2. StoreInv
  <2>1. NoStore \in StoreRowType
    BY DEF NoStore, StoreRowType, StoreStates
  <2> QED BY <2>1 DEF DataInit, StoreInv, StoreIdle
<1>3. EndInv
  BY DEF DataInit, EndInv
<1> QED BY <1>1, <1>2, <1>3 DEF DataInv

\* A step of one request on the database.
LEMMA DbMoves ==
    ASSUME PgInv, PgState', NEW q \in DbReqs, NEW pc \in DbPcs, NEW db \in DbReqs \cup {0},
           NEW n \in Branches \cup {"none"}, DbGo(q, pc, db, n),
           pc = "branch" => db \in DbReqs /\ n \in Branches
    PROVE  PgInv'
<1>1. [pc |-> pc, db |-> db, name |-> n] \in DbTaskType
  BY DEF DbTaskType
<1>2. dbTask' \in [DbReqs -> DbTaskType]
  BY <1>1 DEF DbGo, PgInv
<1>3. dbTask'[q] = [pc |-> pc, db |-> db, name |-> n] /\ \A r \in DbReqs \ {q} : dbTask'[r] = dbTask[r]
  BY DEF DbGo, PgInv
<1> QED BY <1>2, <1>3 DEF PgInv, DbAt

LEMMA PgKeeps == PgInv /\ [DbNext]_pgVars => PgInv'
<1> SUFFICES ASSUME PgInv, [DbNext]_pgVars PROVE PgInv'
  OBVIOUS
<1>0. PgState /\ \A q \in DbReqs : dbTask[q].db \in DbReqs \cup {0} /\ dbTask[q].name \in Branches \cup {"none"}
  BY DEF PgInv, DbTaskType
<1>1. CASE UNCHANGED pgVars
  BY <1>1 DEF pgVars, PgInv, PgState, DbAt
<1>2. ASSUME NEW q \in DbReqs, AskDatabase(q) PROVE PgInv'
  <2>1. PgState'
    BY <1>0, <1>2 DEF AskDatabase, PgState
  <2> QED BY <1>2, <2>1, DbMoves DEF AskDatabase, DbPcs
<1>3. ASSUME NEW q \in DbReqs, InsertDatabase(q) PROVE PgInv'
  <2>1. PgState'
    BY <1>0, <1>3 DEF InsertDatabase, PgState
  <2> QED BY <1>3, <2>1, DbMoves DEF InsertDatabase, DbPcs
<1>4. ASSUME NEW q \in DbReqs, DropDatabase(q) PROVE PgInv'
  <2>1. PgState'
    BY <1>0, <1>4 DEF DropDatabase, PgState
  <2> QED BY <1>0, <1>4, <2>1, DbMoves DEF DropDatabase, DbPcs, PgState
<1>5. ASSUME NEW q \in DbReqs, DeleteDatabaseRow(q) PROVE PgInv'
  <2>1. PgState'
    BY <1>0, <1>5 DEF DeleteDatabaseRow, PgState
  <2> QED BY <1>0, <1>5, <2>1, DbMoves DEF DeleteDatabaseRow, DbPcs
<1>6. ASSUME NEW j \in dbJobs, RunPsqlJob(j) PROVE PgInv'
  <2>1. PgState'
    BY <1>0, <1>6 DEF RunPsqlJob, PgState
  <2> QED BY <1>6, <2>1 DEF RunPsqlJob, PgInv, DbAt
<1>7. CASE MarkAvailable
  BY <1>7 DEF MarkAvailable, PgInv, PgState, DbAt
<1>8. ASSUME NEW q \in DbReqs, QueryDatabase(q) \/ ProxyToPostgrest(q) \/ AuditQuery(q) PROVE PgInv'
  <2>1. PgState'
    BY <1>0, <1>8 DEF QueryDatabase, ProxyToPostgrest, AuditQuery, PgState
  <2> QED BY <1>0, <1>8, <2>1, DbMoves DEF QueryDatabase, ProxyToPostgrest, AuditQuery, DbPcs, PgState
<1>9. ASSUME NEW q \in DbReqs, NEW b \in Branches, CreateBranch(q, b) PROVE PgInv'
  <2>1. PgState'
    BY <1>0, <1>9 DEF CreateBranch, PgState
  <2> QED BY <1>0, <1>9, <2>1, DbMoves DEF CreateBranch, DbPcs, PgState
<1>10. ASSUME NEW q \in DbReqs, InsertBranch(q) PROVE PgInv'
  <2>1. dbTask[q].db \in DbReqs /\ dbTask[q].name \in Branches
    BY <1>10 DEF InsertBranch, PgInv
  <2>2. PgState'
    BY <1>0, <1>10, <2>1 DEF InsertBranch, PgState
  <2> QED BY <1>10, <2>1, <2>2, DbMoves DEF InsertBranch, DbPcs
<1>11. ASSUME NEW q \in DbReqs, NEW b \in Branches, DeleteBranch(q, b) PROVE PgInv'
  <2>1. PgState'
    BY <1>0, <1>11 DEF DeleteBranch, PgState
  <2> QED BY <1>0, <1>11, <2>1, DbMoves DEF DeleteBranch, DbPcs, PgState
<1>12. ASSUME NEW q \in DbReqs, DeleteBranchRow(q) PROVE PgInv'
  <2>1. PgState'
    BY <1>0, <1>12 DEF DeleteBranchRow, PgState
  <2> QED BY <1>0, <1>12, <2>1, DbMoves DEF DeleteBranchRow, DbPcs
<1> QED BY <1>1, <1>2, <1>3, <1>4, <1>5, <1>6, <1>7, <1>8, <1>9, <1>10, <1>11, <1>12
        DEF DbNext, VectorSearch, ProxyTable

LEMMA StoreKeeps == StoreInv /\ [StoreNext]_storeVars => StoreInv'
<1> SUFFICES ASSUME StoreInv, [StoreNext]_storeVars PROVE StoreInv'
  OBVIOUS
<1>0. ASSUME NEW i, NEW s \in StoreStates, Status(i, s)
      PROVE  storeRow' \in [StoreReqs -> StoreRowType]
  <2>1. ASSUME NEW r \in StoreRowType PROVE [r EXCEPT !.status = s] \in StoreRowType
    BY DEF StoreRowType
  <2>2. storeRow \in [StoreReqs -> StoreRowType] /\ storeRow' = [storeRow EXCEPT ![i].status = s]
    BY <1>0 DEF Status, StoreInv
  <2> QED BY <2>1, <2>2
<1>1. CASE UNCHANGED storeVars
  BY <1>1 DEF storeVars, StoreInv
<1>2. ASSUME NEW q \in StoreReqs, NEW kind \in {"bucket", "database"}, NEW n \in StoreNames, AskStore(q, kind, n)
      PROVE  StoreInv'
  BY <1>2 DEF AskStore, StoreGo, StoreInv, StoreRowType, StoreStates
<1>3. ASSUME NEW q \in StoreReqs, InsertStore(q) PROVE StoreInv'
  <2>1. NoStore \in StoreRowType
    BY DEF NoStore, StoreRowType, StoreStates
  <2> QED BY <1>3, <2>1 DEF InsertStore, StoreGo, StoreInv
<1>4. ASSUME NEW q \in StoreReqs, NEW i \in StoreReqs, AskRemoval(q, i) PROVE StoreInv'
  <2>1. NoStore \in StoreRowType
    BY DEF NoStore, StoreRowType, StoreStates
  <2> QED BY <1>4, <2>1 DEF AskRemoval, StoreGo, StoreInv
<1>5. ASSUME NEW q \in StoreReqs, SetRemoval(q) PROVE StoreInv'
  <2>1. NoStore \in StoreRowType
    BY DEF NoStore, StoreRowType, StoreStates
  <2>2. storeRow' \in [StoreReqs -> StoreRowType]
    BY <1>0, <1>5 DEF SetRemoval, StoreStates
  <2>3. storeTask[q].id \in StoreReqs \cup {0}
    BY DEF StoreInv
  <2> QED BY <1>5, <2>1, <2>2, <2>3 DEF SetRemoval, StoreGo, StoreInv
<1>6. ASSUME NEW i \in StoreReqs, ProvisionerClaims(i) PROVE StoreInv'
  <2>1. storeRow' \in [StoreReqs -> StoreRowType]
    BY <1>0, <1>6 DEF ProvisionerClaims, StoreStates
  <2> QED BY <1>6, <2>1 DEF ProvisionerClaims, StoreInv
<1>7. ASSUME NEW i \in StoreReqs, ProvisionerEnds(i) PROVE StoreInv'
  <2>1. storeRow' = storeRow \/ Status(i, "active") \/ Status(i, "suspended") \/ Status(i, "error")
    BY <1>7 DEF ProvisionerEnds, Status
  <2>2. storeRow' \in [StoreReqs -> StoreRowType]
    BY <1>0, <2>1 DEF StoreStates, StoreInv
  <2> QED BY <1>7, <2>2 DEF ProvisionerEnds, StoreInv
<1> QED BY <1>1, <1>2, <1>3, <1>4, <1>5, <1>6, <1>7 DEF StoreNext, AskBucket, AskCluster

LEMMA EndKeeps == EndInv /\ [EndNext]_endVars => EndInv'
<1> SUFFICES ASSUME EndInv, [EndNext]_endVars PROVE EndInv'
  OBVIOUS
<1>1. CASE UNCHANGED endVars
  BY <1>1 DEF endVars, EndInv
<1>2. ASSUME NEW q \in EndReqs, CreateEndpoint(q) \/ PatchEndpoint(q) \/ DeleteEndpoint(q) PROVE EndInv'
  <2>1. endTask[q].to \in {"none", "active", "paused", "same", "deleted"}
    BY DEF EndInv
  <2>2. EndGo(q, "done", "none")
    BY <1>2 DEF CreateEndpoint, PatchEndpoint, DeleteEndpoint
  <2>3. endTask' \in [EndReqs -> [pc : {"none", "write", "done"}, to : {"none", "active", "paused", "same", "deleted"}]]
    BY <2>2 DEF EndGo, EndInv
  <2>4. endRow' \in {"none", "active", "paused", "deleted"} /\ endGone' \in BOOLEAN
    BY <1>2, <2>1 DEF CreateEndpoint, PatchEndpoint, DeleteEndpoint, EndInv
  <2> QED BY <2>3, <2>4 DEF EndInv
<1>3. ASSUME NEW q \in EndReqs, NEW to \in {"active", "paused", "same", "deleted"}, ReadEndpoint(q, to) PROVE EndInv'
  BY <1>3 DEF ReadEndpoint, EndGo, EndInv
<1> QED BY <1>1, <1>2, <1>3 DEF EndNext

\* The three parts of the data services leave each other alone.
LEMMA DataKeeps == DataInv /\ [DbNext \/ StoreNext \/ EndNext]_dataVars => DataInv'
<1>1. DbNext => UNCHANGED <<storeVars, endVars>>
  BY DEF DbNext, AskDatabase, InsertDatabase, DropDatabase, DeleteDatabaseRow, QueryDatabase, VectorSearch, AuditQuery,
         ProxyToPostgrest, ProxyTable, InsertBranch, DeleteBranchRow, CreateBranch, DeleteBranch, RunPsqlJob,
         MarkAvailable
<1>2. StoreNext => UNCHANGED <<pgVars, endVars>>
  BY DEF StoreNext, InsertStore, SetRemoval, AskBucket, AskCluster, AskStore, AskRemoval, ProvisionerClaims,
         ProvisionerEnds
<1>3. EndNext => UNCHANGED <<pgVars, storeVars>>
  BY DEF EndNext, CreateEndpoint, PatchEndpoint, DeleteEndpoint, ReadEndpoint
<1> QED BY <1>1, <1>2, <1>3, PgKeeps, StoreKeeps, EndKeeps DEF DataInv, dataVars

LEMMA DataTyped == DataInv => DataTypeOK
BY DEF DataInv, PgInv, PgState, DbTaskType, StoreInv, StoreRowType, EndInv, DataTypeOK

-----------------------------------------------------------------------------
\* Volumes: a request that has begun is about one claim, and none but its own
\* steps leave the types behind.
VolPcs == {"none", "mount", "row", "unmount", "unclaim", "delrow", "done"}
VolInv ==
    /\ volClaim \subseteq VolReqs /\ volRow \subseteq VolReqs
    /\ volMount \in [ver : Nat, pvcs : SUBSET VolReqs]
    /\ volTask \in [VolReqs -> [pc : VolPcs, pvc : VolReqs \cup {0}, ver : Nat]]
    /\ \A q \in VolReqs : volTask[q].pc # "none" => volTask[q].pvc \in VolReqs

\* The objects of a namespace are those of its steps.
NsTypes ==
    /\ nsObject \subseteq {NsSteps[i] : i \in 1..Len(NsSteps)} /\ nsQuota \in NsPlans \cup {"none"}
    /\ nsTask \in [NsReqs -> [step : Nat, plan : NsPlans \cup {"none"}]]

LEMMA VolStarts == WorkloadsInit => VolInv
BY DEF WorkloadsInit, VolInv, VolPcs

LEMMA VolGoes ==
    ASSUME VolInv, NEW q \in VolReqs, NEW pc \in VolPcs, VolGo(q, pc), volTask[q].pc # "none",
           volClaim' \subseteq VolReqs, volRow' \subseteq VolReqs,
           volMount' \in [ver : Nat, pvcs : SUBSET VolReqs]
    PROVE  VolInv'
<1>1. /\ volTask' \in [VolReqs -> [pc : VolPcs, pvc : VolReqs \cup {0}, ver : Nat]]
      /\ \A r \in VolReqs : volTask'[r].pvc = volTask[r].pvc
      /\ \A r \in VolReqs \ {q} : volTask'[r] = volTask[r]
  BY DEF VolInv, VolGo
<1> QED BY <1>1 DEF VolInv

LEMMA VolBegins ==
    ASSUME VolInv, NEW q \in VolReqs, NEW pc \in VolPcs, NEW v \in VolReqs,
           volTask' = [volTask EXCEPT ![q] = [pc |-> pc, pvc |-> v, ver |-> volMount.ver]],
           volClaim' \subseteq VolReqs, UNCHANGED <<volRow, volMount>>
    PROVE  VolInv'
<1>1. volMount.ver \in Nat
  BY DEF VolInv
<1>2. volTask' \in [VolReqs -> [pc : VolPcs, pvc : VolReqs \cup {0}, ver : Nat]]
  BY <1>1 DEF VolInv
<1>3. volTask'[q].pvc = v /\ \A r \in VolReqs \ {q} : volTask'[r] = volTask[r]
  BY DEF VolInv
<1> QED BY <1>2, <1>3 DEF VolInv

LEMMA VolKeeps == VolInv /\ [VolumeNext]_volState => VolInv'
<1> SUFFICES ASSUME VolInv, [VolumeNext]_volState PROVE VolInv'
  OBVIOUS
<1>0. /\ volMount \in [ver : Nat, pvcs : SUBSET VolReqs] /\ volClaim \subseteq VolReqs /\ volRow \subseteq VolReqs
      /\ \A q \in VolReqs : volTask[q].ver \in Nat /\ (volTask[q].pc # "none" => volTask[q].pvc \in VolReqs)
  BY DEF VolInv
<1>1. CASE UNCHANGED volState
  BY <1>1 DEF volState, VolInv
<1>2. ASSUME NEW q \in VolReqs, CreateClaim(q) PROVE VolInv'
  <2>1. /\ volTask' = [volTask EXCEPT ![q] = [pc |-> "mount", pvc |-> q, ver |-> volMount.ver]]
        /\ volClaim' \subseteq VolReqs /\ UNCHANGED <<volRow, volMount>>
    BY <1>0, <1>2 DEF CreateClaim
  <2> QED BY <2>1, VolBegins DEF VolPcs
<1>3. ASSUME NEW q \in VolReqs, PatchMount(q) PROVE VolInv'
  <2>1. /\ volTask[q].pc \in {"mount", "unmount"} /\ UNCHANGED <<volClaim, volRow>>
        /\ VolGo(q, "row") \/ VolGo(q, "unclaim")
    BY <1>3 DEF PatchMount
  <2>2. volTask[q].ver + 1 \in Nat /\ volTask[q].pvc \in VolReqs
    BY <1>0, <2>1
  <2>3. volMount' \in [ver : Nat, pvcs : SUBSET VolReqs]
    BY <1>0, <1>3, <2>2 DEF PatchMount
  <2> QED BY <1>0, <2>1, <2>3, VolGoes DEF VolPcs
<1>4. ASSUME NEW q \in VolReqs, InsertVolume(q) \/ DeleteClaim(q) \/ DeleteVolumeRow(q) PROVE VolInv'
  <2>1. /\ volTask[q].pc # "none" /\ (VolGo(q, "done") \/ VolGo(q, "delrow")) /\ volMount' = volMount
        /\ volRow' \subseteq volRow \cup {volTask[q].pvc} /\ volClaim' \subseteq volClaim
    BY <1>4 DEF InsertVolume, DeleteClaim, DeleteVolumeRow
  <2>2. volRow' \subseteq VolReqs /\ volClaim' \subseteq VolReqs /\ volMount' \in [ver : Nat, pvcs : SUBSET VolReqs]
    BY <1>0, <2>1
  <2> QED BY <2>1, <2>2, VolGoes DEF VolPcs
<1>5. ASSUME NEW q \in VolReqs, NEW v \in VolReqs, DeleteVolume(q, v) PROVE VolInv'
  <2>1. /\ volTask' = [volTask EXCEPT ![q] = [pc |-> "unmount", pvc |-> v, ver |-> volMount.ver]]
        /\ volClaim' \subseteq VolReqs /\ UNCHANGED <<volRow, volMount>>
    BY <1>0, <1>5 DEF DeleteVolume
  <2> QED BY <2>1, VolBegins DEF VolPcs
<1> QED BY <1>1, <1>2, <1>3, <1>4, <1>5 DEF VolumeNext

LEMMA NsTypesStart == WorkloadsInit => NsTypes
BY DEF WorkloadsInit, NsTypes

LEMMA NsTypesKeep == NsTypes /\ [NamespaceNext]_nsState => NsTypes'
<1> SUFFICES ASSUME NsTypes, [NamespaceNext]_nsState PROVE NsTypes'
  OBVIOUS
<1>0. Len(NsSteps) \in Nat
  BY StepsOfNamespace
<1>1. CASE UNCHANGED nsState
  BY <1>1 DEF nsState, NsTypes
<1>2. ASSUME NEW q \in NsReqs, NEW p \in NsPlans, ProvisionCall(q, p) PROVE NsTypes'
  BY <1>2 DEF ProvisionCall, NsTypes
<1>3. ASSUME NEW q \in NsReqs, ProvisionThrows(q) PROVE NsTypes'
  BY <1>0, <1>3 DEF ProvisionThrows, NsTypes
<1>4. ASSUME NEW q \in NsReqs, ProvisionObject(q) PROVE NsTypes'
  <2>1. PICK i \in 1..Len(NsSteps) : i = nsTask[q].step
    BY <1>4 DEF ProvisionObject
  <2>2. /\ nsTask' = [nsTask EXCEPT ![q].step = i + 1] /\ nsObject' = nsObject \cup {NsSteps[i]}
        /\ nsQuota' \in {nsQuota, nsTask[q].plan}
    BY <1>4, <2>1 DEF ProvisionObject
  <2>3. i + 1 \in Nat
    BY <1>0, <2>1
  <2>4. nsTask' \in [NsReqs -> [step : Nat, plan : NsPlans \cup {"none"}]]
    BY <2>2, <2>3 DEF NsTypes
  <2>5. nsQuota' \in NsPlans \cup {"none"}
    BY <2>2 DEF NsTypes
  <2> QED BY <2>2, <2>4, <2>5 DEF NsTypes
<1> QED BY <1>1, <1>2, <1>3, <1>4 DEF NamespaceNext

LEMMA VolumesStep == [ApiNext]_ApiVars => [VolumeNext]_volState
<1> SUFFICES ASSUME [ApiNext]_ApiVars PROVE [VolumeNext]_volState
  OBVIOUS
<1>1. UNCHANGED workloadVars \/ WorkloadNext \/ NamespaceNext \/ VolumeNext
  BY DEF ApiNext, ApiVars, AppStepped, WorkloadStepped, ProjectStepped, AuthStepped, DataStepped, FirstHalf
<1> QED BY <1>1, WorkloadFrame, NamespaceFrame DEF workloadVars

LEMMA WorkloadsTyped == WlTypes /\ NsTypes /\ VolInv => WorkloadsTypeOK
BY DEF WlTypes, NsTypes, VolInv, WorkloadsTypeOK

-----------------------------------------------------------------------------
\* What hangs from a project, the posts of an event, and the instances.
InstStates == {"none", "provisioning", "starting", "running", "error", "stopping", "stopped"}
HangInv ==
    /\ prjOthers \in [PrjReqs -> SUBSET ChildKinds]
    /\ hookSent \in [HookReqs -> SUBSET Hooks]
    /\ hookTask \in [HookReqs -> [pc : {"none", "run", "done"}, todo : SUBSET Hooks]]
    /\ instRow \in [InstReqs -> InstStates]

LEMMA HangStarts == ProjectsInit => HangInv
BY DEF ProjectsInit, HangInv, InstStates

LEMMA OthersKeepKinds ==
    ASSUME HangInv, ProjectNext \/ FlagNext
    PROVE  prjOthers' \in [PrjReqs -> SUBSET ChildKinds]
<1>1. ASSUME NEW p \in PrjReqs, NEW k \in ChildKinds, AddChild(p, k) \/ DropChild(p, k)
      PROVE  prjOthers' \in [PrjReqs -> SUBSET ChildKinds]
  BY <1>1 DEF AddChild, DropChild, HangInv
<1>2. ASSUME NEW q \in PrjReqs, NEW p \in PrjReqs, ChildStep(q, p)
      PROVE  prjOthers' \in [PrjReqs -> SUBSET ChildKinds]
  <2>1. \E k \in ChildKinds : AddChild(p, k) \/ DropChild(p, k)
    BY <1>2 DEF ChildStep, ChildKinds, CreateVariable, BulkVariables, DeleteVariable, PutSecret, DeleteSecret,
       CreateWebhook, DeleteWebhook, CreateDeployHook, CreateCron, DeleteCron, CreateQueue, CreateRule, DeleteRule,
       PutEdgeConfig, DeleteEdgeConfig
  <2> QED BY <1>1, <2>1
<1>3. ASSUME NEW q \in PrjReqs, NEW p \in PrjReqs, DeleteProject(q, p)
      PROVE  prjOthers' \in [PrjReqs -> SUBSET ChildKinds]
  BY <1>3 DEF DeleteProject, HangInv
<1>4. ASSUME prjOthers' = prjOthers PROVE prjOthers' \in [PrjReqs -> SUBSET ChildKinds]
  BY <1>4 DEF HangInv
<1>5. CASE ProjectNext
  BY <1>2, <1>3, <1>4, <1>5 DEF ProjectNext, InsertProject, InsertEnvironment, UpdateProject, HandlerEnds,
     CreateProject, RenameProject, AddEnvironment, DeleteEnvironment
<1>6. CASE FlagNext
  BY <1>3, <1>4, <1>6 DEF FlagNext, UpdateFlag, LogFlag, HandlerEnds, CreateFlag, DeleteFlag, ReadFlag
<1> QED BY <1>5, <1>6

LEMMA HangKeeps == HangInv /\ [PrjStep]_projectVars => HangInv'
<1> SUFFICES ASSUME HangInv, [PrjStep]_projectVars PROVE HangInv'
  OBVIOUS
<1>1. CASE UNCHANGED projectVars
  BY <1>1 DEF projectVars, prjVars, hookVars, instVars, HangInv
<1>2. CASE ProjectNext \/ FlagNext
  <2>1. UNCHANGED <<hookVars, instVars>>
    BY <1>2 DEF ProjectNext, FlagNext, InsertProject, InsertEnvironment, UpdateProject, HandlerEnds, CreateProject,
       RenameProject, AddEnvironment, DeleteEnvironment, DeleteProject, ChildStep, UpdateFlag, LogFlag, CreateFlag,
       DeleteFlag, ReadFlag
  <2> QED BY <1>2, <2>1, OthersKeepKinds DEF hookVars, instVars, HangInv
<1>3. ASSUME NEW v \in HookReqs, Dispatch(v) PROVE HangInv'
  BY <1>3 DEF Dispatch, HangInv, prjVars, instVars
<1>4. ASSUME NEW v \in HookReqs, PostWebhook(v) PROVE HangInv'
  <2>1. PICK h \in hookTask[v].todo, pc \in {"run", "done"} :
          /\ hookSent' = [hookSent EXCEPT ![v] = @ \cup {h}]
          /\ hookTask' = [hookTask EXCEPT ![v].todo = @ \ {h}, ![v].pc = pc]
    BY <1>4 DEF PostWebhook
  <2>2. h \in Hooks
    BY <2>1 DEF HangInv
  <2>3. hookSent' \in [HookReqs -> SUBSET Hooks]
    BY <2>1, <2>2 DEF HangInv
  <2>4. hookTask' \in [HookReqs -> [pc : {"none", "run", "done"}, todo : SUBSET Hooks]]
    BY <2>1 DEF HangInv
  <2> QED BY <1>4, <2>3, <2>4 DEF PostWebhook, prjVars, instVars, HangInv
<1>5. CASE InstanceNext
  <2>1. UNCHANGED <<prjVars, hookVars>>
    BY <1>5 DEF InstanceNext, CountInstances, InsertInstance, ProvisionerStarts, StopInstance, ReadInstance
  <2>3. instRow' \in [InstReqs -> InstStates]
    <3>1. ASSUME NEW i, NEW s \in InstStates, instRow' = [instRow EXCEPT ![i] = s]
          PROVE  instRow' \in [InstReqs -> InstStates]
      BY <3>1 DEF HangInv
    <3>2. ASSUME NEW i \in InstReqs, InsertInstance(i) \/ ProvisionerStarts(i)
          PROVE  instRow' \in [InstReqs -> InstStates]
      <4>1. instRow' = instRow \/ \E s \in InstStates : instRow' = [instRow EXCEPT ![i] = s]
        BY <3>2 DEF InsertInstance, ProvisionerStarts, InstStates
      <4> QED BY <3>1, <4>1 DEF HangInv
    <3>3. ASSUME NEW i \in InstReqs, StopInstance(i)
          PROVE  instRow' \in [InstReqs -> InstStates]
      BY <3>1, <3>3 DEF StopInstance, InstStates
    <3>4. ASSUME instRow' = instRow PROVE instRow' \in [InstReqs -> InstStates]
      BY <3>4 DEF HangInv
    <3> QED BY <1>5, <3>2, <3>3, <3>4 DEF InstanceNext, CountInstances, ReadInstance
  <2> QED BY <2>1, <2>3 DEF prjVars, hookVars, HangInv
<1> QED BY <1>1, <1>2, <1>3, <1>4, <1>5 DEF PrjStep, HookNext

LEMMA ProjectsTyped == PrjInv /\ HangInv => ProjectsTypeOK
<1> SUFFICES ASSUME PrjInv, HangInv PROVE ProjectsTypeOK
  OBVIOUS
<1>1. PrjTypes /\ \A i \in InstReqs : instRow[i] \in InstStates
  BY DEF PrjInv, HangInv
<1> QED BY <1>1 DEF PrjTypes, FlagAll, HangInv, InstStates, ProjectsTypeOK

-----------------------------------------------------------------------------
\* Bills are bounded by the usage: what a call has summed is usage of some
\* moment, what it has still to write is not nothing, and so are the lines.
Used == [Kinds -> 0..MaxUsage]
CallInv == \A q \in GenReqs :
    /\ genTask[q].sum \in Used
    /\ \A k \in Kinds : k \in genTask[q].todo => genTask[q].sum[k] > 0
BillInv ==
    /\ usage \in Used /\ CallInv
    /\ lines \subseteq GenReqs \X Kinds \X (1..MaxUsage)

LEMMA BillStarts == ApiBillingInit => BillInv
<1> SUFFICES ASSUME ApiBillingInit PROVE BillInv
  OBVIOUS
<1>1. [k \in Kinds |-> 0] \in Used
  BY ApiBillingAssumption DEF Used
<1>2. usage \in Used /\ CallInv /\ lines = {}
  BY <1>1 DEF ApiBillingInit, CallInv, GenIdle
<1> QED BY <1>2 DEF BillInv

\* A step of a call that sums nothing anew.
LEMMA CallStays ==
    ASSUME GenTypes, CallInv, NEW q \in GenReqs, NEW pc \in GenPcs, NEW left, left \subseteq genTask[q].todo,
           genTask' = [genTask EXCEPT ![q].pc = pc, ![q].todo = left] \/ genTask' = [genTask EXCEPT ![q].pc = pc]
    PROVE  CallInv'
<1>1. /\ genTask'[q].sum = genTask[q].sum /\ genTask'[q].todo \subseteq genTask[q].todo
      /\ \A r \in GenReqs \ {q} : genTask'[r] = genTask[r]
  BY DEF GenTypes, GenTaskType
<1> QED BY <1>1 DEF CallInv

LEMMA BillKeeps == GenTypes /\ BillInv /\ [InvoiceNext]_invoiceVars => BillInv'
<1> SUFFICES ASSUME GenTypes, BillInv, [InvoiceNext]_invoiceVars PROVE BillInv'
  OBVIOUS
<1>0. CallInv
  BY DEF BillInv
<1>1. CASE UNCHANGED invoiceVars
  BY <1>1 DEF invoiceVars, BillInv, CallInv
<1>2. ASSUME NEW k \in Kinds, Usage(k) PROVE BillInv'
  <2>1. usage[k] + Paise(k) \in 0..MaxUsage
    BY <1>2, ApiBillingAssumption DEF Usage, BillInv, Used, Paise
  <2>2. usage' \in Used
    BY <1>2, <2>1 DEF Usage, BillInv, Used
  <2> QED BY <1>2, <2>2 DEF Usage, BillInv, CallInv
<1>3. ASSUME NEW q \in GenReqs, Generate(q) PROVE BillInv'
  <2>1. genTask' = [genTask EXCEPT ![q] = [pc |-> "select", sum |-> usage, todo |-> {k \in Kinds : usage[k] > 0}]]
    BY <1>3 DEF Generate
  <2>2. /\ genTask'[q].sum = usage /\ genTask'[q].todo = {k \in Kinds : usage[k] > 0}
        /\ \A r \in GenReqs \ {q} : genTask'[r] = genTask[r]
    BY <2>1 DEF GenTypes
  <2>3. CallInv'
    BY <2>2 DEF BillInv, CallInv
  <2> QED BY <1>3, <2>3 DEF Generate, BillInv
<1>4. ASSUME NEW q \in GenReqs,
             FindInvoice(q) \/ InsertInvoice(q) \/ UpdateInvoice(q) \/ ClearLines(q) \/ GenerateDies(q)
      PROVE  BillInv'
  <2>1. \E pc \in GenPcs : genTask' = [genTask EXCEPT ![q].pc = pc]
    BY <1>4 DEF FindInvoice, InsertInvoice, UpdateInvoice, ClearLines, GenerateDies, Written, GenPcs
  <2>2. CallInv'
    BY <1>0, <2>1, CallStays
  <2>3. usage' = usage /\ lines' \in {lines, {}}
    BY <1>4 DEF FindInvoice, InsertInvoice, UpdateInvoice, ClearLines, GenerateDies
  <2> QED BY <2>2, <2>3 DEF BillInv
<1>5. ASSUME NEW q \in GenReqs, InsertLine(q) PROVE BillInv'
  <2>1. PICK k \in genTask[q].todo :
          /\ lines' = lines \cup {<<q, k, genTask[q].sum[k]>>}
          /\ \E pc \in {"done", "lines"} :
               genTask' = [genTask EXCEPT ![q].todo = @ \ {k}, ![q].pc = pc]
    BY <1>5 DEF InsertLine
  <2>2. k \in Kinds /\ genTask[q].sum[k] \in 1..MaxUsage
    <3>1. k \in Kinds
      BY <2>1 DEF GenTypes, GenTaskType
    <3>2. genTask[q].sum[k] \in 0..MaxUsage /\ genTask[q].sum[k] > 0
      BY <1>0, <2>1, <3>1 DEF CallInv, Used
    <3> QED BY <3>1, <3>2, ApiBillingAssumption
  <2>3. CallInv'
    <3>1. PICK pc \in {"done", "lines"} : genTask' = [genTask EXCEPT ![q].todo = @ \ {k}, ![q].pc = pc]
      BY <2>1
    <3>2. /\ genTask'[q].sum = genTask[q].sum /\ genTask'[q].todo = genTask[q].todo \ {k}
          /\ \A r \in GenReqs \ {q} : genTask'[r] = genTask[r]
      BY <3>1 DEF GenTypes, GenTaskType
    <3> QED BY <1>0, <3>2 DEF CallInv
  <2>4. usage' = usage
    BY <1>5 DEF InsertLine
  <2> QED BY <2>1, <2>2, <2>3, <2>4 DEF BillInv
<1>6. ASSUME NEW o \in OrdReqs,
             \/ LinkOrder(o) \/ RazorpayCaptured(o) \/ RazorpayFailed(o)
             \/ \E i \in Invoices : PaymentOrder(o, i) \/ CheckoutSession(o, i)
             \/ \E outcome \in {"failed", "captured"} : CustomerPays(o, outcome)
      PROVE  BillInv'
  <2>1. UNCHANGED <<usage, lines, genTask>>
    BY <1>6 DEF PaymentOrder, CheckoutSession, LinkOrder, RazorpayCaptured, RazorpayFailed, CustomerPays, genVars
  <2> QED BY <2>1 DEF BillInv, CallInv
<1> QED BY <1>1, <1>2, <1>3, <1>4, <1>5, <1>6 DEF InvoiceNext

\* The metering: a replica that has begun its tick did so in a minute there was.
TickPcs == {"idle", "log", "snapshot", "done"}
TickInv ==
    /\ meterMinute \in 0..MaxMinute /\ cpuLog \subseteq Replicas \X (1..MaxMinute) \X Pods
    /\ meterTick \in [Ticks -> [pc : TickPcs, todo : SUBSET Pods, counted : SUBSET Pods]]
    /\ \A r \in Ticks : meterTick[r].pc # "idle" => r[2] <= meterMinute

LEMMA TickStarts == ApiBillingInit => TickInv
BY ApiBillingAssumption DEF ApiBillingInit, TickInv, TickPcs, TickIdle

LEMMA TickKeeps == TickInv /\ [TickNext]_tickVars => TickInv'
<1> SUFFICES ASSUME TickInv, [TickNext]_tickVars PROVE TickInv'
  OBVIOUS
<1>0. MaxMinute \in Nat /\ meterMinute \in 0..MaxMinute /\ \A r \in Ticks : r[1] \in Replicas /\ r[2] \in 1..MaxMinute
  BY ApiBillingAssumption DEF TickInv, Ticks
<1>1. CASE UNCHANGED tickVars
  BY <1>1 DEF tickVars, TickInv
<1>2. CASE MeterMinute
  <2>1. meterMinute' = meterMinute + 1 /\ meterMinute < MaxMinute /\ UNCHANGED <<meterTick, cpuLog>>
    BY <1>2 DEF MeterMinute
  <2>2. meterMinute' \in 0..MaxMinute /\ \A r \in Ticks : r[2] <= meterMinute => r[2] <= meterMinute'
    BY <1>0, <2>1
  <2> QED BY <2>1, <2>2 DEF TickInv
<1>3. ASSUME NEW r \in Ticks, NEW running \in SUBSET Pods, ListPods(r, running) PROVE TickInv'
  <2>1. /\ meterTick' = [meterTick EXCEPT ![r] = [pc |-> "log", todo |-> running, counted |-> {}]]
        /\ r[2] = meterMinute /\ UNCHANGED <<meterMinute, cpuLog>>
    BY <1>3 DEF ListPods
  <2>2. r[2] <= meterMinute
    BY <1>0, <2>1
  <2>3. /\ meterTick' \in [Ticks -> [pc : TickPcs, todo : SUBSET Pods, counted : SUBSET Pods]]
        /\ \A s \in Ticks \ {r} : meterTick'[s] = meterTick[s]
    BY <2>1 DEF TickInv, TickPcs
  <2> QED BY <2>1, <2>2, <2>3 DEF TickInv
<1>4. ASSUME NEW r \in Ticks, LogPod(r) PROVE TickInv'
  <2>1. PICK p \in meterTick[r].todo, pc \in {"snapshot", "log"} :
          /\ cpuLog' \in {cpuLog, cpuLog \cup {<<r[1], meterMinute, p>>}}
          /\ meterTick' = [meterTick EXCEPT ![r] = [pc |-> pc, todo |-> meterTick[r].todo \ {p},
                                                    counted |-> meterTick[r].counted \cup {p}]]
    BY <1>4 DEF LogPod
  <2>2. p \in Pods /\ meterTick[r].todo \subseteq Pods /\ meterTick[r].counted \subseteq Pods
    BY <2>1 DEF TickInv
  <2>3. meterMinute \in 1..MaxMinute /\ r[1] \in Replicas /\ r[2] <= meterMinute
    <3>1. r[2] <= meterMinute
      BY <1>4 DEF LogPod, TickInv
    <3> QED BY <1>0, <3>1
  <2>4. cpuLog' \subseteq Replicas \X (1..MaxMinute) \X Pods
    BY <2>1, <2>2, <2>3 DEF TickInv
  <2>5. /\ meterTick' \in [Ticks -> [pc : TickPcs, todo : SUBSET Pods, counted : SUBSET Pods]]
        /\ \A s \in Ticks \ {r} : meterTick'[s] = meterTick[s]
    BY <2>1, <2>2 DEF TickInv, TickPcs
  <2> QED BY <1>4, <2>3, <2>4, <2>5 DEF LogPod, TickInv
<1>5. ASSUME NEW r \in Ticks, SnapshotTenant(r) PROVE TickInv'
  <2>1. meterTick' = [meterTick EXCEPT ![r].pc = "done"] /\ UNCHANGED <<meterMinute, cpuLog>>
        /\ meterTick[r].pc = "snapshot"
    BY <1>5 DEF SnapshotTenant
  <2>2. /\ meterTick' \in [Ticks -> [pc : TickPcs, todo : SUBSET Pods, counted : SUBSET Pods]]
        /\ \A s \in Ticks \ {r} : meterTick'[s] = meterTick[s]
    BY <2>1 DEF TickInv, TickPcs
  <2>3. r[2] <= meterMinute
    BY <2>1 DEF TickInv
  <2> QED BY <2>1, <2>2, <2>3 DEF TickInv
<1>6. ASSUME NEW a, CreateAlert(a) \/ DeleteAlert(a) PROVE TickInv'
  BY <1>6 DEF CreateAlert, DeleteAlert, TickInv
<1> QED BY <1>1, <1>2, <1>3, <1>4, <1>5, <1>6 DEF TickNext

LEMMA TickFrame == TickNext => UNCHANGED invoiceVars
BY DEF TickNext, MeterMinute, ListPods, LogPod, SnapshotTenant, CreateAlert, DeleteAlert
LEMMA InvoiceFrame == InvoiceNext => UNCHANGED tickVars
BY DEF InvoiceNext, Usage, Generate, FindInvoice, InsertInvoice, UpdateInvoice, ClearLines, InsertLine,
       GenerateDies, CheckoutSession, PaymentOrder, LinkOrder, CustomerPays, RazorpayCaptured, RazorpayFailed

BoundsInv == BillInv /\ TickInv

LEMMA BoundsKeep ==
    AddInv /\ MoneyInv /\ BoundsInv /\ [ApiBillingNext]_apiBillingVars => BoundsInv'
<1> SUFFICES ASSUME AddInv, MoneyInv, BoundsInv, [ApiBillingNext]_apiBillingVars PROVE BoundsInv'
  OBVIOUS
<1>1. [InvoiceNext]_invoiceVars /\ [TickNext]_tickVars
  BY InvoiceFrame, TickFrame DEF ApiBillingNext, apiBillingVars
<1>2. GenTypes /\ BillInv /\ TickInv
  BY DEF AddInv, MoneyInv, BoundsInv
<1> QED BY <1>1, <1>2, BillKeeps, TickKeeps DEF BoundsInv

LEMMA BillsTyped == AddInv /\ MoneyInv /\ BoundsInv => ApiBillingTypeOK
<1> SUFFICES ASSUME AddInv, MoneyInv, BoundsInv PROVE ApiBillingTypeOK
  OBVIOUS
<1>1. inv.there \in BOOLEAN /\ inv.subtotal \in Nat /\ inv.total \in Nat /\ genMixed \in BOOLEAN
  BY DEF AddInv, GenTypes, InvType
<1>2. /\ \A o \in OrdReqs : /\ rzOrder[o] \in {"none", "lost", "created", "failed", "captured"}
                           /\ ordTask[o] \in [pc : {"none", "link", "done"}, of : Invoices]
      /\ bill \in [Invoices -> [status : {"draft", "paid"}, pay : {"none", "pending", "captured", "failed"},
                               order : OrdReqs \cup {0}]]
  BY DEF MoneyInv, OrderInv, CarriesInv, RzStates, OrdTaskType, BillType
<1> QED BY <1>1, <1>2 DEF BoundsInv, BillInv, Used, TickInv, ApiBillingTypeOK

-----------------------------------------------------------------------------
\* Privacy: every write is of a request of its own, and so is every audit.
Wrote   == {q \in PrivReqs : privTask[q].pc \in {"audit", "done"}}
Audited == {q \in PrivReqs : privTask[q].pc = "done"}
CountInv ==
    /\ privClock \in Nat /\ privClock <= Cardinality(Wrote)
    /\ \A k \in Actions \X PrivReqs : privAudit[k] <= Cardinality(Audited)
FiledInv ==
    /\ breaches \in [PrivReqs -> [status : {"none", "detected", "notified", "closed"}, notified : Nat]]
    /\ DOMAIN privDpas \subseteq Jurisdictions \X {1}
    /\ auditLost \subseteq Actions \X PrivReqs

LEMMA CountStarts == PrivacyInit => CountInv /\ FiledInv
<1> SUFFICES ASSUME PrivacyInit PROVE CountInv /\ FiledInv
  OBVIOUS
<1>1. Wrote = {} /\ Audited = {}
  BY DEF PrivacyInit, PrivIdle, Wrote, Audited
<1>2. Cardinality({}) = 0
  BY FS_EmptySet
<1>3. CountInv
  BY <1>1, <1>2 DEF PrivacyInit, CountInv
<1>4. FiledInv
  BY DEF PrivacyInit, FiledInv, NoBreach
<1> QED BY <1>3, <1>4

LEMMA Counted ==
    ASSUME NEW S, NEW T, S \subseteq T, T \subseteq PrivReqs
    PROVE  /\ Cardinality(S) \in Nat /\ Cardinality(T) \in Nat /\ Cardinality(S) <= Cardinality(T)
           /\ S # T => Cardinality(S) < Cardinality(T)
<1>1. IsFiniteSet(T) /\ IsFiniteSet(S)
  BY FS_Subset, ApiPrivacyAssumption
<1> QED BY <1>1, FS_Subset, FS_CardinalityType

LEMMA WroteIsNat == Cardinality(Wrote) \in Nat /\ Cardinality(Audited) \in Nat
BY Counted DEF Wrote, Audited

\* A step of q that goes on, from "none" or "write", or from "audit" to the end.
LEMMA PrivCounts ==
    ASSUME PrivTypes, NEW q \in PrivReqs, NEW pc \in {"write", "audit", "done"}, privTask[q].pc # "done",
           pc = "write" => privTask[q].pc = "none",
           privTask'[q].pc = pc, \A r \in PrivReqs \ {q} : privTask'[r] = privTask[r]
    PROVE  /\ Wrote \subseteq Wrote' /\ Wrote' \subseteq PrivReqs
           /\ Audited \subseteq Audited' /\ Audited' \subseteq PrivReqs
           /\ privTask[q].pc # "audit" /\ pc = "audit" => Wrote # Wrote'
           /\ pc = "done" => Audited # Audited'
<1>1. Wrote \subseteq Wrote' /\ Wrote' \subseteq PrivReqs
  BY DEF Wrote
<1>2. Audited \subseteq Audited' /\ Audited' \subseteq PrivReqs
  BY DEF Audited
<1>3. ASSUME privTask[q].pc # "audit", pc = "audit" PROVE q \in Wrote' \ Wrote
  BY <1>3 DEF Wrote
<1>4. ASSUME pc = "done" PROVE q \in Audited' \ Audited
  BY <1>4 DEF Audited
<1> QED BY <1>1, <1>2, <1>3, <1>4

LEMMA PrivGoes ==
    ASSUME PrivTypes, NEW q \in PrivReqs, NEW pc, NEW op, NEW i, PrivGo(q, pc, op, i)
    PROVE  privTask'[q].pc = pc /\ \A r \in PrivReqs \ {q} : privTask'[r] = privTask[r]
BY DEF PrivTypes, PrivGo, PrivIdle

\* The clock and the audits stay within their counts.
LEMMA CountsStep ==
    ASSUME PrivTypes, CountInv, NEW q \in PrivReqs, NEW pc \in {"write", "audit", "done"}, privTask[q].pc # "done",
           pc = "write" => privTask[q].pc = "none",
           privTask'[q].pc = pc, \A r \in PrivReqs \ {q} : privTask'[r] = privTask[r],
           privClock' = privClock \/ (privClock' = privClock + 1 /\ pc = "audit" /\ privTask[q].pc # "audit"),
           \/ privAudit' = privAudit
           \/ pc = "done" /\ \E key \in Actions \X PrivReqs : privAudit' = [privAudit EXCEPT ![key] = @ + 1]
    PROVE  CountInv'
<1>1. /\ Wrote \subseteq Wrote' /\ Wrote' \subseteq PrivReqs
      /\ Audited \subseteq Audited' /\ Audited' \subseteq PrivReqs
      /\ privTask[q].pc # "audit" /\ pc = "audit" => Wrote # Wrote'
      /\ pc = "done" => Audited # Audited'
  BY PrivCounts
<1> DEFINE W == Wrote  V == Wrote'  A == Audited  B == Audited'
<1>2. /\ Cardinality(W) \in Nat /\ Cardinality(V) \in Nat /\ Cardinality(W) <= Cardinality(V)
      /\ W # V => Cardinality(W) < Cardinality(V)
  BY <1>1, Counted
<1>3. /\ Cardinality(A) \in Nat /\ Cardinality(B) \in Nat /\ Cardinality(A) <= Cardinality(B)
      /\ A # B => Cardinality(A) < Cardinality(B)
  BY <1>1, Counted
<1>4. privClock' \in Nat /\ privClock' <= Cardinality(V)
  BY <1>1, <1>2 DEF CountInv
<1>5. ASSUME NEW k \in Actions \X PrivReqs PROVE privAudit'[k] <= Cardinality(B)
  <2>1. privAudit[k] <= Cardinality(A) /\ privAudit[k] \in Nat
    BY DEF CountInv, PrivTypes
  <2>2. privAudit'[k] = privAudit[k] \/ (pc = "done" /\ privAudit'[k] = privAudit[k] + 1)
    BY DEF PrivTypes
  <2> HIDE DEF A, B
  <2> QED BY <1>1, <1>3, <2>1, <2>2 DEF A, B
<1> QED BY <1>4, <1>5 DEF CountInv

LEMMA FiledKeeps == PrivInv /\ FiledInv /\ CountInv /\ PrivacyNext => FiledInv'
<1> SUFFICES ASSUME PrivInv, FiledInv, CountInv, PrivacyNext PROVE FiledInv'
  OBVIOUS
<1>1. \A q \in PrivReqs : Sound(privTask[q])
  BY DEF PrivInv, StepInv
<1>2. privClock + 1 \in Nat
  BY DEF CountInv
<1>3. auditLost' \subseteq Actions \X PrivReqs
  <2>1. ASSUME NEW q \in PrivReqs, WriteAuditEvent(q) \/ AuditNeverComes(q)
        PROVE  auditLost' \subseteq Actions \X PrivReqs
    <3>1. privTask[q].op \in Actions /\ privTask[q].id \in PrivReqs
      BY <1>1, <2>1 DEF WriteAuditEvent, AuditNeverComes, Sound
    <3>2. auditLost' \in {auditLost, auditLost \cup {<<privTask[q].op, privTask[q].id>>}}
      BY <2>1 DEF WriteAuditEvent, AuditNeverComes
    <3> QED BY <3>1, <3>2 DEF FiledInv
  <2>2. auditLost' = auditLost \/ \E q \in PrivReqs : WriteAuditEvent(q) \/ AuditNeverComes(q)
    BY DEF PrivacyNext, CreateErasure, CompleteErasure, WithdrawConsent, DraftNotification, CreateBreach,
           NotifyRegulator, ResolveBreach, UpdateRopa, ResidencyReport, ReadErasure, ReadConsent, ReadBreach,
           RecordConsent, SignDpa, ReadRopa, ThenAudit, ThenEnds
  <2> QED BY <2>1, <2>2 DEF FiledInv
<1>4. DOMAIN privDpas' \subseteq Jurisdictions \X {1}
  <2>1. ASSUME NEW q \in PrivReqs, NEW j \in Jurisdictions, NEW v \in {1}, SignDpa(q, j, v)
        PROVE  DOMAIN privDpas' \subseteq Jurisdictions \X {1}
    BY <2>1 DEF SignDpa, FiledInv
  <2>2. privDpas' = privDpas \/ \E q \in PrivReqs, j \in Jurisdictions, v \in {1} : SignDpa(q, j, v)
    BY DEF PrivacyNext, WriteAuditEvent, AuditNeverComes, CreateErasure, CompleteErasure, WithdrawConsent,
           DraftNotification, CreateBreach, NotifyRegulator, ResolveBreach, UpdateRopa, ResidencyReport, ReadErasure,
           ReadConsent, ReadBreach, RecordConsent, ReadRopa
  <2> QED BY <2>1, <2>2 DEF FiledInv
<1>5. breaches' \in [PrivReqs -> [status : {"none", "detected", "notified", "closed"}, notified : Nat]]
  <2>1. ASSUME NEW q \in PrivReqs, CreateBreach(q) \/ NotifyRegulator(q) \/ ResolveBreach(q)
        PROVE  breaches' \in [PrivReqs -> [status : {"none", "detected", "notified", "closed"}, notified : Nat]]
    <3>1. CASE CreateBreach(q)
      BY <3>1 DEF CreateBreach, FiledInv
    <3>2. CASE NotifyRegulator(q)
      BY <1>2, <3>2 DEF NotifyRegulator, FiledInv
    <3>3. CASE ResolveBreach(q)
      BY <3>3 DEF ResolveBreach, FiledInv
    <3> QED BY <2>1, <3>1, <3>2, <3>3
  <2>2. breaches' = breaches \/ \E q \in PrivReqs : CreateBreach(q) \/ NotifyRegulator(q) \/ ResolveBreach(q)
    BY DEF PrivacyNext, WriteAuditEvent, AuditNeverComes, CreateErasure, CompleteErasure, WithdrawConsent,
           DraftNotification, UpdateRopa, ResidencyReport, ReadErasure, SignDpa, ReadConsent, ReadBreach,
           RecordConsent, ReadRopa
  <2> QED BY <2>1, <2>2 DEF FiledInv
<1> QED BY <1>3, <1>4, <1>5 DEF FiledInv

LEMMA CountKeeps == PrivInv /\ CountInv /\ PrivacyNext => CountInv'
<1> SUFFICES ASSUME PrivInv, CountInv, PrivacyNext PROVE CountInv'
  OBVIOUS
<1>0. PrivTypes /\ (\A q \in PrivReqs : Sound(privTask[q]))
  BY DEF PrivInv, StepInv
<1>1. ASSUME NEW q \in PrivReqs, WriteAuditEvent(q) \/ AuditNeverComes(q) PROVE CountInv'
  <2>1. /\ privTask[q].pc = "audit" /\ PrivGo(q, "done", privTask[q].op, privTask[q].id) /\ privClock' = privClock
        /\ \/ privAudit' = privAudit
           \/ privAudit' = [privAudit EXCEPT ![<<privTask[q].op, privTask[q].id>>] = @ + 1]
    BY <1>1 DEF WriteAuditEvent, AuditNeverComes
  <2>2. <<privTask[q].op, privTask[q].id>> \in Actions \X PrivReqs
    BY <1>0, <2>1 DEF Sound
  <2>3. privTask'[q].pc = "done" /\ \A r \in PrivReqs \ {q} : privTask'[r] = privTask[r]
    BY <1>0, <2>1, PrivGoes
  <2> QED BY <1>0, <2>1, <2>2, <2>3, CountsStep
<1>2. ASSUME NEW q \in PrivReqs, NEW op, NEW i, ThenAudit(q, op, i), privTask[q].pc \in {"none", "write"}
      PROVE  CountInv'
  <2>1. privTask'[q].pc = "audit" /\ \A r \in PrivReqs \ {q} : privTask'[r] = privTask[r]
    BY <1>0, <1>2, PrivGoes DEF ThenAudit
  <2>2. privClock' = privClock + 1 /\ privAudit' = privAudit
    BY <1>2 DEF ThenAudit
  <2> QED BY <1>0, <1>2, <2>1, <2>2, CountsStep
<1>3. ASSUME NEW q \in PrivReqs, NEW op, NEW i, PrivGo(q, "done", op, i), privTask[q].pc \in {"none", "write"},
             UNCHANGED <<privClock, privAudit>>
      PROVE  CountInv'
  <2>1. privTask'[q].pc = "done" /\ \A r \in PrivReqs \ {q} : privTask'[r] = privTask[r]
    BY <1>0, <1>3, PrivGoes
  <2> QED BY <1>0, <1>3, <2>1, CountsStep
<1>4. ASSUME NEW q \in PrivReqs, NEW op, NEW i, PrivGo(q, "write", op, i), privTask[q].pc = "none",
             UNCHANGED <<privClock, privAudit>>
      PROVE  CountInv'
  <2>1. privTask'[q].pc = "write" /\ \A r \in PrivReqs \ {q} : privTask'[r] = privTask[r]
    BY <1>0, <1>4, PrivGoes
  <2> QED BY <1>0, <1>4, <2>1, CountsStep
<1>5. ASSUME NEW q \in PrivReqs, CreateErasure(q) \/ CompleteErasure(q) \/ WithdrawConsent(q) \/ CreateBreach(q)
                                 \/ NotifyRegulator(q) \/ ResolveBreach(q) \/ UpdateRopa(q)
      PROVE  CountInv'
  <2>1. privTask[q].pc \in {"none", "write"}
    BY <1>5 DEF CreateErasure, CompleteErasure, WithdrawConsent, CreateBreach, NotifyRegulator, ResolveBreach,
                UpdateRopa, Free, PrivAt
  <2>2. \E op, i : ThenAudit(q, op, i) \/ ThenEnds(q, op, i)
    BY <1>5 DEF CreateErasure, CompleteErasure, WithdrawConsent, CreateBreach, NotifyRegulator, ResolveBreach,
                UpdateRopa
  <2> QED BY <1>2, <1>3, <2>1, <2>2 DEF ThenEnds
<1>6. ASSUME NEW q \in PrivReqs, \/ \E p \in Purposes, granted \in BOOLEAN : RecordConsent(q, p, granted)
                                 \/ \E j \in Jurisdictions, v \in {1} : SignDpa(q, j, v)
      PROVE  CountInv'
  <2>1. privTask[q].pc = "none" /\ \E op, i : ThenAudit(q, op, i)
    BY <1>6 DEF RecordConsent, SignDpa, Free
  <2> QED BY <1>2, <2>1
<1>7. ASSUME NEW q \in PrivReqs, ResidencyReport(q) PROVE CountInv'
  BY <1>3, <1>7 DEF ResidencyReport, Free
<1>8. ASSUME NEW q \in PrivReqs, \/ DraftNotification(q)
                                 \/ \E i \in PrivReqs : \/ ReadErasure(q, i) \/ ReadConsent(q, i)
                                                        \/ \E op \in {"breach_notified", "breach_resolved"} : ReadBreach(q, i, op)
      PROVE  CountInv'
  <2>1. /\ privTask[q].pc = "none" /\ UNCHANGED <<privClock, privAudit>> /\ \E op, i : PrivGo(q, "write", op, i)
    BY <1>8 DEF DraftNotification, ReadErasure, ReadConsent, ReadBreach, Free
  <2> QED BY <1>4, <2>1
<1>9. ASSUME NEW q \in PrivReqs, NEW f \in RopaFields, NEW v \in RopaVals, ReadRopa(q, f, v) PROVE CountInv'
  <2>1. /\ privTask'[q].pc = "write" /\ (\A r \in PrivReqs \ {q} : privTask'[r] = privTask[r])
        /\ privTask[q].pc = "none" /\ UNCHANGED <<privClock, privAudit>>
    BY <1>0, <1>9 DEF ReadRopa, Free, PrivTypes
  <2> QED BY <1>0, <2>1, CountsStep
<1> QED BY <1>1, <1>5, <1>6, <1>7, <1>8, <1>9 DEF PrivacyNext

LEMMA RegisterKeeps ==
    PrivInv /\ CountInv /\ FiledInv /\ [PrivacyNext]_privVars => CountInv' /\ FiledInv'
<1>1. CountInv /\ FiledInv /\ UNCHANGED privVars => CountInv' /\ FiledInv'
  <2> SUFFICES ASSUME CountInv, FiledInv, UNCHANGED privVars PROVE CountInv' /\ FiledInv'
    OBVIOUS
  <2>1. UNCHANGED <<breaches, privDpas, privTask, privAudit, auditLost, privClock>>
    BY DEF privVars
  <2>2. Wrote' = Wrote /\ Audited' = Audited
    BY <2>1 DEF Wrote, Audited
  <2> QED BY <2>1, <2>2 DEF CountInv, FiledInv
<1> QED BY <1>1, CountKeeps, FiledKeeps

LEMMA PrivacyTyped == PrivInv /\ CountInv /\ FiledInv => PrivacyTypeOK
<1> SUFFICES ASSUME PrivInv, CountInv, FiledInv PROVE PrivacyTypeOK
  OBVIOUS
<1>1. Cardinality(Wrote) \in Nat /\ Cardinality(PrivReqs) \in Nat /\ Cardinality(Wrote) <= Cardinality(PrivReqs)
  BY Counted DEF Wrote
<1>2. Cardinality(Audited) \in Nat /\ Cardinality(Audited) <= Cardinality(PrivReqs)
  BY Counted DEF Audited
<1>3. privClock \in 0..Cardinality(PrivReqs)
  BY <1>1 DEF CountInv
<1>4. privAudit \in [Actions \X PrivReqs -> 0..Cardinality(PrivReqs)]
  <2>1. privAudit \in [Actions \X PrivReqs -> Nat]
    BY DEF PrivInv, PrivTypes
  <2>2. \A k \in Actions \X PrivReqs : privAudit[k] \in 0..Cardinality(PrivReqs)
    BY <1>1, <1>2, <2>1 DEF CountInv
  <2> QED BY <2>1, <2>2
<1>5. \A i \in PrivReqs : consents[i].purpose \in Purposes \cup {"none"}
  BY DEF PrivInv, PrivTypes, ConsentType
<1> QED BY <1>3, <1>4, <1>5 DEF PrivInv, PrivTypes, FiledInv, PrivacyTypeOK

-----------------------------------------------------------------------------
\* Mail: a request for a mailbox has a user, and what is, or will be, in a row is
\* a domain; so are the records there have been.
BoxInv ==
    /\ mailboxes \in [Names -> MailReqs \cup {0}] /\ mailTold \subseteq Names \X MailReqs
    /\ \A q \in MailReqs : MailAt(q, "mailbox") => mailTask[q].user \in MailUsers
HostInv ==
    /\ stDomains \in [MailDomains -> {"none", "plain", "signed"}]
    /\ txtEver \subseteq MailDomains \X MailReqs
    /\ \A i \in MailReqs : mailDomains[i] # NoMailRow => mailDomains[i].domain \in MailDomains
    /\ \A q \in MailReqs : MailAt(q, "insert") => mailTask[q].row2.domain \in MailDomains
TunnelInv ==
    /\ tunnel \subseteq Hosts \cup {""}
    /\ tunnelTask \in [TunnelReqs -> [pc : {"none", "add", "remove", "done"}, host : Hosts \cup {""},
                                      read : SUBSET (Hosts \cup {""})]]

LEMMA PostStarts == ApiMailInit => BoxInv /\ HostInv /\ TunnelInv
<1> SUFFICES ASSUME ApiMailInit PROVE BoxInv /\ HostInv /\ TunnelInv
  OBVIOUS
<1>1. MailIdle.pc = "none"
  BY DEF MailIdle
<1>2. BoxInv
  BY <1>1 DEF ApiMailInit, BoxInv, MailAt
<1>3. HostInv
  BY <1>1 DEF ApiMailInit, HostInv, MailAt
<1>4. TunnelInv
  BY DEF ApiMailInit, TunnelInv
<1> QED BY <1>2, <1>3, <1>4

\* What a request goes on to, and what it begins with.
LEMMA MailGoes ==
    ASSUME DomainTypes, NEW q \in MailReqs, NEW pc, MailGo(q, pc)
    PROVE  /\ \A r \in MailReqs \ {q} : mailTask'[r] = mailTask[r]
           /\ mailTask'[q].pc = pc
BY DEF DomainTypes, MailGo, MailTaskType
LEMMA MailBegins ==
    ASSUME DomainTypes, NEW q \in MailReqs, NEW rec, MailTo(q, rec)
    PROVE  (\A r \in MailReqs \ {q} : mailTask'[r] = mailTask[r]) /\ mailTask'[q] = rec
BY DEF DomainTypes, MailTo

\* No step but the reading of a user comes to "mailbox", and none but the
\* registration comes to "insert".
LEMMA BoxKeeps == DomainTypes /\ BoxInv /\ MailNext => BoxInv'
<1> SUFFICES ASSUME DomainTypes, BoxInv, MailNext PROVE BoxInv'
  OBVIOUS
<1>1. ASSUME NEW q \in MailReqs, NEW u \in MailUsers, ReadMailUser(q, u) PROVE BoxInv'
  <2>0. [MailIdle EXCEPT !.pc = "mailbox", !.user = u].user = u
    BY DEF MailIdle
  <2>1. mailTask'[q].user = u /\ \A r \in MailReqs \ {q} : mailTask'[r] = mailTask[r]
    BY <1>1, <2>0, MailBegins DEF ReadMailUser
  <2> QED BY <1>1, <2>1 DEF ReadMailUser, BoxInv, MailAt
<1>2. ASSUME NEW q \in MailReqs, ProvisionMailbox(q) PROVE BoxInv'
  <2>1. mailTask[q].user \in MailUsers /\ MailGo(q, "done")
    BY <1>2 DEF ProvisionMailbox, BoxInv
  <2>2. PICK name \in Names : name = LocalPart[mailTask[q].user]
    BY <2>1 DEF Names
  <2>3. \/ UNCHANGED <<mailboxes, mailTold>>
        \/ /\ mailboxes' = [mailboxes EXCEPT ![name] = IF @ = 0 THEN q ELSE @]
           /\ mailTold' = mailTold \cup {<<name, q>>}
    BY <1>2, <2>2 DEF ProvisionMailbox
  <2>4. mailboxes' \in [Names -> MailReqs \cup {0}] /\ mailTold' \subseteq Names \X MailReqs
    <3> HIDE DEF Names
    <3> QED BY <2>3 DEF BoxInv
  <2>5. mailTask'[q].pc = "done" /\ \A r \in MailReqs \ {q} : mailTask'[r] = mailTask[r]
    BY <2>1, MailGoes
  <2> QED BY <2>4, <2>5 DEF BoxInv, MailAt
<1>3. ASSUME NEW q \in MailReqs, NEW n \in Names, CreateDomainUser(q, n) PROVE BoxInv'
  <2>1. mailTask'[q].pc = "done" /\ \A r \in MailReqs \ {q} : mailTask'[r] = mailTask[r]
    BY <1>3, MailGoes DEF CreateDomainUser
  <2>2. mailboxes' \in [Names -> MailReqs \cup {0}] /\ mailTold' \subseteq Names \X MailReqs
    BY <1>3 DEF CreateDomainUser, BoxInv
  <2> QED BY <2>1, <2>2 DEF BoxInv, MailAt
<1>4. ASSUME NEW q \in MailReqs, NEW pc, MailGo(q, pc), pc # "mailbox", UNCHANGED <<mailboxes, mailTold>> PROVE BoxInv'
  <2>1. mailTask'[q].pc = pc /\ \A r \in MailReqs \ {q} : mailTask'[r] = mailTask[r]
    BY <1>4, MailGoes
  <2> QED BY <1>4, <2>1 DEF BoxInv, MailAt
<1>5. ASSUME NEW q \in MailReqs, NEW rec, MailTo(q, rec), rec.pc # "mailbox", UNCHANGED <<mailboxes, mailTold>> PROVE BoxInv'
  <2>1. mailTask'[q] = rec /\ \A r \in MailReqs \ {q} : mailTask'[r] = mailTask[r]
    BY <1>5, MailBegins
  <2> QED BY <1>5, <2>1 DEF BoxInv, MailAt
<1>6. ASSUME NEW q \in MailReqs, ClearDefaults(q) \/ WriteSignature(q) \/ InsertDomain(q) \/ ResolveTxt(q) \/ MarkVerified(q)
                                 \/ SetupDkim(q) \/ DropDomain(q) \/ DeleteDomain(q)
                                 \/ \E i \in MailReqs : DeleteSignature(q, i)
      PROVE  BoxInv'
  <2>1. UNCHANGED <<mailboxes, mailTold>> /\ \E pc : pc # "mailbox" /\ MailGo(q, pc)
    BY <1>6 DEF ClearDefaults, WriteSignature, InsertDomain, ResolveTxt, MarkVerified, SetupDkim, DropDomain,
                DeleteDomain, DeleteSignature
  <2> QED BY <1>4, <2>1
<1>7. ASSUME NEW q \in MailReqs, EditTxt(q) PROVE BoxInv'
  BY <1>7 DEF EditTxt, BoxInv, MailAt
<1>8. ASSUME NEW q \in MailReqs, NEW t \in MailTenants, NEW d \in MailDomains, RegisterDomain(q, t, d) PROVE BoxInv'
  <2>1. [MailIdle EXCEPT !.pc = "insert", !.row2 = [tenant |-> t, domain |-> d, verified |-> FALSE]].pc = "insert"
    BY DEF MailIdle
  <2> QED BY <1>4, <1>5, <1>8, <2>1 DEF RegisterDomain
<1>9. ASSUME NEW q \in MailReqs, NEW u \in MailUsers, NEW b \in BOOLEAN, CreateSignature(q, u, b) PROVE BoxInv'
  <2>1. [MailIdle EXCEPT !.pc = IF b THEN "clear" ELSE "sign", !.row = q, !.user = u, !.default = b].pc # "mailbox"
    BY DEF MailIdle
  <2> QED BY <1>5, <1>9, <2>1 DEF CreateSignature
<1>10. ASSUME NEW q \in MailReqs, NEW i \in MailReqs, NEW b \in BOOLEAN, FindSignature(q, i, b) PROVE BoxInv'
  <2>1. [MailIdle EXCEPT !.pc = IF b THEN "clear" ELSE "sign", !.row = i, !.user = signatures[i].user,
                         !.default = b].pc # "mailbox"
    BY DEF MailIdle
  <2> QED BY <1>5, <1>10, <2>1 DEF FindSignature
<1>11. ASSUME NEW q \in MailReqs, NEW i \in MailReqs, NEW pc \in {"dns", "user", "drop"}, ReadDomain(q, i, pc) PROVE BoxInv'
  <2>1. [MailIdle EXCEPT !.pc = pc, !.row = i, !.row2 = mailDomains[i]].pc # "mailbox"
    BY DEF MailIdle
  <2> QED BY <1>5, <1>11, <2>1 DEF ReadDomain
<1> QED BY <1>1, <1>2, <1>3, <1>6, <1>7, <1>8, <1>9, <1>10, <1>11 DEF MailNext

LEMMA HostKeeps == DomainTypes /\ HostInv /\ MailNext => HostInv'
<1> SUFFICES ASSUME DomainTypes, HostInv, MailNext PROVE HostInv'
  OBVIOUS
<1>0. mailDomains \in [MailReqs -> MailRowType]
  BY DEF DomainTypes
<1> DEFINE Rows1 == \A i \in MailReqs : mailDomains[i] # NoMailRow => mailDomains[i].domain \in MailDomains
           Sent == stDomains \in [MailDomains -> {"none", "plain", "signed"}]
<1>1. ASSUME NEW q \in MailReqs, NEW pc, MailGo(q, pc), pc # "insert", Rows1', Sent', txtEver' = txtEver PROVE HostInv'
  <2>1. mailTask'[q].pc = pc /\ \A r \in MailReqs \ {q} : mailTask'[r] = mailTask[r]
    BY <1>1, MailGoes
  <2> QED BY <1>1, <2>1 DEF HostInv, MailAt
<1>2. ASSUME NEW q \in MailReqs, NEW rec, MailTo(q, rec), rec.pc = "insert" => rec.row2.domain \in MailDomains,
             Rows1', Sent', txtEver' = txtEver
      PROVE  HostInv'
  <2>1. mailTask'[q] = rec /\ \A r \in MailReqs \ {q} : mailTask'[r] = mailTask[r]
    BY <1>2, MailBegins
  <2> QED BY <1>2, <2>1 DEF HostInv, MailAt
<1>3. ASSUME mailDomains' = mailDomains PROVE Rows1'
  BY <1>3 DEF HostInv
<1>4. ASSUME stDomains' = stDomains PROVE Sent'
  BY <1>4 DEF HostInv
<1>5. ASSUME NEW d, NEW s \in {"none", "plain", "signed"}, stDomains' \in {stDomains, [stDomains EXCEPT ![d] = s]} PROVE Sent'
  BY <1>5 DEF HostInv
<1> HIDE DEF Rows1, Sent
<1>6. ASSUME NEW q \in MailReqs, NEW t \in MailTenants, NEW d \in MailDomains, RegisterDomain(q, t, d) PROVE HostInv'
  <2> DEFINE rec == [MailIdle EXCEPT !.pc = "insert", !.row2 = [tenant |-> t, domain |-> d, verified |-> FALSE]]
  <2>1. rec.row2.domain = d
    BY DEF MailIdle
  <2>2. Rows1' /\ txtEver' = txtEver
    BY <1>3, <1>6 DEF RegisterDomain
  <2>3. Sent'
    <3>1. stDomains' = stDomains \/ stDomains' = [stDomains EXCEPT ![d] = "plain"]
          \/ (stDomains' = [stDomains EXCEPT ![d] = IF @ = "none" THEN "plain" ELSE @])
      BY <1>6 DEF RegisterDomain
    <3> QED BY <3>1 DEF HostInv, Sent
  <2>4. MailTo(q, rec) \/ MailGo(q, "done")
    BY <1>6 DEF RegisterDomain
  <2> HIDE DEF rec
  <2> QED BY <1>1, <1>2, <2>1, <2>2, <2>3, <2>4
<1>7. ASSUME NEW q \in MailReqs, InsertDomain(q) PROVE HostInv'
  <2>1. mailTask[q].row2.domain \in MailDomains /\ MailGo(q, "done") /\ UNCHANGED <<stDomains, txtEver>>
    BY <1>7 DEF InsertDomain, HostInv
  <2>2. mailDomains' = mailDomains \/ mailDomains' = [mailDomains EXCEPT ![q] = mailTask[q].row2]
    BY <1>7 DEF InsertDomain
  <2>3. Rows1'
    BY <1>0, <2>1, <2>2 DEF HostInv, Rows1
  <2> QED BY <1>1, <1>4, <2>1, <2>3
<1>8. ASSUME NEW q \in MailReqs, MarkVerified(q) PROVE HostInv'
  <2>1. \/ mailDomains' = mailDomains
        \/ /\ mailDomains[mailTask[q].row] # NoMailRow
           /\ mailDomains' = [mailDomains EXCEPT ![mailTask[q].row].verified = TRUE]
    BY <1>8 DEF MarkVerified
  <2>2. Rows1'
    BY <1>0, <2>1 DEF HostInv, Rows1, MailRowType
  <2> QED BY <1>1, <1>4, <1>8, <2>2 DEF MarkVerified
<1>9. ASSUME NEW q \in MailReqs, DeleteDomain(q) PROVE HostInv'
  <2>1. mailDomains' = [mailDomains EXCEPT ![mailTask[q].row] = NoMailRow]
    BY <1>9 DEF DeleteDomain
  <2>2. Rows1'
    BY <1>0, <2>1 DEF HostInv, Rows1
  <2> QED BY <1>1, <1>4, <1>9, <2>2 DEF DeleteDomain
<1>10. ASSUME NEW q \in MailReqs, SetupDkim(q) \/ DropDomain(q) PROVE HostInv'
  <2>1. Sent'
    BY <1>5, <1>10 DEF SetupDkim, DropDomain
  <2> QED BY <1>1, <1>3, <1>10, <2>1 DEF SetupDkim, DropDomain
<1>11. ASSUME NEW q \in MailReqs, EditTxt(q) PROVE HostInv'
  <2>1. mailDomains[q].domain \in MailDomains
    BY <1>11 DEF EditTxt, HostInv
  <2> QED BY <1>11, <2>1 DEF EditTxt, HostInv, MailAt
<1>12. ASSUME NEW q \in MailReqs, ProvisionMailbox(q) \/ ClearDefaults(q) \/ WriteSignature(q) \/ ResolveTxt(q)
                                  \/ (\E i \in MailReqs : DeleteSignature(q, i))
                                  \/ (\E n \in Names : CreateDomainUser(q, n))
       PROVE  HostInv'
  <2>1. UNCHANGED <<stDomains, txtEver, mailDomains>> /\ \E pc : pc # "insert" /\ MailGo(q, pc)
    BY <1>12 DEF ProvisionMailbox, ClearDefaults, WriteSignature, ResolveTxt, DeleteSignature, CreateDomainUser
  <2> QED BY <1>1, <1>3, <1>4, <2>1
<1>13. ASSUME NEW q \in MailReqs, NEW u \in MailUsers, ReadMailUser(q, u) PROVE HostInv'
  <2>1. [MailIdle EXCEPT !.pc = "mailbox", !.user = u].pc # "insert"
    BY DEF MailIdle
  <2> QED BY <1>2, <1>3, <1>4, <1>13, <2>1 DEF ReadMailUser
<1>14. ASSUME NEW q \in MailReqs, NEW u \in MailUsers, NEW b \in BOOLEAN, CreateSignature(q, u, b) PROVE HostInv'
  <2>1. [MailIdle EXCEPT !.pc = IF b THEN "clear" ELSE "sign", !.row = q, !.user = u, !.default = b].pc # "insert"
    BY DEF MailIdle
  <2> QED BY <1>2, <1>3, <1>4, <1>14, <2>1 DEF CreateSignature
<1>15. ASSUME NEW q \in MailReqs, NEW i \in MailReqs, NEW b \in BOOLEAN, FindSignature(q, i, b) PROVE HostInv'
  <2>1. [MailIdle EXCEPT !.pc = IF b THEN "clear" ELSE "sign", !.row = i, !.user = signatures[i].user,
                         !.default = b].pc # "insert"
    BY DEF MailIdle
  <2> QED BY <1>2, <1>3, <1>4, <1>15, <2>1 DEF FindSignature
<1>16. ASSUME NEW q \in MailReqs, NEW i \in MailReqs, NEW pc \in {"dns", "user", "drop"}, ReadDomain(q, i, pc) PROVE HostInv'
  <2>1. [MailIdle EXCEPT !.pc = pc, !.row = i, !.row2 = mailDomains[i]].pc # "insert"
    BY DEF MailIdle
  <2> QED BY <1>2, <1>3, <1>4, <1>16, <2>1 DEF ReadDomain
<1> QED BY <1>6, <1>7, <1>8, <1>9, <1>10, <1>11, <1>12, <1>13, <1>14, <1>15, <1>16 DEF MailNext

LEMMA TunnelKeeps == TunnelInv /\ [TunnelNext]_tunnelVars => TunnelInv'
<1> SUFFICES ASSUME TunnelInv, [TunnelNext]_tunnelVars PROVE TunnelInv'
  OBVIOUS
<1>1. CASE UNCHANGED tunnelVars
  BY <1>1 DEF tunnelVars, TunnelInv
<1>2. ASSUME NEW q \in TunnelReqs, NEW h \in Hosts, NEW pc \in {"add", "remove"}, GetTunnelConfig(q, h, pc) PROVE TunnelInv'
  <2> DEFINE Type == [pc : {"none", "add", "remove", "done"}, host : Hosts \cup {""}, read : SUBSET (Hosts \cup {""})]
  <2>1. tunnelTask \in [TunnelReqs -> Type] /\ tunnel \subseteq Hosts \cup {""}
    BY DEF TunnelInv
  <2>2. \/ \E t \in Type : tunnelTask' = [tunnelTask EXCEPT ![q] = t]
        \/ tunnelTask' = [tunnelTask EXCEPT ![q].pc = "done"]
    <3>1. \A p \in {"add", "remove", "done"} : [pc |-> p, host |-> h, read |-> tunnel] \in Type
      BY <2>1
    <3>2. (IF pc = "add" /\ h \in tunnel THEN "done" ELSE pc) \in {"add", "remove", "done"}
      OBVIOUS
    <3> HIDE DEF Type
    <3> QED BY <1>2, <3>1, <3>2 DEF GetTunnelConfig
  <2>3. tunnelTask' \in [TunnelReqs -> Type]
    BY <2>1, <2>2
  <2>4. tunnel' = tunnel
    BY <1>2 DEF GetTunnelConfig
  <2> QED BY <2>1, <2>3, <2>4 DEF TunnelInv
<1>3. ASSUME NEW q \in TunnelReqs, AddTunnelRoute(q) \/ RemoveTunnelRoute(q) PROVE TunnelInv'
  <2>1. tunnelTask[q].read \subseteq Hosts \cup {""} /\ tunnelTask[q].host \in Hosts \cup {""}
    BY DEF TunnelInv
  <2>2. tunnel' \subseteq Hosts \cup {""}
    BY <1>3, <2>1 DEF AddTunnelRoute, RemoveTunnelRoute, TunnelInv
  <2>3. tunnelTask' = [tunnelTask EXCEPT ![q].pc = "done"]
    BY <1>3 DEF AddTunnelRoute, RemoveTunnelRoute
  <2> QED BY <2>2, <2>3 DEF TunnelInv
<1> QED BY <1>1, <1>2, <1>3 DEF TunnelNext

LEMMA MailFrame == MailNext => UNCHANGED tunnelVars
BY DEF MailNext, ReadMailUser, ProvisionMailbox, CreateSignature, FindSignature, ClearDefaults, WriteSignature,
       DeleteSignature, RegisterDomain, InsertDomain, EditTxt, ReadDomain, ResolveTxt, MarkVerified, SetupDkim,
       DropDomain, DeleteDomain, CreateDomainUser
LEMMA TunnelFrame == TunnelNext => UNCHANGED mailVars
BY DEF TunnelNext, GetTunnelConfig, AddTunnelRoute, RemoveTunnelRoute

LEMMA PostKeeps ==
    DomainInv /\ BoxInv /\ HostInv /\ TunnelInv /\ [ApiMailNext]_apiMailVars => BoxInv' /\ HostInv' /\ TunnelInv'
<1> SUFFICES ASSUME DomainInv, BoxInv, HostInv, TunnelInv, [ApiMailNext]_apiMailVars
             PROVE  BoxInv' /\ HostInv' /\ TunnelInv'
  OBVIOUS
<1>1. MailNext \/ UNCHANGED mailVars
  BY TunnelFrame DEF ApiMailNext, apiMailVars
<1>2. [TunnelNext]_tunnelVars
  BY MailFrame DEF ApiMailNext, apiMailVars
<1>3. CASE MailNext
  BY <1>2, <1>3, BoxKeeps, HostKeeps, TunnelKeeps DEF DomainInv
<1>4. CASE UNCHANGED mailVars
  <2>1. BoxInv' /\ HostInv'
    BY <1>4 DEF mailVars, BoxInv, HostInv, MailAt
  <2> QED BY <1>2, <2>1, TunnelKeeps
<1> QED BY <1>1, <1>3, <1>4

LEMMA PostTyped == DomainInv /\ BoxInv /\ HostInv /\ TunnelInv => ApiMailTypeOK
<1> SUFFICES ASSUME DomainInv, BoxInv, HostInv, TunnelInv PROVE ApiMailTypeOK
  OBVIOUS
<1>1. \A i \in MailReqs : mailDomains[i].domain \in MailDomains \cup {"none"}
  BY DEF DomainInv, DomainTypes, MailRowType
<1> QED BY <1>1 DEF DomainInv, DomainTypes, BoxInv, HostInv, TunnelInv, ApiMailTypeOK

-----------------------------------------------------------------------------
(* The whole API.                                                          *)

\* A step of the API is one of each module, or leaves the module alone.
LEMMA ModulesStep == [ApiNext]_ApiVars => /\ [AppsNext]_appVarsAll
                                          /\ [DbNext \/ StoreNext \/ EndNext]_dataVars
                                          /\ [PrivacyNext]_privVars
                                          /\ [ApiMailNext]_apiMailVars
<1> SUFFICES ASSUME [ApiNext]_ApiVars
             PROVE  /\ [AppsNext]_appVarsAll
                    /\ [DbNext \/ StoreNext \/ EndNext]_dataVars
                    /\ [PrivacyNext]_privVars
                    /\ [ApiMailNext]_apiMailVars
  OBVIOUS
<1>1. UNCHANGED appVarsAll \/ AppStepped
  BY DEF ApiNext, ApiVars, ProjectStepped, WorkloadStepped, AuthStepped, DataStepped, FirstHalf
<1>2. UNCHANGED dataVars \/ DataStepped
  BY DEF ApiNext, ApiVars, ProjectStepped, WorkloadStepped, AuthStepped, AppStepped, FirstHalf
<1>3. UNCHANGED privVars \/ PrivacyStepped
  BY DEF ApiNext, ApiVars, MoneyStepped, MailStepped, AssistStepped, SecondHalf
<1>4. UNCHANGED apiMailVars \/ MailStepped
  BY DEF ApiNext, ApiVars, MoneyStepped, PrivacyStepped, AssistStepped, SecondHalf
<1>5. AppStepped => AppsNext
  BY DEF AppStepped, AppsNext
<1>6. DataStepped => DbNext \/ StoreNext \/ EndNext
  BY DEF DataStepped
<1>7. PrivacyStepped => PrivacyNext
  BY DEF PrivacyStepped
<1>8. MailStepped => ApiMailNext
  BY DEF MailStepped, ApiMailNext
<1> QED BY <1>1, <1>2, <1>3, <1>4, <1>5, <1>6, <1>7, <1>8

\* The modules' invariants, each inductive with the ones of its group.
AppsGroup     == AppsInv
WorkloadGroup == WlInv /\ NsTypes /\ VolInv
ProjectGroup  == PrjInv /\ HangInv
AccountGroup  == AcctInv /\ TeamInv
BillingGroup  == AddInv /\ MoneyInv /\ BoundsInv
PrivacyGroup  == PrivInv /\ CountInv /\ FiledInv
MailGroup     == DomainInv /\ BoxInv /\ HostInv /\ TunnelInv
AssistGroup   == CgInv /\ ObsInv

LEMMA ApiStarts ==
    ApiInit => /\ AppsGroup /\ WorkloadGroup /\ ProjectGroup /\ AccountGroup /\ DataInv
               /\ BillingGroup /\ PrivacyGroup /\ MailGroup /\ AssistGroup
<1> SUFFICES ASSUME ApiInit
             PROVE  /\ AppsGroup /\ WorkloadGroup /\ ProjectGroup /\ AccountGroup /\ DataInv
                    /\ BillingGroup /\ PrivacyGroup /\ MailGroup /\ AssistGroup
  OBVIOUS
<1>1. /\ AppsInit /\ WorkloadsInit /\ ProjectsInit /\ AuthInit /\ DataInit /\ ApiBillingInit
      /\ PrivacyInit /\ ApiMailInit /\ AssistInit
  BY DEF ApiInit
<1>2. AppsGroup /\ WorkloadGroup /\ ProjectGroup
  BY <1>1, AppsStart, WlStarts, NsTypesStart, VolStarts, PrjInitHolds, HangStarts
     DEF AppsGroup, WorkloadGroup, ProjectGroup
<1>3. AccountGroup /\ DataInv
  BY <1>1, AcctStarts, TeamStarts, DataStarts DEF AccountGroup
<1>4. BillingGroup
  BY <1>1, AddStarts, MoneyStart, BillStarts, TickStarts DEF BillingGroup, BoundsInv
<1>5. PrivacyGroup /\ MailGroup /\ AssistGroup
  BY <1>1, PrivStart, CountStarts, DomainStart, PostStarts, CgStarts, ObsStarts
     DEF PrivacyGroup, MailGroup, AssistGroup
<1> QED BY <1>2, <1>3, <1>4, <1>5

LEMMA GroupsKeep ==
    ASSUME [ApiNext]_ApiVars
    PROVE  /\ AppsGroup => AppsGroup'
           /\ WorkloadGroup => WorkloadGroup'
           /\ ProjectGroup => ProjectGroup'
           /\ AccountGroup => AccountGroup'
           /\ DataInv => DataInv'
           /\ BillingGroup => BillingGroup'
           /\ PrivacyGroup => PrivacyGroup'
           /\ MailGroup => MailGroup'
           /\ AssistGroup => AssistGroup'
<1>1. AppsGroup => AppsGroup'
  BY ModulesStep, AppsKeep DEF AppsGroup
<1>2. WorkloadGroup => WorkloadGroup'
  BY LimitsStep, VolumesStep, WlKeeps, NsTypesKeep, VolKeeps DEF WorkloadGroup
<1>3. ProjectGroup => ProjectGroup'
  BY RecordsStep, PrjKeeps, HangKeeps DEF ProjectGroup
<1>4. AccountGroup => AccountGroup'
  BY AuthStep, AcctKeeps, TeamKeeps DEF AccountGroup
<1>5. DataInv => DataInv'
  BY ModulesStep, DataKeeps
<1>6. BillingGroup => BillingGroup'
  BY RecordsStep, BillsKeep, MoneyKeeps, BoundsKeep DEF BillingGroup
<1>7. PrivacyGroup => PrivacyGroup'
  BY ModulesStep, PrivKeeps, RegisterKeeps DEF PrivacyGroup
<1>8. MailGroup => MailGroup'
  BY ModulesStep, DomainKeeps, PostKeeps DEF MailGroup
<1>9. AssistGroup => AssistGroup'
  BY RecordsStep, CgKeeps, ObsKeeps DEF AssistGroup
<1> QED BY <1>1, <1>2, <1>3, <1>4, <1>5, <1>6, <1>7, <1>8, <1>9

\* What the groups say of the types.
LEMMA ApiTyped ==
    /\ AppsGroup /\ WorkloadGroup /\ ProjectGroup /\ AccountGroup /\ DataInv
    /\ BillingGroup /\ PrivacyGroup /\ MailGroup /\ AssistGroup
    => ApiTypeOK
<1>1. AppsGroup => AppsTypeOK
  BY DEF AppsGroup, AppsInv, TypeInv, StateTyped
<1>2. WorkloadGroup => WorkloadsTypeOK
  BY WorkloadsTyped DEF WorkloadGroup, WlInv
<1>3. ProjectGroup => ProjectsTypeOK
  BY ProjectsTyped DEF ProjectGroup
<1>4. AccountGroup => AuthTypeOK
  <2> SUFFICES ASSUME AccountGroup PROVE AuthTypeOK
    OBVIOUS
  <2>1. AcctTypes /\ TeamTypes
    BY DEF AccountGroup, AcctInv, TeamInv
  <2>2. \A m \in Emails : acctUser[m].id \in AuthReqs \cup {0} /\ acctUser[m].magic \in AuthReqs \cup {0}
    BY <2>1 DEF AcctTypes, UserType
  <2> QED BY <2>1, <2>2 DEF AcctTypes, TeamTypes, AuthTypeOK
<1>5. BillingGroup => ApiBillingTypeOK
  BY BillsTyped DEF BillingGroup
<1>6. PrivacyGroup => PrivacyTypeOK
  BY PrivacyTyped DEF PrivacyGroup
<1>7. MailGroup => ApiMailTypeOK
  BY PostTyped DEF MailGroup
<1>8. AssistGroup => AssistTypeOK
  BY AssistTyped DEF AssistGroup
<1> QED BY <1>1, <1>2, <1>3, <1>4, <1>5, <1>6, <1>7, <1>8, DataTyped DEF ApiTypeOK

(* Every variable of every route module keeps to its type, whatever races,   *)
(* fails half-way and restarts: bills to what the usage allows, audits to    *)
(* one per request, DNS records and mailboxes to domains and names there     *)
(* are (routes of tinai-api).                                                *)
THEOREM ApiTypes == ApiSpec => []ApiTypeOK
<1> DEFINE Groups == /\ AppsGroup /\ WorkloadGroup /\ ProjectGroup /\ AccountGroup /\ DataInv
                     /\ BillingGroup /\ PrivacyGroup /\ MailGroup /\ AssistGroup
<1>1. ApiInit => Groups
  BY ApiStarts
<1>2. Groups /\ [ApiNext]_ApiVars => Groups'
  <2> SUFFICES ASSUME Groups, [ApiNext]_ApiVars PROVE Groups'
    OBVIOUS
  <2> QED BY GroupsKeep
<1>3. Groups => ApiTypeOK
  BY ApiTyped
<1> QED BY <1>1, <1>2, <1>3, PTL DEF ApiSpec

================================================================================
