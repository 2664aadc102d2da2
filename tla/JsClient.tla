-------------------------------- MODULE JsClient --------------------------------
(***************************************************************************)
(* The JavaScript client of the platform (packages/tinai-js): its session  *)
(* (auth.ts), its subscriptions to tables and channels (database.ts,       *)
(* channel.ts) and the connection they share (realtime.ts).  Every action  *)
(* is one turn of the event loop: a call of the application, an event of a *)
(* WebSocket or a timer.  Sockets close and open when the network wants;   *)
(* what is sent on an open one arrives in order.                           *)
(***************************************************************************)
EXTENDS Naturals, Sequences, FiniteSets, SequencesExt

CONSTANTS
    JsTenants,    \* tenants whose users may sign in; the token of a session is its tenant
    JsTables,
    MaxSockets,   \* bound on the sockets ever created
    MaxSubs,      \* bound on the subscriptions at a time
    MaxQueue      \* bound on the messages waiting for a connection

ASSUME JsClientAssumption ==
    /\ IsFiniteSet(JsTenants) /\ IsFiniteSet(JsTables)
    /\ MaxSockets \in Nat /\ MaxSubs \in Nat /\ MaxQueue \in Nat

VARIABLES
    session,      \* tenant_id of AuthClient.session, or "none"
    stored,       \* the session in localStorage
    token,        \* RealtimeClient.token
    records,      \* subscriptions: per channel <<tenant, table>> how many records
    channels,     \* subscribedChannels
    queue,        \* messageQueue
    current,      \* this.ws: a socket, or 0
    connecting,   \* isConnecting
    resolving,    \* connects that wait for the WebSocket class to be loaded
    loaded,       \* WsClass has been loaded
    timer,        \* reconnectTimer is set
    stay,         \* shouldReconnect
    socket,       \* per socket its state, token, and what the hub has it subscribed to
    sockets,      \* sockets created
    heard         \* history: <<channel of an event, channel whose callback it reached>>

authSide == <<session, stored>>
subSide  == <<records, channels, heard>>
connSide == <<current, connecting, resolving, loaded, timer, stay, socket, sockets>>
jsVars   == <<authSide, token, subSide, queue, connSide>>

Channels == (JsTenants \cup {"none"}) \X JsTables
SocketIds == 1..MaxSockets
Closed == [state |-> "closed", token |-> "none", subs |-> {}]

\* The session stored is taken up; a token given as an option goes before it on
\* the connection, and names no tenant when nothing is stored.
JsInit ==
    /\ stored \in JsTenants \cup {"none"} /\ session = stored /\ token \in JsTenants \cup {stored}
    /\ records = [c \in Channels |-> 0] /\ channels = {} /\ queue = <<>> /\ heard = {}
    /\ current = 0 /\ connecting = FALSE /\ resolving = 0 /\ loaded = FALSE /\ timer = FALSE /\ stay = TRUE
    /\ socket = [s \in SocketIds |-> Closed] /\ sockets = 0

Open(s) == s # 0 /\ socket[s].state = "open"

(***************************************************************************)
(* Messages                                                                *)
(***************************************************************************)
\* What the hub makes of one message.
Hubs(subs, m) == IF m.action = "subscribe" THEN subs \cup {m.channel} ELSE subs \ {m.channel}
\* Of several, in order: the last one about a channel decides.
After(subs, ms) ==
    {c \in Channels :
        \/ \E i \in DOMAIN ms : /\ ms[i] = [action |-> "subscribe", channel |-> c]
                                /\ \A j \in DOMAIN ms : j > i => ms[j].channel # c
        \/ c \in subs /\ \A i \in DOMAIN ms : ms[i].channel # c}

\* _send: on the current socket when it is open, in the queue otherwise.
Send(m) ==
    IF Open(current)
    THEN socket' = [socket EXCEPT ![current].subs = Hubs(@, m)] /\ queue' = queue
    ELSE /\ Len(queue) < MaxQueue /\ queue' = Append(queue, m) /\ socket' = socket

(***************************************************************************)
(* The connection                                                          *)
(***************************************************************************)
\* The rest of _connect, once the class is there: the socket takes the token of
\* now and becomes the current one, whatever the current one was.
NewSocket(sock) ==
    /\ sockets < MaxSockets /\ sockets' = sockets + 1 /\ current' = sockets + 1
    /\ socket' = [sock EXCEPT ![sockets + 1] = [state |-> "connecting", token |-> token, subs |-> {}]]

\* _connect awaits the import of the class the first time only.
Connect ==
    /\ connecting' = TRUE
    /\ IF loaded THEN NewSocket(socket) /\ UNCHANGED <<resolving, loaded>>
       ELSE resolving' = resolving + 1 /\ UNCHANGED <<loaded, current, sockets, socket>>

ClassResolved ==
    /\ resolving > 0 /\ resolving' = resolving - 1 /\ loaded' = TRUE /\ NewSocket(socket)
    /\ UNCHANGED <<authSide, token, subSide, queue, connecting, timer, stay>>

\* onopen: the queue is emptied into the CURRENT socket, and lost when that one
\* is not open; then every channel is subscribed again.
Resubscribe == SetToSeq({[action |-> "subscribe", channel |-> c] : c \in channels})
OnOpen(s) ==
    /\ socket[s].state = "connecting" /\ connecting' = FALSE
    /\ LET opened == [socket EXCEPT ![s].state = "open"] IN
       IF current # 0 /\ opened[current].state = "open"
       THEN /\ queue' = <<>>
            /\ socket' = [opened EXCEPT ![current].subs = After(@, queue \o Resubscribe)]
       ELSE queue' = Resubscribe /\ socket' = opened
    /\ UNCHANGED <<authSide, token, subSide, current, resolving, loaded, timer, stay, sockets>>

\* A defect of OnClose: no reconnection is scheduled.
GivesUp(s) ==
    /\ socket[s].state # "closed" /\ socket' = [socket EXCEPT ![s] = Closed]
    /\ connecting' = FALSE /\ current' = 0 /\ UNCHANGED timer
    /\ UNCHANGED <<authSide, token, subSide, queue, resolving, loaded, stay, sockets>>

\* onclose of any socket, be it an old one: there is no current socket any more,
\* and a timer to make one.
OnClose(s) ==
    /\ socket[s].state # "closed" /\ socket' = [socket EXCEPT ![s] = Closed]
    /\ connecting' = FALSE /\ current' = 0 /\ timer' = stay
    /\ UNCHANGED <<authSide, token, subSide, queue, resolving, loaded, stay, sockets>>

\* The timer connects without asking whether somebody else did.
Reconnect ==
    /\ timer /\ timer' = FALSE /\ Connect
    /\ UNCHANGED <<authSide, token, subSide, queue, stay>>

\* disconnect closes the current socket only; one being resolved still comes.
Disconnect ==
    /\ stay' = FALSE /\ timer' = FALSE /\ current' = 0
    /\ socket' = IF current = 0 THEN socket ELSE [socket EXCEPT ![current].state = "closing"]
    /\ UNCHANGED <<authSide, token, subSide, queue, connecting, resolving, loaded, sockets>>

(***************************************************************************)
(* Subscriptions                                                           *)
(***************************************************************************)
RecordCount == Cardinality({x \in Channels \X (1..MaxSubs) : x[2] <= records[x[1]]})

\* addSubscription: the first record of a channel sends 'subscribe' -- into the
\* queue when _ensureConnected had to ask for a connection, or somebody has.
Subscribe(c) ==
    LET m == [action |-> "subscribe", channel |-> c]
        first == c \notin channels IN
    /\ RecordCount < MaxSubs /\ records' = [records EXCEPT ![c] = @ + 1] /\ channels' = channels \cup {c}
    /\ \/ /\ Open(current)
          /\ IF first THEN Send(m) ELSE UNCHANGED <<socket, queue>>
          /\ UNCHANGED <<connecting, resolving, loaded, current, sockets>>
       \/ /\ ~Open(current)
          /\ IF connecting THEN UNCHANGED <<connecting, resolving, loaded, current, sockets, socket>> ELSE Connect
          /\ queue' = IF first THEN Append(queue, m) ELSE queue
          /\ Len(queue) < MaxQueue
    /\ UNCHANGED <<authSide, token, heard, timer, stay>>

\* TableBuilder.subscribe: the channel is that of the tenant signed in now.
SubscribeTable(t) == Subscribe(<<session, t>>)
\* Channel.subscribe: a channel by its name.
SubscribeChannel(c) == Subscribe(c)

\* The last record of a channel unsubscribes it.
Unsubscribe(c) ==
    /\ records[c] > 0 /\ records' = [records EXCEPT ![c] = @ - 1]
    /\ IF records[c] = 1 THEN channels' = channels \ {c} /\ Send([action |-> "unsubscribe", channel |-> c])
       ELSE UNCHANGED <<channels, queue, socket>>
    /\ UNCHANGED <<authSide, token, heard, current, connecting, resolving, loaded, timer, stay, sockets>>

\* _handleMessage: an event names its table, not its channel; every callback of
\* that table is called.
HandleMessage(s, c) ==
    /\ Open(s) /\ c \in socket[s].subs
    /\ heard' = heard \cup {<<c, k>> : k \in {x \in Channels : x[2] = c[2] /\ records[x] > 0}}
    /\ UNCHANGED <<authSide, token, records, channels, queue, connSide>>

(***************************************************************************)
(* The session                                                             *)
(***************************************************************************)
\* setToken closes the current socket when the token changes: it is replaced,
\* when it has closed, by one with the new token.
SetToken(t) ==
    /\ token' = t
    /\ socket' = IF t # token /\ current # 0 THEN [socket EXCEPT ![current].state = "closing"] ELSE socket
    /\ UNCHANGED <<subSide, queue, current, connecting, resolving, loaded, timer, stay, sockets>>

\* signIn, verifyOtp: the answer of the API sets session, storage and token.
\* Storage that refuses is ignored.
SignIn(t) == session' = t /\ stored' \in {stored, t} /\ SetToken(t)
SignOut   == session' = "none" /\ stored' \in {stored, "none"} /\ SetToken("none")

JsNext ==
    \/ ClassResolved \/ Reconnect \/ Disconnect \/ SignOut
    \/ \E s \in SocketIds : OnOpen(s) \/ OnClose(s) \/ \E c \in Channels : HandleMessage(s, c)
    \/ \E t \in JsTables : SubscribeTable(t)
    \/ \E c \in Channels : SubscribeChannel(c) \/ Unsubscribe(c)
    \/ \E t \in JsTenants : SignIn(t)

(***************************************************************************)
(* Properties                                                              *)
(***************************************************************************)
\* Types of every variable.
JsTypeOK ==
    /\ session \in JsTenants \cup {"none"} /\ stored \in JsTenants \cup {"none"} /\ token \in JsTenants \cup {"none"}
    /\ records \in [Channels -> 0..MaxSubs] /\ channels = {c \in Channels : records[c] > 0}
    /\ Len(queue) <= MaxQueue + Cardinality(Channels) /\ current \in 0..MaxSockets
    /\ connecting \in BOOLEAN /\ resolving \in 0..2 /\ loaded \in BOOLEAN /\ timer \in BOOLEAN
    /\ \A s \in SocketIds : /\ socket[s].state \in {"closed", "connecting", "open", "closing"}
                            /\ socket[s].subs \subseteq Channels
    /\ sockets \in 0..MaxSockets /\ heard \subseteq Channels \X Channels

\* The current socket, once open, is subscribed at the hub to the channels that
\* have a subscription and to no other, and carries the token set last,
\* whatever the order of subscribing, signing in and out, losing connections and
\* reconnecting twice (realtime.ts:100-138, 178-201, 294-317).
CurrentSocketIsRight ==
    Open(current) => socket[current].subs = channels /\ socket[current].token = token

\* A connection is there, or on its way, whenever a subscription waits for one,
\* unless the application has disconnected (realtime.ts:157-201, 211-220).
ConnectionOnItsWay ==
    channels # {} /\ stay => timer \/ resolving > 0 \/ \E s \in SocketIds : socket[s].state # "closed"
================================================================================
