----------------------------- MODULE RealtimeHub -----------------------------
(***************************************************************************)
(* The fan-out hub of tinai-realtime, on every pod replica of the service, *)
(* with the WebSocket sessions that feed it (ws.Handler: the handler       *)
(* goroutine runs readPump, a second goroutine runs writePump), the        *)
(* PostgreSQL relay that broadcasts through it, and the NATS subjects that *)
(* carry a broadcast from one pod to the others.                           *)
(*                                                                         *)
(* A hub owns its maps alone: one goroutine (Hub.Run) takes commands from  *)
(* the bounded channel `cmds', and everybody else only appends to it. What *)
(* can go wrong is the order in which the commands of one session, of      *)
(* other sessions, of the relay and of NATS callbacks reach that channel.  *)
(***************************************************************************)
EXTENDS Naturals, Sequences, FiniteSets

CONSTANTS
  Pods,           \* replicas of the service, one hub each
  Clients,        \* WebSocket sessions; a session connects once
  Channels,       \* hub channels, "tenant:<id>:<name>"
  Tenants,
  Subjects,       \* NATS subjects
  PodOf,          \* the pod a session is connected to
  TenantOf,       \* tenant_id claim of the session's JWT
  ChannelTenant,  \* the tenant named in a channel's prefix
  SubjectOf,      \* channelToNATSSubject: need not be injective (':' and '.')
  HasNats,        \* FALSE: hub.New(nil), in-memory mode
  CmdCap,         \* capacity of Hub.cmds
  SendCap,        \* capacity of Client.Send
  MaxNotify,      \* bound: NOTIFYs issued by PostgreSQL
  MaxReads,       \* bound: frames a session sends
  MaxCrashes,     \* bound: crashes of a pod
  None

ASSUME MapsAssumption ==
  /\ PodOf \in [Clients -> Pods]
  /\ TenantOf \in [Clients -> Tenants]
  /\ ChannelTenant \in [Channels -> Tenants]
  /\ SubjectOf \in [Channels -> Subjects]

ASSUME BoundsAssumption ==
  /\ HasNats \in BOOLEAN
  /\ CmdCap \in Nat \ {0}
  /\ SendCap \in Nat
  /\ MaxNotify \in Nat
  /\ MaxReads \in Nat
  /\ MaxCrashes \in Nat

ASSUME NoneAssumption == None \notin Clients

ASSUME PodsAssumption == IsFiniteSet(Pods)

VARIABLES
  cmds,        \* Hub.cmds, per pod
  clients,     \* Hub.clients
  channels,    \* Hub.channels: a partial function, channel -> subscribers
  natsSubs,    \* keys of Hub.natsUnsubs
  wire,        \* NATS messages of each subscription not yet handed to the hub
  late,        \* messages in a callback still running when it was unsubscribed
  send,        \* Client.Send, the buffered payloads
  sendClosed,  \* Client.Send has been closed
  handler,     \* where the handler goroutine of a session is
  pump,        \* where its writePump goroutine is
  writer,      \* who is inside conn.WriteMessage (gorilla's isWriting)
  written,     \* payloads handed to the socket, in order
  reads,       \* frames read so far
  notified,    \* the channels of the NOTIFYs PostgreSQL has issued, in order
  relayPos,    \* how many of them a pod's relay has gone past
  crashes

hubVars == <<clients, channels, natsSubs>>
natsVars == <<wire, late>>
sessionVars == <<handler, pump, writer, written, reads>>
relayVars == <<notified, relayPos>>
vars == <<cmds, hubVars, natsVars, send, sendClosed, sessionVars, relayVars,
          crashes>>

-----------------------------------------------------------------------------
(* Types *)

CmdType == {"register", "unregister", "subscribe", "unsubscribe", "broadcast"}

\* All fields but the type are optional; None, or 0 for the payload, when unset.
Cmd == [type : CmdType, client : Clients \cup {None}, channel : Channels \cup {None},
        payload : Nat, fromNATS : BOOLEAN]

\* A payload in a Send buffer: which NOTIFY, on which hub channel, which way.
Item == [payload : Nat, channel : Channels, fromNATS : BOOLEAN]

\* Hub.channels maps some channels to their subscribers.
ChannelMap == UNION {[D -> SUBSET Clients] : D \in SUBSET Channels}

\* "panicked": the handler was unwound past its cleanup, net/http recovered.
HandlerState == {"new", "reading", "denying", "unregister", "ended", "panicked"}
PumpState == {"off", "running", "exited"}

TypeOK ==
  /\ cmds \in [Pods -> Seq(Cmd)]
  /\ clients \in [Pods -> SUBSET Clients]
  /\ channels \in [Pods -> ChannelMap]
  /\ natsSubs \in [Pods -> SUBSET Channels]
  /\ wire \in [Pods -> [Channels -> Seq(Nat)]]
  /\ late \in [Pods -> SUBSET [channel : Channels, payload : Nat]]
  /\ send \in [Clients -> Seq(Item)]
  /\ sendClosed \in [Clients -> BOOLEAN]
  /\ handler \in [Clients -> HandlerState]
  /\ pump \in [Clients -> PumpState]
  /\ writer \in [Clients -> {"none", "pump", "reader"}]
  /\ written \in [Clients -> Seq(Item)]
  /\ reads \in [Clients -> Nat]
  /\ notified \in Seq(Channels)
  /\ relayPos \in [Pods -> Nat]
  /\ crashes \in Nat

Init ==
  /\ cmds = [p \in Pods |-> <<>>]
  /\ clients = [p \in Pods |-> {}]
  /\ channels = [p \in Pods |-> [ch \in {} |-> {}]]
  /\ natsSubs = [p \in Pods |-> {}]
  /\ wire = [p \in Pods |-> [ch \in Channels |-> <<>>]]
  /\ late = [p \in Pods |-> {}]
  /\ send = [c \in Clients |-> <<>>]
  /\ sendClosed = [c \in Clients |-> FALSE]
  /\ handler = [c \in Clients |-> "new"]
  /\ pump = [c \in Clients |-> "off"]
  /\ writer = [c \in Clients |-> "none"]
  /\ written = [c \in Clients |-> <<>>]
  /\ reads = [c \in Clients |-> 0]
  /\ notified = <<>>
  /\ relayPos = [p \in Pods |-> 0]
  /\ crashes = 0

-----------------------------------------------------------------------------
(* The command channel: a send blocks while it is full. *)

ClientCmd(t, c, ch) ==
  [type |-> t, client |-> c, channel |-> ch, payload |-> 0, fromNATS |-> FALSE]

BroadcastCmd(ch, n, nats) ==
  [type |-> "broadcast", client |-> None, channel |-> ch, payload |-> n, fromNATS |-> nats]

\* Mutant of Enqueue: a send that gives up when the queue is full.
EnqueueNonBlocking(p, cmd) ==
  cmds' = IF Len(cmds[p]) < CmdCap THEN [cmds EXCEPT ![p] = Append(@, cmd)] ELSE cmds

Enqueue(p, cmd) ==
  /\ Len(cmds[p]) < CmdCap
  /\ cmds' = [cmds EXCEPT ![p] = Append(@, cmd)]

\* Hub.Run takes the oldest command, which is one of type t.
Dequeue(p, t) ==
  /\ cmds[p] # <<>>
  /\ Head(cmds[p]).type = t
  /\ cmds' = [cmds EXCEPT ![p] = Tail(@)]

-----------------------------------------------------------------------------
(* The subscription map, as a partial function f. *)

Members(f, ch) == IF ch \in DOMAIN f THEN f[ch] ELSE {}

Joined(f, ch, c) ==
  [x \in DOMAIN f \cup {ch} |-> IF x = ch THEN Members(f, ch) \cup {c} ELSE f[x]]

\* Mutant of Left: a channel stays in the map when its last subscriber leaves.
LeftKeepsEmpty(f, S, c) ==
  [x \in DOMAIN f |-> IF x \in S THEN f[x] \ {c} ELSE f[x]]

\* c leaves the channels of S; those of S left empty are deleted.
Left(f, S, c) ==
  [x \in {y \in DOMAIN f : y \in S => f[y] \ {c} # {}} |->
     IF x \in S THEN f[x] \ {c} ELSE f[x]]

-----------------------------------------------------------------------------
(* The hub goroutine, one action per command. *)

HubRegister(p) ==
  /\ Dequeue(p, "register")
  /\ clients' = [clients EXCEPT ![p] = @ \cup {Head(cmds[p]).client}]
  /\ UNCHANGED <<channels, natsSubs, natsVars, send, sendClosed, sessionVars,
                 relayVars, crashes>>

\* teardownNATSSub of every channel in `gone'. Unsubscribe drops what is
\* pending, but a callback that already runs still delivers its message.
TeardownNATSSubs(p, gone) ==
  /\ natsSubs' = [natsSubs EXCEPT ![p] = @ \ gone]
  /\ wire' = [wire EXCEPT ![p] =
                [ch \in Channels |-> IF ch \in gone THEN <<>> ELSE @[ch]]]
  /\ \E running \in SUBSET {ch \in gone : wire[p][ch] # <<>>} :
       late' = [late EXCEPT ![p] = @ \cup
                  {[channel |-> ch, payload |-> Head(wire[p][ch])] : ch \in running}]

\* CmdUnregister: a known client is closed and leaves every channel; channels
\* without subscribers go, with their NATS subscription.
HubUnregister(p) ==
  LET c == Head(cmds[p]).client
      left == Left(channels[p], Channels, c)
  IN /\ Dequeue(p, "unregister")
     /\ IF c \in clients[p]
        THEN /\ clients' = [clients EXCEPT ![p] = @ \ {c}]
             /\ sendClosed' = [sendClosed EXCEPT ![c] = TRUE]
             /\ channels' = [channels EXCEPT ![p] = left]
             /\ TeardownNATSSubs(p, DOMAIN channels[p] \ DOMAIN left)
        ELSE UNCHANGED <<hubVars, natsVars, sendClosed>>
     /\ UNCHANGED <<send, sessionVars, relayVars, crashes>>

\* ensureNATSSub: the subscription may fail, which is only logged.
EnsureNATSSub(p, ch) ==
  IF HasNats /\ ch \notin natsSubs[p]
  THEN natsSubs' \in {natsSubs, [natsSubs EXCEPT ![p] = @ \cup {ch}]}
  ELSE UNCHANGED natsSubs

HubSubscribe(p) ==
  LET cmd == Head(cmds[p])
  IN /\ Dequeue(p, "subscribe")
     /\ channels' = [channels EXCEPT ![p] = Joined(@, cmd.channel, cmd.client)]
     /\ IF cmd.channel \in DOMAIN channels[p]
        THEN UNCHANGED natsSubs
        ELSE EnsureNATSSub(p, cmd.channel)
     /\ UNCHANGED <<clients, natsVars, send, sendClosed, sessionVars, relayVars,
                    crashes>>

HubUnsubscribe(p) ==
  LET cmd == Head(cmds[p])
      left == Left(channels[p], {cmd.channel}, cmd.client)
  IN /\ Dequeue(p, "unsubscribe")
     /\ channels' = [channels EXCEPT ![p] = left]
     /\ TeardownNATSSubs(p, DOMAIN channels[p] \ DOMAIN left)
     /\ UNCHANGED <<clients, send, sendClosed, sessionVars, relayVars, crashes>>

\* Publish to every NATS subscription of the subject, this pod's own included.
\* Delivery is at most once: an error or a disconnected pod misses it.
PublishNATS(ch, n) ==
  LET Matching(q) == {x \in natsSubs[q] : SubjectOf[x] = SubjectOf[ch]}
  IN \E reached \in [Pods -> SUBSET Channels] :
       /\ \A q \in Pods : reached[q] \subseteq Matching(q)
       /\ wire' = [q \in Pods |-> [x \in Channels |->
                     IF x \in reached[q] THEN Append(wire[q][x], n) ELSE wire[q][x]]]

\* Mutant of Publishable: what came from NATS goes back to it.
PublishableAlways(cmd) == HasNats

Publishable(cmd) == HasNats /\ ~cmd.fromNATS

\* CmdBroadcast: publish unless the message came from NATS, then a non-blocking
\* send to each subscriber; a full buffer loses the message. Sending on a
\* closed Send would panic: SubscribersAreOpen says it cannot happen.
HubBroadcast(p) ==
  LET cmd == Head(cmds[p])
      item == [payload |-> cmd.payload, channel |-> cmd.channel, fromNATS |-> cmd.fromNATS]
      room == {c \in Members(channels[p], cmd.channel) : Len(send[c]) < SendCap}
  IN /\ Dequeue(p, "broadcast")
     /\ IF Publishable(cmd)
        THEN PublishNATS(cmd.channel, cmd.payload)
        ELSE UNCHANGED wire
     /\ send' = [c \in Clients |-> IF c \in room THEN Append(send[c], item) ELSE send[c]]
     /\ UNCHANGED <<hubVars, late, sendClosed, sessionVars, relayVars, crashes>>

HubStep(p) ==
  \/ HubRegister(p)
  \/ HubUnregister(p)
  \/ HubSubscribe(p)
  \/ HubUnsubscribe(p)
  \/ HubBroadcast(p)

-----------------------------------------------------------------------------
(* NATS callbacks: each enqueues one broadcast marked fromNATS. *)

\* Mutant of NatsCallback: the command carries the NATS subject, not the channel.
NatsCallbackSubject(p, ch) ==
  /\ wire[p][ch] # <<>>
  /\ Enqueue(p, BroadcastCmd(SubjectOf[ch], Head(wire[p][ch]), TRUE))
  /\ wire' = [wire EXCEPT ![p][ch] = Tail(@)]
  /\ UNCHANGED <<hubVars, late, send, sendClosed, sessionVars, relayVars, crashes>>

NatsCallback(p, ch) ==
  /\ wire[p][ch] # <<>>
  /\ Enqueue(p, BroadcastCmd(ch, Head(wire[p][ch]), TRUE))
  /\ wire' = [wire EXCEPT ![p][ch] = Tail(@)]
  /\ UNCHANGED <<hubVars, late, send, sendClosed, sessionVars, relayVars, crashes>>

LateCallback(p) ==
  /\ \E m \in late[p] :
       /\ Enqueue(p, BroadcastCmd(m.channel, m.payload, TRUE))
       /\ late' = [late EXCEPT ![p] = @ \ {m}]
  /\ UNCHANGED <<hubVars, wire, send, sendClosed, sessionVars, relayVars, crashes>>

-----------------------------------------------------------------------------
(* PostgreSQL and the relay of each pod. *)

Notify(ch) ==
  /\ Len(notified) < MaxNotify
  /\ notified' = Append(notified, ch)
  /\ UNCHANGED <<cmds, hubVars, natsVars, send, sendClosed, sessionVars, relayPos,
                 crashes>>

RelayDispatch(p) ==
  /\ relayPos[p] < Len(notified)
  /\ Enqueue(p, BroadcastCmd(notified[relayPos[p] + 1], relayPos[p] + 1, FALSE))
  /\ relayPos' = [relayPos EXCEPT ![p] = @ + 1]
  /\ UNCHANGED <<hubVars, natsVars, send, sendClosed, sessionVars, notified, crashes>>

\* The LISTEN connection drops: what is issued until the next one is lost.
RelayReconnect(p) ==
  /\ relayPos[p] < Len(notified)
  /\ relayPos' = [relayPos EXCEPT ![p] = Len(notified)]
  /\ UNCHANGED <<cmds, hubVars, natsVars, send, sendClosed, sessionVars, notified,
                 crashes>>

-----------------------------------------------------------------------------
(* The handler goroutine of a session: register, read frames, clean up. *)

Connect(c) ==
  /\ handler[c] = "new"
  /\ Enqueue(PodOf[c], ClientCmd("register", c, None))
  /\ handler' = [handler EXCEPT ![c] = "reading"]
  /\ pump' = [pump EXCEPT ![c] = "running"]
  /\ UNCHANGED <<hubVars, natsVars, send, sendClosed, writer, written, reads,
                 relayVars, crashes>>

ReadFrame(c) ==
  /\ handler[c] = "reading"
  /\ reads[c] < MaxReads
  /\ reads' = [reads EXCEPT ![c] = @ + 1]

\* Mutant of ReadCommand: the tenant of the channel is not compared.
ReadCommandUnchecked(c, t, ch) ==
  /\ ReadFrame(c)
  /\ Enqueue(PodOf[c], ClientCmd(t, c, ch))
  /\ UNCHANGED <<hubVars, natsVars, send, sendClosed, handler, pump, writer, written,
                 relayVars, crashes>>

\* "subscribe" or "unsubscribe" to a channel of the session's own tenant.
ReadCommand(c, t, ch) ==
  /\ ReadFrame(c)
  /\ ChannelTenant[ch] = TenantOf[c]
  /\ Enqueue(PodOf[c], ClientCmd(t, c, ch))
  /\ UNCHANGED <<hubVars, natsVars, send, sendClosed, handler, pump, writer, written,
                 relayVars, crashes>>

\* A channel of another tenant: readPump itself writes the close frame. When
\* writePump is inside a write, the socket library panics instead; the deferred
\* close(done) runs and net/http recovers, but the calls to Unregister that
\* follow readPump in the handler are skipped.
ReadDenied(c, ch) ==
  /\ ReadFrame(c)
  /\ ChannelTenant[ch] # TenantOf[c]
  /\ IF writer[c] = "pump"
     THEN /\ handler' = [handler EXCEPT ![c] = "panicked"]
          /\ UNCHANGED writer
     ELSE /\ handler' = [handler EXCEPT ![c] = "denying"]
          /\ writer' = [writer EXCEPT ![c] = "reader"]
  /\ UNCHANGED <<cmds, hubVars, natsVars, send, sendClosed, pump, written, relayVars,
                 crashes>>

DenyDone(c) ==
  /\ handler[c] = "denying"
  /\ handler' = [handler EXCEPT ![c] = "unregister"]
  /\ writer' = [writer EXCEPT ![c] = "none"]
  /\ UNCHANGED <<cmds, hubVars, natsVars, send, sendClosed, pump, written, reads,
                 relayVars, crashes>>

\* Mutant of ReadError: writePump leaves without closing the socket.
ReadErrorUnnoticed(c) ==
  /\ handler[c] = "reading"
  /\ pump[c] # "exited"
  /\ handler' = [handler EXCEPT ![c] = "unregister"]
  /\ UNCHANGED <<cmds, hubVars, natsVars, send, sendClosed, pump, writer, written,
                 reads, relayVars, crashes>>

\* ReadMessage fails: the peer or the network is gone, the read deadline has
\* passed, or writePump has closed the socket.
ReadError(c) ==
  /\ handler[c] = "reading"
  /\ handler' = [handler EXCEPT ![c] = "unregister"]
  /\ UNCHANGED <<cmds, hubVars, natsVars, send, sendClosed, pump, writer, written,
                 reads, relayVars, crashes>>

\* Mutant of Unregister: the handler does not wait for room in the queue.
UnregisterGivesUp(c) ==
  /\ handler[c] = "unregister"
  /\ \/ Enqueue(PodOf[c], ClientCmd("unregister", c, None))
     \/ Len(cmds[PodOf[c]]) = CmdCap /\ UNCHANGED cmds
  /\ handler' = [handler EXCEPT ![c] = "ended"]
  /\ UNCHANGED <<hubVars, natsVars, send, sendClosed, pump, writer, written, reads,
                 relayVars, crashes>>

Unregister(c) ==
  /\ handler[c] = "unregister"
  /\ Enqueue(PodOf[c], ClientCmd("unregister", c, None))
  /\ handler' = [handler EXCEPT ![c] = "ended"]
  /\ UNCHANGED <<hubVars, natsVars, send, sendClosed, pump, writer, written, reads,
                 relayVars, crashes>>

-----------------------------------------------------------------------------
(* The writePump goroutine. *)

\* readPump has closed `done'.
ReadDone(c) == handler[c] \in {"unregister", "ended", "panicked"}

\* Mutant of WriteBegin: the newest payload goes first.
WriteBeginNewest(c) ==
  /\ pump[c] = "running"
  /\ writer[c] = "none"
  /\ send[c] # <<>>
  /\ writer' = [writer EXCEPT ![c] = "pump"]
  /\ send' = [send EXCEPT ![c] = SubSeq(@, 1, Len(@) - 1)]
  /\ written' = [written EXCEPT ![c] = Append(@, send[c][Len(send[c])])]
  /\ UNCHANGED <<cmds, hubVars, natsVars, sendClosed, handler, pump, reads, relayVars,
                 crashes>>

\* A payload taken from Send, or a ping: the pump is inside WriteMessage.
WriteBegin(c) ==
  /\ pump[c] = "running"
  /\ writer[c] = "none"
  /\ writer' = [writer EXCEPT ![c] = "pump"]
  /\ \/ /\ send[c] # <<>>
        /\ send' = [send EXCEPT ![c] = Tail(@)]
        /\ written' = [written EXCEPT ![c] = Append(@, Head(send[c]))]
     \/ UNCHANGED <<send, written>>
  /\ UNCHANGED <<cmds, hubVars, natsVars, sendClosed, handler, pump, reads, relayVars,
                 crashes>>

WriteEnd(c) ==
  /\ writer[c] = "pump"
  /\ writer' = [writer EXCEPT ![c] = "none"]
  /\ UNCHANGED <<cmds, hubVars, natsVars, send, sendClosed, handler, pump, written,
                 reads, relayVars, crashes>>

\* The pump leaves its loop and closes the socket: Send is closed and drained,
\* or readPump is done.
PumpStop(c) ==
  /\ pump[c] = "running"
  /\ writer[c] = "none"
  /\ ReadDone(c) \/ (sendClosed[c] /\ send[c] = <<>>)
  /\ pump' = [pump EXCEPT ![c] = "exited"]
  /\ UNCHANGED <<cmds, hubVars, natsVars, send, sendClosed, handler, writer, written,
                 reads, relayVars, crashes>>

\* The write in progress fails.
WriteError(c) ==
  /\ writer[c] = "pump"
  /\ pump' = [pump EXCEPT ![c] = "exited"]
  /\ writer' = [writer EXCEPT ![c] = "none"]
  /\ UNCHANGED <<cmds, hubVars, natsVars, send, sendClosed, handler, written, reads,
                 relayVars, crashes>>

-----------------------------------------------------------------------------
(* A pod goes down with its sessions and comes back with an empty hub. *)

CrashPod(p) ==
  LET mine == {c \in Clients : PodOf[c] = p /\ handler[c] # "new"}
  IN /\ crashes < MaxCrashes
     /\ crashes' = crashes + 1
     /\ cmds' = [cmds EXCEPT ![p] = <<>>]
     /\ clients' = [clients EXCEPT ![p] = {}]
     /\ channels' = [channels EXCEPT ![p] = [ch \in {} |-> {}]]
     /\ natsSubs' = [natsSubs EXCEPT ![p] = {}]
     /\ wire' = [wire EXCEPT ![p] = [ch \in Channels |-> <<>>]]
     /\ late' = [late EXCEPT ![p] = {}]
     /\ relayPos' = [relayPos EXCEPT ![p] = Len(notified)]
     /\ handler' = [c \in Clients |-> IF c \in mine THEN "ended" ELSE handler[c]]
     /\ pump' = [c \in Clients |-> IF c \in mine THEN "exited" ELSE pump[c]]
     /\ writer' = [c \in Clients |-> IF c \in mine THEN "none" ELSE writer[c]]
     /\ UNCHANGED <<send, sendClosed, written, reads, notified>>

\* writePump writes while readPump is writing its close frame: the panic is in
\* a goroutine nobody recovers, and takes the process down.
PumpPanic(c) ==
  /\ pump[c] = "running"
  /\ writer[c] = "reader"
  /\ CrashPod(PodOf[c])

-----------------------------------------------------------------------------
SessionStep(c) ==
  \/ Connect(c)
  \/ \E ch \in Channels :
       \/ ReadCommand(c, "subscribe", ch)
       \/ ReadCommand(c, "unsubscribe", ch)
       \/ ReadDenied(c, ch)
  \/ DenyDone(c)
  \/ ReadError(c)
  \/ Unregister(c)
  \/ WriteBegin(c)
  \/ WriteEnd(c)
  \/ PumpStop(c)
  \/ WriteError(c)
  \/ PumpPanic(c)

PodStep(p) ==
  \/ HubStep(p)
  \/ \E ch \in Channels : NatsCallback(p, ch)
  \/ LateCallback(p)
  \/ RelayDispatch(p)
  \/ RelayReconnect(p)
  \/ CrashPod(p)

Next ==
  \/ \E p \in Pods : PodStep(p)
  \/ \E c \in Clients : SessionStep(c)
  \/ \E ch \in Channels : Notify(ch)

\* Goroutines that can run do run; a closed socket ends ReadMessage; a write
\* ends by its deadline; a sender blocked on a channel is served in turn and
\* select picks among its ready cases at random, hence the two SF. Peers,
\* PostgreSQL, NATS and crashes owe nothing.
Fairness ==
  /\ \A p \in Pods : WF_vars(HubStep(p))
  /\ \A c \in Clients :
       /\ WF_vars(ReadError(c) /\ pump[c] = "exited")
       /\ WF_vars(DenyDone(c))
       /\ SF_vars(Unregister(c))
       /\ WF_vars(WriteEnd(c))
       /\ SF_vars(PumpStop(c))

Spec == Init /\ [][Next]_vars

FairSpec == Spec /\ Fairness

-----------------------------------------------------------------------------
(* Properties *)

\* Hub.Run never sends on a closed channel, which would panic the pod: whoever
\* a channel still lists is registered on that very hub and its Send is open.
\* This rests on one session's commands being taken in the order it issued them.
SubscribersAreOpen ==
  \A p \in Pods : \A ch \in DOMAIN channels[p] : \A c \in channels[p][ch] :
    c \in clients[p] /\ PodOf[c] = p /\ ~sendClosed[c]

\* A NATS subscription lives exactly as long as local subscribers need it: none
\* outlives its channel, and no channel is kept for nobody.
NoLeakedSubscription ==
  \A p \in Pods :
    /\ \A ch \in DOMAIN channels[p] : channels[p][ch] # {}
    /\ natsSubs[p] \subseteq DOMAIN channels[p]
    /\ \A ch \in Channels \ natsSubs[p] : wire[p][ch] = <<>>

Delivered(c) == written[c] \o send[c]

\* Whatever reaches a session's socket or its buffer came on a channel of its own
\* tenant, and from nowhere else: its own relay's copy was notified on that very
\* channel, a copy from NATS on one with the same subject, since replacing ':' by
\* '.' is all that could let another channel's payload in.
OwnTenantOnly ==
  \A c \in Clients : \A i \in 1..Len(Delivered(c)) :
    LET d == Delivered(c)[i]
        origin == notified[d.payload]
    IN /\ ChannelTenant[d.channel] = TenantOf[c]
       /\ IF d.fromNATS
          THEN SubjectOf[origin] = SubjectOf[d.channel]
          ELSE origin = d.channel

\* When no two tenants' channels share a subject, the payloads themselves are
\* the session's tenant's.
SubjectsSeparateTenants ==
  \A x, y \in Channels :
    SubjectOf[x] = SubjectOf[y] => ChannelTenant[x] = ChannelTenant[y]

OwnPayloadsOnly ==
  \A c \in Clients : \A i \in 1..Len(Delivered(c)) :
    ChannelTenant[notified[Delivered(c)[i].payload]] = TenantOf[c]

Copies(c, n, ch, nats) ==
  Cardinality({i \in 1..Len(Delivered(c)) :
                 Delivered(c)[i] = [payload |-> n, channel |-> ch, fromNATS |-> nats]})

\* The pods all relay a NOTIFY and all publish it, but nothing republishes what
\* came from NATS: a session sees a NOTIFY on a channel at most once from its
\* own relay and once from each pod whose channel has that NATS subject.
CopiesBounded ==
  \A c \in Clients, n \in 1..Len(notified), ch \in Channels :
    /\ Copies(c, n, ch, FALSE) <= 1
    /\ Copies(c, n, ch, TRUE) <= Cardinality(Pods)

\* Copies straight from the pod's own relay keep the order of the NOTIFYs.
RelayOrder ==
  \A c \in Clients : \A i, j \in 1..Len(Delivered(c)) :
    i < j /\ ~Delivered(c)[i].fromNATS /\ ~Delivered(c)[j].fromNATS
      => Delivered(c)[i].payload < Delivered(c)[j].payload

\* When a handler has ended and the hub has caught up, the hub has forgotten the
\* session: no later command of it can bring it back into a channel.
EndedIsForgotten ==
  \A c \in Clients :
    /\ handler[c] = "ended"
    /\ \A i \in 1..Len(cmds[PodOf[c]]) : cmds[PodOf[c]][i].client # c
    => /\ c \notin clients[PodOf[c]]
       /\ \A ch \in DOMAIN channels[PodOf[c]] : c \notin channels[PodOf[c]][ch]

Leaving(c) ==
  \/ handler[c] = "unregister"
  \/ handler[c] \in {"reading", "denying"} /\ pump[c] = "exited"

Gone(c) == handler[c] = "ended" /\ pump[c] = "exited" /\ c \notin clients[PodOf[c]]

\* Either pump stopping brings the whole session down: the other pump exits, and
\* the hub drops the session.
SessionLeaves == \A c \in Clients : Leaving(c) ~> Gone(c)

\* What ws/handler.go promises after readPump: once the session is over, the hub
\* no longer holds it.
CleanupAlwaysRuns ==
  \A c \in Clients : pump[c] = "exited" ~> c \notin clients[PodOf[c]]
=============================================================================
