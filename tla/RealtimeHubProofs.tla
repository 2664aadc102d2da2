-------------------------- MODULE RealtimeHubProofs --------------------------
(***************************************************************************)
(* Safety of the hub for any number of pods, sessions and channels, and    *)
(* any capacity of the command queue and the Send buffers.                 *)
(***************************************************************************)
EXTENDS RealtimeHub, FiniteSetTheorems, TLAPS

-----------------------------------------------------------------------------
(* The inductive invariant. SubscribersAreOpen is not inductive: a          *)
(* subscribe may be queued behind the register it needs, and nothing may be *)
(* queued behind an unregister. The parts below say what the queue of a pod *)
(* can hold about a session, given where the session's handler is.          *)

\* Session commands sit in the queue of their own pod and name what they need.
WellFormedQueue ==
  \A p \in Pods : \A i \in 1..Len(cmds[p]) :
    LET m == cmds[p][i]
    IN /\ m.type # "broadcast" => m.client \in Clients /\ PodOf[m.client] = p
       /\ m.type \in {"subscribe", "unsubscribe", "broadcast"} => m.channel \in Channels
       /\ m.type = "subscribe" => ChannelTenant[m.channel] = TenantOf[m.client]

RegisterQueued(p, c) ==
  \E i \in 1..Len(cmds[p]) : cmds[p][i].type = "register" /\ cmds[p][i].client = c

UnregisterQueued(p, c) ==
  \E i \in 1..Len(cmds[p]) : cmds[p][i].type = "unregister" /\ cmds[p][i].client = c

\* A subscribe comes after the session's register.
SubscribeAfterRegister ==
  \A p \in Pods : \A i \in 1..Len(cmds[p]) :
    cmds[p][i].type = "subscribe" =>
      \/ cmds[p][i].client \in clients[p]
      \/ \E j \in 1..(i - 1) : /\ cmds[p][j].type = "register"
                               /\ cmds[p][j].client = cmds[p][i].client

\* An unregister is the last command of its session.
UnregisterIsLast ==
  \A p \in Pods : \A i, j \in 1..Len(cmds[p]) :
    cmds[p][i].type = "unregister" /\ i < j => cmds[p][j].client # cmds[p][i].client

RegisterFindsOpen ==
  \A p \in Pods : \A i \in 1..Len(cmds[p]) :
    cmds[p][i].type = "register" => ~sendClosed[cmds[p][i].client]

QueueInv ==
  /\ WellFormedQueue
  /\ SubscribeAfterRegister
  /\ UnregisterIsLast
  /\ RegisterFindsOpen

\* Where the handler is, and what the hub and its queue know of the session.
HandlerInv ==
  \A c \in Clients :
    /\ handler[c] = "new" => ~sendClosed[c]
    /\ handler[c] \in {"reading", "denying", "unregister"} =>
         c \in clients[PodOf[c]] \/ RegisterQueued(PodOf[c], c)
    /\ handler[c] # "ended" => ~UnregisterQueued(PodOf[c], c)
    /\ handler[c] = "ended" =>
         \/ UnregisterQueued(PodOf[c], c)
         \/ c \notin clients[PodOf[c]] /\ ~RegisterQueued(PodOf[c], c)

HubInv ==
  /\ \A p \in Pods : \A c \in clients[p] : PodOf[c] = p /\ ~sendClosed[c]
  /\ \A p \in Pods : \A ch \in DOMAIN channels[p] :
       /\ channels[p][ch] \subseteq clients[p]
       /\ \A c \in channels[p][ch] : ChannelTenant[ch] = TenantOf[c]

TenantInv ==
  \A c \in Clients :
    /\ \A i \in 1..Len(send[c]) : ChannelTenant[send[c][i].channel] = TenantOf[c]
    /\ \A i \in 1..Len(written[c]) : ChannelTenant[written[c][i].channel] = TenantOf[c]

SafeInv ==
  /\ HubInv
  /\ QueueInv
  /\ HandlerInv
  /\ NoLeakedSubscription
  /\ TenantInv

IInv == TypeOK /\ SafeInv

-----------------------------------------------------------------------------
(* The operators on the subscription map and on the queue. *)

\* A subscription map relates channels to sets of sessions.
LEMMA ChannelMapFacts ==
  ASSUME NEW f \in ChannelMap
  PROVE  /\ DOMAIN f \subseteq Channels
         /\ \A x \in DOMAIN f : f[x] \subseteq Clients
BY DEF ChannelMap

\* CmdSubscribe: the session joins the channel, which enters the map if new.
LEMMA JoinedFacts ==
  ASSUME NEW f \in ChannelMap, NEW ch \in Channels, NEW c \in Clients
  PROVE  /\ Joined(f, ch, c) \in ChannelMap
         /\ DOMAIN Joined(f, ch, c) = DOMAIN f \cup {ch}
         /\ Joined(f, ch, c)[ch] = Members(f, ch) \cup {c}
         /\ \A x \in DOMAIN f : x # ch => Joined(f, ch, c)[x] = f[x]
         /\ ch \in DOMAIN f => Members(f, ch) = f[ch]
         /\ ch \notin DOMAIN f => Members(f, ch) = {}
<1> DEFINE D == DOMAIN f \cup {ch}
<1>1. D \in SUBSET Channels
  BY ChannelMapFacts
<1>2. \A x \in D : (IF x = ch THEN Members(f, ch) \cup {c} ELSE f[x]) \in SUBSET Clients
  BY ChannelMapFacts DEF Members
<1>3. Joined(f, ch, c) \in [D -> SUBSET Clients]
  BY <1>2 DEF Joined
<1>4. Joined(f, ch, c) \in ChannelMap
  BY <1>1, <1>3 DEF ChannelMap
<1> QED
  BY <1>4 DEF Joined, Members

\* CmdUnregister, CmdUnsubscribe: the session is in no channel of S, and no
\* channel that had a subscriber is left without one.
LEMMA LeftFacts ==
  ASSUME NEW f \in ChannelMap, NEW S, NEW c
  PROVE  /\ Left(f, S, c) \in ChannelMap
         /\ DOMAIN Left(f, S, c) \subseteq DOMAIN f
         /\ \A x \in DOMAIN Left(f, S, c) :
              /\ Left(f, S, c)[x] \subseteq f[x]
              /\ x \in S => c \notin Left(f, S, c)[x]
              /\ f[x] # {} => Left(f, S, c)[x] # {}
<1> DEFINE D == {y \in DOMAIN f : y \in S => f[y] \ {c} # {}}
           v(x) == IF x \in S THEN f[x] \ {c} ELSE f[x]
<1>1. D \in SUBSET Channels
  BY ChannelMapFacts
<1>2. \A x \in D : v(x) \in SUBSET Clients
  BY ChannelMapFacts
<1>3. Left(f, S, c) = [x \in D |-> v(x)]
  BY DEF Left
<1>4. Left(f, S, c) \in [D -> SUBSET Clients]
  BY <1>2, <1>3
<1>5. Left(f, S, c) \in ChannelMap
  BY <1>1, <1>4 DEF ChannelMap
<1>6. DOMAIN Left(f, S, c) = D /\ \A x \in D : Left(f, S, c)[x] = v(x)
  BY <1>3
<1> HIDE DEF D
<1>7. D \subseteq DOMAIN f /\ \A x \in D : x \in S => f[x] \ {c} # {}
  BY DEF D
<1> QED
  BY <1>5, <1>6, <1>7

\* Taking a command shifts the queue of the pod by one.
LEMMA DequeueFacts ==
  ASSUME TypeOK, NEW p \in Pods, NEW t, Dequeue(p, t)
  PROVE  /\ cmds' \in [Pods -> Seq(Cmd)]
         /\ Head(cmds[p]) = cmds[p][1]
         /\ cmds[p][1] \in Cmd
         /\ cmds[p][1].type = t
         /\ Len(cmds[p]) \in Nat \ {0}
         /\ Len(cmds'[p]) = Len(cmds[p]) - 1
         /\ \A i \in 1..Len(cmds'[p]) : cmds'[p][i] = cmds[p][i + 1]
         /\ \A q \in Pods : q # p => cmds'[q] = cmds[q]
<1> DEFINE s == cmds[p]
<1>1. s \in Seq(Cmd) /\ s # <<>>
  BY DEF TypeOK, Dequeue
<1>2. cmds'[p] = Tail(s) /\ \A q \in Pods : q # p => cmds'[q] = cmds[q]
  BY DEF TypeOK, Dequeue
<1>3. Head(s) = s[1] /\ s[1] \in Cmd /\ Len(s) \in Nat \ {0}
  BY <1>1
<1>4. Tail(s) \in Seq(Cmd) /\ Len(Tail(s)) = Len(s) - 1
  BY <1>1
<1>5. \A i \in 1..Len(Tail(s)) : Tail(s)[i] = s[i + 1]
  BY <1>1
<1>6. cmds' \in [Pods -> Seq(Cmd)]
  BY <1>4 DEF TypeOK, Dequeue
<1>7. Head(s).type = t
  BY DEF Dequeue
<1> QED
  BY <1>2, <1>3, <1>4, <1>5, <1>6, <1>7

\* What the hub reads in the command it takes.
LEMMA HeadFacts ==
  ASSUME TypeOK, WellFormedQueue, NEW p \in Pods, NEW t, Dequeue(p, t)
  PROVE  /\ Head(cmds[p]) = cmds[p][1]
         /\ cmds[p][1] \in Cmd
         /\ cmds[p][1].type = t
         /\ cmds' \in [Pods -> Seq(Cmd)]
         /\ t # "broadcast" => cmds[p][1].client \in Clients /\ PodOf[cmds[p][1].client] = p
         /\ t \in {"subscribe", "unsubscribe", "broadcast"} => cmds[p][1].channel \in Channels
         /\ t = "subscribe" => ChannelTenant[cmds[p][1].channel] = TenantOf[cmds[p][1].client]
<1>1. 1 \in 1..Len(cmds[p])
  BY DequeueFacts
<1>2. cmds[p][1].type = t
  BY DequeueFacts
<1> QED
  BY <1>1, <1>2, DequeueFacts DEF WellFormedQueue

\* Queueing a command keeps what is queued, and puts it last.
LEMMA EnqueueFacts ==
  ASSUME TypeOK, NEW p \in Pods, NEW m \in Cmd, Enqueue(p, m)
  PROVE  /\ cmds' \in [Pods -> Seq(Cmd)]
         /\ Len(cmds[p]) \in Nat
         /\ Len(cmds'[p]) = Len(cmds[p]) + 1
         /\ \A i \in 1..Len(cmds[p]) : cmds'[p][i] = cmds[p][i]
         /\ cmds'[p][Len(cmds[p]) + 1] = m
         /\ \A q \in Pods : q # p => cmds'[q] = cmds[q]
<1> DEFINE s == cmds[p]
<1>1. s \in Seq(Cmd)
  BY DEF TypeOK
<1>2. cmds'[p] = Append(s, m) /\ \A q \in Pods : q # p => cmds'[q] = cmds[q]
  BY DEF TypeOK, Enqueue
<1>3. Append(s, m) \in Seq(Cmd)
  BY <1>1
<1>4. cmds' \in [Pods -> Seq(Cmd)]
  BY <1>3 DEF TypeOK, Enqueue
<1> QED
  BY <1>1, <1>2, <1>4

\* The commands sessions, relay and NATS callbacks make are commands.
LEMMA CmdTypes ==
  /\ \A t \in {"register", "unregister"}, c \in Clients :
       ClientCmd(t, c, None) \in Cmd
  /\ \A t \in {"subscribe", "unsubscribe"}, c \in Clients, ch \in Channels :
       ClientCmd(t, c, ch) \in Cmd
  /\ \A ch \in Channels, n \in Nat, b \in BOOLEAN : BroadcastCmd(ch, n, b) \in Cmd
BY DEF ClientCmd, BroadcastCmd, Cmd, CmdType

-----------------------------------------------------------------------------
(* Type correctness *)

\* Tearing down NATS subscriptions keeps the types of what it writes.
LEMMA TeardownType ==
  ASSUME TypeOK, NEW p \in Pods, NEW gone \in SUBSET Channels, TeardownNATSSubs(p, gone)
  PROVE  /\ natsSubs' \in [Pods -> SUBSET Channels]
         /\ wire' \in [Pods -> [Channels -> Seq(Nat)]]
         /\ late' \in [Pods -> SUBSET [channel : Channels, payload : Nat]]
<1>1. natsSubs' \in [Pods -> SUBSET Channels]
  BY DEF TypeOK, TeardownNATSSubs
<1>2. wire' \in [Pods -> [Channels -> Seq(Nat)]]
  <2>1. [ch \in Channels |-> IF ch \in gone THEN <<>> ELSE wire[p][ch]]
          \in [Channels -> Seq(Nat)]
    BY DEF TypeOK
  <2> QED
    BY <2>1 DEF TypeOK, TeardownNATSSubs
<1>3. late' \in [Pods -> SUBSET [channel : Channels, payload : Nat]]
  <2>1. PICK running \in SUBSET {ch \in gone : wire[p][ch] # <<>>} :
          late' = [late EXCEPT ![p] = @ \cup
                    {[channel |-> ch, payload |-> Head(wire[p][ch])] : ch \in running}]
    BY DEF TeardownNATSSubs
  <2>2. \A ch \in running : ch \in Channels /\ Head(wire[p][ch]) \in Nat
    BY DEF TypeOK
  <2>3. {[channel |-> ch, payload |-> Head(wire[p][ch])] : ch \in running}
          \subseteq [channel : Channels, payload : Nat]
    BY <2>2
  <2> QED
    BY <2>1, <2>3 DEF TypeOK
<1> QED
  BY <1>1, <1>2, <1>3

\* Publishing keeps the type of the pending messages.
LEMMA PublishType ==
  ASSUME TypeOK, NEW ch \in Channels, NEW n \in Nat, PublishNATS(ch, n)
  PROVE  wire' \in [Pods -> [Channels -> Seq(Nat)]]
<1>1. PICK reached \in [Pods -> SUBSET Channels] :
        wire' = [q \in Pods |-> [x \in Channels |->
                   IF x \in reached[q] THEN Append(wire[q][x], n) ELSE wire[q][x]]]
  BY DEF PublishNATS
<1>2. \A q \in Pods, x \in Channels :
        wire[q][x] \in Seq(Nat) /\ Append(wire[q][x], n) \in Seq(Nat)
  BY DEF TypeOK
<1> QED
  BY <1>1, <1>2

\* TypeOK through each command of the hub.
LEMMA HubStepType ==
  ASSUME TypeOK, WellFormedQueue, NEW p \in Pods, HubStep(p)
  PROVE  TypeOK'
<1> USE MapsAssumption
<1> DEFINE m == cmds[p][1]
<1>1. CASE HubRegister(p)
  <2>1. Dequeue(p, "register")
    BY <1>1 DEF HubRegister
  <2>2. m.client \in Clients /\ m = Head(cmds[p]) /\ cmds' \in [Pods -> Seq(Cmd)]
    BY <2>1, HeadFacts
  <2>3. clients' = [clients EXCEPT ![p] = @ \cup {m.client}]
    BY <1>1, <2>2 DEF HubRegister
  <2> HIDE DEF m
  <2>4. clients' \in [Pods -> SUBSET Clients]
    BY <2>2, <2>3 DEF TypeOK
  <2> QED
    BY <1>1, <2>2, <2>4 DEF HubRegister, TypeOK, natsVars, sessionVars, relayVars
<1>2. CASE HubUnregister(p)
  <2> DEFINE left == Left(channels[p], Channels, m.client)
  <2>1. Dequeue(p, "unregister")
    BY <1>2 DEF HubUnregister
  <2>2. m.client \in Clients /\ m = Head(cmds[p])
    BY <2>1, HeadFacts
  <2>3. left \in ChannelMap /\ channels[p] \in ChannelMap
    BY LeftFacts DEF TypeOK
  <2>4. DOMAIN channels[p] \ DOMAIN left \in SUBSET Channels
    BY <2>3, ChannelMapFacts
  <2>5. CASE m.client \in clients[p]
    <3>1. TeardownNATSSubs(p, DOMAIN channels[p] \ DOMAIN left)
      BY <1>2, <2>2, <2>5 DEF HubUnregister
    <3>2. channels' \in [Pods -> ChannelMap]
      <4>1. channels' = [channels EXCEPT ![p] = left]
        BY <1>2, <2>2, <2>5 DEF HubUnregister
      <4> HIDE DEF left
      <4> QED
        BY <2>3, <4>1 DEF TypeOK
    <3>3. /\ clients' = [clients EXCEPT ![p] = @ \ {m.client}]
          /\ sendClosed' = [sendClosed EXCEPT ![m.client] = TRUE]
          /\ UNCHANGED <<send, sessionVars, relayVars, crashes>>
      BY <1>2, <2>2, <2>5 DEF HubUnregister
    <3>4. /\ natsSubs' \in [Pods -> SUBSET Channels]
          /\ wire' \in [Pods -> [Channels -> Seq(Nat)]]
          /\ late' \in [Pods -> SUBSET [channel : Channels, payload : Nat]]
      BY <2>4, <3>1, TeardownType
    <3>5. cmds' \in [Pods -> Seq(Cmd)]
      BY <2>1, HeadFacts
    <3> QED
      BY <3>2, <3>3, <3>4, <3>5 DEF TypeOK, sessionVars, relayVars
  <2>6. CASE m.client \notin clients[p]
    <3>1. UNCHANGED <<hubVars, natsVars, send, sendClosed, sessionVars, relayVars, crashes>>
      BY <1>2, <2>2, <2>6 DEF HubUnregister
    <3>2. cmds' \in [Pods -> Seq(Cmd)]
      BY <2>1, HeadFacts
    <3> QED
      BY <3>1, <3>2 DEF TypeOK, hubVars, natsVars, sessionVars, relayVars
  <2> QED
    BY <2>5, <2>6
<1>3. CASE HubSubscribe(p)
  <2>1. Dequeue(p, "subscribe")
    BY <1>3 DEF HubSubscribe
  <2>2. m.client \in Clients /\ m.channel \in Channels /\ m = Head(cmds[p])
    BY <2>1, HeadFacts
  <2>3. Joined(channels[p], m.channel, m.client) \in ChannelMap
    BY <2>2, JoinedFacts DEF TypeOK
  <2>4. channels' \in [Pods -> ChannelMap]
    BY <1>3, <2>2, <2>3 DEF HubSubscribe, TypeOK
  <2>5. natsSubs' \in [Pods -> SUBSET Channels]
    <3>1. natsSubs \in [Pods -> SUBSET Channels]
      BY DEF TypeOK
    <3>2. \/ natsSubs' = natsSubs
          \/ natsSubs' = [natsSubs EXCEPT ![p] = @ \cup {m.channel}]
      BY <1>3, <2>2, Zenon DEF HubSubscribe, EnsureNATSSub
    <3> QED
      BY <2>2, <3>1, <3>2
  <2> QED
    BY <1>3, <2>1, <2>4, <2>5, HeadFacts
    DEF HubSubscribe, TypeOK, natsVars, sessionVars, relayVars
<1>4. CASE HubUnsubscribe(p)
  <2> DEFINE left == Left(channels[p], {m.channel}, m.client)
  <2>1. Dequeue(p, "unsubscribe")
    BY <1>4 DEF HubUnsubscribe
  <2>2. m = Head(cmds[p])
    BY <2>1, HeadFacts
  <2>3. left \in ChannelMap /\ channels[p] \in ChannelMap
    BY LeftFacts DEF TypeOK
  <2>4. DOMAIN channels[p] \ DOMAIN left \in SUBSET Channels
    BY <2>3, ChannelMapFacts
  <2>5. TeardownNATSSubs(p, DOMAIN channels[p] \ DOMAIN left)
    BY <1>4, <2>2 DEF HubUnsubscribe
  <2>6. channels' \in [Pods -> ChannelMap]
    BY <1>4, <2>2, <2>3 DEF HubUnsubscribe, TypeOK
  <2> QED
    BY <1>4, <2>1, <2>4, <2>5, <2>6, HeadFacts, TeardownType
    DEF HubUnsubscribe, TypeOK, sessionVars, relayVars
<1>5. CASE HubBroadcast(p)
  <2> DEFINE item == [payload |-> m.payload, channel |-> m.channel, fromNATS |-> m.fromNATS]
             room == {c \in Members(channels[p], m.channel) : Len(send[c]) < SendCap}
  <2>1. Dequeue(p, "broadcast")
    BY <1>5 DEF HubBroadcast
  <2>2. m.channel \in Channels /\ m \in Cmd /\ m = Head(cmds[p])
    BY <2>1, HeadFacts
  <2>3. item \in Item /\ m.payload \in Nat
    BY <2>2 DEF Cmd, Item
  <2>4. wire' \in [Pods -> [Channels -> Seq(Nat)]]
    BY <1>5, <2>2, <2>3, PublishType DEF HubBroadcast, TypeOK
  <2>5. send' = [c \in Clients |-> IF c \in room THEN Append(send[c], item) ELSE send[c]]
    BY <1>5, <2>2 DEF HubBroadcast
  <2>6. send' \in [Clients -> Seq(Item)]
    <3>1. \A c \in Clients : send[c] \in Seq(Item) /\ Append(send[c], item) \in Seq(Item)
      BY <2>3 DEF TypeOK
    <3> QED
      BY <2>5, <3>1
  <2> QED
    BY <1>5, <2>1, <2>4, <2>6, HeadFacts
    DEF HubBroadcast, TypeOK, hubVars, sessionVars, relayVars
<1> QED
  BY <1>1, <1>2, <1>3, <1>4, <1>5 DEF HubStep

\* TypeOK through a crash.
LEMMA CrashType ==
  ASSUME TypeOK, NEW p \in Pods, CrashPod(p)
  PROVE  TypeOK'
<1>1. [ch \in {} |-> {}] \in ChannelMap
  BY ZenonT(30) DEF ChannelMap
<1>2. channels' \in [Pods -> ChannelMap]
  BY <1>1 DEF CrashPod, TypeOK
<1>3. /\ cmds' \in [Pods -> Seq(Cmd)]
      /\ wire' \in [Pods -> [Channels -> Seq(Nat)]]
  BY DEF CrashPod, TypeOK
<1>4. Len(notified) \in Nat
  BY DEF TypeOK
<1> QED
  BY <1>2, <1>3, <1>4 DEF CrashPod, TypeOK, HandlerState, PumpState

\* TypeOK through each step of a session.
LEMMA SessionStepType ==
  ASSUME TypeOK, NEW c \in Clients, SessionStep(c)
  PROVE  TypeOK'
<1> USE MapsAssumption
<1> DEFINE p == PodOf[c]
<1>0. p \in Pods
  OBVIOUS
<1>1. CASE Connect(c)
  <2>1. cmds' \in [Pods -> Seq(Cmd)]
    BY <1>0, <1>1, EnqueueFacts, CmdTypes DEF Connect
  <2> QED
    BY <1>1, <2>1 DEF Connect, TypeOK, hubVars, natsVars, relayVars, HandlerState, PumpState
<1>2. ASSUME NEW ch \in Channels, NEW t \in {"subscribe", "unsubscribe"}, ReadCommand(c, t, ch)
      PROVE  TypeOK'
  <2>1. cmds' \in [Pods -> Seq(Cmd)]
    BY <1>0, <1>2, EnqueueFacts, CmdTypes DEF ReadCommand
  <2> QED
    BY <1>2, <2>1 DEF ReadCommand, ReadFrame, TypeOK, hubVars, natsVars, relayVars
<1>3. ASSUME NEW ch \in Channels, ReadDenied(c, ch)
      PROVE  TypeOK'
  <2>1. handler' \in [Clients -> HandlerState] /\ writer' \in [Clients -> {"none", "pump", "reader"}]
    BY <1>3 DEF ReadDenied, TypeOK, HandlerState
  <2> QED
    BY <1>3, <2>1 DEF ReadDenied, ReadFrame, TypeOK, hubVars, natsVars, relayVars
<1>4. CASE DenyDone(c)
  BY <1>4 DEF DenyDone, TypeOK, hubVars, natsVars, relayVars, HandlerState
<1>5. CASE ReadError(c)
  BY <1>5 DEF ReadError, TypeOK, hubVars, natsVars, relayVars, HandlerState
<1>6. CASE Unregister(c)
  <2>1. cmds' \in [Pods -> Seq(Cmd)]
    BY <1>0, <1>6, EnqueueFacts, CmdTypes DEF Unregister
  <2> QED
    BY <1>6, <2>1 DEF Unregister, TypeOK, hubVars, natsVars, relayVars, HandlerState
<1>7. CASE WriteBegin(c)
  <2>1. send[c] \in Seq(Item) /\ written[c] \in Seq(Item)
    BY DEF TypeOK
  <2>2. CASE /\ send[c] # <<>>
             /\ send' = [send EXCEPT ![c] = Tail(@)]
             /\ written' = [written EXCEPT ![c] = Append(@, Head(send[c]))]
    <3>1. Tail(send[c]) \in Seq(Item) /\ Append(written[c], Head(send[c])) \in Seq(Item)
      BY <2>1, <2>2
    <3>2. send' \in [Clients -> Seq(Item)] /\ written' \in [Clients -> Seq(Item)]
      BY <2>2, <3>1 DEF TypeOK
    <3> QED
      BY <1>7, <3>2 DEF WriteBegin, TypeOK, hubVars, natsVars, relayVars
  <2>3. CASE UNCHANGED <<send, written>>
    BY <1>7, <2>3 DEF WriteBegin, TypeOK, hubVars, natsVars, relayVars
  <2> QED
    BY <1>7, <2>2, <2>3 DEF WriteBegin
<1>8. CASE WriteEnd(c)
  BY <1>8 DEF WriteEnd, TypeOK, hubVars, natsVars, relayVars
<1>9. CASE PumpStop(c)
  BY <1>9 DEF PumpStop, TypeOK, hubVars, natsVars, relayVars, PumpState
<1>10. CASE WriteError(c)
  BY <1>10 DEF WriteError, TypeOK, hubVars, natsVars, relayVars, PumpState
<1>11. CASE PumpPanic(c)
  BY <1>0, <1>11, CrashType DEF PumpPanic
<1> QED
  BY <1>1, <1>2, <1>3, <1>4, <1>5, <1>6, <1>7, <1>8, <1>9, <1>10, <1>11 DEF SessionStep

\* TypeOK through NATS callbacks, the relay and crashes.
LEMMA PodStepType ==
  ASSUME TypeOK, WellFormedQueue, NEW p \in Pods, PodStep(p)
  PROVE  TypeOK'
<1>1. CASE HubStep(p)
  BY <1>1, HubStepType
<1>2. ASSUME NEW ch \in Channels, NatsCallback(p, ch)
      PROVE  TypeOK'
  <2>1. wire[p][ch] \in Seq(Nat) /\ wire[p][ch] # <<>>
    BY <1>2 DEF NatsCallback, TypeOK
  <2>2. Head(wire[p][ch]) \in Nat /\ Tail(wire[p][ch]) \in Seq(Nat)
    BY <2>1
  <2>3. cmds' \in [Pods -> Seq(Cmd)]
    BY <1>2, <2>2, EnqueueFacts, CmdTypes DEF NatsCallback
  <2>4. wire' \in [Pods -> [Channels -> Seq(Nat)]]
    BY <1>2, <2>2 DEF NatsCallback, TypeOK
  <2> QED
    BY <1>2, <2>3, <2>4 DEF NatsCallback, TypeOK, hubVars, sessionVars, relayVars
<1>3. CASE LateCallback(p)
  <2>1. PICK m \in late[p] : /\ Enqueue(p, BroadcastCmd(m.channel, m.payload, TRUE))
                             /\ late' = [late EXCEPT ![p] = @ \ {m}]
    BY <1>3 DEF LateCallback
  <2>2. m.channel \in Channels /\ m.payload \in Nat
    BY DEF TypeOK
  <2>3. cmds' \in [Pods -> Seq(Cmd)]
    BY <2>1, <2>2, EnqueueFacts, CmdTypes
  <2> QED
    BY <1>3, <2>1, <2>3 DEF LateCallback, TypeOK, hubVars, sessionVars, relayVars
<1>4. CASE RelayDispatch(p)
  <2>1. notified[relayPos[p] + 1] \in Channels /\ relayPos[p] + 1 \in Nat
    BY <1>4 DEF RelayDispatch, TypeOK
  <2>2. cmds' \in [Pods -> Seq(Cmd)]
    BY <1>4, <2>1, EnqueueFacts, CmdTypes DEF RelayDispatch
  <2> QED
    BY <1>4, <2>1, <2>2 DEF RelayDispatch, TypeOK, hubVars, natsVars, sessionVars
<1>5. CASE RelayReconnect(p)
  <2>1. Len(notified) \in Nat
    BY DEF TypeOK
  <2> QED
    BY <1>5, <2>1 DEF RelayReconnect, TypeOK, hubVars, natsVars, sessionVars
<1>6. CASE CrashPod(p)
  BY <1>6, CrashType
<1> QED
  BY <1>1, <1>2, <1>3, <1>4, <1>5, <1>6 DEF PodStep

\* TypeOK is inductive.
LEMMA TypeStep ==
  ASSUME TypeOK, WellFormedQueue, Next
  PROVE  TypeOK'
<1>1. ASSUME NEW ch \in Channels, Notify(ch)
      PROVE  TypeOK'
  BY <1>1 DEF Notify, TypeOK, hubVars, natsVars, sessionVars
<1> QED
  BY <1>1, PodStepType, SessionStepType DEF Next

-----------------------------------------------------------------------------
(* The queue under one dequeue and one enqueue. *)

\* What is queued of a session once a command has been taken.
LEMMA QueuedAfterDequeue ==
  ASSUME TypeOK, NEW p \in Pods, NEW t, Dequeue(p, t), NEW q \in Pods, NEW c
  PROVE  /\ RegisterQueued(q, c)' => RegisterQueued(q, c)
         /\ UnregisterQueued(q, c)' => UnregisterQueued(q, c)
         /\ RegisterQueued(q, c) =>
              RegisterQueued(q, c)' \/ (q = p /\ t = "register" /\ c = cmds[p][1].client)
         /\ UnregisterQueued(q, c) =>
              UnregisterQueued(q, c)' \/ (q = p /\ t = "unregister" /\ c = cmds[p][1].client)
<1>1. CASE q # p
  BY <1>1, DequeueFacts DEF RegisterQueued, UnregisterQueued
<1>2. CASE q = p
  <2>1. \A i \in 1..Len(cmds'[p]) : i + 1 \in 1..Len(cmds[p]) /\ cmds'[p][i] = cmds[p][i + 1]
    BY DequeueFacts
  <2>2. \A i \in 1..Len(cmds[p]) :
          i = 1 \/ (i - 1 \in 1..Len(cmds'[p]) /\ cmds'[p][i - 1] = cmds[p][i])
    BY DequeueFacts
  <2>3. cmds[p][1].type = t
    BY DequeueFacts
  <2>4. RegisterQueued(p, c)' => RegisterQueued(p, c)
    BY <2>1 DEF RegisterQueued
  <2>5. UnregisterQueued(p, c)' => UnregisterQueued(p, c)
    BY <2>1 DEF UnregisterQueued
  <2>6. RegisterQueued(p, c) =>
          RegisterQueued(p, c)' \/ (t = "register" /\ c = cmds[p][1].client)
    BY <2>2, <2>3 DEF RegisterQueued
  <2>7. UnregisterQueued(p, c) =>
          UnregisterQueued(p, c)' \/ (t = "unregister" /\ c = cmds[p][1].client)
    BY <2>2, <2>3 DEF UnregisterQueued
  <2> QED
    BY <1>2, <2>4, <2>5, <2>6, <2>7
<1> QED
  BY <1>1, <1>2

\* What is queued of a session once a command has been added.
LEMMA QueuedAfterEnqueue ==
  ASSUME TypeOK, NEW p \in Pods, NEW m \in Cmd, Enqueue(p, m), NEW q \in Pods, NEW c
  PROVE  /\ RegisterQueued(q, c)' <=>
              RegisterQueued(q, c) \/ (q = p /\ m.type = "register" /\ m.client = c)
         /\ UnregisterQueued(q, c)' <=>
              UnregisterQueued(q, c) \/ (q = p /\ m.type = "unregister" /\ m.client = c)
<1>1. CASE q # p
  BY <1>1, EnqueueFacts DEF RegisterQueued, UnregisterQueued
<1>2. CASE q = p
  <2>1. \A i \in 1..Len(cmds[p]) : i \in 1..Len(cmds'[p]) /\ cmds'[p][i] = cmds[p][i]
    BY EnqueueFacts
  <2>2. \A i \in 1..Len(cmds'[p]) :
          i \in 1..Len(cmds[p]) \/ (i = Len(cmds[p]) + 1 /\ cmds'[p][i] = m)
    BY EnqueueFacts
  <2>3. Len(cmds[p]) + 1 \in 1..Len(cmds'[p]) /\ cmds'[p][Len(cmds[p]) + 1] = m
    BY EnqueueFacts
  <2> QED
    BY <1>2, <2>1, <2>2, <2>3 DEF RegisterQueued, UnregisterQueued
<1> QED
  BY <1>1, <1>2

\* Taking a command keeps the order of the others meaningful, provided the hub
\* forgets nobody but the client of an unregister, remembers the client of a
\* register, and closes nobody but the client of an unregister.
LEMMA DequeueKeepsOrder ==
  ASSUME TypeOK, QueueInv, NEW p \in Pods, NEW t, Dequeue(p, t),
         \A q \in Pods : \A c \in clients[q] :
           c \in clients'[q] \/ (q = p /\ t = "unregister" /\ c = cmds[p][1].client),
         t = "register" => cmds[p][1].client \in clients'[p],
         \A c \in Clients :
           sendClosed'[c] => sendClosed[c] \/ (t = "unregister" /\ c = cmds[p][1].client)
  PROVE  QueueInv'
<1> USE DEF QueueInv
<1> DEFINE n == Len(cmds'[p])
<1>1. /\ \A i \in 1..n : i + 1 \in 1..Len(cmds[p]) /\ cmds'[p][i] = cmds[p][i + 1]
      /\ n \in Nat /\ Len(cmds[p]) = n + 1
      /\ \A q \in Pods : q # p => cmds'[q] = cmds[q]
      /\ cmds[p][1].type = t
  BY DequeueFacts
<1>2. WellFormedQueue'
  BY <1>1, SMTT(20) DEF WellFormedQueue
<1>3. SubscribeAfterRegister'
  <2> SUFFICES ASSUME NEW q \in Pods, NEW i \in 1..Len(cmds'[q]), cmds'[q][i].type = "subscribe"
               PROVE  \/ cmds'[q][i].client \in clients'[q]
                      \/ \E j \in 1..(i - 1) : /\ cmds'[q][j].type = "register"
                                               /\ cmds'[q][j].client = cmds'[q][i].client
    BY DEF SubscribeAfterRegister
  <2>1. CASE q # p
    <3>1. cmds'[q] = cmds[q] /\ \A c \in clients[q] : c \in clients'[q]
      BY <1>1, <2>1
    <3>2. \/ cmds[q][i].client \in clients[q]
          \/ \E j \in 1..(i - 1) : /\ cmds[q][j].type = "register"
                                   /\ cmds[q][j].client = cmds[q][i].client
      BY <3>1 DEF SubscribeAfterRegister
    <3> QED
      BY <3>1, <3>2
  <2>2. CASE q = p
    <3> DEFINE c == cmds[p][i + 1].client
    <3>1. i + 1 \in 1..Len(cmds[p]) /\ cmds[p][i + 1].type = "subscribe"
      BY <1>1, <2>2
    <3>2. CASE c \in clients[p]
      <4>1. ~(t = "unregister" /\ c = cmds[p][1].client)
        BY <1>1, <3>1 DEF UnregisterIsLast
      <4> QED
        BY <1>1, <2>2, <3>2, <4>1
    <3>3. CASE \E j \in 1..i : cmds[p][j].type = "register" /\ cmds[p][j].client = c
      <4>1. PICK j \in 1..i : cmds[p][j].type = "register" /\ cmds[p][j].client = c
        BY <3>3
      <4>2. CASE j = 1
        BY <1>1, <2>2, <4>1, <4>2
      <4>3. CASE j # 1
        <5>1. j - 1 \in 1..(i - 1) /\ j - 1 \in 1..n /\ cmds'[p][j - 1] = cmds[p][j]
          BY <1>1, <2>2, <4>3
        <5> QED
          BY <1>1, <2>2, <4>1, <5>1
      <4> QED
        BY <4>2, <4>3
    <3>4. \/ c \in clients[p]
          \/ \E j \in 1..i : cmds[p][j].type = "register" /\ cmds[p][j].client = c
      BY <3>1 DEF SubscribeAfterRegister
    <3> QED
      BY <3>2, <3>3, <3>4
  <2> QED
    BY <2>1, <2>2
<1>4. UnregisterIsLast'
  <2> SUFFICES ASSUME NEW q \in Pods, NEW i \in 1..Len(cmds'[q]), NEW j \in 1..Len(cmds'[q]),
                      cmds'[q][i].type = "unregister", i < j
               PROVE  cmds'[q][j].client # cmds'[q][i].client
    BY DEF UnregisterIsLast
  <2>1. CASE q # p
    BY <1>1, <2>1 DEF UnregisterIsLast
  <2>2. CASE q = p
    <3>1. /\ i + 1 \in 1..Len(cmds[p]) /\ cmds'[p][i] = cmds[p][i + 1]
          /\ j + 1 \in 1..Len(cmds[p]) /\ cmds'[p][j] = cmds[p][j + 1] /\ i + 1 < j + 1
      BY <1>1, <2>2
    <3>2. cmds[p][i + 1].type = "unregister"
      BY <2>2, <3>1
    <3>3. cmds[p][j + 1].client # cmds[p][i + 1].client
      BY <3>1, <3>2 DEF UnregisterIsLast
    <3> QED
      BY <2>2, <3>1, <3>3
  <2> QED
    BY <2>1, <2>2
<1>5. RegisterFindsOpen'
  <2> SUFFICES ASSUME NEW q \in Pods, NEW i \in 1..Len(cmds'[q]), cmds'[q][i].type = "register"
               PROVE  ~sendClosed'[cmds'[q][i].client]
    BY DEF RegisterFindsOpen
  <2>1. PICK k \in 1..Len(cmds[q]) :
          cmds'[q][i] = cmds[q][k] /\ (q = p => 1 < k)
    BY <1>1
  <2> DEFINE c == cmds[q][k].client
  <2>2. c \in Clients /\ PodOf[c] = q /\ ~sendClosed[c]
    BY <2>1 DEF WellFormedQueue, RegisterFindsOpen
  <2>3. ~(t = "unregister" /\ c = cmds[p][1].client)
    <3>1. ASSUME t = "unregister", c = cmds[p][1].client
          PROVE  FALSE
      <4>1. 1 \in 1..Len(cmds[p])
        BY <1>1
      <4>2. PodOf[cmds[p][1].client] = p
        BY <1>1, <3>1, <4>1 DEF WellFormedQueue
      <4>3. q = p
        BY <2>2, <3>1, <4>2
      <4> QED
        BY <1>1, <2>1, <3>1, <4>1, <4>3 DEF UnregisterIsLast
    <3> QED
      BY <3>1
  <2> QED
    BY <2>1, <2>2, <2>3
<1> QED
  BY <1>2, <1>3, <1>4, <1>5

\* A command may join the queue when it fits what its session has done so far.
LEMMA EnqueueKeepsOrder ==
  ASSUME TypeOK, QueueInv, NEW p \in Pods, NEW m \in Cmd, Enqueue(p, m),
         UNCHANGED <<clients, sendClosed>>,
         m.type # "broadcast" => /\ m.client \in Clients
                                 /\ PodOf[m.client] = p
                                 /\ ~UnregisterQueued(p, m.client),
         m.type = "broadcast" => m.client = None,
         m.type \in {"subscribe", "unsubscribe", "broadcast"} => m.channel \in Channels,
         m.type = "subscribe" => /\ ChannelTenant[m.channel] = TenantOf[m.client]
                                 /\ m.client \in clients[p] \/ RegisterQueued(p, m.client),
         m.type = "register" => ~sendClosed[m.client]
  PROVE  QueueInv'
<1> USE DEF QueueInv
<1> DEFINE n == Len(cmds[p])
<1>1. /\ n \in Nat /\ Len(cmds'[p]) = n + 1
      /\ \A i \in 1..n : cmds'[p][i] = cmds[p][i]
      /\ cmds'[p][n + 1] = m
      /\ \A q \in Pods : q # p => cmds'[q] = cmds[q]
  BY EnqueueFacts
<1>2. WellFormedQueue'
  <2> SUFFICES ASSUME NEW q \in Pods, NEW i \in 1..Len(cmds'[q])
               PROVE  LET k == cmds'[q][i]
                      IN /\ k.type # "broadcast" => k.client \in Clients /\ PodOf[k.client] = q
                         /\ k.type \in {"subscribe", "unsubscribe", "broadcast"}
                              => k.channel \in Channels
                         /\ k.type = "subscribe" => ChannelTenant[k.channel] = TenantOf[k.client]
    BY DEF WellFormedQueue
  <2>1. (i \in 1..Len(cmds[q]) /\ cmds'[q][i] = cmds[q][i]) \/ (q = p /\ cmds'[q][i] = m)
    BY <1>1
  <2> QED
    BY <2>1 DEF WellFormedQueue
<1>3. SubscribeAfterRegister'
  <2> SUFFICES ASSUME NEW q \in Pods, NEW i \in 1..Len(cmds'[q]), cmds'[q][i].type = "subscribe"
               PROVE  \/ cmds'[q][i].client \in clients[q]
                      \/ \E j \in 1..(i - 1) : /\ cmds'[q][j].type = "register"
                                               /\ cmds'[q][j].client = cmds'[q][i].client
    BY DEF SubscribeAfterRegister
  <2>1. CASE q # p
    BY <1>1, <2>1 DEF SubscribeAfterRegister
  <2>2. CASE q = p /\ i \in 1..n
    <3>1. cmds'[p][i] = cmds[p][i] /\ \A j \in 1..(i - 1) : cmds'[p][j] = cmds[p][j]
      BY <1>1, <2>2
    <3>2. \/ cmds[p][i].client \in clients[p]
          \/ \E j \in 1..(i - 1) : /\ cmds[p][j].type = "register"
                                   /\ cmds[p][j].client = cmds[p][i].client
      BY <2>2, <3>1 DEF SubscribeAfterRegister
    <3> QED
      BY <2>2, <3>1, <3>2
  <2>3. CASE q = p /\ i = n + 1
    BY <1>1, <2>3 DEF RegisterQueued
  <2> QED
    BY <1>1, <2>1, <2>2, <2>3
<1>4. UnregisterIsLast'
  <2> SUFFICES ASSUME NEW q \in Pods, NEW i \in 1..Len(cmds'[q]), NEW j \in 1..Len(cmds'[q]),
                      cmds'[q][i].type = "unregister", i < j
               PROVE  cmds'[q][j].client # cmds'[q][i].client
    BY DEF UnregisterIsLast
  <2>1. CASE q # p
    BY <1>1, <2>1 DEF UnregisterIsLast
  <2>2. CASE q = p /\ j \in 1..n
    BY <1>1, <2>2 DEF UnregisterIsLast
  <2>3. CASE q = p /\ j = n + 1
    <3>1. i \in 1..n /\ cmds[p][i].type = "unregister" /\ cmds'[p][i] = cmds[p][i]
      BY <1>1, <2>3
    <3>2. cmds[p][i].client \in Clients /\ UnregisterQueued(p, cmds[p][i].client)
      BY <3>1 DEF WellFormedQueue, UnregisterQueued
    <3> QED
      BY <1>1, <2>3, <3>1, <3>2, NoneAssumption
  <2> QED
    BY <1>1, <2>1, <2>2, <2>3
<1>5. RegisterFindsOpen'
  BY <1>1, SMTT(20) DEF RegisterFindsOpen
<1> QED
  BY <1>2, <1>3, <1>4, <1>5

-----------------------------------------------------------------------------
(* The handlers under one dequeue and one enqueue. *)

\* Taking a command keeps HandlerInv, given what register and unregister do.
LEMMA DequeueKeepsHandlers ==
  ASSUME TypeOK, QueueInv, HandlerInv, NEW p \in Pods, NEW t, Dequeue(p, t),
         handler' = handler,
         \A q \in Pods : \A c \in clients[q] :
           c \in clients'[q] \/ (q = p /\ t = "unregister" /\ c = cmds[p][1].client),
         \A q \in Pods : \A c \in clients'[q] :
           c \in clients[q] \/ (q = p /\ t = "register" /\ c = cmds[p][1].client),
         t = "register" => cmds[p][1].client \in clients'[p],
         t = "unregister" => cmds[p][1].client \notin clients'[p],
         \A c \in Clients :
           sendClosed'[c] => sendClosed[c] \/ (t = "unregister" /\ c = cmds[p][1].client)
  PROVE  HandlerInv'
<1> USE MapsAssumption
<1> SUFFICES ASSUME NEW c \in Clients
             PROVE  /\ handler[c] = "new" => ~sendClosed'[c]
                    /\ handler[c] \in {"reading", "denying", "unregister"} =>
                         c \in clients'[PodOf[c]] \/ RegisterQueued(PodOf[c], c)'
                    /\ handler[c] # "ended" => ~UnregisterQueued(PodOf[c], c)'
                    /\ handler[c] = "ended" =>
                         \/ UnregisterQueued(PodOf[c], c)'
                         \/ c \notin clients'[PodOf[c]] /\ ~RegisterQueued(PodOf[c], c)'
  BY DEF HandlerInv
<1> DEFINE d == PodOf[c]
           taken(x) == t = x /\ c = cmds[p][1].client
<1>0. d \in Pods
  OBVIOUS
<1>1. /\ handler[c] = "new" => ~sendClosed[c]
      /\ handler[c] \in {"reading", "denying", "unregister"} =>
           c \in clients[d] \/ RegisterQueued(d, c)
      /\ handler[c] # "ended" => ~UnregisterQueued(d, c)
      /\ handler[c] = "ended" =>
           UnregisterQueued(d, c) \/ (c \notin clients[d] /\ ~RegisterQueued(d, c))
  BY DEF HandlerInv
<1>2. /\ RegisterQueued(d, c)' => RegisterQueued(d, c)
      /\ UnregisterQueued(d, c)' => UnregisterQueued(d, c)
      /\ RegisterQueued(d, c) => RegisterQueued(d, c)' \/ (d = p /\ taken("register"))
      /\ UnregisterQueued(d, c) => UnregisterQueued(d, c)' \/ (d = p /\ taken("unregister"))
  BY <1>0, QueuedAfterDequeue
<1>3. 1 \in 1..Len(cmds[p]) /\ cmds[p][1].type = t
  BY DequeueFacts
<1>4. taken("unregister") => d = p /\ UnregisterQueued(d, c) /\ handler[c] = "ended"
  <2> SUFFICES ASSUME taken("unregister")
               PROVE  d = p /\ UnregisterQueued(d, c) /\ handler[c] = "ended"
    OBVIOUS
  <2>1. d = p
    BY <1>3 DEF QueueInv, WellFormedQueue
  <2>2. UnregisterQueued(d, c)
    BY <1>3, <2>1 DEF UnregisterQueued
  <2> QED
    BY <1>1, <2>1, <2>2
<1>5. taken("unregister") => ~RegisterQueued(d, c)'
  <2> SUFFICES ASSUME taken("unregister"), RegisterQueued(d, c)'
               PROVE  FALSE
    OBVIOUS
  <2>1. PICK i \in 1..Len(cmds'[p]) : cmds'[p][i].type = "register" /\ cmds'[p][i].client = c
    BY <1>4 DEF RegisterQueued
  <2>2. i + 1 \in 1..Len(cmds[p]) /\ cmds[p][i + 1].client = c /\ 1 < i + 1
    BY <2>1, DequeueFacts
  <2> QED
    BY <1>3, <2>2 DEF QueueInv, UnregisterIsLast
<1>6. taken("register") => d = p /\ RegisterQueued(d, c) /\ c \in clients'[p]
  <2> SUFFICES ASSUME taken("register")
               PROVE  d = p /\ RegisterQueued(d, c) /\ c \in clients'[p]
    OBVIOUS
  <2>1. d = p
    BY <1>3 DEF QueueInv, WellFormedQueue
  <2>2. RegisterQueued(d, c)
    BY <1>3, <2>1 DEF RegisterQueued
  <2> QED
    BY <2>1, <2>2
<1>7. c \in clients[d] => c \in clients'[d] \/ taken("unregister")
  BY <1>0
<1>8. c \in clients'[d] => c \in clients[d] \/ taken("register")
  BY <1>0
<1>9. taken("unregister") => c \notin clients'[p]
  OBVIOUS
<1>10. sendClosed'[c] => sendClosed[c] \/ taken("unregister")
  OBVIOUS
<1> HIDE DEF taken, d
<1>11. handler[c] = "new" => ~sendClosed'[c]
  BY <1>1, <1>4, <1>10
<1>12. handler[c] \in {"reading", "denying", "unregister"} =>
         c \in clients'[d] \/ RegisterQueued(d, c)'
  BY <1>1, <1>2, <1>4, <1>6, <1>7
<1>13. handler[c] # "ended" => ~UnregisterQueued(d, c)'
  BY <1>1, <1>2
<1>14. handler[c] = "ended" =>
         UnregisterQueued(d, c)' \/ (c \notin clients'[d] /\ ~RegisterQueued(d, c)')
  BY <1>1, <1>2, <1>4, <1>5, <1>6, <1>8, <1>9
<1> QED
  BY <1>11, <1>12, <1>13, <1>14 DEF d

\* A command that is no register or unregister leaves HandlerInv alone.
LEMMA EnqueueKeepsHandlers ==
  ASSUME TypeOK, HandlerInv, NEW p \in Pods, NEW m \in Cmd, Enqueue(p, m),
         m.type \notin {"register", "unregister"},
         UNCHANGED <<clients, sendClosed, handler>>
  PROVE  HandlerInv'
<1> USE MapsAssumption
<1>1. \A c \in Clients : /\ RegisterQueued(PodOf[c], c)' <=> RegisterQueued(PodOf[c], c)
                         /\ UnregisterQueued(PodOf[c], c)' <=> UnregisterQueued(PodOf[c], c)
  <2> TAKE c \in Clients
  <2>1. PodOf[c] \in Pods
    OBVIOUS
  <2> QED
    BY <2>1, QueuedAfterEnqueue
<1> QED
  BY <1>1 DEF HandlerInv

-----------------------------------------------------------------------------
(* Every step of a hub keeps the invariant. *)

\* Steps that touch neither the hub, its queue nor the handlers.
LEMMA FrameSafe ==
  ASSUME IInv, UNCHANGED <<cmds, clients, channels, natsSubs, wire, sendClosed, handler>>
  PROVE  HubInv' /\ QueueInv' /\ HandlerInv' /\ NoLeakedSubscription'
<1>1. HubInv'
  BY DEF IInv, SafeInv, HubInv
<1>2. QueueInv'
  BY DEF IInv, SafeInv, QueueInv, WellFormedQueue, SubscribeAfterRegister, UnregisterIsLast,
         RegisterFindsOpen
<1>3. HandlerInv'
  BY DEF IInv, SafeInv, HandlerInv, RegisterQueued, UnregisterQueued
<1>4. NoLeakedSubscription'
  BY DEF IInv, SafeInv, NoLeakedSubscription
<1> QED
  BY <1>1, <1>2, <1>3, <1>4

\* CmdRegister: the session is open, for RegisterFindsOpen says so.
LEMMA HubRegisterSafe ==
  ASSUME IInv, NEW p \in Pods, HubRegister(p)
  PROVE  SafeInv'
<1> USE DEF IInv, SafeInv
<1> DEFINE c == cmds[p][1].client
<1>1. Dequeue(p, "register")
  BY DEF HubRegister
<1>2. c \in Clients /\ PodOf[c] = p /\ Head(cmds[p]) = cmds[p][1]
  BY <1>1, HeadFacts DEF QueueInv
<1>3. /\ clients'[p] = clients[p] \cup {c}
      /\ \A q \in Pods : q # p => clients'[q] = clients[q]
      /\ UNCHANGED <<channels, natsSubs, wire, sendClosed, handler, send, written>>
  BY <1>2 DEF HubRegister, TypeOK, natsVars, sessionVars
<1>4. ~sendClosed[c]
  <2>1. 1 \in 1..Len(cmds[p]) /\ cmds[p][1].type = "register"
    BY <1>1, DequeueFacts
  <2> QED
    BY <2>1 DEF QueueInv, RegisterFindsOpen
<1>5. HubInv'
  <2>1. \A q \in Pods : clients[q] \subseteq clients'[q]
    BY <1>3
  <2>2. \A q \in Pods : \A x \in clients'[q] : x \in clients[q] \/ (q = p /\ x = c)
    BY <1>3
  <2> HIDE DEF c
  <2> QED
    BY <1>2, <1>3, <1>4, <2>1, <2>2 DEF HubInv
<1>6. QueueInv'
  BY <1>1, <1>3, DequeueKeepsOrder
<1>7. HandlerInv'
  BY <1>1, <1>3, DequeueKeepsHandlers
<1>8. NoLeakedSubscription' /\ TenantInv'
  BY <1>3 DEF NoLeakedSubscription, TenantInv
<1> QED
  BY <1>5, <1>6, <1>7, <1>8

\* What teardownNATSSub leaves when `gone' covers the channels that went away.
LEMMA TeardownSafe ==
  ASSUME IInv, NEW p \in Pods, NEW f \in ChannelMap,
         TeardownNATSSubs(p, DOMAIN channels[p] \ DOMAIN f),
         channels' = [channels EXCEPT ![p] = f],
         DOMAIN f \subseteq DOMAIN channels[p],
         \A ch \in DOMAIN f : f[ch] # {}
  PROVE  NoLeakedSubscription'
<1> USE DEF IInv, SafeInv
<1> DEFINE gone == DOMAIN channels[p] \ DOMAIN f
<1>1. /\ natsSubs'[p] = natsSubs[p] \ gone
      /\ \A q \in Pods : q # p => natsSubs'[q] = natsSubs[q]
  BY DEF TeardownNATSSubs, TypeOK
<1>2. /\ \A ch \in Channels : wire'[p][ch] = IF ch \in gone THEN <<>> ELSE wire[p][ch]
      /\ \A q \in Pods : q # p => wire'[q] = wire[q]
  BY DEF TeardownNATSSubs, TypeOK
<1>3. channels'[p] = f /\ \A q \in Pods : q # p => channels'[q] = channels[q]
  BY DEF TypeOK
<1> SUFFICES ASSUME NEW q \in Pods
             PROVE  /\ \A ch \in DOMAIN channels'[q] : channels'[q][ch] # {}
                    /\ natsSubs'[q] \subseteq DOMAIN channels'[q]
                    /\ \A ch \in Channels \ natsSubs'[q] : wire'[q][ch] = <<>>
  BY DEF NoLeakedSubscription
<1>4. /\ natsSubs[q] \subseteq DOMAIN channels[q]
      /\ \A ch \in Channels \ natsSubs[q] : wire[q][ch] = <<>>
      /\ \A ch \in DOMAIN channels[q] : channels[q][ch] # {}
  BY DEF NoLeakedSubscription
<1>5. CASE q # p
  BY <1>1, <1>2, <1>3, <1>4, <1>5
<1>6. CASE q = p
  BY <1>1, <1>2, <1>3, <1>4, <1>6
<1> QED
  BY <1>5, <1>6

\* CmdUnregister closes Send when nothing of the session is left in the queue.
LEMMA HubUnregisterSafe ==
  ASSUME IInv, NEW p \in Pods, HubUnregister(p)
  PROVE  SafeInv'
<1> USE DEF IInv, SafeInv
<1> DEFINE c == cmds[p][1].client
           left == Left(channels[p], Channels, c)
<1>1. Dequeue(p, "unregister")
  BY DEF HubUnregister
<1>2. c \in Clients /\ PodOf[c] = p /\ Head(cmds[p]) = cmds[p][1]
  BY <1>1, HeadFacts DEF QueueInv
<1>3. UNCHANGED <<handler, send, written>>
  BY DEF HubUnregister, sessionVars
<1>4. CASE c \notin clients[p]
  <2>1. UNCHANGED <<clients, channels, natsSubs, wire, sendClosed>>
    BY <1>2, <1>4 DEF HubUnregister, hubVars, natsVars
  <2>2. HubInv'
    BY <2>1 DEF HubInv
  <2>3. QueueInv'
    BY <1>1, <2>1, DequeueKeepsOrder
  <2>4. HandlerInv'
    BY <1>1, <1>3, <1>4, <2>1, DequeueKeepsHandlers
  <2>5. NoLeakedSubscription' /\ TenantInv'
    BY <1>3, <2>1 DEF NoLeakedSubscription, TenantInv
  <2> QED
    BY <2>2, <2>3, <2>4, <2>5
<1>5. CASE c \in clients[p]
  <2>1. /\ clients' = [clients EXCEPT ![p] = @ \ {c}]
        /\ sendClosed' = [sendClosed EXCEPT ![c] = TRUE]
        /\ channels' = [channels EXCEPT ![p] = left]
        /\ TeardownNATSSubs(p, DOMAIN channels[p] \ DOMAIN left)
    BY <1>2, <1>5 DEF HubUnregister
  <2>2. /\ clients'[p] = clients[p] \ {c}
        /\ \A q \in Pods : q # p => clients'[q] = clients[q]
        /\ \A x \in Clients : sendClosed'[x] => sendClosed[x] \/ x = c
        /\ channels'[p] = left
        /\ \A q \in Pods : q # p => channels'[q] = channels[q]
    <3> HIDE DEF c, left
    <3> QED
      BY <1>2, <2>1 DEF TypeOK
  <2>3. /\ left \in ChannelMap
        /\ DOMAIN left \subseteq DOMAIN channels[p]
        /\ DOMAIN channels[p] \subseteq Channels
        /\ \A ch \in DOMAIN left :
             /\ left[ch] \subseteq channels[p][ch]
             /\ ch \in Channels => c \notin left[ch]
             /\ channels[p][ch] # {} => left[ch] # {}
    <3>1. channels[p] \in ChannelMap
      BY DEF TypeOK
    <3> QED
      BY <3>1, LeftFacts, ChannelMapFacts
  <2> HIDE DEF left
  <2>4. HubInv'
    <3>1. \A q \in Pods : \A x \in clients'[q] : PodOf[x] = q /\ ~sendClosed'[x]
      <4> SUFFICES ASSUME NEW q \in Pods, NEW x \in clients'[q]
                   PROVE  PodOf[x] = q /\ ~sendClosed'[x]
        OBVIOUS
      <4>1. x \in clients[q] /\ (q = p => x # c)
        BY <2>2
      <4>2. PodOf[x] = q /\ ~sendClosed[x] /\ x \in Clients
        BY <4>1 DEF HubInv, TypeOK
      <4>3. x # c
        BY <1>2, <4>1, <4>2
      <4> QED
        BY <2>2, <4>2, <4>3
    <3>2. \A q \in Pods : \A ch \in DOMAIN channels'[q] :
            /\ channels'[q][ch] \subseteq clients'[q]
            /\ \A x \in channels'[q][ch] : ChannelTenant[ch] = TenantOf[x]
      <4> SUFFICES ASSUME NEW q \in Pods, NEW ch \in DOMAIN channels'[q]
                   PROVE  /\ channels'[q][ch] \subseteq clients'[q]
                          /\ \A x \in channels'[q][ch] : ChannelTenant[ch] = TenantOf[x]
        OBVIOUS
      <4>1. CASE q # p
        BY <2>2, <4>1 DEF HubInv
      <4>2. CASE q = p
        <5>1. /\ ch \in DOMAIN channels[p] /\ ch \in Channels
              /\ left[ch] \subseteq channels[p][ch] /\ c \notin left[ch]
          BY <2>2, <2>3, <4>2
        <5>2. /\ channels[p][ch] \subseteq clients[p]
              /\ \A x \in channels[p][ch] : ChannelTenant[ch] = TenantOf[x]
          BY <5>1 DEF HubInv
        <5> QED
          BY <2>2, <4>2, <5>1, <5>2
      <4> QED
        BY <4>1, <4>2
    <3> QED
      BY <3>1, <3>2 DEF HubInv
  <2>5. QueueInv'
    BY <1>1, <2>2, DequeueKeepsOrder
  <2>6. HandlerInv'
    BY <1>1, <1>3, <2>2, DequeueKeepsHandlers
  <2>7. NoLeakedSubscription'
    <3>1. \A ch \in DOMAIN left : left[ch] # {}
      BY <2>3 DEF NoLeakedSubscription
    <3> QED
      BY <2>1, <2>3, <3>1, TeardownSafe
  <2>8. TenantInv'
    BY <1>3 DEF TenantInv
  <2> QED
    BY <2>4, <2>5, <2>6, <2>7, <2>8
<1> QED
  BY <1>4, <1>5

\* CmdSubscribe: the session is registered, for its register came first.
LEMMA HubSubscribeSafe ==
  ASSUME IInv, NEW p \in Pods, HubSubscribe(p)
  PROVE  SafeInv'
<1> USE DEF IInv, SafeInv
<1> DEFINE c == cmds[p][1].client
           ch == cmds[p][1].channel
           f == Joined(channels[p], ch, c)
<1>1. Dequeue(p, "subscribe")
  BY DEF HubSubscribe
<1>2. /\ c \in Clients /\ PodOf[c] = p /\ Head(cmds[p]) = cmds[p][1]
      /\ ch \in Channels /\ ChannelTenant[ch] = TenantOf[c]
  BY <1>1, HeadFacts DEF QueueInv
<1>3. /\ channels' = [channels EXCEPT ![p] = f]
      /\ UNCHANGED <<clients, wire, sendClosed, handler, send, written>>
  BY <1>2 DEF HubSubscribe, natsVars, sessionVars
<1>4. /\ DOMAIN f = DOMAIN channels[p] \cup {ch}
      /\ c \in f[ch]
      /\ \A x \in f[ch] : x = c \/ (ch \in DOMAIN channels[p] /\ x \in channels[p][ch])
      /\ \A y \in DOMAIN channels[p] : y # ch => f[y] = channels[p][y]
  <2>1. channels[p] \in ChannelMap /\ c \in Clients /\ ch \in Channels
    BY <1>2 DEF TypeOK
  <2> HIDE DEF c, ch
  <2>2. /\ DOMAIN f = DOMAIN channels[p] \cup {ch}
        /\ f[ch] = Members(channels[p], ch) \cup {c}
        /\ \A y \in DOMAIN channels[p] : y # ch => f[y] = channels[p][y]
        /\ ch \in DOMAIN channels[p] => Members(channels[p], ch) = channels[p][ch]
        /\ ch \notin DOMAIN channels[p] => Members(channels[p], ch) = {}
    BY DEF Joined, Members
  <2> HIDE DEF f
  <2> QED
    BY <2>2
<1> HIDE DEF f
<1>5. channels'[p] = f /\ \A q \in Pods : q # p => channels'[q] = channels[q]
  BY <1>3 DEF TypeOK
\* The register of the session has been taken: nothing is ahead of the head.
<1>6. c \in clients[p]
  <2>1. 1 \in 1..Len(cmds[p]) /\ cmds[p][1].type = "subscribe"
    BY <1>1, DequeueFacts
  <2>2. \/ c \in clients[p]
        \/ \E j \in 1..(1 - 1) : cmds[p][j].type = "register" /\ cmds[p][j].client = c
    BY <2>1 DEF QueueInv, SubscribeAfterRegister
  <2> QED
    BY <2>2
<1>7. natsSubs' = natsSubs \/ natsSubs' = [natsSubs EXCEPT ![p] = @ \cup {ch}]
  BY <1>2, Zenon DEF HubSubscribe, EnsureNATSSub
<1> HIDE DEF c, ch
<1>8. HubInv'
  <2> SUFFICES ASSUME NEW q \in Pods, NEW y \in DOMAIN channels'[q]
               PROVE  /\ channels'[q][y] \subseteq clients[q]
                      /\ \A x \in channels'[q][y] : ChannelTenant[y] = TenantOf[x]
    BY <1>3 DEF HubInv
  <2>1. CASE q # p \/ y # ch
    <3>1. y \in DOMAIN channels[q] /\ channels'[q][y] = channels[q][y]
      BY <1>4, <1>5, <2>1
    <3> QED
      BY <3>1 DEF HubInv
  <2>2. CASE q = p /\ y = ch
    <3>1. \A x \in f[ch] : x \in clients[p] /\ ChannelTenant[ch] = TenantOf[x]
      BY <1>2, <1>4, <1>6 DEF HubInv
    <3> QED
      BY <1>5, <2>2, <3>1
  <2> QED
    BY <2>1, <2>2
<1>9. QueueInv'
  BY <1>1, <1>3, DequeueKeepsOrder
<1>10. HandlerInv'
  BY <1>1, <1>3, DequeueKeepsHandlers
<1>11. NoLeakedSubscription'
  <2> SUFFICES ASSUME NEW q \in Pods
               PROVE  /\ \A y \in DOMAIN channels'[q] : channels'[q][y] # {}
                      /\ natsSubs'[q] \subseteq DOMAIN channels'[q]
                      /\ \A y \in Channels \ natsSubs'[q] : wire[q][y] = <<>>
    BY <1>3 DEF NoLeakedSubscription
  <2>1. /\ natsSubs[q] \subseteq natsSubs'[q]
        /\ \A y \in natsSubs'[q] : y \in natsSubs[q] \/ (q = p /\ y = ch)
    BY <1>7 DEF TypeOK
  <2>2. /\ \A y \in DOMAIN channels[q] : channels[q][y] # {}
        /\ natsSubs[q] \subseteq DOMAIN channels[q]
        /\ \A y \in Channels \ natsSubs[q] : wire[q][y] = <<>>
    BY DEF NoLeakedSubscription
  <2>3. DOMAIN channels[q] \subseteq DOMAIN channels'[q] /\ (q = p => ch \in DOMAIN channels'[q])
    BY <1>4, <1>5
  <2>4. \A y \in DOMAIN channels'[q] : channels'[q][y] # {}
    <3> SUFFICES ASSUME NEW y \in DOMAIN channels'[q]
                 PROVE  channels'[q][y] # {}
      OBVIOUS
    <3>1. CASE q # p \/ y # ch
      BY <1>4, <1>5, <2>2, <3>1
    <3>2. CASE q = p /\ y = ch
      BY <1>4, <1>5, <3>2
    <3> QED
      BY <3>1, <3>2
  <2> QED
    BY <2>1, <2>2, <2>3, <2>4
<1>12. TenantInv'
  BY <1>3 DEF TenantInv
<1> QED
  BY <1>8, <1>9, <1>10, <1>11, <1>12

\* CmdUnsubscribe drops the channel with its last subscriber.
LEMMA HubUnsubscribeSafe ==
  ASSUME IInv, NEW p \in Pods, HubUnsubscribe(p)
  PROVE  SafeInv'
<1> USE DEF IInv, SafeInv
<1> DEFINE m == cmds[p][1]
           left == Left(channels[p], {m.channel}, m.client)
<1>1. Dequeue(p, "unsubscribe") /\ m = Head(cmds[p])
  BY HeadFacts DEF HubUnsubscribe, QueueInv
<1>2. /\ channels' = [channels EXCEPT ![p] = left]
      /\ TeardownNATSSubs(p, DOMAIN channels[p] \ DOMAIN left)
      /\ UNCHANGED <<clients, sendClosed, handler, send, written>>
  BY <1>1 DEF HubUnsubscribe, sessionVars
<1>3. /\ left \in ChannelMap
      /\ DOMAIN left \subseteq DOMAIN channels[p]
      /\ \A ch \in DOMAIN left :
           /\ left[ch] \subseteq channels[p][ch]
           /\ channels[p][ch] # {} => left[ch] # {}
  <2>1. channels[p] \in ChannelMap
    BY DEF TypeOK
  <2> QED
    BY <2>1, LeftFacts
<1> HIDE DEF left
<1>4. channels'[p] = left /\ \A q \in Pods : q # p => channels'[q] = channels[q]
  BY <1>2 DEF TypeOK
<1>5. HubInv'
  <2> SUFFICES ASSUME NEW q \in Pods, NEW y \in DOMAIN channels'[q]
               PROVE  /\ channels'[q][y] \subseteq clients[q]
                      /\ \A x \in channels'[q][y] : ChannelTenant[y] = TenantOf[x]
    BY <1>2 DEF HubInv
  <2>1. y \in DOMAIN channels[q] /\ channels'[q][y] \subseteq channels[q][y]
    BY <1>3, <1>4
  <2> QED
    BY <2>1 DEF HubInv
<1>6. QueueInv'
  BY <1>1, <1>2, DequeueKeepsOrder
<1>7. HandlerInv'
  BY <1>1, <1>2, DequeueKeepsHandlers
<1>8. NoLeakedSubscription'
  <2>1. \A ch \in DOMAIN left : left[ch] # {}
    BY <1>3 DEF NoLeakedSubscription
  <2> QED
    BY <1>2, <1>3, <2>1, TeardownSafe
<1>9. TenantInv'
  BY <1>2 DEF TenantInv
<1> QED
  BY <1>5, <1>6, <1>7, <1>8, <1>9

\* CmdBroadcast reaches subscribers only, who share the channel's tenant.
LEMMA HubBroadcastSafe ==
  ASSUME IInv, NEW p \in Pods, HubBroadcast(p)
  PROVE  SafeInv'
<1> USE DEF IInv, SafeInv
<1> DEFINE m == cmds[p][1]
           item == [payload |-> m.payload, channel |-> m.channel, fromNATS |-> m.fromNATS]
           room == {c \in Members(channels[p], m.channel) : Len(send[c]) < SendCap}
<1>1. Dequeue(p, "broadcast")
  BY DEF HubBroadcast
<1>2. m.channel \in Channels /\ m = Head(cmds[p])
  BY <1>1, HeadFacts DEF QueueInv
<1>3. /\ send' = [c \in Clients |-> IF c \in room THEN Append(send[c], item) ELSE send[c]]
      /\ UNCHANGED <<clients, channels, natsSubs, sendClosed, handler, written>>
  BY <1>2 DEF HubBroadcast, hubVars, sessionVars
<1>4. HubInv'
  BY <1>3 DEF HubInv
<1>5. QueueInv'
  BY <1>1, <1>3, DequeueKeepsOrder
<1>6. HandlerInv'
  BY <1>1, <1>3, DequeueKeepsHandlers
<1>7. NoLeakedSubscription'
  <2>1. \A q \in Pods : \A y \in Channels \ natsSubs[q] : wire'[q][y] = wire[q][y]
    <3>1. CASE UNCHANGED wire
      BY <3>1
    <3>2. CASE PublishNATS(m.channel, m.payload)
      <4>1. PICK reached \in [Pods -> SUBSET Channels] :
              /\ \A q \in Pods : reached[q] \subseteq
                   {x \in natsSubs[q] : SubjectOf[x] = SubjectOf[m.channel]}
              /\ wire' = [q \in Pods |-> [x \in Channels |->
                   IF x \in reached[q] THEN Append(wire[q][x], m.payload) ELSE wire[q][x]]]
        BY <3>2 DEF PublishNATS
      <4>2. \A q \in Pods : reached[q] \subseteq natsSubs[q]
        BY <4>1
      <4> QED
        BY <4>1, <4>2
    <3> QED
      BY <1>2, <3>1, <3>2 DEF HubBroadcast
  <2> QED
    BY <1>3, <2>1 DEF NoLeakedSubscription
<1>8. TenantInv'
  <2>1. \A c \in room : c \in Clients => ChannelTenant[m.channel] = TenantOf[c]
    <3>1. \A c \in room : m.channel \in DOMAIN channels[p] /\ c \in channels[p][m.channel]
      BY DEF Members
    <3> QED
      BY <3>1 DEF HubInv
  <2> SUFFICES ASSUME NEW c \in Clients, NEW i \in 1..Len(send'[c])
               PROVE  ChannelTenant[send'[c][i].channel] = TenantOf[c]
    BY <1>3 DEF TenantInv
  <2>2. send[c] \in Seq(Item)
    BY DEF TypeOK
  <2>3. item.channel = m.channel
    OBVIOUS
  <2> HIDE DEF item, room, m
  <2>4. CASE c \notin room
    BY <1>3, <2>4 DEF TenantInv
  <2>5. CASE c \in room
    <3>1. send'[c] = Append(send[c], item)
      BY <1>3, <2>5
    <3>2. \/ i \in 1..Len(send[c]) /\ send'[c][i] = send[c][i]
          \/ send'[c][i] = item
      BY <2>2, <3>1
    <3> QED
      BY <2>1, <2>3, <2>5, <3>2 DEF TenantInv
  <2> QED
    BY <2>4, <2>5
<1> QED
  BY <1>4, <1>5, <1>6, <1>7, <1>8

-----------------------------------------------------------------------------
(* Callbacks and the relay: they only bring broadcasts. *)

\* A broadcast enqueued by anybody, from a subscription whose wire shrinks.
LEMMA BroadcastQueuedSafe ==
  ASSUME IInv, NEW p \in Pods, NEW ch \in Channels, NEW n \in Nat, NEW b \in BOOLEAN,
         Enqueue(p, BroadcastCmd(ch, n, b)),
         UNCHANGED <<hubVars, send, sendClosed, handler, written>>,
         \A q \in Pods : \A x \in Channels : wire[q][x] = <<>> => wire'[q][x] = <<>>
  PROVE  SafeInv'
<1> USE DEF IInv, SafeInv
<1> DEFINE m == BroadcastCmd(ch, n, b)
<1>1. m \in Cmd /\ m.type = "broadcast" /\ m.client = None /\ m.channel = ch
  BY CmdTypes DEF BroadcastCmd
<1>2. UNCHANGED <<clients, channels, natsSubs, send, sendClosed, handler, written>>
  BY DEF hubVars
<1> HIDE DEF m
<1>3. HubInv' /\ TenantInv'
  BY <1>2 DEF HubInv, TenantInv
<1>4. Enqueue(p, m)
  BY DEF m
<1>5. QueueInv'
  BY <1>1, <1>2, <1>4, EnqueueKeepsOrder
<1>6. HandlerInv'
  BY <1>1, <1>2, <1>4, EnqueueKeepsHandlers
<1>7. NoLeakedSubscription'
  BY <1>2 DEF NoLeakedSubscription
<1> QED
  BY <1>3, <1>5, <1>6, <1>7

\* A NATS callback queues a broadcast on the channel it subscribed.
LEMMA CallbackSafe ==
  ASSUME IInv, NEW p \in Pods, NEW ch \in Channels, NatsCallback(p, ch)
  PROVE  SafeInv'
<1>1. wire[p][ch] \in Seq(Nat) /\ wire[p][ch] # <<>>
  BY DEF IInv, TypeOK, NatsCallback
<1>2. Head(wire[p][ch]) \in Nat
  BY <1>1
<1>3. /\ Enqueue(p, BroadcastCmd(ch, Head(wire[p][ch]), TRUE))
      /\ UNCHANGED <<hubVars, send, sendClosed, handler, written>>
  BY DEF NatsCallback, sessionVars
<1>4. \A q \in Pods : \A x \in Channels : wire[q][x] = <<>> => wire'[q][x] = <<>>
  BY <1>1 DEF NatsCallback, IInv, TypeOK
<1> QED
  BY <1>2, <1>3, <1>4, BroadcastQueuedSafe

\* A callback still running after Unsubscribe does the same.
LEMMA LateCallbackSafe ==
  ASSUME IInv, NEW p \in Pods, LateCallback(p)
  PROVE  SafeInv'
<1>1. PICK m \in late[p] : Enqueue(p, BroadcastCmd(m.channel, m.payload, TRUE))
  BY DEF LateCallback
<1>2. m.channel \in Channels /\ m.payload \in Nat
  BY DEF IInv, TypeOK
<1>3. UNCHANGED <<hubVars, wire, send, sendClosed, handler, written>>
  BY DEF LateCallback, sessionVars
<1> QED
  BY <1>1, <1>2, <1>3, BroadcastQueuedSafe

\* The relay queues a broadcast.
LEMMA RelayDispatchSafe ==
  ASSUME IInv, NEW p \in Pods, RelayDispatch(p)
  PROVE  SafeInv'
<1>1. relayPos[p] + 1 \in 1..Len(notified) /\ notified \in Seq(Channels)
  BY DEF IInv, TypeOK, RelayDispatch
<1>2. notified[relayPos[p] + 1] \in Channels /\ relayPos[p] + 1 \in Nat
  BY <1>1
<1>3. /\ Enqueue(p, BroadcastCmd(notified[relayPos[p] + 1], relayPos[p] + 1, FALSE))
      /\ UNCHANGED <<hubVars, wire, send, sendClosed, handler, written>>
  BY DEF RelayDispatch, natsVars, sessionVars
<1> QED
  BY <1>2, <1>3, BroadcastQueuedSafe

-----------------------------------------------------------------------------
(* Sessions *)

\* A handler that moves on without a command: reading, denying and unregister
\* promise the same of the hub, and a panic promises less.
LEMMA HandlerMoveSafe ==
  ASSUME IInv, NEW c \in Clients, NEW h \in {"denying", "unregister", "panicked"},
         handler[c] \in {"reading", "denying"},
         handler' = [handler EXCEPT ![c] = h],
         UNCHANGED <<cmds, hubVars, natsVars, send, sendClosed, written>>
  PROVE  SafeInv'
<1> USE DEF IInv, SafeInv
<1>1. UNCHANGED <<cmds, clients, channels, natsSubs, wire, send, sendClosed, written>>
  BY DEF hubVars, natsVars
<1>2. HubInv' /\ NoLeakedSubscription' /\ TenantInv'
  BY <1>1 DEF HubInv, NoLeakedSubscription, TenantInv
<1>3. QueueInv'
  BY <1>1 DEF QueueInv, WellFormedQueue, SubscribeAfterRegister, UnregisterIsLast,
              RegisterFindsOpen
<1>4. HandlerInv'
  <2> SUFFICES ASSUME NEW x \in Clients
               PROVE  /\ handler'[x] = "new" => ~sendClosed[x]
                      /\ handler'[x] \in {"reading", "denying", "unregister"} =>
                           x \in clients[PodOf[x]] \/ RegisterQueued(PodOf[x], x)
                      /\ handler'[x] # "ended" => ~UnregisterQueued(PodOf[x], x)
                      /\ handler'[x] = "ended" =>
                           \/ UnregisterQueued(PodOf[x], x)
                           \/ x \notin clients[PodOf[x]] /\ ~RegisterQueued(PodOf[x], x)
    BY <1>1 DEF HandlerInv, RegisterQueued, UnregisterQueued
  <2>1. CASE x # c
    <3>1. handler'[x] = handler[x]
      BY <2>1
    <3> QED
      BY <3>1 DEF HandlerInv
  <2>2. CASE x = c
    <3>1. handler'[x] = h
      BY <2>2 DEF TypeOK
    <3> QED
      BY <2>2, <3>1 DEF HandlerInv
  <2> QED
    BY <2>1, <2>2
<1> QED
  BY <1>2, <1>3, <1>4

\* Register is queued first, by a session whose Send is open.
LEMMA ConnectSafe ==
  ASSUME IInv, NEW c \in Clients, Connect(c)
  PROVE  SafeInv'
<1> USE DEF IInv, SafeInv
<1> USE MapsAssumption
<1> DEFINE m == ClientCmd("register", c, None)
           p == PodOf[c]
<1>1. m \in Cmd /\ m.type = "register" /\ m.client = c /\ p \in Pods
  BY CmdTypes DEF ClientCmd
<1>2. /\ handler[c] = "new" /\ Enqueue(p, m)
      /\ handler' = [handler EXCEPT ![c] = "reading"]
      /\ UNCHANGED <<clients, channels, natsSubs, wire, send, sendClosed, written>>
  BY DEF Connect, hubVars, natsVars
<1>3. ~sendClosed[c] /\ ~UnregisterQueued(p, c)
  BY <1>2 DEF HandlerInv
<1> HIDE DEF m, p
<1>4. HubInv' /\ NoLeakedSubscription' /\ TenantInv'
  BY <1>2 DEF HubInv, NoLeakedSubscription, TenantInv
<1>5. QueueInv'
  <2>1. PodOf[c] = p
    BY DEF p
  <2> QED
    BY <1>1, <1>2, <1>3, <2>1, EnqueueKeepsOrder
<1>6. HandlerInv'
  <2> SUFFICES ASSUME NEW x \in Clients
               PROVE  /\ handler'[x] = "new" => ~sendClosed[x]
                      /\ handler'[x] \in {"reading", "denying", "unregister"} =>
                           x \in clients[PodOf[x]] \/ RegisterQueued(PodOf[x], x)'
                      /\ handler'[x] # "ended" => ~UnregisterQueued(PodOf[x], x)'
                      /\ handler'[x] = "ended" =>
                           \/ UnregisterQueued(PodOf[x], x)'
                           \/ x \notin clients[PodOf[x]] /\ ~RegisterQueued(PodOf[x], x)'
    BY <1>2 DEF HandlerInv
  <2>1. /\ RegisterQueued(PodOf[x], x)' <=>
             RegisterQueued(PodOf[x], x) \/ (PodOf[x] = p /\ m.type = "register" /\ m.client = x)
        /\ UnregisterQueued(PodOf[x], x)' <=>
             UnregisterQueued(PodOf[x], x) \/ (PodOf[x] = p /\ m.type = "unregister" /\ m.client = x)
    <3>1. PodOf[x] \in Pods
      OBVIOUS
    <3> QED
      BY <1>1, <1>2, <3>1, QueuedAfterEnqueue
  <2>2. CASE x # c
    <3>1. handler'[x] = handler[x]
      BY <1>2, <2>2
    <3> QED
      BY <1>1, <2>1, <2>2, <3>1 DEF HandlerInv
  <2>3. CASE x = c
    <3>1. handler'[x] = "reading"
      BY <1>2, <2>3 DEF TypeOK
    <3>2. PodOf[x] = p
      BY <2>3 DEF p
    <3> QED
      BY <1>1, <1>3, <2>1, <2>3, <3>1, <3>2
  <2> QED
    BY <2>2, <2>3
<1> QED
  BY <1>4, <1>5, <1>6

\* A subscribe is queued behind the register of its session.
LEMMA ReadCommandSafe ==
  ASSUME IInv, NEW c \in Clients, NEW ch \in Channels,
         NEW t \in {"subscribe", "unsubscribe"}, ReadCommand(c, t, ch)
  PROVE  SafeInv'
<1> USE DEF IInv, SafeInv
<1> USE MapsAssumption
<1> DEFINE m == ClientCmd(t, c, ch)
           p == PodOf[c]
<1>1. m \in Cmd /\ m.type = t /\ m.client = c /\ m.channel = ch /\ p \in Pods
  BY CmdTypes DEF ClientCmd
<1>2. /\ handler[c] = "reading" /\ ChannelTenant[ch] = TenantOf[c] /\ Enqueue(p, m)
      /\ UNCHANGED <<clients, channels, natsSubs, wire, send, sendClosed, handler, written>>
  BY DEF ReadCommand, ReadFrame, hubVars, natsVars
<1>3. (c \in clients[p] \/ RegisterQueued(p, c)) /\ ~UnregisterQueued(p, c) /\ PodOf[c] = p
  BY <1>2 DEF HandlerInv
<1> HIDE DEF m, p
<1>4. HubInv' /\ NoLeakedSubscription' /\ TenantInv'
  BY <1>2 DEF HubInv, NoLeakedSubscription, TenantInv
<1>5. QueueInv'
  BY <1>1, <1>2, <1>3, EnqueueKeepsOrder
<1>6. HandlerInv'
  BY <1>1, <1>2, EnqueueKeepsHandlers
<1> QED
  BY <1>4, <1>5, <1>6

\* Unregister is queued last: the handler ends with it.
LEMMA UnregisterSafe ==
  ASSUME IInv, NEW c \in Clients, Unregister(c)
  PROVE  SafeInv'
<1> USE DEF IInv, SafeInv
<1> USE MapsAssumption
<1> DEFINE m == ClientCmd("unregister", c, None)
           p == PodOf[c]
<1>1. m \in Cmd /\ m.type = "unregister" /\ m.client = c /\ p \in Pods
  BY CmdTypes DEF ClientCmd
<1>2. /\ handler[c] = "unregister" /\ Enqueue(p, m)
      /\ handler' = [handler EXCEPT ![c] = "ended"]
      /\ UNCHANGED <<clients, channels, natsSubs, wire, send, sendClosed, written>>
  BY DEF Unregister, hubVars, natsVars
<1>3. ~UnregisterQueued(p, c) /\ PodOf[c] = p
  BY <1>2 DEF HandlerInv
<1> HIDE DEF m, p
<1>4. HubInv' /\ NoLeakedSubscription' /\ TenantInv'
  BY <1>2 DEF HubInv, NoLeakedSubscription, TenantInv
<1>5. QueueInv'
  BY <1>1, <1>2, <1>3, EnqueueKeepsOrder
<1>6. HandlerInv'
  <2> SUFFICES ASSUME NEW x \in Clients
               PROVE  /\ handler'[x] = "new" => ~sendClosed[x]
                      /\ handler'[x] \in {"reading", "denying", "unregister"} =>
                           x \in clients[PodOf[x]] \/ RegisterQueued(PodOf[x], x)'
                      /\ handler'[x] # "ended" => ~UnregisterQueued(PodOf[x], x)'
                      /\ handler'[x] = "ended" =>
                           \/ UnregisterQueued(PodOf[x], x)'
                           \/ x \notin clients[PodOf[x]] /\ ~RegisterQueued(PodOf[x], x)'
    BY <1>2 DEF HandlerInv
  <2>1. /\ RegisterQueued(PodOf[x], x)' <=>
             RegisterQueued(PodOf[x], x) \/ (PodOf[x] = p /\ m.type = "register" /\ m.client = x)
        /\ UnregisterQueued(PodOf[x], x)' <=>
             UnregisterQueued(PodOf[x], x) \/ (PodOf[x] = p /\ m.type = "unregister" /\ m.client = x)
    <3>1. PodOf[x] \in Pods
      OBVIOUS
    <3> QED
      BY <1>1, <1>2, <3>1, QueuedAfterEnqueue
  <2>2. CASE x # c
    <3>1. handler'[x] = handler[x]
      BY <1>2, <2>2
    <3> QED
      BY <1>1, <2>1, <2>2, <3>1 DEF HandlerInv
  <2>3. CASE x = c
    <3>1. handler'[x] = "ended"
      BY <1>2, <2>3 DEF TypeOK
    <3> QED
      BY <1>1, <1>3, <2>1, <2>3, <3>1
  <2> QED
    BY <2>2, <2>3
<1> QED
  BY <1>4, <1>5, <1>6

\* The pump moves payloads from the buffer to the socket, and nothing else.
LEMMA PumpSafe ==
  ASSUME IInv, NEW c \in Clients, WriteBegin(c)
  PROVE  SafeInv'
<1> USE DEF IInv, SafeInv
<1>1. UNCHANGED <<cmds, clients, channels, natsSubs, wire, sendClosed, handler>>
  BY DEF WriteBegin, hubVars, natsVars
<1>2. TenantInv'
  <2>1. CASE UNCHANGED <<send, written>>
    BY <2>1 DEF TenantInv
  <2>2. CASE /\ send[c] # <<>>
             /\ send' = [send EXCEPT ![c] = Tail(@)]
             /\ written' = [written EXCEPT ![c] = Append(@, Head(send[c]))]
    <3> SUFFICES ASSUME NEW x \in Clients
                 PROVE  /\ \A i \in 1..Len(send'[x]) :
                             ChannelTenant[send'[x][i].channel] = TenantOf[x]
                        /\ \A i \in 1..Len(written'[x]) :
                             ChannelTenant[written'[x][i].channel] = TenantOf[x]
      BY DEF TenantInv
    <3>1. CASE x # c
      BY <2>2, <3>1 DEF TenantInv
    <3>2. CASE x = c
      <4> DEFINE s == send[c]
                 w == written[c]
      <4>1. s \in Seq(Item) /\ w \in Seq(Item) /\ s # <<>>
        BY <2>2 DEF TypeOK
      <4>2. send'[x] = Tail(s) /\ written'[x] = Append(w, Head(s))
        BY <2>2, <3>2 DEF TypeOK
      <4>3. /\ \A i \in 1..Len(s) : ChannelTenant[s[i].channel] = TenantOf[c]
            /\ \A i \in 1..Len(w) : ChannelTenant[w[i].channel] = TenantOf[c]
        BY DEF TenantInv
      <4> HIDE DEF s, w
      <4>4. \A i \in 1..Len(Tail(s)) : i + 1 \in 1..Len(s) /\ Tail(s)[i] = s[i + 1]
        BY <4>1
      <4>5. Head(s) = s[1] /\ 1 \in 1..Len(s)
        BY <4>1
      <4>6. \A i \in 1..Len(Append(w, Head(s))) :
              \/ i \in 1..Len(w) /\ Append(w, Head(s))[i] = w[i]
              \/ Append(w, Head(s))[i] = Head(s)
        BY <4>1
      <4> QED
        BY <3>2, <4>2, <4>3, <4>4, <4>5, <4>6
    <3> QED
      BY <3>1, <3>2
  <2> QED
    BY <2>1, <2>2 DEF WriteBegin
<1> QED
  BY <1>1, <1>2, FrameSafe

-----------------------------------------------------------------------------
(* Crashes *)

\* A crash empties the hub and ends its sessions together.
LEMMA CrashSafe ==
  ASSUME IInv, NEW p \in Pods, CrashPod(p)
  PROVE  SafeInv'
<1> USE DEF IInv, SafeInv
<1> USE MapsAssumption
<1>1. /\ cmds'[p] = <<>> /\ clients'[p] = {} /\ channels'[p] = [ch \in {} |-> {}]
      /\ natsSubs'[p] = {} /\ wire'[p] = [ch \in Channels |-> <<>>]
      /\ \A q \in Pods : q # p => /\ cmds'[q] = cmds[q] /\ clients'[q] = clients[q]
                                  /\ channels'[q] = channels[q]
                                  /\ natsSubs'[q] = natsSubs[q] /\ wire'[q] = wire[q]
      /\ UNCHANGED <<send, sendClosed, written>>
  BY DEF CrashPod, TypeOK
<1>2. DOMAIN channels'[p] = {} /\ Len(cmds'[p]) = 0
  BY <1>1
<1>3. \A c \in Clients :
        \/ PodOf[c] = p /\ handler'[c] \in {"new", "ended"}
             /\ (handler'[c] = "new" => handler[c] = "new")
        \/ PodOf[c] # p /\ handler'[c] = handler[c]
  BY DEF CrashPod, TypeOK
<1>4. HubInv'
  BY <1>1, <1>2 DEF HubInv
<1>5. QueueInv'
  <2>1. WellFormedQueue'
    BY <1>1, <1>2 DEF QueueInv, WellFormedQueue
  <2>2. SubscribeAfterRegister'
    BY <1>1, <1>2, SMTT(20) DEF QueueInv, SubscribeAfterRegister
  <2>3. UnregisterIsLast'
    BY <1>1, <1>2 DEF QueueInv, UnregisterIsLast
  <2>4. RegisterFindsOpen'
    BY <1>1, <1>2 DEF QueueInv, RegisterFindsOpen
  <2> QED
    BY <2>1, <2>2, <2>3, <2>4 DEF QueueInv
<1>6. HandlerInv'
  <2> SUFFICES ASSUME NEW c \in Clients
               PROVE  /\ handler'[c] = "new" => ~sendClosed[c]
                      /\ handler'[c] \in {"reading", "denying", "unregister"} =>
                           c \in clients'[PodOf[c]] \/ RegisterQueued(PodOf[c], c)'
                      /\ handler'[c] # "ended" => ~UnregisterQueued(PodOf[c], c)'
                      /\ handler'[c] = "ended" =>
                           \/ UnregisterQueued(PodOf[c], c)'
                           \/ c \notin clients'[PodOf[c]] /\ ~RegisterQueued(PodOf[c], c)'
    BY <1>1 DEF HandlerInv
  <2>1. CASE PodOf[c] = p
    <3>1. ~RegisterQueued(p, c)' /\ ~UnregisterQueued(p, c)' /\ c \notin clients'[p]
      BY <1>1, <1>2 DEF RegisterQueued, UnregisterQueued
    <3>2. handler'[c] \in {"new", "ended"} /\ (handler'[c] = "new" => handler[c] = "new")
      BY <1>3, <2>1
    <3> QED
      BY <2>1, <3>1, <3>2 DEF HandlerInv
  <2>2. CASE PodOf[c] # p
    <3>1. PodOf[c] \in Pods /\ handler'[c] = handler[c]
      BY <1>3, <2>2
    <3>2. cmds'[PodOf[c]] = cmds[PodOf[c]] /\ clients'[PodOf[c]] = clients[PodOf[c]]
      BY <1>1, <2>2, <3>1
    <3>3. /\ RegisterQueued(PodOf[c], c)' <=> RegisterQueued(PodOf[c], c)
          /\ UnregisterQueued(PodOf[c], c)' <=> UnregisterQueued(PodOf[c], c)
      BY <3>2 DEF RegisterQueued, UnregisterQueued
    <3> QED
      BY <3>1, <3>2, <3>3 DEF HandlerInv
  <2> QED
    BY <2>1, <2>2
<1>7. NoLeakedSubscription'
  BY <1>1, <1>2 DEF NoLeakedSubscription
<1>8. TenantInv'
  BY <1>1 DEF TenantInv
<1> QED
  BY <1>4, <1>5, <1>6, <1>7, <1>8

-----------------------------------------------------------------------------
(* The invariant, and what follows from it. *)

\* The invariant holds when all pods have just started.
LEMMA InitInv ==
  Init => IInv
<1> SUFFICES ASSUME Init PROVE IInv
  OBVIOUS
<1> USE DEF Init
<1>1. [ch \in {} |-> {}] \in ChannelMap
  BY ZenonT(30) DEF ChannelMap
<1>2. TypeOK
  BY <1>1 DEF TypeOK, HandlerState, PumpState
<1>3. QueueInv
  BY DEF QueueInv, WellFormedQueue, SubscribeAfterRegister, UnregisterIsLast, RegisterFindsOpen
<1>4. HandlerInv
  BY MapsAssumption DEF HandlerInv, RegisterQueued, UnregisterQueued
<1>5. HubInv /\ NoLeakedSubscription /\ TenantInv
  BY DEF HubInv, NoLeakedSubscription, TenantInv
<1> QED
  BY <1>2, <1>3, <1>4, <1>5 DEF IInv, SafeInv

\* SafeInv through NATS callbacks, the relay and crashes.
LEMMA PodStepSafe ==
  ASSUME IInv, NEW p \in Pods, PodStep(p)
  PROVE  SafeInv'
<1>1. CASE HubStep(p)
  BY <1>1, HubRegisterSafe, HubUnregisterSafe, HubSubscribeSafe, HubUnsubscribeSafe,
     HubBroadcastSafe DEF HubStep
<1>2. CASE \E ch \in Channels : NatsCallback(p, ch)
  BY <1>2, CallbackSafe
<1>3. CASE LateCallback(p)
  BY <1>3, LateCallbackSafe
<1>4. CASE RelayDispatch(p)
  BY <1>4, RelayDispatchSafe
<1>5. CASE RelayReconnect(p)
  <2>1. UNCHANGED <<cmds, clients, channels, natsSubs, wire, sendClosed, handler, send, written>>
    BY <1>5 DEF RelayReconnect, hubVars, natsVars, sessionVars
  <2> QED
    BY <2>1, FrameSafe DEF TenantInv, IInv, SafeInv
<1>6. CASE CrashPod(p)
  BY <1>6, CrashSafe
<1> QED
  BY <1>1, <1>2, <1>3, <1>4, <1>5, <1>6 DEF PodStep

\* SafeInv through each step of a session.
LEMMA SessionStepSafe ==
  ASSUME IInv, NEW c \in Clients, SessionStep(c)
  PROVE  SafeInv'
<1>1. CASE Connect(c)
  BY <1>1, ConnectSafe
<1>2. ASSUME NEW ch \in Channels,
             ReadCommand(c, "subscribe", ch) \/ ReadCommand(c, "unsubscribe", ch)
      PROVE  SafeInv'
  BY <1>2, ReadCommandSafe
<1>3. ASSUME NEW ch \in Channels, ReadDenied(c, ch)
      PROVE  SafeInv'
  <2>1. PICK h \in {"denying", "unregister", "panicked"} :
          handler' = [handler EXCEPT ![c] = h]
    BY <1>3 DEF ReadDenied
  <2>2. /\ handler[c] \in {"reading", "denying"}
        /\ UNCHANGED <<cmds, hubVars, natsVars, send, sendClosed, written>>
    BY <1>3 DEF ReadDenied, ReadFrame
  <2> QED
    BY <2>1, <2>2, HandlerMoveSafe
<1>4. CASE DenyDone(c) \/ ReadError(c)
  <2>1. /\ handler[c] \in {"reading", "denying"}
        /\ handler' = [handler EXCEPT ![c] = "unregister"]
        /\ UNCHANGED <<cmds, hubVars, natsVars, send, sendClosed, written>>
    BY <1>4 DEF DenyDone, ReadError
  <2> QED
    BY <2>1, HandlerMoveSafe
<1>5. CASE Unregister(c)
  BY <1>5, UnregisterSafe
<1>6. CASE WriteBegin(c)
  BY <1>6, PumpSafe
<1>7. CASE WriteEnd(c) \/ PumpStop(c) \/ WriteError(c)
  <2>1. UNCHANGED <<cmds, clients, channels, natsSubs, wire, sendClosed, handler, send, written>>
    BY <1>7 DEF WriteEnd, PumpStop, WriteError, hubVars, natsVars
  <2> QED
    BY <2>1, FrameSafe DEF TenantInv, IInv, SafeInv
<1>8. CASE PumpPanic(c)
  <2>1. PodOf[c] \in Pods /\ CrashPod(PodOf[c])
    BY <1>8, MapsAssumption DEF PumpPanic
  <2> QED
    BY <2>1, CrashSafe
<1> QED
  BY <1>1, <1>2, <1>3, <1>4, <1>5, <1>6, <1>7, <1>8 DEF SessionStep

\* IInv is inductive.
LEMMA StepInv ==
  IInv /\ [Next]_vars => IInv'
<1> SUFFICES ASSUME IInv, [Next]_vars PROVE IInv'
  OBVIOUS
<1>1. CASE Next
  <2>1. TypeOK'
    BY <1>1, TypeStep DEF IInv, SafeInv, QueueInv
  <2>2. SafeInv'
    <3>1. ASSUME NEW ch \in Channels, Notify(ch) PROVE SafeInv'
      <4>1. UNCHANGED <<cmds, clients, channels, natsSubs, wire, sendClosed, handler,
                        send, written>>
        BY <3>1 DEF Notify, hubVars, natsVars, sessionVars
      <4> QED
        BY <4>1, FrameSafe DEF TenantInv, IInv, SafeInv
    <3> QED
      BY <1>1, <3>1, PodStepSafe, SessionStepSafe DEF Next
  <2> QED
    BY <2>1, <2>2 DEF IInv
<1>2. CASE UNCHANGED vars
  <2>1. UNCHANGED <<cmds, clients, channels, natsSubs, wire, late, send, sendClosed, handler,
                    pump, writer, written, reads, notified, relayPos, crashes>>
    BY <1>2 DEF vars, hubVars, natsVars, sessionVars, relayVars
  <2>2. TypeOK'
    BY <2>1 DEF IInv, TypeOK
  <2> QED
    BY <2>1, <2>2, FrameSafe DEF TenantInv, IInv, SafeInv
<1> QED
  BY <1>1, <1>2

\* The invariant holds in every reachable state of the service.
THEOREM InvariantHolds == Spec => []IInv
BY InitInv, StepInv, PTL DEF Spec

\* Every variable keeps its type: no command, payload or subscription is ever
\* of a shape the code of the hub or of a session does not expect.
THEOREM TypeCorrect == Spec => []TypeOK
<1>1. IInv => TypeOK
  BY DEF IInv
<1> QED
  BY <1>1, InvariantHolds, PTL

\* However the commands of all sessions, relays and callbacks interleave, and
\* whatever the capacities, Hub.Run never sends on a closed Client.Send.
THEOREM SubscribersStayOpen == Spec => []SubscribersAreOpen
<1>1. IInv => SubscribersAreOpen
  <2> SUFFICES ASSUME IInv, NEW p \in Pods, NEW ch \in DOMAIN channels[p],
                      NEW c \in channels[p][ch]
               PROVE  c \in clients[p] /\ PodOf[c] = p /\ ~sendClosed[c]
    BY DEF SubscribersAreOpen
  <2>1. c \in clients[p]
    BY DEF IInv, SafeInv, HubInv
  <2> QED
    BY <2>1 DEF IInv, SafeInv, HubInv
<1> QED
  BY <1>1, InvariantHolds, PTL

\* A NATS subscription is held only for a channel with a local subscriber.
THEOREM NoSubscriptionLeaks == Spec => []NoLeakedSubscription
<1>1. IInv => NoLeakedSubscription
  BY DEF IInv, SafeInv
<1> QED
  BY <1>1, InvariantHolds, PTL

\* Every delivery is labelled with a channel of the session's tenant.
LEMMA LabelsAreOwn ==
  ASSUME IInv, NEW c \in Clients, NEW i \in 1..Len(Delivered(c))
  PROVE  ChannelTenant[Delivered(c)[i].channel] = TenantOf[c]
<1> DEFINE w == written[c]
           s == send[c]
<1>1. w \in Seq(Item) /\ s \in Seq(Item)
  BY DEF IInv, TypeOK
<1>2. /\ \A j \in 1..Len(w) : ChannelTenant[w[j].channel] = TenantOf[c]
      /\ \A j \in 1..Len(s) : ChannelTenant[s[j].channel] = TenantOf[c]
  BY DEF IInv, SafeInv, TenantInv
<1>3. i \in 1..Len(w \o s) /\ Delivered(c) = w \o s
  BY DEF Delivered
<1> HIDE DEF w, s
<1>4. \/ i \in 1..Len(w) /\ (w \o s)[i] = w[i]
      \/ i - Len(w) \in 1..Len(s) /\ (w \o s)[i] = s[i - Len(w)]
  BY <1>1, <1>3
<1> QED
  BY <1>2, <1>3, <1>4

\* A session whose handler has ended is out of the hub, for good, once the hub
\* has taken the session's commands.
THEOREM EndedStaysForgotten == Spec => []EndedIsForgotten
<1>1. IInv => EndedIsForgotten
  <2> SUFFICES ASSUME IInv, NEW c \in Clients, handler[c] = "ended",
                      \A i \in 1..Len(cmds[PodOf[c]]) : cmds[PodOf[c]][i].client # c
               PROVE  /\ c \notin clients[PodOf[c]]
                      /\ \A ch \in DOMAIN channels[PodOf[c]] : c \notin channels[PodOf[c]][ch]
    BY DEF EndedIsForgotten
  <2>1. PodOf[c] \in Pods
    BY MapsAssumption
  <2>2. ~UnregisterQueued(PodOf[c], c)
    BY DEF UnregisterQueued
  <2>3. c \notin clients[PodOf[c]]
    BY <2>2 DEF IInv, SafeInv, HandlerInv
  <2> QED
    BY <2>1, <2>3 DEF IInv, SafeInv, HubInv
<1> QED
  BY <1>1, InvariantHolds, PTL

-----------------------------------------------------------------------------
(* The order of the NOTIFYs. RelayOrder is not inductive: what a session has *)
(* been sent precedes what its pod's queue holds, which the relay has gone   *)
(* past.                                                                     *)

Relayed(m) == m.type = "broadcast" /\ ~m.fromNATS

\* The relayed broadcasts of a pod's queue, in the order of the NOTIFYs.
RelayQueueInv ==
  \A p \in Pods :
    /\ relayPos[p] <= Len(notified)
    /\ \A i \in 1..Len(cmds[p]) : Relayed(cmds[p][i]) => cmds[p][i].payload <= relayPos[p]
    /\ \A i, j \in 1..Len(cmds[p]) :
         i < j /\ Relayed(cmds[p][i]) /\ Relayed(cmds[p][j]) => cmds[p][i].payload < cmds[p][j].payload

\* What a session has been sent is older than all of it.
RelaySentInv ==
  \A c \in Clients : \A i \in 1..Len(Delivered(c)) :
    ~Delivered(c)[i].fromNATS =>
      /\ Delivered(c)[i].payload <= relayPos[PodOf[c]]
      /\ \A j \in 1..Len(cmds[PodOf[c]]) :
           Relayed(cmds[PodOf[c]][j]) => Delivered(c)[i].payload < cmds[PodOf[c]][j].payload

OrderInv == RelayQueueInv /\ RelaySentInv /\ RelayOrder

\* A queue that lost its first command or all of them, or gained one that is
\* not from the relay.
QueueMove(q, q2) ==
  \/ q2 = q
  \/ q2 = <<>>
  \/ Len(q2) = Len(q) - 1 /\ \A i \in 1..Len(q2) : q2[i] = q[i + 1]
  \/ /\ Len(q2) = Len(q) + 1
     /\ \A i \in 1..Len(q) : q2[i] = q[i]
     /\ ~Relayed(q2[Len(q) + 1])

\* Each command of the new queue that the relay sent was in the old one, at a
\* place that keeps the order.
LEMMA QueueMoveFacts ==
  ASSUME NEW q \in Seq(Cmd), NEW q2 \in Seq(Cmd), QueueMove(q, q2)
  PROVE  \E d \in {0, 1} : \A i \in 1..Len(q2) :
           Relayed(q2[i]) => i + d \in 1..Len(q) /\ q2[i] = q[i + d]
<1>1. Len(q) \in Nat /\ Len(q2) \in Nat
  OBVIOUS
<1>2. CASE q2 = q
  <2>1. \A i \in 1..Len(q2) : i + 0 \in 1..Len(q) /\ q2[i] = q[i + 0]
    BY <1>2
  <2> QED
    BY <2>1
<1>3. CASE q2 = <<>>
  <2>1. \A i \in 1..Len(q2) : FALSE
    BY <1>3
  <2> QED
    BY <2>1
<1>4. CASE Len(q2) = Len(q) - 1 /\ \A i \in 1..Len(q2) : q2[i] = q[i + 1]
  <2>1. \A i \in 1..Len(q2) : i + 1 \in 1..Len(q) /\ q2[i] = q[i + 1]
    BY <1>1, <1>4
  <2> QED
    BY <2>1
<1>5. CASE /\ Len(q2) = Len(q) + 1
           /\ \A i \in 1..Len(q) : q2[i] = q[i]
           /\ ~Relayed(q2[Len(q) + 1])
  <2>1. \A i \in 1..Len(q2) : i \in 1..Len(q) \/ i = Len(q) + 1
    BY <1>1, <1>5
  <2>2. \A i \in 1..Len(q2) : Relayed(q2[i]) => i + 0 \in 1..Len(q) /\ q2[i] = q[i + 0]
    BY <1>5, <2>1
  <2> QED
    BY <2>2
<1> QED
  BY <1>2, <1>3, <1>4, <1>5 DEF QueueMove

\* Sequences of the same payloads.
SameItems(t, t2) == Len(t2) = Len(t) /\ \A i \in 1..Len(t) : t2[i] = t[i]

\* Payloads delivered are numbers, and so are their places.
LEMMA DeliveredType ==
  ASSUME TypeOK, NEW c \in Clients
  PROVE  /\ Delivered(c) \in Seq(Item) /\ Len(Delivered(c)) \in Nat
         /\ \A i \in 1..Len(Delivered(c)) : Delivered(c)[i].payload \in Nat
<1> DEFINE d == Delivered(c)
<1>1. written[c] \in Seq(Item) /\ send[c] \in Seq(Item)
  BY DEF TypeOK
<1>2. d \in Seq(Item)
  BY <1>1 DEF Delivered
<1> HIDE DEF d
<1>3. Len(d) \in Nat /\ \A i \in 1..Len(d) : d[i] \in Item
  BY <1>2
<1>4. Len(d) \in Nat /\ \A i \in 1..Len(d) : d[i].payload \in Nat
  BY <1>3 DEF Item
<1> QED
  BY <1>2, <1>4 DEF d

\* A step that sends nothing and queues nothing from the relay.
LEMMA OrderKept ==
  ASSUME TypeOK, TypeOK', OrderInv,
         \A p \in Pods : QueueMove(cmds[p], cmds'[p]),
         \A p \in Pods : relayPos[p] <= relayPos'[p] /\ relayPos'[p] <= Len(notified'),
         \A c \in Clients : SameItems(Delivered(c), Delivered(c)')
  PROVE  OrderInv'
<1>1. \A p \in Pods : /\ cmds[p] \in Seq(Cmd) /\ cmds'[p] \in Seq(Cmd)
                      /\ relayPos[p] \in Nat /\ relayPos'[p] \in Nat
  BY DEF TypeOK
<1>2. RelayQueueInv'
  <2> SUFFICES ASSUME NEW p \in Pods
               PROVE  /\ \A i \in 1..Len(cmds'[p]) :
                           Relayed(cmds'[p][i]) => cmds'[p][i].payload <= relayPos'[p]
                      /\ \A i, j \in 1..Len(cmds'[p]) :
                           i < j /\ Relayed(cmds'[p][i]) /\ Relayed(cmds'[p][j])
                             => cmds'[p][i].payload < cmds'[p][j].payload
    BY DEF RelayQueueInv, Relayed
  <2>1. PICK d \in {0, 1} : \A i \in 1..Len(cmds'[p]) :
          Relayed(cmds'[p][i]) => i + d \in 1..Len(cmds[p]) /\ cmds'[p][i] = cmds[p][i + d]
    BY <1>1, QueueMoveFacts
  <2>2. \A i \in 1..Len(cmds[p]) :
          Relayed(cmds[p][i]) => cmds[p][i].payload \in Nat /\ cmds[p][i].payload <= relayPos[p]
    <3>1. \A i \in 1..Len(cmds[p]) : cmds[p][i] \in Cmd
      BY <1>1
    <3>2. \A i \in 1..Len(cmds[p]) : cmds[p][i].payload \in Nat
      BY <3>1 DEF Cmd
    <3> QED
      BY <3>2 DEF OrderInv, RelayQueueInv
  <2>3. ASSUME NEW i \in 1..Len(cmds'[p]), Relayed(cmds'[p][i])
        PROVE  cmds'[p][i].payload <= relayPos'[p]
    <3>1. i + d \in 1..Len(cmds[p]) /\ cmds'[p][i] = cmds[p][i + d]
      BY <2>1, <2>3
    <3>2. cmds'[p][i].payload \in Nat /\ cmds'[p][i].payload <= relayPos[p]
      BY <2>2, <2>3, <3>1
    <3>3. relayPos[p] \in Nat /\ relayPos'[p] \in Nat /\ relayPos[p] <= relayPos'[p]
      BY <1>1
    <3> QED
      BY <3>2, <3>3
  <2>4. ASSUME NEW i \in 1..Len(cmds'[p]), NEW j \in 1..Len(cmds'[p]), i < j,
               Relayed(cmds'[p][i]), Relayed(cmds'[p][j])
        PROVE  cmds'[p][i].payload < cmds'[p][j].payload
    <3>1. /\ i + d \in 1..Len(cmds[p]) /\ cmds'[p][i] = cmds[p][i + d]
          /\ j + d \in 1..Len(cmds[p]) /\ cmds'[p][j] = cmds[p][j + d]
      BY <2>1, <2>4
    <3>2. i + d < j + d
      BY <2>4
    <3> QED
      BY <2>4, <3>1, <3>2 DEF OrderInv, RelayQueueInv
  <2> QED
    BY <2>3, <2>4
<1>3. RelaySentInv'
  <2> SUFFICES ASSUME NEW c \in Clients, NEW i \in 1..Len(Delivered(c)'), ~Delivered(c)'[i].fromNATS
               PROVE  /\ Delivered(c)'[i].payload <= relayPos'[PodOf[c]]
                      /\ \A j \in 1..Len(cmds'[PodOf[c]]) :
                           Relayed(cmds'[PodOf[c]][j]) =>
                             Delivered(c)'[i].payload < cmds'[PodOf[c]][j].payload
    BY DEF RelaySentInv, Relayed
  <2> DEFINE p == PodOf[c]
  <2>1. p \in Pods
    BY MapsAssumption
  <2>2. i \in 1..Len(Delivered(c)) /\ Delivered(c)'[i] = Delivered(c)[i]
    BY DEF SameItems
  <2>3. Delivered(c)[i].payload \in Nat
    BY <2>2, DeliveredType
  <2>4. /\ Delivered(c)[i].payload <= relayPos[p]
        /\ \A j \in 1..Len(cmds[p]) :
             Relayed(cmds[p][j]) => Delivered(c)[i].payload < cmds[p][j].payload
    BY <2>2 DEF OrderInv, RelaySentInv
  <2> HIDE DEF p
  <2>5. PICK d \in {0, 1} : \A j \in 1..Len(cmds'[p]) :
          Relayed(cmds'[p][j]) => j + d \in 1..Len(cmds[p]) /\ cmds'[p][j] = cmds[p][j + d]
    BY <1>1, <2>1, QueueMoveFacts
  <2>6. \A j \in 1..Len(cmds'[p]) :
          Relayed(cmds'[p][j]) => Delivered(c)[i].payload < cmds'[p][j].payload
    BY <2>4, <2>5
  <2>7. Delivered(c)[i].payload <= relayPos'[p]
    BY <1>1, <2>1, <2>3, <2>4
  <2> QED
    BY <2>2, <2>6, <2>7 DEF p
<1>4. RelayOrder'
  <2>1. ASSUME NEW c \in Clients, NEW i \in 1..Len(Delivered(c)'), NEW j \in 1..Len(Delivered(c)'),
               i < j, ~Delivered(c)'[i].fromNATS, ~Delivered(c)'[j].fromNATS
        PROVE  Delivered(c)'[i].payload < Delivered(c)'[j].payload
    <3>1. /\ i \in 1..Len(Delivered(c)) /\ Delivered(c)'[i] = Delivered(c)[i]
          /\ j \in 1..Len(Delivered(c)) /\ Delivered(c)'[j] = Delivered(c)[j]
      BY DEF SameItems
    <3> QED
      BY <2>1, <3>1 DEF OrderInv, RelayOrder
  <2> QED
    BY <2>1 DEF RelayOrder
<1> QED
  BY <1>2, <1>3, <1>4 DEF OrderInv

LEMMA DequeueMoves ==
  ASSUME TypeOK, NEW p \in Pods, NEW t, Dequeue(p, t)
  PROVE  \A q \in Pods : QueueMove(cmds[q], cmds'[q])
BY DequeueFacts DEF QueueMove

LEMMA EnqueueMoves ==
  ASSUME TypeOK, NEW p \in Pods, NEW m \in Cmd, ~Relayed(m), Enqueue(p, m)
  PROVE  \A q \in Pods : QueueMove(cmds[q], cmds'[q])
BY EnqueueFacts DEF QueueMove

\* What a session and a NATS callback enqueue is not from the relay.
LEMMA NotRelayed ==
  /\ \A t \in CmdType \ {"broadcast"} : \A c, ch : ~Relayed(ClientCmd(t, c, ch))
  /\ \A ch, n : ~Relayed(BroadcastCmd(ch, n, TRUE))
BY DEF CmdType, Relayed, ClientCmd, BroadcastCmd

LEMMA ItemsKept ==
  ASSUME UNCHANGED <<send, written>>
  PROVE  \A c \in Clients : SameItems(Delivered(c), Delivered(c)')
BY DEF SameItems, Delivered

\* What the pump takes from the buffer it hands to the socket.
LEMMA WriteKeepsItems ==
  ASSUME TypeOK, NEW c \in Clients, WriteBegin(c)
  PROVE  \A x \in Clients : SameItems(Delivered(x), Delivered(x)')
<1>1. CASE UNCHANGED <<send, written>>
  BY <1>1, ItemsKept
<1>2. CASE /\ send[c] # <<>>
           /\ send' = [send EXCEPT ![c] = Tail(@)]
           /\ written' = [written EXCEPT ![c] = Append(@, Head(send[c]))]
  <2>1. ASSUME NEW x \in Clients, x # c PROVE SameItems(Delivered(x), Delivered(x)')
    BY <1>2, <2>1 DEF SameItems, Delivered, TypeOK
  <2>2. SameItems(Delivered(c), Delivered(c)')
    <3> DEFINE s == send[c]
               w == written[c]
    <3>1. s \in Seq(Item) /\ w \in Seq(Item) /\ s # <<>>
      BY <1>2 DEF TypeOK
    <3>2. Delivered(c)' = Append(w, Head(s)) \o Tail(s) /\ Delivered(c) = w \o s
      BY <1>2 DEF TypeOK, Delivered
    <3> HIDE DEF s, w
    <3>3. /\ Append(w, Head(s)) \in Seq(Item) /\ Tail(s) \in Seq(Item) /\ Head(s) = s[1]
          /\ Len(Append(w, Head(s))) = Len(w) + 1 /\ Len(Tail(s)) = Len(s) - 1
          /\ Len(w) \in Nat /\ Len(s) \in Nat \ {0}
      BY <3>1
    <3>4. Len(Delivered(c)') = Len(Delivered(c)) /\ Len(Delivered(c)) = Len(w) + Len(s)
      BY <3>1, <3>2, <3>3
    <3>5. ASSUME NEW i \in 1..(Len(w) + Len(s))
          PROVE  (Append(w, Head(s)) \o Tail(s))[i] = (w \o s)[i]
      <4>1. CASE i <= Len(w)
        <5>1. Append(w, Head(s))[i] = w[i]
          BY <3>1, <3>3, <4>1
        <5> QED
          BY <3>1, <3>3, <4>1, <5>1
      <4>2. CASE i = Len(w) + 1
        <5>1. Append(w, Head(s))[i] = s[1]
          BY <3>1, <3>3, <4>2
        <5> QED
          BY <3>1, <3>3, <4>2, <5>1
      <4>3. CASE i > Len(w) + 1
        <5>1. /\ i - (Len(w) + 1) \in 1..Len(Tail(s))
              /\ Tail(s)[i - (Len(w) + 1)] = s[i - Len(w)]
          BY <3>1, <3>3, <4>3
        <5> QED
          BY <3>1, <3>3, <4>3, <5>1
      <4> QED
        BY <3>3, <4>1, <4>2, <4>3
    <3> QED
      BY <3>2, <3>4, <3>5 DEF SameItems
  <2> QED
    BY <2>1, <2>2
<1> QED
  BY <1>1, <1>2 DEF WriteBegin

\* What the hub takes from its queue as a broadcast, as a payload.
Broadcasted(p) == [payload |-> cmds[p][1].payload, channel |-> cmds[p][1].channel,
                   fromNATS |-> cmds[p][1].fromNATS]

\* A broadcast comes last to the sessions of that pod that have room for it.
LEMMA BroadcastDelivers ==
  ASSUME IInv, TypeOK', NEW p \in Pods, HubBroadcast(p), NEW c \in Clients
  PROVE  \/ Delivered(c)' = Delivered(c)
         \/ /\ PodOf[c] = p /\ Len(Delivered(c)') = Len(Delivered(c)) + 1
            /\ \A i \in 1..Len(Delivered(c)) : Delivered(c)'[i] = Delivered(c)[i]
            /\ Delivered(c)'[Len(Delivered(c)) + 1] = Broadcasted(p)
<1> DEFINE m == cmds[p][1]
           item == Broadcasted(p)
           room == {x \in Members(channels[p], m.channel) : Len(send[x]) < SendCap}
<1>0. TypeOK /\ HubInv
  BY DEF IInv, SafeInv
<1>1. Dequeue(p, "broadcast")
  BY DEF HubBroadcast
<1>2. m = Head(cmds[p])
  BY <1>0, <1>1, DequeueFacts
<1>3. /\ send' = [x \in Clients |-> IF x \in room THEN Append(send[x], item) ELSE send[x]]
      /\ written' = written
  BY <1>2 DEF HubBroadcast, sessionVars, Broadcasted
<1>4. \A x \in room : x \in Clients => PodOf[x] = p
  BY <1>0 DEF HubInv, Members
<1> HIDE DEF room, item, m
<1>5. CASE c \notin room
  BY <1>3, <1>5 DEF Delivered
<1>6. CASE c \in room
  <2> DEFINE w == written[c]
             s == send[c]
  <2>1. w \in Seq(Item) /\ s \in Seq(Item)
    BY <1>0 DEF TypeOK
  <2>2. Delivered(c)' = w \o Append(s, item) /\ Delivered(c) = w \o s
    BY <1>3, <1>6 DEF Delivered
  <2>3. send'[c] = Append(s, item) /\ send'[c] \in Seq(Item)
    BY <1>3, <1>6 DEF TypeOK
  <2> DEFINE s2 == Append(s, item)
  <2>4. s2 \in Seq(Item) /\ Len(s2) = Len(s) + 1 /\ s2[Len(s) + 1] = item
        /\ \A i \in 1..Len(s) : s2[i] = s[i]
    BY <2>1, <2>3
  <2> HIDE DEF w, s, s2
  <2>5. /\ Len(w \o s2) = Len(w \o s) + 1 /\ Len(w \o s) = Len(w) + Len(s)
        /\ \A i \in 1..(Len(w) + Len(s)) : (w \o s2)[i] = (w \o s)[i]
        /\ (w \o s2)[Len(w) + Len(s) + 1] = item
    <3>1. /\ Len(w) \in Nat /\ Len(s) \in Nat /\ Len(w \o s) = Len(w) + Len(s)
          /\ Len(w \o s2) = Len(w) + Len(s2) /\ Len(s2) = Len(s) + 1
      BY <2>1, <2>4
    <3>2. ASSUME NEW i \in 1..(Len(w) + Len(s))
          PROVE  (w \o s2)[i] = (w \o s)[i]
      <4>1. CASE i <= Len(w)
        BY <2>1, <2>4, <3>1, <4>1
      <4>2. CASE i > Len(w)
        <5>1. i - Len(w) \in 1..Len(s) /\ s2[i - Len(w)] = s[i - Len(w)]
          BY <2>4, <3>1, <4>2
        <5> QED
          BY <2>1, <2>4, <3>1, <4>2, <5>1
      <4> QED
        BY <3>1, <4>1, <4>2
    <3>3. (w \o s2)[Len(w) + Len(s) + 1] = s2[Len(s) + 1]
      BY <2>1, <2>4, <3>1
    <3> QED
      BY <2>4, <3>1, <3>2, <3>3
  <2>6. Delivered(c)' = w \o s2 /\ PodOf[c] = p
    BY <1>4, <1>6, <2>2 DEF s2
  <2> QED
    BY <2>2, <2>5, <2>6 DEF item
<1> QED
  BY <1>5, <1>6 DEF item

\* A broadcast leaves the queue for the buffers of sessions of that pod.
LEMMA BroadcastOrdered ==
  ASSUME IInv, TypeOK', OrderInv, NEW p \in Pods, HubBroadcast(p)
  PROVE  OrderInv'
<1> DEFINE m == cmds[p][1]
           item == [payload |-> m.payload, channel |-> m.channel, fromNATS |-> m.fromNATS]
           room == {c \in Members(channels[p], m.channel) : Len(send[c]) < SendCap}
<1>0. TypeOK /\ HubInv /\ WellFormedQueue
  BY DEF IInv, SafeInv, QueueInv
<1>1. Dequeue(p, "broadcast")
  BY DEF HubBroadcast
<1>2. /\ m = Head(cmds[p]) /\ m.type = "broadcast" /\ m \in Cmd
      /\ Len(cmds'[p]) = Len(cmds[p]) - 1 /\ Len(cmds[p]) \in Nat \ {0}
      /\ \A i \in 1..Len(cmds'[p]) : cmds'[p][i] = cmds[p][i + 1]
      /\ \A q \in Pods : q # p => cmds'[q] = cmds[q]
  BY <1>0, <1>1, DequeueFacts
<1>3. /\ send' = [c \in Clients |-> IF c \in room THEN Append(send[c], item) ELSE send[c]]
      /\ UNCHANGED <<written, notified, relayPos>>
  BY <1>2 DEF HubBroadcast, sessionVars, relayVars
<1>4. \A c \in room : c \in Clients => PodOf[c] = p
  BY <1>0 DEF HubInv, Members
<1>5. item.payload = m.payload /\ item.fromNATS = m.fromNATS /\ m.payload \in Nat
  BY <1>2 DEF Cmd
<1> HIDE DEF room, item, m
<1>6. RelayQueueInv'
  <2>1. ASSUME NEW q \in Pods
        PROVE  /\ \A i \in 1..Len(cmds'[q]) :
                    Relayed(cmds'[q][i]) => cmds'[q][i].payload <= relayPos[q]
               /\ \A i, j \in 1..Len(cmds'[q]) :
                    i < j /\ Relayed(cmds'[q][i]) /\ Relayed(cmds'[q][j])
                      => cmds'[q][i].payload < cmds'[q][j].payload
    <3>1. CASE q # p
      BY <1>2, <3>1 DEF OrderInv, RelayQueueInv
    <3>2. CASE q = p
      <4>1. \A i \in 1..Len(cmds'[p]) : i + 1 \in 1..Len(cmds[p]) /\ cmds'[p][i] = cmds[p][i + 1]
        BY <1>2
      <4>2. \A i, j \in 1..Len(cmds'[p]) : i < j => i + 1 < j + 1
        OBVIOUS
      <4> QED
        BY <3>2, <4>1, <4>2 DEF OrderInv, RelayQueueInv
    <3> QED
      BY <3>1, <3>2
  <2> QED
    BY <1>3, <2>1 DEF RelayQueueInv, OrderInv, Relayed
<1>7. \A c \in Clients :
        \/ Delivered(c)' = Delivered(c)
        \/ /\ PodOf[c] = p /\ Len(Delivered(c)') = Len(Delivered(c)) + 1
           /\ \A i \in 1..Len(Delivered(c)) : Delivered(c)'[i] = Delivered(c)[i]
           /\ Delivered(c)'[Len(Delivered(c)) + 1] = item
  BY BroadcastDelivers DEF item, m, Broadcasted
<1>8. \A c \in Clients : \A i \in 1..Len(Delivered(c)') :
        \/ i \in 1..Len(Delivered(c)) /\ Delivered(c)'[i] = Delivered(c)[i]
        \/ PodOf[c] = p /\ i = Len(Delivered(c)) + 1 /\ Delivered(c)'[i] = item
  BY <1>0, <1>7, DeliveredType
<1>9. ~m.fromNATS =>
        /\ m.payload <= relayPos[p]
        /\ \A j \in 1..Len(cmds'[p]) : Relayed(cmds'[p][j]) => m.payload < cmds'[p][j].payload
  <2>1. 1 \in 1..Len(cmds[p]) /\ cmds[p][1] = m
    BY <1>2 DEF m
  <2>2. \A j \in 1..Len(cmds'[p]) :
          j + 1 \in 1..Len(cmds[p]) /\ 1 < j + 1 /\ cmds'[p][j] = cmds[p][j + 1]
    BY <1>2
  <2>3. ~m.fromNATS => Relayed(m)
    BY <1>2 DEF Relayed
  <2> QED
    BY <2>1, <2>2, <2>3 DEF OrderInv, RelayQueueInv
<1>10. \A q \in Pods : \A j \in 1..Len(cmds'[q]) :
         \E k \in 1..Len(cmds[q]) : cmds'[q][j] = cmds[q][k]
  <2>1. \A j \in 1..Len(cmds'[p]) : j + 1 \in 1..Len(cmds[p]) /\ cmds'[p][j] = cmds[p][j + 1]
    BY <1>2
  <2> QED
    BY <1>2, <2>1
<1>11. RelaySentInv'
  <2> SUFFICES ASSUME NEW c \in Clients, NEW i \in 1..Len(Delivered(c)'), ~Delivered(c)'[i].fromNATS
               PROVE  /\ Delivered(c)'[i].payload <= relayPos[PodOf[c]]
                      /\ \A j \in 1..Len(cmds'[PodOf[c]]) :
                           Relayed(cmds'[PodOf[c]][j]) =>
                             Delivered(c)'[i].payload < cmds'[PodOf[c]][j].payload
    BY <1>3 DEF RelaySentInv, Relayed
  <2>1. PodOf[c] \in Pods
    BY MapsAssumption
  <2>2. CASE i \in 1..Len(Delivered(c)) /\ Delivered(c)'[i] = Delivered(c)[i]
    BY <1>10, <2>1, <2>2 DEF OrderInv, RelaySentInv
  <2>3. CASE PodOf[c] = p /\ Delivered(c)'[i] = item
    BY <1>5, <1>9, <2>3
  <2> QED
    BY <1>8, <2>2, <2>3
<1>12. RelayOrder'
  <2> SUFFICES ASSUME NEW c \in Clients, NEW i \in 1..Len(Delivered(c)'), NEW j \in 1..Len(Delivered(c)'),
                      i < j, ~Delivered(c)'[i].fromNATS, ~Delivered(c)'[j].fromNATS
               PROVE  Delivered(c)'[i].payload < Delivered(c)'[j].payload
    BY DEF RelayOrder
  <2>1. i \in 1..Len(Delivered(c)) /\ Delivered(c)'[i] = Delivered(c)[i]
    BY <1>0, <1>8, DeliveredType
  <2>2. CASE j \in 1..Len(Delivered(c)) /\ Delivered(c)'[j] = Delivered(c)[j]
    BY <2>1, <2>2 DEF OrderInv, RelayOrder
  <2>3. CASE PodOf[c] = p /\ Delivered(c)'[j] = item
    <3>1. 1 \in 1..Len(cmds[p]) /\ cmds[p][1] = m /\ Relayed(m)
      BY <1>2, <1>5, <2>3 DEF m, Relayed
    <3> QED
      BY <1>5, <2>1, <2>3, <3>1 DEF OrderInv, RelaySentInv
  <2> QED
    BY <1>8, <2>2, <2>3
<1> QED
  BY <1>6, <1>11, <1>12 DEF OrderInv

\* The relay queues the next NOTIFY, newer than whatever it has queued before.
LEMMA DispatchOrdered ==
  ASSUME TypeOK, OrderInv, NEW p \in Pods, RelayDispatch(p)
  PROVE  OrderInv'
<1> DEFINE m == BroadcastCmd(notified[relayPos[p] + 1], relayPos[p] + 1, FALSE)
           n == Len(cmds[p])
<1>1. /\ relayPos[p] \in Nat /\ relayPos[p] < Len(notified) /\ notified \in Seq(Channels)
      /\ Len(notified) \in Nat
      /\ relayPos' = [relayPos EXCEPT ![p] = @ + 1]
      /\ Enqueue(p, m) /\ UNCHANGED <<send, written, notified>>
  <2>1. relayPos[p] \in Nat /\ notified \in Seq(Channels)
    BY DEF TypeOK
  <2>2. /\ relayPos[p] < Len(notified) /\ Enqueue(p, m)
        /\ relayPos' = [relayPos EXCEPT ![p] = @ + 1] /\ UNCHANGED <<send, written, notified>>
    BY DEF RelayDispatch, sessionVars
  <2>3. Len(notified) \in Nat
    BY <2>1
  <2> QED
    BY <2>1, <2>2, <2>3
<1>2. notified[relayPos[p] + 1] \in Channels
  BY <1>1
<1>3. m \in Cmd /\ m.payload = relayPos[p] + 1
  <2>1. relayPos[p] + 1 \in Nat
    BY <1>1
  <2>2. m \in Cmd
    BY <1>2, <2>1, CmdTypes
  <2>3. m.payload = relayPos[p] + 1
    BY DEF BroadcastCmd
  <2> QED
    BY <2>2, <2>3
<1> HIDE DEF m
<1>4. /\ Len(cmds'[p]) = n + 1 /\ n \in Nat /\ cmds'[p][n + 1] = m
      /\ \A i \in 1..n : cmds'[p][i] = cmds[p][i]
      /\ \A q \in Pods : q # p => cmds'[q] = cmds[q]
  BY <1>1, <1>3, EnqueueFacts
<1> HIDE DEF n
<1>5. \A i \in 1..Len(cmds'[p]) : i \in 1..n \/ i = n + 1
  BY <1>4
<1>6. \A q \in Pods : relayPos[q] \in Nat /\ relayPos[q] <= relayPos'[q]
  BY <1>1 DEF TypeOK
<1>7. relayPos'[p] = relayPos[p] + 1 /\ \A q \in Pods : q # p => relayPos'[q] = relayPos[q]
  BY <1>1 DEF TypeOK
<1>8. \A q \in Pods : \A i \in 1..Len(cmds[q]) : cmds[q][i].payload \in Nat
  <2>1. \A q \in Pods : cmds[q] \in Seq(Cmd)
    BY DEF TypeOK
  <2>2. \A q \in Pods : \A i \in 1..Len(cmds[q]) : cmds[q][i] \in Cmd
    BY <2>1
  <2> QED
    BY <2>2 DEF Cmd
<1>9. RelayQueueInv'
  <2>1. ASSUME NEW q \in Pods
        PROVE  /\ relayPos'[q] <= Len(notified)
               /\ \A i \in 1..Len(cmds'[q]) :
                    Relayed(cmds'[q][i]) => cmds'[q][i].payload <= relayPos'[q]
               /\ \A i, j \in 1..Len(cmds'[q]) :
                    i < j /\ Relayed(cmds'[q][i]) /\ Relayed(cmds'[q][j])
                      => cmds'[q][i].payload < cmds'[q][j].payload
    <3>1. CASE q # p
      BY <1>4, <1>7, <3>1 DEF OrderInv, RelayQueueInv
    <3>2. CASE q = p
      <4>1. relayPos'[p] <= Len(notified)
        BY <1>1, <1>7
      <4>2. \A i \in 1..n : Relayed(cmds[p][i]) =>
              cmds[p][i].payload \in Nat /\ cmds[p][i].payload <= relayPos[p]
        BY <1>8 DEF OrderInv, RelayQueueInv, n
      <4>3. ASSUME NEW i \in 1..Len(cmds'[p]), Relayed(cmds'[p][i])
            PROVE  cmds'[p][i].payload <= relayPos'[p]
        <5>1. CASE i \in 1..n
          BY <1>1, <1>4, <1>7, <4>2, <4>3, <5>1, SMTT(20)
        <5>2. CASE i = n + 1
          BY <1>1, <1>3, <1>4, <1>7, <5>2
        <5> QED
          BY <1>5, <5>1, <5>2
      <4>4. ASSUME NEW i \in 1..Len(cmds'[p]), NEW j \in 1..Len(cmds'[p]), i < j,
                   Relayed(cmds'[p][i]), Relayed(cmds'[p][j])
            PROVE  cmds'[p][i].payload < cmds'[p][j].payload
        <5>1. i \in 1..n
          BY <1>4, <1>5, <4>4
        <5>2. CASE j \in 1..n
          BY <1>4, <4>4, <5>1, <5>2 DEF OrderInv, RelayQueueInv, n
        <5>3. CASE j = n + 1
          BY <1>1, <1>3, <1>4, <4>2, <4>4, <5>1, <5>3, SMTT(20)
        <5> QED
          BY <1>5, <5>2, <5>3
      <4> QED
        BY <3>2, <4>1, <4>3, <4>4
    <3> QED
      BY <3>1, <3>2
  <2> QED
    BY <1>1, <2>1 DEF RelayQueueInv, Relayed
<1>10. \A c \in Clients : Delivered(c)' = Delivered(c)
  BY <1>1 DEF Delivered
<1>11. RelaySentInv'
  <2> SUFFICES ASSUME NEW c \in Clients, NEW i \in 1..Len(Delivered(c)), ~Delivered(c)[i].fromNATS
               PROVE  /\ Delivered(c)[i].payload <= relayPos'[PodOf[c]]
                      /\ \A j \in 1..Len(cmds'[PodOf[c]]) :
                           Relayed(cmds'[PodOf[c]][j]) =>
                             Delivered(c)[i].payload < cmds'[PodOf[c]][j].payload
    BY <1>10 DEF RelaySentInv, Relayed
  <2>1. PodOf[c] \in Pods /\ Delivered(c)[i].payload \in Nat
    BY MapsAssumption, DeliveredType
  <2>2. /\ Delivered(c)[i].payload <= relayPos[PodOf[c]]
        /\ \A j \in 1..Len(cmds[PodOf[c]]) :
             Relayed(cmds[PodOf[c]][j]) => Delivered(c)[i].payload < cmds[PodOf[c]][j].payload
    BY DEF OrderInv, RelaySentInv
  <2>3. Delivered(c)[i].payload <= relayPos'[PodOf[c]]
    <3>1. CASE PodOf[c] = p
      BY <1>1, <1>7, <2>1, <2>2, <3>1
    <3> QED
      BY <1>7, <2>1, <2>2, <3>1
  <2>4. ASSUME NEW j \in 1..Len(cmds'[PodOf[c]]), Relayed(cmds'[PodOf[c]][j])
        PROVE  Delivered(c)[i].payload < cmds'[PodOf[c]][j].payload
    <3>1. CASE PodOf[c] # p
      BY <1>4, <2>1, <2>2, <2>4, <3>1
    <3>2. CASE PodOf[c] = p /\ j \in 1..n
      BY <1>4, <2>2, <2>4, <3>2 DEF n
    <3>3. CASE PodOf[c] = p /\ j = n + 1
      BY <1>1, <1>3, <1>4, <2>1, <2>2, <3>3, SMTT(20)
    <3> QED
      BY <1>5, <2>4, <3>1, <3>2, <3>3
  <2> QED
    BY <2>3, <2>4
<1>12. RelayOrder'
  BY <1>10 DEF OrderInv, RelayOrder
<1> QED
  BY <1>9, <1>11, <1>12 DEF OrderInv

LEMMA CallbackMoves ==
  ASSUME TypeOK, NEW p \in Pods, (\E ch \in Channels : NatsCallback(p, ch)) \/ LateCallback(p)
  PROVE  \A q \in Pods : QueueMove(cmds[q], cmds'[q])
<1>1. PICK ch \in Channels, n \in Nat : Enqueue(p, BroadcastCmd(ch, n, TRUE))
  <2>1. ASSUME NEW ch \in Channels, NatsCallback(p, ch)
        PROVE  Head(wire[p][ch]) \in Nat /\ Enqueue(p, BroadcastCmd(ch, Head(wire[p][ch]), TRUE))
    <3>1. wire[p][ch] \in Seq(Nat) /\ wire[p][ch] # <<>>
      BY <2>1 DEF TypeOK, NatsCallback
    <3>2. Head(wire[p][ch]) \in Nat
      BY <3>1
    <3> QED
      BY <2>1, <3>2 DEF NatsCallback
  <2>2. ASSUME LateCallback(p)
        PROVE  \E ch \in Channels, n \in Nat : Enqueue(p, BroadcastCmd(ch, n, TRUE))
    <3>1. PICK m \in late[p] : Enqueue(p, BroadcastCmd(m.channel, m.payload, TRUE))
      BY <2>2 DEF LateCallback
    <3>2. m.channel \in Channels /\ m.payload \in Nat
      BY DEF TypeOK
    <3> QED
      BY <3>1, <3>2
  <2> QED
    BY <2>1, <2>2
<1>2. BroadcastCmd(ch, n, TRUE) \in Cmd /\ ~Relayed(BroadcastCmd(ch, n, TRUE))
  BY CmdTypes, NotRelayed
<1> QED
  BY <1>1, <1>2, EnqueueMoves

LEMMA PodStepOrdered ==
  ASSUME IInv, TypeOK', OrderInv, NEW p \in Pods, PodStep(p)
  PROVE  OrderInv'
<1>0. TypeOK /\ \A q \in Pods : relayPos[q] \in Nat /\ relayPos[q] <= Len(notified)
  BY DEF IInv, TypeOK, OrderInv, RelayQueueInv
<1>1. CASE HubRegister(p) \/ HubUnregister(p) \/ HubSubscribe(p) \/ HubUnsubscribe(p)
  <2>1. UNCHANGED <<send, written, notified, relayPos>> /\ \E t \in CmdType : Dequeue(p, t)
    BY <1>1 DEF HubRegister, HubUnregister, HubSubscribe, HubUnsubscribe, sessionVars, relayVars, CmdType
  <2>2. \A q \in Pods : QueueMove(cmds[q], cmds'[q])
    BY <1>0, <2>1, DequeueMoves
  <2> QED
    BY <1>0, <2>1, <2>2, ItemsKept, OrderKept
<1>2. CASE HubBroadcast(p)
  BY <1>2, BroadcastOrdered
<1>3. CASE (\E ch \in Channels : NatsCallback(p, ch)) \/ LateCallback(p)
  <2>1. UNCHANGED <<send, written, notified, relayPos>>
    BY <1>3 DEF NatsCallback, LateCallback, sessionVars, relayVars
  <2>2. \A q \in Pods : QueueMove(cmds[q], cmds'[q])
    BY <1>0, <1>3, CallbackMoves
  <2> QED
    BY <1>0, <2>1, <2>2, ItemsKept, OrderKept
<1>4. CASE RelayDispatch(p)
  BY <1>0, <1>4, DispatchOrdered
<1>5. CASE RelayReconnect(p) \/ CrashPod(p)
  <2>1. UNCHANGED <<send, written, notified>> /\ relayPos' = [relayPos EXCEPT ![p] = Len(notified)]
    BY <1>5 DEF RelayReconnect, CrashPod, sessionVars
  <2>2. \A q \in Pods : cmds'[q] = cmds[q] \/ cmds'[q] = <<>>
    BY <1>0, <1>5 DEF RelayReconnect, CrashPod, TypeOK
  <2>3. \A q \in Pods : QueueMove(cmds[q], cmds'[q])
    BY <2>2 DEF QueueMove
  <2>4. Len(notified) \in Nat
    <3>1. notified \in Seq(Channels)
      BY <1>0 DEF TypeOK
    <3> QED
      BY <3>1
  <2>5. \A q \in Pods : relayPos[q] <= relayPos'[q] /\ relayPos'[q] <= Len(notified')
    BY <1>0, <2>1, <2>4 DEF TypeOK
  <2> QED
    BY <1>0, <2>1, <2>3, <2>5, ItemsKept, OrderKept
<1> QED
  BY <1>1, <1>2, <1>3, <1>4, <1>5 DEF PodStep, HubStep

LEMMA SessionStepOrdered ==
  ASSUME IInv, TypeOK', OrderInv, NEW c \in Clients, SessionStep(c)
  PROVE  OrderInv'
<1>0. TypeOK /\ \A q \in Pods : relayPos[q] \in Nat /\ relayPos[q] <= Len(notified)
  BY DEF IInv, TypeOK, OrderInv, RelayQueueInv
<1>1. CASE PumpPanic(c)
  <2>1. PodOf[c] \in Pods /\ PodStep(PodOf[c])
    BY <1>1, MapsAssumption DEF PumpPanic, PodStep
  <2> QED
    BY <2>1, PodStepOrdered
<1>2. CASE /\ UNCHANGED <<notified, relayPos>>
           /\ \A x \in Clients : SameItems(Delivered(x), Delivered(x)')
           /\ \A q \in Pods : QueueMove(cmds[q], cmds'[q])
  BY <1>0, <1>2, OrderKept
<1>3. ASSUME NEW m \in Cmd, ~Relayed(m), Enqueue(PodOf[c], m), UNCHANGED <<send, written, notified, relayPos>>
      PROVE  OrderInv'
  <2>1. PodOf[c] \in Pods
    BY MapsAssumption
  <2>2. \A q \in Pods : QueueMove(cmds[q], cmds'[q])
    BY <1>0, <1>3, <2>1, EnqueueMoves
  <2> QED
    BY <1>2, <1>3, <2>2, ItemsKept
<1>4. CASE Connect(c) \/ Unregister(c)
  <2>1. PICK t \in {"register", "unregister"} : Enqueue(PodOf[c], ClientCmd(t, c, None))
    BY <1>4 DEF Connect, Unregister
  <2>2. ClientCmd(t, c, None) \in Cmd /\ ~Relayed(ClientCmd(t, c, None))
    BY CmdTypes, NotRelayed DEF CmdType
  <2>3. UNCHANGED <<send, written, notified, relayPos>>
    BY <1>4 DEF Connect, Unregister, relayVars
  <2> QED
    BY <1>3, <2>1, <2>2, <2>3
<1>5. ASSUME NEW ch \in Channels, NEW t \in {"subscribe", "unsubscribe"}, ReadCommand(c, t, ch)
      PROVE  OrderInv'
  <2>1. ClientCmd(t, c, ch) \in Cmd /\ ~Relayed(ClientCmd(t, c, ch))
    BY CmdTypes, NotRelayed DEF CmdType
  <2>2. Enqueue(PodOf[c], ClientCmd(t, c, ch)) /\ UNCHANGED <<send, written, notified, relayPos>>
    BY <1>5 DEF ReadCommand, relayVars
  <2> QED
    BY <1>3, <2>1, <2>2
<1>6. CASE \/ \E ch \in Channels : ReadDenied(c, ch)
           \/ DenyDone(c) \/ ReadError(c) \/ WriteEnd(c) \/ PumpStop(c) \/ WriteError(c)
  <2>1. UNCHANGED <<cmds, send, written, notified, relayPos>>
    BY <1>6 DEF ReadDenied, DenyDone, ReadError, WriteEnd, PumpStop, WriteError, relayVars
  <2>2. \A q \in Pods : QueueMove(cmds[q], cmds'[q])
    BY <2>1 DEF QueueMove
  <2> QED
    BY <1>2, <2>1, <2>2, ItemsKept
<1>7. CASE WriteBegin(c)
  <2>1. UNCHANGED <<cmds, notified, relayPos>>
    BY <1>7 DEF WriteBegin, relayVars
  <2>2. \A q \in Pods : QueueMove(cmds[q], cmds'[q])
    BY <2>1 DEF QueueMove
  <2> QED
    BY <1>0, <1>2, <1>7, <2>1, <2>2, WriteKeepsItems
<1> QED
  BY <1>1, <1>4, <1>5, <1>6, <1>7 DEF SessionStep

LEMMA OrderStart == Init => OrderInv
<1> SUFFICES ASSUME Init PROVE OrderInv
  OBVIOUS
<1>1. \A c \in Clients : Delivered(c) = <<>>
  BY DEF Init, Delivered
<1>2. \A c \in Clients : Len(Delivered(c)) = 0
  BY <1>1
<1>3. RelaySentInv /\ RelayOrder
  BY <1>2 DEF RelaySentInv, RelayOrder
<1>4. RelayQueueInv
  BY DEF Init, RelayQueueInv
<1> QED
  BY <1>3, <1>4 DEF OrderInv

LEMMA OrderStep == IInv /\ TypeOK' /\ OrderInv /\ [Next]_vars => OrderInv'
<1> SUFFICES ASSUME IInv, TypeOK', OrderInv, [Next]_vars PROVE OrderInv'
  OBVIOUS
<1>1. ASSUME UNCHANGED <<cmds, send, written, relayPos>>, Len(notified) <= Len(notified')
      PROVE  OrderInv'
  <2>1. \A q \in Pods : QueueMove(cmds[q], cmds'[q])
    BY <1>1 DEF QueueMove
  <2>2. Len(notified) \in Nat /\ Len(notified') \in Nat
    <3>1. notified \in Seq(Channels) /\ notified' \in Seq(Channels)
      BY DEF IInv, TypeOK
    <3> QED
      BY <3>1
  <2>3. \A q \in Pods : relayPos[q] <= relayPos'[q] /\ relayPos'[q] <= Len(notified')
    BY <1>1, <2>2 DEF IInv, TypeOK, OrderInv, RelayQueueInv
  <2> QED
    BY <1>1, <2>1, <2>3, ItemsKept, OrderKept DEF IInv
<1>2. ASSUME NEW ch \in Channels, Notify(ch) PROVE OrderInv'
  <2>1. UNCHANGED <<cmds, send, written, relayPos>> /\ notified' = Append(notified, ch)
    BY <1>2 DEF Notify, sessionVars
  <2>2. notified \in Seq(Channels)
    BY DEF IInv, TypeOK
  <2>3. Len(notified) <= Len(notified')
    BY <2>1, <2>2
  <2> QED
    BY <1>1, <2>1, <2>3
<1>3. CASE UNCHANGED vars
  <2>1. UNCHANGED <<cmds, send, written, relayPos, notified>> /\ notified \in Seq(Channels)
    BY <1>3 DEF vars, sessionVars, relayVars, IInv, TypeOK
  <2>2. Len(notified) <= Len(notified')
    BY <2>1
  <2> QED
    BY <1>1, <2>1, <2>2
<1> QED
  BY <1>2, <1>3, PodStepOrdered, SessionStepOrdered DEF Next

\* A session sees the NOTIFYs of its own pod's relay in the order PostgreSQL
\* issued them, none twice, whatever full buffers, reconnects of the relay and
\* crashes lose in between.
THEOREM RelayKeepsOrder == Spec => []RelayOrder
<1>1. OrderInv => RelayOrder
  BY DEF OrderInv
<1>2. IInv => TypeOK
  BY DEF IInv
<1> QED
  BY <1>1, <1>2, OrderStart, OrderStep, InvariantHolds, PTL DEF Spec

-----------------------------------------------------------------------------
(* The copies of a NOTIFY. Each pod publishes a NOTIFY at most once, and a   *)
(* session gets what is published from one subscription per channel: so the  *)
(* copies it got and those still under way to it are no more than the pods   *)
(* that have published.                                                      *)

\* How many elements of s are in V.
Places(s, V) == {i \in 1..Len(s) : s[i] \in V}
Count(s, V)  == Cardinality(Places(s, V))

\* It is a number.
LEMMA CountType ==
  ASSUME NEW X, NEW s \in Seq(X), NEW V
  PROVE  IsFiniteSet(Places(s, V)) /\ Count(s, V) \in Nat
<1>1. IsFiniteSet(1..Len(s))
  BY FS_Interval
<1>2. IsFiniteSet(Places(s, V))
  BY <1>1, FS_Subset DEF Places
<1> QED
  BY <1>2, FS_CardinalityType DEF Count

LEMMA CountSame ==
  ASSUME NEW s, NEW t, SameItems(s, t), NEW V
  PROVE  Count(t, V) = Count(s, V)
<1>1. Places(t, V) = Places(s, V)
  BY DEF SameItems, Places
<1> QED
  BY <1>1 DEF Count

LEMMA CountEmpty ==
  ASSUME NEW V
  PROVE  Count(<<>>, V) = 0
<1>1. Places(<<>>, V) = {}
  BY DEF Places
<1> QED
  BY <1>1, FS_EmptySet DEF Count

\* An element put last or taken from the head counts once, if it is in V.
LEMMA CountAppend ==
  ASSUME NEW X, NEW s \in Seq(X), NEW x \in X, NEW V
  PROVE  Count(Append(s, x), V) = IF x \in V THEN Count(s, V) + 1 ELSE Count(s, V)
<1> DEFINE t == Append(s, x)
           n == Len(s)
<1>1. n \in Nat /\ Len(t) = n + 1 /\ t[n + 1] = x /\ \A i \in 1..n : t[i] = s[i]
  OBVIOUS
<1> HIDE DEF t
<1>2. 1..Len(t) = (1..n) \cup {n + 1} /\ n + 1 \notin 1..n
  BY <1>1
<1>3. CASE x \in V
  <2>1. Places(t, V) = Places(s, V) \cup {n + 1} /\ n + 1 \notin Places(s, V)
    BY <1>1, <1>2, <1>3 DEF Places
  <2> QED
    BY <1>3, <2>1, CountType, FS_AddElement DEF Count, t
<1>4. CASE x \notin V
  <2>1. Places(t, V) = Places(s, V)
    BY <1>1, <1>2, <1>4 DEF Places
  <2> QED
    BY <1>4, <2>1 DEF Count, t
<1> QED
  BY <1>3, <1>4

LEMMA CountTail ==
  ASSUME NEW X, NEW s \in Seq(X), s # <<>>, NEW V
  PROVE  Count(s, V) = IF Head(s) \in V THEN Count(Tail(s), V) + 1 ELSE Count(Tail(s), V)
<1> DEFINE t == Tail(s)
           n == Len(s)
<1>1. /\ t \in Seq(X) /\ n \in Nat \ {0} /\ Len(t) = n - 1 /\ Head(s) = s[1]
      /\ \A i \in 1..(n - 1) : t[i] = s[i + 1]
  OBVIOUS
<1> HIDE DEF t
<1> DEFINE A == Places(t, V)
           B == Places(s, V) \ {1}
           f == [i \in A |-> i + 1]
<1>2. A = {i \in 1..(n - 1) : s[i + 1] \in V}
  BY <1>1 DEF Places
<1>3. B = {i \in 2..n : s[i] \in V}
  BY <1>1 DEF Places
<1> HIDE DEF A, B
<1>4. f \in [A -> B]
  BY <1>1, <1>2, <1>3
<1>5. \A i, j \in A : f[i] = f[j] => i = j
  BY <1>2
<1>6. \A j \in B : j - 1 \in A /\ f[j - 1] = j
  BY <1>1, <1>2, <1>3
<1>7. f \in Bijection(A, B)
  BY <1>4, <1>5, <1>6 DEF Bijection, Injection, Surjection, IsInjective
<1>8. Cardinality(A) = Cardinality(B)
  <2>1. ExistsBijection(A, B)
    BY <1>7 DEF ExistsBijection
  <2>2. IsFiniteSet(A)
    BY <1>1, CountType DEF A
  <2> QED
    BY <2>1, <2>2, FS_Bijection
<1>9. Cardinality(B) = IF 1 \in Places(s, V) THEN Cardinality(Places(s, V)) - 1
                       ELSE Cardinality(Places(s, V))
  BY CountType, FS_RemoveElement DEF B
<1>10. 1 \in Places(s, V) <=> Head(s) \in V
  BY <1>1 DEF Places
<1> QED
  BY <1>8, <1>9, <1>10, CountType DEF Count, A, t

\* The commands and the payloads that are copies of NOTIFY n on channel ch.
NatsCmds(n, ch) ==
  {m \in Cmd : m.type = "broadcast" /\ m.fromNATS /\ m.channel = ch /\ m.payload = n}
NatsItem(n, ch) == {[payload |-> n, channel |-> ch, fromNATS |-> TRUE]}

\* Copies on their way through pod p: not handed over, in a late callback, queued.
OnWire(p, n, ch)  == Count(wire[p][ch], {n})
InLate(p, n, ch)  == IF [channel |-> ch, payload |-> n] \in late[p] THEN 1 ELSE 0
Queued(p, n, ch)  == Count(cmds[p], NatsCmds(n, ch))
Pending(p, n, ch) == OnWire(p, n, ch) + InLate(p, n, ch) + Queued(p, n, ch)
Got(c, n, ch)     == Count(Delivered(c), NatsItem(n, ch))

\* The pods whose relay has gone past n and whose hub has nothing of it to send.
Published(n) ==
  {p \in Pods : n <= relayPos[p] /\ \A i \in 1..Len(cmds[p]) :
                                      Relayed(cmds[p][i]) => cmds[p][i].payload # n}

CopyInv ==
  \A c \in Clients, n \in Nat, ch \in Channels :
    Got(c, n, ch) + Pending(PodOf[c], n, ch) <= Cardinality(Published(n))

\* All of these are numbers.
CopyTypeOK ==
  /\ \A c \in Clients, n \in Nat, ch \in Channels : Got(c, n, ch) \in Nat
  /\ \A p \in Pods, n \in Nat, ch \in Channels :
       /\ OnWire(p, n, ch) \in Nat /\ InLate(p, n, ch) \in {0, 1} /\ Queued(p, n, ch) \in Nat
       /\ Pending(p, n, ch) \in Nat
  /\ \A n \in Nat : /\ IsFiniteSet(Published(n)) /\ Cardinality(Published(n)) \in Nat
                    /\ Cardinality(Published(n)) <= Cardinality(Pods)

LEMMA CopyTypes == TypeOK => CopyTypeOK
<1> SUFFICES ASSUME TypeOK PROVE CopyTypeOK
  OBVIOUS
<1>1. \A c \in Clients, n \in Nat, ch \in Channels : Got(c, n, ch) \in Nat
  BY DeliveredType, CountType DEF Got
<1>2. \A p \in Pods, n \in Nat, ch \in Channels : Queued(p, n, ch) \in Nat
  <2>1. \A p \in Pods : cmds[p] \in Seq(Cmd)
    BY DEF TypeOK
  <2> QED
    BY <2>1, CountType DEF Queued
<1>3. \A p \in Pods, n \in Nat, ch \in Channels : OnWire(p, n, ch) \in Nat
  <2>1. \A p \in Pods, ch \in Channels : wire[p][ch] \in Seq(Nat)
    BY DEF TypeOK
  <2> QED
    BY <2>1, CountType DEF OnWire
<1>4. \A n \in Nat : IsFiniteSet(Published(n)) /\ Cardinality(Published(n)) \in Nat
             /\ Cardinality(Published(n)) <= Cardinality(Pods)
  <2> SUFFICES ASSUME NEW n \in Nat
               PROVE  IsFiniteSet(Published(n)) /\ Cardinality(Published(n)) \in Nat
                      /\ Cardinality(Published(n)) <= Cardinality(Pods)
    OBVIOUS
  <2>1. Published(n) \in SUBSET Pods
    BY DEF Published
  <2> QED
    BY <2>1, PodsAssumption, FS_Subset, FS_CardinalityType
<1>5. \A p \in Pods, n \in Nat, ch \in Channels :
        InLate(p, n, ch) \in {0, 1} /\ Pending(p, n, ch) \in Nat
  BY <1>2, <1>3 DEF InLate, Pending
<1> QED
  BY <1>1, <1>2, <1>3, <1>4, <1>5 DEF CopyTypeOK

LEMMA CopyTypesNext == TypeOK' => CopyTypeOK'
BY CopyTypes, PTL

\* A queue that loses its head, or gains a command that is no copy.
LEMMA QueuedKept ==
  ASSUME TypeOK, TypeOK', NEW q \in Pods, NEW n, NEW ch,
         \/ cmds'[q] = cmds[q]
         \/ cmds'[q] = <<>>
         \/ cmds[q] # <<>> /\ cmds'[q] = Tail(cmds[q])
         \/ \E m \in Cmd \ NatsCmds(n, ch) : cmds'[q] = Append(cmds[q], m)
  PROVE  Queued(q, n, ch)' <= Queued(q, n, ch)
<1> DEFINE V == NatsCmds(n, ch)
<1>1. cmds[q] \in Seq(Cmd) /\ cmds'[q] \in Seq(Cmd)
  BY DEF TypeOK
<1>2. Queued(q, n, ch) = Count(cmds[q], V) /\ Queued(q, n, ch)' = Count(cmds'[q], V)
  BY DEF Queued, NatsCmds, Cmd, CmdType
<1> HIDE DEF V
<1>3. Count(cmds[q], V) \in Nat /\ Count(cmds'[q], V) \in Nat
  BY <1>1, CountType
<1>4. CASE cmds'[q] = cmds[q]
  BY <1>2, <1>3, <1>4
<1>5. CASE cmds'[q] = <<>>
  BY <1>2, <1>3, <1>5, CountEmpty
<1>6. CASE cmds[q] # <<>> /\ cmds'[q] = Tail(cmds[q])
  BY <1>1, <1>2, <1>3, <1>6, CountTail
<1>7. ASSUME NEW m \in Cmd \ V, cmds'[q] = Append(cmds[q], m)
      PROVE  Queued(q, n, ch)' <= Queued(q, n, ch)
  BY <1>1, <1>2, <1>3, <1>7, CountAppend
<1> QED
  BY <1>4, <1>5, <1>6, <1>7 DEF V

\* No step but a broadcast of the relay's takes a pod's copies from nowhere.
LEMMA CopiesKept ==
  ASSUME TypeOK, TypeOK', CopyInv,
         \A n \in Nat : Published(n) \subseteq Published(n)',
         \A c \in Clients, n \in Nat, ch \in Channels :
           Got(c, n, ch)' + Pending(PodOf[c], n, ch)' <= Got(c, n, ch) + Pending(PodOf[c], n, ch)
  PROVE  CopyInv'
<1> SUFFICES ASSUME NEW c \in Clients, NEW n \in Nat, NEW ch \in Channels
             PROVE  Got(c, n, ch)' + Pending(PodOf[c], n, ch)' <= Cardinality(Published(n))'
  BY DEF CopyInv
<1>1. Got(c, n, ch) + Pending(PodOf[c], n, ch) <= Cardinality(Published(n))
  BY DEF CopyInv
<1>2. PodOf[c] \in Pods
  BY MapsAssumption
<1>3. /\ Got(c, n, ch) \in Nat /\ Pending(PodOf[c], n, ch) \in Nat
      /\ Got(c, n, ch)' \in Nat /\ Pending(PodOf[c], n, ch)' \in Nat
  BY <1>2, CopyTypes, CopyTypesNext DEF CopyTypeOK
<1>4. /\ Cardinality(Published(n)) \in Nat /\ Cardinality(Published(n)') \in Nat
      /\ Cardinality(Published(n)) <= Cardinality(Published(n)')
  <2>1. IsFiniteSet(Published(n)') /\ Published(n) \in SUBSET (Published(n)')
    BY CopyTypesNext DEF CopyTypeOK
  <2> QED
    BY <2>1, FS_Subset, FS_CardinalityType
<1>5. Got(c, n, ch)' + Pending(PodOf[c], n, ch)' <= Got(c, n, ch) + Pending(PodOf[c], n, ch)
  OBVIOUS
<1> QED
  BY <1>1, <1>3, <1>4, <1>5

LEMMA PublishedKept ==
  ASSUME TypeOK, TypeOK', \A q \in Pods : QueueMove(cmds[q], cmds'[q]),
         \A q \in Pods : relayPos[q] <= relayPos'[q], NEW n \in Nat
  PROVE  Published(n) \subseteq Published(n)'
<1> SUFFICES ASSUME NEW q \in Published(n)
             PROVE  /\ q \in Pods /\ n <= relayPos'[q]
                    /\ \A i \in 1..Len(cmds'[q]) : Relayed(cmds'[q][i]) => cmds'[q][i].payload # n
  BY DEF Published, Relayed
<1>1. /\ q \in Pods /\ n <= relayPos[q]
      /\ \A i \in 1..Len(cmds[q]) : Relayed(cmds[q][i]) => cmds[q][i].payload # n
  BY DEF Published
<1>2. /\ cmds[q] \in Seq(Cmd) /\ cmds'[q] \in Seq(Cmd)
      /\ relayPos[q] \in Nat /\ relayPos'[q] \in Nat
  BY <1>1 DEF TypeOK
<1>3. PICK d \in {0, 1} : \A i \in 1..Len(cmds'[q]) :
        Relayed(cmds'[q][i]) => i + d \in 1..Len(cmds[q]) /\ cmds'[q][i] = cmds[q][i + d]
  BY <1>1, <1>2, QueueMoveFacts
<1>4. n <= relayPos'[q]
  BY <1>1, <1>2
<1> QED
  BY <1>1, <1>3, <1>4

\* An unsubscribed callback that still runs has its message from the wire.
LEMMA TeardownCopies ==
  ASSUME TypeOK, NEW p \in Pods, NEW gone \in SUBSET Channels, TeardownNATSSubs(p, gone),
         NEW q \in Pods, NEW n \in Nat, NEW ch \in Channels
  PROVE  OnWire(q, n, ch)' + InLate(q, n, ch)' <= OnWire(q, n, ch) + InLate(q, n, ch)
<1>1. wire[q][ch] \in Seq(Nat) /\ OnWire(q, n, ch) \in Nat /\ InLate(q, n, ch) \in {0, 1}
  BY CopyTypes DEF TypeOK, CopyTypeOK
<1>2. OnWire(q, n, ch)' = Count(wire'[q][ch], {n})
  BY DEF OnWire
<1>3. CASE q # p \/ ch \notin gone
  <2>1. wire'[q][ch] = wire[q][ch]
    BY <1>3 DEF TeardownNATSSubs, TypeOK
  <2>2. [channel |-> ch, payload |-> n] \in late'[q] <=> [channel |-> ch, payload |-> n] \in late[q]
    BY <1>3 DEF TeardownNATSSubs, TypeOK
  <2>3. InLate(q, n, ch)' = InLate(q, n, ch) /\ OnWire(q, n, ch)' = OnWire(q, n, ch)
    BY <1>2, <2>1, <2>2 DEF InLate, OnWire
  <2> QED
    BY <1>1, <2>3
<1>4. CASE q = p /\ ch \in gone
  <2>1. wire'[q][ch] = <<>>
    BY <1>4 DEF TeardownNATSSubs, TypeOK
  <2>2. OnWire(q, n, ch)' = 0
    BY <1>2, <2>1, CountEmpty
  <2>3. CASE InLate(q, n, ch) = 1
    BY <1>1, <2>2, <2>3 DEF InLate
  <2>4. CASE InLate(q, n, ch) = 0 /\ InLate(q, n, ch)' = 1
    <3>1. [channel |-> ch, payload |-> n] \in late'[p] \ late[p]
      BY <1>4, <2>4 DEF InLate
    <3>2. PICK running \in SUBSET {x \in gone : wire[p][x] # <<>>} :
            late' = [late EXCEPT ![p] = @ \cup
                       {[channel |-> x, payload |-> Head(wire[p][x])] : x \in running}]
      BY DEF TeardownNATSSubs
    <3>3. PICK x \in running : [channel |-> ch, payload |-> n] = [channel |-> x, payload |-> Head(wire[p][x])]
      BY <3>1, <3>2 DEF TypeOK
    <3>4. wire[p][ch] # <<>> /\ Head(wire[p][ch]) = n
      BY <3>3
    <3>5. OnWire(q, n, ch) = Count(Tail(wire[q][ch]), {n}) + 1
      BY <1>1, <1>4, <3>4, CountTail DEF OnWire
    <3>6. Tail(wire[q][ch]) \in Seq(Nat)
      BY <1>1, <1>4, <3>4
    <3>7. Count(Tail(wire[q][ch]), {n}) \in Nat
      BY <3>6, CountType
    <3> QED
      BY <2>2, <2>4, <3>5, <3>7
  <2>5. InLate(q, n, ch) \in {0, 1} /\ InLate(q, n, ch)' \in {0, 1}
    BY DEF InLate
  <2> QED
    BY <1>1, <2>2, <2>3, <2>4, <2>5
<1> QED
  BY <1>3, <1>4

\* A NOTIFY published once more, to each subscription at most once.
LEMMA PublishCopies ==
  ASSUME TypeOK, NEW x \in Channels, NEW k \in Nat, PublishNATS(x, k),
         NEW q \in Pods, NEW n \in Nat, NEW ch \in Channels
  PROVE  /\ n # k => OnWire(q, n, ch)' = OnWire(q, n, ch)
         /\ OnWire(q, n, ch)' <= OnWire(q, n, ch) + 1
<1>1. wire'[q][ch] = wire[q][ch] \/ wire'[q][ch] = Append(wire[q][ch], k)
  BY DEF PublishNATS
<1>2. wire[q][ch] \in Seq(Nat) /\ OnWire(q, n, ch) \in Nat
  BY CopyTypes DEF TypeOK, CopyTypeOK
<1>3. OnWire(q, n, ch)' = Count(wire'[q][ch], {n}) /\ OnWire(q, n, ch) = Count(wire[q][ch], {n})
  BY DEF OnWire
<1>4. CASE wire'[q][ch] = wire[q][ch]
  BY <1>2, <1>3, <1>4
<1>5. CASE wire'[q][ch] = Append(wire[q][ch], k)
  BY <1>2, <1>3, <1>5, CountAppend
<1> QED
  BY <1>1, <1>4, <1>5

\* What a broadcast adds to what a session got.
LEMMA BroadcastGot ==
  ASSUME IInv, TypeOK', NEW p \in Pods, HubBroadcast(p),
         NEW c \in Clients, NEW n \in Nat, NEW ch \in Channels
  PROVE  \/ Got(c, n, ch)' = Got(c, n, ch)
         \/ /\ PodOf[c] = p /\ Broadcasted(p) \in NatsItem(n, ch)
            /\ Got(c, n, ch)' = Got(c, n, ch) + 1
<1> DEFINE d == Delivered(c)
           d2 == Delivered(c)'
           item == Broadcasted(p)
           V == NatsItem(n, ch)
<1>1. TypeOK /\ d \in Seq(Item)
  BY DeliveredType DEF IInv
<1>2. Got(c, n, ch) = Count(d, V) /\ Got(c, n, ch)' = Count(d2, V)
  BY DEF Got, NatsItem
<1>3. CASE d2 = d
  BY <1>2, <1>3
<1>4. CASE /\ PodOf[c] = p /\ Len(d2) = Len(d) + 1
           /\ \A i \in 1..Len(d) : d2[i] = d[i]
           /\ d2[Len(d) + 1] = item
  <2>1. item \in Item
    <3>1. d2 \in Seq(Item)
      <4>1. written'[c] \in Seq(Item) /\ send'[c] \in Seq(Item)
        BY DEF TypeOK
      <4> QED
        BY <4>1 DEF Delivered
    <3> HIDE DEF d2, d, item
    <3>2. Len(d) \in Nat /\ Len(d) + 1 \in 1..Len(d2)
      BY <1>1, <1>4
    <3> QED
      BY <1>4, <3>1, <3>2
  <2> HIDE DEF d, d2, item, V
  <2>2. SameItems(Append(d, item), d2)
    <3>1. /\ Len(d) \in Nat /\ Len(Append(d, item)) = Len(d) + 1 /\ Append(d, item)[Len(d) + 1] = item
          /\ \A i \in 1..Len(d) : Append(d, item)[i] = d[i]
      BY <1>1, <2>1
    <3>2. \A i \in 1..(Len(d) + 1) : i \in 1..Len(d) \/ i = Len(d) + 1
      BY <3>1
    <3> QED
      BY <1>4, <3>1, <3>2 DEF SameItems
  <2>3. Count(d2, V) = Count(Append(d, item), V)
    BY <2>2, CountSame
  <2>4. Count(d2, V) = IF item \in V THEN Count(d, V) + 1 ELSE Count(d, V)
    BY <1>1, <2>1, <2>3, CountAppend
  <2> QED
    BY <1>2, <1>4, <2>4 DEF item, V
<1> QED
  BY <1>3, <1>4, BroadcastDelivers

LEMMA BroadcastCopies ==
  ASSUME IInv, TypeOK', OrderInv, CopyInv, NEW p \in Pods, HubBroadcast(p)
  PROVE  CopyInv'
<1> DEFINE m == cmds[p][1]
<1>0. TypeOK /\ WellFormedQueue /\ CopyTypeOK /\ CopyTypeOK'
  BY CopyTypes, CopyTypesNext DEF IInv, SafeInv, QueueInv
<1>1. Dequeue(p, "broadcast")
  BY DEF HubBroadcast
<1>2. /\ m = Head(cmds[p]) /\ m.type = "broadcast" /\ m \in Cmd /\ m.channel \in Channels
      /\ m.payload \in Nat /\ m.fromNATS \in BOOLEAN
  BY <1>0, <1>1, HeadFacts DEF Cmd
<1> HIDE DEF m
<1> PICK x \in Channels, k \in Nat : x = m.channel /\ k = m.payload
  BY <1>2
<1> USE DEF m
<1>3. cmds[p] # <<>> /\ cmds'[p] = Tail(cmds[p]) /\ \A q \in Pods : q # p => cmds'[q] = cmds[q]
  BY <1>0, <1>1 DEF Dequeue, TypeOK
<1>4. /\ late' = late /\ relayPos' = relayPos
      /\ IF HasNats /\ ~m.fromNATS THEN PublishNATS(x, k) ELSE wire' = wire
  BY <1>2 DEF HubBroadcast, relayVars, Publishable
<1>5. \A q \in Pods, n \in Nat, ch \in Channels :
        Queued(q, n, ch)' <= Queued(q, n, ch) /\ InLate(q, n, ch)' = InLate(q, n, ch)
  <2>1. \A q \in Pods, n \in Nat, ch \in Channels : Queued(q, n, ch)' <= Queued(q, n, ch)
    BY <1>0, <1>3, QueuedKept
  <2> QED
    BY <1>4, <2>1 DEF InLate
<1>6. \A n \in Nat : Published(n) \subseteq Published(n)'
  <2>1. \A q \in Pods : relayPos[q] <= relayPos'[q]
    BY <1>0, <1>4 DEF TypeOK
  <2>2. \A q \in Pods : QueueMove(cmds[q], cmds'[q])
    BY <1>0, <1>1, DequeueMoves
  <2> QED
    BY <1>0, <2>1, <2>2, PublishedKept
<1>7. \A c \in Clients : PodOf[c] \in Pods
  BY MapsAssumption
<1>8. \A q \in Pods, n \in Nat, ch \in Channels :
        /\ OnWire(q, n, ch) \in Nat /\ InLate(q, n, ch) \in Nat /\ Queued(q, n, ch) \in Nat
        /\ Pending(q, n, ch) = OnWire(q, n, ch) + InLate(q, n, ch) + Queued(q, n, ch)
  <2>1. \A q \in Pods, n \in Nat, ch \in Channels :
          OnWire(q, n, ch) \in Nat /\ Queued(q, n, ch) \in Nat
    BY <1>0 DEF CopyTypeOK
  <2> QED
    BY <2>1 DEF InLate, Pending
<1>9. \A q \in Pods, n \in Nat, ch \in Channels :
        /\ OnWire(q, n, ch)' \in Nat /\ Queued(q, n, ch)' \in Nat
        /\ Pending(q, n, ch)' = OnWire(q, n, ch)' + InLate(q, n, ch) + Queued(q, n, ch)'
  BY <1>0, <1>5 DEF CopyTypeOK, Pending
<1> HIDE DEF m
<1>10. CASE m.fromNATS
  <2>1. \A q \in Pods, n \in Nat, ch \in Channels : OnWire(q, n, ch)' = OnWire(q, n, ch)
    BY <1>4, <1>10 DEF OnWire
  <2>2. ASSUME NEW c \in Clients, NEW n \in Nat, NEW ch \in Channels
        PROVE  Got(c, n, ch)' + Pending(PodOf[c], n, ch)' <= Got(c, n, ch) + Pending(PodOf[c], n, ch)
    <3> DEFINE q == PodOf[c]
    <3>0. Got(c, n, ch) \in Nat
      BY <1>0 DEF CopyTypeOK
    <3>1. /\ q \in Pods /\ Got(c, n, ch) \in Nat /\ OnWire(q, n, ch) \in Nat
          /\ InLate(q, n, ch) \in Nat /\ Queued(q, n, ch) \in Nat /\ Queued(q, n, ch)' \in Nat
      BY <1>7, <1>8, <1>9, <3>0
    <3>2. /\ Pending(q, n, ch) = OnWire(q, n, ch) + InLate(q, n, ch) + Queued(q, n, ch)
          /\ Pending(q, n, ch)' = OnWire(q, n, ch) + InLate(q, n, ch) + Queued(q, n, ch)'
      BY <2>1, <3>1, <1>8, <1>9
    <3>3. CASE Got(c, n, ch)' = Got(c, n, ch)
      BY <1>5, <3>1, <3>2, <3>3
    <3>4. CASE /\ q = p /\ Broadcasted(p) \in NatsItem(n, ch)
               /\ Got(c, n, ch)' = Got(c, n, ch) + 1
      <4>1. m \in NatsCmds(n, ch)
        BY <1>2, <1>10, <3>4 DEF Broadcasted, NatsItem, NatsCmds, m
      <4>2. cmds[p] \in Seq(Cmd) /\ Tail(cmds[p]) \in Seq(Cmd)
        BY <1>0, <1>3 DEF TypeOK
      <4>3. Count(cmds[p], NatsCmds(n, ch)) = Count(Tail(cmds[p]), NatsCmds(n, ch)) + 1
        BY <1>2, <1>3, <4>1, <4>2, CountTail
      <4>4. Queued(p, n, ch) = Queued(p, n, ch)' + 1
        BY <1>3, <4>3 DEF Queued, NatsCmds, Cmd, CmdType
      <4> QED
        BY <3>1, <3>2, <3>4, <4>4
    <3> QED
      BY <3>3, <3>4, BroadcastGot
  <2> QED
    BY <1>0, <1>6, <2>2, CopiesKept
<1>11. CASE ~m.fromNATS
  <2>1. \A c \in Clients, n \in Nat, ch \in Channels : Got(c, n, ch)' = Got(c, n, ch)
    <3>1. \A n, ch : Broadcasted(p) \notin NatsItem(n, ch)
      BY <1>11 DEF Broadcasted, NatsItem, m
    <3> QED
      BY <3>1, BroadcastGot
  <2>2. p \in Published(k)' /\ p \notin Published(k)
    <3>1. 1 \in 1..Len(cmds[p]) /\ cmds[p][1] = m /\ Relayed(m)
      <4>1. cmds[p] \in Seq(Cmd) /\ cmds[p] # <<>>
        BY <1>0, <1>3 DEF TypeOK
      <4> QED
        BY <1>2, <1>11, <4>1 DEF m, Relayed
    <3>2. k <= relayPos[p]
      BY <3>1 DEF OrderInv, RelayQueueInv
    <3>3. \A i \in 1..Len(cmds'[p]) : i + 1 \in 1..Len(cmds[p]) /\ 1 < i + 1 /\ cmds'[p][i] = cmds[p][i + 1]
      BY <1>0, <1>1, DequeueFacts
    <3>4. \A i \in 1..Len(cmds'[p]) :
            Relayed(cmds'[p][i]) => cmds'[p][i].payload \in Nat /\ k < cmds'[p][i].payload
      <4>1. \A i \in 1..Len(cmds[p]) : cmds[p][i] \in Cmd
        BY <1>0 DEF TypeOK
      <4>2. \A i \in 1..Len(cmds[p]) : cmds[p][i].payload \in Nat
        BY <4>1 DEF Cmd
      <4> QED
        BY <3>1, <3>3, <4>2 DEF OrderInv, RelayQueueInv
    <3>5. \A i \in 1..Len(cmds'[p]) : Relayed(cmds'[p][i]) => cmds'[p][i].payload # k
      BY <1>2, <3>4
    <3>6. p \in Published(k)'
      BY <1>4, <3>2, <3>5 DEF Published, Relayed
    <3>7. p \notin Published(k)
      BY <3>1 DEF Published
    <3> QED
      BY <3>6, <3>7
  <2>3. Cardinality(Published(k)) + 1 <= Cardinality(Published(k)')
    <3> DEFINE A == Published(k)
               B == Published(k)'
    <3>1. IsFiniteSet(A) /\ IsFiniteSet(B) /\ A \subseteq B /\ p \in B /\ p \notin A
      BY <1>0, <1>2, <1>6, <2>2 DEF CopyTypeOK
    <3> HIDE DEF A, B
    <3>2. Cardinality(A \cup {p}) = Cardinality(A) + 1 /\ A \cup {p} \in SUBSET B
      BY <3>1, FS_AddElement
    <3> QED
      BY <3>1, <3>2, FS_Subset DEF A, B
  <2>4. \A n \in Nat : Cardinality(Published(n)) <= Cardinality(Published(n)')
    <3>1. \A n \in Nat : IsFiniteSet(Published(n)') /\ Published(n) \in SUBSET (Published(n)')
      BY <1>0, <1>6 DEF CopyTypeOK
    <3> QED
      BY <3>1, FS_Subset
  <2>5. \A q \in Pods, n \in Nat, ch \in Channels :
          /\ n # k => OnWire(q, n, ch)' = OnWire(q, n, ch)
          /\ OnWire(q, n, ch)' <= OnWire(q, n, ch) + 1
    <3>1. CASE PublishNATS(x, k)
      BY <1>0, <3>1, PublishCopies
    <3>2. CASE wire' = wire
      <4>1. \A q \in Pods, n \in Nat, ch \in Channels : OnWire(q, n, ch)' = OnWire(q, n, ch)
        BY <3>2 DEF OnWire
      <4> QED
        BY <1>8, <4>1
    <3> QED
      BY <1>4, <3>1, <3>2
  <2> SUFFICES ASSUME NEW c \in Clients, NEW n \in Nat, NEW ch \in Channels
               PROVE  Got(c, n, ch)' + Pending(PodOf[c], n, ch)' <= Cardinality(Published(n)')
    BY DEF CopyInv
  <2> DEFINE q == PodOf[c]
  <2>6. Got(c, n, ch) + Pending(q, n, ch) <= Cardinality(Published(n))
    BY DEF CopyInv
  <2>7. /\ q \in Pods /\ Got(c, n, ch) \in Nat /\ OnWire(q, n, ch) \in Nat /\ OnWire(q, n, ch)' \in Nat
        /\ InLate(q, n, ch) \in Nat /\ Queued(q, n, ch) \in Nat /\ Queued(q, n, ch)' \in Nat
        /\ Cardinality(Published(n)) \in Nat /\ Cardinality(Published(n)') \in Nat
    <3>1. Got(c, n, ch) \in Nat /\ Cardinality(Published(n)) \in Nat
      BY <1>0 DEF CopyTypeOK
    <3>2. Cardinality(Published(n)') \in Nat
      BY <1>0 DEF CopyTypeOK
    <3> QED
      BY <1>7, <1>8, <1>9, <3>1, <3>2
  <2>8. /\ Pending(q, n, ch) = OnWire(q, n, ch) + InLate(q, n, ch) + Queued(q, n, ch)
        /\ Pending(q, n, ch)' = OnWire(q, n, ch)' + InLate(q, n, ch) + Queued(q, n, ch)'
        /\ Queued(q, n, ch)' <= Queued(q, n, ch)
    BY <1>5, <1>8, <1>9, <2>7
  <2>9. CASE n = k
    BY <2>1, <2>3, <2>5, <2>6, <2>7, <2>8, <2>9
  <2>10. CASE n # k
    BY <2>1, <2>4, <2>5, <2>6, <2>7, <2>8, <2>10
  <2> QED
    BY <2>9, <2>10
<1> QED
  BY <1>2, <1>10, <1>11

\* A copy goes from the wire, or from a late callback, to the queue.
LEMMA CallbackCopies ==
  ASSUME TypeOK, TypeOK', NEW p \in Pods, (\E ch \in Channels : NatsCallback(p, ch)) \/ LateCallback(p),
         NEW q \in Pods, NEW n \in Nat, NEW ch \in Channels
  PROVE  Pending(q, n, ch)' <= Pending(q, n, ch)
<1> DEFINE V == NatsCmds(n, ch)
<1>0. CopyTypeOK /\ CopyTypeOK'
  BY CopyTypes, CopyTypesNext
<1>1. /\ OnWire(q, n, ch) \in Nat /\ OnWire(q, n, ch)' \in Nat
      /\ Queued(q, n, ch) \in Nat /\ Queued(q, n, ch)' \in Nat
  BY <1>0 DEF CopyTypeOK
<1>2. InLate(q, n, ch) \in {0, 1} /\ InLate(q, n, ch)' \in {0, 1}
  BY DEF InLate
<1>3. /\ cmds[q] \in Seq(Cmd) /\ wire[q][ch] \in Seq(Nat)
      /\ Queued(q, n, ch) = Count(cmds[q], V) /\ Queued(q, n, ch)' = Count(cmds'[q], V)
      /\ OnWire(q, n, ch) = Count(wire[q][ch], {n}) /\ OnWire(q, n, ch)' = Count(wire'[q][ch], {n})
  <2>1. cmds[q] \in Seq(Cmd) /\ wire[q][ch] \in Seq(Nat)
    BY DEF TypeOK
  <2>2. Queued(q, n, ch) = Count(cmds[q], V) /\ Queued(q, n, ch)' = Count(cmds'[q], V)
    BY DEF Queued, NatsCmds, Cmd, CmdType
  <2>3. OnWire(q, n, ch) = Count(wire[q][ch], {n}) /\ OnWire(q, n, ch)' = Count(wire'[q][ch], {n})
    BY DEF OnWire
  <2> QED
    BY <2>1, <2>2, <2>3
<1>4. ASSUME NEW x \in Channels, NEW k \in Nat, Enqueue(p, BroadcastCmd(x, k, TRUE))
      PROVE  /\ q # p => Queued(q, n, ch)' = Queued(q, n, ch)
             /\ Queued(q, n, ch)' = IF q = p /\ x = ch /\ k = n THEN Queued(q, n, ch) + 1
                                    ELSE Queued(q, n, ch)
  <2> DEFINE m == BroadcastCmd(x, k, TRUE)
  <2>1. m \in Cmd /\ (m \in V <=> x = ch /\ k = n)
    BY CmdTypes DEF BroadcastCmd, NatsCmds
  <2>2. Enqueue(p, m)
    BY <1>4
  <2> HIDE DEF m, V
  <2>3. cmds'[q] = IF q = p THEN Append(cmds[q], m) ELSE cmds[q]
    BY <2>2 DEF Enqueue, TypeOK
  <2>4. CASE q = p
    BY <1>3, <2>1, <2>3, <2>4, CountAppend
  <2> QED
    BY <1>3, <2>3, <2>4
<1>5. ASSUME NEW x \in Channels, NatsCallback(p, x)
      PROVE  Pending(q, n, ch)' <= Pending(q, n, ch)
  <2>1. wire[p][x] \in Seq(Nat) /\ wire[p][x] # <<>>
    BY <1>5 DEF TypeOK, NatsCallback
  <2>2. PICK k \in Nat : k = Head(wire[p][x])
    BY <2>1
  <2>3. Enqueue(p, BroadcastCmd(x, k, TRUE)) /\ late' = late /\ wire' = [wire EXCEPT ![p][x] = Tail(@)]
    BY <1>5, <2>2 DEF NatsCallback
  <2>4. InLate(q, n, ch)' = InLate(q, n, ch)
    BY <2>3 DEF InLate
  <2>5. CASE q = p /\ ch = x
    <3>1. wire'[q][ch] = Tail(wire[q][ch])
      BY <2>3, <2>5 DEF TypeOK
    <3>2. OnWire(q, n, ch) = IF k = n THEN OnWire(q, n, ch)' + 1 ELSE OnWire(q, n, ch)'
      BY <1>3, <2>1, <2>2, <2>5, <3>1, CountTail
    <3>3. Queued(q, n, ch)' = IF k = n THEN Queued(q, n, ch) + 1 ELSE Queued(q, n, ch)
      BY <1>4, <2>2, <2>3, <2>5
    <3> QED
      BY <1>1, <1>2, <2>4, <3>2, <3>3 DEF Pending
  <2>6. CASE ~(q = p /\ ch = x)
    <3>1. wire'[q][ch] = wire[q][ch]
      BY <2>3, <2>6 DEF TypeOK
    <3>2. OnWire(q, n, ch)' = OnWire(q, n, ch)
      BY <1>3, <3>1
    <3>3. Queued(q, n, ch)' = Queued(q, n, ch)
      BY <1>4, <2>2, <2>3, <2>6
    <3> QED
      BY <1>1, <1>2, <2>4, <3>2, <3>3 DEF Pending
  <2> QED
    BY <2>5, <2>6
<1>6. ASSUME LateCallback(p)
      PROVE  Pending(q, n, ch)' <= Pending(q, n, ch)
  <2>1. PICK x \in late[p] : /\ Enqueue(p, BroadcastCmd(x.channel, x.payload, TRUE))
                             /\ late' = [late EXCEPT ![p] = @ \ {x}]
    BY <1>6 DEF LateCallback
  <2>2. x \in [channel : Channels, payload : Nat] /\ wire' = wire
    BY <1>6 DEF LateCallback, TypeOK
  <2>3. OnWire(q, n, ch)' = OnWire(q, n, ch)
    BY <2>2 DEF OnWire
  <2>4. x.channel \in Channels /\ x.payload \in Nat
    BY <2>2
  <2>5. CASE q = p /\ x.channel = ch /\ x.payload = n
    <3>1. x = [channel |-> ch, payload |-> n]
      BY <2>2, <2>5
    <3>2. InLate(q, n, ch) = 1 /\ InLate(q, n, ch)' = 0
      BY <2>1, <2>5, <3>1 DEF InLate, TypeOK
    <3>3. Queued(q, n, ch)' = Queued(q, n, ch) + 1
      BY <1>4, <2>1, <2>4, <2>5
    <3> QED
      BY <1>1, <2>3, <3>2, <3>3 DEF Pending
  <2>6. CASE ~(q = p /\ x.channel = ch /\ x.payload = n)
    <3>1. Queued(q, n, ch)' = Queued(q, n, ch)
      BY <1>4, <2>1, <2>4, <2>6
    <3>2. [channel |-> ch, payload |-> n] \in late'[q] <=> [channel |-> ch, payload |-> n] \in late[q]
      <4>1. CASE q # p
        <5>1. late'[q] = late[q]
          BY <2>1, <4>1 DEF TypeOK
        <5> QED
          BY <5>1
      <4>2. CASE q = p
        <5>1. late'[q] = late[q] \ {x}
          BY <2>1, <4>2 DEF TypeOK
        <5>2. x # [channel |-> ch, payload |-> n]
          BY <2>6, <4>2
        <5> QED
          BY <5>1, <5>2
      <4> QED
        BY <4>1, <4>2
    <3>3. InLate(q, n, ch)' = InLate(q, n, ch)
      BY <3>2 DEF InLate
    <3> QED
      BY <1>1, <1>2, <2>3, <3>1, <3>3 DEF Pending
  <2> QED
    BY <2>5, <2>6
<1> QED
  BY <1>5, <1>6

\* A step that delivers nothing.
LEMMA NothingGot ==
  ASSUME TypeOK, TypeOK', CopyInv,
         \A q \in Pods : QueueMove(cmds[q], cmds'[q]),
         \A q \in Pods : relayPos[q] <= relayPos'[q],
         \A c \in Clients : SameItems(Delivered(c), Delivered(c)'),
         \A q \in Pods, n \in Nat, ch \in Channels : Pending(q, n, ch)' <= Pending(q, n, ch)
  PROVE  CopyInv'
<1>1. \A n \in Nat : Published(n) \subseteq Published(n)'
  BY PublishedKept
<1>2. ASSUME NEW c \in Clients, NEW n \in Nat, NEW ch \in Channels
      PROVE  Got(c, n, ch)' + Pending(PodOf[c], n, ch)' <= Got(c, n, ch) + Pending(PodOf[c], n, ch)
  <2>1. PodOf[c] \in Pods
    BY MapsAssumption
  <2>2. Got(c, n, ch)' = Got(c, n, ch)
    BY CountSame DEF Got, NatsItem
  <2>3. /\ Got(c, n, ch) \in Nat /\ Pending(PodOf[c], n, ch) \in Nat
        /\ Pending(PodOf[c], n, ch)' \in Nat
    BY <2>1, CopyTypes, CopyTypesNext DEF CopyTypeOK
  <2>4. Pending(PodOf[c], n, ch)' <= Pending(PodOf[c], n, ch)
    BY <2>1
  <2> QED
    BY <2>2, <2>3, <2>4
<1> QED
  BY <1>1, <1>2, CopiesKept

LEMMA PendingKept ==
  ASSUME TypeOK, TypeOK', NEW q \in Pods, NEW n \in Nat, NEW ch \in Channels,
         Queued(q, n, ch)' <= Queued(q, n, ch),
         OnWire(q, n, ch)' + InLate(q, n, ch)' <= OnWire(q, n, ch) + InLate(q, n, ch)
  PROVE  Pending(q, n, ch)' <= Pending(q, n, ch)
<1>1. /\ OnWire(q, n, ch) \in Nat /\ OnWire(q, n, ch)' \in Nat
      /\ Queued(q, n, ch) \in Nat /\ Queued(q, n, ch)' \in Nat
  BY CopyTypes, CopyTypesNext DEF CopyTypeOK
<1>2. InLate(q, n, ch) \in {0, 1} /\ InLate(q, n, ch)' \in {0, 1}
  BY DEF InLate
<1> QED
  BY <1>1, <1>2 DEF Pending

\* What is on the wire, or in a late callback, stays there.
LEMMA NatsKept ==
  ASSUME UNCHANGED natsVars, TypeOK, NEW q \in Pods, NEW n \in Nat, NEW ch \in Channels
  PROVE  OnWire(q, n, ch)' + InLate(q, n, ch)' <= OnWire(q, n, ch) + InLate(q, n, ch)
<1>1. OnWire(q, n, ch)' = OnWire(q, n, ch) /\ InLate(q, n, ch)' = InLate(q, n, ch)
  BY DEF OnWire, InLate, natsVars
<1>2. OnWire(q, n, ch) \in Nat
  BY CopyTypes DEF CopyTypeOK
<1>3. InLate(q, n, ch) \in {0, 1}
  BY DEF InLate
<1> QED
  BY <1>1, <1>2, <1>3

\* The commands of a session: the hub may forget the channel and its NATS
\* subscription, with what was under way there.
LEMMA HubNats ==
  ASSUME TypeOK, NEW p \in Pods,
         HubRegister(p) \/ HubUnregister(p) \/ HubSubscribe(p) \/ HubUnsubscribe(p),
         NEW q \in Pods, NEW n \in Nat, NEW ch \in Channels
  PROVE  OnWire(q, n, ch)' + InLate(q, n, ch)' <= OnWire(q, n, ch) + InLate(q, n, ch)
<1>1. ASSUME NEW S, NEW c, TeardownNATSSubs(p, DOMAIN channels[p] \ DOMAIN Left(channels[p], S, c))
      PROVE  OnWire(q, n, ch)' + InLate(q, n, ch)' <= OnWire(q, n, ch) + InLate(q, n, ch)
  <2> DEFINE gone == DOMAIN channels[p] \ DOMAIN Left(channels[p], S, c)
  <2>1. channels[p] \in ChannelMap
    BY DEF TypeOK
  <2>2. gone \in SUBSET Channels
    BY <2>1, ChannelMapFacts
  <2> HIDE DEF gone
  <2> QED
    BY <1>1, <2>2, TeardownCopies DEF gone
<1>2. CASE UNCHANGED natsVars
  BY <1>2, NatsKept
<1>3. CASE HubRegister(p) \/ HubSubscribe(p)
  BY <1>2, <1>3 DEF HubRegister, HubSubscribe
<1>4. CASE HubUnregister(p)
  BY <1>1, <1>2, <1>4 DEF HubUnregister
<1>5. CASE HubUnsubscribe(p)
  BY <1>1, <1>5 DEF HubUnsubscribe
<1> QED
  BY <1>3, <1>4, <1>5

\* The relay queues a NOTIFY its pod has not published: nothing is a copy yet.
LEMMA DispatchCopies ==
  ASSUME TypeOK, TypeOK', OrderInv, CopyInv, NEW p \in Pods, RelayDispatch(p)
  PROVE  CopyInv'
<1> DEFINE m == BroadcastCmd(notified[relayPos[p] + 1], relayPos[p] + 1, FALSE)
<1>1. /\ relayPos[p] \in Nat /\ relayPos[p] < Len(notified) /\ notified \in Seq(Channels)
      /\ relayPos' = [relayPos EXCEPT ![p] = @ + 1] /\ Enqueue(p, m)
      /\ UNCHANGED <<send, written, natsVars>>
  <2>1. relayPos[p] \in Nat /\ notified \in Seq(Channels)
    BY DEF TypeOK
  <2>2. /\ relayPos[p] < Len(notified) /\ relayPos' = [relayPos EXCEPT ![p] = @ + 1]
        /\ Enqueue(p, m) /\ UNCHANGED <<send, written, natsVars>>
    BY DEF RelayDispatch, sessionVars
  <2> QED
    BY <2>1, <2>2
<1>2. notified[relayPos[p] + 1] \in Channels
  BY <1>1
<1>3. /\ m \in Cmd /\ m.payload = relayPos[p] + 1
      /\ \A n \in Nat, ch \in Channels : m \notin NatsCmds(n, ch)
  <2>1. relayPos[p] + 1 \in Nat
    BY <1>1
  <2>2. m \in Cmd
    BY <1>2, <2>1, CmdTypes
  <2>3. m.payload = relayPos[p] + 1 /\ ~m.fromNATS
    BY DEF BroadcastCmd
  <2> QED
    BY <2>2, <2>3 DEF NatsCmds
<1> HIDE DEF m
<1>4. cmds'[p] = Append(cmds[p], m) /\ \A q \in Pods : q # p => cmds'[q] = cmds[q]
  BY <1>1 DEF Enqueue, TypeOK
<1>5. \A q \in Pods, n \in Nat, ch \in Channels : Queued(q, n, ch)' <= Queued(q, n, ch)
  <2> SUFFICES ASSUME NEW q \in Pods, NEW n \in Nat, NEW ch \in Channels
               PROVE  Queued(q, n, ch)' <= Queued(q, n, ch)
    OBVIOUS
  <2>1. cmds'[q] = cmds[q] \/ \E k \in Cmd \ NatsCmds(n, ch) : cmds'[q] = Append(cmds[q], k)
    BY <1>3, <1>4
  <2> QED
    BY <2>1, QueuedKept
<1>6. \A q \in Pods, n \in Nat, ch \in Channels : Pending(q, n, ch)' <= Pending(q, n, ch)
  BY <1>1, <1>5, NatsKept, PendingKept
<1>7. ASSUME NEW n \in Nat, NEW q \in Published(n)
      PROVE  q \in Published(n)'
  <2>1. /\ q \in Pods /\ n <= relayPos[q] /\ relayPos[q] \in Nat
        /\ \A i \in 1..Len(cmds[q]) : Relayed(cmds[q][i]) => cmds[q][i].payload # n
    BY DEF Published, TypeOK
  <2>2. n <= relayPos'[q]
    BY <1>1, <2>1 DEF TypeOK
  <2>3. \A i \in 1..Len(cmds'[q]) : Relayed(cmds'[q][i]) => cmds'[q][i].payload # n
    <3>1. CASE q # p
      BY <1>4, <2>1, <3>1
    <3>2. CASE q = p
      <4>1. /\ Len(cmds[p]) \in Nat /\ Len(cmds'[p]) = Len(cmds[p]) + 1
            /\ \A i \in 1..Len(cmds[p]) : cmds'[p][i] = cmds[p][i]
            /\ cmds'[p][Len(cmds[p]) + 1] = m
        BY <1>1, <1>3, EnqueueFacts
      <4>2. \A i \in 1..Len(cmds'[p]) : i \in 1..Len(cmds[p]) \/ i = Len(cmds[p]) + 1
        BY <4>1
      <4>3. m.payload # n
        BY <1>1, <1>3, <2>1, <3>2
      <4> QED
        BY <2>1, <3>2, <4>1, <4>2, <4>3
    <3> QED
      BY <3>1, <3>2
  <2> QED
    BY <2>1, <2>2, <2>3 DEF Published, Relayed
<1>8. \A n \in Nat : Published(n) \subseteq Published(n)'
  BY <1>7
<1>9. ASSUME NEW c \in Clients, NEW n \in Nat, NEW ch \in Channels
      PROVE  Got(c, n, ch)' + Pending(PodOf[c], n, ch)' <= Got(c, n, ch) + Pending(PodOf[c], n, ch)
  <2>1. PodOf[c] \in Pods
    BY MapsAssumption
  <2>2. Got(c, n, ch)' = Got(c, n, ch)
    BY <1>1 DEF Got, Delivered, NatsItem
  <2>3. /\ Got(c, n, ch) \in Nat /\ Pending(PodOf[c], n, ch) \in Nat
        /\ Pending(PodOf[c], n, ch)' \in Nat
    BY <2>1, CopyTypes, CopyTypesNext DEF CopyTypeOK
  <2> QED
    BY <1>6, <2>1, <2>2, <2>3
<1> QED
  BY <1>8, <1>9, CopiesKept

LEMMA PodStepCopies ==
  ASSUME IInv, TypeOK', OrderInv, CopyInv, NEW p \in Pods, PodStep(p)
  PROVE  CopyInv'
<1>0. TypeOK /\ \A q \in Pods : relayPos[q] \in Nat /\ relayPos[q] <= Len(notified)
  BY DEF IInv, TypeOK, OrderInv, RelayQueueInv
<1>1. CASE HubRegister(p) \/ HubUnregister(p) \/ HubSubscribe(p) \/ HubUnsubscribe(p)
  <2>1. UNCHANGED <<send, written, notified, relayPos>> /\ \E t \in CmdType : Dequeue(p, t)
    BY <1>1 DEF HubRegister, HubUnregister, HubSubscribe, HubUnsubscribe, sessionVars, relayVars, CmdType
  <2>2. \A q \in Pods : QueueMove(cmds[q], cmds'[q])
    BY <1>0, <2>1, DequeueMoves
  <2>3. \A q \in Pods : cmds'[q] = cmds[q] \/ (cmds[q] # <<>> /\ cmds'[q] = Tail(cmds[q]))
    BY <1>0, <2>1 DEF Dequeue, TypeOK
  <2>4. \A q \in Pods, n \in Nat, ch \in Channels : Queued(q, n, ch)' <= Queued(q, n, ch)
    BY <1>0, <2>3, QueuedKept
  <2>5. \A q \in Pods, n \in Nat, ch \in Channels : Pending(q, n, ch)' <= Pending(q, n, ch)
    BY <1>0, <1>1, <2>4, HubNats, PendingKept
  <2>6. \A q \in Pods : relayPos[q] <= relayPos'[q]
    BY <1>0, <2>1
  <2> QED
    BY <1>0, <2>1, <2>2, <2>5, <2>6, ItemsKept, NothingGot
<1>2. CASE HubBroadcast(p)
  BY <1>2, BroadcastCopies
<1>3. CASE (\E ch \in Channels : NatsCallback(p, ch)) \/ LateCallback(p)
  <2>1. UNCHANGED <<send, written, notified, relayPos>>
    BY <1>3 DEF NatsCallback, LateCallback, sessionVars, relayVars
  <2>2. \A q \in Pods : QueueMove(cmds[q], cmds'[q])
    BY <1>0, <1>3, CallbackMoves
  <2>3. \A q \in Pods, n \in Nat, ch \in Channels : Pending(q, n, ch)' <= Pending(q, n, ch)
    BY <1>0, <1>3, CallbackCopies
  <2>4. \A q \in Pods : relayPos[q] <= relayPos'[q]
    BY <1>0, <2>1
  <2> QED
    BY <1>0, <2>1, <2>2, <2>3, <2>4, ItemsKept, NothingGot
<1>4. CASE RelayDispatch(p)
  BY <1>0, <1>4, DispatchCopies
<1>5. CASE RelayReconnect(p) \/ CrashPod(p)
  <2>1. UNCHANGED <<send, written, notified>> /\ relayPos' = [relayPos EXCEPT ![p] = Len(notified)]
    BY <1>5 DEF RelayReconnect, CrashPod, sessionVars
  <2>2. \A q \in Pods : cmds'[q] = cmds[q] \/ cmds'[q] = <<>>
    BY <1>0, <1>5 DEF RelayReconnect, CrashPod, TypeOK
  <2>3. \A q \in Pods : QueueMove(cmds[q], cmds'[q])
    BY <2>2 DEF QueueMove
  <2>4. Len(notified) \in Nat
    <3>1. notified \in Seq(Channels)
      BY <1>0 DEF TypeOK
    <3> QED
      BY <3>1
  <2>5. \A q \in Pods : relayPos[q] <= relayPos'[q]
    BY <1>0, <2>1, <2>4 DEF TypeOK
  <2>6. \A q \in Pods, n \in Nat, ch \in Channels : Queued(q, n, ch)' <= Queued(q, n, ch)
    BY <1>0, <2>2, QueuedKept
  <2>7. ASSUME NEW q \in Pods, NEW n \in Nat, NEW ch \in Channels
        PROVE  OnWire(q, n, ch)' + InLate(q, n, ch)' <= OnWire(q, n, ch) + InLate(q, n, ch)
    <3>1. CASE UNCHANGED natsVars
      BY <1>0, <3>1, NatsKept
    <3>2. CASE CrashPod(p)
      <4>1. /\ wire' = [wire EXCEPT ![p] = [x \in Channels |-> <<>>]]
            /\ late' = [late EXCEPT ![p] = {}]
        BY <3>2 DEF CrashPod
      <4>2. OnWire(q, n, ch) \in Nat
        BY <1>0, CopyTypes DEF CopyTypeOK
      <4>3. InLate(q, n, ch) \in {0, 1}
        BY DEF InLate
      <4>4. CASE q = p
        <5>1. wire'[q][ch] = <<>> /\ late'[q] = {}
          BY <1>0, <4>1, <4>4 DEF TypeOK
        <5>2. OnWire(q, n, ch)' = Count(wire'[q][ch], {n}) /\ InLate(q, n, ch)' = 0
          BY <5>1 DEF OnWire, InLate
        <5> QED
          BY <4>2, <4>3, <5>1, <5>2, CountEmpty
      <4>5. CASE q # p
        <5>1. wire'[q][ch] = wire[q][ch] /\ late'[q] = late[q]
          BY <1>0, <4>1, <4>5 DEF TypeOK
        <5>2. OnWire(q, n, ch)' = OnWire(q, n, ch) /\ InLate(q, n, ch)' = InLate(q, n, ch)
          BY <5>1 DEF OnWire, InLate
        <5> QED
          BY <4>2, <4>3, <5>2
      <4> QED
        BY <4>4, <4>5
    <3> QED
      BY <1>5, <3>1, <3>2 DEF RelayReconnect
  <2>8. \A q \in Pods, n \in Nat, ch \in Channels : Pending(q, n, ch)' <= Pending(q, n, ch)
    BY <1>0, <2>6, <2>7, PendingKept
  <2> QED
    BY <1>0, <2>1, <2>3, <2>5, <2>8, ItemsKept, NothingGot
<1> QED
  BY <1>1, <1>2, <1>3, <1>4, <1>5 DEF PodStep, HubStep

\* Whatever a session and PostgreSQL do, no copy comes of it.
LEMMA OthersCopies ==
  ASSUME TypeOK, TypeOK', CopyInv, UNCHANGED <<natsVars, relayPos>>,
         \A c \in Clients : SameItems(Delivered(c), Delivered(c)'),
         \A q \in Pods : \/ cmds'[q] = cmds[q]
                         \/ \E m \in Cmd : m.type # "broadcast" /\ cmds'[q] = Append(cmds[q], m)
  PROVE  CopyInv'
<1>1. \A q \in Pods, n \in Nat, ch \in Channels : Queued(q, n, ch)' <= Queued(q, n, ch)
  <2> SUFFICES ASSUME NEW q \in Pods, NEW n \in Nat, NEW ch \in Channels
               PROVE  Queued(q, n, ch)' <= Queued(q, n, ch)
    OBVIOUS
  <2>1. cmds'[q] = cmds[q] \/ \E m \in Cmd \ NatsCmds(n, ch) : cmds'[q] = Append(cmds[q], m)
    BY DEF NatsCmds
  <2> QED
    BY <2>1, QueuedKept
<1>2. \A q \in Pods, n \in Nat, ch \in Channels : Pending(q, n, ch)' <= Pending(q, n, ch)
  BY <1>1, NatsKept, PendingKept
<1>3. \A q \in Pods : relayPos[q] <= relayPos'[q]
  BY DEF TypeOK
<1>4. \A q \in Pods : QueueMove(cmds[q], cmds'[q])
  <2> SUFFICES ASSUME NEW q \in Pods, NEW m \in Cmd, m.type # "broadcast",
                      cmds'[q] = Append(cmds[q], m)
               PROVE  QueueMove(cmds[q], cmds'[q])
    BY DEF QueueMove
  <2>1. cmds[q] \in Seq(Cmd)
    BY DEF TypeOK
  <2>2. /\ Len(cmds'[q]) = Len(cmds[q]) + 1 /\ cmds'[q][Len(cmds[q]) + 1] = m
        /\ \A i \in 1..Len(cmds[q]) : cmds'[q][i] = cmds[q][i]
    BY <2>1
  <2> QED
    BY <2>2 DEF QueueMove, Relayed
<1> QED
  BY <1>2, <1>3, <1>4, NothingGot

LEMMA SessionStepCopies ==
  ASSUME IInv, TypeOK', OrderInv, CopyInv, NEW c \in Clients, SessionStep(c)
  PROVE  CopyInv'
<1>0. TypeOK /\ PodOf[c] \in Pods
  BY MapsAssumption DEF IInv
<1>1. CASE PumpPanic(c)
  <2>1. PodStep(PodOf[c])
    BY <1>1 DEF PumpPanic, PodStep
  <2> QED
    BY <1>0, <2>1, PodStepCopies
<1>2. ASSUME NEW m \in Cmd, m.type # "broadcast", Enqueue(PodOf[c], m),
             UNCHANGED <<send, written, natsVars, relayPos>>
      PROVE  CopyInv'
  <2>1. \A q \in Pods : cmds'[q] = cmds[q] \/ cmds'[q] = Append(cmds[q], m)
    BY <1>0, <1>2 DEF Enqueue, TypeOK
  <2> QED
    BY <1>0, <1>2, <2>1, ItemsKept, OthersCopies
<1>3. CASE Connect(c) \/ Unregister(c)
  <2>1. PICK t \in {"register", "unregister"} : Enqueue(PodOf[c], ClientCmd(t, c, None))
    BY <1>3 DEF Connect, Unregister
  <2>2. ClientCmd(t, c, None) \in Cmd /\ ClientCmd(t, c, None).type # "broadcast"
    BY CmdTypes DEF ClientCmd
  <2>3. UNCHANGED <<send, written, natsVars, relayPos>>
    BY <1>3 DEF Connect, Unregister, relayVars
  <2> QED
    BY <1>2, <2>1, <2>2, <2>3
<1>4. ASSUME NEW ch \in Channels, NEW t \in {"subscribe", "unsubscribe"}, ReadCommand(c, t, ch)
      PROVE  CopyInv'
  <2>1. ClientCmd(t, c, ch) \in Cmd /\ ClientCmd(t, c, ch).type # "broadcast"
    BY CmdTypes DEF ClientCmd
  <2>2. Enqueue(PodOf[c], ClientCmd(t, c, ch)) /\ UNCHANGED <<send, written, natsVars, relayPos>>
    BY <1>4 DEF ReadCommand, relayVars
  <2> QED
    BY <1>2, <2>1, <2>2
<1>5. CASE \/ \E ch \in Channels : ReadDenied(c, ch)
           \/ DenyDone(c) \/ ReadError(c) \/ WriteEnd(c) \/ PumpStop(c) \/ WriteError(c)
  <2>1. UNCHANGED <<cmds, send, written, natsVars, relayPos>>
    BY <1>5 DEF ReadDenied, DenyDone, ReadError, WriteEnd, PumpStop, WriteError, relayVars
  <2> QED
    BY <1>0, <2>1, ItemsKept, OthersCopies
<1>6. CASE WriteBegin(c)
  <2>1. UNCHANGED <<cmds, natsVars, relayPos>>
    BY <1>6 DEF WriteBegin, relayVars
  <2> QED
    BY <1>0, <1>6, <2>1, WriteKeepsItems, OthersCopies
<1> QED
  BY <1>1, <1>3, <1>4, <1>5, <1>6 DEF SessionStep

LEMMA CopyStart == Init => CopyInv
<1> SUFFICES ASSUME Init, NEW c \in Clients, NEW n \in Nat, NEW ch \in Channels
             PROVE  Got(c, n, ch) + Pending(PodOf[c], n, ch) <= Cardinality(Published(n))
  BY DEF CopyInv
<1>1. PodOf[c] \in Pods
  BY MapsAssumption
<1>2. Delivered(c) = <<>> /\ cmds[PodOf[c]] = <<>> /\ wire[PodOf[c]][ch] = <<>> /\ late[PodOf[c]] = {}
  BY <1>1 DEF Init, Delivered
<1>3. /\ Got(c, n, ch) = 0 /\ Queued(PodOf[c], n, ch) = 0
      /\ OnWire(PodOf[c], n, ch) = 0 /\ InLate(PodOf[c], n, ch) = 0
  BY <1>2, CountEmpty DEF Got, Queued, OnWire, InLate
<1>4. Cardinality(Published(n)) \in Nat
  BY InitInv, CopyTypes DEF IInv, CopyTypeOK
<1> QED
  BY <1>3, <1>4 DEF Pending

LEMMA CopyStep == IInv /\ TypeOK' /\ OrderInv /\ CopyInv /\ [Next]_vars => CopyInv'
<1> SUFFICES ASSUME IInv, TypeOK', OrderInv, CopyInv, [Next]_vars PROVE CopyInv'
  OBVIOUS
<1>1. CASE (\E ch \in Channels : Notify(ch)) \/ UNCHANGED vars
  <2>1. UNCHANGED <<cmds, send, written, natsVars, relayPos>>
    BY <1>1 DEF Notify, vars, sessionVars, relayVars, natsVars
  <2> QED
    BY <2>1, ItemsKept, OthersCopies DEF IInv
<1> QED
  BY <1>1, PodStepCopies, SessionStepCopies DEF Next

\* In the order of the NOTIFYs there is one place for each.
LEMMA OrderedOnce ==
  ASSUME TypeOK, RelayOrder, NEW c \in Clients, NEW n \in Nat, NEW ch \in Channels
  PROVE  Copies(c, n, ch, FALSE) <= 1
<1> DEFINE item == [payload |-> n, channel |-> ch, fromNATS |-> FALSE]
           P == {i \in 1..Len(Delivered(c)) : Delivered(c)[i] = item}
<1>1. Copies(c, n, ch, FALSE) = Cardinality(P)
  BY DEF Copies
<1>2. \A i, j \in P : i = j
  <2> SUFFICES ASSUME NEW i \in P, NEW j \in P, i < j PROVE FALSE
    <3>1. \A i, j \in P : i \in Int /\ j \in Int
      OBVIOUS
    <3>2. \A i, j \in Int : i < j \/ j < i \/ i = j
      OBVIOUS
    <3> QED
      BY <3>1, <3>2
  <2> QED
    BY DEF RelayOrder
<1> HIDE DEF P
<1>3. Cardinality(P) <= 1
  <2>1. ASSUME NEW i \in P PROVE Cardinality(P) = 1
    <3>1. P = {i}
      BY <1>2
    <3> QED
      BY <3>1, FS_Singleton
  <2>2. P # {} => Cardinality(P) = 1
    BY <2>1
  <2>3. P = {} => Cardinality(P) = 0
    BY FS_EmptySet
  <2> QED
    BY <2>2, <2>3
<1> QED
  BY <1>1, <1>3, Zenon

LEMMA BoundFromInv == TypeOK /\ RelayOrder /\ CopyInv => CopiesBounded
<1> SUFFICES ASSUME TypeOK, RelayOrder, CopyInv,
                    NEW c \in Clients, NEW n \in 1..Len(notified), NEW ch \in Channels
             PROVE  Copies(c, n, ch, FALSE) <= 1 /\ Copies(c, n, ch, TRUE) <= Cardinality(Pods)
  BY DEF CopiesBounded
<1>1. n \in Nat /\ PodOf[c] \in Pods
  BY MapsAssumption
<1>2. Copies(c, n, ch, TRUE) = Got(c, n, ch)
  <2>1. Places(Delivered(c), NatsItem(n, ch))
          = {i \in 1..Len(Delivered(c)) :
               Delivered(c)[i] = [payload |-> n, channel |-> ch, fromNATS |-> TRUE]}
    BY DEF Places, NatsItem
  <2> QED
    BY <2>1 DEF Copies, Got, Count
<1>3. Got(c, n, ch) + Pending(PodOf[c], n, ch) <= Cardinality(Published(n))
  BY <1>1 DEF CopyInv
<1>4. /\ Got(c, n, ch) \in Nat /\ Pending(PodOf[c], n, ch) \in Nat
      /\ Cardinality(Published(n)) \in Nat /\ Cardinality(Published(n)) <= Cardinality(Pods)
  BY <1>1, CopyTypes DEF CopyTypeOK
<1>5. Cardinality(Pods) \in Nat
  BY PodsAssumption, FS_CardinalityType
<1>6. Got(c, n, ch) <= Cardinality(Pods)
  BY <1>3, <1>4, <1>5
<1>7. Copies(c, n, ch, FALSE) <= 1
  BY <1>1, OrderedOnce
<1> QED
  BY <1>2, <1>6, <1>7, Zenon

\* However the pods relay and publish, whatever NATS drops and whatever is
\* reconnected, torn down or restarted in between, a session sees a NOTIFY on a
\* channel at most once from its own relay and at most once from each pod.
THEOREM CopiesAreBounded == Spec => []CopiesBounded
<1>1. OrderInv => RelayOrder
  BY DEF OrderInv
<1>2. IInv => TypeOK
  BY DEF IInv
<1> QED
  BY <1>1, <1>2, BoundFromInv, OrderStart, OrderStep, CopyStart, CopyStep, InvariantHolds, PTL DEF Spec

-----------------------------------------------------------------------------
(* Where payloads come from. A delivery's label says nothing of the NOTIFY   *)
(* its payload is: that the two belong together is an invariant of the       *)
(* queues, of the subscriptions and of the callbacks on the way.             *)

From(ch, n, nats) ==
  /\ n \in 1..Len(notified)
  /\ IF nats THEN SubjectOf[notified[n]] = SubjectOf[ch] ELSE notified[n] = ch

CmdFrom(m) == m.type = "broadcast" => From(m.channel, m.payload, m.fromNATS)

QueueFrom == \A p \in Pods : \A i \in 1..Len(cmds[p]) : CmdFrom(cmds[p][i])
WireFrom == \A p \in Pods, ch \in Channels : \A i \in 1..Len(wire[p][ch]) : From(ch, wire[p][ch][i], TRUE)
LateFrom == \A p \in Pods : \A m \in late[p] : From(m.channel, m.payload, TRUE)
SentFrom == \A c \in Clients : \A i \in 1..Len(Delivered(c)) :
  From(Delivered(c)[i].channel, Delivered(c)[i].payload, Delivered(c)[i].fromNATS)

OriginInv == QueueFrom /\ WireFrom /\ LateFrom /\ SentFrom

LEMMA OriginStart == Init => OriginInv
<1> SUFFICES ASSUME Init PROVE OriginInv
  OBVIOUS
<1>1. \A c \in Clients : Delivered(c) = <<>>
  BY DEF Init, Delivered
<1>2. SentFrom
  BY <1>1 DEF SentFrom
<1>3. QueueFrom /\ WireFrom /\ LateFrom
  BY DEF Init, QueueFrom, WireFrom, LateFrom
<1> QED
  BY <1>2, <1>3 DEF OriginInv

\* Queues that lose commands, and gain some whose payload is where it belongs.
LEMMA DequeueFrom ==
  ASSUME TypeOK, QueueFrom, NEW p \in Pods, NEW t, Dequeue(p, t), UNCHANGED notified
  PROVE  QueueFrom' /\ CmdFrom(cmds[p][1])
<1>1. ASSUME NEW q \in Pods, NEW i \in 1..Len(cmds'[q]) PROVE CmdFrom(cmds'[q][i])
  <2>1. CASE q # p
    BY <1>1, <2>1, DequeueFacts DEF QueueFrom
  <2>2. CASE q = p
    <3>1. i + 1 \in 1..Len(cmds[p]) /\ cmds'[p][i] = cmds[p][i + 1]
      BY <1>1, <2>2, DequeueFacts
    <3> QED
      BY <2>2, <3>1 DEF QueueFrom
  <2> QED
    BY <2>1, <2>2
<1>2. 1 \in 1..Len(cmds[p])
  BY DequeueFacts
<1> QED
  BY <1>1, <1>2 DEF QueueFrom, CmdFrom, From

LEMMA EnqueueFrom ==
  ASSUME TypeOK, QueueFrom, NEW p \in Pods, NEW m \in Cmd, Enqueue(p, m), CmdFrom(m), UNCHANGED notified
  PROVE  QueueFrom'
<1>1. ASSUME NEW q \in Pods, NEW i \in 1..Len(cmds'[q]) PROVE CmdFrom(cmds'[q][i])
  <2>1. CASE q # p
    BY <1>1, <2>1, EnqueueFacts DEF QueueFrom
  <2>2. CASE q = p
    <3>1. i \in 1..Len(cmds[p]) \/ i = Len(cmds[p]) + 1
      BY <1>1, <2>2, EnqueueFacts
    <3> QED
      BY <2>2, <3>1, EnqueueFacts DEF QueueFrom
  <2> QED
    BY <2>1, <2>2
<1> QED
  BY <1>1 DEF QueueFrom, CmdFrom, From

\* What a teardown drops, and what a callback that runs still delivers.
LEMMA TeardownFrom ==
  ASSUME TypeOK, WireFrom, LateFrom, NEW p \in Pods, NEW gone \in SUBSET Channels,
         TeardownNATSSubs(p, gone), UNCHANGED notified
  PROVE  WireFrom' /\ LateFrom'
<1>1. ASSUME NEW q \in Pods, NEW ch \in Channels, NEW i \in 1..Len(wire'[q][ch])
      PROVE  From(ch, wire'[q][ch][i], TRUE)
  <2>1. wire'[q][ch] = wire[q][ch] \/ wire'[q][ch] = <<>>
    BY DEF TeardownNATSSubs, TypeOK
  <2>2. wire'[q][ch] = wire[q][ch]
    BY <1>1, <2>1
  <2> QED
    BY <1>1, <2>2 DEF WireFrom
<1>2. ASSUME NEW q \in Pods, NEW m \in late'[q]
      PROVE  From(m.channel, m.payload, TRUE)
  <2>1. PICK running \in SUBSET {x \in gone : wire[p][x] # <<>>} :
          late' = [late EXCEPT ![p] = @ \cup
                     {[channel |-> x, payload |-> Head(wire[p][x])] : x \in running}]
    BY DEF TeardownNATSSubs
  <2>2. CASE m \in late[q]
    BY <2>2 DEF LateFrom
  <2>3. CASE m \notin late[q]
    <3>1. PICK x \in running : m = [channel |-> x, payload |-> Head(wire[p][x])]
      BY <1>2, <2>1, <2>3 DEF TypeOK
    <3>2. x \in Channels /\ wire[p][x] \in Seq(Nat) /\ wire[p][x] # <<>>
      BY DEF TypeOK
    <3>3. Head(wire[p][x]) = wire[p][x][1] /\ 1 \in 1..Len(wire[p][x])
      BY <3>2
    <3> QED
      BY <3>1, <3>2, <3>3 DEF WireFrom
  <2> QED
    BY <2>2, <2>3
<1> QED
  BY <1>1, <1>2 DEF WireFrom, LateFrom, From

\* A published payload reaches only subscriptions with its channel's subject.
LEMMA PublishFrom ==
  ASSUME TypeOK, WireFrom, NEW ch \in Channels, NEW n \in Nat, From(ch, n, FALSE), PublishNATS(ch, n),
         UNCHANGED notified
  PROVE  WireFrom'
<1>1. PICK reached \in [Pods -> SUBSET Channels] :
        /\ \A q \in Pods : reached[q] \subseteq {x \in natsSubs[q] : SubjectOf[x] = SubjectOf[ch]}
        /\ wire' = [q \in Pods |-> [x \in Channels |->
                      IF x \in reached[q] THEN Append(wire[q][x], n) ELSE wire[q][x]]]
  BY DEF PublishNATS
<1>2. ASSUME NEW q \in Pods, NEW x \in Channels, NEW i \in 1..Len(wire'[q][x])
      PROVE  From(x, wire'[q][x][i], TRUE)
  <2>1. wire[q][x] \in Seq(Nat)
    BY DEF TypeOK
  <2>2. CASE x \notin reached[q]
    BY <1>1, <1>2, <2>2 DEF WireFrom
  <2>3. CASE x \in reached[q]
    <3>1. SubjectOf[x] = SubjectOf[ch] /\ wire'[q][x] = Append(wire[q][x], n)
      BY <1>1, <2>3
    <3>2. From(x, n, TRUE)
      BY <3>1 DEF From
    <3>3. \/ i \in 1..Len(wire[q][x]) /\ wire'[q][x][i] = wire[q][x][i]
          \/ wire'[q][x][i] = n
      BY <1>2, <2>1, <3>1
    <3> QED
      BY <3>2, <3>3 DEF WireFrom
  <2> QED
    BY <2>2, <2>3
<1> QED
  BY <1>2 DEF WireFrom, From

\* Buffers and sockets that hold the payloads they held.
LEMMA SameFrom ==
  ASSUME SentFrom, UNCHANGED notified, \A c \in Clients : SameItems(Delivered(c), Delivered(c)')
  PROVE  SentFrom'
<1> SUFFICES ASSUME NEW c \in Clients, NEW i \in 1..Len(Delivered(c)')
             PROVE  From(Delivered(c)'[i].channel, Delivered(c)'[i].payload, Delivered(c)'[i].fromNATS)
  BY DEF SentFrom, From
<1>1. i \in 1..Len(Delivered(c)) /\ Delivered(c)'[i] = Delivered(c)[i]
  BY DEF SameItems
<1> QED
  BY <1>1 DEF SentFrom

LEMMA BroadcastFrom ==
  ASSUME IInv, TypeOK', OriginInv, NEW p \in Pods, HubBroadcast(p)
  PROVE  OriginInv'
<1> DEFINE m == cmds[p][1]
<1>1. TypeOK /\ WellFormedQueue /\ Dequeue(p, "broadcast") /\ UNCHANGED <<late, notified>>
  BY DEF IInv, SafeInv, QueueInv, HubBroadcast, relayVars
<1>2. m = Head(cmds[p]) /\ m \in Cmd /\ m.type = "broadcast" /\ m.channel \in Channels /\ m.payload \in Nat
  BY <1>1, HeadFacts DEF Cmd
<1>3. QueueFrom' /\ From(m.channel, m.payload, m.fromNATS)
  BY <1>1, <1>2, DequeueFrom DEF OriginInv, CmdFrom
<1>4. WireFrom'
  <2>1. CASE Publishable(m)
    <3>1. PublishNATS(m.channel, m.payload) /\ ~m.fromNATS
      BY <1>2, <2>1 DEF HubBroadcast, Publishable
    <3>2. From(m.channel, m.payload, FALSE)
      BY <1>3, <3>1 DEF From
    <3> HIDE DEF m
    <3> QED
      BY <1>1, <1>2, <3>1, <3>2, PublishFrom DEF OriginInv
  <2>2. CASE ~Publishable(m)
    <3>1. UNCHANGED wire
      BY <1>2, <2>2 DEF HubBroadcast
    <3> QED
      BY <1>1, <3>1 DEF OriginInv, WireFrom, From
  <2> QED
    BY <2>1, <2>2
<1>5. LateFrom'
  BY <1>1 DEF OriginInv, LateFrom, From
<1>6. SentFrom'
  <2> SUFFICES ASSUME NEW c \in Clients, NEW i \in 1..Len(Delivered(c)')
               PROVE  From(Delivered(c)'[i].channel, Delivered(c)'[i].payload, Delivered(c)'[i].fromNATS)
    BY <1>1 DEF SentFrom, From
  <2>1. \/ Delivered(c)' = Delivered(c)
        \/ /\ Len(Delivered(c)') = Len(Delivered(c)) + 1
           /\ \A j \in 1..Len(Delivered(c)) : Delivered(c)'[j] = Delivered(c)[j]
           /\ Delivered(c)'[Len(Delivered(c)) + 1] = Broadcasted(p)
    BY BroadcastDelivers
  <2>2. \/ i \in 1..Len(Delivered(c)) /\ Delivered(c)'[i] = Delivered(c)[i]
        \/ Delivered(c)'[i] = Broadcasted(p)
    BY <1>1, <2>1, DeliveredType
  <2>3. CASE i \in 1..Len(Delivered(c)) /\ Delivered(c)'[i] = Delivered(c)[i]
    BY <2>3 DEF OriginInv, SentFrom
  <2>4. CASE Delivered(c)'[i] = Broadcasted(p)
    BY <1>3, <2>4 DEF Broadcasted
  <2> QED
    BY <2>2, <2>3, <2>4
<1> QED
  BY <1>3, <1>4, <1>5, <1>6 DEF OriginInv

LEMMA CallbackFrom ==
  ASSUME IInv, OriginInv, NEW p \in Pods, (\E ch \in Channels : NatsCallback(p, ch)) \/ LateCallback(p)
  PROVE  OriginInv'
<1>0. TypeOK /\ QueueFrom /\ WireFrom /\ LateFrom /\ SentFrom
  BY DEF IInv, OriginInv
<1>1. UNCHANGED <<send, written, notified>>
  BY DEF NatsCallback, LateCallback, sessionVars, relayVars
<1>2. SentFrom'
  BY <1>0, <1>1, ItemsKept, SameFrom
<1>3. ASSUME NEW ch \in Channels, NatsCallback(p, ch) PROVE QueueFrom' /\ WireFrom' /\ LateFrom'
  <2> DEFINE w == wire[p][ch]
  <2>1. w \in Seq(Nat) /\ w # <<>>
    BY <1>0, <1>3 DEF TypeOK, NatsCallback
  <2>2. Head(w) = w[1] /\ 1 \in 1..Len(w) /\ Head(w) \in Nat
    BY <2>1
  <2>3. From(ch, Head(w), TRUE)
    BY <1>0, <2>2 DEF WireFrom
  <2>4. BroadcastCmd(ch, Head(w), TRUE) \in Cmd /\ CmdFrom(BroadcastCmd(ch, Head(w), TRUE))
    BY <2>2, <2>3, CmdTypes DEF CmdFrom, BroadcastCmd
  <2>5. Enqueue(p, BroadcastCmd(ch, Head(w), TRUE))
    BY <1>3 DEF NatsCallback
  <2>6. QueueFrom'
    BY <1>0, <1>1, <2>4, <2>5, EnqueueFrom
  <2>7. WireFrom'
    <3> SUFFICES ASSUME NEW q \in Pods, NEW x \in Channels, NEW i \in 1..Len(wire'[q][x])
                 PROVE  From(x, wire'[q][x][i], TRUE)
      BY <1>1 DEF WireFrom, From
    <3>1. CASE q # p \/ x # ch
      <4>1. wire'[q][x] = wire[q][x]
        BY <1>0, <1>3, <3>1 DEF NatsCallback, TypeOK
      <4> QED
        BY <1>0, <4>1 DEF WireFrom
    <3>2. CASE q = p /\ x = ch
      <4>1. wire'[q][x] = Tail(w)
        BY <1>0, <1>3, <3>2 DEF NatsCallback, TypeOK
      <4>2. i + 1 \in 1..Len(w) /\ Tail(w)[i] = w[i + 1]
        BY <2>1, <4>1
      <4> QED
        BY <1>0, <3>2, <4>1, <4>2 DEF WireFrom
    <3> QED
      BY <3>1, <3>2
  <2>8. LateFrom'
    BY <1>0, <1>1, <1>3 DEF NatsCallback, LateFrom, From
  <2> QED
    BY <2>6, <2>7, <2>8
<1>4. CASE LateCallback(p)
  <2>1. PICK m \in late[p] : /\ Enqueue(p, BroadcastCmd(m.channel, m.payload, TRUE))
                             /\ late' = [late EXCEPT ![p] = @ \ {m}]
    BY <1>4 DEF LateCallback
  <2>2. m.channel \in Channels /\ m.payload \in Nat /\ From(m.channel, m.payload, TRUE)
    <3>1. late[p] \in SUBSET [channel : Channels, payload : Nat]
      BY <1>0 DEF TypeOK
    <3> QED
      BY <1>0, <2>1, <3>1 DEF LateFrom
  <2>3. /\ BroadcastCmd(m.channel, m.payload, TRUE) \in Cmd
        /\ CmdFrom(BroadcastCmd(m.channel, m.payload, TRUE))
    BY <2>2, CmdTypes DEF CmdFrom, BroadcastCmd
  <2>4. QueueFrom'
    BY <1>0, <1>1, <2>1, <2>3, EnqueueFrom
  <2>5. UNCHANGED wire
    BY <1>4 DEF LateCallback
  <2>6. WireFrom'
    BY <1>0, <1>1, <2>5 DEF WireFrom, From
  <2>7. \A q \in Pods : late'[q] \subseteq late[q]
    BY <1>0, <2>1 DEF TypeOK
  <2>8. ASSUME NEW q \in Pods, NEW x \in late'[q] PROVE From(x.channel, x.payload, TRUE)'
    <3>1. From(x.channel, x.payload, TRUE)
      BY <1>0, <2>7, <2>8 DEF LateFrom
    <3> QED
      BY <1>1, <3>1 DEF From
  <2>9. LateFrom'
    BY <2>8 DEF LateFrom
  <2> QED
    BY <1>2, <2>4, <2>6, <2>9 DEF OriginInv
<1> QED
  BY <1>2, <1>3, <1>4 DEF OriginInv

LEMMA PodStepFrom ==
  ASSUME IInv, TypeOK', OriginInv, NEW p \in Pods, PodStep(p)
  PROVE  OriginInv'
<1>0. TypeOK /\ WellFormedQueue /\ QueueFrom /\ WireFrom /\ LateFrom /\ SentFrom
  BY DEF IInv, SafeInv, QueueInv, OriginInv
<1>1. CASE HubRegister(p) \/ HubUnregister(p) \/ HubSubscribe(p) \/ HubUnsubscribe(p)
  <2>1. UNCHANGED <<send, written, notified>> /\ \E t \in CmdType : Dequeue(p, t)
    BY <1>1 DEF HubRegister, HubUnregister, HubSubscribe, HubUnsubscribe, sessionVars, relayVars, CmdType
  <2>2. QueueFrom' /\ SentFrom'
    BY <1>0, <2>1, DequeueFrom, ItemsKept, SameFrom
  <2>3. UNCHANGED natsVars \/ \E gone \in SUBSET Channels : TeardownNATSSubs(p, gone)
    <3>1. DOMAIN channels[p] \in SUBSET Channels
      BY <1>0, ChannelMapFacts DEF TypeOK
    <3>2. CASE HubRegister(p) \/ HubSubscribe(p)
      BY <3>2 DEF HubRegister, HubSubscribe
    <3>3. CASE HubUnregister(p)
      <4>1. \A l : DOMAIN channels[p] \ DOMAIN l \in SUBSET Channels
        BY <3>1
      <4> QED
        BY <3>3, <4>1 DEF HubUnregister
    <3>4. CASE HubUnsubscribe(p)
      <4>1. \A l : DOMAIN channels[p] \ DOMAIN l \in SUBSET Channels
        BY <3>1
      <4> QED
        BY <3>4, <4>1 DEF HubUnsubscribe
    <3> QED
      BY <1>1, <3>2, <3>3, <3>4
  <2>4. CASE UNCHANGED natsVars
    <3>1. WireFrom' /\ LateFrom'
      BY <1>0, <2>1, <2>4 DEF natsVars, WireFrom, LateFrom, From
    <3> QED
      BY <2>2, <3>1 DEF OriginInv
  <2>5. CASE \E gone \in SUBSET Channels : TeardownNATSSubs(p, gone)
    BY <1>0, <2>1, <2>2, <2>5, TeardownFrom DEF OriginInv
  <2> QED
    BY <2>3, <2>4, <2>5
<1>2. CASE HubBroadcast(p)
  BY <1>2, BroadcastFrom
<1>3. CASE (\E ch \in Channels : NatsCallback(p, ch)) \/ LateCallback(p)
  BY <1>3, CallbackFrom
<1>4. CASE RelayDispatch(p)
  <2> DEFINE n == relayPos[p] + 1
  <2>1. /\ relayPos[p] \in Nat /\ notified \in Seq(Channels) /\ relayPos[p] < Len(notified)
        /\ Enqueue(p, BroadcastCmd(notified[n], n, FALSE))
        /\ UNCHANGED <<natsVars, send, written, notified>>
    BY <1>0, <1>4 DEF RelayDispatch, TypeOK, sessionVars
  <2>2. n \in 1..Len(notified) /\ n \in Nat /\ notified[n] \in Channels
    BY <2>1
  <2> HIDE DEF n
  <2>3. BroadcastCmd(notified[n], n, FALSE) \in Cmd
    BY <2>2, CmdTypes
  <2>4. CmdFrom(BroadcastCmd(notified[n], n, FALSE))
    BY <2>2 DEF CmdFrom, From, BroadcastCmd
  <2>5. QueueFrom'
    BY <1>0, <2>1, <2>3, <2>4, EnqueueFrom
  <2>6. WireFrom' /\ LateFrom'
    BY <1>0, <2>1 DEF natsVars, WireFrom, LateFrom, From
  <2>7. SentFrom'
    BY <1>0, <2>1, ItemsKept, SameFrom
  <2> QED
    BY <2>5, <2>6, <2>7 DEF OriginInv
<1>5. CASE RelayReconnect(p)
  <2>1. UNCHANGED <<cmds, wire, late, send, written, notified>>
    BY <1>5 DEF RelayReconnect, sessionVars, natsVars
  <2>2. SentFrom'
    BY <1>0, <2>1, ItemsKept, SameFrom
  <2>3. QueueFrom' /\ WireFrom' /\ LateFrom'
    BY <1>0, <2>1 DEF QueueFrom, WireFrom, LateFrom, CmdFrom, From
  <2> QED
    BY <2>2, <2>3 DEF OriginInv
<1>6. CASE CrashPod(p)
  <2>1. /\ cmds' = [cmds EXCEPT ![p] = <<>>] /\ wire' = [wire EXCEPT ![p] = [ch \in Channels |-> <<>>]]
        /\ late' = [late EXCEPT ![p] = {}] /\ UNCHANGED <<send, written, notified>>
    BY <1>6 DEF CrashPod
  <2>2. SentFrom'
    BY <1>0, <2>1, ItemsKept, SameFrom
  <2>3. QueueFrom'
    BY <1>0, <2>1 DEF QueueFrom, CmdFrom, From, TypeOK
  <2>4. WireFrom'
    BY <1>0, <2>1 DEF WireFrom, From, TypeOK
  <2>5. LateFrom'
    BY <1>0, <2>1 DEF LateFrom, From, TypeOK
  <2> QED
    BY <2>2, <2>3, <2>4, <2>5 DEF OriginInv
<1> QED
  BY <1>1, <1>2, <1>3, <1>4, <1>5, <1>6 DEF PodStep, HubStep

LEMMA SessionStepFrom ==
  ASSUME IInv, TypeOK', OriginInv, NEW c \in Clients, SessionStep(c)
  PROVE  OriginInv'
<1>0. TypeOK /\ QueueFrom /\ WireFrom /\ LateFrom /\ SentFrom /\ PodOf[c] \in Pods
  BY MapsAssumption DEF IInv, OriginInv
<1>1. CASE PumpPanic(c)
  <2>1. PodStep(PodOf[c])
    BY <1>1 DEF PumpPanic, PodStep
  <2> QED
    BY <1>0, <2>1, PodStepFrom
<1>2. ASSUME UNCHANGED <<natsVars, notified>>, QueueFrom', \A x \in Clients : SameItems(Delivered(x), Delivered(x)')
      PROVE  OriginInv'
  <2>1. SentFrom'
    BY <1>0, <1>2, SameFrom
  <2>2. WireFrom' /\ LateFrom'
    BY <1>0, <1>2 DEF natsVars, WireFrom, LateFrom, From
  <2> QED
    BY <1>2, <2>1, <2>2 DEF OriginInv
<1>3. ASSUME NEW m \in Cmd, m.type # "broadcast", Enqueue(PodOf[c], m),
             UNCHANGED <<natsVars, send, written, notified>>
      PROVE  OriginInv'
  <2>1. QueueFrom'
    BY <1>0, <1>3, EnqueueFrom DEF CmdFrom
  <2> QED
    BY <1>2, <1>3, <2>1, ItemsKept
<1>4. CASE Connect(c) \/ Unregister(c)
  <2>1. PICK t \in {"register", "unregister"} : Enqueue(PodOf[c], ClientCmd(t, c, None))
    BY <1>4 DEF Connect, Unregister
  <2>2. ClientCmd(t, c, None) \in Cmd /\ ClientCmd(t, c, None).type # "broadcast"
    BY CmdTypes DEF ClientCmd
  <2>3. UNCHANGED <<natsVars, send, written, notified>>
    BY <1>4 DEF Connect, Unregister, relayVars
  <2> QED
    BY <1>3, <2>1, <2>2, <2>3
<1>5. ASSUME NEW ch \in Channels, NEW t \in {"subscribe", "unsubscribe"}, ReadCommand(c, t, ch)
      PROVE  OriginInv'
  <2>1. ClientCmd(t, c, ch) \in Cmd /\ ClientCmd(t, c, ch).type # "broadcast"
    BY CmdTypes DEF ClientCmd
  <2>2. Enqueue(PodOf[c], ClientCmd(t, c, ch)) /\ UNCHANGED <<natsVars, send, written, notified>>
    BY <1>5 DEF ReadCommand, relayVars
  <2> QED
    BY <1>3, <2>1, <2>2
<1>6. ASSUME UNCHANGED <<cmds, natsVars, notified>>, \A x \in Clients : SameItems(Delivered(x), Delivered(x)')
      PROVE  OriginInv'
  <2>1. QueueFrom'
    BY <1>0, <1>6 DEF QueueFrom, CmdFrom, From
  <2> QED
    BY <1>2, <1>6, <2>1
<1>7. CASE \/ \E ch \in Channels : ReadDenied(c, ch)
           \/ DenyDone(c) \/ ReadError(c) \/ WriteEnd(c) \/ PumpStop(c) \/ WriteError(c)
  <2>1. UNCHANGED <<cmds, natsVars, send, written, notified>>
    BY <1>7 DEF ReadDenied, DenyDone, ReadError, WriteEnd, PumpStop, WriteError, relayVars
  <2> QED
    BY <1>6, <2>1, ItemsKept
<1>8. CASE WriteBegin(c)
  <2>1. UNCHANGED <<cmds, natsVars, notified>>
    BY <1>8 DEF WriteBegin, relayVars
  <2> QED
    BY <1>0, <1>6, <1>8, <2>1, WriteKeepsItems
<1> QED
  BY <1>1, <1>4, <1>5, <1>7, <1>8 DEF SessionStep

LEMMA OriginStep == IInv /\ TypeOK' /\ OriginInv /\ [Next]_vars => OriginInv'
<1> SUFFICES ASSUME IInv, TypeOK', OriginInv, [Next]_vars PROVE OriginInv'
  OBVIOUS
<1>1. ASSUME NEW ch \in Channels, Notify(ch) PROVE OriginInv'
  <2>1. UNCHANGED <<cmds, wire, late, send, written>> /\ notified' = Append(notified, ch)
    BY <1>1 DEF Notify, sessionVars, natsVars
  <2>2. notified \in Seq(Channels)
    BY DEF IInv, TypeOK
  <2>3. \A n \in 1..Len(notified) : n \in 1..Len(notified') /\ notified'[n] = notified[n]
    BY <2>1, <2>2
  <2>4. \A x, n, nats : From(x, n, nats) => From(x, n, nats)'
    BY <2>3 DEF From
  <2>5. QueueFrom'
    <3>1. \A m : CmdFrom(m) => CmdFrom(m)'
      BY <2>4 DEF CmdFrom
    <3> QED
      BY <2>1, <3>1 DEF OriginInv, QueueFrom
  <2>6. WireFrom' /\ LateFrom'
    BY <2>1, <2>4 DEF OriginInv, WireFrom, LateFrom
  <2>7. SentFrom'
    <3>1. \A c \in Clients : Delivered(c)' = Delivered(c)
      BY <2>1 DEF Delivered
    <3> QED
      BY <2>4, <3>1 DEF OriginInv, SentFrom
  <2> QED
    BY <2>5, <2>6, <2>7 DEF OriginInv
<1>2. CASE UNCHANGED vars
  <2>1. UNCHANGED <<cmds, wire, late, send, written, notified>>
    BY <1>2 DEF vars, sessionVars, natsVars, relayVars
  <2>2. \A c \in Clients : Delivered(c)' = Delivered(c)
    BY <2>1 DEF Delivered
  <2>3. SentFrom'
    BY <2>1, <2>2 DEF OriginInv, SentFrom, From
  <2>4. QueueFrom' /\ WireFrom' /\ LateFrom'
    BY <2>1 DEF OriginInv, QueueFrom, WireFrom, LateFrom, CmdFrom, From
  <2> QED
    BY <2>3, <2>4 DEF OriginInv
<1> QED
  BY <1>1, <1>2, PodStepFrom, SessionStepFrom DEF Next

\* Whatever a session is sent came on a channel of its tenant and was notified
\* there, or on a channel with the same NATS subject, however many queues, pods
\* and late callbacks it passed.
THEOREM TenantsAreIsolated == Spec => []OwnTenantOnly
<1>1. IInv /\ OriginInv => OwnTenantOnly
  BY LabelsAreOwn DEF OwnTenantOnly, OriginInv, SentFrom, From
<1>2. IInv => TypeOK
  BY DEF IInv
<1> QED
  BY <1>1, <1>2, OriginStart, OriginStep, InvariantHolds, PTL DEF Spec

\* When no two tenants' channels share a subject, no session is ever sent a
\* payload that was notified to another tenant.
THEOREM PayloadsStayWithTheirTenant ==
  ASSUME SubjectsSeparateTenants PROVE Spec => []OwnPayloadsOnly
<1>1. IInv /\ OriginInv => OwnPayloadsOnly
  <2> SUFFICES ASSUME IInv, OriginInv, NEW c \in Clients, NEW i \in 1..Len(Delivered(c))
               PROVE  ChannelTenant[notified[Delivered(c)[i].payload]] = TenantOf[c]
    BY DEF OwnPayloadsOnly
  <2> DEFINE d == Delivered(c)[i]
  <2>1. ChannelTenant[d.channel] = TenantOf[c]
    BY LabelsAreOwn
  <2>2. From(d.channel, d.payload, d.fromNATS)
    BY DEF OriginInv, SentFrom
  <2>3. d \in Item
    <3>1. TypeOK
      BY DEF IInv
    <3> QED
      BY <3>1, DeliveredType
  <2> HIDE DEF d
  <2>4. d.channel \in Channels
    BY <2>3 DEF Item
  <2>5. notified \in Seq(Channels)
    BY DEF IInv, TypeOK
  <2>6. notified[d.payload] \in Channels
    BY <2>2, <2>5 DEF From
  <2>7. SubjectOf[notified[d.payload]] = SubjectOf[d.channel]
    BY <2>2 DEF From
  <2>8. ChannelTenant[notified[d.payload]] = ChannelTenant[d.channel]
    BY <2>4, <2>6, <2>7 DEF SubjectsSeparateTenants
  <2> QED
    BY <2>1, <2>8 DEF d
<1>2. IInv => TypeOK
  BY DEF IInv
<1> QED
  BY <1>1, <1>2, OriginStart, OriginStep, InvariantHolds, PTL DEF Spec
=============================================================================
