---------------------------- MODULE RealtimeBridge ----------------------------
(***************************************************************************)
(* The NATS bridge of one tinai-realtime pod (natsbridge.Bridge), the part *)
(* of a WebSocket session that uses it, and the shutdown sequence of main. *)
(*                                                                         *)
(* Three kinds of goroutine share the bridge: the session handlers, the    *)
(* NATS callback, and the one that handles SIGTERM. The tenant map is under *)
(* Bridge.mu and each connection under Conn.mu, but the callback copies    *)
(* its targets under the first lock and sends under the second, so a       *)
(* target may have been unregistered and closed in between.                *)
(***************************************************************************)
EXTENDS Naturals, Sequences

CONSTANTS
  Conns,      \* bridge connections, one per WebSocket session
  Tenants,
  TenantOf,   \* the tenant of the session's JWT
  SendCap,    \* sendBufSize
  MaxEvents,  \* bound: messages published under tinai.>
  MaxReads,   \* bound: bridge frames each session sends
  None

ASSUME BridgeAssumption ==
  /\ TenantOf \in [Conns -> Tenants]
  /\ None \notin Tenants
  /\ SendCap \in Nat /\ MaxEvents \in Nat /\ MaxReads \in [Conns -> Nat]

VARIABLES
  tenants,   \* Bridge.tenants: a partial function, tenant -> subscribed conns
  open,      \* Conn.open
  closed,    \* the channel Conn.Send is closed
  buffer,    \* Conn.Send
  written,   \* events handed to the socket, in order
  wire,      \* messages pending on the subscription
  published, \* how many there have been
  event,     \* the message the callback is sending
  targets,   \* whom it has still to send it to
  handler,   \* where a session's handler goroutine is
  pump,      \* where its writePump goroutine is
  reads,
  sub,       \* Bridge.sub
  main       \* how far the shutdown sequence is

sessionVars == <<handler, pump, reads>>
natsVars == <<wire, published>>
callbackVars == <<event, targets>>
vars == <<tenants, open, closed, buffer, written, natsVars, callbackVars,
          sessionVars, sub, main>>

Event == [id : Nat, tenant : Tenants \cup {None}]

TypeOK ==
  /\ tenants \in UNION {[D -> SUBSET Conns] : D \in SUBSET Tenants}
  /\ open \in [Conns -> BOOLEAN]
  /\ closed \in [Conns -> BOOLEAN]
  /\ buffer \in [Conns -> Seq(Event)]
  /\ written \in [Conns -> Seq(Event)]
  /\ wire \in Seq(Event)
  /\ published \in Nat
  /\ event \in Event
  /\ targets \in SUBSET Conns
  /\ handler \in [Conns -> {"new", "reading", "unregister", "close", "ended", "panicked"}]
  /\ pump \in [Conns -> {"off", "running", "exited"}]
  /\ reads \in [Conns -> Nat]
  /\ sub \in {"active", "draining"}
  /\ main \in {"serving", "drained", "closed", "exited"}

Init ==
  /\ tenants = [t \in {} |-> {}]
  /\ open = [c \in Conns |-> FALSE]
  /\ closed = [c \in Conns |-> FALSE]
  /\ buffer = [c \in Conns |-> <<>>]
  /\ written = [c \in Conns |-> <<>>]
  /\ wire = <<>>
  /\ published = 0
  /\ event = [id |-> 0, tenant |-> None]
  /\ targets = {}
  /\ handler = [c \in Conns |-> "new"]
  /\ pump = [c \in Conns |-> "off"]
  /\ reads = [c \in Conns |-> 0]
  /\ sub = "active"
  /\ main = "serving"

Alive == main # "exited"

-----------------------------------------------------------------------------
(* The tenant map, and the connection. *)

Members(t) == IF t \in DOMAIN tenants THEN tenants[t] ELSE {}

\* Mutant of Without: an empty tenant set stays in the map.
WithoutKeepsEmpty(S, c) ==
  [t \in DOMAIN tenants |-> IF t \in S THEN tenants[t] \ {c} ELSE tenants[t]]

\* c leaves the tenants of S that list it; those left empty are deleted.
Without(S, c) ==
  [t \in {x \in DOMAIN tenants : x \in S => tenants[x] \ {c} # {}} |->
     IF t \in S THEN tenants[t] \ {c} ELSE tenants[t]]

\* Mutant of CloseAll: close(c.Send) without resetting `open'.
CloseAllStaysOpen(C) ==
  /\ UNCHANGED open
  /\ closed' = [c \in Conns |-> closed[c] \/ c \in C]

\* Conn.close of every connection in C: once, however often it is called.
CloseAll(C) ==
  /\ open' = [c \in Conns |-> open[c] /\ c \notin C]
  /\ closed' = [c \in Conns |-> closed[c] \/ (c \in C /\ open[c])]

-----------------------------------------------------------------------------
(* Session handler *)

\* bridge.Register, then both pumps start.
Connect(c) ==
  /\ Alive
  /\ handler[c] = "new"
  /\ handler' = [handler EXCEPT ![c] = "reading"]
  /\ pump' = [pump EXCEPT ![c] = "running"]
  /\ open' = [open EXCEPT ![c] = TRUE]
  /\ UNCHANGED <<tenants, closed, buffer, written, natsVars, callbackVars, reads,
                 sub, main>>

\* A frame that names tenant t reaches handleBridgeMessage.
ReadFrame(c) ==
  /\ Alive
  /\ handler[c] = "reading"
  /\ reads[c] < MaxReads[c]
  /\ reads' = [reads EXCEPT ![c] = @ + 1]

\* Mutant of Subscribe: the map is keyed by the connection, not by its tenant.
SubscribeByConn(c, t) ==
  /\ ReadFrame(c)
  /\ t = TenantOf[c]
  /\ tenants' = [x \in DOMAIN tenants \cup {c} |->
                   IF x = c THEN {c} ELSE tenants[x]]
  /\ UNCHANGED <<open, closed, buffer, written, natsVars, callbackVars, handler, pump,
                 sub, main>>

\* Mutant of Subscribe: any tenant will do.
SubscribeUnchecked(c, t) ==
  /\ ReadFrame(c)
  /\ tenants' = [x \in DOMAIN tenants \cup {t} |->
                   IF x = t THEN Members(t) \cup {c} ELSE tenants[x]]
  /\ UNCHANGED <<open, closed, buffer, written, natsVars, callbackVars, handler, pump,
                 sub, main>>

Subscribe(c, t) ==
  /\ ReadFrame(c)
  /\ t = TenantOf[c]
  /\ tenants' = [x \in DOMAIN tenants \cup {t} |->
                   IF x = t THEN Members(t) \cup {c} ELSE tenants[x]]
  /\ UNCHANGED <<open, closed, buffer, written, natsVars, callbackVars, handler, pump,
                 sub, main>>

Unsubscribe(c, t) ==
  /\ ReadFrame(c)
  /\ t = TenantOf[c]
  /\ tenants' = Without({t}, c)
  /\ UNCHANGED <<open, closed, buffer, written, natsVars, callbackVars, handler, pump,
                 sub, main>>

\* Another tenant: the handler writes a close frame and reads on. Should the
\* pump be inside a write, the socket library panics in whichever goroutine
\* comes second: the handler is unwound without its cleanup, or the process dies.
Denied(c, t) ==
  /\ ReadFrame(c)
  /\ t # TenantOf[c]
  /\ \/ UNCHANGED <<handler, main>>
     \/ /\ pump[c] = "running"
        /\ handler' = [handler EXCEPT ![c] = "panicked"]
        /\ UNCHANGED main
     \/ /\ pump[c] = "running"
        /\ main' = "exited"
        /\ UNCHANGED handler
  /\ UNCHANGED <<tenants, open, closed, buffer, written, natsVars, callbackVars, pump, sub>>

\* The socket fails or has been closed: readPump returns, `done' is closed.
ReadError(c) ==
  /\ Alive
  /\ handler[c] = "reading"
  /\ handler' = [handler EXCEPT ![c] = "unregister"]
  /\ UNCHANGED <<tenants, open, closed, buffer, written, natsVars, callbackVars, pump,
                 reads, sub, main>>

\* Unregister, the part under Bridge.mu ...
UnregisterRemove(c) ==
  /\ Alive
  /\ handler[c] = "unregister"
  /\ tenants' = Without({t \in DOMAIN tenants : c \in tenants[t]}, c)
  /\ handler' = [handler EXCEPT ![c] = "close"]
  /\ UNCHANGED <<open, closed, buffer, written, natsVars, callbackVars, pump, reads,
                 sub, main>>

\* ... and conn.close after it.
UnregisterClose(c) ==
  /\ Alive
  /\ handler[c] = "close"
  /\ CloseAll({c})
  /\ handler' = [handler EXCEPT ![c] = "ended"]
  /\ UNCHANGED <<tenants, buffer, written, natsVars, callbackVars, pump, reads, sub, main>>

-----------------------------------------------------------------------------
(* writePump *)

PumpWrite(c) ==
  /\ Alive
  /\ pump[c] = "running"
  /\ buffer[c] # <<>>
  /\ buffer' = [buffer EXCEPT ![c] = Tail(@)]
  /\ written' = [written EXCEPT ![c] = Append(@, Head(buffer[c]))]
  /\ UNCHANGED <<tenants, open, closed, natsVars, callbackVars, sessionVars, sub, main>>

\* Mutant of PumpStop: a closed Send does not end the pump.
PumpStopOnDoneOnly(c) ==
  /\ Alive
  /\ pump[c] = "running"
  /\ handler[c] \notin {"new", "reading"}
  /\ pump' = [pump EXCEPT ![c] = "exited"]
  /\ UNCHANGED <<tenants, open, closed, buffer, written, natsVars, callbackVars, handler,
                 reads, sub, main>>

\* Send is closed and drained, or `done' is closed.
PumpStop(c) ==
  /\ Alive
  /\ pump[c] = "running"
  /\ \/ closed[c] /\ buffer[c] = <<>>
     \/ handler[c] \notin {"new", "reading"}
  /\ pump' = [pump EXCEPT ![c] = "exited"]
  /\ UNCHANGED <<tenants, open, closed, buffer, written, natsVars, callbackVars, handler,
                 reads, sub, main>>

\* A write or a ping fails.
PumpError(c) ==
  /\ Alive
  /\ pump[c] = "running"
  /\ pump' = [pump EXCEPT ![c] = "exited"]
  /\ UNCHANGED <<tenants, open, closed, buffer, written, natsVars, callbackVars, handler,
                 reads, sub, main>>

-----------------------------------------------------------------------------
(* NATS *)

\* A service publishes under tinai.>; None stands for a payload without a tenant.
Publish(t) ==
  /\ Alive
  /\ sub = "active"
  /\ published < MaxEvents
  /\ published' = published + 1
  /\ wire' = Append(wire, [id |-> published + 1, tenant |-> t])
  /\ UNCHANGED <<tenants, open, closed, buffer, written, callbackVars, sessionVars, sub,
                 main>>

\* handleNATSMessage up to RUnlock: the targets are a copy.
CallbackSnapshot ==
  /\ Alive
  /\ targets = {}
  /\ wire # <<>>
  /\ event' = Head(wire)
  /\ targets' = Members(Head(wire).tenant)
  /\ wire' = Tail(wire)
  /\ UNCHANGED <<tenants, open, closed, buffer, written, published, sessionVars, sub,
                 main>>

\* conn.send: dropped when the connection is closed or its buffer is full.
CallbackSend(c) ==
  /\ Alive
  /\ c \in targets
  /\ targets' = targets \ {c}
  /\ buffer' = IF open[c] /\ Len(buffer[c]) < SendCap
               THEN [buffer EXCEPT ![c] = Append(@, event)]
               ELSE buffer
  /\ UNCHANGED <<tenants, open, closed, written, natsVars, event, sessionVars, sub, main>>

-----------------------------------------------------------------------------
(* SIGTERM: Bridge.Shutdown, then the HTTP server, then the process exits. *)

\* Drain ends the subscription at the server; what is pending is still handled.
ShutdownDrain ==
  /\ main = "serving"
  /\ main' = "drained"
  /\ sub' = "draining"
  /\ UNCHANGED <<tenants, open, closed, buffer, written, natsVars, callbackVars,
                 sessionVars>>

\* Under Bridge.mu: close the connections the map lists and empty it.
ShutdownClose ==
  /\ main = "drained"
  /\ main' = "closed"
  /\ CloseAll(UNION {tenants[t] : t \in DOMAIN tenants})
  /\ tenants' = [t \in {} |-> {}]
  /\ UNCHANGED <<buffer, written, natsVars, callbackVars, sessionVars, sub>>

\* srv.Shutdown makes ListenAndServe return, and main with it.
Exit ==
  /\ main = "closed"
  /\ main' = "exited"
  /\ UNCHANGED <<tenants, open, closed, buffer, written, natsVars, callbackVars,
                 sessionVars, sub>>

-----------------------------------------------------------------------------
HandlerStep(c) ==
  \/ Connect(c)
  \/ \E t \in Tenants : Subscribe(c, t) \/ Unsubscribe(c, t) \/ Denied(c, t)
  \/ ReadError(c)
  \/ UnregisterRemove(c)
  \/ UnregisterClose(c)

PumpStep(c) == PumpWrite(c) \/ PumpStop(c) \/ PumpError(c)

CallbackStep == CallbackSnapshot \/ \E c \in Conns : CallbackSend(c)

Shutdown == ShutdownDrain \/ ShutdownClose \/ Exit

Next ==
  \/ \E c \in Conns : HandlerStep(c) \/ PumpStep(c)
  \/ \E t \in Tenants \cup {None} : Publish(t)
  \/ CallbackStep
  \/ Shutdown

\* Runnable goroutines run, and a socket closed by its pump ends ReadMessage.
\* SIGTERM, peers and publishers owe nothing; nor does anyone owe Exit.
Fairness ==
  /\ \A c \in Conns :
       /\ WF_vars(ReadError(c) /\ pump[c] = "exited")
       /\ WF_vars(UnregisterRemove(c))
       /\ WF_vars(UnregisterClose(c))
       /\ WF_vars(PumpWrite(c))
       /\ SF_vars(PumpStop(c))
  /\ WF_vars(CallbackStep)

Spec == Init /\ [][Next]_vars

FairSpec == Spec /\ Fairness

-----------------------------------------------------------------------------
(* Properties *)

\* A closed Send never receives: a send there would panic the NATS callback and
\* with it the pod. The callback's targets may well be closed by then; what
\* protects it is that `open' never says otherwise, whoever closed first.
NothingAfterClose ==
  [][\A c \in Conns : closed[c] => Len(buffer'[c]) <= Len(buffer[c])]_vars

Delivered(c) == written[c] \o buffer[c]

\* A session's events are its own tenant's, in the order of publication and
\* without repetition, whatever was dropped.
OwnEventsInOrder ==
  \A c \in Conns :
    /\ \A i \in 1..Len(Delivered(c)) : Delivered(c)[i].tenant = TenantOf[c]
    /\ \A i, j \in 1..Len(Delivered(c)) : i < j => Delivered(c)[i].id < Delivered(c)[j].id

\* A session that has ended is in no fan-out set, not even when its last
\* subscribe came after Shutdown had emptied the map; and no set is empty.
NoGhosts ==
  \A t \in DOMAIN tenants :
    /\ tenants[t] # {}
    /\ \A c \in tenants[t] : handler[c] \in {"reading", "unregister", "panicked"}

\* A connection that Shutdown closed, or whose pump stopped, comes to its end
\* unless the process exits first or its handler has panicked.
ClosedSessionsEnd ==
  \A c \in Conns :
    (closed[c] \/ pump[c] = "exited")
      ~> (handler[c] \in {"ended", "panicked"} /\ pump[c] = "exited") \/ ~Alive

\* What the comments of Shutdown say: it "closes all registered connections".
ShutdownClosesAll ==
  [][main = "drained" /\ main' = "closed" => \A c \in Conns : ~open'[c]]_vars
=============================================================================
