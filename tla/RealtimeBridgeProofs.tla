------------------------- MODULE RealtimeBridgeProofs -------------------------
(***************************************************************************)
(* Safety of the NATS bridge for any number of connections and tenants,    *)
(* any capacity of the Send buffers and any number of events.              *)
(***************************************************************************)
EXTENDS RealtimeBridge, TLAPS

-----------------------------------------------------------------------------
(* The inductive invariant.                                                *)

Increasing(s)  == \A i, j \in 1..Len(s) : i < j => s[i].id < s[j].id
Precedes(s, t) == \A i \in 1..Len(s), j \in 1..Len(t) : s[i].id < t[j].id
UpTo(s, n)     == \A i \in 1..Len(s) : s[i].id <= n
Under(s, n)    == \A i \in 1..Len(s) : s[i].id < n
Of(s, t)       == \A i \in 1..Len(s) : s[i].tenant = t

\* A channel that is closed belongs to a connection that is not open, and that
\* will not be opened again.
ConnInv == \A c \in Conns : closed[c] => ~open[c] /\ handler[c] # "new"

MapInv ==
  \A t \in DOMAIN tenants :
    /\ tenants[t] # {}
    /\ \A c \in tenants[t] : TenantOf[c] = t /\ handler[c] \in {"reading", "unregister", "panicked"}

\* What is pending comes after what the callback is sending.
WireInv ==
  /\ Increasing(wire) /\ UpTo(wire, published)
  /\ event.id <= published /\ \A i \in 1..Len(wire) : event.id < wire[i].id

\* What a session has got and will get next are ordered, and older than the
\* event that has still to be sent to it.
StreamInv ==
  \A c \in Conns :
    /\ Increasing(written[c]) /\ Increasing(buffer[c]) /\ Precedes(written[c], buffer[c])
    /\ Of(written[c], TenantOf[c]) /\ Of(buffer[c], TenantOf[c])
    /\ UpTo(written[c], event.id) /\ UpTo(buffer[c], event.id)
    /\ c \in targets => /\ event.tenant = TenantOf[c]
                        /\ Under(written[c], event.id) /\ Under(buffer[c], event.id)

IInv == TypeOK /\ ConnInv /\ MapInv /\ WireInv /\ StreamInv

-----------------------------------------------------------------------------
(* Sequences and partial functions.                                        *)

LEMMA AppendFacts ==
  ASSUME NEW s \in Seq(Event), NEW e \in Event
  PROVE  /\ Append(s, e) \in Seq(Event) /\ Len(Append(s, e)) = Len(s) + 1
         /\ \A i \in 1..Len(s) : Append(s, e)[i] = s[i]
         /\ Append(s, e)[Len(s) + 1] = e
         /\ \A i \in 1..Len(Append(s, e)) : i \in 1..Len(s) \/ i = Len(s) + 1
  OBVIOUS

LEMMA TailFacts ==
  ASSUME NEW s \in Seq(Event), s # <<>>
  PROVE  /\ Head(s) \in Event /\ Head(s) = s[1] /\ 1 \in 1..Len(s)
         /\ Tail(s) \in Seq(Event) /\ Len(Tail(s)) = Len(s) - 1
         /\ \A i \in 1..Len(Tail(s)) : Tail(s)[i] = s[i + 1] /\ i + 1 \in 1..Len(s)
  OBVIOUS

Maps == UNION {[D -> SUBSET Conns] : D \in SUBSET Tenants}

LEMMA IsMap ==
  ASSUME NEW m, DOMAIN m \subseteq Tenants, m = [t \in DOMAIN m |-> m[t]],
         \A t \in DOMAIN m : m[t] \subseteq Conns
  PROVE  m \in Maps
<1>1. m \in [DOMAIN m -> SUBSET Conns]
  OBVIOUS
<1> QED
  BY <1>1 DEF Maps

LEMMA MapFacts ==
  ASSUME TypeOK
  PROVE  DOMAIN tenants \subseteq Tenants /\ \A t \in DOMAIN tenants : tenants[t] \subseteq Conns
<1>1. PICK D \in SUBSET Tenants : tenants \in [D -> SUBSET Conns]
  BY DEF TypeOK
<1> QED
  BY <1>1

\* Without only takes c out, and out of every set of S.
LEMMA WithoutFacts ==
  ASSUME TypeOK, NEW S, NEW c \in Conns
  PROVE  /\ Without(S, c) \in Maps
         /\ DOMAIN Without(S, c) \subseteq DOMAIN tenants
         /\ \A t \in DOMAIN Without(S, c) :
              /\ Without(S, c)[t] = IF t \in S THEN tenants[t] \ {c} ELSE tenants[t]
              /\ t \in S => tenants[t] \ {c} # {}
<1> DEFINE m == Without(S, c)
<1>1. /\ DOMAIN m = {x \in DOMAIN tenants : x \in S => tenants[x] \ {c} # {}}
      /\ m = [t \in DOMAIN m |-> m[t]]
      /\ \A t \in DOMAIN m : m[t] = IF t \in S THEN tenants[t] \ {c} ELSE tenants[t]
  BY DEF Without
<1>2. DOMAIN tenants \subseteq Tenants /\ \A t \in DOMAIN tenants : tenants[t] \subseteq Conns
  BY MapFacts
<1> HIDE DEF m
<1>3. m \in Maps
  BY <1>1, <1>2, IsMap
<1> QED
  BY <1>1, <1>3 DEF m

LEMMA WithoutStep ==
  ASSUME TypeOK, NEW S, NEW c \in Conns, tenants' = Without(S, c)
  PROVE  \A x \in DOMAIN tenants' :
           /\ x \in DOMAIN tenants
           /\ tenants'[x] = IF x \in S THEN tenants[x] \ {c} ELSE tenants[x]
           /\ x \in S => tenants[x] \ {c} # {}
<1> DEFINE m == Without(S, c)
<1>1. /\ DOMAIN m \subseteq DOMAIN tenants
      /\ \A x \in DOMAIN m : /\ m[x] = IF x \in S THEN tenants[x] \ {c} ELSE tenants[x]
                             /\ x \in S => tenants[x] \ {c} # {}
  BY WithoutFacts
<1>2. tenants' = m
  OBVIOUS
<1> HIDE DEF m
<1> QED
  BY <1>1, <1>2

-----------------------------------------------------------------------------
(* Connections and the tenant map.                                         *)

streamVars == <<buffer, written, natsVars, callbackVars>>

\* A frame that changes nothing but the tenant map.
LEMMA FrameType ==
  ASSUME TypeOK, NEW c \in Conns, ReadFrame(c), tenants' \in Maps,
         UNCHANGED <<open, closed, buffer, written, wire, published, event, targets, handler, pump,
                     sub, main>>
  PROVE  TypeOK'
<1>1. reads' \in [Conns -> Nat]
  BY DEF TypeOK, ReadFrame
<1> QED
  BY <1>1 DEF TypeOK, Maps

LEMMA TypeStep ==
  ASSUME IInv, Next
  PROVE  TypeOK'
<1> USE BridgeAssumption DEF natsVars, callbackVars, sessionVars
<1>0. TypeOK
  BY DEF IInv
<1>1. ASSUME NEW c \in Conns, Connect(c) PROVE TypeOK'
  BY <1>0, <1>1 DEF TypeOK, Connect
<1>2. ASSUME NEW c \in Conns, NEW t \in Tenants, Subscribe(c, t) PROVE TypeOK'
  <2> DEFINE m == [x \in DOMAIN tenants \cup {t} |-> IF x = t THEN Members(t) \cup {c} ELSE tenants[x]]
  <2>1. DOMAIN tenants \subseteq Tenants /\ \A x \in DOMAIN tenants : tenants[x] \subseteq Conns
    BY <1>0, MapFacts
  <2>2. Members(t) \subseteq Conns
    BY <2>1 DEF Members
  <2>3. DOMAIN m = DOMAIN tenants \cup {t} /\ m = [x \in DOMAIN m |-> m[x]]
    OBVIOUS
  <2>4. \A x \in DOMAIN m : m[x] \subseteq Conns
    BY <2>1, <2>2
  <2>5. tenants' = m
    BY <1>2 DEF Subscribe
  <2> HIDE DEF m
  <2>6. tenants' \in Maps
    BY <2>1, <2>3, <2>4, <2>5, IsMap
  <2> QED
    BY <1>0, <1>2, <2>6, FrameType DEF Subscribe
<1>3. ASSUME NEW c \in Conns, NEW t \in Tenants, Unsubscribe(c, t) PROVE TypeOK'
  <2>1. tenants' \in Maps
    BY <1>0, <1>3, WithoutFacts DEF Unsubscribe
  <2> QED
    BY <1>0, <1>3, <2>1, FrameType DEF Unsubscribe
<1>4. ASSUME NEW c \in Conns, NEW t \in Tenants, Denied(c, t) PROVE TypeOK'
  <2>1. reads' \in [Conns -> Nat]
    BY <1>0, <1>4 DEF TypeOK, Denied, ReadFrame
  <2>2. handler' \in [Conns -> {"new", "reading", "unregister", "close", "ended", "panicked"}]
    BY <1>0, <1>4 DEF TypeOK, Denied
  <2>3. main' \in {"serving", "drained", "closed", "exited"}
    BY <1>0, <1>4 DEF TypeOK, Denied
  <2> QED
    BY <1>0, <1>4, <2>1, <2>2, <2>3 DEF TypeOK, Denied
<1>5. ASSUME NEW c \in Conns, ReadError(c) PROVE TypeOK'
  BY <1>0, <1>5 DEF TypeOK, ReadError
<1>6. ASSUME NEW c \in Conns, UnregisterRemove(c) PROVE TypeOK'
  <2>1. tenants' \in Maps
    BY <1>0, <1>6, WithoutFacts DEF UnregisterRemove
  <2> QED
    BY <1>0, <1>6, <2>1 DEF TypeOK, Maps, UnregisterRemove
<1>7. ASSUME NEW c \in Conns, UnregisterClose(c) PROVE TypeOK'
  BY <1>0, <1>7 DEF TypeOK, UnregisterClose, CloseAll
<1>8. ASSUME NEW c \in Conns, PumpWrite(c) PROVE TypeOK'
  <2>1. /\ Tail(buffer[c]) \in Seq(Event)
        /\ Append(written[c], Head(buffer[c])) \in Seq(Event)
    BY <1>0, <1>8, TailFacts, AppendFacts DEF TypeOK, PumpWrite
  <2> QED
    BY <1>0, <1>8, <2>1 DEF TypeOK, PumpWrite
<1>9. ASSUME NEW c \in Conns, PumpStop(c) \/ PumpError(c) PROVE TypeOK'
  BY <1>0, <1>9 DEF TypeOK, PumpStop, PumpError
<1>10. ASSUME NEW t \in Tenants \cup {None}, Publish(t) PROVE TypeOK'
  <2>1. [id |-> published + 1, tenant |-> t] \in Event
    BY <1>0 DEF TypeOK, Event
  <2>2. Append(wire, [id |-> published + 1, tenant |-> t]) \in Seq(Event)
    BY <1>0, <2>1, AppendFacts DEF TypeOK
  <2> QED
    BY <1>0, <1>10, <2>2 DEF TypeOK, Publish
<1>11. CASE CallbackSnapshot
  <2>1. Head(wire) \in Event /\ Tail(wire) \in Seq(Event)
    BY <1>0, <1>11, TailFacts DEF TypeOK, CallbackSnapshot
  <2>2. Members(Head(wire).tenant) \subseteq Conns
    BY <1>0, MapFacts DEF Members
  <2> QED
    BY <1>0, <1>11, <2>1, <2>2 DEF TypeOK, CallbackSnapshot
<1>12. ASSUME NEW c \in Conns, CallbackSend(c) PROVE TypeOK'
  <2>1. Append(buffer[c], event) \in Seq(Event)
    BY <1>0, AppendFacts DEF TypeOK
  <2> QED
    BY <1>0, <1>12, <2>1 DEF TypeOK, CallbackSend
<1>13. CASE ShutdownDrain
  BY <1>0, <1>13 DEF TypeOK, ShutdownDrain
<1>14. CASE ShutdownClose
  <2>1. DOMAIN tenants' = {} /\ tenants' = [t \in DOMAIN tenants' |-> tenants'[t]]
    BY <1>14 DEF ShutdownClose
  <2>2. tenants' \in Maps
    BY <2>1, IsMap
  <2> QED
    BY <1>0, <1>14, <2>2 DEF TypeOK, Maps, ShutdownClose, CloseAll
<1>15. CASE Exit
  BY <1>0, <1>15 DEF TypeOK, Exit
<1> QED
  BY <1>1, <1>2, <1>3, <1>4, <1>5, <1>6, <1>7, <1>8, <1>9, <1>10, <1>11, <1>12, <1>13, <1>14, <1>15
     DEF Next, HandlerStep, PumpStep, CallbackStep, Shutdown

\* Nothing reopens, and nothing closes what stays open.
LEMMA ConnStep ==
  ASSUME IInv, Next
  PROVE  ConnInv'
<1> USE DEF ConnInv
<1>0. ConnInv /\ TypeOK /\ TypeOK'
  BY TypeStep DEF IInv
<1>1. ASSUME NEW c \in Conns, HandlerStep(c) PROVE ConnInv'
  BY <1>0, <1>1, ZenonT(30) DEF TypeOK, HandlerStep, Connect, Subscribe, Unsubscribe, Denied, ReadFrame, ReadError,
                    UnregisterRemove, UnregisterClose, CloseAll
<1>2. ASSUME NEW c \in Conns, PumpStep(c) PROVE ConnInv'
  BY <1>0, <1>2 DEF PumpStep, PumpWrite, PumpStop, PumpError, sessionVars
<1>3. ASSUME NEW t \in Tenants \cup {None}, Publish(t) PROVE ConnInv'
  BY <1>0, <1>3 DEF Publish, sessionVars
<1>4. CASE CallbackStep
  BY <1>0, <1>4 DEF CallbackStep, CallbackSnapshot, CallbackSend, sessionVars
<1>5. CASE ShutdownDrain \/ Exit
  BY <1>0, <1>5 DEF ShutdownDrain, Exit, sessionVars
<1>6. CASE ShutdownClose
  <2>1. handler' = handler
    BY <1>6 DEF ShutdownClose, sessionVars
  <2> DEFINE C == UNION {tenants[t] : t \in DOMAIN tenants}
  <2>2. CloseAll(C)
    BY <1>6 DEF ShutdownClose
  <2> HIDE DEF C
  <2>3. \A c \in Conns : /\ open'[c] = (open[c] /\ c \notin C)
                         /\ closed'[c] = (closed[c] \/ (c \in C /\ open[c]))
    BY <2>2 DEF CloseAll
  <2>4. ASSUME NEW c \in Conns, open[c] PROVE handler[c] # "new" \/ c \notin C
    BY <1>0 DEF IInv, MapInv, C
  <2> QED
    BY <1>0, <2>1, <2>3, <2>4 DEF TypeOK
<1> QED
  BY <1>1, <1>2, <1>3, <1>4, <1>5, <1>6 DEF Next, Shutdown

\* A connection enters the map while it reads, under its own tenant, and leaves
\* it before it ends.
LEMMA MapStep ==
  ASSUME IInv, Next
  PROVE  MapInv'
<1> USE DEF MapInv
<1>0. MapInv /\ TypeOK
  BY DEF IInv
<1>1. ASSUME NEW c \in Conns, Connect(c) \/ ReadError(c) \/ UnregisterClose(c) PROVE MapInv'
  <2>1. tenants' = tenants
    BY <1>1 DEF Connect, ReadError, UnregisterClose
  <2>2. \A d \in Conns : handler[d] \in {"reading", "unregister", "panicked"}
                           => handler'[d] \in {"reading", "unregister", "panicked"}
    BY <1>0, <1>1 DEF TypeOK, Connect, ReadError, UnregisterClose
  <2> QED
    BY <1>0, <2>1, <2>2, MapFacts
<1>2. ASSUME NEW c \in Conns, NEW t \in Tenants, Subscribe(c, t) PROVE MapInv'
  <2>1. handler' = handler /\ handler[c] = "reading" /\ t = TenantOf[c]
    BY <1>2 DEF Subscribe, ReadFrame
  <2>2. DOMAIN tenants' = DOMAIN tenants \cup {t}
    BY <1>2 DEF Subscribe
  <2>3. \A x \in DOMAIN tenants' : tenants'[x] = IF x = t THEN Members(t) \cup {c} ELSE tenants[x]
    BY <1>2, <2>2 DEF Subscribe
  <2> QED
    BY <1>0, <2>1, <2>2, <2>3 DEF Members
<1>3. ASSUME NEW c \in Conns, NEW t \in Tenants, Unsubscribe(c, t) PROVE MapInv'
  <2>1. handler' = handler /\ tenants' = Without({t}, c)
    BY <1>3 DEF Unsubscribe, ReadFrame
  <2>2. \A x \in DOMAIN tenants' : /\ x \in DOMAIN tenants
                                   /\ tenants'[x] = IF x \in {t} THEN tenants[x] \ {c} ELSE tenants[x]
                                   /\ x \in {t} => tenants[x] \ {c} # {}
    BY <1>0, <2>1, WithoutStep
  <2> QED
    <3>1. ASSUME NEW x \in DOMAIN tenants' PROVE tenants'[x] # {} /\ tenants'[x] \subseteq tenants[x]
      BY <1>0, <2>2, <3>1
    <3> QED
      BY <1>0, <2>1, <2>2, <3>1
<1>4. ASSUME NEW c \in Conns, NEW t \in Tenants, Denied(c, t) PROVE MapInv'
  <2>1. tenants' = tenants
    BY <1>4 DEF Denied
  <2>2. \A d \in Conns : handler'[d] = handler[d] \/ handler'[d] = "panicked"
    BY <1>0, <1>4 DEF TypeOK, Denied
  <2> QED
    BY <1>0, <2>1, <2>2, MapFacts
<1>5. ASSUME NEW c \in Conns, UnregisterRemove(c) PROVE MapInv'
  <2> DEFINE S == {t \in DOMAIN tenants : c \in tenants[t]}
  <2>1. tenants' = Without(S, c)
    BY <1>5 DEF UnregisterRemove
  <2> HIDE DEF S
  <2>2. \A d \in Conns : d # c => handler'[d] = handler[d]
    BY <1>0, <1>5 DEF TypeOK, UnregisterRemove
  <2>3. \A t \in DOMAIN tenants' : /\ t \in DOMAIN tenants
                                   /\ tenants'[t] = IF t \in S THEN tenants[t] \ {c} ELSE tenants[t]
                                   /\ t \in S => tenants[t] \ {c} # {}
    BY <1>0, <2>1, WithoutStep
  <2>4. \A t \in DOMAIN tenants' : c \notin tenants'[t]
    BY <2>3 DEF S
  <2> QED
    BY <1>0, <2>2, <2>3, <2>4, MapFacts
<1>6. CASE UNCHANGED <<tenants, handler>>
  BY <1>0, <1>6
<1>7. CASE ShutdownClose
  BY <1>7 DEF ShutdownClose
<1>8. ASSUME NEW c \in Conns, PumpStep(c) PROVE UNCHANGED <<tenants, handler>>
  BY <1>8 DEF PumpStep, PumpWrite, PumpStop, PumpError, sessionVars
<1>9. ASSUME CallbackStep \/ ShutdownDrain \/ Exit \/ \E t \in Tenants \cup {None} : Publish(t)
      PROVE  UNCHANGED <<tenants, handler>>
  BY <1>9 DEF CallbackStep, CallbackSnapshot, CallbackSend, ShutdownDrain, Exit, Publish, sessionVars
<1> QED
  BY <1>1, <1>2, <1>3, <1>4, <1>5, <1>6, <1>7, <1>8, <1>9 DEF Next, HandlerStep, Shutdown

-----------------------------------------------------------------------------
(* The order of events.                                                    *)

LEMMA Numbered ==
  ASSUME NEW s \in Seq(Event), NEW i \in 1..Len(s)
  PROVE  s[i] \in Event /\ s[i].id \in Nat
<1>1. s[i] \in Event
  OBVIOUS
<1> QED
  BY <1>1 DEF Event

\* An event newer than all of s, at the end of s.
LEMMA Extend ==
  ASSUME NEW s \in Seq(Event), NEW e \in Event, Under(s, e.id)
  PROVE  /\ Increasing(s) => Increasing(Append(s, e))
         /\ UpTo(Append(s, e), e.id)
         /\ \A t \in Seq(Event) : Precedes(t, s) /\ Under(t, e.id) => Precedes(t, Append(s, e))
<1> DEFINE a == Append(s, e)
<1>1. /\ a \in Seq(Event) /\ Len(s) \in Nat
      /\ \A i \in 1..Len(s) : a[i] = s[i]
      /\ a[Len(s) + 1] = e
      /\ \A i \in 1..Len(a) : i \in 1..Len(s) \/ i = Len(s) + 1
  BY AppendFacts
<1>2. e.id \in Nat /\ \A i \in 1..Len(s) : s[i].id \in Nat
  BY Numbered DEF Event
<1> HIDE DEF a
<1>3. ASSUME Increasing(s) PROVE Increasing(a)
  BY <1>1, <1>2, <1>3 DEF Increasing, Under
<1>4. UpTo(a, e.id)
  BY <1>1, <1>2 DEF UpTo, Under
<1>5. ASSUME NEW t \in Seq(Event), Precedes(t, s), Under(t, e.id) PROVE Precedes(t, a)
  BY <1>1, <1>2, <1>5 DEF Precedes, Under
<1> QED
  BY <1>3, <1>4, <1>5 DEF a

\* The head of t moves to the end of s.
LEMMA Shift ==
  ASSUME NEW s \in Seq(Event), NEW t \in Seq(Event), t # <<>>,
         Increasing(s), Increasing(t), Precedes(s, t)
  PROVE  /\ Increasing(Append(s, Head(t))) /\ Increasing(Tail(t))
         /\ Precedes(Append(s, Head(t)), Tail(t))
         /\ \A x : Of(s, x) /\ Of(t, x) => Of(Append(s, Head(t)), x) /\ Of(Tail(t), x)
         /\ \A n : UpTo(s, n) /\ UpTo(t, n) => UpTo(Append(s, Head(t)), n) /\ UpTo(Tail(t), n)
         /\ \A n : Under(s, n) /\ Under(t, n) => Under(Append(s, Head(t)), n) /\ Under(Tail(t), n)
<1> DEFINE a == Append(s, Head(t))
           b == Tail(t)
<1>1. /\ Head(t) \in Event /\ Head(t) = t[1] /\ 1 \in 1..Len(t)
      /\ b \in Seq(Event) /\ \A i \in 1..Len(b) : b[i] = t[i + 1] /\ i + 1 \in 1..Len(t)
      /\ Len(s) \in Nat /\ Len(t) \in Nat /\ Len(b) \in Nat
  BY TailFacts
<1>2. /\ \A i \in 1..Len(s) : a[i] = s[i]
      /\ a[Len(s) + 1] = t[1]
      /\ \A i \in 1..Len(a) : i \in 1..Len(s) \/ i = Len(s) + 1
  BY <1>1, AppendFacts
<1>3. \A i \in 1..Len(s), j \in 1..Len(t) : s[i].id \in Nat /\ t[j].id \in Nat
  BY Numbered
<1> HIDE DEF a, b
<1>4. Increasing(a)
  <2> SUFFICES ASSUME NEW i \in 1..Len(a), NEW j \in 1..Len(a), i < j PROVE a[i].id < a[j].id
    BY DEF Increasing
  <2>1. i \in 1..Len(s)
    BY <1>1, <1>2
  <2>2. CASE j \in 1..Len(s)
    BY <1>2, <2>1, <2>2 DEF Increasing
  <2>3. CASE j = Len(s) + 1
    BY <1>1, <1>2, <2>1, <2>3 DEF Precedes
  <2> QED
    BY <1>2, <2>2, <2>3
<1>5. Increasing(b)
  <2> SUFFICES ASSUME NEW i \in 1..Len(b), NEW j \in 1..Len(b), i < j PROVE b[i].id < b[j].id
    BY DEF Increasing
  <2>1. b[i] = t[i + 1] /\ b[j] = t[j + 1] /\ i + 1 \in 1..Len(t) /\ j + 1 \in 1..Len(t) /\ i + 1 < j + 1
    BY <1>1
  <2> QED
    BY <2>1 DEF Increasing
<1>6. Precedes(a, b)
  <2> SUFFICES ASSUME NEW i \in 1..Len(a), NEW j \in 1..Len(b) PROVE a[i].id < b[j].id
    BY DEF Precedes
  <2>1. b[j] = t[j + 1] /\ j + 1 \in 1..Len(t) /\ 1 < j + 1
    BY <1>1
  <2>2. CASE i \in 1..Len(s)
    BY <1>2, <2>1, <2>2 DEF Precedes
  <2>3. CASE i = Len(s) + 1
    BY <1>1, <1>2, <2>1, <2>3 DEF Increasing
  <2> QED
    BY <1>2, <2>2, <2>3
<1>7. \A i \in 1..Len(a) : (\E k \in 1..Len(s) : a[i] = s[k]) \/ a[i] = t[1]
  BY <1>2
<1>8. ASSUME NEW x, Of(s, x), Of(t, x) PROVE Of(a, x) /\ Of(b, x)
  BY <1>1, <1>7, <1>8 DEF Of
<1>9. ASSUME NEW n, UpTo(s, n), UpTo(t, n) PROVE UpTo(a, n) /\ UpTo(b, n)
  BY <1>1, <1>7, <1>9 DEF UpTo
<1>10. ASSUME NEW n, Under(s, n), Under(t, n) PROVE Under(a, n) /\ Under(b, n)
  BY <1>1, <1>7, <1>10 DEF Under
<1> QED
  BY <1>4, <1>5, <1>6, <1>8, <1>9, <1>10 DEF a, b

LEMMA WireStep ==
  ASSUME IInv, Next
  PROVE  WireInv'
<1>0. WireInv /\ TypeOK /\ wire \in Seq(Event) /\ published \in Nat /\ event.id \in Nat
  BY DEF IInv, TypeOK, Event
<1>1. ASSUME NEW t \in Tenants \cup {None}, Publish(t) PROVE WireInv'
  <2> DEFINE e == [id |-> published + 1, tenant |-> t]
  <2>1. e \in Event /\ e.id = published + 1
    BY <1>0 DEF Event
  <2>2. wire' = Append(wire, e) /\ published' = published + 1 /\ event' = event
    BY <1>1 DEF Publish, callbackVars
  <2> HIDE DEF e
  <2>3. /\ \A i \in 1..Len(wire) : wire'[i] = wire[i] /\ wire[i].id \in Nat
        /\ wire'[Len(wire) + 1] = e
        /\ \A i \in 1..Len(wire') : i \in 1..Len(wire) \/ i = Len(wire) + 1
    BY <1>0, <2>1, <2>2, AppendFacts, Numbered
  <2>4. Under(wire, e.id)
    BY <1>0, <2>1, <2>3 DEF Under, WireInv, UpTo
  <2>5. Increasing(wire') /\ UpTo(wire', published')
    BY <1>0, <2>1, <2>2, <2>4, Extend DEF WireInv
  <2>6. event'.id <= published' /\ \A i \in 1..Len(wire') : event'.id < wire'[i].id
    BY <1>0, <2>1, <2>2, <2>3 DEF WireInv
  <2> QED
    BY <2>5, <2>6 DEF WireInv
<1>2. CASE CallbackSnapshot
  <2>1. wire # <<>> /\ wire' = Tail(wire) /\ event' = Head(wire) /\ published' = published
    BY <1>2 DEF CallbackSnapshot
  <2>2. /\ Head(wire) = wire[1] /\ 1 \in 1..Len(wire) /\ Len(wire) \in Nat
        /\ \A i \in 1..Len(wire') : wire'[i] = wire[i + 1] /\ i + 1 \in 1..Len(wire)
    BY <1>0, <2>1, TailFacts
  <2>3. Len(wire') \in Nat
    BY <1>0, <2>1, TailFacts
  <2> QED
    BY <1>0, <2>1, <2>2, <2>3 DEF WireInv, Increasing, UpTo
<1>3. CASE UNCHANGED <<wire, published, event>>
  BY <1>0, <1>3 DEF WireInv, Increasing, UpTo
<1>4. ASSUME NEW c \in Conns, HandlerStep(c) \/ PumpStep(c) PROVE UNCHANGED <<wire, published, event>>
  BY <1>4 DEF HandlerStep, Connect, Subscribe, Unsubscribe, Denied, ReadError, UnregisterRemove,
              UnregisterClose, PumpStep, PumpWrite, PumpStop, PumpError, natsVars, callbackVars
<1>5. ASSUME Shutdown \/ \E c \in Conns : CallbackSend(c) PROVE UNCHANGED <<wire, published, event>>
  BY <1>5 DEF Shutdown, ShutdownDrain, ShutdownClose, Exit, CallbackSend, natsVars, callbackVars
<1> QED
  BY <1>1, <1>2, <1>3, <1>4, <1>5 DEF Next, CallbackStep

LEMMA StreamStep ==
  ASSUME IInv, Next
  PROVE  StreamInv'
<1>0. /\ StreamInv /\ TypeOK
      /\ \A c \in Conns : buffer[c] \in Seq(Event) /\ written[c] \in Seq(Event)
      /\ event \in Event /\ event.id \in Nat
  BY DEF IInv, TypeOK, Event
<1>1. CASE UNCHANGED <<buffer, written, event, targets>>
  BY <1>0, <1>1 DEF StreamInv, Increasing, Precedes, Of, UpTo, Under
<1>2. ASSUME NEW c \in Conns, PumpWrite(c) PROVE StreamInv'
  <2>1. /\ buffer[c] # <<>> /\ event' = event /\ targets' = targets
        /\ buffer' = [buffer EXCEPT ![c] = Tail(buffer[c])]
        /\ written' = [written EXCEPT ![c] = Append(written[c], Head(buffer[c]))]
    BY <1>2 DEF PumpWrite, callbackVars
  <2>2. /\ buffer'[c] = Tail(buffer[c])
        /\ written'[c] = Append(written[c], Head(buffer[c]))
        /\ \A d \in Conns : d # c => buffer'[d] = buffer[d] /\ written'[d] = written[d]
    BY <1>0, <2>1 DEF TypeOK
  <2> SUFFICES ASSUME NEW d \in Conns
               PROVE /\ Increasing(written'[d]) /\ Increasing(buffer'[d]) /\ Precedes(written'[d], buffer'[d])
                     /\ Of(written'[d], TenantOf[d]) /\ Of(buffer'[d], TenantOf[d])
                     /\ UpTo(written'[d], event.id) /\ UpTo(buffer'[d], event.id)
                     /\ d \in targets => /\ event.tenant = TenantOf[d]
                                         /\ Under(written'[d], event.id) /\ Under(buffer'[d], event.id)
    BY <2>1, ZenonT(30) DEF StreamInv, Increasing, Precedes, Of, UpTo, Under
  <2>3. CASE d = c
    BY <1>0, <2>1, <2>2, <2>3, Shift DEF StreamInv
  <2>4. CASE d # c
    BY <1>0, <2>2, <2>4 DEF StreamInv
  <2> QED
    BY <2>3, <2>4
<1>3. CASE CallbackSnapshot
  <2>1. /\ wire # <<>> /\ event' = Head(wire) /\ targets' = Members(Head(wire).tenant)
        /\ buffer' = buffer /\ written' = written
    BY <1>3 DEF CallbackSnapshot
  <2>2. event'.id \in Nat /\ event.id < event'.id
    BY <2>1, TailFacts DEF IInv, TypeOK, WireInv, Event
  <2>3. \A c \in Conns : c \in targets' => event'.tenant = TenantOf[c]
    BY <2>1 DEF Members, IInv, MapInv
  <2> SUFFICES ASSUME NEW c \in Conns
               PROVE /\ Increasing(written[c]) /\ Increasing(buffer[c]) /\ Precedes(written[c], buffer[c])
                     /\ Of(written[c], TenantOf[c]) /\ Of(buffer[c], TenantOf[c])
                     /\ UpTo(written[c], event'.id) /\ UpTo(buffer[c], event'.id)
                     /\ c \in targets' => /\ event'.tenant = TenantOf[c]
                                          /\ Under(written[c], event'.id) /\ Under(buffer[c], event'.id)
    BY <2>1 DEF StreamInv, Increasing, Precedes, Of, UpTo, Under
  <2>4. \A s \in Seq(Event) : UpTo(s, event.id) => UpTo(s, event'.id) /\ Under(s, event'.id)
    BY <1>0, <2>2, Numbered DEF UpTo, Under
  <2> QED
    BY <1>0, <2>3, <2>4 DEF StreamInv
<1>4. ASSUME NEW c \in Conns, CallbackSend(c) PROVE StreamInv'
  <2>1. /\ c \in targets /\ targets' = targets \ {c} /\ event' = event /\ written' = written
        /\ \/ buffer' = buffer
           \/ buffer' = [buffer EXCEPT ![c] = Append(buffer[c], event)]
    BY <1>4 DEF CallbackSend
  <2>2. \A d \in Conns : \/ buffer'[d] = buffer[d]
                         \/ d = c /\ buffer'[d] = Append(buffer[d], event)
    <3>1. buffer \in [Conns -> Seq(Event)]
      BY <1>0 DEF TypeOK
    <3> QED
      BY <2>1, <3>1
  <2> SUFFICES ASSUME NEW d \in Conns
               PROVE /\ Increasing(written[d]) /\ Increasing(buffer'[d]) /\ Precedes(written[d], buffer'[d])
                     /\ Of(written[d], TenantOf[d]) /\ Of(buffer'[d], TenantOf[d])
                     /\ UpTo(written[d], event.id) /\ UpTo(buffer'[d], event.id)
                     /\ d \in targets' => /\ event.tenant = TenantOf[d]
                                          /\ Under(written[d], event.id) /\ Under(buffer'[d], event.id)
    BY <2>1 DEF StreamInv, Increasing, Precedes, Of, UpTo, Under
  <2>3. CASE buffer'[d] = buffer[d]
    BY <1>0, <2>1, <2>3 DEF StreamInv
  <2>4. CASE d = c /\ buffer'[d] = Append(buffer[d], event)
    <3>1. Under(buffer[c], event.id) /\ Under(written[c], event.id) /\ event.tenant = TenantOf[c]
      BY <1>0, <2>1 DEF StreamInv
    <3>2. Of(Append(buffer[c], event), TenantOf[c])
      <4> DEFINE a == Append(buffer[c], event)
      <4>1. /\ \A i \in 1..Len(buffer[c]) : a[i] = buffer[c][i]
            /\ a[Len(buffer[c]) + 1] = event
            /\ \A i \in 1..Len(a) : i \in 1..Len(buffer[c]) \/ i = Len(buffer[c]) + 1
        BY <1>0, AppendFacts
      <4>2. Of(buffer[c], TenantOf[c])
        BY <1>0 DEF StreamInv
      <4> HIDE DEF a
      <4>3. Of(a, TenantOf[c])
        BY <3>1, <4>1, <4>2 DEF Of
      <4> QED
        BY <4>3 DEF a
    <3>3. d \notin targets'
      BY <2>1, <2>4
    <3> QED
      BY <1>0, <2>4, <3>1, <3>2, <3>3, Extend DEF StreamInv
  <2> QED
    BY <2>2, <2>3, <2>4
<1>5. ASSUME NEW c \in Conns, HandlerStep(c) \/ PumpStop(c) \/ PumpError(c)
      PROVE  UNCHANGED <<buffer, written, event, targets>>
  BY <1>5 DEF HandlerStep, Connect, Subscribe, Unsubscribe, Denied, ReadError, UnregisterRemove,
              UnregisterClose, PumpStop, PumpError, callbackVars
<1>6. ASSUME Shutdown \/ \E t \in Tenants \cup {None} : Publish(t)
      PROVE  UNCHANGED <<buffer, written, event, targets>>
  BY <1>6 DEF Shutdown, ShutdownDrain, ShutdownClose, Exit, Publish, callbackVars
<1> QED
  BY <1>1, <1>2, <1>3, <1>4, <1>5, <1>6 DEF Next, CallbackStep, PumpStep

-----------------------------------------------------------------------------
(* The theorems.                                                           *)

LEMMA InitInv == Init => IInv
<1> SUFFICES ASSUME Init PROVE IInv
  OBVIOUS
<1> USE BridgeAssumption
<1>1. tenants \in Maps
  <2>1. DOMAIN tenants = {} /\ tenants = [t \in DOMAIN tenants |-> tenants[t]]
    BY DEF Init
  <2> QED
    BY <2>1, IsMap
<1>2. TypeOK
  <2>1. event \in Event
    BY DEF Init, Event
  <2>2. /\ open \in [Conns -> BOOLEAN] /\ closed \in [Conns -> BOOLEAN]
        /\ buffer \in [Conns -> Seq(Event)] /\ written \in [Conns -> Seq(Event)]
        /\ wire \in Seq(Event) /\ published \in Nat /\ targets \in SUBSET Conns
    BY DEF Init
  <2>3. /\ handler \in [Conns -> {"new", "reading", "unregister", "close", "ended", "panicked"}]
        /\ pump \in [Conns -> {"off", "running", "exited"}] /\ reads \in [Conns -> Nat]
        /\ sub \in {"active", "draining"} /\ main \in {"serving", "drained", "closed", "exited"}
    BY DEF Init
  <2> QED
    BY <1>1, <2>1, <2>2, <2>3 DEF TypeOK, Maps
<1>3. ConnInv /\ MapInv
  BY DEF Init, ConnInv, MapInv
<1>4. WireInv
  BY DEF Init, WireInv, Increasing, UpTo
<1>5. StreamInv
  <2>1. \A c \in Conns : Len(written[c]) = 0 /\ Len(buffer[c]) = 0 /\ c \notin targets
    BY DEF Init
  <2> SUFFICES ASSUME NEW c \in Conns
               PROVE /\ Increasing(written[c]) /\ Increasing(buffer[c]) /\ Precedes(written[c], buffer[c])
                     /\ Of(written[c], TenantOf[c]) /\ Of(buffer[c], TenantOf[c])
                     /\ UpTo(written[c], event.id) /\ UpTo(buffer[c], event.id)
    BY <2>1 DEF StreamInv
  <2>2. 1..Len(written[c]) = {} /\ 1..Len(buffer[c]) = {}
    BY <2>1
  <2> QED
    BY <2>2 DEF Increasing, Precedes, Of, UpTo
<1> QED
  BY <1>2, <1>3, <1>4, <1>5 DEF IInv

LEMMA StutterInv ==
  ASSUME IInv, UNCHANGED vars
  PROVE  IInv'
<1> USE DEF vars, natsVars, callbackVars, sessionVars
<1>1. TypeOK'
  BY DEF IInv, TypeOK
<1>2. ConnInv' /\ MapInv'
  BY DEF IInv, ConnInv, MapInv
<1>3. WireInv'
  BY DEF IInv, WireInv, Increasing, UpTo
<1>4. StreamInv'
  BY DEF IInv, StreamInv, Increasing, Precedes, Of, UpTo, Under
<1> QED
  BY <1>1, <1>2, <1>3, <1>4 DEF IInv

\* The inductive invariant holds in every state of the bridge.
THEOREM BridgeInvariantHolds == Spec => []IInv
<1>1. ASSUME IInv, [Next]_vars PROVE IInv'
  <2>1. CASE Next
    BY <1>1, <2>1, TypeStep, ConnStep, MapStep, WireStep, StreamStep DEF IInv
  <2> QED
    BY <1>1, <2>1, StutterInv
<1> QED
  BY <1>1, InitInv, PTL DEF Spec

\* Every variable keeps its type: the fan-out map stays a partial function from
\* tenants to sets of connections.
THEOREM BridgeTypes == Spec => []TypeOK
<1>1. IInv => TypeOK
  BY DEF IInv
<1> QED
  BY <1>1, BridgeInvariantHolds, PTL

\* No fan-out set is empty or lists a session whose handler has left the map,
\* however subscribes, Unregister and Shutdown interleave.
THEOREM BridgeHasNoGhosts == Spec => []NoGhosts
<1>1. IInv => NoGhosts
  BY DEF IInv, MapInv, NoGhosts
<1> QED
  BY <1>1, BridgeInvariantHolds, PTL

\* What a session receives is its own tenant's, in the order of publication,
\* whatever a full or closed Send buffer dropped.
THEOREM BridgeOwnEventsInOrder == Spec => []OwnEventsInOrder
<1>1. IInv => OwnEventsInOrder
  <2> SUFFICES ASSUME IInv, NEW c \in Conns
               PROVE  /\ \A i \in 1..Len(Delivered(c)) : Delivered(c)[i].tenant = TenantOf[c]
                      /\ \A i, j \in 1..Len(Delivered(c)) :
                           i < j => Delivered(c)[i].id < Delivered(c)[j].id
    BY DEF OwnEventsInOrder
  <2> DEFINE s == written[c]
             t == buffer[c]
  <2>1. s \in Seq(Event) /\ t \in Seq(Event)
    BY DEF IInv, TypeOK
  <2>2. /\ Increasing(s) /\ Increasing(t) /\ Precedes(s, t)
        /\ Of(s, TenantOf[c]) /\ Of(t, TenantOf[c])
    BY DEF IInv, StreamInv
  <2>3. Delivered(c) = s \o t
    BY DEF Delivered
  <2> HIDE DEF s, t
  <2>4. /\ Len(s) \in Nat /\ Len(t) \in Nat /\ Len(s \o t) = Len(s) + Len(t)
        /\ \A i \in 1..Len(s) + Len(t) : (s \o t)[i] = IF i <= Len(s) THEN s[i] ELSE t[i - Len(s)]
    BY <2>1
  <2>5. \A i \in 1..Len(s) + Len(t) : \/ i <= Len(s) /\ i \in 1..Len(s)
                                      \/ i > Len(s) /\ i - Len(s) \in 1..Len(t)
    BY <2>4
  <2>6. \A i \in 1..Len(s) + Len(t) : (s \o t)[i].tenant = TenantOf[c]
    BY <2>2, <2>4, <2>5 DEF Of
  <2>7. \A i, j \in 1..Len(s) + Len(t) : i < j => (s \o t)[i].id < (s \o t)[j].id
    <3> SUFFICES ASSUME NEW i \in 1..Len(s) + Len(t), NEW j \in 1..Len(s) + Len(t), i < j
                 PROVE  (s \o t)[i].id < (s \o t)[j].id
      OBVIOUS
    <3>1. CASE j <= Len(s)
      BY <2>2, <2>4, <3>1 DEF Increasing
    <3>2. CASE i <= Len(s) /\ j > Len(s)
      BY <2>2, <2>4, <2>5, <3>2 DEF Precedes
    <3>3. CASE i > Len(s)
      BY <2>2, <2>4, <2>5, <3>3, SMTT(20) DEF Increasing
    <3> QED
      BY <2>4, <3>1, <3>2, <3>3
  <2> QED
    BY <2>3, <2>4, <2>6, <2>7
<1> QED
  BY <1>1, BridgeInvariantHolds, PTL

\* A closed Send never receives, although the callback sends to a copy of the
\* fan-out set that may list connections closed since.
THEOREM BridgeSendsNothingAfterClose == Spec => NothingAfterClose
<1> DEFINE Kept == \A c \in Conns : closed[c] => Len(buffer'[c]) <= Len(buffer[c])
<1>1. ASSUME IInv, [Next]_vars PROVE Kept
  <2>0. /\ ConnInv
        /\ buffer \in [Conns -> Seq(Event)]
        /\ \A c \in Conns : Len(buffer[c]) \in Nat
    BY <1>1 DEF IInv, TypeOK
  <2>1. CASE buffer' = buffer
    BY <2>0, <2>1
  <2>2. ASSUME NEW c \in Conns, PumpWrite(c) PROVE Kept
    <3>1. Len(Tail(buffer[c])) = Len(buffer[c]) - 1
      BY <2>0, <2>2, TailFacts DEF PumpWrite
    <3>2. \A d \in Conns : buffer'[d] = IF d = c THEN Tail(buffer[c]) ELSE buffer[d]
      BY <2>0, <2>2 DEF PumpWrite
    <3>3. Len(buffer[c]) - 1 <= Len(buffer[c]) /\ \A d \in Conns : Len(buffer[d]) <= Len(buffer[d])
      BY <2>0
    <3>4. ASSUME NEW d \in Conns PROVE Len(buffer'[d]) <= Len(buffer[d])
      <4>1. CASE d = c
        BY <3>1, <3>2, <3>3, <4>1
      <4>2. CASE d # c
        BY <3>2, <3>3, <4>2
      <4> QED
        BY <4>1, <4>2
    <3> QED
      BY <3>4
  <2>3. ASSUME NEW c \in Conns, CallbackSend(c) PROVE Kept
    <3>1. \A d \in Conns : closed[d] => buffer'[d] = buffer[d]
      BY <2>0, <2>3 DEF CallbackSend, ConnInv
    <3> QED
      BY <2>0, <3>1
  <2>4. ASSUME NEW c \in Conns, HandlerStep(c) \/ PumpStop(c) \/ PumpError(c) PROVE buffer' = buffer
    BY <2>4 DEF HandlerStep, Connect, Subscribe, Unsubscribe, Denied, ReadError, UnregisterRemove,
                UnregisterClose, PumpStop, PumpError
  <2>5. ASSUME Shutdown \/ CallbackSnapshot \/ \E t \in Tenants \cup {None} : Publish(t)
        PROVE  buffer' = buffer
    BY <2>5 DEF Shutdown, ShutdownDrain, ShutdownClose, Exit, CallbackSnapshot, Publish
  <2>6. UNCHANGED vars => buffer' = buffer
    BY DEF vars
  <2> QED
    BY <1>1, <2>1, <2>2, <2>3, <2>4, <2>5, <2>6 DEF Next, CallbackStep, PumpStep
<1> QED
  BY <1>1, BridgeInvariantHolds, PTL DEF Spec, NothingAfterClose
=============================================================================
