------------------------------ MODULE ClientProofs ------------------------------
(***************************************************************************)
(* What a person holds: the command line tool, the JavaScript client, the  *)
(* page of the web mail and the pages of the dashboard, for any numbers of *)
(* deploys, sockets, messages, rows, keys and calls.  ServicesProofs joins *)
(* their invariants with the others.                                       *)
(***************************************************************************)
EXTENDS MCServices, SumProofs, FiniteSetTheorems, TLAPS

-----------------------------------------------------------------------------
(* The command line tool: the directory holds what tinai.json says, and    *)
(* what kubectl has no longer to apply is in the cluster as in the file.   *)

DirectoryIsCurrent == \A f \in Generated : f \in DOMAIN manifests /\ manifests[f] = Content(f)
AppliedAsWritten   == \A f \in DOMAIN manifests \ cliLeft : f \in DOMAIN cluster /\ cluster[f] = manifests[f]

CliInv ==
    /\ CliTypeOK
    /\ cliAt \in {"apply", "complete"} => DirectoryIsCurrent /\ AppliedAsWritten
    /\ cliAt = "complete" => cliLeft = {}

\* The first call finds an empty directory.
LEMMA CliStarts == CliInit => CliInv
<1> SUFFICES ASSUME CliInit PROVE CliInv
  OBVIOUS
<1>1. DOMAIN manifests = {} /\ DOMAIN cluster = {}
  BY DEF CliInit
<1> QED
  BY <1>1, InfraCliAssumption DEF CliInit, CliInv, CliTypeOK

\* What is written depends on tinai.json alone.
LEMMA SameSpec ==
    ASSUME UNCHANGED spec
    PROVE  Generated' = Generated /\ \A f : (Content(f))' = Content(f)
BY DEF Generated, Content, HasService, DomainsOf, LastDomain

\* What is generated is a file of the directory.
LEMMA GeneratedFiles == Generated \subseteq Files
BY DEF Generated

\* Every step of the tool keeps the directory and the cluster in agreement.
LEMMA CliKeeps == CliInv /\ CliNext => CliInv'
<1> SUFFICES ASSUME CliInv, CliNext PROVE CliInv'
  OBVIOUS
<1> USE InfraCliAssumption DEF CliInv, CliTypeOK
<1>1. CASE EditSpec
  BY <1>1 DEF EditSpec
<1>2. CASE Analyse
  BY <1>2 DEF Analyse
<1>3. CASE Generate
  <2>1. /\ DOMAIN manifests' = DOMAIN manifests \cup Generated /\ cliLeft' = DOMAIN manifests'
        /\ \A f \in Generated : manifests'[f] = Content(f)
    BY <1>3 DEF Generate
  <2>2. UNCHANGED spec /\ UNCHANGED cluster /\ cliAt' = "apply" /\ deploys' = deploys
    BY <1>3 DEF Generate
  <2>3. DirectoryIsCurrent'
    BY <2>1, <2>2, SameSpec DEF DirectoryIsCurrent
  <2>4. AppliedAsWritten'
    BY <2>1 DEF AppliedAsWritten
  <2>5. CliTypeOK'
    BY <2>1, <2>2, GeneratedFiles
  <2> QED
    BY <2>2, <2>3, <2>4, <2>5
<1>4. CASE KubectlApply
  <2>1. UNCHANGED <<spec, manifests, cliAt, deploys>> /\ cliAt = "apply"
    BY <1>4 DEF KubectlApply
  <2>2. PICK f \in cliLeft :
            /\ cluster' = [o \in DOMAIN cluster \cup {f} |-> IF o = f THEN manifests[f] ELSE cluster[o]]
            /\ cliLeft' = cliLeft \ {f}
    BY <1>4 DEF KubectlApply
  <2>3. DirectoryIsCurrent'
    BY <2>1, SameSpec DEF DirectoryIsCurrent
  <2>4. /\ DOMAIN cluster' = DOMAIN cluster \cup {f} /\ cluster'[f] = manifests[f]
        /\ \A o \in DOMAIN cluster \ {f} : cluster'[o] = cluster[o]
    BY <2>2
  <2>5. AppliedAsWritten'
    BY <2>1, <2>2, <2>4 DEF AppliedAsWritten
  <2>6. CliTypeOK'
    BY <2>1, <2>2, <2>4
  <2> QED
    BY <2>1, <2>3, <2>5, <2>6
<1>5. CASE ApplyFails
  BY <1>5 DEF ApplyFails
<1>6. CASE PollPodsReady
  <2>1. UNCHANGED <<spec, manifests, cluster, cliLeft, deploys>> /\ cliAt = "apply" /\ cliAt' = "complete" /\ cliLeft = {}
    BY <1>6 DEF PollPodsReady
  <2>2. DirectoryIsCurrent' /\ AppliedAsWritten'
    BY <2>1, SameSpec DEF DirectoryIsCurrent, AppliedAsWritten
  <2> QED
    BY <2>1, <2>2
<1>7. CASE PrintUrls
  BY <1>7 DEF PrintUrls
<1> QED
  BY <1>1, <1>2, <1>3, <1>4, <1>5, <1>6, <1>7 DEF CliNext

\* A routed domain is the last of its service, so its Ingress is the one written.
LEMMA RoutedIsLast ==
    ASSUME CliTypeOK, NEW i \in DOMAIN spec.domains, Routed(i)
    PROVE  /\ spec.domains[i].service \in Services
           /\ i \in DomainsOf(spec.domains[i].service)
           /\ LastDomain(spec.domains[i].service) = i
<1> DEFINE s == spec.domains[i].service
<1>1. PICK n \in 0..MaxDomains : spec.domains \in [1..n -> [host : Domains, service : Services]]
  BY DEF CliTypeOK, Specs, DomainLists
<1>2. DOMAIN spec.domains = 1..n /\ DOMAIN spec.domains \subseteq Int /\ s \in Services
  BY <1>1, InfraCliAssumption
<1>3. i \in DomainsOf(s) /\ DomainsOf(s) \subseteq Int
  BY <1>2 DEF DomainsOf
<1>4. \A j \in DomainsOf(s) : j <= i
  BY <1>2, <1>3 DEF DomainsOf, Routed
<1>5. LastDomain(s) \in DomainsOf(s) /\ \A j \in DomainsOf(s) : j <= LastDomain(s)
  BY <1>3, <1>4 DEF LastDomain
<1>6. i <= LastDomain(s) /\ LastDomain(s) <= i /\ LastDomain(s) \in Int /\ i \in Int
  BY <1>3, <1>4, <1>5
<1>7. LastDomain(s) = i
  BY <1>6
<1> QED
  BY <1>2, <1>3, <1>7

\* Complete means nothing is left to apply: what tinai.json describes was
\* generated, and what was generated is in the cluster.
LEMMA CliImplies == CliInv => CompleteMeansApplied
<1> SUFFICES ASSUME CliInv, cliAt = "complete" PROVE AsDescribed
  BY DEF CompleteMeansApplied
<1>1. CliTypeOK /\ \A f \in Generated : f \in DOMAIN cluster /\ cluster[f] = Content(f)
  BY DEF CliInv, DirectoryIsCurrent, AppliedAsWritten
<1>2. spec.volumes \subseteq Services /\ spec.databases \subseteq Services
  BY <1>1 DEF CliTypeOK, Specs
<1>3. ASSUME NEW s \in Services, HasService(s)
      PROVE  ClusterHas("deployment", s, spec.services[s]) /\ ClusterHas("service", s, s)
  <2>1. <<"deployment", s>> \in Generated /\ <<"service", s>> \in Generated
    BY <1>3 DEF Generated, Files
  <2>2. Content(<<"deployment", s>>) = spec.services[s] /\ Content(<<"service", s>>) = s
    BY DEF Content
  <2> QED
    BY <1>1, <2>1, <2>2 DEF ClusterHas
<1>4. ASSUME NEW v \in spec.volumes PROVE ClusterHas("pvc", v, v)
  <2>1. <<"pvc", v>> \in Generated /\ Content(<<"pvc", v>>) = v
    BY <1>2 DEF Generated, Files, Content
  <2> QED
    BY <1>1, <2>1 DEF ClusterHas
<1>5. ASSUME NEW b \in spec.databases PROVE ClusterHas("cnpg", b, b)
  <2>1. <<"cnpg", b>> \in Generated /\ Content(<<"cnpg", b>>) = b
    BY <1>2 DEF Generated, Files, Content
  <2> QED
    BY <1>1, <2>1 DEF ClusterHas
<1>6. ASSUME NEW i \in DOMAIN spec.domains, Routed(i)
      PROVE  ClusterHas("ingress", spec.domains[i].service, spec.domains[i].host)
  <2> DEFINE s == spec.domains[i].service
  <2>1. s \in Services /\ i \in DomainsOf(s) /\ LastDomain(s) = i /\ HasService(s)
    BY <1>1, <1>6, RoutedIsLast DEF Routed
  <2>2. <<"ingress", s>> \in Generated
    BY <2>1 DEF Generated, Files
  <2>3. Content(<<"ingress", s>>) = spec.domains[i].host
    BY <2>1 DEF Content
  <2> QED
    BY <1>1, <2>2, <2>3 DEF ClusterHas
<1> QED
  BY <1>3, <1>4, <1>5, <1>6 DEF AsDescribed

-----------------------------------------------------------------------------
(* The connection of the JavaScript client: what waits in the queue and    *)
(* what is sent again on opening make the channels of the application.     *)

Toks  == JsTenants \cup {"none"}
Socks == [state : {"closed", "connecting", "open", "closing"}, token : Toks, subs : SUBSET Channels]
Msgs  == [action : {"subscribe", "unsubscribe"}, channel : Channels]

JsShape ==
    /\ session \in Toks /\ stored \in Toks /\ token \in Toks
    /\ records \in [Channels -> Nat] /\ channels = {c \in Channels : records[c] > 0}
    /\ queue \in Seq(Msgs) /\ current \in 0..MaxSockets /\ sockets \in 0..MaxSockets
    /\ connecting \in BOOLEAN /\ loaded \in BOOLEAN /\ timer \in BOOLEAN /\ stay \in BOOLEAN
    /\ resolving \in 0..1 /\ socket \in [SocketIds -> Socks] /\ heard \subseteq Channels \X Channels

\* Until the class is loaded there has been no socket.
Unloaded ==
    ~loaded => /\ ~timer /\ current = 0 /\ \A s \in SocketIds : socket[s].state = "closed"
               /\ resolving = IF connecting THEN 1 ELSE 0

Wire ==
    /\ \A s \in SocketIds : socket[s].state = "connecting" => socket[s].subs = {}
    /\ current # 0 /\ socket[current].state \in {"connecting", "open"} => socket[current].token = token
    /\ Open(current) => queue = <<>> /\ socket[current].subs = channels
    /\ After({}, queue) \subseteq channels

Live == \E s \in SocketIds : socket[s].state # "closed"
Way  == (connecting => resolving > 0 \/ Live) /\ (channels # {} /\ stay => timer \/ resolving > 0 \/ Live)

JsInv == JsShape /\ Unloaded /\ Wire /\ Way

-----------------------------------------------------------------------------
LEMMA ClosedIsASocket == Closed \in Socks /\ Closed.state = "closed"
BY DEF Closed, Socks, Toks

LEMMA NoSocket == 0 \in 0..MaxSockets
BY JsClientAssumption

LEMMA NothingSent == \A subs \in SUBSET Channels : After(subs, <<>>) = subs
BY DEF After

\* One message more in the queue.
LEMMA OneSent ==
    ASSUME NEW q \in Seq(Msgs), NEW m \in Msgs, NEW subs \in SUBSET Channels
    PROVE  After(subs, Append(q, m)) =
              IF m.action = "subscribe" THEN After(subs, q) \cup {m.channel} ELSE After(subs, q) \ {m.channel}
<1> DEFINE r == Append(q, m)
<1>1. /\ DOMAIN r = 1..(Len(q) + 1) /\ DOMAIN q = 1..Len(q) /\ Len(q) \in Nat
      /\ r[Len(q) + 1] = m /\ \A i \in 1..Len(q) : r[i] = q[i]
  OBVIOUS
<1>2. m.channel \in Channels /\ m = [action |-> m.action, channel |-> m.channel] /\ m.action \in {"subscribe", "unsubscribe"}
  BY DEF Msgs
<1> HIDE DEF r
<1>3. ASSUME NEW c \in Channels, c # m.channel PROVE c \in After(subs, r) <=> c \in After(subs, q)
  <2>1. (\A i \in DOMAIN r : r[i].channel # c) <=> (\A i \in DOMAIN q : q[i].channel # c)
    BY <1>1, <1>3
  <2>2. ASSUME NEW i \in DOMAIN q
        PROVE (\A j \in DOMAIN r : j > i => r[j].channel # c) <=> (\A j \in DOMAIN q : j > i => q[j].channel # c)
    BY <1>1, <1>3
  <2>3. m # [action |-> "subscribe", channel |-> c]
    BY <1>3
  <2>4. (\E i \in DOMAIN r : r[i] = [action |-> "subscribe", channel |-> c] /\ \A j \in DOMAIN r : j > i => r[j].channel # c)
        <=> (\E i \in DOMAIN q : q[i] = [action |-> "subscribe", channel |-> c] /\ \A j \in DOMAIN q : j > i => q[j].channel # c)
    BY <1>1, <2>2, <2>3
  <2> QED
    BY <2>1, <2>4 DEF After
<1>4. ASSUME m.action = "subscribe" PROVE m.channel \in After(subs, r)
  <2>1. \A j \in DOMAIN r : ~(j > Len(q) + 1)
    BY <1>1
  <2> QED
    BY <1>1, <1>2, <1>4, <2>1 DEF After
<1>5. ASSUME m.action # "subscribe" PROVE m.channel \notin After(subs, r)
  <2>1. ~(\A i \in DOMAIN r : r[i].channel # m.channel)
    BY <1>1
  <2>2. ASSUME NEW i \in DOMAIN r, r[i] = [action |-> "subscribe", channel |-> m.channel],
               \A j \in DOMAIN r : j > i => r[j].channel # m.channel
        PROVE  FALSE
    <3>1. i = Len(q) + 1 \/ i < Len(q) + 1
      BY <1>1
    <3>2. i # Len(q) + 1
      BY <1>1, <1>5, <2>2
    <3> QED
      BY <1>1, <2>2, <3>1, <3>2
  <2> QED
    BY <2>1, <2>2 DEF After
<1>6. After(subs, r) \subseteq Channels /\ After(subs, q) \subseteq Channels
  BY DEF After
<1> QED
  BY <1>2, <1>3, <1>4, <1>5, <1>6 DEF r

\* The subscriptions sent again name every channel once.
LEMMA ResubscribeNames ==
    ASSUME channels \subseteq Channels, JsClientAssumption
    PROVE  /\ Resubscribe \in Seq(Msgs) /\ Len(Resubscribe) <= Cardinality(Channels)
           /\ \A i \in DOMAIN Resubscribe : Resubscribe[i].action = "subscribe" /\ Resubscribe[i].channel \in channels
           /\ \A c \in channels : \E i \in DOMAIN Resubscribe :
                 /\ Resubscribe[i] = [action |-> "subscribe", channel |-> c]
                 /\ \A j \in DOMAIN Resubscribe : j # i => Resubscribe[j].channel # c
<1> DEFINE msg(c) == [action |-> "subscribe", channel |-> c]
           S == {msg(c) : c \in channels}
           n == Cardinality(S)
<1>1. IsFiniteSet(Channels)
  BY FS_Singleton, FS_Union, FS_Product DEF JsClientAssumption, Channels
<1>2. IsFiniteSet(channels) /\ Cardinality(channels) <= Cardinality(Channels) /\ Cardinality(channels) \in Nat
      /\ Cardinality(Channels) \in Nat
  BY <1>1, FS_Subset, FS_CardinalityType
<1>3. IsFiniteSet(S) /\ n <= Cardinality(channels)
  <2>1. PICK f : f = [c \in channels |-> msg(c)]
    OBVIOUS
  <2>2. f \in [channels -> S] /\ \A m \in S : \E c \in channels : f[c] = m
    BY <2>1
  <2>3. f \in Surjection(channels, S)
    BY <2>2 DEF Surjection
  <2> QED
    BY <1>2, <2>3, FS_Surjection
<1>4. n \in Nat /\ ExistsBijection(1..n, S)
  BY <1>3, FS_CardinalityType
<1>5. PICK g : g \in Bijection(1..n, S)
  BY <1>4 DEF ExistsBijection
<1>6. g \in [1..n -> S] /\ IsInjective(g)
  BY <1>5 DEF Bijection, Injection, IsInjective
<1>7. Resubscribe \in [1..n -> S] /\ IsInjective(Resubscribe)
  BY <1>6 DEF Resubscribe, SetToSeq
<1> DEFINE q == Resubscribe
<1>8. q \in [1..n -> S] /\ \A i, j \in 1..n : q[i] = q[j] => i = j
  BY <1>7 DEF IsInjective
<1> HIDE DEF q
<1>9. q \in Injection(1..n, S)
  BY <1>7 DEF Injection, q
<1>10. IsFiniteSet(1..n) /\ Cardinality(1..n) = n
  BY <1>4, FS_Interval
<1>11. q \in Surjection(1..n, S)
  BY <1>3, <1>9, <1>10, FS_Injection
<1>12. \A m \in S : \E i \in 1..n : q[i] = m
  BY <1>11 DEF Surjection
<1>13. S \subseteq Msgs
  BY DEF Msgs
<1>14. q \in Seq(Msgs) /\ Len(q) = n /\ DOMAIN q = 1..n
  BY <1>4, <1>8, <1>13
<1>15. \A i \in 1..n : q[i].action = "subscribe" /\ q[i].channel \in channels
  BY <1>8
<1>16. ASSUME NEW c \in channels
       PROVE  \E i \in 1..n : q[i] = msg(c) /\ \A j \in 1..n : j # i => q[j].channel # c
  <2>1. PICK i \in 1..n : q[i] = msg(c)
    BY <1>12
  <2>2. ASSUME NEW j \in 1..n, q[j].channel = c PROVE j = i
    <3>1. q[j] = msg(c)
      BY <1>8, <2>2
    <3> QED
      BY <1>8, <2>1, <3>1
  <2> QED
    BY <2>1, <2>2
<1> QED
  BY <1>2, <1>3, <1>4, <1>14, <1>15, <1>16 DEF q

\* Whatever was waiting, the subscriptions sent again make the channels.
LEMMA OpenedIsSubscribed ==
    ASSUME channels \subseteq Channels, JsClientAssumption, NEW q \in Seq(Msgs), NEW subs \in SUBSET Channels,
           After(subs, q) \subseteq channels
    PROVE  After(subs, q \o Resubscribe) = channels
<1> DEFINE r == q \o Resubscribe  n == Len(q)  k == Len(Resubscribe)
<1>1. /\ Resubscribe \in Seq(Msgs)
      /\ \A i \in DOMAIN Resubscribe : Resubscribe[i].action = "subscribe" /\ Resubscribe[i].channel \in channels
      /\ \A c \in channels : \E i \in DOMAIN Resubscribe :
            /\ Resubscribe[i] = [action |-> "subscribe", channel |-> c]
            /\ \A j \in DOMAIN Resubscribe : j # i => Resubscribe[j].channel # c
  BY ResubscribeNames
<1>2. /\ n \in Nat /\ k \in Nat /\ DOMAIN r = 1..(n + k) /\ DOMAIN q = 1..n /\ DOMAIN Resubscribe = 1..k
      /\ \A i \in 1..n : r[i] = q[i]
      /\ \A i \in 1..k : r[n + i] = Resubscribe[i]
      /\ \A i \in 1..(n + k) : i <= n \/ (i - n \in 1..k /\ r[i] = Resubscribe[i - n])
  BY <1>1
<1> HIDE DEF r, n, k
<1>3. ASSUME NEW c \in channels PROVE c \in After(subs, r)
  <2>1. PICK i \in 1..k : /\ Resubscribe[i] = [action |-> "subscribe", channel |-> c]
                         /\ \A j \in 1..k : j # i => Resubscribe[j].channel # c
    BY <1>1, <1>2
  <2>2. n + i \in DOMAIN r /\ r[n + i] = [action |-> "subscribe", channel |-> c]
    BY <1>2, <2>1
  <2>3. \A j \in DOMAIN r : j > n + i => r[j].channel # c
    BY <1>2, <2>1
  <2> QED
    BY <2>2, <2>3 DEF After
<1>4. ASSUME NEW c \in After(subs, r), c \notin channels PROVE FALSE
  <2>1. \A j \in 1..k : Resubscribe[j].channel # c
    BY <1>1, <1>2, <1>4
  <2>2. c \in Channels
    BY DEF After
  <2>3. CASE \E i \in DOMAIN r : /\ r[i] = [action |-> "subscribe", channel |-> c]
                                 /\ \A j \in DOMAIN r : j > i => r[j].channel # c
    <3>1. PICK i \in DOMAIN r : /\ r[i] = [action |-> "subscribe", channel |-> c]
                                /\ \A j \in DOMAIN r : j > i => r[j].channel # c
      BY <2>3
    <3>2. i \in 1..n
      BY <1>2, <2>1, <3>1
    <3>3. q[i] = [action |-> "subscribe", channel |-> c] /\ \A j \in DOMAIN q : j > i => q[j].channel # c
      BY <1>2, <3>1, <3>2
    <3>4. c \in After(subs, q)
      BY <1>2, <2>2, <3>2, <3>3 DEF After
    <3> QED
      BY <1>4, <3>4
  <2>4. CASE c \in subs /\ \A i \in DOMAIN r : r[i].channel # c
    <3>1. \A i \in DOMAIN q : q[i].channel # c
      BY <1>2, <2>4
    <3>2. c \in After(subs, q)
      BY <2>2, <2>4, <3>1 DEF After
    <3> QED
      BY <1>4, <3>2
  <2> QED
    BY <2>3, <2>4 DEF After
<1> QED
  BY <1>3, <1>4 DEF r

-----------------------------------------------------------------------------
LEMMA JsStarts == JsInit => JsInv
<1> SUFFICES ASSUME JsInit PROVE JsInv
  OBVIOUS
<1> USE JsClientAssumption
<1>1. \A s \in SocketIds : socket[s] = Closed
  BY DEF JsInit
<1>2. socket \in [SocketIds -> Socks] /\ \A s \in SocketIds : socket[s].state = "closed"
  BY <1>1, ClosedIsASocket DEF JsInit
<1>3. queue \in Seq(Msgs) /\ channels = {c \in Channels : records[c] > 0} /\ records \in [Channels -> Nat]
  BY DEF JsInit
<1>4. JsShape
  <2>1. session \in Toks /\ stored \in Toks /\ token \in Toks
    BY DEF JsInit, Toks
  <2>2. current \in 0..MaxSockets /\ sockets \in 0..MaxSockets /\ resolving \in 0..1
    BY NoSocket DEF JsInit
  <2>3. connecting \in BOOLEAN /\ loaded \in BOOLEAN /\ timer \in BOOLEAN /\ stay \in BOOLEAN /\ heard \subseteq Channels \X Channels
    BY DEF JsInit
  <2> QED
    BY <1>2, <1>3, <2>1, <2>2, <2>3 DEF JsShape
<1>5. Unloaded /\ Way
  BY <1>2 DEF JsInit, Unloaded, Way
<1>6. Wire
  BY <1>2, NothingSent DEF JsInit, Wire, Open
<1> QED
  BY <1>4, <1>5, <1>6 DEF JsInv

\* A socket is made: it becomes the current one and has still to open.
LEMMA NewSocketFacts ==
    ASSUME JsInv, NewSocket(socket)
    PROVE  /\ sockets' \in 0..MaxSockets /\ current' \in SocketIds /\ socket' \in [SocketIds -> Socks]
           /\ socket'[current'].state = "connecting" /\ socket'[current'].token = token /\ socket'[current'].subs = {}
           /\ \A s \in SocketIds \ {current'} : socket'[s] = socket[s]
           /\ ~(Open(current)') /\ Live'
<1> USE JsClientAssumption
<1>1. PICK k : k = [state |-> "connecting", token |-> token, subs |-> {}]
  OBVIOUS
<1>2. k \in Socks /\ k.state = "connecting" /\ k.token = token /\ k.subs = {}
  BY <1>1 DEF Socks, JsInv, JsShape
<1>3. sockets' = sockets + 1 /\ current' = sockets' /\ sockets' \in SocketIds /\ socket' = [socket EXCEPT ![sockets'] = k]
  BY <1>1 DEF NewSocket, JsInv, JsShape, SocketIds
<1>4. socket \in [SocketIds -> Socks]
  BY DEF JsInv, JsShape
<1>5. socket' \in [SocketIds -> Socks] /\ socket'[current'] = k /\ \A s \in SocketIds \ {current'} : socket'[s] = socket[s]
  BY <1>2, <1>3, <1>4
<1>6. Live' /\ ~(Open(current)')
  BY <1>2, <1>3, <1>5 DEF Live, Open
<1> QED
  BY <1>2, <1>3, <1>5, <1>6 DEF SocketIds

\* Connecting, whether the class is there or has to be loaded.
LEMMA ConnectFacts ==
    ASSUME JsInv, Connect, loaded \/ ~connecting
    PROVE  /\ sockets' \in 0..MaxSockets /\ current' \in 0..MaxSockets /\ socket' \in [SocketIds -> Socks]
           /\ connecting' = TRUE /\ loaded' = loaded /\ resolving' \in 0..1 /\ (resolving' > 0 \/ Live')
           /\ \A s \in SocketIds : socket'[s] = socket[s] \/ (socket'[s].state = "connecting" /\ socket'[s].subs = {})
           /\ \/ UNCHANGED <<current, socket>>
              \/ /\ ~(Open(current)') /\ current' # 0 /\ socket'[current'].token = token
           /\ ~loaded => /\ current' = 0 /\ resolving' = 1 /\ UNCHANGED socket
<1>1. CASE loaded
  <2>1. connecting' = TRUE /\ NewSocket(socket) /\ UNCHANGED <<resolving, loaded>>
    BY <1>1 DEF Connect
  <2> QED
    BY <1>1, <2>1, NewSocketFacts DEF JsInv, JsShape, SocketIds
<1>2. CASE ~loaded
  <2>1. connecting' = TRUE /\ resolving' = resolving + 1 /\ UNCHANGED <<loaded, current, sockets, socket>>
    BY <1>2 DEF Connect
  <2>2. resolving = 0 /\ current = 0
    BY <1>2 DEF JsInv, Unloaded, JsShape
  <2> QED
    BY <1>2, <2>1, <2>2 DEF JsInv, JsShape
<1> QED
  BY <1>1, <1>2

LEMMA ResolvedKeeps == JsInv /\ ClassResolved => JsInv'
<1> SUFFICES ASSUME JsInv, ClassResolved PROVE JsInv'
  OBVIOUS
<1>1. /\ resolving > 0 /\ resolving' = resolving - 1 /\ loaded' = TRUE /\ NewSocket(socket)
      /\ UNCHANGED <<session, stored, token, records, channels, heard, queue, connecting, timer, stay>>
  BY DEF ClassResolved, authSide, subSide
<1>2. /\ sockets' \in 0..MaxSockets /\ current' \in SocketIds /\ socket' \in [SocketIds -> Socks]
      /\ socket'[current'].state = "connecting" /\ socket'[current'].token = token /\ socket'[current'].subs = {}
      /\ \A s \in SocketIds \ {current'} : socket'[s] = socket[s]
      /\ ~(Open(current)') /\ Live'
  BY <1>1, NewSocketFacts
<1>3. JsShape'
  BY <1>1, <1>2 DEF JsInv, JsShape, SocketIds
<1>4. Unloaded' /\ Way'
  BY <1>1, <1>2 DEF Unloaded, Way
<1>5. Wire'
  BY <1>1, <1>2 DEF Wire, JsInv, After
<1> QED
  BY <1>3, <1>4, <1>5 DEF JsInv

LEMMA ReconnectKeeps == JsInv /\ Reconnect => JsInv'
<1> SUFFICES ASSUME JsInv, Reconnect PROVE JsInv'
  OBVIOUS
<1>1. /\ timer /\ timer' = FALSE /\ Connect /\ UNCHANGED <<session, stored, token, records, channels, heard, queue, stay>>
  BY DEF Reconnect, authSide, subSide
<1>2. loaded
  BY <1>1 DEF JsInv, Unloaded
<1>3. /\ sockets' \in 0..MaxSockets /\ current' \in 0..MaxSockets /\ socket' \in [SocketIds -> Socks]
      /\ connecting' = TRUE /\ loaded' = loaded /\ resolving' \in 0..1 /\ (resolving' > 0 \/ Live')
      /\ \A s \in SocketIds : socket'[s] = socket[s] \/ (socket'[s].state = "connecting" /\ socket'[s].subs = {})
      /\ \/ UNCHANGED <<current, socket>>
         \/ /\ ~(Open(current)') /\ current' # 0 /\ socket'[current'].token = token
  BY <1>1, <1>2, ConnectFacts
<1>4. JsShape'
  BY <1>1, <1>3 DEF JsInv, JsShape
<1>5. Unloaded' /\ Way'
  BY <1>1, <1>2, <1>3 DEF Unloaded, Way
<1>6. Wire'
  BY <1>1, <1>3 DEF Wire, JsInv, After, Open
<1> QED
  BY <1>4, <1>5, <1>6 DEF JsInv

\* What the invariant asks of the sockets when one of them changes.
LEMMA SocketChanges ==
    ASSUME JsInv, NEW s \in SocketIds, NEW k \in Socks, socket' = [socket EXCEPT ![s] = k]
    PROVE  socket' \in [SocketIds -> Socks] /\ socket'[s] = k /\ \A o \in SocketIds \ {s} : socket'[o] = socket[o]
BY DEF JsInv, JsShape

LEMMA CloseKeeps == \A s \in SocketIds : JsInv /\ OnClose(s) => JsInv'
<1> SUFFICES ASSUME NEW s \in SocketIds, JsInv, OnClose(s) PROVE JsInv'
  OBVIOUS
<1>1. /\ socket[s].state # "closed" /\ socket' = [socket EXCEPT ![s] = Closed]
      /\ connecting' = FALSE /\ current' = 0 /\ timer' = stay
      /\ UNCHANGED <<session, stored, token, records, channels, heard, queue, resolving, loaded, stay, sockets>>
  BY DEF OnClose, authSide, subSide
<1>2. socket' \in [SocketIds -> Socks] /\ socket'[s] = Closed /\ \A o \in SocketIds \ {s} : socket'[o] = socket[o]
  BY <1>1, ClosedIsASocket, SocketChanges
<1>3. loaded
  BY <1>1 DEF JsInv, Unloaded
<1>4. JsShape'
  BY <1>1, <1>2, NoSocket DEF JsInv, JsShape
<1>5. Unloaded' /\ Way'
  BY <1>1, <1>3 DEF Unloaded, Way
<1>6. Wire'
  BY <1>1, <1>2, ClosedIsASocket DEF Wire, JsInv, After, Open
<1> QED
  BY <1>4, <1>5, <1>6 DEF JsInv

\* The current socket is told to close.
LEMMA ClosingFacts ==
    ASSUME JsInv, current # 0, socket' = [socket EXCEPT ![current].state = "closing"]
    PROVE  /\ socket' \in [SocketIds -> Socks] /\ current \in SocketIds /\ socket'[current].state = "closing"
           /\ socket'[current].token = socket[current].token
           /\ \A o \in SocketIds \ {current} : socket'[o] = socket[o]
<1>1. current \in SocketIds /\ socket \in [SocketIds -> Socks]
  BY JsClientAssumption DEF JsInv, JsShape, SocketIds
<1>2. PICK c : c = current
  OBVIOUS
<1>3. PICK k : k = [socket[c] EXCEPT !.state = "closing"]
  OBVIOUS
<1>4. k \in Socks /\ k.state = "closing" /\ k.token = socket[c].token
  BY <1>1, <1>2, <1>3 DEF Socks
<1>5. socket' = [socket EXCEPT ![c] = k]
  BY <1>2, <1>3
<1> QED
  BY <1>1, <1>2, <1>4, <1>5

LEMMA DisconnectKeeps == JsInv /\ Disconnect => JsInv'
<1> SUFFICES ASSUME JsInv, Disconnect PROVE JsInv'
  OBVIOUS
<1>1. /\ stay' = FALSE /\ timer' = FALSE /\ current' = 0
      /\ UNCHANGED <<session, stored, token, records, channels, heard, queue, connecting, resolving, loaded, sockets>>
  BY DEF Disconnect, authSide, subSide
<1>2. /\ socket' \in [SocketIds -> Socks]
      /\ \A o \in SocketIds : socket'[o] = socket[o] \/ (socket'[o].state = "closing" /\ current # 0)
  <2>1. CASE current = 0
    BY <2>1 DEF Disconnect, JsInv, JsShape
  <2>2. CASE current # 0
    BY <2>2, ClosingFacts DEF Disconnect
  <2> QED
    BY <2>1, <2>2
<1>3. JsShape'
  BY <1>1, <1>2, NoSocket DEF JsInv, JsShape
<1>4. Live => Live'
  BY <1>2 DEF Live
<1>5. Unloaded' /\ Way'
  BY <1>1, <1>2, <1>4 DEF Unloaded, Way, JsInv
<1>6. Wire'
  BY <1>1, <1>2 DEF Wire, JsInv, After, Open
<1> QED
  BY <1>3, <1>5, <1>6 DEF JsInv

\* Signing in and out: the token of the session changes, and with it the socket.
LEMMA TokenKeeps ==
    ASSUME JsInv, NEW t \in Toks, session' = t, stored' \in {stored, t}, SetToken(t)
    PROVE  JsInv'
<1>1. /\ token' = t /\ UNCHANGED <<records, channels, heard, queue, current, connecting, resolving, loaded, timer, stay, sockets>>
  BY DEF SetToken, subSide
<1>2. /\ socket' \in [SocketIds -> Socks]
      /\ \A o \in SocketIds : socket'[o] = socket[o] \/ (socket'[o].state = "closing" /\ current # 0)
      /\ t # token /\ current # 0 => socket'[current].state = "closing"
  <2>1. CASE t # token /\ current # 0
    BY <2>1, ClosingFacts DEF SetToken
  <2>2. CASE ~(t # token /\ current # 0)
    BY <2>2 DEF SetToken, JsInv, JsShape
  <2> QED
    BY <2>1, <2>2
<1>3. JsShape'
  BY <1>1, <1>2 DEF JsInv, JsShape
<1>4. Live => Live'
  BY <1>2 DEF Live
<1>5. Unloaded' /\ Way'
  BY <1>1, <1>2, <1>4 DEF Unloaded, Way, JsInv
<1>6. Wire'
  <2>1. current = 0 \/ current \in SocketIds
    BY JsClientAssumption DEF JsInv, JsShape, SocketIds
  <2> QED
    BY <1>1, <1>2, <2>1 DEF Wire, JsInv, After, Open
<1> QED
  BY <1>3, <1>5, <1>6 DEF JsInv

LEMMA HeardKeeps == \A s \in SocketIds, c \in Channels : JsInv /\ HandleMessage(s, c) => JsInv'
<1> SUFFICES ASSUME NEW s \in SocketIds, NEW c \in Channels, JsInv, HandleMessage(s, c) PROVE JsInv'
  OBVIOUS
<1>1. UNCHANGED <<session, stored, token, records, channels, queue, current, connecting, resolving, loaded, timer, stay, socket, sockets>>
  BY DEF HandleMessage, authSide, connSide
<1>2. heard' \subseteq Channels \X Channels
  BY DEF HandleMessage, JsInv, JsShape
<1>3. JsShape'
  BY <1>1, <1>2 DEF JsInv, JsShape
<1>4. Unloaded' /\ Way' /\ Wire'
  BY <1>1 DEF JsInv, Unloaded, Way, Wire, Live, Open, After
<1> QED
  BY <1>3, <1>4 DEF JsInv

\* A connection opens: what waited and the channels go out on the current socket.
LEMMA OpenKeeps == \A s \in SocketIds : JsInv /\ OnOpen(s) => JsInv'
<1> SUFFICES ASSUME NEW s \in SocketIds, JsInv, OnOpen(s) PROVE JsInv'
  OBVIOUS
<1> DEFINE opened == [socket EXCEPT ![s].state = "open"]
<1>1. /\ socket[s].state = "connecting" /\ connecting' = FALSE
      /\ UNCHANGED <<session, stored, token, records, channels, heard, current, resolving, loaded, timer, stay, sockets>>
  BY DEF OnOpen, authSide, subSide
<1>2. IF current # 0 /\ opened[current].state = "open"
      THEN /\ queue' = <<>>
           /\ socket' = [opened EXCEPT ![current].subs = After(@, queue \o Resubscribe)]
      ELSE queue' = Resubscribe /\ socket' = opened
  BY DEF OnOpen
<1>3. PICK k : k = [socket[s] EXCEPT !.state = "open"]
  OBVIOUS
<1>4. k \in Socks /\ k.state = "open" /\ k.token = socket[s].token /\ k.subs = {}
  BY <1>1, <1>3 DEF Socks, JsInv, JsShape, Wire
<1>5. PICK o : o = opened
  OBVIOUS
<1>6. o \in [SocketIds -> Socks] /\ o[s] = k /\ \A q \in SocketIds \ {s} : o[q] = socket[q]
  BY <1>3, <1>4, <1>5 DEF JsInv, JsShape
<1>7. channels \subseteq Channels /\ queue \in Seq(Msgs) /\ (current = 0 \/ current \in SocketIds)
  BY JsClientAssumption DEF JsInv, JsShape, SocketIds
<1>8. Resubscribe \in Seq(Msgs) /\ After({}, Resubscribe) = channels /\ After({}, queue \o Resubscribe) = channels
      /\ After(channels, Resubscribe) = channels
  <2>1. After({}, <<>>) = {} /\ After(channels, <<>>) = channels
    BY <1>7, NothingSent
  <2>2. Resubscribe \in Seq(Msgs)
    BY <1>7, ResubscribeNames, JsClientAssumption
  <2>3. <<>> \in Seq(Msgs) /\ <<>> \o Resubscribe = Resubscribe
    BY <2>2
  <2>4. After({}, <<>> \o Resubscribe) = channels /\ After(channels, <<>> \o Resubscribe) = channels
    BY <1>7, <2>1, <2>3, OpenedIsSubscribed, JsClientAssumption
  <2>5. After({}, queue \o Resubscribe) = channels
    BY <1>7, OpenedIsSubscribed, JsClientAssumption DEF JsInv, Wire
  <2> QED
    BY <2>2, <2>3, <2>4, <2>5
<1> HIDE DEF opened
<1>9. loaded
  BY <1>1 DEF JsInv, Unloaded
<1>10. CASE ~(current # 0 /\ o[current].state = "open")
  <2>1. queue' = Resubscribe /\ socket' = o
    BY <1>2, <1>5, <1>10
  <2>2. JsShape'
    BY <1>1, <1>6, <1>8, <2>1 DEF JsInv, JsShape
  <2>3. Live'
    BY <1>4, <1>6, <2>1 DEF Live
  <2>4. Unloaded' /\ Way'
    BY <1>1, <1>9, <2>3 DEF Unloaded, Way
  <2>5. Wire'
    <3>1. After({}, queue)' = channels
      BY <1>8, <2>1 DEF After
    <3>2. \A q \in SocketIds : socket'[q].state = "connecting" => socket'[q].subs = {}
      BY <1>4, <1>6, <2>1 DEF JsInv, Wire
    <3>3. ~(Open(current)')
      BY <1>1, <1>10, <2>1 DEF Open
    <3>4. (current # 0 /\ socket[current].state \in {"connecting", "open"} => socket[current].token = token)'
      BY <1>1, <1>4, <1>6, <1>7, <1>10, <2>1 DEF JsInv, Wire
    <3> QED
      BY <1>1, <3>1, <3>2, <3>3, <3>4 DEF Wire
  <2> QED
    BY <2>2, <2>4, <2>5 DEF JsInv
<1>11. CASE current # 0 /\ o[current].state = "open"
  <2>1. PICK c \in SocketIds : c = current
    BY <1>7, <1>11
  <2>2. After(o[c].subs, queue \o Resubscribe) = channels
    <3>1. CASE c = s
      BY <1>4, <1>6, <1>8, <3>1
    <3>2. CASE c # s
      <4>1. Open(current)
        BY <1>6, <1>11, <2>1, <3>2 DEF Open
      <4>2. queue = <<>> /\ o[c].subs = channels
        BY <1>6, <2>1, <3>2, <4>1 DEF JsInv, Wire
      <4>3. queue \o Resubscribe = Resubscribe
        BY <1>8, <4>2
      <4> QED
        BY <1>8, <4>2, <4>3
    <3> QED
      BY <3>1, <3>2
  <2>3. queue' = <<>> /\ socket' = [o EXCEPT ![c].subs = channels]
    BY <1>2, <1>5, <1>11, <2>1, <2>2
  <2>4. PICK h : h = [o[c] EXCEPT !.subs = channels]
    OBVIOUS
  <2>5. h \in Socks /\ h.state = "open" /\ h.subs = channels /\ h.token = o[c].token
    BY <1>6, <1>7, <1>11, <2>1, <2>4 DEF Socks
  <2>6. socket' \in [SocketIds -> Socks] /\ socket'[c] = h /\ \A q \in SocketIds \ {c} : socket'[q] = o[q]
    BY <1>6, <2>3, <2>4, <2>5
  <2>7. JsShape'
    <3>1. queue' \in Seq(Msgs)
      BY <2>3
    <3> QED
      BY <1>1, <2>6, <3>1 DEF JsInv, JsShape
  <2>8. Live'
    BY <2>5, <2>6 DEF Live
  <2>9. Unloaded' /\ Way'
    BY <1>1, <1>9, <2>8 DEF Unloaded, Way
  <2>10. Wire'
    <3>1. After({}, queue)' = {}
      BY <2>3, NothingSent DEF After
    <3>2. \A q \in SocketIds : socket'[q].state = "connecting" => socket'[q].subs = {}
      BY <1>4, <1>6, <2>5, <2>6 DEF JsInv, Wire
    <3>3. o[c].token = token
      BY <1>1, <1>4, <1>6, <1>11, <2>1 DEF JsInv, Wire
    <3> QED
      BY <1>1, <2>1, <2>3, <2>5, <2>6, <3>1, <3>2, <3>3 DEF Wire
  <2> QED
    BY <2>7, <2>9, <2>10 DEF JsInv
<1> QED
  BY <1>5, <1>10, <1>11

\* A message goes out on the current socket, or waits for one.
LEMMA SendFacts ==
    ASSUME JsInv, NEW m \in Msgs, Send(m)
    PROVE  /\ socket' \in [SocketIds -> Socks] /\ queue' \in Seq(Msgs)
           /\ \A q \in SocketIds : socket'[q].state = socket[q].state /\ socket'[q].token = socket[q].token
           /\ \A q \in SocketIds : socket[q].state # "open" => socket'[q] = socket[q]
           /\ Open(current) => queue' = <<>> /\ socket'[current].subs = Hubs(channels, m)
           /\ ~Open(current) => queue' = Append(queue, m)
<1>1. CASE Open(current)
  <2>1. PICK c \in SocketIds : c = current
    BY <1>1, JsClientAssumption DEF JsInv, JsShape, SocketIds, Open
  <2>2. queue = <<>> /\ socket[c].subs = channels /\ socket[c].state = "open"
    BY <1>1, <2>1 DEF JsInv, Wire, Open
  <2>3. PICK k : k = [socket[c] EXCEPT !.subs = Hubs(@, m)]
    OBVIOUS
  <2>4. Hubs(channels, m) \subseteq Channels
    BY DEF Hubs, Msgs, JsInv, JsShape
  <2>5. k \in Socks /\ k.state = socket[c].state /\ k.token = socket[c].token /\ k.subs = Hubs(channels, m)
    BY <2>1, <2>2, <2>3, <2>4 DEF Socks, JsInv, JsShape
  <2>6. socket' = [socket EXCEPT ![c] = k] /\ queue' = queue
    BY <1>1, <2>1, <2>3 DEF Send
  <2>7. socket' \in [SocketIds -> Socks] /\ socket'[c] = k /\ \A o \in SocketIds \ {c} : socket'[o] = socket[o]
    BY <2>5, <2>6, SocketChanges
  <2> QED
    BY <1>1, <2>1, <2>2, <2>5, <2>6, <2>7
<1>2. CASE ~Open(current)
  <2>1. queue' = Append(queue, m) /\ socket' = socket
    BY <1>2 DEF Send
  <2>2. queue \in Seq(Msgs) /\ socket \in [SocketIds -> Socks]
    BY DEF JsInv, JsShape
  <2>3. queue' \in Seq(Msgs)
    BY <2>1, <2>2
  <2> QED
    BY <1>2, <2>1, <2>2, <2>3
<1> QED
  BY <1>1, <1>2

LEMMA UnsubscribeKeeps == \A c \in Channels : JsInv /\ Unsubscribe(c) => JsInv'
<1> SUFFICES ASSUME NEW c \in Channels, JsInv, Unsubscribe(c) PROVE JsInv'
  OBVIOUS
<1>1. /\ records[c] > 0 /\ records' = [records EXCEPT ![c] = @ - 1]
      /\ UNCHANGED <<session, stored, token, heard, current, connecting, resolving, loaded, timer, stay, sockets>>
  BY DEF Unsubscribe, authSide
<1>2. records' \in [Channels -> Nat] /\ records'[c] = records[c] - 1 /\ \A d \in Channels \ {c} : records'[d] = records[d]
  BY <1>1 DEF JsInv, JsShape
<1>3. CASE records[c] = 1
  <2> DEFINE m == [action |-> "unsubscribe", channel |-> c]
  <2>1. channels' = channels \ {c} /\ Send(m)
    BY <1>3 DEF Unsubscribe
  <2>2. m \in Msgs /\ m.action = "unsubscribe" /\ m.channel = c
    BY DEF Msgs
  <2> HIDE DEF m
  <2>3. /\ socket' \in [SocketIds -> Socks] /\ queue' \in Seq(Msgs)
        /\ \A q \in SocketIds : socket'[q].state = socket[q].state /\ socket'[q].token = socket[q].token
        /\ \A q \in SocketIds : socket[q].state # "open" => socket'[q] = socket[q]
        /\ Open(current) => queue' = <<>> /\ socket'[current].subs = channels'
        /\ ~Open(current) => queue' = Append(queue, m)
    BY <2>1, <2>2, SendFacts DEF Hubs
  <2>4. channels' = {d \in Channels : records'[d] > 0}
    BY <1>2, <1>3, <2>1 DEF JsInv, JsShape
  <2>5. JsShape'
    BY <1>1, <1>2, <2>3, <2>4 DEF JsInv, JsShape
  <2>6. Live <=> Live'
    BY <2>3 DEF Live
  <2>7. Unloaded' /\ Way'
    BY <1>1, <2>1, <2>3, <2>6 DEF JsInv, Unloaded, Way
  <2>8. current = 0 \/ current \in SocketIds
    BY JsClientAssumption DEF JsInv, JsShape, SocketIds
  <2>9. After({}, queue)' \subseteq channels'
    <3>1. CASE Open(current)
      BY <2>3, <3>1, NothingSent DEF After
    <3>2. CASE ~Open(current)
      <4>1. After({}, Append(queue, m)) = After({}, queue) \ {c}
        BY <2>2, OneSent DEF JsInv, JsShape
      <4> QED
        BY <2>1, <2>3, <3>2, <4>1 DEF JsInv, Wire, After
    <3> QED
      BY <3>1, <3>2
  <2>10. Wire'
    BY <1>1, <2>3, <2>8, <2>9 DEF JsInv, Wire, Open
  <2> QED
    BY <2>5, <2>7, <2>10 DEF JsInv
<1>4. CASE records[c] # 1
  <2>1. UNCHANGED <<channels, queue, socket>>
    BY <1>4 DEF Unsubscribe
  <2>2. channels' = {d \in Channels : records'[d] > 0}
    BY <1>1, <1>2, <1>4, <2>1 DEF JsInv, JsShape
  <2>3. JsShape'
    BY <1>1, <1>2, <2>1, <2>2 DEF JsInv, JsShape
  <2>4. Unloaded' /\ Way' /\ Wire'
    BY <1>1, <2>1 DEF JsInv, Unloaded, Way, Live, Wire, Open, After
  <2> QED
    BY <2>3, <2>4 DEF JsInv
<1> QED
  BY <1>3, <1>4

LEMMA SubscribeKeeps == \A c \in Channels : JsInv /\ Subscribe(c) => JsInv'
<1> SUFFICES ASSUME NEW c \in Channels, JsInv, Subscribe(c) PROVE JsInv'
  OBVIOUS
<1> DEFINE m == [action |-> "subscribe", channel |-> c]
<1>1. /\ records' = [records EXCEPT ![c] = @ + 1] /\ channels' = channels \cup {c}
      /\ UNCHANGED <<session, stored, token, heard, timer, stay>>
  BY DEF Subscribe, authSide
<1>2. records' \in [Channels -> Nat] /\ records'[c] = records[c] + 1 /\ \A d \in Channels \ {c} : records'[d] = records[d]
      /\ records[c] \in Nat
  BY <1>1 DEF JsInv, JsShape
<1>3. channels' = {d \in Channels : records'[d] > 0}
  BY <1>1, <1>2 DEF JsInv, JsShape
<1>4. m \in Msgs /\ m.action = "subscribe" /\ m.channel = c
  BY DEF Msgs
<1>5. current = 0 \/ current \in SocketIds
  BY JsClientAssumption DEF JsInv, JsShape, SocketIds
<1>6. CASE Open(current) /\ (IF c \notin channels THEN Send(m) ELSE UNCHANGED <<socket, queue>>)
           /\ UNCHANGED <<connecting, resolving, loaded, current, sockets>>
  <2>1. /\ socket' \in [SocketIds -> Socks] /\ queue' \in Seq(Msgs)
        /\ \A q \in SocketIds : socket'[q].state = socket[q].state /\ socket'[q].token = socket[q].token
        /\ \A q \in SocketIds : socket[q].state # "open" => socket'[q] = socket[q]
        /\ queue' = <<>> /\ socket'[current].subs = channels'
    <3>1. CASE c \notin channels
      BY <1>1, <1>4, <1>6, <3>1, SendFacts DEF Hubs
    <3>2. CASE c \in channels
      BY <1>1, <1>6, <3>2 DEF JsInv, JsShape, Wire
    <3> QED
      BY <3>1, <3>2
  <2>2. JsShape'
    BY <1>1, <1>2, <1>3, <1>6, <2>1 DEF JsInv, JsShape
  <2>3. (Live <=> Live') /\ Live'
    BY <1>5, <1>6, <2>1 DEF Live, Open
  <2>4. Unloaded' /\ Way'
    BY <1>1, <1>6, <2>1, <2>3 DEF JsInv, Unloaded, Way
  <2>5. After({}, queue)' = {}
    BY <2>1, NothingSent DEF After
  <2>6. Wire'
    BY <1>1, <1>5, <1>6, <2>1, <2>5 DEF JsInv, Wire, Open
  <2> QED
    BY <2>2, <2>4, <2>6 DEF JsInv
<1>7. CASE /\ ~Open(current)
           /\ IF connecting THEN UNCHANGED <<connecting, resolving, loaded, current, sockets, socket>> ELSE Connect
           /\ queue' = IF c \notin channels THEN Append(queue, m) ELSE queue
  <2>1. /\ sockets' \in 0..MaxSockets /\ current' \in 0..MaxSockets /\ socket' \in [SocketIds -> Socks]
        /\ connecting' = TRUE /\ loaded' = loaded /\ resolving' \in 0..1 /\ (resolving' > 0 \/ Live')
        /\ \A s \in SocketIds : socket'[s] = socket[s] \/ (socket'[s].state = "connecting" /\ socket'[s].subs = {})
        /\ \/ UNCHANGED <<current, socket>>
           \/ ~(Open(current)') /\ current' # 0 /\ socket'[current'].token = token
        /\ ~loaded => current' = 0 /\ resolving' = 1 /\ UNCHANGED socket
    <3>1. CASE connecting
      BY <1>7, <3>1 DEF JsInv, JsShape, Unloaded, Way, Live
    <3>2. CASE ~connecting
      BY <1>7, <3>2, ConnectFacts
    <3> QED
      BY <3>1, <3>2
  <2>2. queue' \in Seq(Msgs) /\ After({}, queue') \subseteq channels'
    <3>1. queue \in Seq(Msgs) /\ After({}, queue) \subseteq channels
      BY DEF JsInv, JsShape, Wire
    <3>2. After({}, Append(queue, m)) = After({}, queue) \cup {c}
      BY <1>4, <3>1, OneSent
    <3> QED
      BY <1>1, <1>4, <1>7, <3>1, <3>2
  <2>3. JsShape'
    BY <1>1, <1>2, <1>3, <2>1, <2>2 DEF JsInv, JsShape
  <2>4. Unloaded' /\ Way'
    BY <1>1, <2>1 DEF JsInv, Unloaded, Way
  <2>5. After({}, queue)' = After({}, queue')
    BY DEF After
  <2>6. Wire'
    BY <1>1, <1>5, <1>7, <2>1, <2>2, <2>5 DEF JsInv, Wire, Open
  <2> QED
    BY <2>3, <2>4, <2>6 DEF JsInv
<1> QED
  BY <1>6, <1>7 DEF Subscribe

\* Every step of the client.
LEMMA JsKeeps == JsInv /\ JsNext => JsInv'
<1> SUFFICES ASSUME JsInv, JsNext PROVE JsInv'
  OBVIOUS
<1>1. CASE ClassResolved \/ Reconnect \/ Disconnect
  BY <1>1, ResolvedKeeps, ReconnectKeeps, DisconnectKeeps
<1>2. CASE SignOut
  BY <1>2, TokenKeeps DEF SignOut, Toks
<1>3. CASE \E s \in SocketIds : OnOpen(s) \/ OnClose(s) \/ \E c \in Channels : HandleMessage(s, c)
  BY <1>3, OpenKeeps, CloseKeeps, HeardKeeps
<1>4. CASE \E t \in JsTables : SubscribeTable(t)
  <2>1. \A t \in JsTables : <<session, t>> \in Channels
    BY DEF Channels, JsInv, JsShape, Toks
  <2> QED
    BY <1>4, <2>1, SubscribeKeeps DEF SubscribeTable
<1>5. CASE \E c \in Channels : SubscribeChannel(c) \/ Unsubscribe(c)
  BY <1>5, SubscribeKeeps, UnsubscribeKeeps DEF SubscribeChannel
<1>6. CASE \E t \in JsTenants : SignIn(t)
  BY <1>6, TokenKeeps DEF SignIn, Toks
<1> QED
  BY <1>1, <1>2, <1>3, <1>4, <1>5, <1>6 DEF JsNext

\* The connection is there or on its way, and subscribed to what is wanted.
LEMMA JsImplies == JsInv => ConnectionIsRight
BY DEF JsInv, Way, Wire, Live, ConnectionIsRight, ConnectionOnItsWay, CurrentSocketIsRight, Open

-----------------------------------------------------------------------------
(* The bounds of the client: the records of the application, the messages  *)
(* that wait.                                                              *)

JsBounds == records \in [Channels -> 0..MaxSubs] /\ Len(queue) <= MaxQueue + Cardinality(Channels)

LEMMA ChannelsAreFinite == IsFiniteSet(Channels) /\ Cardinality(Channels) \in Nat
<1>1. IsFiniteSet(Channels)
  BY JsClientAssumption, FS_Singleton, FS_Union, FS_Product DEF Channels
<1> QED
  BY <1>1, FS_CardinalityType

\* A channel has no more records than there are.
LEMMA RecordsOfOne ==
    ASSUME NEW c \in Channels, records \in [Channels -> Nat], RecordCount < MaxSubs
    PROVE  records[c] < MaxSubs
<1> DEFINE S == {x \in Channels \X (1..MaxSubs) : x[2] <= records[x[1]]}
           T == {<<c, i>> : i \in 1..MaxSubs}
<1>0. records[c] \in Nat /\ MaxSubs \in Nat
  BY JsClientAssumption
<1> SUFFICES ASSUME ~(records[c] < MaxSubs) PROVE FALSE
  OBVIOUS
<1>a. MaxSubs <= records[c]
  BY <1>0
<1>1. IsFiniteSet(Channels \X (1..MaxSubs))
  <2>1. IsFiniteSet(1..MaxSubs)
    BY <1>0, FS_Interval
  <2> QED
    BY <2>1, ChannelsAreFinite, FS_Product
<1>2. S \subseteq Channels \X (1..MaxSubs) /\ T \subseteq S
  BY JsClientAssumption
<1>3. IsFiniteSet(S)
  BY <1>1, <1>2, FS_Subset
<1>4. IsFiniteSet(T) /\ Cardinality(T) <= Cardinality(S) /\ Cardinality(S) \in Nat
  BY <1>2, <1>3, FS_Subset, FS_CardinalityType
<1>5. PICK f : f = [i \in 1..MaxSubs |-> <<c, i>>]
  OBVIOUS
<1>6. f \in Injection(1..MaxSubs, T)
  BY <1>5 DEF Injection, IsInjective
<1>7. Cardinality(1..MaxSubs) = MaxSubs
  BY FS_Interval, JsClientAssumption
<1>8. Cardinality(1..MaxSubs) <= Cardinality(T) /\ Cardinality(T) \in Nat
  BY <1>4, <1>6, FS_Injection, FS_CardinalityType
<1>9. Cardinality(S) = RecordCount
  BY DEF RecordCount
<1> QED
  BY <1>4, <1>7, <1>8, <1>9, JsClientAssumption

LEMMA BoundsStart == JsInit => JsBounds
<1>1. JsInit => Len(queue) = 0 /\ records \in [Channels -> 0..MaxSubs]
  BY JsClientAssumption DEF JsInit
<1> QED
  BY <1>1, ChannelsAreFinite, JsClientAssumption DEF JsBounds

LEMMA BoundsKeep == JsInv /\ JsBounds /\ JsNext => JsBounds'
<1> SUFFICES ASSUME JsInv, JsBounds, JsNext PROVE JsBounds'
  OBVIOUS
<1> DEFINE k == Cardinality(Channels)
<1>1. k \in Nat /\ MaxQueue \in Nat /\ MaxSubs \in Nat /\ queue \in Seq(Msgs) /\ Len(queue) \in Nat /\ Len(queue) <= MaxQueue + k
      /\ records \in [Channels -> 0..MaxSubs]
  BY ChannelsAreFinite, JsClientAssumption DEF JsInv, JsShape, JsBounds
<1>2. Len(<<>>) = 0 /\ Len(<<>>) <= MaxQueue + k
  BY <1>1
<1> HIDE DEF k
<1>3. ASSUME NEW m \in Msgs, Len(queue) < MaxQueue PROVE Len(Append(queue, m)) <= MaxQueue + k
  BY <1>1, <1>3
<1>4. CASE ClassResolved \/ Reconnect \/ Disconnect \/ SignOut \/ \E t \in JsTenants : SignIn(t)
  <2>1. UNCHANGED <<records, queue>>
    BY <1>4 DEF ClassResolved, Reconnect, Disconnect, SignOut, SignIn, SetToken, subSide
  <2> QED
    BY <1>1, <2>1 DEF JsBounds, k
<1>5. ASSUME NEW s \in SocketIds, OnOpen(s) PROVE JsBounds'
  <2>1. queue' \in {<<>>, Resubscribe} /\ UNCHANGED records
    BY <1>5 DEF OnOpen, subSide
  <2>2. channels \subseteq Channels
    BY DEF JsInv, JsShape
  <2>3. Len(Resubscribe) <= k /\ Len(Resubscribe) \in Nat
    BY <2>2, ResubscribeNames, JsClientAssumption DEF k
  <2> QED
    BY <1>1, <1>2, <2>1, <2>3 DEF JsBounds, k
<1>6. ASSUME NEW s \in SocketIds, OnClose(s) \/ \E c \in Channels : HandleMessage(s, c) PROVE JsBounds'
  <2>1. UNCHANGED <<records, queue>>
    BY <1>6 DEF OnClose, HandleMessage, subSide
  <2> QED
    BY <1>1, <2>1 DEF JsBounds, k
<1>7. ASSUME NEW m \in Msgs, Send(m) PROVE Len(queue') <= MaxQueue + k
  BY <1>1, <1>3, <1>7 DEF Send
<1>8. ASSUME NEW c \in Channels, Subscribe(c) PROVE JsBounds'
  <2> DEFINE m == [action |-> "subscribe", channel |-> c]
  <2>1. m \in Msgs
    BY DEF Msgs
  <2>2. records' = [records EXCEPT ![c] = @ + 1] /\ records[c] < MaxSubs
    BY <1>8, RecordsOfOne DEF Subscribe, JsInv, JsShape
  <2>3. records' \in [Channels -> 0..MaxSubs]
    BY <1>1, <2>2
  <2>4. Send(m) \/ UNCHANGED queue \/ (queue' = Append(queue, m) /\ Len(queue) < MaxQueue)
    BY <1>8 DEF Subscribe
  <2> HIDE DEF m
  <2>5. Len(queue') <= MaxQueue + k
    BY <1>1, <1>3, <1>7, <2>1, <2>4
  <2> QED
    BY <2>3, <2>5 DEF JsBounds, k
<1>9. ASSUME NEW c \in Channels, Unsubscribe(c) PROVE JsBounds'
  <2> DEFINE m == [action |-> "unsubscribe", channel |-> c]
  <2>1. m \in Msgs
    BY DEF Msgs
  <2>2. records' = [records EXCEPT ![c] = @ - 1] /\ records[c] > 0
    BY <1>9 DEF Unsubscribe
  <2>3. records' \in [Channels -> 0..MaxSubs]
    BY <1>1, <2>2
  <2>4. Send(m) \/ UNCHANGED queue
    BY <1>9 DEF Unsubscribe
  <2> HIDE DEF m
  <2>5. Len(queue') <= MaxQueue + k
    BY <1>1, <1>7, <2>1, <2>4
  <2> QED
    BY <2>3, <2>5 DEF JsBounds, k
<1>10. CASE \E t \in JsTables : SubscribeTable(t)
  <2>1. \A t \in JsTables : <<session, t>> \in Channels
    BY DEF Channels, JsInv, JsShape, Toks
  <2> QED
    BY <1>8, <1>10, <2>1 DEF SubscribeTable
<1> QED
  BY <1>4, <1>5, <1>6, <1>8, <1>9, <1>10 DEF JsNext, SubscribeChannel

LEMMA JsTyped == JsInv /\ JsBounds => JsTypeOK
<1> SUFFICES ASSUME JsInv, JsBounds PROVE JsTypeOK
  OBVIOUS
<1>1. \A s \in SocketIds : /\ socket[s].state \in {"closed", "connecting", "open", "closing"}
                            /\ socket[s].subs \subseteq Channels
  BY DEF JsInv, JsShape, Socks
<1> QED
  BY <1>1 DEF JsInv, JsShape, JsBounds, JsTypeOK, Toks

-----------------------------------------------------------------------------
(* The web mail page: of the calls of a compose window at most one has not *)
(* come back with an error, and a loader has a call that ends it.          *)

UiFields == {"open", "box", "mail", "boxes", "list", "found", "search", "view", "compose", "shown", "failed",
             "listing", "searching", "viewing", "sending", "refreshing"}
Ops      == {"boxes", "list", "read", "search", "delete", "send"}
Boxes    == Folders \cup {"none"}
CallPcs  == {"sent", "mark", "move", "submit", "answered", "heard"}
CallRecs == [op : Ops, id : Nat, box : Boxes, re : BOOLEAN, pc : CallPcs, done : BOOLEAN, ok : BOOLEAN,
             got : SUBSET Mails]
CallOK(t) ==
    /\ t \in CallRecs
    /\ t.op \in {"read", "delete"} => t.id \in Mails
    /\ t.pc = "mark" => t.op = "read"
    /\ t.ok => t.pc \in {"answered", "heard"}
    /\ t.done => t.pc \in {"answered", "heard"}
NewCalls    == {t \in CallRecs : t.pc = "sent" /\ ~t.ok /\ ~t.done /\ (t.op \in {"read", "delete"} => t.id \in Mails)}

UiOK ==
    /\ DOMAIN ui = UiFields /\ ui = [f \in UiFields |-> ui[f]]
    /\ ui.box \in Boxes /\ ui.mail \in {0} \cup Mails /\ ui.list \subseteq Mails /\ ui.found \subseteq Mails
    /\ ui.compose \in {0, composed.opened}
Flags ==
    /\ ui.open \in BOOLEAN /\ ui.listing \in BOOLEAN /\ ui.searching \in BOOLEAN /\ ui.viewing \in BOOLEAN
    /\ ui.sending \in BOOLEAN /\ (~ui.open => ui = Login)
ServerOK ==
    /\ place \in [Mails -> Boxes] /\ seen \subseteq Mails
    /\ cookie \in {"none", "valid", "expired"}
    /\ DOMAIN composed = {"opened", "sent"} /\ composed = [f \in {"opened", "sent"} |-> composed[f]]
    /\ composed.opened \in 0..MaxComposes
CallsOK == calls \in Seq(CallRecs) /\ Len(calls) <= MaxCalls /\ \A c \in DOMAIN calls : CallOK(calls[c])

\* A call of a compose window that has not come back with an error.
Good(t)    == t.op = "send" /\ ~(t.pc = "heard" /\ ~t.ok)
OfWindows  == \A c \in DOMAIN calls : calls[c].op = "send" => calls[c].id \in 1..composed.opened
OneGood    == \A c, d \in DOMAIN calls : Good(calls[c]) /\ Good(calls[d]) /\ calls[c].id = calls[d].id => c = d
FreeButton == ui.compose # 0 /\ ~ui.sending => \A c \in DOMAIN calls : Good(calls[c]) => calls[c].id # ui.compose
OkSend(id) == \E c \in DOMAIN calls : calls[c].op = "send" /\ calls[c].id = id /\ calls[c].ok
ToldSent   == \A x \in composed.sent : x[2] <= x[1] /\ OkSend(x[2])
SendInv    == OfWindows /\ OneGood /\ FreeButton /\ ToldSent

WebInv == UiOK /\ Flags /\ ServerOK /\ CallsOK /\ SendInv /\ LoadersEnd

-----------------------------------------------------------------------------
LEMMA LoginFacts ==
    /\ DOMAIN Login = UiFields /\ Login = [f \in UiFields |-> Login[f]]
    /\ Login.box = "none" /\ Login.mail = 0 /\ Login.list = {} /\ Login.found = {} /\ Login.compose = 0
    /\ Login.open = FALSE /\ Login.listing = FALSE /\ Login.searching = FALSE /\ Login.viewing = FALSE /\ Login.sending = FALSE
BY DEF Login, UiFields

LEMMA WebStarts == WebMailInit => WebInv
<1> SUFFICES ASSUME WebMailInit PROVE WebInv
  OBVIOUS
<1> USE WebMailAssumption
<1>1. composed.opened = 0 /\ composed.sent = {} /\ DOMAIN composed = {"opened", "sent"}
      /\ composed = [f \in {"opened", "sent"} |-> composed[f]]
  BY DEF WebMailInit
<1>2. ServerOK
  <2>1. place \in [Mails -> Boxes] /\ seen \subseteq Mails
    BY DEF WebMailInit, Boxes, Folders
  <2> QED
    BY <1>1, <2>1 DEF WebMailInit, ServerOK
<1>3. ui = Login
  BY DEF WebMailInit
<1>a. UiOK
  BY <1>1, <1>3, LoginFacts DEF UiOK, Boxes, Folders
<1>b. Flags
  BY <1>3, LoginFacts DEF Flags
<1>4. calls = <<>> /\ DOMAIN calls = {} /\ Len(calls) = 0 /\ calls \in Seq(CallRecs)
  BY DEF WebMailInit
<1>5. CallsOK /\ SendInv
  BY <1>1, <1>3, <1>4, LoginFacts DEF CallsOK, SendInv, OfWindows, OneGood, FreeButton, ToldSent
<1>6. LoadersEnd
  BY LoginFacts DEF WebMailInit, LoadersEnd
<1> QED
  BY <1>2, <1>a, <1>b, <1>5, <1>6 DEF WebInv

\* Call c, if not 0, has been heard, and the calls cs are new.
Grown(c, cs) ==
    /\ cs \in Seq(NewCalls) /\ calls' \in Seq(CallRecs) /\ Len(calls') <= MaxCalls
    /\ DOMAIN calls' = 1..(Len(calls) + Len(cs)) /\ DOMAIN calls = 1..Len(calls) /\ DOMAIN cs = 1..Len(cs)
    /\ Len(calls) \in Nat /\ Len(cs) \in Nat
    /\ \A i \in 1..Len(calls) : i # c => calls'[i] = calls[i]
    /\ c # 0 => /\ c \in 1..Len(calls) /\ calls'[c].pc = "heard"
                /\ calls'[c].op = calls[c].op /\ calls'[c].id = calls[c].id /\ calls'[c].done = calls[c].done
                /\ calls'[c].ok = calls[c].ok
    /\ \A j \in 1..Len(cs) : calls'[Len(calls) + j] = cs[j]
    /\ \A i \in DOMAIN calls' : i \in 1..Len(calls) \/ \E j \in 1..Len(cs) : i = Len(calls) + j

LEMMA Joined ==
    ASSUME NEW S, NEW a \in Seq(S), NEW b \in Seq(S)
    PROVE  /\ a \o b \in Seq(S) /\ Len(a \o b) = Len(a) + Len(b)
           /\ (\A i \in 1..Len(a) : (a \o b)[i] = a[i]) /\ (\A j \in 1..Len(b) : (a \o b)[Len(a) + j] = b[j])
OBVIOUS

LEMMA Issued ==
    ASSUME CallsOK, NEW cs \in Seq(NewCalls), Issue(cs)
    PROVE  Grown(0, cs)
<1>1. calls \in Seq(CallRecs) /\ cs \in Seq(CallRecs) /\ Len(calls) \in Nat /\ Len(cs) \in Nat
  BY DEF CallsOK, NewCalls
<1>2. calls' = calls \o cs /\ Len(calls) + Len(cs) <= MaxCalls
  BY DEF Issue
<1>3. DOMAIN calls = 1..Len(calls) /\ DOMAIN cs = 1..Len(cs) /\ calls' \in Seq(CallRecs)
      /\ Len(calls') = Len(calls) + Len(cs) /\ DOMAIN calls' = 1..(Len(calls) + Len(cs))
      /\ (\A i \in 1..Len(calls) : calls'[i] = calls[i]) /\ (\A j \in 1..Len(cs) : calls'[Len(calls) + j] = cs[j])
  BY <1>1, <1>2
<1>4. \A i \in 1..(Len(calls) + Len(cs)) : i \in 1..Len(calls) \/ (i - Len(calls) \in 1..Len(cs) /\ i = Len(calls) + (i - Len(calls)))
  BY <1>1
<1> QED
  BY <1>1, <1>2, <1>3, <1>4 DEF Grown

LEMMA HeardIsGrown ==
    ASSUME CallsOK, NEW c \in DOMAIN calls, NEW cs \in Seq(NewCalls), Heard(c, cs), c # 0
    PROVE  Grown(c, cs)
<1>1. calls \in Seq(CallRecs) /\ cs \in Seq(CallRecs) /\ Len(calls) \in Nat /\ Len(cs) \in Nat /\ c \in 1..Len(calls)
  BY DEF CallsOK, NewCalls
<1>2. PICK now : now = [calls EXCEPT ![c].pc = "heard"]
  OBVIOUS
<1>3. PICK k : k = [calls[c] EXCEPT !.pc = "heard"]
  OBVIOUS
<1>a. calls[c] \in CallRecs
  BY <1>1
<1>4. k \in CallRecs /\ k.pc = "heard" /\ k.op = calls[c].op /\ k.id = calls[c].id /\ k.done = calls[c].done /\ k.ok = calls[c].ok
  BY <1>a, <1>3 DEF CallRecs, CallPcs
<1>5. now = [calls EXCEPT ![c] = k]
  BY <1>2, <1>3
<1>6. now \in Seq(CallRecs) /\ Len(now) = Len(calls) /\ now[c] = k /\ \A i \in 1..Len(calls) : i # c => now[i] = calls[i]
  BY <1>1, <1>4, <1>5
<1>7. calls' = now \o cs /\ Len(calls) + Len(cs) <= MaxCalls
  BY <1>2 DEF Heard
<1>c. /\ now \o cs \in Seq(CallRecs) /\ Len(now \o cs) = Len(now) + Len(cs)
      /\ (\A i \in 1..Len(now) : (now \o cs)[i] = now[i]) /\ (\A j \in 1..Len(cs) : (now \o cs)[Len(now) + j] = cs[j])
  <2>1. now \in Seq(CallRecs) /\ cs \in Seq(CallRecs)
    BY <1>1, <1>6
  <2> QED
    BY <2>1, Joined
<1>b. calls' \in Seq(CallRecs) /\ Len(calls') = Len(now) + Len(cs)
      /\ (\A i \in 1..Len(now) : calls'[i] = now[i]) /\ (\A j \in 1..Len(cs) : calls'[Len(now) + j] = cs[j])
  BY <1>7, <1>c
<1>8. DOMAIN calls = 1..Len(calls) /\ DOMAIN cs = 1..Len(cs) /\ calls' \in Seq(CallRecs)
      /\ Len(calls') = Len(calls) + Len(cs) /\ DOMAIN calls' = 1..(Len(calls) + Len(cs))
      /\ (\A i \in 1..Len(calls) : calls'[i] = now[i]) /\ (\A j \in 1..Len(cs) : calls'[Len(calls) + j] = cs[j])
  BY <1>1, <1>6, <1>b
<1>9. \A i \in 1..(Len(calls) + Len(cs)) : i \in 1..Len(calls) \/ (i - Len(calls) \in 1..Len(cs) /\ i = Len(calls) + (i - Len(calls)))
  BY <1>1
<1> QED
  BY <1>1, <1>4, <1>6, <1>7, <1>8, <1>9 DEF Grown

\* The calls stay well formed.
LEMMA GrownCallsOK ==
    ASSUME CallsOK, NEW c, NEW cs, Grown(c, cs)
    PROVE  CallsOK'
<1> SUFFICES ASSUME NEW i \in DOMAIN calls' PROVE CallOK(calls'[i])
  BY DEF CallsOK, Grown
<1>1. calls'[i] \in CallRecs
  BY DEF Grown
<1>2. CASE i \in 1..Len(calls) /\ i # c
  BY <1>2 DEF Grown, CallsOK
<1>3. CASE i \in 1..Len(calls) /\ i = c
  <2>1. c # 0 /\ CallOK(calls[c])
    BY <1>3 DEF Grown, CallsOK
  <2> QED
    BY <1>1, <1>3, <2>1 DEF Grown, CallOK
<1>4. CASE \E j \in 1..Len(cs) : i = Len(calls) + j
  <2>1. PICK j \in 1..Len(cs) : i = Len(calls) + j
    BY <1>4
  <2>2. calls'[i] = cs[j] /\ cs[j] \in NewCalls
    BY <2>1 DEF Grown
  <2> QED
    BY <2>2 DEF NewCalls, CallOK
<1> QED
  BY <1>2, <1>3, <1>4 DEF Grown

\* A call under way stays so unless it is the one heard; a new one is under way.
LEMMA GrownPending ==
    ASSUME NEW c, NEW cs, Grown(c, cs), NEW op
    PROVE  /\ c = 0 \/ calls[c].op # op => Pending(op) \subseteq Pending(op)'
           /\ (\E j \in 1..Len(cs) : cs[j].op = op) => Pending(op)' # {}
           /\ \A i \in Pending(op) : i # c => i \in Pending(op)' /\ calls'[i] = calls[i]
<1>1. \A i \in Pending(op) : i # c => i \in Pending(op)' /\ calls'[i] = calls[i]
  BY DEF Grown, Pending
<1>2. ASSUME NEW j \in 1..Len(cs), cs[j].op = op PROVE Pending(op)' # {}
  <2>1. cs[j].pc = "sent"
    BY DEF Grown, NewCalls
  <2>2. Len(calls) + j \in DOMAIN calls'
    BY DEF Grown
  <2> QED
    BY <1>2, <2>1, <2>2 DEF Grown, Pending
<1>3. c = 0 \/ calls[c].op # op => c \notin Pending(op)
  BY DEF Grown, Pending
<1> QED
  BY <1>1, <1>2, <1>3

-----------------------------------------------------------------------------
(* The invariant of the compose windows over the steps of the calls.       *)

\* No call of a window is new, and none of the old ones is revived.
LEMMA SendsFollow ==
    ASSUME WebInv, NEW c, NEW cs, Grown(c, cs), \A j \in 1..Len(cs) : cs[j].op # "send",
           composed.opened <= composed'.opened, composed'.opened \in Nat,
           composed'.sent = composed.sent \/
              (/\ c # 0 /\ calls[c].op = "send" /\ calls[c].ok /\ ui.compose # 0
               /\ composed'.sent = composed.sent \cup {<<ui.compose, calls[c].id>>}),
           \/ ui'.compose = 0
           \/ ui'.compose = ui.compose /\ (ui.sending => ui'.sending)
           \/ ui'.compose > composed.opened
           \/ /\ ui'.compose = ui.compose /\ c # 0 /\ Good(calls[c]) /\ calls[c].id = ui.compose /\ ~calls[c].ok
    PROVE  SendInv'
<1>1. \A i \in DOMAIN calls' : calls'[i].op = "send" => i \in 1..Len(calls) /\ i \in DOMAIN calls
                                  /\ calls[i].op = "send" /\ calls'[i].id = calls[i].id
                                  /\ (Good(calls'[i]) => Good(calls[i]))
  <2> SUFFICES ASSUME NEW i \in DOMAIN calls', calls'[i].op = "send"
               PROVE  i \in 1..Len(calls) /\ i \in DOMAIN calls
                      /\ calls[i].op = "send" /\ calls'[i].id = calls[i].id
                      /\ (Good(calls'[i]) => Good(calls[i]))
    OBVIOUS
  <2>1. i \in 1..Len(calls)
    BY DEF Grown
  <2>2. CASE i = c
    BY <2>1, <2>2 DEF Grown, Good
  <2>3. CASE i # c
    BY <2>1, <2>3 DEF Grown
  <2> QED
    BY <2>1, <2>2, <2>3
<1>2. composed.opened \in Nat
  BY WebMailAssumption DEF WebInv, ServerOK
<1>3. OfWindows'
  BY <1>1, <1>2 DEF OfWindows, WebInv, SendInv
<1>4. OneGood'
  <2> SUFFICES ASSUME NEW a \in DOMAIN calls', NEW b \in DOMAIN calls', Good(calls'[a]), Good(calls'[b]), calls'[a].id = calls'[b].id
               PROVE a = b
    BY DEF OneGood
  <2>1. calls'[a].op = "send" /\ calls'[b].op = "send"
    BY DEF Good
  <2> QED
    BY <1>1, <2>1 DEF OneGood, WebInv, SendInv
<1>5. ToldSent'
  <2>1. ASSUME NEW i \in DOMAIN calls
        PROVE  i \in DOMAIN calls' /\ calls'[i].op = calls[i].op /\ calls'[i].id = calls[i].id /\ calls'[i].ok = calls[i].ok
    <3>1. i \in 1..Len(calls) /\ i \in DOMAIN calls'
      BY DEF Grown
    <3>2. CASE i = c
      BY <3>1, <3>2 DEF Grown
    <3>3. CASE i # c
      BY <3>1, <3>3 DEF Grown
    <3> QED
      BY <3>1, <3>2, <3>3
  <2>2. ASSUME NEW id, OkSend(id) PROVE (OkSend(id))'
    BY <2>1, <2>2 DEF OkSend
  <2>3. CASE composed'.sent = composed.sent
    BY <2>2, <2>3 DEF ToldSent, WebInv, SendInv
  <2>4. CASE /\ c # 0 /\ calls[c].op = "send" /\ calls[c].ok /\ ui.compose # 0
             /\ composed'.sent = composed.sent \cup {<<ui.compose, calls[c].id>>}
    <3>1. c \in DOMAIN calls /\ calls[c].id \in 1..composed.opened /\ ui.compose = composed.opened
      BY <2>4 DEF Grown, WebInv, SendInv, OfWindows, UiOK
    <3>2. calls[c].id <= ui.compose /\ OkSend(calls[c].id)
      BY <1>2, <2>4, <3>1 DEF OkSend
    <3>3. PICK id : id = calls[c].id
      OBVIOUS
    <3>4. PICK w : w = ui.compose
      OBVIOUS
    <3>5. id <= w /\ OkSend(id) /\ composed'.sent = composed.sent \cup {<<w, id>>}
      BY <2>4, <3>2, <3>3, <3>4
    <3>6. (OkSend(id))'
      BY <2>2, <3>5
    <3> QED
      BY <2>2, <3>5, <3>6 DEF ToldSent, WebInv, SendInv
  <2> QED
    BY <2>3, <2>4
<1>6. FreeButton'
  <2> SUFFICES ASSUME ui'.compose # 0, ~(ui'.sending), NEW i \in DOMAIN calls', Good(calls'[i]), calls'[i].id = ui'.compose
               PROVE FALSE
    BY DEF FreeButton
  <2>1. i \in DOMAIN calls /\ calls[i].op = "send" /\ calls[i].id = ui'.compose /\ Good(calls[i])
    BY <1>1 DEF Good
  <2>2. CASE ui'.compose = ui.compose /\ (ui.sending => ui'.sending)
    BY <2>1, <2>2 DEF FreeButton, WebInv, SendInv
  <2>3. CASE ui'.compose > composed.opened
    BY <1>2, <2>1, <2>3 DEF OfWindows, WebInv, SendInv
  <2>4. CASE ui'.compose = ui.compose /\ c # 0 /\ Good(calls[c]) /\ calls[c].id = ui.compose /\ ~calls[c].ok
    <3>1. c \in DOMAIN calls
      BY <2>4 DEF Grown
    <3>2. i = c
      BY <2>1, <2>4, <3>1 DEF OneGood, WebInv, SendInv
    <3>3. ~Good(calls'[i])
      BY <2>4, <3>2 DEF Grown, Good
    <3> QED
      BY <3>3
  <2> QED
    BY <2>2, <2>3, <2>4
<1> QED
  BY <1>3, <1>4, <1>5, <1>6 DEF SendInv

\* The window on the screen sends, and had nothing under way.
LEMMA SendIsAlone ==
    ASSUME WebInv, NEW t \in NewCalls, Grown(0, <<t>>), t.op = "send", t.id = ui.compose, ui.compose # 0, ~ui.sending,
           UNCHANGED composed, ui'.compose = ui.compose, ui'.sending
    PROVE  SendInv'
<1> DEFINE n == Len(calls) + 1
<1>1. Len(<<t>>) = 1 /\ <<t>>[1] = t
  OBVIOUS
<1>2. /\ n \in Nat /\ calls'[n] = t /\ DOMAIN calls' = 1..n /\ DOMAIN calls = 1..Len(calls) /\ Len(calls) \in Nat
      /\ \A i \in DOMAIN calls : calls'[i] = calls[i]
      /\ \A i \in DOMAIN calls' : i \in DOMAIN calls \/ i = n
      /\ DOMAIN calls \subseteq DOMAIN calls'
  BY <1>1 DEF Grown
<1> HIDE DEF n
<1>3. \A i \in DOMAIN calls : Good(calls[i]) => calls[i].id # t.id
  BY DEF WebInv, SendInv, FreeButton
<1>4. ui.compose \in 1..composed.opened
  BY WebMailAssumption DEF WebInv, UiOK, ServerOK
<1>5. OfWindows'
  BY <1>2, <1>4 DEF WebInv, SendInv, OfWindows
<1>6. OneGood'
  <2> SUFFICES ASSUME NEW a \in DOMAIN calls', NEW b \in DOMAIN calls', Good(calls'[a]), Good(calls'[b]), calls'[a].id = calls'[b].id
               PROVE a = b
    BY DEF OneGood
  <2>1. CASE a \in DOMAIN calls /\ b \in DOMAIN calls
    BY <1>2, <2>1 DEF WebInv, SendInv, OneGood
  <2>2. CASE a = n \/ b = n
    BY <1>2, <1>3, <2>2
  <2> QED
    BY <1>2, <2>1, <2>2
<1>7. ToldSent'
  <2>1. DOMAIN calls \subseteq DOMAIN calls'
    BY <1>2
  <2> QED
    BY <1>2, <2>1 DEF WebInv, SendInv, ToldSent, OkSend
<1>8. FreeButton'
  BY DEF FreeButton
<1> QED
  BY <1>5, <1>6, <1>7, <1>8 DEF SendInv

\* A call that goes on, or is answered.
Moved(c, k) ==
    /\ c \in DOMAIN calls /\ calls' = [calls EXCEPT ![c] = k] /\ CallOK(k) /\ k.op = calls[c].op /\ k.id = calls[c].id
    /\ calls[c].pc # "heard" /\ k.pc # "heard" /\ ~calls[c].done /\ ~calls[c].ok
    /\ UNCHANGED <<ui, composed>>

LEMMA MovedKeeps ==
    ASSUME WebInv, NEW c, NEW k, Moved(c, k)
    PROVE  UiOK' /\ Flags' /\ CallsOK' /\ SendInv' /\ LoadersEnd'
<1>1. calls \in Seq(CallRecs) /\ k \in CallRecs /\ c \in DOMAIN calls
  BY DEF WebInv, CallsOK, Moved, CallOK
<1>2. calls' \in Seq(CallRecs) /\ Len(calls') = Len(calls) /\ DOMAIN calls' = DOMAIN calls
      /\ calls'[c] = k /\ \A i \in DOMAIN calls : i # c => calls'[i] = calls[i]
  BY <1>1 DEF Moved
<1>3. CallsOK'
  BY <1>2 DEF WebInv, CallsOK, Moved
<1>4. UiOK' /\ Flags'
  BY DEF WebInv, UiOK, Flags, Moved
<1>5. \A i \in DOMAIN calls : /\ calls'[i].op = calls[i].op /\ calls'[i].id = calls[i].id
                               /\ (calls'[i].pc = "heard" <=> calls[i].pc = "heard")
                               /\ (calls[i].ok => calls'[i].ok)
                               /\ (Good(calls'[i]) <=> Good(calls[i]))
  <2> SUFFICES ASSUME NEW i \in DOMAIN calls
               PROVE /\ calls'[i].op = calls[i].op /\ calls'[i].id = calls[i].id
                     /\ (calls'[i].pc = "heard" <=> calls[i].pc = "heard")
                     /\ (calls[i].ok => calls'[i].ok)
                     /\ (Good(calls'[i]) <=> Good(calls[i]))
    OBVIOUS
  <2>1. CASE i = c
    BY <1>2, <2>1 DEF Moved, Good
  <2>2. CASE i # c
    BY <1>2, <2>2
  <2> QED
    BY <2>1, <2>2
<1>6. \A op : Pending(op)' = Pending(op)
  <2> SUFFICES ASSUME NEW op PROVE Pending(op)' = Pending(op)
    OBVIOUS
  <2>1. \A i : i \in Pending(op)' <=> i \in Pending(op)
    BY <1>2, <1>5 DEF Pending
  <2> QED
    BY <2>1
<1>7. LoadersEnd'
  <2>1. \A i \in Pending("send") : calls'[i].id = calls[i].id
    BY <1>5 DEF Pending
  <2> QED
    BY <1>6, <2>1 DEF WebInv, LoadersEnd, Moved
<1>8. UNCHANGED <<ui, composed>>
  BY DEF Moved
<1>a. OfWindows'
  BY <1>2, <1>5, <1>8 DEF WebInv, SendInv, OfWindows
<1>9. OfWindows' /\ FreeButton'
  BY <1>2, <1>5, <1>8, <1>a DEF WebInv, SendInv, FreeButton
<1>b. ToldSent'
  BY <1>2, <1>5, <1>8 DEF WebInv, SendInv, ToldSent, OkSend
<1>10. OneGood' /\ ToldSent'
  <2> SUFFICES ASSUME NEW a \in DOMAIN calls, NEW b \in DOMAIN calls, Good(calls'[a]), Good(calls'[b]), calls'[a].id = calls'[b].id
               PROVE a = b
    BY <1>2, <1>b DEF OneGood
  <2> QED
    BY <1>5 DEF WebInv, SendInv, OneGood
<1> QED
  BY <1>3, <1>4, <1>7, <1>9, <1>10 DEF SendInv

-----------------------------------------------------------------------------
(* The steps of the page. *)

UiShape(u) == DOMAIN u = UiFields /\ u = [f \in UiFields |-> u[f]]
SameUi == UNCHANGED <<calls, ui, composed>>

\* What leaves the calls and the page alone.
LEMMA MailAroundKeeps ==
    ASSUME WebInv, UNCHANGED <<calls, ui, composed>>, place' \in [Mails -> Boxes], seen' \subseteq Mails,
           cookie' \in {"none", "valid", "expired"}
    PROVE  WebInv'
<1>1. UiOK' /\ Flags' /\ CallsOK'
  BY DEF WebInv, UiOK, Flags, CallsOK
<1>2. ServerOK'
  BY DEF WebInv, ServerOK
<1>3. SendInv'
  BY DEF WebInv, SendInv, OfWindows, OneGood, FreeButton, ToldSent, OkSend
<1>4. LoadersEnd'
  BY DEF WebInv, LoadersEnd, Pending
<1> QED
  BY <1>1, <1>2, <1>3, <1>4 DEF WebInv

LEMMA NothingIssued ==
    ASSUME CallsOK, UNCHANGED calls
    PROVE  Grown(0, <<>>)
<1>1. calls \in Seq(CallRecs) /\ <<>> \in Seq(NewCalls) /\ Len(<<>>) = 0 /\ DOMAIN <<>> = 1..0 /\ Len(calls) \in Nat
      /\ DOMAIN calls = 1..Len(calls) /\ Len(calls) <= MaxCalls
  BY DEF CallsOK
<1> QED
  BY <1>1 DEF Grown

\* A call as the page makes it.
LEMMA CallIsNew ==
    ASSUME NEW op \in Ops, NEW id \in Nat, NEW box \in Boxes, NEW re \in BOOLEAN, op \in {"read", "delete"} => id \in Mails
    PROVE  /\ Call(op, id, box, re) \in NewCalls /\ Call(op, id, box, re).op = op /\ Call(op, id, box, re).id = id
           /\ <<Call(op, id, box, re)>> \in Seq(NewCalls) /\ Len(<<Call(op, id, box, re)>>) = 1
           /\ <<Call(op, id, box, re)>>[1] = Call(op, id, box, re)
<1>1. PICK t : t = Call(op, id, box, re)
  OBVIOUS
<1>2. t \in CallRecs /\ t.op = op /\ t.id = id /\ t.pc = "sent" /\ t.done = FALSE /\ t.ok = FALSE
  BY <1>1 DEF Call, CallRecs, CallPcs
<1>3. t \in NewCalls
  BY <1>2 DEF NewCalls
<1> QED
  BY <1>1, <1>2, <1>3

\* The loaders end, when each of them keeps its call or has a new one.
LEMMA LoadersFollow ==
    ASSUME WebInv, NEW c, NEW cs, Grown(c, cs),
           ui'.listing => (ui.listing /\ (c = 0 \/ calls[c].op # "list")) \/ \E j \in 1..Len(cs) : cs[j].op = "list",
           ui'.searching => (ui.searching /\ (c = 0 \/ calls[c].op # "search")) \/ \E j \in 1..Len(cs) : cs[j].op = "search",
           ui'.viewing => (ui.viewing /\ (c = 0 \/ calls[c].op # "read")) \/ \E j \in 1..Len(cs) : cs[j].op = "read",
           ui'.sending /\ ui'.compose # 0 =>
              /\ ui.sending /\ ui'.compose = ui.compose
              /\ c = 0 \/ calls[c].op # "send" \/ calls[c].id # ui.compose
    PROVE  LoadersEnd'
<1>1. \A op : /\ c = 0 \/ calls[c].op # op => Pending(op) \subseteq Pending(op)'
              /\ (\E j \in 1..Len(cs) : cs[j].op = op) => Pending(op)' # {}
              /\ \A i \in Pending(op) : i # c => i \in Pending(op)' /\ calls'[i] = calls[i]
  BY GrownPending
<1>2. ui'.listing => Pending("list")' # {}
  BY <1>1 DEF WebInv, LoadersEnd
<1>3. ui'.searching => Pending("search")' # {}
  BY <1>1 DEF WebInv, LoadersEnd
<1>4. ui'.viewing => Pending("read")' # {}
  BY <1>1 DEF WebInv, LoadersEnd
<1>5. ASSUME ui'.sending, ui'.compose # 0 PROVE \E i \in Pending("send")' : calls'[i].id = ui'.compose
  <2>1. PICK i \in Pending("send") : calls[i].id = ui.compose
    BY <1>5 DEF WebInv, LoadersEnd
  <2>2. i # c
    BY <1>5, <2>1 DEF Grown, Pending
  <2> QED
    BY <1>1, <1>5, <2>1, <2>2
<1> QED
  BY <1>2, <1>3, <1>4, <1>5 DEF LoadersEnd

\* A step of the page that sends no mail.
LEMMA PageStep ==
    ASSUME WebInv, NEW c, NEW cs, Grown(c, cs), UNCHANGED <<place, seen>>, cookie' \in {"none", "valid", "expired"},
           UiOK', Flags', ServerOK',
           \A j \in 1..Len(cs) : cs[j].op # "send", composed.opened <= composed'.opened,
           composed'.sent = composed.sent \/
              (/\ c # 0 /\ calls[c].op = "send" /\ calls[c].ok /\ ui.compose # 0
               /\ composed'.sent = composed.sent \cup {<<ui.compose, calls[c].id>>}),
           \/ ui'.compose = 0
           \/ ui'.compose = ui.compose /\ (ui.sending => ui'.sending)
           \/ ui'.compose > composed.opened
           \/ /\ ui'.compose = ui.compose /\ c # 0 /\ Good(calls[c]) /\ calls[c].id = ui.compose /\ ~calls[c].ok,
           ui'.listing => (ui.listing /\ (c = 0 \/ calls[c].op # "list")) \/ \E j \in 1..Len(cs) : cs[j].op = "list",
           ui'.searching => (ui.searching /\ (c = 0 \/ calls[c].op # "search")) \/ \E j \in 1..Len(cs) : cs[j].op = "search",
           ui'.viewing => (ui.viewing /\ (c = 0 \/ calls[c].op # "read")) \/ \E j \in 1..Len(cs) : cs[j].op = "read",
           ui'.sending /\ ui'.compose # 0 =>
              /\ ui.sending /\ ui'.compose = ui.compose
              /\ c = 0 \/ calls[c].op # "send" \/ calls[c].id # ui.compose
    PROVE  WebInv'
<1>1. composed'.opened \in Nat
  BY WebMailAssumption DEF ServerOK
<1>2. SendInv'
  BY <1>1, SendsFollow
<1>3. LoadersEnd'
  BY LoadersFollow
<1>4. CallsOK'
  BY GrownCallsOK DEF WebInv
<1> QED
  BY <1>2, <1>3, <1>4 DEF WebInv

LEMMA ComposedLeft == WebInv /\ UNCHANGED <<place, seen, composed>> /\ cookie' \in {"none", "valid", "expired"} => ServerOK'
BY DEF WebInv, ServerOK

LEMMA WindowIsOpen == WebInv /\ ui.compose # 0 => ui.open
BY LoginFacts DEF WebInv, Flags

LEMMA UiHasShape == WebInv => UiShape(ui) /\ composed.opened \in Nat /\ cookie \in {"none", "valid", "expired"}
BY WebMailAssumption DEF WebInv, UiOK, UiShape, ServerOK

\* What the page may change of itself without hearing or sending a mail.
UiMoves(op) ==
    /\ UNCHANGED <<place, seen, cookie, composed>>
    /\ UiShape(ui') /\ ui.open /\ ui'.open = ui.open
    /\ ui'.box \in Boxes /\ ui'.mail \in {0} \cup Mails /\ ui'.list = ui.list /\ ui'.found \subseteq ui.found
    /\ ui'.compose \in {0, ui.compose} /\ ui'.sending = ui.sending
    /\ ui'.listing = ui.listing \/ (ui'.listing = TRUE /\ op = "list")
    /\ ui'.searching = ui.searching \/ (ui'.searching = TRUE /\ op = "search")
    /\ ui'.viewing = ui.viewing \/ (ui'.viewing = TRUE /\ op = "read")

LEMMA UiMovesWell ==
    ASSUME WebInv, NEW op, UiMoves(op)
    PROVE  UiOK' /\ Flags' /\ ServerOK' /\ cookie' \in {"none", "valid", "expired"} /\ UNCHANGED composed /\ composed.opened \in Nat
<1>1. UiOK'
  BY UiHasShape DEF WebInv, UiOK, UiShape, UiMoves
<1>2. Flags'
  BY DEF WebInv, Flags, UiMoves
<1>3. cookie' \in {"none", "valid", "expired"} /\ UNCHANGED composed /\ composed.opened \in Nat
  BY UiHasShape DEF UiMoves
<1> QED
  BY <1>1, <1>2, <1>3, ComposedLeft DEF UiMoves

LEMMA PageIsQuiet ==
    ASSUME WebInv, UiMoves("none"), UNCHANGED calls
    PROVE  WebInv'
<1>1. PICK cs : cs = <<>>
  OBVIOUS
<1>2. Len(cs) = 0 /\ (\A j \in 1..Len(cs) : FALSE) /\ Grown(0, cs)
  BY <1>1, NothingIssued DEF WebInv
<1> HIDE <1>1
<1>3. /\ ui'.listing => ui.listing
      /\ ui'.searching => ui.searching
      /\ ui'.viewing => ui.viewing
      /\ ui'.sending => ui.sending
      /\ ui.sending => ui'.sending
      /\ ui'.compose # 0 => ui'.compose = ui.compose
  BY DEF UiMoves
<1>4. UNCHANGED <<place, seen>> /\ composed.opened <= composed'.opened /\ composed'.sent = composed.sent
  BY UiHasShape DEF UiMoves
<1> QED
  BY <1>2, <1>3, <1>4, UiMovesWell, PageStep

LEMMA PageAsks ==
    ASSUME WebInv, NEW op \in Ops \ {"send"}, NEW id \in Nat, NEW box \in Boxes, NEW re \in BOOLEAN,
           op \in {"read", "delete"} => id \in Mails, UiMoves(op), Issue(<<Call(op, id, box, re)>>)
    PROVE  WebInv'
<1>1. PICK cs : cs = <<Call(op, id, box, re)>>
  OBVIOUS
<1>a. op \in Ops
  OBVIOUS
<1>2. op \in Ops /\ cs \in Seq(NewCalls) /\ Len(cs) = 1 /\ cs[1].op = op
  <2>1. PICK t : t = Call(op, id, box, re)
    OBVIOUS
  <2>2. t \in NewCalls /\ t.op = op
    BY <1>a, <2>1, CallIsNew
  <2>3. cs = <<t>>
    BY <1>1, <2>1
  <2> QED
    BY <1>a, <2>2, <2>3
<1>3. Grown(0, cs) /\ 1 \in 1..Len(cs) /\ (\A j \in 1..Len(cs) : cs[j].op = op)
  <2>1. Issue(cs) /\ CallsOK /\ cs \in Seq(NewCalls)
    BY <1>1, <1>2 DEF WebInv
  <2>2. Grown(0, cs)
    BY <2>1, Issued
  <2> QED
    BY <1>2, <2>2
<1> HIDE <1>1
<1>4. /\ ui'.listing => ui.listing \/ \E j \in 1..Len(cs) : cs[j].op = "list"
      /\ ui'.searching => ui.searching \/ \E j \in 1..Len(cs) : cs[j].op = "search"
      /\ ui'.viewing => ui.viewing \/ \E j \in 1..Len(cs) : cs[j].op = "read"
      /\ ui'.sending => ui.sending
      /\ ui.sending => ui'.sending
      /\ ui'.compose # 0 => ui'.compose = ui.compose
  BY <1>3 DEF UiMoves
<1>5. UNCHANGED <<place, seen>> /\ composed.opened <= composed'.opened /\ composed'.sent = composed.sent
  BY UiHasShape DEF UiMoves
<1>6. \A j \in 1..Len(cs) : cs[j].op # "send"
  BY <1>3
<1> QED
  BY <1>3, <1>4, <1>5, <1>6, UiMovesWell, PageStep

LEMMA SelectMailboxKeeps == \A f \in Folders : WebInv /\ SelectMailbox(f) => WebInv'
<1> SUFFICES ASSUME NEW f \in Folders, WebInv, SelectMailbox(f) PROVE WebInv'
  OBVIOUS
<1>1. UNCHANGED <<place, seen, cookie, composed>> /\ ui.open
      /\ ui' = [ui EXCEPT !.box = f, !.mail = 0, !.view = "list", !.shown = IF ui.mail = 0 THEN @ ELSE 0,
                        !.listing = @ \/ f # ui.box]
      /\ (IF f = ui.box THEN calls' = calls ELSE Issue(<<Call("list", 0, f, FALSE)>>))
  BY DEF SelectMailbox, FreeCall, Viewing, mailSrvVars
<1>2. UiShape(ui) /\ ui.open /\ ui.box \in Boxes /\ ui.mail \in {0} \cup Mails
  BY <1>1, UiHasShape, WindowIsOpen DEF WebInv, UiOK
<1>3. /\ UiShape(ui') /\ ui'.box = f /\ ui'.mail = 0 /\ ui'.compose = ui.compose /\ ui'.open = ui.open
      /\ ui'.list = ui.list /\ ui'.found = ui.found /\ ui'.searching = ui.searching
      /\ ui'.viewing = ui.viewing /\ ui'.sending = ui.sending
      /\ ui'.listing = (ui.listing \/ f # ui.box)
  BY <1>1, <1>2 DEF UiShape, UiFields
<1>4. f \in Boxes /\ ui.listing \in BOOLEAN
  BY DEF Boxes, WebInv, Flags
<1>5. CASE f = ui.box
  BY <1>1, <1>2, <1>3, <1>4, <1>5, PageIsQuiet DEF UiMoves
<1>6. CASE f # ui.box
  <2>1. "list" \in Ops \ {"send"} /\ "list" \notin {"read", "delete"} /\ 0 \in Nat /\ FALSE \in BOOLEAN
    BY DEF Ops
  <2>2. UiMoves("list")
    BY <1>1, <1>2, <1>3, <1>4, <1>6 DEF UiMoves
  <2> QED
    BY <1>1, <1>4, <1>6, <2>1, <2>2, PageAsks
<1> QED
  BY <1>5, <1>6

LEMMA MailsAreNumbers == Mails \subseteq Nat /\ Mails \subseteq 1..(Received + MaxCalls)
BY WebMailAssumption DEF Mails

LEMMA SelectEmailKeeps == \A m \in Mails : WebInv /\ SelectEmail(m) => WebInv'
<1> SUFFICES ASSUME NEW m \in Mails, WebInv, SelectEmail(m) PROVE WebInv'
  OBVIOUS
<1>1. UNCHANGED <<place, seen, cookie, composed>> /\ ui.open
      /\ ui' = [ui EXCEPT !.mail = m, !.view = "detail", !.viewing = TRUE, !.failed = FALSE]
      /\ Issue(<<Call("read", m, ui.box, FALSE)>>)
  BY DEF SelectEmail, FreeCall, Viewing, mailSrvVars
<1>2. UiShape(ui) /\ ui.open /\ ui.box \in Boxes /\ ui.mail \in {0} \cup Mails
  BY <1>1, UiHasShape, WindowIsOpen DEF WebInv, UiOK
<1>3. UiMoves("read")
  <2>1. /\ UiShape(ui') /\ ui'.open = ui.open /\ ui'.box = ui.box /\ ui'.mail = m /\ ui'.list = ui.list /\ ui'.found = ui.found
        /\ ui'.compose = ui.compose /\ ui'.sending = ui.sending /\ ui'.listing = ui.listing /\ ui'.searching = ui.searching
        /\ ui'.viewing = TRUE
    BY <1>1, <1>2 DEF UiShape, UiFields
  <2> QED
    BY <1>1, <1>2, <2>1  DEF UiMoves
<1>4. "read" \in Ops \ {"send"} /\ m \in Mails /\ 0 \in Nat /\ FALSE \in BOOLEAN /\ TRUE \in BOOLEAN
  BY DEF Ops
<1> QED
  BY <1>1, <1>2, <1>3, <1>4, PageAsks, MailsAreNumbers

LEMMA RefreshKeeps == WebInv /\ Refresh => WebInv'
<1> SUFFICES ASSUME WebInv, Refresh PROVE WebInv'
  OBVIOUS
<1>1. UNCHANGED <<place, seen, cookie, composed>> /\ ui.open
      /\ ui' = [ui EXCEPT !.refreshing = TRUE]
      /\ Issue(<<Call("boxes", 0, ui.box, TRUE)>>)
  BY DEF Refresh, FreeCall, Viewing, mailSrvVars
<1>2. UiShape(ui) /\ ui.open /\ ui.box \in Boxes /\ ui.mail \in {0} \cup Mails
  BY <1>1, UiHasShape, WindowIsOpen DEF WebInv, UiOK
<1>3. UiMoves("boxes")
  <2>1. /\ UiShape(ui') /\ ui'.open = ui.open /\ ui'.box = ui.box /\ ui'.mail = ui.mail /\ ui'.list = ui.list /\ ui'.found = ui.found
        /\ ui'.compose = ui.compose /\ ui'.sending = ui.sending /\ ui'.listing = ui.listing /\ ui'.searching = ui.searching
        /\ ui'.viewing = ui.viewing
    BY <1>1, <1>2 DEF UiShape, UiFields
  <2> QED
    BY <1>1, <1>2, <2>1  DEF UiMoves
<1>4. "boxes" \in Ops \ {"send"} /\ "boxes" \notin {"read", "delete"} /\ 0 \in Nat /\ FALSE \in BOOLEAN /\ TRUE \in BOOLEAN
  BY DEF Ops
<1> QED
  BY <1>1, <1>2, <1>3, <1>4, PageAsks, MailsAreNumbers

LEMMA SearchKeeps == WebInv /\ Search => WebInv'
<1> SUFFICES ASSUME WebInv, Search PROVE WebInv'
  OBVIOUS
<1>1. UNCHANGED <<place, seen, cookie, composed>> /\ ui.open
      /\ ui' = [ui EXCEPT !.searching = TRUE, !.search = TRUE]
      /\ Issue(<<Call("search", 0, ui.box, FALSE)>>)
  BY DEF Search, FreeCall, Viewing, mailSrvVars
<1>2. UiShape(ui) /\ ui.open /\ ui.box \in Boxes /\ ui.mail \in {0} \cup Mails
  BY <1>1, UiHasShape, WindowIsOpen DEF WebInv, UiOK
<1>3. UiMoves("search")
  <2>1. /\ UiShape(ui') /\ ui'.open = ui.open /\ ui'.box = ui.box /\ ui'.mail = ui.mail /\ ui'.list = ui.list /\ ui'.found = ui.found
        /\ ui'.compose = ui.compose /\ ui'.sending = ui.sending /\ ui'.listing = ui.listing /\ ui'.searching = TRUE
        /\ ui'.viewing = ui.viewing
    BY <1>1, <1>2 DEF UiShape, UiFields
  <2> QED
    BY <1>1, <1>2, <2>1  DEF UiMoves
<1>4. "search" \in Ops \ {"send"} /\ "search" \notin {"read", "delete"} /\ 0 \in Nat /\ FALSE \in BOOLEAN /\ TRUE \in BOOLEAN
  BY DEF Ops
<1> QED
  BY <1>1, <1>2, <1>3, <1>4, PageAsks, MailsAreNumbers

LEMMA ClearSearchKeeps == WebInv /\ ClearSearch => WebInv'
<1> SUFFICES ASSUME WebInv, ClearSearch PROVE WebInv'
  OBVIOUS
<1>1. UNCHANGED <<place, seen, cookie, composed>> /\ ui.open /\ UNCHANGED calls
      /\ ui' = [ui EXCEPT !.search = FALSE, !.found = {}]
  BY DEF ClearSearch, FreeCall, Viewing, mailSrvVars
<1>2. UiShape(ui) /\ ui.open /\ ui.box \in Boxes /\ ui.mail \in {0} \cup Mails
  BY <1>1, UiHasShape, WindowIsOpen DEF WebInv, UiOK
<1>3. /\ UiShape(ui') /\ ui'.open = ui.open /\ ui'.box = ui.box /\ ui'.mail = ui.mail /\ ui'.list = ui.list /\ ui'.found = {}
      /\ ui'.compose = ui.compose /\ ui'.sending = ui.sending /\ ui'.listing = ui.listing /\ ui'.searching = ui.searching
      /\ ui'.viewing = ui.viewing
  BY <1>1, <1>2 DEF UiShape, UiFields
<1> QED
  BY <1>1, <1>2, <1>3, PageIsQuiet DEF UiMoves

LEMMA BackKeeps == WebInv /\ Back => WebInv'
<1> SUFFICES ASSUME WebInv, Back PROVE WebInv'
  OBVIOUS
<1>1. UNCHANGED <<place, seen, cookie, composed>> /\ ui.open /\ UNCHANGED calls
      /\ ui' = [ui EXCEPT !.view = "list", !.mail = 0, !.shown = 0]
  BY DEF Back, FreeCall, Viewing, mailSrvVars
<1>2. UiShape(ui) /\ ui.open /\ ui.box \in Boxes /\ ui.mail \in {0} \cup Mails
  BY <1>1, UiHasShape, WindowIsOpen DEF WebInv, UiOK
<1>3. /\ UiShape(ui') /\ ui'.open = ui.open /\ ui'.box = ui.box /\ ui'.mail = 0 /\ ui'.list = ui.list /\ ui'.found = ui.found
      /\ ui'.compose = ui.compose /\ ui'.sending = ui.sending /\ ui'.listing = ui.listing /\ ui'.searching = ui.searching
      /\ ui'.viewing = ui.viewing
  BY <1>1, <1>2 DEF UiShape, UiFields
<1> QED
  BY <1>1, <1>2, <1>3, PageIsQuiet DEF UiMoves

LEMMA DiscardKeeps == WebInv /\ Discard => WebInv'
<1> SUFFICES ASSUME WebInv, Discard PROVE WebInv'
  OBVIOUS
<1>1. UNCHANGED <<place, seen, cookie, composed>> /\ ui.compose # 0 /\ UNCHANGED calls
      /\ ui' = [ui EXCEPT !.compose = 0]
  BY DEF Discard, FreeCall, Viewing, mailSrvVars
<1>2. UiShape(ui) /\ ui.open /\ ui.box \in Boxes /\ ui.mail \in {0} \cup Mails
  BY <1>1, UiHasShape, WindowIsOpen DEF WebInv, UiOK
<1>3. /\ UiShape(ui') /\ ui'.open = ui.open /\ ui'.box = ui.box /\ ui'.mail = ui.mail /\ ui'.list = ui.list /\ ui'.found = ui.found
      /\ ui'.compose = 0 /\ ui'.sending = ui.sending /\ ui'.listing = ui.listing /\ ui'.searching = ui.searching
      /\ ui'.viewing = ui.viewing
  BY <1>1, <1>2 DEF UiShape, UiFields
<1> QED
  BY <1>1, <1>2, <1>3, PageIsQuiet DEF UiMoves

LEMMA DeleteKeeps == WebInv /\ HandleDelete => WebInv'
<1> SUFFICES ASSUME WebInv, HandleDelete PROVE WebInv'
  OBVIOUS
<1>1. UNCHANGED <<place, seen, cookie, composed>> /\ ui.open /\ ui.mail # 0
      /\ ui' = ui /\ Issue(<<Call("delete", ui.mail, ui.box, FALSE)>>)
  BY DEF HandleDelete, FreeCall, Viewing, mailSrvVars
<1>2. UiShape(ui) /\ ui.open /\ ui.box \in Boxes /\ ui.mail \in {0} \cup Mails
  BY <1>1, UiHasShape, WindowIsOpen DEF WebInv, UiOK
<1>3. UiMoves("delete")
  BY <1>1, <1>2 DEF UiMoves, WebInv, UiOK, UiShape
<1>4. "delete" \in Ops \ {"send"} /\ FALSE \in BOOLEAN /\ ui.mail \in Mails /\ ui.mail \in Nat
  BY <1>1, <1>2, MailsAreNumbers DEF Ops
<1> QED
  BY <1>1, <1>2, <1>3, <1>4, PageAsks

LEMMA SendKeeps == WebInv /\ HandleSend => WebInv'
<1> SUFFICES ASSUME WebInv, HandleSend PROVE WebInv'
  OBVIOUS
<1>1. /\ UNCHANGED <<place, seen, cookie, composed>> /\ ui.compose # 0 /\ ~ui.sending
      /\ ui' = [ui EXCEPT !.sending = TRUE]
      /\ Issue(<<Call("send", ui.compose, ui.box, FALSE)>>)
  BY DEF HandleSend, mailSrvVars
<1>2. UiShape(ui) /\ ui.open /\ ui.box \in Boxes /\ composed.opened \in Nat
  BY <1>1, UiHasShape, WindowIsOpen DEF WebInv, UiOK
<1>3. /\ UiShape(ui') /\ ui'.open = ui.open /\ ui'.box = ui.box /\ ui'.mail = ui.mail /\ ui'.list = ui.list /\ ui'.found = ui.found
      /\ ui'.compose = ui.compose /\ ui'.sending = TRUE /\ ui'.listing = ui.listing /\ ui'.searching = ui.searching
      /\ ui'.viewing = ui.viewing
  BY <1>1, <1>2 DEF UiShape, UiFields
<1>4. ui.compose \in Nat /\ "send" \in Ops /\ FALSE \in BOOLEAN /\ "send" \notin {"read", "delete"}
  BY <1>2 DEF WebInv, UiOK, Ops
<1>5. PICK t : t = Call("send", ui.compose, ui.box, FALSE)
  OBVIOUS
<1>6. t \in NewCalls /\ t.op = "send" /\ t.id = ui.compose
  <2>1. PICK id : id = ui.compose
    OBVIOUS
  <2>2. PICK box : box = ui.box
    OBVIOUS
  <2>3. id \in Nat /\ box \in Boxes /\ t = Call("send", id, box, FALSE)
    BY <1>2, <1>4, <1>5, <2>1, <2>2
  <2>a. t \in CallRecs /\ t.op = "send" /\ t.id = id /\ t.pc = "sent" /\ t.done = FALSE /\ t.ok = FALSE
    BY <1>4, <2>3 DEF Call, CallRecs, CallPcs
  <2>4. t \in NewCalls /\ t.op = "send" /\ t.id = id
    BY <2>a DEF NewCalls
  <2> QED
    BY <2>1, <2>4
<1>7. <<t>> \in Seq(NewCalls) /\ Len(<<t>>) = 1 /\ <<t>>[1] = t
  BY <1>6
<1>8. Grown(0, <<t>>)
  BY <1>1, <1>5, <1>7, Issued DEF WebInv
<1>9. SendInv'
  BY <1>1, <1>3, <1>6, <1>8, SendIsAlone
<1>10. CallsOK'
  BY <1>8, GrownCallsOK DEF WebInv
<1>11. UiOK' /\ Flags' /\ ServerOK'
  <2>1. UiOK'
    BY <1>1, <1>3 DEF WebInv, UiOK, UiShape
  <2>2. Flags'
    BY <1>2, <1>3 DEF WebInv, Flags
  <2> QED
    BY <1>1, <2>1, <2>2 DEF WebInv, ServerOK
<1>12. LoadersEnd'
  <2>1. PICK cs : cs = <<t>>
    OBVIOUS
  <2>2. Grown(0, cs) /\ 1 \in 1..Len(cs) /\ cs[1] = t
    BY <1>7, <1>8, <2>1
  <2>3. \A op : Pending(op) \subseteq Pending(op)'
    BY <2>2, GrownPending
  <2>4. Len(calls) + 1 \in DOMAIN calls' /\ calls'[Len(calls) + 1] = t
    BY <2>2 DEF Grown
  <2>5. Len(calls) + 1 \in Pending("send")'
    BY <1>6, <2>4 DEF Pending, NewCalls
  <2>6. \E i \in Pending("send")' : calls'[i].id = ui'.compose
    BY <1>3, <1>6, <2>4, <2>5
  <2> QED
    BY <1>3, <2>3, <2>6 DEF WebInv, LoadersEnd
<1> QED
  BY <1>9, <1>10, <1>11, <1>12 DEF WebInv

LEMMA ComposeKeeps == WebInv /\ OpenCompose => WebInv'
<1> SUFFICES ASSUME WebInv, OpenCompose PROVE WebInv'
  OBVIOUS
<1>1. /\ UNCHANGED <<place, seen, cookie, calls>> /\ ui.open /\ composed.opened < MaxComposes
      /\ composed' = [composed EXCEPT !.opened = @ + 1]
      /\ ui' = [ui EXCEPT !.compose = composed.opened + 1, !.sending = FALSE]
  BY DEF OpenCompose, FreeCall, mailSrvVars
<1>2. UiShape(ui) /\ composed.opened \in Nat /\ cookie \in {"none", "valid", "expired"}
  BY UiHasShape
<1>3. /\ UiShape(ui') /\ ui'.open = ui.open /\ ui'.box = ui.box /\ ui'.mail = ui.mail /\ ui'.list = ui.list /\ ui'.found = ui.found
      /\ ui'.compose = composed.opened + 1 /\ ui'.sending = FALSE /\ ui'.listing = ui.listing /\ ui'.searching = ui.searching
      /\ ui'.viewing = ui.viewing
  BY <1>1, <1>2 DEF UiShape, UiFields
<1>4. composed'.opened = composed.opened + 1 /\ composed'.sent = composed.sent /\ DOMAIN composed' = {"opened", "sent"}
      /\ composed' = [f \in {"opened", "sent"} |-> composed'[f]]
  BY <1>1 DEF WebInv, ServerOK
<1>5. composed'.opened \in 0..MaxComposes
  BY <1>1, <1>2, <1>4, WebMailAssumption
<1>6. UiOK' /\ Flags' /\ ServerOK'
  <2>1. UiOK'
    BY <1>2, <1>3, <1>4 DEF WebInv, UiOK, UiShape
  <2>2. Flags'
    BY <1>1, <1>3 DEF WebInv, Flags
  <2>3. ServerOK'
    BY <1>1, <1>4, <1>5 DEF WebInv, ServerOK
  <2> QED
    BY <2>1, <2>2, <2>3
<1>7. PICK cs : cs = <<>>
  OBVIOUS
<1>8. Len(cs) = 0 /\ (\A j \in 1..Len(cs) : FALSE) /\ Grown(0, cs)
  BY <1>1, <1>7, NothingIssued DEF WebInv
<1>9. ui'.compose > composed.opened /\ composed.opened <= composed'.opened
  BY <1>2, <1>3, <1>4
<1> QED
  BY <1>1, <1>2, <1>3, <1>4, <1>6, <1>8, <1>9, PageStep

LEMMA OpenPageKeeps == WebInv /\ OpenPage => WebInv'
<1> SUFFICES ASSUME WebInv, OpenPage PROVE WebInv'
  OBVIOUS
<1>1. /\ UNCHANGED <<place, seen, cookie, composed>> /\ ui' = [Login EXCEPT !.open = TRUE]
      /\ Issue(<<Call("boxes", 0, "none", FALSE)>>)
  BY DEF OpenPage, mailSrvVars
<1>2. composed.opened \in Nat /\ cookie \in {"none", "valid", "expired"}
  BY UiHasShape
<1>3. /\ UiShape(ui') /\ ui'.open = TRUE /\ ui'.box = "none" /\ ui'.mail = 0 /\ ui'.list = {} /\ ui'.found = {}
      /\ ui'.compose = 0 /\ ui'.sending = FALSE /\ ui'.listing = FALSE /\ ui'.searching = FALSE /\ ui'.viewing = FALSE
  BY <1>1, LoginFacts DEF UiShape, UiFields
<1>4. "boxes" \in Ops /\ 0 \in Nat /\ "none" \in Boxes /\ FALSE \in BOOLEAN /\ "boxes" \notin {"read", "delete"}
  BY DEF Ops, Boxes
<1>5. PICK t : t = Call("boxes", 0, "none", FALSE)
  OBVIOUS
<1>6. t \in NewCalls /\ t.op = "boxes"
  BY <1>4, <1>5, CallIsNew, ZenonT(30)
<1>7. PICK cs : cs = <<t>>
  OBVIOUS
<1>8. cs \in Seq(NewCalls) /\ \A j \in 1..Len(cs) : cs[j].op # "send"
  BY <1>6, <1>7
<1>9. Grown(0, cs)
  BY <1>1, <1>5, <1>7, <1>8, Issued DEF WebInv
<1>10. UiOK' /\ Flags' /\ ServerOK'
  <2>1. UiOK'
    BY <1>1, <1>2, <1>3 DEF WebInv, UiOK, UiShape, Boxes
  <2>2. Flags'
    BY <1>3 DEF Flags
  <2> QED
    BY <1>1, <2>1, <2>2 DEF WebInv, ServerOK
<1>11. composed.opened <= composed'.opened /\ composed'.sent = composed.sent
  BY <1>1, <1>2
<1> QED
  BY <1>1, <1>2, <1>3, <1>8, <1>9, <1>10, <1>11, PageStep

LEMMA LogoutKeeps == WebInv /\ Logout => WebInv'
<1> SUFFICES ASSUME WebInv, Logout PROVE WebInv'
  OBVIOUS
<1>1. /\ UNCHANGED <<place, seen, composed>> /\ cookie' = "none" /\ ui' = Login
      /\ calls' = [c \in DOMAIN calls |-> [calls[c] EXCEPT !.pc = IF @ = "answered" THEN "heard" ELSE @]]
  BY DEF Logout, mailSrvVars
<1>2. calls \in Seq(CallRecs) /\ DOMAIN calls = 1..Len(calls) /\ Len(calls) \in Nat /\ DOMAIN calls' = DOMAIN calls
  BY <1>1 DEF WebInv, CallsOK
<1>3. ASSUME NEW c \in DOMAIN calls
      PROVE  /\ CallOK(calls'[c]) /\ calls'[c].op = calls[c].op /\ calls'[c].id = calls[c].id
             /\ calls'[c].ok = calls[c].ok /\ (Good(calls'[c]) => Good(calls[c]))
  <2>1. CallOK(calls[c]) /\ calls[c] \in CallRecs
    BY DEF WebInv, CallsOK, CallOK
  <2>2. PICK pc : pc = IF calls[c].pc = "answered" THEN "heard" ELSE calls[c].pc
    OBVIOUS
  <2>3. pc \in CallPcs /\ (pc = calls[c].pc \/ (pc = "heard" /\ calls[c].pc = "answered"))
    BY <2>1, <2>2 DEF CallRecs, CallPcs
  <2>4. calls'[c] = [calls[c] EXCEPT !.pc = pc]
    BY <1>1, <2>2
  <2>5. calls'[c] \in CallRecs /\ calls'[c].pc = pc /\ calls'[c].op = calls[c].op /\ calls'[c].id = calls[c].id
        /\ calls'[c].done = calls[c].done /\ calls'[c].ok = calls[c].ok
    BY <2>1, <2>3, <2>4 DEF CallRecs
  <2> QED
    BY <2>1, <2>3, <2>5 DEF CallOK, Good
<1>4. calls' \in Seq(CallRecs) /\ Len(calls') = Len(calls)
  <2>1. \A c \in 1..Len(calls) : calls'[c] \in CallRecs
    BY <1>2, <1>3 DEF CallOK
  <2>2. DOMAIN calls' = 1..Len(calls) /\ calls' = [c \in 1..Len(calls) |-> calls'[c]]
    BY <1>1, <1>2
  <2> QED
    BY <1>2, <2>1, <2>2
<1>5. CallsOK'
  BY <1>2, <1>3, <1>4 DEF WebInv, CallsOK
<1>6. UiOK' /\ Flags' /\ ServerOK'
  <2>1. UiOK'
    BY <1>1, LoginFacts, UiHasShape DEF UiOK, Boxes
  <2>2. Flags'
    BY <1>1, LoginFacts DEF Flags
  <2> QED
    BY <1>1, <2>1, <2>2, ComposedLeft
<1>a. OfWindows' /\ FreeButton'
  BY <1>1, <1>2, <1>3, LoginFacts DEF WebInv, SendInv, OfWindows, FreeButton
<1>b. ASSUME NEW id, OkSend(id) PROVE (OkSend(id))'
  BY <1>2, <1>3, <1>b DEF OkSend
<1>7. OfWindows' /\ ToldSent' /\ FreeButton'
  BY <1>1, <1>a, <1>b DEF WebInv, SendInv, ToldSent
<1>8. OneGood'
  <2> SUFFICES ASSUME NEW a \in DOMAIN calls, NEW b \in DOMAIN calls, Good(calls'[a]), Good(calls'[b]), calls'[a].id = calls'[b].id
               PROVE a = b
    BY <1>2 DEF OneGood
  <2> QED
    BY <1>3 DEF WebInv, SendInv, OneGood
<1>9. LoadersEnd'
  BY <1>1, LoginFacts DEF LoadersEnd
<1> QED
  BY <1>5, <1>6, <1>7, <1>8, <1>9 DEF WebInv, SendInv

-----------------------------------------------------------------------------
(* The routes. *)

LEMMA AnswerMoves ==
    ASSUME WebInv, NEW c \in DOMAIN calls, calls[c].pc \notin {"answered", "heard"}, NEW done \in BOOLEAN, NEW ok \in BOOLEAN,
           NEW got \in SUBSET Mails, Answer(c, done, ok, got), RouteLeaves
    PROVE  \E k : Moved(c, k)
<1>1. CallOK(calls[c]) /\ calls[c] \in CallRecs /\ UNCHANGED <<ui, composed>>
  BY DEF WebInv, CallsOK, CallOK, RouteLeaves
<1>2. PICK k : k = [calls[c] EXCEPT !.pc = "answered", !.done = done, !.ok = ok, !.got = got]
  OBVIOUS
<1>3. k = [[[[calls[c] EXCEPT !.pc = "answered"] EXCEPT !.done = done] EXCEPT !.ok = ok] EXCEPT !.got = got]
  BY <1>1, <1>2 DEF CallRecs
<1>4. k \in CallRecs /\ k.pc = "answered" /\ k.op = calls[c].op /\ k.id = calls[c].id /\ k.done = done /\ k.ok = ok
  BY <1>1, <1>3 DEF CallRecs, CallPcs
<1>5. calls' = [calls EXCEPT ![c] = k]
  BY <1>2 DEF Answer
<1>6. CallOK(k)
  BY <1>1, <1>4 DEF CallOK
<1> QED
  BY <1>1, <1>4, <1>5, <1>6 DEF Moved, CallOK

LEMMA StepMoves ==
    ASSUME WebInv, NEW c \in DOMAIN calls, calls[c].pc \notin {"answered", "heard"}, NEW pc \in {"mark", "move", "submit"},
           pc = "mark" => calls[c].op = "read", Step(c, pc), RouteLeaves
    PROVE  \E k : Moved(c, k)
<1>1. CallOK(calls[c]) /\ calls[c] \in CallRecs /\ UNCHANGED <<ui, composed>>
  BY DEF WebInv, CallsOK, CallOK, RouteLeaves
<1>2. PICK k : k = [calls[c] EXCEPT !.pc = pc]
  OBVIOUS
<1>4. k \in CallRecs /\ k.pc = pc /\ k.op = calls[c].op /\ k.id = calls[c].id /\ k.done = calls[c].done /\ k.ok = calls[c].ok
  BY <1>1, <1>2 DEF CallRecs, CallPcs
<1>5. calls' = [calls EXCEPT ![c] = k]
  BY <1>2 DEF Step
<1>6. CallOK(k)
  BY <1>1, <1>4 DEF CallOK
<1> QED
  BY <1>1, <1>4, <1>5, <1>6 DEF Moved, CallOK

\* A route leaves the server in order.
LEMMA RouteStep ==
    ASSUME WebInv, NEW c, \E k : Moved(c, k), UNCHANGED cookie, place' \in [Mails -> Boxes], seen' \subseteq Mails
    PROVE  WebInv'
<1>1. UiOK' /\ Flags' /\ CallsOK' /\ SendInv' /\ LoadersEnd' /\ UNCHANGED composed
  BY MovedKeeps DEF Moved
<1>2. ServerOK'
  BY <1>1 DEF WebInv, ServerOK
<1> QED
  BY <1>1, <1>2 DEF WebInv

LEMMA RoutesKeep ==
    ASSUME WebInv, NEW c \in 1..MaxCalls,
           \/ RouteFails(c) \/ GetMailboxes(c) \/ GetEmails(c) \/ GetSearch(c) \/ GetEmail(c) \/ MarkSeen(c)
           \/ FindTrash(c) \/ MoveToTrash(c) \/ SetupSend(c) \/ Submit(c)
    PROVE  WebInv'
<1>1. place \in [Mails -> Boxes] /\ seen \subseteq Mails
  BY DEF WebInv, ServerOK
<1>2. TRUE \in BOOLEAN /\ FALSE \in BOOLEAN /\ {} \in SUBSET Mails
  OBVIOUS
<1>3. "trash" \in Boxes /\ "sent" \in Boxes /\ "drafts" \in Boxes
  BY DEF Boxes, Folders
<1>4. CASE RouteFails(c)
  BY <1>1, <1>2, <1>4, AnswerMoves, RouteStep DEF RouteFails, RouteLeaves, mailSrvVars
<1>5. CASE GetMailboxes(c)
  BY <1>1, <1>2, <1>5, AnswerMoves, RouteStep DEF GetMailboxes, CallAt, RouteLeaves, mailSrvVars
<1>6. CASE GetEmails(c)
  <2>1. InFolder(calls[c].box) \in SUBSET Mails
    BY DEF InFolder
  <2> QED
    BY <1>1, <1>2, <1>6, <2>1, AnswerMoves, RouteStep DEF GetEmails, CallAt, RouteLeaves, mailSrvVars
<1>7. CASE GetSearch(c)
  <2>1. PICK found \in {{}, {1}} : Answer(c, TRUE, TRUE, {m \in found : calls[c].box \in {"none", place[m]}})
    BY <1>7 DEF GetSearch
  <2>2. CallAt(c, "sent") /\ UNCHANGED <<place, seen, cookie>> /\ RouteLeaves
    BY <1>7 DEF GetSearch, mailSrvVars, RouteLeaves
  <2>3. c \in DOMAIN calls /\ calls[c].pc = "sent"
    BY <2>2 DEF CallAt
  <2>4. 1 \in Mails
    BY WebMailAssumption DEF Mails
  <2>5. {m \in found : calls[c].box \in {"none", place[m]}} \in SUBSET Mails
    BY <2>4
  <2>6. \E k : Moved(c, k)
    BY <1>2, <2>1, <2>2, <2>3, <2>5, AnswerMoves
  <2> QED
    BY <1>1, <2>2, <2>6, RouteStep
<1>8. CASE GetEmail(c)
  <2>1. c \in DOMAIN calls /\ calls[c].pc = "sent" /\ calls[c].op = "read" /\ UNCHANGED <<place, seen, cookie>> /\ RouteLeaves
        /\ (IF calls[c].id \in seen THEN Answer(c, TRUE, TRUE, {calls[c].id}) ELSE Step(c, "mark"))
    BY <1>8 DEF GetEmail, CallAt, mailSrvVars, RouteLeaves
  <2>2. CASE calls[c].id \in seen
    <3>1. {calls[c].id} \in SUBSET Mails
      BY <1>1, <2>2
    <3>2. \E k : Moved(c, k)
      BY <1>2, <2>1, <2>2, <3>1, AnswerMoves
    <3> QED
      BY <1>1, <2>1, <3>2, RouteStep
  <2>3. CASE calls[c].id \notin seen
    <3>1. "mark" \in {"mark", "move", "submit"}
      OBVIOUS
    <3>2. \E k : Moved(c, k)
      BY <2>1, <2>3, <3>1, StepMoves
    <3> QED
      BY <1>1, <2>1, <3>2, RouteStep
  <2> QED
    BY <2>2, <2>3
<1>9. CASE MarkSeen(c)
  <2>1. c \in DOMAIN calls /\ calls[c].pc = "mark" /\ UNCHANGED <<place, cookie>> /\ RouteLeaves
        /\ seen' \in {seen, seen \cup {calls[c].id}} /\ \E ok \in BOOLEAN : Answer(c, TRUE, ok, {calls[c].id})
    BY <1>9 DEF MarkSeen, CallAt, RouteLeaves
  <2>2. calls[c].id \in Mails
    BY <2>1 DEF WebInv, CallsOK, CallOK
  <2>3. {calls[c].id} \in SUBSET Mails /\ seen' \subseteq Mails
    BY <1>1, <2>1, <2>2
  <2>4. \E k : Moved(c, k)
    BY <1>2, <2>1, <2>3, AnswerMoves
  <2> QED
    BY <1>1, <2>1, <2>3, <2>4, RouteStep
<1>10. CASE FindTrash(c)
  <2>1. c \in DOMAIN calls /\ calls[c].pc = "sent" /\ UNCHANGED <<place, seen, cookie>> /\ RouteLeaves /\ Step(c, "move")
    BY <1>10 DEF FindTrash, CallAt, mailSrvVars, RouteLeaves
  <2>2. "move" \in {"mark", "move", "submit"} /\ "move" # "mark"
    OBVIOUS
  <2>3. \E k : Moved(c, k)
    BY <2>1, <2>2, StepMoves
  <2> QED
    BY <1>1, <2>1, <2>3, RouteStep
<1>11. CASE MoveToTrash(c)
  <2>1. c \in DOMAIN calls /\ calls[c].pc = "move" /\ UNCHANGED <<seen, cookie>> /\ RouteLeaves
        /\ (place' = place \/ place' = [place EXCEPT ![calls[c].id] = "trash"])
        /\ \E done, ok \in BOOLEAN : Answer(c, done, ok, {})
    BY <1>11 DEF MoveToTrash, CallAt, RouteLeaves
  <2>2. \E k : Moved(c, k)
    BY <1>2, <2>1, AnswerMoves
  <2>3. place' \in [Mails -> Boxes]
    BY <1>1, <1>3, <2>1
  <2> QED
    BY <1>1, <2>1, <2>2, <2>3, RouteStep
<1>12. CASE SetupSend(c)
  <2>1. c \in DOMAIN calls /\ calls[c].pc = "sent" /\ UNCHANGED <<place, seen, cookie>> /\ RouteLeaves /\ Step(c, "submit")
    BY <1>12 DEF SetupSend, CallAt, mailSrvVars, RouteLeaves
  <2>2. "submit" \in {"mark", "move", "submit"} /\ "submit" # "mark"
    OBVIOUS
  <2>3. \E k : Moved(c, k)
    BY <2>1, <2>2, StepMoves
  <2> QED
    BY <1>1, <2>1, <2>3, RouteStep
<1>13. CASE Submit(c)
  <2>1. c \in DOMAIN calls /\ calls[c].pc = "submit" /\ UNCHANGED cookie /\ RouteLeaves
        /\ \/ seen' = seen \cup {Received + c} /\ \E f \in {"sent", "drafts"} : place' = [place EXCEPT ![Received + c] = f]
           \/ UNCHANGED <<place, seen>>
        /\ \E done, ok \in BOOLEAN : Answer(c, done, ok, {})
    BY <1>13 DEF Submit, CallAt, RouteLeaves, mailSrvVars
  <2>2. Received + c \in Mails
    BY WebMailAssumption DEF Mails
  <2>3. \E k : Moved(c, k)
    BY <1>2, <2>1, AnswerMoves
  <2>4. place' \in [Mails -> Boxes] /\ seen' \subseteq Mails
    BY <1>1, <1>3, <2>1, <2>2
  <2> QED
    BY <2>1, <2>3, <2>4, RouteStep
<1> QED
  BY <1>4, <1>5, <1>6, <1>7, <1>8, <1>9, <1>10, <1>11, <1>12, <1>13

-----------------------------------------------------------------------------
(* The answers. *)

\* What an answer changes of the page when it is not that of a mail.
Hearing(c, cs) ==
    /\ UNCHANGED <<place, seen, cookie, composed>> /\ UiShape(ui') /\ ui.open /\ ui'.open = ui.open
    /\ ui'.box \in Boxes /\ ui'.mail \in {0} \cup Mails /\ ui'.list \subseteq Mails /\ ui'.found \subseteq Mails
    /\ ui'.compose = ui.compose /\ ui'.sending = ui.sending /\ calls[c].op # "send"
    /\ ui'.listing \in BOOLEAN /\ ui'.searching \in BOOLEAN /\ ui'.viewing \in BOOLEAN
    /\ (ui'.listing => (ui.listing /\ calls[c].op # "list") \/ \E j \in 1..Len(cs) : cs[j].op = "list")
    /\ (ui'.searching => ui.searching /\ calls[c].op # "search")
    /\ (ui'.viewing => ui.viewing /\ calls[c].op # "read")

LEMMA CallsHaveShape ==
    ASSUME WebInv, NEW c \in DOMAIN calls
    PROVE  calls[c] \in CallRecs /\ CallOK(calls[c]) /\ c # 0 /\ CallsOK
BY DEF WebInv, CallsOK, CallOK

LEMMA HearingKeeps ==
    ASSUME WebInv, NEW c \in DOMAIN calls, NEW cs \in Seq(NewCalls), Heard(c, cs), Hearing(c, cs),
           \A j \in 1..Len(cs) : cs[j].op # "send"
    PROVE  WebInv'
<1>1. c # 0 /\ CallsOK
  BY CallsHaveShape
<1>2. Grown(c, cs)
  BY <1>1, HeardIsGrown
<1>3. composed.opened \in Nat /\ cookie \in {"none", "valid", "expired"}
  BY UiHasShape
<1>4. UiOK'
  BY DEF Hearing, WebInv, UiOK, UiShape
<1>5. Flags'
  BY DEF Hearing, WebInv, Flags
<1>6. cookie' \in {"none", "valid", "expired"} /\ ServerOK'
  BY <1>3, ComposedLeft DEF Hearing
<1>7. UNCHANGED <<place, seen>> /\ composed.opened <= composed'.opened /\ composed'.sent = composed.sent
  BY <1>3 DEF Hearing
<1>8. /\ ui'.compose = ui.compose /\ (ui.sending => ui'.sending) /\ (ui'.sending => ui.sending) /\ calls[c].op # "send"
      /\ (ui'.listing => (ui.listing /\ calls[c].op # "list") \/ \E j \in 1..Len(cs) : cs[j].op = "list")
      /\ (ui'.searching => ui.searching /\ calls[c].op # "search")
      /\ (ui'.viewing => ui.viewing /\ calls[c].op # "read")
  BY DEF Hearing
<1> QED
  BY <1>2, <1>4, <1>5, <1>6, <1>7, <1>8, PageStep

ListCalls == {t \in NewCalls : t.op = "list"}

LEMMA RelistFacts ==
    ASSUME NEW box \in Boxes, NEW re \in BOOLEAN
    PROVE  Relist(box, re) \in Seq(ListCalls) /\ (box # "none" => Len(Relist(box, re)) = 1)
<1>1. "list" \in Ops /\ "list" \notin {"read", "delete"} /\ 0 \in Nat
  BY DEF Ops
<1>2. PICK t : t = Call("list", 0, box, re)
  OBVIOUS
<1>3. t \in ListCalls
  BY <1>1, <1>2, CallIsNew DEF ListCalls
<1>4. Relist(box, re) = IF box = "none" THEN <<>> ELSE <<t>>
  BY <1>2 DEF Relist
<1>5. <<t>> \in Seq(ListCalls) /\ Len(<<t>>) = 1 /\ <<>> \in Seq(ListCalls)
  BY <1>3
<1> QED
  BY <1>4, <1>5

LEMMA ListsAreCalls ==
    ASSUME NEW cs \in Seq(ListCalls)
    PROVE  cs \in Seq(NewCalls) /\ (\A j \in 1..Len(cs) : cs[j].op = "list")
           /\ (cs # <<>> => \E j \in 1..Len(cs) : cs[j].op = "list")
<1>1. ListCalls \subseteq NewCalls /\ \A j \in 1..Len(cs) : cs[j] \in ListCalls
  BY DEF ListCalls
<1>2. \A j \in 1..Len(cs) : cs[j].op = "list"
  BY <1>1 DEF ListCalls
<1>3. cs \in Seq(NewCalls)
  <2>1. \A S, T : S \subseteq T => (cs \in Seq(S) => cs \in Seq(T))
    OBVIOUS
  <2> QED
    BY <1>1, <2>1
<1>4. cs # <<>> => 1 \in 1..Len(cs)
  OBVIOUS
<1> QED
  BY <1>2, <1>3, <1>4

LEMMA HearMailboxesKeeps == \A c \in 1..MaxCalls : WebInv /\ HearMailboxes(c) => WebInv'
<1> SUFFICES ASSUME NEW c \in 1..MaxCalls, WebInv, HearMailboxes(c) PROVE WebInv'
  OBVIOUS
<1>1. PICK t : t = calls[c]
  OBVIOUS
<1>2. c \in DOMAIN calls /\ t.op = "boxes" /\ ui.open /\ UNCHANGED <<place, seen, cookie, composed>>
  BY <1>1 DEF HearMailboxes, CallAt, AnswerLeaves, mailSrvVars
<1>3. t \in CallRecs
  BY <1>1, <1>2, CallsHaveShape
<1>4. PICK first : first = (t.ok /\ t.box = "none")
  OBVIOUS
<1>5. PICK cs : cs = (IF first /\ ui.box # "inbox" THEN Relist("inbox", FALSE) ELSE <<>>)
                     \o (IF t.re THEN Relist(t.box, TRUE) ELSE <<>>)
  OBVIOUS
<1>6. cs \in Seq(ListCalls)
  <2>1. "inbox" \in Boxes /\ FALSE \in BOOLEAN /\ TRUE \in BOOLEAN /\ t.box \in Boxes
    BY <1>3 DEF Boxes, Folders, CallRecs
  <2>2. Relist("inbox", FALSE) \in Seq(ListCalls)
    BY <2>1, RelistFacts
  <2>3. PICK box : box = t.box
    OBVIOUS
  <2>4. Relist(box, TRUE) \in Seq(ListCalls)
    BY <2>1, <2>3, RelistFacts
  <2>5. PICK a : a = IF first /\ ui.box # "inbox" THEN Relist("inbox", FALSE) ELSE <<>>
    OBVIOUS
  <2>6. PICK b : b = IF t.re THEN Relist(box, TRUE) ELSE <<>>
    OBVIOUS
  <2>c. <<>> \in Seq(ListCalls)
    OBVIOUS
  <2>7. a \in Seq(ListCalls) /\ b \in Seq(ListCalls)
    BY <2>2, <2>4, <2>5, <2>6, <2>c
  <2>8. cs = a \o b
    BY <1>5, <2>3, <2>5, <2>6
  <2> QED
    BY <2>7, <2>8
<1>7. cs \in Seq(NewCalls) /\ (\A j \in 1..Len(cs) : cs[j].op = "list")
      /\ (cs # <<>> => \E j \in 1..Len(cs) : cs[j].op = "list")
  BY <1>6, ListsAreCalls
<1>8. Heard(c, cs) /\ ui' = [ui EXCEPT !.boxes = @ \/ t.ok, !.box = IF first THEN "inbox" ELSE @,
                        !.refreshing = @ /\ ~(t.re /\ t.box = "none"), !.listing = @ \/ cs # <<>>]
  BY <1>1, <1>4, <1>5 DEF HearMailboxes
<1>9. UiShape(ui) /\ ui.box \in Boxes /\ ui.mail \in {0} \cup Mails /\ ui.list \subseteq Mails /\ ui.found \subseteq Mails
  BY UiHasShape DEF WebInv, UiOK
<1>10. PICK box : box = IF first THEN "inbox" ELSE ui.box
  OBVIOUS
<1>11. box \in Boxes
  BY <1>9, <1>10 DEF Boxes, Folders
<1>12. PICK listing : listing = (ui.listing \/ cs # <<>>)
  OBVIOUS
<1>13. PICK bs : bs = (ui.boxes \/ t.ok)
  OBVIOUS
<1>14. PICK rf : rf = (ui.refreshing /\ ~(t.re /\ t.box = "none"))
  OBVIOUS
<1>15. ui' = [[[[ui EXCEPT !.boxes = bs] EXCEPT !.box = box] EXCEPT !.refreshing = rf] EXCEPT !.listing = listing]
  BY <1>8, <1>9, <1>10, <1>12, <1>13, <1>14 DEF UiShape, UiFields
<1>16. /\ UiShape(ui') /\ ui'.open = ui.open /\ ui'.box = box /\ ui'.mail = ui.mail /\ ui'.list = ui.list /\ ui'.found = ui.found
       /\ ui'.compose = ui.compose /\ ui'.sending = ui.sending /\ ui'.listing = listing /\ ui'.searching = ui.searching
       /\ ui'.viewing = ui.viewing
  BY <1>9, <1>15 DEF UiShape, UiFields
<1>17. listing \in BOOLEAN /\ ui.searching \in BOOLEAN /\ ui.viewing \in BOOLEAN
  BY <1>12 DEF WebInv, Flags
<1>18. listing => ui.listing \/ \E j \in 1..Len(cs) : cs[j].op = "list"
  BY <1>7, <1>12
<1>19. Hearing(c, cs)
  BY <1>1, <1>2, <1>9, <1>11, <1>16, <1>17, <1>18 DEF Hearing
<1> QED
  BY <1>2, <1>7, <1>8, <1>19, HearingKeeps

LEMMA HearEmailsKeeps == \A c \in 1..MaxCalls : WebInv /\ HearEmails(c) => WebInv'
<1> SUFFICES ASSUME NEW c \in 1..MaxCalls, WebInv, HearEmails(c) PROVE WebInv'
  OBVIOUS
<1>1. PICK t : t = calls[c]
  OBVIOUS
<1>2. PICK cs : cs = <<>>
  OBVIOUS
<1>3. PICK got : got = IF t.ok THEN t.got ELSE ui.list
  OBVIOUS
<1>4. PICK rf : rf = (ui.refreshing /\ ~t.re)
  OBVIOUS
<1>5. c \in DOMAIN calls /\ t.op = "list" /\ ui.open /\ UNCHANGED <<place, seen, cookie, composed>> /\ Heard(c, cs)
      /\ ui' = [ui EXCEPT !.list = got, !.listing = FALSE, !.refreshing = rf]
  BY <1>1, <1>2, <1>3, <1>4 DEF HearEmails, CallAt, AnswerLeaves, mailSrvVars
<1>6. UiShape(ui) /\ ui.box \in Boxes /\ ui.mail \in {0} \cup Mails /\ ui.list \subseteq Mails /\ ui.found \subseteq Mails
  BY UiHasShape DEF WebInv, UiOK
<1>7. got \subseteq Mails
  BY <1>1, <1>3, <1>5, <1>6, CallsHaveShape DEF CallRecs
<1>8. /\ UiShape(ui') /\ ui'.open = ui.open /\ ui'.box = ui.box /\ ui'.mail = ui.mail /\ ui'.list = got /\ ui'.found = ui.found
      /\ ui'.compose = ui.compose /\ ui'.sending = ui.sending /\ ui'.listing = FALSE /\ ui'.searching = ui.searching
      /\ ui'.viewing = ui.viewing
  BY <1>5, <1>6 DEF UiShape, UiFields
<1>9. ui.searching \in BOOLEAN /\ ui.viewing \in BOOLEAN
  BY DEF WebInv, Flags
<1>10. Hearing(c, cs)
  BY <1>1, <1>5, <1>6, <1>7, <1>8, <1>9 DEF Hearing
<1>11. cs \in Seq(NewCalls) /\ \A j \in 1..Len(cs) : cs[j].op # "send"
  BY <1>2
<1> QED
  BY <1>5, <1>10, <1>11, HearingKeeps

LEMMA HearSearchKeeps == \A c \in 1..MaxCalls : WebInv /\ HearSearch(c) => WebInv'
<1> SUFFICES ASSUME NEW c \in 1..MaxCalls, WebInv, HearSearch(c) PROVE WebInv'
  OBVIOUS
<1>1. PICK t : t = calls[c]
  OBVIOUS
<1>2. PICK cs : cs = <<>>
  OBVIOUS
<1>3. PICK got : got = IF t.ok THEN t.got ELSE ui.found
  OBVIOUS
<1>5. c \in DOMAIN calls /\ t.op = "search" /\ ui.open /\ UNCHANGED <<place, seen, cookie, composed>> /\ Heard(c, cs)
      /\ ui' = [ui EXCEPT !.found = got, !.searching = FALSE]
  BY <1>1, <1>2, <1>3 DEF HearSearch, CallAt, AnswerLeaves, mailSrvVars
<1>6. UiShape(ui) /\ ui.box \in Boxes /\ ui.mail \in {0} \cup Mails /\ ui.list \subseteq Mails /\ ui.found \subseteq Mails
  BY UiHasShape DEF WebInv, UiOK
<1>7. got \subseteq Mails
  BY <1>1, <1>3, <1>5, <1>6, CallsHaveShape DEF CallRecs
<1>8. /\ UiShape(ui') /\ ui'.open = ui.open /\ ui'.box = ui.box /\ ui'.mail = ui.mail /\ ui'.list = ui.list /\ ui'.found = got
      /\ ui'.compose = ui.compose /\ ui'.sending = ui.sending /\ ui'.listing = ui.listing /\ ui'.searching = FALSE
      /\ ui'.viewing = ui.viewing
  BY <1>5, <1>6 DEF UiShape, UiFields
<1>9. ui.listing \in BOOLEAN /\ ui.viewing \in BOOLEAN
  BY DEF WebInv, Flags
<1>10. Hearing(c, cs)
  BY <1>1, <1>5, <1>6, <1>7, <1>8, <1>9 DEF Hearing
<1>11. cs \in Seq(NewCalls) /\ \A j \in 1..Len(cs) : cs[j].op # "send"
  BY <1>2
<1> QED
  BY <1>5, <1>10, <1>11, HearingKeeps

LEMMA HearEmailKeeps == \A c \in 1..MaxCalls : WebInv /\ HearEmail(c) => WebInv'
<1> SUFFICES ASSUME NEW c \in 1..MaxCalls, WebInv, HearEmail(c) PROVE WebInv'
  OBVIOUS
<1>1. PICK t : t = calls[c]
  OBVIOUS
<1>2. PICK cs : cs = <<>>
  OBVIOUS
<1>3. PICK shown : shown = IF t.ok THEN t.id ELSE ui.shown
  OBVIOUS
<1>4. PICK failed : failed = (ui.failed \/ ~t.ok)
  OBVIOUS
<1>5. c \in DOMAIN calls /\ t.op = "read" /\ ui.open /\ UNCHANGED <<place, seen, cookie, composed>> /\ Heard(c, cs)
      /\ ui' = [ui EXCEPT !.shown = shown, !.failed = failed, !.viewing = FALSE]
  BY <1>1, <1>2, <1>3, <1>4 DEF HearEmail, CallAt, AnswerLeaves, mailSrvVars
<1>6. UiShape(ui) /\ ui.box \in Boxes /\ ui.mail \in {0} \cup Mails /\ ui.list \subseteq Mails /\ ui.found \subseteq Mails
  BY UiHasShape DEF WebInv, UiOK
<1>8. /\ UiShape(ui') /\ ui'.open = ui.open /\ ui'.box = ui.box /\ ui'.mail = ui.mail /\ ui'.list = ui.list /\ ui'.found = ui.found
      /\ ui'.compose = ui.compose /\ ui'.sending = ui.sending /\ ui'.listing = ui.listing /\ ui'.searching = ui.searching
      /\ ui'.viewing = FALSE
  BY <1>5, <1>6 DEF UiShape, UiFields
<1>9. ui.listing \in BOOLEAN /\ ui.searching \in BOOLEAN
  BY DEF WebInv, Flags
<1>10. Hearing(c, cs)
  BY <1>1, <1>5, <1>6, <1>8, <1>9 DEF Hearing
<1>11. cs \in Seq(NewCalls) /\ \A j \in 1..Len(cs) : cs[j].op # "send"
  BY <1>2
<1> QED
  BY <1>5, <1>10, <1>11, HearingKeeps

LEMMA HearDeleteKeeps == \A c \in 1..MaxCalls : WebInv /\ HearDelete(c) => WebInv'
<1> SUFFICES ASSUME NEW c \in 1..MaxCalls, WebInv, HearDelete(c) PROVE WebInv'
  OBVIOUS
<1>1. PICK t : t = calls[c]
  OBVIOUS
<1>2. PICK cs : cs = <<>>
  OBVIOUS
<1>3. PICK shown : shown = IF ui.mail = 0 THEN ui.shown ELSE 0
  OBVIOUS
<1>5. c \in DOMAIN calls /\ t.op = "delete" /\ ui.open /\ UNCHANGED <<place, seen, cookie, composed>> /\ Heard(c, cs)
      /\ (ui' = [ui EXCEPT !.view = "list", !.mail = 0, !.shown = shown] \/ ui' = ui)
  BY <1>1, <1>2, <1>3 DEF HearDelete, CallAt, AnswerLeaves, mailSrvVars
<1>6. UiShape(ui) /\ ui.box \in Boxes /\ ui.mail \in {0} \cup Mails /\ ui.list \subseteq Mails /\ ui.found \subseteq Mails
  BY UiHasShape DEF WebInv, UiOK
<1>8. /\ UiShape(ui') /\ ui'.open = ui.open /\ ui'.box = ui.box /\ ui'.mail \in {0, ui.mail} /\ ui'.list = ui.list /\ ui'.found = ui.found
      /\ ui'.compose = ui.compose /\ ui'.sending = ui.sending /\ ui'.listing = ui.listing /\ ui'.searching = ui.searching
      /\ ui'.viewing = ui.viewing
  BY <1>5, <1>6 DEF UiShape, UiFields
<1>9. ui.listing \in BOOLEAN /\ ui.searching \in BOOLEAN /\ ui.viewing \in BOOLEAN
  BY DEF WebInv, Flags
<1>10. Hearing(c, cs)
  BY <1>1, <1>5, <1>6, <1>8, <1>9 DEF Hearing
<1>11. cs \in Seq(NewCalls) /\ \A j \in 1..Len(cs) : cs[j].op # "send"
  BY <1>2
<1> QED
  BY <1>5, <1>10, <1>11, HearingKeeps

LEMMA HearSendKeeps == \A c \in 1..MaxCalls : WebInv /\ HearSend(c) => WebInv'
<1> SUFFICES ASSUME NEW c \in 1..MaxCalls, WebInv, HearSend(c) PROVE WebInv'
  OBVIOUS
<1>1. PICK t : t = calls[c]
  OBVIOUS
<1>2. c \in DOMAIN calls /\ t.op = "send" /\ t.pc = "answered" /\ ui.open /\ UNCHANGED <<place, seen, cookie>>
  BY <1>1 DEF HearSend, CallAt, AnswerLeaves, mailSrvVars
<1>3. t \in CallRecs /\ CallOK(t) /\ c # 0 /\ CallsOK
  BY <1>1, <1>2, CallsHaveShape
<1>4. PICK box : box = t.box
  OBVIOUS
<1>5. box \in Boxes /\ t.ok \in BOOLEAN
  BY <1>3, <1>4 DEF CallRecs
<1>6. PICK cs : cs = IF t.ok THEN Relist(box, FALSE) \o <<Call("boxes", 0, box, FALSE)>> ELSE <<>>
  OBVIOUS
<1>7. cs \in Seq(NewCalls) /\ (\A j \in 1..Len(cs) : cs[j].op # "send")
      /\ (t.ok /\ box # "none" => \E j \in 1..Len(cs) : cs[j].op = "list")
  <2>1. "boxes" \in Ops /\ "boxes" \notin {"read", "delete"} /\ 0 \in Nat /\ FALSE \in BOOLEAN
    BY DEF Ops
  <2>2. PICK b : b = Call("boxes", 0, box, FALSE)
    OBVIOUS
  <2>a. b \in CallRecs /\ b.op = "boxes" /\ b.id = 0 /\ b.pc = "sent" /\ b.done = FALSE /\ b.ok = FALSE
    BY <1>5, <2>1, <2>2 DEF Call, CallRecs, CallPcs
  <2>3. b \in NewCalls /\ b.op = "boxes"
    BY <2>a DEF NewCalls
  <2>4. PICK a : a = Relist(box, FALSE)
    OBVIOUS
  <2>5. a \in Seq(ListCalls) /\ (box # "none" => Len(a) = 1)
    BY <1>5, <2>1, <2>4, RelistFacts
  <2>6. a \in Seq(NewCalls) /\ (\A j \in 1..Len(a) : a[j].op = "list")
    BY <2>5, ListsAreCalls
  <2>7. <<b>> \in Seq(NewCalls) /\ Len(<<b>>) = 1 /\ <<b>>[1] = b
    BY <2>3
  <2>8. PICK ab : ab = a \o <<b>>
    OBVIOUS
  <2>9. /\ ab \in Seq(NewCalls) /\ Len(ab) = Len(a) + 1 /\ Len(a) \in Nat
        /\ (\A i \in 1..Len(a) : ab[i] = a[i]) /\ ab[Len(a) + 1] = b
    BY <2>6, <2>7, <2>8
  <2>10. \A j \in 1..Len(ab) : ab[j].op # "send"
    <3> SUFFICES ASSUME NEW j \in 1..Len(ab) PROVE ab[j].op # "send"
      OBVIOUS
    <3>1. j \in 1..Len(a) \/ j = Len(a) + 1
      BY <2>9
    <3> QED
      BY <2>3, <2>6, <2>9, <3>1
  <2>11. box # "none" => 1 \in 1..Len(ab) /\ ab[1].op = "list"
    BY <2>5, <2>6, <2>9
  <2>12. CASE t.ok
    <3>1. cs = ab
      BY <1>6, <2>2, <2>4, <2>8, <2>12
    <3> QED
      BY <2>9, <2>10, <2>11, <3>1
  <2>13. CASE ~t.ok
    <3>1. cs = <<>>
      BY <1>6, <2>13
    <3> QED
      BY <2>13, <3>1
  <2> QED
    BY <1>5, <2>12, <2>13
<1>8. Heard(c, cs)
  BY <1>1, <1>4, <1>6 DEF HearSend
<1>9. PICK sending : sending = (ui.sending /\ ui.compose # t.id)
  OBVIOUS
<1>10. PICK compose : compose = IF t.ok THEN 0 ELSE ui.compose
  OBVIOUS
<1>11. PICK listing : listing = (ui.listing \/ (t.ok /\ box # "none"))
  OBVIOUS
<1>12. PICK sent : sent = IF t.ok /\ ui.compose # 0 THEN composed.sent \cup {<<ui.compose, t.id>>} ELSE composed.sent
  OBVIOUS
<1>13. ui' = [ui EXCEPT !.sending = sending, !.compose = compose, !.listing = listing]
       /\ composed' = [composed EXCEPT !.sent = sent]
  BY <1>1, <1>4, <1>9, <1>10, <1>11, <1>12 DEF HearSend
<1>14. UiShape(ui) /\ ui.box \in Boxes /\ ui.mail \in {0} \cup Mails /\ ui.list \subseteq Mails /\ ui.found \subseteq Mails
       /\ ui.compose \in {0, composed.opened} /\ composed.opened \in Nat
  BY UiHasShape DEF WebInv, UiOK
<1>15. /\ UiShape(ui') /\ ui'.open = ui.open /\ ui'.box = ui.box /\ ui'.mail = ui.mail /\ ui'.list = ui.list /\ ui'.found = ui.found
       /\ ui'.compose = compose /\ ui'.sending = sending /\ ui'.listing = listing /\ ui'.searching = ui.searching
       /\ ui'.viewing = ui.viewing
  BY <1>13, <1>14 DEF UiShape, UiFields
<1>16. composed'.opened = composed.opened /\ composed'.sent = sent /\ DOMAIN composed' = {"opened", "sent"}
       /\ composed' = [f \in {"opened", "sent"} |-> composed'[f]]
  BY <1>13 DEF WebInv, ServerOK
<1>17. UiOK'
  BY <1>10, <1>14, <1>15, <1>16 DEF UiOK, UiShape
<1>18. sending \in BOOLEAN /\ listing \in BOOLEAN
  BY <1>9, <1>11 DEF WebInv, Flags
<1>19. Flags'
  BY <1>2, <1>15, <1>18 DEF WebInv, Flags
<1>20. ServerOK' /\ cookie' \in {"none", "valid", "expired"}
  BY <1>2, <1>16 DEF WebInv, ServerOK
<1>21. Grown(c, cs)
  BY <1>2, <1>3, <1>7, <1>8, HeardIsGrown
<1>22. composed'.sent = composed.sent \/
              (/\ c # 0 /\ calls[c].op = "send" /\ calls[c].ok /\ ui.compose # 0
               /\ composed'.sent = composed.sent \cup {<<ui.compose, calls[c].id>>})
  BY <1>1, <1>2, <1>3, <1>12, <1>16 DEF CallOK
<1>23. \/ ui'.compose = 0
       \/ ui'.compose = ui.compose /\ (ui.sending => ui'.sending)
       \/ ui'.compose = ui.compose /\ c # 0 /\ Good(calls[c]) /\ calls[c].id = ui.compose /\ ~calls[c].ok
  <2>1. Good(calls[c])
    BY <1>1, <1>2 DEF Good
  <2> QED
    BY <1>1, <1>3, <1>9, <1>10, <1>15, <2>1
<1>24. ui'.sending /\ ui'.compose # 0 => /\ ui.sending /\ ui'.compose = ui.compose
                                         /\ calls[c].id # ui.compose
  BY <1>1, <1>9, <1>10, <1>15
<1>25. /\ ui'.listing => (ui.listing /\ calls[c].op # "list") \/ \E j \in 1..Len(cs) : cs[j].op = "list"
       /\ ui'.searching => ui.searching /\ calls[c].op # "search"
       /\ ui'.viewing => ui.viewing /\ calls[c].op # "read"
  BY <1>1, <1>2, <1>7, <1>11, <1>15
<1>26. composed.opened <= composed'.opened /\ UNCHANGED <<place, seen>>
  BY <1>2, <1>14, <1>16
<1> QED
  BY <1>7, <1>17, <1>19, <1>20, <1>21, <1>22, <1>23, <1>24, <1>25, <1>26, PageStep

LEMMA DroppedKeeps == \A c \in 1..MaxCalls : WebInv /\ Dropped(c) => WebInv'
<1> SUFFICES ASSUME NEW c \in 1..MaxCalls, WebInv, Dropped(c) PROVE WebInv'
  OBVIOUS
<1>1. PICK cs : cs = <<>>
  OBVIOUS
<1>2. c \in DOMAIN calls /\ ~ui.open /\ UNCHANGED <<place, seen, cookie, ui, composed>> /\ Heard(c, cs)
  BY <1>1 DEF Dropped, CallAt, AnswerLeaves, mailSrvVars
<1>3. c # 0 /\ CallsOK
  BY <1>2, CallsHaveShape
<1>4. cs \in Seq(NewCalls) /\ Len(cs) = 0 /\ \A j \in 1..Len(cs) : FALSE
  BY <1>1
<1>5. Grown(c, cs)
  BY <1>2, <1>3, <1>4, HeardIsGrown
<1>6. UiOK' /\ Flags' /\ ServerOK' /\ cookie' \in {"none", "valid", "expired"} /\ composed.opened \in Nat
  <2>1. UiOK' /\ Flags'
    BY <1>2 DEF WebInv, UiOK, Flags
  <2> QED
    BY <1>2, <2>1, UiHasShape, ComposedLeft
<1>7. ui'.compose = 0 /\ ~(ui'.listing) /\ ~(ui'.searching) /\ ~(ui'.viewing)
  BY <1>2, LoginFacts DEF WebInv, Flags
<1>8. composed.opened <= composed'.opened /\ UNCHANGED <<place, seen>> /\ composed'.sent = composed.sent
  BY <1>2, <1>6
<1> QED
  BY <1>4, <1>5, <1>6, <1>7, <1>8, PageStep

-----------------------------------------------------------------------------
(* Every step keeps the invariant, and the invariant says what is promised. *)

LEMMA WebKeeps == WebInv /\ WebMailNext => WebInv'
<1> SUFFICES ASSUME WebInv, WebMailNext PROVE WebInv'
  OBVIOUS
<1>1. place \in [Mails -> Boxes] /\ seen \subseteq Mails /\ cookie \in {"none", "valid", "expired"}
  BY DEF WebInv, ServerOK
<1>2. ASSUME NEW ok \in BOOLEAN, SubmitLogin(ok) PROVE WebInv'
  BY <1>1, <1>2, MailAroundKeeps DEF SubmitLogin, mailSrvVars
<1>3. CASE LoseToken
  BY <1>1, <1>3, MailAroundKeeps DEF LoseToken, mailSrvVars
<1>4. ASSUME NEW m \in Mails, DestroyEmail(m) PROVE WebInv'
  <2>1. place' \in [Mails -> Boxes]
    BY <1>1, <1>4 DEF DestroyEmail, Boxes
  <2> QED
    BY <1>1, <1>4, <2>1, MailAroundKeeps DEF DestroyEmail
<1>5. ASSUME NEW m \in Mails, UpdateEmail(m) PROVE WebInv'
  BY <1>1, <1>5, MailAroundKeeps DEF UpdateEmail
<1>6. ASSUME NEW c \in 1..MaxCalls,
             \/ RouteFails(c) \/ GetMailboxes(c) \/ GetEmails(c) \/ GetSearch(c) \/ GetEmail(c) \/ MarkSeen(c)
             \/ FindTrash(c) \/ MoveToTrash(c) \/ SetupSend(c) \/ Submit(c)
      PROVE WebInv'
  BY <1>6, RoutesKeep
<1>7. ASSUME NEW c \in 1..MaxCalls,
             \/ HearMailboxes(c) \/ HearEmails(c) \/ HearSearch(c) \/ HearEmail(c)
             \/ HearDelete(c) \/ HearSend(c) \/ Dropped(c)
      PROVE WebInv'
  BY <1>7, HearMailboxesKeeps, HearEmailsKeeps, HearSearchKeeps, HearEmailKeeps, HearDeleteKeeps, HearSendKeeps, DroppedKeeps
<1> QED
  BY <1>2, <1>3, <1>4, <1>5, <1>6, <1>7, OpenPageKeeps, LogoutKeeps, RefreshKeeps, SearchKeeps, ClearSearchKeeps,
     SelectMailboxKeeps, SelectEmailKeeps, BackKeeps, DeleteKeeps, ComposeKeeps, DiscardKeeps, SendKeeps DEF WebMailNext

LEMMA WebImplies == WebInv => SentAsTold /\ LoadersEnd /\ WebMailTypeOK
<1> SUFFICES ASSUME WebInv PROVE SentAsTold /\ LoadersEnd /\ WebMailTypeOK
  OBVIOUS
<1>1. SentAsTold
  <2> SUFFICES ASSUME NEW k \in 1..MaxComposes
               PROVE LET attempts  == {c \in DOMAIN calls : calls[c].op = "send" /\ calls[c].id = k}
                         submitted == {c \in attempts : calls[c].done} IN
                     /\ Cardinality({c \in attempts : calls[c].pc # "heard"}) <= 1
                     /\ Cardinality(submitted) <= 1 + Cardinality({c \in attempts : calls[c].pc = "heard" /\ ~calls[c].ok})
    BY DEF SentAsTold, WebInv, SendInv, ToldSent, OkSend
  <2> DEFINE attempts  == {c \in DOMAIN calls : calls[c].op = "send" /\ calls[c].id = k}
             submitted == {c \in attempts : calls[c].done}
             failed    == {c \in attempts : calls[c].pc = "heard" /\ ~calls[c].ok}
             good      == {c \in attempts : Good(calls[c])}
             away      == {c \in attempts : calls[c].pc # "heard"}
  <2>2. IsFiniteSet(DOMAIN calls)
    <3>1. DOMAIN calls = 1..Len(calls) /\ Len(calls) \in Nat
      BY DEF WebInv, CallsOK
    <3>2. 1 \in Int /\ Len(calls) \in Int
      BY <3>1
    <3> QED
      BY <3>1, <3>2, FS_Interval
  <2>3. failed \subseteq DOMAIN calls /\ submitted \subseteq DOMAIN calls /\ good \subseteq DOMAIN calls /\ submitted \subseteq failed \cup good
    BY DEF Good
  <2>4. IsFiniteSet(failed) /\ IsFiniteSet(submitted)
    BY <2>2, <2>3, FS_Subset
  <2>5. Cardinality(failed) \in Nat /\ Cardinality(submitted) \in Nat
    BY <2>4, FS_CardinalityType
  <2>6. \A a, b \in good : a = b
    BY DEF WebInv, SendInv, OneGood
  <2>7. Cardinality(submitted) <= 1 + Cardinality(failed)
    <3>1. CASE good = {}
      <4>1. submitted \subseteq failed
        BY <2>3, <3>1
      <4>2. Cardinality(submitted) <= Cardinality(failed)
        BY <2>4, <4>1, FS_Subset
      <4> QED
        BY <2>5, <4>2
    <3>2. CASE good # {}
      <4>1. PICK g \in good : TRUE
        BY <3>2
      <4>2. submitted \subseteq failed \cup {g}
        BY <2>3, <2>6, <4>1
      <4>3. IsFiniteSet(failed \cup {g}) /\ Cardinality(failed \cup {g}) \in {Cardinality(failed), Cardinality(failed) + 1}
        <5>1. IsFiniteSet(failed \cup {g}) /\ Cardinality(failed \cup {g}) = IF g \in failed THEN Cardinality(failed) ELSE Cardinality(failed) + 1
          BY <2>4, FS_AddElement
        <5> QED
          BY <5>1
      <4>4. Cardinality(submitted) <= Cardinality(failed \cup {g})
        BY <4>2, <4>3, FS_Subset
      <4> QED
        BY <2>5, <4>3, <4>4
    <3> QED
      BY <3>1, <3>2
  <2>8. Cardinality(away) <= 1
    <3>1. away \subseteq good
      BY DEF Good
    <3>2. CASE good = {}
      <4>1. away = {}
        BY <3>1, <3>2
      <4>2. Cardinality(away) = 0
        BY <4>1, FS_EmptySet
      <4> QED
        BY <4>2
    <3>3. CASE good # {}
      <4>1. PICK g \in good : TRUE
        BY <3>3
      <4>2. away \subseteq {g}
        BY <2>6, <3>1, <4>1
      <4>3. IsFiniteSet({g}) /\ Cardinality({g}) = 1
        BY FS_Singleton
      <4>4. Cardinality(away) <= Cardinality({g})
        BY <4>2, <4>3, FS_Subset
      <4> QED
        BY <4>3, <4>4
    <3> QED
      BY <3>2, <3>3
  <2> QED
    BY <2>7, <2>8
<1>2. WebMailTypeOK
  <2>1. ui.compose \in 0..MaxComposes
    BY WebMailAssumption DEF WebInv, UiOK, ServerOK
  <2> QED
    BY <2>1 DEF WebInv, UiOK, ServerOK, CallsOK, WebMailTypeOK, Boxes
<1> QED
  BY <1>1, <1>2 DEF WebInv

-----------------------------------------------------------------------------
(* The list pages: what is busy waits for a call of the visit, a form for  *)
(* its own creation, a dialog for the deletion of its row.                 *)

DashRows == [id : RowIds, st : RowStates]
Dashes   == [kind : PageKinds, visit : Nat, list : SUBSET DashRows, loading : BOOLEAN, failed : BOOLEAN, form : Nat,
             creating : BOOLEAN, target : 0 .. MaxRows, deleting : BOOLEAN, toggling : 0 .. MaxRows, role : RowStates,
             counting : BOOLEAN, image : 0 .. MaxRows, sizing : BOOLEAN, sized : BOOLEAN, size : BOOLEAN]
AskOps   == {"list", "types", "usage", "create", "delete", "patch"}
AskRecs  == [op : AskOps, kind : PageKinds, visit : Nat, id : Nat, st : RowStates, csrf : BOOLEAN,
             pc : {"sent", "answered", "heard"}, ok : BOOLEAN, rows : SUBSET DashRows]
AskOK(t) == /\ t.csrf => t.kind \in Lists
            /\ t.op \in {"delete", "patch"} => t.id \in RowIds
            /\ t.op = "list" => t.kind # "generate"

PagesTypes ==
    /\ stock \in [Lists -> [RowIds -> RowStates]] /\ dash \in Dashes
    /\ asked \in Seq(AskRecs) /\ Len(asked) <= MaxAsked /\ \A c \in DOMAIN asked : AskOK(asked[c])
    /\ dash.deleting => dash.kind # "users" /\ dash.target # 0

\* The creation that ends the wait of the form.
FormWaits == \E c \in Outstanding("create") : dash.kind = "endpoints" => asked[c].id = dash.form

PagesInv == PagesTypes /\ BusyMeansUnderWay /\ (dash.creating => FormWaits)

\* The calls are there still, under way if they were, unless call c was heard.
AskKept(c) ==
    \A d \in DOMAIN asked :
        /\ d \in DOMAIN asked' /\ asked'[d].op = asked[d].op /\ asked'[d].visit = asked[d].visit
        /\ asked'[d].id = asked[d].id
        /\ d # c /\ asked[d].pc # "heard" => asked'[d].pc # "heard"

Asked(c, op)   == c \in DOMAIN asked /\ asked[c].op = op
DeleteWaits == \E c \in Outstanding("delete") : asked[c].id = dash.target
PatchWaits  == \E c \in Outstanding("patch") : asked[c].id = dash.toggling
PageBusyStill(c) ==
    /\ dash'.loading => Outstanding("list")' # {} \/ (dash.loading /\ ~Asked(c, "list"))
    /\ dash'.counting => Outstanding("usage")' # {} \/ (dash.counting /\ ~Asked(c, "usage"))
    /\ dash'.sizing => Outstanding("types")' # {} \/ (dash.sizing /\ ~Asked(c, "types"))
    /\ dash'.creating =>
          \/ FormWaits'
          \/ /\ dash.creating /\ (dash.kind = "endpoints" => dash'.form = dash.form)
             /\ ~(Asked(c, "create") /\ (dash.kind = "endpoints" => asked[c].id = dash.form))
    /\ dash'.deleting => DeleteWaits' \/ (dash.deleting /\ dash'.target = dash.target /\ ~Asked(c, "delete"))
    /\ dash'.toggling # 0 => PatchWaits' \/ (dash'.toggling = dash.toggling /\ ~Asked(c, "patch"))
SamePage == dash'.kind = dash.kind /\ dash'.visit = dash.visit

LEMMA BusyKeep ==
    ASSUME BusyMeansUnderWay, dash.creating => FormWaits, NEW c, SamePage, AskKept(c), PageBusyStill(c)
    PROVE  BusyMeansUnderWay' /\ (dash'.creating => FormWaits')
<1>1. ASSUME NEW op, NEW d \in Outstanding(op), d # c
      PROVE  d \in Outstanding(op)' /\ d \in DOMAIN asked /\ asked'[d].id = asked[d].id /\ asked[d].op = op
  BY <1>1 DEF Outstanding, AskKept, SamePage
<1>2. \A op, d : d \in Outstanding(op) /\ d = c => Asked(c, op)
  BY DEF Outstanding, Asked
<1>3. dash'.loading => Outstanding("list")' # {}
  BY <1>1, <1>2 DEF PageBusyStill, BusyMeansUnderWay
<1>4. dash'.counting => Outstanding("usage")' # {}
  BY <1>1, <1>2 DEF PageBusyStill, BusyMeansUnderWay
<1>5. dash'.sizing => Outstanding("types")' # {}
  BY <1>1, <1>2 DEF PageBusyStill, BusyMeansUnderWay
<1>6. dash'.creating => FormWaits'
  <2>1. CASE /\ dash.creating /\ (dash.kind = "endpoints" => dash'.form = dash.form)
             /\ ~(Asked(c, "create") /\ (dash.kind = "endpoints" => asked[c].id = dash.form))
    <3>1. PICK d \in Outstanding("create") : dash.kind = "endpoints" => asked[d].id = dash.form
      BY <2>1 DEF FormWaits
    <3>2. d # c
      BY <1>2, <2>1, <3>1
    <3>3. d \in Outstanding("create")' /\ asked'[d].id = asked[d].id
      BY <1>1, <3>1, <3>2
    <3> QED
      BY <2>1, <3>1, <3>3 DEF FormWaits, SamePage
  <2> QED
    BY <2>1 DEF PageBusyStill
<1>7. dash'.creating => Outstanding("create")' # {}
  BY <1>6 DEF FormWaits
<1>8. dash'.deleting => DeleteWaits'
  <2>1. CASE dash.deleting /\ dash'.target = dash.target /\ ~Asked(c, "delete")
    <3>1. PICK d \in Outstanding("delete") : asked[d].id = dash.target
      BY <2>1 DEF BusyMeansUnderWay
    <3>2. d \in Outstanding("delete")' /\ asked'[d].id = asked[d].id
      BY <1>1, <1>2, <2>1, <3>1
    <3> QED
      BY <2>1, <3>1, <3>2 DEF DeleteWaits
  <2> QED
    BY <2>1 DEF PageBusyStill
<1>9. dash'.toggling # 0 => PatchWaits'
  <2>1. CASE dash'.toggling # 0 /\ dash'.toggling = dash.toggling /\ ~Asked(c, "patch")
    <3>1. PICK d \in Outstanding("patch") : asked[d].id = dash.toggling
      BY <2>1 DEF BusyMeansUnderWay
    <3>2. d \in Outstanding("patch")' /\ asked'[d].id = asked[d].id
      BY <1>1, <1>2, <2>1, <3>1
    <3> QED
      BY <2>1, <3>1, <3>2 DEF PatchWaits
  <2> QED
    BY <2>1 DEF PageBusyStill
<1> QED
  BY <1>3, <1>4, <1>5, <1>6, <1>7, <1>8, <1>9 DEF BusyMeansUnderWay, DeleteWaits, PatchWaits

\* A call as it is made by the page.
LEMMA WriteFacts ==
    ASSUME dash \in Dashes, NEW op \in AskOps \ {"list"}, NEW id \in Nat, NEW st \in RowStates,
           op \in {"delete", "patch"} => id \in RowIds
    PROVE  /\ Write(op, id, st) \in AskRecs /\ AskOK(Write(op, id, st)) /\ Write(op, id, st).pc = "sent"
           /\ Write(op, id, st).visit = dash.visit /\ Write(op, id, st).op = op /\ Write(op, id, st).id = id
<1>1. dash.kind \in PageKinds /\ dash.visit \in Nat /\ (dash.kind \in Lists) \in BOOLEAN
  BY DEF Dashes
<1> QED
  BY <1>1 DEF Write, Ask, AskRecs, AskOK

LEMMA ReadFacts ==
    ASSUME dash \in Dashes, NEW op \in {"list", "types", "usage"}, op = "list" => dash.kind # "generate"
    PROVE  /\ Read(op) \in AskRecs /\ AskOK(Read(op)) /\ Read(op).pc = "sent"
           /\ Read(op).visit = dash.visit /\ Read(op).op = op
<1>1. dash.kind \in PageKinds /\ dash.visit \in Nat
  BY DEF Dashes
<1> QED
  BY <1>1 DEF Read, Ask, AskRecs, AskOK, AskOps, RowStates

\* One call more.
LEMMA OneAsked ==
    ASSUME NEW h \in Seq(AskRecs), NEW r \in AskRecs
    PROVE  /\ h \o <<r>> \in Seq(AskRecs) /\ Len(h \o <<r>>) = Len(h) + 1 /\ h \o <<>> = h
           /\ (Len(h) + 1) \in DOMAIN (h \o <<r>>) /\ (h \o <<r>>)[Len(h) + 1] = r
           /\ \A d \in DOMAIN h : d \in DOMAIN (h \o <<r>>) /\ (h \o <<r>>)[d] = h[d]
           /\ \A d \in DOMAIN (h \o <<r>>) : d \in DOMAIN h \/ (h \o <<r>>)[d] = r
OBVIOUS

LEMMA AskedOne ==
    ASSUME PagesTypes, NEW r \in AskRecs, AskOK(r), Asks(<<r>>)
    PROVE  /\ asked' \in Seq(AskRecs) /\ Len(asked') <= MaxAsked /\ AskKept(0) /\ 0 \notin DOMAIN asked
           /\ \E n \in DOMAIN asked' : asked'[n] = r
           /\ \A d \in DOMAIN asked' : AskOK(asked'[d])
<1>1. asked \in Seq(AskRecs) /\ asked' = asked \o <<r>> /\ Len(asked) + 1 <= MaxAsked
  BY DEF PagesTypes, Asks
<1> QED
  BY <1>1, OneAsked DEF AskKept, PagesTypes

LEMMA AskReplaced ==
    ASSUME PagesTypes, NEW c \in DOMAIN asked, NEW r \in AskRecs, AskOK(r), r.op = asked[c].op,
           r.visit = asked[c].visit, r.id = asked[c].id
    PROVE  LET h == [asked EXCEPT ![c] = r] IN
           /\ h \in Seq(AskRecs) /\ DOMAIN h = DOMAIN asked /\ Len(h) = Len(asked)
           /\ \A d \in DOMAIN asked : /\ h[d].op = asked[d].op /\ h[d].visit = asked[d].visit
                                      /\ h[d].id = asked[d].id /\ (d # c => h[d].pc = asked[d].pc)
                                      /\ (d = c => h[d].pc = r.pc) /\ AskOK(h[d])
<1>1. asked \in Seq(AskRecs) /\ \A d \in DOMAIN asked : AskOK(asked[d])
  BY DEF PagesTypes
<1> QED
  BY <1>1

\* A call is heard, and nothing, or one call, follows it.
LEMMA AskHeard ==
    ASSUME PagesTypes, NEW c \in DOMAIN asked, NEW cs, Done(c, cs),
           cs = <<>> \/ \E q \in AskRecs : AskOK(q) /\ cs = <<q>>
    PROVE  /\ asked' \in Seq(AskRecs) /\ Len(asked') <= MaxAsked /\ AskKept(c) /\ stock' = stock
           /\ \A d \in DOMAIN asked' : AskOK(asked'[d])
           /\ \A q \in AskRecs : cs = <<q>> => \E n \in DOMAIN asked' : asked'[n] = q
<1>1. PICK r : r = [asked[c] EXCEPT !.pc = "heard"]
  OBVIOUS
<1>2. asked[c] \in AskRecs /\ AskOK(asked[c])
  BY DEF PagesTypes
<1>3. r \in AskRecs /\ AskOK(r) /\ r.op = asked[c].op /\ r.visit = asked[c].visit /\ r.id = asked[c].id
  BY <1>1, <1>2 DEF AskRecs, AskOK
<1>4. PICK h : h = [asked EXCEPT ![c] = r]
  OBVIOUS
<1>5. asked' = h \o cs /\ Len(asked) + Len(cs) <= MaxAsked /\ stock' = stock
  BY <1>1, <1>4 DEF Done
<1>6. /\ h \in Seq(AskRecs) /\ DOMAIN h = DOMAIN asked /\ Len(h) = Len(asked)
      /\ \A d \in DOMAIN asked : /\ h[d].op = asked[d].op /\ h[d].visit = asked[d].visit
                                 /\ h[d].id = asked[d].id /\ (d # c => h[d].pc = asked[d].pc) /\ AskOK(h[d])
  BY <1>3, <1>4, AskReplaced
<1>7. CASE cs = <<>>
  <2>1. asked' = h /\ (\A q : cs # <<q>>) /\ Len(h) <= MaxAsked
    <3>1. h \o <<>> = h /\ Len(asked) + 0 <= MaxAsked
      BY <1>3, <1>5, <1>6, <1>7, OneAsked
    <3> QED
      BY <1>5, <1>6, <1>7, <3>1
  <2> QED
    BY <1>5, <1>6, <2>1 DEF AskKept
<1>8. ASSUME NEW q \in AskRecs, AskOK(q), cs = <<q>> PROVE
        /\ asked' \in Seq(AskRecs) /\ Len(asked') <= MaxAsked /\ AskKept(c)
        /\ \A d \in DOMAIN asked' : AskOK(asked'[d])
        /\ \E n \in DOMAIN asked' : asked'[n] = q
  BY <1>5, <1>6, <1>8, OneAsked DEF AskKept
<1> QED
  BY <1>5, <1>7, <1>8


\* A dialog that deletes is one of a page with rows to delete.
DeleteTyped == dash'.deleting => dash'.kind # "users" /\ dash'.target # 0

\* Nothing new is busy.
NoNewBusy ==
    /\ dash'.loading => dash.loading
    /\ dash'.counting => dash.counting
    /\ dash'.sizing => dash.sizing
    /\ dash'.creating => dash.creating /\ (dash.kind = "endpoints" => dash'.form = dash.form)
    /\ dash'.deleting => dash.deleting /\ dash'.target = dash.target
    /\ dash'.toggling # 0 => dash'.toggling = dash.toggling

LEMMA PageOnly ==
    ASSUME PagesInv, UNCHANGED <<stock, asked>>, dash' \in Dashes, SamePage, DeleteTyped, NoNewBusy
    PROVE  PagesInv'
<1>1. AskKept(0) /\ (\A op : ~Asked(0, op))
  BY DEF AskKept, Asked, PagesInv, PagesTypes
<1>2. PageBusyStill(0)
  BY <1>1 DEF PageBusyStill, NoNewBusy
<1>3. BusyMeansUnderWay' /\ (dash'.creating => FormWaits')
  BY <1>1, <1>2, BusyKeep DEF PagesInv
<1> QED
  BY <1>3 DEF PagesInv, PagesTypes, DeleteTyped, AskOK

\* What is newly busy waits for call r.
PressBusy(r) ==
    /\ dash'.loading => dash.loading \/ r.op = "list"
    /\ dash'.counting => dash.counting
    /\ dash'.sizing => dash.sizing \/ r.op = "types"
    /\ dash'.creating => \/ dash.creating /\ (dash.kind = "endpoints" => dash'.form = dash.form)
                         \/ r.op = "create" /\ (dash.kind = "endpoints" => r.id = dash'.form)
    /\ dash'.deleting => \/ dash.deleting /\ dash'.target = dash.target
                         \/ r.op = "delete" /\ r.id = dash'.target
    /\ dash'.toggling # 0 => dash'.toggling = dash.toggling \/ (r.op = "patch" /\ r.id = dash'.toggling)

LEMMA PagePress ==
    ASSUME PagesInv, NEW r \in AskRecs, AskOK(r), r.visit = dash.visit, r.pc = "sent", Asks(<<r>>), stock' = stock,
           dash' \in Dashes, SamePage, DeleteTyped, PressBusy(r)
    PROVE  PagesInv'
<1>1. /\ asked' \in Seq(AskRecs) /\ Len(asked') <= MaxAsked /\ AskKept(0) /\ 0 \notin DOMAIN asked
      /\ \A d \in DOMAIN asked' : AskOK(asked'[d])
  BY AskedOne DEF PagesInv
<1>2. PICK n \in DOMAIN asked' : asked'[n] = r
  BY AskedOne DEF PagesInv
<1>3. n \in Outstanding(r.op)' /\ (\A op : ~Asked(0, op))
  BY <1>1, <1>2 DEF Outstanding, Asked, SamePage
<1>4. PageBusyStill(0)
  <2>1. r.op = "create" /\ (dash.kind = "endpoints" => r.id = dash'.form) => FormWaits'
    BY <1>2, <1>3 DEF FormWaits, SamePage
  <2>2. r.op = "delete" /\ r.id = dash'.target => DeleteWaits'
    BY <1>2, <1>3 DEF DeleteWaits
  <2>3. r.op = "patch" /\ r.id = dash'.toggling => PatchWaits'
    BY <1>2, <1>3 DEF PatchWaits
  <2> QED
    BY <1>3, <2>1, <2>2, <2>3 DEF PageBusyStill, PressBusy
<1>5. BusyMeansUnderWay' /\ (dash'.creating => FormWaits')
  BY <1>1, <1>4, BusyKeep DEF PagesInv
<1> QED
  BY <1>1, <1>5 DEF PagesInv, PagesTypes, DeleteTyped

\* What is still busy after call c was heard waits for another call, or for
\* the one the page makes now.
HeardBusy(c, cs) ==
    /\ dash'.loading => (dash.loading /\ ~Asked(c, "list")) \/ cs = <<Read("list")>>
    /\ dash'.counting => (dash.counting /\ ~Asked(c, "usage")) \/ cs = <<Read("usage")>>
    /\ dash'.sizing => dash.sizing /\ ~Asked(c, "types")
    /\ dash'.creating =>
          /\ dash.creating /\ (dash.kind = "endpoints" => dash'.form = dash.form)
          /\ ~(Asked(c, "create") /\ (dash.kind = "endpoints" => asked[c].id = dash.form))
    /\ dash'.deleting => dash.deleting /\ dash'.target = dash.target /\ ~Asked(c, "delete")
    /\ dash'.toggling # 0 => dash'.toggling = dash.toggling /\ ~Asked(c, "patch")

LEMMA PageHears ==
    ASSUME PagesInv, NEW c \in DOMAIN asked, NEW cs, Done(c, cs),
           cs = <<>> \/ cs = <<Read("usage")>> \/ (cs = <<Read("list")>> /\ dash.kind # "generate"),
           dash' \in Dashes, SamePage, DeleteTyped, HeardBusy(c, cs)
    PROVE  PagesInv'
<1>1. dash \in Dashes
  BY DEF PagesInv, PagesTypes
<1>2. PICK u : u = Read("usage")
  OBVIOUS
<1>3. PICK l : l = Read("list")
  OBVIOUS
<1>4. u \in AskRecs /\ AskOK(u) /\ u.op = "usage" /\ u.visit = dash.visit /\ u.pc = "sent"
  BY <1>1, <1>2, ReadFacts
<1>5. /\ l \in AskRecs /\ l.op = "list" /\ l.visit = dash.visit /\ l.pc = "sent"
      /\ dash.kind # "generate" => AskOK(l)
  <2>1. l \in AskRecs /\ l.op = "list" /\ l.visit = dash.visit /\ l.pc = "sent" /\ l.kind = dash.kind /\ ~l.csrf
    BY <1>1, <1>3 DEF Read, Ask, AskRecs, AskOps, RowStates, Dashes
  <2> QED
    BY <2>1 DEF AskOK
<1>6. cs = <<>> \/ \E q \in AskRecs : AskOK(q) /\ cs = <<q>>
  BY <1>2, <1>3, <1>4, <1>5
<1>7. /\ asked' \in Seq(AskRecs) /\ Len(asked') <= MaxAsked /\ AskKept(c) /\ stock' = stock
      /\ \A d \in DOMAIN asked' : AskOK(asked'[d])
      /\ \A q \in AskRecs : cs = <<q>> => \E n \in DOMAIN asked' : asked'[n] = q
  BY <1>6, AskHeard DEF PagesInv
<1>8. cs = <<u>> => Outstanding("usage")' # {}
  BY <1>4, <1>7 DEF Outstanding, SamePage
<1>9. cs = <<l>> => Outstanding("list")' # {}
  BY <1>5, <1>7 DEF Outstanding, SamePage
<1>10. PageBusyStill(c)
  BY <1>2, <1>3, <1>8, <1>9 DEF PageBusyStill, HeardBusy
<1>11. BusyMeansUnderWay' /\ (dash'.creating => FormWaits')
  BY <1>7, <1>10, BusyKeep DEF PagesInv
<1> QED
  BY <1>7, <1>11 DEF PagesInv, PagesTypes, DeleteTyped

\* The proxy or the API answers: the page is as it was.
LEMMA PageAnswered ==
    ASSUME PagesInv, NEW c \in DOMAIN asked, NEW ok \in BOOLEAN, NEW rows \in SUBSET DashRows,
           Replies(c, ok, rows), stock' \in [Lists -> [RowIds -> RowStates]], dash' = dash
    PROVE  PagesInv'
<1>1. PICK r : r = [asked[c] EXCEPT !.pc = "answered", !.ok = ok, !.rows = rows]
  OBVIOUS
<1>2. asked[c] \in AskRecs /\ AskOK(asked[c])
  BY DEF PagesInv, PagesTypes
<1>3. /\ r \in AskRecs /\ AskOK(r) /\ r.op = asked[c].op /\ r.visit = asked[c].visit /\ r.id = asked[c].id
      /\ r.pc = "answered"
  BY <1>1, <1>2 DEF AskRecs, AskOK
<1>4. asked' = [asked EXCEPT ![c] = r]
  BY <1>1 DEF Replies
<1>5. /\ asked' \in Seq(AskRecs) /\ DOMAIN asked' = DOMAIN asked /\ Len(asked') = Len(asked)
      /\ \A d \in DOMAIN asked : /\ asked'[d].op = asked[d].op /\ asked'[d].visit = asked[d].visit
                                 /\ asked'[d].id = asked[d].id /\ (d # c => asked'[d].pc = asked[d].pc)
                                 /\ (d = c => asked'[d].pc = r.pc) /\ AskOK(asked'[d])
  BY <1>3, <1>4, AskReplaced DEF PagesInv
<1>6. AskKept(0) /\ (\A op : ~Asked(0, op)) /\ SamePage
  BY <1>3, <1>5 DEF AskKept, Asked, SamePage, PagesInv, PagesTypes
<1>7. PageBusyStill(0)
  BY <1>6 DEF PageBusyStill
<1>8. BusyMeansUnderWay' /\ (dash'.creating => FormWaits')
  BY <1>6, <1>7, BusyKeep DEF PagesInv
<1> QED
  BY <1>5, <1>8 DEF PagesInv, PagesTypes

\* A page that has just been opened loads, and its first call is on its way.
LEMMA FreshFacts ==
    ASSUME NEW k \in PageKinds, NEW n \in Nat
    PROVE  /\ Fresh(k, n) \in Dashes /\ Fresh(k, n).visit = n /\ ~Fresh(k, n).counting /\ ~Fresh(k, n).sizing
           /\ ~Fresh(k, n).creating /\ ~Fresh(k, n).deleting /\ Fresh(k, n).toggling = 0
           /\ (Fresh(k, n).loading <=> k # "generate")
           /\ IF k = "generate" THEN FirstCall(k, n) = <<>>
              ELSE \E r \in AskRecs : /\ AskOK(r) /\ r.op = "list" /\ r.visit = n /\ r.pc = "sent"
                                      /\ FirstCall(k, n) = <<r>>
<1>1. MaxRows \in Nat
  BY DashPagesAssumption
<1>2. PICK f : f = Fresh(k, n)
  OBVIOUS
<1>3. /\ f \in Dashes /\ f.visit = n /\ ~f.counting /\ ~f.sizing
      /\ ~f.creating /\ ~f.deleting /\ f.toggling = 0 /\ (f.loading <=> k # "generate")
  <2>1. (k # "generate") \in BOOLEAN /\ {} \in SUBSET DashRows /\ 0 \in 0 .. MaxRows /\ "none" \in RowStates
    BY <1>1 DEF RowStates
  <2>2. f \in Dashes
    BY <1>2, <2>1 DEF Fresh, Dashes
  <2> QED
    BY <1>2, <2>2 DEF Fresh
<1>4. PICK r : r = Ask("list", k, n, 0, "none", FALSE)
  OBVIOUS
<1>5. r \in AskRecs /\ (k # "generate" => AskOK(r)) /\ r.op = "list" /\ r.visit = n /\ r.pc = "sent"
  BY <1>4 DEF Ask, AskRecs, AskOK, AskOps, RowStates
<1> QED
  BY <1>2, <1>3, <1>4, <1>5 DEF FirstCall

\* A page with nothing busy but its rows, and those under way.
LEMMA FreshPage ==
    ASSUME NEW k \in PageKinds, NEW n \in Nat, dash' = Fresh(k, n), stock' \in [Lists -> [RowIds -> RowStates]],
           asked' \in Seq(AskRecs), Len(asked') <= MaxAsked, \A d \in DOMAIN asked' : AskOK(asked'[d]),
           k # "generate" => \E d \in DOMAIN asked' : asked'[d].op = "list" /\ asked'[d].visit = n /\ asked'[d].pc = "sent"
    PROVE  PagesInv'
<1>1. /\ dash' \in Dashes /\ dash'.visit = n /\ ~dash'.counting /\ ~dash'.sizing
      /\ ~dash'.creating /\ ~dash'.deleting /\ dash'.toggling = 0 /\ (dash'.loading <=> k # "generate")
  BY FreshFacts
<1>2. k # "generate" => Outstanding("list")' # {}
  BY <1>1 DEF Outstanding
<1> QED
  BY <1>1, <1>2 DEF PagesInv, PagesTypes, BusyMeansUnderWay

LEMMA PagesStarts == DashPagesInit => PagesInv
<1> SUFFICES ASSUME DashPagesInit PROVE PagesInv
  OBVIOUS
<1>1. MaxRows \in Nat \ {0, 1} /\ MaxAsked \in Nat \ {0}
  BY DashPagesAssumption
<1>2. PICK k \in PageKinds : dash = Fresh(k, 1) /\ asked = FirstCall(k, 1)
  BY DEF DashPagesInit
<1>3. stock \in [Lists -> [RowIds -> RowStates]]
  BY DEF DashPagesInit, RowStates
<1>4. /\ dash \in Dashes /\ dash.visit = 1 /\ ~dash.counting /\ ~dash.sizing
      /\ ~dash.creating /\ ~dash.deleting /\ dash.toggling = 0 /\ (dash.loading <=> k # "generate")
  BY <1>2, FreshFacts
<1>5. CASE k = "generate"
  <2>1. asked = <<>>
    BY <1>2, <1>5, FreshFacts
  <2> QED
    BY <1>1, <1>3, <1>4, <1>5, <2>1 DEF PagesInv, PagesTypes, BusyMeansUnderWay
<1>6. CASE k # "generate"
  <2>1. PICK r \in AskRecs : AskOK(r) /\ r.op = "list" /\ r.visit = 1 /\ r.pc = "sent" /\ asked = <<r>>
    BY <1>2, <1>6, FreshFacts
  <2>2. asked \in Seq(AskRecs) /\ Len(asked) = 1 /\ DOMAIN asked = {1} /\ asked[1] = r
    BY <2>1
  <2>3. 1 \in Outstanding("list")
    BY <1>4, <2>1, <2>2 DEF Outstanding
  <2> QED
    BY <1>1, <1>3, <1>4, <2>1, <2>2, <2>3 DEF PagesInv, PagesTypes, BusyMeansUnderWay
<1> QED
  BY <1>5, <1>6


LEMMA PageTyped ==
    ASSUME PagesInv
    PROVE  /\ dash \in Dashes /\ MaxRows \in Nat /\ Len(asked) \in Nat
           /\ (dash.deleting => dash.kind # "users" /\ dash.target # 0)
BY DashPagesAssumption DEF PagesInv, PagesTypes

\* What only the page knows: forms, dialogs, the type picked.
LEMMA PageEdits ==
    ASSUME PagesInv, ToggleForm \/ CancelDelete \/ CancelRole \/ PickType
                     \/ \E i \in RowIds : \/ AskDeleteBucket(i) \/ AskDeleteDatabase(i) \/ AskDeleteEndpoint(i)
                                          \/ \E r \in {"tenant", "admin"} : AskRole(i, r)
    PROVE  PagesInv'
<1>1. /\ dash \in Dashes /\ MaxRows \in Nat /\ Len(asked) \in Nat
      /\ (dash.deleting => dash.kind # "users" /\ dash.target # 0)
  BY PageTyped
<1>2. CASE ToggleForm
  <2>1. PICK f : f = IF dash.form = 0 THEN Len(asked) + 1 ELSE 0
    OBVIOUS
  <2>2. PICK b : b = (dash.creating /\ dash.kind # "endpoints")
    OBVIOUS
  <2>3. f \in Nat /\ b \in BOOLEAN
    BY <1>1, <2>1, <2>2
  <2>4. UNCHANGED <<stock, asked>> /\ dash' = [dash EXCEPT !.form = f, !.creating = b]
    BY <1>2, <2>1, <2>2 DEF ToggleForm
  <2>5. dash' \in Dashes /\ SamePage /\ DeleteTyped
    BY <1>1, <2>3, <2>4 DEF Dashes, SamePage, DeleteTyped
  <2>6. NoNewBusy
    BY <1>1, <2>2, <2>4 DEF Dashes, NoNewBusy
  <2> QED
    BY <2>4, <2>5, <2>6, PageOnly
<1>3. CASE CancelDelete
  <2>1. UNCHANGED <<stock, asked>> /\ dash' \in Dashes /\ SamePage /\ DeleteTyped /\ NoNewBusy
    BY <1>1, <1>3 DEF CancelDelete, DialogIdle, Dialog, Dashes, SamePage, DeleteTyped, NoNewBusy
  <2> QED
    BY <2>1, PageOnly
<1>4. CASE CancelRole
  <2>1. UNCHANGED <<stock, asked>> /\ dash' \in Dashes /\ SamePage /\ DeleteTyped /\ NoNewBusy
    BY <1>1, <1>4 DEF CancelRole, Dialog, Dashes, SamePage, DeleteTyped, NoNewBusy
  <2> QED
    BY <2>1, PageOnly
<1>5. CASE PickType
  <2>1. UNCHANGED <<stock, asked>> /\ dash' \in Dashes /\ SamePage /\ DeleteTyped /\ NoNewBusy
    BY <1>1, <1>5 DEF PickType, Dashes, SamePage, DeleteTyped, NoNewBusy
  <2> QED
    BY <2>1, PageOnly
<1>6. ASSUME NEW i \in RowIds, AskDeleteBucket(i) \/ AskDeleteDatabase(i) \/ AskDeleteEndpoint(i)
      PROVE  PagesInv'
  <2>1. UNCHANGED <<stock, asked>> /\ ~Dialog /\ dash' = [dash EXCEPT !.target = i] /\ i \in 0 .. MaxRows
    BY <1>1, <1>6 DEF AskDeleteBucket, AskDeleteDatabase, AskDeleteEndpoint, Targets, Shows, RowIds
  <2>2. dash' \in Dashes /\ SamePage /\ DeleteTyped /\ NoNewBusy
    BY <1>1, <2>1 DEF Dialog, Dashes, SamePage, DeleteTyped, NoNewBusy
  <2> QED
    BY <2>1, <2>2, PageOnly
<1>7. ASSUME NEW i \in RowIds, NEW r \in {"tenant", "admin"}, AskRole(i, r)
      PROVE  PagesInv'
  <2>1. /\ UNCHANGED <<stock, asked>> /\ ~Dialog /\ dash' = [dash EXCEPT !.target = i, !.role = r]
        /\ i \in 0 .. MaxRows /\ r \in RowStates
    <3>1. i \in 0 .. MaxRows /\ r \in RowStates
      BY <1>1, <1>7 DEF RowIds, RowStates
    <3>2. UNCHANGED <<stock, asked>> /\ ~Dialog /\ dash' = [dash EXCEPT !.target = i, !.role = r]
      BY <1>7 DEF AskRole, Shows
    <3> QED
      BY <3>1, <3>2
  <2>2. dash' \in Dashes /\ SamePage /\ DeleteTyped /\ NoNewBusy
    BY <1>1, <2>1 DEF Dialog, Dashes, SamePage, DeleteTyped, NoNewBusy
  <2> QED
    BY <2>1, <2>2, PageOnly
<1> QED
  BY <1>2, <1>3, <1>4, <1>5, <1>6, <1>7

\* A write that the page marks as under way.
LEMMA PageWrites ==
    ASSUME PagesInv, NEW op \in {"create", "delete", "patch"}, NEW id \in Nat, NEW st \in RowStates,
           op \in {"delete", "patch"} => id \in RowIds, Asks(<<Write(op, id, st)>>), stock' = stock,
           dash' \in Dashes, SamePage, DeleteTyped,
           \A r : r.op = op /\ r.id = id => PressBusy(r)
    PROVE  PagesInv'
<1>1. PICK r : r = Write(op, id, st)
  OBVIOUS
<1>2. r \in AskRecs /\ AskOK(r) /\ r.pc = "sent" /\ r.visit = dash.visit /\ r.op = op /\ r.id = id
  BY <1>1, PageTyped, WriteFacts DEF AskOps
<1> QED
  BY <1>1, <1>2, PagePress

LEMMA PageReads ==
    ASSUME PagesInv, NEW op \in {"list", "types"}, op = "list" => dash.kind # "generate", Asks(<<Read(op)>>), stock' = stock,
           dash' \in Dashes, SamePage, DeleteTyped, \A r : r.op = op => PressBusy(r)
    PROVE  PagesInv'
<1>1. PICK r : r = Read(op)
  OBVIOUS
<1>2. r \in AskRecs /\ AskOK(r) /\ r.pc = "sent" /\ r.visit = dash.visit /\ r.op = op
  BY <1>1, PageTyped, ReadFacts
<1> QED
  BY <1>1, <1>2, PagePress

LEMMA PageCreates ==
    ASSUME PagesInv, NEW id \in Nat, dash.kind = "endpoints" => id = dash.form,
           dash' = [dash EXCEPT !.creating = TRUE], Asks(<<Write("create", id, "active")>>), stock' = stock
    PROVE  PagesInv'
<1>1. /\ dash \in Dashes /\ (dash.deleting => dash.kind # "users" /\ dash.target # 0)
  BY PageTyped
<1>2. PICK op : op = "create"
  OBVIOUS
<1>3. PICK st : st = "active"
  OBVIOUS
<1>4. dash' \in Dashes /\ SamePage /\ DeleteTyped
  BY <1>1 DEF Dashes, SamePage, DeleteTyped
<1>5. \A r : r.op = op /\ r.id = id => PressBusy(r)
  BY <1>1, <1>2 DEF PressBusy, Dashes
<1>6. op \in {"create", "delete", "patch"} /\ st \in RowStates /\ op \notin {"delete", "patch"}
  BY <1>2, <1>3 DEF RowStates
<1>7. Asks(<<Write(op, id, st)>>)
  BY <1>2, <1>3
<1> QED
  BY <1>4, <1>5, <1>6, <1>7, PageWrites

LEMMA PagePatches ==
    ASSUME PagesInv, NEW id \in RowIds, NEW st \in RowStates,
           dash' = [dash EXCEPT !.toggling = id], Asks(<<Write("patch", id, st)>>), stock' = stock
    PROVE  PagesInv'
<1>1. /\ dash \in Dashes /\ (dash.deleting => dash.kind # "users" /\ dash.target # 0) /\ MaxRows \in Nat
  BY PageTyped
<1>2. PICK op : op = "patch"
  OBVIOUS
<1>3. id \in Nat /\ id \in 0 .. MaxRows
  BY <1>1 DEF RowIds
<1>4. dash' \in Dashes /\ SamePage /\ DeleteTyped
  BY <1>1, <1>3 DEF Dashes, SamePage, DeleteTyped
<1>5. \A r : r.op = op /\ r.id = id => PressBusy(r)
  BY <1>1, <1>2 DEF PressBusy, Dashes
<1>6. op \in {"create", "delete", "patch"} /\ Asks(<<Write(op, id, st)>>)
  BY <1>2
<1> QED
  BY <1>3, <1>4, <1>5, <1>6, PageWrites

\* The page calls the API.
LEMMA PageCalls ==
    ASSUME PagesInv, \/ SubmitBucket \/ SubmitDatabase \/ SubmitEndpoint \/ ConfirmDelete \/ RefreshUsers
                     \/ ConfirmRole \/ HandleLaunch \/ HandleGenerate
                     \/ \E i \in RowIds : AskDeleteUser(i) \/ PickImage(i)
                     \/ \E row \in dash.list : HandleToggle(row)
    PROVE  PagesInv'
<1>1. /\ dash \in Dashes /\ MaxRows \in Nat /\ (dash.deleting => dash.kind # "users" /\ dash.target # 0)
  BY PageTyped
<1>2. PICK none : none = "none"
  OBVIOUS
<1>3. none \in RowStates
  BY <1>2 DEF RowStates
<1>4. CASE SubmitBucket \/ SubmitDatabase \/ SubmitEndpoint
  <2>1. dash.form \in Nat
    BY <1>1 DEF Dashes
  <2>2. /\ dash' = [dash EXCEPT !.creating = TRUE] /\ Asks(<<Write("create", dash.form, "active")>>)
        /\ stock' = stock
    BY <1>4 DEF SubmitBucket, SubmitDatabase, SubmitEndpoint, Submits
  <2>3. PICK f : f = dash.form
    OBVIOUS
  <2> QED
    BY <2>1, <2>2, <2>3, PageCreates
<1>5. CASE HandleLaunch \/ HandleGenerate
  <2>1. /\ dash' = [dash EXCEPT !.creating = TRUE] /\ Asks(<<Write("create", 0, "active")>>)
        /\ stock' = stock /\ dash.kind # "endpoints"
    BY <1>5 DEF HandleLaunch, HandleGenerate
  <2>2. PICK f : f = 0
    OBVIOUS
  <2>3. f \in Nat /\ Asks(<<Write("create", f, "active")>>)
    BY <2>1, <2>2
  <2> QED
    BY <2>1, <2>3, PageCreates
<1>6. CASE ConfirmDelete
  <2>1. PICK id : id = dash.target
    OBVIOUS
  <2>2. PICK op : op = "delete"
    OBVIOUS
  <2>3. /\ Asks(<<Write(op, id, none)>>) /\ stock' = stock /\ dash' = [dash EXCEPT !.deleting = TRUE]
        /\ dash.kind # "users" /\ id # 0
    BY <1>2, <1>6, <2>1, <2>2 DEF ConfirmDelete, DialogIdle, Dialog
  <2>4. id \in Nat /\ id \in RowIds /\ op \in {"create", "delete", "patch"}
    BY <1>1, <2>1, <2>2, <2>3 DEF Dashes, RowIds
  <2>5. dash' \in Dashes /\ SamePage /\ DeleteTyped
    BY <1>1, <2>1, <2>3 DEF Dashes, SamePage, DeleteTyped
  <2>6. \A r : r.op = op /\ r.id = id => PressBusy(r)
    BY <1>1, <2>1, <2>2, <2>3 DEF PressBusy, Dashes
  <2> QED
    BY <1>3, <2>3, <2>4, <2>5, <2>6, PageWrites
<1>7. CASE RefreshUsers
  <2>1. PICK op : op = "list"
    OBVIOUS
  <2>2. Asks(<<Read(op)>>) /\ stock' = stock /\ dash' = [dash EXCEPT !.loading = TRUE, !.failed = FALSE]
    BY <1>7, <2>1 DEF RefreshUsers
  <2>3. dash' \in Dashes /\ SamePage /\ DeleteTyped
    BY <1>1, <2>2 DEF Dashes, SamePage, DeleteTyped
  <2>4. \A r : r.op = op => PressBusy(r)
    BY <1>1, <2>1, <2>2 DEF PressBusy, Dashes
  <2>5. op \in {"list", "types"} /\ dash.kind # "generate"
    BY <1>7, <2>1 DEF RefreshUsers, Shows
  <2> QED
    BY <2>2, <2>3, <2>4, <2>5, PageReads
<1>8. CASE ConfirmRole
  <2>1. PICK id : id = dash.target
    OBVIOUS
  <2>2. PICK st : st = dash.role
    OBVIOUS
  <2>3. id \in RowIds /\ st \in RowStates
    BY <1>1, <1>8, <2>1, <2>2 DEF ConfirmRole, Dialog, Dashes, RowIds
  <2>4. dash' = [dash EXCEPT !.toggling = id] /\ Asks(<<Write("patch", id, st)>>) /\ stock' = stock
    BY <1>8, <2>1, <2>2 DEF ConfirmRole
  <2> QED
    BY <2>3, <2>4, PagePatches
<1>9. ASSUME NEW i \in RowIds, AskDeleteUser(i) PROVE PagesInv'
  <2>1. PICK op : op = "delete"
    OBVIOUS
  <2>2. Asks(<<Write(op, i, none)>>) /\ stock' = stock /\ dash' = dash
    BY <1>2, <1>9, <2>1 DEF AskDeleteUser
  <2>3. i \in Nat /\ op \in {"create", "delete", "patch"}
    BY <1>1, <2>1 DEF RowIds
  <2>4. dash' \in Dashes /\ SamePage /\ DeleteTyped
    BY <1>1, <2>2 DEF SamePage, DeleteTyped
  <2>5. \A r : r.op = op /\ r.id = i => PressBusy(r)
    BY <2>2 DEF PressBusy
  <2> QED
    BY <1>3, <2>2, <2>3, <2>4, <2>5, PageWrites
<1>10. ASSUME NEW i \in RowIds, PickImage(i) PROVE PagesInv'
  <2>1. /\ dash' = [dash EXCEPT !.image = i, !.size = FALSE, !.sizing = @ \/ i # dash.image] /\ stock' = stock
        /\ IF i # dash.image THEN Asks(<<Read("types")>>) ELSE asked' = asked
    BY <1>10 DEF PickImage
  <2>2. i \in 0 .. MaxRows /\ (i # dash.image) \in BOOLEAN
    BY <1>1 DEF RowIds
  <2>3. dash' \in Dashes /\ SamePage /\ DeleteTyped
    BY <1>1, <2>1, <2>2 DEF Dashes, SamePage, DeleteTyped
  <2>4. CASE i = dash.image
    <3>1. NoNewBusy
      BY <1>1, <2>1, <2>4 DEF NoNewBusy, Dashes
    <3> QED
      BY <2>1, <2>3, <2>4, <3>1, PageOnly
  <2>5. CASE i # dash.image
    <3>1. PICK op : op = "types"
      OBVIOUS
    <3>2. \A r : r.op = op => PressBusy(r)
      BY <1>1, <2>1, <3>1 DEF PressBusy, Dashes
    <3>3. op \in {"list", "types"} /\ op # "list" /\ Asks(<<Read(op)>>)
      BY <2>1, <2>5, <3>1
    <3> QED
      BY <2>1, <2>3, <3>2, <3>3, PageReads
  <2> QED
    BY <2>4, <2>5
<1>11. ASSUME NEW row \in dash.list, HandleToggle(row) PROVE PagesInv'
  <2>1. PICK id : id = row.id
    OBVIOUS
  <2>2. PICK st : st = IF row.st = "active" THEN "paused" ELSE "active"
    OBVIOUS
  <2>3. id \in RowIds /\ st \in RowStates
    BY <1>1, <2>1, <2>2 DEF Dashes, DashRows, RowStates
  <2>4. dash' = [dash EXCEPT !.toggling = id] /\ Asks(<<Write("patch", id, st)>>) /\ stock' = stock
    BY <1>11, <2>1, <2>2 DEF HandleToggle
  <2> QED
    BY <2>3, <2>4, PagePatches
<1> QED
  BY <1>4, <1>5, <1>6, <1>7, <1>8, <1>9, <1>10, <1>11


\* The proxy and the API answer.
LEMMA PageApi ==
    ASSUME PagesInv, NEW c, Refused(c) \/ ListRows(c) \/ ReadTypes(c) \/ WriteRow(c)
                            \/ \E i \in RowIds : CreateRow(c, i)
    PROVE  PagesInv'
<1>1. stock \in [Lists -> [RowIds -> RowStates]] /\ asked \in Seq(AskRecs) /\ MaxRows \in Nat \ {0, 1}
  BY DashPagesAssumption DEF PagesInv, PagesTypes
<1>2. c \in DOMAIN asked => asked[c] \in AskRecs /\ AskOK(asked[c])
  BY DEF PagesInv, PagesTypes
<1>3. PICK none \in SUBSET DashRows : none = {}
  BY {} \in SUBSET DashRows
<1>4. CASE Refused(c) \/ ReadTypes(c)
  <2>1. PICK ok \in BOOLEAN : Replies(c, ok, none)
    BY <1>3, <1>4 DEF Refused, ReadTypes
  <2>2. c \in DOMAIN asked /\ UNCHANGED <<stock, dash>>
    BY <1>4 DEF Refused, ReadTypes, Sent
  <2> QED
    BY <1>1, <1>3, <2>1, <2>2, PageAnswered
<1>5. CASE ListRows(c)
  <2>1. c \in DOMAIN asked /\ UNCHANGED <<stock, dash>> /\ asked[c].op = "list"
    BY <1>5 DEF ListRows, Sent
  <2>2. PICK k : k = asked[c].kind
    OBVIOUS
  <2>3. PICK rows : rows = IF k = "launch" THEN {[id |-> 1, st |-> "active"], [id |-> 2, st |-> "active"]}
                          ELSE {Row(k, i) : i \in {x \in RowIds : stock[k][x] # "none"}}
    OBVIOUS
  <2>4. PICK ok : ok = TRUE
    OBVIOUS
  <2>5. Replies(c, ok, rows) /\ ok \in BOOLEAN
    BY <1>5, <2>2, <2>3, <2>4 DEF ListRows
  <2>6. rows \in SUBSET DashRows
    <3>1. CASE k = "launch"
      BY <1>1, <2>3, <3>1 DEF DashRows, RowIds, RowStates
    <3>2. CASE k \in Lists
      <4>1. \A x \in RowIds : Row(k, x) \in DashRows
        BY <1>1, <3>2 DEF Row, DashRows
      <4>2. rows = {Row(k, i) : i \in {x \in RowIds : stock[k][x] # "none"}}
        BY <2>3, <3>2 DEF Lists, Tabs
      <4> QED
        BY <4>1, <4>2
    <3>3. k # "generate" /\ k \in PageKinds
      BY <1>2, <2>1, <2>2 DEF AskOK, AskRecs
    <3> QED
      BY <3>1, <3>2, <3>3 DEF PageKinds
  <2> QED
    BY <1>1, <2>1, <2>5, <2>6, PageAnswered
<1>6. CASE WriteRow(c)
  <2>1. c \in DOMAIN asked /\ asked[c].op \in {"delete", "patch"} /\ asked[c].csrf /\ dash' = dash
    BY <1>6 DEF WriteRow, Reaches, Sent
  <2>2. PICK k : k = asked[c].kind
    OBVIOUS
  <2>3. PICK i : i = asked[c].id
    OBVIOUS
  <2>4. PICK st : st = asked[c].st
    OBVIOUS
  <2>5. k \in Lists /\ i \in RowIds /\ st \in RowStates
    BY <1>2, <2>1, <2>2, <2>3, <2>4 DEF AskOK, AskRecs
  <2>6. PICK rows : rows = {[id |-> i, st |-> st]}
    OBVIOUS
  <2>7. PICK ok \in BOOLEAN : Replies(c, ok, rows)
    BY <1>6, <2>3, <2>4, <2>6 DEF WriteRow
  <2>8. stock' = [stock EXCEPT ![k][i] = st]
    BY <1>6, <2>2, <2>3, <2>4 DEF WriteRow
  <2>9. stock' \in [Lists -> [RowIds -> RowStates]]
    BY <1>1, <2>5, <2>8
  <2>10. rows \in SUBSET DashRows
    BY <2>5, <2>6 DEF DashRows
  <2> QED
    BY <2>1, <2>7, <2>9, <2>10, PageAnswered
<1>7. ASSUME NEW i \in RowIds, CreateRow(c, i) PROVE PagesInv'
  <2>1. c \in DOMAIN asked /\ asked[c].csrf /\ dash' = dash
    BY <1>7 DEF CreateRow, Reaches, Sent
  <2>2. PICK k : k = asked[c].kind
    OBVIOUS
  <2>3. PICK st : st = "active"
    OBVIOUS
  <2>4. k \in PageKinds /\ st \in RowStates
    BY <1>2, <2>1, <2>2, <2>3 DEF AskRecs, RowStates
  <2>5. PICK rows : rows = {[id |-> i, st |-> st]}
    OBVIOUS
  <2>6. PICK ok \in BOOLEAN : Replies(c, ok, rows)
    BY <1>7, <2>3, <2>5 DEF CreateRow
  <2>7. stock' = [stock EXCEPT ![k][i] = st]
    BY <1>7, <2>2, <2>3 DEF CreateRow
  <2>8. k \in Lists
    BY <1>2, <2>1, <2>2 DEF AskOK
  <2>9. stock' \in [Lists -> [RowIds -> RowStates]]
    BY <1>1, <2>4, <2>7, <2>8
  <2>10. rows \in SUBSET DashRows
    BY <2>4, <2>5 DEF DashRows
  <2> QED
    BY <2>1, <2>6, <2>9, <2>10, PageAnswered
<1> QED
  BY <1>4, <1>5, <1>6, <1>7

LEMMA PageVisits ==
    ASSUME PagesInv, NEW k \in PageKinds, Visit(k)
    PROVE  PagesInv'
<1>1. dash.visit \in Nat /\ asked \in Seq(AskRecs) /\ Len(asked) <= MaxAsked /\ stock \in [Lists -> [RowIds -> RowStates]]
  BY DEF PagesInv, PagesTypes, Dashes
<1>2. PICK n : n = dash.visit + 1
  OBVIOUS
<1>3. PICK cs : cs = FirstCall(k, n)
  OBVIOUS
<1>4. n \in Nat /\ dash' = Fresh(k, n) /\ Asks(cs) /\ stock' = stock
  BY <1>1, <1>2, <1>3 DEF Visit
<1>5. CASE k = "generate"
  <2>1. cs = <<>>
    BY <1>3, <1>4, <1>5, FreshFacts
  <2>2. asked' = asked
    BY <1>1, <1>4, <2>1 DEF Asks
  <2> QED
    BY <1>1, <1>4, <1>5, <2>2, FreshPage DEF PagesInv, PagesTypes, AskOK
<1>6. CASE k # "generate"
  <2>1. PICK r \in AskRecs : AskOK(r) /\ r.op = "list" /\ r.visit = n /\ r.pc = "sent" /\ cs = <<r>>
    BY <1>3, <1>4, <1>6, FreshFacts
  <2>2. /\ asked' \in Seq(AskRecs) /\ Len(asked') <= MaxAsked
        /\ \E d \in DOMAIN asked' : asked'[d] = r
        /\ \A d \in DOMAIN asked' : AskOK(asked'[d])
    BY <1>4, <2>1, AskedOne DEF PagesInv
  <2> QED
    BY <1>1, <1>4, <2>1, <2>2, FreshPage
<1> QED
  BY <1>5, <1>6


\* The answer of a call that was heard.
LEMMA HeardCall ==
    ASSUME PagesInv, NEW c, NEW op, NEW ks, Hears(c, op, ks)
    PROVE  /\ c \in DOMAIN asked /\ asked[c].op = op /\ dash.kind \in ks
           /\ asked[c].ok \in BOOLEAN /\ asked[c].rows \subseteq DashRows /\ asked[c].id \in Nat
           /\ Asked(c, op)
<1>1. c \in DOMAIN asked /\ asked[c].op = op /\ dash.kind \in ks
  BY DEF Hears
<1>2. asked[c] \in AskRecs
  BY <1>1 DEF PagesInv, PagesTypes
<1> QED
  BY <1>1, <1>2 DEF AskRecs, Asked

\* What an answer does to the rows of a page, but for the flags it resets;
\* their usage is read again whenever there are endpoints to show.
RowsOnly(d, cs) ==
    /\ d.kind = dash.kind /\ d.visit = dash.visit /\ d.loading = dash.loading /\ d.sizing = dash.sizing
    /\ d.form = dash.form /\ d.creating = dash.creating /\ d.target = dash.target
    /\ d.deleting = dash.deleting /\ d.toggling = dash.toggling
    /\ d.counting => dash.counting \/ cs = <<Read("usage")>>

LEMMA RowsHeard ==
    ASSUME PagesInv, NEW ok \in BOOLEAN, NEW list \in SUBSET DashRows, NEW read, list # {} => read # {},
           NEW d, d = IF ok THEN Listed(dash, list) ELSE dash,
           NEW cs, cs = IF ok THEN Recount(read) ELSE <<>>
    PROVE  d \in Dashes /\ (cs = <<>> \/ cs = <<Read("usage")>>) /\ RowsOnly(d, cs)
<1>1. dash \in Dashes
  BY PageTyped
<1>2. CASE ~ok
  BY <1>1, <1>2 DEF RowsOnly
<1>3. CASE ok
  <2>1. PICK b : b = (dash.counting \/ Recount(list) # <<>>)
    OBVIOUS
  <2>2. b \in BOOLEAN /\ d = [dash EXCEPT !.list = list, !.counting = b]
    BY <1>3, <2>1 DEF Listed
  <2>3. d \in Dashes
    BY <1>1, <2>2 DEF Dashes
  <2>4. cs = <<>> \/ cs = <<Read("usage")>>
    BY <1>3 DEF Recount
  <2>5. Recount(list) # <<>> => cs = <<Read("usage")>>
    BY <1>3 DEF Recount
  <2>6. RowsOnly(d, cs)
    BY <1>1, <2>1, <2>2, <2>5 DEF RowsOnly, Dashes
  <2> QED
    BY <2>3, <2>4, <2>6
<1> QED
  BY <1>2, <1>3

LEMMA HearsList == ASSUME PagesInv, NEW c, HearList(c) PROVE PagesInv'
<1>1. PICK op : op = "list"
  OBVIOUS
<1>2. Hears(c, op, Lists \cup {"launch"})
  BY <1>1 DEF HearList
<1>3. c \in DOMAIN asked /\ asked[c].ok \in BOOLEAN /\ asked[c].rows \subseteq DashRows /\ Asked(c, "list")
  BY <1>1, <1>2, HeardCall
<1>4. dash \in Dashes /\ (dash.deleting => dash.kind # "users" /\ dash.target # 0)
  BY PageTyped
<1>5. PICK rows : rows = IF asked[c].ok THEN asked[c].rows ELSE dash.list
  OBVIOUS
<1>6. PICK cs : cs = IF asked[c].ok THEN Recount(rows) ELSE <<>>
  OBVIOUS
<1>7. PICK d : d = IF asked[c].ok THEN Listed(dash, rows) ELSE dash
  OBVIOUS
<1>8. PICK f : f = (dash.kind = "users" /\ ~asked[c].ok)
  OBVIOUS
<1>9. Done(c, cs) /\ dash' = [d EXCEPT !.loading = FALSE, !.failed = f] /\ f \in BOOLEAN
  BY <1>5, <1>6, <1>7, <1>8 DEF HearList
<1>10. rows \in SUBSET DashRows
  BY <1>3, <1>4, <1>5 DEF Dashes
<1>11. d \in Dashes /\ (cs = <<>> \/ cs = <<Read("usage")>>) /\ RowsOnly(d, cs)
  BY <1>3, <1>6, <1>7, <1>10, RowsHeard
<1>12. dash' \in Dashes /\ SamePage /\ DeleteTyped
  BY <1>4, <1>9, <1>11 DEF Dashes, SamePage, DeleteTyped, RowsOnly
<1>13. HeardBusy(c, cs)
  BY <1>1, <1>3, <1>4, <1>9, <1>11 DEF Dashes, HeardBusy, RowsOnly, Asked
<1> QED
  BY <1>3, <1>9, <1>11, <1>12, <1>13, PageHears

LEMMA HearsCreated == ASSUME PagesInv, NEW c, HearCreated(c) PROVE PagesInv'
<1>1. PICK op : op = "create"
  OBVIOUS
<1>2. Hears(c, op, Tabs \cup {"endpoints"})
  BY <1>1 DEF HearCreated
<1>3. c \in DOMAIN asked /\ asked[c].ok \in BOOLEAN /\ asked[c].rows \subseteq DashRows /\ Asked(c, "create")
  BY <1>1, <1>2, HeardCall
<1>4. dash \in Dashes /\ (dash.deleting => dash.kind # "users" /\ dash.target # 0)
  BY PageTyped
<1>5. PICK rows : rows = dash.list \cup asked[c].rows
  OBVIOUS
<1>6. PICK cs : cs = IF asked[c].ok THEN Recount(rows) ELSE <<>>
  OBVIOUS
<1>7. PICK d : d = IF asked[c].ok THEN Listed(dash, rows) ELSE dash
  OBVIOUS
<1>8. PICK b : b = (dash.creating /\ ~asked[c].ok /\ dash.kind = "endpoints" /\ asked[c].id # dash.form)
  OBVIOUS
<1>9. rows \in SUBSET DashRows
  BY <1>3, <1>4, <1>5 DEF Dashes
<1>10. d \in Dashes /\ (cs = <<>> \/ cs = <<Read("usage")>>) /\ RowsOnly(d, cs)
  BY <1>3, <1>6, <1>7, <1>9, RowsHeard
<1>11. Done(c, cs) /\ b \in BOOLEAN
  BY <1>5, <1>6, <1>8 DEF HearCreated
<1>12. CASE asked[c].ok
  <2>1. d = Listed(dash, rows) /\ ~b
    BY <1>7, <1>8, <1>12
  <2>2. PICK e : e = [d EXCEPT !.form = 0]
    OBVIOUS
  <2>3. e.creating = dash.creating /\ e.kind = dash.kind
    BY <1>4, <1>10, <2>2 DEF Dashes, RowsOnly
  <2>4. dash' = [e EXCEPT !.creating = FALSE]
    BY <1>5, <1>12, <2>1, <2>2 DEF HearCreated
  <2>5. dash' \in Dashes /\ SamePage /\ DeleteTyped
    BY <1>4, <1>10, <2>2, <2>4 DEF Dashes, SamePage, DeleteTyped, RowsOnly
  <2>6. HeardBusy(c, cs)
    BY <1>3, <1>4, <1>10, <2>2, <2>4 DEF Dashes, HeardBusy, RowsOnly, Asked
  <2> QED
    BY <1>3, <1>10, <1>11, <2>5, <2>6, PageHears
<1>13. CASE ~asked[c].ok
  <2>1. d = dash /\ dash' = [dash EXCEPT !.creating = b]
    BY <1>7, <1>8, <1>13 DEF HearCreated
  <2>2. dash' \in Dashes /\ SamePage /\ DeleteTyped
    BY <1>4, <1>11, <2>1 DEF Dashes, SamePage, DeleteTyped
  <2>3. HeardBusy(c, cs)
    BY <1>3, <1>4, <1>8, <2>1 DEF Dashes, HeardBusy, Asked
  <2> QED
    BY <1>3, <1>10, <1>11, <2>2, <2>3, PageHears
<1> QED
  BY <1>3, <1>12, <1>13

LEMMA HearsDeleted == ASSUME PagesInv, NEW c, HearDeleted(c) PROVE PagesInv'
<1>1. PICK op : op = "delete"
  OBVIOUS
<1>2. Hears(c, op, Tabs \cup {"endpoints"})
  BY <1>1 DEF HearDeleted
<1>3. c \in DOMAIN asked /\ asked[c].ok \in BOOLEAN /\ Asked(c, "delete")
  BY <1>1, <1>2, HeardCall
<1>4. dash \in Dashes /\ (dash.deleting => dash.kind # "users" /\ dash.target # 0)
  BY PageTyped
<1>5. PICK rows : rows = {row \in dash.list : row.id # asked[c].id}
  OBVIOUS
<1>6. PICK cs : cs = IF asked[c].ok THEN Recount(rows) ELSE <<>>
  OBVIOUS
<1>7. PICK d : d = IF asked[c].ok THEN Listed(dash, rows) ELSE dash
  OBVIOUS
<1>8. rows \in SUBSET DashRows
  BY <1>4, <1>5 DEF Dashes
<1>9. d \in Dashes /\ (cs = <<>> \/ cs = <<Read("usage")>>) /\ RowsOnly(d, cs)
  BY <1>3, <1>6, <1>7, <1>8, RowsHeard
<1>10. Done(c, cs)
  BY <1>5, <1>6 DEF HearDeleted
<1>11. dash' = [(IF asked[c].ok THEN [d EXCEPT !.target = 0] ELSE d) EXCEPT !.deleting = FALSE]
  BY <1>5, <1>7 DEF HearDeleted
<1>12. MaxRows \in Nat
  BY PageTyped
<1>13. dash' \in Dashes /\ SamePage /\ DeleteTyped
  <2>2. PICK e : e = IF asked[c].ok THEN [d EXCEPT !.target = 0] ELSE d
    OBVIOUS
  <2>3. 0 \in 0 .. MaxRows
    BY <1>12
  <2>4. e \in Dashes /\ e.kind = dash.kind /\ e.visit = dash.visit
    BY <1>3, <1>4, <1>9, <2>2, <2>3 DEF Dashes, RowsOnly
  <2> QED
    BY <1>11, <2>2, <2>4 DEF Dashes, SamePage, DeleteTyped
<1>14. HeardBusy(c, cs)
  BY <1>3, <1>4, <1>9, <1>11 DEF Dashes, HeardBusy, RowsOnly, Asked
<1> QED
  BY <1>3, <1>9, <1>10, <1>13, <1>14, PageHears

LEMMA PatchedFacts ==
    ASSUME PagesInv, NEW c \in DOMAIN asked
    PROVE  Patched(c) \in SUBSET DashRows /\ (Patched(c) # {} => dash.list # {})
<1>1. asked[c] \in AskRecs /\ dash \in Dashes
  BY DEF PagesInv, PagesTypes
<1>2. asked[c].rows \subseteq DashRows /\ dash.list \subseteq DashRows
  BY <1>1 DEF AskRecs, Dashes
<1> QED
  BY <1>2 DEF Patched

LEMMA HearsToggled == ASSUME PagesInv, NEW c, HearToggled(c) PROVE PagesInv'
<1>1. PICK op : op = "patch"
  OBVIOUS
<1>2. Hears(c, op, {"endpoints"})
  BY <1>1 DEF HearToggled
<1>3. c \in DOMAIN asked /\ asked[c].ok \in BOOLEAN /\ Asked(c, "patch")
  BY <1>1, <1>2, HeardCall
<1>4. dash \in Dashes /\ (dash.deleting => dash.kind # "users" /\ dash.target # 0) /\ MaxRows \in Nat
  BY PageTyped
<1>5. PICK rows : rows = Patched(c)
  OBVIOUS
<1>6. PICK read : read = dash.list
  OBVIOUS
<1>7. PICK cs : cs = IF asked[c].ok THEN Recount(read) ELSE <<>>
  OBVIOUS
<1>8. PICK d : d = IF asked[c].ok THEN Listed(dash, rows) ELSE dash
  OBVIOUS
<1>9. rows \in SUBSET DashRows /\ (rows # {} => read # {})
  BY <1>3, <1>5, <1>6, PatchedFacts
<1>10. d \in Dashes /\ (cs = <<>> \/ cs = <<Read("usage")>>) /\ RowsOnly(d, cs)
  BY <1>3, <1>7, <1>8, <1>9, RowsHeard
<1>11. Done(c, cs) /\ dash' = [d EXCEPT !.toggling = 0]
  BY <1>5, <1>6, <1>7, <1>8 DEF HearToggled
<1>12. dash' \in Dashes /\ SamePage /\ DeleteTyped
  BY <1>4, <1>10, <1>11 DEF Dashes, SamePage, DeleteTyped, RowsOnly
<1>13. HeardBusy(c, cs)
  BY <1>3, <1>4, <1>10, <1>11 DEF Dashes, HeardBusy, RowsOnly, Asked
<1> QED
  BY <1>3, <1>10, <1>11, <1>12, <1>13, PageHears

LEMMA HearsRole == ASSUME PagesInv, NEW c, HearRole(c) PROVE PagesInv'
<1>1. PICK op : op = "patch"
  OBVIOUS
<1>2. Hears(c, op, {"users"})
  BY <1>1 DEF HearRole
<1>3. c \in DOMAIN asked /\ asked[c].ok \in BOOLEAN /\ Asked(c, "patch") /\ dash.kind = "users"
  BY <1>1, <1>2, HeardCall
<1>4. dash \in Dashes /\ (dash.deleting => dash.kind # "users" /\ dash.target # 0) /\ MaxRows \in Nat
  BY PageTyped
<1>5. PICK rows : rows = IF asked[c].ok THEN Patched(c) ELSE dash.list
  OBVIOUS
<1>6. rows \in SUBSET DashRows
  BY <1>3, <1>4, <1>5, PatchedFacts DEF Dashes
<1>7. PICK cs : cs = <<>>
  OBVIOUS
<1>8. Done(c, cs) /\ dash' = [dash EXCEPT !.list = rows, !.toggling = 0, !.target = 0]
  BY <1>5, <1>7 DEF HearRole
<1>9. dash' \in Dashes /\ SamePage /\ DeleteTyped
  <2>1. 0 \in 0 .. MaxRows
    BY <1>4
  <2>2. dash' \in Dashes
    BY <1>4, <1>6, <1>8, <2>1 DEF Dashes
  <2> QED
    BY <1>3, <1>4, <1>8, <2>2 DEF Dashes, SamePage, DeleteTyped
<1>10. HeardBusy(c, cs)
  BY <1>3, <1>4, <1>8 DEF Dashes, HeardBusy, Asked
<1> QED
  BY <1>3, <1>7, <1>8, <1>9, <1>10, PageHears

LEMMA HearsUserDeleted == ASSUME PagesInv, NEW c, HearUserDeleted(c) PROVE PagesInv'
<1>1. PICK op : op = "delete"
  OBVIOUS
<1>2. Hears(c, op, {"users"})
  BY <1>1 DEF HearUserDeleted
<1>3. c \in DOMAIN asked /\ asked[c].ok \in BOOLEAN /\ Asked(c, "delete") /\ dash.kind = "users"
  BY <1>1, <1>2, HeardCall
<1>4. dash \in Dashes /\ (dash.deleting => dash.kind # "users" /\ dash.target # 0)
  BY PageTyped
<1>5. PICK cs : cs = IF asked[c].ok THEN <<Read("list")>> ELSE <<>>
  OBVIOUS
<1>6. PICK b : b = (dash.loading \/ asked[c].ok)
  OBVIOUS
<1>7. PICK f : f = (dash.failed /\ ~asked[c].ok)
  OBVIOUS
<1>8. Done(c, cs) /\ dash' = [dash EXCEPT !.loading = b, !.failed = f] /\ b \in BOOLEAN /\ f \in BOOLEAN
  BY <1>5, <1>6, <1>7 DEF HearUserDeleted
<1>9. dash' \in Dashes /\ SamePage /\ DeleteTyped
  BY <1>4, <1>8 DEF Dashes, SamePage, DeleteTyped
<1>10. HeardBusy(c, cs)
  BY <1>3, <1>4, <1>5, <1>6, <1>8 DEF Dashes, HeardBusy, Asked
<1> QED
  BY <1>3, <1>5, <1>8, <1>9, <1>10, PageHears

LEMMA HearsReads == ASSUME PagesInv, NEW c, HearUsage(c) \/ HearTypes(c) \/ HearRefusal(c) PROVE PagesInv'
<1>1. PICK usage, types, create : usage = "usage" /\ types = "types" /\ create = "create"
  OBVIOUS
<1>2. PICK cs : cs = <<>>
  OBVIOUS
<1>3. dash \in Dashes /\ (dash.deleting => dash.kind # "users" /\ dash.target # 0)
  BY PageTyped
<1>4. CASE HearUsage(c)
  <2>1. Hears(c, usage, {"endpoints"}) /\ Done(c, cs) /\ dash' = [dash EXCEPT !.counting = FALSE]
    BY <1>1, <1>2, <1>4 DEF HearUsage
  <2>2. c \in DOMAIN asked /\ Asked(c, "usage")
    BY <1>1, <2>1, HeardCall
  <2>3. dash' \in Dashes /\ SamePage /\ DeleteTyped
    BY <1>3, <2>1 DEF Dashes, SamePage, DeleteTyped
  <2>4. HeardBusy(c, cs)
    BY <1>3, <2>1, <2>2 DEF Dashes, HeardBusy, Asked
  <2> QED
    BY <1>2, <2>1, <2>2, <2>3, <2>4, PageHears
<1>5. CASE HearTypes(c)
  <2>1. PICK b : b = (dash.sized \/ asked[c].ok)
    OBVIOUS
  <2>2. /\ Hears(c, types, {"launch"}) /\ Done(c, cs) /\ b \in BOOLEAN
        /\ dash' = [dash EXCEPT !.sized = b, !.sizing = FALSE]
    BY <1>1, <1>2, <1>5, <2>1 DEF HearTypes
  <2>3. c \in DOMAIN asked /\ Asked(c, "types")
    BY <1>1, <2>2, HeardCall
  <2>4. dash' \in Dashes /\ SamePage /\ DeleteTyped
    BY <1>3, <2>2 DEF Dashes, SamePage, DeleteTyped
  <2>5. HeardBusy(c, cs)
    BY <1>3, <2>2, <2>3 DEF Dashes, HeardBusy, Asked
  <2> QED
    BY <1>2, <2>2, <2>3, <2>4, <2>5, PageHears
<1>6. CASE HearRefusal(c)
  <2>1. Hears(c, create, {"launch", "generate"}) /\ Done(c, cs) /\ dash' = [dash EXCEPT !.creating = FALSE]
    BY <1>1, <1>2, <1>6 DEF HearRefusal
  <2>2. c \in DOMAIN asked /\ Asked(c, "create")
    BY <1>1, <2>1, HeardCall
  <2>3. dash' \in Dashes /\ SamePage /\ DeleteTyped
    BY <1>3, <2>1 DEF Dashes, SamePage, DeleteTyped
  <2>4. HeardBusy(c, cs)
    BY <1>3, <2>1, <2>2 DEF Dashes, HeardBusy, Asked
  <2> QED
    BY <1>2, <2>1, <2>2, <2>3, <2>4, PageHears
<1> QED
  BY <1>4, <1>5, <1>6

LEMMA PagesKeeps == PagesInv /\ DashPagesNext => PagesInv'
BY PageVisits, PageEdits, PageCalls, PageApi, HearsList, HearsCreated, HearsDeleted, HearsToggled, HearsRole,
   HearsUserDeleted, HearsReads DEF DashPagesNext

LEMMA PagesStands == PagesInv /\ UNCHANGED dashVars => PagesInv'
BY DEF PagesInv, PagesTypes, BusyMeansUnderWay, FormWaits, Outstanding, dashVars, AskOK

LEMMA PagesImplies == PagesInv => DashPagesTypeOK /\ BusyMeansUnderWay
BY DEF PagesInv, PagesTypes, DashPagesTypeOK, Dashes, DashRows

-----------------------------------------------------------------------------
(* The configuration page: a call that something on the page waits for     *)
(* ends the wait, or makes the call that does.                             *)

EnvMap   == [EnvKeys -> EnvText]
EnvOps   == {"app", "env", "hosts", "deploy", "set", "unset", "addHost"}
EnvParts == {"none", "edit", "add", "remove", "bulk", "addHost"}
EnvRecs  == [op : EnvOps, vars : EnvMap, part : EnvParts, id : Nat, pc : {"sent", "answered", "heard"},
             ok : {"no", "yes", "lost"}, got : EnvMap]
Configs  == [tab : {"variables", "settings", "domains"}, app : BOOLEAN, loadingApp : BOOLEAN, vars : EnvMap,
             loadingEnv : BOOLEAN, addingHost : BOOLEAN, tabs : Nat]
Editors  == [id : Nat, edit : EnvKeys \cup {"none"}, text : EnvText, confirm : EnvKeys \cup {"none"},
             adding : BOOLEAN, addBusy : BOOLEAN, bulk : BOOLEAN, bulkText : EnvMap, bulkBusy : BOOLEAN]

EnvTypes == configMap \in EnvMap /\ config \in Configs /\ editor \in Editors /\ envCalls \in Seq(EnvRecs)
EnvInv   == EnvTypes /\ SavesEnd

\* The texts there are.
LEMMA EnvTexts ==
    /\ NoVars \in EnvMap /\ "" \in EnvText /\ "none" \in EnvText /\ EnvValues \subseteq EnvText
    /\ \A k, v : v \in EnvText => One(k, v) \in EnvMap
<1>1. NoVars \in EnvMap
  BY DEF NoVars, EnvMap, EnvText
<1> QED
  BY <1>1 DEF One, EnvMap, EnvText

\* A call of the page as it is made.
LEMMA EnvCalled ==
    ASSUME EnvTypes, NEW op \in EnvOps, NEW vars \in EnvMap, NEW part \in EnvParts
    PROVE  /\ EnvCall(op, vars, part) \in EnvRecs /\ EnvCall(op, vars, part).pc = "sent"
           /\ EnvCall(op, vars, part).op = op /\ EnvCall(op, vars, part).part = part
           /\ EnvCall(op, vars, part).id = editor.id
BY EnvTexts DEF EnvCall, EnvRecs, EnvTypes, Editors

LEMMA EnvStarts == EnvInit => EnvInv
<1> SUFFICES ASSUME EnvInit PROVE EnvInv
  OBVIOUS
<1>1. configMap \in EnvMap /\ config \in Configs /\ editor \in Editors
  BY EnvTexts DEF EnvInit, EnvMap, EnvText, Configs, NewEditor, Editors
<1>2. PICK a, r : a = EnvCall("app", NoVars, "none") /\ r = Reload("none")
  OBVIOUS
<1>3. a \in EnvRecs /\ a.op = "app" /\ a.pc = "sent" /\ r \in EnvRecs /\ r.op = "env" /\ r.pc = "sent"
  BY <1>1, <1>2, EnvTexts DEF Reload, EnvCall, EnvRecs, Editors, EnvOps, EnvParts
<1>4. envCalls = <<a, r>>
  BY <1>2 DEF EnvInit
<1>5. envCalls \in Seq(EnvRecs) /\ 1 \in DOMAIN envCalls /\ 2 \in DOMAIN envCalls /\ envCalls[1] = a /\ envCalls[2] = r
  BY <1>3, <1>4
<1>6. config.addingHost = FALSE /\ editor.addBusy = FALSE /\ editor.bulkBusy = FALSE
  BY DEF EnvInit, NewEditor
<1>7. 1 \in InFlight({"app"}) /\ 2 \in InFlight({"env"})
  BY <1>3, <1>5 DEF InFlight
<1>8. SavesEnd
  BY <1>6, <1>7 DEF SavesEnd
<1> QED
  BY <1>1, <1>5, <1>8 DEF EnvInv, EnvTypes

-----------------------------------------------------------------------------
\* The calls are there still, under way if they were, unless call c was heard.
EnvKept(c) ==
    \A d \in DOMAIN envCalls :
        /\ d \in DOMAIN envCalls' /\ envCalls'[d].op = envCalls[d].op /\ envCalls'[d].part = envCalls[d].part
        /\ envCalls'[d].id = envCalls[d].id
        /\ d # c /\ envCalls[d].pc # "heard" => envCalls'[d].pc # "heard"

SaveOps == {"set", "unset", "env"}
WaitsFor(part) == \E d \in InFlight(SaveOps) : envCalls[d].part = part /\ envCalls[d].id = editor.id
HostWaits == \E d \in InFlight({"addHost", "hosts"}) : "addHost" \in {envCalls[d].op, envCalls[d].part}
\* Call c is one that the part waits for.
EndsFor(c, part) ==
    c \in DOMAIN envCalls /\ envCalls[c].op \in SaveOps /\ envCalls[c].part = part /\ envCalls[c].id = editor.id

\* What is busy after a step was so before, and call c is not what it waits
\* for, or has another call to wait for.
BusyStill(c) ==
    /\ config'.loadingApp =>
          InFlight({"app"})' # {} \/ (config.loadingApp /\ ~(c \in DOMAIN envCalls /\ envCalls[c].op = "app"))
    /\ config'.loadingEnv =>
          InFlight({"env"})' # {} \/ (config.loadingEnv /\ ~(c \in DOMAIN envCalls /\ envCalls[c].op = "env"))
    /\ editor'.addBusy => WaitsFor("add")' \/ (editor.addBusy /\ editor'.id = editor.id /\ ~EndsFor(c, "add"))
    /\ editor'.bulkBusy => WaitsFor("bulk")' \/ (editor.bulkBusy /\ editor'.id = editor.id /\ ~EndsFor(c, "bulk"))
    /\ config'.addingHost =>
          \/ HostWaits'
          \/ config.addingHost /\ ~(c \in DOMAIN envCalls /\ envCalls[c].op \in {"addHost", "hosts"}
                                    /\ "addHost" \in {envCalls[c].op, envCalls[c].part})

LEMMA SavesKeep ==
    ASSUME SavesEnd, NEW c, EnvKept(c), BusyStill(c)
    PROVE  SavesEnd'
<1>1. SavesEnd = (/\ config.loadingApp => InFlight({"app"}) # {}
                  /\ config.loadingEnv => InFlight({"env"}) # {}
                  /\ editor.addBusy => WaitsFor("add")
                  /\ editor.bulkBusy => WaitsFor("bulk")
                  /\ config.addingHost => HostWaits)
  BY DEF SavesEnd, WaitsFor, HostWaits, SaveOps
<1>2. SavesEnd' = (/\ config'.loadingApp => InFlight({"app"})' # {}
                   /\ config'.loadingEnv => InFlight({"env"})' # {}
                   /\ editor'.addBusy => WaitsFor("add")'
                   /\ editor'.bulkBusy => WaitsFor("bulk")'
                   /\ config'.addingHost => HostWaits')
  BY DEF SavesEnd, WaitsFor, HostWaits, SaveOps
<1>3. ASSUME NEW ops, NEW d \in InFlight(ops), d # c PROVE d \in InFlight(ops)'
  BY <1>3 DEF InFlight, EnvKept
<1>4. config'.loadingApp => InFlight({"app"})' # {}
  <2>1. \A d \in InFlight({"app"}) : d \in DOMAIN envCalls /\ envCalls[d].op = "app"
    BY DEF InFlight
  <2> QED
    BY <1>1, <1>3, <2>1 DEF BusyStill
<1>5. config'.loadingEnv => InFlight({"env"})' # {}
  <2>1. \A d \in InFlight({"env"}) : d \in DOMAIN envCalls /\ envCalls[d].op = "env"
    BY DEF InFlight
  <2> QED
    BY <1>1, <1>3, <2>1 DEF BusyStill
<1>6. ASSUME NEW part, WaitsFor(part), editor'.id = editor.id, ~EndsFor(c, part) PROVE WaitsFor(part)'
  <2>1. PICK d \in InFlight(SaveOps) : envCalls[d].part = part /\ envCalls[d].id = editor.id
    BY <1>6 DEF WaitsFor
  <2>2. d # c /\ d \in DOMAIN envCalls
    BY <1>6, <2>1 DEF EndsFor, InFlight
  <2>3. d \in InFlight(SaveOps)' /\ envCalls'[d].part = part /\ envCalls'[d].id = editor'.id
    BY <1>3, <1>6, <2>1, <2>2 DEF EnvKept
  <2> QED
    BY <2>3 DEF WaitsFor
<1>7. (editor'.addBusy => WaitsFor("add")') /\ (editor'.bulkBusy => WaitsFor("bulk")')
  BY <1>1, <1>6 DEF BusyStill
<1>8. config'.addingHost => HostWaits'
  <2>1. CASE config.addingHost /\ ~(c \in DOMAIN envCalls /\ envCalls[c].op \in {"addHost", "hosts"}
                                    /\ "addHost" \in {envCalls[c].op, envCalls[c].part})
    <3>1. PICK d \in InFlight({"addHost", "hosts"}) : "addHost" \in {envCalls[d].op, envCalls[d].part}
      BY <1>1, <2>1 DEF HostWaits
    <3>2. d # c /\ d \in DOMAIN envCalls
      BY <2>1, <3>1 DEF InFlight
    <3>3. d \in InFlight({"addHost", "hosts"})' /\ envCalls'[d].op = envCalls[d].op /\ envCalls'[d].part = envCalls[d].part
      BY <1>3, <3>1, <3>2 DEF EnvKept
    <3> QED
      BY <3>1, <3>3 DEF HostWaits
  <2> QED
    BY <2>1 DEF BusyStill
<1> QED
  BY <1>2, <1>4, <1>5, <1>7, <1>8

\* One call more.
LEMMA EnvOneMore ==
    ASSUME NEW h \in Seq(EnvRecs), NEW r \in EnvRecs
    PROVE  /\ h \o <<r>> \in Seq(EnvRecs) /\ h \o <<>> = h
           /\ (Len(h) + 1) \in DOMAIN (h \o <<r>>) /\ (h \o <<r>>)[Len(h) + 1] = r
           /\ \A d \in DOMAIN h : d \in DOMAIN (h \o <<r>>) /\ (h \o <<r>>)[d] = h[d]
OBVIOUS

LEMMA EnvAsks ==
    ASSUME EnvTypes, NEW r \in EnvRecs, Calls(<<r>>)
    PROVE  envCalls' \in Seq(EnvRecs) /\ EnvKept(0) /\ \E n \in DOMAIN envCalls' : envCalls'[n] = r
<1>1. envCalls \in Seq(EnvRecs) /\ envCalls' = envCalls \o <<r>>
  BY DEF EnvTypes, Calls
<1> QED
  BY <1>1, EnvOneMore DEF EnvKept

LEMMA EnvReplaced ==
    ASSUME EnvTypes, NEW c \in DOMAIN envCalls, NEW r \in EnvRecs, r.op = envCalls[c].op, r.part = envCalls[c].part,
           r.id = envCalls[c].id
    PROVE  LET h == [envCalls EXCEPT ![c] = r] IN
           /\ h \in Seq(EnvRecs) /\ DOMAIN h = DOMAIN envCalls
           /\ \A d \in DOMAIN envCalls : /\ h[d].op = envCalls[d].op /\ h[d].part = envCalls[d].part
                                         /\ h[d].id = envCalls[d].id /\ (d # c => h[d].pc = envCalls[d].pc)
                                         /\ (d = c => h[d].pc = r.pc)
<1>1. envCalls \in Seq(EnvRecs)
  BY DEF EnvTypes
<1> QED
  BY <1>1

LEMMA EnvAnswered ==
    ASSUME EnvTypes, NEW c \in DOMAIN envCalls, NEW ok \in {"no", "yes", "lost"}, NEW got \in EnvMap, Answers(c, ok, got)
    PROVE  envCalls' \in Seq(EnvRecs) /\ EnvKept(0)
<1>1. PICK r : r = [envCalls[c] EXCEPT !.pc = "answered", !.ok = ok, !.got = got]
  OBVIOUS
<1>2. envCalls[c] \in EnvRecs
  BY DEF EnvTypes
<1>3. r \in EnvRecs /\ r.pc = "answered" /\ r.op = envCalls[c].op /\ r.part = envCalls[c].part /\ r.id = envCalls[c].id
  BY <1>1, <1>2 DEF EnvRecs
<1>4. envCalls' = [envCalls EXCEPT ![c] = r]
  BY <1>1 DEF Answers
<1> QED
  BY <1>3, <1>4, EnvReplaced DEF EnvKept

\* A call is heard, and nothing, or one call, follows it.
LEMMA EnvHeard ==
    ASSUME EnvTypes, NEW c \in DOMAIN envCalls, NEW cs, Then(c, cs),
           cs = <<>> \/ \E q \in EnvRecs : cs = <<q>>
    PROVE  /\ envCalls' \in Seq(EnvRecs) /\ EnvKept(c)
           /\ \A q \in EnvRecs : cs = <<q>> => \E n \in DOMAIN envCalls' : envCalls'[n] = q
<1>1. PICK r : r = [envCalls[c] EXCEPT !.pc = "heard"]
  OBVIOUS
<1>2. envCalls[c] \in EnvRecs
  BY DEF EnvTypes
<1>3. r \in EnvRecs /\ r.op = envCalls[c].op /\ r.part = envCalls[c].part /\ r.id = envCalls[c].id
  BY <1>1, <1>2 DEF EnvRecs
<1>4. PICK h : h = [envCalls EXCEPT ![c] = r]
  OBVIOUS
<1>5. envCalls' = h \o cs
  BY <1>1, <1>4 DEF Then
<1>6. /\ h \in Seq(EnvRecs) /\ DOMAIN h = DOMAIN envCalls
      /\ \A d \in DOMAIN envCalls : /\ h[d].op = envCalls[d].op /\ h[d].part = envCalls[d].part
                                    /\ h[d].id = envCalls[d].id /\ (d # c => h[d].pc = envCalls[d].pc)
  BY <1>3, <1>4, EnvReplaced
<1>7. CASE cs = <<>>
  <2>1. envCalls' = h /\ \A q : cs # <<q>>
    BY <1>3, <1>5, <1>6, <1>7, EnvOneMore
  <2> QED
    BY <1>6, <2>1 DEF EnvKept
<1>8. ASSUME NEW q \in EnvRecs, cs = <<q>> PROVE
        /\ envCalls' \in Seq(EnvRecs) /\ EnvKept(c) /\ \E n \in DOMAIN envCalls' : envCalls'[n] = q
  BY <1>5, <1>6, <1>8, EnvOneMore DEF EnvKept
<1> QED
  BY <1>7, <1>8

-----------------------------------------------------------------------------
\* Only the editor changes, and stays the same editor, no busier.
LEMMA EditorMoves ==
    ASSUME EnvInv, UNCHANGED <<configMap, config, envCalls>>, editor' \in Editors, editor'.id = editor.id,
           editor'.addBusy = editor.addBusy, editor'.bulkBusy = editor.bulkBusy
    PROVE  EnvInv'
<1>1. EnvTypes'
  BY DEF EnvInv, EnvTypes
<1>2. EnvKept(0) /\ 0 \notin DOMAIN envCalls
  BY DEF EnvKept, EnvInv, EnvTypes
<1>3. BusyStill(0)
  BY <1>2 DEF BusyStill, EndsFor
<1> QED
  BY <1>1, <1>2, <1>3, SavesKeep DEF EnvInv

\* A press of a button asks the API for something; a part of the editor, or
\* the form for a domain, may wait for it.
LEMMA EnvPress ==
    ASSUME EnvInv, NEW r \in EnvRecs, r.pc = "sent", Calls(<<r>>), configMap' = configMap,
           config' \in Configs, editor' \in Editors,
           config'.loadingApp = config.loadingApp,
           config'.loadingEnv => config.loadingEnv \/ r.op = "env",
           editor'.addBusy => \/ editor.addBusy /\ editor'.id = editor.id
                              \/ r.op = "set" /\ r.part = "add" /\ r.id = editor'.id,
           editor'.bulkBusy => \/ editor.bulkBusy /\ editor'.id = editor.id
                               \/ r.op = "set" /\ r.part = "bulk" /\ r.id = editor'.id,
           config'.addingHost => config.addingHost \/ r.op = "addHost"
    PROVE  EnvInv'
<1>1. EnvTypes /\ 0 \notin DOMAIN envCalls
  BY DEF EnvInv, EnvTypes
<1>2. envCalls' \in Seq(EnvRecs) /\ EnvKept(0) /\ \E n \in DOMAIN envCalls' : envCalls'[n] = r
  BY <1>1, EnvAsks
<1>3. PICK n \in DOMAIN envCalls' : envCalls'[n] = r
  BY <1>2
<1>4. \A ops : r.op \in ops => n \in InFlight(ops)'
  BY <1>3 DEF InFlight
<1>5. r.op = "set" /\ r.id = editor'.id => WaitsFor(r.part)'
  BY <1>3, <1>4 DEF WaitsFor, SaveOps
<1>6. r.op = "addHost" => HostWaits'
  BY <1>3, <1>4 DEF HostWaits
<1>7. BusyStill(0)
  BY <1>1, <1>4, <1>5, <1>6 DEF BusyStill, EndsFor
<1>8. EnvTypes'
  BY <1>1, <1>2 DEF EnvTypes
<1> QED
  BY <1>2, <1>7, <1>8, SavesKeep DEF EnvInv

\* An answer changes the calls and the map of the API only.
LEMMA EnvAnswerKeeps ==
    ASSUME EnvInv, configMap' \in EnvMap, NEW c \in DOMAIN envCalls, NEW ok \in {"no", "yes", "lost"},
           NEW got \in EnvMap, Answers(c, ok, got)
    PROVE  EnvInv'
<1>1. EnvTypes /\ 0 \notin DOMAIN envCalls
  BY DEF EnvInv, EnvTypes
<1>2. envCalls' \in Seq(EnvRecs) /\ EnvKept(0) /\ UNCHANGED <<config, editor>>
  BY <1>1, EnvAnswered DEF Answers
<1>3. BusyStill(0)
  BY <1>1, <1>2 DEF BusyStill, EndsFor
<1>4. EnvTypes'
  BY <1>1, <1>2 DEF EnvTypes
<1> QED
  BY <1>2, <1>3, <1>4, SavesKeep DEF EnvInv

\* The part of an editor that a call belongs to.
LEMMA EnvCloses ==
    ASSUME EnvTypes, NEW c \in DOMAIN envCalls, NEW done \in BOOLEAN, EditorHears(c, done)
    PROVE  /\ editor' \in Editors /\ editor'.id = editor.id
           /\ editor'.addBusy => editor.addBusy /\ ~EndsFor(c, "add")
           /\ editor'.bulkBusy => editor.bulkBusy /\ ~EndsFor(c, "bulk")
<1>1. editor \in Editors
  BY DEF EnvTypes
<1>2. CASE envCalls[c].id # editor.id
  BY <1>1, <1>2 DEF EditorHears, EndsFor
<1>3. CASE envCalls[c].id = editor.id
  <2>1. editor' = Closes(envCalls[c].part, done)
    BY <1>3 DEF EditorHears
  <2>2. CASE envCalls[c].part = "edit"
    BY <1>1, <2>1, <2>2 DEF Closes, EndsFor, Editors
  <2>3. CASE envCalls[c].part = "add"
    BY <1>1, <2>1, <2>3 DEF Closes, EndsFor, Editors
  <2>4. CASE envCalls[c].part = "remove"
    BY <1>1, <2>1, <2>4 DEF Closes, EndsFor, Editors
  <2>5. CASE envCalls[c].part = "bulk"
    BY <1>1, <2>1, <2>5 DEF Closes, EndsFor, Editors
  <2>6. CASE envCalls[c].part \notin {"edit", "add", "remove", "bulk"}
    BY <1>1, <2>1, <2>6 DEF Closes, EndsFor, Editors
  <2> QED
    BY <2>2, <2>3, <2>4, <2>5, <2>6
<1> QED
  BY <1>2, <1>3

\* The presses of the page and of the editor.
LEMMA EnvPresses ==
    ASSUME EnvInv,
           \/ RestartApp \/ AddDomain \/ ConfirmRemove \/ HandleBulkSave \/ \E k \in EnvKeys : ToggleSecret(k)
           \/ \E k \in EnvKeys, v \in EnvValues : HandleAdd(k, v)
    PROVE  EnvInv'
<1>1. EnvTypes /\ config \in Configs /\ editor \in Editors
  BY DEF EnvInv, EnvTypes
<1>a. NoVars \in EnvMap /\ \A k : One(k, "") \in EnvMap
  BY EnvTexts
<1>c. editor.id \in Nat
  BY <1>1 DEF Editors
<1>2. CASE RestartApp
  <2>1. PICK r : r = EnvCall("deploy", NoVars, "none")
    OBVIOUS
  <2>2. r \in EnvRecs /\ r.pc = "sent"
    BY <1>1, <1>a, <1>c, <2>1 DEF EnvCall, EnvRecs, EnvOps, EnvParts
  <2>3. Calls(<<r>>) /\ UNCHANGED <<configMap, config, editor>>
    BY <1>2, <2>1 DEF RestartApp, PageLeaves
  <2> QED
    BY <1>1, <2>2, <2>3, EnvPress
<1>3. CASE AddDomain
  <2>1. PICK r : r = EnvCall("addHost", NoVars, "none")
    OBVIOUS
  <2>2. r \in EnvRecs /\ r.pc = "sent" /\ r.op = "addHost"
    BY <1>1, <1>a, <1>c, <2>1 DEF EnvCall, EnvRecs, EnvOps, EnvParts
  <2>3. Calls(<<r>>) /\ UNCHANGED <<configMap, editor>>
    BY <1>3, <2>1 DEF AddDomain
  <2>4. config' \in Configs /\ config'.loadingApp = config.loadingApp /\ config'.loadingEnv = config.loadingEnv
    BY <1>1, <1>3 DEF AddDomain, Configs
  <2> QED
    BY <1>1, <2>2, <2>3, <2>4, EnvPress
<1>4. CASE ConfirmRemove
  <2>1. PICK r : r = EnvCall("unset", One(editor.confirm, ""), "remove")
    OBVIOUS
  <2>2. r \in EnvRecs /\ r.pc = "sent"
    BY <1>1, <1>a, <1>c, <2>1 DEF EnvCall, EnvRecs, EnvOps, EnvParts
  <2>3. Calls(<<r>>) /\ UNCHANGED <<configMap, config, editor>>
    BY <1>4, <2>1 DEF ConfirmRemove, PageLeaves
  <2> QED
    BY <1>1, <2>2, <2>3, EnvPress
<1>5. CASE HandleBulkSave
  <2>1. PICK r : r = EnvCall("set", editor.bulkText, "bulk")
    OBVIOUS
  <2>2. r \in EnvRecs /\ r.pc = "sent" /\ r.op = "set" /\ r.part = "bulk" /\ r.id = editor.id
    <3>1. editor.bulkText \in EnvMap
      BY <1>1 DEF Editors
    <3> QED
      BY <1>1, <2>1, <3>1, EnvCalled DEF EnvOps, EnvParts
  <2>3. Calls(<<r>>) /\ UNCHANGED <<configMap, config>>
    BY <1>5, <2>1 DEF HandleBulkSave, PageLeaves
  <2>4. editor' \in Editors /\ editor'.id = editor.id /\ editor'.addBusy = editor.addBusy
    BY <1>1, <1>5 DEF HandleBulkSave, Editors
  <2> QED
    BY <1>1, <2>2, <2>3, <2>4, EnvPress
<1>6. ASSUME NEW k \in EnvKeys, ToggleSecret(k) PROVE EnvInv'
  <2>1. PICK r : r = EnvCall("set", One(k, ""), "none")
    OBVIOUS
  <2>2. r \in EnvRecs /\ r.pc = "sent"
    BY <1>1, <1>a, <1>c, <2>1 DEF EnvCall, EnvRecs, EnvOps, EnvParts
  <2>3. Calls(<<r>>) /\ UNCHANGED <<configMap, config, editor>>
    BY <1>6, <2>1 DEF ToggleSecret, PageLeaves
  <2> QED
    BY <1>1, <2>2, <2>3, EnvPress
<1>7. ASSUME NEW k \in EnvKeys, NEW v \in EnvValues, HandleAdd(k, v) PROVE EnvInv'
  <2>1. PICK r : r = EnvCall("set", One(k, v), "add")
    OBVIOUS
  <2>2. r \in EnvRecs /\ r.pc = "sent" /\ r.op = "set" /\ r.part = "add" /\ r.id = editor.id
    <3>1. One(k, v) \in EnvMap
      BY EnvTexts
    <3> QED
      BY <1>1, <2>1, <3>1, EnvCalled DEF EnvOps, EnvParts
  <2>3. Calls(<<r>>) /\ UNCHANGED <<configMap, config>>
    BY <1>7, <2>1 DEF HandleAdd, PageLeaves
  <2>4. editor' \in Editors /\ editor'.id = editor.id /\ editor'.bulkBusy = editor.bulkBusy
    BY <1>1, <1>7 DEF HandleAdd, Editors
  <2> QED
    BY <1>1, <2>2, <2>3, <2>4, EnvPress
<1> QED
  BY <1>2, <1>3, <1>4, <1>5, <1>6, <1>7

\* A tab that is mounted loads what it shows.
LEMMA EnvTabs ==
    ASSUME EnvInv, NEW t \in {"variables", "settings", "domains"}, SetTab(t)
    PROVE  EnvInv'
<1>1. EnvTypes /\ config \in Configs /\ editor \in Editors /\ editor.id \in Nat
  BY DEF EnvInv, EnvTypes, Editors
<1>a. NoVars \in EnvMap /\ "" \in EnvText
  BY EnvTexts
<1>b. PICK n \in Nat : n = editor.id + 1
  BY <1>1
<1>c. PICK m \in Nat : m = config.tabs + 1
  BY <1>1 DEF Configs
<1>2. /\ config' \in Configs /\ config'.loadingApp = config.loadingApp /\ config'.addingHost = config.addingHost
      /\ (config'.loadingEnv => config.loadingEnv \/ t = "variables") /\ configMap' = configMap
  <2>1. /\ config' = [config EXCEPT !.tab = t, !.tabs = m, !.loadingEnv = config.loadingEnv \/ t = "variables"]
        /\ configMap' = configMap
    BY <1>c DEF SetTab
  <2> QED
    BY <1>1, <2>1 DEF Configs
<1>3. CASE t = "variables"
  <2>1. PICK r : r = [Reload("none") EXCEPT !.id = n]
    OBVIOUS
  <2>2. r \in EnvRecs /\ r.pc = "sent" /\ r.op = "env"
    BY <1>1, <1>a, <2>1 DEF Reload, EnvCall, EnvRecs, EnvOps, EnvParts
  <2>3. Calls(<<r>>) /\ editor' = NewEditor(n)
    BY <1>3, <1>b, <2>1 DEF SetTab
  <2>4. editor' \in Editors /\ ~editor'.addBusy /\ ~editor'.bulkBusy
    BY <1>1, <1>a, <2>3 DEF NewEditor, Editors
  <2> QED
    BY <1>2, <2>2, <2>3, <2>4, EnvPress
<1>4. CASE t = "domains"
  <2>1. PICK r : r = Rehost("none")
    OBVIOUS
  <2>2. r \in EnvRecs /\ r.pc = "sent"
    BY <1>1, <1>a, <2>1 DEF Rehost, EnvCall, EnvRecs, EnvOps, EnvParts
  <2>3. Calls(<<r>>) /\ editor' = editor
    BY <1>4, <2>1 DEF SetTab
  <2> QED
    BY <1>1, <1>2, <1>4, <2>2, <2>3, EnvPress
<1>5. CASE t = "settings"
  <2>1. envCalls' = envCalls /\ editor' = editor
    BY <1>5 DEF SetTab
  <2>2. EnvKept(0) /\ 0 \notin DOMAIN envCalls
    BY <1>1, <2>1 DEF EnvKept, EnvTypes
  <2>3. BusyStill(0)
    BY <1>2, <1>5, <2>1, <2>2 DEF BusyStill, EndsFor
  <2> QED
    BY <1>1, <1>2, <2>1, <2>2, <2>3, SavesKeep DEF EnvInv, EnvTypes
<1> QED
  BY <1>3, <1>4, <1>5

\* The moves within the editor.
LEMMA EnvEdits ==
    ASSUME EnvInv,
           \/ OpenAdd \/ CloseAdd \/ CancelRemove \/ HandleBulkOpen \/ CloseBulk
           \/ \E k \in EnvKeys : AskRemove(k) \/ \E v \in EnvValues : StartEdit(k, v)
           \/ \E k \in EnvKeys, v \in EnvValues \cup {"none"} : EditBulk(k, v)
    PROVE  EnvInv'
<1>1. EnvTypes /\ config \in Configs /\ editor \in Editors /\ config.vars \in EnvMap
  BY DEF EnvInv, EnvTypes, Configs
<1>2. CASE OpenAdd \/ CloseAdd \/ CancelRemove \/ HandleBulkOpen \/ CloseBulk
  <2>1. /\ UNCHANGED <<configMap, config, envCalls>> /\ editor' \in Editors /\ editor'.id = editor.id
        /\ editor'.addBusy = editor.addBusy /\ editor'.bulkBusy = editor.bulkBusy
    BY <1>1, <1>2 DEF OpenAdd, CloseAdd, CancelRemove, HandleBulkOpen, CloseBulk, EditorOnly, Editors
  <2> QED
    BY <2>1, EditorMoves
<1>3. ASSUME NEW k \in EnvKeys, AskRemove(k) PROVE EnvInv'
  <2>1. /\ UNCHANGED <<configMap, config, envCalls>> /\ editor' \in Editors /\ editor'.id = editor.id
        /\ editor'.addBusy = editor.addBusy /\ editor'.bulkBusy = editor.bulkBusy
    BY <1>1, <1>3 DEF AskRemove, EditorOnly, Editors
  <2> QED
    BY <2>1, EditorMoves
<1>4. ASSUME NEW k \in EnvKeys, NEW v \in EnvValues, StartEdit(k, v) PROVE EnvInv'
  <2>1. v \in EnvText
    BY DEF EnvText
  <2>2. /\ UNCHANGED <<configMap, config, envCalls>> /\ editor' \in Editors /\ editor'.id = editor.id
        /\ editor'.addBusy = editor.addBusy /\ editor'.bulkBusy = editor.bulkBusy
    BY <1>1, <1>4, <2>1 DEF StartEdit, EditorOnly, Editors
  <2> QED
    BY <2>2, EditorMoves
<1>5. ASSUME NEW k \in EnvKeys, NEW v \in EnvValues \cup {"none"}, EditBulk(k, v) PROVE EnvInv'
  <2>1. v \in EnvText /\ editor.bulkText \in EnvMap
    BY <1>1 DEF EnvText, Editors
  <2>2. PICK m : m = [editor.bulkText EXCEPT ![k] = v]
    OBVIOUS
  <2>3. m \in EnvMap /\ editor' = [editor EXCEPT !.bulkText = m]
    BY <1>1, <1>5, <2>1, <2>2 DEF EditBulk, EnvMap
  <2>4. /\ UNCHANGED <<configMap, config, envCalls>> /\ editor' \in Editors /\ editor'.id = editor.id
        /\ editor'.addBusy = editor.addBusy /\ editor'.bulkBusy = editor.bulkBusy
    BY <1>1, <1>5, <2>3 DEF EditBulk, PageLeaves, Editors
  <2> QED
    BY <2>4, EditorMoves
<1> QED
  BY <1>2, <1>3, <1>4, <1>5

LEMMA EnvCommits == ASSUME EnvInv, CommitEdit PROVE EnvInv'
<1>1. EnvTypes /\ config \in Configs /\ editor \in Editors /\ editor.id \in Nat /\ editor.text \in EnvText
  BY DEF EnvInv, EnvTypes, Editors
<1>2. CASE editor.text = config.vars[editor.edit]
  <2>1. /\ UNCHANGED <<configMap, config, envCalls>> /\ editor' \in Editors /\ editor'.id = editor.id
        /\ editor'.addBusy = editor.addBusy /\ editor'.bulkBusy = editor.bulkBusy
    BY <1>1, <1>2 DEF CommitEdit, PageLeaves, Editors
  <2> QED
    BY <2>1, EditorMoves
<1>3. CASE editor.text # config.vars[editor.edit]
  <2>1. PICK r : r = EnvCall("set", One(editor.edit, editor.text), "edit")
    OBVIOUS
  <2>a. NoVars \in EnvMap /\ One(editor.edit, editor.text) \in EnvMap
    BY <1>1, EnvTexts
  <2>2. r \in EnvRecs /\ r.pc = "sent"
    BY <1>1, <2>a, <2>1 DEF EnvCall, EnvRecs, EnvOps, EnvParts
  <2>3. Calls(<<r>>) /\ UNCHANGED <<configMap, config, editor>>
    BY <1>3, <2>1 DEF CommitEdit, PageLeaves
  <2> QED
    BY <1>1, <2>2, <2>3, EnvPress
<1> QED
  BY <1>2, <1>3

\* The answers of the API, and another client of it.
LEMMA EnvApi ==
    ASSUME EnvInv, NEW c \in 1 .. MaxEnvCalls, CallFails(c) \/ Reads(c) \/ SetsVars(c) \/ RemovesVar(c)
    PROVE  EnvInv'
<1>1. EnvTypes /\ configMap \in EnvMap /\ c \in DOMAIN envCalls
  BY DEF EnvInv, EnvTypes, CallFails, Reads, SetsVars, RemovesVar, AtApi
<1>2. NoVars \in EnvMap /\ envCalls[c].vars \in EnvMap
  <2>1. envCalls[c] \in EnvRecs
    BY <1>1 DEF EnvTypes
  <2> QED
    BY <2>1, EnvTexts DEF EnvRecs
<1>3. PICK ok \in {"no", "yes", "lost"}, got \in EnvMap : Answers(c, ok, got)
  BY <1>1, <1>2 DEF CallFails, Reads, SetsVars, RemovesVar
<1>4. configMap' \in EnvMap
  <2>1. CASE CallFails(c) \/ Reads(c)
    BY <1>1, <2>1 DEF CallFails, Reads
  <2>2. CASE SetsVars(c)
    BY <1>1, <1>2, <2>2 DEF SetsVars, EnvMap
  <2>3. CASE RemovesVar(c)
    BY <1>1, <1>2, <2>3, EnvTexts DEF RemovesVar, EnvMap
  <2> QED
    BY <2>1, <2>2, <2>3
<1> QED
  BY <1>1, <1>3, <1>4, EnvAnswerKeeps

\* The answers that the page hears.
LEMMA EnvHears ==
    ASSUME EnvInv, NEW c \in 1 .. MaxEnvCalls,
           HearApp(c) \/ HearEnv(c) \/ HearSaved(c) \/ HearHost(c) \/ HearHosts(c) \/ HearDeploy(c)
    PROVE  EnvInv'
<1>1. EnvTypes /\ c \in DOMAIN envCalls /\ config \in Configs /\ editor \in Editors /\ editor.id \in Nat
  BY DEF EnvInv, EnvTypes, Editors, HearApp, HearEnv, HearSaved, HearHost, HearHosts, HearDeploy, HearsCall
<1>2. /\ envCalls[c] \in EnvRecs /\ envCalls[c].part \in EnvParts /\ envCalls[c].id \in Nat /\ envCalls[c].got \in EnvMap
      /\ NoVars \in EnvMap
  <2>1. envCalls[c] \in EnvRecs
    BY <1>1 DEF EnvTypes
  <2> QED
    BY <2>1, EnvTexts DEF EnvRecs
<1>3. ASSUME Then(c, <<>>), config' \in Configs, editor' \in Editors, BusyStill(c) PROVE EnvInv'
  <2>1. envCalls' \in Seq(EnvRecs) /\ EnvKept(c) /\ configMap' = configMap
    BY <1>1, <1>3, EnvHeard DEF Then
  <2>2. EnvTypes'
    BY <1>1, <1>3, <2>1 DEF EnvTypes
  <2> QED
    BY <1>3, <2>1, <2>2, SavesKeep DEF EnvInv
<1>4. ASSUME NEW q \in EnvRecs, Then(c, <<q>>), config' \in Configs, editor' \in Editors,
             (\E n \in DOMAIN envCalls' : envCalls'[n] = q) => BusyStill(c)
      PROVE EnvInv'
  <2>1. envCalls' \in Seq(EnvRecs) /\ EnvKept(c) /\ (\E n \in DOMAIN envCalls' : envCalls'[n] = q) /\ configMap' = configMap
    BY <1>1, <1>4, EnvHeard DEF Then
  <2>2. EnvTypes'
    BY <1>1, <1>4, <2>1 DEF EnvTypes
  <2> QED
    BY <1>4, <2>1, <2>2, SavesKeep DEF EnvInv
<1>5. CASE HearApp(c)
  <2>1. PICK app \in BOOLEAN : config' = [config EXCEPT !.app = app, !.loadingApp = FALSE]
    BY <1>1, <1>5 DEF HearApp, Configs
  <2>2. /\ config' \in Configs /\ ~config'.loadingApp /\ config'.loadingEnv = config.loadingEnv
        /\ config'.addingHost = config.addingHost
    BY <1>1, <2>1 DEF Configs
  <2>3. Then(c, <<>>) /\ editor' = editor /\ envCalls[c].op = "app"
    BY <1>5 DEF HearApp, HearsCall
  <2>4. BusyStill(c)
    BY <2>2, <2>3 DEF BusyStill, EndsFor, SaveOps
  <2> QED
    BY <1>1, <1>3, <2>2, <2>3, <2>4
<1>6. CASE HearEnv(c)
  <2>1. PICK vars \in EnvMap : config' = [config EXCEPT !.vars = vars, !.loadingEnv = FALSE]
    BY <1>1, <1>2, <1>6 DEF HearEnv, Configs
  <2>2. /\ config' \in Configs /\ ~config'.loadingEnv /\ config'.loadingApp = config.loadingApp
        /\ config'.addingHost = config.addingHost
    BY <1>1, <2>1 DEF Configs
  <2>3. Then(c, <<>>) /\ envCalls[c].op = "env"
    BY <1>6 DEF HearEnv, HearsCall
  <2>4. PICK done \in BOOLEAN : EditorHears(c, done)
    BY <1>6 DEF HearEnv
  <2>5. /\ editor' \in Editors /\ editor'.id = editor.id
        /\ editor'.addBusy => editor.addBusy /\ ~EndsFor(c, "add")
        /\ editor'.bulkBusy => editor.bulkBusy /\ ~EndsFor(c, "bulk")
    BY <1>1, <2>4, EnvCloses
  <2>6. BusyStill(c)
    BY <2>2, <2>3, <2>5 DEF BusyStill
  <2> QED
    BY <1>3, <2>2, <2>3, <2>5, <2>6
<1>7. CASE HearSaved(c)
  <2>1. CASE envCalls[c].ok = "yes"
    <3>1. PICK q : q = [Reload(envCalls[c].part) EXCEPT !.id = envCalls[c].id]
      OBVIOUS
    <3>2. q \in EnvRecs /\ q.op = "env" /\ q.pc = "sent" /\ q.part = envCalls[c].part /\ q.id = envCalls[c].id
      BY <1>1, <1>2, <3>1 DEF Reload, EnvCall, EnvRecs, EnvOps
    <3>3. Then(c, <<q>>) /\ config' = [config EXCEPT !.loadingEnv = TRUE] /\ editor' = editor
      BY <1>7, <2>1, <3>1 DEF HearSaved
    <3>4. /\ config' \in Configs /\ config'.loadingApp = config.loadingApp /\ config'.addingHost = config.addingHost
          /\ envCalls[c].op \in {"set", "unset"}
      BY <1>1, <1>7, <3>3 DEF Configs, HearSaved, HearsCall
    <3>5. ASSUME NEW n \in DOMAIN envCalls', envCalls'[n] = q PROVE BusyStill(c)
      <4>1. n \in InFlight({"env"})' /\ n \in InFlight(SaveOps)'
        BY <3>2, <3>5 DEF InFlight, SaveOps
      <4>2. ASSUME NEW part, EndsFor(c, part) PROVE WaitsFor(part)'
        BY <3>2, <3>3, <3>5, <4>1, <4>2 DEF EndsFor, WaitsFor
      <4> QED
        BY <3>3, <3>4, <4>1, <4>2 DEF BusyStill
    <3> QED
      BY <1>1, <1>4, <3>2, <3>3, <3>4, <3>5
  <2>2. CASE envCalls[c].ok # "yes"
    <3>1. Then(c, <<>>) /\ EditorHears(c, FALSE) /\ config' = config /\ envCalls[c].op \in {"set", "unset"}
      BY <1>7, <2>2 DEF HearSaved, HearsCall
    <3>2. /\ editor' \in Editors /\ editor'.id = editor.id
          /\ editor'.addBusy => editor.addBusy /\ ~EndsFor(c, "add")
          /\ editor'.bulkBusy => editor.bulkBusy /\ ~EndsFor(c, "bulk")
      BY <1>1, <3>1, EnvCloses
    <3>3. BusyStill(c)
      BY <3>1, <3>2 DEF BusyStill
    <3> QED
      BY <1>1, <1>3, <3>1, <3>2, <3>3
  <2> QED
    BY <2>1, <2>2
<1>8. CASE HearHost(c)
  <2>1. CASE envCalls[c].ok = "lost"
    <3>1. /\ Then(c, <<>>) /\ config' = [config EXCEPT !.addingHost = FALSE] /\ editor' = editor
          /\ envCalls[c].op = "addHost"
      BY <1>8, <2>1 DEF HearHost, HearsCall
    <3>2. /\ config' \in Configs /\ ~config'.addingHost /\ config'.loadingApp = config.loadingApp
          /\ config'.loadingEnv = config.loadingEnv
      BY <1>1, <3>1 DEF Configs
    <3>3. BusyStill(c)
      BY <3>1, <3>2 DEF BusyStill, EndsFor, SaveOps
    <3> QED
      BY <1>1, <1>3, <3>1, <3>2, <3>3
  <2>2. CASE envCalls[c].ok # "lost"
    <3>1. PICK q : q = Rehost("addHost")
      OBVIOUS
    <3>2. q \in EnvRecs /\ q.op = "hosts" /\ q.pc = "sent" /\ q.part = "addHost"
      BY <1>1, <1>2, <3>1 DEF Rehost, EnvCall, EnvRecs, EnvOps, EnvParts
    <3>3. Then(c, <<q>>) /\ config' = config /\ editor' = editor /\ envCalls[c].op = "addHost"
      BY <1>8, <2>2, <3>1 DEF HearHost, HearsCall
    <3>4. ASSUME NEW n \in DOMAIN envCalls', envCalls'[n] = q PROVE BusyStill(c)
      <4>1. n \in InFlight({"addHost", "hosts"})'
        BY <3>2, <3>4 DEF InFlight
      <4>2. HostWaits'
        BY <3>2, <3>4, <4>1 DEF HostWaits
      <4> QED
        BY <3>3, <4>2 DEF BusyStill, EndsFor, SaveOps
    <3> QED
      BY <1>1, <1>4, <3>2, <3>3, <3>4
  <2> QED
    BY <2>1, <2>2
<1>9. CASE HearHosts(c)
  <2>1. PICK adding \in BOOLEAN : /\ config' = [config EXCEPT !.addingHost = adding]
                                  /\ adding = (config.addingHost /\ envCalls[c].part # "addHost")
    BY <1>1, <1>9 DEF HearHosts, Configs
  <2>2. /\ config' \in Configs /\ config'.loadingApp = config.loadingApp /\ config'.loadingEnv = config.loadingEnv
        /\ config'.addingHost = adding
    BY <1>1, <2>1 DEF Configs
  <2>3. Then(c, <<>>) /\ editor' = editor /\ envCalls[c].op = "hosts"
    BY <1>9 DEF HearHosts, HearsCall
  <2>4. BusyStill(c)
    BY <2>1, <2>2, <2>3 DEF BusyStill, EndsFor, SaveOps
  <2> QED
    BY <1>1, <1>3, <2>2, <2>3, <2>4
<1>10. CASE HearDeploy(c)
  <2>1. UNCHANGED <<config, editor>> /\ envCalls[c].op = "deploy"
    BY <1>10 DEF HearDeploy, HearsCall
  <2>2. BusyStill(c)
    BY <2>1 DEF BusyStill, EndsFor, SaveOps
  <2>3. PICK q : q = EnvCall("app", NoVars, "none")
    OBVIOUS
  <2>4. q \in EnvRecs
    BY <1>1, <1>2, <2>3 DEF EnvCall, EnvRecs, EnvOps, EnvParts
  <2>5. Then(c, <<>>) \/ Then(c, <<q>>)
    BY <1>10, <2>3 DEF HearDeploy
  <2> QED
    BY <1>1, <1>3, <1>4, <2>1, <2>2, <2>4, <2>5
<1> QED
  BY <1>5, <1>6, <1>7, <1>8, <1>9, <1>10

LEMMA EnvKeeps == EnvInv /\ EnvNext => EnvInv'
<1> SUFFICES ASSUME EnvInv, EnvNext PROVE EnvInv'
  OBVIOUS
<1> QED
  BY EnvPresses, EnvTabs, EnvEdits, EnvCommits, EnvApi, EnvHears DEF EnvNext

LEMMA EnvImplies == EnvInv => EnvTypeOK /\ SavesEnd
BY DEF EnvInv, EnvTypes, EnvTypeOK, Configs, Editors, EnvMap

LEMMA EnvStands == EnvInv /\ UNCHANGED editorVars => EnvInv'
BY DEF EnvInv, EnvTypes, SavesEnd, InFlight, editorVars

-----------------------------------------------------------------------------
(* Signing in: a panel is busy while a call of its own is under way, and   *)
(* panels that come later have none yet.                                   *)

SignAllOps == SignOps \cup SendOps \cup {"session"}
SignRecs   == [op : SignAllOps, for : SignAllOps, panel : Nat, pc : {"sent", "answered", "heard"},
               ok : {"yes", "no", "lost"}]
Screens    == [path : {"login", "signup", "app"}, tab : {"email", "mobile"}, id : Nat, loading : BOOLEAN,
               stage : {"input", "verify"}, wait : BOOLEAN, magic : BOOLEAN]

\* A token comes from a sign-in.
TokenOfSignIn(t) == t.op \in SignOps \cup {"session"} => t.for \in SignOps

SignTypes ==
    /\ signedAs \in {"none", "stale"} \cup SignOps
    /\ screen \in Screens /\ signCalls \in Seq(SignRecs) /\ sessionPosts \in 0 .. SessionLimit
    /\ \A c \in DOMAIN signCalls : TokenOfSignIn(signCalls[c])

\* The calls of the panel on the screen that are under way.
Awaited(c) == c \in DOMAIN signCalls /\ OnScreen(c) /\ signCalls[c].pc # "heard"

SignInv ==
    /\ SignTypes
    /\ \A c \in DOMAIN signCalls : signCalls[c].panel <= screen.id
    /\ screen.loading => \E c \in DOMAIN signCalls : Awaited(c)
    /\ \A c \in DOMAIN signCalls : Awaited(c) => screen.loading
    /\ \A c, d \in DOMAIN signCalls : Awaited(c) /\ Awaited(d) => c = d

LEMMA SignStarts == SignInit => SignInv
<1> SUFFICES ASSUME SignInit PROVE SignInv
  OBVIOUS
<1>1. signCalls = <<>> /\ signCalls \in Seq(SignRecs) /\ DOMAIN signCalls = {}
  BY DEF SignInit
<1>2. screen \in Screens /\ ~screen.loading
  BY DEF SignInit, Panel, Screens
<1> QED
  BY <1>1, <1>2, SignInAssumption DEF SignInit, SignInv, SignTypes, Awaited

\* The steps of a page that leave its calls alone keep the panel as busy as it
\* was, or mount another.
LEMMA ScreenMoves ==
    ASSUME SignInv, screen' \in Screens, UNCHANGED <<signCalls, sessionPosts>>,
           signedAs' \in {"none", "stale"} \cup SignOps,
           \/ screen'.id = screen.id /\ screen'.loading = screen.loading
           \/ screen'.id = screen.id + 1 /\ ~screen'.loading
    PROVE  SignInv'
<1>1. screen.id \in Nat /\ screen'.id \in Nat /\ \A c \in DOMAIN signCalls : signCalls[c].panel \in Nat
  <2>1. \A c \in DOMAIN signCalls : signCalls[c] \in SignRecs
    BY DEF SignInv, SignTypes
  <2> QED
    BY <2>1 DEF SignInv, SignTypes, Screens, SignRecs
<1>2. SignTypes'
  BY DEF SignInv, SignTypes, TokenOfSignIn
<1>3. CASE screen'.id = screen.id /\ screen'.loading = screen.loading
  BY <1>1, <1>2, <1>3 DEF SignInv, Awaited, OnScreen
<1>4. CASE screen'.id = screen.id + 1 /\ ~screen'.loading
  <2>1. \A c \in DOMAIN signCalls : ~Awaited(c)' /\ signCalls[c].panel <= screen'.id
    BY <1>1, <1>4 DEF SignInv, Awaited, OnScreen
  <2> QED
    BY <1>2, <1>4, <2>1 DEF SignInv
<1> QED
  BY <1>3, <1>4

\* A page that is loaded anew hears nothing of the calls of the old one.
LEMMA PageAnew ==
    ASSUME SignInv, screen' \in Screens, ~screen'.loading, screen'.id = screen.id + 1,
           signCalls' = [c \in DOMAIN signCalls |-> [signCalls[c] EXCEPT !.pc = "heard"]],
           signedAs' \in {"none", "stale"} \cup SignOps, UNCHANGED sessionPosts
    PROVE  SignInv'
<1>1. screen.id \in Nat /\ \A c \in DOMAIN signCalls : signCalls[c] \in SignRecs
  BY DEF SignInv, SignTypes, Screens
<1>2. /\ DOMAIN signCalls' = DOMAIN signCalls
      /\ \A c \in DOMAIN signCalls : /\ signCalls'[c] \in SignRecs /\ signCalls'[c].pc = "heard"
                                     /\ signCalls'[c].panel = signCalls[c].panel
                                     /\ signCalls'[c].op = signCalls[c].op /\ signCalls'[c].for = signCalls[c].for
  BY <1>1 DEF SignRecs
<1>3. signCalls' \in Seq(SignRecs)
  <2>1. DOMAIN signCalls = 1..Len(signCalls) /\ Len(signCalls) \in Nat
    BY DEF SignInv, SignTypes
  <2>2. signCalls' = [c \in 1..Len(signCalls) |-> signCalls'[c]]
    BY <2>1
  <2> QED
    BY <1>2, <2>1, <2>2
<1>4. SignTypes'
  BY <1>2, <1>3 DEF SignInv, SignTypes, TokenOfSignIn
<1>5. \A c \in DOMAIN signCalls' : ~Awaited(c)' /\ signCalls'[c].panel <= screen'.id
  <2>1. \A c \in DOMAIN signCalls : signCalls[c].panel \in Nat
    BY <1>1 DEF SignRecs
  <2> QED
    BY <1>1, <1>2, <2>1 DEF SignInv, Awaited
<1> QED
  BY <1>4, <1>5 DEF SignInv

\* A call of a panel is answered, or heard, which ends the wait of its panel
\* if that is the one on the screen, or mounts another.
LEMMA CallGoes ==
    ASSUME SignInv, NEW c \in DOMAIN signCalls, signCalls[c].pc # "heard",
           NEW r \in SignRecs, r.panel = signCalls[c].panel, r.op = signCalls[c].op, r.for = signCalls[c].for,
           signCalls' = [signCalls EXCEPT ![c] = r],
           signedAs' \in {"none", "stale"} \cup SignOps, sessionPosts' \in 0 .. SessionLimit, screen' \in Screens,
           \/ r.pc # "heard" /\ screen' = screen
           \/ r.pc = "heard" /\ screen'.id = screen.id /\ screen'.loading = (screen.loading /\ ~OnScreen(c))
           \/ screen'.id = screen.id + 1 /\ ~screen'.loading
    PROVE  SignInv'
<1>1. screen.id \in Nat /\ signCalls \in Seq(SignRecs) /\ \A d \in DOMAIN signCalls : signCalls[d].panel \in Nat
  <2>1. \A d \in DOMAIN signCalls : signCalls[d] \in SignRecs
    BY DEF SignInv, SignTypes
  <2> QED
    BY <2>1 DEF SignInv, SignTypes, Screens, SignRecs
<1>2. /\ DOMAIN signCalls' = DOMAIN signCalls /\ signCalls' \in Seq(SignRecs) /\ signCalls'[c] = r
      /\ \A d \in DOMAIN signCalls : d # c => signCalls'[d] = signCalls[d]
  BY <1>1
<1>3. \A d \in DOMAIN signCalls : /\ signCalls'[d].panel = signCalls[d].panel
                                  /\ signCalls'[d].op = signCalls[d].op /\ signCalls'[d].for = signCalls[d].for
  BY <1>2
<1>4. SignTypes'
  BY <1>2, <1>3 DEF SignInv, SignTypes, TokenOfSignIn
<1>5. CASE r.pc # "heard" /\ screen' = screen
  <2>1. \A d \in DOMAIN signCalls : Awaited(d)' = Awaited(d)
    BY <1>2, <1>3, <1>5 DEF Awaited, OnScreen
  <2> QED
    BY <1>2, <1>3, <1>4, <1>5, <2>1 DEF SignInv
<1>6. CASE r.pc = "heard" /\ screen'.id = screen.id /\ screen'.loading = (screen.loading /\ ~OnScreen(c))
  <2>1. \A d \in DOMAIN signCalls : Awaited(d)' <=> Awaited(d) /\ d # c
    BY <1>2, <1>3, <1>6 DEF Awaited, OnScreen
  <2>2. OnScreen(c) => Awaited(c)
    BY DEF Awaited
  <2>3. Awaited(c) => OnScreen(c)
    BY DEF Awaited
  <2> QED
    BY <1>2, <1>3, <1>4, <1>6, <2>1, <2>2, <2>3, ZenonT(30) DEF SignInv
<1>7. CASE screen'.id = screen.id + 1 /\ ~screen'.loading
  <2>1. \A d \in DOMAIN signCalls : ~Awaited(d)' /\ signCalls'[d].panel <= screen'.id
    BY <1>1, <1>2, <1>3, <1>7 DEF SignInv, Awaited, OnScreen
  <2> QED
    BY <1>2, <1>4, <1>7, <2>1 DEF SignInv
<1> QED
  BY <1>5, <1>6, <1>7

\* A call is added: by a press of a button, or by a panel whose sign-in has
\* just been answered.
LEMMA CallAdded ==
    ASSUME SignInv, NEW h \in Seq(SignRecs), DOMAIN h = DOMAIN signCalls,
           NEW r \in SignRecs, TokenOfSignIn(r), r.pc = "sent",
           signCalls' = h \o <<r>>, screen' \in Screens, screen'.id = screen.id,
           UNCHANGED <<signedAs, sessionPosts>>,
           \/ h = signCalls /\ r.panel = screen.id /\ ~screen.loading /\ screen'.loading
           \/ \E c \in DOMAIN signCalls :
                 /\ signCalls[c].pc # "heard" /\ r.panel = signCalls[c].panel /\ screen' = screen
                 /\ h = [signCalls EXCEPT ![c] = [signCalls[c] EXCEPT !.pc = "heard"]]
    PROVE  SignInv'
<1>1. /\ screen.id \in Nat /\ signCalls \in Seq(SignRecs) /\ Len(signCalls) \in Nat
      /\ DOMAIN signCalls = 1..Len(signCalls) /\ DOMAIN h = 1..Len(h) /\ Len(h) \in Nat
      /\ \A d \in DOMAIN signCalls : signCalls[d] \in SignRecs
  BY DEF SignInv, SignTypes, Screens
<1>2. \A d \in DOMAIN signCalls : signCalls[d].panel \in Nat
  BY <1>1 DEF SignRecs
<1>a. PICK n \in Nat : n = Len(signCalls) + 1
  BY <1>1
<1>3. Len(h) = Len(signCalls)
  BY <1>1
<1>4. /\ signCalls' \in Seq(SignRecs) /\ DOMAIN signCalls' = DOMAIN signCalls \cup {n} /\ n \notin DOMAIN signCalls
      /\ signCalls'[n] = r /\ \A d \in DOMAIN signCalls : signCalls'[d] = h[d]
  BY <1>1, <1>3, <1>a
<1>5. \A d \in DOMAIN signCalls : /\ h[d].panel = signCalls[d].panel
                                  /\ h[d].op = signCalls[d].op /\ h[d].for = signCalls[d].for
  <2>1. CASE h = signCalls
    BY <2>1
  <2>2. ASSUME NEW c \in DOMAIN signCalls, h = [signCalls EXCEPT ![c] = [signCalls[c] EXCEPT !.pc = "heard"]]
        PROVE  <1>5
    BY <1>1, <2>2 DEF SignRecs
  <2> QED
    BY <2>1, <2>2
<1>6. SignTypes'
  BY <1>4, <1>5 DEF SignInv, SignTypes, TokenOfSignIn
<1>7. \A d \in DOMAIN signCalls' : signCalls'[d].panel <= screen'.id
  BY <1>1, <1>2, <1>4, <1>5 DEF SignInv
<1>8. CASE h = signCalls /\ r.panel = screen.id /\ ~screen.loading /\ screen'.loading
  <2>1. \A d \in DOMAIN signCalls' : Awaited(d)' <=> d = n
    BY <1>4, <1>8 DEF SignInv, Awaited, OnScreen
  <2> QED
    BY <1>4, <1>6, <1>7, <1>8, <2>1 DEF SignInv
<1>9. ASSUME NEW c \in DOMAIN signCalls, signCalls[c].pc # "heard", r.panel = signCalls[c].panel, screen' = screen,
             h = [signCalls EXCEPT ![c] = [signCalls[c] EXCEPT !.pc = "heard"]]
      PROVE  SignInv'
  <2>1. h[c].pc = "heard" /\ \A d \in DOMAIN signCalls : d # c => h[d] = signCalls[d]
    BY <1>1, <1>9 DEF SignRecs
  <2>2. \A d \in DOMAIN signCalls : Awaited(d)' <=> Awaited(d) /\ d # c
    BY <1>4, <1>5, <1>9, <2>1 DEF Awaited, OnScreen
  <2>3. Awaited(n)' <=> Awaited(c)
    BY <1>4, <1>9 DEF Awaited, OnScreen
  <2> QED
    BY <1>4, <1>6, <1>7, <1>9, <2>2, <2>3 DEF SignInv
<1> QED
  BY <1>8, <1>9

\* A call of the panel on the screen.
LEMMA SignCalled ==
    ASSUME SignInv, NEW op \in SignAllOps, NEW for \in SignAllOps, NEW p \in Nat
    PROVE  LET r == [SignCall(op, for) EXCEPT !.panel = p] IN
           r \in SignRecs /\ r.op = op /\ r.for = for /\ r.panel = p /\ r.pc = "sent"
BY DEF SignCall, SignRecs

LEMMA PressKeeps ==
    ASSUME SignInv, NEW op \in SignOps \cup SendOps, Press(op)
    PROVE  SignInv'
<1>1. screen \in Screens /\ signCalls \in Seq(SignRecs) /\ screen.id \in Nat /\ op \in SignAllOps
  BY DEF SignInv, SignTypes, Screens, SignAllOps
<1>2. screen' \in Screens /\ screen'.id = screen.id /\ ~screen.loading /\ screen'.loading
  BY <1>1 DEF Press, Screens
<1>3. PICK r : r = SignCall(op, op)
  OBVIOUS
<1>4. r \in SignRecs /\ r.op = op /\ r.for = op /\ r.panel = screen.id /\ r.pc = "sent"
  BY <1>1, <1>3 DEF SignCall, SignRecs
<1>5. signCalls' = signCalls \o <<r>>
  BY <1>1, <1>3, <1>4 DEF Press, SignAsks
<1>6. TokenOfSignIn(r)
  BY <1>4 DEF TokenOfSignIn, SignOps, SendOps
<1>7. UNCHANGED <<signedAs, sessionPosts>>
  BY DEF Press
<1> QED
  BY <1>1, <1>2, <1>4, <1>5, <1>6, <1>7, CallAdded

LEMMA SignKeeps == SignInv /\ SignNext => SignInv'
<1> SUFFICES ASSUME SignInv, SignNext PROVE SignInv'
  OBVIOUS
<1>1. /\ screen \in Screens /\ signCalls \in Seq(SignRecs) /\ screen.id \in Nat
      /\ signedAs \in {"none", "stale"} \cup SignOps /\ sessionPosts \in 0 .. SessionLimit
      /\ \A c \in DOMAIN signCalls : signCalls[c] \in SignRecs
  BY DEF SignInv, SignTypes, Screens
<1>2. CASE \/ HandleSignIn \/ HandleMagicLink \/ HandleSendOTP \/ HandleVerify \/ HandleResend \/ HandleSignUp
  BY <1>2, PressKeeps DEF HandleSignIn, HandleMagicLink, HandleSendOTP, HandleVerify, HandleResend, HandleSignUp,
                          SignOps, SendOps
<1>3. CASE BackToSignIn \/ ChangeNumber \/ CountdownEnds \/ \E tab \in {"email", "mobile"} : SetActiveTab(tab)
  <2>1. /\ UNCHANGED <<signedAs, signCalls, sessionPosts>> /\ screen' \in Screens
        /\ \/ screen'.id = screen.id /\ screen'.loading = screen.loading
           \/ screen'.id = screen.id + 1 /\ ~screen'.loading
    <3>1. CASE BackToSignIn \/ ChangeNumber \/ CountdownEnds
      BY <1>1, <3>1 DEF BackToSignIn, ChangeNumber, CountdownEnds, PanelOnly, Screens
    <3>2. ASSUME NEW tab \in {"email", "mobile"}, SetActiveTab(tab) PROVE <2>1
      BY <1>1, <3>2 DEF SetActiveTab, PanelOnly, Panel, Screens
    <3> QED
      BY <1>3, <3>1, <3>2
  <2> QED
    BY <1>1, <2>1, ScreenMoves
<1>4. ASSUME NEW path \in {"login", "signup", "app"} PROVE
        /\ Lands(path) \in {"login", "signup", "app"} /\ FreshPanel(path) \in Screens
        /\ FreshPanel(path).id = screen.id + 1 /\ ~FreshPanel(path).loading
  BY <1>1 DEF Lands, FreshPanel, Panel, Screens
<1>5. ASSUME NEW path \in {"login", "signup", "app"}, Passes(path), Lands(path) # screen.path
      PROVE  /\ signedAs' \in {"none", "stale"} \cup SignOps /\ screen' \in Screens
             /\ screen'.id = screen.id + 1 /\ ~screen'.loading
  BY <1>1, <1>4, <1>5 DEF Passes
<1>6. CASE ToLogin
  <2>1. Lands("login") # screen.path
    BY <1>6 DEF ToLogin, Lands
  <2> QED
    BY <1>1, <1>5, <1>6, <2>1, ScreenMoves DEF ToLogin
<1>7. CASE ToSignup
  <2>1. Lands("signup") # screen.path
    BY <1>7 DEF ToSignup, Lands
  <2> QED
    BY <1>1, <1>5, <1>7, <2>1, PageAnew DEF ToSignup, LoadAnew
<1>8. CASE Revisit
  <2>1. Lands("app") # screen.path
    BY <1>8 DEF Revisit, Lands
  <2> QED
    BY <1>1, <1>5, <1>8, <2>1, PageAnew DEF Revisit, LoadAnew
<1>9. CASE LogOut
  BY <1>1, <1>4, <1>9, PageAnew DEF LogOut
<1>10. CASE TokenExpires \/ WindowEnds
  <2>1. signedAs' \in {"none", "stale"} \cup SignOps /\ sessionPosts' \in 0 .. SessionLimit /\ UNCHANGED <<screen, signCalls>>
    BY <1>1, <1>10, SignInAssumption DEF TokenExpires, WindowEnds
  <2> QED
    BY <2>1 DEF SignInv, SignTypes, TokenOfSignIn, Awaited, OnScreen
<1>11. ASSUME NEW c \in 1 .. MaxSignCalls, \/ ApiAnswers(c) \/ PostSession(c) \/ CheckRateLimit(c)
       PROVE  SignInv'
  <2>1. PICK ok \in {"yes", "no", "lost"} : SignAnswered(c, ok)
    BY <1>11 DEF ApiAnswers, PostSession, CheckRateLimit
  <2>2. c \in DOMAIN signCalls /\ signCalls[c].pc = "sent" /\ screen' = screen
    BY <1>11 DEF ApiAnswers, PostSession, CheckRateLimit, SignAt
  <2>3. signCalls[c] \in SignRecs /\ TokenOfSignIn(signCalls[c])
    BY <1>1, <2>2 DEF SignInv, SignTypes
  <2>4. signedAs' \in {"none", "stale"} \cup SignOps /\ sessionPosts' \in 0 .. SessionLimit
    BY <1>1, <1>11, <2>3, SignInAssumption DEF ApiAnswers, PostSession, CheckRateLimit, SignAt, TokenOfSignIn
  <2>5. PICK r : r = [signCalls[c] EXCEPT !.pc = "answered", !.ok = ok]
    OBVIOUS
  <2>6. r \in SignRecs /\ r.pc = "answered" /\ r.panel = signCalls[c].panel /\ r.op = signCalls[c].op /\ r.for = signCalls[c].for
    BY <2>1, <2>3, <2>5 DEF SignRecs
  <2>7. signCalls' = [signCalls EXCEPT ![c] = r]
    BY <2>1, <2>5 DEF SignAnswered
  <2> QED
    BY <1>1, <2>2, <2>4, <2>6, <2>7, CallGoes
<1>12. ASSUME NEW c \in 1 .. MaxSignCalls, \/ HearToken(c) \/ HearSent(c) \/ HearSession(c)
       PROVE  SignInv'
  <2>1. c \in DOMAIN signCalls /\ signCalls[c].pc = "answered" /\ signCalls[c].op \in SignAllOps
    BY <1>12 DEF HearToken, HearSent, HearSession, SignAt, SignAllOps
  <2>2. signCalls[c] \in SignRecs /\ TokenOfSignIn(signCalls[c])
    BY <1>1, <2>1 DEF SignInv, SignTypes
  <2>3. PICK r : r = [signCalls[c] EXCEPT !.pc = "heard"]
    OBVIOUS
  <2>4. r \in SignRecs /\ r.pc = "heard" /\ r.panel = signCalls[c].panel /\ r.op = signCalls[c].op /\ r.for = signCalls[c].for
    BY <2>2, <2>3 DEF SignRecs
  <2>5. PICK h : h = [signCalls EXCEPT ![c] = r]
    OBVIOUS
  <2>6. h \in Seq(SignRecs) /\ DOMAIN h = DOMAIN signCalls /\ h \o <<>> = h
    <3>1. h \in Seq(SignRecs) /\ DOMAIN h = DOMAIN signCalls
      BY <1>1, <2>1, <2>4, <2>5
    <3>2. h \o <<>> = h
      BY <3>1
    <3> QED
      BY <3>1, <3>2
  <2>7. [signCalls EXCEPT ![c].pc = "heard"] = h
    BY <2>3, <2>5
  <2>8. SignHears(c, <<>>) => signCalls' = h /\ sessionPosts' = sessionPosts
    BY <2>6, <2>7 DEF SignHears
  <2>9. ASSUME NEW s \in Screens, s.id = screen.id, s.loading = screen.loading, PanelEnds(c, s)
        PROVE  screen' \in Screens /\ screen'.id = screen.id /\ screen'.loading = (screen.loading /\ ~OnScreen(c))
    BY <1>1, <2>9 DEF PanelEnds, Screens
  <2>10. CASE HearToken(c)
    <3>1. CASE signCalls[c].ok = "yes"
      <4>1. PICK q : q = [SignCall("session", signCalls[c].for) EXCEPT !.panel = signCalls[c].panel]
        OBVIOUS
      <4>2. signCalls[c].for \in SignOps /\ signCalls[c].panel \in Nat
        BY <2>2, <2>10 DEF HearToken, SignAt, TokenOfSignIn, SignRecs
      <4>3. q \in SignRecs /\ q.op = "session" /\ q.for = signCalls[c].for /\ q.panel = signCalls[c].panel /\ q.pc = "sent"
        BY <4>1, <4>2 DEF SignCall, SignRecs, SignAllOps
      <4>4. TokenOfSignIn(q)
        BY <4>2, <4>3 DEF TokenOfSignIn
      <4>5. signCalls' = h \o <<q>> /\ UNCHANGED <<signedAs, screen, sessionPosts>>
        BY <2>7, <2>10, <3>1, <4>1 DEF HearToken, SignHears
      <4>6. h = [signCalls EXCEPT ![c] = [signCalls[c] EXCEPT !.pc = "heard"]]
        BY <2>3, <2>5
      <4> QED
        BY <1>1, <2>1, <2>6, <4>3, <4>4, <4>5, <4>6, CallAdded
    <3>2. CASE signCalls[c].ok # "yes"
      <4>1. PanelEnds(c, screen) /\ SignHears(c, <<>>) /\ signedAs' = signedAs
        BY <2>10, <3>2 DEF HearToken
      <4>2. screen' \in Screens /\ screen'.id = screen.id /\ screen'.loading = (screen.loading /\ ~OnScreen(c))
        BY <1>1, <2>9, <4>1
      <4>3. signCalls' = [signCalls EXCEPT ![c] = r] /\ sessionPosts' = sessionPosts
        BY <2>5, <2>8, <4>1
      <4> QED
        BY <1>1, <2>1, <2>4, <4>1, <4>2, <4>3, CallGoes
    <3> QED
      BY <3>1, <3>2
  <2>11. CASE HearSent(c)
    <3>1. PICK s : /\ PanelEnds(c, s) /\ SignHears(c, <<>>) /\ signedAs' = signedAs
                   /\ s \in {screen, [screen EXCEPT !.magic = TRUE], [screen EXCEPT !.stage = "verify", !.wait = TRUE],
                             [screen EXCEPT !.stage = screen.stage, !.wait = TRUE]}
      BY <2>11 DEF HearSent
    <3>2. s \in Screens /\ s.id = screen.id /\ s.loading = screen.loading
      BY <1>1, <3>1 DEF Screens
    <3>3. screen' \in Screens /\ screen'.id = screen.id /\ screen'.loading = (screen.loading /\ ~OnScreen(c))
      BY <2>9, <3>1, <3>2
    <3>4. signCalls' = [signCalls EXCEPT ![c] = r] /\ sessionPosts' = sessionPosts
      BY <2>5, <2>8, <3>1
    <3> QED
      BY <1>1, <2>1, <2>4, <3>1, <3>3, <3>4, CallGoes
  <2>12. CASE HearSession(c)
    <3>1. signCalls' = [signCalls EXCEPT ![c] = r] /\ sessionPosts' = sessionPosts
      BY <2>5, <2>8, <2>12 DEF HearSession
    <3>2. signedAs' \in {"none", "stale"} \cup SignOps
      BY <1>1, <2>12 DEF HearSession
    <3>3. CASE PanelEnds(c, screen)
      <4>1. screen' \in Screens /\ screen'.id = screen.id /\ screen'.loading = (screen.loading /\ ~OnScreen(c))
        BY <1>1, <2>9, <3>3
      <4> QED
        BY <1>1, <2>1, <2>4, <3>1, <3>2, <4>1, CallGoes
    <3>4. CASE screen' = FreshPanel(Lands("app"))
      <4>1. screen' \in Screens /\ screen'.id = screen.id + 1 /\ ~screen'.loading
        BY <1>4, <3>4
      <4> QED
        BY <1>1, <2>1, <2>4, <3>1, <3>2, <4>1, CallGoes
    <3> QED
      BY <2>12, <3>3, <3>4 DEF HearSession
  <2> QED
    BY <1>12, <2>10, <2>11, <2>12
<1> QED
  BY <1>2, <1>3, <1>6, <1>7, <1>8, <1>9, <1>10, <1>11, <1>12 DEF SignNext

LEMMA SignImplies == SignInv => SignTypeOK /\ OneSignInAtOnce
<1> SUFFICES ASSUME SignInv PROVE SignTypeOK /\ OneSignInAtOnce
  OBVIOUS
<1>1. SignTypeOK
  BY DEF SignInv, SignTypes, SignTypeOK, Screens
<1>2. PICK W : W = {c \in DOMAIN signCalls : OnScreen(c) /\ signCalls[c].pc # "heard"}
  OBVIOUS
<1>3. CASE screen.loading
  <2>1. PICK c \in DOMAIN signCalls : Awaited(c)
    BY <1>3 DEF SignInv
  <2>2. W = {c}
    BY <1>2, <2>1 DEF SignInv, Awaited
  <2> QED
    BY <1>1, <1>2, <1>3, <2>2, FS_Singleton DEF OneSignInAtOnce
<1>4. CASE ~screen.loading
  <2>1. W = {}
    BY <1>2, <1>4 DEF SignInv, Awaited
  <2> QED
    BY <1>1, <1>2, <1>4, <2>1, FS_EmptySet DEF OneSignInAtOnce
<1> QED
  BY <1>3, <1>4

LEMMA SignStands == SignInv /\ UNCHANGED signVars => SignInv'
BY DEF SignInv, SignTypes, TokenOfSignIn, Awaited, OnScreen, signVars
===============================================================================
