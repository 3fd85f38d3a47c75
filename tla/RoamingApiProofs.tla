-------------------------- MODULE RoamingApiProofs --------------------------
(***************************************************************************)
(* The publish clients and the uplinks of the roaming API, for every number  *)
(* of brokers, configuration requests and uplinks.                          *)
(***************************************************************************)
EXTENDS RoamingApi, TLAPS

\* The map of publish clients is all there is: a client was created exactly for
\* the brokers that are in it, once.
AllCached ==
    \A b \in Broker : created[b] = IF publishClients[b] = "none" THEN 0 ELSE 1

PublisherType ==
    /\ publishClients \in [Broker -> {"none", "open", "lost"}]
    /\ created \in [Broker -> Nat]

PInv == PublisherType /\ AllCached

\* getOrCreatePublishClient keeps the map complete.
LEMMA CreateStep ==
    ASSUME PInv, NEW b, NEW got \in BOOLEAN, CreateUnderMutex(b, got)
    PROVE  PInv'
<1>1. CASE UNCHANGED publishVars
  BY <1>1 DEF PInv, PublisherType, AllCached, publishVars
<1>2. CASE /\ b \in Broker
           /\ ~ Cached(b)
           /\ publishClients' = [publishClients EXCEPT ![b] = "open"]
           /\ created' = [created EXCEPT ![b] = @ + 1]
  <2>1. publishClients[b] = "none" /\ created[b] = 0
    BY <1>2 DEF Cached, PInv, AllCached
  <2>2. PublisherType'
    BY <1>2 DEF PInv, PublisherType
  <2>3. AllCached'
    BY <1>2, <2>1 DEF PInv, PublisherType, AllCached
  <2> QED
    BY <2>2, <2>3 DEF PInv
<1> QED
  BY <1>1, <1>2 DEF CreateUnderMutex

LEMMA PInvStep == PInv /\ [ApiNext]_apiVars => PInv'
<1> SUFFICES ASSUME PInv, [ApiNext]_apiVars
             PROVE  PInv'
  OBVIOUS
<1>1. ASSUME UNCHANGED publishVars PROVE PInv'
  BY <1>1 DEF PInv, PublisherType, AllCached, publishVars
<1>2. ASSUME NEW c \in Request, PrepareAdded(c) PROVE PInv'
  BY <1>1, <1>2, CreateStep DEF PrepareAdded
<1>3. ASSUME NEW c \in Request, PrepareNs(c) PROVE PInv'
  BY <1>1, <1>3, CreateStep DEF PrepareNs
<1>4. ASSUME NEW c \in Request, GetPublishClient(c) PROVE PInv'
  BY <1>1, <1>4, CreateStep DEF GetPublishClient
<1>5. ASSUME NEW b \in Broker, PublisherStep(b) PROVE PInv'
  BY <1>5 DEF PublisherStep, PInv, PublisherType, AllCached
<1>6. ASSUME NEW c \in Request,
             \/ \E b \in Body : handleRequest(c, b)
             \/ HealthCheck(c)
             \/ initMQTTClient(c)
             \/ subscribeToTopic(c)
      PROVE  PInv'
  BY <1>1, <1>6 DEF handleRequest, HealthCheck, initMQTTClient, subscribeToTopic
<1>7. ASSUME NEW c \in Request, onMessage(c) \/ CheckFailed(c) \/ Publish(c) \/ Accepted(c) \/ Rejected(c)
      PROVE  PInv'
  BY <1>1, <1>7 DEF onMessage, CheckFailed, Publish, Accepted, Rejected
<1>8. ASSUME NEW c \in Request, ConnectionLost(c) \/ Reconnect(c) PROVE PInv'
  BY <1>1, <1>8 DEF ConnectionLost, Reconnect
<1>9. ASSUME NEW u \in Uplink, Uplinks(u) PROVE PInv'
  BY <1>1, <1>9 DEF Uplinks
<1>10. CASE UNCHANGED apiVars
  BY <1>1, <1>10 DEF apiVars
<1> QED
  BY <1>2, <1>3, <1>4, <1>5, <1>6, <1>7, <1>8, <1>9, <1>10
  DEF ApiNext, ClientStep, RequestStep, HandlerStep

\* getOrCreatePublishClient never makes a second client for a broker, however many
\* handlers and requests ask for one at the same time.
THEOREM OneClientPerBrokerHolds == ApiSpec => []OneClientPerBroker
<1>1. ApiInit => PInv
  <2> SUFFICES ASSUME publishClients = [b \in Broker |-> "none"], created = [b \in Broker |-> 0]
               PROVE  PInv
    BY DEF ApiInit
  <2>1. PublisherType
    BY DEF PublisherType
  <2>2. AllCached
    BY DEF AllCached
  <2> QED
    BY <2>1, <2>2 DEF PInv
<1>2. PInv => OneClientPerBroker
  <2> SUFFICES ASSUME PInv, NEW b \in Broker
               PROVE  created[b] <= 1
    BY DEF OneClientPerBroker
  <2>1. created[b] = 0 \/ created[b] = 1
    BY DEF PInv, AllCached
  <2> QED
    BY <2>1
<1> QED
  BY <1>1, <1>2, PInvStep, PTL DEF ApiSpec
-----------------------------------------------------------------------------
(* Type correctness.                                                       *)

\* A message that is delivered is appended to inboxes of clients at that broker.
LEMMA DeliverInbox ==
    ASSUME ApiTypeOK, NEW b, NEW u \in Uplink, Deliver(b, u)
    PROVE  /\ inbox' \in [Request -> Seq(Uplink)]
           /\ \A c \in Request :
                 \/ inbox'[c] = inbox[c]
                 \/ c \in OpenAt(b) /\ inbox'[c] = Append(inbox[c], u)
<1>1. \A c \in Request : inbox[c] \in Seq(Uplink) /\ Append(inbox[c], u) \in Seq(Uplink)
  BY DEF ApiTypeOK
<1> QED
  BY <1>1 DEF Deliver

LEMMA TakeOverType ==
    ASSUME ApiTypeOK, NEW c \in Request, NEW b, TakeOver(c, b)
    PROVE  conn' \in [Request -> Connection] /\ subscribed' \in [Request -> BOOLEAN]
<1>1. \A d \in Request :
         (IF d = c THEN "open" ELSE IF d \in OpenAt(b) THEN "lost" ELSE conn[d]) \in Connection
  BY DEF ApiTypeOK, Connection
<1> QED
  BY <1>1 DEF TakeOver

\* Where getOrCreatePublishClient returns a client, it was asked for a broker.
LEMMA CreateType ==
    ASSUME ApiTypeOK, NEW b, NEW got \in BOOLEAN, CreateUnderMutex(b, got)
    PROVE  /\ publishClients' \in [Broker -> {"none", "open", "lost"}]
           /\ created' \in [Broker -> Nat]
           /\ got => b \in Broker
<1>1. CASE UNCHANGED publishVars
  BY <1>1 DEF ApiTypeOK, publishVars, CreateUnderMutex, Cached
<1>2. CASE /\ b \in Broker
           /\ publishClients' = [publishClients EXCEPT ![b] = "open"]
           /\ created' = [created EXCEPT ![b] = @ + 1]
  BY <1>2 DEF ApiTypeOK
<1> QED
  BY <1>1, <1>2 DEF CreateUnderMutex

\* The steps of a request keep the types.
LEMMA RequestType ==
    ASSUME ApiTypeOK, NEW c \in Request,
           (\E b \in Body : handleRequest(c, b)) \/ RequestStep(c)
    PROVE  ApiTypeOK'
<1> USE DEF configVars, clientVars, handlerVars, publishVars, historyVars
<1>1. ASSUME NEW b \in Body, handleRequest(c, b) PROVE ApiTypeOK'
  <2>1. b.ns \in Broker \cup {NoBroker} /\ b.added \in Broker \cup {NoBroker} /\ b.url \in BOOLEAN
    BY ApiAssumption
  <2>2. rpc' \in [Request -> {"new", "health", "connect", "added", "addedLock", "ns", "nsLock",
                              "subscribe", "done"}]
    BY <1>1 DEF handleRequest, RequestGoto, ApiTypeOK
  <2>3. BlockchainEnabled' \in BOOLEAN
    BY <1>1, <2>1 DEF handleRequest, ApiTypeOK
  <2> QED
    BY <1>1, <2>1, <2>2, <2>3 DEF handleRequest, ApiTypeOK
<1>2. CASE HealthCheck(c)
  BY <1>2 DEF HealthCheck, RequestGoto, ApiTypeOK
<1>3. CASE initMQTTClient(c)
  <2>1. conn' \in [Request -> Connection] /\ subscribed' \in [Request -> BOOLEAN]
    <3>1. CASE TakeOver(c, AddedBroker)
      BY <3>1, TakeOverType
    <3>2. CASE conn' = [conn EXCEPT ![c] = "dead"] /\ UNCHANGED subscribed
      BY <3>2 DEF ApiTypeOK, Connection
    <3> QED
      BY <1>3, <3>1, <3>2 DEF initMQTTClient
  <2>2. at' \in [Request -> Broker \cup {NoBroker}]
    BY <1>3 DEF initMQTTClient, ApiTypeOK
  <2>3. rpc' \in [Request -> {"new", "health", "connect", "added", "addedLock", "ns", "nsLock",
                              "subscribe", "done"}]
    BY <1>3 DEF initMQTTClient, RequestGoto, ApiTypeOK
  <2> QED
    BY <1>3, <2>1, <2>2, <2>3 DEF initMQTTClient, ApiTypeOK
<1>4. CASE PrepareAdded(c)
  <2>1. /\ publishClients' \in [Broker -> {"none", "open", "lost"}]
        /\ created' \in [Broker -> Nat]
    BY <1>4, CreateType DEF PrepareAdded, ApiTypeOK
  <2>2. rpc' \in [Request -> {"new", "health", "connect", "added", "addedLock", "ns", "nsLock",
                              "subscribe", "done"}]
    BY <1>4 DEF PrepareAdded, RequestGoto, ApiTypeOK
  <2> QED
    BY <1>4, <2>1, <2>2 DEF PrepareAdded, ApiTypeOK
<1>5. CASE PrepareNs(c)
  <2>1. /\ publishClients' \in [Broker -> {"none", "open", "lost"}]
        /\ created' \in [Broker -> Nat]
    BY <1>5, CreateType DEF PrepareNs, ApiTypeOK
  <2>2. rpc' \in [Request -> {"new", "health", "connect", "added", "addedLock", "ns", "nsLock",
                              "subscribe", "done"}]
    BY <1>5 DEF PrepareNs, RequestGoto, ApiTypeOK
  <2> QED
    BY <1>5, <2>1, <2>2 DEF PrepareNs, ApiTypeOK
<1>6. CASE subscribeToTopic(c)
  BY <1>6 DEF subscribeToTopic, RequestGoto, ApiTypeOK
<1> QED
  BY <1>1, <1>2, <1>3, <1>4, <1>5, <1>6 DEF RequestStep

\* So do the steps of onMessage.
LEMMA HandlerType ==
    ASSUME ApiTypeOK, NEW c \in Request, HandlerStep(c) \/ Accepted(c) \/ Rejected(c)
    PROVE  ApiTypeOK'
<1> USE DEF configVars, clientVars, handlerVars, publishVars, historyVars
<1>1. CASE onMessage(c)
  <2>1. inbox[c] \in Seq(Uplink) /\ inbox[c] # <<>>
    BY <1>1 DEF onMessage, ApiTypeOK
  <2>2. Head(inbox[c]) \in Uplink /\ Tail(inbox[c]) \in Seq(Uplink)
    BY <2>1
  <2>3. inbox' \in [Request -> Seq(Uplink)] /\ uplink' \in [Request -> Uplink]
    BY <1>1, <2>2 DEF onMessage, ApiTypeOK
  <2>4. /\ hpc' \in [Request -> {"idle", "sla", "load", "lock", "publish"}]
        /\ target' \in [Request -> Broker \cup {NoBroker}]
        /\ \A d \in Request : hpc'[d] = "publish" => hpc[d] = "publish" /\ target'[d] = target[d]
    <3>1. CASE UNCHANGED <<hpc, target>>
      BY <3>1 DEF ApiTypeOK
    <3>2. ASSUME NEW l \in {"load", "sla"}, NEW b \in Broker \cup {NoBroker},
                 HandlerGoto(c, l), Target(c, b)
          PROVE  <2>4!:
      BY <3>2 DEF HandlerGoto, Target, ApiTypeOK
    <3>3. /\ AddedBroker \in Broker \cup {NoBroker}
          /\ NsIpAddress \in Broker \cup {NoBroker}
      BY DEF ApiTypeOK
    <3> QED
      BY <1>1, <3>1, <3>2, <3>3 DEF onMessage
  <2> QED
    BY <1>1, <2>3, <2>4 DEF onMessage, ApiTypeOK
<1>2. CASE Accepted(c)
  <2>1. \A token \in Broker \cup {NoBroker} :
           (IF token # NoBroker THEN token ELSE NsIpAddress) \in Broker \cup {NoBroker}
    BY DEF ApiTypeOK
  <2>2. /\ hpc' \in [Request -> {"idle", "sla", "load", "lock", "publish"}]
        /\ target' \in [Request -> Broker \cup {NoBroker}]
        /\ \A d \in Request : hpc'[d] = "publish" => hpc[d] = "publish" /\ target'[d] = target[d]
    BY <1>2, <2>1 DEF Accepted, HandlerGoto, Target, ApiTypeOK
  <2>3. granted' \subseteq Uplink
    BY <1>2 DEF Accepted, ApiTypeOK
  <2> QED
    BY <1>2, <2>2, <2>3 DEF Accepted, ApiTypeOK
<1>3. CASE Rejected(c)
  BY <1>3 DEF Rejected, HandlerGoto, ApiTypeOK
<1>4. CASE CheckFailed(c)
  BY <1>4 DEF CheckFailed, HandlerGoto, Target, ApiTypeOK
<1>5. CASE GetPublishClient(c)
  <2>1. /\ publishClients' \in [Broker -> {"none", "open", "lost"}]
        /\ created' \in [Broker -> Nat]
    BY <1>5, CreateType DEF GetPublishClient, ApiTypeOK
  <2>2. PICK l \in {"publish", "lock", "idle"} :
           HandlerGoto(c, l) /\ (l = "publish" => target[c] \in Broker)
    BY <1>5, CreateType DEF GetPublishClient, Cached
  <2>3. hpc' \in [Request -> {"idle", "sla", "load", "lock", "publish"}]
    BY <2>2 DEF HandlerGoto, ApiTypeOK
  <2>4. \A d \in Request : hpc'[d] = "publish" => target[d] \in Broker
    BY <2>2 DEF HandlerGoto, ApiTypeOK
  <2> QED
    BY <1>5, <2>1, <2>3, <2>4 DEF GetPublishClient, ApiTypeOK
<1>6. CASE Publish(c)
  <2>1. uplink[c] \in Uplink /\ target[c] \in Broker
    BY <1>6 DEF Publish, ApiTypeOK
  <2>2. inbox' \in [Request -> Seq(Uplink)]
    BY <1>6, <2>1, DeliverInbox DEF Publish, ApiTypeOK
  <2>3. copies' \in [Broker -> [Uplink -> 0 .. MaxCopies]]
    <3>1. \A n \in 0 .. MaxCopies : (IF n < MaxCopies THEN n + 1 ELSE n) \in 0 .. MaxCopies
      BY ApiAssumption
    <3>2. CASE copies' = copies
      BY <3>2 DEF ApiTypeOK
    <3>3. CASE copies' = [copies EXCEPT ![target[c]][uplink[c]] =
                             IF @ < MaxCopies THEN @ + 1 ELSE @]
      <4> DEFINE n == copies[target[c]][uplink[c]]
                 m == IF n < MaxCopies THEN n + 1 ELSE n
      <4>1. n \in 0 .. MaxCopies
        BY <2>1 DEF ApiTypeOK
      <4>2. m \in 0 .. MaxCopies
        BY <3>1, <4>1
      <4>3. copies' = [copies EXCEPT ![target[c]][uplink[c]] = m]
        BY <3>3
      <4> HIDE DEF m
      <4> QED
        BY <2>1, <4>2, <4>3 DEF ApiTypeOK
    <3> QED
      BY <1>6, <3>2, <3>3 DEF Publish
  <2>4. /\ hpc' \in [Request -> {"idle", "sla", "load", "lock", "publish"}]
        /\ \A d \in Request : hpc'[d] = "publish" => hpc[d] = "publish"
    BY <1>6 DEF Publish, HandlerGoto, ApiTypeOK
  <2> QED
    BY <1>6, <2>2, <2>3, <2>4 DEF Publish, ApiTypeOK
<1> QED
  BY <1>1, <1>2, <1>3, <1>4, <1>5, <1>6 DEF HandlerStep

\* And what brokers, connections and gateways do.
LEMMA OutsideType ==
    ASSUME ApiTypeOK,
           \/ \E c \in Request : ConnectionLost(c) \/ Reconnect(c)
           \/ \E b \in Broker : PublisherStep(b)
           \/ \E u \in Uplink : Uplinks(u)
    PROVE  ApiTypeOK'
<1> USE DEF configVars, clientVars, handlerVars, publishVars, historyVars
<1>1. ASSUME NEW c \in Request, ConnectionLost(c) PROVE ApiTypeOK'
  BY <1>1 DEF ConnectionLost, ApiTypeOK, Connection
<1>2. ASSUME NEW c \in Request, Reconnect(c) PROVE ApiTypeOK'
  <2>1. conn' \in [Request -> Connection] /\ subscribed' \in [Request -> BOOLEAN]
    BY <1>2, TakeOverType DEF Reconnect
  <2> QED
    BY <1>2, <2>1 DEF Reconnect, ApiTypeOK
<1>3. ASSUME NEW b \in Broker, PublisherStep(b) PROVE ApiTypeOK'
  BY <1>3 DEF PublisherStep, ApiTypeOK
<1>4. ASSUME NEW u \in Uplink, Uplinks(u) PROVE ApiTypeOK'
  <2>1. inbox' \in [Request -> Seq(Uplink)]
    BY <1>4, DeliverInbox DEF Uplinks
  <2> QED
    BY <1>4, <2>1 DEF Uplinks, ApiTypeOK
<1> QED
  BY <1>1, <1>2, <1>3, <1>4

LEMMA ApiTypeStep == ApiTypeOK /\ [ApiNext]_apiVars => ApiTypeOK'
<1> SUFFICES ASSUME ApiTypeOK, [ApiNext]_apiVars PROVE ApiTypeOK'
  OBVIOUS
<1>1. CASE UNCHANGED apiVars
  BY <1>1 DEF apiVars, configVars, clientVars, handlerVars, publishVars, historyVars, ApiTypeOK
<1> QED
  BY <1>1, RequestType, HandlerType, OutsideType DEF ApiNext, ClientStep

LEMMA ApiInitType == ApiInit => ApiTypeOK
<1> SUFFICES ASSUME ApiInit PROVE ApiTypeOK
  OBVIOUS
<1>1. (CHOOSE u \in Uplink : TRUE) \in Uplink
  BY ApiAssumption
<1>2. /\ uplink \in [Request -> Uplink] /\ inbox \in [Request -> Seq(Uplink)]
      /\ copies \in [Broker -> [Uplink -> 0 .. MaxCopies]]
  BY <1>1, ApiAssumption DEF ApiInit
<1>3. \A c \in Request : hpc[c] # "publish"
  BY DEF ApiInit
<1> QED
  BY <1>2, <1>3 DEF ApiInit, ApiTypeOK, Connection

\* Every state of the API is well typed; in particular Publish is never called on
\* the nil that getOrCreatePublishClient may return.
THEOREM ApiTypeCorrect == ApiSpec => []ApiTypeOK
BY ApiInitType, ApiTypeStep, PTL DEF ApiSpec
-----------------------------------------------------------------------------
(* Copies of uplinks.                                                      *)

\* One client id: a broker has at most one connection of the subscribing clients.
OneSession ==
    \A c, d \in Request : conn[c] = "open" /\ conn[d] = "open" /\ at[c] = at[d] => c = d

\* What is under way was published by a gateway and has not been refused; what was
\* refused was published by a gateway, which publishes an uplink once.
Known ==
    /\ refused \subseteq heard
    /\ \A u \in Uplink, c \in Request : \A i \in 0 .. Len(inbox[c]) :
          Holds(c, i, u) => u \in heard \ refused

(* OneCopy is inductive with the two: OneSession bounds what a delivery adds, *)
(* Known keeps gateways from adding a second copy.                            *)
CInv == ApiTypeOK /\ OneSession /\ OneCopy /\ Known

\* No step opens a second connection to a broker: the client that connects takes
\* over.
LEMMA SessionStep ==
    ASSUME ApiTypeOK, OneSession, [ApiNext]_apiVars
    PROVE  OneSession'
<1>0. ASSUME NEW c \in Request, NEW b, TakeOver(c, b), at' = [at EXCEPT ![c] = b]
      PROVE  OneSession'
  <2> SUFFICES ASSUME NEW x \in Request, NEW y \in Request,
                      conn'[x] = "open", conn'[y] = "open", at'[x] = at'[y], x # y
               PROVE  FALSE
    BY DEF OneSession
  <2>1. \A d \in Request :
           conn'[d] = IF d = c THEN "open" ELSE IF d \in OpenAt(b) THEN "lost" ELSE conn[d]
    BY <1>0 DEF TakeOver
  <2>2. \A d \in Request : d # c /\ conn'[d] = "open" => conn[d] = "open" /\ at[d] # b
    BY <2>1 DEF OpenAt
  <2>3. at'[c] = b /\ \A d \in Request : d # c => at'[d] = at[d]
    BY <1>0 DEF ApiTypeOK
  <2>4. x # c /\ y # c
    BY <2>2, <2>3
  <2> QED
    BY <2>2, <2>3, <2>4 DEF OneSession
<1>1. ASSUME NEW c \in Request, initMQTTClient(c) PROVE OneSession'
  <2>1. CASE TakeOver(c, AddedBroker)
    BY <1>0, <1>1, <2>1 DEF initMQTTClient
  <2>2. CASE conn' = [conn EXCEPT ![c] = "dead"]
    BY <1>1, <2>2 DEF initMQTTClient, OneSession, ApiTypeOK
  <2> QED
    BY <1>1, <2>1, <2>2 DEF initMQTTClient
<1>2. ASSUME NEW c \in Request, Reconnect(c) PROVE OneSession'
  <2>1. at' = [at EXCEPT ![c] = at[c]]
    BY <1>2 DEF Reconnect, ApiTypeOK
  <2> QED
    BY <1>0, <1>2, <2>1 DEF Reconnect
<1>3. ASSUME NEW c \in Request, ConnectionLost(c) PROVE OneSession'
  BY <1>3 DEF ConnectionLost, OneSession, ApiTypeOK
<1>4. CASE UNCHANGED <<conn, at>>
  BY <1>4 DEF OneSession
<1> QED
  BY <1>1, <1>2, <1>3, <1>4
  DEF ApiNext, ClientStep, RequestStep, HandlerStep, apiVars, clientVars, handleRequest,
      HealthCheck, PrepareAdded, PrepareNs, subscribeToTopic, onMessage, CheckFailed,
      GetPublishClient, Publish, Accepted, Rejected, PublisherStep, Uplinks

(* What a step may do to the copies.                                       *)

\* Nothing new is under way, and what was refused in this step is not.
Fewer ==
    /\ \A c \in Request, u \in Uplink : \A i \in 0 .. Len(inbox'[c]) :
          Holds(c, i, u)' => i \in 0 .. Len(inbox[c]) /\ Holds(c, i, u) /\ u \notin refused'
    /\ heard' = heard
    /\ refused' \subseteq heard

\* The handler of client c takes the first uplink out of its inbox.
Taken(c) ==
    /\ \A d \in Request \ {c}, u \in Uplink : \A i \in 0 .. Len(inbox'[d]) :
          Holds(d, i, u)' => i \in 0 .. Len(inbox[d]) /\ Holds(d, i, u)
    /\ \A u \in Uplink : \A i \in 0 .. Len(inbox'[c]) :
          Holds(c, i, u)' => i + 1 \in 0 .. Len(inbox[c]) /\ Holds(c, i + 1, u)
    /\ UNCHANGED <<heard, refused>>

\* Uplink u is delivered at broker b and under way nowhere else.
Arrives(b, u) ==
    /\ \A c \in Request, v \in Uplink : \A i \in 0 .. Len(inbox'[c]) :
          Holds(c, i, v)' =>
              \/ i \in 0 .. Len(inbox[c]) /\ Holds(c, i, v) /\ v # u
              \/ c \in OpenAt(b) /\ i = Len(inbox[c]) + 1 /\ v = u
    /\ u \in heard' \ refused
    /\ heard \subseteq heard'
    /\ UNCHANGED refused

CopyStep == Fewer \/ (\E c \in Request : Taken(c)) \/ (\E b, u : Arrives(b, u))

\* Each of them keeps at most one copy under way, of an uplink that is not refused.
LEMMA CopiesKept ==
    ASSUME CInv, CopyStep
    PROVE  OneCopy' /\ Known'
<1>1. CASE Fewer
  <2>1. OneCopy'
    BY <1>1 DEF Fewer, CInv, OneCopy
  <2>2. Known'
    BY <1>1 DEF Fewer, CInv, Known
  <2> QED
    BY <2>1, <2>2
<1>2. ASSUME NEW c \in Request, Taken(c) PROVE OneCopy' /\ Known'
  <2>0. \A d \in Request, u \in Uplink : \A i \in 0 .. Len(inbox'[d]) :
           Holds(d, i, u)' =>
               LET k == IF d = c THEN i + 1 ELSE i IN
               k \in 0 .. Len(inbox[d]) /\ Holds(d, k, u)
    BY <1>2 DEF Taken
  <2>1. OneCopy'
    <3> SUFFICES ASSUME NEW u \in Uplink, NEW x \in Request, NEW y \in Request,
                        NEW i \in 0 .. Len(inbox'[x]), NEW j \in 0 .. Len(inbox'[y]),
                        Holds(x, i, u)', Holds(y, j, u)'
                 PROVE  x = y /\ i = j
      BY DEF OneCopy
    <3> DEFINE k == IF x = c THEN i + 1 ELSE i
               l == IF y = c THEN j + 1 ELSE j
    <3>1. /\ k \in 0 .. Len(inbox[x]) /\ Holds(x, k, u)
          /\ l \in 0 .. Len(inbox[y]) /\ Holds(y, l, u)
      BY <2>0
    <3>2. x = y /\ k = l
      BY <3>1 DEF CInv, OneCopy
    <3> QED
      BY <3>2
  <2>2. Known'
    BY <1>2, <2>0 DEF Taken, CInv, Known
  <2> QED
    BY <2>1, <2>2
<1>3. ASSUME NEW b, NEW u, Arrives(b, u) PROVE OneCopy' /\ Known'
  <2>1. OneCopy'
    <3> SUFFICES ASSUME NEW v \in Uplink, NEW x \in Request, NEW y \in Request,
                        NEW i \in 0 .. Len(inbox'[x]), NEW j \in 0 .. Len(inbox'[y]),
                        Holds(x, i, v)', Holds(y, j, v)'
                 PROVE  x = y /\ i = j
      BY DEF OneCopy
    <3>1. CASE v # u
      BY <1>3, <3>1 DEF Arrives, CInv, OneCopy
    <3>2. CASE v = u
      <4>1. /\ x \in OpenAt(b) /\ i = Len(inbox[x]) + 1
            /\ y \in OpenAt(b) /\ j = Len(inbox[y]) + 1
        BY <1>3, <3>2 DEF Arrives
      <4>2. x = y
        BY <4>1 DEF CInv, OneSession, OpenAt
      <4> QED
        BY <4>1, <4>2
    <3> QED
      BY <3>1, <3>2
  <2>2. Known'
    BY <1>3 DEF Arrives, CInv, Known
  <2> QED
    BY <2>1, <2>2
<1> QED
  BY <1>1, <1>2, <1>3 DEF CopyStep

\* A step that touches no inbox, starts no handler on another uplink and refuses
\* nothing adds no copy.
LEMMA NothingNew ==
    ASSUME CInv, inbox' = inbox, UNCHANGED <<heard, refused>>,
           \A c \in Request : hpc'[c] # "idle" => hpc[c] # "idle" /\ uplink'[c] = uplink[c]
    PROVE  Fewer
<1> SUFFICES ASSUME NEW c \in Request, NEW u \in Uplink, NEW i \in 0 .. Len(inbox'[c]),
                    Holds(c, i, u)'
             PROVE  i \in 0 .. Len(inbox[c]) /\ Holds(c, i, u) /\ u \notin refused'
  BY DEF Fewer, CInv, Known
<1>1. i \in 0 .. Len(inbox[c]) /\ Holds(c, i, u)
  BY DEF Holds
<1> QED
  BY <1>1 DEF CInv, Known

\* The places of the inboxes after a delivery.
LEMMA DeliverPlaces ==
    ASSUME ApiTypeOK, NEW b, NEW u \in Uplink, Deliver(b, u), NEW c \in Request,
           NEW i \in 1 .. Len(inbox'[c])
    PROVE  \/ i \in 1 .. Len(inbox[c]) /\ inbox'[c][i] = inbox[c][i]
           \/ c \in OpenAt(b) /\ i = Len(inbox[c]) + 1 /\ inbox'[c][i] = u
<1>1. inbox[c] \in Seq(Uplink)
  BY DEF ApiTypeOK
<1>2. CASE inbox'[c] = inbox[c]
  BY <1>2
<1>3. CASE c \in OpenAt(b) /\ inbox'[c] = Append(inbox[c], u)
  BY <1>1, <1>3
<1> QED
  BY <1>2, <1>3, DeliverInbox

\* The uplink of a gateway is new.
LEMMA UplinksCopies ==
    ASSUME CInv, NEW u \in Uplink, Uplinks(u)
    PROVE  Arrives(Gateways, u)
<1>0. /\ ApiTypeOK /\ u \notin heard /\ heard' = heard \cup {u} /\ refused' = refused
      /\ Deliver(Gateways, u) /\ hpc' = hpc /\ uplink' = uplink
  BY DEF CInv, Uplinks, handlerVars
<1>1. u \notin refused
  BY <1>0 DEF CInv, Known
<1>2. ASSUME NEW c \in Request, NEW v \in Uplink, NEW i \in 0 .. Len(inbox'[c]),
             Holds(c, i, v)'
      PROVE  \/ i \in 0 .. Len(inbox[c]) /\ Holds(c, i, v) /\ v # u
             \/ c \in OpenAt(Gateways) /\ i = Len(inbox[c]) + 1 /\ v = u
  <2>0. Len(inbox[c]) \in Nat
    BY <1>0 DEF ApiTypeOK
  <2>1. \/ i \in 0 .. Len(inbox[c]) /\ Holds(c, i, v)
        \/ c \in OpenAt(Gateways) /\ i = Len(inbox[c]) + 1 /\ v = u
    <3>1. CASE i = 0
      BY <1>0, <1>2, <2>0, <3>1 DEF Holds
    <3>2. CASE i # 0
      <4>1. i \in 1 .. Len(inbox'[c]) /\ inbox'[c][i] = v
        BY <1>2, <3>2 DEF Holds
      <4> QED
        BY <1>0, <2>0, <3>2, <4>1, DeliverPlaces DEF Holds
    <3> QED
      BY <3>1, <3>2
  <2>2. i \in 0 .. Len(inbox[c]) /\ Holds(c, i, v) => v # u
    BY <1>0 DEF CInv, Known
  <2> QED
    BY <2>1, <2>2
<1> QED
  BY <1>0, <1>1, <1>2 DEF Arrives

\* onMessage hands the first uplink of its inbox to the handler, or drops it.
LEMMA OnMessageCopies ==
    ASSUME CInv, NEW c \in Request, onMessage(c)
    PROVE  Taken(c)
<1>0. /\ inbox \in [Request -> Seq(Uplink)] /\ hpc[c] = "idle" /\ inbox[c] # <<>>
      /\ inbox' = [inbox EXCEPT ![c] = Tail(@)]
      /\ uplink' = [uplink EXCEPT ![c] = Head(inbox[c])]
      /\ uplink \in [Request -> Uplink]
      /\ UNCHANGED <<heard, refused>>
  BY DEF CInv, ApiTypeOK, onMessage, historyVars
<1>1. \A d \in Request \ {c} : hpc'[d] = hpc[d]
  BY DEF onMessage, HandlerGoto, CInv, ApiTypeOK
<1>2. ASSUME NEW d \in Request \ {c}, NEW u \in Uplink, NEW i \in 0 .. Len(inbox'[d]),
             Holds(d, i, u)'
      PROVE  i \in 0 .. Len(inbox[d]) /\ Holds(d, i, u)
  BY <1>0, <1>1, <1>2 DEF Holds
<1>3. ASSUME NEW u \in Uplink, NEW i \in 0 .. Len(inbox'[c]), Holds(c, i, u)'
      PROVE  i + 1 \in 0 .. Len(inbox[c]) /\ Holds(c, i + 1, u)
  <2>1. inbox[c] \in Seq(Uplink) /\ inbox'[c] = Tail(inbox[c]) /\ uplink'[c] = Head(inbox[c])
    BY <1>0
  <2>2. /\ Len(inbox[c]) \in Nat /\ Len(inbox[c]) >= 1
        /\ Len(inbox'[c]) = Len(inbox[c]) - 1
        /\ uplink'[c] = inbox[c][1]
        /\ \A j \in 1 .. Len(inbox'[c]) : inbox'[c][j] = inbox[c][j + 1]
    BY <1>0, <2>1
  <2>3. i \in Nat /\ i + 1 \in 0 .. Len(inbox[c]) /\ i + 1 # 0
    BY <2>2
  <2>4. inbox[c][i + 1] = u
    <3>1. CASE i = 0
      BY <1>3, <2>2, <3>1 DEF Holds
    <3>2. CASE i # 0
      BY <1>3, <2>2, <3>2 DEF Holds
    <3> QED
      BY <3>1, <3>2
  <2> QED
    BY <2>3, <2>4 DEF Holds
<1> QED
  BY <1>0, <1>2, <1>3 DEF Taken

\* A refusal ends the only copy.
LEMMA RejectedCopies ==
    ASSUME CInv, NEW c \in Request, Rejected(c)
    PROVE  Fewer
<1>0. /\ inbox \in [Request -> Seq(Uplink)]
      /\ hpc \in [Request -> {"idle", "sla", "load", "lock", "publish"}]
      /\ uplink[c] \in Uplink /\ hpc[c] = "sla"
      /\ hpc' = [hpc EXCEPT ![c] = "idle"] /\ inbox' = inbox /\ uplink' = uplink
      /\ refused' = refused \cup {uplink[c]} /\ heard' = heard
  BY DEF CInv, ApiTypeOK, Rejected, HandlerGoto
<1>1. Holds(c, 0, uplink[c]) /\ 0 \in 0 .. Len(inbox[c])
  BY <1>0 DEF Holds
<1>2. ASSUME NEW d \in Request, NEW u \in Uplink, NEW i \in 0 .. Len(inbox'[d]),
             Holds(d, i, u)'
      PROVE  i \in 0 .. Len(inbox[d]) /\ Holds(d, i, u) /\ u \notin refused'
  <2>1. i \in 0 .. Len(inbox[d]) /\ Holds(d, i, u) /\ ~ (d = c /\ i = 0)
    BY <1>0, <1>2 DEF Holds
  <2>2. u # uplink[c]
    BY <1>0, <1>1, <2>1 DEF CInv, OneCopy
  <2>3. u \notin refused
    BY <2>1 DEF CInv, Known
  <2> QED
    BY <1>0, <2>1, <2>2, <2>3
<1>3. uplink[c] \in heard
  BY <1>0, <1>1 DEF CInv, Known
<1> QED
  BY <1>0, <1>2, <1>3 DEF Fewer, CInv, Known

\* Publish moves the copy of the handler to an inbox, or loses it.
LEMMA PublishCopies ==
    ASSUME CInv, NEW c \in Request, Publish(c)
    PROVE  Fewer \/ Arrives(target[c], uplink[c])
<1>0. /\ inbox \in [Request -> Seq(Uplink)]
      /\ hpc \in [Request -> {"idle", "sla", "load", "lock", "publish"}]
      /\ uplink[c] \in Uplink /\ hpc[c] = "publish" /\ ApiTypeOK
      /\ hpc' = [hpc EXCEPT ![c] = "idle"] /\ uplink' = uplink
      /\ UNCHANGED <<heard, refused>>
  BY DEF CInv, ApiTypeOK, Publish, HandlerGoto
<1>1. CASE inbox' = inbox
  BY <1>0, <1>1, NothingNew
<1>2. CASE Deliver(target[c], uplink[c])
  <2>1. Holds(c, 0, uplink[c]) /\ 0 \in 0 .. Len(inbox[c])
    BY <1>0 DEF Holds
  <2>2. ASSUME NEW d \in Request, NEW v \in Uplink, NEW i \in 0 .. Len(inbox'[d]),
               Holds(d, i, v)'
        PROVE  \/ i \in 0 .. Len(inbox[d]) /\ Holds(d, i, v) /\ v # uplink[c]
               \/ d \in OpenAt(target[c]) /\ i = Len(inbox[d]) + 1 /\ v = uplink[c]
    <3>0. Len(inbox[d]) \in Nat
      BY <1>0
    <3>1. \/ i \in 0 .. Len(inbox[d]) /\ Holds(d, i, v) /\ ~ (d = c /\ i = 0)
          \/ d \in OpenAt(target[c]) /\ i = Len(inbox[d]) + 1 /\ v = uplink[c]
      <4>1. CASE i = 0
        BY <1>0, <2>2, <3>0, <4>1 DEF Holds
      <4>2. CASE i # 0
        <5>1. i \in 1 .. Len(inbox'[d]) /\ inbox'[d][i] = v
          BY <2>2, <4>2 DEF Holds
        <5> QED
          BY <1>0, <1>2, <3>0, <4>2, <5>1, DeliverPlaces DEF Holds
      <4> QED
        BY <4>1, <4>2
    <3>2. i \in 0 .. Len(inbox[d]) /\ Holds(d, i, v) /\ ~ (d = c /\ i = 0) => v # uplink[c]
      BY <1>0, <2>1 DEF CInv, OneCopy
    <3> QED
      BY <3>1, <3>2
  <2>3. uplink[c] \in heard \ refused
    BY <1>0, <2>1 DEF CInv, Known
  <2> QED
    BY <1>0, <2>2, <2>3 DEF Arrives
<1> QED
  BY <1>1, <1>2 DEF Publish

\* Every step of the API, seen from the copies.
LEMMA CopyNext ==
    ASSUME CInv, [ApiNext]_apiVars
    PROVE  CopyStep
<1>1. ASSUME NEW c \in Request, Accepted(c) \/ CheckFailed(c) \/ GetPublishClient(c) PROVE Fewer
  <2>1. inbox' = inbox /\ uplink' = uplink /\ UNCHANGED <<heard, refused>>
    BY <1>1 DEF Accepted, CheckFailed, GetPublishClient, historyVars
  <2>2. hpc[c] # "idle" /\ \E l \in {"idle", "load", "lock", "publish"} : hpc' = [hpc EXCEPT ![c] = l]
    BY <1>1 DEF Accepted, CheckFailed, GetPublishClient, HandlerGoto
  <2> QED
    BY <2>1, <2>2, NothingNew DEF CInv, ApiTypeOK
<1>2. CASE UNCHANGED <<inbox, hpc, uplink, heard, refused>>
  BY <1>2, NothingNew DEF CopyStep
<1>3. ASSUME NEW c \in Request,
             \/ \E b \in Body : handleRequest(c, b)
             \/ RequestStep(c)
             \/ ConnectionLost(c)
             \/ Reconnect(c)
      PROVE  UNCHANGED <<inbox, hpc, uplink, heard, refused>>
  BY <1>3 DEF handleRequest, RequestStep, HealthCheck, initMQTTClient, PrepareAdded, PrepareNs,
     subscribeToTopic, ConnectionLost, Reconnect, handlerVars, historyVars
<1>4. ASSUME NEW b \in Broker, PublisherStep(b)
      PROVE  UNCHANGED <<inbox, hpc, uplink, heard, refused>>
  BY <1>4 DEF PublisherStep, handlerVars, historyVars
<1>5. CASE UNCHANGED apiVars
  BY <1>2, <1>5 DEF apiVars, handlerVars, historyVars
<1> QED
  BY <1>1, <1>2, <1>3, <1>4, <1>5, UplinksCopies, OnMessageCopies, RejectedCopies, PublishCopies
  DEF ApiNext, ClientStep, HandlerStep, CopyStep

LEMMA CInvStep == CInv /\ [ApiNext]_apiVars => CInv'
<1> SUFFICES ASSUME CInv, [ApiNext]_apiVars PROVE CInv'
  OBVIOUS
<1>1. ApiTypeOK' /\ OneSession'
  BY ApiTypeStep, SessionStep DEF CInv
<1>2. OneCopy' /\ Known'
  BY CopyNext, CopiesKept
<1> QED
  BY <1>1, <1>2 DEF CInv

THEOREM CopyInvariance == ApiSpec => []CInv
<1>1. ApiInit => CInv
  <2> SUFFICES ASSUME ApiInit PROVE CInv
    OBVIOUS
  <2>1. \A c \in Request : \A i \in 0 .. Len(inbox[c]) : i = 0 /\ hpc[c] = "idle"
    BY DEF ApiInit
  <2>2. \A c \in Request : conn[c] # "open"
    BY DEF ApiInit
  <2>3. refused = {}
    BY DEF ApiInit
  <2> QED
    BY <2>1, <2>2, <2>3, ApiInitType DEF CInv, OneSession, OneCopy, Known, Holds
<1> QED
  BY <1>1, CInvStep, PTL DEF ApiSpec

\* Forwarding never multiplies an uplink: see OneCopy.
THEOREM OneCopyHolds == ApiSpec => []OneCopy
<1>1. CInv => OneCopy
  BY DEF CInv
<1> QED
  BY <1>1, CopyInvariance, PTL

\* An uplink that the service refused is never put on a broker: see
\* RefusedIsDropped.
THEOREM RefusedIsDroppedHolds == ApiSpec => RefusedIsDropped
<1>1. ASSUME CInv, [ApiNext]_apiVars, NEW u \in refused, NEW b \in Broker
      PROVE  copies'[b][u] = copies[b][u]
  <2>1. ASSUME NEW c \in Request, Publish(c), copies' # copies PROVE copies'[b][u] = copies[b][u]
    <3>1. /\ hpc[c] = "publish" /\ uplink[c] \in Uplink /\ u \in Uplink
          /\ inbox[c] \in Seq(Uplink)
          /\ \E n : copies' = [copies EXCEPT ![target[c]][uplink[c]] = n]
          /\ copies \in [Broker -> [Uplink -> 0 .. MaxCopies]]
      BY <1>1, <2>1 DEF Publish, CInv, ApiTypeOK
    <3>2. Holds(c, 0, uplink[c]) /\ 0 \in 0 .. Len(inbox[c])
      BY <3>1 DEF Holds
    <3>3. uplink[c] # u
      BY <1>1, <3>1, <3>2 DEF CInv, Known
    <3> QED
      BY <3>1, <3>3
  <2>2. copies' = copies \/ \E c \in Request : Publish(c)
    BY <1>1 DEF ApiNext, ClientStep, RequestStep, HandlerStep, apiVars, historyVars, handleRequest,
       HealthCheck, initMQTTClient, PrepareAdded, PrepareNs, subscribeToTopic, onMessage,
       CheckFailed, GetPublishClient, Accepted, Rejected, ConnectionLost, Reconnect,
       PublisherStep, Uplinks
  <2> QED
    BY <2>1, <2>2
<1>2. CInv /\ [ApiNext]_apiVars =>
          [\A u \in refused, b \in Broker : copies'[b][u] = copies[b][u]]_apiVars
  BY <1>1
<1> QED
  BY <1>2, CopyInvariance, PTL DEF ApiSpec, RefusedIsDropped
=============================================================================
