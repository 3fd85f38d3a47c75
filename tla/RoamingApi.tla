----------------------------- MODULE RoamingApi -----------------------------
(***************************************************************************)
(* The roaming API of the gateway bridge (api/api.go).  A configuration     *)
(* request names two brokers and the blockchain service, and creates an     *)
(* MQTT client that subscribes to the uplinks on the first broker.          *)
(* onMessage, called for one message of a client after the other, sends an  *)
(* uplink of NetID "01" to AddedBroker, and any other to the broker that    *)
(* the service names, or to NsIpAddress.                                    *)
(*                                                                          *)
(* The globals are read and written without a lock.  Between two blocking   *)
(* calls (HTTP, MQTT, the mutex) the code of a goroutine is one step: the   *)
(* globals it reads there are assigned together in handleRequest.           *)
(*                                                                          *)
(* External: the broker delivers with QoS 0 and closes the older of two     *)
(* connections with one client id; the MQTT library reconnects a client     *)
(* that connected once, and does not subscribe again.                       *)
(***************************************************************************)
EXTENDS Naturals, Sequences

CONSTANTS
    Broker,      \* MQTT brokers
    NoBroker,    \* the empty broker address, and the token "None"
    Request,     \* configuration requests, each sent once
    NoClient,    \* the nil client
    Body,        \* what requests ask for
    Uplink,      \* uplinks of devices
    Local,       \* those with NetID "01"
    Garbled,     \* those from which no NetID can be taken
    Gateways,    \* the broker to which the gateways publish
    Unreliable,  \* whether connections may fail
    MaxCopies    \* bound on the copies of an uplink that are counted

ASSUME ApiAssumption ==
    /\ NoBroker \notin Broker
    /\ NoClient \notin Request
    /\ Body \subseteq [added : Broker, ns : Broker \cup {NoBroker}, url : BOOLEAN]
    /\ Uplink # {}
    /\ Local \subseteq Uplink
    /\ Garbled \subseteq Uplink \ Local
    /\ Gateways \in Broker
    /\ Unreliable \in BOOLEAN
    /\ MaxCopies \in Nat

VARIABLES
    NsIpAddress, AddedBroker, BlockchainEnabled,  \* the configuration
    mqttClient,      \* the client that subscribeToTopic uses; clients are named
                     \* after the request that created them
    conn,            \* conn[c]: the connection of client c
    at,              \* at[c]: its broker
    subscribed,      \* subscribed[c]: the broker has its subscription
    rpc,             \* rpc[c]: where handleRequest is
    inbox,           \* inbox[c]: uplinks that were delivered to client c
    hpc,             \* hpc[c]: where onMessage is, for client c
    uplink,          \* uplink[c]: the uplink it works on
    target,          \* target[c]: targetBroker
    publishClients,  \* publishClients[b]: the connection of the cached client
    fatal,           \* log.Fatal has ended the process
    heard,           \* the uplinks that gateways have published
    copies,          \* history: copies[b][u], copies of u that the API put on b
    created,         \* history: created[b], publish clients ever made for b
    granted,         \* history: uplinks for which the service said Accept
    refused          \* history: uplinks for which it said Reject

configVars == <<NsIpAddress, AddedBroker, BlockchainEnabled>>
clientVars == <<mqttClient, conn, at, subscribed>>
handlerVars == <<hpc, uplink, target>>
publishVars == <<publishClients, created>>
historyVars == <<heard, copies, granted, refused>>
apiVars == <<configVars, clientVars, rpc, inbox, handlerVars, publishVars, fatal, historyVars>>
-----------------------------------------------------------------------------
\* "lost": the library is reconnecting, and IsConnected still says true.
\* "dead": Connect failed; the library does not try again.
Connection == {"none", "open", "lost", "dead"}

\* Where handlers and requests are and what they work on; Publish is only called
\* on a client, and never on the nil that getOrCreatePublishClient may return.
ApiTypeOK ==
    /\ NsIpAddress \in Broker \cup {NoBroker}
    /\ AddedBroker \in Broker \cup {NoBroker}
    /\ BlockchainEnabled \in BOOLEAN
    /\ mqttClient \in Request \cup {NoClient}
    /\ conn \in [Request -> Connection]
    /\ at \in [Request -> Broker \cup {NoBroker}]
    /\ subscribed \in [Request -> BOOLEAN]
    /\ rpc \in [Request -> {"new", "health", "connect", "added", "addedLock", "ns", "nsLock",
                            "subscribe", "done"}]
    /\ inbox \in [Request -> Seq(Uplink)]
    /\ hpc \in [Request -> {"idle", "sla", "load", "lock", "publish"}]
    /\ uplink \in [Request -> Uplink]
    /\ target \in [Request -> Broker \cup {NoBroker}]
    /\ \A c \in Request : hpc[c] = "publish" => target[c] \in Broker
    /\ publishClients \in [Broker -> {"none", "open", "lost"}]
    /\ fatal \in BOOLEAN
    /\ heard \subseteq Uplink
    /\ copies \in [Broker -> [Uplink -> 0 .. MaxCopies]]
    /\ created \in [Broker -> Nat]
    /\ granted \subseteq Uplink
    /\ refused \subseteq Uplink

ApiInit ==
    /\ NsIpAddress = NoBroker
    /\ AddedBroker = NoBroker
    /\ BlockchainEnabled = FALSE
    /\ mqttClient = NoClient
    /\ conn = [c \in Request |-> "none"]
    /\ at = [c \in Request |-> NoBroker]
    /\ subscribed = [c \in Request |-> FALSE]
    /\ rpc = [c \in Request |-> "new"]
    /\ inbox = [c \in Request |-> <<>>]
    /\ hpc = [c \in Request |-> "idle"]
    /\ uplink = [c \in Request |-> CHOOSE u \in Uplink : TRUE]
    /\ target = [c \in Request |-> NoBroker]
    /\ publishClients = [b \in Broker |-> "none"]
    /\ fatal = FALSE
    /\ heard = {}
    /\ copies = [b \in Broker |-> [u \in Uplink |-> 0]]
    /\ created = [b \in Broker |-> 0]
    /\ granted = {}
    /\ refused = {}
-----------------------------------------------------------------------------
(* The broker and the MQTT library.                                        *)

\* Clients with a connection to b.  All use one client id.
OpenAt(b) == {c \in Request : conn[c] = "open" /\ at[c] = b}

\* A message is delivered to the clients that are subscribed on b.
Deliver(b, u) ==
    inbox' = [c \in Request |->
                 IF c \in OpenAt(b) /\ subscribed[c] THEN Append(inbox[c], u) ELSE inbox[c]]

\* Mutant of TakeOver: every client has an id of its own.
TakeOver_OwnId(c, b) == conn' = [conn EXCEPT ![c] = "open"] /\ UNCHANGED subscribed

\* Client c connects to b, and the broker closes the connection of the client
\* that was there under the same id; its clean session goes with it.
TakeOver(c, b) ==
    /\ conn' = [d \in Request |->
                   IF d = c THEN "open" ELSE IF d \in OpenAt(b) THEN "lost" ELSE conn[d]]
    /\ subscribed' = [d \in Request |-> subscribed[d] /\ d # c /\ d \notin OpenAt(b)]

ConnectionLost(c) ==
    /\ Unreliable
    /\ conn[c] = "open"
    /\ conn' = [conn EXCEPT ![c] = "lost"]
    /\ subscribed' = [subscribed EXCEPT ![c] = FALSE]
    /\ UNCHANGED <<configVars, mqttClient, at, rpc, inbox, handlerVars, publishVars, fatal, historyVars>>

Reconnect(c) ==
    /\ conn[c] = "lost"
    /\ TakeOver(c, at[c])
    /\ UNCHANGED <<configVars, mqttClient, at, rpc, inbox, handlerVars, publishVars, fatal, historyVars>>

\* The clients that publish have ids of their own.
PublisherStep(b) ==
    /\ \/ /\ publishClients[b] = "open"
          /\ Unreliable
          /\ publishClients' = [publishClients EXCEPT ![b] = "lost"]
       \/ /\ publishClients[b] = "lost"
          /\ publishClients' = [publishClients EXCEPT ![b] = "open"]
    /\ UNCHANGED <<configVars, clientVars, rpc, inbox, handlerVars, created, fatal, historyVars>>
-----------------------------------------------------------------------------
(* getOrCreatePublishClient: a first Load without the mutex, then Load,      *)
(* Connect and Store under it.  A client in the map has connected once, so   *)
(* that IsConnected is true of it.                                           *)

Cached(b) == b \in Broker /\ publishClients[b] # "none"

\* Mutant of CreateUnderMutex: the map is not looked at again.
CreateUnderMutex_Blind(b, got) ==
    \/ /\ got
       /\ b \in Broker
       /\ publishClients' = [publishClients EXCEPT ![b] = "open"]
       /\ created' = [created EXCEPT ![b] = @ + 1]
    \/ ~ got /\ (b = NoBroker \/ Unreliable) /\ UNCHANGED publishVars

\* got: a client is returned, and not nil.
CreateUnderMutex(b, got) ==
    \/ got /\ Cached(b) /\ UNCHANGED publishVars
    \/ /\ got
       /\ b \in Broker
       /\ ~ Cached(b)
       /\ publishClients' = [publishClients EXCEPT ![b] = "open"]
       /\ created' = [created EXCEPT ![b] = @ + 1]
    \/ ~ got /\ (b = NoBroker \/ (~ Cached(b) /\ Unreliable)) /\ UNCHANGED publishVars
-----------------------------------------------------------------------------
(* handleRequest.                                                          *)

RequestGoto(c, l) == rpc' = [rpc EXCEPT ![c] = l]

\* The configuration is stored, before anything is known about the service.
handleRequest(c, b) ==
    /\ rpc[c] = "new"
    /\ NsIpAddress' = b.ns
    /\ AddedBroker' = b.added
    /\ BlockchainEnabled' = (b.url /\ BlockchainEnabled)
    /\ RequestGoto(c, IF b.url THEN "health" ELSE "connect")
    /\ UNCHANGED <<clientVars, inbox, handlerVars, publishVars, fatal, historyVars>>

\* The health check: any failure disables the SLA check.
HealthCheck(c) ==
    /\ rpc[c] = "health"
    /\ BlockchainEnabled' \in BOOLEAN
    /\ RequestGoto(c, "connect")
    /\ UNCHANGED <<NsIpAddress, AddedBroker, clientVars, inbox, handlerVars, publishVars, fatal,
                   historyVars>>

\* initMQTTClient: the former client is replaced and not disconnected.
initMQTTClient(c) ==
    /\ rpc[c] = "connect"
    /\ mqttClient' = c
    /\ at' = [at EXCEPT ![c] = AddedBroker]
    /\ \/ TakeOver(c, AddedBroker)
       \/ Unreliable /\ conn' = [conn EXCEPT ![c] = "dead"] /\ UNCHANGED subscribed
    /\ RequestGoto(c, "added")
    /\ UNCHANGED <<configVars, inbox, handlerVars, publishVars, fatal, historyVars>>

\* getOrCreatePublishClient for AddedBroker, then for NsIpAddress.
PrepareAdded(c) ==
    /\ \/ /\ rpc[c] = "added"
          /\ RequestGoto(c, IF Cached(AddedBroker) THEN "ns" ELSE "addedLock")
          /\ UNCHANGED publishVars
       \/ /\ rpc[c] = "addedLock"
          /\ RequestGoto(c, "ns")
          /\ \E got \in BOOLEAN : CreateUnderMutex(AddedBroker, got)
    /\ UNCHANGED <<configVars, clientVars, inbox, handlerVars, fatal, historyVars>>

PrepareNs(c) ==
    /\ \/ /\ rpc[c] = "ns"
          /\ RequestGoto(c, IF NsIpAddress \in {NoBroker, AddedBroker} \/ Cached(NsIpAddress)
                            THEN "subscribe" ELSE "nsLock")
          /\ UNCHANGED publishVars
       \/ /\ rpc[c] = "nsLock"
          /\ RequestGoto(c, "subscribe")
          /\ \E got \in BOOLEAN : CreateUnderMutex(NsIpAddress, got)
    /\ UNCHANGED <<configVars, clientVars, inbox, handlerVars, fatal, historyVars>>

\* subscribeToTopic, in a goroutine of its own: nothing happens if the client
\* never connected; a Subscribe that fails, as it does while the library is
\* reconnecting, ends the process.
subscribeToTopic(c) ==
    /\ rpc[c] = "subscribe"
    /\ RequestGoto(c, "done")
    /\ \/ conn[mqttClient] \in {"none", "dead"} /\ UNCHANGED <<subscribed, fatal>>
       \/ /\ conn[mqttClient] = "open"
          /\ subscribed' = [subscribed EXCEPT ![mqttClient] = TRUE]
          /\ UNCHANGED fatal
       \/ /\ conn[mqttClient] = "lost" \/ (conn[mqttClient] = "open" /\ Unreliable)
          /\ fatal' = TRUE
          /\ UNCHANGED subscribed
    /\ UNCHANGED <<configVars, mqttClient, conn, at, inbox, handlerVars, publishVars, historyVars>>
-----------------------------------------------------------------------------
(* onMessage.                                                              *)

\* A gateway publishes an uplink.
Uplinks(u) ==
    /\ u \notin heard
    /\ heard' = heard \cup {u}
    /\ Deliver(Gateways, u)
    /\ UNCHANGED <<configVars, clientVars, rpc, handlerVars, publishVars, fatal, copies, granted,
                   refused>>

HandlerGoto(c, l) == hpc' = [hpc EXCEPT ![c] = l]

Target(c, b) == target' = [target EXCEPT ![c] = b]

\* The next uplink of client c: it is dropped, local, or for the service.
onMessage(c) ==
    /\ hpc[c] = "idle"
    /\ inbox[c] # <<>>
    /\ inbox' = [inbox EXCEPT ![c] = Tail(@)]
    /\ uplink' = [uplink EXCEPT ![c] = Head(inbox[c])]
    /\ \/ /\ Head(inbox[c]) \in Garbled
          /\ UNCHANGED <<hpc, target>>
       \/ /\ Head(inbox[c]) \in Local
          /\ HandlerGoto(c, "load")
          /\ Target(c, AddedBroker)
       \/ /\ Head(inbox[c]) \notin Local \cup Garbled
          /\ HandlerGoto(c, IF BlockchainEnabled THEN "sla" ELSE "load")
          /\ Target(c, NsIpAddress)
    /\ UNCHANGED <<configVars, clientVars, rpc, publishVars, fatal, historyVars>>

\* checkSLAWithPythonService answers "Accept" or "Active SLA", with or without a
\* broker.  The request to increment_counter changes nothing.
Accepted(c) ==
    /\ hpc[c] = "sla"
    /\ granted' = granted \cup {uplink[c]}
    /\ \E token \in Broker \cup {NoBroker} :
          Target(c, IF token # NoBroker THEN token ELSE NsIpAddress)
    /\ HandlerGoto(c, "load")
    /\ UNCHANGED <<configVars, clientVars, rpc, inbox, uplink, publishVars, fatal, heard, copies,
                   refused>>

\* Mutant of Rejected: the fallback is used for a refusal, too.
Rejected_Fallback(c) ==
    /\ hpc[c] = "sla"
    /\ refused' = refused \cup {uplink[c]}
    /\ Target(c, NsIpAddress)
    /\ HandlerGoto(c, "load")
    /\ UNCHANGED <<configVars, clientVars, rpc, inbox, uplink, publishVars, fatal, heard, copies,
                   granted>>

\* Any other state drops the packet.
Rejected(c) ==
    /\ hpc[c] = "sla"
    /\ refused' = refused \cup {uplink[c]}
    /\ HandlerGoto(c, "idle")
    /\ UNCHANGED <<configVars, clientVars, rpc, inbox, uplink, target, publishVars, fatal, heard,
                   copies, granted>>

\* Mutant of CheckFailed: the request has no deadline.
CheckFailed_Never(c) == FALSE /\ hpc' = hpc

\* The service does not answer within three seconds, or the call fails: fallback.
CheckFailed(c) ==
    /\ hpc[c] = "sla"
    /\ Target(c, NsIpAddress)
    /\ HandlerGoto(c, "load")
    /\ UNCHANGED <<configVars, clientVars, rpc, inbox, uplink, publishVars, fatal, historyVars>>

\* Mutant of GetPublishClient: nil is not tested.
GetPublishClient_Nil(c) ==
    /\ \/ /\ hpc[c] = "load"
          /\ HandlerGoto(c, IF Cached(target[c]) THEN "publish" ELSE "lock")
          /\ UNCHANGED publishVars
       \/ /\ hpc[c] = "lock"
          /\ \E got \in BOOLEAN : CreateUnderMutex(target[c], got)
          /\ HandlerGoto(c, "publish")
    /\ UNCHANGED <<configVars, clientVars, rpc, inbox, uplink, target, fatal, historyVars>>

\* getOrCreatePublishClient for targetBroker; nil drops the packet.
GetPublishClient(c) ==
    /\ \/ /\ hpc[c] = "load"
          /\ HandlerGoto(c, IF Cached(target[c]) THEN "publish" ELSE "lock")
          /\ UNCHANGED publishVars
       \/ /\ hpc[c] = "lock"
          /\ \E got \in BOOLEAN :
                /\ CreateUnderMutex(target[c], got)
                /\ HandlerGoto(c, IF got THEN "publish" ELSE "idle")
    /\ UNCHANGED <<configVars, clientVars, rpc, inbox, uplink, target, fatal, historyVars>>

\* Publish with QoS 0.  While the library is reconnecting it reports success and
\* sends nothing; a message may also be lost on the way.
Publish(c) ==
    /\ hpc[c] = "publish"
    /\ HandlerGoto(c, "idle")
    /\ \/ /\ publishClients[target[c]] = "open"
          /\ Deliver(target[c], uplink[c])
          /\ copies' = [copies EXCEPT ![target[c]][uplink[c]] = IF @ < MaxCopies THEN @ + 1 ELSE @]
       \/ /\ publishClients[target[c]] = "lost" \/ Unreliable
          /\ UNCHANGED <<inbox, copies>>
    /\ UNCHANGED <<configVars, clientVars, rpc, uplink, target, publishVars, fatal, heard, granted,
                   refused>>
-----------------------------------------------------------------------------
RequestStep(c) ==
    \/ HealthCheck(c)
    \/ initMQTTClient(c)
    \/ PrepareAdded(c)
    \/ PrepareNs(c)
    \/ subscribeToTopic(c)

\* The steps of onMessage that do not wait for the service.
HandlerStep(c) ==
    \/ onMessage(c)
    \/ CheckFailed(c)
    \/ GetPublishClient(c)
    \/ Publish(c)

ClientStep(c) ==
    \/ \E b \in Body : handleRequest(c, b)
    \/ RequestStep(c)
    \/ HandlerStep(c)
    \/ Accepted(c)
    \/ Rejected(c)
    \/ ConnectionLost(c)
    \/ Reconnect(c)

ApiNext ==
    /\ ~ fatal
    /\ \/ \E c \in Request : ClientStep(c)
       \/ \E b \in Broker : PublisherStep(b)
       \/ \E u \in Uplink : Uplinks(u)

ApiSpec == ApiInit /\ [][ApiNext]_apiVars

\* The goroutines go on, the deadlines of the HTTP client and of Publish expire;
\* nothing obliges the service to answer or a connection to break or to recover.
ApiFairness ==
    \A c \in Request :
        /\ WF_apiVars(~ fatal /\ RequestStep(c))
        /\ WF_apiVars(~ fatal /\ HandlerStep(c))

FairApiSpec == ApiSpec /\ ApiFairness
-----------------------------------------------------------------------------
\* A copy of u is under way in the API: onMessage of client c works on it (place
\* 0), or it is delivered to c and not yet handled (its place in the inbox).
Holds(c, i, u) ==
    IF i = 0 THEN hpc[c] # "idle" /\ uplink[c] = u ELSE inbox[c][i] = u

\* Forwarding does not multiply: however often the API is configured, for which
\* brokers, and in whatever order connections break and return, a copy of an
\* uplink is under way in one place at most.  The one client id of all subscribing
\* clients is what keeps it so.
OneCopy ==
    \A u \in Uplink, c, d \in Request :
        \A i \in 0 .. Len(inbox[c]), j \in 0 .. Len(inbox[d]) :
            Holds(c, i, u) /\ Holds(d, j, u) => c = d /\ i = j

\* getOrCreatePublishClient makes one client for a broker, although requests and
\* handlers look into the map without the mutex first.
OneClientPerBroker == \A b \in Broker : created[b] <= 1

\* A refusal is final: from the moment the service refuses an uplink the API puts
\* no copy of it on any broker.
RefusedIsDropped ==
    [][\A u \in refused, b \in Broker : copies'[b][u] = copies[b][u]]_apiVars

\* A handler always comes back for the next uplink, whether or not the service
\* answers and the brokers are there.
HandlerReturns == \A c \in Request : hpc[c] # "idle" ~> (hpc[c] = "idle" \/ fatal)

\* README.md, "the system verifies a valid SLA on-chain before forwarding the
\* packet": every foreign uplink that is forwarded was granted.
ForwardedWithSLA ==
    \A b \in Broker, u \in Uplink \ Local : copies[b][u] > 0 => u \in granted
===========================================================================
