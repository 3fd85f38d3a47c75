--------------------------- MODULE MqttIntegration ---------------------------
(* The MQTT integration of the gateway bridge and the forwarder in front of  *)
(* it: which command topics the bridge is subscribed to at its broker and    *)
(* which connection state the broker retains for every gateway, while        *)
(* gateways come and go, the connection breaks, operations fail or time out  *)
(* and the bridge is stopped.                                                *)
(*                                                                           *)
(* The topic of a gateway is the gateway itself.  State messages are         *)
(* published with QoS 0 and retained, the session is clean: the defaults of  *)
(* configfile.go.  The behaviours start when Start has connected.            *)
EXTENDS Naturals, FiniteSets

CONSTANTS
    Gateway,        \* gateways
    NoGateway,      \* stands for the absence of a gateway
    Configuration,  \* configurations the bridge may be started with
    MaxEvents,      \* bound: connect and disconnect events of gateways
    MaxFaults       \* bound: lost connections, reconnects and failed operations

ASSUME MqttConstants ==
    /\ NoGateway \notin Gateway
    /\ Configuration \subseteq [auth : Gateway \cup {NoGateway}, stateTopic : BOOLEAN,
                                terminate : BOOLEAN, reconnect : BOOLEAN]
    /\ MaxEvents \in Nat /\ MaxFaults \in Nat

VARIABLES
    conf,               \* auth: the gateway named by the authentication;
                        \* stateTopic: state_topic_template is set;
                        \* terminate: terminate_on_connect_error;
                        \* reconnect: ReconnectAfter is not zero
    events,             \* number of events the backend has raised
    spawned,            \* goroutines of gatewaySubscribeFunc that have not run
    gateways,           \* Backend.gateways: the desired subscriptions
    gatewaysSubscribed, \* Backend.gatewaysSubscribed
    loop,               \* subscribeLoop: what is left of its round
    conn,               \* state of the paho client
    resets,             \* calls of onConnected that wait for gatewaysSubscribedMux
    subs,               \* broker: topics the connection is subscribed to
    state,              \* broker: retained state of each gateway
    stop,               \* what became of the process: Stop, log.Fatal
    left,               \* Stop: gateways it has yet to set offline
    faults,             \* number of faults so far
    dirty,              \* history: gateways whose unsubscription failed half way
                        \* since gatewaysSubscribed was reset
    forgotten           \* history: gateways that a reset dropped

eventVars == <<conf, events, spawned, gateways>>
connVars == <<conn, resets>>
brokerVars == <<subs, state>>
stopVars == <<stop, left>>
history == <<dirty, forgotten>>
mqttVars == <<eventVars, gatewaysSubscribed, loop, connVars, brokerVars, stopVars, faults, history>>

----------------------------------------------------------------------------
(* State *)

Idle == [pc |-> "idle", subscribe |-> {}, unsubscribe |-> {}, publish |-> NoGateway]

\* The process ends when Stop returns.
Alive == stop \in {"no", "stopping"}

\* paho: IsConnected is also TRUE while the client reconnects by itself.
IsConnected == conn \in {"up", "reconnecting"}

\* Retained messages for the gateways of a set.
WithState(gs, s) == [g \in Gateway |-> IF conf.stateTopic /\ g \in gs THEN s ELSE state[g]]

MqttInit ==
    /\ conf \in Configuration
    /\ events = 0
    /\ spawned = {}
    /\ gateways = {conf.auth} \cap Gateway
    /\ gatewaysSubscribed = {}
    /\ loop = Idle
    /\ conn = "up"
    /\ resets = 1
    /\ subs = {}
    /\ state = [g \in Gateway |-> "none"]
    /\ stop = "no"
    /\ left = {}
    /\ faults = 0
    /\ dirty = {} /\ forgotten = {}

----------------------------------------------------------------------------
(* Forwarder: events of a backend *)

\* A goroutine for every event.
gatewaySubscribeFunc(g, subscribe) ==
    /\ Alive /\ events < MaxEvents
    /\ events' = events + 1
    /\ spawned' = spawned \cup {[gw |-> g, nr |-> events + 1, subscribe |-> subscribe]}
    /\ UNCHANGED <<conf, gateways, gatewaysSubscribed, loop, connVars, brokerVars, stopVars,
                   faults, history>>

\* The goroutines run in any order.  Stop holds gatewaysMux until the end.
SetGatewaySubscription(e) ==
    /\ stop = "no"
    /\ spawned' = spawned \ {e}
    /\ gateways' = IF e.gw = conf.auth THEN gateways
                   ELSE IF e.subscribe THEN gateways \cup {e.gw} ELSE gateways \ {e.gw}
    /\ UNCHANGED <<conf, events, gatewaysSubscribed, loop, connVars, brokerVars, stopVars,
                   faults, history>>

----------------------------------------------------------------------------
(* Connection *)

Fault == faults < MaxFaults /\ faults' = faults + 1

\* The periodic reconnect; disconnect and connect need connMux, which Stop
\* keeps while it runs.
reconnectLoop ==
    /\ conf.reconnect /\ stop = "no" /\ conn # "connecting" /\ Fault
    /\ conn' = "connecting"
    /\ subs' = {}
    /\ UNCHANGED <<eventVars, gatewaysSubscribed, loop, resets, state, stopVars, history>>

\* connectLoop: a new client, until one connects.  paho starts a goroutine with
\* onConnected after every connect.
connect ==
    /\ conn = "connecting" /\ stop = "no"
    /\ \/ /\ conn' = "up" /\ resets' = resets + 1
          /\ UNCHANGED <<stop, faults>>
       \/ /\ Fault
          /\ stop' = IF conf.terminate THEN "fatal" ELSE stop
          /\ UNCHANGED connVars
    /\ UNCHANGED <<eventVars, gatewaysSubscribed, loop, brokerVars, left, history>>

\* The connection breaks: the session ends, the broker publishes the last will,
\* and the client starts to reconnect.
onConnectionLost ==
    /\ Alive /\ conn = "up" /\ Fault
    /\ conn' = "reconnecting"
    /\ subs' = {}
    /\ state' = WithState({conf.auth}, "OFFLINE")
    /\ stop' = IF conf.terminate THEN "fatal" ELSE stop
    /\ UNCHANGED <<eventVars, gatewaysSubscribed, loop, resets, left, history>>

Reconnect ==
    /\ Alive /\ conn = "reconnecting"
    /\ conn' = "up"
    /\ resets' = resets + 1
    /\ UNCHANGED <<eventVars, gatewaysSubscribed, loop, brokerVars, stopVars, faults, history>>

\* Bug: onConnected does not take gatewaysSubscribedMux.
onConnected_NoMutex ==
    /\ Alive /\ resets > 0
    /\ resets' = resets - 1
    /\ gatewaysSubscribed' = {}
    /\ dirty' = {} /\ forgotten' = forgotten \cup gatewaysSubscribed
    /\ UNCHANGED <<eventVars, loop, conn, brokerVars, stopVars, faults>>

\* onConnected waits for the end of a round of subscribeLoop.
onConnected ==
    /\ Alive /\ resets > 0 /\ loop.pc # "round"
    /\ resets' = resets - 1
    /\ gatewaysSubscribed' = {}
    /\ dirty' = {} /\ forgotten' = forgotten \cup gatewaysSubscribed
    /\ UNCHANGED <<eventVars, loop, conn, brokerVars, stopVars, faults>>

----------------------------------------------------------------------------
(* The answers of the client library: whether the broker executed the        *)
(* request, and whether tokenWrapper reports success.  A request that timed  *)
(* out may have been executed.  A request to subscribe fails while the       *)
(* client reconnects; a QoS 0 publication is then dropped without an error.  *)

Answers == [done : BOOLEAN, ok : BOOLEAN]

tokenWrapper(answer, droppedOk) ==
    CASE conn = "up" ->
           \/ answer = [done |-> TRUE, ok |-> TRUE] /\ UNCHANGED faults
           \/ ~answer.ok /\ Fault
      [] conn = "reconnecting" ->
           answer = [done |-> FALSE, ok |-> droppedOk] /\ UNCHANGED faults
      [] OTHER ->
           answer = [done |-> FALSE, ok |-> FALSE] /\ UNCHANGED faults

\* Nothing to do, and no error, without a state topic.
PublishState(g, s, answer) ==
    /\ IF conf.stateTopic THEN tokenWrapper(answer, TRUE)
       ELSE answer = [done |-> FALSE, ok |-> TRUE] /\ UNCHANGED faults
    /\ state' = IF answer.done THEN WithState({g}, s) ELSE state

----------------------------------------------------------------------------
(* subscribeLoop *)

\* Bug: gateways that left are forgotten instead of unsubscribed.
StartRound_Forget ==
    /\ loop.pc = "idle" /\ stop = "no" /\ IsConnected
    /\ loop' = [pc |-> "round", publish |-> NoGateway,
                subscribe |-> gateways \ gatewaysSubscribed, unsubscribe |-> {}]
    /\ UNCHANGED <<eventVars, gatewaysSubscribed, connVars, brokerVars, stopVars, faults, history>>

\* isClosed waits for connMux, so no round starts while Stop runs.
StartRound ==
    /\ loop.pc = "idle" /\ stop = "no" /\ IsConnected
    /\ loop' = [pc |-> "round", publish |-> NoGateway,
                subscribe |-> gateways \ gatewaysSubscribed,
                unsubscribe |-> gatewaysSubscribed \ gateways]
    /\ UNCHANGED <<eventVars, gatewaysSubscribed, connVars, brokerVars, stopVars, faults, history>>

InRound == loop.pc = "round" /\ Alive

\* An error ends the work on this gateway; the next round tries again.
subscribeGateway(g) ==
    /\ InRound /\ loop.publish = NoGateway /\ g \in loop.subscribe
    /\ \E answer \in Answers :
        /\ tokenWrapper(answer, FALSE)
        /\ subs' = IF answer.done THEN subs \cup {g} ELSE subs
        /\ loop' = IF answer.ok THEN [loop EXCEPT !.publish = g]
                   ELSE [loop EXCEPT !.subscribe = @ \ {g}]
    /\ UNCHANGED <<eventVars, gatewaysSubscribed, connVars, state, stopVars, history>>

PublishOnline ==
    LET g == loop.publish IN
    /\ InRound /\ g \in loop.subscribe
    /\ \E answer \in Answers :
        /\ PublishState(g, "ONLINE", answer)
        /\ gatewaysSubscribed' = IF answer.ok THEN gatewaysSubscribed \cup {g}
                                 ELSE gatewaysSubscribed
    /\ loop' = [loop EXCEPT !.subscribe = @ \ {g}, !.publish = NoGateway]
    /\ UNCHANGED <<eventVars, connVars, subs, stopVars, history>>

unsubscribeGateway(g) ==
    /\ InRound /\ loop.publish = NoGateway /\ loop.subscribe = {} /\ g \in loop.unsubscribe
    /\ \E answer \in Answers :
        /\ tokenWrapper(answer, FALSE)
        /\ subs' = IF answer.done THEN subs \ {g} ELSE subs
        /\ loop' = IF answer.ok THEN [loop EXCEPT !.publish = g]
                   ELSE [loop EXCEPT !.unsubscribe = @ \ {g}]
        /\ dirty' = IF answer.done /\ ~answer.ok THEN dirty \cup {g} ELSE dirty
    /\ UNCHANGED <<eventVars, gatewaysSubscribed, connVars, state, stopVars, forgotten>>

PublishOffline ==
    LET g == loop.publish IN
    /\ InRound /\ g \in loop.unsubscribe
    /\ \E answer \in Answers :
        /\ PublishState(g, "OFFLINE", answer)
        /\ gatewaysSubscribed' = IF answer.ok THEN gatewaysSubscribed \ {g}
                                 ELSE gatewaysSubscribed
        /\ dirty' = IF answer.ok THEN dirty \ {g} ELSE dirty \cup {g}
    /\ loop' = [loop EXCEPT !.unsubscribe = @ \ {g}, !.publish = NoGateway]
    /\ UNCHANGED <<eventVars, connVars, subs, stopVars, forgotten>>

EndRound ==
    /\ InRound /\ loop.publish = NoGateway
    /\ loop.subscribe = {} /\ loop.unsubscribe = {}
    /\ loop' = Idle
    /\ UNCHANGED <<eventVars, gatewaysSubscribed, connVars, brokerVars, stopVars, faults, history>>

subscribeLoop ==
    \/ StartRound
    \/ \E g \in Gateway : subscribeGateway(g) \/ unsubscribeGateway(g)
    \/ PublishOnline
    \/ PublishOffline
    \/ EndRound

----------------------------------------------------------------------------
(* Stop, on a signal: under connMux and gatewaysMux, not under               *)
(* gatewaysSubscribedMux, so a round of subscribeLoop may go on.             *)

StopBegin ==
    /\ stop = "no"
    /\ stop' = "stopping"
    /\ left' = gateways
    /\ UNCHANGED <<eventVars, gatewaysSubscribed, loop, connVars, brokerVars, faults, history>>

StopPublish(g) ==
    /\ stop = "stopping" /\ g \in left
    /\ \E answer \in Answers : PublishState(g, "OFFLINE", answer)
    /\ left' = left \ {g}
    /\ UNCHANGED <<eventVars, gatewaysSubscribed, loop, connVars, subs, stop, history>>

StopEnd ==
    /\ stop = "stopping" /\ left = {}
    /\ conn' = "closed"
    /\ subs' = {}
    /\ stop' = "closed"
    /\ UNCHANGED <<eventVars, gatewaysSubscribed, loop, resets, state, left, faults, history>>

Stop == StopBegin \/ (\E g \in Gateway : StopPublish(g)) \/ StopEnd

----------------------------------------------------------------------------

MqttNext ==
    \/ \E g \in Gateway, subscribe \in BOOLEAN : gatewaySubscribeFunc(g, subscribe)
    \/ \E e \in spawned : SetGatewaySubscription(e)
    \/ reconnectLoop
    \/ connect
    \/ onConnectionLost
    \/ Reconnect
    \/ onConnected
    \/ subscribeLoop
    \/ Stop

\* Goroutines run, the loop comes back every 100 ms, and the client keeps trying
\* to connect.
MqttFairness ==
    /\ WF_mqttVars(\E e \in spawned : SetGatewaySubscription(e))
    /\ WF_mqttVars(connect)
    /\ WF_mqttVars(Reconnect)
    /\ SF_mqttVars(onConnected)
    /\ WF_mqttVars(subscribeLoop)

MqttSpec == MqttInit /\ [][MqttNext]_mqttVars
FairMqttSpec == MqttSpec /\ MqttFairness

----------------------------------------------------------------------------
(* Properties *)

\* Types of the variables, and the bounds.
MqttTypeOK ==
    /\ conf \in Configuration
    /\ events \in 0..MaxEvents
    /\ spawned \subseteq [gw : Gateway, nr : 1..MaxEvents, subscribe : BOOLEAN]
    /\ gateways \subseteq Gateway /\ gatewaysSubscribed \subseteq Gateway
    /\ loop \in [pc : {"idle", "round"}, subscribe : SUBSET Gateway,
                 unsubscribe : SUBSET Gateway, publish : Gateway \cup {NoGateway}]
    /\ conn \in {"connecting", "up", "reconnecting", "closed"}
    /\ resets \in Nat
    /\ subs \subseteq Gateway
    /\ state \in [Gateway -> {"none", "ONLINE", "OFFLINE"}]
    /\ stop \in {"no", "stopping", "closed", "fatal"}
    /\ left \subseteq Gateway /\ dirty \subseteq Gateway /\ forgotten \subseteq Gateway
    /\ faults \in 0..MaxFaults

\* What the integration takes for subscribed is subscribed at the broker, on the
\* connection it has now: a broken connection never leaves a gateway that is
\* believed to be subscribed and that no downlink can reach.  onConnected and
\* subscribeLoop establish it together, with gatewaysSubscribedMux.  Exceptions
\* are the gateway whose OFFLINE state is just being published, and those whose
\* unsubscription failed half way.
SubscribedIsReal ==
    conn = "up" /\ resets = 0 =>
        gatewaysSubscribed \subseteq
            subs \cup dirty \cup ({loop.publish} \cap loop.unsubscribe)

\* The aim of subscribeLoop: every desired gateway is subscribed and shown as
\* online; and if nothing ever failed, no other gateway is, except one that was
\* subscribed before onConnected had its turn.
Settled ==
    /\ gateways \ dirty \subseteq subs
    /\ conf.stateTopic => \A g \in gateways \ dirty : state[g] = "ONLINE"
    /\ faults = 0 => /\ subs \subseteq gateways \cup forgotten
                     /\ \A g \in Gateway \ (gateways \cup forgotten) : state[g] # "ONLINE"

\* Once gateways and connection have come to rest, subscribeLoop reaches its aim
\* and stays there ("changes are picked up in the next run").
SubscriptionsSettle == <>[](stop = "no" => Settled)
=============================================================================
