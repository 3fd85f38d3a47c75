----------------------- MODULE MqttIntegrationProofs -----------------------
(* The subscriptions of the MQTT integration, for every set of gateways and  *)
(* configurations and without a bound that matters on events and faults.     *)
EXTENDS MqttIntegration, TLAPS

----------------------------------------------------------------------------
(* The inductive invariant *)

\* A gateway is being worked on only during a round.
IdleIsIdle == loop.pc = "idle" => loop.publish = NoGateway

\* The gateway that was just subscribed still is when its ONLINE state is
\* published, or a call of onConnected waits for the end of the round.
PublishedIsReal ==
    conn = "up" /\ resets = 0 /\ loop.publish \in loop.subscribe => loop.publish \in subs

SubscriptionInv == IdleIsIdle /\ PublishedIsReal /\ SubscribedIsReal

MqttInv == MqttTypeOK /\ SubscriptionInv

LEMMA MqttInvInit == MqttInit => MqttInv
<1> SUFFICES ASSUME MqttInit PROVE MqttInv
  OBVIOUS
<1> USE MqttConstants DEF MqttInit, Idle
<1>1. MqttTypeOK
  BY DEF MqttTypeOK
<1>2. SubscriptionInv
  BY DEF SubscriptionInv, IdleIsIdle, PublishedIsReal, SubscribedIsReal
<1> QED
  BY <1>1, <1>2 DEF MqttInv

----------------------------------------------------------------------------
(* Types *)

LEMMA FaultType ==
    ASSUME MqttTypeOK, Fault
    PROVE  faults' \in 0..MaxFaults
BY MqttConstants DEF MqttTypeOK, Fault

LEMMA AnswerType ==
    ASSUME MqttTypeOK, NEW answer \in Answers, NEW b \in BOOLEAN, tokenWrapper(answer, b)
    PROVE  faults' \in 0..MaxFaults
BY FaultType DEF MqttTypeOK, tokenWrapper

LEMMA WithStateType ==
    ASSUME MqttTypeOK, NEW gs, NEW s \in {"ONLINE", "OFFLINE"}
    PROVE  WithState(gs, s) \in [Gateway -> {"none", "ONLINE", "OFFLINE"}]
BY DEF MqttTypeOK, WithState

LEMMA PublishType ==
    ASSUME MqttTypeOK, NEW g, NEW s \in {"ONLINE", "OFFLINE"}, NEW answer \in Answers,
           PublishState(g, s, answer)
    PROVE  /\ faults' \in 0..MaxFaults
           /\ state' \in [Gateway -> {"none", "ONLINE", "OFFLINE"}]
<1>1. faults' \in 0..MaxFaults
  BY AnswerType DEF PublishState, MqttTypeOK
<1>2. state' \in [Gateway -> {"none", "ONLINE", "OFFLINE"}]
  BY WithStateType DEF PublishState, MqttTypeOK
<1> QED
  BY <1>1, <1>2

LEMMA LoopTypeStep ==
    ASSUME MqttTypeOK, subscribeLoop
    PROVE  MqttTypeOK'
<1> USE MqttConstants DEF eventVars, connVars, brokerVars, stopVars, history
<1>1. CASE StartRound
  BY <1>1 DEF MqttTypeOK, StartRound
<1>2. ASSUME NEW g \in Gateway, subscribeGateway(g) PROVE MqttTypeOK'
  <2>1. PICK answer \in Answers :
          /\ tokenWrapper(answer, FALSE)
          /\ subs' = IF answer.done THEN subs \cup {g} ELSE subs
          /\ loop' = IF answer.ok THEN [loop EXCEPT !.publish = g]
                     ELSE [loop EXCEPT !.subscribe = @ \ {g}]
    BY <1>2 DEF subscribeGateway
  <2>2. faults' \in 0..MaxFaults
    BY <2>1, AnswerType
  <2> QED
    BY <1>2, <2>1, <2>2 DEF MqttTypeOK, subscribeGateway
<1>3. ASSUME NEW g \in Gateway, unsubscribeGateway(g) PROVE MqttTypeOK'
  <2>1. PICK answer \in Answers :
          /\ tokenWrapper(answer, FALSE)
          /\ subs' = IF answer.done THEN subs \ {g} ELSE subs
          /\ loop' = IF answer.ok THEN [loop EXCEPT !.publish = g]
                     ELSE [loop EXCEPT !.unsubscribe = @ \ {g}]
          /\ dirty' = IF answer.done /\ ~answer.ok THEN dirty \cup {g} ELSE dirty
    BY <1>3 DEF unsubscribeGateway
  <2>2. faults' \in 0..MaxFaults
    BY <2>1, AnswerType
  <2> QED
    BY <1>3, <2>1, <2>2 DEF MqttTypeOK, unsubscribeGateway
<1>4. CASE PublishOnline
  <2>1. /\ faults' \in 0..MaxFaults
        /\ state' \in [Gateway -> {"none", "ONLINE", "OFFLINE"}]
    BY <1>4, PublishType DEF PublishOnline
  <2> QED
    BY <1>4, <2>1 DEF MqttTypeOK, PublishOnline
<1>5. CASE PublishOffline
  <2>1. /\ faults' \in 0..MaxFaults
        /\ state' \in [Gateway -> {"none", "ONLINE", "OFFLINE"}]
    BY <1>5, PublishType DEF PublishOffline
  <2> QED
    BY <1>5, <2>1 DEF MqttTypeOK, PublishOffline
<1>6. CASE EndRound
  BY <1>6 DEF MqttTypeOK, EndRound, Idle
<1> QED
  BY <1>1, <1>2, <1>3, <1>4, <1>5, <1>6 DEF subscribeLoop

LEMMA TypeStep ==
    ASSUME MqttTypeOK, [MqttNext]_mqttVars
    PROVE  MqttTypeOK'
<1> USE MqttConstants DEF eventVars, connVars, brokerVars, stopVars, history
<1>1. ASSUME NEW g \in Gateway, NEW b \in BOOLEAN, gatewaySubscribeFunc(g, b) PROVE MqttTypeOK'
  <2>1. events + 1 \in 1..MaxEvents
    BY <1>1 DEF gatewaySubscribeFunc, MqttTypeOK
  <2>2. [gw |-> g, nr |-> events + 1, subscribe |-> b]
            \in [gw : Gateway, nr : 1..MaxEvents, subscribe : BOOLEAN]
    BY <2>1
  <2> QED
    BY <1>1, <2>1, <2>2 DEF gatewaySubscribeFunc, MqttTypeOK
<1>2. ASSUME NEW e \in spawned, SetGatewaySubscription(e) PROVE MqttTypeOK'
  BY <1>2 DEF SetGatewaySubscription, MqttTypeOK
<1>3. CASE reconnectLoop
  BY <1>3, FaultType DEF reconnectLoop, MqttTypeOK
<1>4. CASE connect
  BY <1>4, FaultType DEF connect, MqttTypeOK
<1>5. CASE onConnectionLost
  BY <1>5, FaultType, WithStateType DEF onConnectionLost, MqttTypeOK
<1>6. CASE Reconnect
  BY <1>6 DEF Reconnect, MqttTypeOK
<1>7. CASE onConnected
  BY <1>7 DEF onConnected, MqttTypeOK
<1>8. CASE StopBegin
  BY <1>8 DEF StopBegin, MqttTypeOK
<1>9. ASSUME NEW g \in Gateway, StopPublish(g) PROVE MqttTypeOK'
  <2>1. /\ faults' \in 0..MaxFaults
        /\ state' \in [Gateway -> {"none", "ONLINE", "OFFLINE"}]
    BY <1>9, PublishType DEF StopPublish
  <2> QED
    BY <1>9, <2>1 DEF MqttTypeOK, StopPublish
<1>10. CASE StopEnd
  BY <1>10 DEF StopEnd, MqttTypeOK
<1>11. CASE UNCHANGED mqttVars
  BY <1>11 DEF mqttVars, MqttTypeOK
<1> QED
  BY <1>1, <1>2, <1>3, <1>4, <1>5, <1>6, <1>7, <1>8, <1>9, <1>10, <1>11, LoopTypeStep
     DEF MqttNext, Stop

----------------------------------------------------------------------------
(* Subscriptions *)

\* A round: an answer of success comes from a connection that is up.
LEMMA LoopStep ==
    ASSUME MqttTypeOK, SubscriptionInv, subscribeLoop
    PROVE  SubscriptionInv'
<1> USE MqttConstants DEF MqttTypeOK, SubscriptionInv, IdleIsIdle, PublishedIsReal,
        SubscribedIsReal, InRound, eventVars, connVars, brokerVars, stopVars, history
<1>1. CASE StartRound
  BY <1>1 DEF StartRound
<1>2. ASSUME NEW g \in Gateway, subscribeGateway(g) PROVE SubscriptionInv'
  <2>1. PICK answer \in Answers :
          /\ tokenWrapper(answer, FALSE)
          /\ subs' = IF answer.done THEN subs \cup {g} ELSE subs
          /\ loop' = IF answer.ok THEN [loop EXCEPT !.publish = g]
                     ELSE [loop EXCEPT !.subscribe = @ \ {g}]
    BY <1>2 DEF subscribeGateway
  <2>2. answer.ok => answer.done
    BY <2>1 DEF tokenWrapper, Answers
  <2> QED
    BY <1>2, <2>1, <2>2 DEF subscribeGateway
<1>3. ASSUME NEW g \in Gateway, unsubscribeGateway(g) PROVE SubscriptionInv'
  <2>1. PICK answer \in Answers :
          /\ subs' = IF answer.done THEN subs \ {g} ELSE subs
          /\ loop' = IF answer.ok THEN [loop EXCEPT !.publish = g]
                     ELSE [loop EXCEPT !.unsubscribe = @ \ {g}]
          /\ dirty' = IF answer.done /\ ~answer.ok THEN dirty \cup {g} ELSE dirty
    BY <1>3 DEF unsubscribeGateway
  <2> QED
    BY <1>3, <2>1 DEF unsubscribeGateway
<1>4. CASE PublishOnline
  BY <1>4 DEF PublishOnline
<1>5. CASE PublishOffline
  BY <1>5 DEF PublishOffline
<1>6. CASE EndRound
  BY <1>6 DEF EndRound, Idle
<1> QED
  BY <1>1, <1>2, <1>3, <1>4, <1>5, <1>6 DEF subscribeLoop

LEMMA SubscriptionStep ==
    ASSUME MqttTypeOK, SubscriptionInv, [MqttNext]_mqttVars
    PROVE  SubscriptionInv'
<1> USE MqttConstants DEF MqttTypeOK, SubscriptionInv, IdleIsIdle, PublishedIsReal,
        SubscribedIsReal, connVars
<1>1. ASSUME UNCHANGED <<gatewaysSubscribed, loop, connVars, subs, dirty>> PROVE SubscriptionInv'
  BY <1>1
<1>2. CASE reconnectLoop
  BY <1>2 DEF reconnectLoop
<1>3. CASE connect
  BY <1>3 DEF connect, brokerVars, history
<1>4. CASE onConnectionLost
  BY <1>4 DEF onConnectionLost
<1>5. CASE Reconnect
  BY <1>5 DEF Reconnect
<1>6. CASE onConnected
  BY <1>6 DEF onConnected, brokerVars
<1>7. CASE StopEnd
  BY <1>7 DEF StopEnd
<1>8. ASSUME \/ \E g \in Gateway, b \in BOOLEAN : gatewaySubscribeFunc(g, b)
             \/ \E e \in spawned : SetGatewaySubscription(e)
             \/ StopBegin
             \/ \E g \in Gateway : StopPublish(g)
             \/ UNCHANGED mqttVars
      PROVE  UNCHANGED <<gatewaysSubscribed, loop, connVars, subs, dirty>>
  BY <1>8 DEF gatewaySubscribeFunc, SetGatewaySubscription, StopBegin, StopPublish, mqttVars,
              brokerVars, history
<1> QED
  BY <1>1, <1>2, <1>3, <1>4, <1>5, <1>6, <1>7, <1>8, LoopStep DEF MqttNext, Stop

LEMMA MqttInvStep == MqttInv /\ [MqttNext]_mqttVars => MqttInv'
BY TypeStep, SubscriptionStep DEF MqttInv

----------------------------------------------------------------------------
(* The theorems *)

\* The invariant holds in every reachable state.
THEOREM MqttInvariant == MqttSpec => []MqttInv
BY MqttInvInit, MqttInvStep, PTL DEF MqttSpec

\* The variables of the integration keep their types.
THEOREM MqttType == MqttSpec => []MqttTypeOK
<1>1. MqttInv => MqttTypeOK
  BY DEF MqttInv
<1> QED
  BY <1>1, MqttInvariant, PTL

\* Whatever the broker, the network and the gateways do, a gateway that
\* subscribeLoop takes for subscribed is subscribed on the present connection as
\* soon as onConnected has run for it, except while or after its unsubscription
\* was left half way.
THEOREM SubscribedReal == MqttSpec => []SubscribedIsReal
<1>1. MqttInv => SubscribedIsReal
  BY DEF MqttInv, SubscriptionInv
<1> QED
  BY <1>1, MqttInvariant, PTL
=============================================================================
