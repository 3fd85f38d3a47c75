----------------------------- MODULE SemtechUdp -----------------------------
(* The Semtech UDP backend with the forwarder's part of its events and       *)
(* acknowledgements: the registry that PULL_DATA packets renew and cleanup   *)
(* empties, and the downlinks, whose items are tried one after the other     *)
(* until the gateway accepts one.  Every packet is handled in a goroutine of *)
(* its own, and UDP loses, delays and may repeat packets.                    *)
(*                                                                           *)
(* Every downlink has a token of its own for the 15 seconds of the cache;    *)
(* Stop, which the bridge never calls, is left out.                          *)
EXTENDS Naturals, Sequences, FiniteSets

CONSTANTS
    Gateway,      \* gateway identifiers
    Downlink,     \* downlink frames, each sent once; also their tokens
    Items,        \* number of items of each downlink
    Target,       \* gateway of each downlink
    CleanupAge,   \* age in steps of the clock that cleanup tolerates
    MaxRepeated   \* bound: TX_ACK packets that are delivered twice

ASSUME UdpConstants ==
    /\ Items \in [Downlink -> Nat \ {0}] /\ Target \in [Downlink -> Gateway]
    /\ CleanupAge \in Nat /\ MaxRepeated \in Nat

VARIABLES
    alive,      \* gateways that are running
    registry,   \* gateways.gateways: steps of the clock since lastSeen
    spawned,    \* goroutines of gatewaySubscribeFunc that have not run
    desired,    \* the integration's gateways map
    sent,       \* downlinks SendDownlinkFrame was called for
    cache,      \* cached downlinks and the index of their current item
    txAckItems, \* status of each item of a downlink
    pullResp,   \* PULL_RESP packets on their way: downlink and item
    done,       \* the gateway's answers to each item it received
    txAck,      \* TX_ACK packets on their way
    handlers,   \* handleTXACK calls that have read the cache
    reporting,  \* goroutines of downlinkTxAckFunc that have not run
    published,  \* acknowledgements published to the integration
    repeated    \* number of TX_ACK packets delivered twice

registryVars == <<alive, registry, spawned, desired>>
netVars == <<pullResp, done, txAck, repeated>>
ackVars == <<handlers, reporting, published>>
udpVars == <<registryVars, sent, cache, txAckItems, netVars, ackVars>>

----------------------------------------------------------------------------
(* Registry *)

Registered == DOMAIN registry

UdpInit ==
    /\ alive \in SUBSET Gateway
    /\ registry = <<>>
    /\ spawned = {} /\ desired = {}
    /\ sent = {}
    /\ cache = <<>>
    /\ txAckItems = [d \in Downlink |-> [i \in 1..Items[d] |-> "IGNORED"]]
    /\ pullResp = {} /\ txAck = {} /\ repeated = 0
    /\ done = [d \in Downlink |-> [i \in 1..Items[d] |-> {}]]
    /\ handlers = {} /\ reporting = {} /\ published = {}

With(f, x, v) == [y \in DOMAIN f \cup {x} |-> IF y = x THEN v ELSE f[y]]
Without(f, xs) == [y \in DOMAIN f \ xs |-> f[y]]

\* Bug: only a gateway that is new is announced.
handlePullData_Once(g) ==
    /\ g \in alive
    /\ registry' = With(registry, g, 0)
    /\ spawned' = IF g \in Registered THEN spawned
                  ELSE spawned \cup {[gw |-> g, subscribe |-> TRUE]}
    /\ UNCHANGED <<alive, desired, sent, cache, txAckItems, netVars, ackVars>>

\* handlePullData and gateways.set: every PULL_DATA raises an event.
handlePullData(g) ==
    /\ g \in alive
    /\ registry' = With(registry, g, 0)
    /\ spawned' = spawned \cup {[gw |-> g, subscribe |-> TRUE]}
    /\ UNCHANGED <<alive, desired, sent, cache, txAckItems, netVars, ackVars>>

Expired == {g \in Registered : registry[g] > CleanupAge}

\* Bug: a gateway that expired is removed without an event.
cleanup_Silent ==
    /\ Expired # {}
    /\ registry' = Without(registry, Expired)
    /\ UNCHANGED <<alive, spawned, desired, sent, cache, txAckItems, netVars, ackVars>>

\* cleanup, once a minute.
cleanup ==
    /\ Expired # {}
    /\ registry' = Without(registry, Expired)
    /\ spawned' = spawned \cup [gw : Expired, subscribe : {FALSE}]
    /\ UNCHANGED <<alive, desired, sent, cache, txAckItems, netVars, ackVars>>

\* The goroutines of the forwarder run in any order, but within a step of the
\* clock.
SetGatewaySubscription(e) ==
    /\ spawned' = spawned \ {e}
    /\ desired' = IF e.subscribe THEN desired \cup {e.gw} ELSE desired \ {e.gw}
    /\ UNCHANGED <<alive, registry, sent, cache, txAckItems, netVars, ackVars>>

Tick ==
    /\ spawned = {}
    /\ registry' = [g \in Registered |->
                       IF registry[g] > CleanupAge THEN registry[g] ELSE registry[g] + 1]
    /\ UNCHANGED <<alive, spawned, desired, sent, cache, txAckItems, netVars, ackVars>>

\* A gateway is switched on or off.
Switch(g) ==
    /\ alive' = IF g \in alive THEN alive \ {g} ELSE alive \cup {g}
    /\ UNCHANGED <<registry, spawned, desired, sent, cache, txAckItems, netVars, ackVars>>

----------------------------------------------------------------------------
(* Downlinks *)

\* sendDownlinkFrame: the cache is written first, then the gateway is looked up;
\* an unregistered gateway is an error, which the forwarder logs.
sendDownlinkFrame(d, i) ==
    /\ cache' = With(cache, d, i)
    /\ pullResp' = IF Target[d] \in Registered
                   THEN pullResp \cup {[downlink |-> d, item |-> i]} ELSE pullResp

SendDownlinkFrame(d) ==
    /\ d \notin sent
    /\ sent' = sent \cup {d}
    /\ sendDownlinkFrame(d, 1)
    /\ UNCHANGED <<registryVars, txAckItems, done, txAck, repeated, ackVars>>

\* The gateway receives an item, transmits or refuses it and says so.  Refusals
\* may be known statuses or one that gw.TxAckStatus does not have.
GatewayAnswers(p, answer) ==
    /\ Target[p.downlink] \in alive
    /\ pullResp' = pullResp \ {p}
    /\ done' = [done EXCEPT ![p.downlink][p.item] = @ \cup {answer}]
    /\ txAck' = txAck \cup {[downlink |-> p.downlink, item |-> p.item, status |-> answer]}
    /\ UNCHANGED <<registryVars, sent, cache, txAckItems, repeated, ackVars>>

\* UDP: a packet is lost.
Lose ==
    /\ \/ \E p \in pullResp : pullResp' = pullResp \ {p} /\ UNCHANGED txAck
       \/ \E a \in txAck : txAck' = txAck \ {a} /\ UNCHANGED pullResp
    /\ UNCHANGED <<registryVars, sent, cache, txAckItems, done, repeated, ackVars>>

\* The entries of a downlink expire after 15 seconds.
CacheExpires(d) ==
    /\ d \in DOMAIN cache
    /\ cache' = Without(cache, {d})
    /\ UNCHANGED <<registryVars, sent, txAckItems, netVars, ackVars>>

\* handleTXACK: the look-up; a TX_ACK for a token that is not cached is an error.
\* The packet may be delivered once more.
LookUp(a) ==
    /\ \/ txAck' = txAck \ {a} /\ UNCHANGED repeated
       \/ repeated < MaxRepeated /\ repeated' = repeated + 1 /\ UNCHANGED txAck
    /\ handlers' = IF a.downlink \in DOMAIN cache
                   THEN handlers \cup {[downlink |-> a.downlink, index |-> cache[a.downlink],
                                        status |-> a.status, copy |-> repeated]}
                   ELSE handlers
    /\ UNCHANGED <<registryVars, sent, cache, txAckItems, pullResp, done, reporting, published>>

\* Bug: the status is stored for the item that is tried next.
Refused_Next(h) ==
    /\ h.status = "REFUSED"
    /\ txAckItems' = [txAckItems EXCEPT ![h.downlink] =
           [i \in DOMAIN @ |-> IF i = h.index + 1 THEN h.status ELSE @[i]]]
    /\ IF h.index < Items[h.downlink]
       THEN sendDownlinkFrame(h.downlink, h.index + 1) /\ UNCHANGED reporting
       ELSE reporting' = reporting \cup {h.downlink} /\ UNCHANGED <<cache, pullResp>>

\* The gateway refused the item: the next one, if there is one, or the report.
Refused(h) ==
    /\ h.status = "REFUSED"
    /\ txAckItems' = [txAckItems EXCEPT ![h.downlink][h.index] = h.status]
    /\ IF h.index < Items[h.downlink]
       THEN sendDownlinkFrame(h.downlink, h.index + 1) /\ UNCHANGED reporting
       ELSE reporting' = reporting \cup {h.downlink} /\ UNCHANGED <<cache, pullResp>>

\* Bug: every status that is not a known refusal is a success.
Accepted_Any(h) ==
    /\ h.status # "REFUSED"
    /\ txAckItems' = [txAckItems EXCEPT ![h.downlink][h.index] = "OK"]
    /\ reporting' = reporting \cup {h.downlink}
    /\ UNCHANGED <<cache, pullResp>>

\* The gateway transmitted the item: the report.
Accepted(h) ==
    /\ h.status = "OK"
    /\ txAckItems' = [txAckItems EXCEPT ![h.downlink][h.index] = "OK"]
    /\ reporting' = reporting \cup {h.downlink}
    /\ UNCHANGED <<cache, pullResp>>

\* A status that gw.TxAckStatus does not have ends the handler with an error.
Unknown(h) ==
    /\ h.status = "UNKNOWN"
    /\ UNCHANGED <<txAckItems, reporting, cache, pullResp>>

\* handleTXACK: the rest.
handleTXACK(h) ==
    /\ Refused(h) \/ Accepted(h) \/ Unknown(h)
    /\ handlers' = handlers \ {h}
    /\ UNCHANGED <<registryVars, sent, done, txAck, repeated, published>>

\* downlinkTxAckFunc: a goroutine publishes the items, in the slice that later
\* handlers change, and an error for old network servers.
downlinkTxAckFunc(d) ==
    /\ reporting' = reporting \ {d}
    /\ published' = published \cup
           {[downlink |-> d, items |-> txAckItems[d],
             error |-> \A i \in 1..Items[d] : txAckItems[d][i] # "OK"]}
    /\ UNCHANGED <<registryVars, sent, cache, txAckItems, netVars, handlers>>

----------------------------------------------------------------------------

RegistryNext ==
    \/ \E g \in Gateway : handlePullData(g) \/ Switch(g)
    \/ \E e \in spawned : SetGatewaySubscription(e)
    \/ cleanup
    \/ Tick

DownlinkNext ==
    \/ \E d \in Downlink : SendDownlinkFrame(d) \/ CacheExpires(d)
    \/ \E p \in pullResp, answer \in {"OK", "REFUSED", "UNKNOWN"} : GatewayAnswers(p, answer)
    \/ Lose
    \/ \E a \in txAck : LookUp(a)
    \/ \E h \in handlers : handleTXACK(h)
    \/ \E d \in reporting : downlinkTxAckFunc(d)

UdpNext == RegistryNext \/ DownlinkNext
UdpSpec == UdpInit /\ [][UdpNext]_udpVars

\* A running gateway goes on sending PULL_DATA, cleanup and the clock never
\* stop, and goroutines run.
UdpFairness ==
    /\ \A g \in Gateway : SF_udpVars(handlePullData(g))
    /\ WF_udpVars(cleanup)
    /\ WF_udpVars(Tick)
    /\ WF_udpVars(\E e \in spawned : SetGatewaySubscription(e))

FairUdpSpec == UdpSpec /\ UdpFairness

----------------------------------------------------------------------------
(* Properties *)

Status == {"IGNORED", "OK", "REFUSED"}

\* Types of the variables, and the bounds.
UdpTypeOK ==
    /\ alive \subseteq Gateway /\ desired \subseteq Gateway /\ sent \subseteq Downlink
    /\ Registered \subseteq Gateway /\ \A g \in Registered : registry[g] \in 0..(CleanupAge + 1)
    /\ spawned \subseteq [gw : Gateway, subscribe : BOOLEAN]
    /\ DOMAIN cache \subseteq Downlink
    /\ \A d \in DOMAIN cache : cache[d] \in 1..Items[d]
    /\ \A d \in Downlink : /\ txAckItems[d] \in [1..Items[d] -> Status]
                           /\ done[d] \in [1..Items[d] -> SUBSET {"OK", "REFUSED", "UNKNOWN"}]
    /\ \A p \in pullResp : p.downlink \in Downlink /\ p.item \in 1..Items[p.downlink]
    /\ \A h \in handlers : h.downlink \in Downlink /\ h.index \in 1..Items[h.downlink]
    /\ reporting \subseteq Downlink
    /\ repeated \in 0..MaxRepeated

\* What is published about a downlink is what the gateway did, item by item, and
\* the retry stops at the first item that is transmitted -- as long as no TX_ACK
\* arrives twice: a repeated one is taken for the answer to the current item.
ReportIsTrue ==
    repeated = 0 =>
        \A r \in published : \A i \in DOMAIN r.items :
            /\ done[r.downlink][i] = IF r.items[i] = "IGNORED" THEN {} ELSE {r.items[i]}
            /\ r.items[i] = "OK" => \A j \in DOMAIN r.items : j > i => r.items[j] = "IGNORED"

\* Whatever the network repeats: no success is published for a downlink of which
\* no item was transmitted.
NoFalseSuccess ==
    \A r \in published : ~r.error => \E i \in DOMAIN r.items : "OK" \in done[r.downlink][i]

\* A gateway that stays on is registered and subscribed again and again, although
\* the goroutines for a late cleanup and a fresh PULL_DATA may swap places.
AliveComesBack == \A g \in Gateway : <>[](g \in alive) => []<>(g \in desired /\ g \in Registered)

\* A gateway that stays off is unregistered and unsubscribed in the end, whatever
\* events were still under way when it was last heard.
DeadIsForgotten == \A g \in Gateway : <>[](g \notin alive) => <>[](g \notin desired \cup Registered)
=============================================================================
