---------------------------- MODULE BasicStation ----------------------------
(* The Basic Station backend with the forwarder's part of its events: the    *)
(* registry of gateway connections, the goroutine of every connection, the   *)
(* cache that finds the downlink an acknowledgement belongs to, and the      *)
(* goroutines that tell the integration which gateways are connected.        *)
(*                                                                           *)
(* Frames are identifiers; uplinks are not followed once they are handed     *)
(* over.  Stop closes the listener: no further Connect.                      *)
EXTENDS Naturals, FiniteSets

CONSTANTS
    Gateway,     \* gateway identifiers
    Conn,        \* websocket connections, each used once
    Downlink,    \* downlink frames, each sent once
    Token,       \* 16-bit tokens: the DIID of a downlink
    NoConn,      \* no connection is registered
    NoDownlink,  \* no downlink is cached
    MaxEvents    \* bound: connect and disconnect events

ASSUME BasicStationConstants ==
    /\ NoConn \notin Conn /\ NoDownlink \notin Downlink
    /\ MaxEvents \in Nat

VARIABLES
    pc,         \* where the goroutine of each connection stands
    gw,         \* the gateway each connection was made for
    registry,   \* gateways.gateways
    events,     \* number of events the registry has raised
    spawned,    \* goroutines of gatewaySubscribeFunc that have not run
    desired,    \* the integration's gateways map
    diidCache,  \* the downlink stored under each token
    air,        \* downlinks a station has and has not acknowledged
    acks,       \* acknowledgements handed to the forwarder
    sent,       \* downlinks SendDownlinkFrame was called for
    raced,      \* history: gateways with two registrations in progress at once
    stray,      \* history: gateways for which the work for one connection was
                \* done on another
    overtaken,  \* history: gateways with events that ran out of order
    reused      \* history: tokens given to a second downlink

connVars == <<pc, gw>>
eventVars == <<events, spawned, desired, overtaken>>
downlinkVars == <<diidCache, air, acks, sent, reused>>
stationVars == <<connVars, registry, eventVars, downlinkVars, raced, stray>>

----------------------------------------------------------------------------
(* Events and the forwarder *)

\* subscribeEventFunc, called under the lock of the registry: a goroutine.
Raise(g, subscribe) ==
    /\ events < MaxEvents
    /\ events' = events + 1
    /\ spawned' = spawned \cup {[gw |-> g, nr |-> events + 1, subscribe |-> subscribe]}
    /\ UNCHANGED <<desired, overtaken>>

Older(e) == {f \in spawned : f.gw = e.gw /\ f.nr < e.nr}

\* The goroutines run in any order.
SetGatewaySubscription(e) ==
    /\ spawned' = spawned \ {e}
    /\ desired' = IF e.subscribe THEN desired \cup {e.gw} ELSE desired \ {e.gw}
    /\ overtaken' = IF Older(e) = {} THEN overtaken ELSE overtaken \cup {e.gw}
    /\ UNCHANGED <<connVars, registry, events, downlinkVars, raced, stray>>

----------------------------------------------------------------------------
(* Connections *)

StationInit ==
    /\ pc = [c \in Conn |-> "none"]
    /\ gw \in [Conn -> Gateway]
    /\ registry = [g \in Gateway |-> NoConn]
    /\ events = 0 /\ spawned = {} /\ desired = {}
    /\ diidCache = [t \in Token |-> NoDownlink]
    /\ air = {} /\ acks = {} /\ sent = {}
    /\ raced = {} /\ stray = {} /\ overtaken = {} /\ reused = {}

Of(g, where) == {c \in Conn : gw[c] = g /\ pc[c] \in where}

\* websocketWrap and the beginning of handleGateway: the certificate's name, if
\* there is one, must be that of the gateway.
Connect(c) ==
    /\ pc[c] = "none"
    /\ \E cn \in {"absent", "right", "wrong"} :
        pc' = [pc EXCEPT ![c] = IF cn = "wrong" THEN "gone" ELSE "get"]
    /\ UNCHANGED <<gw, registry, eventVars, downlinkVars, raced, stray>>

\* Bug: an existing registration does not matter.
CheckExisting_Ignore(c) ==
    /\ pc[c] = "get"
    /\ pc' = [pc EXCEPT ![c] = "set"]
    /\ raced' = IF Of(gw[c], {"set"}) # {} THEN raced \cup {gw[c]} ELSE raced
    /\ UNCHANGED <<gw, registry, eventVars, downlinkVars, stray>>

\* "make sure we're not overwriting an existing connection": the look-up alone.
CheckExisting(c) ==
    LET free == registry[gw[c]] = NoConn IN
    /\ pc[c] = "get"
    /\ pc' = [pc EXCEPT ![c] = IF free THEN "set" ELSE "gone"]
    /\ raced' = IF free /\ Of(gw[c], {"set"}) # {} THEN raced \cup {gw[c]} ELSE raced
    /\ UNCHANGED <<gw, registry, eventVars, downlinkVars, stray>>

\* gateways.set.
Register(c) ==
    /\ pc[c] = "set"
    /\ pc' = [pc EXCEPT ![c] = "open"]
    /\ registry' = [registry EXCEPT ![gw[c]] = c]
    /\ Raise(gw[c], TRUE)
    /\ UNCHANGED <<gw, downlinkVars, raced, stray>>

\* The connection ends: read error or time-out, ping that cannot be sent.
Disconnect(c) ==
    /\ pc[c] = "open"
    /\ pc' = [pc EXCEPT ![c] = "remove"]
    /\ UNCHANGED <<gw, registry, eventVars, downlinkVars, raced, stray>>

\* Bug: the goroutine ends without its deferred function.
remove_Forget(c) ==
    /\ pc[c] = "remove"
    /\ pc' = [pc EXCEPT ![c] = "gone"]
    /\ Raise(gw[c], FALSE)
    /\ UNCHANGED <<gw, registry, downlinkVars, raced, stray>>

\* Bug: the removal raises no event.
remove_Silent(c) ==
    /\ pc[c] = "remove"
    /\ pc' = [pc EXCEPT ![c] = "gone"]
    /\ registry' = [registry EXCEPT ![gw[c]] = NoConn]
    /\ UNCHANGED <<gw, eventVars, downlinkVars, raced, stray>>

\* gateways.remove, whichever connection is registered.
remove(c) ==
    /\ pc[c] = "remove"
    /\ pc' = [pc EXCEPT ![c] = "gone"]
    /\ registry' = [registry EXCEPT ![gw[c]] = NoConn]
    /\ Raise(gw[c], FALSE)
    /\ UNCHANGED <<gw, downlinkVars, raced, stray>>

----------------------------------------------------------------------------
(* Messages of a station: one goroutine per connection, which looks its      *)
(* gateway up again for everything it does.                                  *)

\* sendToGateway and the statistics of the gateway, on behalf of c.
Concerns(c) ==
    stray' = IF registry[gw[c]] \in {c, NoConn} THEN stray ELSE stray \cup {gw[c]}

FromStation(c) ==
    /\ pc[c] = "open"
    /\ Concerns(c)
    /\ UNCHANGED <<connVars, registry, eventVars, downlinkVars, raced>>

\* Answered with the router configuration, and with the time.
handleVersion(c) == FromStation(c)
handleTimeSync(c) == FromStation(c)

\* Counted and handed over.
handleUplinkDataFrame(c) == FromStation(c)
handleJoinRequest(c) == FromStation(c)
handleProprietaryDataFrame(c) == FromStation(c)

\* After a data frame: a time transfer with the clock of c's radio.
sendTimesyncRequest(c) == FromStation(c)

----------------------------------------------------------------------------
(* Downlinks *)

InUse(t) == diidCache[t] # NoDownlink \/ \E f \in air : f.token = t

\* Bug: all downlinks are cached under the same token.
SendDownlinkFrame_SameToken(d, g, t) ==
    /\ d \notin sent
    /\ sent' = sent \cup {d}
    /\ reused' = IF InUse(t) THEN reused \cup {t} ELSE reused
    /\ diidCache' = [diidCache EXCEPT ![CHOOSE u \in Token : TRUE] = d]
    /\ air' = IF registry[g] = NoConn THEN air
              ELSE air \cup {[downlink |-> d, token |-> t, gw |-> g]}
    /\ UNCHANGED <<connVars, registry, eventVars, acks, raced, stray>>

\* A downlink that cannot be converted is an error.  Otherwise it is cached under
\* its token, then sent on the registered connection; without one, or when the
\* write fails, the forwarder logs an error.
SendDownlinkFrame(d, g, t) ==
    /\ d \notin sent
    /\ sent' = sent \cup {d}
    /\ \/ UNCHANGED <<reused, diidCache, air>>
       \/ /\ reused' = IF InUse(t) THEN reused \cup {t} ELSE reused
          /\ diidCache' = [diidCache EXCEPT ![t] = d]
          /\ \/ air' = air
             \/ /\ registry[g] # NoConn
                /\ air' = air \cup {[downlink |-> d, token |-> t, gw |-> g]}
    /\ UNCHANGED <<connVars, registry, eventVars, acks, raced, stray>>

\* An entry of the cache expires after a minute.
DiidExpires(t) ==
    /\ diidCache[t] # NoDownlink
    /\ diidCache' = [diidCache EXCEPT ![t] = NoDownlink]
    /\ UNCHANGED <<connVars, registry, eventVars, air, acks, sent, reused, raced, stray>>

\* A station transmitted f and says so on a connection of its gateway; the
\* acknowledgement names what the cache has for the token, or nothing.
handleDownlinkTransmittedMessage(c, f) ==
    /\ pc[c] = "open" /\ f.gw = gw[c]
    /\ air' = air \ {f}
    /\ acks' = acks \cup {[of |-> f.downlink, token |-> f.token, named |-> diidCache[f.token]]}
    /\ Concerns(c)
    /\ UNCHANGED <<connVars, registry, eventVars, diidCache, sent, reused, raced>>

\* A downlink is lost: connection broken, too late to transmit.
DownlinkLost(f) ==
    /\ air' = air \ {f}
    /\ UNCHANGED <<connVars, registry, eventVars, diidCache, acks, sent, reused, raced, stray>>

----------------------------------------------------------------------------

\* The goroutine of a connection: registration, then messages until it ends.
handleGateway(c) ==
    \/ Connect(c) \/ CheckExisting(c) \/ Register(c) \/ Disconnect(c) \/ remove(c)
    \/ handleVersion(c) \/ handleTimeSync(c)
    \/ handleUplinkDataFrame(c) \/ handleJoinRequest(c) \/ handleProprietaryDataFrame(c)
    \/ sendTimesyncRequest(c)
    \/ \E f \in air : handleDownlinkTransmittedMessage(c, f)

StationNext ==
    \/ \E e \in spawned : SetGatewaySubscription(e)
    \/ \E c \in Conn : handleGateway(c)
    \/ \E d \in Downlink, g \in Gateway, t \in Token : SendDownlinkFrame(d, g, t)
    \/ \E t \in Token : DiidExpires(t)
    \/ \E f \in air : DownlinkLost(f)

StationSpec == StationInit /\ [][StationNext]_stationVars

----------------------------------------------------------------------------
(* Properties *)

InFlight == [downlink : Downlink, token : Token, gw : Gateway]

\* Types of the variables, and the bounds.
StationTypeOK ==
    /\ pc \in [Conn -> {"none", "get", "set", "open", "remove", "gone"}]
    /\ gw \in [Conn -> Gateway]
    /\ registry \in [Gateway -> Conn \cup {NoConn}]
    /\ events \in 0..MaxEvents
    /\ spawned \subseteq [gw : Gateway, nr : 1..MaxEvents, subscribe : BOOLEAN]
    /\ desired \subseteq Gateway
    /\ diidCache \in [Token -> Downlink \cup {NoDownlink}]
    /\ air \subseteq InFlight
    /\ acks \subseteq [of : Downlink, token : Token, named : Downlink \cup {NoDownlink}]
    /\ sent \subseteq Downlink
    /\ raced \subseteq Gateway /\ stray \subseteq Gateway /\ overtaken \subseteq Gateway
    /\ reused \subseteq Token

\* A registered connection is one of this gateway that has not been cleaned up:
\* however connections of a gateway overlap, no downlink is written to a
\* connection whose goroutine has ended.
RegistryIsLive ==
    \A g \in Gateway : registry[g] # NoConn => registry[g] \in Of(g, {"open", "remove"})

\* A gateway can be reached as long as one of its connections is open.  The one
\* hole is the time between get and set in handleGateway: a second connection
\* that looks up the gateway there.
OpenIsRegistered ==
    \A c \in Conn : pc[c] \in {"open", "remove"} /\ gw[c] \notin raced => registry[gw[c]] = c

\* Statistics, answers and time transfers for a connection concern that very
\* connection, with the same hole: no answer goes to another station.
StrayOnlyRaced == stray \subseteq raced

Pending(g) == {e \in spawned : e.gw = g}

\* When the events of a gateway have been handled, the integration wants to be
\* subscribed for it exactly if it is registered -- unless one goroutine of the
\* forwarder overtook another.
DesiredIsRegistered ==
    \A g \in Gateway :
        Pending(g) = {} /\ g \notin overtaken => (g \in desired <=> registry[g] # NoConn)

\* An acknowledgement names the downlink that was transmitted, or none, unless
\* its token was given away again too early: the cache does not know gateways.
AckNamesDownlink ==
    \A a \in acks : a.token \notin reused => a.named \in {a.of, NoDownlink}
=============================================================================
