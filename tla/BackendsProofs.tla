--------------------------- MODULE BackendsProofs ---------------------------
(* The gateway backends.  The registry of the Basic Station backend, the     *)
(* events it raises and the cache of downlinks, for every number of          *)
(* gateways, connections, downlinks and tokens; the filters of the path of   *)
(* an uplink, for every configuration of them; and the statistics, for every *)
(* packet and every set of frequencies and modulations.                      *)
EXTENDS BasicStation, UplinkPath, FiniteSetTheorems, SequenceTheorems, WellFoundedInduction,
        TLAPS

----------------------------------------------------------------------------
(* The inductive invariant *)

\* A connection between get and set is the only one of its gateway, and nothing
\* is registered, unless the gateway was raced for.
SetIsAlone ==
    \A c \in Conn : pc[c] = "set" /\ gw[c] \notin raced =>
        /\ registry[gw[c]] = NoConn
        /\ \A d \in Conn : pc[d] = "set" /\ gw[d] = gw[c] => d = c

\* The cache holds the downlink that is on its way under a token, or nothing.
CacheIsAir ==
    \A f \in air : f.token \notin reused => diidCache[f.token] \in {f.downlink, NoDownlink}

\* Events are numbered, and the last one of a gateway that is not handled yet
\* tells whether it is registered, unless a younger one overtook it.
Numbered ==
    /\ \A e \in spawned : e.nr <= events
    /\ \A e, f \in spawned : e.nr = f.nr => e = f

LastTells ==
    \A g \in Gateway \ overtaken : \A e \in Pending(g) :
        (\A f \in Pending(g) : f.nr <= e.nr) => (e.subscribe <=> registry[g] # NoConn)

ConnInv == RegistryIsLive /\ OpenIsRegistered /\ SetIsAlone /\ StrayOnlyRaced
EventInv == Numbered /\ LastTells /\ DesiredIsRegistered
AckInv == CacheIsAir /\ AckNamesDownlink

StationInv == StationTypeOK /\ ConnInv /\ EventInv /\ AckInv

LEMMA StationInvInit == StationInit => StationInv
<1> SUFFICES ASSUME StationInit PROVE StationInv
  OBVIOUS
<1> USE BasicStationConstants DEF StationInit
<1>1. StationTypeOK
  BY DEF StationTypeOK, InFlight
<1>2. ConnInv
  BY DEF ConnInv, RegistryIsLive, OpenIsRegistered, SetIsAlone, StrayOnlyRaced
<1>3. EventInv
  BY DEF EventInv, Numbered, LastTells, DesiredIsRegistered, Pending
<1>4. AckInv
  BY DEF AckInv, CacheIsAir, AckNamesDownlink
<1> QED
  BY <1>1, <1>2, <1>3, <1>4 DEF StationInv

----------------------------------------------------------------------------
(* Steps of the goroutine of a connection *)

LEMMA RaiseType ==
    ASSUME StationTypeOK, NEW g \in Gateway, NEW b \in BOOLEAN, Raise(g, b)
    PROVE  /\ events' \in 0..MaxEvents
           /\ spawned' \subseteq [gw : Gateway, nr : 1..MaxEvents, subscribe : BOOLEAN]
           /\ desired' = desired /\ overtaken' = overtaken
<1>1. events + 1 \in 1..MaxEvents
  BY BasicStationConstants DEF Raise, StationTypeOK
<1>2. [gw |-> g, nr |-> events + 1, subscribe |-> b]
          \in [gw : Gateway, nr : 1..MaxEvents, subscribe : BOOLEAN]
  BY <1>1
<1> QED
  BY <1>1, <1>2 DEF Raise, StationTypeOK

LEMMA TypeStep ==
    ASSUME StationTypeOK, [StationNext]_stationVars
    PROVE  StationTypeOK'
<1> USE BasicStationConstants DEF StationTypeOK, connVars, eventVars, downlinkVars
<1>1. ASSUME NEW e \in spawned, SetGatewaySubscription(e) PROVE StationTypeOK'
  BY <1>1 DEF SetGatewaySubscription
<1>2. ASSUME NEW c \in Conn, Connect(c) PROVE StationTypeOK'
  BY <1>2 DEF Connect
<1>3. ASSUME NEW c \in Conn, CheckExisting(c) PROVE StationTypeOK'
  BY <1>3 DEF CheckExisting
<1>4. ASSUME NEW c \in Conn, Register(c) PROVE StationTypeOK'
  <2>1. gw[c] \in Gateway /\ Raise(gw[c], TRUE)
    BY <1>4 DEF Register
  <2> QED
    BY <1>4, <2>1, RaiseType DEF Register
<1>5. ASSUME NEW c \in Conn, Disconnect(c) PROVE StationTypeOK'
  BY <1>5 DEF Disconnect
<1>6. ASSUME NEW c \in Conn, remove(c) PROVE StationTypeOK'
  <2>1. gw[c] \in Gateway /\ Raise(gw[c], FALSE)
    BY <1>6 DEF remove
  <2> QED
    BY <1>6, <2>1, RaiseType DEF remove
<1>7. ASSUME NEW c \in Conn, FromStation(c) PROVE StationTypeOK'
  BY <1>7 DEF FromStation, Concerns
<1>8. ASSUME NEW c \in Conn, NEW f \in air, handleDownlinkTransmittedMessage(c, f)
      PROVE StationTypeOK'
  BY <1>8 DEF handleDownlinkTransmittedMessage, Concerns, InFlight
<1>9. ASSUME NEW d \in Downlink, NEW g \in Gateway, NEW t \in Token, SendDownlinkFrame(d, g, t)
      PROVE StationTypeOK'
  BY <1>9 DEF SendDownlinkFrame, InFlight
<1>10. ASSUME NEW t \in Token, DiidExpires(t) PROVE StationTypeOK'
  BY <1>10 DEF DiidExpires
<1>11. ASSUME NEW f \in air, DownlinkLost(f) PROVE StationTypeOK'
  BY <1>11 DEF DownlinkLost
<1>12. CASE UNCHANGED stationVars
  BY <1>12 DEF stationVars
<1> QED
  BY <1>1, <1>2, <1>3, <1>4, <1>5, <1>6, <1>7, <1>8, <1>9, <1>10, <1>11, <1>12
     DEF StationNext, handleGateway, handleVersion, handleTimeSync, handleUplinkDataFrame,
         handleJoinRequest, handleProprietaryDataFrame, sendTimesyncRequest

\* The connections and the registry.
LEMMA ConnStep ==
    ASSUME StationTypeOK, StationTypeOK', ConnInv, [StationNext]_stationVars
    PROVE  ConnInv'
<1> USE BasicStationConstants DEF StationTypeOK, ConnInv, RegistryIsLive, OpenIsRegistered,
        SetIsAlone, StrayOnlyRaced, Of
<1>1. ASSUME UNCHANGED <<pc, gw, registry, raced, stray>> PROVE ConnInv'
  BY <1>1
<1>2. ASSUME NEW c \in Conn, Connect(c) PROVE ConnInv'
  BY <1>2 DEF Connect
<1>3. ASSUME NEW c \in Conn, CheckExisting(c) PROVE ConnInv'
  BY <1>3 DEF CheckExisting
<1>4. ASSUME NEW c \in Conn, Register(c) PROVE ConnInv'
  BY <1>4 DEF Register
<1>5. ASSUME NEW c \in Conn, Disconnect(c) PROVE ConnInv'
  BY <1>5 DEF Disconnect
<1>6. ASSUME NEW c \in Conn, remove(c) PROVE ConnInv'
  BY <1>6 DEF remove
<1>7. ASSUME NEW c \in Conn, pc[c] = "open", Concerns(c), UNCHANGED <<pc, gw, registry, raced>>
      PROVE ConnInv'
  <2>1. registry[gw[c]] = c \/ gw[c] \in raced
    BY <1>7
  <2> QED
    BY <1>7, <2>1 DEF Concerns
<1> QED
  <2> USE DEF connVars
  <2>1. ASSUME NEW c \in Conn, FromStation(c) PROVE ConnInv'
    BY <2>1, <1>7 DEF FromStation
  <2>2. ASSUME NEW c \in Conn, NEW f \in air, handleDownlinkTransmittedMessage(c, f) PROVE ConnInv'
    BY <2>2, <1>7 DEF handleDownlinkTransmittedMessage
  <2>3. ASSUME NEW c \in Conn, handleGateway(c) PROVE ConnInv'
    BY <1>2, <1>3, <1>4, <1>5, <1>6, <2>1, <2>2, <2>3
       DEF handleGateway, handleVersion, handleTimeSync, handleUplinkDataFrame,
           handleJoinRequest, handleProprietaryDataFrame, sendTimesyncRequest
  <2>4. ASSUME ~ \E c \in Conn : handleGateway(c) PROVE UNCHANGED <<pc, gw, registry, raced, stray>>
    BY <2>4 DEF StationNext, SetGatewaySubscription, SendDownlinkFrame, DiidExpires, DownlinkLost,
                stationVars
  <2> QED
    BY <1>1, <2>3, <2>4

\* The downlinks.
LEMMA AckStep ==
    ASSUME StationTypeOK, AckInv, [StationNext]_stationVars
    PROVE  AckInv'
<1> USE BasicStationConstants DEF StationTypeOK, AckInv, CacheIsAir, AckNamesDownlink, InFlight
<1>1. ASSUME UNCHANGED downlinkVars PROVE AckInv'
  BY <1>1 DEF downlinkVars
<1>2. ASSUME NEW c \in Conn, NEW f \in air, handleDownlinkTransmittedMessage(c, f) PROVE AckInv'
  BY <1>2 DEF handleDownlinkTransmittedMessage
<1>3. ASSUME NEW d \in Downlink, NEW g \in Gateway, NEW t \in Token, SendDownlinkFrame(d, g, t)
      PROVE AckInv'
  <2>1. CASE UNCHANGED <<reused, diidCache, air>>
    BY <1>3, <2>1 DEF SendDownlinkFrame
  <2>2. CASE reused' = (IF InUse(t) THEN reused \cup {t} ELSE reused)
                 /\ diidCache' = [diidCache EXCEPT ![t] = d]
    <3>1. reused \subseteq reused' /\ acks' = acks
      BY <1>3, <2>2 DEF SendDownlinkFrame
    <3>2. AckNamesDownlink'
      BY <3>1
    <3>3. \A f \in air' : f \in air \/ (f.downlink = d /\ f.token = t)
      BY <1>3 DEF SendDownlinkFrame
    <3>4. \A f \in air : f.token = t => t \in reused'
      BY <2>2 DEF InUse
    <3>5. CacheIsAir'
      BY <2>2, <3>1, <3>3, <3>4
    <3> QED
      BY <3>2, <3>5
  <2> QED
    BY <1>3, <2>1, <2>2 DEF SendDownlinkFrame
<1>4. ASSUME NEW t \in Token, DiidExpires(t) PROVE AckInv'
  BY <1>4 DEF DiidExpires
<1>5. ASSUME NEW f \in air, DownlinkLost(f) PROVE AckInv'
  BY <1>5 DEF DownlinkLost
<1> QED
  <2>1. ASSUME NEW c \in Conn, handleGateway(c),
               ~ \E f \in air : handleDownlinkTransmittedMessage(c, f)
        PROVE  UNCHANGED downlinkVars
    BY <2>1 DEF handleGateway, handleVersion, handleTimeSync, handleUplinkDataFrame,
        handleJoinRequest, handleProprietaryDataFrame, sendTimesyncRequest, FromStation,
        Connect, CheckExisting, Register, Disconnect, remove
  <2>2. ASSUME NEW e \in spawned, SetGatewaySubscription(e) PROVE UNCHANGED downlinkVars
    BY <2>2 DEF SetGatewaySubscription
  <2>3. CASE UNCHANGED stationVars
    BY <1>1, <2>3 DEF stationVars
  <2> QED
    BY <1>1, <1>2, <1>3, <1>4, <1>5, <2>1, <2>2, <2>3 DEF StationNext

\* The events.
LEMMA RaiseStep ==
    ASSUME StationTypeOK, EventInv, NEW g \in Gateway, NEW b \in BOOLEAN, Raise(g, b),
           NEW r \in Conn \cup {NoConn}, registry' = [registry EXCEPT ![g] = r],
           b <=> r # NoConn
    PROVE  EventInv'
<1> DEFINE new == [gw |-> g, nr |-> events + 1, subscribe |-> b]
<1>1. /\ events \in Nat /\ events' = events + 1
      /\ spawned' = spawned \cup {new}
      /\ \A e \in spawned : e.nr \in Nat /\ e.nr <= events /\ e.gw \in Gateway
      /\ desired' = desired /\ overtaken' = overtaken
  BY BasicStationConstants DEF Raise, StationTypeOK, EventInv, Numbered
<1>2. new.gw = g /\ new.nr = events + 1 /\ new.subscribe = b
  OBVIOUS
<1>3. \A e \in spawned : e.nr < new.nr
  BY <1>1, <1>2
<1> HIDE DEF new
<1>4. Numbered'
  BY <1>1, <1>2, <1>3 DEF EventInv, Numbered
<1>5. LastTells'
  <2> SUFFICES ASSUME NEW h \in Gateway \ overtaken, NEW e \in Pending(h)',
                      \A f \in Pending(h)' : f.nr <= e.nr
               PROVE  e.subscribe <=> registry'[h] # NoConn
    BY <1>1 DEF LastTells
  <2>1. CASE h = g
    <3>1. new \in Pending(h)'
      BY <1>1, <1>2, <2>1 DEF Pending
    <3>2. e = new
      BY <1>1, <1>2, <1>3, <3>1 DEF Pending
    <3> QED
      BY <1>2, <2>1, <3>2 DEF StationTypeOK
  <2>2. CASE h # g
    <3>1. Pending(h)' = Pending(h)
      BY <1>1, <1>2, <2>2 DEF Pending
    <3> QED
      BY <2>2, <3>1 DEF EventInv, LastTells, StationTypeOK
  <2> QED
    BY <2>1, <2>2
<1>6. DesiredIsRegistered'
  <2> SUFFICES ASSUME NEW h \in Gateway, Pending(h)' = {}, h \notin overtaken'
               PROVE  h \in desired' <=> registry'[h] # NoConn
    BY DEF DesiredIsRegistered
  <2>1. h # g
    BY <1>1, <1>2 DEF Pending
  <2>2. Pending(h) = {}
    BY <1>1 DEF Pending
  <2> QED
    BY <1>1, <2>1, <2>2 DEF EventInv, DesiredIsRegistered, StationTypeOK
<1> QED
  BY <1>4, <1>5, <1>6 DEF EventInv

LEMMA SubscriptionStep ==
    ASSUME StationTypeOK, EventInv, NEW e \in spawned, SetGatewaySubscription(e)
    PROVE  EventInv'
<1> USE DEF SetGatewaySubscription
<1>1. /\ e.gw \in Gateway
      /\ \A f \in spawned : f.nr \in Nat
      /\ \A f, k \in spawned : f.nr = k.nr => f = k
  BY BasicStationConstants DEF StationTypeOK, EventInv, Numbered
<1>2. Numbered'
  BY DEF EventInv, Numbered
<1>3. LastTells'
  <2> SUFFICES ASSUME NEW h \in Gateway \ overtaken', NEW k \in Pending(h)',
                      \A f \in Pending(h)' : f.nr <= k.nr
               PROVE  k.subscribe <=> registry[h] # NoConn
    BY DEF LastTells
  <2>1. h \notin overtaken /\ k \in Pending(h)
    BY DEF Pending
  <2>2. e \in Pending(h) => e.nr <= k.nr
    <3> SUFFICES ASSUME e \in Pending(h), ~ (e.nr <= k.nr) PROVE FALSE
      OBVIOUS
    <3>1. k \in Older(e)
      BY <1>1, <2>1 DEF Older, Pending
    <3>2. h \in overtaken'
      BY <3>1 DEF Pending
    <3> QED
      BY <3>2
  <2>3. \A f \in Pending(h) : f.nr <= k.nr
    BY <2>2 DEF Pending
  <2> QED
    BY <2>1, <2>3 DEF EventInv, LastTells
<1>4. DesiredIsRegistered'
  <2> SUFFICES ASSUME NEW h \in Gateway, Pending(h)' = {}, h \notin overtaken'
               PROVE  h \in desired' <=> registry[h] # NoConn
    BY DEF DesiredIsRegistered
  <2>1. h \notin overtaken
    OBVIOUS
  <2>2. CASE h = e.gw
    <3>1. Pending(h) = {e}
      BY <2>2 DEF Pending
    <3>2. e.subscribe <=> registry[h] # NoConn
      BY <1>1, <2>1, <3>1 DEF EventInv, LastTells
    <3> QED
      BY <2>2, <3>2
  <2>3. CASE h # e.gw
    <3>1. Pending(h) = {}
      BY <2>3 DEF Pending
    <3> QED
      BY <2>1, <2>3, <3>1 DEF EventInv, DesiredIsRegistered
  <2> QED
    BY <2>2, <2>3
<1> QED
  BY <1>2, <1>3, <1>4 DEF EventInv

LEMMA EventStep ==
    ASSUME StationTypeOK, EventInv, [StationNext]_stationVars
    PROVE  EventInv'
<1>1. ASSUME UNCHANGED <<registry, eventVars>> PROVE EventInv'
  BY <1>1 DEF EventInv, Numbered, LastTells, DesiredIsRegistered, Pending, eventVars
<1>2. ASSUME NEW c \in Conn, Register(c) PROVE EventInv'
  <2>1. gw[c] \in Gateway /\ c # NoConn
    BY BasicStationConstants DEF StationTypeOK
  <2> QED
    BY <1>2, <2>1, RaiseStep DEF Register
<1>3. ASSUME NEW c \in Conn, remove(c) PROVE EventInv'
  <2>1. gw[c] \in Gateway
    BY DEF StationTypeOK
  <2> QED
    BY <1>3, <2>1, RaiseStep DEF remove
<1>4. ASSUME NEW c \in Conn, handleGateway(c), ~ Register(c), ~ remove(c)
      PROVE  UNCHANGED <<registry, eventVars>>
  BY <1>4 DEF handleGateway, handleVersion, handleTimeSync, handleUplinkDataFrame,
      handleJoinRequest, handleProprietaryDataFrame, sendTimesyncRequest, FromStation,
      Connect, CheckExisting, Disconnect, handleDownlinkTransmittedMessage
<1>5. ASSUME ~ (\E c \in Conn : handleGateway(c)), ~ (\E e \in spawned : SetGatewaySubscription(e))
      PROVE  UNCHANGED <<registry, eventVars>>
  BY <1>5 DEF StationNext, SendDownlinkFrame, DiidExpires, DownlinkLost, stationVars
<1> QED
  BY <1>1, <1>2, <1>3, <1>4, <1>5, SubscriptionStep

LEMMA StationInvStep == StationInv /\ [StationNext]_stationVars => StationInv'
BY TypeStep, ConnStep, EventStep, AckStep DEF StationInv

----------------------------------------------------------------------------
(* The theorems *)

\* The invariant holds in every reachable state.
THEOREM StationInvariant == StationSpec => []StationInv
BY StationInvInit, StationInvStep, PTL DEF StationSpec

\* The variables of the backend keep their types.
THEOREM StationType == StationSpec => []StationTypeOK
<1>1. StationInv => StationTypeOK
  BY DEF StationInv
<1> QED
  BY <1>1, StationInvariant, PTL

\* However the connections of a gateway overlap, the registry never holds a
\* connection whose goroutine has ended: cleaning up in a deferred function is
\* enough, although it removes whatever is registered.
THEOREM RegistryLive == StationSpec => []RegistryIsLive
<1>1. StationInv => RegistryIsLive
  BY DEF StationInv, ConnInv
<1> QED
  BY <1>1, StationInvariant, PTL

\* An open connection is the registered one unless a second connection looked
\* the gateway up between get and set of the first in handleGateway.
THEOREM OpenRegistered == StationSpec => []OpenIsRegistered
<1>1. StationInv => OpenIsRegistered
  BY DEF StationInv, ConnInv
<1> QED
  BY <1>1, StationInvariant, PTL

\* With the same exception, what a connection's goroutine sends and counts is
\* sent to and counted for that connection.
THEOREM StrayRaced == StationSpec => []StrayOnlyRaced
<1>1. StationInv => StrayOnlyRaced
  BY DEF StationInv, ConnInv
<1> QED
  BY <1>1, StationInvariant, PTL

\* Handled events leave the integration with the gateways that are registered,
\* unless goroutines of gatewaySubscribeFunc overtook each other.
THEOREM DesiredRegistered == StationSpec => []DesiredIsRegistered
<1>1. StationInv => DesiredIsRegistered
  BY DEF StationInv, EventInv
<1> QED
  BY <1>1, StationInvariant, PTL

\* An acknowledgement names the transmitted downlink or none, unless the token
\* was used again while the former downlink was cached or on its way.
THEOREM AckNames == StationSpec => []AckNamesDownlink
<1>1. StationInv => AckNamesDownlink
  BY DEF StationInv, AckInv
<1> QED
  BY <1>1, StationInvariant, PTL
----------------------------------------------------------------------------
(* The filters *)

\* What was dropped did not match the filters, which do not change.
DroppedRightly == filters \in FilterConfig /\ \A phy \in dropped : ~ MatchFilters(phy)

\* The filters agree with what they are configured for: a frame of a device that
\* they cover matches them, whatever its type, also where the
\* address of the device holds a part of its NetID only.
LEMMA CoveredMatches ==
    ASSUME filters \in FilterConfig, NEW d \in Device, Covered(d), NEW phy \in Frames(d)
    PROVE  MatchFilters(phy)
<1>1. d.joinEUI \in Nat /\ filters.joinEUIs \subseteq Nat \X Nat
  BY UplinkConstants
<1>2. matchJoinEUIFilter(d.joinEUI)
  BY <1>1 DEF Covered, matchJoinEUIFilter
<1>3. matchNetIDFilter(d.netID) /\ matchNetIDFilterForDevAddr(NwkID(d.netID))
  BY DEF Covered, matchNetIDFilter, matchNetIDFilterForDevAddr, IsNetID
<1>4. CASE phy = [mtype |-> "data", devAddr |-> NwkID(d.netID)]
  BY <1>3, <1>4 DEF MatchFilters
<1>5. CASE phy = [mtype |-> "join", joinEUI |-> d.joinEUI]
  BY <1>2, <1>5 DEF MatchFilters
<1>6. CASE phy = [mtype |-> "rejoin02", netID |-> d.netID]
  BY <1>3, <1>6 DEF MatchFilters
<1>7. CASE phy = [mtype |-> "rejoin1", joinEUI |-> d.joinEUI]
  BY <1>2, <1>7 DEF MatchFilters
<1> QED
  BY <1>4, <1>5, <1>6, <1>7 DEF Frames

LEMMA NoiseMatches == MatchFilters(Noise)
BY DEF MatchFilters, Noise

LEMMA DroppedStep == DroppedRightly /\ [UplinkNext]_uplinkVars => DroppedRightly'
<1> SUFFICES ASSUME DroppedRightly, [UplinkNext]_uplinkVars PROVE DroppedRightly'
  OBVIOUS
<1>1. filters' = filters
  BY DEF UplinkNext, Set, cleanup, handlePushData, Get, handleStats, handleUplinkFrames, Acknowledge,
     uplinkVars
<1>2. \A phy : MatchFilters(phy)' <=> MatchFilters(phy)
  BY <1>1 DEF MatchFilters, matchNetIDFilter, matchNetIDFilterForDevAddr, matchJoinEUIFilter,
     IsNetID, NwkID
<1>3. ASSUME NEW p \in DOMAIN packet, handleUplinkFrames(p)
      PROVE  \A phy \in dropped' : phy \in dropped \/ ~ MatchFilters(phy)
  BY <1>3 DEF handleUplinkFrames
<1>4. dropped' = dropped \/ \E p \in DOMAIN packet : handleUplinkFrames(p)
  BY DEF UplinkNext, Set, cleanup, handlePushData, Get, handleStats, Acknowledge, uplinkVars
<1>5. \A phy \in dropped' : ~ MatchFilters(phy)
  BY <1>3, <1>4 DEF DroppedRightly
<1> QED
  BY <1>1, <1>2, <1>5 DEF DroppedRightly

\* The filters never drop a frame of a device that their configuration covers, nor
\* a frame that is not LoRaWAN, for every configuration and every set of devices.
THEOREM CoveredDevicesPass == UplinkSpec => []CoveredPasses
<1>1. UplinkInit => DroppedRightly
  BY DEF UplinkInit, DroppedRightly
<1>2. DroppedRightly => CoveredPasses
  BY CoveredMatches, NoiseMatches DEF DroppedRightly, CoveredPasses
<1> QED
  BY <1>1, <1>2, DroppedStep, PTL DEF UplinkSpec
----------------------------------------------------------------------------
(* Sums.  Sum is defined by recursion over the subsets of a domain; what     *)
(* holds of all finite ones is shown by induction on their size, with the    *)
(* set of sizes for which it is known in place of a predicate.               *)

\* A set of naturals that has 0 and the successors of its elements has them all.
LEMMA SetInduction ==
    ASSUME NEW T \in SUBSET Nat, 0 \in T, \A n \in T : n + 1 \in T
    PROVE  T = Nat
<1> DEFINE R == {ss \in Nat \X Nat : ss[1] < ss[2]}
<1> SUFFICES ASSUME Nat \ T # {} PROVE FALSE
  OBVIOUS
<1>1. IsWellFoundedOn(R, Nat)
  BY NatLessThanWellFounded DEF OpToRel
<1>2. PICK n \in Nat \ T : \A m \in Nat \ T : ~ (<<m, n>> \in R)
  <2> HIDE DEF R
  <2>1. Nat \ T \subseteq Nat
    OBVIOUS
  <2> QED
    BY <1>1, <2>1, WFMin
<1>3. \A m \in Nat : m < n => <<m, n>> \in R
  OBVIOUS
<1>4. n # 0 /\ n - 1 \in Nat /\ n - 1 < n
  BY <1>2
<1>5. n - 1 \in T
  BY <1>2, <1>3, <1>4
<1> QED
  BY <1>2, <1>4, <1>5

AnyOf(s) == CHOOSE x \in s : TRUE
Rest(s) == s \ {AnyOf(s)}

\* The recursion that defines a sum, for a set of subsets.
Adds(g, sets, f) == g = [s \in sets |-> IF s = {} THEN 0 ELSE f[AnyOf(s)] + g[Rest(s)]]

LEMMA SumDef ==
    ASSUME NEW f PROVE Sum(f) = (CHOOSE g : Adds(g, SUBSET DOMAIN f, f))[DOMAIN f]
BY DEF Sum, MapThenSumSet, MapThenFoldSet, Adds, AnyOf, Rest

LEMMA AnyIsIn == \A s : s # {} => AnyOf(s) \in s
BY DEF AnyOf

Upto(S, n) == {s \in SUBSET S : Cardinality(s) <= n}

LEMMA UptoFacts ==
    ASSUME NEW S, IsFiniteSet(S)
    PROVE  /\ Upto(S, 0) = {{}}
           /\ Upto(S, Cardinality(S)) = SUBSET S /\ Cardinality(S) \in Nat
           /\ \A n \in Nat : \A s \in Upto(S, n + 1) :
                 s # {} => AnyOf(s) \in s /\ Rest(s) \in Upto(S, n)
           /\ \A n \in Nat : \A s \in Upto(S, n + 1) : \A x \in s : s \ {x} \in Upto(S, n)
           /\ \A n \in Nat : {} \in Upto(S, n) /\ Upto(S, n) \subseteq Upto(S, n + 1)
<1>1. \A s \in SUBSET S : IsFiniteSet(s) /\ Cardinality(s) \in Nat
      /\ Cardinality(s) <= Cardinality(S)
  BY FS_Subset, FS_CardinalityType
<1>2. Cardinality(S) \in Nat
  BY FS_CardinalityType
<1>3. Upto(S, 0) = {{}}
  BY <1>1, FS_EmptySet DEF Upto
<1>4. Upto(S, Cardinality(S)) = SUBSET S
  BY <1>1 DEF Upto
<1>5. ASSUME NEW n \in Nat, NEW s \in Upto(S, n + 1), NEW x \in s
      PROVE  s \ {x} \in Upto(S, n)
  <2>1. s \in SUBSET S /\ Cardinality(s) <= n + 1 /\ IsFiniteSet(s) /\ Cardinality(s) \in Nat
    BY <1>1 DEF Upto
  <2>2. Cardinality(s \ {x}) = Cardinality(s) - 1
    BY <2>1, FS_RemoveElement
  <2> QED
    BY <2>1, <2>2 DEF Upto
<1>6. \A n \in Nat : {} \in Upto(S, n) /\ Upto(S, n) \subseteq Upto(S, n + 1)
  BY <1>1, FS_EmptySet DEF Upto
<1> QED
  BY <1>2, <1>3, <1>4, <1>5, <1>6, AnyIsIn DEF Rest

\* The recursion has a solution.
LEMMA SumExists ==
    ASSUME NEW S, IsFiniteSet(S), NEW f
    PROVE  \E g : Adds(g, SUBSET S, f)
<1> DEFINE T == {n \in Nat : \E g : Adds(g, Upto(S, n), f)}
<1>1. 0 \in T
  <2>1. Adds([s \in Upto(S, 0) |-> 0], Upto(S, 0), f)
    BY UptoFacts DEF Adds
  <2> QED
    BY <2>1
<1>2. ASSUME NEW n \in T PROVE n + 1 \in T
  <2>1. PICK g : Adds(g, Upto(S, n), f)
    OBVIOUS
  <2> DEFINE h == [s \in Upto(S, n + 1) |-> IF s = {} THEN 0 ELSE f[AnyOf(s)] + g[Rest(s)]]
  <2>2. \A s \in Upto(S, n) : h[s] = g[s]
    BY <2>1, UptoFacts DEF Adds
  <2>3. \A s \in Upto(S, n + 1) : s # {} => h[Rest(s)] = g[Rest(s)]
    BY <2>2, UptoFacts
  <2>4. Adds(h, Upto(S, n + 1), f)
    BY <2>3 DEF Adds
  <2> QED
    BY <2>4
<1>3. T = Nat
  <2> HIDE DEF T
  <2>1. T \in SUBSET Nat
    BY DEF T
  <2> QED
    BY <1>1, <1>2, <2>1, SetInduction
<1>4. Cardinality(S) \in T /\ Upto(S, Cardinality(S)) = SUBSET S
  BY <1>3, UptoFacts
<1> QED
  BY <1>4

\* The sum of a part of the values of f.
Part(f, s) == (CHOOSE g : Adds(g, SUBSET DOMAIN f, f))[s]

LEMMA PartDef ==
    ASSUME NEW f, IsFiniteSet(DOMAIN f)
    PROVE  /\ Sum(f) = Part(f, DOMAIN f)
           /\ Part(f, {}) = 0
           /\ \A s \in SUBSET DOMAIN f : s # {} => Part(f, s) = f[AnyOf(s)] + Part(f, Rest(s))
<1> DEFINE g == CHOOSE g : Adds(g, SUBSET DOMAIN f, f)
<1>1. Adds(g, SUBSET DOMAIN f, f)
  BY SumExists
<1>2. \A s : Part(f, s) = g[s]
  BY DEF Part
<1>3. Sum(f) = Part(f, DOMAIN f)
  BY SumDef DEF Part
<1> HIDE DEF g
<1>4. \A s \in SUBSET DOMAIN f : g[s] = IF s = {} THEN 0 ELSE f[AnyOf(s)] + g[Rest(s)]
  BY <1>1 DEF Adds
<1>5. {} \in SUBSET DOMAIN f
  OBVIOUS
<1> QED
  BY <1>2, <1>3, <1>4, <1>5

\* It does not matter which element is taken first.
LEMMA PartAnyOrder ==
    ASSUME NEW f, IsFiniteSet(DOMAIN f), \A x \in DOMAIN f : f[x] \in Nat
    PROVE  \A s \in SUBSET DOMAIN f :
              Part(f, s) \in Nat /\ \A x \in s : Part(f, s) = f[x] + Part(f, s \ {x})
<1> DEFINE S == DOMAIN f
           P(s) == Part(f, s) \in Nat /\ \A x \in s : Part(f, s) = f[x] + Part(f, s \ {x})
           T == {n \in Nat : \A s \in Upto(S, n) : P(s)}
<1>1. P({})
  BY PartDef
<1>2. 0 \in T
  <2>1. Upto(S, 0) = {{}}
    BY UptoFacts
  <2> QED
    BY <1>1, <2>1
<1>3. ASSUME NEW n \in T PROVE n + 1 \in T
  <2>1. ASSUME NEW s \in Upto(S, n + 1), s # {} PROVE P(s)
    <3>1. /\ s \in SUBSET S /\ AnyOf(s) \in s /\ Rest(s) \in Upto(S, n)
          /\ \A x \in s : s \ {x} \in Upto(S, n)
      BY <2>1, UptoFacts DEF Upto
    <3>2. Part(f, s) = f[AnyOf(s)] + Part(f, Rest(s)) /\ f[AnyOf(s)] \in Nat
          /\ Part(f, Rest(s)) \in Nat
      BY <2>1, <3>1, PartDef
    <3>3. ASSUME NEW x \in s, x # AnyOf(s) PROVE Part(f, s) = f[x] + Part(f, s \ {x})
      <4>1. x \in Rest(s) /\ AnyOf(s) \in s \ {x} /\ Rest(s) \ {x} = (s \ {x}) \ {AnyOf(s)}
        BY <3>1, <3>3 DEF Rest
      <4>2. Part(f, Rest(s)) = f[x] + Part(f, Rest(s) \ {x})
        BY <3>1, <4>1
      <4>3. Part(f, s \ {x}) = f[AnyOf(s)] + Part(f, (s \ {x}) \ {AnyOf(s)})
        BY <3>1, <4>1
      <4>4. Rest(s) \ {x} \in Upto(S, n)
        <5>1. Rest(s) \in Upto(S, n + 1)
          BY <3>1, UptoFacts
        <5> QED
          BY <4>1, <5>1, UptoFacts
      <4>5. Part(f, Rest(s) \ {x}) \in Nat /\ f[x] \in Nat
        BY <3>1, <4>4
      <4> DEFINE r == Part(f, Rest(s) \ {x})
                 a == f[AnyOf(s)]
      <4>6. Part(f, s) = a + (f[x] + r) /\ Part(f, s \ {x}) = a + r /\ a \in Nat /\ r \in Nat
        BY <3>2, <4>1, <4>2, <4>3, <4>5
      <4> HIDE DEF r, a
      <4> QED
        BY <4>5, <4>6
    <3>4. Part(f, s) = f[AnyOf(s)] + Part(f, s \ {AnyOf(s)})
      BY <3>2 DEF Rest
    <3>5. Part(f, s) \in Nat
      BY <3>2
    <3>6. ASSUME NEW x \in s PROVE Part(f, s) = f[x] + Part(f, s \ {x})
      BY <3>3, <3>4
    <3> QED
      BY <3>5, <3>6
  <2>2. \A s \in Upto(S, n + 1) : P(s)
    <3> HIDE DEF P
    <3> QED
      BY <1>1, <2>1
  <2> QED
    BY <2>2
<1>4. T = Nat
  <2> HIDE DEF T
  <2>1. T \in SUBSET Nat
    BY DEF T
  <2> QED
    BY <1>2, <1>3, <2>1, SetInduction
<1>5. Cardinality(S) \in T /\ Upto(S, Cardinality(S)) = SUBSET S
  BY <1>4, UptoFacts
<1> QED
  BY <1>5

\* Sums of the same values are the same.
LEMMA PartOfSame ==
    ASSUME NEW f, IsFiniteSet(DOMAIN f), NEW k, IsFiniteSet(DOMAIN k),
           NEW U, U \subseteq DOMAIN f, U \subseteq DOMAIN k, \A x \in U : f[x] = k[x]
    PROVE  Part(f, U) = Part(k, U)
<1> DEFINE T == {n \in Nat : \A s \in Upto(U, n) : Part(f, s) = Part(k, s)}
<1>1. IsFiniteSet(U)
  BY FS_Subset
<1>2. 0 \in T
  <2>1. Upto(U, 0) = {{}}
    BY <1>1, UptoFacts
  <2> QED
    BY <2>1, PartDef
<1>3. ASSUME NEW n \in T PROVE n + 1 \in T
  <2>1. ASSUME NEW s \in Upto(U, n + 1), s # {} PROVE Part(f, s) = Part(k, s)
    <3>1. s \in SUBSET U /\ AnyOf(s) \in s /\ Rest(s) \in Upto(U, n)
      BY <1>1, <2>1, UptoFacts DEF Upto
    <3>2. Part(f, Rest(s)) = Part(k, Rest(s)) /\ f[AnyOf(s)] = k[AnyOf(s)]
      BY <3>1
    <3>3. s \in SUBSET DOMAIN f /\ s \in SUBSET DOMAIN k
      BY <3>1
    <3>4. Part(f, s) = f[AnyOf(s)] + Part(f, Rest(s))
      BY <2>1, <3>3, PartDef
    <3>5. Part(k, s) = k[AnyOf(s)] + Part(k, Rest(s))
      BY <2>1, <3>3, PartDef
    <3> QED
      BY <3>2, <3>4, <3>5
  <2>2. Part(f, {}) = Part(k, {})
    BY PartDef
  <2> QED
    BY <2>1, <2>2
<1>4. T = Nat
  <2> HIDE DEF T
  <2>1. T \in SUBSET Nat
    BY DEF T
  <2> QED
    BY <1>2, <1>3, <2>1, SetInduction
<1>5. Cardinality(U) \in T /\ Upto(U, Cardinality(U)) = SUBSET U
  BY <1>1, <1>4, UptoFacts
<1> QED
  BY <1>5

LEMMA SumIsNat ==
    ASSUME NEW f, IsFiniteSet(DOMAIN f), \A x \in DOMAIN f : f[x] \in Nat
    PROVE  Sum(f) \in Nat
<1>1. DOMAIN f \in SUBSET DOMAIN f
  OBVIOUS
<1> QED
  BY <1>1, PartAnyOrder, PartDef

\* Of two functions that differ at x only, or of which one has no x.
LEMMA SumDiffers ==
    ASSUME NEW D, IsFiniteSet(D), NEW f \in [D -> Nat], NEW E, IsFiniteSet(E), NEW k \in [E -> Nat],
           NEW x \in E, D \ {x} = E \ {x}, \A y \in D \ {x} : k[y] = f[y]
    PROVE  Sum(k) + (IF x \in D THEN f[x] ELSE 0) = Sum(f) + k[x]
<1>1. DOMAIN f = D /\ DOMAIN k = E /\ (\A y \in DOMAIN f : f[y] \in Nat)
      /\ (\A y \in DOMAIN k : k[y] \in Nat)
  OBVIOUS
<1>2. Sum(f) = Part(f, D) /\ Sum(k) = Part(k, E)
  BY <1>1, PartDef
<1>3. \A s \in SUBSET DOMAIN f : Part(f, s) \in Nat
      /\ \A y \in s : Part(f, s) = f[y] + Part(f, s \ {y})
  BY <1>1, PartAnyOrder
<1>4. \A s \in SUBSET DOMAIN k : Part(k, s) \in Nat
      /\ \A y \in s : Part(k, s) = k[y] + Part(k, s \ {y})
  BY <1>1, PartAnyOrder
<1>5. D \ {x} \in SUBSET D /\ D \in SUBSET D /\ E \in SUBSET E
  OBVIOUS
<1>6. Part(f, D \ {x}) = Part(k, E \ {x})
  <2>1. D \ {x} \subseteq DOMAIN f /\ D \ {x} \subseteq DOMAIN k
    BY <1>1
  <2>2. \A y \in D \ {x} : f[y] = k[y]
    OBVIOUS
  <2>3. Part(f, D \ {x}) = Part(k, D \ {x})
    BY <1>1, <2>1, <2>2, PartOfSame
  <2> QED
    BY <2>3
<1>7. Part(k, E) = k[x] + Part(k, E \ {x})
  BY <1>1, <1>4, <1>5
<1>8. Part(f, D \ {x}) \in Nat /\ Part(f, D) \in Nat /\ k[x] \in Nat
  BY <1>1, <1>3, <1>5
<1>9. CASE x \in D
  <2>1. Part(f, D) = f[x] + Part(f, D \ {x}) /\ f[x] \in Nat
    BY <1>1, <1>3, <1>5, <1>9
  <2> QED
    BY <1>2, <1>6, <1>7, <1>8, <1>9, <2>1
<1>10. CASE x \notin D
  <2>1. D \ {x} = D
    BY <1>10
  <2>2. Sum(k) = k[x] + Sum(f) /\ Sum(f) \in Nat
    BY <1>2, <1>6, <1>7, <1>8, <2>1
  <2> QED
    BY <1>8, <1>10, <2>2
<1> QED
  BY <1>9, <1>10

LEMMA SumOfZeros ==
    ASSUME NEW D, IsFiniteSet(D)
    PROVE  Sum([x \in D |-> 0]) = 0
<1> DEFINE f == [x \in D |-> 0]
           T == {n \in Nat : \A s \in Upto(D, n) : Part(f, s) = 0}
<1>1. DOMAIN f = D /\ \A x \in D : f[x] = 0
  OBVIOUS
<1> HIDE DEF f
<1>2. 0 \in T
  <2>1. Upto(D, 0) = {{}}
    BY UptoFacts
  <2> QED
    BY <1>1, <2>1, PartDef
<1>3. ASSUME NEW n \in T PROVE n + 1 \in T
  <2>1. ASSUME NEW s \in Upto(D, n + 1), s # {} PROVE Part(f, s) = 0
    <3>1. s \in SUBSET D /\ AnyOf(s) \in s /\ Rest(s) \in Upto(D, n)
      BY <2>1, UptoFacts DEF Upto
    <3>2. Part(f, Rest(s)) = 0 /\ f[AnyOf(s)] = 0
      BY <1>1, <3>1
    <3>3. Part(f, s) = f[AnyOf(s)] + Part(f, Rest(s))
      BY <1>1, <2>1, <3>1, PartDef
    <3> QED
      BY <3>2, <3>3
  <2>2. Part(f, {}) = 0
    BY <1>1, PartDef
  <2> QED
    BY <2>1, <2>2
<1>4. T = Nat
  <2> HIDE DEF T
  <2>1. T \in SUBSET Nat
    BY DEF T
  <2> QED
    BY <1>2, <1>3, <2>1, SetInduction
<1>5. Cardinality(D) \in T /\ Upto(D, Cardinality(D)) = SUBSET D
  BY <1>4, UptoFacts
<1>6. D \in SUBSET D
  OBVIOUS
<1>7. Sum(f) = 0
  BY <1>1, <1>5, <1>6, PartDef
<1> QED
  BY <1>7 DEF f

\* Of two functions with the same domain.
LEMMA SumExcept ==
    ASSUME NEW D, IsFiniteSet(D), NEW f \in [D -> Nat], NEW k \in [D -> Nat],
           NEW x \in D, \A y \in D \ {x} : k[y] = f[y]
    PROVE  Sum(k) + f[x] = Sum(f) + k[x]
<1>1. \A E : E = D => IsFiniteSet(E) /\ k \in [E -> Nat] /\ x \in E /\ D \ {x} = E \ {x}
  OBVIOUS
<1>2. Sum(k) + (IF x \in D THEN f[x] ELSE 0) = Sum(f) + k[x]
  BY <1>1, SumDiffers
<1> QED
  BY <1>2

\* One more at one place makes the sum one more.
LEMMA SumOneMore ==
    ASSUME NEW D, IsFiniteSet(D), NEW f \in [D -> Nat], NEW x \in D
    PROVE  /\ [f EXCEPT ![x] = @ + 1] \in [D -> Nat]
           /\ Sum([f EXCEPT ![x] = @ + 1]) = Sum(f) + 1
<1> DEFINE k == [f EXCEPT ![x] = @ + 1]
<1>1. k \in [D -> Nat] /\ k[x] = f[x] + 1 /\ f[x] \in Nat /\ \A y \in D \ {x} : k[y] = f[y]
  OBVIOUS
<1> HIDE DEF k
<1>2. DOMAIN f = D /\ DOMAIN k = D /\ (\A y \in D : f[y] \in Nat) /\ (\A y \in D : k[y] \in Nat)
  BY <1>1
<1>3. Sum(f) \in Nat /\ Sum(k) \in Nat
  BY <1>2, SumIsNat
<1>4. Sum(k) + f[x] = Sum(f) + k[x]
  BY <1>1, SumExcept
<1>5. Sum(k) = Sum(f) + 1
  BY <1>1, <1>3, <1>4
<1> QED
  BY <1>1, <1>5 DEF k

----------------------------------------------------------------------------
(* Counting *)

Collector ==
    [rxCount : Nat, txCount : Nat, rxPerFreqCount : [Freq -> Nat], txPerFreqCount : [Freq -> Nat],
     rxPerModulationCount : [Mod -> Nat], txPerModulationCount : [Mod -> Nat],
     txStatusCount : [TxStatus -> Nat]]

Frame == [freq : Freq, mod : Mod, phy : Phy]

\* A new collector, and a collector after reset.
LEMMA EmptyAddsUp == Empty \in Collector /\ AddsUp(Empty)
<1>1. Empty \in Collector
  BY DEF Empty, Collector
<1>2. Sum([f \in Freq |-> 0]) = 0 /\ Sum([m \in Mod |-> 0]) = 0
  BY SumOfZeros, UplinkConstants
<1> QED
  BY <1>1, <1>2 DEF Empty, AddsUp, TxStatus

LEMMA CountUplinkAddsUp ==
    ASSUME NEW c \in Collector, AddsUp(c), NEW frame \in Frame
    PROVE  LET d == CountUplink(c, frame) IN
           d \in Collector /\ AddsUp(d) /\ d.rxCount = c.rxCount + 1 /\ d.txCount = c.txCount
<1> DEFINE d == CountUplink(c, frame)
           pf == [c.rxPerFreqCount EXCEPT ![frame.freq] = @ + 1]
           pm == [c.rxPerModulationCount EXCEPT ![frame.mod] = @ + 1]
<1>1. c.rxPerFreqCount \in [Freq -> Nat] /\ c.rxPerModulationCount \in [Mod -> Nat]
      /\ c.rxCount \in Nat
  BY DEF Collector
<1>2. frame.freq \in Freq /\ frame.mod \in Mod
  BY DEF Frame
<1>3. pf \in [Freq -> Nat] /\ Sum(pf) = Sum(c.rxPerFreqCount) + 1
  BY <1>1, <1>2, SumOneMore, UplinkConstants
<1>4. pm \in [Mod -> Nat] /\ Sum(pm) = Sum(c.rxPerModulationCount) + 1
  BY <1>1, <1>2, SumOneMore, UplinkConstants
<1>5. d = [c EXCEPT !.rxCount = @ + 1, !.rxPerFreqCount = pf, !.rxPerModulationCount = pm]
  BY DEF CountUplink, Collector
<1> HIDE DEF d, pf, pm
<1>6. DOMAIN c = {"rxCount", "txCount", "rxPerFreqCount", "txPerFreqCount", "rxPerModulationCount",
                  "txPerModulationCount", "txStatusCount"}
  BY DEF Collector
<1>7. d = [rxCount |-> d.rxCount, txCount |-> d.txCount, rxPerFreqCount |-> d.rxPerFreqCount,
           txPerFreqCount |-> d.txPerFreqCount, rxPerModulationCount |-> d.rxPerModulationCount,
           txPerModulationCount |-> d.txPerModulationCount, txStatusCount |-> d.txStatusCount]
  BY <1>5, <1>6
<1>8. /\ d.rxCount = c.rxCount + 1 /\ d.txCount = c.txCount
      /\ d.rxPerFreqCount = pf /\ d.rxPerModulationCount = pm
      /\ d.txPerFreqCount = c.txPerFreqCount /\ d.txPerModulationCount = c.txPerModulationCount
      /\ d.txStatusCount = c.txStatusCount
  BY <1>5, <1>6
<1>9. d \in Collector
  BY <1>1, <1>3, <1>4, <1>8, <1>7 DEF Collector
<1>10. AddsUp(d)
  BY <1>3, <1>4, <1>8 DEF AddsUp
<1> QED
  BY <1>8, <1>10, <1>9 DEF d

\* An item that was tried, with the status of the acknowledgement.
LEMMA CountItemAddsUp ==
    ASSUME NEW c \in Collector, AddsUp(c), NEW item \in [freq : Freq, mod : Mod],
           NEW status \in TxStatus \ {"IGNORED"}
    PROVE  LET d == CountItem(c, item, status) IN
           /\ d \in Collector /\ AddsUp(d) /\ d.rxCount = c.rxCount
           /\ d.txCount = IF status = "OK" THEN c.txCount + 1 ELSE c.txCount
<1> DEFINE d == CountItem(c, item, status)
           pf == [c.txPerFreqCount EXCEPT ![item.freq] = @ + 1]
           pm == [c.txPerModulationCount EXCEPT ![item.mod] = @ + 1]
           ps == [c.txStatusCount EXCEPT ![status] = @ + 1]
           tagged == [c EXCEPT !.txStatusCount = ps]
<1>1. /\ c.txPerFreqCount \in [Freq -> Nat] /\ c.txPerModulationCount \in [Mod -> Nat]
      /\ c.txCount \in Nat /\ c.txStatusCount \in [TxStatus -> Nat]
  BY DEF Collector
<1>2. item.freq \in Freq /\ item.mod \in Mod
  OBVIOUS
<1>3. pf \in [Freq -> Nat] /\ Sum(pf) = Sum(c.txPerFreqCount) + 1
  BY <1>1, <1>2, SumOneMore, UplinkConstants
<1>4. pm \in [Mod -> Nat] /\ Sum(pm) = Sum(c.txPerModulationCount) + 1
  BY <1>1, <1>2, SumOneMore, UplinkConstants
<1>5. /\ ps \in [TxStatus -> Nat] /\ ps["IGNORED"] = c.txStatusCount["IGNORED"]
      /\ ps["OK"] = IF status = "OK" THEN c.txStatusCount["OK"] + 1 ELSE c.txStatusCount["OK"]
  BY <1>1 DEF TxStatus
<1>6. d = IF status = "OK"
          THEN [tagged EXCEPT !.txCount = @ + 1, !.txPerFreqCount = pf, !.txPerModulationCount = pm]
          ELSE tagged
  BY DEF CountItem, Collector
<1> HIDE DEF d, pf, pm, ps
<1>7. DOMAIN c = {"rxCount", "txCount", "rxPerFreqCount", "txPerFreqCount", "rxPerModulationCount",
                  "txPerModulationCount", "txStatusCount"}
  BY DEF Collector
<1>8. d = [rxCount |-> d.rxCount, txCount |-> d.txCount, rxPerFreqCount |-> d.rxPerFreqCount,
           txPerFreqCount |-> d.txPerFreqCount, rxPerModulationCount |-> d.rxPerModulationCount,
           txPerModulationCount |-> d.txPerModulationCount, txStatusCount |-> d.txStatusCount]
  BY <1>6, <1>7
<1>9. /\ d.rxCount = c.rxCount
      /\ d.txCount = (IF status = "OK" THEN c.txCount + 1 ELSE c.txCount)
      /\ d.txPerFreqCount = (IF status = "OK" THEN pf ELSE c.txPerFreqCount)
      /\ d.txPerModulationCount = (IF status = "OK" THEN pm ELSE c.txPerModulationCount)
      /\ d.rxPerFreqCount = c.rxPerFreqCount /\ d.rxPerModulationCount = c.rxPerModulationCount
      /\ d.txStatusCount = ps
  BY <1>6, <1>7
<1>10. d \in Collector
  BY <1>1, <1>3, <1>4, <1>5, <1>9, <1>8 DEF Collector
<1>11. AddsUp(d)
  BY <1>3, <1>4, <1>5, <1>9 DEF AddsUp
<1> QED
  BY <1>9, <1>11, <1>10 DEF d

\* The recursion that defines CountDownlink, for a set of sets of indexes.
Counts(g, sets, c, items, statuses) ==
    g = [s \in sets |-> IF s = {} THEN c
                        ELSE CountItem(g[Rest(s)], items[AnyOf(s)], statuses[AnyOf(s)])]

Used(statuses) == {i \in DOMAIN statuses : statuses[i] # "IGNORED"}

LEMMA CountDownlinkDef ==
    ASSUME NEW c, NEW items, NEW statuses
    PROVE  CountDownlink(c, items, statuses) =
              (CHOOSE g : Counts(g, SUBSET Used(statuses), c, items, statuses))[Used(statuses)]
BY DEF CountDownlink, FoldSet, MapThenFoldSet, Counts, Used, AnyOf, Rest

LEMMA CountsExists ==
    ASSUME NEW S, IsFiniteSet(S), NEW c, NEW items, NEW statuses
    PROVE  \E g : Counts(g, SUBSET S, c, items, statuses)
<1> DEFINE T == {n \in Nat : \E g : Counts(g, Upto(S, n), c, items, statuses)}
<1>1. 0 \in T
  <2>1. Counts([s \in Upto(S, 0) |-> c], Upto(S, 0), c, items, statuses)
    BY UptoFacts DEF Counts
  <2> QED
    BY <2>1
<1>2. ASSUME NEW n \in T PROVE n + 1 \in T
  <2>1. PICK g : Counts(g, Upto(S, n), c, items, statuses)
    OBVIOUS
  <2> DEFINE h == [s \in Upto(S, n + 1) |->
                     IF s = {} THEN c ELSE CountItem(g[Rest(s)], items[AnyOf(s)], statuses[AnyOf(s)])]
  <2>2. \A s \in Upto(S, n) : h[s] = g[s]
    BY <2>1, UptoFacts DEF Counts
  <2>3. \A s \in Upto(S, n + 1) : s # {} => h[Rest(s)] = g[Rest(s)]
    BY <2>2, UptoFacts
  <2>4. Counts(h, Upto(S, n + 1), c, items, statuses)
    BY <2>3 DEF Counts
  <2> QED
    BY <2>4
<1>3. T = Nat
  <2> HIDE DEF T
  <2>1. T \in SUBSET Nat
    BY DEF T
  <2> QED
    BY <1>1, <1>2, <2>1, SetInduction
<1>4. Cardinality(S) \in T /\ Upto(S, Cardinality(S)) = SUBSET S
  BY <1>3, UptoFacts
<1> QED
  BY <1>4

\* A transmitted downlink has one item with status OK, and counts once.
LEMMA CountDownlinkAddsUp ==
    ASSUME NEW c \in Collector, AddsUp(c), NEW items \in TxItems, NEW statuses \in Transmitted
    PROVE  LET d == CountDownlink(c, items, statuses) IN
           d \in Collector /\ AddsUp(d) /\ d.rxCount = c.rxCount /\ d.txCount = c.txCount + 1
<1> DEFINE U == Used(statuses)
           ok == IF statuses[1] = "OK" THEN 1 ELSE 2
           g == CHOOSE g : Counts(g, SUBSET U, c, items, statuses)
           P(s) == /\ g[s] \in Collector /\ AddsUp(g[s]) /\ g[s].rxCount = c.rxCount
                   /\ g[s].txCount = IF ok \in s THEN c.txCount + 1 ELSE c.txCount
           T == {n \in Nat : \A s \in Upto(U, n) : P(s)}
<1>1. /\ DOMAIN statuses = 1..2 /\ ok \in U /\ U \subseteq 1..2
      /\ \A i \in U : /\ statuses[i] \in TxStatus \ {"IGNORED"} /\ (statuses[i] = "OK" <=> i = ok)
                      /\ items[i] \in [freq : Freq, mod : Mod]
  BY UplinkConstants DEF Used, Transmitted, TxStatus
<1>2. IsFiniteSet(U)
  <2>1. IsFiniteSet(1..2)
    <3>1. 1 \in Int /\ 2 \in Int
      OBVIOUS
    <3> QED
      BY <3>1, FS_Interval
  <2> QED
    BY <1>1, <2>1, FS_Subset
<1>3. Counts(g, SUBSET U, c, items, statuses)
  BY <1>2, CountsExists
<1>4. CountDownlink(c, items, statuses) = g[U]
  BY CountDownlinkDef
<1> HIDE DEF g, U, ok
<1>5. \A s \in SUBSET U :
        g[s] = IF s = {} THEN c ELSE CountItem(g[Rest(s)], items[AnyOf(s)], statuses[AnyOf(s)])
  BY <1>3 DEF Counts
<1>6. P({})
  <2>1. {} \in SUBSET U
    OBVIOUS
  <2>2. g[{}] = c
    BY <1>5, <2>1
  <2> QED
    BY <2>2
<1>7. 0 \in T
  <2>1. Upto(U, 0) = {{}}
    BY <1>2, UptoFacts
  <2> QED
    BY <1>6, <2>1
<1>8. ASSUME NEW n \in T PROVE n + 1 \in T
  <2>1. ASSUME NEW s \in Upto(U, n + 1), s # {} PROVE P(s)
    <3>1. s \in SUBSET U /\ AnyOf(s) \in s /\ Rest(s) \in Upto(U, n) /\ AnyOf(s) \in U
      BY <1>2, <2>1, UptoFacts DEF Upto
    <3> DEFINE r == g[Rest(s)]
               i == AnyOf(s)
    <3>2. P(Rest(s))
      BY <3>1
    <3>3. g[s] = CountItem(r, items[i], statuses[i])
      BY <1>5, <2>1, <3>1
    <3>4. /\ g[s] \in Collector /\ AddsUp(g[s]) /\ g[s].rxCount = r.rxCount
          /\ g[s].txCount = IF statuses[i] = "OK" THEN r.txCount + 1 ELSE r.txCount
      <4>1. r \in Collector /\ AddsUp(r)
        BY <3>2
      <4>2. items[i] \in [freq : Freq, mod : Mod] /\ statuses[i] \in TxStatus \ {"IGNORED"}
        BY <1>1, <3>1
      <4> HIDE DEF r, i
      <4> QED
        BY <3>3, <4>1, <4>2, CountItemAddsUp
    <3>5. ok \in Rest(s) <=> ok \in s /\ ok # i
      BY DEF Rest
    <3>6. statuses[i] = "OK" <=> i = ok
      BY <1>1, <3>1
    <3>7. r.txCount = (IF ok \in Rest(s) THEN c.txCount + 1 ELSE c.txCount) /\ r.rxCount = c.rxCount
      BY <3>2
    <3>8. g[s].txCount = IF ok \in s THEN c.txCount + 1 ELSE c.txCount
      <4> HIDE DEF r, i
      <4>1. CASE i = ok
        <5>1. i \in s
          BY <3>1 DEF i
        <5> QED
          BY <3>4, <3>5, <3>6, <3>7, <4>1, <5>1
      <4>2. CASE i # ok
        BY <3>4, <3>5, <3>6, <3>7, <4>2
      <4> QED
        BY <4>1, <4>2
    <3> QED
      BY <3>4, <3>7, <3>8
  <2>2. \A s \in Upto(U, n + 1) : P(s)
    <3> HIDE DEF P
    <3> QED
      BY <1>6, <2>1
  <2> QED
    BY <2>2
<1>9. T = Nat
  <2> HIDE DEF T
  <2>1. T \in SUBSET Nat
    BY DEF T
  <2> QED
    BY <1>7, <1>8, <2>1, SetInduction
<1>10. Cardinality(U) \in T /\ Upto(U, Cardinality(U)) = SUBSET U
  BY <1>2, <1>9, UptoFacts
<1>11. P(U)
  <2>1. U \in SUBSET U
    OBVIOUS
  <2> QED
    BY <1>10, <2>1
<1> QED
  BY <1>1, <1>4, <1>11

----------------------------------------------------------------------------
(* The frames of a packet *)

Flattens(g, n, seqs) == g = [i \in 1..n |-> IF i = 1 THEN seqs[i] ELSE g[i - 1] \o seqs[i]]

LEMMA FlattenType ==
    ASSUME NEW S, NEW seqs \in Seq(Seq(S))
    PROVE  FlattenSeq(seqs) \in Seq(S)
<1> DEFINE N == Len(seqs)
           T == {n \in Nat : \E g : Flattens(g, n, seqs)}
           f == CHOOSE g : Flattens(g, N, seqs)
<1>1. N \in Nat /\ \A i \in 1..N : seqs[i] \in Seq(S)
  OBVIOUS
<1>2. FlattenSeq(seqs) = IF N = 0 THEN seqs ELSE f[N]
  BY DEF FlattenSeq, Flattens
<1>3. CASE N = 0
  BY <1>2, <1>3
<1>4. CASE N # 0
  <2>1. 0 \in T
    <3>1. Flattens([i \in 1..0 |-> seqs[i]], 0, seqs)
      BY DEF Flattens
    <3> QED
      BY <3>1
  <2>2. ASSUME NEW n \in T PROVE n + 1 \in T
    <3>1. PICK g : Flattens(g, n, seqs)
      OBVIOUS
    <3> DEFINE h == [i \in 1..(n + 1) |-> IF i = 1 THEN seqs[i] ELSE g[i - 1] \o seqs[i]]
    <3>2. n \in Nat /\ (\A i \in 1..n : i \in 1..(n + 1))
          /\ (\A i \in 1..(n + 1) : i # 1 => i - 1 \in 1..n)
      OBVIOUS
    <3>3. \A i \in 1..n : g[i] = IF i = 1 THEN seqs[i] ELSE g[i - 1] \o seqs[i]
      BY <3>1 DEF Flattens
    <3>4. \A i \in 1..n : h[i] = g[i]
      BY <3>2, <3>3
    <3>5. \A i \in 1..(n + 1) : i # 1 => h[i - 1] = g[i - 1]
      BY <3>2, <3>4
    <3>6. Flattens(h, n + 1, seqs)
      BY <3>5 DEF Flattens
    <3> QED
      BY <3>2, <3>6
  <2>3. T = Nat
    <3> HIDE DEF T
    <3>1. T \in SUBSET Nat
      BY DEF T
    <3> QED
      BY <2>1, <2>2, <3>1, SetInduction
  <2>4. N \in T
    BY <1>1, <2>3
  <2>6. Flattens(f, N, seqs)
    BY <2>4
  <2> DEFINE V == {n \in Nat : n \in 1..N => f[n] \in Seq(S)}
  <2> HIDE DEF f
  <2>7. 0 \in V
    OBVIOUS
  <2>8. ASSUME NEW n \in V PROVE n + 1 \in V
    <3> SUFFICES ASSUME n + 1 \in 1..N PROVE f[n + 1] \in Seq(S)
      OBVIOUS
    <3>1. f[n + 1] = IF n + 1 = 1 THEN seqs[n + 1] ELSE f[(n + 1) - 1] \o seqs[n + 1]
      BY <2>6 DEF Flattens
    <3>2. n # 0 => (n + 1) - 1 = n /\ n \in 1..N
      BY <1>1
    <3> QED
      BY <1>1, <3>1, <3>2
  <2>9. V = Nat
    <3> HIDE DEF V
    <3>1. V \in SUBSET Nat
      BY DEF V
    <3> QED
      BY <2>7, <2>8, <3>1, SetInduction
  <2>10. f[N] \in Seq(S)
    <3>1. N \in V /\ N \in 1..N
      BY <1>1, <1>4, <2>9
    <3> QED
      BY <3>1
  <2> QED
    BY <1>2, <1>4, <2>10
<1> QED
  BY <1>3, <1>4

LEMMA FramesType ==
    ASSUME NEW rxpks \in PushPackets
    PROVE  GetUplinkFrames(rxpks) \in Seq(Frame)
<1> DEFINE used(i) == rxpks[i].crcOk \/ SkipCRC
           copies(i) == [a \in 1..(IF used(i) THEN rxpks[i].antennas ELSE 0) |-> rxpks[i].frame]
           all == [i \in DOMAIN rxpks |-> copies(i)]
<1>1. rxpks \in Seq(RXPK)
  BY PushConstants
<1>2. \A i \in 1..Len(rxpks) : rxpks[i].frame \in Frame /\ rxpks[i].antennas \in Nat
  <2>1. \A i \in 1..Len(rxpks) : rxpks[i] \in RXPK
    BY <1>1
  <2> QED
    BY <2>1 DEF RXPK, Frame
<1>3. ASSUME NEW i \in 1..Len(rxpks) PROVE copies(i) \in Seq(Frame)
  <2> DEFINE n == IF used(i) THEN rxpks[i].antennas ELSE 0
  <2>1. n \in Nat
    BY <1>2
  <2>2. copies(i) = [a \in 1..n |-> rxpks[i].frame]
    OBVIOUS
  <2> HIDE DEF n
  <2>3. [a \in 1..n |-> rxpks[i].frame] \in Seq(Frame)
    BY <1>2, <2>1, IsASeq
  <2> QED
    BY <2>2, <2>3
<1>4. all \in Seq(Seq(Frame))
  <2> HIDE DEF copies
  <2>1. DOMAIN rxpks = 1..Len(rxpks) /\ Len(rxpks) \in Nat
    BY <1>1
  <2>2. \A i \in 1..Len(rxpks) : copies(i) \in Seq(Frame)
    BY <1>3
  <2>3. all = [i \in 1..Len(rxpks) |-> copies(i)]
    BY <2>1
  <2> QED
    BY <2>1, <2>2, <2>3, IsASeq
<1>5. FlattenSeq(all) \in Seq(Frame)
  <2> HIDE DEF all
  <2> QED
    BY <1>4, FlattenType
<1> QED
  BY <1>5 DEF GetUplinkFrames

----------------------------------------------------------------------------
(* What the collectors hold together *)

Rx(cs) == Sum([c \in DOMAIN cs |-> cs[c].rxCount])
Tx(cs) == Sum([c \in DOMAIN cs |-> cs[c].txCount])

LEMMA TotalsType == \A cs \in Seq(Collector) : Rx(cs) \in Nat /\ Tx(cs) \in Nat
<1> SUFFICES ASSUME NEW cs \in Seq(Collector) PROVE Rx(cs) \in Nat /\ Tx(cs) \in Nat
  OBVIOUS
<1> DEFINE D == 1..Len(cs)
           r == [c \in D |-> cs[c].rxCount]
           t == [c \in D |-> cs[c].txCount]
<1>1. DOMAIN cs = D /\ \A c \in D : cs[c] \in Collector
  OBVIOUS
<1>2. r \in [D -> Nat] /\ t \in [D -> Nat]
  BY <1>1 DEF Collector
<1>3. IsFiniteSet(D)
  <2>1. 1 \in Int /\ Len(cs) \in Int
    OBVIOUS
  <2> QED
    BY <2>1, FS_Interval
<1>4. Rx(cs) = Sum(r) /\ Tx(cs) = Sum(t)
  BY <1>1 DEF Rx, Tx
<1> HIDE DEF r, t
<1>5. DOMAIN r = D /\ DOMAIN t = D /\ (\A c \in D : r[c] \in Nat) /\ (\A c \in D : t[c] \in Nat)
  BY <1>2
<1>6. Sum(r) \in Nat /\ Sum(t) \in Nat
  BY <1>3, <1>5, SumIsNat
<1> QED
  BY <1>4, <1>6

\* A collector that changes.
LEMMA TotalsExcept ==
    ASSUME NEW cs \in Seq(Collector), NEW i \in 1..Len(cs), NEW e \in Collector
    PROVE  LET ds == [cs EXCEPT ![i] = e] IN
           /\ Rx(ds) + cs[i].rxCount = Rx(cs) + e.rxCount
           /\ Tx(ds) + cs[i].txCount = Tx(cs) + e.txCount
<1> DEFINE ds == [cs EXCEPT ![i] = e]
           D == 1..Len(cs)
           r == [c \in D |-> cs[c].rxCount]
           t == [c \in D |-> cs[c].txCount]
           r2 == [c \in D |-> ds[c].rxCount]
           t2 == [c \in D |-> ds[c].txCount]
<1>1. DOMAIN cs = D /\ \A c \in D : cs[c] \in Collector
  OBVIOUS
<1>2. DOMAIN ds = D /\ ds[i] = e /\ \A c \in D \ {i} : ds[c] = cs[c]
  OBVIOUS
<1> HIDE DEF ds
<1>3. r \in [D -> Nat] /\ t \in [D -> Nat]
  BY <1>1 DEF Collector
<1>4. r2 \in [D -> Nat] /\ t2 \in [D -> Nat]
  BY <1>1, <1>2 DEF Collector
<1>5. IsFiniteSet(D)
  <2>1. 1 \in Int /\ Len(cs) \in Int
    OBVIOUS
  <2> QED
    BY <2>1, FS_Interval
<1>6. Rx(cs) = Sum(r) /\ Tx(cs) = Sum(t) /\ Rx(ds) = Sum(r2) /\ Tx(ds) = Sum(t2)
  BY <1>1, <1>2 DEF Rx, Tx
<1>7. /\ r[i] = cs[i].rxCount /\ t[i] = cs[i].txCount /\ r2[i] = e.rxCount /\ t2[i] = e.txCount
      /\ i \in D /\ (\A c \in D \ {i} : r2[c] = r[c]) /\ (\A c \in D \ {i} : t2[c] = t[c])
  BY <1>2
<1> HIDE DEF r, t, r2, t2, D
<1>8. Sum(r2) + r[i] = Sum(r) + r2[i]
  <2>1. r \in [D -> Nat] /\ r2 \in [D -> Nat]
    BY <1>3, <1>4
  <2>2. i \in D /\ \A c \in D \ {i} : r2[c] = r[c]
    BY <1>7
  <2> QED
    BY <1>5, <2>1, <2>2, SumExcept
<1>9. Sum(t2) + t[i] = Sum(t) + t2[i]
  <2>1. t \in [D -> Nat] /\ t2 \in [D -> Nat]
    BY <1>3, <1>4
  <2>2. i \in D /\ \A c \in D \ {i} : t2[c] = t[c]
    BY <1>7
  <2> QED
    BY <1>5, <2>1, <2>2, SumExcept
<1>10. Rx(ds) + cs[i].rxCount = Rx(cs) + e.rxCount /\ Tx(ds) + cs[i].txCount = Tx(cs) + e.txCount
  BY <1>6, <1>7, <1>8, <1>9
<1> QED
  BY <1>10 DEF ds

\* A collector that is new.
LEMMA TotalsAppend ==
    ASSUME NEW cs \in Seq(Collector)
    PROVE  Rx(Append(cs, Empty)) = Rx(cs) /\ Tx(Append(cs, Empty)) = Tx(cs)
<1> DEFINE ds == Append(cs, Empty)
           D == 1..Len(cs)
           E == 1..(Len(cs) + 1)
           i == Len(cs) + 1
           r == [c \in D |-> cs[c].rxCount]
           t == [c \in D |-> cs[c].txCount]
           r2 == [c \in E |-> ds[c].rxCount]
           t2 == [c \in E |-> ds[c].txCount]
<1>1. DOMAIN cs = D /\ Len(cs) \in Nat /\ \A c \in D : cs[c] \in Collector
  OBVIOUS
<1>2. DOMAIN ds = E /\ ds[i] = Empty /\ \A c \in D : ds[c] = cs[c]
  OBVIOUS
<1>3. i \in E /\ i \notin D /\ D \ {i} = E \ {i} /\ D \subseteq E /\ E \ {i} \subseteq D
  BY <1>1
<1>4. Empty \in Collector /\ Empty.rxCount = 0 /\ Empty.txCount = 0
  BY EmptyAddsUp DEF Empty
<1>5. IsFiniteSet(D) /\ IsFiniteSet(E)
  <2>1. 1 \in Int /\ Len(cs) \in Int /\ Len(cs) + 1 \in Int
    OBVIOUS
  <2> QED
    BY <2>1, FS_Interval
<1> HIDE DEF ds, D, E, i
<1>6. r \in [D -> Nat] /\ t \in [D -> Nat]
  BY <1>1 DEF Collector
<1>7. \A c \in E : ds[c] \in Collector
  BY <1>1, <1>2, <1>3, <1>4
<1>8. r2 \in [E -> Nat] /\ t2 \in [E -> Nat]
  BY <1>7 DEF Collector
<1>9. Rx(cs) = Sum(r) /\ Tx(cs) = Sum(t) /\ Rx(ds) = Sum(r2) /\ Tx(ds) = Sum(t2)
  BY <1>1, <1>2 DEF Rx, Tx
<1>10. /\ r2[i] = 0 /\ t2[i] = 0
       /\ (\A c \in D \ {i} : r2[c] = r[c]) /\ (\A c \in D \ {i} : t2[c] = t[c])
  BY <1>2, <1>3, <1>4
<1> HIDE DEF r, t, r2, t2
<1>11. Sum(r2) + (IF i \in D THEN r[i] ELSE 0) = Sum(r) + r2[i]
  <2>1. r \in [D -> Nat] /\ r2 \in [E -> Nat]
    BY <1>6, <1>8
  <2>2. i \in E /\ D \ {i} = E \ {i} /\ \A c \in D \ {i} : r2[c] = r[c]
    BY <1>3, <1>10
  <2> QED
    BY <1>5, <2>1, <2>2, SumDiffers
<1>12. Sum(t2) + (IF i \in D THEN t[i] ELSE 0) = Sum(t) + t2[i]
  <2>1. t \in [D -> Nat] /\ t2 \in [E -> Nat]
    BY <1>6, <1>8
  <2>2. i \in E /\ D \ {i} = E \ {i} /\ \A c \in D \ {i} : t2[c] = t[c]
    BY <1>3, <1>10
  <2> QED
    BY <1>5, <2>1, <2>2, SumDiffers
<1>13. Sum(r) \in Nat /\ Sum(t) \in Nat /\ Sum(r2) \in Nat /\ Sum(t2) \in Nat
  <2>1. /\ DOMAIN r = D /\ DOMAIN t = D /\ (\A c \in D : r[c] \in Nat)
           /\ (\A c \in D : t[c] \in Nat)
        /\ DOMAIN r2 = E /\ DOMAIN t2 = E /\ (\A c \in E : r2[c] \in Nat)
           /\ (\A c \in E : t2[c] \in Nat)
    BY <1>6, <1>8
  <2> QED
    BY <1>5, <2>1, SumIsNat
<1>14. Rx(ds) = Rx(cs) /\ Tx(ds) = Tx(cs)
  BY <1>3, <1>9, <1>10, <1>11, <1>12, <1>13
<1> QED
  BY <1>14 DEF ds

----------------------------------------------------------------------------
(* The statistics *)

Packet == [pc : {"stats", "export", "frames", "count"}, frames : Seq(Frame), conn : Nat]

\* A goroutine has a frame to count if it is about to count one, and the collector
\* that it got, which may not be the registered one any more, exists.
PacketOK(p) ==
    /\ packet[p].conn <= Len(collector)
    /\ packet[p].pc = "count" => packet[p].frames # <<>>

UplinkTypes ==
    /\ collector \in Seq(Collector)
    /\ reg \in 0..Len(collector) /\ generation = Len(collector)
    /\ packet \in Seq(Packet) /\ \A p \in DOMAIN packet : PacketOK(p)
    /\ exported \in [rx : Nat, tx : Nat] /\ counted \in [rx : Nat, tx : Nat]
    /\ unregistered \in [rx : Nat, tx : Nat]

CountInv == UplinkTypes /\ CountedOnce

LEMMA CountedOnceIs ==
    CountedOnce <=> /\ counted.rx = exported.rx + Rx(collector) + unregistered.rx
                    /\ counted.tx = exported.tx + Tx(collector) + unregistered.tx
                    /\ \A c \in DOMAIN collector : AddsUp(collector[c])
BY DEF CountedOnce, Rx, Tx

LEMMA CountInit == UplinkInit => CountInv
<1> SUFFICES ASSUME UplinkInit PROVE CountInv
  OBVIOUS
<1>1. UplinkTypes
  BY DEF UplinkInit, UplinkTypes
<1>2. Rx(<<>>) = 0 /\ Tx(<<>>) = 0
  <2>1. DOMAIN << >> = {}
    OBVIOUS
  <2>2. Sum([c \in {} |-> 0]) = 0
    BY SumOfZeros, FS_EmptySet
  <2>3. [c \in DOMAIN << >> |-> << >>[c].rxCount] = [c \in {} |-> 0]
    BY <2>1
  <2>4. [c \in DOMAIN << >> |-> << >>[c].txCount] = [c \in {} |-> 0]
    BY <2>1
  <2> QED
    BY <2>2, <2>3, <2>4 DEF Rx, Tx
<1>3. CountedOnce
  BY <1>2, CountedOnceIs DEF UplinkInit
<1> QED
  BY <1>1, <1>3 DEF CountInv

LEMMA PacketRecord ==
    ASSUME NEW q \in Packet
    PROVE  /\ q.pc \in {"stats", "export", "frames", "count"}
           /\ q.frames \in Seq(Frame) /\ q.conn \in Nat
           /\ \A x : [q EXCEPT !.pc = x] = [pc |-> x, frames |-> q.frames, conn |-> q.conn]
           /\ \A x, c : [q EXCEPT !.pc = x, !.conn = c] =
                           [pc |-> x, frames |-> q.frames, conn |-> c]
           /\ \A x, f : [q EXCEPT !.pc = x, !.frames = f] =
                           [pc |-> x, frames |-> f, conn |-> q.conn]
<1>1. q = [pc |-> q.pc, frames |-> q.frames, conn |-> q.conn]
  BY DEF Packet
<1>2. q.pc \in {"stats", "export", "frames", "count"} /\ q.frames \in Seq(Frame) /\ q.conn \in Nat
  BY DEF Packet
<1> DEFINE a == q.pc
           b == q.frames
           d == q.conn
<1> HIDE DEF a, b, d
<1>3. q = [pc |-> a, frames |-> b, conn |-> d]
  BY <1>1 DEF a, b, d
<1>4. /\ \A x : [q EXCEPT !.pc = x] = [pc |-> x, frames |-> b, conn |-> d]
      /\ \A x, c : [q EXCEPT !.pc = x, !.conn = c] = [pc |-> x, frames |-> b, conn |-> c]
      /\ \A x, f : [q EXCEPT !.pc = x, !.frames = f] = [pc |-> x, frames |-> f, conn |-> d]
  <2>1. \A x : [q EXCEPT !.pc = x] = [pc |-> x, frames |-> b, conn |-> d]
    BY <1>3
  <2>2. ASSUME NEW x, NEW c
        PROVE  [q EXCEPT !.pc = x, !.conn = c] = [pc |-> x, frames |-> b, conn |-> c]
    <3> DEFINE r == [q EXCEPT !.pc = x]
    <3>1. [r EXCEPT !.conn = c] = [pc |-> x, frames |-> b, conn |-> c]
      <4>1. r = [pc |-> x, frames |-> b, conn |-> d]
        BY <2>1
      <4> HIDE DEF r
      <4> QED
        BY <4>1
    <3> QED
      BY <3>1
  <2>3. ASSUME NEW x, NEW f
        PROVE  [q EXCEPT !.pc = x, !.frames = f] = [pc |-> x, frames |-> f, conn |-> d]
    <3> DEFINE r == [q EXCEPT !.pc = x]
    <3>1. [r EXCEPT !.frames = f] = [pc |-> x, frames |-> f, conn |-> d]
      <4>1. r = [pc |-> x, frames |-> b, conn |-> d]
        BY <2>1
      <4> HIDE DEF r
      <4> QED
        BY <4>1
    <3> QED
      BY <3>1
  <2> QED
    BY <2>1, <2>2, <2>3
<1> QED
  BY <1>2, <1>4 DEF a, b, d

LEMMA PacketFacts ==
    ASSUME UplinkTypes, NEW p \in DOMAIN packet
    PROVE  packet[p] \in Packet /\ packet[p].conn \in 0..Len(collector) /\ PacketOK(p)
<1>1. packet[p] \in Packet /\ PacketOK(p) /\ Len(collector) \in Nat
  BY DEF UplinkTypes
<1>2. packet[p].conn \in Nat
  BY <1>1, PacketRecord
<1> QED
  BY <1>1, <1>2 DEF PacketOK

\* A step of a goroutine: the others stay.
LEMMA PacketStep ==
    ASSUME UplinkTypes, NEW p \in DOMAIN packet, NEW q \in Packet,
           packet' = [packet EXCEPT ![p] = q], Len(collector') = Len(collector),
           q.conn <= Len(collector), q.pc = "count" => q.frames # <<>>
    PROVE  packet' \in Seq(Packet) /\ \A r \in DOMAIN packet' : PacketOK(r)'
<1>1. packet \in Seq(Packet) /\ \A r \in DOMAIN packet : PacketOK(r)
  BY DEF UplinkTypes
<1>2. packet' \in Seq(Packet)
  BY <1>1
<1>3. DOMAIN packet' = DOMAIN packet /\ packet'[p] = q
      /\ \A r \in DOMAIN packet \ {p} : packet'[r] = packet[r]
  BY <1>1
<1>4. \A r \in DOMAIN packet' : PacketOK(r)'
  BY <1>1, <1>3 DEF PacketOK
<1> QED
  BY <1>2, <1>4

\* The books do not change as long as the collectors and the history do not.
LEMMA CountSame ==
    ASSUME CountedOnce, UNCHANGED <<collector, countVars>> PROVE CountedOnce'
BY DEF CountedOnce, countVars

LEMMA CountSet == ASSUME CountInv, Set PROVE CountInv'
<1>1. collector \in Seq(Collector) /\ Empty \in Collector /\ AddsUp(Empty)
  BY EmptyAddsUp DEF CountInv, UplinkTypes
<1>2. collector' \in Seq(Collector) /\ Len(collector') = Len(collector) + 1
      /\ (\A c \in DOMAIN collector' : collector'[c] = Empty \/ (c \in DOMAIN collector
         /\ collector'[c] = collector[c]))
  BY <1>1 DEF Set
<1>3. UplinkTypes'
  <2>1. \A p \in DOMAIN packet : PacketOK(p)'
    <3>1. \A p \in DOMAIN packet : packet[p].conn \in Nat /\ PacketOK(p)
      BY PacketFacts DEF CountInv
    <3>2. Len(collector) \in Nat /\ packet' = packet
      BY <1>1 DEF Set
    <3> QED
      BY <1>2, <3>1, <3>2 DEF PacketOK
  <2> QED
    BY <1>2, <2>1 DEF CountInv, UplinkTypes, Set, countVars
<1>4. Rx(collector') = Rx(collector) /\ Tx(collector') = Tx(collector)
  BY <1>1, TotalsAppend DEF Set
<1>5. \A c \in DOMAIN collector' : AddsUp(collector'[c])
  BY <1>1, <1>2, CountedOnceIs DEF CountInv
<1>6. CountedOnce'
  BY <1>4, <1>5, CountedOnceIs DEF CountInv, Set, countVars, CountedOnce, Rx, Tx
<1> QED
  BY <1>3, <1>6 DEF CountInv

LEMMA CountCleanup == ASSUME CountInv, cleanup PROVE CountInv'
<1>1. UplinkTypes'
  BY DEF CountInv, UplinkTypes, PacketOK, cleanup, countVars
<1> QED
  BY <1>1, CountSame DEF CountInv, cleanup

LEMMA CountPush ==
    ASSUME CountInv, NEW rxpks \in PushPackets, NEW stat \in BOOLEAN, handlePushData(rxpks, stat)
    PROVE  CountInv'
<1> DEFINE q == [pc |-> IF stat THEN "stats" ELSE "frames",
                 frames |-> GetUplinkFrames(rxpks), conn |-> 0]
<1>1. q \in Packet /\ q.conn = 0 /\ q.pc # "count"
  BY FramesType DEF Packet
<1>2. packet' = Append(packet, q) /\ packet \in Seq(Packet)
      /\ (\A p \in DOMAIN packet : PacketOK(p))
      /\ UNCHANGED <<filters, statsVars, countVars, dropped>>
  BY DEF handlePushData, CountInv, UplinkTypes
<1> HIDE DEF q
<1>3. packet' \in Seq(Packet)
      /\ (\A p \in DOMAIN packet' : packet'[p] = q \/ (p \in DOMAIN packet
         /\ packet'[p] = packet[p]))
  BY <1>1, <1>2
<1>4. collector' = collector /\ Len(collector) \in Nat
  BY <1>2 DEF statsVars, CountInv, UplinkTypes
<1>5. \A p \in DOMAIN packet' : PacketOK(p)'
  BY <1>1, <1>2, <1>3, <1>4 DEF PacketOK
<1>6. UplinkTypes'
  BY <1>2, <1>3, <1>5 DEF CountInv, UplinkTypes, statsVars, countVars
<1> QED
  BY <1>2, <1>6, CountSame DEF CountInv, statsVars

LEMMA CountGet == ASSUME CountInv, NEW p \in DOMAIN packet, Get(p) PROVE CountInv'
<1>1. packet \in Seq(Packet) /\ packet[p] \in Packet /\ reg \in 0..Len(collector)
      /\ Len(collector) \in Nat
  BY DEF CountInv, UplinkTypes
<1>2. UNCHANGED <<filters, statsVars, countVars, dropped>>
  BY DEF Get
<1>3. collector' = collector
  BY <1>2 DEF statsVars
<1>4. packet' \in Seq(Packet) /\ \A r \in DOMAIN packet' : PacketOK(r)'
  <2>1. ASSUME NEW to \in {"export", "count"}, to = "count" => packet[p].frames # <<>>,
               packet' = [packet EXCEPT ![p].pc = to, ![p].conn = reg]
        PROVE  packet' \in Seq(Packet) /\ \A r \in DOMAIN packet' : PacketOK(r)'
    <3> DEFINE q == [pc |-> to, frames |-> packet[p].frames, conn |-> reg]
    <3>1. q \in Packet /\ q.conn = reg /\ q.pc = to /\ q.frames = packet[p].frames
      BY <1>1 DEF Packet
    <3>2. packet' = [packet EXCEPT ![p] = q]
      <4>1. [packet[p] EXCEPT !.pc = to, !.conn = reg] = q
        BY <1>1, PacketRecord
      <4> QED
        BY <2>1, <4>1
    <3> HIDE DEF q
    <3>3. q.conn <= Len(collector) /\ (q.pc = "count" => q.frames # <<>>)
          /\ Len(collector') = Len(collector)
      BY <1>1, <1>3, <2>1, <3>1
    <3> QED
      BY <3>1, <3>2, <3>3, PacketStep DEF CountInv
  <2> QED
    BY <2>1 DEF Get
<1>5. UplinkTypes'
  BY <1>2, <1>4 DEF CountInv, UplinkTypes, statsVars, countVars
<1> QED
  BY <1>2, <1>3, <1>5, CountSame DEF CountInv

\* A collector changes.
LEMMA CollectorStep ==
    ASSUME CountInv, NEW c \in 1..Len(collector), NEW e \in Collector, AddsUp(e),
           collector' = [collector EXCEPT ![c] = e]
    PROVE  /\ collector' \in Seq(Collector) /\ Len(collector') = Len(collector)
           /\ \A d \in DOMAIN collector' : AddsUp(collector'[d])
           /\ Rx(collector') + collector[c].rxCount = Rx(collector) + e.rxCount
           /\ Tx(collector') + collector[c].txCount = Tx(collector) + e.txCount
           /\ Rx(collector') \in Nat /\ Tx(collector') \in Nat
           /\ Rx(collector) \in Nat /\ Tx(collector) \in Nat
           /\ collector[c].rxCount \in Nat /\ collector[c].txCount \in Nat
<1>1. collector \in Seq(Collector) /\ collector[c] \in Collector
  BY DEF CountInv, UplinkTypes
<1>2. /\ collector' \in Seq(Collector) /\ Len(collector') = Len(collector)
      /\ DOMAIN collector' = DOMAIN collector
      /\ \A d \in DOMAIN collector : collector'[d] = IF d = c THEN e ELSE collector[d]
  BY <1>1
<1>3. \A d \in DOMAIN collector' : AddsUp(collector'[d])
  BY <1>2, CountedOnceIs DEF CountInv
<1>4. /\ Rx(collector') + collector[c].rxCount = Rx(collector) + e.rxCount
      /\ Tx(collector') + collector[c].txCount = Tx(collector) + e.txCount
  BY <1>1, TotalsExcept
<1>5. /\ Rx(collector') \in Nat /\ Tx(collector') \in Nat
      /\ Rx(collector) \in Nat /\ Tx(collector) \in Nat
  BY <1>1, <1>2, TotalsType
<1>6. collector[c].rxCount \in Nat /\ collector[c].txCount \in Nat
  BY <1>1 DEF Collector
<1> QED
  BY <1>2, <1>3, <1>4, <1>5, <1>6

LEMMA HistoryFacts ==
    ASSUME CountInv
    PROVE  /\ exported.rx \in Nat /\ exported.tx \in Nat
           /\ unregistered.rx \in Nat /\ unregistered.tx \in Nat
           /\ counted.rx \in Nat /\ counted.tx \in Nat
           /\ Rx(collector) \in Nat /\ Tx(collector) \in Nat
           /\ counted.rx = exported.rx + Rx(collector) + unregistered.rx
           /\ counted.tx = exported.tx + Tx(collector) + unregistered.tx
<1>1. /\ counted.rx = exported.rx + Rx(collector) + unregistered.rx
      /\ counted.tx = exported.tx + Tx(collector) + unregistered.tx
  BY CountedOnceIs DEF CountInv
<1>2. Rx(collector) \in Nat /\ Tx(collector) \in Nat
  BY TotalsType DEF CountInv, UplinkTypes
<1> QED
  BY <1>1, <1>2 DEF CountInv, UplinkTypes

\* An export moves what the collector has to the history.
LEMMA CountStats == ASSUME CountInv, NEW p \in DOMAIN packet, handleStats(p) PROVE CountInv'
<1> DEFINE c == packet[p].conn
           q == [pc |-> "frames", frames |-> packet[p].frames, conn |-> c]
<1>1. /\ exported.rx \in Nat /\ exported.tx \in Nat /\ unregistered.rx \in Nat
         /\ unregistered.tx \in Nat
      /\ counted.rx \in Nat /\ counted.tx \in Nat /\ Rx(collector) \in Nat /\ Tx(collector) \in Nat
      /\ counted.rx = exported.rx + Rx(collector) + unregistered.rx
      /\ counted.tx = exported.tx + Tx(collector) + unregistered.tx
  BY HistoryFacts
<1>2. /\ packet[p] \in Packet /\ collector \in Seq(Collector)
      /\ c \in 0..Len(collector) /\ exported \in [rx : Nat, tx : Nat]
  BY PacketFacts DEF CountInv, UplinkTypes
<1>3. /\ UNCHANGED <<filters, reg, generation, counted, unregistered, dropped>>
      /\ packet' = [packet EXCEPT ![p] = q]
      /\ c = 0 => UNCHANGED <<collector, exported>>
      /\ c # 0 => /\ exported' = [rx |-> exported.rx + collector[c].rxCount,
                                  tx |-> exported.tx + collector[c].txCount]
                  /\ collector' = [collector EXCEPT ![c] = Empty]
  <2>1. [packet[p] EXCEPT !.pc = "frames"] = q
    BY <1>2, PacketRecord
  <2> QED
    BY <2>1 DEF handleStats, reset
<1>4. q \in Packet /\ q.conn = c /\ q.pc # "count"
  BY <1>2 DEF Packet
<1> HIDE DEF q, c
<1>5. ASSUME Len(collector') = Len(collector)
      PROVE  packet' \in Seq(Packet) /\ \A r \in DOMAIN packet' : PacketOK(r)'
  <2>1. q.conn <= Len(collector)
    BY <1>2, <1>4
  <2> QED
    BY <1>3, <1>4, <1>5, <2>1, PacketStep DEF CountInv
<1>6. CASE c = 0
  <2>1. UplinkTypes'
    BY <1>3, <1>5, <1>6 DEF CountInv, UplinkTypes
  <2> QED
    BY <1>3, <1>6, <2>1, CountSame DEF CountInv, countVars
<1>7. CASE c # 0
  <2>1. c \in 1..Len(collector) /\ collector' = [collector EXCEPT ![c] = Empty]
    BY <1>2, <1>3, <1>7
  <2>2. Empty \in Collector /\ AddsUp(Empty) /\ Empty.rxCount = 0 /\ Empty.txCount = 0
    BY EmptyAddsUp DEF Empty
  <2>3. /\ collector' \in Seq(Collector) /\ Len(collector') = Len(collector)
        /\ \A d \in DOMAIN collector' : AddsUp(collector'[d])
    BY <2>1, <2>2, CollectorStep
  <2>4. /\ Rx(collector') + collector[c].rxCount = Rx(collector) + Empty.rxCount
        /\ Tx(collector') + collector[c].txCount = Tx(collector) + Empty.txCount
        /\ Rx(collector') \in Nat /\ Tx(collector') \in Nat
        /\ collector[c].rxCount \in Nat /\ collector[c].txCount \in Nat
    BY <2>1, <2>2, CollectorStep
  <2>5. /\ Rx(collector') + collector[c].rxCount = Rx(collector)
        /\ Tx(collector') + collector[c].txCount = Tx(collector)
    BY <1>1, <2>2, <2>4
  <2>6. /\ exported'.rx = exported.rx + collector[c].rxCount
        /\ exported'.tx = exported.tx + collector[c].txCount
        /\ exported' \in [rx : Nat, tx : Nat]
        /\ counted' = counted /\ unregistered' = unregistered
    BY <1>2, <1>3, <1>7, <2>4
  <2>7. UplinkTypes'
    BY <1>3, <1>5, <2>3, <2>6 DEF CountInv, UplinkTypes
  <2>8. /\ counted'.rx = exported'.rx + Rx(collector') + unregistered'.rx
        /\ counted'.tx = exported'.tx + Tx(collector') + unregistered'.tx
    BY <1>1, <2>4, <2>5, <2>6
  <2>9. CountedOnce'
    BY <2>3, <2>8 DEF CountedOnce, Rx, Tx
  <2> QED
    BY <2>7, <2>9 DEF CountInv
<1> QED
  BY <1>6, <1>7

\* A frame is counted in the collector that was found for it, also if that one is
\* not registered any more.
LEMMA CountFrame == ASSUME CountInv, NEW p \in DOMAIN packet, handleUplinkFrames(p) PROVE CountInv'
<1> DEFINE c == packet[p].conn
           frame == Head(packet[p].frames)
           q == [pc |-> "frames", frames |-> Tail(packet[p].frames), conn |-> c]
<1>1. /\ exported.rx \in Nat /\ exported.tx \in Nat /\ unregistered.rx \in Nat
         /\ unregistered.tx \in Nat
      /\ counted.rx \in Nat /\ counted.tx \in Nat /\ Rx(collector) \in Nat /\ Tx(collector) \in Nat
      /\ counted.rx = exported.rx + Rx(collector) + unregistered.rx
      /\ counted.tx = exported.tx + Tx(collector) + unregistered.tx
  BY HistoryFacts
<1>2. /\ packet[p] \in Packet /\ collector \in Seq(Collector)
      /\ c \in 0..Len(collector) /\ packet[p].frames # <<>> /\ packet[p].frames \in Seq(Frame)
      /\ counted \in [rx : Nat, tx : Nat] /\ unregistered \in [rx : Nat, tx : Nat]
  BY PacketFacts, PacketRecord DEF CountInv, UplinkTypes, PacketOK, handleUplinkFrames
<1>3. /\ UNCHANGED <<filters, reg, generation, exported>>
      /\ packet' = [packet EXCEPT ![p] = q]
      /\ counted' = [counted EXCEPT !.rx = @ + 1]
      /\ c = 0 => collector' = collector /\ unregistered' = [unregistered EXCEPT !.rx = @ + 1]
      /\ c # 0 => /\ collector' = [collector EXCEPT ![c] = CountUplink(collector[c], frame)]
                  /\ unregistered' = unregistered
  <2>1. [packet[p] EXCEPT !.pc = "frames", !.frames = Tail(packet[p].frames)] = q
    <3>1. \A x, f : [packet[p] EXCEPT !.pc = x, !.frames = f] = [pc |-> x, frames |-> f, conn |-> c]
      BY <1>2, PacketRecord
    <3> QED
      BY <3>1
  <2> QED
    BY <2>1 DEF handleUplinkFrames
<1>4. q \in Packet /\ q.conn = c /\ q.pc # "count" /\ frame \in Frame
  BY <1>2 DEF Packet
<1> HIDE DEF q, c, frame
<1>5. ASSUME Len(collector') = Len(collector)
      PROVE  packet' \in Seq(Packet) /\ \A r \in DOMAIN packet' : PacketOK(r)'
  <2>1. q.conn <= Len(collector)
    BY <1>2, <1>4
  <2> QED
    BY <1>3, <1>4, <1>5, <2>1, PacketStep DEF CountInv
<1>6. /\ counted' \in [rx : Nat, tx : Nat] /\ counted'.rx = counted.rx + 1
         /\ counted'.tx = counted.tx
      /\ c = 0 => /\ unregistered' \in [rx : Nat, tx : Nat]
                  /\ unregistered'.rx = unregistered.rx + 1 /\ unregistered'.tx = unregistered.tx
  BY <1>2, <1>3
<1>7. CASE c = 0
  <2>1. UplinkTypes'
    BY <1>3, <1>5, <1>6, <1>7 DEF CountInv, UplinkTypes
  <2>2. /\ counted'.rx = exported'.rx + Rx(collector) + unregistered'.rx
        /\ counted'.tx = exported'.tx + Tx(collector) + unregistered'.tx
    BY <1>1, <1>3, <1>6, <1>7
  <2>3. CountedOnce'
    BY <1>3, <1>7, <2>2, CountedOnceIs DEF CountInv, CountedOnce, Rx, Tx
  <2> QED
    BY <2>1, <2>3 DEF CountInv
<1>8. CASE c # 0
  <2> DEFINE e == CountUplink(collector[c], frame)
  <2>1. c \in 1..Len(collector) /\ collector' = [collector EXCEPT ![c] = e]
        /\ unregistered' = unregistered
    BY <1>2, <1>3, <1>8
  <2>2. e \in Collector /\ AddsUp(e) /\ e.rxCount = collector[c].rxCount + 1
        /\ e.txCount = collector[c].txCount
    <3>1. collector[c] \in Collector /\ AddsUp(collector[c])
      BY <1>2, <2>1, CountedOnceIs DEF CountInv
    <3> QED
      BY <1>4, <3>1, CountUplinkAddsUp
  <2> HIDE DEF e
  <2>3. /\ collector' \in Seq(Collector) /\ Len(collector') = Len(collector)
        /\ \A d \in DOMAIN collector' : AddsUp(collector'[d])
    BY <2>1, <2>2, CollectorStep
  <2>4. /\ Rx(collector') + collector[c].rxCount = Rx(collector) + e.rxCount
        /\ Tx(collector') + collector[c].txCount = Tx(collector) + e.txCount
        /\ Rx(collector') \in Nat /\ Tx(collector') \in Nat
        /\ collector[c].rxCount \in Nat /\ collector[c].txCount \in Nat
    BY <2>1, <2>2, CollectorStep
  <2>5. e.rxCount = collector[c].rxCount + 1 /\ e.txCount = collector[c].txCount + 0
    BY <2>2, <2>4
  <2>6. UplinkTypes'
    BY <1>3, <1>5, <1>6, <2>1, <2>3 DEF CountInv, UplinkTypes
  <2>7. Rx(collector') = Rx(collector) + 1 /\ Tx(collector') = Tx(collector)
    BY <1>1, <2>4, <2>5
  <2>8. /\ counted'.rx = exported'.rx + Rx(collector') + unregistered'.rx
        /\ counted'.tx = exported'.tx + Tx(collector') + unregistered'.tx
    <3>1. /\ exported'.rx = exported.rx /\ unregistered'.rx = unregistered.rx
          /\ exported'.tx = exported.tx /\ unregistered'.tx = unregistered.tx
      BY <1>3, <2>1
    <3>2. /\ counted'.rx = exported.rx + (Rx(collector) + 1) + unregistered.rx
          /\ counted'.tx = exported.tx + Tx(collector) + unregistered.tx
      BY <1>1, <1>6
    <3> QED
      BY <2>7, <3>1, <3>2
  <2>9. CountedOnce'
    BY <2>3, <2>8 DEF CountedOnce, Rx, Tx
  <2> QED
    BY <2>6, <2>9 DEF CountInv
<1> QED
  BY <1>7, <1>8

LEMMA CountAcknowledge ==
    ASSUME CountInv, NEW items \in TxItems, NEW statuses \in Transmitted,
           Acknowledge(items, statuses)
    PROVE  CountInv'
<1>1. /\ exported.rx \in Nat /\ exported.tx \in Nat /\ unregistered.rx \in Nat
         /\ unregistered.tx \in Nat
      /\ counted.rx \in Nat /\ counted.tx \in Nat /\ Rx(collector) \in Nat /\ Tx(collector) \in Nat
      /\ counted.rx = exported.rx + Rx(collector) + unregistered.rx
      /\ counted.tx = exported.tx + Tx(collector) + unregistered.tx
  BY HistoryFacts
<1>2. /\ collector \in Seq(Collector) /\ reg \in 0..Len(collector)
      /\ counted \in [rx : Nat, tx : Nat] /\ unregistered \in [rx : Nat, tx : Nat]
  BY DEF CountInv, UplinkTypes
<1>3. /\ UNCHANGED <<filters, reg, generation, packet, exported, dropped>>
      /\ counted' = [counted EXCEPT !.tx = @ + 1]
      /\ reg = 0 => collector' = collector /\ unregistered' = [unregistered EXCEPT !.tx = @ + 1]
      /\ reg # 0 =>
            /\ collector' = [collector EXCEPT ![reg] = CountDownlink(collector[reg], items, statuses)]
            /\ unregistered' = unregistered
  BY DEF Acknowledge
<1>4. /\ counted' \in [rx : Nat, tx : Nat] /\ counted'.tx = counted.tx + 1
         /\ counted'.rx = counted.rx
      /\ reg = 0 => /\ unregistered' \in [rx : Nat, tx : Nat]
                    /\ unregistered'.tx = unregistered.tx + 1 /\ unregistered'.rx = unregistered.rx
  BY <1>2, <1>3
<1>5. CASE reg = 0
  <2>1. UplinkTypes'
    BY <1>3, <1>4, <1>5 DEF CountInv, UplinkTypes, PacketOK
  <2>2. /\ counted'.rx = exported'.rx + Rx(collector) + unregistered'.rx
        /\ counted'.tx = exported'.tx + Tx(collector) + unregistered'.tx
    BY <1>3, <1>4, <1>5, <1>1
  <2>3. CountedOnce'
    BY <1>3, <1>5, <2>2, CountedOnceIs DEF CountInv, CountedOnce, Rx, Tx
  <2> QED
    BY <2>1, <2>3 DEF CountInv
<1>6. CASE reg # 0
  <2> DEFINE e == CountDownlink(collector[reg], items, statuses)
  <2>1. reg \in 1..Len(collector) /\ collector' = [collector EXCEPT ![reg] = e]
        /\ unregistered' = unregistered
    BY <1>2, <1>3, <1>6
  <2>2. e \in Collector /\ AddsUp(e) /\ e.rxCount = collector[reg].rxCount
        /\ e.txCount = collector[reg].txCount + 1
    <3>1. collector[reg] \in Collector /\ AddsUp(collector[reg])
      BY <1>2, <2>1, CountedOnceIs DEF CountInv
    <3> QED
      BY <3>1, CountDownlinkAddsUp
  <2> HIDE DEF e
  <2>3. /\ collector' \in Seq(Collector) /\ Len(collector') = Len(collector)
        /\ \A d \in DOMAIN collector' : AddsUp(collector'[d])
    BY <2>1, <2>2, CollectorStep
  <2>4. /\ Rx(collector') + collector[reg].rxCount = Rx(collector) + e.rxCount
        /\ Tx(collector') + collector[reg].txCount = Tx(collector) + e.txCount
        /\ Rx(collector') \in Nat /\ Tx(collector') \in Nat
        /\ collector[reg].rxCount \in Nat /\ collector[reg].txCount \in Nat
    BY <2>1, <2>2, CollectorStep
  <2>5. e.rxCount = collector[reg].rxCount + 0 /\ e.txCount = collector[reg].txCount + 1
    BY <2>2, <2>4
  <2>6. UplinkTypes'
    BY <1>3, <1>4, <2>1, <2>3 DEF CountInv, UplinkTypes, PacketOK
  <2>7. Rx(collector') = Rx(collector) /\ Tx(collector') = Tx(collector) + 1
    <3>1. Rx(collector') = Rx(collector)
      BY <1>1, <2>4, <2>5
    <3>2. Tx(collector') = Tx(collector) + 1
      BY <1>1, <2>4, <2>5
    <3> QED
      BY <3>1, <3>2
  <2>8. /\ counted'.rx = exported'.rx + Rx(collector') + unregistered'.rx
        /\ counted'.tx = exported'.tx + Tx(collector') + unregistered'.tx
    <3>1. /\ exported'.rx = exported.rx /\ unregistered'.rx = unregistered.rx
          /\ exported'.tx = exported.tx /\ unregistered'.tx = unregistered.tx
      BY <1>3, <2>1
    <3>2. /\ counted'.rx = exported.rx + Rx(collector) + unregistered.rx
          /\ counted'.tx = exported.tx + (Tx(collector) + 1) + unregistered.tx
      BY <1>1, <1>4
    <3> QED
      BY <2>7, <3>1, <3>2
  <2>9. CountedOnce'
    BY <2>3, <2>8 DEF CountedOnce, Rx, Tx
  <2> QED
    BY <2>6, <2>9 DEF CountInv
<1> QED
  BY <1>5, <1>6

LEMMA CountStep == ASSUME CountInv, [UplinkNext]_uplinkVars PROVE CountInv'
<1>1. CASE UNCHANGED uplinkVars
  <2>1. UplinkTypes'
    BY <1>1 DEF CountInv, UplinkTypes, PacketOK, uplinkVars, statsVars, countVars
  <2> QED
    BY <1>1, <2>1, CountSame DEF CountInv, uplinkVars, statsVars
<1> QED
  BY <1>1, CountSet, CountCleanup, CountPush, CountGet, CountStats, CountFrame, CountAcknowledge
     DEF UplinkNext

\* Concurrent packets, statistics and acknowledgements count every uplink and every
\* transmitted downlink once, and all counters of a collector tell the same, for
\* every set of frequencies, every packet and every sequence of registrations.
THEOREM EveryFrameCountedOnce == UplinkSpec => []CountedOnce
<1>1. CountInv => CountedOnce
  BY DEF CountInv
<1> QED
  BY <1>1, CountInit, CountStep, PTL DEF UplinkSpec
=============================================================================
