----------------------------- MODULE UplinkPath -----------------------------
(* What happens to the uplinks of a gateway in the Semtech UDP backend: the  *)
(* filters (filters.go) decide which frames are handed to the integration,   *)
(* and the statistics collector (stats.go) counts them for the gateway's     *)
(* next statistics message.  Packets are handled concurrently, while the     *)
(* gateway may be removed from the registry and return with a new collector. *)
(*                                                                           *)
(* A frame is reduced to what the filters and the collector look at.  A      *)
(* DevAddr holds only a part of the NetID; here the NetID modulo NwkIDs.     *)
EXTENDS Naturals, Sequences, FiniteSets, FiniteSetsExt, SequencesExt

CONSTANTS
    Freq, Mod,     \* frequencies and modulations
    Device,        \* devices: NetID and JoinEUI
    NwkIDs,        \* number of NwkIDs that a DevAddr tells apart
    FilterConfig,  \* filter configurations: NetIDs and ranges of JoinEUIs
    SkipCRC,       \* skip_crc_check
    PushPackets,   \* PUSH_DATA packets: the received frames they report
    TxItems,       \* items of downlinks
    MaxPackets,    \* bound: PUSH_DATA packets
    MaxAcks        \* bound: acknowledged downlinks

ASSUME UplinkConstants ==
    /\ IsFiniteSet(Freq) /\ IsFiniteSet(Mod)
    /\ Device \subseteq [netID : Nat, joinEUI : Nat]
    /\ NwkIDs \in Nat \ {0}
    /\ FilterConfig \subseteq [netIDs : SUBSET Nat, joinEUIs : SUBSET (Nat \X Nat)]
    /\ TxItems \subseteq [1..2 -> [freq : Freq, mod : Mod]]
    /\ SkipCRC \in BOOLEAN /\ MaxPackets \in Nat /\ MaxAcks \in Nat

VARIABLES
    filters,     \* netIDs and joinEUIs of filters.go
    reg,         \* the collector of the registered gateway, or 0
    generation,  \* collectors made so far
    collector,   \* the collectors
    packet,      \* goroutines of handlePacket, by number
    exported,    \* history: what all statistics messages reported
    counted,     \* history: frames handled and downlinks acknowledged
    unregistered,\* history: the part of them for which there was no collector
    dropped      \* history: frames the filters refused

statsVars == <<reg, generation, collector>>
countVars == <<exported, counted, unregistered>>
uplinkVars == <<filters, statsVars, packet, countVars, dropped>>

----------------------------------------------------------------------------
(* Statistics collector *)

TxStatus == {"OK", "TOO_LATE", "IGNORED"}

Empty == [rxCount |-> 0, txCount |-> 0,
          rxPerFreqCount |-> [f \in Freq |-> 0], txPerFreqCount |-> [f \in Freq |-> 0],
          rxPerModulationCount |-> [m \in Mod |-> 0], txPerModulationCount |-> [m \in Mod |-> 0],
          txStatusCount |-> [s \in TxStatus |-> 0]]

CountUplink(c, frame) ==
    [c EXCEPT !.rxCount = @ + 1,
              !.rxPerFreqCount[frame.freq] = @ + 1,
              !.rxPerModulationCount[frame.mod] = @ + 1]

\* One item of an acknowledgement, with the item of the downlink at its index.
CountItem(c, item, status) ==
    LET tagged == [c EXCEPT !.txStatusCount[status] = @ + 1] IN
    IF status = "OK"
    THEN [tagged EXCEPT !.txCount = @ + 1,
                        !.txPerFreqCount[item.freq] = @ + 1,
                        !.txPerModulationCount[item.mod] = @ + 1]
    ELSE tagged

\* Items that were not tried are not counted.
CountDownlink(c, items, statuses) ==
    LET used == {i \in DOMAIN statuses : statuses[i] # "IGNORED"} IN
    FoldSet(LAMBDA i, acc : CountItem(acc, items[i], statuses[i]), c, used)

\* Bug: rxCount survives the export.
reset_KeepsRx(c) == [Empty EXCEPT !.rxCount = c.rxCount]

reset(c) == Empty

----------------------------------------------------------------------------
(* Filters *)

\* lorawan.DevAddr.IsNetID: the address holds the NwkID of the NetID.
NwkID(netID) == netID % NwkIDs
IsNetID(devAddr, netID) == devAddr = NwkID(netID)

matchNetIDFilter(netID) == filters.netIDs = {} \/ netID \in filters.netIDs

matchNetIDFilterForDevAddr(devAddr) ==
    filters.netIDs = {} \/ \E n \in filters.netIDs : IsNetID(devAddr, n)

\* Bug: the end of a range does not belong to it.
matchJoinEUIFilter_Open(joinEUI) ==
    \/ filters.joinEUIs = {}
    \/ \E r \in filters.joinEUIs : joinEUI >= r[1] /\ joinEUI < r[2]

matchJoinEUIFilter(joinEUI) ==
    \/ filters.joinEUIs = {}
    \/ \E r \in filters.joinEUIs : joinEUI >= r[1] /\ joinEUI <= r[2]

\* By message type; frames that cannot be decoded, proprietary frames and
\* rejoin-requests of an unknown type pass.
MatchFilters(phy) ==
    CASE phy.mtype = "data" -> matchNetIDFilterForDevAddr(phy.devAddr)
      [] phy.mtype = "join" -> matchJoinEUIFilter(phy.joinEUI)
      [] phy.mtype = "rejoin02" -> matchNetIDFilter(phy.netID)
      [] phy.mtype = "rejoin1" -> matchJoinEUIFilter(phy.joinEUI)
      [] OTHER -> TRUE

\* The frames of a device: what the radio sends.
Frames(d) ==
    {[mtype |-> "data", devAddr |-> NwkID(d.netID)], [mtype |-> "join", joinEUI |-> d.joinEUI],
     [mtype |-> "rejoin02", netID |-> d.netID], [mtype |-> "rejoin1", joinEUI |-> d.joinEUI]}

Noise == [mtype |-> "undecodable"]

Phy == UNION {Frames(d) : d \in Device} \cup {Noise}

\* An entry of the "rxpk" array: the frame, the antennas that received it, the
\* CRC status, and whether its data rate can be parsed.
RXPK == [frame : [freq : Freq, mod : Mod, phy : Phy], antennas : Nat \ {0}, crcOk : BOOLEAN,
         parses : BOOLEAN]

ASSUME PushConstants == PushPackets \subseteq Seq(RXPK)

----------------------------------------------------------------------------
(* The backend *)

UplinkInit ==
    /\ filters \in FilterConfig
    /\ reg = 0 /\ generation = 0 /\ collector = <<>>
    /\ packet = <<>>
    /\ exported = [rx |-> 0, tx |-> 0]
    /\ counted = [rx |-> 0, tx |-> 0]
    /\ unregistered = [rx |-> 0, tx |-> 0]
    /\ dropped = {}

\* gateways.set for PULL_DATA: a gateway that is new gets a collector.
Set ==
    /\ reg = 0
    /\ generation < 2
    /\ generation' = generation + 1
    /\ reg' = generation'
    /\ collector' = Append(collector, Empty)
    /\ UNCHANGED <<filters, packet, countVars, dropped>>

\* registry.cleanup: the gateway was silent for too long.
cleanup ==
    /\ reg # 0
    /\ reg' = 0
    /\ UNCHANGED <<filters, generation, collector, packet, countVars, dropped>>

\* GetUplinkFrames: frames with a bad CRC are left out, and a frame that several
\* antennas received is reported for each; one data rate that cannot be parsed
\* costs all frames of the packet.
GetUplinkFrames(rxpks) ==
    LET used(i) == rxpks[i].crcOk \/ SkipCRC IN
    IF \E i \in DOMAIN rxpks : used(i) /\ ~rxpks[i].parses THEN <<>>
    ELSE FlattenSeq([i \in DOMAIN rxpks |->
             [a \in 1..(IF used(i) THEN rxpks[i].antennas ELSE 0) |-> rxpks[i].frame]])

\* readPackets starts a goroutine for a PUSH_DATA packet with frames, with
\* statistics or with both; handlePushData sends statistics first.
handlePushData(rxpks, stat) ==
    /\ Len(packet) < MaxPackets
    /\ packet' = Append(packet, [pc |-> IF stat THEN "stats" ELSE "frames",
                                 frames |-> GetUplinkFrames(rxpks), conn |-> 0])
    /\ UNCHANGED <<filters, statsVars, countVars, dropped>>

\* gateways.get, before statistics and before every frame.
Get(p) ==
    /\ \/ /\ packet[p].pc = "stats"
          /\ packet' = [packet EXCEPT ![p].pc = "export", ![p].conn = reg]
       \/ /\ packet[p].pc = "frames" /\ packet[p].frames # <<>>
          /\ packet' = [packet EXCEPT ![p].pc = "count", ![p].conn = reg]
    /\ UNCHANGED <<filters, statsVars, countVars, dropped>>

\* handleStats: what the collector has counted goes into the message and is
\* reset in one step (ExportStats).
handleStats(p) ==
    LET c == packet[p].conn IN
    /\ packet[p].pc = "export"
    /\ packet' = [packet EXCEPT ![p].pc = "frames"]
    /\ IF c = 0 THEN UNCHANGED <<collector, exported>>
       ELSE /\ exported' = [rx |-> exported.rx + collector[c].rxCount,
                            tx |-> exported.tx + collector[c].txCount]
            /\ collector' = [collector EXCEPT ![c] = reset(@)]
    /\ UNCHANGED <<filters, reg, generation, counted, unregistered, dropped>>

\* handleUplinkFrames: count the frame in the collector that was found, then
\* filter it.
handleUplinkFrames(p) ==
    LET frame == Head(packet[p].frames)
        c == packet[p].conn IN
    /\ packet[p].pc = "count"
    /\ packet' = [packet EXCEPT ![p].pc = "frames", ![p].frames = Tail(@)]
    /\ collector' = IF c = 0 THEN collector
                    ELSE [collector EXCEPT ![c] = CountUplink(@, frame)]
    /\ counted' = [counted EXCEPT !.rx = @ + 1]
    /\ unregistered' = IF c = 0 THEN [unregistered EXCEPT !.rx = @ + 1] ELSE unregistered
    /\ dropped' = IF MatchFilters(frame.phy) THEN dropped ELSE dropped \cup {frame.phy}
    /\ UNCHANGED <<filters, reg, generation, exported>>

\* The end of handleTXACK: a transmitted downlink is counted.
Acknowledge(items, statuses) ==
    /\ counted.tx < MaxAcks
    /\ counted' = [counted EXCEPT !.tx = @ + 1]
    /\ collector' = IF reg = 0 THEN collector
                    ELSE [collector EXCEPT ![reg] = CountDownlink(@, items, statuses)]
    /\ unregistered' = IF reg = 0 THEN [unregistered EXCEPT !.tx = @ + 1] ELSE unregistered
    /\ UNCHANGED <<filters, reg, generation, packet, exported, dropped>>

\* A downlink of two items is transmitted with one of them.
Transmitted == {<<"OK", "IGNORED">>, <<"TOO_LATE", "OK">>}

UplinkNext ==
    \/ Set
    \/ cleanup
    \/ \E rxpks \in PushPackets, stat \in BOOLEAN : handlePushData(rxpks, stat)
    \/ \E p \in DOMAIN packet : Get(p) \/ handleStats(p) \/ handleUplinkFrames(p)
    \/ \E items \in TxItems, statuses \in Transmitted : Acknowledge(items, statuses)

UplinkSpec == UplinkInit /\ [][UplinkNext]_uplinkVars

----------------------------------------------------------------------------
(* Properties *)

Sum(f) == MapThenSumSet(LAMBDA x : f[x], DOMAIN f)

\* The total of a collector agrees with its counters per frequency, per
\* modulation and per status.
AddsUp(s) ==
    /\ s.rxCount = Sum(s.rxPerFreqCount) /\ s.rxCount = Sum(s.rxPerModulationCount)
    /\ s.txCount = Sum(s.txPerFreqCount) /\ s.txCount = Sum(s.txPerModulationCount)
    /\ s.txCount = s.txStatusCount["OK"] /\ s.txStatusCount["IGNORED"] = 0

\* Every uplink and every transmitted downlink is reported at most once, and not
\* at all only while the gateway is not registered or if its collector has been
\* replaced: concurrent packets and statistics lose and repeat nothing.  And all
\* counters of a collector tell the same.
CountedOnce ==
    /\ counted.rx = exported.rx + Sum([c \in DOMAIN collector |-> collector[c].rxCount])
                    + unregistered.rx
    /\ counted.tx = exported.tx + Sum([c \in DOMAIN collector |-> collector[c].txCount])
                    + unregistered.tx
    /\ \A c \in DOMAIN collector : AddsUp(collector[c])

Covered(d) ==
    /\ filters.netIDs = {} \/ d.netID \in filters.netIDs
    /\ filters.joinEUIs = {} \/ \E r \in filters.joinEUIs : d.joinEUI \in r[1]..r[2]

\* No frame of a device that the configured filters cover is dropped, nor one
\* that is not a LoRaWAN frame.
CoveredPasses ==
    /\ Noise \notin dropped
    /\ \A d \in Device : Covered(d) => Frames(d) \cap dropped = {}
=============================================================================
