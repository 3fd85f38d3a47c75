----------------------------- MODULE HostProofs -----------------------------
(* The parts of the bridge that work on the host of one gateway.  The use of *)
(* commandMux and of the two sockets by the concentratord backend, for every *)
(* number of commands and every sequence of faults; the rounds of the        *)
(* meta-data that is added to the statistics, for every set of keys; and the *)
(* arguments of the programs that are run, for every list of words.          *)
EXTENDS Concentratord, Commands, SequenceTheorems, WellFoundedInduction, TLAPS

----------------------------------------------------------------------------
(* The inductive invariant *)

Types ==
    /\ eventSock \in Sock /\ commandSock \in Sock
    /\ commandMux \in Call \cup {Loop, Free}
    /\ loop \in Starting \cup {"recv", "lock", "dialEvent", "dialCommand"}
    /\ call \in [Call -> {"idle", "lock", "send", "recv", "done", "error"}]
    /\ faults \in 0..MaxFaults
    /\ daemon \in BOOLEAN /\ broken \in BOOLEAN /\ exited \in BOOLEAN

\* The holder of commandMux is the one call between Send and Recv, or the loop
\* while it dials.
Mutex ==
    /\ \A c \in Call : call[c] \in {"send", "recv"} <=> commandMux = c
    /\ commandMux = Loop <=> loop \in {"dialEvent", "dialCommand"}

\* No call before there is a command socket.
Fresh == loop \in {"startEvent", "startCommand"} => \A c \in Call : call[c] = "idle"

\* There is one request or one reply at most, and its caller waits.
Outstanding ==
    /\ \A c \in inbox : c \in Call /\ call[c] = "recv"
    /\ \/ replies = <<>>
       \/ /\ inbox = {}
          /\ \E c \in Call, e \in BOOLEAN :
                call[c] = "recv" /\ replies = <<[to |-> c, empty |-> e]>>

\* A command socket that is not open lost its connection, unless the loop is
\* replacing it.
SockJustified ==
    /\ commandSock = "broken" => broken
    /\ commandSock = "none" =>
          commandMux = Loop \/ loop \in {"startEvent", "startCommand"} \/ broken

\* Bandwidths in kHz lose nothing.
HeardWhole ==
    /\ \A k \in heard : k * 1000 \in Bandwidth
    /\ sentHz \in [Downlink -> Bandwidth \cup {0}]

SockInv == Mutex /\ Fresh /\ Outstanding /\ SockJustified /\ AckIsOwn /\ ExitIsJustified

ConcentratordInv == Types /\ SockInv /\ HeardWhole

LEMMA ConcentratordInvInit == ConcentratordInit => ConcentratordInv
<1> SUFFICES ASSUME ConcentratordInit PROVE ConcentratordInv
  OBVIOUS
<1> USE ConcentratordConstants DEF ConcentratordInit
<1>1. Types
  <2>1. daemon \in BOOLEAN /\ broken \in BOOLEAN /\ exited \in BOOLEAN
    BY Zenon
  <2> QED
    BY <2>1 DEF Types, Sock, Starting
<1>2. Mutex /\ Fresh /\ SockJustified
  BY DEF Mutex, Fresh, SockJustified
<1>3. ExitIsJustified
  <2>1. \A c \in Call : call[c] # "error"
    OBVIOUS
  <2> QED
    BY <2>1, Zenon DEF ExitIsJustified
<1>4. Outstanding /\ AckIsOwn
  BY DEF Outstanding, AckIsOwn
<1>5. HeardWhole
  BY DEF HeardWhole
<1> QED
  BY <1>1, <1>2, <1>3, <1>4, <1>5 DEF ConcentratordInv, SockInv

----------------------------------------------------------------------------
(* Types *)

LEMMA TypesStep ==
    ASSUME Types, [ConcentratordNext]_concentratordVars
    PROVE  Types'
<1> USE ConcentratordConstants DEF Types, Sock, Starting, envVars, sockVars
<1>1. CASE Start
  BY <1>1 DEF Start, dialEventSock, dialCommandSock, Call
<1>2. CASE RecvFails \/ Recover
  BY <1>2 DEF RecvFails, Recover
<1>3. CASE dialEventSockLoop \/ dialCommandSockLoop
  BY <1>3 DEF dialEventSockLoop, dialCommandSockLoop, dialEventSock, dialCommandSock
<1>4. ASSUME NEW c \in Call, commandRequest(c) PROVE Types'
  BY <1>4 DEF commandRequest, Lock, Send, Recv, Fails
<1>5. ASSUME NEW c \in Call, Fatal(c) PROVE Types'
  BY <1>5 DEF Fatal
<1>6. CASE DaemonStops \/ DaemonStarts \/ ConnectionLost
  <2>1. broken' \in BOOLEAN /\ daemon' \in BOOLEAN
    BY <1>6, Zenon DEF DaemonStops, DaemonStarts, ConnectionLost
  <2> QED
    BY <1>6, <2>1 DEF DaemonStops, DaemonStarts, ConnectionLost, Gone
<1>7. ASSUME NEW c \in Call, NEW empty \in BOOLEAN, DaemonReplies(c, empty) PROVE Types'
  BY <1>7 DEF DaemonReplies
<1>8. ASSUME NEW event \in Event, HandleEvent(event) PROVE Types'
  BY <1>8 DEF HandleEvent
<1>9. ASSUME NEW d \in Downlink, SendDownlinkFrame(d) PROVE Types'
  BY <1>9 DEF SendDownlinkFrame, Call
<1>10. ASSUME NEW c \in Config, ApplyConfiguration(c) PROVE Types'
  BY <1>10 DEF ApplyConfiguration, Call
<1>11. CASE UNCHANGED concentratordVars
  BY <1>11 DEF concentratordVars
<1> QED
  BY <1>1, <1>2, <1>3, <1>4, <1>5, <1>6, <1>7, <1>8, <1>9, <1>10, <1>11
     DEF ConcentratordNext, BackendStep, DaemonStep

----------------------------------------------------------------------------
(* The sockets and commandMux *)

\* The steps of commandRequest.
LEMMA RequestStep ==
    ASSUME Types, SockInv, NEW c \in Call, commandRequest(c)
    PROVE  SockInv'
<1> USE ConcentratordConstants DEF Types, Sock, Starting, SockInv, commandRequest, envVars, sockVars
<1>1. CASE Lock(c)
  BY <1>1 DEF Lock, Mutex, Fresh, Outstanding, SockJustified, AckIsOwn, ExitIsJustified
<1>2. CASE Send(c)
  <2>1. inbox = {} /\ replies = <<>>
    BY <1>2 DEF Send, Mutex, Outstanding
  <2>2. Mutex' /\ Fresh'
    BY <1>2 DEF Send, Mutex, Fresh
  <2>3. Outstanding'
    BY <1>2, <2>1 DEF Send, Outstanding
  <2>4. SockJustified' /\ AckIsOwn' /\ ExitIsJustified'
    BY <1>2 DEF Send, SockJustified, AckIsOwn, ExitIsJustified
  <2> QED
    BY <2>2, <2>3, <2>4
<1>3. CASE Recv(c)
  <2>1. inbox = {} /\ \E e \in BOOLEAN : replies = <<[to |-> c, empty |-> e]>>
    BY <1>3 DEF Recv, Mutex, Outstanding
  <2>2. replies' = <<>> /\ Head(replies).to = c
    BY <1>3, <2>1 DEF Recv
  <2>3. Mutex' /\ Fresh'
    BY <1>3 DEF Recv, Mutex, Fresh
  <2>4. Outstanding'
    BY <1>3, <2>1, <2>2 DEF Recv, Outstanding
  <2>5. AckIsOwn'
    BY <1>3, <2>2 DEF Recv, AckIsOwn
  <2>6. SockJustified' /\ ExitIsJustified'
    BY <1>3 DEF Recv, SockJustified, ExitIsJustified, Mutex
  <2> QED
    BY <2>3, <2>4, <2>5, <2>6
<1>4. CASE Fails(c)
  <2>1. commandMux = c /\ loop \notin {"startEvent", "startCommand"}
    BY <1>4 DEF Fails, Mutex, Fresh
  <2>2. broken
    BY <1>4, <2>1 DEF Fails, SockJustified
  <2>3. Mutex' /\ Fresh' /\ Outstanding'
    BY <1>4, <2>1 DEF Fails, Mutex, Fresh, Outstanding
  <2>4. SockJustified' /\ AckIsOwn' /\ ExitIsJustified'
    BY <1>4, <2>2 DEF Fails, SockJustified, AckIsOwn, ExitIsJustified
  <2> QED
    BY <2>3, <2>4
<1> QED
  BY <1>1, <1>2, <1>3, <1>4

LEMMA SockStep ==
    ASSUME Types, SockInv, [ConcentratordNext]_concentratordVars
    PROVE  SockInv'
<1> USE ConcentratordConstants DEF Types, Sock, Starting, SockInv, Mutex, Fresh, Outstanding,
        SockJustified, AckIsOwn, ExitIsJustified, envVars, sockVars
<1>1. CASE Start
  BY <1>1 DEF Start, dialEventSock, dialCommandSock, Call
<1>2. CASE RecvFails \/ Recover
  BY <1>2 DEF RecvFails, Recover
<1>3. CASE dialEventSockLoop \/ dialCommandSockLoop
  BY <1>3 DEF dialEventSockLoop, dialCommandSockLoop, dialEventSock, dialCommandSock
<1>4. ASSUME NEW c \in Call, Fatal(c) PROVE SockInv'
  BY <1>4 DEF Fatal
<1>5. CASE DaemonStops \/ DaemonStarts \/ ConnectionLost
  BY <1>5 DEF DaemonStops, DaemonStarts, ConnectionLost, Gone
<1>6. ASSUME NEW c \in Call, NEW empty \in BOOLEAN, DaemonReplies(c, empty) PROVE SockInv'
  <2>1. inbox = {c} /\ replies = <<>> /\ call[c] = "recv"
    BY <1>6 DEF DaemonReplies
  <2>2. inbox' = {} /\ replies' = <<[to |-> c, empty |-> empty]>>
    BY <1>6, <2>1 DEF DaemonReplies
  <2> QED
    BY <1>6, <2>1, <2>2 DEF DaemonReplies
<1>7. ASSUME NEW event \in Event, HandleEvent(event) PROVE SockInv'
  BY <1>7 DEF HandleEvent
<1>8. ASSUME NEW d \in Downlink, SendDownlinkFrame(d) PROVE SockInv'
  BY <1>8 DEF SendDownlinkFrame, Call
<1>9. ASSUME NEW c \in Config, ApplyConfiguration(c) PROVE SockInv'
  BY <1>9 DEF ApplyConfiguration, Call
<1>10. CASE UNCHANGED concentratordVars
  BY <1>10 DEF concentratordVars
<1> QED
  BY <1>1, <1>2, <1>3, <1>4, <1>5, <1>6, <1>7, <1>8, <1>9, <1>10, RequestStep
     DEF ConcentratordNext, BackendStep, DaemonStep

----------------------------------------------------------------------------
(* The bandwidths *)

LEMMA BandwidthStep ==
    ASSUME HeardWhole, [ConcentratordNext]_concentratordVars
    PROVE  HeardWhole'
<1>1. ASSUME UNCHANGED <<heard, sentHz>> PROVE HeardWhole'
  BY <1>1 DEF HeardWhole
<1>2. ASSUME NEW event \in Event, HandleEvent(event) PROVE HeardWhole'
  <2>1. event.hz \in Bandwidth /\ event.hz \in Nat /\ event.hz % 1000 = 0
    BY ConcentratordConstants DEF Event
  <2>2. (event.hz \div 1000) * 1000 = event.hz
    BY <2>1
  <2> QED
    BY <1>2, <2>1, <2>2 DEF HeardWhole, HandleEvent, handleUplinkFrame, handleGatewayStats
<1>3. ASSUME NEW d \in Downlink, SendDownlinkFrame(d) PROVE HeardWhole'
  BY <1>3 DEF SendDownlinkFrame, HeardWhole
<1>4. ASSUME BackendStep \/ DaemonStep PROVE UNCHANGED <<heard, sentHz>>
  BY <1>4 DEF BackendStep, DaemonStep, Start, RecvFails, Recover, dialEventSockLoop,
     dialCommandSockLoop, commandRequest, Fatal, DaemonStops, DaemonStarts, ConnectionLost,
     DaemonReplies
<1>5. ASSUME NEW c \in Config, ApplyConfiguration(c) PROVE UNCHANGED <<heard, sentHz>>
  BY <1>5 DEF ApplyConfiguration
<1> QED
  BY <1>1, <1>2, <1>3, <1>4, <1>5 DEF ConcentratordNext, concentratordVars

LEMMA ConcentratordInvStep ==
    ConcentratordInv /\ [ConcentratordNext]_concentratordVars => ConcentratordInv'
BY TypesStep, SockStep, BandwidthStep DEF ConcentratordInv

----------------------------------------------------------------------------
(* The theorems *)

\* The invariant holds in every reachable state.
THEOREM ConcentratordInvariant == ConcentratordSpec => []ConcentratordInv
BY ConcentratordInvInit, ConcentratordInvStep, PTL DEF ConcentratordSpec

\* The types, and no request or reply without a caller that waits in
\* commandRequest.
THEOREM ConcentratordType == ConcentratordSpec => []ConcentratordTypeOK
<1>1. ConcentratordInv => ConcentratordTypeOK
  <2> SUFFICES ASSUME ConcentratordInv PROVE ConcentratordTypeOK
    OBVIOUS
  <2>1. \A i \in DOMAIN replies : call[replies[i].to] = "recv"
    BY DEF ConcentratordInv, SockInv, Outstanding
  <2> QED
    BY <2>1 DEF ConcentratordInv, Types, SockInv, Outstanding, ConcentratordTypeOK
<1> QED
  BY <1>1, ConcentratordInvariant, PTL

\* The acknowledgement of a downlink is the reply to this downlink, however many
\* commands run at once and whenever the loop replaces the socket.
THEOREM AckOwn == ConcentratordSpec => []AckIsOwn
<1>1. ConcentratordInv => AckIsOwn
  BY DEF ConcentratordInv, SockInv
<1> QED
  BY <1>1, ConcentratordInvariant, PTL

\* No command ends the program because of the recovery of the event socket.
THEOREM ExitJustified == ConcentratordSpec => []ExitIsJustified
<1>1. ConcentratordInv => ExitIsJustified
  BY DEF ConcentratordInv, SockInv
<1> QED
  BY <1>1, ConcentratordInvariant, PTL

\* The conversions of the bandwidth on the uplink and the downlink path cancel
\* out for all bandwidths that are multiples of 1 kHz.
THEOREM BandwidthIsKept == ConcentratordSpec => []BandwidthKept
<1>1. ConcentratordInv => BandwidthKept
  BY DEF ConcentratordInv, HeardWhole, BandwidthKept
<1> QED
  BY <1>1, ConcentratordInvariant, PTL
----------------------------------------------------------------------------
(* The meta-data of statistics messages *)

\* The maps that runCommands may make.
Key == MetaCommand \X (Row \cup {"-"})
MetaMap == UNION {[keys -> Nat] : keys \in SUBSET Key}

\* What round i left behind; a message that is made before the first round has
\* ended has no meta-data.
Result(i) == IF i = 0 THEN <<>> ELSE complete[i]

\* The maps of the rounds that have ended are published and stay as they are; one
\* more is under construction while a round is under way.
RoundsInv ==
    /\ maps \in Seq(MetaMap) /\ complete \in Seq(MetaMap)
    /\ round \in [pc : {"run", "sleep"}, todo : SUBSET MetaCommand, number : Nat]
    /\ Len(maps) = Len(complete) + (IF round.pc = "run" THEN 1 ELSE 0)
    /\ cached = Len(complete)
    /\ \A i \in 1..Len(maps) : Static \subseteq DOMAIN maps[i]
    /\ \A i \in 1..Len(complete) : complete[i] = maps[i]

\* A message has copied a part of one map, or all of it.
CopyOf(m) ==
    /\ DOMAIN m = {"pc", "map", "data", "since"}
    /\ m.since \in 0..Len(complete) /\ m.map = m.since
    /\ m.data \in [DOMAIN m.data -> Nat]
    /\ DOMAIN m.data \subseteq DOMAIN Result(m.since)
    /\ \A k \in DOMAIN m.data : m.data[k] = Result(m.since)[k]
    /\ m.pc = "published" => DOMAIN m.data = DOMAIN Result(m.since)

MessagesInv ==
    /\ DOMAIN message = Stats
    /\ \A s \in Stats : message[s].pc = "idle" \/ CopyOf(message[s])

MetaInv == RoundsInv /\ MessagesInv

LEMMA MetaMapFacts ==
    /\ \A m : m \in MetaMap <=> m \in [DOMAIN m -> Nat] /\ DOMAIN m \subseteq Key
    /\ StaticMap \in MetaMap /\ DOMAIN StaticMap = Static
<1>1. \A m : m \in MetaMap <=> m \in [DOMAIN m -> Nat] /\ DOMAIN m \subseteq Key
  BY DEF MetaMap
<1>2. StaticMap \in [Static -> Nat] /\ DOMAIN StaticMap = Static
  BY DEF StaticMap
<1>3. Static \subseteq Key
  BY CommandsConstants DEF Key
<1> QED
  BY <1>1, <1>2, <1>3

LEMMA MetaInvInit == CommandsInit => MetaInv
<1> SUFFICES ASSUME CommandsInit PROVE MetaInv
  OBVIOUS
<1>1. /\ maps = <<StaticMap>> /\ complete = <<>> /\ cached = 0
      /\ round = [pc |-> "run", todo |-> MetaCommand, number |-> 1]
      /\ message = [s \in Stats |-> [pc |-> "idle"]]
  BY DEF CommandsInit
<1>2. maps \in Seq(MetaMap) /\ Len(maps) = 1 /\ maps[1] = StaticMap
  BY <1>1, MetaMapFacts
<1>3. complete \in Seq(MetaMap) /\ Len(complete) = 0
  BY <1>1
<1>4. RoundsInv
  BY <1>1, <1>2, <1>3, MetaMapFacts DEF RoundsInv
<1>5. MessagesInv
  BY <1>1 DEF MessagesInv
<1> QED
  BY <1>4, <1>5 DEF MetaInv

\* What a command adds to the map under construction.
LEMMA UpdatedMap ==
    ASSUME RoundsInv, NEW m \in MetaMap, NEW k \in MetaCommand, NEW keys \in Output(k)
    PROVE  Updated(m, keys) \in MetaMap /\ DOMAIN m \subseteq DOMAIN Updated(m, keys)
<1>1. keys \subseteq Key
  BY DEF Output, Key
<1>2. m \in [DOMAIN m -> Nat] /\ DOMAIN m \subseteq Key
  BY MetaMapFacts
<1>3. round.number \in Nat
  BY DEF RoundsInv
<1>4. /\ DOMAIN Updated(m, keys) = DOMAIN m \cup keys
      /\ Updated(m, keys) \in [DOMAIN m \cup keys -> Nat]
  BY <1>2, <1>3 DEF Updated
<1> QED
  BY <1>1, <1>2, <1>4, MetaMapFacts

\* The loop of Setup.
LEMMA RoundsStep ==
    ASSUME RoundsInv,
           \/ runCommands
           \/ \E k \in MetaCommand : \E keys \in Output(k) : runCommand(k, keys)
           \/ Publish
    PROVE  /\ RoundsInv' /\ message' = message
           /\ Len(complete') >= Len(complete)
           /\ \A i \in 1..Len(complete) : complete'[i] = complete[i]
<1>0. Len(maps) \in Nat /\ Len(complete) \in Nat
  BY DEF RoundsInv
<1>1. CASE runCommands
  <2>1. /\ maps' = Append(maps, StaticMap) /\ round.pc = "sleep" /\ UNCHANGED <<cached, complete, message>>
        /\ round' = [pc |-> "run", todo |-> MetaCommand, number |-> round.number + 1]
    BY <1>1 DEF runCommands
  <2>2. /\ maps' \in Seq(MetaMap) /\ Len(maps') = Len(maps) + 1
        /\ \A i \in 1..Len(maps) : maps'[i] = maps[i]
        /\ maps'[Len(maps) + 1] = StaticMap
    BY <2>1, MetaMapFacts, AppendProperties DEF RoundsInv
  <2>3. ASSUME NEW i \in 1..Len(maps') PROVE Static \subseteq DOMAIN maps'[i]
    <3>1. CASE i = Len(maps) + 1
      BY <2>2, <3>1, MetaMapFacts
    <3>2. CASE i # Len(maps) + 1
      <4>1. i \in 1..Len(maps)
        BY <1>0, <2>2, <3>2
      <4> QED
        BY <2>2, <4>1 DEF RoundsInv
    <3> QED
      BY <3>1, <3>2
  <2> QED
    BY <1>0, <2>1, <2>2, <2>3 DEF RoundsInv
<1>2. ASSUME NEW k \in MetaCommand, NEW keys \in Output(k), runCommand(k, keys)
      PROVE  /\ RoundsInv' /\ message' = message /\ complete' = complete
  <2>1. /\ maps' = [maps EXCEPT ![Len(maps)] = Updated(maps[Len(maps)], keys)]
        /\ round.pc = "run" /\ round' = [round EXCEPT !.todo = @ \ {k}]
        /\ UNCHANGED <<cached, complete, message>>
    BY <1>2 DEF runCommand
  <2>2. Len(maps) \in 1..Len(maps) /\ Len(maps) = Len(complete) + 1
    BY <1>0, <2>1 DEF RoundsInv
  <2>3. maps[Len(maps)] \in MetaMap
    BY <2>2 DEF RoundsInv
  <2>4. /\ Updated(maps[Len(maps)], keys) \in MetaMap
        /\ DOMAIN maps[Len(maps)] \subseteq DOMAIN Updated(maps[Len(maps)], keys)
    BY <2>3, UpdatedMap
  <2>5. /\ maps' \in Seq(MetaMap) /\ Len(maps') = Len(maps)
        /\ \A i \in 1..Len(maps) :
              maps'[i] = IF i = Len(maps) THEN Updated(maps[Len(maps)], keys) ELSE maps[i]
    BY <2>1, <2>2, <2>4, ExceptSeq DEF RoundsInv
  <2>6. \A i \in 1..Len(maps') : Static \subseteq DOMAIN maps'[i]
    BY <2>4, <2>5 DEF RoundsInv
  <2>7. \A i \in 1..Len(complete) : complete[i] = maps'[i]
    BY <1>0, <2>2, <2>5 DEF RoundsInv
  <2>8. /\ round' \in [pc : {"run", "sleep"}, todo : SUBSET MetaCommand, number : Nat]
        /\ round'.pc = "run"
    BY <2>1 DEF RoundsInv
  <2> QED
    BY <2>1, <2>2, <2>5, <2>6, <2>7, <2>8 DEF RoundsInv
<1>3. CASE Publish
  <2>1. /\ cached' = Len(maps) /\ complete' = Append(complete, maps[Len(maps)])
        /\ round.pc = "run" /\ round' = [round EXCEPT !.pc = "sleep"] /\ UNCHANGED <<maps, message>>
    BY <1>3 DEF Publish, Last
  <2>2. Len(maps) \in 1..Len(maps) /\ Len(maps) = Len(complete) + 1
    BY <1>0, <2>1 DEF RoundsInv
  <2>3. maps[Len(maps)] \in MetaMap
    BY <2>2 DEF RoundsInv
  <2>4. /\ complete' \in Seq(MetaMap) /\ Len(complete') = Len(complete) + 1
        /\ \A i \in 1..Len(complete) : complete'[i] = complete[i]
        /\ complete'[Len(complete) + 1] = maps[Len(maps)]
    BY <2>1, <2>3, AppendProperties DEF RoundsInv
  <2>5. \A i \in 1..Len(complete') : complete'[i] = maps[i]
    BY <1>0, <2>2, <2>4 DEF RoundsInv
  <2> QED
    BY <1>0, <2>1, <2>2, <2>4, <2>5 DEF RoundsInv
<1> QED
  BY <1>0, <1>1, <1>2, <1>3

\* Get and the copying of entries.
LEMMA MessageStep ==
    ASSUME MetaInv, NEW s \in Stats, Get(s) \/ CopyEntry(s)
    PROVE  MessagesInv' /\ UNCHANGED <<maps, cached, round, complete>>
<1>0. UNCHANGED <<maps, cached, round, complete>>
  BY DEF Get, CopyEntry
<1>1. Len(complete) \in Nat /\ complete' = complete
  BY <1>0 DEF MetaInv, RoundsInv
<1>2. \A m : CopyOf(m) => CopyOf(m)'
  BY <1>1 DEF CopyOf, Result
<1>3. ASSUME NEW m, message' = [message EXCEPT ![s] = m], CopyOf(m) PROVE MessagesInv'
  BY <1>2, <1>3 DEF MetaInv, MessagesInv
<1>4. CASE Get(s)
  <2>1. message' = [message EXCEPT ![s] =
            [pc |-> "copy", map |-> cached, data |-> <<>>, since |-> Len(complete)]]
    BY <1>4 DEF Get
  <2>2. cached = Len(complete) /\ DOMAIN <<>> = {} /\ <<>> \in [{} -> Nat]
    BY DEF MetaInv, RoundsInv
  <2>3. CopyOf([pc |-> "copy", map |-> cached, data |-> <<>>, since |-> Len(complete)])
    BY <1>1, <2>2 DEF CopyOf
  <2> QED
    BY <1>0, <1>3, <2>1, <2>3
<1>5. CASE CopyEntry(s)
  <2> DEFINE m == IF message[s].map = 0 THEN <<>> ELSE maps[message[s].map]
             left == DOMAIN m \ DOMAIN message[s].data
  <2>1. message[s].pc = "copy" /\ CopyOf(message[s])
    BY <1>5 DEF CopyEntry, MetaInv, MessagesInv
  <2>2. m = Result(message[s].since)
    BY <1>1, <2>1 DEF CopyOf, Result, MetaInv, RoundsInv
  <2>3. DOMAIN message = Stats /\ DOMAIN message[s] = {"pc", "map", "data", "since"}
    BY <2>1 DEF MetaInv, MessagesInv, CopyOf
  <2>4. CASE left = {}
    <3>1. message' = [message EXCEPT ![s] = [message[s] EXCEPT !.pc = "published"]]
      BY <1>5, <2>4 DEF CopyEntry
    <3>2. CopyOf([message[s] EXCEPT !.pc = "published"])
      BY <2>1, <2>2, <2>3, <2>4 DEF CopyOf
    <3> QED
      BY <1>0, <1>3, <3>1, <3>2
  <2>5. ASSUME left # {} PROVE MessagesInv'
    <3>1. PICK k \in left :
              message' = [message EXCEPT ![s] = [message[s] EXCEPT !.data =
                  [x \in DOMAIN message[s].data \cup {k} |->
                      IF x = k THEN m[k] ELSE message[s].data[x]]]]
      BY <1>5, <2>5 DEF CopyEntry
    <3> DEFINE e == [x \in DOMAIN message[s].data \cup {k} |->
                        IF x = k THEN m[k] ELSE message[s].data[x]]
    <3>2. m[k] \in Nat
      <4>1. m \in MetaMap
        BY <1>1, <2>1, <3>1 DEF CopyOf, MetaInv, RoundsInv
      <4> QED
        BY <3>1, <4>1, MetaMapFacts
    <3>3. /\ DOMAIN e = DOMAIN message[s].data \cup {k}
          /\ e \in [DOMAIN e -> Nat] /\ DOMAIN e \subseteq DOMAIN m
          /\ \A x \in DOMAIN e : e[x] = m[x]
      BY <2>1, <2>2, <3>1, <3>2 DEF CopyOf
    <3>4. CopyOf([message[s] EXCEPT !.data = e])
      <4> HIDE DEF e, m
      <4>1. /\ DOMAIN [message[s] EXCEPT !.data = e] = {"pc", "map", "data", "since"}
            /\ [message[s] EXCEPT !.data = e].pc = "copy"
            /\ [message[s] EXCEPT !.data = e].map = message[s].map
            /\ [message[s] EXCEPT !.data = e].since = message[s].since
            /\ [message[s] EXCEPT !.data = e].data = e
        BY <2>1, <2>3
      <4> QED
        BY <2>1, <2>2, <3>3, <4>1 DEF CopyOf
    <3> QED
      BY <1>3, <3>1, <3>4
  <2> QED
    BY <1>0, <2>4, <2>5
<1> QED
  BY <1>0, <1>4, <1>5

LEMMA MetaInvStep == MetaInv /\ [ExecNext \/ MetaNext]_commandsVars => MetaInv'
<1> SUFFICES ASSUME MetaInv, [ExecNext \/ MetaNext]_commandsVars PROVE MetaInv'
  OBVIOUS
<1>1. CASE UNCHANGED metaVars
  BY <1>1 DEF metaVars, MetaInv, RoundsInv, MessagesInv, CopyOf, Result
<1>2. CASE \/ runCommands
           \/ \E k \in MetaCommand : \E keys \in Output(k) : runCommand(k, keys)
           \/ Publish
  <2>1. /\ RoundsInv' /\ message' = message /\ Len(complete') >= Len(complete)
        /\ \A i \in 1..Len(complete) : complete'[i] = complete[i]
    BY <1>2, RoundsStep DEF MetaInv
  <2>2. Len(complete) \in Nat /\ Len(complete') \in Nat
    BY <2>1 DEF MetaInv, RoundsInv
  <2>3. ASSUME NEW m, CopyOf(m) PROVE CopyOf(m)'
    <3>1. m.since \in 0..Len(complete) /\ m.since \in 0..Len(complete')
      <4>1. m.since \in 0..Len(complete)
        BY <2>3 DEF CopyOf
      <4> QED
        BY <2>1, <2>2, <4>1
    <3>2. Result(m.since)' = Result(m.since)
      BY <2>1, <2>2, <3>1 DEF Result
    <3> QED
      BY <2>3, <3>1, <3>2 DEF CopyOf
  <2> QED
    BY <2>1, <2>3 DEF MetaInv, MessagesInv
<1>3. ASSUME NEW s \in Stats, Get(s) \/ CopyEntry(s) PROVE MetaInv'
  BY <1>3, MessageStep DEF MetaInv, RoundsInv
<1>4. ExecNext => UNCHANGED metaVars
  BY DEF ExecNext, Execute, ProgramEnds, Deadline, ReadAll, executeCommand
<1> QED
  BY <1>1, <1>2, <1>3, <1>4 DEF MetaNext, commandsVars

\* The meta-data of a statistics message are those of the round that was the last
\* complete one when the message was made, although gatewayStatsFunc copies the
\* map of the cache without the mutex; the static ones are never lost.
THEOREM MetadataOfOneRound == CommandsSpec => []OneRound
<1>1. MetaInv => OneRound
  <2> SUFFICES ASSUME MetaInv PROVE OneRound
    OBVIOUS
  <2>1. ASSUME NEW s \in Stats, message[s].pc = "published"
        PROVE  message[s].data = Result(message[s].since)
    <3> DEFINE r == Result(message[s].since)
               f == message[s].data
    <3>1. /\ f \in [DOMAIN f -> Nat] /\ DOMAIN f = DOMAIN r
          /\ \A k \in DOMAIN f : f[k] = r[k]
      BY <2>1 DEF MetaInv, MessagesInv, CopyOf
    <3>2. r \in [DOMAIN r -> Nat]
      <4>1. <<>> \in [DOMAIN <<>> -> Nat]
        OBVIOUS
      <4>2. \A i \in 1..Len(complete) : complete[i] \in MetaMap
        BY DEF MetaInv, RoundsInv
      <4>3. message[s].since \in 0..Len(complete) /\ Len(complete) \in Nat
        BY <2>1 DEF MetaInv, MessagesInv, CopyOf, RoundsInv
      <4> QED
        BY <4>1, <4>2, <4>3, MetaMapFacts DEF Result
    <3> HIDE DEF f, r
    <3>3. f = r
      BY <3>1, <3>2
    <3> QED
      BY <3>3 DEF f, r
  <2>2. \A i \in DOMAIN complete : Static \subseteq DOMAIN complete[i]
    BY DEF MetaInv, RoundsInv
  <2> QED
    BY <2>1, <2>2 DEF OneRound, Result
<1> QED
  BY <1>1, MetaInvInit, MetaInvStep, PTL DEF CommandsSpec

----------------------------------------------------------------------------
(* ParseCommandLine *)

\* STRING, with those characters that the parser names (which the provers do not know
\* to be strings).
Character == STRING \cup Special

\* A set of naturals that has 0 and the successors of its elements has them all.
LEMMA SetInduction ==
    ASSUME NEW T \in SUBSET Nat, 0 \in T, \A n \in T : n + 1 \in T
    PROVE  T = Nat
<1> DEFINE R == {ss \in Nat \X Nat : ss[1] < ss[2]}
<1> SUFFICES ASSUME Nat \ T # {} PROVE FALSE
  OBVIOUS
<1>1. IsWellFoundedOn(R, Nat)
  BY NatLessThanWellFounded DEF OpToRel
<1>2. PICK n \in Nat \ T : \A m \in Nat \ T : ~ (<<m, n>> \in R)
  <2> HIDE DEF R
  <2>1. Nat \ T \subseteq Nat
    OBVIOUS
  <2> QED
    BY <1>1, <2>1, WFMin
<1>3. \A m \in Nat : m < n => <<m, n>> \in R
  OBVIOUS
<1>4. n # 0 /\ n - 1 \in Nat /\ n - 1 < n
  BY <1>2
<1>5. n - 1 \in T
  BY <1>2, <1>3, <1>4
<1> QED
  BY <1>2, <1>4, <1>5

AtFirst == [args |-> <<>>, state |-> "start", current |-> <<>>, quote |-> "\"", escapeNext |-> TRUE]

\* The recursion that defines the fold, for the sets of places up to n.
FoldOf(g, n, line) ==
    g = [s \in SUBSET (1..n) |-> IF s = {} THEN AtFirst ELSE ParseChar(g[s \ {Max(s)}], line[Max(s)])]

LEMMA FoldDef ==
    ASSUME NEW line
    PROVE  FoldLeft(ParseChar, AtFirst, line) =
              (CHOOSE g : g = [s \in SUBSET DOMAIN line |->
                    IF s = {} THEN AtFirst ELSE ParseChar(g[s \ {Max(s)}], line[Max(s)])])[DOMAIN line]
BY DEF FoldLeft, MapThenFoldSet

\* A set of places that is not empty has a greatest element.
LEMMA MaxIsGreatest ==
    ASSUME NEW n \in Nat, NEW s \in SUBSET (1..n), s # {}
    PROVE  Max(s) \in s /\ \A x \in s : x <= Max(s)
<1> DEFINE T == {k \in Nat : \A t \in SUBSET (1..k) : t # {} => \E x \in t : \A y \in t : x >= y}
<1>1. 0 \in T
  <2>1. 1..0 = {}
    OBVIOUS
  <2> QED
    BY <2>1
<1>2. ASSUME NEW k \in T PROVE k + 1 \in T
  <2> SUFFICES ASSUME NEW t \in SUBSET (1..(k + 1)), t # {} PROVE \E x \in t : \A y \in t : x >= y
    OBVIOUS
  <2>1. CASE k + 1 \in t
    BY <2>1
  <2>2. CASE k + 1 \notin t
    <3>1. t \in SUBSET (1..k)
      BY <2>2
    <3> QED
      BY <3>1
  <2> QED
    BY <2>1, <2>2
<1>3. T = Nat
  <2> HIDE DEF T
  <2>1. T \in SUBSET Nat
    BY DEF T
  <2> QED
    BY <1>1, <1>2, <2>1, SetInduction
<1>4. \E x \in s : \A y \in s : x >= y
  BY <1>3
<1>5. Max(s) \in s /\ \A y \in s : Max(s) >= y
  BY <1>4 DEF Max
<1> QED
  BY <1>5

LEMMA FoldExists ==
    ASSUME NEW line, NEW n \in Nat PROVE \E g : FoldOf(g, n, line)
<1> DEFINE T == {k \in Nat : \E g : FoldOf(g, k, line)}
<1>1. 0 \in T
  <2>1. \A s \in SUBSET (1..0) : s = {}
    OBVIOUS
  <2>2. FoldOf([s \in SUBSET (1..0) |-> AtFirst], 0, line)
    BY <2>1 DEF FoldOf
  <2> QED
    BY <2>2
<1>2. ASSUME NEW k \in T PROVE k + 1 \in T
  <2>1. PICK g : FoldOf(g, k, line)
    OBVIOUS
  <2> DEFINE h == [s \in SUBSET (1..(k + 1)) |->
                     IF s = {} THEN AtFirst ELSE ParseChar(g[s \ {Max(s)}], line[Max(s)])]
  <2>2. k \in Nat /\ SUBSET (1..k) \subseteq SUBSET (1..(k + 1))
    OBVIOUS
  <2>3. \A s \in SUBSET (1..k) : h[s] = g[s]
    BY <2>1, <2>2 DEF FoldOf
  <2>4. ASSUME NEW s \in SUBSET (1..(k + 1)), s # {} PROVE h[s \ {Max(s)}] = g[s \ {Max(s)}]
    <3>1. k + 1 \in Nat
      BY <2>2
    <3>2. Max(s) \in s /\ \A x \in s : x <= Max(s)
      BY <2>4, <3>1, MaxIsGreatest
    <3>3. ASSUME NEW x \in s \ {Max(s)} PROVE x \in 1..k
      <4>1. x \in 1..(k + 1) /\ Max(s) \in 1..(k + 1) /\ x <= Max(s) /\ x # Max(s)
        BY <3>2
      <4> QED
        BY <2>2, <4>1
    <3>4. s \ {Max(s)} \in SUBSET (1..k)
      BY <3>3
    <3> QED
      BY <2>3, <3>4
  <2>5. FoldOf(h, k + 1, line)
    BY <2>4 DEF FoldOf
  <2> QED
    BY <2>5
<1>3. T = Nat
  <2> HIDE DEF T
  <2>1. T \in SUBSET Nat
    BY DEF T
  <2> QED
    BY <1>1, <1>2, <2>1, SetInduction
<1> QED
  BY <1>3

\* The states that the parser passes through.
Reads(st, line) ==
    /\ st[0] = AtFirst
    /\ \A k \in 1..Len(line) : st[k] = ParseChar(st[k - 1], line[k])

LEMMA ParseReads ==
    ASSUME NEW line \in Seq(Character)
    PROVE  \E st : /\ Reads(st, line)
                   /\ FoldLeft(ParseChar, AtFirst, line) = st[Len(line)]
<1> DEFINE n == Len(line)
           g == CHOOSE g : FoldOf(g, n, line)
           st == [k \in 0..n |-> g[1..k]]
<1>1. n \in Nat /\ DOMAIN line = 1..n
  OBVIOUS
<1>2. FoldOf(g, n, line)
  BY <1>1, FoldExists
<1>3. FoldLeft(ParseChar, AtFirst, line) = g[1..n]
  BY <1>1, FoldDef DEF FoldOf
<1> HIDE DEF g
<1>4. \A s \in SUBSET (1..n) : g[s] = IF s = {} THEN AtFirst ELSE ParseChar(g[s \ {Max(s)}], line[Max(s)])
  BY <1>2 DEF FoldOf
<1>5. st[0] = AtFirst
  <2>1. 1..0 = {} /\ {} \in SUBSET (1..n) /\ 0 \in 0..n
    BY <1>1
  <2> QED
    BY <1>4, <2>1
<1>6. ASSUME NEW k \in 1..n PROVE st[k] = ParseChar(st[k - 1], line[k])
  <2>1. 1..k \in SUBSET (1..n) /\ 1..k # {} /\ k \in 0..n /\ k - 1 \in 0..n /\ k \in Nat
    <3> HIDE DEF n
    <3>1. k \in Nat /\ k \in 0..n /\ k - 1 \in 0..n /\ k \in 1..k
      BY <1>1
    <3>2. \A x \in 1..k : x \in 1..n
      BY <1>1
    <3> QED
      BY <3>1, <3>2
  <2>2. Max(1..k) = k
    <3>1. 1..k \in SUBSET (1..k)
      OBVIOUS
    <3>2. Max(1..k) \in 1..k /\ \A x \in 1..k : x <= Max(1..k)
      BY <2>1, <3>1, MaxIsGreatest
    <3> QED
      BY <2>1, <3>2
  <2>3. (1..k) \ {k} = 1..(k - 1)
    BY <2>1
  <2>4. g[1..k] = ParseChar(g[1..(k - 1)], line[k])
    BY <1>4, <2>1, <2>2, <2>3
  <2> QED
    BY <2>1, <2>4
<1>7. Reads(st, line)
  BY <1>5, <1>6 DEF Reads
<1>8. st[n] = g[1..n]
  BY <1>1
<1> QED
  BY <1>3, <1>7, <1>8

\* The states after the first character.
Reading(args, state, current, quote) ==
    [args |-> args, state |-> state, current |-> current, quote |-> quote, escapeNext |-> FALSE]

LEMMA CharFirst == ASSUME NEW x PROVE ParseChar(AtFirst, x) = Reading(<<>>, "start", <<x>>, "\"")
<1>1. Append(<<>>, x) = <<x>>
  OBVIOUS
<1> QED
  BY <1>1 DEF ParseChar, AtFirst, Reading

LEMMA CharPlain ==
    ASSUME NEW a, NEW c, NEW q, NEW x, x \notin Special, NEW s \in {"start", "arg"}
    PROVE  ParseChar(Reading(a, s, c, q), x) = Reading(a, "arg", Append(c, x), q)
<1>1. x # Backslash /\ x \notin Quote /\ x \notin Blank
  BY DEF Special
<1> QED
  BY <1>1 DEF ParseChar, Reading

LEMMA CharBlankAfter ==
    ASSUME NEW a, NEW c, NEW q
    PROVE  ParseChar(Reading(a, "arg", c, q), " ") = Reading(Append(a, c), "start", <<>>, q)
<1>1. " " # Backslash /\ " " \notin Quote /\ " " \in Blank
  BY DEF Backslash, Quote, Blank
<1> QED
  BY <1>1 DEF ParseChar, Reading

LEMMA CharBlankBefore ==
    ASSUME NEW a, NEW c, NEW q
    PROVE  ParseChar(Reading(a, "start", c, q), " ") = Reading(a, "start", c, q)
<1>1. " " # Backslash /\ " " \notin Quote /\ " " \in Blank
  BY DEF Backslash, Quote, Blank
<1> QED
  BY <1>1 DEF ParseChar, Reading

LEMMA CharQuote ==
    ASSUME NEW a, NEW c, NEW q, NEW x \in Quote
    PROVE  ParseChar(Reading(a, "start", c, q), x) = Reading(a, "quotes", c, x)
<1>1. x # Backslash
  BY DEF Backslash, Quote
<1> QED
  BY <1>1 DEF ParseChar, Reading

LEMMA CharInQuotes ==
    ASSUME NEW a, NEW c, NEW q, NEW x, x # q
    PROVE  ParseChar(Reading(a, "quotes", c, q), x) = Reading(a, "quotes", Append(c, x), q)
BY DEF ParseChar, Reading

LEMMA CharEndQuote ==
    ASSUME NEW a, NEW c, NEW q
    PROVE  ParseChar(Reading(a, "quotes", c, q), q) = Reading(Append(a, c), "start", <<>>, q)
BY DEF ParseChar, Reading

LEMMA PrefixGrows ==
    ASSUME NEW S, NEW w \in Seq(S), NEW j \in 0..(Len(w) - 1)
    PROVE  Append(SubSeq(w, 1, j), w[j + 1]) = SubSeq(w, 1, j + 1)
OBVIOUS

LEMMA PrefixAll ==
    ASSUME NEW S, NEW w \in Seq(S) PROVE SubSeq(w, 1, Len(w)) = w /\ SubSeq(w, 1, 0) = <<>>
OBVIOUS

\* A word stands in the line after a place.
Spelled(w, line, at) == at + Len(w) <= Len(line) /\ \A j \in 1..Len(w) : line[at + j] = w[j]

\* From a place on, the characters of a word mean nothing.
PlainFrom(w, k) == \A j \in k..Len(w) : w[j] \notin Special

\* Such characters become part of the word.
LEMMA WalkPlain ==
    ASSUME NEW st, NEW line \in Seq(Character), Reads(st, line), NEW at \in Nat, NEW w \in Seq(Character),
           NEW from \in 0..Len(w), Spelled(w, line, at), PlainFrom(w, from + 1),
           NEW a, NEW q, NEW s \in {"start", "arg"}, st[at + from] = Reading(a, s, SubSeq(w, 1, from), q)
    PROVE  /\ from = Len(w) => st[at + Len(w)] = Reading(a, s, w, q)
           /\ from # Len(w) => st[at + Len(w)] = Reading(a, "arg", w, q)
<1> DEFINE Is(j) == st[at + j] = Reading(a, IF from = j THEN s ELSE "arg", SubSeq(w, 1, j), q)
           T == {j \in Nat : j \in from..Len(w) => Is(j)}
<1>s. at + Len(w) <= Len(line) /\ \A j \in 1..Len(w) : line[at + j] = w[j]
  BY DEF Spelled
<1>0. Len(w) \in Nat /\ from \in Nat /\ Len(line) \in Nat
  OBVIOUS
<1>1. 0 \in T
  <2>1. ASSUME 0 \in from..Len(w) PROVE Is(0)
    <3>1. from = 0
      BY <1>0, <2>1
    <3> QED
      BY <3>1
  <2> QED
    BY <2>1
<1>2. ASSUME NEW j \in T PROVE j + 1 \in T
  <2> SUFFICES ASSUME j + 1 \in from..Len(w) PROVE Is(j + 1)
    OBVIOUS
  <2>1. j \in Nat /\ j \in 0..(Len(w) - 1) /\ j + 1 \in 1..Len(w) /\ (at + j) + 1 \in 1..Len(line)
    BY <1>0, <1>s
  <2>2. CASE j + 1 = from
    BY <2>2
  <2>3. CASE j + 1 # from
    <3>1. j \in from..Len(w) /\ j + 1 \in (from + 1)..Len(w)
      BY <1>0, <2>1, <2>3
    <3>2. PICK z \in {"start", "arg"} : st[at + j] = Reading(a, z, SubSeq(w, 1, j), q)
      BY <3>1
    <3>3. line[at + (j + 1)] = w[j + 1] /\ w[j + 1] \notin Special
      BY <1>s, <2>1, <3>1 DEF PlainFrom
    <3>4. at + (j + 1) \in 1..Len(line) /\ (at + (j + 1)) - 1 = at + j
      BY <1>0, <1>s, <2>1
    <3>5. st[at + (j + 1)] = ParseChar(st[at + j], w[j + 1])
      BY <3>3, <3>4 DEF Reads
    <3>6. st[at + (j + 1)] = Reading(a, "arg", Append(SubSeq(w, 1, j), w[j + 1]), q)
      BY <3>2, <3>3, <3>5, CharPlain
    <3>7. Append(SubSeq(w, 1, j), w[j + 1]) = SubSeq(w, 1, j + 1)
      BY <2>1, PrefixGrows
    <3> QED
      BY <2>3, <3>6, <3>7
  <2> QED
    BY <2>2, <2>3
<1>3. T = Nat
  <2> HIDE DEF T
  <2>1. T \in SUBSET Nat
    BY DEF T
  <2> QED
    BY <1>1, <1>2, <2>1, SetInduction
<1>4. Is(Len(w))
  <2>1. Len(w) \in T
    BY <1>0, <1>3, Zenon
  <2>2. Len(w) \in from..Len(w)
    BY <1>0
  <2> QED
    BY <2>1, <2>2
<1> QED
  BY <1>4, PrefixAll

\* In quotes all characters but the quote do.
Without(w, q) == \A j \in 1..Len(w) : w[j] # q

LEMMA WalkQuoted ==
    ASSUME NEW st, NEW line \in Seq(Character), Reads(st, line), NEW at \in Nat, NEW w \in Seq(Character),
           Spelled(w, line, at), NEW q, Without(w, q),
           NEW a, NEW s \in {"quotes"}, st[at] = Reading(a, s, <<>>, q)
    PROVE  st[at + Len(w)] = Reading(a, s, w, q)
<1> DEFINE Is(j) == st[at + j] = Reading(a, s, SubSeq(w, 1, j), q)
           T == {j \in Nat : j \in 0..Len(w) => Is(j)}
<1>s. at + Len(w) <= Len(line) /\ \A j \in 1..Len(w) : line[at + j] = w[j]
  BY DEF Spelled
<1>0. Len(w) \in Nat /\ Len(line) \in Nat
  OBVIOUS
<1>1. 0 \in T
  <2>1. at + 0 = at /\ SubSeq(w, 1, 0) = <<>>
    BY PrefixAll
  <2> QED
    BY <2>1
<1>2. ASSUME NEW j \in T PROVE j + 1 \in T
  <2> SUFFICES ASSUME j + 1 \in 0..Len(w) PROVE Is(j + 1)
    OBVIOUS
  <2>1. j \in Nat /\ j \in 0..(Len(w) - 1) /\ j + 1 \in 1..Len(w) /\ j \in 0..Len(w)
    BY <1>0
  <2>2. st[at + j] = Reading(a, s, SubSeq(w, 1, j), q)
    BY <2>1
  <2>3. line[at + (j + 1)] = w[j + 1] /\ w[j + 1] # q
    BY <1>s, <2>1 DEF Without
  <2>4. at + (j + 1) \in 1..Len(line) /\ (at + (j + 1)) - 1 = at + j
    BY <1>0, <1>s, <2>1
  <2>5. st[at + (j + 1)] = ParseChar(st[at + j], w[j + 1])
    BY <2>3, <2>4 DEF Reads
  <2>6. st[at + (j + 1)] = Reading(a, s, Append(SubSeq(w, 1, j), w[j + 1]), q)
    BY <2>2, <2>3, <2>5, CharInQuotes
  <2>7. Append(SubSeq(w, 1, j), w[j + 1]) = SubSeq(w, 1, j + 1)
    BY <2>1, PrefixGrows
  <2> QED
    BY <2>6, <2>7
<1>3. T = Nat
  <2> HIDE DEF T
  <2>1. T \in SUBSET Nat
    BY DEF T
  <2> QED
    BY <1>1, <1>2, <2>1, SetInduction
<1>4. Is(Len(w))
  <2>1. Len(w) \in T
    BY <1>0, <1>3, Zenon
  <2>2. Len(w) \in 0..Len(w)
    BY <1>0
  <2> QED
    BY <2>1, <2>2
<1> QED
  BY <1>4, PrefixAll

\* The line that is made of pieces: piece i ends at at[i].
LEMMA FlattenPlaces ==
    ASSUME NEW S, NEW seqs \in Seq(Seq(S)), seqs # <<>>
    PROVE  /\ FlattenSeq(seqs) \in Seq(S)
           /\ \E at \in [0..Len(seqs) -> Nat] :
                 /\ at[0] = 0 /\ at[Len(seqs)] = Len(FlattenSeq(seqs))
                 /\ \A i \in 1..Len(seqs) :
                       /\ at[i] = at[i - 1] + Len(seqs[i]) /\ at[i] <= at[Len(seqs)]
                       /\ \A j \in 1..Len(seqs[i]) : FlattenSeq(seqs)[at[i - 1] + j] = seqs[i][j]
<1> DEFINE N == Len(seqs)
           Is(g, n) == g = [i \in 1..n |-> IF i = 1 THEN seqs[i] ELSE g[i - 1] \o seqs[i]]
           T == {n \in Nat : \E g : Is(g, n)}
           f == CHOOSE g : Is(g, N)
<1>1. N \in Nat /\ N # 0 /\ \A i \in 1..N : seqs[i] \in Seq(S)
  OBVIOUS
<1>2. FlattenSeq(seqs) = f[N]
  BY <1>1 DEF FlattenSeq
<1>3. 0 \in T
  <2>1. Is([i \in 1..0 |-> seqs[i]], 0)
    OBVIOUS
  <2> QED
    BY <2>1
<1>4. ASSUME NEW n \in T PROVE n + 1 \in T
  <2>1. PICK g : Is(g, n)
    OBVIOUS
  <2> DEFINE h == [i \in 1..(n + 1) |-> IF i = 1 THEN seqs[i] ELSE g[i - 1] \o seqs[i]]
  <2>2. n \in Nat /\ (\A i \in 1..n : i \in 1..(n + 1))
        /\ (\A i \in 1..(n + 1) : i # 1 => i - 1 \in 1..n)
    OBVIOUS
  <2>3. \A i \in 1..n : g[i] = IF i = 1 THEN seqs[i] ELSE g[i - 1] \o seqs[i]
    BY <2>1
  <2>4. \A i \in 1..n : h[i] = g[i]
    BY <2>2, <2>3
  <2>5. \A i \in 1..(n + 1) : i # 1 => h[i - 1] = g[i - 1]
    BY <2>2, <2>4
  <2>6. Is(h, n + 1)
    BY <2>5
  <2>7. n + 1 \in Nat /\ \E x : Is(x, n + 1)
    <3> HIDE DEF Is
    <3> QED
      BY <2>2, <2>6
  <2> QED
    BY <2>7
<1>5. T = Nat
  <2> HIDE DEF T
  <2>1. T \in SUBSET Nat
    BY DEF T
  <2> QED
    BY <1>3, <1>4, <2>1, SetInduction
<1>6. Is(f, N)
  <2>1. N \in T
    BY <1>1, <1>5, Zenon
  <2> QED
    BY <2>1
<1> HIDE DEF f
<1>7. \A i \in 1..N : f[i] = IF i = 1 THEN seqs[i] ELSE f[i - 1] \o seqs[i]
  BY <1>6
<1> DEFINE at == [i \in 0..N |-> IF i = 0 THEN 0 ELSE Len(f[i])]
           Fits(k) == /\ f[k] \in Seq(S)
                      /\ \A i \in 1..k :
                            /\ at[i] \in Nat /\ at[i - 1] \in Nat /\ at[i] = at[i - 1] + Len(seqs[i])
                            /\ at[i] <= at[k]
                            /\ \A j \in 1..Len(seqs[i]) : f[k][at[i - 1] + j] = seqs[i][j]
           V == {k \in Nat : k \in 1..N => Fits(k)}
<1>8. at[0] = 0 /\ \A i \in 1..N : at[i] = Len(f[i])
  BY <1>1
<1> HIDE DEF at, N
<1>9. 0 \in V
  BY <1>1
<1>10. ASSUME NEW k \in V PROVE k + 1 \in V
  <2> HIDE DEF Fits
  <2> SUFFICES ASSUME k + 1 \in 1..N PROVE Fits(k + 1)
    OBVIOUS
  <2> USE DEF Fits
  <2>1. k \in Nat /\ seqs[k + 1] \in Seq(S)
    BY <1>1
  <2>2. CASE k = 0
    <3>1. f[1] = seqs[1] /\ at[1] = Len(seqs[1]) /\ at[0] = 0 /\ seqs[1] \in Seq(S)
      BY <1>1, <1>7, <1>8, <2>1, <2>2
    <3>2. \A j \in 1..Len(seqs[1]) : at[1 - 1] + j = j /\ at[1 - 1] = 0
      BY <3>1
    <3>3. Fits(1)
      BY <3>1, <3>2
    <3> QED
      BY <2>2, <3>3
  <2>3. CASE k # 0
    <3>1. k \in 1..N /\ (k + 1) - 1 = k /\ k + 1 # 1
      BY <1>1, <2>1, <2>3
    <3>2. Fits(k)
      BY <3>1
    <3>3. f[k + 1] = f[k] \o seqs[k + 1]
      BY <1>7, <3>1
    <3> DEFINE x == f[k]
               y == seqs[k + 1]
    <3>a. x \in Seq(S) /\ y \in Seq(S)
      BY <2>1, <3>2
    <3>b. /\ x \o y \in Seq(S) /\ Len(x \o y) = Len(x) + Len(y) /\ Len(x) \in Nat /\ Len(y) \in Nat
          /\ \A i \in 1..(Len(x) + Len(y)) : (x \o y)[i] = IF i <= Len(x) THEN x[i] ELSE y[i - Len(x)]
      <4> HIDE DEF x, y
      <4> QED
        BY <3>a, ConcatProperties
    <3>c. PICK u \in Nat, v \in Nat : u = Len(x) /\ v = Len(y)
      BY <3>b
    <3>4. /\ f[k + 1] \in Seq(S) /\ Len(f[k + 1]) = u + v
          /\ \A i \in 1..(u + v) : f[k + 1][i] = IF i <= u THEN f[k][i] ELSE seqs[k + 1][i - u]
      BY <3>3, <3>b, <3>c
    <3>5. at[k] = u /\ at[k + 1] = u + v /\ Len(seqs[k + 1]) = v
      BY <1>8, <3>1, <3>4, <3>c
    <3>6. ASSUME NEW i \in 1..k
          PROVE  /\ at[i] <= at[k + 1]
                 /\ \A j \in 1..Len(seqs[i]) : f[k + 1][at[i - 1] + j] = seqs[i][j]
      <4>1. PICK p \in Nat, l \in Nat : at[i - 1] = p /\ Len(seqs[i]) = l /\ at[i] = p + l /\ p + l <= u
        <5>1. seqs[i] \in Seq(S) /\ Len(seqs[i]) \in Nat
          BY <1>1, <3>1
        <5>2. at[i - 1] \in Nat /\ at[i] = at[i - 1] + Len(seqs[i]) /\ at[i] <= at[k]
          BY <3>2
        <5>3. at[i - 1] + Len(seqs[i]) <= u
          BY <3>5, <5>2, Zenon
        <5> QED
          BY <5>1, <5>2, <5>3, Zenon
      <4>2. at[i] <= at[k + 1]
        BY <3>5, <4>1
      <4>3. ASSUME NEW j \in 1..Len(seqs[i]) PROVE f[k + 1][at[i - 1] + j] = seqs[i][j]
        <5>1. p + j \in 1..(u + v) /\ p + j <= u
          BY <4>1
        <5>2. f[k + 1][p + j] = f[k][p + j]
          BY <3>4, <5>1
        <5>3. f[k][at[i - 1] + j] = seqs[i][j]
          BY <3>2
        <5> QED
          BY <4>1, <5>2, <5>3
      <4> QED
        BY <4>2, <4>3
    <3>7. \A j \in 1..Len(seqs[k + 1]) : f[k + 1][at[k] + j] = seqs[k + 1][j]
      <4> SUFFICES ASSUME NEW j \in 1..v PROVE f[k + 1][u + j] = seqs[k + 1][j]
        BY <3>5
      <4>1. u + j \in 1..(u + v) /\ ~ (u + j <= u) /\ (u + j) - u = j
        OBVIOUS
      <4> QED
        BY <3>4, <4>1
    <3>8. /\ at[k + 1] \in Nat /\ at[k] \in Nat /\ at[k + 1] = at[k] + Len(seqs[k + 1])
          /\ at[k + 1] <= at[k + 1]
      BY <3>5
    <3>9. ASSUME NEW i \in 1..(k + 1)
          PROVE  /\ at[i] \in Nat /\ at[i - 1] \in Nat /\ at[i] = at[i - 1] + Len(seqs[i])
                 /\ at[i] <= at[k + 1]
                 /\ \A j \in 1..Len(seqs[i]) : f[k + 1][at[i - 1] + j] = seqs[i][j]
      <4>1. CASE i = k + 1
        BY <3>1, <3>7, <3>8, <4>1
      <4>2. CASE i # k + 1
        <5>1. i \in 1..k
          BY <2>1, <4>2
        <5> QED
          BY <3>2, <3>6, <5>1
      <4> QED
        BY <4>1, <4>2
    <3> QED
      BY <3>4, <3>9
  <2> QED
    BY <2>2, <2>3
<1>11. V = Nat
  <2> HIDE DEF V
  <2>1. V \in SUBSET Nat
    BY DEF V
  <2> QED
    BY <1>9, <1>10, <2>1, SetInduction
<1>12. Fits(N)
  <2>1. N \in V
    BY <1>1, <1>11, Zenon
  <2>2. N \in 1..N
    BY <1>1
  <2> HIDE DEF Fits
  <2> QED
    BY <2>1, <2>2
<1>13. at \in [0..N -> Nat]
  <2>1. \A i \in 0..N : at[i] \in Nat
    BY <1>8, <1>12
  <2> QED
    BY <2>1 DEF at
<1>14. at[N] = Len(f[N])
  BY <1>1, <1>8
<1>15. /\ FlattenSeq(seqs) \in Seq(S) /\ at[0] = 0 /\ at[N] = Len(FlattenSeq(seqs))
       /\ \A i \in 1..N :
             /\ at[i] = at[i - 1] + Len(seqs[i]) /\ at[i] <= at[N]
             /\ \A j \in 1..Len(seqs[i]) : FlattenSeq(seqs)[at[i - 1] + j] = seqs[i][j]
  BY <1>2, <1>8, <1>12, <1>14
<1> QED
  BY <1>13, <1>15 DEF N

\* One more character.
LEMMA ReadsOne ==
    ASSUME NEW st, NEW line \in Seq(Character), Reads(st, line), NEW k \in Nat, k + 1 <= Len(line)
    PROVE  st[k + 1] = ParseChar(st[k], line[k + 1])
<1>1. Len(line) \in Nat
  OBVIOUS
<1>2. k + 1 \in 1..Len(line) /\ (k + 1) - 1 = k
  BY <1>1
<1> QED
  BY <1>2 DEF Reads

\* What stands where in two sequences put together.
LEMMA ConcatAt ==
    ASSUME NEW S, NEW x \in Seq(S), NEW y \in Seq(S)
    PROVE  /\ x \o y \in Seq(S) /\ Len(x \o y) = Len(x) + Len(y)
           /\ \A i \in 1..Len(x) : (x \o y)[i] = x[i]
           /\ \A j \in 1..Len(y) : (x \o y)[Len(x) + j] = y[j]
<1>1. /\ x \o y \in Seq(S) /\ Len(x \o y) = Len(x) + Len(y)
      /\ \A i \in 1..(Len(x) + Len(y)) : (x \o y)[i] = IF i <= Len(x) THEN x[i] ELSE y[i - Len(x)]
  BY ConcatProperties
<1>2. PICK u \in Nat, v \in Nat : u = Len(x) /\ v = Len(y)
  OBVIOUS
<1>3. \A i \in 1..u : i \in 1..(u + v) /\ i <= u
  OBVIOUS
<1>4. \A j \in 1..v : u + j \in 1..(u + v) /\ ~ (u + j <= u) /\ (u + j) - u = j
  OBVIOUS
<1> QED
  BY <1>1, <1>2, <1>3, <1>4

LEMMA OneBefore ==
    ASSUME NEW S, NEW w \in Seq(S), NEW z \in S
    PROVE  /\ <<z>> \o w \in Seq(S) /\ Len(<<z>> \o w) = Len(w) + 1
           /\ (<<z>> \o w)[1] = z /\ \A j \in 1..Len(w) : (<<z>> \o w)[1 + j] = w[j]
<1> DEFINE b == <<z>>
<1>1. b \in Seq(S) /\ Len(b) = 1 /\ b[1] = z
  BY SMT
<1>2. Len(w) \in Nat
  OBVIOUS
<1> HIDE DEF b
<1>3. /\ b \o w \in Seq(S) /\ Len(b \o w) = Len(b) + Len(w)
      /\ \A i \in 1..Len(b) : (b \o w)[i] = b[i]
      /\ \A j \in 1..Len(w) : (b \o w)[Len(b) + j] = w[j]
  BY <1>1, ConcatAt
<1>4. (b \o w)[1] = z
  BY <1>1, <1>3
<1>5. Len(b \o w) = Len(w) + 1
  BY <1>1, <1>2, <1>3
<1>6. \A j \in 1..Len(w) : (b \o w)[1 + j] = w[j]
  BY <1>1, <1>3
<1> QED
  BY <1>3, <1>4, <1>5, <1>6 DEF b

LEMMA TwoBefore ==
    ASSUME NEW S, NEW w \in Seq(S), NEW z \in S, NEW x \in S
    PROVE  LET p == <<z, x>> \o w \o <<x>> IN
           /\ p \in Seq(S) /\ Len(p) = Len(w) + 3
           /\ p[1] = z /\ p[2] = x /\ p[Len(w) + 3] = x
           /\ \A j \in 1..Len(w) : p[2 + j] = w[j]
<1>1. ASSUME NEW b \in Seq(S), b[1] = z, b[2] = x, Len(b) = 2, NEW c \in Seq(S), c[1] = x, Len(c) = 1
      PROVE  /\ b \o w \o c \in Seq(S) /\ Len(b \o w \o c) = Len(w) + 3
             /\ (b \o w \o c)[1] = z /\ (b \o w \o c)[2] = x /\ (b \o w \o c)[Len(w) + 3] = x
             /\ \A j \in 1..Len(w) : (b \o w \o c)[2 + j] = w[j]
  <2>1. PICK n \in Nat : n = Len(w)
    OBVIOUS
  <2>2. /\ b \o w \in Seq(S) /\ Len(b \o w) = Len(b) + Len(w)
        /\ \A i \in 1..Len(b) : (b \o w)[i] = b[i]
        /\ \A j \in 1..Len(w) : (b \o w)[Len(b) + j] = w[j]
    BY ConcatAt
  <2>3. PICK o \in Seq(S) : o = b \o w /\ Len(o) = 2 + n /\ o[1] = z /\ o[2] = x
                           /\ \A j \in 1..n : o[2 + j] = w[j]
    <3>1. Len(b \o w) = 2 + n /\ (b \o w)[1] = z /\ (b \o w)[2] = x
      BY <1>1, <2>1, <2>2
    <3>2. \A j \in 1..n : (b \o w)[2 + j] = w[j]
      BY <1>1, <2>1, <2>2
    <3> QED
      BY <2>2, <3>1, <3>2, Zenon
  <2>4. /\ o \o c \in Seq(S) /\ Len(o \o c) = Len(o) + Len(c)
        /\ \A i \in 1..Len(o) : (o \o c)[i] = o[i]
        /\ \A j \in 1..Len(c) : (o \o c)[Len(o) + j] = c[j]
    BY ConcatAt
  <2>5. /\ 1 \in 1..(2 + n) /\ 2 \in 1..(2 + n) /\ (2 + n) + 1 = n + 3
        /\ \A j \in 1..n : 2 + j \in 1..(2 + n)
    OBVIOUS
  <2>6. (o \o c)[1] = z /\ (o \o c)[2] = x /\ \A j \in 1..n : (o \o c)[2 + j] = w[j]
    BY <2>3, <2>4, <2>5
  <2>7. Len(o \o c) = n + 3 /\ (o \o c)[n + 3] = x
    BY <1>1, <2>3, <2>4, <2>5
  <2> QED
    BY <2>1, <2>3, <2>4, <2>6, <2>7
<1>2. <<z, x>> \in Seq(S) /\ <<z, x>>[1] = z /\ <<z, x>>[2] = x /\ Len(<<z, x>>) = 2
  OBVIOUS
<1>3. <<x>> \in Seq(S) /\ <<x>>[1] = x /\ Len(<<x>>) = 1
  OBVIOUS
<1> QED
  BY <1>1, <1>2, <1>3, Zenon

\* A piece that stands after others: the state before it is that after a word.
AfterWord(s, words, i) ==
    \E q : \/ /\ words[i] # <<>>
              /\ \/ s = Reading(SubSeq(words, 1, i - 1), "arg", words[i], q)
                 \/ i = Len(words) /\ s = Reading(SubSeq(words, 1, i - 1), "start", words[i], q)
           \/ s = Reading(SubSeq(words, 1, i), "start", <<>>, q)

LEMMA WritableWords ==
    ASSUME NEW words, NEW style, Writable(words, style)
    PROVE  words \in Seq(Seq(Character)) /\ Len(words) # 0
<1>1. words \in Seq(Seq(STRING)) /\ Len(words) # 0
  BY DEF Writable
<1>2. \A w \in Seq(STRING) : w \in Seq(Character)
  <2> SUFFICES ASSUME NEW w \in Seq(STRING) PROVE w \in Seq(Character)
    OBVIOUS
  <2>1. \A j \in 1..Len(w) : w[j] \in Character
    BY DEF Character
  <2> QED
    BY <2>1
<1>3. \A i \in 1..Len(words) : words[i] \in Seq(Character)
  BY <1>1, <1>2
<1> QED
  BY <1>1, <1>3

LEMMA FirstWord ==
    ASSUME NEW words, NEW style, Writable(words, style),
           NEW st, NEW line \in Seq(Character), Reads(st, line), Len(words[1]) <= Len(line),
           \A j \in 1..Len(words[1]) : line[j] = words[1][j]
    PROVE  AfterWord(st[Len(words[1])], words, 1)
<1> DEFINE w == words[1]
<1>1. w \in Seq(Character) /\ w # <<>> /\ Len(w) \in Nat /\ Len(words) \in Nat /\ Len(words) # 0
  <2>1. words \in Seq(Seq(Character)) /\ Len(words) # 0
    BY WritableWords, Zenon
  <2>2. w \in Seq(Character) /\ Len(words) \in Nat
    BY <2>1
  <2>3. Len(w) > 0
    BY <2>2 DEF Writable
  <2> QED
    BY <2>1, <2>2, <2>3
<1>2. 1 <= Len(w) /\ 1 \in 0..Len(w) /\ 1 \in 1..Len(w)
  <2> HIDE DEF w
  <2>1. Len(w) # 0
    BY <1>1
  <2> QED
    BY <1>1, <2>1
<1>3. st[0 + 1] = Reading(<<>>, "start", SubSeq(w, 1, 1), "\"")
  <2>1. st[0 + 1] = ParseChar(st[0], line[1])
    <3>1. Len(line) \in Nat
      OBVIOUS
    <3>2. 0 + 1 = 1 /\ 1 <= Len(line)
      BY <1>1, <1>2, <3>1
    <3> QED
      BY <3>2, ReadsOne
  <2>2. SubSeq(w, 1, 1) = <<w[1]>>
    <3> HIDE DEF w
    <3>1. 0 \in 0..(Len(w) - 1) /\ 0 + 1 = 1
      BY <1>1, <1>2
    <3>2. Append(SubSeq(w, 1, 0), w[1]) = SubSeq(w, 1, 1)
      BY <1>1, <3>1, PrefixGrows
    <3>3. SubSeq(w, 1, 0) = <<>>
      BY <1>1, PrefixAll
    <3>4. Append(<<>>, w[1]) = <<w[1]>>
      OBVIOUS
    <3> QED
      BY <3>2, <3>3, <3>4
  <2>3. line[1] = w[1] /\ st[0] = AtFirst
    BY <1>2 DEF Reads
  <2> QED
    BY <2>1, <2>2, <2>3, CharFirst
<1>4. PlainFrom(w, 1 + 1) /\ Spelled(w, line, 0)
  <2>1. \A j \in 2..Len(w) : w[j] \notin Special
    BY DEF Writable
  <2>2. 1 + 1 = 2 /\ 0 + Len(w) <= Len(line) /\ \A j \in 1..Len(w) : 0 + j = j
    BY <1>1
  <2> QED
    BY <2>1, <2>2 DEF PlainFrom, Spelled
<1>5. \/ Len(w) = 1 /\ st[0 + Len(w)] = Reading(<<>>, "start", w, "\"")
      \/ Len(w) # 1 /\ st[0 + Len(w)] = Reading(<<>>, "arg", w, "\"")
  <2> HIDE DEF w
  <2> DEFINE Walk(at, from) ==
          \A a, q : \A s \in {"start", "arg"} : st[at + from] = Reading(a, s, SubSeq(w, 1, from), q) =>
              \/ from = Len(w) /\ st[at + Len(w)] = Reading(a, s, w, q)
              \/ from # Len(w) /\ st[at + Len(w)] = Reading(a, "arg", w, q)
  <2>1. ASSUME NEW at \in Nat, NEW from \in 0..Len(w), Spelled(w, line, at), PlainFrom(w, from + 1)
        PROVE  Walk(at, from)
    <3> SUFFICES ASSUME NEW a, NEW q, NEW s \in {"start", "arg"}, st[at + from] = Reading(a, s, SubSeq(w, 1, from), q)
                 PROVE  \/ from = Len(w) /\ st[at + Len(w)] = Reading(a, s, w, q)
                        \/ from # Len(w) /\ st[at + Len(w)] = Reading(a, "arg", w, q)
      BY Zenon
    <3> QED
      BY <1>1, <2>1, WalkPlain, SMT
  <2>2. Walk(0, 1)
    <3> HIDE DEF Walk
    <3>1. 0 \in Nat
      OBVIOUS
    <3> QED
      BY <1>2, <1>4, <2>1, <3>1, Zenon
  <2>3. "start" \in {"start", "arg"}
    OBVIOUS
  <2>4. \/ 1 = Len(w) /\ st[0 + Len(w)] = Reading(<<>>, "start", w, "\"")
        \/ 1 # Len(w) /\ st[0 + Len(w)] = Reading(<<>>, "arg", w, "\"")
    BY <1>3, <2>2, <2>3, Zenon
  <2> QED
    BY <2>4, Zenon
<1>6. 0 + Len(w) = Len(w) /\ SubSeq(words, 1, 1 - 1) = <<>>
  <2>1. words \in Seq(Seq(Character))
    BY WritableWords, Zenon
  <2>2. SubSeq(words, 1, 0) = <<>>
    BY <2>1, PrefixAll
  <2> QED
    BY <1>1, <2>2
<1>7. Len(w) = 1 => Len(words) = 1
  BY <1>1 DEF Writable
<1> QED
  BY <1>1, <1>5, <1>6, <1>7 DEF AfterWord

\* The blank ends the word.
LEMMA BlankAfterWord ==
    ASSUME NEW words \in Seq(Seq(Character)), NEW i \in 1..(Len(words) - 1), NEW s, AfterWord(s, words, i)
    PROVE  \E q : ParseChar(s, " ") = Reading(SubSeq(words, 1, i), "start", <<>>, q)
<1>1. i - 1 \in 0..(Len(words) - 1) /\ (i - 1) + 1 = i /\ i # Len(words)
  OBVIOUS
<1>2. Append(SubSeq(words, 1, i - 1), words[i]) = SubSeq(words, 1, i)
  BY <1>1, PrefixGrows
<1>3. PICK q : \/ s = Reading(SubSeq(words, 1, i - 1), "arg", words[i], q)
               \/ s = Reading(SubSeq(words, 1, i), "start", <<>>, q)
  BY <1>1 DEF AfterWord
<1>4. ParseChar(s, " ") = Reading(SubSeq(words, 1, i), "start", <<>>, q)
  <2>1. ParseChar(Reading(SubSeq(words, 1, i - 1), "arg", words[i], q), " ") = Reading(SubSeq(words, 1, i), "start", <<>>, q)
    BY <1>2, CharBlankAfter, Zenon
  <2>2. ParseChar(Reading(SubSeq(words, 1, i), "start", <<>>, q), " ") = Reading(SubSeq(words, 1, i), "start", <<>>, q)
    BY CharBlankBefore, Zenon
  <2> QED
    BY <1>3, <2>1, <2>2
<1> QED
  BY <1>4

\* What a piece is made of.
PlainPiece(p, w) == Len(p) = Len(w) + 1 /\ p[1] = " " /\ \A j \in 1..Len(w) : p[1 + j] = w[j]

QuotedPiece(p, w, x) ==
    /\ Len(p) = Len(w) + 3 /\ p[1] = " " /\ p[2] = x /\ p[Len(w) + 3] = x
    /\ \A j \in 1..Len(w) : p[2 + j] = w[j]

\* A word that stands after a blank, as it is ...
LEMMA NextPlain ==
    ASSUME NEW words \in Seq(Seq(Character)), NEW i \in 1..(Len(words) - 1),
           NEW st, NEW line \in Seq(Character), Reads(st, line), NEW at \in Nat, AfterWord(st[at], words, i),
           NEW w \in Seq(Character), w = words[i + 1], w # <<>>, PlainFrom(w, 1),
           NEW p, PlainPiece(p, w), Spelled(p, line, at)
    PROVE  AfterWord(st[at + Len(p)], words, i + 1)
<1>m. PICK m \in Nat : m = at + 1
  OBVIOUS
<1>1. PICK n \in Nat : n = Len(w) /\ n # 0
  OBVIOUS
<1>2. Len(p) = n + 1 /\ p[1] = " " /\ \A j \in 1..n : p[1 + j] = w[j]
  BY <1>1 DEF PlainPiece
<1>3. PICK l \in Nat : l = Len(line)
  OBVIOUS
<1>r. ASSUME NEW k \in Nat, k + 1 <= l PROVE st[k + 1] = ParseChar(st[k], line[k + 1])
  <2>1. k + 1 <= Len(line)
    BY <1>3, <1>r
  <2> QED
    BY <2>1, ReadsOne, Zenon
<1>4. \A j \in 1..(n + 1) : line[at + j] = p[j]
  BY <1>2, <1>3 DEF Spelled
<1>l. at + (n + 1) <= l
  BY <1>2, <1>3 DEF Spelled
<1>5. m <= l /\ m + n <= l /\ m + n = at + (n + 1) /\ 1 \in 1..(n + 1)
  BY <1>m, <1>l
<1>6. PICK q : st[m] = Reading(SubSeq(words, 1, i), "start", <<>>, q)
  <2>1. st[m] = ParseChar(st[at], " ")
    <3>1. line[at + 1] = " "
      BY <1>2, <1>4, <1>5
    <3>2. at + 1 <= l
      BY <1>m, <1>5
    <3>3. st[at + 1] = ParseChar(st[at], line[at + 1])
      BY <3>2, <1>r, Zenon
    <3> QED
      BY <1>m, <3>1, <3>3, Zenon
  <2> QED
    <3>1. \E q : ParseChar(st[at], " ") = Reading(SubSeq(words, 1, i), "start", <<>>, q)
      BY BlankAfterWord
    <3> QED
      BY <2>1, <3>1, Zenon
<1>7. Spelled(w, line, m)
  <2>1. ASSUME NEW j \in 1..n PROVE line[m + j] = w[j]
    <3>1. 1 + j \in 1..(n + 1) /\ at + (1 + j) = m + j
      BY <1>m
    <3> QED
      BY <1>2, <1>4, <3>1
  <2> QED
    BY <1>1, <1>3, <1>5, <2>1 DEF Spelled
<1>8. st[m + n] = Reading(SubSeq(words, 1, i), "arg", w, q)
  <2>1. ASSUME NEW from \in 0..Len(w), from # Len(w), PlainFrom(w, from + 1),
               NEW a, NEW s \in {"start", "arg"}, st[m + from] = Reading(a, s, SubSeq(w, 1, from), q)
        PROVE  st[m + Len(w)] = Reading(a, "arg", w, q)
    BY <1>7, <2>1, WalkPlain, SMT
  <2>2. 0 \in 0..Len(w) /\ 0 # Len(w) /\ 0 + 1 = 1 /\ m + 0 = m
    BY <1>1
  <2>3. SubSeq(w, 1, 0) = <<>> /\ "start" \in {"start", "arg"}
    BY PrefixAll
  <2>4. PlainFrom(w, 0 + 1) /\ st[m + 0] = Reading(SubSeq(words, 1, i), "start", SubSeq(w, 1, 0), q)
    BY <1>6, <2>2, <2>3, Zenon
  <2>5. st[m + Len(w)] = Reading(SubSeq(words, 1, i), "arg", w, q)
    BY <2>1, <2>2, <2>3, <2>4, Zenon
  <2> QED
    BY <1>1, <2>5, Zenon
<1>9. (i + 1) - 1 = i
  OBVIOUS
<1>10. st[at + Len(p)] = Reading(SubSeq(words, 1, (i + 1) - 1), "arg", words[i + 1], q)
  BY <1>2, <1>5, <1>8, <1>9, Zenon
<1> QED
  BY <1>10, Zenon DEF AfterWord

\* ... or in quotes.
LEMMA NextQuoted ==
    ASSUME NEW words \in Seq(Seq(Character)), NEW i \in 1..(Len(words) - 1),
           NEW st, NEW line \in Seq(Character), Reads(st, line), NEW at \in Nat, AfterWord(st[at], words, i),
           NEW w \in Seq(Character), w = words[i + 1], NEW x \in Quote, Without(w, x),
           NEW p, QuotedPiece(p, w, x), Spelled(p, line, at)
    PROVE  AfterWord(st[at + Len(p)], words, i + 1)
<1>m. PICK m \in Nat : m = at + 2
  OBVIOUS
<1>1. PICK n \in Nat : n = Len(w)
  OBVIOUS
<1>2. Len(p) = n + 3 /\ p[1] = " " /\ p[2] = x /\ p[n + 3] = x /\ \A j \in 1..n : p[2 + j] = w[j]
  BY <1>1 DEF QuotedPiece
<1>3. PICK l \in Nat : l = Len(line)
  OBVIOUS
<1>r. ASSUME NEW k \in Nat, k + 1 <= l PROVE st[k + 1] = ParseChar(st[k], line[k + 1])
  <2>1. k + 1 <= Len(line)
    BY <1>3, <1>r
  <2> QED
    BY <2>1, ReadsOne, Zenon
<1>4. \A j \in 1..(n + 3) : line[at + j] = p[j]
  BY <1>2, <1>3 DEF Spelled
<1>l. at + (n + 3) <= l
  BY <1>2, <1>3 DEF Spelled
<1>5. /\ at + 1 <= l /\ (at + 1) + 1 <= l /\ (at + 1) + 1 = m /\ m + n <= l /\ (m + n) + 1 <= l
      /\ (m + n) + 1 = at + (n + 3) /\ at + 2 = m
      /\ 1 \in 1..(n + 3) /\ 2 \in 1..(n + 3) /\ n + 3 \in 1..(n + 3)
  BY <1>m, <1>l
<1>n. at + 1 \in Nat /\ m + n \in Nat
  OBVIOUS
<1>6. line[at + 1] = " " /\ line[m] = x /\ line[(m + n) + 1] = x
  BY <1>2, <1>4, <1>5
<1>7. PICK q : st[at + 1] = Reading(SubSeq(words, 1, i), "start", <<>>, q)
  <2>1. st[at + 1] = ParseChar(st[at], line[at + 1])
    BY <1>r, <1>5, <1>n, Zenon
  <2>2. st[at + 1] = ParseChar(st[at], " ")
    BY <1>6, <2>1, Zenon
  <2> QED
    <3>1. \E q : ParseChar(st[at], " ") = Reading(SubSeq(words, 1, i), "start", <<>>, q)
      BY BlankAfterWord
    <3> QED
      BY <2>2, <3>1, Zenon
<1>8. st[m] = Reading(SubSeq(words, 1, i), "quotes", <<>>, x)
  <2>1. st[(at + 1) + 1] = ParseChar(st[at + 1], line[(at + 1) + 1])
    BY <1>r, <1>5, <1>n, Zenon
  <2>2. st[m] = ParseChar(st[at + 1], x)
    BY <1>5, <1>6, <2>1, Zenon
  <2> QED
    BY <1>7, <2>2, CharQuote, Zenon
<1>9. Spelled(w, line, m)
  <2>1. ASSUME NEW j \in 1..n PROVE line[m + j] = w[j]
    <3>1. 2 + j \in 1..(n + 3) /\ at + (2 + j) = m + j
      BY <1>m
    <3> QED
      BY <1>2, <1>4, <3>1
  <2> QED
    BY <1>1, <1>3, <1>5, <2>1 DEF Spelled
<1>10. st[m + n] = Reading(SubSeq(words, 1, i), "quotes", w, x)
  <2>1. ASSUME NEW a, NEW s \in {"quotes"}, st[m] = Reading(a, s, <<>>, x) PROVE st[m + Len(w)] = Reading(a, s, w, x)
    BY <1>9, <2>1, WalkQuoted, SMT
  <2> QED
    BY <1>1, <1>8, <2>1, Zenon
<1>11. st[(m + n) + 1] = ParseChar(st[m + n], x)
  <2>1. st[(m + n) + 1] = ParseChar(st[m + n], line[(m + n) + 1])
    BY <1>r, <1>5, <1>n, Zenon
  <2> QED
    BY <1>6, <2>1, Zenon
<1>12. st[(m + n) + 1] = Reading(Append(SubSeq(words, 1, i), w), "start", <<>>, x)
  <2>1. ParseChar(Reading(SubSeq(words, 1, i), "quotes", w, x), x) = Reading(Append(SubSeq(words, 1, i), w), "start", <<>>, x)
    BY CharEndQuote, Zenon
  <2> QED
    BY <1>10, <1>11, <2>1, Zenon
<1>13. Append(SubSeq(words, 1, i), w) = SubSeq(words, 1, i + 1)
  <2>1. i \in 0..(Len(words) - 1)
    OBVIOUS
  <2> QED
    BY <2>1, PrefixGrows
<1>14. st[at + Len(p)] = Reading(SubSeq(words, 1, i + 1), "start", <<>>, x)
  BY <1>2, <1>5, <1>12, <1>13, Zenon
<1> QED
  BY <1>14, Zenon DEF AfterWord

LEMMA Characters == " " \in Character /\ Quote \subseteq Character /\ "plain" \notin Quote
<1>1. " " \in Character /\ Quote \subseteq Character
  BY DEF Character, Special, Blank
<1>2. "plain" \notin Quote
  BY DEF Quote
<1> QED
  BY <1>1, <1>2

LEMMA PieceOfPlain ==
    ASSUME NEW w \in Seq(Character) PROVE <<" ">> \o w \in Seq(Character) /\ PlainPiece(<<" ">> \o w, w)
<1>1. ASSUME NEW z \in Character
      PROVE  /\ <<z>> \o w \in Seq(Character) /\ Len(<<z>> \o w) = Len(w) + 1
             /\ (<<z>> \o w)[1] = z /\ \A j \in 1..Len(w) : (<<z>> \o w)[1 + j] = w[j]
  <2>1. ASSUME NEW S, w \in Seq(S), z \in S
        PROVE  /\ <<z>> \o w \in Seq(S) /\ Len(<<z>> \o w) = Len(w) + 1
               /\ (<<z>> \o w)[1] = z /\ \A j \in 1..Len(w) : (<<z>> \o w)[1 + j] = w[j]
    BY <2>1, OneBefore
  <2> QED
    BY <2>1, Zenon
<1> QED
  BY <1>1, Characters, Zenon DEF PlainPiece

LEMMA PieceInQuotes ==
    ASSUME NEW w \in Seq(Character), NEW x \in Quote
    PROVE  LET p == <<" ", x>> \o w \o <<x>> IN p \in Seq(Character) /\ QuotedPiece(p, w, x)
<1>2. x \in Character
  BY Characters
<1>3. ASSUME NEW z \in Character, NEW p, p = <<z, x>> \o w \o <<x>>
      PROVE  /\ p \in Seq(Character) /\ Len(p) = Len(w) + 3
             /\ p[1] = z /\ p[2] = x /\ p[Len(w) + 3] = x
             /\ \A j \in 1..Len(w) : p[2 + j] = w[j]
  BY <1>2, <1>3, TwoBefore
<1>4. ASSUME NEW p, p = <<" ", x>> \o w \o <<x>> PROVE p \in Seq(Character) /\ QuotedPiece(p, w, x)
  <2>1. ASSUME NEW z \in Character, z = " "
        PROVE  /\ p \in Seq(Character) /\ Len(p) = Len(w) + 3
               /\ p[1] = z /\ p[2] = x /\ p[Len(w) + 3] = x
               /\ \A j \in 1..Len(w) : p[2 + j] = w[j]
    <3>1. p = <<z, x>> \o w \o <<x>>
      BY <1>4, <2>1, Zenon
    <3> QED
      BY <1>3, <3>1
  <2>2. p \in Seq(Character) /\ Len(p) = Len(w) + 3
    BY <2>1, Characters, Zenon
  <2>3. p[1] = " " /\ p[2] = x /\ p[Len(w) + 3] = x /\ \A j \in 1..Len(w) : p[2 + j] = w[j]
    BY <2>1, Characters, Zenon
  <2> QED
    BY <2>2, <2>3, Zenon DEF QuotedPiece
<1> QED
  BY <1>4, Zenon

\* A line that is written as LineConstants has it is parsed into its words.
LEMMA ParseWritten ==
    ASSUME NEW words, NEW style, Writable(words, style)
    PROVE  LET p == ParseCommandLine(Line(words, style)) IN ~p.error /\ p.args = words
<1> DEFINE seqs == [i \in DOMAIN words |-> Piece(words, style, i)]
           line == FlattenSeq(seqs)
<1>1. PICK N \in Nat : N = Len(words) /\ N # 0 /\ DOMAIN words = 1..N
  BY DEF Writable
<1>2. words \in Seq(Seq(Character)) /\ \A i \in 1..N : words[i] \in Seq(Character)
  <2>1. words \in Seq(Seq(Character))
    BY WritableWords, Zenon
  <2> QED
    BY <1>1, <2>1
<1>3. \A i \in 1..N : style[i] = "plain" \/ style[i] \in Quote
  BY <1>1 DEF Writable, Style
<1>4. ASSUME NEW i \in 1..N, i # 1, style[i] = "plain"
      PROVE  seqs[i] \in Seq(Character) /\ PlainPiece(seqs[i], words[i])
  <2>1. seqs[i] = <<" ">> \o words[i]
    BY <1>1, <1>4, Zenon DEF Piece
  <2> QED
    BY <1>2, <2>1, PieceOfPlain, Zenon
<1>5. ASSUME NEW i \in 1..N, i # 1, style[i] \in Quote
      PROVE  seqs[i] \in Seq(Character) /\ QuotedPiece(seqs[i], words[i], style[i])
  <2>1. seqs[i] = <<" ", style[i]>> \o words[i] \o <<style[i]>>
    BY <1>1, <1>5, Characters, Zenon DEF Piece
  <2> QED
    BY <1>2, <1>5, <2>1, PieceInQuotes, Zenon
<1>6. 1 \in 1..N
  BY <1>1
<1>7. seqs[1] = words[1]
  BY <1>1, <1>6, Zenon DEF Piece
<1>8. \A i \in 1..N : seqs[i] \in Seq(Character)
  BY <1>2, <1>3, <1>4, <1>5, <1>7, Zenon
<1>9. seqs \in Seq(Seq(Character)) /\ Len(seqs) = N /\ seqs # <<>>
  <2>1. DOMAIN seqs = 1..N
    BY <1>1
  <2> HIDE DEF seqs
  <2>2. seqs = [i \in 1..N |-> seqs[i]]
    BY <2>1 DEF seqs
  <2>3. seqs \in [1..N -> Seq(Character)]
    BY <1>8, <2>2
  <2> QED
    BY <1>1, <2>3
<1> HIDE DEF seqs
<1>10. line \in Seq(Character)
  BY <1>9, FlattenPlaces
<1>11. PICK at \in [0..N -> Nat] :
          /\ at[0] = 0 /\ at[N] = Len(line)
          /\ \A i \in 1..N :
                /\ at[i] = at[i - 1] + Len(seqs[i]) /\ at[i] <= at[N]
                /\ \A j \in 1..Len(seqs[i]) : line[at[i - 1] + j] = seqs[i][j]
  <2>1. \E at \in [0..Len(seqs) -> Nat] :
           /\ at[0] = 0 /\ at[Len(seqs)] = Len(line)
           /\ \A i \in 1..Len(seqs) :
                 /\ at[i] = at[i - 1] + Len(seqs[i]) /\ at[i] <= at[Len(seqs)]
                 /\ \A j \in 1..Len(seqs[i]) : line[at[i - 1] + j] = seqs[i][j]
    BY <1>9, FlattenPlaces, Zenon
  <2> QED
    BY <1>9, <2>1, Zenon
<1> HIDE DEF line
<1>12. PICK st : Reads(st, line) /\ FoldLeft(ParseChar, AtFirst, line) = st[Len(line)]
  BY <1>10, ParseReads, Zenon
<1>13. ASSUME NEW i \in 1..N
       PROVE  /\ Spelled(seqs[i], line, at[i - 1]) /\ at[i] = at[i - 1] + Len(seqs[i])
              /\ at[i - 1] \in Nat
  <2>1. at[i - 1] \in Nat
    BY <1>1
  <2> QED
    BY <1>11, <2>1 DEF Spelled
<1> DEFINE T == {k \in Nat : k \in 1..N => AfterWord(st[at[k]], words, k)}
<1>14. 0 \in T
  OBVIOUS
<1>15. ASSUME NEW k \in T PROVE k + 1 \in T
  <2> SUFFICES ASSUME k + 1 \in 1..N PROVE AfterWord(st[at[k + 1]], words, k + 1)
    OBVIOUS
  <2>1. CASE k = 0
    <3>1. Spelled(words[1], line, 0) /\ at[1] = 0 + Len(words[1])
      <4>1. Spelled(seqs[1], line, at[1 - 1]) /\ at[1] = at[1 - 1] + Len(seqs[1])
        BY <1>6, <1>13, Zenon
      <4>2. at[1 - 1] = 0
        BY <1>11
      <4> QED
        BY <1>7, <4>1, <4>2, Zenon
    <3>2. PICK n \in Nat : n = Len(words[1])
      BY <1>2, <1>6
    <3>3. n <= Len(line) /\ (\A j \in 1..n : line[j] = words[1][j]) /\ at[1] = n
      <4>1. \A j \in 1..n : 0 + j = j
        OBVIOUS
      <4>2. 0 + n = n
        OBVIOUS
      <4> QED
        BY <3>1, <3>2, <4>1, <4>2 DEF Spelled
    <3>4. AfterWord(st[n], words, 1)
      BY <1>10, <1>12, <3>2, <3>3, FirstWord, Zenon
    <3>5. k + 1 = 1
      BY <2>1
    <3> QED
      BY <3>3, <3>4, <3>5, Zenon
  <2>2. CASE k # 0
    <3>1. k \in 1..N /\ k \in 1..(Len(words) - 1) /\ (k + 1) - 1 = k /\ k + 1 # 1 /\ k + 1 \in 2..Len(words)
      BY <1>1, <2>2
    <3>2. AfterWord(st[at[k]], words, k)
      BY <3>1
    <3> DEFINE w == words[k + 1]
               p == seqs[k + 1]
    <3>3. w \in Seq(Character) /\ DOMAIN w = 1..Len(w)
      BY <1>2
    <3>4. Spelled(p, line, at[k]) /\ at[k + 1] = at[k] + Len(p) /\ at[k] \in Nat
      BY <1>13, <3>1
    <3>5. CASE style[k + 1] = "plain"
      <4>1. w # <<>> /\ PlainFrom(w, 1)
        BY <3>1, <3>3, <3>5 DEF Writable, PlainFrom
      <4>2. PlainPiece(p, w)
        BY <1>4, <3>1, <3>5, Zenon
      <4>3. AfterWord(st[at[k] + Len(p)], words, k + 1)
        <5> HIDE DEF p
        <5> QED
          BY <1>2, <1>10, <1>12, <3>1, <3>2, <3>3, <3>4, <4>1, <4>2, NextPlain, Zenon
      <4> QED
        BY <3>4, <4>3, Zenon
    <3>6. CASE style[k + 1] \in Quote
      <4>1. Without(w, style[k + 1])
        <5>1. style[k + 1] # "plain"
          BY <3>6 DEF Quote
        <5> QED
          BY <3>1, <3>3, <5>1 DEF Writable, Without
      <4>2. QuotedPiece(p, w, style[k + 1])
        BY <1>5, <3>1, <3>6, Zenon
      <4>3. AfterWord(st[at[k] + Len(p)], words, k + 1)
        <5> HIDE DEF p
        <5> QED
          BY <1>2, <1>10, <1>12, <3>1, <3>2, <3>3, <3>4, <3>6, <4>1, <4>2, NextQuoted, Zenon
      <4> QED
        BY <3>4, <4>3, Zenon
    <3> QED
      BY <1>3, <3>5, <3>6
  <2> QED
    BY <2>1, <2>2
<1>16. T = Nat
  <2> HIDE DEF T
  <2>1. T \in SUBSET Nat
    BY DEF T
  <2> QED
    BY <1>14, <1>15, <2>1, SetInduction
<1>17. AfterWord(st[Len(line)], words, N)
  <2>1. N \in T
    BY <1>16, Zenon
  <2>2. N \in 1..N
    BY <1>1
  <2> QED
    BY <1>11, <2>1, <2>2
<1> DEFINE s == st[Len(line)]
<1>18. /\ s.state # "quotes"
       /\ (IF s.current # <<>> THEN Append(s.args, s.current) ELSE s.args) = words
  <2>1. SubSeq(words, 1, N) = words
    BY <1>1, <1>2, PrefixAll
  <2>2. Append(SubSeq(words, 1, N - 1), words[N]) = words
    <3>1. N - 1 \in 0..(Len(words) - 1) /\ (N - 1) + 1 = N
      BY <1>1
    <3> QED
      BY <1>2, <2>1, <3>1, PrefixGrows
  <2>3. PICK q : \/ /\ words[N] # <<>>
                    /\ \/ s = Reading(SubSeq(words, 1, N - 1), "arg", words[N], q)
                       \/ s = Reading(SubSeq(words, 1, N - 1), "start", words[N], q)
                 \/ s = Reading(SubSeq(words, 1, N), "start", <<>>, q)
    BY <1>17, Zenon DEF AfterWord
  <2> QED
    BY <2>1, <2>2, <2>3 DEF Reading
<1>19. Line(words, style) = line
  BY Zenon DEF Line, line, seqs
<1>20. FoldLeft(ParseChar, [args |-> <<>>, state |-> "start", current |-> <<>>, quote |-> "\"",
                            escapeNext |-> TRUE], line) = s
  BY <1>12, Zenon DEF AtFirst
<1>21. ParseCommandLine(line) =
          [error |-> s.state = "quotes",
           args |-> IF s.current # <<>> THEN Append(s.args, s.current) ELSE s.args]
  BY <1>20, Zenon DEF ParseCommandLine
<1>22. /\ ParseCommandLine(line).error = (s.state = "quotes")
       /\ ParseCommandLine(line).args = IF s.current # <<>> THEN Append(s.args, s.current) ELSE s.args
  <2>1. ASSUME NEW e, NEW g, NEW r, r = [error |-> e, args |-> g] PROVE r.error = e /\ r.args = g
    BY <2>1
  <2> DEFINE e == s.state = "quotes"
             g == IF s.current # <<>> THEN Append(s.args, s.current) ELSE s.args
  <2>2. ParseCommandLine(line) = [error |-> e, args |-> g]
    BY <1>21, Zenon
  <2>3. ParseCommandLine(line).error = e /\ ParseCommandLine(line).args = g
    <3> HIDE DEF e, g
    <3> QED
      BY <2>1, <2>2, Zenon
  <2> QED
    BY <2>3, Zenon
<1> HIDE DEF s
<1> QED
  BY <1>18, <1>19, <1>22, Zenon

----------------------------------------------------------------------------
(* The program and its arguments *)

\* A request that was not taken or is answered, that failed or has its result, or
\* whose program runs with the words of the configured line.
Executing(state) ==
    \/ state = [pc |-> "idle"] \/ state = [pc |-> "done"]
    \/ \E ok \in BOOLEAN : state = [pc |-> "respond", ok |-> ok]
    \/ \E words, behaviour : \E pc \in {"stdout", "stderr", "wait"} :
          state = [pc |-> pc, argv |-> words, words |-> words, behaviour |-> behaviour]

ExecInv == run = [r \in Request |-> run[r]] /\ \A r \in Request : Executing(run[r])

LEMMA ParsedIsWords ==
    ASSUME NEW cmd \in CommandLine, ~ParseCommandLine(cmd.line).error
    PROVE  ParseCommandLine(cmd.line).args = cmd.words
<1>1. PICK style : Writable(cmd.words, style) /\ cmd.line = Line(cmd.words, style)
  BY LineConstants, Zenon
<1> QED
  BY <1>1, ParseWritten, Zenon

LEMMA Running ==
    ASSUME NEW state, Executing(state), state.pc \in {"stdout", "stderr"}
    PROVE  \E words, behaviour : \E pc \in {"stdout", "stderr", "wait"} :
              state = [pc |-> pc, argv |-> words, words |-> words, behaviour |-> behaviour]
BY DEF Executing

\* One request changes.
LEMMA ExecOne ==
    ASSUME ExecInv, NEW r \in Request, NEW state, Executing(state), run' = [run EXCEPT ![r] = state]
    PROVE  ExecInv'
<1>1. \A x \in Request : run'[x] = IF x = r THEN state ELSE run[x]
  BY DEF ExecInv
<1>2. run' = [x \in Request |-> run'[x]]
  BY DEF ExecInv
<1>3. \A x \in Request : Executing(run'[x])
  BY <1>1, Zenon DEF ExecInv
<1> QED
  BY <1>2, <1>3, Zenon DEF ExecInv, Executing

LEMMA ExecStep == ExecInv /\ [ExecNext \/ MetaNext]_commandsVars => ExecInv'
<1> SUFFICES ASSUME ExecInv, [ExecNext \/ MetaNext]_commandsVars PROVE ExecInv'
  OBVIOUS
<1>1. ASSUME UNCHANGED run PROVE ExecInv'
  BY <1>1, Zenon DEF ExecInv, Executing
<1>2. ASSUME NEW r \in Request, NEW cmd \in CommandLine \cup {Unknown}, NEW behaviour \in Behaviour,
             Execute(r, cmd, behaviour)
      PROVE  ExecInv'
  <2> DEFINE parsed == ParseCommandLine(cmd.line)
             failed == [pc |-> "respond", ok |-> FALSE]
             started == [pc |-> "stdout", argv |-> parsed.args, words |-> cmd.words, behaviour |-> behaviour]
  <2>1. \/ run' = [run EXCEPT ![r] = failed]
        \/ cmd # Unknown /\ ~parsed.error /\ run' = [run EXCEPT ![r] = started]
    BY <1>2, Zenon DEF Execute
  <2>2. Executing(failed)
    BY Zenon DEF Executing
  <2>3. ASSUME cmd # Unknown, ~parsed.error PROVE Executing(started)
    <3>1. parsed.args = cmd.words
      BY <2>3, ParsedIsWords, Zenon
    <3> QED
      BY <3>1, Zenon DEF Executing
  <2> QED
    BY <2>1, <2>2, <2>3, ExecOne, Zenon
<1>3. ASSUME NEW r \in Request, ReadAll(r) PROVE ExecInv'
  <2>1. CASE run[r].pc = "wait"
    <3>1. PICK ok \in BOOLEAN : run' = [run EXCEPT ![r] = [pc |-> "respond", ok |-> ok]]
      BY <1>3, <2>1, Zenon DEF ReadAll
    <3>2. Executing([pc |-> "respond", ok |-> ok])
      BY Zenon DEF Executing
    <3> QED
      BY <3>1, <3>2, ExecOne, Zenon
  <2>2. CASE run[r].pc # "wait"
    <3>1. PICK next \in {"stderr", "wait"} : run' = [run EXCEPT ![r].pc = next]
      BY <1>3, <2>2 DEF ReadAll
    <3>2. PICK words, behaviour : \E pc \in {"stdout", "stderr", "wait"} :
             run[r] = [pc |-> pc, argv |-> words, words |-> words, behaviour |-> behaviour]
      <4>1. run[r].pc \in {"stdout", "stderr"}
        BY <1>3, <2>2 DEF ReadAll
      <4> QED
        BY <4>1, Running, Zenon DEF ExecInv
    <3> DEFINE state == [pc |-> next, argv |-> words, words |-> words, behaviour |-> behaviour]
    <3>3. run' = [run EXCEPT ![r] = state]
      <4>1. [run[r] EXCEPT !.pc = next] = state
        BY <3>2
      <4>2. run' = [run EXCEPT ![r] = [run[r] EXCEPT !.pc = next]]
        BY <3>1 DEF ExecInv
      <4> QED
        BY <4>1, <4>2, Zenon
    <3>4. Executing(state)
      BY Zenon DEF Executing
    <3> QED
      BY <3>3, <3>4, ExecOne, Zenon
  <2> QED
    BY <2>1, <2>2
<1>4. ASSUME NEW r \in Request, executeCommand(r) PROVE ExecInv'
  <2>1. run' = [run EXCEPT ![r] = [pc |-> "done"]]
    BY <1>4 DEF executeCommand
  <2>2. Executing([pc |-> "done"])
    BY Zenon DEF Executing
  <2> QED
    BY <2>1, <2>2, ExecOne, Zenon
<1>5. ASSUME NEW r \in Request, ProgramEnds(r) \/ Deadline(r) PROVE ExecInv'
  BY <1>1, <1>5 DEF ProgramEnds, Deadline
<1>6. CASE MetaNext
  BY <1>1, <1>6 DEF MetaNext, runCommands, runCommand, Publish, Get, CopyEntry, execVars
<1>7. CASE UNCHANGED commandsVars
  BY <1>1, <1>7 DEF commandsVars, execVars
<1> QED
  BY <1>2, <1>3, <1>4, <1>5, <1>6, <1>7, Zenon DEF ExecNext

\* The program that a request starts gets the words that were configured, for every
\* list of words and both kinds of quotes (ParseCommandLine, execute).
THEOREM ArgvOfTheLine == CommandsSpec => []ArgvIsWords
<1>1. CommandsInit => ExecInv
  BY Zenon DEF CommandsInit, ExecInv, Executing
<1>2. ExecInv => ArgvIsWords
  <2> SUFFICES ASSUME ExecInv, NEW r \in Request, run[r].pc = "stdout" PROVE run[r].argv = run[r].words
    BY DEF ArgvIsWords
  <2>1. Executing(run[r])
    BY DEF ExecInv
  <2>2. PICK words, behaviour : \E pc \in {"stdout", "stderr", "wait"} :
           run[r] = [pc |-> pc, argv |-> words, words |-> words, behaviour |-> behaviour]
    BY <2>1, Running, Zenon
  <2> QED
    BY <2>2
<1> QED
  BY <1>1, <1>2, ExecStep, PTL DEF CommandsSpec
=============================================================================
