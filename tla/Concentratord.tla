--------------------------- MODULE Concentratord ---------------------------
(* The backend for the ChirpStack Concentratord (concentratord.go): an event *)
(* loop on a SUB socket, and commands on a REQ socket that share commandMux  *)
(* with the recovery of both sockets.                                        *)
(*                                                                           *)
(* A socket is open, broken (its connection is gone, the next Recv fails) or *)
(* none (cancelled, or never dialled).  A dial that fails is retried after a *)
(* second, which is a stuttering step.                                       *)
EXTENDS Naturals, Sequences, FiniteSets

CONSTANTS
    Downlink,     \* calls of SendDownlinkFrame
    Config,       \* calls of ApplyConfiguration
    GatewayID,    \* the request for the gateway id
    Loop,         \* the event loop, as a holder of commandMux
    Free,         \* commandMux is free
    Bandwidth,    \* bandwidths of the concentrator in Hz
    CRCCheck,     \* crc_check
    MaxFaults     \* bound: broken connections and stops of the daemon

Call == Downlink \cup Config \cup {GatewayID}

ASSUME ConcentratordConstants ==
    /\ Downlink \cap Config = {} /\ GatewayID \notin Downlink \cup Config
    /\ {Loop, Free} \cap Call = {} /\ Loop # Free
    /\ \A bw \in Bandwidth : bw \in Nat /\ bw % 1000 = 0
    /\ CRCCheck \in BOOLEAN /\ MaxFaults \in Nat

VARIABLES
    daemon,       \* the concentratord runs
    faults,       \* number of faults so far
    eventSock,    \* state of the event socket
    commandSock,  \* state of the command socket
    inbox,        \* requests the daemon has received on the command socket
    replies,      \* replies that wait in the command socket
    commandMux,   \* holder of commandMux
    loop,         \* where Start and eventLoop are
    call,         \* where each call is
    heard,        \* bandwidths, in kHz, of uplinks handed to the forwarder
    sentHz,       \* bandwidth of each downlink as sent to the daemon, or 0
    acks,         \* history: acknowledgements: the call and what was answered
    broken,       \* history: the command socket has lost its connection
    exited        \* log.Fatal

sockVars == <<eventSock, commandSock, inbox, replies>>
envVars == <<daemon, faults, broken>>
concentratordVars ==
    <<envVars, sockVars, commandMux, loop, call, heard, sentHz, acks, exited>>

\* Start and eventLoop, in this order; the loop goes back to "lock" after an error.
Starting == {"startEvent", "startCommand", "startID"}

ConcentratordInit ==
    /\ daemon \in BOOLEAN
    /\ faults = 0 /\ broken = FALSE /\ exited = FALSE
    /\ eventSock = "none" /\ commandSock = "none"
    /\ inbox = {} /\ replies = <<>>
    /\ commandMux = Free
    /\ loop = "startEvent"
    /\ call = [c \in Call |-> "idle"]
    /\ heard = {} /\ sentHz = [d \in Downlink |-> 0] /\ acks = {}

----------------------------------------------------------------------------
(* The daemon and the connections *)

Gone(sock) == IF sock = "open" THEN "broken" ELSE sock

\* The daemon stops and both connections with it.
DaemonStops ==
    /\ daemon /\ faults < MaxFaults
    /\ daemon' = FALSE /\ faults' = faults + 1
    /\ eventSock' = Gone(eventSock) /\ commandSock' = Gone(commandSock)
    /\ inbox' = {}
    /\ broken' = (broken \/ commandSock = "open")
    /\ UNCHANGED <<replies, commandMux, loop, call, heard, sentHz, acks, exited>>

DaemonStarts ==
    /\ ~daemon
    /\ daemon' = TRUE
    /\ UNCHANGED <<faults, broken, sockVars, commandMux, loop, call, heard, sentHz, acks, exited>>

\* Only one of the sockets loses its connection.
ConnectionLost ==
    /\ faults < MaxFaults
    /\ faults' = faults + 1
    /\ \/ /\ eventSock = "open" /\ eventSock' = "broken"
          /\ UNCHANGED <<commandSock, inbox, broken>>
       \/ /\ commandSock = "open" /\ commandSock' = "broken"
          /\ inbox' = {} /\ broken' = TRUE
          /\ UNCHANGED eventSock
    /\ UNCHANGED <<daemon, replies, commandMux, loop, call, heard, sentHz, acks, exited>>

\* A downlink is acknowledged, or answered by an empty message if it failed.
DaemonReplies(c, empty) ==
    /\ daemon /\ c \in inbox
    /\ inbox' = inbox \ {c}
    /\ replies' = Append(replies, [to |-> c, empty |-> empty])
    /\ UNCHANGED <<envVars, eventSock, commandSock, commandMux, loop, call, heard, sentHz, acks,
                   exited>>

----------------------------------------------------------------------------
(* Start and the event loop *)

dialEventSock == daemon /\ eventSock' = "open"

\* A new command socket has nothing to do with the requests of the former one.
dialCommandSock == daemon /\ commandSock' = "open" /\ inbox' = {} /\ replies' = <<>>

\* Start: both sockets, then the gateway id; without an id the program ends.
Start ==
    /\ ~exited
    /\ \/ /\ loop = "startEvent" /\ dialEventSock
          /\ loop' = "startCommand"
          /\ UNCHANGED <<commandSock, inbox, replies, call>>
       \/ /\ loop = "startCommand" /\ dialCommandSock
          /\ loop' = "startID"
          /\ call' = [call EXCEPT ![GatewayID] = "lock"]
          /\ UNCHANGED eventSock
       \/ /\ loop = "startID" /\ call[GatewayID] = "done"
          /\ loop' = "recv"
          /\ UNCHANGED <<sockVars, call>>
    /\ UNCHANGED <<envVars, commandMux, heard, sentHz, acks, exited>>

\* eventLoop: Recv fails.
RecvFails ==
    /\ ~exited /\ loop = "recv" /\ eventSock = "broken"
    /\ loop' = "lock"
    /\ UNCHANGED <<envVars, sockVars, commandMux, call, heard, sentHz, acks, exited>>

\* Bug: the recovery does not take commandMux.
Recover_Unlocked ==
    /\ ~exited /\ loop = "lock"
    /\ commandMux' = commandMux
    /\ eventSock' = "none" /\ commandSock' = "none" /\ inbox' = {} /\ replies' = <<>>
    /\ loop' = "dialEvent"
    /\ UNCHANGED <<envVars, call, heard, sentHz, acks, exited>>

\* eventLoop takes commandMux and cancels both sockets ...
Recover ==
    /\ ~exited /\ loop = "lock" /\ commandMux = Free
    /\ commandMux' = Loop
    /\ eventSock' = "none" /\ commandSock' = "none" /\ inbox' = {} /\ replies' = <<>>
    /\ loop' = "dialEvent"
    /\ UNCHANGED <<envVars, call, heard, sentHz, acks, exited>>

\* Bug: the event socket is dialled once.
dialEventSockLoop_Once ==
    /\ ~exited /\ loop = "dialEvent"
    /\ eventSock' = IF daemon THEN "open" ELSE "none"
    /\ loop' = "dialCommand"
    /\ UNCHANGED <<envVars, commandSock, inbox, replies, commandMux, call, heard, sentHz, acks,
                   exited>>

\* ... and dials them again, the event socket first.
dialEventSockLoop ==
    /\ ~exited /\ loop = "dialEvent" /\ dialEventSock
    /\ loop' = "dialCommand"
    /\ UNCHANGED <<envVars, commandSock, inbox, replies, commandMux, call, heard, sentHz, acks,
                   exited>>

\* Bug: commandMux is not released.
dialCommandSockLoop_Held ==
    /\ ~exited /\ loop = "dialCommand" /\ dialCommandSock
    /\ loop' = "recv"
    /\ UNCHANGED <<envVars, commandMux, eventSock, call, heard, sentHz, acks, exited>>

dialCommandSockLoop ==
    /\ ~exited /\ loop = "dialCommand" /\ dialCommandSock
    /\ commandMux' = Free
    /\ loop' = "recv"
    /\ UNCHANGED <<envVars, eventSock, call, heard, sentHz, acks, exited>>

\* Bug: Hz are not converted.
handleUplinkFrame_Hz(event) ==
    heard' = IF (CRCCheck /\ ~event.crcOk) \/ ~event.matches THEN heard
             ELSE heard \cup {event.hz}

\* handleUplinkFrame: the CRC check, Hz to kHz, the filters.
handleUplinkFrame(event) ==
    heard' = IF (CRCCheck /\ ~event.crcOk) \/ ~event.matches THEN heard
             ELSE heard \cup {event.hz \div 1000}

\* handleGatewayStats: statistics are handed on; of them nothing is kept here.
handleGatewayStats == heard' = heard

\* eventLoop: a message.
HandleEvent(event) ==
    /\ ~exited /\ daemon /\ loop = "recv" /\ eventSock = "open"
    /\ IF event.kind = "up" THEN handleUplinkFrame(event) ELSE handleGatewayStats
    /\ UNCHANGED <<envVars, sockVars, commandMux, loop, call, sentHz, acks, exited>>

----------------------------------------------------------------------------
(* Commands *)

\* The forwarder starts a goroutine; kHz to Hz.  No command arrives before the
\* gateway has been subscribed at the end of Start.
SendDownlinkFrame(d) ==
    /\ ~exited /\ loop \notin Starting /\ call[d] = "idle"
    /\ \E khz \in heard : sentHz' = [sentHz EXCEPT ![d] = khz * 1000]
    /\ call' = [call EXCEPT ![d] = "lock"]
    /\ UNCHANGED <<envVars, sockVars, commandMux, loop, heard, acks, exited>>

ApplyConfiguration(c) ==
    /\ ~exited /\ loop \notin Starting /\ call[c] = "idle"
    /\ call' = [call EXCEPT ![c] = "lock"]
    /\ UNCHANGED <<envVars, sockVars, commandMux, loop, heard, sentHz, acks, exited>>

\* Bug: commandRequest does not take commandMux.
Lock_None(c) ==
    /\ call[c] = "lock"
    /\ call' = [call EXCEPT ![c] = "send"]
    /\ UNCHANGED <<sockVars, commandMux, acks>>

Lock(c) ==
    /\ call[c] = "lock" /\ commandMux = Free
    /\ commandMux' = c
    /\ call' = [call EXCEPT ![c] = "send"]
    /\ UNCHANGED <<sockVars, acks>>

\* A request on a socket without a connection may be accepted and lost.
Send(c) ==
    /\ call[c] = "send"
    /\ commandSock # "none"
    /\ inbox' = IF commandSock = "open" THEN inbox \cup {c} ELSE inbox
    /\ call' = [call EXCEPT ![c] = "recv"]
    /\ UNCHANGED <<eventSock, commandSock, replies, commandMux, acks>>

\* The reply; of a downlink it is the acknowledgement, unless it is empty.
Recv(c) ==
    /\ call[c] = "recv" /\ replies # <<>>
    /\ replies' = Tail(replies)
    /\ call' = [call EXCEPT ![c] = "done"]
    /\ acks' = IF c \in Downlink /\ ~Head(replies).empty
               THEN acks \cup {[of |-> c, to |-> Head(replies).to]} ELSE acks
    /\ commandMux' = Free
    /\ UNCHANGED <<eventSock, commandSock, inbox>>

\* Send or Recv fails: the socket is replaced, by one dial only.
Fails(c) ==
    /\ commandSock # "open"
    /\ call[c] = "send" \/ (call[c] = "recv" /\ replies = <<>>)
    /\ commandSock' = IF daemon THEN "open" ELSE "none"
    /\ inbox' = {} /\ replies' = <<>>
    /\ call' = [call EXCEPT ![c] = "error"]
    /\ commandMux' = Free
    /\ UNCHANGED <<eventSock, acks>>

commandRequest(c) ==
    /\ ~exited
    /\ Lock(c) \/ Send(c) \/ Recv(c) \/ Fails(c)
    /\ UNCHANGED <<envVars, loop, heard, sentHz, exited>>

\* Every caller ends the program when its request fails.
Fatal(c) ==
    /\ call[c] = "error" /\ ~exited
    /\ exited' = TRUE
    /\ UNCHANGED <<envVars, sockVars, commandMux, loop, call, heard, sentHz, acks>>

----------------------------------------------------------------------------

Event == [kind : {"up", "stats"}, crcOk : BOOLEAN, matches : BOOLEAN, hz : Bandwidth]

BackendStep ==
    \/ Start \/ RecvFails \/ Recover \/ dialEventSockLoop \/ dialCommandSockLoop
    \/ \E c \in Call : commandRequest(c) \/ Fatal(c)

DaemonStep ==
    \/ DaemonStops \/ DaemonStarts \/ ConnectionLost
    \/ \E c \in Call, empty \in BOOLEAN : DaemonReplies(c, empty)

ConcentratordNext ==
    \/ BackendStep
    \/ DaemonStep
    \/ \E event \in Event : HandleEvent(event)
    \/ \E d \in Downlink : SendDownlinkFrame(d)
    \/ \E c \in Config : ApplyConfiguration(c)

ConcentratordSpec == ConcentratordInit /\ [][ConcentratordNext]_concentratordVars

\* The goroutines run; the daemon is started again and answers what it is asked.
ConcentratordFairness ==
    /\ WF_concentratordVars(BackendStep)
    /\ \A c \in Call : WF_concentratordVars(commandRequest(c))
    /\ WF_concentratordVars(DaemonStarts)
    /\ WF_concentratordVars(\E c \in Call, empty \in BOOLEAN : DaemonReplies(c, empty))

FairConcentratordSpec == ConcentratordSpec /\ ConcentratordFairness

----------------------------------------------------------------------------
(* Properties *)

Sock == {"open", "broken", "none"}

\* Types of the variables; every request the daemon holds has a caller that
\* waits for the reply.
ConcentratordTypeOK ==
    /\ eventSock \in Sock /\ commandSock \in Sock
    /\ commandMux \in Call \cup {Loop, Free}
    /\ loop \in Starting \cup {"recv", "lock", "dialEvent", "dialCommand"}
    /\ call \in [Call -> {"idle", "lock", "send", "recv", "done", "error"}]
    /\ \A c \in inbox \cup {replies[i].to : i \in DOMAIN replies} : call[c] = "recv"
    /\ faults \in 0..MaxFaults /\ {daemon, broken, exited} \subseteq BOOLEAN

\* The acknowledgement published for a downlink is the reply to that downlink,
\* although commands run concurrently and the loop replaces the socket under them.
AckIsOwn == \A a \in acks : a.to = a.of

\* The recovery of the event socket never costs a command its socket: the program
\* only ends after the command socket itself lost its connection.
ExitIsJustified == (exited \/ \E c \in Call : call[c] = "error") => broken

\* A downlink leaves with a bandwidth of the concentrator: the conversions to and
\* from kHz on the two paths cancel out.
BandwidthKept == \A d \in Downlink : sentHz[d] # 0 => sentHz[d] \in Bandwidth

\* A broken event socket is replaced and the loop receives again, or the program
\* has ended (to be started again): the bridge never stays deaf.
LoopRecovers == (loop = "recv" /\ eventSock # "open") ~> (loop = "recv" /\ eventSock = "open") \/ exited

\* Every command that waits for commandMux gets its turn and an answer.
CallsEnd == \A c \in Call : (call[c] = "lock") ~> (call[c] = "done" \/ exited)
=============================================================================
