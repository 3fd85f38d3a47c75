-------------------------- MODULE SemtechUdpProofs --------------------------
(* The acknowledgements of the Semtech UDP backend and the truth of the      *)
(* reports that are made of them, for every number of gateways, downlinks    *)
(* and items and every behaviour of the network.                             *)
EXTENDS SemtechUdp, TLAPS

----------------------------------------------------------------------------
(* The inductive invariant *)

Answer == {"OK", "REFUSED", "UNKNOWN"}
Index(d) == 1..Items[d]

\* UdpTypeOK, and the types of what it does not speak of.
UdpTypes ==
    /\ UdpTypeOK
    /\ DOMAIN txAckItems = Downlink /\ DOMAIN done = Downlink
    /\ \A a \in txAck : /\ a.downlink \in Downlink /\ a.item \in Index(a.downlink)
                        /\ a.status \in Answer
    /\ \A h \in handlers : h.status \in Answer

Transmitted(d) == \E i \in Index(d) : "OK" \in done[d][i]

\* Whoever says OK has it from a gateway that transmitted an item.
OkIsReal ==
    /\ \A a \in txAck : a.status = "OK" => Transmitted(a.downlink)
    /\ \A h \in handlers : h.status = "OK" => Transmitted(h.downlink)
    /\ \A d \in Downlink : \A i \in Index(d) : txAckItems[d][i] = "OK" => Transmitted(d)
    /\ \A r \in published : /\ r.downlink \in Downlink /\ DOMAIN r.items = Index(r.downlink)
                            /\ ~r.error => Transmitted(r.downlink)

UdpInv == UdpTypes /\ OkIsReal

LEMMA UdpInvInit == UdpInit => UdpInv
<1> SUFFICES ASSUME UdpInit PROVE UdpInv
  OBVIOUS
<1> USE UdpConstants DEF UdpInit
<1>1. Registered = {} /\ DOMAIN cache = {}
  BY DEF Registered
<1>2. UdpTypes
  BY <1>1 DEF UdpTypes, UdpTypeOK, Status
<1>3. OkIsReal
  BY DEF OkIsReal, Index
<1> QED
  BY <1>2, <1>3 DEF UdpInv

----------------------------------------------------------------------------
(* Types *)

LEMMA CacheType ==
    ASSUME UdpTypes, NEW d \in Downlink, NEW i \in Index(d), sendDownlinkFrame(d, i)
    PROVE  /\ DOMAIN cache' \subseteq Downlink
           /\ \A e \in DOMAIN cache' : cache'[e] \in 1..Items[e]
           /\ \A p \in pullResp' : p.downlink \in Downlink /\ p.item \in 1..Items[p.downlink]
BY DEF UdpTypes, UdpTypeOK, sendDownlinkFrame, With, Index

LEMMA RegistryTypesStep ==
    ASSUME UdpTypes, RegistryNext
    PROVE  UdpTypes'
<1> USE UdpConstants DEF UdpTypes, UdpTypeOK, Registered, netVars, ackVars
<1>1. ASSUME NEW g \in Gateway, handlePullData(g) PROVE UdpTypes'
  <2>1. DOMAIN registry' = DOMAIN registry \cup {g}
    BY <1>1 DEF handlePullData, With
  <2>2. \A k \in DOMAIN registry' : registry'[k] = IF k = g THEN 0 ELSE registry[k]
    BY <1>1 DEF handlePullData, With
  <2>3. 0 \in 0..(CleanupAge + 1)
    OBVIOUS
  <2>4. \A k \in DOMAIN registry' : k \in Gateway /\ registry'[k] \in 0..(CleanupAge + 1)
    <3> TAKE k \in DOMAIN registry'
    <3>1. CASE k = g
      BY <2>2, <2>3, <3>1
    <3>2. CASE k # g
      BY <2>1, <2>2, <3>2
    <3> QED
      BY <3>1, <3>2
  <2>5. spawned' \subseteq [gw : Gateway, subscribe : BOOLEAN]
    <3>1. [gw |-> g, subscribe |-> TRUE] \in [gw : Gateway, subscribe : BOOLEAN]
      OBVIOUS
    <3>2. spawned' = spawned \cup {[gw |-> g, subscribe |-> TRUE]}
      BY <1>1 DEF handlePullData
    <3> QED
      BY <3>1, <3>2, Zenon
  <2>6. UNCHANGED <<alive, desired, sent, cache, txAckItems, netVars, ackVars>>
    BY <1>1 DEF handlePullData
  <2> QED
    BY <2>4, <2>5, <2>6
<1>2. ASSUME NEW g \in Gateway, Switch(g) PROVE UdpTypes'
  BY <1>2 DEF Switch
<1>3. ASSUME NEW e \in spawned, SetGatewaySubscription(e) PROVE UdpTypes'
  BY <1>3 DEF SetGatewaySubscription
<1>4. CASE cleanup
  BY <1>4 DEF cleanup, Without, Expired
<1>5. CASE Tick
  BY <1>5 DEF Tick
<1> QED
  BY <1>1, <1>2, <1>3, <1>4, <1>5 DEF RegistryNext

LEMMA DownlinkTypesStep ==
    ASSUME UdpTypes, DownlinkNext
    PROVE  UdpTypes'
<1> USE UdpConstants DEF UdpTypes, UdpTypeOK, Registered, registryVars, netVars, ackVars, Index, Answer
<1>1. ASSUME NEW d \in Downlink, SendDownlinkFrame(d) PROVE UdpTypes'
  <2>1. 1 \in Index(d) /\ sendDownlinkFrame(d, 1)
    BY <1>1 DEF SendDownlinkFrame
  <2> QED
    BY <1>1, <2>1, CacheType DEF SendDownlinkFrame
<1>2. ASSUME NEW d \in Downlink, CacheExpires(d) PROVE UdpTypes'
  BY <1>2 DEF CacheExpires, Without
<1>3. ASSUME NEW p \in pullResp, NEW answer \in Answer, GatewayAnswers(p, answer) PROVE UdpTypes'
  BY <1>3 DEF GatewayAnswers
<1>4. CASE Lose
  BY <1>4 DEF Lose
<1>5. ASSUME NEW a \in txAck, LookUp(a) PROVE UdpTypes'
  BY <1>5 DEF LookUp
<1>6. ASSUME NEW h \in handlers, handleTXACK(h) PROVE UdpTypes'
  <2>1. h.downlink \in Downlink /\ h.index \in Index(h.downlink)
    OBVIOUS
  <2>2. CASE Refused(h)
    <3>1. \A d \in Downlink : txAckItems'[d] \in [1..Items[d] -> Status]
      BY <2>1, <2>2 DEF Refused, Status
    <3>2. CASE h.index < Items[h.downlink]
      <4>1. h.index + 1 \in Index(h.downlink) /\ sendDownlinkFrame(h.downlink, h.index + 1)
        BY <2>1, <2>2, <3>2 DEF Refused
      <4> QED
        BY <1>6, <2>1, <2>2, <3>1, <3>2, <4>1, CacheType DEF handleTXACK, Refused
    <3>3. CASE ~ (h.index < Items[h.downlink])
      BY <1>6, <2>1, <2>2, <3>1, <3>3 DEF handleTXACK, Refused
    <3> QED
      BY <3>2, <3>3
  <2>3. CASE Accepted(h)
    BY <1>6, <2>1, <2>3 DEF handleTXACK, Accepted, Status
  <2>4. CASE Unknown(h)
    BY <1>6, <2>4 DEF handleTXACK, Unknown
  <2> QED
    BY <1>6, <2>2, <2>3, <2>4 DEF handleTXACK
<1>7. ASSUME NEW d \in reporting, downlinkTxAckFunc(d) PROVE UdpTypes'
  BY <1>7 DEF downlinkTxAckFunc
<1> QED
  BY <1>1, <1>2, <1>3, <1>4, <1>5, <1>6, <1>7 DEF DownlinkNext

LEMMA TypesStep ==
    ASSUME UdpTypes, [UdpNext]_udpVars
    PROVE  UdpTypes'
<1>1. CASE UNCHANGED udpVars
  BY <1>1 DEF udpVars, registryVars, netVars, ackVars, UdpTypes, UdpTypeOK, Registered
<1> QED
  BY <1>1, RegistryTypesStep, DownlinkTypesStep DEF UdpNext

----------------------------------------------------------------------------
(* Successes *)

LEMMA OkStep ==
    ASSUME UdpTypes, OkIsReal, [UdpNext]_udpVars
    PROVE  OkIsReal'
<1> USE DEF registryVars, netVars, ackVars
<1>1. ASSUME UNCHANGED <<txAckItems, netVars, ackVars>> PROVE OkIsReal'
  BY <1>1 DEF OkIsReal, Transmitted
<1>2. ASSUME NEW p \in pullResp, NEW answer \in Answer, GatewayAnswers(p, answer) PROVE OkIsReal'
  <2>1. p.downlink \in Downlink /\ p.item \in Index(p.downlink)
    BY DEF UdpTypes, UdpTypeOK, Index
  <2>2. \A d \in Downlink : Transmitted(d) => Transmitted(d)'
    BY <1>2, <2>1 DEF GatewayAnswers, Transmitted, UdpTypes, UdpTypeOK, Index
  <2>3. answer = "OK" => Transmitted(p.downlink)'
    BY <1>2, <2>1 DEF GatewayAnswers, Transmitted, UdpTypes, UdpTypeOK, Index
  <2> QED
    BY <1>2, <2>1, <2>2, <2>3 DEF GatewayAnswers, OkIsReal, UdpTypes, UdpTypeOK
<1>3. CASE Lose
  BY <1>3 DEF Lose, OkIsReal, Transmitted
<1>4. ASSUME NEW a \in txAck, LookUp(a) PROVE OkIsReal'
  BY <1>4 DEF LookUp, OkIsReal, Transmitted
<1>5. ASSUME NEW h \in handlers, handleTXACK(h) PROVE OkIsReal'
  <2>1. \A d \in Downlink : \A i \in Index(d) :
            txAckItems'[d][i] = "OK" => Transmitted(d)
    <3>1. h.downlink \in Downlink /\ h.index \in Index(h.downlink)
      BY DEF UdpTypes, UdpTypeOK, Index
    <3>2. CASE Refused(h)
      <4>1. \A d \in Downlink : \A i \in Index(d) :
                txAckItems'[d][i] = "OK" => txAckItems[d][i] = "OK"
        BY <3>1, <3>2 DEF Refused, UdpTypes, UdpTypeOK, Index
      <4> QED
        BY <4>1 DEF OkIsReal
    <3>3. CASE Accepted(h)
      <4>1. \A d \in Downlink : \A i \in Index(d) :
                txAckItems'[d][i] = "OK" => d = h.downlink \/ txAckItems[d][i] = "OK"
        BY <3>1, <3>3 DEF Accepted, UdpTypes, UdpTypeOK, Index
      <4>2. Transmitted(h.downlink)
        BY <3>3 DEF Accepted, OkIsReal
      <4> QED
        BY <4>1, <4>2 DEF OkIsReal
    <3>4. CASE Unknown(h)
      BY <3>4 DEF Unknown, OkIsReal
    <3> QED
      BY <1>5, <3>2, <3>3, <3>4 DEF handleTXACK
  <2> QED
    BY <1>5, <2>1 DEF handleTXACK, OkIsReal, Transmitted
<1>6. ASSUME NEW d \in reporting, downlinkTxAckFunc(d) PROVE OkIsReal'
  <2>1. d \in Downlink /\ DOMAIN txAckItems[d] = Index(d)
    BY DEF UdpTypes, UdpTypeOK, Index
  <2>2. (~ \A i \in Index(d) : txAckItems[d][i] # "OK") => Transmitted(d)
    BY <2>1 DEF OkIsReal
  <2> QED
    BY <1>6, <2>1, <2>2 DEF downlinkTxAckFunc, OkIsReal, Transmitted, Index
<1>7. ASSUME RegistryNext \/ \E d \in Downlink : SendDownlinkFrame(d) \/ CacheExpires(d)
      PROVE  OkIsReal'
  <2>1. UNCHANGED <<txAckItems, done, txAck, ackVars>>
    BY <1>7 DEF RegistryNext, handlePullData, Switch, SetGatewaySubscription, cleanup, Tick,
       SendDownlinkFrame, CacheExpires
  <2> QED
    BY <2>1 DEF OkIsReal, Transmitted
<1>8. CASE UNCHANGED udpVars
  BY <1>1, <1>8 DEF udpVars
<1> QED
  BY <1>2, <1>3, <1>4, <1>5, <1>6, <1>7, <1>8 DEF UdpNext, DownlinkNext, Answer

LEMMA UdpInvStep == UdpInv /\ [UdpNext]_udpVars => UdpInv'
BY TypesStep, OkStep DEF UdpInv

----------------------------------------------------------------------------
(* The truth of the reports.  As long as no TX_ACK arrives twice, a downlink *)
(* has one packet, one handler or one report under way at most.              *)

\* The items of d before i were refused and none after it was tried.
Current(d, i) ==
    \A j \in Index(d) :
        /\ j < i => done[d][j] = {"REFUSED"} /\ txAckItems[d][j] = "REFUSED"
        /\ j > i => done[d][j] = {} /\ txAckItems[d][j] = "IGNORED"

\* Item i of d is under way: nothing is noted for it yet, the gateway answered it
\* as given, and the cache, unless it expired, points to it.
UnderWay(d, i, answers) ==
    /\ d \in sent /\ i \in Index(d) /\ Current(d, i)
    /\ done[d][i] = answers /\ txAckItems[d][i] = "IGNORED"
    /\ d \in DOMAIN cache => cache[d] = i

\* The retry of d ended with item i, which was transmitted or is the last one.
Settled(d, i) ==
    /\ d \in sent /\ i \in Index(d) /\ Current(d, i)
    /\ txAckItems[d][i] \in {"OK", "REFUSED"} /\ done[d][i] = {txAckItems[d][i]}
    /\ txAckItems[d][i] = "REFUSED" => i = Items[d]

Records ==
    /\ pullResp \subseteq [downlink : Downlink, item : Nat]
    /\ txAck \subseteq [downlink : Downlink, item : Nat, status : Answer]
    /\ handlers \subseteq [downlink : Downlink, index : Nat, status : Answer, copy : {0}]

\* What every packet, handler and report of d says.  That two of them exclude each
\* other follows, except for a TX_ACK and its handler.
At(d) ==
    /\ \A p \in pullResp : p.downlink = d => UnderWay(d, p.item, {})
    /\ \A a \in txAck : a.downlink = d => UnderWay(d, a.item, {a.status})
    /\ \A h \in handlers : h.downlink = d =>
          UnderWay(d, h.index, {h.status}) /\ \A a \in txAck : a.downlink # d
    /\ d \in reporting => \E i \in Index(d) : Settled(d, i)
    /\ \A r \in published : r.downlink = d =>
          r.items = txAckItems[d] /\ \E i \in Index(d) : Settled(d, i)
    /\ d \notin sent => Current(d, 0) /\ d \notin DOMAIN cache

Sequential == repeated = 0 => Records /\ \A d \in Downlink : At(d)

\* One item is under way, with one set of answers, and then nothing is settled.
LEMMA OneUnderWay ==
    ASSUME NEW d \in Downlink, NEW i, NEW x, UnderWay(d, i, x)
    PROVE  /\ \A j, y : UnderWay(d, j, y) => j = i /\ y = x
           /\ \A j : ~ Settled(d, j)
<1> USE UdpConstants DEF Index
<1>1. Items[d] \in Nat /\ i \in 1..Items[d]
  BY DEF UnderWay
<1>2. ASSUME NEW j, NEW y, UnderWay(d, j, y) PROVE j = i /\ y = x
  <2>1. j \in 1..Items[d]
    BY <1>2 DEF UnderWay
  <2>2. ~ (i < j) /\ ~ (j < i)
    BY <1>1, <1>2, <2>1 DEF UnderWay, Current
  <2>3. i = j
    BY <1>1, <2>1, <2>2
  <2> QED
    BY <1>2, <2>3 DEF UnderWay
<1>3. ASSUME NEW j, Settled(d, j) PROVE FALSE
  <2>1. j \in 1..Items[d]
    BY <1>3 DEF Settled
  <2>2. j # i
    BY <1>3 DEF UnderWay, Settled
  <2>3. CASE i < j
    BY <1>1, <1>3, <2>1, <2>3 DEF UnderWay, Settled, Current
  <2>4. CASE j < i
    <3>1. txAckItems[d][j] = "REFUSED"
      BY <2>1, <2>4 DEF UnderWay, Current
    <3> QED
      BY <1>1, <1>3, <2>4, <3>1 DEF Settled
  <2> QED
    BY <1>1, <2>1, <2>2, <2>3, <2>4
<1> QED
  BY <1>2, <1>3

\* A step that adds nothing for d and notes nothing for it.
Same(d) ==
    /\ done'[d] = done[d] /\ txAckItems'[d] = txAckItems[d]
    /\ d \in sent' <=> d \in sent
    /\ d \in DOMAIN cache' => d \in DOMAIN cache /\ cache'[d] = cache[d]
    /\ \A p \in pullResp' : p.downlink = d => p \in pullResp
    /\ \A a \in txAck' : a.downlink = d => a \in txAck
    /\ \A h \in handlers' : h.downlink = d => h \in handlers
    /\ d \in reporting' => d \in reporting
    /\ \A r \in published' : r.downlink = d => r \in published

LEMMA SameStep ==
    ASSUME NEW d \in Downlink, At(d), Same(d)
    PROVE  At(d)'
<1>1. \A i : Current(d, i) => Current(d, i)'
  BY DEF Same, Current
<1>2. \A i, x : UnderWay(d, i, x) => UnderWay(d, i, x)'
  BY <1>1 DEF Same, UnderWay
<1>3. \A i : Settled(d, i) => Settled(d, i)'
  BY <1>1 DEF Same, Settled
<1> QED
  BY <1>1, <1>2, <1>3 DEF Same, At

\* The first item of a downlink that is new.
LEMMA SendAt ==
    ASSUME UdpTypes, NEW d \in Downlink, At(d), SendDownlinkFrame(d)
    PROVE  At(d)'
<1> USE UdpConstants DEF registryVars, ackVars, Index
<1>1. /\ \A p \in pullResp : p.downlink # d
      /\ \A a \in txAck : a.downlink # d
      /\ \A h \in handlers : h.downlink # d
      /\ d \notin reporting
      /\ \A r \in published : r.downlink # d
  BY DEF SendDownlinkFrame, At, UnderWay, Settled
<1>2. \A p \in pullResp' : p.downlink = d => p.item = 1
  BY <1>1 DEF SendDownlinkFrame, sendDownlinkFrame
<1>3. UnderWay(d, 1, {})'
  <2>1. 1 \in Index(d) /\ d \in sent' /\ cache'[d] = 1 /\ done' = done /\ txAckItems' = txAckItems
    BY DEF SendDownlinkFrame, sendDownlinkFrame, With
  <2>2. Current(d, 0)
    BY DEF SendDownlinkFrame, At
  <2>3. Current(d, 1)' /\ done'[d][1] = {} /\ txAckItems'[d][1] = "IGNORED"
    BY <2>1, <2>2 DEF Current
  <2> QED
    BY <2>1, <2>3 DEF UnderWay
<1>4. UNCHANGED <<txAck, handlers, reporting, published>> /\ d \in sent'
  BY DEF SendDownlinkFrame
<1> QED
  BY <1>1, <1>2, <1>3, <1>4 DEF At

\* The item has its answer.
LEMMA AnswerAt ==
    ASSUME UdpTypes, Records, NEW p \in pullResp, NEW answer \in Answer, GatewayAnswers(p, answer),
           At(p.downlink)
    PROVE  At(p.downlink)'
<1> DEFINE d == p.downlink
           i == p.item
<1> USE DEF registryVars, ackVars, Index
<1>1. d \in Downlink /\ UnderWay(d, i, {})
  BY DEF At, Records
<1>2. /\ \A a \in txAck : a.downlink # d
      /\ \A h \in handlers : h.downlink # d
      /\ d \notin reporting
      /\ \A r \in published : r.downlink # d
  <2>1. \A j, s : ~ UnderWay(d, j, {s})
    BY <1>1, OneUnderWay
  <2> QED
    BY <1>1, <2>1, OneUnderWay DEF At
<1>3. \A q \in pullResp' : q.downlink # d
  BY <1>1, OneUnderWay DEF At, Records, GatewayAnswers
<1>4. \A a \in txAck' : a.downlink = d => a.item = i /\ a.status = answer
  BY <1>2 DEF GatewayAnswers
<1>5. UnderWay(d, i, {answer})'
  <2>1. /\ i \in Index(d) /\ done'[d][i] = {answer}
        /\ \A j \in Index(d) : j # i => done'[d][j] = done[d][j]
    BY <1>1 DEF GatewayAnswers, UnderWay, UdpTypes, UdpTypeOK
  <2>2. UNCHANGED <<sent, cache, txAckItems>>
    BY DEF GatewayAnswers
  <2>3. Current(d, i)'
    BY <1>1, <2>1, <2>2, UdpConstants DEF UnderWay, Current
  <2> QED
    BY <1>1, <2>1, <2>2, <2>3 DEF UnderWay
<1>6. UNCHANGED <<handlers, reporting, published, sent>> /\ d \in sent
  BY <1>1 DEF GatewayAnswers, UnderWay
<1> QED
  BY <1>2, <1>3, <1>4, <1>5, <1>6 DEF At

\* The TX_ACK of an item finds that item in the cache.
LEMMA LookUpAt ==
    ASSUME UdpTypes, Records, NEW a \in txAck, LookUp(a), repeated' = 0, At(a.downlink)
    PROVE  At(a.downlink)'
<1> DEFINE d == a.downlink
<1> USE DEF registryVars
<1>1. d \in Downlink /\ UnderWay(d, a.item, {a.status})
  BY DEF At, Records
<1>2. txAck' = txAck \ {a} /\ repeated = 0
  BY DEF LookUp, UdpTypes, UdpTypeOK
<1>3. /\ \A p \in pullResp : p.downlink # d
      /\ \A h \in handlers : h.downlink # d
      /\ d \notin reporting
      /\ \A r \in published : r.downlink # d
  <2>1. ASSUME NEW p \in pullResp, p.downlink = d PROVE FALSE
    BY <1>1, <2>1, OneUnderWay DEF At
  <2> QED
    BY <1>1, <2>1, OneUnderWay DEF At
<1>4. \A b \in txAck' : b.downlink # d
  <2> SUFFICES ASSUME NEW b \in txAck, b # a, b.downlink = d PROVE FALSE
    BY <1>2
  <2>1. UnderWay(d, b.item, {b.status})
    BY DEF At
  <2>2. b.item = a.item /\ {b.status} = {a.status}
    BY <1>1, <2>1, OneUnderWay
  <2>3. b.status = a.status
    BY <2>2
  <2> QED
    BY <2>2, <2>3 DEF Records
<1>5. \A h \in handlers' : h.downlink = d => h.index = a.item /\ h.status = a.status
  BY <1>1, <1>3 DEF LookUp, UnderWay
<1>6. UNCHANGED <<sent, cache, txAckItems, pullResp, done, reporting, published>> /\ d \in sent
  BY <1>1 DEF LookUp, UnderWay
<1>7. UnderWay(d, a.item, {a.status})'
  BY <1>1, <1>6 DEF UnderWay, Current
<1> QED
  BY <1>3, <1>4, <1>5, <1>6, <1>7 DEF At

\* The answer is noted, and the next item sent, or the report made.
LEMMA HandleAt ==
    ASSUME UdpTypes, Records, NEW h \in handlers, handleTXACK(h), At(h.downlink)
    PROVE  At(h.downlink)'
<1> DEFINE d == h.downlink
           i == h.index
<1> USE UdpConstants DEF registryVars, Index
<1>1. d \in Downlink /\ UnderWay(d, i, {h.status})
  BY DEF At, Records
<1>2. /\ \A p \in pullResp : p.downlink # d
      /\ \A a \in txAck : a.downlink # d
      /\ d \notin reporting
      /\ \A r \in published : r.downlink # d
  <2>1. \A j : ~ UnderWay(d, j, {})
    BY <1>1, OneUnderWay
  <2> QED
    BY <1>1, <2>1, OneUnderWay DEF At
<1>3. \A k \in handlers' : k.downlink # d
  <2> SUFFICES ASSUME NEW k \in handlers, k # h, k.downlink = d PROVE FALSE
    BY DEF handleTXACK
  <2>1. UnderWay(d, k.index, {k.status})
    BY DEF At
  <2>2. k.index = i /\ {k.status} = {h.status}
    BY <1>1, <2>1, OneUnderWay
  <2>3. k.status = h.status
    BY <2>2
  <2> QED
    BY <2>2, <2>3 DEF Records
<1>4. UNCHANGED <<sent, done, txAck, published>> /\ d \in sent /\ i \in 1..Items[d]
  BY <1>1 DEF handleTXACK, UnderWay
<1>5. ASSUME h.status \in {"OK", "REFUSED"},
             txAckItems' = [txAckItems EXCEPT ![d][i] = h.status]
      PROVE  Current(d, i)' /\ txAckItems'[d][i] = h.status /\ done'[d][i] = {h.status}
  <2>1. /\ txAckItems'[d][i] = h.status
        /\ \A j \in Index(d) : j # i => txAckItems'[d][j] = txAckItems[d][j]
    BY <1>1, <1>4, <1>5 DEF UdpTypes, UdpTypeOK
  <2> QED
    BY <1>1, <1>4, <2>1 DEF UnderWay, Current
<1>6. CASE Refused(h)
  <2>1. Current(d, i)' /\ txAckItems'[d][i] = "REFUSED" /\ done'[d][i] = {"REFUSED"}
    BY <1>5, <1>6 DEF Refused
  <2>2. CASE i < Items[d]
    <3>1. i + 1 \in Index(d) /\ sendDownlinkFrame(d, i + 1) /\ reporting' = reporting
      BY <1>1, <1>4, <1>6, <2>2 DEF Refused
    <3>2. \A p \in pullResp' : p.downlink = d => p.item = i + 1
      BY <1>2, <3>1 DEF sendDownlinkFrame
    <3>3. UnderWay(d, i + 1, {})'
      <4>1. d \in DOMAIN cache' => cache'[d] = i + 1
        BY <3>1 DEF sendDownlinkFrame, With
      <4>2. /\ done'[d][i + 1] = {} /\ txAckItems'[d][i + 1] = "IGNORED"
        BY <1>4, <2>1, <3>1 DEF Current
      <4>3. Current(d, i + 1)'
        <5> SUFFICES ASSUME NEW j \in 1..Items[d]
                     PROVE  /\ j < i + 1 => done'[d][j] = {"REFUSED"} /\ txAckItems'[d][j] = "REFUSED"
                            /\ j > i + 1 => done'[d][j] = {} /\ txAckItems'[d][j] = "IGNORED"
          BY DEF Current
        <5>1. CASE j < i
          BY <1>4, <2>1, <5>1 DEF Current
        <5>2. CASE j = i
          BY <1>4, <2>1, <5>2
        <5>3. CASE j > i
          BY <1>4, <2>1, <5>3 DEF Current
        <5> QED
          BY <1>4, <5>1, <5>2, <5>3
      <4> QED
        BY <1>4, <3>1, <4>1, <4>2, <4>3 DEF UnderWay
    <3> QED
      BY <1>2, <1>3, <1>4, <3>1, <3>2, <3>3 DEF At
  <2>3. CASE ~ (i < Items[d])
    <3>1. i = Items[d] /\ UNCHANGED <<cache, pullResp>>
      BY <1>1, <1>4, <1>6, <2>3 DEF Refused
    <3>2. Settled(d, i)'
      BY <1>4, <2>1, <3>1 DEF Settled
    <3> QED
      BY <1>2, <1>3, <1>4, <3>1, <3>2 DEF At
  <2> QED
    BY <2>2, <2>3
<1>7. CASE Accepted(h)
  <2>1. Current(d, i)' /\ txAckItems'[d][i] = "OK" /\ done'[d][i] = {"OK"}
    BY <1>5, <1>7 DEF Accepted
  <2>2. Settled(d, i)'
    BY <1>4, <2>1 DEF Settled
  <2> QED
    BY <1>2, <1>3, <1>4, <1>7, <2>2 DEF At, Accepted
<1>8. CASE Unknown(h)
  BY <1>2, <1>3, <1>4, <1>8 DEF At, Unknown
<1> QED
  BY <1>6, <1>7, <1>8 DEF handleTXACK

\* The report says what is noted, and nothing is noted afterwards.
LEMMA ReportAt ==
    ASSUME UdpTypes, NEW d \in reporting, downlinkTxAckFunc(d), At(d)
    PROVE  At(d)'
<1> USE DEF registryVars, netVars
<1>1. PICK i \in Index(d) : Settled(d, i)
  BY DEF At
<1>2. UNCHANGED <<sent, cache, txAckItems, netVars, handlers>> /\ d \in Downlink
  BY DEF downlinkTxAckFunc, UdpTypes, UdpTypeOK
<1>3. /\ \A p \in pullResp : p.downlink # d
      /\ \A a \in txAck : a.downlink # d
      /\ \A h \in handlers : h.downlink # d
  BY <1>1, <1>2, OneUnderWay DEF At
<1>4. Settled(d, i)'
  BY <1>1, <1>2 DEF Settled, Current
<1>5. \A r \in published' : r.downlink = d => r.items = txAckItems[d]
  BY DEF downlinkTxAckFunc, At
<1>6. d \in sent
  BY <1>1 DEF Settled
<1> QED
  BY <1>2, <1>3, <1>4, <1>5, <1>6 DEF At

\* The kinds of the records; a handler that no TX_ACK was repeated for is copy 0.
LEMMA RecordsStep ==
    ASSUME UdpTypes, Records, [UdpNext]_udpVars, repeated' = 0, repeated = 0
    PROVE  Records'
<1> USE UdpConstants DEF Records, registryVars, netVars, ackVars, Answer, Index
<1>1. ASSUME NEW d \in Downlink, NEW i \in Nat, sendDownlinkFrame(d, i)
      PROVE  pullResp' \subseteq [downlink : Downlink, item : Nat]
  BY <1>1 DEF sendDownlinkFrame
<1>2. ASSUME NEW d \in Downlink, SendDownlinkFrame(d) PROVE Records'
  BY <1>1, <1>2 DEF SendDownlinkFrame
<1>3. ASSUME NEW p \in pullResp, NEW answer \in Answer, GatewayAnswers(p, answer) PROVE Records'
  BY <1>3 DEF GatewayAnswers
<1>4. CASE Lose
  BY <1>4 DEF Lose
<1>5. ASSUME NEW a \in txAck, LookUp(a) PROVE Records'
  <2>1. a.downlink \in DOMAIN cache => cache[a.downlink] \in Nat
    BY DEF UdpTypes, UdpTypeOK
  <2>2. txAck' \subseteq txAck /\ pullResp' = pullResp
    BY <1>5 DEF LookUp
  <2>3. handlers' \subseteq [downlink : Downlink, index : Nat, status : Answer, copy : {0}]
    BY <1>5, <2>1 DEF LookUp
  <2> QED
    BY <2>2, <2>3
<1>6. ASSUME NEW h \in handlers, handleTXACK(h) PROVE Records'
  <2>1. txAck' = txAck /\ handlers' \subseteq handlers
    BY <1>6 DEF handleTXACK
  <2>2. pullResp' = pullResp \/ sendDownlinkFrame(h.downlink, h.index + 1)
    BY <1>6 DEF handleTXACK, Refused, Accepted, Unknown
  <2>3. h.downlink \in Downlink /\ h.index + 1 \in Nat
    OBVIOUS
  <2> QED
    BY <1>1, <2>1, <2>2, <2>3
<1>7. CASE \/ RegistryNext
           \/ \E d \in Downlink : CacheExpires(d)
           \/ \E d \in reporting : downlinkTxAckFunc(d)
           \/ UNCHANGED udpVars
  <2>1. UNCHANGED <<pullResp, txAck, handlers>>
    BY <1>7 DEF RegistryNext, handlePullData, Switch, SetGatewaySubscription, cleanup, Tick,
       CacheExpires, downlinkTxAckFunc, udpVars
  <2> QED
    BY <2>1
<1> QED
  BY <1>2, <1>3, <1>4, <1>5, <1>6, <1>7 DEF UdpNext, DownlinkNext

\* A step concerns one downlink.
LEMMA AtStep ==
    ASSUME UdpTypes, OkIsReal, Records, \A d \in Downlink : At(d), [UdpNext]_udpVars,
           repeated' = 0, NEW e \in Downlink
    PROVE  At(e)'
<1> USE UdpConstants DEF registryVars, netVars, ackVars, Index, Same
<1>1. ASSUME NEW d \in Downlink, SendDownlinkFrame(d) PROVE At(e)'
  <2>1. e # d => Same(e)
    BY <1>1 DEF SendDownlinkFrame, sendDownlinkFrame, With
  <2> QED
    BY <1>1, <2>1, SendAt, SameStep
<1>2. ASSUME NEW d \in Downlink, CacheExpires(d) PROVE At(e)'
  <2>1. Same(e)
    BY <1>2 DEF CacheExpires, Without
  <2> QED
    BY <2>1, SameStep
<1>3. ASSUME NEW p \in pullResp, NEW answer \in Answer, GatewayAnswers(p, answer) PROVE At(e)'
  <2>1. p.downlink \in Downlink
    BY DEF Records
  <2>2. e # p.downlink => Same(e)
    BY <1>3, <2>1 DEF GatewayAnswers, UdpTypes, UdpTypeOK
  <2> QED
    BY <1>3, <2>1, <2>2, AnswerAt, SameStep
<1>4. CASE Lose
  <2>1. Same(e)
    BY <1>4 DEF Lose
  <2> QED
    BY <2>1, SameStep
<1>5. ASSUME NEW a \in txAck, LookUp(a) PROVE At(e)'
  <2>1. a.downlink \in Downlink
    BY DEF Records
  <2>2. e # a.downlink => Same(e)
    BY <1>5, <2>1 DEF LookUp
  <2> QED
    BY <1>5, <2>1, <2>2, LookUpAt, SameStep
<1>6. ASSUME NEW h \in handlers, handleTXACK(h) PROVE At(e)'
  <2>1. h.downlink \in Downlink
    BY DEF Records
  <2>2. ASSUME e # h.downlink PROVE Same(e)
    <3>1. txAckItems'[e] = txAckItems[e] /\ (e \in reporting' => e \in reporting)
      BY <1>6, <2>1, <2>2 DEF handleTXACK, Refused, Accepted, Unknown, UdpTypes
    <3>2. UNCHANGED <<cache, pullResp>> \/ sendDownlinkFrame(h.downlink, h.index + 1)
      BY <1>6 DEF handleTXACK, Refused, Accepted, Unknown
    <3>3. /\ e \in DOMAIN cache' => e \in DOMAIN cache /\ cache'[e] = cache[e]
          /\ \A p \in pullResp' : p.downlink = e => p \in pullResp
      BY <2>2, <3>2 DEF sendDownlinkFrame, With
    <3> QED
      BY <1>6, <3>1, <3>3 DEF handleTXACK
  <2> QED
    BY <1>6, <2>1, <2>2, HandleAt, SameStep
<1>7. ASSUME NEW d \in reporting, downlinkTxAckFunc(d) PROVE At(e)'
  <2>1. d \in Downlink
    BY DEF UdpTypes, UdpTypeOK
  <2>2. e # d => Same(e)
    BY <1>7 DEF downlinkTxAckFunc
  <2> QED
    BY <1>7, <2>1, <2>2, ReportAt, SameStep
<1>8. CASE RegistryNext \/ UNCHANGED udpVars
  <2>1. UNCHANGED <<sent, cache, txAckItems, netVars, ackVars>>
    BY <1>8 DEF RegistryNext, handlePullData, Switch, SetGatewaySubscription, cleanup, Tick, udpVars
  <2>2. Same(e)
    BY <2>1
  <2> QED
    BY <2>2, SameStep
<1> QED
  BY <1>1, <1>2, <1>3, <1>4, <1>5, <1>6, <1>7, <1>8 DEF UdpNext, DownlinkNext, Answer

LEMMA SequentialStep == UdpInv /\ Sequential /\ [UdpNext]_udpVars => Sequential'
<1> SUFFICES ASSUME UdpInv, Sequential, [UdpNext]_udpVars, repeated' = 0
             PROVE  Records' /\ \A d \in Downlink : At(d)'
  BY DEF Sequential
<1>1. repeated \in Nat
  BY UdpConstants DEF UdpInv, UdpTypes, UdpTypeOK
<1>2. UNCHANGED repeated \/ repeated' = repeated + 1
  BY DEF UdpNext, RegistryNext, DownlinkNext, handlePullData, Switch,
     SetGatewaySubscription, cleanup, Tick, SendDownlinkFrame, CacheExpires, GatewayAnswers, Lose,
     LookUp, handleTXACK, downlinkTxAckFunc, udpVars, netVars
<1>3. repeated = 0
  BY <1>1, <1>2
<1> QED
  BY <1>3, RecordsStep, AtStep DEF UdpInv, Sequential

LEMMA SequentialInit == UdpInit => Sequential
<1> SUFFICES ASSUME UdpInit PROVE Records /\ \A d \in Downlink : At(d)
  BY DEF Sequential
<1>1. Records /\ DOMAIN cache = {}
  BY DEF UdpInit, Records
<1>2. \A d \in Downlink : Current(d, 0)
  BY UdpConstants DEF UdpInit, Current, Index
<1> QED
  BY <1>1, <1>2 DEF UdpInit, At

----------------------------------------------------------------------------
(* The theorems *)

\* The invariant holds in every reachable state.
THEOREM UdpInvariant == UdpSpec => []UdpInv
BY UdpInvInit, UdpInvStep, PTL DEF UdpSpec

\* The types; in particular handleTXACK never sends an item that the downlink
\* does not have, however often a TX_ACK is repeated.
THEOREM UdpType == UdpSpec => []UdpTypeOK
<1>1. UdpInv => UdpTypeOK
  BY DEF UdpInv, UdpTypes
<1> QED
  BY <1>1, UdpInvariant, PTL

\* No success is published for a downlink of which no item was transmitted,
\* whatever packets are lost, delayed or repeated and whatever expires.
THEOREM NoSuccessIsFalse == UdpSpec => []NoFalseSuccess
<1>1. UdpInv => NoFalseSuccess
  BY DEF UdpInv, OkIsReal, Transmitted, NoFalseSuccess
<1> QED
  BY <1>1, UdpInvariant, PTL

\* What is published about a downlink is what the gateway did with its items, in
\* their order and up to the one that was transmitted, as long as no TX_ACK was
\* delivered twice, whatever packets are lost or delayed and whatever expires.
THEOREM ReportsAreTrue == UdpSpec => []ReportIsTrue
<1>1. UdpSpec => []Sequential
  BY SequentialInit, SequentialStep, UdpInvariant, PTL DEF UdpSpec
<1>2. UdpInv /\ Sequential => ReportIsTrue
  <2> SUFFICES ASSUME UdpInv, Sequential, repeated = 0, NEW r \in published,
                      NEW i \in DOMAIN r.items
               PROVE  /\ done[r.downlink][i] = IF r.items[i] = "IGNORED" THEN {} ELSE {r.items[i]}
                      /\ r.items[i] = "OK" =>
                            \A j \in DOMAIN r.items : j > i => r.items[j] = "IGNORED"
    BY DEF ReportIsTrue
  <2> DEFINE d == r.downlink
  <2>1. d \in Downlink /\ DOMAIN r.items = Index(d) /\ At(d)
    BY DEF UdpInv, OkIsReal, Sequential
  <2>2. r.items = txAckItems[d]
    BY <2>1 DEF At
  <2>3. PICK k \in Index(d) : Settled(d, k)
    BY <2>1 DEF At
  <2>4. Items[d] \in Nat
    BY <2>1, UdpConstants
  <2>5. CASE i < k
    BY <2>1, <2>2, <2>3, <2>5 DEF Settled, Current
  <2>6. CASE i > k
    BY <2>1, <2>2, <2>3, <2>6 DEF Settled, Current
  <2>7. CASE i = k
    BY <2>1, <2>2, <2>3, <2>7 DEF Settled, Current
  <2> QED
    BY <2>1, <2>3, <2>4, <2>5, <2>6, <2>7 DEF Index
<1> QED
  BY <1>1, <1>2, UdpInvariant, PTL
=============================================================================
