------------------------------- MODULE MCApi --------------------------------
(* Two brokers, a request and a second one that may exchange the brokers, a  *)
(* local and a foreign uplink, and one that makes no sense.                  *)
EXTENDS RoamingApi

CONSTANTS b1, b2, r1, r2, home, roaming, noise

MCBroker == {b1, b2}
MCRequest == {r1, r2}
OneRequest == {r1}
MCUplink == {home, roaming}
MCLocal == {home}
AllUplink == {home, roaming, noise}
MCGarbled == {noise}
NoGarbled == {}

Config(added, ns, url) == [added |-> added, ns |-> ns, url |-> url]

\* The two requests of README.md, Step 6, one without broker_ip_h_ns, and one
\* for the brokers of the other provider.
MCBody == {Config(b1, b2, TRUE), Config(b1, b2, FALSE), Config(b1, NoBroker, TRUE),
           Config(b2, b1, TRUE)}
RecommendedBody == {Config(b1, b2, TRUE)}
=============================================================================
