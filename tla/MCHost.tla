------------------------------- MODULE MCHost -------------------------------
(* A bridge that runs on the gateway itself: the concentratord backend and   *)
(* the programs the bridge executes.  The parts share no state, so each run  *)
(* exercises one of them: the backend, the commands or the meta-data.        *)
EXTENDS Concentratord, Commands

CONSTANTS d1, d2, c1, r1, m1, m2, s1

VARIABLE part

MCDownlink == {d1, d2}
MCConfig == {c1}
MCBandwidth == {125000, 500000}
MCRequest == {r1}
MCMetaCommand == {m1, m2}
MCStatic == {<<m1, "-">>}
MCRow == {"a", "b"}
MCStats == {s1}
MCBehaviour == {"ok", "fails", "endless", "noisy", "forks"}

Word == {<<"c">>, <<"c", "d">>, <<"c", " ">>, <<" ", "c">>, <<"\\", "c">>, <<"'">>, <<"\"">>, <<>>}
Words == {<<<<"c">>>>} \cup {<<<<"c", "d">>, v, w>> : v \in Word, w \in Word}
Written == {l \in Words \X [1..3 -> Style] : Writable(l[1], [i \in DOMAIN l[1] |-> l[2][i]])}
Broken == [words |-> <<<<"c">>>>, line |-> <<"c", "\t", "'", "c">>]
MCCommandLine == {[words |-> l[1], line |-> Line(l[1], l[2])] : l \in Written} \cup {Broken}

hostVars == <<part, concentratordVars, commandsVars>>

HostInit == part \in {"backend", "exec", "meta"} /\ ConcentratordInit /\ CommandsInit

HostNext ==
    /\ UNCHANGED part
    /\ \/ part = "backend" /\ ConcentratordNext /\ UNCHANGED commandsVars
       \/ part = "exec" /\ ExecNext /\ UNCHANGED concentratordVars
       \/ part = "meta" /\ MetaNext /\ UNCHANGED concentratordVars

HostSpec ==
    /\ HostInit /\ [][HostNext]_hostVars
    /\ part = "backend" => ConcentratordFairness
    /\ part = "exec" => CommandsFairness
=============================================================================
