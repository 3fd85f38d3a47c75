------------------------------ MODULE Commands ------------------------------
(* External programs that the bridge runs: on request of the network server  *)
(* (commands.go), and periodically for the meta-data of statistics messages  *)
(* (metadata.go, gatewayStatsFunc of forwarder.go).                          *)
(*                                                                           *)
(* A program is given by its behaviour: "ok" ends by itself, "fails" ends    *)
(* with an error, "endless" does not end, "noisy" writes more to stderr than *)
(* a pipe holds before it closes stdout, and "forks" leaves a child behind   *)
(* that keeps its output open.  A character is c (ordinary), blank, one of   *)
(* two quotes, or a backslash.                                               *)
EXTENDS Naturals, Sequences, FiniteSets, Functions, SequencesExt

CONSTANTS
    Request,        \* requests of the network server
    CommandLine,    \* configured commands: the words and the line they make
    Behaviour,      \* behaviours of the programs
    MetaCommand,    \* cmnds of metadata.go
    Static,         \* static meta-data: keys
    Row,            \* keys that the rows of an output may have
    Stats,          \* statistics messages
    MaxRounds       \* bound: rounds of runCommands

ASSUME CommandsConstants ==
    /\ \A l \in CommandLine : DOMAIN l = {"words", "line"}
    /\ Static \subseteq MetaCommand \X {"-"} /\ "-" \notin Row
    /\ MaxRounds \in Nat

VARIABLES
    run,        \* executeCommand, by request
    program,    \* the program it started: running, ended, failed or killed
    responses,  \* exec events that were published
    maps,       \* maps made by runCommands
    cached,     \* the map that Get returns, or 0
    round,      \* the loop of Setup: runCommands or Sleep
    message,    \* gatewayStatsFunc, by statistics message
    complete    \* history: what each map held when its round ended

execVars == <<run, program, responses>>
metaVars == <<maps, cached, round, message, complete>>
commandsVars == <<execVars, metaVars>>

----------------------------------------------------------------------------
(* ParseCommandLine *)

Blank == {" ", "\t"}
Quote == {"\"", "'"}
Backslash == "\\"

\* Bug: either quote ends a word in quotes.
ParseChar_AnyQuote(p, c) ==
    CASE p.state = "quotes" ->
            IF c \notin Quote THEN [p EXCEPT !.current = Append(@, c)]
            ELSE [p EXCEPT !.args = Append(@, p.current), !.current = <<>>, !.state = "start"]
      [] p.state # "quotes" /\ p.escapeNext ->
            [p EXCEPT !.current = Append(@, c), !.escapeNext = FALSE]
      [] p.state # "quotes" /\ ~p.escapeNext ->
            IF c = Backslash THEN [p EXCEPT !.escapeNext = TRUE]
            ELSE IF c \in Quote THEN [p EXCEPT !.state = "quotes", !.quote = c]
            ELSE IF c \notin Blank THEN [p EXCEPT !.current = Append(@, c), !.state = "arg"]
            ELSE IF p.state = "arg"
                 THEN [p EXCEPT !.args = Append(@, p.current), !.current = <<>>, !.state = "start"]
            ELSE p

\* One round of the loop of ParseCommandLine.
ParseChar(p, c) ==
    CASE p.state = "quotes" ->
            IF c # p.quote THEN [p EXCEPT !.current = Append(@, c)]
            ELSE [p EXCEPT !.args = Append(@, p.current), !.current = <<>>, !.state = "start"]
      [] p.state # "quotes" /\ p.escapeNext ->
            [p EXCEPT !.current = Append(@, c), !.escapeNext = FALSE]
      [] p.state # "quotes" /\ ~p.escapeNext ->
            IF c = Backslash THEN [p EXCEPT !.escapeNext = TRUE]
            ELSE IF c \in Quote THEN [p EXCEPT !.state = "quotes", !.quote = c]
            ELSE IF c \notin Blank THEN [p EXCEPT !.current = Append(@, c), !.state = "arg"]
            ELSE IF p.state = "arg"
                 THEN [p EXCEPT !.args = Append(@, p.current), !.current = <<>>, !.state = "start"]
            ELSE p

\* escapeNext is true at first: the first character is taken as it is.
ParseCommandLine(line) ==
    LET p == FoldLeft(ParseChar,
                      [args |-> <<>>, state |-> "start", current |-> <<>>, quote |-> "\"",
                       escapeNext |-> TRUE], line)
    IN [error |-> p.state = "quotes",
        args |-> IF p.current # <<>> THEN Append(p.args, p.current) ELSE p.args]

\* The lines that are configured.  The first word stands as it is, and because its
\* first character is not looked at it has a second one if words follow; the others
\* stand after a blank, as they are or in quotes of either kind.
Special == Blank \cup Quote \cup {Backslash}
Style == {"plain"} \cup Quote

Writable(words, style) ==
    /\ words \in Seq(Seq(STRING)) /\ words # <<>> /\ style \in [DOMAIN words -> Style]
    /\ Len(words[1]) > (IF Len(words) > 1 THEN 1 ELSE 0)
    /\ \A j \in 2..Len(words[1]) : words[1][j] \notin Special
    /\ \A i \in 2..Len(words) :
          IF style[i] = "plain"
          THEN words[i] # <<>> /\ \A j \in DOMAIN words[i] : words[i][j] \notin Special
          ELSE \A j \in DOMAIN words[i] : words[i][j] # style[i]

Piece(words, style, i) ==
    IF i = 1 THEN words[i]
    ELSE IF style[i] = "plain" THEN <<" ">> \o words[i]
    ELSE <<" ", style[i]>> \o words[i] \o <<style[i]>>

Line(words, style) == FlattenSeq([i \in DOMAIN words |-> Piece(words, style, i)])

\* A line is written in this way, or its quotes do not match.
ASSUME LineConstants ==
    \A l \in CommandLine :
        \/ \E style \in [DOMAIN l.words -> Style] :
              Writable(l.words, style) /\ l.line = Line(l.words, style)
        \/ ParseCommandLine(l.line).error

----------------------------------------------------------------------------
(* Commands *)

\* What the value of a key says: the round it comes from, or static.
StaticMap == [k \in Static |-> 0]

Unknown == [words |-> <<>>, line |-> <<>>]

CommandsInit ==
    /\ run = [r \in Request |-> [pc |-> "idle"]]
    /\ program = [r \in Request |-> "none"]
    /\ responses = <<>>
    /\ maps = <<StaticMap>> /\ cached = 0 /\ complete = <<>>
    /\ round = [pc |-> "run", todo |-> MetaCommand, number |-> 1]
    /\ message = [s \in Stats |-> [pc |-> "idle"]]

\* gatewayCommandExecRequestFunc and the first half of execute: the command may
\* not exist or not parse, and the program may not start.
Execute(r, cmd, behaviour) ==
    LET parsed == ParseCommandLine(cmd.line) IN
    /\ run[r].pc = "idle"
    /\ \/ /\ cmd = Unknown \/ parsed.error \/ parsed.args = <<>>
          /\ run' = [run EXCEPT ![r] = [pc |-> "respond", ok |-> FALSE]]
          /\ UNCHANGED program
       \/ /\ cmd # Unknown /\ ~parsed.error /\ parsed.args # <<>>
          /\ \/ /\ run' = [run EXCEPT ![r] = [pc |-> "stdout", argv |-> parsed.args,
                                             words |-> cmd.words, behaviour |-> behaviour]]
                /\ program' = [program EXCEPT ![r] = "running"]
             \/ /\ run' = [run EXCEPT ![r] = [pc |-> "respond", ok |-> FALSE]]
                /\ UNCHANGED program
    /\ UNCHANGED <<responses, metaVars>>

\* The program: one that is noisy waits until stderr is read, and stderr is not
\* read before stdout is closed.
ProgramEnds(r) ==
    /\ program[r] = "running"
    /\ run[r].behaviour \in {"ok", "fails", "forks"}
    /\ program' = [program EXCEPT ![r] = IF run[r].behaviour = "fails" THEN "failed" ELSE "ended"]
    /\ UNCHANGED <<run, responses, metaVars>>

\* Bug: no deadline for programs that block on their own output.
Deadline_Noisy(r) ==
    /\ program[r] = "running" /\ run[r].behaviour # "noisy"
    /\ program' = [program EXCEPT ![r] = "killed"]
    /\ UNCHANGED <<run, responses, metaVars>>

\* The context ends after max_execution_duration and the program is killed.
Deadline(r) ==
    /\ program[r] = "running"
    /\ program' = [program EXCEPT ![r] = "killed"]
    /\ UNCHANGED <<run, responses, metaVars>>

\* The pipes are closed when the program is gone and no child has them.
Closed(r) == program[r] # "running" /\ run[r].behaviour # "forks"

\* The rest of execute: all of stdout, then all of stderr, then Wait; the output of
\* a program that fails or is killed is dropped.
ReadAll(r) ==
    /\ \/ /\ run[r].pc = "stdout" /\ Closed(r)
          /\ run' = [run EXCEPT ![r].pc = "stderr"]
       \/ /\ run[r].pc = "stderr" /\ Closed(r)
          /\ run' = [run EXCEPT ![r].pc = "wait"]
       \/ /\ run[r].pc = "wait"
          /\ run' = [run EXCEPT ![r] = [pc |-> "respond", ok |-> program[r] = "ended"]]
    /\ UNCHANGED <<program, responses, metaVars>>

\* executeCommand: the exec event.
executeCommand(r) ==
    /\ run[r].pc = "respond"
    /\ run' = [run EXCEPT ![r] = [pc |-> "done"]]
    /\ responses' = Append(responses, [request |-> r, ok |-> run[r].ok])
    /\ UNCHANGED <<program, metaVars>>

----------------------------------------------------------------------------
(* Meta-data *)

\* Outputs of a command: one line, rows of which some have no delimiter, or
\* nothing because it failed or exceeded max_execution_duration.
Output(k) == {{<<k, "-">>}} \cup {{k} \X rows : rows \in SUBSET Row} \cup {{}}

Updated(map, keys) ==
    [x \in DOMAIN map \cup keys |-> IF x \in keys THEN round.number ELSE map[x]]

\* runCommands begins with a copy of the static meta-data; the map under
\* construction is the last one.
runCommands ==
    /\ round.pc = "sleep" /\ round.number < MaxRounds
    /\ round' = [pc |-> "run", todo |-> MetaCommand, number |-> round.number + 1]
    /\ maps' = Append(maps, StaticMap)
    /\ UNCHANGED <<execVars, cached, message, complete>>

\* Bug: the map that readers may hold is updated in place.
runCommand_InPlace(k, keys) ==
    /\ round.pc = "run" /\ k \in round.todo
    /\ round' = [round EXCEPT !.todo = @ \ {k}]
    /\ maps' = [maps EXCEPT ![IF cached = 0 THEN 1 ELSE cached] = Updated(@, keys)]
    /\ UNCHANGED <<execVars, cached, message, complete>>

\* runCommand and the part of runCommands that takes its output.
runCommand(k, keys) ==
    /\ round.pc = "run" /\ k \in round.todo
    /\ round' = [round EXCEPT !.todo = @ \ {k}]
    /\ maps' = [maps EXCEPT ![Len(maps)] = Updated(@, keys)]
    /\ UNCHANGED <<execVars, cached, message, complete>>

\* The end of runCommands.
Publish ==
    /\ round.pc = "run" /\ round.todo = {}
    /\ cached' = Len(maps)
    /\ complete' = Append(complete, Last(maps))
    /\ round' = [round EXCEPT !.pc = "sleep"]
    /\ UNCHANGED <<execVars, maps, message>>

\* gatewayStatsFunc: Get returns the map itself ...
Get(s) ==
    /\ message[s].pc = "idle"
    /\ message' = [message EXCEPT ![s] =
           [pc |-> "copy", map |-> cached, data |-> <<>>, since |-> Len(complete)]]
    /\ UNCHANGED <<execVars, maps, cached, round, complete>>

\* ... whose entries are copied one by one, without the mutex.
CopyEntry(s) ==
    LET m == IF message[s].map = 0 THEN <<>> ELSE maps[message[s].map]
        left == DOMAIN m \ DOMAIN message[s].data IN
    /\ message[s].pc = "copy"
    /\ IF left = {} THEN message' = [message EXCEPT ![s].pc = "published"]
       ELSE \E k \in left :
              message' = [message EXCEPT ![s].data =
                  [x \in DOMAIN @ \cup {k} |-> IF x = k THEN m[k] ELSE @[x]]]
    /\ UNCHANGED <<execVars, maps, cached, round, complete>>

----------------------------------------------------------------------------

ExecNext ==
    \E r \in Request :
        \/ \E cmd \in CommandLine \cup {Unknown}, behaviour \in Behaviour : Execute(r, cmd, behaviour)
        \/ ProgramEnds(r) \/ Deadline(r) \/ ReadAll(r) \/ executeCommand(r)

MetaNext ==
    \/ runCommands
    \/ \E k \in MetaCommand : \E keys \in Output(k) : runCommand(k, keys)
    \/ Publish
    \/ \E s \in Stats : Get(s) \/ CopyEntry(s)

\* Goroutines run and deadlines pass.
CommandsFairness ==
    \A r \in Request : /\ WF_commandsVars(Deadline(r))
                       /\ WF_commandsVars(ReadAll(r) \/ executeCommand(r))

CommandsSpec == CommandsInit /\ [][ExecNext \/ MetaNext]_commandsVars /\ CommandsFairness

----------------------------------------------------------------------------
(* Properties *)

\* The program gets the words of the configured line: with words in quotes,
\* blanks, backslashes and the other quote included, and a plain first word.
ArgvIsWords == \A r \in Request : run[r].pc = "stdout" => run[r].argv = run[r].words

\* The meta-data of a statistics message are those of one complete round, the last
\* one that was complete when the message was made: no message mixes rounds.  The
\* static ones are there in every round, also when the command that would replace
\* a value failed or answered something else.
OneRound ==
    /\ \A s \in Stats : message[s].pc = "published" =>
          message[s].data = IF message[s].since = 0 THEN <<>> ELSE complete[message[s].since]
    /\ \A i \in DOMAIN complete : Static \subseteq DOMAIN complete[i]

\* Every request is answered once and the answer always comes, also if the
\* program would not end or blocks on its output -- unless it leaves a child
\* behind that keeps the output open: then max_execution_duration has no effect.
AnsweredOnce ==
    \A r \in Request : (run[r].pc = "stdout" /\ run[r].behaviour # "forks") ~>
        [](Cardinality({i \in DOMAIN responses : responses[i].request = r}) = 1)
=============================================================================
