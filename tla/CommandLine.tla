----------------------------- MODULE CommandLine -----------------------------
(***************************************************************************)
(* The command line (run, runPush, runPop, runServe and the parsers of     *)
(* main.go, parseStressArgs of stress.go): what the arguments mean, which  *)
(* request or which cap comes of them, and what the exit code tells.       *)
(*                                                                         *)
(* An argument is a tuple: <<"w">> is the word w and <<"--o", "v">> the    *)
(* word --o=v.  The conversions of the standard library are constants.     *)
(* Integers have WordBits bits, and a millisecond has Milli nanoseconds.   *)
(***************************************************************************)
EXTENDS Integers, SequencesExt

CONSTANTS
  Commands,    \* command lines: [cmd, args, env], env as in Environments
  Tokens,      \* every word that may be a value
  Numbers,     \* strconv: a function from the words that are numbers
  Durations,   \* time.ParseDuration: a function from the words it accepts
  Lists,       \* splitCSV: a function from words to sequences of names
  ValidNames,  \* the words that validateChannel accepts
  Default,     \* defaultSocketPath
  WordBits,    \* 64
  Shift,       \* 30, from gigabytes to bytes
  MaxBytes,    \* defaultMaxBytes
  Milli,       \* time.Millisecond
  Nil

\* The integers of a word.
Word == -(2^(WordBits - 1)) .. 2^(WordBits - 1) - 1

\* The word w and the word --o=v.
Arguments == {a \in Seq(STRING) : Len(a) \in {1, 2}}

ASSUME CommandLineAssumption ==
  /\ {WordBits, Shift, MaxBytes, Milli} \subseteq Nat \ {0}
  /\ MaxBytes <= 2^Shift
  /\ Default \in Tokens
  /\ \A c \in Commands : c.args \in Seq(Arguments)
  /\ Numbers \in [DOMAIN Numbers -> Word]
  /\ Durations \in [DOMAIN Durations -> Word]
  /\ Nil \notin Int

\* Integers that wrap around.
Wrap(n) == ((n + 2^(WordBits - 1)) % 2^WordBits) - 2^(WordBits - 1)

-----------------------------------------------------------------------------
(* Parsing: arguments are taken from left to right, and an option without  *)
(* a value takes the next argument, whatever it is.                        *)

Assign(st, option, value, convert) ==
  IF value \in DOMAIN convert[option]
  THEN [st EXCEPT !.opts[option] = convert[option][value], !.want = ""]
  ELSE [st EXCEPT !.err = TRUE]

\* Mutant: --o=v is recognised, but its value is not assigned.
TakeNotAssigned(st, a, convert) ==
  IF st.err THEN st
  ELSE IF st.want # "" THEN Assign(st, st.want, a, convert)
  ELSE IF a[1] \notin DOMAIN convert THEN [st EXCEPT !.words = Append(@, a)]
  ELSE IF Len(a) = 2 THEN st
  ELSE [st EXCEPT !.want = a[1]]

Take(st, a, convert) ==
  IF st.err THEN st
  ELSE IF st.want # "" THEN Assign(st, st.want, a, convert)
  ELSE IF a[1] \notin DOMAIN convert THEN [st EXCEPT !.words = Append(@, a)]
  ELSE IF Len(a) = 2 THEN Assign(st, a[1], <<a[2]>>, convert)
  ELSE [st EXCEPT !.want = a[1]]

\* The options of DOMAIN convert, their conversions and their defaults.
Parse(args, convert, defaults) ==
  LET start == [err |-> FALSE, want |-> "", opts |-> defaults, words |-> <<>>]
      taken[i \in 0 .. Len(args)] ==
        IF i = 0 THEN start ELSE Take(taken[i - 1], args[i], convert)
      st == taken[Len(args)]
  IN  [st EXCEPT !.err = @ \/ st.want # ""]

Text == [t \in Tokens |-> t]

Positive == [t \in {u \in DOMAIN Numbers : Numbers[u] > 0} |-> Numbers[t]]

UsageError == [err |-> TRUE]

\* A single option.
Option(o, x) == [p \in {o} |-> x]

parsePushArgs(args) ==
  LET st == Parse(args, Option("--socket", Text), Option("--socket", Default))
      names == {i \in DOMAIN st.words : st.words[i] # <<"--stdin">>}
      readStdin == names # DOMAIN st.words
  IN  IF st.err \/ Cardinality(names) # (IF readStdin THEN 1 ELSE 2) THEN UsageError
      ELSE [err |-> FALSE, socket |-> st.opts["--socket"],
            channels |-> <<st.words[Min(names)]>>, readStdin |-> readStdin]

\* First all --socket, then all --timeout of what is left.
parsePopArgs(args) ==
  LET st == Parse(args, Option("--socket", Text), Option("--socket", Default))
      tt == Parse(st.words, Option("--timeout", Durations), Option("--timeout", 0))
  IN  IF st.err \/ tt.err \/ tt.opts["--timeout"] < 0 \/ tt.words = <<>> THEN UsageError
      ELSE [err |-> FALSE, socket |-> st.opts["--socket"], channels |-> tt.words,
            timeout |-> tt.opts["--timeout"]]

\* Mutant: a path that looks like an option is not taken.
ServePlainPath ==
  [o \in {"--socket", "--max-queued-gbytes"} |->
     IF o = "--socket" THEN [t \in {u \in Tokens : Len(u) = 1} |-> t] ELSE Positive]

ServeOptions ==
  [o \in {"--socket", "--max-queued-gbytes"} |-> IF o = "--socket" THEN Text ELSE Positive]

ServeDefaults(env) ==
  [o \in DOMAIN ServeOptions |->
     IF o = "--socket" THEN Default ELSE IF env = Nil THEN 4 ELSE Numbers[env]]

EnvError(env) == env # Nil /\ env \notin DOMAIN Positive

\* The cap in bytes, shifted within the word; a cap below MaxBytes is refused.
Cap(gbytes) == Wrap(gbytes * 2^Shift)

CapTooSmall(gbytes) == Cap(gbytes) < MaxBytes

parseServeArgs(args, env) ==
  IF EnvError(env) THEN UsageError
  ELSE LET st == Parse(args, ServeOptions, ServeDefaults(env))
           gbytes == st.opts["--max-queued-gbytes"]
       IN  IF st.err \/ st.words # <<>> \/ CapTooSmall(gbytes) THEN UsageError
           ELSE [err |-> FALSE, socket |-> st.opts["--socket"], gbytes |-> gbytes,
                 cap |-> Cap(gbytes)]

StressOptions ==
  [o \in {"--socket", "--duration", "--threads", "--publishers", "--consumers",
          "--channels", "--pop-timeout", "--payload-size", "--format"} |->
     CASE o \in {"--socket", "--format"} -> Text
       [] o \in {"--duration", "--pop-timeout"} -> Durations
       [] o = "--channels" -> Lists
       [] OTHER -> Positive]

StressDefaults ==
  [o \in DOMAIN StressOptions |->
     CASE o = "--socket" -> Default
       [] o = "--duration" -> 10 * Milli
       [] o = "--pop-timeout" -> Milli
       [] o = "--channels" -> Lists[Default]
       [] o \in {"--publishers", "--consumers"} -> 0
       [] o = "--format" -> <<"text">>
       [] OTHER -> 2]

\* What the last lines of parseStressArgs refuse.
BadStress(c) ==
  \/ c["--duration"] <= 0 \/ c["--pop-timeout"] <= 0
  \/ c["--channels"] = <<>>
  \/ (c["--publishers"] = 0) # (c["--consumers"] = 0)
  \/ c["--format"] \notin {<<"text">>, <<"json">>}

parseStressArgs(args) ==
  LET st == Parse(args, StressOptions, StressDefaults)
      c == st.opts
  IN  IF st.err \/ st.words # <<>> \/ BadStress(c) THEN UsageError
      ELSE [err |-> FALSE, socket |-> c["--socket"], channels |-> c["--channels"],
            timeout |-> c["--pop-timeout"],
            threads |-> IF c["--publishers"] = 0 THEN c["--threads"]
                        ELSE c["--publishers"] + c["--consumers"],
            publishers |-> c["--publishers"], consumers |-> c["--consumers"],
            format |-> c["--format"]]

-----------------------------------------------------------------------------
(* Time                                                                    *)

\* Duration.Milliseconds.
Milliseconds(d) == d \div Milli

\* Mutant: TimeoutMS is not multiplied by time.Millisecond.
DeadlineUnitless(ms) == IF ms <= 0 THEN 0 ELSE ms

\* The daemon's context for a TimeoutMS: 0 stands for no deadline.
Deadline(ms) == LET t == Wrap(ms * Milli) IN IF t <= 0 THEN 0 ELSE t

-----------------------------------------------------------------------------
(* A process that runs a command                                           *)

VARIABLES
  command,  \* the command line of the process, and its environment
  ppc,      \* "start", "parsed", "call", "printed", "serve", "warm", "stress", "done"
  exit,     \* its exit code, or Nil
  config,   \* what its arguments mean, when they have been parsed
  ask,      \* the request it makes, or Nil
  effect    \* what the daemon has done with the request

cli == <<command, ppc, exit, config, ask, effect>>

CLInit ==
  /\ command \in Commands
  /\ ppc = "start"
  /\ exit = Nil /\ config = Nil /\ ask = Nil
  /\ effect = "none"

exitOK == 0
exitRuntime == 1
exitTimeout == 2
exitUsage == 64

Exit(code) == ppc' = "done" /\ exit' = code

Parsed ==
  LET args == command.args
  IN  CASE command.cmd = "push" -> parsePushArgs(args)
        [] command.cmd = "pop" -> parsePopArgs(args)
        [] command.cmd = "serve" -> parseServeArgs(args, command.env)
        [] command.cmd = "stress" -> parseStressArgs(args)
        [] OTHER -> UsageError

AllValid(names) == ToSet(names) \subseteq ValidNames

\* run and the parsers.
Run ==
  /\ ppc = "start"
  /\ command.cmd # "example"
  /\ config' = Parsed
  /\ ppc' = "parsed"
  /\ UNCHANGED <<command, exit, ask, effect>>

\* run prints the usage, or the arguments are wrong.
Usage ==
  /\ ppc = "parsed"
  /\ config.err
  /\ Exit(IF command.cmd = "help" THEN exitOK ELSE exitUsage)
  /\ UNCHANGED <<command, config, ask, effect>>

\* A name that is not valid, or standard input that cannot be read or is more
\* than a message may have.
RunInvalid ==
  /\ ppc = "parsed"
  /\ ~config.err
  /\ command.cmd # "serve"
  /\ ~AllValid(config.channels) \/ (command.cmd = "push" /\ config.readStdin)
  /\ Exit(exitRuntime)
  /\ UNCHANGED <<command, config, ask, effect>>

\* runPush and runPop make their request.
RunCall ==
  /\ ppc = "parsed"
  /\ command.cmd \in {"push", "pop"}
  /\ ~config.err /\ AllValid(config.channels)
  /\ ppc' = "call"
  /\ ask' = [op |-> command.cmd, channels |-> config.channels,
             timeoutMS |-> IF command.cmd = "pop" THEN Milliseconds(config.timeout) ELSE 0]
  /\ UNCHANGED <<command, exit, config, effect>>

\* The daemon carries the request out.
Execute ==
  /\ ppc = "call" /\ effect = "none"
  /\ effect' = IF ask.op = "push" THEN "put" ELSE "taken"
  /\ UNCHANGED <<command, ppc, exit, config, ask>>

\* The response is OK.
AnswerOK ==
  /\ ppc = "call" /\ effect # "none"
  /\ IF ask.op = "push" THEN Exit(exitOK) ELSE ppc' = "printed" /\ UNCHANGED exit
  /\ UNCHANGED <<command, config, ask, effect>>

\* Mutant: the result of the write is not looked at.
PrintedAnyway ==
  /\ ppc = "printed"
  /\ Exit(exitOK)
  /\ effect' \in {"taken", "lost"}
  /\ UNCHANGED <<command, config, ask>>

\* runPop writes the payload to standard output, which may fail.
Printed ==
  /\ ppc = "printed"
  /\ \/ Exit(exitOK) /\ effect' = "shown"
     \/ Exit(exitRuntime) /\ effect' = "lost"
  /\ UNCHANGED <<command, config, ask>>

\* The daemon's context for a pop expires before a message comes.
AnswerTimeout ==
  /\ ppc = "call" /\ effect = "none"
  /\ ask.op = "pop" /\ Deadline(ask.timeoutMS) > 0
  /\ Exit(exitTimeout)
  /\ UNCHANGED <<command, config, ask, effect>>

\* No daemon, an error response, or a connection that ends before the response
\* has been read, when the request may have been carried out.
AnswerError ==
  /\ ppc = "call"
  /\ Exit(exitRuntime)
  /\ UNCHANGED <<command, config, ask, effect>>

RunServe ==
  /\ ppc = "parsed"
  /\ command.cmd = "serve"
  /\ ~config.err
  /\ ppc' = "serve"
  /\ UNCHANGED <<command, exit, config, ask, effect>>

\* serve returns nil after a signal, and an error when it cannot start.
ServeEnds ==
  /\ ppc = "serve"
  /\ Exit(exitOK) \/ Exit(exitRuntime)
  /\ UNCHANGED <<command, config, ask, effect>>

CLNext ==
  \/ Run \/ Usage \/ RunInvalid \/ RunCall \/ Execute \/ AnswerOK \/ Printed
  \/ AnswerTimeout \/ AnswerError \/ RunServe \/ ServeEnds

-----------------------------------------------------------------------------
(* Properties                                                              *)

\* The places of bare and of joined occurrences of an option, where no option
\* is the value of another one.
At(option) == {i \in DOMAIN command.args : command.args[i][1] = option}

ValueAt(i) == IF Len(command.args[i]) = 2 THEN <<command.args[i][2]>>
              ELSE command.args[i + 1]

PlainValues(options) ==
  \A o \in options : \A i \in At(o) :
    Len(command.args[i]) = 1 =>
      i < Len(command.args) /\ command.args[i + 1][1] \notin options

Setting(option, default) ==
  IF At(option) = {} THEN default ELSE ValueAt(Max(At(option)))

\* The places of the words that are neither options nor values of options; a
\* push does not count --stdin.
NamesAt(options) ==
  {i \in DOMAIN command.args :
     /\ command.args[i][1] \notin options
     /\ i > 1 => command.args[i - 1] \notin {<<o>> : o \in options}
     /\ command.cmd = "push" => command.args[i] # <<"--stdin">>}

\* The options that a command knows.
Known ==
  {"--socket"} \cup CASE command.cmd = "pop" -> {"--timeout"}
                      [] command.cmd = "serve" -> {"--max-queued-gbytes"}
                      [] OTHER -> {}

\* For every order and spelling of the arguments of push, pop and serve, --o v
\* and --o=v: the last occurrence of an option counts, before the environment,
\* and the names are the other words in their order.  Nothing is taken twice or
\* skipped.
ArgumentsMean ==
  LET names == NamesAt(Known)
      Place(i) == Cardinality({j \in names : j <= i})
  IN  ppc \in {"call", "serve"} /\ PlainValues(Known) =>
        /\ config.socket = Setting("--socket", Default)
        /\ command.cmd = "pop" =>
             /\ Len(config.channels) = Cardinality(names)
             /\ \A i \in names : config.channels[Place(i)] = command.args[i]
             /\ config.timeout = IF At("--timeout") = {} THEN 0
                                 ELSE Durations[Setting("--timeout", Nil)]
        /\ command.cmd = "push" =>
             /\ Cardinality(names) = IF config.readStdin THEN 1 ELSE 2
             /\ config.channels = <<command.args[Min(names)]>>
        /\ command.cmd = "serve" =>
             /\ names = {}
             /\ config.gbytes = IF At("--max-queued-gbytes") # {}
                                THEN Numbers[Setting("--max-queued-gbytes", Nil)]
                                ELSE IF command.env = Nil THEN 4 ELSE Numbers[command.env]

\* A --timeout that an int64 can hold never overflows on its way to the daemon
\* and gives a deadline that is at most a millisecond early and never late.  A
\* --timeout below a millisecond gives none.
TimeoutKept ==
  ppc = "call" /\ ask.op = "pop" =>
    LET d == config.timeout
    IN  IF d >= Milli THEN Deadline(ask.timeoutMS) \in d - Milli + 1 .. d
        ELSE Deadline(ask.timeoutMS) = 0

\* The daemon that a client starts is told the client's path and takes it as
\* it is, also when it looks like an option.
SpawnedOnSamePath ==
  ppc = "call" /\ ~EnvError(command.env) /\ ~CapTooSmall(ServeDefaults(command.env)["--max-queued-gbytes"]) =>
    LET d == parseServeArgs(<<<<"--socket">>, config.socket>>, command.env)
    IN  ~d.err /\ d.socket = config.socket

\* The exit codes: 0 only if the message is queued, or taken and written out; 2
\* only if a pop had a deadline and took nothing; 64 only if no daemon was asked.
ExitTells ==
  /\ exit = exitOK /\ ask # Nil => effect = IF ask.op = "push" THEN "put" ELSE "shown"
  /\ exit = exitTimeout => /\ ask.op = "pop" /\ effect = "none"
                           /\ config.timeout >= Milli
  /\ exit = exitUsage => ask = Nil
=============================================================================
