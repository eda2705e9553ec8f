------------------------------ MODULE MCStress -------------------------------
(* Command lines and a small stress run for TLC.                           *)
EXTENDS Stress

\* Every list of up to n arguments of a set.
UpTo(S, n) == UNION {[1 .. k -> S] : k \in 0 .. n}

MCDefault == <<"default">>

MCNumbers == (<<"0">> :> 0) @@ (<<"1">> :> 1) @@ (<<"2">> :> 2) @@ (<<"8">> :> 8)
             @@ (<<"17">> :> 17) @@ (<<"-1">> :> -1)

\* With Milli = 4: no time, less than a millisecond, 5 ms and a bit, the longest
\* duration of 7 bits, and a negative one.
MCDurations == (<<"0">> :> 0) @@ (<<"1us">> :> 3) @@ (<<"5ms">> :> 22)
               @@ (<<"max">> :> 63) @@ (<<"-1">> :> -4)

MCLists == (MCDefault :> <<<<"a">>, <<"b">>>>) @@ (<<"a">> :> <<<<"a">>>>)
           @@ (<<",">> :> <<>>) @@ (<<"?">> :> <<<<"?">>>>)

\* Only push knows --stdin: it is a valid name for pop.
MCValidNames == {<<"a">>, <<"b">>, <<"s">>, <<"max">>, <<"0">>, <<"--stdin">>}

PushArgs == {<<"--socket">>, <<"--socket", "s">>, <<"--stdin">>, <<"a">>, <<"?">>}

PopArgs == {<<"--socket">>, <<"--socket", "s">>, <<"--timeout">>, <<"--timeout", "5ms">>,
            <<"--timeout", "-1">>, <<"max">>, <<"1us">>, <<"--stdin">>}

ServeArgs == {<<"--socket">>, <<"s">>, <<"--max-queued-gbytes">>, <<"1">>, <<"8">>,
              <<"--max-queued-gbytes", "17">>, <<"--max-queued-gbytes", "2">>}

\* A word that is looked at as a value can be any argument.
MCTokens == PushArgs \cup PopArgs \cup ServeArgs \cup {MCDefault, <<"text">>, <<"json">>, <<"xml">>}

Two == <<<<"--publishers">>, <<"1">>, <<"--consumers", "1">>>>

StressArgs == {
  <<>>, Two,
  <<<<"--publishers", "2">>, <<"--consumers", "1">>>>,
  <<<<"--publishers", "1">>, <<"--consumers", "2">>, <<"--channels", "a">>>>,
  Two \o <<<<"--pop-timeout", "1us">>, <<"--format", "json">>>>, Two \o <<<<"--pop-timeout", "0">>>>,
  <<<<"--threads", "1">>>>, <<<<"--publishers", "1">>>>,
  <<<<"--channels">>, <<"?">>>>, <<<<"--channels", ",">>>>,
  <<<<"--format", "xml">>>>, <<<<"--duration", "-1">>>>, <<<<"--payload-size", "0">>>>}

Line(cmd, args, env) == [cmd |-> cmd, args |-> args, env |-> env]

MCCommands ==
  {Line("push", args, Nil) : args \in UpTo(PushArgs, 4)}
  \cup {Line("pop", args, Nil) : args \in UpTo(PopArgs, 4)}
  \cup {Line("pop", <<<<"--socket">>, <<"--socket", "s">>, <<"a">>>>, env) :
          env \in {<<"8">>, <<"1">>, <<"s">>}}
  \cup {Line("serve", args, env) : args \in UpTo(ServeArgs, 3), env \in {Nil, <<"1">>, <<"8">>, <<"0">>}}
  \cup {Line("stress", args, Nil) : args \in StressArgs}
  \cup {Line(cmd, <<>>, Nil) : cmd \in {"help", "other", "example"}}

Example(p, c, timeout) ==
  [err |-> FALSE, socket |-> MCDefault, channels |-> <<<<"a">>>>, timeout |-> timeout,
   threads |-> 3, publishers |-> p, consumers |-> c]

MCExamples == {Example(0, 0, 4), Example(1, 1, 3)}
=============================================================================
