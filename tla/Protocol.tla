------------------------------- MODULE Protocol -------------------------------
(***************************************************************************)
(* The wire protocol, byte by byte: the encoders and decoders of           *)
(* protocol.go, the request loop of handleConn and rpcClient in main.go,   *)
(* and the client of examples/go, which writes and reads without checks.   *)
(*                                                                         *)
(* One connection.  Bytes have ByteBits bits and integers are a few bytes  *)
(* wide, so that every limit is met by short names and payloads.           *)
(* The sockets carry any part of what was written: a bufio.Writer passes   *)
(* on what does not fit its buffer, and a process may die half-way.        *)
(***************************************************************************)
EXTENDS Integers, SequencesExt

CONSTANTS
  ByteBits,          \* bits of a byte
  W16, W32, W64,     \* bytes of a uint16, a uint32 and an int64
  MaxChannels,       \* protocolMaxChannels
  MaxBytes,          \* defaultMaxBytes
  MaxErrorSize,      \* protocolMaxErrorSize
  MaxName,           \* the longest name that validateChannel lets pass
  Requests,          \* Requests[lib]: the requests made with a client library
  Payloads,          \* payloads that a pop may find in the broker
  Limit              \* bound: requests on the connection

Libs == {"main", "example"}

\* w bytes hold the numbers below Span(w).
Span(w) == 2^(ByteBits * w)

Byte == 0 .. Span(1) - 1

Request ==
  [op : {"push", "pop"}, timeout : -(Span(W64) \div 2) .. Span(W64) \div 2 - 1,
   channels : Seq(Seq(Byte)), payload : Seq(Byte)]

ASSUME ProtocolAssumption ==
  /\ {ByteBits, W16, W32, W64} \subseteq Nat \ {0} /\ ByteBits > 1
  /\ {MaxChannels, MaxBytes, MaxErrorSize, MaxName, Limit} \subseteq Nat
  /\ MaxChannels < Span(W16) /\ MaxName < Span(W16)
  /\ MaxBytes < Span(W32) /\ MaxErrorSize < Span(W32)
  /\ \A l \in Libs : Requests[l] \subseteq Request
  /\ Payloads \subseteq Seq(Byte)

-----------------------------------------------------------------------------
(* encoding/binary and io                                                  *)

\* The low w bytes of n, big-endian: what binary.Write makes of uint16(n).
Digits(n, w) == [i \in 1 .. w |-> (n \div Span(w - i)) % Span(1)]

Value(s) ==
  LET value[i \in 0 .. Len(s)] == IF i = 0 THEN 0 ELSE value[i - 1] * Span(1) + s[i]
  IN  value[Len(s)]

\* int64 of the digits of a uint64.
Signed(s) == IF 2 * Value(s) < Span(W64) THEN Value(s) ELSE Value(s) - Span(W64)

\* Decoding s gives an error, or a value and the rest of s.
Ok(val, rest) == [err |-> "nil", val |-> val, rest |-> rest]
Fail(err) == [err |-> err, val |-> <<>>, rest |-> <<>>]

Then(r, Rest(_, _)) == IF r.err = "nil" THEN Rest(r.val, r.rest) ELSE r

\* io.ReadFull of n bytes from a connection that carries s and then ends.
ReadFull(s, n) ==
  IF Len(s) >= n THEN Ok(SubSeq(s, 1, n), SubSeq(s, n + 1, Len(s)))
  ELSE Fail(IF s = <<>> THEN "EOF" ELSE "unexpectedEOF")

\* The reader wants bytes that are not there: as long as the peer may send
\* more, the read blocks.
Short(r) == r.err \in {"EOF", "unexpectedEOF"}

-----------------------------------------------------------------------------
(* Strings and byte slices                                                 *)

writeString16(s) == Digits(Len(s), W16) \o s
writeBytes32(s) == Digits(Len(s), W32) \o s

readString16(s) == Then(ReadFull(s, W16), LAMBDA n, t : ReadFull(t, Value(n)))

\* Mutant: r.Read instead of io.ReadFull takes the bytes that have arrived.
readBytes32Some(s, max) ==
  Then(ReadFull(s, W32), LAMBDA n, t :
    IF Value(n) > max THEN Fail("frameTooLarge")
    ELSE LET k == IF Len(t) < Value(n) THEN Len(t) ELSE Value(n)
         IN  Ok(SubSeq(t, 1, k), SubSeq(t, k + 1, Len(t))))

NotEOF(r) == IF r.err = "EOF" THEN Fail("unexpectedEOF") ELSE r

readBytes32(s, max) ==
  Then(ReadFull(s, W32), LAMBDA n, t :
    IF Value(n) > max THEN Fail("frameTooLarge")
    ELSE NotEOF(ReadFull(t, Value(n))))

\* The client of examples/go does not bound a frame.
exampleReadBytes32(s) ==
  Then(ReadFull(s, W32), LAMBDA n, t : ReadFull(t, Value(n)))

\* One more string.
AppendString16(r) ==
  Then(r, LAMBDA cs, t : Then(readString16(t), LAMBDA c, u : Ok(Append(cs, c), u)))

\* n strings, one after the other.
readStrings(s, n) ==
  LET strings[i \in 0 .. n] == IF i = 0 THEN Ok(<<>>, s) ELSE AppendString16(strings[i - 1])
  IN  strings[n]

-----------------------------------------------------------------------------
(* Requests                                                                *)

opPush == 1
opPop == 2

OpByte(op) == IF op = "push" THEN opPush ELSE opPop

\* The fields in front of the channels.
RequestHead(r) ==
  <<OpByte(r.op)>> \o Digits(r.timeout, W64) \o Digits(Len(r.channels), W16)

WriteStrings(cs) == FlattenSeq([i \in DOMAIN cs |-> writeString16(cs[i])])

\* The names that do not fit a uint16.
TooLong(cs) == {i \in DOMAIN cs : Len(cs[i]) >= Span(W16)}

RequestBytes(r) ==
  RequestHead(r) \o WriteStrings(r.channels) \o writeBytes32(r.payload)

\* The client of examples/go checks nothing.
exampleWriteRequest(r) == [err |-> "nil", bytes |-> RequestBytes(r)]

\* What writeRequest puts into the buffered writer.  The channels are checked
\* one by one, after the fields and the channels in front of them are written.
writeRequest(r) ==
  IF Len(r.channels) > MaxChannels \/ Len(r.payload) > MaxBytes
  THEN [err |-> "tooLarge", bytes |-> <<>>]
  ELSE IF TooLong(r.channels) # {}
  THEN [err |-> "channelTooLong",
        bytes |-> RequestHead(r)
                  \o WriteStrings(SubSeq(r.channels, 1, Min(TooLong(r.channels)) - 1))]
  ELSE [err |-> "nil", bytes |-> RequestBytes(r)]

\* The operation is looked at last, the number of channels before they are read.
readRequest(s) ==
  Then(ReadFull(s, 1), LAMBDA op, s1 :
  Then(ReadFull(s1, W64), LAMBDA timeout, s2 :
  Then(ReadFull(s2, W16), LAMBDA count, s3 :
    IF Value(count) > MaxChannels THEN Fail("tooManyChannels")
    ELSE
  Then(readStrings(s3, Value(count)), LAMBDA channels, s4 :
  Then(readBytes32(s4, MaxBytes), LAMBDA payload, s5 :
    IF op[1] \notin {opPush, opPop} THEN Fail("unknownOp")
    ELSE Ok([op |-> IF op[1] = opPush THEN "push" ELSE "pop",
             timeout |-> Signed(timeout),
             channels |-> channels,
             payload |-> payload], s5))))))

-----------------------------------------------------------------------------
(* Responses                                                               *)

statusOK == 1
statusError == 2

\* Everything is checked before the first byte is written.
writeResponse(r) ==
  IF \/ Len(r.payload) > MaxBytes
     \/ Len(r.channel) >= Span(W16)
     \/ Len(r.error) > MaxErrorSize
  THEN [err |-> "tooLarge", bytes |-> <<>>]
  ELSE [err |-> "nil",
        bytes |-> <<IF r.ok THEN statusOK ELSE statusError>>
                  \o writeString16(r.channel)
                  \o writeBytes32(r.payload) \o writeBytes32(r.error)]

readResponse(s) ==
  Then(ReadFull(s, 1), LAMBDA status, s1 :
  Then(readString16(s1), LAMBDA channel, s2 :
  Then(readBytes32(s2, MaxBytes), LAMBDA payload, s3 :
  Then(readBytes32(s3, MaxErrorSize), LAMBDA text, s4 :
    IF status[1] \notin {statusOK, statusError} THEN Fail("unknownStatus")
    ELSE Ok([ok |-> status[1] = statusOK, channel |-> channel,
             payload |-> payload, error |-> text], s4)))))

\* Mutant: the error text of a successful response is not read.
exampleReadNoText(s) ==
  Then(ReadFull(s, 1), LAMBDA status, s1 :
  Then(readString16(s1), LAMBDA channel, s2 :
  Then(exampleReadBytes32(s2), LAMBDA payload, s3 :
    Ok([ok |-> status[1] = statusOK, channel |-> channel,
        payload |-> payload, error |-> <<>>], s3))))

exampleReadResponse(s) ==
  Then(ReadFull(s, 1), LAMBDA status, s1 :
  Then(readString16(s1), LAMBDA channel, s2 :
  Then(exampleReadBytes32(s2), LAMBDA payload, s3 :
  Then(exampleReadBytes32(s3), LAMBDA text, s4 :
    Ok([ok |-> status[1] = statusOK, channel |-> channel,
        payload |-> payload, error |-> text], s4)))))

-----------------------------------------------------------------------------
(* One connection                                                          *)

VARIABLES
  lib,    \* the client library: "main" for rpcClient, "example" for examples/go
  cpc,    \* the client: "idle", "send", "refused", "wait" or "closed"
  cbuf,   \* bytes in the client's buffered writer
  up,     \* bytes on their way to the daemon
  hpc,    \* the handler: "read", "call", "send", "last", "return" or "closed"
  req,    \* the request the handler has read
  hbuf,   \* bytes in the handler's buffered writer
  down,   \* bytes on their way to the client
  sent,   \* history: requests that the client's encoder has accepted
  calls,  \* history: requests that the handler has passed to the broker
  given,  \* history: responses that the handler has encoded
  got     \* history: responses the client has read, with the request's number

cvars == <<lib, cpc, cbuf, sent, got>>
hvars == <<hpc, req, hbuf, calls, given>>
vars == <<cvars, hvars, up, down>>

NoRequest == [op |-> "none"]

Init ==
  /\ lib \in Libs
  /\ cpc = "idle" /\ hpc = "read"
  /\ cbuf = <<>> /\ up = <<>> /\ hbuf = <<>> /\ down = <<>>
  /\ req = NoRequest
  /\ sent = <<>> /\ calls = <<>> /\ given = <<>> /\ got = <<>>

Encode(r) == IF lib = "main" THEN writeRequest(r) ELSE exampleWriteRequest(r)

Decode(s) == IF lib = "main" THEN readResponse(s) ELSE exampleReadResponse(s)

\* Do, Push or Pop encode a request.
ClientCall(r) ==
  /\ cpc = "idle"
  /\ Len(sent) < Limit
  /\ LET w == Encode(r)
     IN  /\ cbuf' = cbuf \o w.bytes
         /\ cpc' = IF w.err = "nil" THEN "send" ELSE "refused"
         /\ sent' = IF w.err = "nil" THEN Append(sent, r) ELSE sent
  /\ UNCHANGED <<lib, got, hvars, up, down>>

\* Mutant: no Flush, the client waits when the buffer has room.
ClientNoFlush(n) ==
  /\ cpc \in {"send", "refused"}
  /\ hpc # "closed"
  /\ n \in 1 .. Len(cbuf)
  /\ up' = up \o SubSeq(cbuf, 1, n)
  /\ cbuf' = SubSeq(cbuf, n + 1, Len(cbuf))
  /\ cpc' = IF cpc = "send" THEN "wait" ELSE cpc
  /\ UNCHANGED <<lib, sent, got, hvars, down>>

\* n bytes go to the socket, the last of them by Flush.
ClientFlush(n) ==
  /\ cpc \in {"send", "refused"}
  /\ hpc # "closed"
  /\ n \in 1 .. Len(cbuf)
  /\ up' = up \o SubSeq(cbuf, 1, n)
  /\ cbuf' = SubSeq(cbuf, n + 1, Len(cbuf))
  /\ cpc' = IF cpc = "send" /\ n = Len(cbuf) THEN "wait" ELSE cpc
  /\ UNCHANGED <<lib, sent, got, hvars, down>>

ClientEnds == cpc' = "closed" /\ cbuf' = <<>>

\* The socket is closed on the other side, or the request was refused: the
\* call returns an error and its caller closes the connection.
ClientFails ==
  /\ (cpc = "send" /\ hpc = "closed") \/ cpc = "refused"
  /\ ClientEnds
  /\ UNCHANGED <<lib, sent, got, hvars, up, down>>

\* A response is complete.  The caller may go on whatever it says.
ClientAnswer ==
  /\ cpc = "wait"
  /\ LET r == Decode(down)
     IN  /\ r.err = "nil"
         /\ got' = Append(got, <<Len(sent), r.val>>)
         /\ down' = r.rest
  /\ cpc' = "idle"
  /\ UNCHANGED <<lib, cbuf, sent, hvars, up>>

\* The connection ends before the response does, or the response is refused.
ClientBadAnswer ==
  /\ cpc = "wait"
  /\ LET r == Decode(down) IN r.err # "nil" /\ (Short(r) => hpc = "closed")
  /\ ClientEnds
  /\ UNCHANGED <<lib, sent, got, hvars, up, down>>

\* The client closes the connection, or its process dies.
ClientCloses ==
  /\ cpc # "closed"
  /\ ClientEnds
  /\ UNCHANGED <<lib, sent, got, hvars, up, down>>

-----------------------------------------------------------------------------
(* handleConn                                                              *)

Response(ok, channel, payload, text) ==
  [ok |-> ok, channel |-> channel, payload |-> payload, error |-> text]

\* A short error text, such as "timeout".
Text == <<0>>

ErrorResponse(text) == Response(FALSE, <<>>, <<>>, text)

\* A response that cannot be encoded leaves nothing in the writer, and the
\* handler returns; it also returns after an error response.
Respond(r) ==
  LET w == writeResponse(r)
  IN  /\ hbuf' = w.bytes
      /\ given' = IF w.err = "nil" THEN Append(given, r) ELSE given
      /\ hpc' = IF w.err # "nil" THEN "return" ELSE IF r.ok THEN "send" ELSE "last"

HandlerRequest ==
  /\ hpc = "read"
  /\ LET r == readRequest(up)
     IN  /\ r.err = "nil"
         /\ up' = r.rest
         /\ IF r.val.op = "push" /\ Len(r.val.channels) # 1
            THEN /\ Respond(ErrorResponse(Text))
                 /\ UNCHANGED <<req, calls>>
            ELSE /\ req' = r.val
                 /\ calls' = Append(calls, r.val)
                 /\ hpc' = "call"
                 /\ UNCHANGED <<hbuf, given>>
  /\ UNCHANGED <<cvars, down>>

\* io.EOF, which is also what a read between two fields of a request gives.
HandlerEOF ==
  /\ hpc = "read"
  /\ cpc = "closed"
  /\ readRequest(up).err = "EOF"
  /\ hpc' = "return"
  /\ UNCHANGED <<cvars, req, hbuf, calls, given, up, down>>

HandlerBadRequest ==
  /\ hpc = "read"
  /\ LET r == readRequest(up)
     IN  r.err \notin {"nil", "EOF"} /\ (Short(r) => cpc = "closed")
  /\ Respond(ErrorResponse(Text))
  /\ UNCHANGED <<cvars, req, calls, up, down>>

Valid(name) == Len(name) \in 1 .. MaxName

\* validateChannel quotes the name.
InvalidChannel(name) == Text \o name \o Text

Invalid(r) == {i \in DOMAIN r.channels : ~Valid(r.channels[i])}

\* What the broker may make of request r: an invalid name or no name is an
\* error; a push or a pop succeeds or ends with its context.
Outcomes(r) ==
  IF Invalid(r) # {} THEN {ErrorResponse(InvalidChannel(r.channels[Min(Invalid(r))]))}
  ELSE {ErrorResponse(Text)} \cup
       (IF r.op = "push" THEN {Response(TRUE, <<>>, <<>>, <<>>)}
        ELSE {Response(TRUE, c, p, <<>>) : c \in ToSet(r.channels), p \in Payloads})

\* The broker call returns and the response is encoded.
HandlerRespond ==
  /\ hpc = "call"
  /\ \E r \in Outcomes(req) : Respond(r)
  /\ req' = NoRequest
  /\ UNCHANGED <<cvars, calls, up, down>>

\* Mutant: the handler goes on after an error response.
HandlerFlushGoesOn(n) ==
  /\ hpc \in {"send", "last"}
  /\ cpc # "closed"
  /\ n \in 1 .. Len(hbuf)
  /\ down' = down \o SubSeq(hbuf, 1, n)
  /\ hbuf' = SubSeq(hbuf, n + 1, Len(hbuf))
  /\ hpc' = IF n < Len(hbuf) THEN hpc ELSE "read"
  /\ UNCHANGED <<cvars, req, calls, given, up>>

HandlerFlush(n) ==
  /\ hpc \in {"send", "last"}
  /\ cpc # "closed"
  /\ n \in 1 .. Len(hbuf)
  /\ down' = down \o SubSeq(hbuf, 1, n)
  /\ hbuf' = SubSeq(hbuf, n + 1, Len(hbuf))
  /\ hpc' = IF n < Len(hbuf) THEN hpc ELSE IF hpc = "send" THEN "read" ELSE "return"
  /\ UNCHANGED <<cvars, req, calls, given, up>>

\* The client has closed: the write fails and the handler returns.
HandlerWriteFails ==
  /\ hpc \in {"send", "last"}
  /\ cpc = "closed"
  /\ hpc' = "return" /\ hbuf' = <<>>
  /\ UNCHANGED <<cvars, req, calls, given, up, down>>

\* The deferred conn.Close, or the end of the daemon at any other point.  What
\* was written can still be read.
HandlerCloses ==
  /\ hpc # "closed"
  /\ hpc' = "closed" /\ hbuf' = <<>> /\ req' = NoRequest
  /\ UNCHANGED <<cvars, calls, given, up, down>>

Next ==
  \/ \E r \in Requests[lib] : ClientCall(r)
  \/ \E n \in 1 .. Len(cbuf) : ClientFlush(n)
  \/ ClientFails \/ ClientAnswer \/ ClientBadAnswer \/ ClientCloses
  \/ HandlerRequest \/ HandlerEOF \/ HandlerBadRequest \/ HandlerRespond
  \/ \E n \in 1 .. Len(hbuf) : HandlerFlush(n)
  \/ HandlerWriteFails \/ HandlerCloses

Spec == Init /\ [][Next]_vars

-----------------------------------------------------------------------------
(* Properties                                                              *)

\* The broker is given the requests the client made, field by field and in
\* order: a request that is cut off by a dying client, at any byte, or that
\* was refused half-way through writeRequest, never reaches it.
RequestsFramed == IsPrefix(calls, sent)

\* The client takes exactly the responses that the handler made, each for the
\* request it was made for, also when the connection ends within a response.
AnswersMatch ==
  /\ Len(got) <= Len(given)
  /\ \A i \in DOMAIN got : got[i] = <<i, given[i]>>

\* A client that waits for its response and a handler that waits for more of
\* the request never wait for each other: every request that was encoded is
\* answered, or the connection ends.
NoStandoff ==
  cpc = "wait" => \/ hpc # "read"
                  \/ ~Short(readRequest(up))
                  \/ ~Short(Decode(down))

\* An error response is the last one of its connection, and nothing the client
\* sends after it is executed, even when it arrives before the connection is
\* closed.
NothingAfterError ==
  \A i \in DOMAIN given :
    ~given[i].ok => i = Len(given) /\ Len(calls) <= i
=============================================================================
