----------------------------- MODULE Http1Parser -----------------------------
(***************************************************************************)
(* The HTTP/1.x message parser of http/parser.go: an incremental machine    *)
(* that takes the input of a connection in fragments, reports each message  *)
(* through callbacks, and decides from the start line and the header fields *)
(* where the message ends.                                                  *)
(*                                                                         *)
(* The input is a sequence of tokens.  A token that is a method, a target,  *)
(* a version, a status or a field takes one unit of the limit its bytes     *)
(* take in the code.  A handler maps a parser and a token to the set of     *)
(* parsers that can result: a callback may return, or may call the parser,  *)
(* which fails it.                                                          *)
(***************************************************************************)
EXTENDS Integers, Sequences

CONSTANTS
    Requests,               \* the methods of the requests, in order, that responses answer
    MaxStartLineBytes, MaxHeaderBytes, MaxHeaders, MaxBodyBytes,
    MaxChunkLineBytes, MaxChunkMetadataBytes, MaxChunks,
    MaxUint                 \* the largest value of a uint64

ASSUME LimitsAssumption ==
    /\ Requests \in Seq({"GET", "HEAD", "CONNECT"})
    /\ {MaxStartLineBytes, MaxHeaderBytes, MaxHeaders, MaxBodyBytes} \subseteq Nat \ {0}
    /\ {MaxChunkLineBytes, MaxChunkMetadataBytes, MaxChunks} \subseteq Nat \ {0}
    /\ MaxUint \in Nat /\ MaxBodyBytes <= MaxUint

VARIABLE p

Kinds == {"Request", "Response"}

\* The vocabulary of the wire.
Methods  == {"GET", "CONNECT"}
Versions == {"1.0", "1.1", "2.0"}
Statuses == {"100", "101", "200", "204", "304", "404"}
Names    == {"content-length", "transfer-encoding", "connection", "host", "upgrade", "trailer", "other", "long"}
Length   == [len0 |-> 0, len1 |-> 1, len2 |-> 2, len3 |-> 3]
Options  == {"close", "keep-alive", "upgrade"}
Codings  == {"chunked", "gzip"}
Digit    == [d0 |-> 0, d1 |-> 1]
Radix    == 2

\* Init and Reset: a parser before its first message.
NewParser(kind, contextual) ==
    [kind |-> kind, contextual |-> contextual, state |-> "Start", code |-> "none", late |-> FALSE,
     parsing |-> "no", paused |-> FALSE, exchangeNum |-> 0,
     head |-> FALSE, connect |-> FALSE, messageActive |-> FALSE, trailers |-> FALSE,
     line |-> "none", version |-> "none", target |-> FALSE,
     startBytes |-> 0, prefixBytes |-> 0, headerBytes |-> 0, headerCount |-> 0, field |-> "other",
     hasContentLength |-> FALSE, hasTransferEncoding |-> FALSE, transferChunked |-> FALSE,
     transferState |-> "before", transferCurrentChunked |-> FALSE, transferSawChunked |-> FALSE,
     hasHost |-> FALSE, hasUpgrade |-> FALSE, connection |-> {},
     chunkLineBytes |-> 0, chunkMetadataBytes |-> 0, chunkCount |-> 0, chunkSize |-> 0,
     chunkDigits |-> FALSE, bodyBytes |-> 0, remaining |-> 0]

-----------------------------------------------------------------------------
(* Failure, callbacks and limits *)

\* A failure is sticky.  Of a failed parser only the code is read again.
fail(q, c) ==
    IF q.code # "none" THEN q
    ELSE [NewParser(q.kind, q.contextual) EXCEPT
            !.state = "Dead", !.code = c, !.parsing = q.parsing, !.late = q.late]

\* The callback returns, or first calls Parse, Reset or Finish of the parser
\* that runs it.  `late` remembers a callback of a parser that had failed.
Callback(q) ==
    LET r == IF q.code = "none" THEN q ELSE [q EXCEPT !.late = TRUE] IN {r, fail(r, "ReentrantCall")}

\* The check of p.code after every call that may fail.
AndThen(rs, Rest(_)) == UNION {IF r.code = "none" THEN Rest(r) ELSE {r} : r \in rs}

takeStartByte(q) ==
    IF q.startBytes = MaxStartLineBytes THEN fail(q, "StartLineTooLarge")
    ELSE [q EXCEPT !.startBytes = @ + 1]

takePrefixByte(q) ==
    IF q.prefixBytes = MaxStartLineBytes THEN fail(q, "StartLineTooLarge")
    ELSE [q EXCEPT !.prefixBytes = @ + 1]

takeHeaderByte(q) ==
    IF q.headerBytes = MaxHeaderBytes THEN fail(q, "HeadersTooLarge")
    ELSE [q EXCEPT !.headerBytes = @ + 1]

takeChunkLineByte(q) ==
    IF q.chunkLineBytes = MaxChunkLineBytes THEN fail(q, "ChunkLineTooLarge")
    ELSE IF q.chunkMetadataBytes >= MaxChunkMetadataBytes THEN fail(q, "ChunkMetadataTooLarge")
    ELSE [q EXCEPT !.chunkLineBytes = @ + 1, !.chunkMetadataBytes = @ + 1]

addBody(q, n) ==
    IF n > MaxBodyBytes - q.bodyBytes THEN fail(q, "BodyTooLarge")
    ELSE [q EXCEPT !.bodyBytes = @ + n]

\* A byte that is taken and moves the parser to the next state.
Shift(q, s) == AndThen({q}, LAMBDA r : {[r EXCEPT !.state = s]})

-----------------------------------------------------------------------------
(* Messages *)

\* The request a response answers, as the ResponseContext callback tells it.
Context(n) ==
    LET method == IF n < Len(Requests) THEN Requests[n + 1] ELSE "GET"
    IN  [head |-> method = "HEAD", connect |-> method = "CONNECT"]

noResponseBody(q) ==
    /\ q.kind = "Response"
    /\ q.head \/ q.line \in {"100", "101", "204", "304"} \/ (q.connect /\ q.line \in {"200", "204"})

KeepAlive(q) ==
    /\ "close" \notin q.connection
    /\ ~("upgrade" \in q.connection /\ q.hasUpgrade)
    /\ ~(q.kind = "Request" /\ q.line = "CONNECT")
    /\ (q.kind = "Response" /\ ~noResponseBody(q)) =>
          /\ q.hasContentLength \/ q.hasTransferEncoding
          /\ q.hasTransferEncoding => q.transferChunked
    /\ q.version = "1.1" \/ "keep-alive" \in q.connection

\* beginMessage keeps what belongs to the connection and resets the rest; the fields
\* of a transfer coding, which it leaves, are not read before a field name resets them.
beginMessage(q) ==
    LET context(r) == IF r.kind = "Response" /\ r.contextual
                      THEN [r EXCEPT !.head = Context(r.exchangeNum).head,
                                     !.connect = Context(r.exchangeNum).connect]
                      ELSE r
        reset(r) == [NewParser(r.kind, r.contextual) EXCEPT
                       !.parsing = r.parsing, !.exchangeNum = r.exchangeNum,
                       !.head = r.head, !.connect = r.connect, !.late = r.late, !.messageActive = TRUE]
    IN  AndThen(IF q.kind = "Response" /\ q.contextual THEN Callback(context(q)) ELSE {q},
                LAMBDA r : Callback(reset(r)))

\* Mutant: an informational response counts as an exchange.
completeMessageCountsAll(q) ==
    AndThen(Callback(q),
            LAMBDA r : {[r EXCEPT !.exchangeNum = IF r.kind = "Response" THEN @ + 1 ELSE @,
                                  !.messageActive = FALSE, !.trailers = FALSE, !.state = "Start",
                                  !.paused = r.parsing = "ParseOne"]})

completeMessage(q) ==
    AndThen(Callback(q),
            LAMBDA r : {[r EXCEPT !.exchangeNum = IF r.kind = "Response" /\ r.line # "100" THEN @ + 1 ELSE @,
                                  !.messageActive = FALSE, !.trailers = FALSE, !.state = "Start",
                                  !.paused = r.parsing = "ParseOne"]})

-----------------------------------------------------------------------------
(* The start line *)

ReqMethod(q, t) ==
    IF t \notin Methods THEN {fail(q, "InvalidMethod")}
    ELSE AndThen({takeStartByte(q)},
                 LAMBDA r : AndThen(Callback(r), LAMBDA s : {[s EXCEPT !.line = t, !.state = "ReqTarget"]}))

\* stateReqHTTP, stateResHTTP and the three states of the version.
Version(q, t) ==
    IF t \notin Versions THEN {fail(q, "InvalidVersion")}
    ELSE AndThen({takeStartByte(q)},
                 LAMBDA r : {[r EXCEPT !.version = t,
                                       !.state = IF r.kind = "Request" THEN "ReqLineCR" ELSE "ResStatus"]})

Start(q, t) ==
    IF q.kind = "Request" /\ t = "CR" THEN Shift(takePrefixByte(q), "LeadingLF")
    ELSE AndThen(beginMessage(q), LAMBDA r : IF r.kind = "Request" THEN ReqMethod(r, t) ELSE Version(r, t))

LeadingLF(q, t) ==
    IF t # "LF" THEN {fail(q, "InvalidLineEnding")} ELSE Shift(takePrefixByte(q), "Start")

ReqTarget(q, t) ==
    IF t = "target"
    THEN AndThen({takeStartByte(q)}, LAMBDA r : Callback([r EXCEPT !.target = TRUE]))
    ELSE IF ~q.target THEN {fail(q, "InvalidTarget")} ELSE Version(q, t)

ReqLineCR(q, t) ==
    IF t # "CR" THEN {fail(q, "InvalidLineEnding")}
    ELSE IF q.version = "2.0" THEN {fail(q, "InvalidVersion")}
    ELSE Shift(takeStartByte(q), "LineLF")

\* stateResSpaceBeforeStatus, stateResStatus and stateResReasonStart.
ResStatus(q, t) ==
    IF q.version = "2.0" THEN {fail(q, "InvalidStartLine")}
    ELSE IF t \notin Statuses THEN {fail(q, "InvalidStatus")}
    ELSE AndThen({takeStartByte(q)}, LAMBDA r : {[r EXCEPT !.line = t, !.state = "ResReason"]})

ResReason(q, t) ==
    CASE t = "reason" -> AndThen({takeStartByte(q)}, LAMBDA r : Callback(r))
      [] t = "CR"     -> Shift(takeStartByte(q), "LineLF")
      [] OTHER        -> {fail(q, "InvalidStatus")}

\* The end of the start line of either kind, and startLineComplete.
LineLF(q, t) ==
    IF t # "LF" THEN {fail(q, "InvalidLineEnding")}
    ELSE AndThen({takeStartByte(q)}, LAMBDA r : AndThen(Callback(r), LAMBDA s : Shift(s, "HeaderStart")))

-----------------------------------------------------------------------------
(* Header fields *)

beginHeader(q) ==
    IF q.headerCount >= MaxHeaders THEN fail(q, "TooManyHeaders")
    ELSE [q EXCEPT !.headerCount = @ + 1, !.field = "other"]

\* Mutant: Content-Length is accepted after Transfer-Encoding.
fieldErrorOneOrder(q, field) ==
    IF q.trailers /\ field # "other" THEN "InvalidHeaderName"
    ELSE IF field = "content-length" /\ q.hasContentLength THEN "InvalidContentLength"
    ELSE IF field = "transfer-encoding" /\ q.hasTransferEncoding THEN "InvalidTransferEncoding"
    ELSE IF field = "transfer-encoding" /\ q.hasContentLength THEN "ContentLengthConflict"
    ELSE IF field = "host" /\ q.hasHost THEN "DuplicateHost"
    ELSE "none"

\* A field that would make the framing ambiguous.
fieldError(q, field) ==
    IF q.trailers /\ field # "other" THEN "InvalidHeaderName"
    ELSE IF field = "content-length" /\ q.hasContentLength THEN "InvalidContentLength"
    ELSE IF field = "transfer-encoding" /\ q.hasTransferEncoding THEN "InvalidTransferEncoding"
    ELSE IF field = "content-length" /\ q.hasTransferEncoding THEN "ContentLengthConflict"
    ELSE IF field = "transfer-encoding" /\ q.hasContentLength THEN "ContentLengthConflict"
    ELSE IF field = "host" /\ q.hasHost THEN "DuplicateHost"
    ELSE "none"

finishFieldName(q, name) ==
    LET field == IF q.kind = "Response" /\ ~q.trailers /\ name = "host" THEN "other" ELSE name
        error == fieldError(q, field)
        r     == [q EXCEPT !.field = field]
    IN  IF error # "none" THEN fail(r, error)
        ELSE CASE field = "content-length" -> [r EXCEPT !.hasContentLength = TRUE, !.remaining = 0]
               [] field = "transfer-encoding" ->
                    [r EXCEPT !.hasTransferEncoding = TRUE, !.transferState = "before",
                              !.transferChunked = FALSE, !.transferSawChunked = FALSE]
               [] field = "host" -> [r EXCEPT !.hasHost = TRUE]
               [] OTHER -> r

HeaderName(q, t) ==
    AndThen({takeHeaderByte(q)},
            LAMBDA r : IF t = "long" THEN {fail(r, "HeaderNameTooLarge")}
                       ELSE AndThen(Callback(r),
                                    LAMBDA s : Shift(finishFieldName(s, t), "HeaderValue")))

HeaderStart(q, t) ==
    CASE t = "CR"       -> Shift(takeHeaderByte(q), "HeadersLF")
      [] t \notin Names \cup {"CR"} -> {fail(q, "InvalidHeaderName")}
      [] OTHER          -> AndThen({beginHeader(q)}, LAMBDA r : HeaderName(r, t))

\* A coding of a Transfer-Encoding list ends.
finishTransferToken(q) ==
    LET r == [q EXCEPT !.transferChunked = q.transferCurrentChunked]
    IN  IF q.transferCurrentChunked /\ q.transferSawChunked THEN fail(r, "InvalidTransferEncoding")
        ELSE [r EXCEPT !.transferSawChunked = @ \/ q.transferCurrentChunked]

\* The list so far: a coding is committed by what follows it.
Committed(q) == IF q.transferState = "token" THEN finishTransferToken(q) ELSE q

\* Codings, commas and parameters.
consumeTransferValue(q, t) ==
    LET invalid == {fail(q, "InvalidTransferEncoding")}
    IN  CASE t \in Codings ->
               IF q.transferState # "before" \/ (q.transferSawChunked /\ q.kind = "Request") THEN invalid
               ELSE {[q EXCEPT !.transferState = "token", !.transferCurrentChunked = t = "chunked"]}
          [] t = "," ->
               IF q.transferState = "before" THEN invalid
               ELSE AndThen({Committed(q)}, LAMBDA r : {[r EXCEPT !.transferState = "before"]})
          [] t = ";param" ->
               IF q.transferState = "before" THEN invalid
               ELSE AndThen({Committed(q)},
                            LAMBDA r : IF r.transferChunked THEN {fail(r, "InvalidTransferEncoding")}
                                       ELSE {[r EXCEPT !.transferState = "after"]})
          [] OTHER -> invalid

finishTransferValue(q) ==
    IF q.transferState = "before" THEN fail(q, "InvalidTransferEncoding") ELSE Committed(q)

\* What a valid value of another field leaves in the parser. A Content-Length with
\* other characters than digits, or too large for 64 bits, is "bad".
consumeFieldValue(q, t) ==
    CASE q.field = "content-length" -> [q EXCEPT !.remaining = Length[t]]
      [] q.field = "connection"     -> [q EXCEPT !.connection = @ \cup {t}]
      [] q.field = "upgrade"        -> [q EXCEPT !.hasUpgrade = TRUE]
      [] OTHER                      -> q

\* A Transfer-Encoding value arrives element by element and ends with CR; any
\* other value arrives whole.
HeaderValue(q, t) ==
    IF t = "bad" THEN {fail(q, "InvalidHeaderValue")}
    ELSE AndThen({takeHeaderByte(q)},
                 LAMBDA r : IF r.field # "transfer-encoding"
                            THEN AndThen(Callback(consumeFieldValue(r, t)), LAMBDA s : Shift(s, "HeaderValueLF"))
                            ELSE IF t = "CR" THEN Shift(finishTransferValue(r), "HeaderValueLF")
                            ELSE AndThen(consumeTransferValue(r, t), Callback))

HeaderValueLF(q, t) ==
    IF t # "LF" THEN {fail(q, "InvalidLineEnding")}
    ELSE AndThen({takeHeaderByte(q)}, LAMBDA r : AndThen(Callback(r), LAMBDA s : Shift(s, "HeaderStart")))

forbidsFraming(q) ==
    q.line \in {"100", "101", "204"} \/ (q.connect /\ q.line \in {"200", "204"})

\* The fields of a whole header section, judged together.
Judged(q) ==
    IF q.kind = "Request" /\ q.version = "1.1" /\ ~q.hasHost THEN fail(q, "MissingHost")
    ELSE IF q.hasTransferEncoding /\ q.version # "1.1" THEN fail(q, "InvalidTransferEncoding")
    ELSE IF q.kind = "Response" /\ q.line = "101" /\ ~("upgrade" \in q.connection /\ q.hasUpgrade)
    THEN fail(q, "InvalidHeaderValue")
    ELSE IF q.kind = "Response" /\ forbidsFraming(q) /\ (q.hasContentLength \/ q.hasTransferEncoding)
    THEN fail(q, "ContentLengthConflict")
    ELSE IF q.kind = "Request" /\ q.hasTransferEncoding /\ ~q.transferChunked
    THEN fail(q, "InvalidTransferEncoding")
    ELSE q

\* Where the message ends: at once, after a length, with the last chunk, or with
\* the connection.
Framed(q) ==
    LET upgrade == q.line = "101" \/ (q.connect /\ q.line \in {"200", "204"})
    IN  IF noResponseBody(q)
        THEN AndThen(completeMessage(q), LAMBDA r : IF upgrade THEN Shift(r, "Upgrade") ELSE {r})
        ELSE IF q.hasTransferEncoding
        THEN Shift(q, IF q.transferChunked THEN "ChunkSize" ELSE "CloseBody")
        ELSE IF q.hasContentLength
        THEN IF q.remaining > MaxBodyBytes THEN {fail(q, "BodyTooLarge")}
             ELSE IF q.remaining = 0 THEN completeMessage(q)
             ELSE Shift(q, "FixedBody")
        ELSE IF q.kind = "Request" THEN completeMessage(q) ELSE Shift(q, "CloseBody")

\* Mutant: the code is not checked after the callback.
headersCompleteUnchecked(q) ==
    AndThen({Judged(q)}, LAMBDA r : UNION {Framed(s) : s \in Callback(r)})

headersComplete(q) == AndThen({Judged(q)}, LAMBDA r : AndThen(Callback(r), LAMBDA s : Framed(s)))

HeadersLF(q, t) ==
    IF t # "LF" THEN {fail(q, "InvalidLineEnding")}
    ELSE AndThen({takeHeaderByte(q)},
                 LAMBDA r : IF r.trailers THEN AndThen(Callback(r), LAMBDA s : completeMessage(s))
                            ELSE headersComplete(r))

-----------------------------------------------------------------------------
(* Bodies: n octets of the message are available *)

Least(a, b) == IF a < b THEN a ELSE b

FixedBody(q, n) ==
    LET take == Least(n, q.remaining)
    IN  AndThen({addBody(q, take)},
                LAMBDA r : AndThen(Callback([r EXCEPT !.remaining = @ - take]),
                                   LAMBDA s : IF s.remaining = 0 THEN completeMessage(s) ELSE {s}))

CloseBody(q, n) ==
    LET take == Least(n, MaxBodyBytes - q.bodyBytes)
        fed  == [q EXCEPT !.bodyBytes = @ + take]
    IN  AndThen(IF take = 0 THEN {fed} ELSE Callback(fed),
                LAMBDA r : IF take # n THEN {fail(r, "BodyTooLarge")} ELSE {r})

\* stateChunkSizeStart and stateChunkSize; ";ext" opens an extension.
ChunkSize(q, t) ==
    CASE t \in DOMAIN Digit ->
           AndThen({takeChunkLineByte([q EXCEPT !.chunkDigits = TRUE])},
                   LAMBDA r : IF r.chunkSize > (MaxUint - Digit[t]) \div Radix
                              THEN {fail(r, "InvalidChunkSize")}
                              ELSE {[r EXCEPT !.chunkSize = @ * Radix + Digit[t]]})
      [] t \in {";ext", "CR"} /\ q.chunkDigits ->
           Shift(takeChunkLineByte(q), IF t = "CR" THEN "ChunkSizeLF" ELSE "ChunkExt")
      [] OTHER -> {fail(q, "InvalidChunkSize")}

ChunkExt(q, t) ==
    CASE t = ";ext" -> Shift(takeChunkLineByte(q), "ChunkExt")
      [] t = "CR"   -> Shift(takeChunkLineByte(q), "ChunkSizeLF")
      [] OTHER      -> {fail(q, "InvalidChunkExtension")}

\* Mutant: the size of a chunk is not compared with what is left of the limit.
ChunkLineUnbounded(q) ==
    IF q.chunkSize # 0 /\ q.chunkCount >= MaxChunks THEN {fail(q, "TooManyChunks")}
    ELSE AndThen(Callback([q EXCEPT !.chunkCount = IF q.chunkSize # 0 THEN @ + 1 ELSE @]),
                 LAMBDA r : {IF r.chunkSize = 0 THEN [r EXCEPT !.trailers = TRUE, !.state = "HeaderStart"]
                             ELSE [r EXCEPT !.remaining = r.chunkSize, !.state = "ChunkBody"]})

\* The chunk line is complete: data follows, or the trailers of the message.
ChunkLine(q) ==
    IF q.chunkSize > MaxBodyBytes - q.bodyBytes THEN {fail(q, "BodyTooLarge")}
    ELSE IF q.chunkSize # 0 /\ q.chunkCount >= MaxChunks THEN {fail(q, "TooManyChunks")}
    ELSE AndThen(Callback([q EXCEPT !.chunkCount = IF q.chunkSize # 0 THEN @ + 1 ELSE @]),
                 LAMBDA r : {IF r.chunkSize = 0 THEN [r EXCEPT !.trailers = TRUE, !.state = "HeaderStart"]
                             ELSE [r EXCEPT !.remaining = r.chunkSize, !.state = "ChunkBody"]})

ChunkSizeLF(q, t) ==
    IF t # "LF" THEN {fail(q, "InvalidLineEnding")} ELSE AndThen({takeChunkLineByte(q)}, ChunkLine)

ChunkBody(q, n) ==
    LET take == Least(n, q.remaining)
    IN  AndThen({addBody(q, take)},
                LAMBDA r : AndThen(Callback([r EXCEPT !.remaining = @ - take]),
                                   LAMBDA s : IF s.remaining = 0 THEN Shift(s, "ChunkBodyCR") ELSE {s}))

ChunkBodyCR(q, t) ==
    IF t # "CR" THEN {fail(q, "InvalidLineEnding")} ELSE Shift(q, "ChunkBodyLF")

ChunkBodyLF(q, t) ==
    IF t # "LF" THEN {fail(q, "InvalidLineEnding")}
    ELSE AndThen(Callback(q),
                 LAMBDA r : {[r EXCEPT !.state = "ChunkSize", !.chunkSize = 0,
                                       !.chunkDigits = FALSE, !.chunkLineBytes = 0]})

-----------------------------------------------------------------------------
(* Calls *)

\* Parse and ParseOne start to read a fragment.
BeginParse(mode) ==
    /\ p.parsing = "no" /\ p.code = "none" /\ p.state # "Upgrade"
    /\ p' = [p EXCEPT !.parsing = mode, !.paused = FALSE]

\* They return: the fragment is read, a message is complete, or the parser is done.
EndParse ==
    /\ p.parsing # "no"
    /\ p' = [p EXCEPT !.parsing = "no"]

\* The parser takes more of the fragment in state s.
Reading(s) == p.parsing # "no" /\ p.code = "none" /\ ~p.paused /\ p.state = s

\* Mutant: only messageActive is looked at.
FinishInactive ==
    /\ p.parsing = "no" /\ p.code = "none" /\ p.state # "Upgrade"
    /\ CASE p.state = "CloseBody" -> p' \in completeMessage(p)
         [] ~p.messageActive -> p' = p
         [] OTHER -> p' = fail(p, "UnexpectedEOF")

Finish ==
    /\ p.parsing = "no" /\ p.code = "none" /\ p.state # "Upgrade"
    /\ CASE p.state = "CloseBody" -> p' \in completeMessage(p)
         [] p.state = "Start" /\ ~p.messageActive -> p' = p
         [] OTHER -> p' = fail(p, "UnexpectedEOF")

Reset ==
    /\ p.parsing = "no"
    /\ p' = NewParser(p.kind, p.contextual)

SetResponseContext(context) ==
    /\ p.parsing = "no"
    /\ p' = [p EXCEPT !.head = context.head, !.connect = context.connect]
=============================================================================
