--------------------------- MODULE Http1Connection ---------------------------
(***************************************************************************)
(* The parser at the receiving end of a connection.  A sender writes        *)
(* messages, some of which break the rules of RFC 9112; the application     *)
(* reads what arrives in fragments of any size with Parse or ParseOne, and  *)
(* ends with Finish.  The sender keeps its own record of what it sent, so   *)
(* that the two ends can be compared: where a message ends is agreed on by  *)
(* nothing but the bytes of its header section.                             *)
(***************************************************************************)
EXTENDS Http1Parser

CONSTANT MaxFragment    \* the octets of a close-delimited body that arrive together

ASSUME FragmentAssumption == MaxFragment \in Nat

VARIABLES sent, result

http1Vars == <<p, sent, result>>

-----------------------------------------------------------------------------
(* The sender *)

\* A sender between two messages: `answered` counts its final responses, `body`
\* is how the message ends, `left` what is left of the octets it announced.
Idle(answered) ==
    [answered |-> answered, line |-> "none", version |-> "none", fields |-> {}, name |-> "other", codings |-> {}, coding |-> "none",
     body |-> "done", left |-> 0, fault |-> FALSE]

Sent(n) == \E f \in sent.fields : f[1] = n
Field(n, v) == <<n, v>> \in sent.fields

\* The fields that frame a message: one of them, on one line. RFC 9112 would let a
\* Transfer-Encoding go over several lines, which the parser refuses.
Single == {"content-length", "transfer-encoding"}

\* A name that makes the message ambiguous or that has no place in trailers.
Misplaced(name) ==
    \/ sent.body = "chunked" /\ name # "other"
    \/ name \in Single /\ \E n \in Single : Sent(n)
    \/ name = "host" /\ p.kind = "Request" /\ Sent("host")

Tunnels == \/ sent.line = "101"
           \/ Context(sent.answered).connect /\ sent.line \in {"200", "204"}

Bodiless == \/ sent.line \in {"100", "101", "204", "304"}
            \/ Context(sent.answered).head
            \/ Tunnels

\* The rules for a whole header section.
Wellformed ==
    /\ sent.version = "1.0" => ~Sent("transfer-encoding")
    /\ p.kind = "Request" =>
         /\ sent.version = "1.1" => Sent("host")
         /\ ~Field("transfer-encoding", "gzip")
    /\ p.kind = "Response" =>
         /\ sent.line = "101" => Field("connection", "upgrade") /\ Sent("upgrade")
         /\ (Tunnels \/ sent.line \in {"100", "204"}) => ~Sent("content-length") /\ ~Sent("transfer-encoding")

\* The octets Content-Length announces.
Announced == Length[CHOOSE v \in DOMAIN Length : Field("content-length", v)]

\* RFC 9112, section 6.3: how the body of the message is delimited.
Delimited ==
    LET body(b, n) == [sent EXCEPT !.body = b, !.left = n, !.fault = @ \/ ~Wellformed]
    IN  CASE p.kind = "Response" /\ Tunnels                -> body("tunnel", 0)
          [] p.kind = "Response" /\ Bodiless /\ ~Tunnels   -> body("done", 0)
          [] OTHER ->
               IF Field("transfer-encoding", "chunked") THEN body("chunked", 0)
               ELSE IF Sent("transfer-encoding") THEN body("close", 0)
               ELSE IF Sent("content-length")
               THEN body(IF Announced = 0 THEN "done" ELSE "fixed", Announced)
               ELSE body(IF p.kind = "Request" THEN "done" ELSE "close", 0)

\* A message that is over leaves nothing but the count of answers.
Over(s) ==
    IF s.body # "done" \/ s.fault THEN s
    ELSE Idle(s.answered + IF p.kind = "Response" /\ s.line # "100" THEN 1 ELSE 0)

\* What may follow on the wire.
Grammar ==
    CASE p.state = "Start" -> IF p.kind = "Request" THEN Methods \cup {"CR"} ELSE Versions
      [] p.state \in {"LeadingLF", "LineLF", "HeaderValueLF", "HeadersLF", "ChunkSizeLF", "ChunkBodyLF"} -> {"LF"}
      [] p.state = "ReqTarget" -> {"target"} \cup IF p.target THEN Versions ELSE {}
      [] p.state \in {"ReqLineCR", "ChunkBodyCR"} -> {"CR"}
      [] p.state = "ResStatus" -> Statuses
      [] p.state = "ResReason" -> {"reason", "CR"}
      [] p.state = "HeaderStart" ->
           {"CR"} \cup IF p.trailers THEN {"content-length", "trailer", "other"} ELSE Names \ {"trailer", "other"}
      [] p.state = "HeaderValue" ->
           CASE sent.name = "content-length"    -> DOMAIN Length
             [] sent.name = "transfer-encoding" -> Codings \cup {",", ";param", "CR"}
             [] sent.name = "connection"        -> Options
             [] OTHER                           -> {"text"}
      [] p.state = "ChunkSize" -> DOMAIN Digit \cup IF p.chunkDigits THEN {";ext", "CR"} ELSE {}
      [] p.state = "ChunkExt" -> {";ext", "CR"}
      [] OTHER -> {}

\* The sender sends what the grammar allows, or a byte that fits nowhere.
Tokens == Grammar \cup {"bad"}

\* A list of transfer codings: `codings` are those sent, `coding` the last element.
\* Chunked comes once, without parameters, and last in a request.
Codes(t) ==
    CASE t \in Codings ->
           [sent EXCEPT !.coding = t, !.codings = @ \cup {t},
                        !.fault = @ \/ sent.coding # "none"
                                    \/ ("chunked" \in sent.codings /\ (t = "chunked" \/ p.kind = "Request"))]
      [] t = ","  -> [sent EXCEPT !.coding = "none", !.fault = @ \/ sent.coding = "none"]
      [] t = ";param" -> [sent EXCEPT !.fault = @ \/ sent.coding \in {"none", "chunked"}]
      [] t = "CR" -> [sent EXCEPT !.fields = @ \cup {<<"transfer-encoding", sent.coding>>},
                                  !.fault = @ \/ sent.coding = "none", !.codings = {}, !.coding = "none"]

\* The record of the sender after token t.
Sends(t) ==
    IF t = "bad" \/ sent.version = "2.0" THEN [sent EXCEPT !.fault = TRUE]
    ELSE
    CASE t \in Methods \cup Statuses -> [sent EXCEPT !.line = t, !.body = "head"]
      [] t \in Versions -> [sent EXCEPT !.version = t, !.body = "head"]
      [] t \in Names /\ p.state = "HeaderStart" -> [sent EXCEPT !.name = t, !.fault = @ \/ Misplaced(t)]
      [] p.state = "HeaderValue" /\ sent.name = "transfer-encoding" -> Codes(t)
      [] p.state = "HeaderValue" /\ sent.name # "transfer-encoding" ->
           [sent EXCEPT !.fields = IF sent.body = "head" /\ sent.name # "other" THEN @ \cup {<<sent.name, t>>} ELSE @]
      [] p.state = "HeadersLF" /\ t = "LF" ->
           Over(IF sent.body = "head" THEN Delimited ELSE [sent EXCEPT !.body = "done"])
      [] t \in DOMAIN Digit ->
           LET left == sent.left * Radix + Digit[t] IN [sent EXCEPT !.left = left, !.fault = @ \/ left > MaxUint]
      [] OTHER -> sent

-----------------------------------------------------------------------------
(* The parser takes a token, or n octets of a body *)

\* Of a message the parser rejected, the sender remembers whether it broke a rule.
Record(s) == IF p'.code = "none" THEN s ELSE [Idle(0) EXCEPT !.fault = s.fault]

Takes(rs, t) ==
    /\ p' \in rs /\ sent' = Record(Sends(t))
    /\ UNCHANGED result

\* The octets that can arrive together.
Octets == 1..(IF sent.body = "close" THEN MaxFragment ELSE sent.left)

TakesOctets(rs, n) ==
    /\ p' \in rs
    /\ sent' = LET left == IF sent.body = "close" THEN 0 ELSE sent.left - n
               IN  Record(Over([sent EXCEPT !.left = left,
                                            !.body = IF @ = "fixed" /\ left = 0 THEN "done" ELSE @]))
    /\ UNCHANGED result

\* Only requests are answered.
Asked == p.kind = "Response" => sent.answered < Len(Requests)

TakeStart         == Asked /\ Reading("Start") /\ \E t \in Tokens : Takes(Start(p, t), t)
TakeLeadingLF     == Reading("LeadingLF") /\ \E t \in Tokens : Takes(LeadingLF(p, t), t)
TakeReqTarget     == Reading("ReqTarget") /\ \E t \in Tokens : Takes(ReqTarget(p, t), t)
TakeReqLineCR     == Reading("ReqLineCR") /\ \E t \in Tokens : Takes(ReqLineCR(p, t), t)
TakeResStatus     == Reading("ResStatus") /\ \E t \in Tokens : Takes(ResStatus(p, t), t)
TakeResReason     == Reading("ResReason") /\ \E t \in Tokens : Takes(ResReason(p, t), t)
TakeLineLF        == Reading("LineLF") /\ \E t \in Tokens : Takes(LineLF(p, t), t)
TakeHeaderStart   == Reading("HeaderStart") /\ \E t \in Tokens : Takes(HeaderStart(p, t), t)
TakeHeaderValue   == Reading("HeaderValue") /\ \E t \in Tokens : Takes(HeaderValue(p, t), t)
TakeHeaderValueLF == Reading("HeaderValueLF") /\ \E t \in Tokens : Takes(HeaderValueLF(p, t), t)
TakeHeadersLF     == Reading("HeadersLF") /\ \E t \in Tokens : Takes(HeadersLF(p, t), t)
TakeChunkSize     == Reading("ChunkSize") /\ \E t \in Tokens : Takes(ChunkSize(p, t), t)
TakeChunkExt      == Reading("ChunkExt") /\ \E t \in Tokens : Takes(ChunkExt(p, t), t)
TakeChunkSizeLF   == Reading("ChunkSizeLF") /\ \E t \in Tokens : Takes(ChunkSizeLF(p, t), t)
TakeChunkBodyCR   == Reading("ChunkBodyCR") /\ \E t \in Tokens : Takes(ChunkBodyCR(p, t), t)
TakeChunkBodyLF   == Reading("ChunkBodyLF") /\ \E t \in Tokens : Takes(ChunkBodyLF(p, t), t)
TakeFixedBody     == Reading("FixedBody") /\ \E n \in Octets : TakesOctets(FixedBody(p, n), n)
TakeCloseBody     == Reading("CloseBody") /\ \E n \in Octets : TakesOctets(CloseBody(p, n), n)
TakeChunkBody     == Reading("ChunkBody") /\ \E n \in Octets : TakesOctets(ChunkBody(p, n), n)

-----------------------------------------------------------------------------
(* The application *)

\* An application with the ResponseContext callback reads with Parse; one without
\* it reads one message at a time and sets the context before each.
ReadParse ==
    /\ result = "open" /\ p.contextual
    /\ BeginParse("Parse") /\ UNCHANGED <<sent, result>>

ReadParseOne ==
    /\ result = "open" /\ ~p.contextual
    /\ p.kind = "Response" /\ p.state = "Start" =>
          [head |-> p.head, connect |-> p.connect] = Context(p.exchangeNum)
    /\ BeginParse("ParseOne") /\ UNCHANGED <<sent, result>>

Returns == EndParse /\ UNCHANGED <<sent, result>>

SetContext ==
    /\ result = "open" /\ p.kind = "Response" /\ ~p.contextual /\ p.state = "Start"
    /\ SetResponseContext(Context(p.exchangeNum)) /\ UNCHANGED <<sent, result>>

\* The sender closes its end wherever it is, and the application calls Finish.
Ends ==
    /\ result = "open" /\ Finish
    /\ result' = p'.code /\ UNCHANGED sent

Restart ==
    /\ Reset /\ sent' = Idle(0) /\ result' = "open"

Http1Init ==
    /\ \E k \in Kinds, c \in BOOLEAN : p = NewParser(k, c)
    /\ sent = Idle(0) /\ result = "open"

Http1Next ==
    \/ TakeStart \/ TakeLeadingLF \/ TakeReqTarget \/ TakeReqLineCR \/ TakeResStatus
    \/ TakeResReason \/ TakeLineLF \/ TakeHeaderStart \/ TakeHeaderValue \/ TakeHeaderValueLF
    \/ TakeHeadersLF \/ TakeChunkSize \/ TakeChunkExt \/ TakeChunkSizeLF \/ TakeChunkBodyCR
    \/ TakeChunkBodyLF \/ TakeFixedBody \/ TakeCloseBody \/ TakeChunkBody
    \/ ReadParse \/ ReadParseOne \/ Returns \/ SetContext \/ Ends \/ Restart

Http1Spec == Http1Init /\ [][Http1Next]_http1Vars

-----------------------------------------------------------------------------
(* Properties *)

LimitCodes == {"StartLineTooLarge", "HeadersTooLarge", "HeaderNameTooLarge", "TooManyHeaders",
               "BodyTooLarge", "ChunkLineTooLarge", "ChunkMetadataTooLarge", "TooManyChunks"}

\* The limits of the parser hold after any input (Limits, take*Byte, addBody): no
\* count passes its maximum, so that the unsigned differences in the code, such
\* as MaxBodyBytes - bodyBytes, never wrap around.
ParserTypeOK ==
    /\ p.kind \in Kinds /\ p.parsing \in {"no", "Parse", "ParseOne"}
    /\ p.code = "none" <=> p.state # "Dead"
    /\ p.startBytes \in 0..MaxStartLineBytes /\ p.prefixBytes \in 0..MaxStartLineBytes
    /\ p.headerBytes \in 0..MaxHeaderBytes /\ p.headerCount \in 0..MaxHeaders
    /\ p.chunkLineBytes \in 0..MaxChunkLineBytes /\ p.chunkMetadataBytes \in 0..MaxChunkMetadataBytes
    /\ p.chunkCount \in 0..MaxChunks /\ p.chunkSize \in 0..MaxUint
    /\ p.bodyBytes \in 0..MaxBodyBytes
    /\ p.state \in {"FixedBody", "ChunkBody"} => p.remaining \in 1..(MaxBodyBytes - p.bodyBytes)

\* Both ends agree on where messages end (headersComplete, completeMessage): a
\* living parser is between messages, in a body of so many octets, or past the
\* switch of protocols, exactly when the sender is, it has counted the
\* exchanges the sender has answered, and KeepAlive does not hold of a
\* connection whose end is the end of the message.
InStep ==
    (p.code = "none" /\ result = "open") =>
      /\ p.state = "Start" => sent.body = "done" /\ (p.kind = "Response" => p.exchangeNum = sent.answered)
      /\ p.state = "FixedBody" => sent.body = "fixed" /\ p.remaining = sent.left
      /\ p.state = "CloseBody" => sent.body = "close" /\ ~KeepAlive(p)
      /\ (p.trailers \/ p.state \in {"ChunkSize", "ChunkExt", "ChunkSizeLF", "ChunkBody"}) => sent.body = "chunked"
      /\ p.state = "ChunkSizeLF" => p.chunkSize = sent.left
      /\ p.state = "ChunkBody" => p.remaining = sent.left
      /\ p.state = "Upgrade" <=> sent.body = "tunnel"

\* The parser rejects a message that breaks a rule of framing, at the latest at the
\* end of its header section, and rejects no other (fieldError, Judged,
\* consumeTransferValue): apart from limits, callbacks that re-enter and
\* truncation, it fails only when the sender is at fault.
RejectedForCause ==
    /\ (sent.fault /\ sent.body # "head") => p.code # "none"
    /\ p.code \notin LimitCodes \cup {"none", "ReentrantCall", "UnexpectedEOF"} => sent.fault

\* A parser that failed calls no callback (the checks of p.code after each one): a
\* callback that re-enters the parser is the last one, however many were due.
FailedIsSilent == ~p.late

\* Finish reports truncation exactly when the sender stopped inside a message, or
\* inside the line break before one; the end of the connection completes a body
\* that it delimits.
FinishTruthful ==
    [][Ends => (result' = "UnexpectedEOF" <=>
                  sent.body \in {"head", "fixed", "chunked"} \/ p.state = "LeadingLF")]_http1Vars
=============================================================================
