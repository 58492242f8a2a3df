---------------------------- MODULE Http1Proofs ----------------------------
(***************************************************************************)
(* The HTTP/1.x parser and a sender that may break the rules of framing.   *)
(* First what a parser holds, then how its state and the record of the     *)
(* sender go together (Agree). One lemma for each step of Http1Connection  *)
(* (the names that end in Keeps) shows that the step keeps both; the steps *)
(* of its proof named Outcome say what a token makes of a parser.          *)
(***************************************************************************)
EXTENDS Http1Connection, TLAPS

-----------------------------------------------------------------------------
(* What a parser holds *)

\* The fields of a parser.
Fields ==
    {"kind", "contextual", "state", "code", "late", "parsing", "paused", "exchangeNum", "head", "connect",
     "messageActive", "trailers", "line", "version", "target", "startBytes", "prefixBytes", "headerBytes",
     "headerCount", "field", "hasContentLength", "hasTransferEncoding", "transferChunked", "transferState",
     "transferCurrentChunked", "transferSawChunked", "hasHost", "hasUpgrade", "connection", "chunkLineBytes",
     "chunkMetadataBytes", "chunkCount", "chunkSize", "chunkDigits", "bodyBytes", "remaining"}

\* The limits hold, and no callback came after a failure.
Within(q) ==
    /\ Fields \subseteq DOMAIN q
    /\ ~q.late
    /\ q.kind \in Kinds /\ q.parsing \in {"no", "Parse", "ParseOne"}
    /\ q.code = "none" <=> q.state # "Dead"
    /\ q.startBytes \in 0..MaxStartLineBytes /\ q.prefixBytes \in 0..MaxStartLineBytes
    /\ q.headerBytes \in 0..MaxHeaderBytes /\ q.headerCount \in 0..MaxHeaders
    /\ q.chunkLineBytes \in 0..MaxChunkLineBytes /\ q.chunkMetadataBytes \in 0..MaxChunkMetadataBytes
    /\ q.chunkCount \in 0..MaxChunks /\ q.chunkSize \in 0..MaxUint
    /\ q.bodyBytes \in 0..MaxBodyBytes

\* What holds of a parser whatever it has read, ParserTypeOK and FailedIsSilent among it.
Sane(q) ==
    /\ Within(q)
    /\ q.state \in {"FixedBody", "ChunkBody"} => q.remaining \in 1..(MaxBodyBytes - q.bodyBytes)

\* The codes that blame nobody: a limit, a callback that re-entered, the end of input.
Excused == LimitCodes \cup {"ReentrantCall", "UnexpectedEOF"}

\* A parser within its limits that has not failed; one whose body still fits as well; one
\* that failed for a reason that blames nobody; and one that failed.
Alive(q) == Within(q) /\ q.code = "none"

Lives(q) == Sane(q) /\ q.code = "none"

Excusable(q) == Sane(q) /\ q.code \in Excused

Blaming(q) == Sane(q) /\ q.code # "none"

\* The limits of the parser are positive, and the largest body is a number the parser can
\* hold.
LEMMA Limits ==
  /\ MaxStartLineBytes \in Nat \ {0} /\ MaxHeaderBytes \in Nat \ {0} /\ MaxHeaders \in Nat \ {0}
  /\ MaxBodyBytes \in Nat \ {0} /\ MaxChunkLineBytes \in Nat \ {0}
  /\ MaxChunkMetadataBytes \in Nat \ {0} /\ MaxChunks \in Nat \ {0}
  /\ MaxUint \in Nat /\ MaxBodyBytes <= MaxUint
BY LimitsAssumption, Zenon

\* A code that blames nobody is still a failure.
LEMMA ExcusedFails == "none" \notin Excused
BY Zenon DEF Excused, LimitCodes

\* A new parser holds no count and has called nothing.
LEMMA NewSane ==
  ASSUME NEW k \in Kinds, NEW c PROVE Sane(NewParser(k, c))
BY Limits DEF Sane, Within, NewParser, Fields

\* fail leaves a dead parser with the code it was given.
LEMMA FailSane ==
  ASSUME NEW q, Lives(q), NEW c, c # "none"
  PROVE  Sane(fail(q, c)) /\ fail(q, c).code = c
BY Limits DEF Lives, fail, Sane, Within, NewParser, Fields

\* fail with a code of a limit, of a callback or of the end of input blames nobody.
LEMMA FailExcused ==
  ASSUME NEW q, Lives(q), NEW c \in Excused
  PROVE  Excusable(fail(q, c))
BY FailSane, ExcusedFails, Zenon DEF Excusable

\* fail with any code leaves a parser that has failed.
LEMMA FailBlames ==
  ASSUME NEW q, Lives(q), NEW c, c # "none"
  PROVE  Blaming(fail(q, c))
BY FailSane, Zenon DEF Blaming

\* A callback of a parser that has not failed returns, or is the last.
LEMMA CallbackAlive ==
  ASSUME NEW q, Alive(q), NEW r \in Callback(q)
  PROVE  r = q \/ Excusable(r)
<1>1. "ReentrantCall" \in Excused
  BY Zenon DEF Excused
<1>2. Sane(fail(q, "ReentrantCall")) /\ fail(q, "ReentrantCall").code = "ReentrantCall"
  BY Limits DEF Alive, fail, Sane, Within, NewParser, Fields
<1>3. Callback(q) = {q, fail(q, "ReentrantCall")}
  BY Zenon DEF Callback, Alive
<1> QED
  BY <1>1, <1>2, <1>3, Zenon DEF Excusable

\* A callback of a living parser changes nothing, or is its last.
LEMMA CallbackKeeps ==
  ASSUME NEW q, Lives(q), NEW r \in Callback(q)
  PROVE  r = q \/ Excusable(r)
BY CallbackAlive, Zenon DEF Lives, Sane, Alive

-----------------------------------------------------------------------------
(* Limits *)

\* takeStartByte counts an octet of the start line up to its limit.
LEMMA StartByte ==
  ASSUME NEW q, Lives(q), NEW u, u = takeStartByte(q)
  PROVE  \/ u = [q EXCEPT !.startBytes = q.startBytes + 1] /\ Lives(u)
         \/ Excusable(u)
<1>1. CASE q.startBytes = MaxStartLineBytes
  <2>1. "StartLineTooLarge" \in Excused
    BY Zenon DEF Excused, LimitCodes
  <2> QED
    BY <1>1, <2>1, FailExcused, Zenon DEF takeStartByte
<1>2. CASE q.startBytes # MaxStartLineBytes
  BY <1>2, Limits DEF Lives, takeStartByte, Sane, Within, Fields
<1> QED
  BY <1>1, <1>2, Zenon

\* takePrefixByte counts an octet before the start line up to its limit.
LEMMA PrefixByte ==
  ASSUME NEW q, Lives(q), NEW u, u = takePrefixByte(q)
  PROVE  \/ u = [q EXCEPT !.prefixBytes = q.prefixBytes + 1] /\ Lives(u)
         \/ Excusable(u)
<1>1. CASE q.prefixBytes = MaxStartLineBytes
  <2>1. "StartLineTooLarge" \in Excused
    BY Zenon DEF Excused, LimitCodes
  <2> QED
    BY <1>1, <2>1, FailExcused, Zenon DEF takePrefixByte
<1>2. CASE q.prefixBytes # MaxStartLineBytes
  BY <1>2, Limits DEF Lives, takePrefixByte, Sane, Within, Fields
<1> QED
  BY <1>1, <1>2, Zenon

\* takeHeaderByte counts an octet of the header section up to its limit.
LEMMA HeaderByte ==
  ASSUME NEW q, Lives(q), NEW u, u = takeHeaderByte(q)
  PROVE  \/ u = [q EXCEPT !.headerBytes = q.headerBytes + 1] /\ Lives(u)
         \/ Excusable(u)
<1>1. CASE q.headerBytes = MaxHeaderBytes
  <2>1. "HeadersTooLarge" \in Excused
    BY Zenon DEF Excused, LimitCodes
  <2> QED
    BY <1>1, <2>1, FailExcused, Zenon DEF takeHeaderByte
<1>2. CASE q.headerBytes # MaxHeaderBytes
  BY <1>2, Limits DEF Lives, takeHeaderByte, Sane, Within, Fields
<1> QED
  BY <1>1, <1>2, Zenon

\* takeChunkLineByte counts an octet of a chunk's line up to both of its limits.
LEMMA ChunkLineByte ==
  ASSUME NEW q, Lives(q), NEW u, u = takeChunkLineByte(q)
  PROVE  \/ /\ u = [q EXCEPT !.chunkLineBytes = q.chunkLineBytes + 1, !.chunkMetadataBytes = q.chunkMetadataBytes + 1]
            /\ Lives(u)
         \/ Excusable(u)
<1>1. CASE q.chunkLineBytes = MaxChunkLineBytes
  <2>1. "ChunkLineTooLarge" \in Excused
    BY Zenon DEF Excused, LimitCodes
  <2> QED
    BY <1>1, <2>1, FailExcused, Zenon DEF takeChunkLineByte
<1>2. CASE q.chunkLineBytes # MaxChunkLineBytes /\ q.chunkMetadataBytes >= MaxChunkMetadataBytes
  <2>1. "ChunkMetadataTooLarge" \in Excused
    BY Zenon DEF Excused, LimitCodes
  <2> QED
    BY <1>2, <2>1, FailExcused, Zenon DEF takeChunkLineByte
<1>3. CASE q.chunkLineBytes # MaxChunkLineBytes /\ ~(q.chunkMetadataBytes >= MaxChunkMetadataBytes)
  BY <1>3, Limits DEF Lives, takeChunkLineByte, Sane, Within, Fields
<1> QED
  BY <1>1, <1>2, <1>3, Zenon

\* A parser that has not failed moves to the next state.
LEMMA ShiftLive ==
  ASSUME NEW q, q.code = "none", NEW st, NEW x \in Shift(q, st)
  PROVE  x = [q EXCEPT !.state = st]
BY Zenon DEF Shift, AndThen

\* A parser that has failed stays as it is.
LEMMA ShiftFailed ==
  ASSUME NEW q, q.code # "none", NEW st, NEW x \in Shift(q, st)
  PROVE  x = q
BY Zenon DEF Shift, AndThen

\* Moving between states other than the bodies keeps every limit.
LEMMA StateSane ==
  ASSUME NEW q, Lives(q), NEW st, st \notin {"Dead", "FixedBody", "ChunkBody"}
  PROVE  Lives([q EXCEPT !.state = st])
BY DEF Lives, Sane, Within, Fields

\* Taking an octet of the start line and moving on succeeds or meets a limit.
LEMMA StartShift ==
  ASSUME NEW q, Lives(q), NEW st, st \notin {"Dead", "FixedBody", "ChunkBody"}, NEW x \in Shift(takeStartByte(q), st)
  PROVE  \/ Lives(x) /\ x = [[q EXCEPT !.startBytes = q.startBytes + 1] EXCEPT !.state = st]
         \/ Excusable(x)
<1> DEFINE u == takeStartByte(q)
<1>1. CASE Excusable(u)
  BY <1>1, ShiftFailed, ExcusedFails, Zenon DEF Excusable
<1>2. CASE u = [q EXCEPT !.startBytes = q.startBytes + 1] /\ Lives(u)
  <2>1. x = [u EXCEPT !.state = st]
    BY <1>2, ShiftLive, Zenon DEF Lives
  <2> QED
    BY <1>2, <2>1, StateSane, Zenon
<1> QED
  BY <1>1, <1>2, StartByte, Zenon

\* Taking an octet before the start line and moving on succeeds or meets a limit.
LEMMA PrefixShift ==
  ASSUME NEW q, Lives(q), NEW st, st \notin {"Dead", "FixedBody", "ChunkBody"}, NEW x \in Shift(takePrefixByte(q), st)
  PROVE  \/ Lives(x) /\ x = [[q EXCEPT !.prefixBytes = q.prefixBytes + 1] EXCEPT !.state = st]
         \/ Excusable(x)
<1> DEFINE u == takePrefixByte(q)
<1>1. CASE Excusable(u)
  BY <1>1, ShiftFailed, ExcusedFails, Zenon DEF Excusable
<1>2. CASE u = [q EXCEPT !.prefixBytes = q.prefixBytes + 1] /\ Lives(u)
  <2>1. x = [u EXCEPT !.state = st]
    BY <1>2, ShiftLive, Zenon DEF Lives
  <2> QED
    BY <1>2, <2>1, StateSane, Zenon
<1> QED
  BY <1>1, <1>2, PrefixByte, Zenon

\* Taking an octet of a chunk's line and moving on succeeds or meets a limit.
LEMMA ChunkShift ==
  ASSUME NEW q, Lives(q), NEW st, st \notin {"Dead", "FixedBody", "ChunkBody"}, NEW x \in Shift(takeChunkLineByte(q), st)
  PROVE  \/ Lives(x) /\ x = [[q EXCEPT !.chunkLineBytes = q.chunkLineBytes + 1, !.chunkMetadataBytes = q.chunkMetadataBytes + 1] EXCEPT !.state = st]
         \/ Excusable(x)
<1> DEFINE u == takeChunkLineByte(q)
<1>1. CASE Excusable(u)
  BY <1>1, ShiftFailed, ExcusedFails, Zenon DEF Excusable
<1>2. CASE u = [q EXCEPT !.chunkLineBytes = q.chunkLineBytes + 1, !.chunkMetadataBytes = q.chunkMetadataBytes + 1] /\ Lives(u)
  <2>1. x = [u EXCEPT !.state = st]
    BY <1>2, ShiftLive, Zenon DEF Lives
  <2> QED
    BY <1>2, <2>1, StateSane, Zenon
<1> QED
  BY <1>1, <1>2, ChunkLineByte, Zenon

-----------------------------------------------------------------------------
(* Messages *)

\* What beginMessage leaves in a parser.
Begun(q, x) ==
    /\ x.kind = q.kind /\ x.contextual = q.contextual /\ x.parsing = q.parsing
    /\ x.exchangeNum = q.exchangeNum /\ x.messageActive /\ ~x.trailers
    /\ ~x.hasContentLength /\ ~x.hasTransferEncoding /\ ~x.hasHost /\ ~x.hasUpgrade
    /\ x.connection = {} /\ x.chunkSize = 0 /\ x.bodyBytes = 0 /\ x.line = "none" /\ x.version = "none"
    /\ x.head = IF q.kind = "Response" /\ q.contextual THEN Context(q.exchangeNum).head ELSE q.head
    /\ x.connect = IF q.kind = "Response" /\ q.contextual THEN Context(q.exchangeNum).connect ELSE q.connect

\* What completeMessage leaves in a parser.
Completed(q, x) ==
    /\ x.kind = q.kind /\ x.contextual = q.contextual /\ x.parsing = q.parsing
    /\ x.exchangeNum = IF q.kind = "Response" /\ q.line # "100" THEN q.exchangeNum + 1 ELSE q.exchangeNum
    /\ ~x.messageActive /\ ~x.trailers /\ x.state = "Start"
    /\ x.paused <=> q.parsing = "ParseOne"

\* completeMessage counts the exchange and waits for the next message, unless its callback
\* re-enters.
LEMMA CompleteAlive ==
  ASSUME NEW q, Alive(q), NEW x \in completeMessage(q)
  PROVE  (Completed(q, x) /\ Lives(x)) \/ Excusable(x)
<1> DEFINE d(r) == [r EXCEPT !.exchangeNum = IF r.kind = "Response" /\ r.line # "100" THEN @ + 1 ELSE @,
                             !.messageActive = FALSE, !.trailers = FALSE, !.state = "Start",
                             !.paused = r.parsing = "ParseOne"]
<1>1. Lives(d(q)) /\ Completed(q, d(q))
  BY ZenonT(40) DEF Alive, Lives, Sane, Within, Fields, Completed
<1>2. PICK r \in Callback(q) : x \in (IF r.code = "none" THEN {d(r)} ELSE {r})
  BY Zenon DEF completeMessage, AndThen
<1>3. r = q \/ Excusable(r)
  BY <1>2, CallbackAlive, Zenon
<1>4. CASE r = q
  BY <1>1, <1>2, <1>4, Zenon DEF Alive
<1>5. CASE Excusable(r)
  BY <1>2, <1>5, ExcusedFails, Zenon DEF Excusable
<1> QED
  BY <1>3, <1>4, <1>5, Zenon

\* The same of a parser all of whose limits hold.
LEMMA CompleteMessage ==
  ASSUME NEW q, Lives(q), NEW x \in completeMessage(q)
  PROVE  (Completed(q, x) /\ Lives(x)) \/ Excusable(x)
BY CompleteAlive, Zenon DEF Lives, Sane, Alive

-----------------------------------------------------------------------------
(* The start line *)

\* The parser takes a version it speaks, and rejects every other.
LEMMA VersionOutcome ==
  ASSUME NEW q, Lives(q), NEW t, NEW x \in Version(q, t)
  PROVE  \/ /\ t \in Versions /\ Lives(x)
            /\ x = [[q EXCEPT !.startBytes = q.startBytes + 1] EXCEPT
                       !.version = t, !.state = IF q.kind = "Request" THEN "ReqLineCR" ELSE "ResStatus"]
         \/ Excusable(x)
         \/ Blaming(x) /\ t \notin Versions
<1>1. CASE t \notin Versions
  BY <1>1, FailBlames, Zenon DEF Version
<1>2. CASE t \in Versions
  <2> DEFINE u == takeStartByte(q)
             d(r) == [r EXCEPT !.version = t, !.state = IF r.kind = "Request" THEN "ReqLineCR" ELSE "ResStatus"]
  <2>1. x \in (IF u.code = "none" THEN {d(u)} ELSE {u})
    BY <1>2, Zenon DEF Version, AndThen
  <2>2. CASE Excusable(u)
    BY <2>1, <2>2, ExcusedFails, Zenon DEF Excusable
  <2>3. CASE u = [q EXCEPT !.startBytes = q.startBytes + 1] /\ Lives(u)
    <3>1. Lives(d(u)) /\ u.kind = q.kind
      BY <2>3 DEF Lives, Sane, Within, Fields
    <3> QED
      BY <1>2, <2>1, <2>3, <3>1, Zenon DEF Lives
  <2> QED
    BY <2>2, <2>3, StartByte, Zenon
<1> QED
  BY <1>1, <1>2, Zenon

-----------------------------------------------------------------------------
(* Header fields *)

\* What a step inside a message keeps.
SameMessage(q, x) ==
    /\ x.kind = q.kind /\ x.contextual = q.contextual /\ x.parsing = q.parsing
    /\ x.exchangeNum = q.exchangeNum /\ x.head = q.head /\ x.connect = q.connect
    /\ x.messageActive = q.messageActive /\ x.trailers = q.trailers
    /\ x.line = q.line /\ x.version = q.version /\ x.chunkSize = q.chunkSize /\ x.bodyBytes = q.bodyBytes

\* The fields of the message the parser has seen.
SameFields(q, x) ==
    /\ x.hasContentLength = q.hasContentLength /\ x.hasTransferEncoding = q.hasTransferEncoding
    /\ x.hasHost = q.hasHost /\ x.hasUpgrade = q.hasUpgrade /\ x.connection = q.connection
    /\ x.transferChunked = q.transferChunked /\ x.remaining = q.remaining

\* The list of codings it is reading.
SameList(q, x) ==
    /\ x.field = q.field /\ x.transferState = q.transferState
    /\ x.transferCurrentChunked = q.transferCurrentChunked /\ x.transferSawChunked = q.transferSawChunked

FieldOf(q, name) == IF q.kind = "Response" /\ ~q.trailers /\ name = "host" THEN "other" ELSE name

\* A parser that has read a name, and what the name changes.
Named(q, x, field) ==
    /\ SameMessage(q, x) /\ x.field = field
    /\ x.hasUpgrade = q.hasUpgrade /\ x.connection = q.connection
    /\ IF field = "content-length" THEN x.hasContentLength
       ELSE x.hasContentLength = q.hasContentLength /\ x.remaining = q.remaining
    /\ IF field = "transfer-encoding"
       THEN x.hasTransferEncoding /\ x.transferState = "before" /\ ~x.transferSawChunked
       ELSE x.hasTransferEncoding = q.hasTransferEncoding /\ x.transferChunked = q.transferChunked
    /\ IF field = "host" THEN x.hasHost ELSE x.hasHost = q.hasHost

\* The last coding of a list repeats chunked.
Repeats(q) == q.transferState = "token" /\ q.transferCurrentChunked /\ q.transferSawChunked

\* A parser that has committed the last coding of the list, if it had not yet.
Commits(q, x) ==
    /\ SameMessage(q, x) /\ x.field = q.field
    /\ x.hasContentLength = q.hasContentLength /\ x.hasTransferEncoding = q.hasTransferEncoding
    /\ x.hasHost = q.hasHost /\ x.hasUpgrade = q.hasUpgrade /\ x.connection = q.connection
    /\ x.remaining = q.remaining
    /\ x.transferChunked = IF q.transferState = "token" THEN q.transferCurrentChunked ELSE q.transferChunked
    /\ x.transferSawChunked <=> q.transferSawChunked \/ (q.transferState = "token" /\ q.transferCurrentChunked)

\* Why an element of a list of codings is rejected.
BadElement(q, t) ==
    \/ t \in Codings /\ (q.transferState # "before" \/ (q.transferSawChunked /\ q.kind = "Request"))
    \/ t \in {",", ";param", "CR"} /\ (q.transferState = "before" \/ Repeats(q))
    \/ /\ t = ";param"
       /\ IF q.transferState = "token" THEN q.transferCurrentChunked ELSE q.transferChunked
    \/ t \notin Codings \cup {",", ";param", "CR"}

\* What an element of a list of codings leaves in the parser.
Listed(q, x, t) ==
    /\ x.state = q.state
    /\ \/ /\ t \in Codings /\ SameMessage(q, x) /\ x.field = q.field /\ SameFields(q, x)
          /\ x.transferSawChunked = q.transferSawChunked
          /\ x.transferState = "token" /\ (x.transferCurrentChunked <=> t = "chunked")
       \/ t = "," /\ Commits(q, x) /\ x.transferState = "before"
       \/ t = ";param" /\ Commits(q, x) /\ x.transferState = "after"

\* What a value that arrives whole leaves in the parser.
Valued(q, x, t) ==
    /\ SameMessage(q, x) /\ x.field = q.field
    /\ x.hasContentLength = q.hasContentLength /\ x.hasTransferEncoding = q.hasTransferEncoding
    /\ x.hasHost = q.hasHost /\ x.transferChunked = q.transferChunked
    /\ x.remaining = IF q.field = "content-length" THEN Length[t] ELSE q.remaining
    /\ x.connection = IF q.field = "connection" THEN q.connection \cup {t} ELSE q.connection
    /\ x.hasUpgrade <=> q.hasUpgrade \/ q.field = "upgrade"

\* The rules Judged holds a header section against.
Illformed(q) ==
    \/ q.kind = "Request" /\ q.version = "1.1" /\ ~q.hasHost
    \/ q.hasTransferEncoding /\ q.version # "1.1"
    \/ q.kind = "Response" /\ q.line = "101" /\ ~("upgrade" \in q.connection /\ q.hasUpgrade)
    \/ q.kind = "Response" /\ forbidsFraming(q) /\ (q.hasContentLength \/ q.hasTransferEncoding)
    \/ q.kind = "Request" /\ q.hasTransferEncoding /\ ~q.transferChunked

\* Where a message goes on after its header section.
Upgrades(q) == q.line = "101" \/ (q.connect /\ q.line \in {"200", "204"})

Goes(q) ==
    IF noResponseBody(q) THEN IF Upgrades(q) THEN "Upgrade" ELSE "Start"
    ELSE IF q.hasTransferEncoding THEN IF q.transferChunked THEN "ChunkSize" ELSE "CloseBody"
    ELSE IF q.hasContentLength THEN IF q.remaining = 0 THEN "Start" ELSE "FixedBody"
    ELSE IF q.kind = "Request" THEN "Start" ELSE "CloseBody"

-----------------------------------------------------------------------------
(* Bodies and chunks *)

\* A parser that has taken n octets of a body of known length.
Fed(q, n) == [[q EXCEPT !.bodyBytes = q.bodyBytes + n] EXCEPT !.remaining = q.remaining - n]

\* Octets of a body of known length are counted below the limit of bodies.
LEMMA FedAlive ==
  ASSUME NEW q, Lives(q), q.state \in {"FixedBody", "ChunkBody"}, NEW n \in 1..q.remaining
  PROVE  /\ Alive(Fed(q, n)) /\ Fed(q, n).state = q.state /\ Fed(q, n).remaining = q.remaining - n
         /\ n # q.remaining => Lives(Fed(q, n))
         /\ addBody(q, n) = [q EXCEPT !.bodyBytes = q.bodyBytes + n]
         /\ addBody(q, n).code = "none" /\ addBody(q, n).remaining = q.remaining
         /\ Least(n, q.remaining) = n
<1>1. n \in Nat \ {0} /\ q.remaining \in Nat /\ n <= q.remaining /\ q.bodyBytes \in Nat
      /\ q.remaining <= MaxBodyBytes - q.bodyBytes
  BY Limits DEF Lives, Sane, Within
<1>2. Least(n, q.remaining) = n
  BY <1>1 DEF Least
<1>3. addBody(q, n) = [q EXCEPT !.bodyBytes = q.bodyBytes + n]
  BY <1>1, Limits DEF addBody
<1>4. addBody(q, n).code = "none" /\ addBody(q, n).remaining = q.remaining
  BY <1>3, Zenon DEF Lives, Sane, Within, Fields
<1>5. Alive(Fed(q, n)) /\ Fed(q, n).state = q.state /\ Fed(q, n).remaining = q.remaining - n
      /\ Fed(q, n).bodyBytes = q.bodyBytes + n
  BY <1>1, Limits DEF Lives, Sane, Within, Fields, Alive, Fed
<1>6. ASSUME n # q.remaining PROVE Lives(Fed(q, n))
  <2>1. q.remaining - n \in 1..(MaxBodyBytes - (q.bodyBytes + n))
    BY <1>1, <1>6, Limits
  <2> QED
    BY <1>5, <2>1, Zenon DEF Alive, Lives, Sane
<1> QED
  BY <1>2, <1>3, <1>4, <1>5, <1>6, Zenon

\* A byte of a chunk line keeps the message.
LEMMA ChunkShiftKeeps ==
  ASSUME NEW q, Lives(q), NEW st, st \notin {"Dead", "FixedBody", "ChunkBody"}, NEW x \in Shift(takeChunkLineByte(q), st)
  PROVE  (Lives(x) /\ SameMessage(q, x) /\ x.state = st) \/ Excusable(x)
<1> SUFFICES ASSUME Lives(x),
                    x = [[q EXCEPT !.chunkLineBytes = q.chunkLineBytes + 1, !.chunkMetadataBytes = q.chunkMetadataBytes + 1]
                           EXCEPT !.state = st]
             PROVE  SameMessage(q, x) /\ x.state = st
  BY ChunkShift, Zenon
<1> QED
  BY DEF Lives, Sane, Within, Fields, SameMessage

\* A parser that has read a digit: everything but the size is kept.
Digits(q, x, t) ==
    /\ x.state = q.state /\ x.chunkSize = q.chunkSize * Radix + Digit[t]
    /\ x.kind = q.kind /\ x.contextual = q.contextual /\ x.parsing = q.parsing
    /\ x.exchangeNum = q.exchangeNum /\ x.head = q.head /\ x.connect = q.connect
    /\ x.messageActive = q.messageActive /\ x.trailers = q.trailers
    /\ x.line = q.line /\ x.version = q.version

\* What a step between chunks keeps.
SameChunked(q, x) ==
    /\ x.kind = q.kind /\ x.contextual = q.contextual /\ x.parsing = q.parsing
    /\ x.exchangeNum = q.exchangeNum /\ x.head = q.head /\ x.connect = q.connect
    /\ x.messageActive = q.messageActive /\ x.line = q.line /\ x.version = q.version

-----------------------------------------------------------------------------
(* The parser and the sender agree *)

\* The fields of the record of the sender.
SenderFields ==
    {"answered", "line", "version", "fields", "name", "codings", "coding", "body", "left", "fault"}

\* The sender has sent field n.
Has(s, n) == \E f \in s.fields : f[1] = n

\* The context of the response the parser reads is that of the one being sent.
InContext(q, s) == q.head = Context(s.answered).head /\ q.connect = Context(s.answered).connect

\* Between messages.
AtRest(q, s) ==
    /\ s = Idle(s.answered) /\ s.answered \in Nat /\ ~q.messageActive /\ ~q.trailers
    /\ q.kind = "Response" => q.exchangeNum = s.answered /\ q.state = "Start"
    /\ (q.kind = "Response" /\ q.parsing = "ParseOne" /\ ~q.paused) => InContext(q, s)

\* In a message, of which both know the same.
InMessage(q, s) ==
    /\ q.messageActive /\ q.line = s.line /\ q.version = s.version /\ s.answered \in Nat
    /\ q.kind = "Response" => q.exchangeNum = s.answered /\ InContext(q, s)

\* In the start line.
InLine(q, s) ==
    /\ InMessage(q, s) /\ s.body = "head" /\ ~s.fault /\ s.fields = {} /\ s.codings = {} /\ s.coding = "none"
    /\ ~q.trailers /\ q.chunkSize = 0 /\ q.bodyBytes = 0
    /\ ~q.hasContentLength /\ ~q.hasTransferEncoding /\ ~q.hasHost /\ ~q.hasUpgrade /\ q.connection = {}
    /\ q.state \in {"ReqTarget", "ReqLineCR"} => q.kind = "Request"
    /\ q.state \in {"ResStatus", "ResReason"} => q.kind = "Response"
    /\ q.state = "ReqTarget" => s.version = "none"
    /\ q.state \in {"ReqLineCR", "ResStatus"} => s.version \in Versions
    /\ q.state \in {"ResReason", "LineLF"} => s.version \in {"1.0", "1.1"}

\* The parser has seen field n, whose value is complete or being read.
Seen(q, s, n) == Has(s, n) \/ (q.state = "HeaderValue" /\ s.name = n)

\* In the header section: what the parser knows of the fields is what was sent.
Knows(q, s) ==
    /\ q.hasContentLength <=> Seen(q, s, "content-length")
    /\ q.hasTransferEncoding <=> Seen(q, s, "transfer-encoding")
    /\ q.kind = "Request" => (q.hasHost <=> Seen(q, s, "host"))
    /\ q.hasUpgrade <=> Has(s, "upgrade")
    /\ "upgrade" \in q.connection <=> <<"connection", "upgrade">> \in s.fields
    /\ \A v : <<"content-length", v>> \in s.fields => v \in DOMAIN Length /\ q.remaining = Length[v]
    /\ \A v : <<"transfer-encoding", v>> \in s.fields => v = IF q.transferChunked THEN "chunked" ELSE "gzip"
    /\ \A f \in s.fields : f = <<f[1], f[2]>>

\* In a list of codings.
InList(q, s) ==
    /\ q.transferState \in {"before", "token", "after"}
    /\ q.transferState = "before" <=> s.coding = "none"
    /\ q.transferState = "token" => s.coding = IF q.transferCurrentChunked THEN "chunked" ELSE "gzip"
    /\ q.transferState = "after" => s.coding = "gzip" /\ ~q.transferChunked
    /\ "chunked" \in s.codings <=> q.transferSawChunked \/ (q.transferState = "token" /\ q.transferCurrentChunked)
    /\ (q.kind = "Request" /\ q.transferState = "token") => ~q.transferSawChunked
    /\ s.fault <=> Repeats(q)

\* In the value of a field.
InValue(q, s) ==
    /\ s.name \in {"content-length", "transfer-encoding", "connection", "host", "upgrade"}
    /\ q.field = IF q.kind = "Response" /\ s.name = "host" THEN "other" ELSE s.name
    /\ s.name \in Single => ~Has(s, "content-length") /\ ~Has(s, "transfer-encoding")
    /\ s.name = "transfer-encoding" => InList(q, s)

\* In the header section.
InHead(q, s) ==
    /\ InMessage(q, s) /\ s.body = "head" /\ s.version \in {"1.0", "1.1"}
    /\ q.chunkSize = 0 /\ q.bodyBytes = 0 /\ Knows(q, s)
    /\ q.state = "HeaderValue" => InValue(q, s)
    /\ ~(q.state = "HeaderValue" /\ s.name = "transfer-encoding") => ~s.fault /\ s.codings = {} /\ s.coding = "none"

\* In the trailers of a chunked body.
InTrailers(q, s) ==
    /\ InMessage(q, s) /\ s.body = "chunked" /\ ~s.fault /\ s.version # "2.0"
    /\ q.state = "HeaderValue" => s.name = "other" /\ q.field = "other"

\* In a chunked body, in a body of known length, and in one that the end of input ends.
InChunks(q, s) ==
    /\ InMessage(q, s) /\ s.body = "chunked" /\ ~s.fault /\ s.version # "2.0" /\ ~q.trailers
    /\ q.state \in {"ChunkSize", "ChunkExt", "ChunkSizeLF"} => q.chunkSize = s.left
    /\ q.state = "ChunkBody" => q.remaining = s.left
    /\ q.state \in {"ChunkBodyCR", "ChunkBodyLF"} => s.left = 0

InFixed(q, s) == InMessage(q, s) /\ s.body = "fixed" /\ ~s.fault /\ ~q.trailers /\ q.remaining = s.left

InClose(q, s) == s.body = "close" /\ ~s.fault /\ ~q.trailers /\ ~KeepAlive(q)

\* The states of the start line, of the header section or trailers, and of chunks.
LineStates   == {"ReqTarget", "ReqLineCR", "ResStatus", "ResReason", "LineLF"}
HeaderStates == {"HeaderStart", "HeaderValue", "HeaderValueLF", "HeadersLF"}
ChunkStates  == {"ChunkSize", "ChunkExt", "ChunkSizeLF", "ChunkBody", "ChunkBodyCR", "ChunkBodyLF"}

\* A parser and the record of a sender that go together.
Agree(q, s) ==
    /\ q.parsing = "Parse" => q.contextual
    /\ q.parsing = "ParseOne" => ~q.contextual
    /\ \/ q.state \in {"Start", "LeadingLF"} /\ AtRest(q, s)
       \/ q.state \in LineStates /\ InLine(q, s)
       \/ q.state \in HeaderStates /\ ~q.trailers /\ InHead(q, s)
       \/ q.state \in HeaderStates /\ q.trailers /\ InTrailers(q, s)
       \/ q.state \in ChunkStates /\ InChunks(q, s)
       \/ q.state = "FixedBody" /\ InFixed(q, s)
       \/ q.state = "CloseBody" /\ InClose(q, s)
       \/ q.state = "Upgrade" /\ s.body = "tunnel" /\ ~s.fault /\ ~q.trailers

\* The inductive invariant.
Http1Inv ==
    /\ Sane(p) /\ SenderFields \subseteq DOMAIN sent
    /\ result # "open" => p.parsing = "no" /\ (p.code = "none" => ~sent.fault)
    /\ (p.code = "none" /\ result = "open") => Agree(p, sent)
    /\ p.code \notin {"none"} \cup Excused => sent.fault

-----------------------------------------------------------------------------
(* Steps of the connection *)

\* A parser that takes a token is alive, and agrees with the sender.
LEMMA Reads ==
  ASSUME Http1Inv, NEW st, Reading(st)
  PROVE  /\ Lives(p) /\ p.state = st /\ ~p.paused /\ p.parsing \in {"Parse", "ParseOne"}
         /\ result = "open" /\ Agree(p, sent) /\ SenderFields \subseteq DOMAIN sent
<1>1. p.parsing \in {"no", "Parse", "ParseOne"}
  BY Zenon DEF Http1Inv, Sane, Within
<1> QED
  BY <1>1, Zenon DEF Http1Inv, Reading, Lives

\* A step whose parser fails with cause keeps the invariant.
LEMMA Rejects ==
  ASSUME Http1Inv, NEW s, sent' = Record(s), UNCHANGED result, result = "open",
         Excusable(p') \/ (Blaming(p') /\ s.fault)
  PROVE  Http1Inv'
<1>1. p'.code # "none" /\ Sane(p')
  BY ExcusedFails, Zenon DEF Excusable, Blaming
<1>2. sent' = [Idle(0) EXCEPT !.fault = s.fault]
  BY <1>1, Zenon DEF Record
<1>3. SenderFields \subseteq DOMAIN sent' /\ sent'.fault = s.fault
  BY <1>2, Zenon DEF SenderFields, Idle
<1> QED
  BY <1>1, <1>3, Zenon DEF Http1Inv, Excusable

\* A step after which a living parser agrees with the sender keeps the invariant.
LEMMA Accepts ==
  ASSUME Http1Inv, NEW s, sent' = Record(s), UNCHANGED result, result = "open",
         Lives(p'), SenderFields \subseteq DOMAIN s, Agree(p', s)
  PROVE  Http1Inv'
<1>1. sent' = s
  BY Zenon DEF Record, Lives
<1> QED
  BY <1>1, Zenon DEF Http1Inv, Lives

\* A byte that fits nowhere is a fault.
LEMMA SendsBad ==
  ASSUME SenderFields \subseteq DOMAIN sent PROVE Sends("bad").fault
BY Zenon DEF Sends, SenderFields

\* The tokens that lay a message out are no part of its content.
LEMMA LayoutTokens ==
  ASSUME NEW t \in {"LF", "CR", "target", "reason", ";ext"}
  PROVE  /\ t # "bad" /\ t \notin Methods \cup Statuses /\ t \notin Versions /\ t \notin Names /\ t \notin DOMAIN Digit
BY Zenon DEF Methods, Statuses, Versions, Names, Digit

\* A token that only lays a message out changes nothing in the record of the sender.
LEMMA SendsNothing ==
  ASSUME NEW t \in {"LF", "CR", "target", "reason", ";ext"}, sent.version # "2.0",
         p.state # "HeaderValue", p.state # "HeadersLF" \/ t # "LF"
  PROVE  Sends(t) = sent
BY LayoutTokens, Zenon DEF Sends

\* A method or a status is recorded as the line of the message.
LEMMA SendsLine ==
  ASSUME NEW t \in Methods \cup Statuses, sent.version # "2.0", p.state \in {"Start", "ResStatus"}
  PROVE  t # "bad" /\ Sends(t) = [sent EXCEPT !.line = t, !.body = "head"]
<1>1. t # "bad" /\ t \notin Versions /\ t \notin Names /\ t \notin DOMAIN Digit
  BY Zenon DEF Methods, Statuses, Versions, Names, Digit
<1>2. p.state # "HeaderValue" /\ p.state # "HeadersLF"
  BY Zenon
<1> QED
  BY <1>1, <1>2, Zenon DEF Sends

\* A version is recorded as that of the message.
LEMMA SendsVersion ==
  ASSUME NEW t \in Versions, sent.version # "2.0", p.state \in {"Start", "ReqTarget"}
  PROVE  t # "bad" /\ Sends(t) = [sent EXCEPT !.version = t, !.body = "head"]
<1>1. t # "bad" /\ t \notin Methods \cup Statuses /\ t \notin Names /\ t \notin DOMAIN Digit
  BY Zenon DEF Methods, Statuses, Versions, Names, Digit
<1>2. p.state # "HeaderValue" /\ p.state # "HeadersLF"
  BY Zenon
<1> QED
  BY <1>1, <1>2, Zenon DEF Sends

\* TakeLeadingLF keeps the invariant: no message has begun.
LEMMA LeadingLFKeeps == Http1Inv /\ TakeLeadingLF => Http1Inv'
\* The line feed of an empty line before a message is taken, and nothing else is.
<1>LeadingLFOutcome.
    ASSUME NEW q, Lives(q), NEW t, NEW x \in LeadingLF(q, t)
    PROVE  \/ /\ t = "LF" /\ Lives(x)
              /\ x = [[q EXCEPT !.prefixBytes = q.prefixBytes + 1] EXCEPT !.state = "Start"]
           \/ Excusable(x)
           \/ Blaming(x) /\ t # "LF"
  <2> USE <1>LeadingLFOutcome
  <2>1. CASE t # "LF"
    BY <2>1, FailBlames, Zenon DEF LeadingLF
  <2>2. CASE t = "LF"
    <3>1. x \in Shift(takePrefixByte(q), "Start")
      BY <2>2, Zenon DEF LeadingLF
    <3> QED
      BY <2>2, <3>1, PrefixShift, Zenon
  <2> QED
    BY <2>1, <2>2, Zenon
<1>LeadingLFKeeps. ASSUME Http1Inv, TakeLeadingLF PROVE Http1Inv'
  <2> USE <1>LeadingLFKeeps
  <2>1. /\ Lives(p) /\ p.state = "LeadingLF" /\ result = "open" /\ Agree(p, sent)
        /\ SenderFields \subseteq DOMAIN sent
    BY Reads, Zenon DEF TakeLeadingLF
  <2>2. PICK t \in Tokens : Takes(LeadingLF(p, t), t)
    BY Zenon DEF TakeLeadingLF
  <2>3. t \in {"LF", "bad"}
    BY <2>1, Zenon DEF Tokens, Grammar
  <2>4. AtRest(p, sent)
    BY <2>1, Zenon DEF Agree, LineStates, HeaderStates, ChunkStates
  <2>5. sent.version = "none"
    BY <2>4 DEF AtRest, Idle
  <2>6. CASE Lives(p') /\ t = "LF" /\ p' = [[p EXCEPT !.prefixBytes = p.prefixBytes + 1] EXCEPT !.state = "Start"]
    <3>1. Sends(t) = sent
      BY <2>1, <2>5, <2>6, SendsNothing, Zenon
    <3>2. p'.state = "Start" /\ AtRest(p', sent) /\ p'.parsing = p.parsing /\ p'.contextual = p.contextual
      BY <2>1, <2>4, <2>6, Zenon DEF AtRest, InContext, Lives, Sane, Within, Fields
    <3>3. Agree(p', sent)
      BY <2>1, <3>2, Zenon DEF Agree
    <3> QED
      BY <2>1, <2>2, <2>6, <3>1, <3>3, Accepts, Zenon DEF Takes
  <2>7. CASE Excusable(p') \/ (Blaming(p') /\ t # "LF")
    <3>1. Blaming(p') /\ t # "LF" => Sends(t).fault
      BY <2>1, <2>3, SendsBad, Zenon
    <3> QED
      BY <2>1, <2>2, <2>7, <3>1, Rejects, Zenon DEF Takes
  <2> QED
    BY <2>1, <2>2, <2>6, <2>7, <1>LeadingLFOutcome, Zenon DEF Takes
<1> QED
  BY <1>LeadingLFKeeps, Zenon

\* The first token of a message.
LEMMA StartKeeps == Http1Inv /\ TakeStart => Http1Inv'
\* beginMessage forgets the previous message and keeps the connection.
<1>BeginMessage.
    ASSUME NEW q, Lives(q), NEW x \in beginMessage(q)
    PROVE  (Begun(q, x) /\ Lives(x)) \/ Excusable(x)
  <2> USE <1>BeginMessage
  <2> DEFINE c == IF q.kind = "Response" /\ q.contextual
                  THEN [q EXCEPT !.head = Context(q.exchangeNum).head, !.connect = Context(q.exchangeNum).connect]
                  ELSE q
             b(r) == [NewParser(r.kind, r.contextual) EXCEPT
                        !.parsing = r.parsing, !.exchangeNum = r.exchangeNum,
                        !.head = r.head, !.connect = r.connect, !.late = r.late, !.messageActive = TRUE]
  <2>1. Lives(c)
    BY SMTT(30) DEF Lives, Sane, Within, Fields
  <2>2. Lives(b(c)) /\ Begun(q, b(c))
    BY <2>1, Limits DEF Lives, Sane, Within, Fields, NewParser, Begun
  <2>3. PICK r \in (IF q.kind = "Response" /\ q.contextual THEN Callback(c) ELSE {q}) :
             x \in (IF r.code = "none" THEN Callback(b(r)) ELSE {r})
    BY Zenon DEF beginMessage, AndThen
  <2>4. r = c \/ Excusable(r)
    BY <2>1, <2>3, CallbackKeeps, Zenon
  <2>5. CASE r = c
    BY <2>1, <2>2, <2>3, <2>5, CallbackKeeps, Zenon DEF Lives
  <2>6. CASE Excusable(r)
    BY <2>3, <2>6, ExcusedFails, Zenon DEF Excusable
  <2> QED
    BY <2>4, <2>5, <2>6, Zenon
\* The parser takes a method, meets a limit, or rejects what is none.
<1>ReqMethodOutcome.
    ASSUME NEW q, Lives(q), NEW t, NEW x \in ReqMethod(q, t)
    PROVE  \/ /\ t \in Methods /\ Lives(x)
              /\ x = [[q EXCEPT !.startBytes = q.startBytes + 1] EXCEPT !.line = t, !.state = "ReqTarget"]
           \/ Excusable(x)
           \/ Blaming(x) /\ t \notin Methods
  <2> USE <1>ReqMethodOutcome
  <2>1. CASE t \notin Methods
    BY <2>1, FailBlames, Zenon DEF ReqMethod
  <2>2. CASE t \in Methods
    <3> DEFINE u == takeStartByte(q)
               d(s) == [s EXCEPT !.line = t, !.state = "ReqTarget"]
    <3>1. x \in (IF u.code = "none" THEN UNION {IF s.code = "none" THEN {d(s)} ELSE {s} : s \in Callback(u)} ELSE {u})
      BY <2>2, Zenon DEF ReqMethod, AndThen
    <3>2. CASE Excusable(u)
      BY <3>1, <3>2, ExcusedFails, Zenon DEF Excusable
    <3>3. CASE u = [q EXCEPT !.startBytes = q.startBytes + 1] /\ Lives(u)
      <4>1. Lives(d(u))
        BY <3>3 DEF Lives, Sane, Within, Fields
      <4>2. PICK s \in Callback(u) : x \in (IF s.code = "none" THEN {d(s)} ELSE {s})
        BY <3>1, <3>3, Zenon DEF Lives
      <4>3. s = u \/ Excusable(s)
        BY <3>3, <4>2, CallbackKeeps, Zenon
      <4> QED
        BY <2>2, <3>3, <4>1, <4>2, <4>3, ExcusedFails, Zenon DEF Lives, Excusable
    <3> QED
      BY <3>2, <3>3, StartByte, Zenon
  <2> QED
    BY <2>1, <2>2, Zenon
\* A fragment starts with an empty line.
<1>StartCROutcome.
    ASSUME NEW q, Lives(q), q.kind = "Request", NEW x \in Start(q, "CR")
    PROVE  \/ Lives(x) /\ x = [[q EXCEPT !.prefixBytes = q.prefixBytes + 1] EXCEPT !.state = "LeadingLF"]
           \/ Excusable(x)
  <2> USE <1>StartCROutcome
  <2>1. x \in Shift(takePrefixByte(q), "LeadingLF")
    BY Zenon DEF Start
  <2> QED
    BY <2>1, PrefixShift, Zenon
\* The first token of a message begins it, or is rejected.
<1>StartOutcome.
    ASSUME NEW q, Lives(q), NEW t, ~(q.kind = "Request" /\ t = "CR"), NEW x \in Start(q, t)
    PROVE  \/ \E b : Begun(q, b) /\ Lives(b) /\ x \in (IF b.kind = "Request" THEN ReqMethod(b, t) ELSE Version(b, t))
           \/ Excusable(x)
  <2> USE <1>StartOutcome
  <2> DEFINE S(r) == IF r.kind = "Request" THEN ReqMethod(r, t) ELSE Version(r, t)
  <2>1. x \in UNION {IF r.code = "none" THEN S(r) ELSE {r} : r \in beginMessage(q)}
    BY Zenon DEF Start, AndThen
  <2>2. PICK r \in beginMessage(q) : x \in (IF r.code = "none" THEN S(r) ELSE {r})
    BY <2>1, Zenon
  <2>3. (Begun(q, r) /\ Lives(r)) \/ Excusable(r)
    BY <2>2, <1>BeginMessage, Zenon
  <2> QED
    BY <2>2, <2>3, ExcusedFails, Zenon DEF Excusable, Lives
<1>StartKeeps. ASSUME Http1Inv, TakeStart PROVE Http1Inv'
  <2> USE <1>StartKeeps
  <2>1. /\ Lives(p) /\ p.state = "Start" /\ result = "open" /\ Agree(p, sent) /\ ~p.paused
        /\ p.parsing \in {"Parse", "ParseOne"} /\ SenderFields \subseteq DOMAIN sent
    BY Reads, Zenon DEF TakeStart
  <2>2. PICK t \in Tokens : Takes(Start(p, t), t)
    BY Zenon DEF TakeStart
  <2>3. t = "bad" \/ t \in (IF p.kind = "Request" THEN Methods \cup {"CR"} ELSE Versions)
    BY <2>1, Zenon DEF Tokens, Grammar
  <2>4. AtRest(p, sent)
    BY <2>1, Zenon DEF Agree, LineStates, HeaderStates, ChunkStates
  <2>5. /\ sent.version = "none" /\ sent.line = "none" /\ ~sent.fault /\ sent.fields = {}
        /\ sent.codings = {} /\ sent.coding = "none" /\ sent.answered \in Nat
    BY <2>4 DEF AtRest, Idle
  <2>6. CASE p.kind = "Request" /\ t = "CR"
    <3>1. Sends(t) = sent
      BY <2>1, <2>5, <2>6, SendsNothing, Zenon
    <3>2. CASE Lives(p') /\ p' = [[p EXCEPT !.prefixBytes = p.prefixBytes + 1] EXCEPT !.state = "LeadingLF"]
      <4>1. p'.state = "LeadingLF" /\ AtRest(p', sent) /\ p'.parsing = p.parsing /\ p'.contextual = p.contextual
        BY <2>1, <2>4, <2>6, <3>2, ZenonT(40) DEF AtRest, InContext, Lives, Sane, Within, Fields
      <4>2. Agree(p', sent)
        BY <2>1, <4>1, Zenon DEF Agree
      <4> QED
        BY <2>1, <2>2, <3>1, <3>2, <4>2, Accepts, Zenon DEF Takes
    <3>3. CASE Excusable(p')
      BY <2>1, <2>2, <3>3, Rejects, Zenon DEF Takes
    <3> QED
      BY <2>1, <2>2, <2>6, <3>2, <3>3, <1>StartCROutcome, Zenon DEF Takes
  <2>7. CASE ~(p.kind = "Request" /\ t = "CR")
    <3>1. CASE Excusable(p')
      BY <2>1, <2>2, <3>1, Rejects, Zenon DEF Takes
    <3>2. ASSUME NEW b, Begun(p, b), Lives(b),
                 p' \in (IF b.kind = "Request" THEN ReqMethod(b, t) ELSE Version(b, t))
          PROVE  Http1Inv'
      <4>0. b.kind = p.kind /\ p.kind \in Kinds
        BY <2>1, <3>2, Zenon DEF Begun, Lives, Sane, Within
      <4>1. p.kind = "Response" => b.exchangeNum = sent.answered /\ InContext(b, sent)
        <5>1. p.parsing = "ParseOne" => (p.kind = "Response" => InContext(p, sent))
          BY <2>1, <2>4, Zenon DEF AtRest
        <5>2. p.parsing = "Parse" => p.contextual
          BY <2>1, Zenon DEF Agree
        <5>3. p.kind = "Response" => p.exchangeNum = sent.answered
          BY <2>4, Zenon DEF AtRest
        <5> QED
          BY <2>1, <3>2, <5>1, <5>2, <5>3, Zenon DEF Begun, InContext
      <4>2. p.parsing = b.parsing /\ p.contextual = b.contextual
        BY <3>2, Zenon DEF Begun
      <4>3. CASE p.kind = "Request"
        <5>1. p' \in ReqMethod(b, t)
          BY <3>2, <4>0, <4>3, Zenon
        <5>2. CASE /\ t \in Methods /\ Lives(p')
                   /\ p' = [[b EXCEPT !.startBytes = b.startBytes + 1] EXCEPT !.line = t, !.state = "ReqTarget"]
          <6> DEFINE r == [sent EXCEPT !.line = t, !.body = "head"]
          <6>1. t # "bad" /\ Sends(t) = r
            <7>1. t \in Methods \cup Statuses /\ sent.version # "2.0" /\ p.state \in {"Start", "ResStatus"}
              BY <2>1, <2>5, <5>2, Zenon
            <7> QED
              BY <7>1, SendsLine, Zenon
          <6>2. SenderFields \subseteq DOMAIN r
            BY <2>1, Zenon DEF SenderFields
          <6>3. InLine(p', r) /\ p'.state = "ReqTarget" /\ p'.parsing = p.parsing /\ p'.contextual = p.contextual
            BY <2>1, <2>5, <3>2, <4>0, <4>2, <4>3, <5>2
               DEF InLine, InMessage, Begun, Lives, Sane, Within, Fields, SenderFields
          <6>4. Agree(p', r)
            BY <2>1, <6>3, Zenon DEF Agree, LineStates
          <6> HIDE DEF r
          <6> QED
            BY <2>1, <2>2, <5>2, <6>1, <6>2, <6>4, Accepts, Zenon DEF Takes
        <5>3. CASE Excusable(p') \/ (Blaming(p') /\ t \notin Methods)
          <6>1. Blaming(p') /\ t \notin Methods => Sends(t).fault
            BY <2>1, <2>3, <2>7, <4>3, SendsBad, Zenon
          <6> QED
            BY <2>1, <2>2, <5>3, <6>1, Rejects, Zenon DEF Takes
        <5> QED
          BY <3>2, <5>1, <5>2, <5>3, <1>ReqMethodOutcome, Zenon
      <4>4. CASE p.kind = "Response"
        <5>1. p' \in Version(b, t)
          BY <3>2, <4>0, <4>4, Zenon
        <5>2. CASE /\ t \in Versions /\ Lives(p')
                   /\ p' = [[b EXCEPT !.startBytes = b.startBytes + 1] EXCEPT
                               !.version = t, !.state = IF b.kind = "Request" THEN "ReqLineCR" ELSE "ResStatus"]
          <6> DEFINE r == [sent EXCEPT !.version = t, !.body = "head"]
          <6>1. t # "bad" /\ Sends(t) = r
            <7>1. sent.version # "2.0" /\ p.state \in {"Start", "ReqTarget"}
              BY <2>1, <2>5, Zenon
            <7> QED
              BY <5>2, <7>1, SendsVersion, Zenon
          <6>2. SenderFields \subseteq DOMAIN r
            BY <2>1, Zenon DEF SenderFields
          <6>3. InLine(p', r) /\ p'.state = "ResStatus" /\ p'.parsing = p.parsing /\ p'.contextual = p.contextual
            BY <2>1, <2>5, <3>2, <4>0, <4>1, <4>2, <4>4, <5>2
               DEF InLine, InMessage, InContext, Begun, Lives, Sane, Within, Fields, SenderFields
          <6>4. Agree(p', r)
            BY <2>1, <6>3, Zenon DEF Agree, LineStates
          <6> HIDE DEF r
          <6> QED
            BY <2>1, <2>2, <5>2, <6>1, <6>2, <6>4, Accepts, Zenon DEF Takes
        <5>3. CASE Excusable(p') \/ (Blaming(p') /\ t \notin Versions)
          <6>1. Blaming(p') /\ t \notin Versions => Sends(t).fault
            BY <2>1, <2>3, <4>4, SendsBad, Zenon
          <6> QED
            BY <2>1, <2>2, <5>3, <6>1, Rejects, Zenon DEF Takes
        <5> QED
          BY <3>2, <5>1, <5>2, <5>3, VersionOutcome, Zenon
      <4> QED
        BY <4>0, <4>3, <4>4, Zenon DEF Kinds
    <3> QED
      BY <2>1, <2>2, <2>7, <3>1, <3>2, <1>StartOutcome, Zenon DEF Takes
  <2> QED
    BY <2>6, <2>7, Zenon
<1> QED
  BY <1>StartKeeps, Zenon

\* The parser stays in the start line.
LEMMA LineStays ==
  ASSUME Http1Inv, Agree(p, sent), result = "open", NEW t, Takes({p'}, t), Lives(p'),
         SenderFields \subseteq DOMAIN Sends(t), p'.state \in LineStates, InLine(p', Sends(t)),
         p'.parsing = p.parsing, p'.contextual = p.contextual
  PROVE  Http1Inv'
<1>1. Agree(p', Sends(t))
  BY Zenon DEF Agree
<1> QED
  BY <1>1, Accepts, Zenon DEF Takes

\* TakeReqTarget keeps the invariant.
LEMMA ReqTargetKeeps == Http1Inv /\ TakeReqTarget => Http1Inv'
\* The target and the version of a request are taken in turn.
<1>ReqTargetOutcome.
    ASSUME NEW q, Lives(q), NEW t, NEW x \in ReqTarget(q, t)
    PROVE  \/ /\ t = "target" /\ Lives(x)
              /\ x = [[q EXCEPT !.startBytes = q.startBytes + 1] EXCEPT !.target = TRUE]
           \/ t # "target" /\ q.target /\ x \in Version(q, t)
           \/ Excusable(x)
           \/ Blaming(x) /\ t # "target" /\ ~q.target
  <2> USE <1>ReqTargetOutcome
  <2>1. CASE t # "target"
    BY <2>1, FailBlames, Zenon DEF ReqTarget
  <2>2. CASE t = "target"
    <3> DEFINE u == takeStartByte(q)
               d == [u EXCEPT !.target = TRUE]
    <3>1. x \in (IF u.code = "none" THEN Callback(d) ELSE {u})
      BY <2>2, Zenon DEF ReqTarget, AndThen
    <3>2. CASE Excusable(u)
      BY <3>1, <3>2, ExcusedFails, Zenon DEF Excusable
    <3>3. CASE u = [q EXCEPT !.startBytes = q.startBytes + 1] /\ Lives(u)
      <4>1. Lives(d)
        BY <3>3 DEF Lives, Sane, Within, Fields
      <4> QED
        BY <2>2, <3>1, <3>3, <4>1, CallbackKeeps, Zenon DEF Lives
    <3> QED
      BY <3>2, <3>3, StartByte, Zenon
  <2> QED
    BY <2>1, <2>2, Zenon
<1>ReqTargetKeeps. ASSUME Http1Inv, TakeReqTarget PROVE Http1Inv'
  <2> USE <1>ReqTargetKeeps
  <2>1. /\ Lives(p) /\ p.state = "ReqTarget" /\ result = "open" /\ Agree(p, sent)
        /\ SenderFields \subseteq DOMAIN sent
    BY Reads, Zenon DEF TakeReqTarget
  <2>2. PICK t \in Tokens : Takes(ReqTarget(p, t), t)
    BY Zenon DEF TakeReqTarget
  <2>3. t \in Versions \cup {"target", "bad"} /\ (t \in Versions => p.target)
    BY <2>1, Zenon DEF Tokens, Grammar, Versions
  <2>4. InLine(p, sent)
    BY <2>1, Zenon DEF Agree, LineStates, HeaderStates, ChunkStates
  <2>5. sent.version = "none"
    BY <2>1, <2>4, Zenon DEF InLine
  <2>6. CASE Excusable(p') \/ (Blaming(p') /\ t = "bad")
    BY <2>1, <2>2, <2>6, SendsBad, Rejects, Zenon DEF Takes
  <2>7. CASE t = "target" /\ Lives(p') /\ p' = [[p EXCEPT !.startBytes = p.startBytes + 1] EXCEPT !.target = TRUE]
    <3>1. Sends(t) = sent
      <4>1. t \in {"LF", "CR", "target", "reason", ";ext"} /\ sent.version # "2.0" /\ p.state # "HeaderValue" /\ p.state # "HeadersLF"
        BY <2>1, <2>5, <2>7, Zenon
      <4> QED
        BY <4>1, SendsNothing, Zenon
    <3>2. InLine(p', sent) /\ p'.state \in LineStates /\ p'.parsing = p.parsing /\ p'.contextual = p.contextual
      BY <2>1, <2>4, <2>7 DEF InLine, InMessage, InContext, Lives, Sane, Within, Fields, LineStates
    <3>3. Takes({p'}, t)
      BY <2>2, Zenon DEF Takes
    <3> QED
      BY <2>1, <2>7, <3>1, <3>2, <3>3, LineStays, Zenon
  <2>8. CASE /\ t \in Versions /\ Lives(p')
             /\ p' = [[p EXCEPT !.startBytes = p.startBytes + 1] EXCEPT
                         !.version = t, !.state = IF p.kind = "Request" THEN "ReqLineCR" ELSE "ResStatus"]
    <3> DEFINE r == [sent EXCEPT !.version = t, !.body = "head"]
    <3>1. Sends(t) = r
      <4>1. sent.version # "2.0" /\ p.state \in {"Start", "ReqTarget"}
        BY <2>1, <2>5, Zenon
      <4> QED
        BY <2>8, <4>1, SendsVersion, Zenon
    <3>2. SenderFields \subseteq DOMAIN r
      BY <2>1, Zenon DEF SenderFields
    <3>3. InLine(p', r) /\ p'.state \in LineStates /\ p'.parsing = p.parsing /\ p'.contextual = p.contextual
      BY <2>1, <2>4, <2>8 DEF InLine, InMessage, InContext, Lives, Sane, Within, Fields, LineStates, SenderFields
    <3>4. Takes({p'}, t)
      BY <2>2, Zenon DEF Takes
    <3> HIDE DEF r
    <3> QED
      BY <2>1, <2>8, <3>1, <3>2, <3>3, <3>4, LineStays, Zenon
  <2>9. \/ t = "target" /\ Lives(p') /\ p' = [[p EXCEPT !.startBytes = p.startBytes + 1] EXCEPT !.target = TRUE]
        \/ t # "target" /\ p.target /\ p' \in Version(p, t)
        \/ Excusable(p')
        \/ Blaming(p') /\ t # "target" /\ ~p.target
    BY <2>1, <2>2, <1>ReqTargetOutcome, Zenon DEF Takes
  <2> QED
    BY <2>1, <2>3, <2>6, <2>7, <2>8, <2>9, VersionOutcome, Zenon
<1> QED
  BY <1>ReqTargetKeeps, Zenon

\* TakeReqLineCR keeps the invariant: a version that is not spoken is a fault.
LEMMA ReqLineCRKeeps == Http1Inv /\ TakeReqLineCR => Http1Inv'
\* A request line ends with a carriage return and a version the parser speaks.
<1>ReqLineCROutcome.
    ASSUME NEW q, Lives(q), NEW t, NEW x \in ReqLineCR(q, t)
    PROVE  \/ /\ t = "CR" /\ q.version # "2.0" /\ Lives(x)
              /\ x = [[q EXCEPT !.startBytes = q.startBytes + 1] EXCEPT !.state = "LineLF"]
           \/ Excusable(x)
           \/ Blaming(x) /\ (t # "CR" \/ q.version = "2.0")
  <2> USE <1>ReqLineCROutcome
  <2>1. CASE t # "CR" \/ q.version = "2.0"
    BY <2>1, FailBlames, Zenon DEF ReqLineCR
  <2>2. CASE t = "CR" /\ q.version # "2.0"
    <3>1. x \in Shift(takeStartByte(q), "LineLF")
      BY <2>2, Zenon DEF ReqLineCR
    <3> QED
      BY <2>2, <3>1, StartShift, Zenon
  <2> QED
    BY <2>1, <2>2, Zenon
<1>ReqLineCRKeeps. ASSUME Http1Inv, TakeReqLineCR PROVE Http1Inv'
  <2> USE <1>ReqLineCRKeeps
  <2>1. /\ Lives(p) /\ p.state = "ReqLineCR" /\ result = "open" /\ Agree(p, sent)
        /\ SenderFields \subseteq DOMAIN sent
    BY Reads, Zenon DEF TakeReqLineCR
  <2>2. PICK t \in Tokens : Takes(ReqLineCR(p, t), t)
    BY Zenon DEF TakeReqLineCR
  <2>3. t \in {"CR", "bad"}
    BY <2>1, Zenon DEF Tokens, Grammar
  <2>4. InLine(p, sent)
    BY <2>1, Zenon DEF Agree, LineStates, HeaderStates, ChunkStates
  <2>5. CASE Lives(p') /\ t = "CR" /\ p.version # "2.0" /\ p' = [[p EXCEPT !.startBytes = p.startBytes + 1] EXCEPT !.state = "LineLF"]
    <3>1. sent.version \in {"1.0", "1.1"}
      BY <2>1, <2>4, <2>5, Zenon DEF InLine, InMessage, Versions
    <3>2. Sends(t) = sent
      <4>1. t \in {"LF", "CR", "target", "reason", ";ext"} /\ sent.version # "2.0" /\ p.state # "HeaderValue" /\ p.state # "HeadersLF"
        BY <2>1, <2>5, <3>1, Zenon
      <4> QED
        BY <4>1, SendsNothing, Zenon
    <3>3. InLine(p', sent) /\ p'.state \in LineStates /\ p'.parsing = p.parsing /\ p'.contextual = p.contextual
      BY <2>1, <2>4, <2>5, <3>1 DEF InLine, InMessage, InContext, Lives, Sane, Within, Fields, LineStates
    <3>4. Takes({p'}, t)
      BY <2>2, Zenon DEF Takes
    <3> QED
      BY <2>1, <2>5, <3>2, <3>3, <3>4, LineStays, Zenon
  <2>6. CASE Excusable(p') \/ (Blaming(p') /\ (t # "CR" \/ p.version = "2.0"))
    <3>1. t # "CR" \/ p.version = "2.0" => Sends(t).fault
      BY <2>1, <2>3, <2>4, Zenon DEF Sends, InLine, InMessage, SenderFields
    <3> QED
      BY <2>1, <2>2, <2>6, <3>1, Rejects, Zenon DEF Takes
  <2> QED
    BY <2>1, <2>2, <2>5, <2>6, <1>ReqLineCROutcome, Zenon DEF Takes
<1> QED
  BY <1>ReqLineCRKeeps, Zenon

\* TakeResStatus keeps the invariant.
LEMMA ResStatusKeeps == Http1Inv /\ TakeResStatus => Http1Inv'
\* A response of a version the parser speaks has a status.
<1>ResStatusOutcome.
    ASSUME NEW q, Lives(q), NEW t, NEW x \in ResStatus(q, t)
    PROVE  \/ /\ t \in Statuses /\ q.version # "2.0" /\ Lives(x)
              /\ x = [[q EXCEPT !.startBytes = q.startBytes + 1] EXCEPT !.line = t, !.state = "ResReason"]
           \/ Excusable(x)
           \/ Blaming(x) /\ (t \notin Statuses \/ q.version = "2.0")
  <2> USE <1>ResStatusOutcome
  <2>1. CASE t \notin Statuses \/ q.version = "2.0"
    BY <2>1, FailBlames, Zenon DEF ResStatus
  <2>2. CASE t \in Statuses /\ q.version # "2.0"
    <3> DEFINE u == takeStartByte(q)
               d == [u EXCEPT !.line = t, !.state = "ResReason"]
    <3>1. x \in (IF u.code = "none" THEN {d} ELSE {u})
      BY <2>2, Zenon DEF ResStatus, AndThen
    <3>2. CASE Excusable(u)
      BY <3>1, <3>2, ExcusedFails, Zenon DEF Excusable
    <3>3. CASE u = [q EXCEPT !.startBytes = q.startBytes + 1] /\ Lives(u)
      <4>1. Lives(d)
        BY <3>3 DEF Lives, Sane, Within, Fields
      <4> QED
        BY <2>2, <3>1, <3>3, <4>1, Zenon DEF Lives
    <3> QED
      BY <3>2, <3>3, StartByte, Zenon
  <2> QED
    BY <2>1, <2>2, Zenon
<1>ResStatusKeeps. ASSUME Http1Inv, TakeResStatus PROVE Http1Inv'
  <2> USE <1>ResStatusKeeps
  <2>1. /\ Lives(p) /\ p.state = "ResStatus" /\ result = "open" /\ Agree(p, sent)
        /\ SenderFields \subseteq DOMAIN sent
    BY Reads, Zenon DEF TakeResStatus
  <2>2. PICK t \in Tokens : Takes(ResStatus(p, t), t)
    BY Zenon DEF TakeResStatus
  <2>3. t \in Statuses \cup {"bad"}
    BY <2>1, Zenon DEF Tokens, Grammar
  <2>4. InLine(p, sent)
    BY <2>1, Zenon DEF Agree, LineStates, HeaderStates, ChunkStates
  <2>5. CASE /\ t \in Statuses /\ p.version # "2.0" /\ Lives(p')
             /\ p' = [[p EXCEPT !.startBytes = p.startBytes + 1] EXCEPT !.line = t, !.state = "ResReason"]
    <3> DEFINE r == [sent EXCEPT !.line = t, !.body = "head"]
    <3>1. sent.version \in {"1.0", "1.1"}
      BY <2>1, <2>4, <2>5, Zenon DEF InLine, InMessage, Versions
    <3>2. Sends(t) = r
      <4>1. t \in Methods \cup Statuses /\ sent.version # "2.0" /\ p.state \in {"Start", "ResStatus"}
        BY <2>1, <2>5, <3>1, Zenon
      <4> QED
        BY <4>1, SendsLine, Zenon
    <3>3. SenderFields \subseteq DOMAIN r
      BY <2>1, Zenon DEF SenderFields
    <3>4. InLine(p', r) /\ p'.state \in LineStates /\ p'.parsing = p.parsing /\ p'.contextual = p.contextual
      BY <2>1, <2>4, <2>5, <3>1 DEF InLine, InMessage, InContext, Lives, Sane, Within, Fields, LineStates, SenderFields
    <3>5. Takes({p'}, t)
      BY <2>2, Zenon DEF Takes
    <3> HIDE DEF r
    <3> QED
      BY <2>1, <2>5, <3>2, <3>3, <3>4, <3>5, LineStays, Zenon
  <2>6. CASE Excusable(p') \/ (Blaming(p') /\ (t \notin Statuses \/ p.version = "2.0"))
    <3>1. t \notin Statuses \/ p.version = "2.0" => Sends(t).fault
      BY <2>1, <2>3, <2>4, Zenon DEF Sends, InLine, InMessage, SenderFields
    <3> QED
      BY <2>1, <2>2, <2>6, <3>1, Rejects, Zenon DEF Takes
  <2> QED
    BY <2>1, <2>2, <2>5, <2>6, <1>ResStatusOutcome, Zenon DEF Takes
<1> QED
  BY <1>ResStatusKeeps, Zenon

\* TakeResReason keeps the invariant.
LEMMA ResReasonKeeps == Http1Inv /\ TakeResReason => Http1Inv'
\* The reason of a response is taken up to the end of its line.
<1>ResReasonOutcome.
    ASSUME NEW q, Lives(q), NEW t, NEW x \in ResReason(q, t)
    PROVE  \/ t = "reason" /\ Lives(x) /\ x = [q EXCEPT !.startBytes = q.startBytes + 1]
           \/ /\ t = "CR" /\ Lives(x)
              /\ x = [[q EXCEPT !.startBytes = q.startBytes + 1] EXCEPT !.state = "LineLF"]
           \/ Excusable(x)
           \/ Blaming(x) /\ t \notin {"reason", "CR"}
  <2> USE <1>ResReasonOutcome
  <2>1. CASE t \notin {"reason", "CR"}
    <3>1. x = fail(q, "InvalidStatus")
      BY <2>1, Zenon DEF ResReason
    <3> QED
      BY <2>1, <3>1, FailBlames, Zenon
  <2>2. CASE t = "CR"
    <3>1. x \in Shift(takeStartByte(q), "LineLF")
      BY <2>2, Zenon DEF ResReason
    <3> QED
      BY <2>2, <3>1, StartShift, Zenon
  <2>3. CASE t = "reason"
    <3> DEFINE u == takeStartByte(q)
    <3>0. x \in AndThen({u}, LAMBDA r : Callback(r))
      BY <2>3, Zenon DEF ResReason
    <3>1. x \in (IF u.code = "none" THEN Callback(u) ELSE {u})
      BY <3>0, Zenon DEF AndThen
    <3>2. CASE Excusable(u)
      BY <3>1, <3>2, ExcusedFails, Zenon DEF Excusable
    <3>3. CASE u = [q EXCEPT !.startBytes = q.startBytes + 1] /\ Lives(u)
      BY <2>3, <3>1, <3>3, CallbackKeeps, Zenon DEF Lives
    <3> QED
      BY <3>2, <3>3, StartByte, Zenon
  <2> QED
    BY <2>1, <2>2, <2>3, Zenon
<1>ResReasonKeeps. ASSUME Http1Inv, TakeResReason PROVE Http1Inv'
  <2> USE <1>ResReasonKeeps
  <2>1. /\ Lives(p) /\ p.state = "ResReason" /\ result = "open" /\ Agree(p, sent)
        /\ SenderFields \subseteq DOMAIN sent
    BY Reads, Zenon DEF TakeResReason
  <2>2. PICK t \in Tokens : Takes(ResReason(p, t), t)
    BY Zenon DEF TakeResReason
  <2>3. t \in {"reason", "CR", "bad"}
    BY <2>1, Zenon DEF Tokens, Grammar
  <2>4. InLine(p, sent)
    BY <2>1, Zenon DEF Agree, LineStates, HeaderStates, ChunkStates
  <2>5. CASE /\ t \in {"reason", "CR"} /\ Lives(p')
             /\ \/ p' = [p EXCEPT !.startBytes = p.startBytes + 1]
                \/ p' = [[p EXCEPT !.startBytes = p.startBytes + 1] EXCEPT !.state = "LineLF"]
    <3>1. sent.version \in {"1.0", "1.1"}
      BY <2>1, <2>4, Zenon DEF InLine
    <3>2. Sends(t) = sent
      <4>1. t \in {"LF", "CR", "target", "reason", ";ext"} /\ sent.version # "2.0" /\ p.state # "HeaderValue" /\ p.state # "HeadersLF"
        BY <2>1, <2>5, <3>1, Zenon
      <4> QED
        BY <4>1, SendsNothing, Zenon
    <3>3. InLine(p', sent) /\ p'.state \in LineStates /\ p'.parsing = p.parsing /\ p'.contextual = p.contextual
      <4>1. CASE p' = [p EXCEPT !.startBytes = p.startBytes + 1]
        BY <2>1, <2>4, <4>1, <3>1 DEF InLine, InMessage, InContext, Lives, Sane, Within, Fields, LineStates
      <4>2. CASE p' = [[p EXCEPT !.startBytes = p.startBytes + 1] EXCEPT !.state = "LineLF"]
        BY <2>1, <2>4, <4>2, <3>1 DEF InLine, InMessage, InContext, Lives, Sane, Within, Fields, LineStates
      <4> QED
        BY <2>5, <4>1, <4>2, Zenon
    <3>4. Takes({p'}, t)
      BY <2>2, Zenon DEF Takes
    <3> QED
      BY <2>1, <2>5, <3>2, <3>3, <3>4, LineStays, Zenon
  <2>6. CASE Excusable(p') \/ (Blaming(p') /\ t \notin {"reason", "CR"})
    <3>1. t \notin {"reason", "CR"} => Sends(t).fault
      BY <2>1, <2>3, SendsBad, Zenon
    <3> QED
      BY <2>1, <2>2, <2>6, <3>1, Rejects, Zenon DEF Takes
  <2> QED
    BY <2>1, <2>2, <2>5, <2>6, <1>ResReasonOutcome, Zenon DEF Takes
<1> QED
  BY <1>ResReasonKeeps, Zenon

\* TakeLineLF keeps the invariant: the parser knows of no field, and none was sent.
LEMMA LineLFKeeps == Http1Inv /\ TakeLineLF => Http1Inv'
\* The line feed after the start line opens the header section.
<1>LineLFOutcome.
    ASSUME NEW q, Lives(q), NEW t, NEW x \in LineLF(q, t)
    PROVE  \/ /\ t = "LF" /\ Lives(x)
              /\ x = [[q EXCEPT !.startBytes = q.startBytes + 1] EXCEPT !.state = "HeaderStart"]
           \/ Excusable(x)
           \/ Blaming(x) /\ t # "LF"
  <2> USE <1>LineLFOutcome
  <2>1. CASE t # "LF"
    BY <2>1, FailBlames, Zenon DEF LineLF
  <2>2. CASE t = "LF"
    <3> DEFINE u == takeStartByte(q)
    <3>1. x \in (IF u.code = "none"
                 THEN UNION {IF s.code = "none" THEN Shift(s, "HeaderStart") ELSE {s} : s \in Callback(u)} ELSE {u})
      BY <2>2, Zenon DEF LineLF, AndThen
    <3>2. CASE Excusable(u)
      BY <3>1, <3>2, ExcusedFails, Zenon DEF Excusable
    <3>3. CASE u = [q EXCEPT !.startBytes = q.startBytes + 1] /\ Lives(u)
      <4>1. PICK s \in Callback(u) : x \in (IF s.code = "none" THEN Shift(s, "HeaderStart") ELSE {s})
        BY <3>1, <3>3, Zenon DEF Lives
      <4>2. s = u \/ Excusable(s)
        BY <3>3, <4>1, CallbackKeeps, Zenon
      <4>3. CASE s = u
        <5>1. x = [u EXCEPT !.state = "HeaderStart"]
          BY <3>3, <4>1, <4>3, ShiftLive, Zenon DEF Lives
        <5> QED
          BY <2>2, <3>3, <5>1, StateSane, Zenon
      <4>4. CASE Excusable(s)
        BY <4>1, <4>4, ExcusedFails, Zenon DEF Excusable
      <4> QED
        BY <4>2, <4>3, <4>4, Zenon
    <3> QED
      BY <3>2, <3>3, StartByte, Zenon
  <2> QED
    BY <2>1, <2>2, Zenon
<1>LineLFKeeps. ASSUME Http1Inv, TakeLineLF PROVE Http1Inv'
  <2> USE <1>LineLFKeeps
  <2>1. /\ Lives(p) /\ p.state = "LineLF" /\ result = "open" /\ Agree(p, sent)
        /\ SenderFields \subseteq DOMAIN sent
    BY Reads, Zenon DEF TakeLineLF
  <2>2. PICK t \in Tokens : Takes(LineLF(p, t), t)
    BY Zenon DEF TakeLineLF
  <2>3. t \in {"LF", "bad"}
    BY <2>1, Zenon DEF Tokens, Grammar
  <2>4. InLine(p, sent)
    BY <2>1, Zenon DEF Agree, LineStates, HeaderStates, ChunkStates
  <2>5. CASE Lives(p') /\ t = "LF" /\ p' = [[p EXCEPT !.startBytes = p.startBytes + 1] EXCEPT !.state = "HeaderStart"]
    <3>1. sent.version \in {"1.0", "1.1"}
      BY <2>1, <2>4, <2>5, Zenon DEF InLine, InMessage, Versions
    <3>2. Sends(t) = sent
      <4>1. t \in {"LF", "CR", "target", "reason", ";ext"} /\ sent.version # "2.0" /\ p.state # "HeaderValue" /\ p.state # "HeadersLF"
        BY <2>1, <2>5, <3>1, Zenon
      <4> QED
        BY <4>1, SendsNothing, Zenon
    <3>3. /\ p'.state = "HeaderStart" /\ p'.parsing = p.parsing /\ p'.contextual = p.contextual /\ ~p'.trailers
          /\ InMessage(p', sent) /\ p'.chunkSize = 0 /\ p'.bodyBytes = 0
          /\ ~p'.hasContentLength /\ ~p'.hasTransferEncoding /\ ~p'.hasHost /\ ~p'.hasUpgrade /\ p'.connection = {}
      BY <2>1, <2>4, <2>5, <3>1 DEF InLine, InMessage, InContext, Lives, Sane, Within, Fields
    <3>4. /\ sent.fields = {} /\ ~sent.fault /\ sent.codings = {} /\ sent.coding = "none" /\ sent.body = "head"
      BY <2>4, Zenon DEF InLine
    <3>5. Knows(p', sent)
      BY <3>3, <3>4, Zenon DEF Knows, Seen, Has
    <3>6. InHead(p', sent)
      BY <3>1, <3>3, <3>4, <3>5, Zenon DEF InHead
    <3>7. Agree(p', sent)
      BY <2>1, <3>3, <3>6, Zenon DEF Agree, HeaderStates
    <3> QED
      BY <2>1, <2>2, <2>5, <3>2, <3>7, Accepts, Zenon DEF Takes
  <2>6. CASE Excusable(p') \/ (Blaming(p') /\ t # "LF")
    <3>1. t # "LF" => Sends(t).fault
      BY <2>1, <2>3, SendsBad, Zenon
    <3> QED
      BY <2>1, <2>2, <2>6, <3>1, Rejects, Zenon DEF Takes
  <2> QED
    BY <2>1, <2>2, <2>5, <2>6, <1>LineLFOutcome, Zenon DEF Takes
<1> QED
  BY <1>LineLFKeeps, Zenon

-----------------------------------------------------------------------------
(* The header section *)

\* The names that the sender uses outside trailers.
HeadNames == {"content-length", "transfer-encoding", "connection", "host", "upgrade"}

\* TakeHeaderStart keeps the invariant: the parser rejects a name exactly when it is a
\* fault.
LEMMA HeaderStartKeeps == Http1Inv /\ TakeHeaderStart => Http1Inv'
\* Taking an octet of the header section and moving on succeeds or meets a limit.
<1>HeaderShift.
    ASSUME NEW q, Lives(q), NEW st, st \notin {"Dead", "FixedBody", "ChunkBody"}, NEW x \in Shift(takeHeaderByte(q), st)
    PROVE  \/ Lives(x) /\ x = [[q EXCEPT !.headerBytes = q.headerBytes + 1] EXCEPT !.state = st]
           \/ Excusable(x)
  <2> USE <1>HeaderShift
  <2> DEFINE u == takeHeaderByte(q)
  <2>1. CASE Excusable(u)
    BY <2>1, ShiftFailed, ExcusedFails, Zenon DEF Excusable
  <2>2. CASE u = [q EXCEPT !.headerBytes = q.headerBytes + 1] /\ Lives(u)
    <3>1. x = [u EXCEPT !.state = st]
      BY <2>2, ShiftLive, Zenon DEF Lives
    <3> QED
      BY <2>2, <3>1, StateSane, Zenon
  <2> QED
    BY <2>1, <2>2, HeaderByte, Zenon
\* finishFieldName notes the field, or rejects it exactly when fieldError does.
<1>FinishFieldName.
    ASSUME NEW q, Lives(q), q.state \notin {"FixedBody", "ChunkBody"}, NEW t
    PROVE  \/ Lives(finishFieldName(q, t)) /\ Named(q, finishFieldName(q, t), FieldOf(q, t))
              /\ fieldError(q, FieldOf(q, t)) = "none"
           \/ Blaming(finishFieldName(q, t)) /\ fieldError(q, FieldOf(q, t)) # "none"
  <2> USE <1>FinishFieldName
  <2> DEFINE f == FieldOf(q, t)
             r == [q EXCEPT !.field = f]
             n == CASE f = "content-length" -> [r EXCEPT !.hasContentLength = TRUE, !.remaining = 0]
                    [] f = "transfer-encoding" ->
                         [r EXCEPT !.hasTransferEncoding = TRUE, !.transferState = "before",
                                   !.transferChunked = FALSE, !.transferSawChunked = FALSE]
                    [] f = "host" -> [r EXCEPT !.hasHost = TRUE]
                    [] OTHER -> r
  <2>1. Lives(r)
    BY Zenon DEF Lives, Sane, Within, Fields
  <2>2. finishFieldName(q, t) = IF fieldError(q, f) # "none" THEN fail(r, fieldError(q, f)) ELSE n
    BY Zenon DEF finishFieldName, FieldOf
  <2>3. Lives(n) /\ Named(q, n, f)
    <3>1. CASE f = "content-length"
      <4>1. n = [r EXCEPT !.hasContentLength = TRUE, !.remaining = 0]
        BY <3>1, Zenon
      <4> HIDE DEF n, f
      <4> QED
        BY <3>1, <4>1 DEF Lives, Sane, Within, Fields, Named, SameMessage
    <3>2. CASE f = "transfer-encoding"
      <4>1. n = [r EXCEPT !.hasTransferEncoding = TRUE, !.transferState = "before",
                          !.transferChunked = FALSE, !.transferSawChunked = FALSE]
        BY <3>2, Zenon
      <4> HIDE DEF n, f
      <4> QED
        BY <3>2, <4>1 DEF Lives, Sane, Within, Fields, Named, SameMessage
    <3>3. CASE f = "host"
      <4>1. n = [r EXCEPT !.hasHost = TRUE]
        BY <3>3, Zenon
      <4> HIDE DEF n, f
      <4> QED
        BY <3>3, <4>1 DEF Lives, Sane, Within, Fields, Named, SameMessage
    <3>4. CASE f \notin {"content-length", "transfer-encoding", "host"}
      <4>1. n = r
        BY <3>4, Zenon
      <4> HIDE DEF n, f
      <4> QED
        BY <3>4, <4>1 DEF Lives, Sane, Within, Fields, Named, SameMessage
    <3> QED
      BY <3>1, <3>2, <3>3, <3>4, Zenon
  <2> HIDE DEF n
  <2> QED
    BY <2>1, <2>2, <2>3, FailBlames, Zenon
\* The name of a field is noted, meets a limit, or is rejected.
<1>HeaderNameOutcome.
    ASSUME NEW q, Lives(q), q.state = "HeaderStart", NEW t, NEW x \in HeaderName(q, t)
    PROVE  \/ /\ t # "long" /\ Lives(x) /\ x.state = "HeaderValue" /\ Named(q, x, FieldOf(q, t))
              /\ fieldError(q, FieldOf(q, t)) = "none"
           \/ Excusable(x)
           \/ Blaming(x) /\ fieldError(q, FieldOf(q, t)) # "none"
  <2> USE <1>HeaderNameOutcome
  <2> DEFINE u == takeHeaderByte(q)
             S(s) == Shift(finishFieldName(s, t), "HeaderValue")
             C == UNION {IF s.code = "none" THEN S(s) ELSE {s} : s \in Callback(u)}
  <2>1. x \in (IF u.code = "none" THEN (IF t = "long" THEN {fail(u, "HeaderNameTooLarge")} ELSE C) ELSE {u})
    BY Zenon DEF HeaderName, AndThen
  <2>2. CASE Excusable(u)
    BY <2>1, <2>2, ExcusedFails, Zenon DEF Excusable
  <2>3. CASE u = [q EXCEPT !.headerBytes = q.headerBytes + 1] /\ Lives(u)
    <3>1. CASE t = "long"
      <4>1. "HeaderNameTooLarge" \in Excused
        BY Zenon DEF Excused, LimitCodes
      <4> QED
        BY <2>1, <2>3, <3>1, <4>1, FailExcused, ZenonT(40) DEF Lives
    <3>2. CASE t # "long"
      <4>1. PICK s \in Callback(u) : x \in (IF s.code = "none" THEN S(s) ELSE {s})
        BY <2>1, <2>3, <3>2, Zenon DEF Lives
      <4>2. s = u \/ Excusable(s)
        BY <2>3, <4>1, CallbackKeeps, Zenon
      <4>3. CASE s = u
        <5> DEFINE n == finishFieldName(u, t)
        <5>1. /\ u.state = "HeaderStart" /\ FieldOf(u, t) = FieldOf(q, t)
              /\ fieldError(u, FieldOf(u, t)) = fieldError(q, FieldOf(q, t))
          BY <2>3, Zenon DEF Lives, Sane, Within, Fields, FieldOf, fieldError
        <5>2. CASE Blaming(n) /\ fieldError(u, FieldOf(u, t)) # "none"
          BY <2>3, <4>1, <4>3, <5>1, <5>2, ShiftFailed, Zenon DEF Blaming, Lives
        <5>3. CASE Lives(n) /\ Named(u, n, FieldOf(u, t)) /\ fieldError(u, FieldOf(u, t)) = "none"
          <6>1. x = [n EXCEPT !.state = "HeaderValue"]
            BY <2>3, <4>1, <4>3, <5>3, ShiftLive, Zenon DEF Lives
          <6>2. Lives(x)
            BY <5>3, <6>1, StateSane, Zenon
          <6> HIDE DEF n
          <6>3. Named(u, x, FieldOf(u, t)) /\ x.state = "HeaderValue"
            BY <5>3, <6>1 DEF Lives, Sane, Within, Fields, Named, SameMessage
          <6>4. Named(q, x, FieldOf(u, t))
            BY <2>3, <6>3 DEF Lives, Sane, Within, Fields, Named, SameMessage
          <6> QED
            BY <3>2, <5>1, <5>3, <6>2, <6>3, <6>4, Zenon
        <5> QED
          BY <2>3, <5>1, <5>2, <5>3, <1>FinishFieldName, Zenon
      <4>4. CASE Excusable(s)
        BY <4>1, <4>4, ExcusedFails, Zenon DEF Excusable
      <4> QED
        BY <4>2, <4>3, <4>4, Zenon
    <3> QED
      BY <3>1, <3>2, Zenon
  <2> QED
    BY <2>2, <2>3, HeaderByte, Zenon
\* A field begins, or the section ends.
<1>HeaderStartOutcome.
    ASSUME NEW q, Lives(q), q.state = "HeaderStart", NEW t, NEW x \in HeaderStart(q, t)
    PROVE  \/ /\ t = "CR" /\ Lives(x)
              /\ x = [[q EXCEPT !.headerBytes = q.headerBytes + 1] EXCEPT !.state = "HeadersLF"]
           \/ /\ t \in Names \ {"long"} /\ Lives(x) /\ x.state = "HeaderValue" /\ Named(q, x, FieldOf(q, t))
              /\ fieldError(q, FieldOf(q, t)) = "none"
           \/ Excusable(x)
           \/ Blaming(x) /\ t \notin Names \cup {"CR"}
           \/ Blaming(x) /\ t \in Names /\ fieldError(q, FieldOf(q, t)) # "none"
  <2> USE <1>HeaderStartOutcome
  <2>0. "CR" \notin Names
    BY Zenon DEF Names
  <2>1. CASE t = "CR"
    <3>1. x \in Shift(takeHeaderByte(q), "HeadersLF")
      BY <2>1, <2>0, Zenon DEF HeaderStart
    <3> QED
      BY <2>1, <3>1, <1>HeaderShift, Zenon
  <2>2. CASE t \notin Names \cup {"CR"}
    <3>1. x = fail(q, "InvalidHeaderName")
      BY <2>2, Zenon DEF HeaderStart
    <3> QED
      BY <2>2, <3>1, FailBlames, Zenon
  <2>3. CASE t \in Names
    <3> DEFINE b == beginHeader(q)
    <3>0. x \in AndThen({b}, LAMBDA r : HeaderName(r, t))
      BY <2>0, <2>3, Zenon DEF HeaderStart
    <3>1. x \in (IF b.code = "none" THEN HeaderName(b, t) ELSE {b})
      BY <3>0, Zenon DEF AndThen
    <3>2. CASE q.headerCount >= MaxHeaders
      <4>1. "TooManyHeaders" \in Excused
        BY Zenon DEF Excused, LimitCodes
      <4>2. Excusable(b)
        BY <3>2, <4>1, FailExcused, Zenon DEF beginHeader
      <4> QED
        BY <3>1, <4>2, ExcusedFails, Zenon DEF Excusable
    <3>3. CASE ~(q.headerCount >= MaxHeaders)
      <4>1. b = [q EXCEPT !.headerCount = q.headerCount + 1, !.field = "other"]
        BY <3>3, Zenon DEF beginHeader
      <4> HIDE DEF b
      <4>2. Lives(b) /\ b.state = "HeaderStart"
        BY <3>3, <4>1, Limits DEF Lives, Sane, Within, Fields
      <4>3. FieldOf(b, t) = FieldOf(q, t) /\ fieldError(b, FieldOf(b, t)) = fieldError(q, FieldOf(q, t))
        BY <4>1, Zenon DEF Lives, Sane, Within, Fields, FieldOf, fieldError
      <4>4. \A f : Named(b, x, f) => Named(q, x, f)
        BY <4>1 DEF Lives, Sane, Within, Fields, Named, SameMessage
      <4> QED
        BY <2>3, <3>1, <4>2, <4>3, <4>4, <1>HeaderNameOutcome, Zenon DEF Lives
    <3> QED
      BY <3>2, <3>3, Zenon
  <2> QED
    BY <2>1, <2>2, <2>3, Zenon
\* A name is recorded, and is a fault where it makes the message ambiguous.
<1>SendsName.
    ASSUME NEW t \in Names, p.state = "HeaderStart", sent.version # "2.0"
    PROVE  Sends(t) = [sent EXCEPT !.name = t, !.fault = sent.fault \/ Misplaced(t)]
  <2> USE <1>SendsName
  <2>1. t # "bad" /\ t \notin Methods \cup Statuses /\ t \notin Versions /\ t \notin DOMAIN Digit
    BY Zenon DEF Methods, Statuses, Versions, Names, Digit
  <2> QED
    BY <2>1, Zenon DEF Sends
\* fieldError rejects a name exactly when it is misplaced.
<1>Ambiguous.
    ASSUME p.state = "HeaderStart", NEW t \in HeadNames \cup {"long"}, ~p.trailers, InHead(p, sent), p.kind \in Kinds
    PROVE  fieldError(p, FieldOf(p, t)) = "none" <=> ~Misplaced(t)
  <2> USE <1>Ambiguous
  <2>1. /\ p.hasContentLength <=> Sent("content-length")
        /\ p.hasTransferEncoding <=> Sent("transfer-encoding")
        /\ p.kind = "Request" => (p.hasHost <=> Sent("host"))
        /\ sent.body = "head"
    BY Zenon DEF InHead, Knows, Seen, Has, Sent
  <2>2. (\E n \in Single : Sent(n)) <=> p.hasContentLength \/ p.hasTransferEncoding
    BY <2>1, Zenon DEF Single
  <2>3. CASE t \in Single
    <3>1. t # "host" /\ t \in {"content-length", "transfer-encoding"}
      BY <2>3, Zenon DEF Single
    <3>2. Misplaced(t) <=> p.hasContentLength \/ p.hasTransferEncoding
      BY <2>1, <2>2, <2>3, <3>1, Zenon DEF Misplaced
    <3>3. FieldOf(p, t) = t
      BY <3>1, Zenon DEF FieldOf
    <3> QED
      BY <3>1, <3>2, <3>3, Zenon DEF fieldError
  <2>4. CASE t = "host"
    <3>1. Misplaced(t) <=> p.kind = "Request" /\ p.hasHost
      BY <2>1, <2>4, Zenon DEF Misplaced, Single
    <3>2. FieldOf(p, t) = IF p.kind = "Response" THEN "other" ELSE "host"
      BY <2>4, Zenon DEF FieldOf
    <3> QED
      BY <3>1, <3>2, Zenon DEF fieldError, Kinds
  <2>5. CASE t \notin Single /\ t # "host"
    <3>1. ~Misplaced(t)
      BY <2>1, <2>5, Zenon DEF Misplaced
    <3>2. FieldOf(p, t) = t /\ t # "content-length" /\ t # "transfer-encoding"
      BY <2>5, Zenon DEF FieldOf, Single
    <3> QED
      BY <2>5, <3>1, <3>2, Zenon DEF fieldError
  <2> QED
    BY <2>3, <2>4, <2>5, Zenon
<1>HeaderStartKeeps. ASSUME Http1Inv, TakeHeaderStart PROVE Http1Inv'
  <2> USE <1>HeaderStartKeeps
  <2>1. /\ Lives(p) /\ p.state = "HeaderStart" /\ result = "open" /\ Agree(p, sent)
        /\ SenderFields \subseteq DOMAIN sent
    BY Reads, Zenon DEF TakeHeaderStart
  <2>2. PICK t \in Tokens : Takes(HeaderStart(p, t), t)
    BY Zenon DEF TakeHeaderStart
  <2>3. t \in {"CR", "bad"} \cup (IF p.trailers THEN {"content-length", "trailer", "other"} ELSE HeadNames \cup {"long"})
    BY <2>1, Zenon DEF Tokens, Grammar, Names, HeadNames
  <2>4. IF p.trailers THEN InTrailers(p, sent) ELSE InHead(p, sent)
    BY <2>1, Zenon DEF Agree, LineStates, HeaderStates, ChunkStates
  <2>5. sent.version # "2.0"
    BY <2>4, Zenon DEF InTrailers, InHead
  <2>6. p.kind \in Kinds
    BY <2>1, Zenon DEF Lives, Sane, Within
  <2>7. CASE Lives(p') /\ t = "CR" /\ p' = [[p EXCEPT !.headerBytes = p.headerBytes + 1] EXCEPT !.state = "HeadersLF"]
    <3>1. Sends(t) = sent
      <4>1. t \in {"LF", "CR", "target", "reason", ";ext"} /\ p.state # "HeaderValue" /\ p.state # "HeadersLF"
        BY <2>1, <2>7, Zenon
      <4> QED
        BY <2>5, <4>1, SendsNothing, Zenon
    <3>2. /\ p'.state = "HeadersLF" /\ p'.parsing = p.parsing /\ p'.contextual = p.contextual /\ p'.trailers = p.trailers
          /\ SameMessage(p, p') /\ SameFields(p, p')
      BY <2>1, <2>7 DEF SameMessage, SameFields, Lives, Sane, Within, Fields
    <3>3. IF p'.trailers THEN InTrailers(p', sent) ELSE InHead(p', sent)
      BY <2>1, <2>4, <3>2 DEF InTrailers, InHead, Knows, Seen, InMessage, InContext, SameMessage, SameFields
    <3>4. Agree(p', sent)
      BY <2>1, <3>2, <3>3, Zenon DEF Agree, HeaderStates
    <3> QED
      BY <2>1, <2>2, <2>7, <3>1, <3>4, Accepts, Zenon DEF Takes
  <2>8. CASE /\ t \in Names \ {"long"} /\ Lives(p') /\ p'.state = "HeaderValue" /\ Named(p, p', FieldOf(p, t))
             /\ fieldError(p, FieldOf(p, t)) = "none"
    <3> DEFINE r == [sent EXCEPT !.name = t, !.fault = sent.fault \/ Misplaced(t)]
    <3>1. Sends(t) = r
      BY <2>1, <2>5, <2>8, <1>SendsName, Zenon
    <3>2. SenderFields \subseteq DOMAIN r
      BY <2>1, Zenon DEF SenderFields
    <3>3. CASE p.trailers
      <4>1. t = "other" /\ ~sent.fault /\ sent.body = "chunked" /\ FieldOf(p, t) = "other"
        BY <2>3, <2>4, <2>8, <3>3, Zenon DEF fieldError, FieldOf, Names, InTrailers
      <4>2. ~Misplaced(t)
        BY <4>1, Zenon DEF Misplaced, Single
      <4>3. r = [sent EXCEPT !.name = t, !.fault = FALSE]
        BY <4>1, <4>2, Zenon
      <4> HIDE DEF r
      <4>4. InTrailers(p', r) /\ p'.trailers /\ p'.parsing = p.parsing /\ p'.contextual = p.contextual
        BY <2>1, <2>4, <2>8, <3>3, <4>1, <4>3 DEF InTrailers, InMessage, InContext, Named, SameMessage, SenderFields
      <4>5. Agree(p', r)
        BY <2>1, <2>8, <4>4, Zenon DEF Agree, HeaderStates
      <4> QED
        BY <2>1, <2>2, <2>8, <3>1, <3>2, <4>5, Accepts, Zenon DEF Takes
    <3>4. CASE ~p.trailers
      <4>1. t \in HeadNames
        BY <2>3, <2>8, <3>4, Zenon DEF HeadNames, Names
      <4>2. ~Misplaced(t) /\ ~sent.fault /\ sent.codings = {} /\ sent.coding = "none"
        BY <2>1, <2>4, <2>6, <2>8, <3>4, <4>1, <1>Ambiguous, Zenon DEF InHead
      <4>3. r = [sent EXCEPT !.name = t, !.fault = FALSE]
        BY <4>2, Zenon
      <4> HIDE DEF r
      <4>4. /\ r.name = t /\ ~r.fault /\ r.codings = {} /\ r.coding = "none" /\ r.fields = sent.fields
            /\ r.body = sent.body /\ r.version = sent.version /\ r.line = sent.line /\ r.answered = sent.answered
        BY <2>1, <4>2, <4>3, Zenon DEF SenderFields
      <4>5. p'.trailers = p.trailers /\ p'.parsing = p.parsing /\ p'.contextual = p.contextual /\ p'.kind = p.kind
        BY <2>8, Zenon DEF Named, SameMessage
      <4>6. InMessage(p', r) /\ r.body = "head" /\ r.version \in {"1.0", "1.1"} /\ p'.chunkSize = 0 /\ p'.bodyBytes = 0
        BY <2>4, <2>8, <3>4, <4>4 DEF InHead, InMessage, InContext, Named, SameMessage
      <4>7. FieldOf(p, t) = IF p.kind = "Response" /\ t = "host" THEN "other" ELSE t
        BY <3>4, Zenon DEF FieldOf
      <4>8. Knows(p', r)
        <5>1. Knows(p, sent)
          BY <2>4, <3>4, Zenon DEF InHead
        <5>2. /\ p'.hasContentLength <=> p.hasContentLength \/ t = "content-length"
              /\ p'.hasTransferEncoding <=> p.hasTransferEncoding \/ t = "transfer-encoding"
              /\ p.kind = "Request" => (p'.hasHost <=> p.hasHost \/ t = "host")
              /\ p'.hasUpgrade = p.hasUpgrade /\ p'.connection = p.connection
              /\ t # "content-length" => p'.remaining = p.remaining
              /\ t # "transfer-encoding" => p'.transferChunked = p.transferChunked
          BY <2>8, <4>1, <4>7, Zenon DEF Named, HeadNames
        <5>3. \A n : Has(r, n) <=> Has(sent, n)
          BY <4>4, Zenon DEF Has
        <5>4. t \in Single => ~Has(sent, "content-length") /\ ~Has(sent, "transfer-encoding")
          BY <4>2, Zenon DEF Misplaced, Single, Sent, Has
        <5>5. \A v : /\ t = "content-length" => <<"content-length", v>> \notin sent.fields
                     /\ t = "transfer-encoding" => <<"transfer-encoding", v>> \notin sent.fields
          BY <5>4, Zenon DEF Has, Single
        <5> QED
          BY <2>1, <2>8, <4>4, <4>5, <5>1, <5>2, <5>3, <5>5, ZenonT(40) DEF Knows, Seen
      <4>9. InValue(p', r)
        <5>1. t \in Single => ~Has(r, "content-length") /\ ~Has(r, "transfer-encoding")
          BY <4>2, <4>4, Zenon DEF Misplaced, Single, Sent, Has
        <5>2. t = "transfer-encoding" => InList(p', r)
          BY <2>8, <4>4, <4>7, Zenon DEF InList, Named, Repeats
        <5> QED
          BY <2>8, <4>1, <4>4, <4>5, <4>7, <5>1, <5>2, Zenon DEF InValue, HeadNames, Named
      <4>10. InHead(p', r)
        BY <4>4, <4>6, <4>8, <4>9, Zenon DEF InHead
      <4>11. Agree(p', r)
        BY <2>1, <2>8, <3>4, <4>5, <4>10, Zenon DEF Agree, HeaderStates
      <4> QED
        BY <2>1, <2>2, <2>8, <3>1, <3>2, <4>11, Accepts, Zenon DEF Takes
    <3> QED
      BY <3>3, <3>4, Zenon
  <2>9. CASE \/ Excusable(p')
             \/ Blaming(p') /\ t \notin Names \cup {"CR"}
             \/ Blaming(p') /\ t \in Names /\ fieldError(p, FieldOf(p, t)) # "none"
    <3>1. t \notin Names \cup {"CR"} => Sends(t).fault
      <4>1. t \notin Names \cup {"CR"} => t = "bad"
        BY <2>3, Zenon DEF Names, HeadNames
      <4> QED
        BY <2>1, <4>1, SendsBad, Zenon
    <3>2. t \in Names /\ fieldError(p, FieldOf(p, t)) # "none" => Sends(t).fault
      <4> SUFFICES ASSUME t \in Names, fieldError(p, FieldOf(p, t)) # "none" PROVE Sends(t).fault
        BY Zenon
      <4>1. Misplaced(t)
        <5>1. CASE p.trailers
          BY <2>4, <5>1, Zenon DEF fieldError, FieldOf, InTrailers, Misplaced
        <5>2. CASE ~p.trailers
          <6>1. t \in HeadNames \cup {"long"}
            BY <2>3, <5>2, Zenon DEF Names, HeadNames
          <6> QED
            BY <2>1, <2>4, <2>6, <5>2, <6>1, <1>Ambiguous, Zenon
        <5> QED
          BY <5>1, <5>2, Zenon
      <4> QED
        BY <2>1, <2>5, <4>1, <1>SendsName, Zenon DEF SenderFields
    <3> QED
      BY <2>1, <2>2, <2>9, <3>1, <3>2, Rejects, Zenon DEF Takes
  <2> QED
    BY <2>1, <2>2, <2>7, <2>8, <2>9, <1>HeaderStartOutcome, Zenon DEF Takes
<1> QED
  BY <1>HeaderStartKeeps, Zenon

\* TakeHeaderValueLF keeps the invariant.
LEMMA HeaderValueLFKeeps == Http1Inv /\ TakeHeaderValueLF => Http1Inv'
\* The line feed after a value ends the field.
<1>HeaderValueLFOutcome.
    ASSUME NEW q, Lives(q), NEW t, NEW x \in HeaderValueLF(q, t)
    PROVE  \/ /\ t = "LF" /\ Lives(x)
              /\ x = [[q EXCEPT !.headerBytes = q.headerBytes + 1] EXCEPT !.state = "HeaderStart"]
           \/ Excusable(x)
           \/ Blaming(x) /\ t # "LF"
  <2> USE <1>HeaderValueLFOutcome
  <2>1. CASE t # "LF"
    BY <2>1, FailBlames, Zenon DEF HeaderValueLF
  <2>2. CASE t = "LF"
    <3> DEFINE u == takeHeaderByte(q)
    <3>1. x \in (IF u.code = "none"
                 THEN UNION {IF s.code = "none" THEN Shift(s, "HeaderStart") ELSE {s} : s \in Callback(u)} ELSE {u})
      BY <2>2, Zenon DEF HeaderValueLF, AndThen
    <3>2. CASE Excusable(u)
      BY <3>1, <3>2, ExcusedFails, Zenon DEF Excusable
    <3>3. CASE u = [q EXCEPT !.headerBytes = q.headerBytes + 1] /\ Lives(u)
      <4>1. PICK s \in Callback(u) : x \in (IF s.code = "none" THEN Shift(s, "HeaderStart") ELSE {s})
        BY <3>1, <3>3, Zenon DEF Lives
      <4>2. s = u \/ Excusable(s)
        BY <3>3, <4>1, CallbackKeeps, Zenon
      <4>3. CASE s = u
        <5>1. x = [u EXCEPT !.state = "HeaderStart"]
          BY <3>3, <4>1, <4>3, ShiftLive, Zenon DEF Lives
        <5> QED
          BY <2>2, <3>3, <5>1, StateSane, Zenon
      <4>4. CASE Excusable(s)
        BY <4>1, <4>4, ExcusedFails, Zenon DEF Excusable
      <4> QED
        BY <4>2, <4>3, <4>4, Zenon
    <3> QED
      BY <3>2, <3>3, HeaderByte, Zenon
  <2> QED
    BY <2>1, <2>2, Zenon
<1>HeaderValueLFKeeps. ASSUME Http1Inv, TakeHeaderValueLF PROVE Http1Inv'
  <2> USE <1>HeaderValueLFKeeps
  <2>1. /\ Lives(p) /\ p.state = "HeaderValueLF" /\ result = "open" /\ Agree(p, sent)
        /\ SenderFields \subseteq DOMAIN sent
    BY Reads, Zenon DEF TakeHeaderValueLF
  <2>2. PICK t \in Tokens : Takes(HeaderValueLF(p, t), t)
    BY Zenon DEF TakeHeaderValueLF
  <2>3. t \in {"LF", "bad"}
    BY <2>1, Zenon DEF Tokens, Grammar
  <2>4. IF p.trailers THEN InTrailers(p, sent) ELSE InHead(p, sent)
    BY <2>1, Zenon DEF Agree, LineStates, HeaderStates, ChunkStates
  <2>5. sent.version # "2.0"
    BY <2>4, Zenon DEF InTrailers, InHead
  <2>6. CASE Lives(p') /\ t = "LF" /\ p' = [[p EXCEPT !.headerBytes = p.headerBytes + 1] EXCEPT !.state = "HeaderStart"]
    <3>1. Sends(t) = sent
      <4>1. t \in {"LF", "CR", "target", "reason", ";ext"} /\ p.state # "HeaderValue" /\ p.state # "HeadersLF"
        BY <2>1, <2>6, Zenon
      <4> QED
        BY <2>5, <4>1, SendsNothing, Zenon
    <3>2. /\ p'.state = "HeaderStart" /\ p'.parsing = p.parsing /\ p'.contextual = p.contextual /\ p'.trailers = p.trailers
          /\ SameMessage(p, p') /\ SameFields(p, p')
      BY <2>1, <2>6 DEF SameMessage, SameFields, Lives, Sane, Within, Fields
    <3>3. IF p'.trailers THEN InTrailers(p', sent) ELSE InHead(p', sent)
      BY <2>1, <2>4, <3>2 DEF InTrailers, InHead, Knows, Seen, InMessage, InContext, SameMessage, SameFields
    <3>4. Agree(p', sent)
      BY <2>1, <3>2, <3>3, Zenon DEF Agree, HeaderStates
    <3> QED
      BY <2>1, <2>2, <2>6, <3>1, <3>4, Accepts, Zenon DEF Takes
  <2>7. CASE Excusable(p') \/ (Blaming(p') /\ t # "LF")
    <3>1. t # "LF" => Sends(t).fault
      BY <2>1, <2>3, SendsBad, Zenon
    <3> QED
      BY <2>1, <2>2, <2>7, <3>1, Rejects, Zenon DEF Takes
  <2> QED
    BY <2>1, <2>2, <2>6, <2>7, <1>HeaderValueLFOutcome, Zenon DEF Takes
<1> QED
  BY <1>HeaderValueLFKeeps, Zenon

\* The parts of the record that neither a list element nor a value changes.
SameHead(s, r) ==
    /\ r.answered = s.answered /\ r.line = s.line /\ r.version = s.version /\ r.name = s.name
    /\ r.body = s.body /\ SenderFields \subseteq DOMAIN r

\* What the record of the sender becomes with element t of a list of codings.
Coded(r, t) ==
    /\ SameHead(sent, r)
    /\ t \in Codings => /\ r.fields = sent.fields /\ r.coding = t /\ r.codings = sent.codings \cup {t}
                        /\ r.fault <=> \/ sent.fault \/ sent.coding # "none"
                                       \/ ("chunked" \in sent.codings /\ (t = "chunked" \/ p.kind = "Request"))
    /\ t = "," => /\ r.fields = sent.fields /\ r.coding = "none" /\ r.codings = sent.codings
                  /\ r.fault <=> sent.fault \/ sent.coding = "none"
    /\ t = ";param" => /\ r.fields = sent.fields /\ r.coding = sent.coding /\ r.codings = sent.codings
                       /\ r.fault <=> sent.fault \/ sent.coding \in {"none", "chunked"}
    /\ t = "CR" => /\ r.fields = sent.fields \cup {<<"transfer-encoding", sent.coding>>}
                   /\ r.coding = "none" /\ r.codings = {}
                   /\ r.fault <=> sent.fault \/ sent.coding = "none"

\* What one more field adds to the fields of a record.
Adds(s, r, a, b) ==
    /\ \A n : Has(r, n) <=> Has(s, n) \/ n = a
    /\ \A n, v : <<n, v>> \in r.fields <=> <<n, v>> \in s.fields \/ (n = a /\ v = b)
    /\ (\A f \in s.fields : f = <<f[1], f[2]>>) => (\A f \in r.fields : f = <<f[1], f[2]>>)

\* TakeHeaderValue keeps the invariant: what the parser notes of a value is what was sent.
LEMMA HeaderValueKeeps == Http1Inv /\ TakeHeaderValue => Http1Inv'
\* The coding that has been read counts, unless it repeats chunked or follows it in a
\* request.
<1>CommittedOutcome.
    ASSUME NEW q, Lives(q)
    PROVE  \/ Lives(Committed(q)) /\ Committed(q).state = q.state /\ Commits(q, Committed(q)) /\ ~Repeats(q)
           \/ Blaming(Committed(q)) /\ Repeats(q)
  <2> USE <1>CommittedOutcome
  <2>1. CASE q.transferState # "token"
    <3>1. Committed(q) = q
      BY <2>1, Zenon DEF Committed
    <3> QED
      BY <2>1, <3>1, Zenon DEF Commits, SameMessage, Repeats
  <2>2. CASE q.transferState = "token"
    <3> DEFINE r == [q EXCEPT !.transferChunked = q.transferCurrentChunked]
               v == r.transferSawChunked \/ q.transferCurrentChunked
               c == [r EXCEPT !.transferSawChunked = v]
    <3>1. Lives(r)
      BY ZenonT(40) DEF Lives, Sane, Within, Fields
    <3>2. Committed(q) = IF q.transferCurrentChunked /\ q.transferSawChunked
                         THEN fail(r, "InvalidTransferEncoding") ELSE c
      BY <2>2, Zenon DEF Committed, finishTransferToken
    <3>3. Lives(c) /\ c.state = q.state /\ Commits(q, c)
      <4>1. v <=> q.transferSawChunked \/ q.transferCurrentChunked
        BY Zenon DEF Lives, Sane, Within, Fields
      <4> HIDE DEF v
      <4>2. /\ Lives(c) /\ SameMessage(q, c) /\ c.state = q.state /\ c.field = q.field
            /\ c.hasContentLength = q.hasContentLength /\ c.hasTransferEncoding = q.hasTransferEncoding
            /\ c.hasHost = q.hasHost /\ c.hasUpgrade = q.hasUpgrade /\ c.connection = q.connection
            /\ c.remaining = q.remaining
            /\ c.transferChunked = q.transferCurrentChunked /\ c.transferSawChunked = v
        BY DEF Lives, Sane, Within, Fields, SameMessage
      <4> QED
        BY <2>2, <4>1, <4>2, Zenon DEF Commits
    <3> QED
      BY <2>2, <3>1, <3>2, <3>3, FailBlames, Zenon DEF Repeats
  <2> QED
    BY <2>1, <2>2, Zenon
\* consumeTransferValue takes an element of the list of codings, or rejects a bad one.
<1>ConsumeTransferValue.
    ASSUME NEW q, Lives(q), NEW t, t # "CR", NEW x \in consumeTransferValue(q, t)
    PROVE  \/ Lives(x) /\ Listed(q, x, t) /\ ~BadElement(q, t)
           \/ Blaming(x) /\ BadElement(q, t)
  <2> USE <1>ConsumeTransferValue
  <2> DEFINE c == Committed(q)
             invalid == {fail(q, "InvalidTransferEncoding")}
  <2>0. Blaming(fail(q, "InvalidTransferEncoding"))
    BY FailBlames, Zenon
  <2>a. "," \notin Codings /\ ";param" \notin Codings
    BY Zenon DEF Codings
  <2>1. CASE t \in Codings
    <3> DEFINE n == [q EXCEPT !.transferState = "token", !.transferCurrentChunked = t = "chunked"]
    <3>2. t # "," /\ t # ";param" /\ t # "CR"
      BY <2>1, Zenon DEF Codings
    <3>1. x \in (IF q.transferState # "before" \/ (q.transferSawChunked /\ q.kind = "Request") THEN invalid ELSE {n})
      BY <2>1, <3>2, Zenon DEF consumeTransferValue
    <3>3. Lives(n) /\ Listed(q, n, t)
      <4>1. PICK v : v = (t = "chunked")
        BY Zenon
      <4>2. n = [q EXCEPT !.transferState = "token", !.transferCurrentChunked = v]
        BY <4>1, Zenon
      <4> HIDE DEF n
      <4>3. /\ Lives(n) /\ SameMessage(q, n) /\ n.state = q.state /\ n.field = q.field /\ SameFields(q, n)
            /\ n.transferSawChunked = q.transferSawChunked
            /\ n.transferState = "token" /\ n.transferCurrentChunked = v
        BY <4>2 DEF Lives, Sane, Within, Fields, SameMessage, SameFields
      <4> QED
        BY <2>1, <4>1, <4>3, Zenon DEF Listed
    <3> HIDE DEF n
    <3> QED
      BY <2>0, <2>1, <3>1, <3>2, <3>3, Zenon DEF BadElement
  <2>2. CASE t = ","
    <3>1. x \in (IF q.transferState = "before" THEN invalid
                 ELSE AndThen({c}, LAMBDA r : {[r EXCEPT !.transferState = "before"]}))
      BY <2>2, <2>a, Zenon DEF consumeTransferValue
    <3>2. CASE q.transferState = "before"
      BY <2>0, <2>2, <3>1, <3>2, Zenon DEF BadElement
    <3>3. CASE q.transferState # "before"
      <4>1. x \in (IF c.code = "none" THEN {[c EXCEPT !.transferState = "before"]} ELSE {c})
        BY <3>1, <3>3, Zenon DEF AndThen
      <4>2. CASE Blaming(c) /\ Repeats(q)
        BY <2>2, <4>1, <4>2, Zenon DEF Blaming, BadElement
      <4>3. CASE Lives(c) /\ c.state = q.state /\ Commits(q, c) /\ ~Repeats(q)
        <5> HIDE DEF c
        <5>1. x = [c EXCEPT !.transferState = "before"]
          BY <4>1, <4>3, Zenon DEF Lives
        <5>2. Lives(x) /\ x.state = q.state /\ Commits(q, x) /\ x.transferState = "before"
          BY <4>3, <5>1 DEF Lives, Sane, Within, Fields, Commits, SameMessage
        <5>3. ~BadElement(q, t)
          BY <2>2, <3>3, <4>3, <2>a, Zenon DEF BadElement
        <5> QED
          BY <2>2, <5>2, <5>3, Zenon DEF Listed
      <4> QED
        BY <4>2, <4>3, <1>CommittedOutcome, Zenon
    <3> QED
      BY <3>2, <3>3, Zenon
  <2>3. CASE t = ";param"
    <3>1. x \in (IF q.transferState = "before" THEN invalid
                 ELSE AndThen({c}, LAMBDA r : IF r.transferChunked THEN {fail(r, "InvalidTransferEncoding")}
                                              ELSE {[r EXCEPT !.transferState = "after"]}))
      BY <2>3, <2>a, Zenon DEF consumeTransferValue
    <3>2. CASE q.transferState = "before"
      BY <2>0, <2>3, <3>1, <3>2, Zenon DEF BadElement
    <3>3. CASE q.transferState # "before"
      <4>1. x \in (IF c.code = "none"
                   THEN (IF c.transferChunked THEN {fail(c, "InvalidTransferEncoding")}
                         ELSE {[c EXCEPT !.transferState = "after"]})
                   ELSE {c})
        BY <3>1, <3>3, Zenon DEF AndThen
      <4>2. CASE Blaming(c) /\ Repeats(q)
        BY <2>3, <4>1, <4>2, Zenon DEF Blaming, BadElement
      <4>3. CASE Lives(c) /\ c.state = q.state /\ Commits(q, c) /\ ~Repeats(q)
        <5> HIDE DEF c
        <5>1. CASE c.transferChunked
          <6>1. BadElement(q, t)
            BY <2>3, <4>3, <5>1, Zenon DEF BadElement, Commits
          <6> QED
            BY <4>1, <4>3, <5>1, <6>1, FailBlames, Zenon DEF Lives
        <5>2. CASE ~c.transferChunked
          <6>1. x = [c EXCEPT !.transferState = "after"]
            BY <4>1, <4>3, <5>2, Zenon DEF Lives
          <6>2. Lives(x) /\ x.state = q.state /\ Commits(q, x) /\ x.transferState = "after"
            BY <4>3, <6>1 DEF Lives, Sane, Within, Fields, Commits, SameMessage
          <6>3. ~(IF q.transferState = "token" THEN q.transferCurrentChunked ELSE q.transferChunked)
            BY <4>3, <5>2, Zenon DEF Commits
          <6>4. ~BadElement(q, t)
            BY <2>3, <3>3, <4>3, <6>3, <2>a, Zenon DEF BadElement
          <6> QED
            BY <2>3, <6>2, <6>4, Zenon DEF Listed
        <5> QED
          BY <5>1, <5>2, Zenon
      <4> QED
        BY <4>2, <4>3, <1>CommittedOutcome, Zenon
    <3> QED
      BY <3>2, <3>3, Zenon
  <2>4. CASE t \notin Codings \cup {",", ";param"}
    <3>1. x = fail(q, "InvalidTransferEncoding")
      BY <2>4, Zenon DEF consumeTransferValue
    <3> QED
      BY <2>0, <2>4, <3>1, Zenon DEF BadElement
  <2> QED
    BY <2>1, <2>2, <2>3, <2>4, Zenon
\* consumeFieldValue notes what the value says of the length, the connection or the
\* upgrade.
<1>ConsumeFieldValue.
    ASSUME NEW q, Lives(q), q.state = "HeaderValue", NEW t
    PROVE  Lives(consumeFieldValue(q, t)) /\ Valued(q, consumeFieldValue(q, t), t)
  <2> USE <1>ConsumeFieldValue
  <2> DEFINE c == consumeFieldValue(q, t)
  <2> SUFFICES Lives(c) /\ Valued(q, c, t)
    BY Zenon
  <2>1. CASE q.field = "content-length"
    <3>1. c = [q EXCEPT !.remaining = Length[t]]
      BY <2>1, Zenon DEF consumeFieldValue
    <3> HIDE DEF c
    <3> QED
      BY <2>1, <3>1 DEF Lives, Sane, Within, Fields, Valued, SameMessage
  <2>2. CASE q.field = "connection"
    <3>1. c = [q EXCEPT !.connection = q.connection \cup {t}]
      BY <2>2, Zenon DEF consumeFieldValue
    <3> HIDE DEF c
    <3> QED
      BY <2>2, <3>1 DEF Lives, Sane, Within, Fields, Valued, SameMessage
  <2>3. CASE q.field = "upgrade"
    <3>1. c = [q EXCEPT !.hasUpgrade = TRUE]
      BY <2>3, Zenon DEF consumeFieldValue
    <3> HIDE DEF c
    <3> QED
      BY <2>3, <3>1 DEF Lives, Sane, Within, Fields, Valued, SameMessage
  <2>4. CASE q.field \notin {"content-length", "connection", "upgrade"}
    <3>1. c = q
      BY <2>4, Zenon DEF consumeFieldValue
    <3> HIDE DEF c
    <3> QED
      BY <2>4, <3>1, Zenon DEF Lives, Sane, Within, Fields, Valued, SameMessage
  <2> QED
    BY <2>1, <2>2, <2>3, <2>4, Zenon
\* The list of codings ends after a coding, and is rejected after a comma.
<1>ListEnd.
    ASSUME NEW q, Lives(q), q.state = "HeaderValue", NEW x \in Shift(finishTransferValue(q), "HeaderValueLF")
    PROVE  \/ Lives(x) /\ x.state = "HeaderValueLF" /\ Commits(q, x) /\ ~BadElement(q, "CR")
           \/ Blaming(x) /\ BadElement(q, "CR")
  <2> USE <1>ListEnd
  <2> DEFINE f == finishTransferValue(q)
  <2>0. "CR" \notin Codings
    BY Zenon DEF Codings
  <2>1. CASE Blaming(f) /\ (q.transferState = "before" \/ Repeats(q))
    <3>1. x = f
      BY <2>1, ShiftFailed, Zenon DEF Blaming
    <3> QED
      BY <2>1, <3>1, Zenon DEF BadElement
  <2>2. CASE Lives(f) /\ Commits(q, f) /\ q.transferState # "before" /\ ~Repeats(q)
    <3>1. x = [f EXCEPT !.state = "HeaderValueLF"]
      BY <2>2, ShiftLive, Zenon DEF Lives
    <3>2. ~BadElement(q, "CR")
      BY <2>0, <2>2, Zenon DEF BadElement
    <3> HIDE DEF f
    <3>3. Lives(x)
      BY <2>2, <3>1, StateSane, Zenon
    <3>4. x.state = "HeaderValueLF" /\ Commits(q, x)
      BY <2>2, <3>1 DEF Lives, Sane, Within, Fields, Commits, SameMessage
    <3> QED
      BY <3>2, <3>3, <3>4, Zenon
  <2> QED
    BY <2>1, <2>2, <1>CommittedOutcome, FailBlames, Zenon DEF finishTransferValue
\* What a token of a value does to a parser that has taken its byte.
<1>ValueOutcome.
    ASSUME NEW q, Lives(q), q.state = "HeaderValue", NEW t, NEW x,
           x \in IF q.field # "transfer-encoding"
                 THEN AndThen(Callback(consumeFieldValue(q, t)), LAMBDA s : Shift(s, "HeaderValueLF"))
                 ELSE IF t = "CR" THEN Shift(finishTransferValue(q), "HeaderValueLF")
                 ELSE AndThen(consumeTransferValue(q, t), Callback)
    PROVE  \/ q.field # "transfer-encoding" /\ Lives(x) /\ x.state = "HeaderValueLF" /\ Valued(q, x, t)
           \/ /\ q.field = "transfer-encoding" /\ t = "CR" /\ ~BadElement(q, t)
              /\ Lives(x) /\ x.state = "HeaderValueLF" /\ Commits(q, x)
           \/ /\ q.field = "transfer-encoding" /\ t # "CR" /\ ~BadElement(q, t)
              /\ Lives(x) /\ Listed(q, x, t)
           \/ Excusable(x)
           \/ q.field = "transfer-encoding" /\ Blaming(x) /\ BadElement(q, t)
  <2> USE <1>ValueOutcome
  <2>1. CASE q.field # "transfer-encoding"
    <3> DEFINE c == consumeFieldValue(q, t)
    <3>1. Lives(c) /\ Valued(q, c, t)
      BY <1>ConsumeFieldValue, Zenon
    <3>2. PICK s \in Callback(c) : x \in (IF s.code = "none" THEN Shift(s, "HeaderValueLF") ELSE {s})
      BY <2>1, Zenon DEF AndThen
    <3>3. CASE s = c
      <4>1. x = [c EXCEPT !.state = "HeaderValueLF"]
        BY <3>1, <3>2, <3>3, ShiftLive, Zenon DEF Lives
      <4>2. Lives(x)
        BY <3>1, <4>1, StateSane, Zenon
      <4> HIDE DEF c
      <4>3. x.state = "HeaderValueLF" /\ Valued(q, x, t)
        BY <3>1, <4>1 DEF Lives, Sane, Within, Fields, Valued, SameMessage
      <4> QED
        BY <2>1, <4>2, <4>3, Zenon
    <3>4. CASE Excusable(s)
      BY <3>2, <3>4, ExcusedFails, Zenon DEF Excusable
    <3> QED
      BY <3>1, <3>2, <3>3, <3>4, CallbackKeeps, Zenon
  <2>2. CASE q.field = "transfer-encoding" /\ t = "CR"
    BY <2>2, <1>ListEnd, Zenon
  <2>3. CASE q.field = "transfer-encoding" /\ t # "CR"
    <3>1. PICK r \in consumeTransferValue(q, t) : x \in (IF r.code = "none" THEN Callback(r) ELSE {r})
      BY <2>3, Zenon DEF AndThen
    <3>2. (Lives(r) /\ Listed(q, r, t) /\ ~BadElement(q, t)) \/ (Blaming(r) /\ BadElement(q, t))
      BY <2>3, <3>1, <1>ConsumeTransferValue, Zenon
    <3> QED
      BY <2>3, <3>1, <3>2, CallbackKeeps, Zenon DEF Lives, Blaming
  <2> QED
    BY <2>1, <2>2, <2>3, Zenon
\* The value of a field is noted, meets a limit, or is rejected.
<1>HeaderValueOutcome.
    ASSUME NEW q, Lives(q), q.state = "HeaderValue", NEW t, NEW x \in HeaderValue(q, t)
    PROVE  \/ /\ q.field # "transfer-encoding" /\ t # "bad"
              /\ Lives(x) /\ x.state = "HeaderValueLF" /\ Valued(q, x, t)
           \/ /\ q.field = "transfer-encoding" /\ t = "CR" /\ ~BadElement(q, t)
              /\ Lives(x) /\ x.state = "HeaderValueLF" /\ Commits(q, x)
           \/ /\ q.field = "transfer-encoding" /\ t \notin {"CR", "bad"} /\ ~BadElement(q, t)
              /\ Lives(x) /\ Listed(q, x, t)
           \/ Excusable(x)
           \/ Blaming(x) /\ t = "bad"
           \/ q.field = "transfer-encoding" /\ Blaming(x) /\ BadElement(q, t)
  <2> USE <1>HeaderValueOutcome
  <2>1. CASE t = "bad"
    BY <2>1, FailBlames, Zenon DEF HeaderValue
  <2>2. CASE t # "bad"
    <3> DEFINE u == takeHeaderByte(q)
               V == IF u.field # "transfer-encoding"
                    THEN AndThen(Callback(consumeFieldValue(u, t)), LAMBDA s : Shift(s, "HeaderValueLF"))
                    ELSE IF t = "CR" THEN Shift(finishTransferValue(u), "HeaderValueLF")
                    ELSE AndThen(consumeTransferValue(u, t), Callback)
    <3>1. x \in (IF u.code = "none" THEN V ELSE {u})
      <4>1. x \in AndThen({u}, LAMBDA r : IF r.field # "transfer-encoding"
                              THEN AndThen(Callback(consumeFieldValue(r, t)), LAMBDA s : Shift(s, "HeaderValueLF"))
                              ELSE IF t = "CR" THEN Shift(finishTransferValue(r), "HeaderValueLF")
                              ELSE AndThen(consumeTransferValue(r, t), Callback))
        BY <2>2, Zenon DEF HeaderValue
      <4> QED
        BY <4>1, Zenon DEF AndThen
    <3>2. CASE Excusable(u)
      BY <3>1, <3>2, ExcusedFails, Zenon DEF Excusable
    <3>3. CASE u = [q EXCEPT !.headerBytes = q.headerBytes + 1] /\ Lives(u)
      <4>1. x \in V
        BY <3>1, <3>3, Zenon DEF Lives
      <4>2. u.state = "HeaderValue" /\ u.field = q.field /\ SameMessage(q, u) /\ SameFields(q, u) /\ SameList(q, u)
        BY <3>3 DEF Lives, Sane, Within, Fields, SameMessage, SameFields, SameList
      <4>3. BadElement(u, t) <=> BadElement(q, t)
        BY <4>2, Zenon DEF BadElement, Repeats, SameMessage, SameFields, SameList
      <4>4. /\ Valued(u, x, t) => Valued(q, x, t)
            /\ Commits(u, x) => Commits(q, x)
        <5> HIDE DEF u
        <5>1. Valued(u, x, t) => Valued(q, x, t)
          BY <4>2 DEF Valued, SameMessage, SameFields, SameList
        <5>2. Commits(u, x) => Commits(q, x)
          BY <4>2 DEF Commits, SameMessage, SameFields, SameList
        <5> QED
          BY <5>1, <5>2, Zenon
      <4>5. Listed(u, x, t) => Listed(q, x, t)
        BY <4>2, <4>4, ZenonT(40) DEF Listed, SameMessage, SameFields, SameList
      <4> HIDE DEF u
      <4> QED
        BY <2>2, <3>3, <4>1, <4>2, <4>3, <4>4, <4>5, <1>ValueOutcome, Zenon
    <3> QED
      BY <3>2, <3>3, HeaderByte, Zenon
  <2> QED
    BY <2>1, <2>2, Zenon
\* A whole value is added to the fields.
<1>SendsValue.
    ASSUME NEW t \in DOMAIN Length \cup Options \cup {"text"},
           p.state = "HeaderValue", sent.name # "transfer-encoding", sent.version # "2.0"
    PROVE  /\ t # "bad"
           /\ Sends(t) = [sent EXCEPT !.fields = IF sent.body = "head" /\ sent.name # "other"
                                                 THEN sent.fields \cup {<<sent.name, t>>} ELSE sent.fields]
  <2> USE <1>SendsValue
  <2>1. t # "bad" /\ t \notin Methods \cup Statuses /\ t \notin Versions /\ t \notin DOMAIN Digit
    BY Zenon DEF Methods, Statuses, Versions, Digit, Length, Options
  <2>2. p.state # "HeaderStart" /\ p.state # "HeadersLF"
    BY Zenon
  <2> QED
    BY <2>1, <2>2, Zenon DEF Sends
\* An element of a list of codings is added to the list.
<1>SendsCode.
    ASSUME NEW t \in Codings \cup {",", ";param", "CR"},
           p.state = "HeaderValue", sent.name = "transfer-encoding", sent.version # "2.0"
    PROVE  t # "bad" /\ Sends(t) = Codes(t)
  <2> USE <1>SendsCode
  <2>1. t # "bad" /\ t \notin Methods \cup Statuses /\ t \notin Versions /\ t \notin DOMAIN Digit
    BY Zenon DEF Methods, Statuses, Versions, Digit, Codings
  <2>2. p.state # "HeaderStart" /\ p.state # "HeadersLF"
    BY Zenon
  <2> QED
    BY <2>1, <2>2, Zenon DEF Sends
\* What the sender records of an element of the list of codings.
<1>CodesOutcome.
    ASSUME SenderFields \subseteq DOMAIN sent, NEW t \in Codings \cup {",", ";param", "CR"}, NEW r, r = Codes(t)
    PROVE  Coded(r, t)
  <2> USE <1>CodesOutcome
  <2>1. CASE t \in Codings
    <3>1. t # "," /\ t # ";param" /\ t # "CR"
      BY <2>1, Zenon DEF Codings
    <3>2. PICK v : v = (\/ sent.fault \/ sent.coding # "none"
                        \/ ("chunked" \in sent.codings /\ (t = "chunked" \/ p.kind = "Request")))
      BY Zenon
    <3>3. r = [sent EXCEPT !.coding = t, !.codings = sent.codings \cup {t}, !.fault = v]
      BY <2>1, <3>1, <3>2, Zenon DEF Codes
    <3>4. /\ SameHead(sent, r) /\ r.fields = sent.fields /\ r.coding = t /\ r.codings = sent.codings \cup {t}
          /\ r.fault = v
      <4> HIDE <2>1, <3>1, <3>2
      <4> QED
        BY <3>3, Zenon DEF SameHead, SenderFields
    <3> QED
      BY <2>1, <3>1, <3>2, <3>4, Zenon DEF Coded
  <2>2. CASE t = ","
    <3>1. t \notin Codings /\ t # ";param" /\ t # "CR"
      BY <2>2, Zenon DEF Codings
    <3>2. PICK v : v = (sent.fault \/ sent.coding = "none")
      BY Zenon
    <3>3. r = [sent EXCEPT !.coding = "none", !.fault = v]
      BY <2>2, <3>1, <3>2, Zenon DEF Codes
    <3>4. /\ SameHead(sent, r) /\ r.fields = sent.fields /\ r.coding = "none" /\ r.codings = sent.codings
          /\ r.fault = v
      BY <3>3, Zenon DEF SameHead, SenderFields
    <3> QED
      BY <2>2, <3>1, <3>2, <3>4, Zenon DEF Coded
  <2>3. CASE t = ";param"
    <3>1. t \notin Codings /\ t # "," /\ t # "CR"
      BY <2>3, Zenon DEF Codings
    <3>2. PICK v : v = (sent.fault \/ sent.coding \in {"none", "chunked"})
      BY Zenon
    <3>3. r = [sent EXCEPT !.fault = v]
      BY <2>3, <3>1, <3>2, Zenon DEF Codes
    <3>4. /\ SameHead(sent, r) /\ r.fields = sent.fields /\ r.coding = sent.coding /\ r.codings = sent.codings
          /\ r.fault = v
      BY <3>3, Zenon DEF SameHead, SenderFields
    <3> QED
      BY <2>3, <3>1, <3>2, <3>4, Zenon DEF Coded
  <2>4. CASE t = "CR"
    <3>1. t \notin Codings /\ t # "," /\ t # ";param"
      BY <2>4, Zenon DEF Codings
    <3>2. PICK v : v = (sent.fault \/ sent.coding = "none")
      BY Zenon
    <3>3. r = [sent EXCEPT !.fields = sent.fields \cup {<<"transfer-encoding", sent.coding>>}, !.fault = v,
                           !.codings = {}, !.coding = "none"]
      BY <2>4, <3>1, <3>2, Zenon DEF Codes
    <3>4. /\ SameHead(sent, r) /\ r.fields = sent.fields \cup {<<"transfer-encoding", sent.coding>>}
          /\ r.coding = "none" /\ r.codings = {} /\ r.fault = v
      BY <3>3, Zenon DEF SameHead, SenderFields
    <3> QED
      BY <2>4, <3>1, <3>2, <3>4, Zenon DEF Coded
  <2> QED
    BY <2>1, <2>2, <2>3, <2>4, Zenon
\* A set of fields with one more field.
<1>HasAdd.
    ASSUME NEW s, NEW r, NEW a, NEW b, r.fields = s.fields \cup {<<a, b>>}
    PROVE  Adds(s, r, a, b)
  <2> USE <1>HasAdd
  <2>1. <<a, b>>[1] = a /\ <<a, b>>[2] = b
    BY Zenon
  <2>2. \A n, v : <<n, v>> = <<a, b>> <=> n = a /\ v = b
    BY Zenon
  <2> QED
    BY <2>1, <2>2, Zenon DEF Adds, Has
\* A field that was sent has a name that was sent.
<1>HasField. ASSUME NEW s, NEW n, NEW v, <<n, v>> \in s.fields PROVE Has(s, n)
  <2> USE <1>HasField
  <2>1. <<n, v>>[1] = n
    BY Zenon
  <2> QED
    BY <2>1, Zenon DEF Has
\* A whole value that the parser has read.
<1>ValueRead.
    ASSUME NEW q, NEW x, NEW s, NEW r, NEW t, q.state = "HeaderValue", InHead(q, s), s.name # "transfer-encoding",
           s.name = "content-length" => t \in DOMAIN Length,
           Valued(q, x, t), x.state = "HeaderValueLF",
           SameHead(s, r), r.fields = s.fields \cup {<<s.name, t>>},
           r.codings = s.codings, r.coding = s.coding, r.fault = s.fault
    PROVE  InHead(x, r)
  <2> USE <1>ValueRead
  <2>1. InValue(q, s) /\ Knows(q, s) /\ ~s.fault /\ s.codings = {} /\ s.coding = "none"
    BY Zenon DEF InHead
  <2>2. SameMessage(q, x) /\ x.kind = q.kind /\ x.field = q.field
    BY Zenon DEF Valued, SameMessage
  <2>3. /\ s.name \in HeadNames \ {"transfer-encoding"}
        /\ q.field = "content-length" <=> s.name = "content-length"
        /\ q.field = "connection" <=> s.name = "connection"
        /\ q.field = "upgrade" <=> s.name = "upgrade"
        /\ s.name = "content-length" => ~Has(s, "content-length")
    BY <2>1, Zenon DEF InValue, HeadNames, Single
  <2>4. /\ \A n : Has(r, n) <=> Has(s, n) \/ n = s.name
        /\ \A n, v : <<n, v>> \in r.fields <=> <<n, v>> \in s.fields \/ (n = s.name /\ v = t)
        /\ \A f \in r.fields : f = <<f[1], f[2]>>
    <3>1. \A f \in s.fields : f = <<f[1], f[2]>>
      BY <2>1, Zenon DEF Knows
    <3>2. Adds(s, r, s.name, t)
      BY <1>HasAdd, Zenon
    <3> QED
      BY <3>1, <3>2, Zenon DEF Adds
  <2>5. \A n : Has(r, n) <=> Seen(q, s, n)
    BY <2>4, Zenon DEF Seen
  <2>6. \A n : Seen(x, r, n) <=> Seen(q, s, n)
    BY <2>5, Zenon DEF Seen
  <2>7. Knows(x, r)
    <3>1. /\ x.hasContentLength <=> Seen(x, r, "content-length")
          /\ x.hasTransferEncoding <=> Seen(x, r, "transfer-encoding")
          /\ x.kind = "Request" => (x.hasHost <=> Seen(x, r, "host"))
      BY <2>1, <2>2, <2>6, Zenon DEF Knows, Valued
    <3>2. x.hasUpgrade <=> Has(r, "upgrade")
      BY <2>1, <2>3, <2>4, Zenon DEF Knows, Valued
    <3>3. "upgrade" \in x.connection <=> <<"connection", "upgrade">> \in r.fields
      <4>1. /\ x.connection = IF s.name = "connection" THEN q.connection \cup {t} ELSE q.connection
            /\ "upgrade" \in q.connection <=> <<"connection", "upgrade">> \in s.fields
        BY <2>1, <2>3, Zenon DEF Knows, Valued
      <4>2. <<"connection", "upgrade">> \in r.fields
              <=> <<"connection", "upgrade">> \in s.fields \/ (s.name = "connection" /\ t = "upgrade")
        BY <2>4, Zenon
      <4> QED
        BY <4>1, <4>2, Zenon
    <3>4. \A v : <<"content-length", v>> \in r.fields => v \in DOMAIN Length /\ x.remaining = Length[v]
      BY <2>1, <2>3, <2>4, <1>HasField, ZenonT(40) DEF Knows, Valued
    <3>5. \A v : <<"transfer-encoding", v>> \in r.fields => v = IF x.transferChunked THEN "chunked" ELSE "gzip"
      BY <2>1, <2>3, <2>4, ZenonT(40) DEF Knows, Valued
    <3> QED
      BY <2>4, <3>1, <3>2, <3>3, <3>4, <3>5, Zenon DEF Knows
  <2>8. InMessage(x, r) /\ r.body = "head" /\ r.version \in {"1.0", "1.1"} /\ x.chunkSize = 0 /\ x.bodyBytes = 0
    BY <2>2 DEF InHead, InMessage, InContext, SameMessage, SameHead
  <2> QED
    BY <2>1, <2>7, <2>8, Zenon DEF InHead
\* A list of codings that the parser has read to its end.
<1>ListRead.
    ASSUME NEW q, NEW x, NEW s, NEW r, q.state = "HeaderValue", InHead(q, s), s.name = "transfer-encoding",
           q.transferState # "before", ~Repeats(q), Commits(q, x), x.state = "HeaderValueLF",
           SameHead(s, r), r.fields = s.fields \cup {<<"transfer-encoding", s.coding>>},
           r.coding = "none", r.codings = {}, r.fault <=> s.fault \/ s.coding = "none"
    PROVE  InHead(x, r)
  <2> USE <1>ListRead
  <2>1. InValue(q, s) /\ Knows(q, s) /\ InList(q, s)
    BY Zenon DEF InHead, InValue
  <2>2. SameMessage(q, x) /\ x.kind = q.kind
    BY Zenon DEF Commits, SameMessage
  <2>3. ~Has(s, "transfer-encoding") /\ ~Has(s, "content-length")
    BY <2>1, Zenon DEF InValue, Single
  <2>4. s.coding = (IF x.transferChunked THEN "chunked" ELSE "gzip") /\ ~r.fault
    BY <2>1, Zenon DEF InList, Commits
  <2>5. /\ \A n : Has(r, n) <=> Has(s, n) \/ n = "transfer-encoding"
        /\ \A n, v : <<n, v>> \in r.fields <=> <<n, v>> \in s.fields \/ (n = "transfer-encoding" /\ v = s.coding)
        /\ \A f \in r.fields : f = <<f[1], f[2]>>
    <3>1. \A f \in s.fields : f = <<f[1], f[2]>>
      BY <2>1, Zenon DEF Knows
    <3>2. Adds(s, r, "transfer-encoding", s.coding)
      BY <1>HasAdd, Zenon
    <3> QED
      BY <3>1, <3>2, Zenon DEF Adds
  <2>6. \A n : Seen(x, r, n) <=> Seen(q, s, n)
    BY <2>5, Zenon DEF Seen
  <2>7. Knows(x, r)
    <3>1. /\ x.hasContentLength <=> Seen(x, r, "content-length")
          /\ x.hasTransferEncoding <=> Seen(x, r, "transfer-encoding")
          /\ x.kind = "Request" => (x.hasHost <=> Seen(x, r, "host"))
      BY <2>1, <2>2, <2>6, Zenon DEF Knows, Commits
    <3>2. /\ x.hasUpgrade <=> Has(r, "upgrade")
          /\ "upgrade" \in x.connection <=> <<"connection", "upgrade">> \in r.fields
      BY <2>1, <2>5, Zenon DEF Knows, Commits
    <3>3. \A v : <<"content-length", v>> \in r.fields => v \in DOMAIN Length /\ x.remaining = Length[v]
      BY <2>1, <2>5, Zenon DEF Knows, Commits
    <3>4. \A v : <<"transfer-encoding", v>> \in r.fields => v = IF x.transferChunked THEN "chunked" ELSE "gzip"
      BY <2>3, <2>4, <2>5, <1>HasField, Zenon
    <3> QED
      BY <2>5, <3>1, <3>2, <3>3, <3>4, Zenon DEF Knows
  <2>8. InMessage(x, r) /\ r.body = "head" /\ r.version \in {"1.0", "1.1"} /\ x.chunkSize = 0 /\ x.bodyBytes = 0
    BY <2>2 DEF InHead, InMessage, InContext, SameMessage, SameHead
  <2> QED
    BY <2>4, <2>7, <2>8, Zenon DEF InHead
\* An element of a list of codings that the parser has read.
<1>ElementRead.
    ASSUME NEW q, NEW x, NEW s, NEW r, q.state = "HeaderValue", InHead(q, s), s.name = "transfer-encoding",
           x.state = "HeaderValue", SameMessage(q, x), x.field = q.field,
           x.hasContentLength = q.hasContentLength, x.hasTransferEncoding = q.hasTransferEncoding,
           x.hasHost = q.hasHost, x.hasUpgrade = q.hasUpgrade, x.connection = q.connection, x.remaining = q.remaining,
           SameHead(s, r), r.fields = s.fields, InList(x, r)
    PROVE  InHead(x, r)
  <2> USE <1>ElementRead
  <2>1. InValue(q, s) /\ Knows(q, s)
    BY Zenon DEF InHead
  <2>2. x.kind = q.kind /\ r.name = s.name
    BY Zenon DEF SameMessage, SameHead
  <2>3. \A n : (Has(r, n) <=> Has(s, n)) /\ (Seen(x, r, n) <=> Seen(q, s, n))
    BY <2>2, Zenon DEF Seen, Has
  <2>4. ~Has(s, "transfer-encoding")
    BY <2>1, Zenon DEF InValue, Single
  <2>5. Knows(x, r)
    BY <2>1, <2>2, <2>3, <2>4, <1>HasField, Zenon DEF Knows
  <2>6. InValue(x, r)
    BY <2>1, <2>2, <2>3, Zenon DEF InValue
  <2>7. InMessage(x, r) /\ r.body = "head" /\ r.version \in {"1.0", "1.1"} /\ x.chunkSize = 0 /\ x.bodyBytes = 0
    BY DEF InHead, InMessage, InContext, SameMessage, SameHead
  <2> QED
    BY <2>2, <2>5, <2>6, <2>7, Zenon DEF InHead
\* What the parser and the record of the sender say of a list stays the same.
<1>ElementListed.
    ASSUME NEW t \in Codings \cup {",", ";param"}, SenderFields \subseteq DOMAIN sent, NEW x, NEW r, r = Codes(t),
           InList(p, sent), p.kind \in Kinds, Listed(p, x, t), ~BadElement(p, t)
    PROVE  InList(x, r)
  <2> USE <1>ElementListed
  <2>0. Coded(r, t)
    BY <1>CodesOutcome, Zenon
  <2>1. CASE t \in Codings
    <3>1. /\ x.transferSawChunked = p.transferSawChunked /\ x.transferState = "token" /\ x.kind = p.kind
          /\ x.transferCurrentChunked <=> t = "chunked"
      <4>1. t # "," /\ t # ";param"
        BY <2>1, Zenon DEF Codings
      <4> QED
        BY <2>1, <4>1, Zenon DEF Listed, SameMessage
    <3>2. p.transferState = "before" /\ ~(p.transferSawChunked /\ p.kind = "Request")
      BY <2>1, Zenon DEF BadElement
    <3>3. /\ r.coding = t /\ r.codings = sent.codings \cup {t}
          /\ r.fault <=> \/ sent.fault \/ sent.coding # "none"
                         \/ ("chunked" \in sent.codings /\ (t = "chunked" \/ p.kind = "Request"))
      BY <2>0, <2>1, Zenon DEF Coded
    <3>4. t = "chunked" \/ t = "gzip"
      BY <2>1, Zenon DEF Codings
    <3> QED
      BY <3>1, <3>2, <3>3, <3>4, Zenon DEF InList, Repeats
  <2>2. CASE t = ","
    <3>1. Commits(p, x) /\ x.transferState = "before" /\ p.transferState # "before" /\ ~Repeats(p)
      <4>1. t \notin Codings /\ t # ";param"
        BY <2>2, Zenon DEF Codings
      <4> QED
        BY <2>2, <4>1, Zenon DEF Listed, BadElement
    <3>2. r.coding = "none" /\ r.codings = sent.codings /\ (r.fault <=> sent.fault \/ sent.coding = "none")
      BY <2>0, <2>2, Zenon DEF Coded
    <3> HIDE <2>2
    <3>3. sent.coding # "none" /\ ~sent.fault
      BY <3>1, Zenon DEF InList
    <3>4. "chunked" \in r.codings <=> x.transferSawChunked
      BY <3>1, <3>2, Zenon DEF InList, Commits
    <3> QED
      BY <3>1, <3>2, <3>3, <3>4, Zenon DEF InList, Repeats
  <2>3. CASE t = ";param"
    <3>1. /\ Commits(p, x) /\ x.transferState = "after" /\ p.transferState # "before" /\ ~Repeats(p)
          /\ ~(IF p.transferState = "token" THEN p.transferCurrentChunked ELSE p.transferChunked)
      <4>1. t \notin Codings /\ t # ","
        BY <2>3, Zenon DEF Codings
      <4> QED
        BY <2>3, <4>1, Zenon DEF Listed, BadElement
    <3>2. /\ r.coding = sent.coding /\ r.codings = sent.codings
          /\ r.fault <=> sent.fault \/ sent.coding \in {"none", "chunked"}
      BY <2>0, <2>3, Zenon DEF Coded
    <3> HIDE <2>3
    <3>3. sent.coding = "gzip" /\ ~x.transferChunked
      BY <3>1, Zenon DEF InList, Commits
    <3>4. ~sent.fault /\ ~r.fault
      BY <3>1, <3>2, <3>3, Zenon DEF InList
    <3>5. "chunked" \in r.codings <=> x.transferSawChunked
      BY <3>1, <3>2, Zenon DEF InList, Commits
    <3> QED
      BY <3>1, <3>2, <3>3, <3>4, <3>5, Zenon DEF InList, Repeats
  <2> QED
    BY <2>1, <2>2, <2>3, Zenon
\* An element that the parser rejects is a fault of the sender.
<1>ElementAtFault.
    ASSUME NEW t \in Codings \cup {",", ";param", "CR"}, SenderFields \subseteq DOMAIN sent,
           InList(p, sent), BadElement(p, t)
    PROVE  Codes(t).fault
  <2> USE <1>ElementAtFault
  <2> DEFINE r == Codes(t)
  <2>0. "," \notin Codings /\ ";param" \notin Codings /\ "CR" \notin Codings
    BY Zenon DEF Codings
  <2>c. Coded(r, t)
    BY <1>CodesOutcome, Zenon
  <2>1. CASE t \in Codings
    <3>1. p.transferState # "before" \/ (p.transferSawChunked /\ p.kind = "Request")
      BY <2>0, <2>1, Zenon DEF BadElement
    <3>2. sent.coding # "none" \/ ("chunked" \in sent.codings /\ p.kind = "Request")
      BY <3>1, Zenon DEF InList
    <3> QED
      BY <2>c, <2>1, <3>2, Zenon DEF Coded
  <2>2. CASE t \in {",", "CR"}
    <3>1. p.transferState = "before" \/ Repeats(p)
      BY <2>0, <2>2, Zenon DEF BadElement
    <3>2. sent.coding = "none" \/ sent.fault
      BY <3>1, Zenon DEF InList
    <3> QED
      BY <2>c, <2>2, <3>2, Zenon DEF Coded
  <2>3. CASE t = ";param"
    <3>1. \/ p.transferState = "before" \/ Repeats(p)
          \/ IF p.transferState = "token" THEN p.transferCurrentChunked ELSE p.transferChunked
      BY <2>0, <2>3, Zenon DEF BadElement
    <3> HIDE <2>3
    <3>2. sent.coding \in {"none", "chunked"} \/ sent.fault
      BY <3>1, Zenon DEF InList
    <3> QED
      BY <2>c, <2>3, <3>2, Zenon DEF Coded
  <2> QED
    BY <2>1, <2>2, <2>3, Zenon
<1>HeaderValueKeeps. ASSUME Http1Inv, TakeHeaderValue PROVE Http1Inv'
  <2> USE <1>HeaderValueKeeps
  <2>1. /\ Lives(p) /\ p.state = "HeaderValue" /\ result = "open" /\ Agree(p, sent)
        /\ SenderFields \subseteq DOMAIN sent
    BY Reads, Zenon DEF TakeHeaderValue
  <2>2. PICK t \in Tokens : Takes(HeaderValue(p, t), t)
    BY Zenon DEF TakeHeaderValue
  <2>3. IF p.trailers THEN InTrailers(p, sent) ELSE InHead(p, sent)
    BY <2>1, Zenon DEF Agree, LineStates, HeaderStates, ChunkStates
  <2>4. sent.version # "2.0" /\ p.kind \in Kinds
    BY <2>1, <2>3, Zenon DEF InTrailers, InHead, Lives, Sane, Within
  <2>5. /\ p.trailers => sent.name = "other" /\ p.field = "other"
        /\ ~p.trailers => InValue(p, sent)
    BY <2>1, <2>3, Zenon DEF InTrailers, InHead
  <2>6. p.field = "transfer-encoding" <=> sent.name = "transfer-encoding"
    BY <2>5, Zenon DEF InValue
  <2>7. t # "bad" =>
          IF sent.name = "transfer-encoding" THEN t \in Codings \cup {",", ";param", "CR"}
          ELSE /\ t \in DOMAIN Length \cup Options \cup {"text"}
               /\ sent.name = "content-length" => t \in DOMAIN Length
    <3>1. t # "bad" => t \in CASE sent.name = "content-length"    -> DOMAIN Length
                              [] sent.name = "transfer-encoding" -> Codings \cup {",", ";param", "CR"}
                              [] sent.name = "connection"        -> Options
                              [] OTHER                           -> {"text"}
      <4>1. /\ p.state # "Start" /\ p.state # "ReqTarget" /\ p.state # "ResStatus" /\ p.state # "ResReason"
            /\ p.state # "HeaderStart" /\ p.state # "ChunkSize" /\ p.state # "ChunkExt"
            /\ p.state \notin {"ReqLineCR", "ChunkBodyCR"}
            /\ p.state \notin {"LeadingLF", "LineLF", "HeaderValueLF", "HeadersLF", "ChunkSizeLF", "ChunkBodyLF"}
        BY <2>1, Zenon
      <4> QED
        BY <2>1, <4>1, Zenon DEF Tokens, Grammar
    <3> QED
      BY <3>1, Zenon
  <2>8. CASE p.field # "transfer-encoding" /\ t # "bad" /\ Lives(p') /\ p'.state = "HeaderValueLF" /\ Valued(p, p', t)
    <3> DEFINE r == Sends(t)
    <3>1. r = [sent EXCEPT !.fields = IF sent.body = "head" /\ sent.name # "other"
                                      THEN sent.fields \cup {<<sent.name, t>>} ELSE sent.fields]
      BY <2>1, <2>4, <2>6, <2>7, <2>8, <1>SendsValue, Zenon
    <3> HIDE DEF r
    <3>2. /\ SameHead(sent, r) /\ r.coding = sent.coding /\ r.codings = sent.codings /\ r.fault = sent.fault
          /\ sent.body = "head" /\ sent.name # "other" => r.fields = sent.fields \cup {<<sent.name, t>>}
      BY <2>1, <3>1, Zenon DEF SameHead, SenderFields
    <3>3. p'.trailers = p.trailers /\ p'.parsing = p.parsing /\ p'.contextual = p.contextual /\ p'.kind = p.kind
      BY <2>8, Zenon DEF Valued, SameMessage
    <3>4. CASE p.trailers
      <4>1. InTrailers(p', r)
        BY <2>3, <2>8, <3>2, <3>4 DEF InTrailers, InMessage, InContext, Valued, SameMessage, SameHead
      <4>2. Agree(p', r)
        BY <2>1, <2>8, <3>3, <3>4, <4>1, Zenon DEF Agree, HeaderStates
      <4> QED
        BY <2>1, <2>2, <2>8, <3>2, <4>2, Accepts, Zenon DEF Takes, SameHead, r
    <3>5. CASE ~p.trailers
      <4>1. sent.body = "head" /\ sent.name # "other" /\ InHead(p, sent)
        BY <2>3, <2>5, <3>5, Zenon DEF InHead, InValue
      <4>2. InHead(p', r)
        <5>1. sent.name # "transfer-encoding" /\ (sent.name = "content-length" => t \in DOMAIN Length)
          BY <2>6, <2>7, <2>8, Zenon
        <5>2. r.fields = sent.fields \cup {<<sent.name, t>>}
          BY <3>2, <4>1, Zenon
        <5> QED
          BY <2>1, <2>8, <3>2, <4>1, <5>1, <5>2, <1>ValueRead, Zenon
      <4>3. Agree(p', r)
        BY <2>1, <2>8, <3>3, <3>5, <4>2, Zenon DEF Agree, HeaderStates
      <4> QED
        BY <2>1, <2>2, <2>8, <3>2, <4>3, Accepts, Zenon DEF Takes, SameHead, r
    <3> QED
      BY <3>4, <3>5, Zenon
  <2>9. ASSUME p.field = "transfer-encoding", t # "bad"
        PROVE  /\ t \in Codings \cup {",", ";param", "CR"} /\ Sends(t) = Codes(t)
               /\ ~p.trailers /\ InHead(p, sent) /\ InList(p, sent) /\ sent.name = "transfer-encoding"
    <3>1. sent.name = "transfer-encoding" /\ t \in Codings \cup {",", ";param", "CR"}
      BY <2>6, <2>7, <2>9, Zenon
    <3>2. ~p.trailers
      BY <2>5, <2>9, Zenon
    <3> QED
      BY <2>1, <2>3, <2>4, <2>5, <3>1, <3>2, <1>SendsCode, Zenon DEF InValue
  <2>10. CASE /\ p.field = "transfer-encoding" /\ t = "CR" /\ ~BadElement(p, t)
              /\ Lives(p') /\ p'.state = "HeaderValueLF" /\ Commits(p, p')
    <3>1. t # "bad" /\ t \in Codings \cup {",", ";param", "CR"}
      BY <2>10, Zenon
    <3>2. PICK r : r = Codes(t)
      BY Zenon
    <3>3. /\ SameHead(sent, r) /\ r.fields = sent.fields \cup {<<"transfer-encoding", sent.coding>>}
          /\ r.coding = "none" /\ r.codings = {} /\ (r.fault <=> sent.fault \/ sent.coding = "none")
      <4>1. Coded(r, t)
        BY <2>1, <3>1, <3>2, <1>CodesOutcome, Zenon
      <4> QED
        BY <2>10, <4>1, Zenon DEF Coded
    <3>4. p.transferState # "before" /\ ~Repeats(p)
      BY <2>10, Zenon DEF BadElement
    <3>5. InHead(p', r)
      BY <2>1, <2>9, <2>10, <3>1, <3>3, <3>4, <1>ListRead, Zenon
    <3>6. p'.trailers = p.trailers /\ p'.parsing = p.parsing /\ p'.contextual = p.contextual
      BY <2>10, Zenon DEF Commits, SameMessage
    <3>7. Agree(p', r)
      BY <2>1, <2>9, <2>10, <3>1, <3>5, <3>6, Zenon DEF Agree, HeaderStates
    <3> QED
      BY <2>1, <2>2, <2>9, <2>10, <3>1, <3>2, <3>3, <3>7, Accepts, Zenon DEF Takes, SameHead
  <2>11. CASE /\ p.field = "transfer-encoding" /\ t \notin {"CR", "bad"} /\ ~BadElement(p, t)
              /\ Lives(p') /\ Listed(p, p', t)
    <3>1. t # "bad" /\ t \in Codings \cup {",", ";param"}
      BY <2>9, <2>11, Zenon
    <3>2. PICK r : r = Codes(t)
      BY Zenon
    <3>3. SameHead(sent, r) /\ r.fields = sent.fields
      <4>1. Coded(r, t) /\ (t \in Codings \/ t = "," \/ t = ";param")
        BY <2>1, <3>1, <3>2, <1>CodesOutcome, Zenon
      <4> QED
        BY <4>1, Zenon DEF Coded
    <3>4. InList(p', r)
      BY <2>1, <2>4, <2>9, <2>11, <3>1, <3>2, <1>ElementListed, Zenon
    <3>5. /\ p'.state = "HeaderValue" /\ SameMessage(p, p') /\ p'.field = p.field
          /\ p'.hasContentLength = p.hasContentLength /\ p'.hasTransferEncoding = p.hasTransferEncoding
          /\ p'.hasHost = p.hasHost /\ p'.hasUpgrade = p.hasUpgrade /\ p'.connection = p.connection
          /\ p'.remaining = p.remaining
      BY <2>1, <2>11, Zenon DEF Listed, Commits, SameFields
    <3>6. InHead(p', r)
      BY <2>1, <2>9, <2>11, <3>1, <3>3, <3>4, <3>5, <1>ElementRead, Zenon
    <3>7. p'.trailers = p.trailers /\ p'.parsing = p.parsing /\ p'.contextual = p.contextual
      BY <3>5, Zenon DEF SameMessage
    <3>8. Agree(p', r)
      BY <2>1, <2>9, <2>11, <3>1, <3>5, <3>6, <3>7, Zenon DEF Agree, HeaderStates
    <3> QED
      BY <2>1, <2>2, <2>9, <2>11, <3>1, <3>2, <3>3, <3>8, Accepts, Zenon DEF Takes, SameHead
  <2>12. CASE \/ Excusable(p')
              \/ Blaming(p') /\ t = "bad"
              \/ p.field = "transfer-encoding" /\ Blaming(p') /\ BadElement(p, t)
    <3>1. t = "bad" => Sends(t).fault
      BY <2>1, SendsBad, Zenon
    <3>2. t # "bad" /\ p.field = "transfer-encoding" /\ BadElement(p, t) => Sends(t).fault
      BY <2>1, <2>9, <1>ElementAtFault, Zenon
    <3> QED
      BY <2>1, <2>2, <2>12, <3>1, <3>2, Rejects, Zenon DEF Takes
  <2> QED
    BY <2>1, <2>2, <2>8, <2>10, <2>11, <2>12, <1>HeaderValueOutcome, Zenon DEF Takes
<1> QED
  BY <1>HeaderValueKeeps, Zenon

\* A message that both ends take for complete leaves them at rest.
LEMMA BothAtRest ==
  ASSUME NEW x, Completed(p, x), NEW s, s.body = "done", ~s.fault, s.answered \in Nat,
         s.line = p.line, p.kind = "Response" => p.exchangeNum = s.answered
  PROVE  SenderFields \subseteq DOMAIN Over(s) /\ AtRest(x, Over(s)) /\ x.state = "Start"
<1> DEFINE n == s.answered + IF p.kind = "Response" /\ s.line # "100" THEN 1 ELSE 0
<1>1. Over(s) = Idle(n)
  BY Zenon DEF Over
<1>2. n \in Nat /\ (p.kind = "Response" => x.exchangeNum = n)
  BY DEF Completed
<1> HIDE DEF n
<1>3. SenderFields \subseteq DOMAIN Idle(n) /\ Idle(n).answered = n
  BY Zenon DEF Idle, SenderFields
<1>4. /\ ~x.messageActive /\ ~x.trailers /\ x.state = "Start" /\ x.kind = p.kind
      /\ x.parsing = "ParseOne" => x.paused
  BY Zenon DEF Completed
<1> QED
  BY <1>1, <1>2, <1>3, <1>4, Zenon DEF AtRest

\* The record of a message whose body is b.
Delimits(r, b) ==
    /\ SenderFields \subseteq DOMAIN r
    /\ r.answered = sent.answered /\ r.line = sent.line /\ r.version = sent.version
    /\ r.body = b /\ (r.fault <=> ~Wellformed)

\* TakeHeadersLF keeps the invariant: the parser frames the body as the sender does.
LEMMA HeadersLFKeeps == Http1Inv /\ TakeHeadersLF => Http1Inv'
\* headersComplete rejects a head whose fields contradict each other or are missing.
<1>JudgedOutcome.
    ASSUME NEW q, Lives(q)
    PROVE  \/ Judged(q) = q /\ ~Illformed(q)
           \/ Blaming(Judged(q)) /\ Illformed(q)
  <2> USE <1>JudgedOutcome
  <2>1. /\ Blaming(fail(q, "MissingHost")) /\ Blaming(fail(q, "InvalidTransferEncoding"))
        /\ Blaming(fail(q, "InvalidHeaderValue")) /\ Blaming(fail(q, "ContentLengthConflict"))
    BY FailBlames, Zenon
  <2> QED
    BY <2>1, Zenon DEF Judged, Illformed
\* headersComplete chooses how the message ends from what the head said.
<1>FramedOutcome.
    ASSUME NEW q, Lives(q), q.bodyBytes = 0, q.hasContentLength => q.remaining \in Nat, NEW x \in Framed(q)
    PROVE  \/ Goes(q) = "Upgrade" /\ Lives(x) /\ x.state = "Upgrade" /\ x.kind = q.kind /\ ~x.trailers /\ x.parsing = q.parsing /\ x.contextual = q.contextual
           \/ Goes(q) = "Start" /\ Lives(x) /\ Completed(q, x)
           \/ Goes(q) \in {"ChunkSize", "CloseBody", "FixedBody"} /\ Lives(x) /\ x = [q EXCEPT !.state = Goes(q)]
           \/ Excusable(x)
  <2> USE <1>FramedOutcome
  <2>1. CASE noResponseBody(q)
    <3>1. PICK r \in completeMessage(q) :
               x \in (IF r.code = "none" THEN (IF Upgrades(q) THEN Shift(r, "Upgrade") ELSE {r}) ELSE {r})
      BY <2>1, Zenon DEF Framed, AndThen, Upgrades
    <3>2. (Completed(q, r) /\ Lives(r)) \/ Excusable(r)
      BY <3>1, CompleteMessage, Zenon
    <3>3. CASE Excusable(r)
      BY <3>1, <3>3, ExcusedFails, Zenon DEF Excusable
    <3>4. CASE Completed(q, r) /\ Lives(r) /\ ~Upgrades(q)
      BY <2>1, <3>1, <3>4, Zenon DEF Goes, Lives
    <3>5. CASE Completed(q, r) /\ Lives(r) /\ Upgrades(q)
      <4>1. x = [r EXCEPT !.state = "Upgrade"]
        BY <3>1, <3>5, ShiftLive, Zenon DEF Lives
      <4>2. Lives(x)
        BY <3>5, <4>1, StateSane, Zenon
      <4>3. x.state = "Upgrade" /\ x.kind = q.kind /\ ~x.trailers /\ x.parsing = q.parsing /\ x.contextual = q.contextual
        BY <3>5, <4>1, Zenon DEF Lives, Sane, Within, Fields, Completed
      <4> QED
        BY <2>1, <3>5, <4>2, <4>3, Zenon DEF Goes
    <3> QED
      BY <3>2, <3>3, <3>4, <3>5, Zenon
  <2>2. CASE ~noResponseBody(q) /\ q.hasTransferEncoding
    <3>1. x \in Shift(q, IF q.transferChunked THEN "ChunkSize" ELSE "CloseBody")
      BY <2>2, Zenon DEF Framed
    <3>2. x = [q EXCEPT !.state = IF q.transferChunked THEN "ChunkSize" ELSE "CloseBody"]
      BY <3>1, ShiftLive, Zenon DEF Lives
    <3>3. Goes(q) = IF q.transferChunked THEN "ChunkSize" ELSE "CloseBody"
      BY <2>2, Zenon DEF Goes
    <3> QED
      BY <3>2, <3>3, StateSane, Zenon
  <2>3. CASE ~noResponseBody(q) /\ ~q.hasTransferEncoding /\ q.hasContentLength
    <3>1. CASE q.remaining > MaxBodyBytes
      <4>1. "BodyTooLarge" \in Excused
        BY Zenon DEF Excused, LimitCodes
      <4> QED
        BY <2>3, <3>1, <4>1, FailExcused, Zenon DEF Framed
    <3>2. CASE ~(q.remaining > MaxBodyBytes) /\ q.remaining = 0
      BY <2>3, <3>2, CompleteMessage, Zenon DEF Framed, Goes
    <3>3. CASE ~(q.remaining > MaxBodyBytes) /\ q.remaining # 0
      <4>1. x \in Shift(q, "FixedBody")
        BY <2>3, <3>3, Zenon DEF Framed
      <4>2. x = [q EXCEPT !.state = "FixedBody"]
        BY <4>1, ShiftLive, Zenon DEF Lives
      <4>3. Goes(q) = "FixedBody"
        BY <2>3, <3>3, Zenon DEF Goes
      <4>4. q.remaining \in 1..(MaxBodyBytes - q.bodyBytes)
        BY <2>3, <3>3, Limits
      <4>5. Lives(x)
        BY <4>2, <4>4 DEF Lives, Sane, Within, Fields
      <4> QED
        BY <4>2, <4>3, <4>5, Zenon
    <3> QED
      BY <3>1, <3>2, <3>3, Zenon
  <2>4. CASE ~noResponseBody(q) /\ ~q.hasTransferEncoding /\ ~q.hasContentLength /\ q.kind = "Request"
    BY <2>4, CompleteMessage, Zenon DEF Framed, Goes
  <2>5. CASE ~noResponseBody(q) /\ ~q.hasTransferEncoding /\ ~q.hasContentLength /\ q.kind # "Request"
    <3>1. x \in Shift(q, "CloseBody")
      BY <2>5, Zenon DEF Framed
    <3>2. x = [q EXCEPT !.state = "CloseBody"]
      BY <3>1, ShiftLive, Zenon DEF Lives
    <3>3. Goes(q) = "CloseBody"
      BY <2>5, Zenon DEF Goes
    <3> QED
      BY <3>2, <3>3, StateSane, Zenon
  <2> QED
    BY <2>1, <2>2, <2>3, <2>4, <2>5, Zenon
\* The end of a section completes the message after trailers, and frames its body before
\* them.
<1>HeadersLFOutcome.
    ASSUME NEW q, Lives(q), NEW t, NEW x \in HeadersLF(q, t),
           ~q.trailers => q.bodyBytes = 0 /\ (q.hasContentLength => q.remaining \in Nat)
    PROVE  \/ t = "LF" /\ q.trailers /\ Lives(x) /\ Completed(q, x)
           \/ /\ t = "LF" /\ ~q.trailers /\ ~Illformed(q) /\ Lives(x)
              /\ \/ /\ Goes(q) = "Upgrade" /\ x.state = "Upgrade" /\ x.kind = q.kind /\ ~x.trailers
                    /\ x.parsing = q.parsing /\ x.contextual = q.contextual
                 \/ Goes(q) = "Start" /\ Completed(q, x)
                 \/ /\ Goes(q) \in {"ChunkSize", "CloseBody", "FixedBody"}
                    /\ x = [[q EXCEPT !.headerBytes = q.headerBytes + 1] EXCEPT !.state = Goes(q)]
           \/ Excusable(x)
           \/ Blaming(x) /\ t # "LF"
           \/ Blaming(x) /\ t = "LF" /\ ~q.trailers /\ Illformed(q)
  <2> USE <1>HeadersLFOutcome
  <2>1. CASE t # "LF"
    BY <2>1, FailBlames, Zenon DEF HeadersLF
  <2>2. CASE t = "LF"
    <3> DEFINE u == takeHeaderByte(q)
               T == UNION {IF s.code = "none" THEN completeMessage(s) ELSE {s} : s \in Callback(u)}
    <3>1. x \in (IF u.code = "none" THEN (IF u.trailers THEN T ELSE headersComplete(u)) ELSE {u})
      BY <2>2, Zenon DEF HeadersLF, AndThen
    <3>2. CASE Excusable(u)
      BY <3>1, <3>2, ExcusedFails, Zenon DEF Excusable
    <3>3. CASE u = [q EXCEPT !.headerBytes = q.headerBytes + 1] /\ Lives(u)
      <4>0. x \in (IF u.trailers THEN T ELSE headersComplete(u))
        BY <3>1, <3>3, Zenon DEF Lives
      <4>1. SameMessage(q, u) /\ SameFields(q, u)
        BY <3>3 DEF Lives, Sane, Within, Fields, SameMessage, SameFields
      <4>2. Completed(u, x) => Completed(q, x)
        BY <4>1, Zenon DEF Completed, SameMessage
      <4>3. Illformed(u) <=> Illformed(q)
        BY <4>1, Zenon DEF Illformed, forbidsFraming, SameMessage, SameFields
      <4>4. Goes(u) = Goes(q)
        BY <4>1, Zenon DEF Goes, Upgrades, noResponseBody, SameMessage, SameFields
      <4>5. CASE q.trailers
        <5>1. PICK s \in Callback(u) : x \in (IF s.code = "none" THEN completeMessage(s) ELSE {s})
          BY <4>0, <4>1, <4>5, Zenon DEF SameMessage
        <5>2. s = u \/ Excusable(s)
          BY <3>3, <5>1, CallbackKeeps, Zenon
        <5> QED
          BY <2>2, <3>3, <4>2, <4>5, <5>1, <5>2, CompleteMessage, ExcusedFails, Zenon DEF Lives, Excusable
      <4>6. CASE ~q.trailers
        <5> DEFINE j == Judged(u)
        <5>1. x \in AndThen({j}, LAMBDA r : AndThen(Callback(r), LAMBDA s : Framed(s)))
          BY <4>0, <4>1, <4>6, Zenon DEF SameMessage, headersComplete
        <5>2. x \in (IF j.code = "none" THEN UNION {IF s.code = "none" THEN Framed(s) ELSE {s} : s \in Callback(j)} ELSE {j})
          BY <5>1, Zenon DEF AndThen
        <5>3. CASE Blaming(j) /\ Illformed(u)
          BY <2>2, <4>3, <4>6, <5>2, <5>3, Zenon DEF Blaming
        <5>4. CASE j = u /\ ~Illformed(u)
          <6>1. PICK s \in Callback(u) : x \in (IF s.code = "none" THEN Framed(s) ELSE {s})
            BY <3>3, <5>2, <5>4, Zenon DEF Lives
          <6>2. CASE Excusable(s)
            BY <6>1, <6>2, ExcusedFails, Zenon DEF Excusable
          <6>3. CASE s = u
            <7>1. x \in Framed(u)
              BY <3>3, <6>1, <6>3, Zenon DEF Lives
            <7>2. u.bodyBytes = 0 /\ (u.hasContentLength => u.remaining \in Nat)
              BY <4>1, <4>6, Zenon DEF SameMessage, SameFields
            <7>3. \/ Goes(u) = "Upgrade" /\ Lives(x) /\ x.state = "Upgrade" /\ x.kind = u.kind /\ ~x.trailers /\ x.parsing = u.parsing /\ x.contextual = u.contextual
                  \/ Goes(u) = "Start" /\ Lives(x) /\ Completed(u, x)
                  \/ Goes(u) \in {"ChunkSize", "CloseBody", "FixedBody"} /\ Lives(x) /\ x = [u EXCEPT !.state = Goes(u)]
                  \/ Excusable(x)
              BY <3>3, <7>1, <7>2, <1>FramedOutcome, Zenon
            <7>4. u.kind = q.kind /\ u.parsing = q.parsing /\ u.contextual = q.contextual
              BY <4>1, Zenon DEF SameMessage
            <7> QED
              BY <2>2, <3>3, <4>2, <4>3, <4>4, <4>6, <5>4, <7>3, <7>4, Zenon
          <6> QED
            BY <3>3, <6>1, <6>2, <6>3, CallbackKeeps, Zenon
        <5> QED
          BY <3>3, <5>3, <5>4, <1>JudgedOutcome, Zenon
      <4> QED
        BY <4>5, <4>6, Zenon
    <3> QED
      BY <3>2, <3>3, HeaderByte, Zenon
  <2> QED
    BY <2>1, <2>2, Zenon
\* The end of the header section, of a message or of its trailers.
<1>SendsEnd.
    ASSUME p.state = "HeadersLF", sent.version # "2.0"
    PROVE  Sends("LF") = Over(IF sent.body = "head" THEN Delimited ELSE [sent EXCEPT !.body = "done"])
  <2> USE <1>SendsEnd
  <2>1. /\ "LF" \notin Methods \cup Statuses /\ "LF" \notin Versions /\ "LF" \notin DOMAIN Digit
    BY Zenon DEF Methods, Statuses, Versions, Digit
  <2>2. p.state # "HeaderStart" /\ p.state # "HeaderValue"
    BY Zenon
  <2> QED
    BY <2>1, <2>2, Zenon DEF Sends
\* The parser and the sender know the same fields at the end of the header section.
<1>KnowsAll.
    ASSUME p.state = "HeadersLF", InHead(p, sent)
    PROVE  /\ p.hasContentLength <=> Sent("content-length")
           /\ p.hasTransferEncoding <=> Sent("transfer-encoding")
           /\ p.kind = "Request" => (p.hasHost <=> Sent("host"))
           /\ p.hasUpgrade <=> Sent("upgrade")
           /\ "upgrade" \in p.connection <=> Field("connection", "upgrade")
           /\ Field("transfer-encoding", "chunked") <=> p.hasTransferEncoding /\ p.transferChunked
           /\ Field("transfer-encoding", "gzip") <=> p.hasTransferEncoding /\ ~p.transferChunked
           /\ p.hasContentLength => p.remaining \in Nat /\ Announced = p.remaining
  <2> USE <1>KnowsAll
  <2>1. Knows(p, sent)
    BY Zenon DEF InHead
  <2>2. \A n : Sent(n) <=> \E v : Field(n, v)
    <3>1. \A f \in sent.fields : f = <<f[1], f[2]>>
      BY <2>1, Zenon DEF Knows
    <3>2. ASSUME NEW n, Sent(n) PROVE \E v : Field(n, v)
      <4>1. PICK f \in sent.fields : f[1] = n
        BY <3>2, Zenon DEF Sent
      <4>2. <<n, f[2]>> \in sent.fields
        BY <3>1, <4>1, Zenon
      <4> QED
        BY <4>2, Zenon DEF Field
    <3>3. ASSUME NEW n, NEW v, Field(n, v) PROVE Sent(n)
      <4>1. <<n, v>>[1] = n
        BY Zenon
      <4> QED
        BY <3>3, <4>1, Zenon DEF Sent, Field
    <3> QED
      BY <3>2, <3>3, Zenon
  <2>3. \A n : Seen(p, sent, n) <=> Sent(n)
    BY Zenon DEF Seen, Has, Sent
  <2>4. /\ p.hasContentLength <=> Sent("content-length")
        /\ p.hasTransferEncoding <=> Sent("transfer-encoding")
        /\ p.kind = "Request" => (p.hasHost <=> Sent("host"))
    BY <2>1, <2>3, Zenon DEF Knows
  <2>5. /\ p.hasUpgrade <=> Sent("upgrade")
        /\ "upgrade" \in p.connection <=> Field("connection", "upgrade")
    BY <2>1, Zenon DEF Knows, Has, Sent, Field
  <2>6. \A v : Field("transfer-encoding", v) => v = IF p.transferChunked THEN "chunked" ELSE "gzip"
    BY <2>1, Zenon DEF Knows, Field
  <2>7. /\ Field("transfer-encoding", "chunked") <=> p.hasTransferEncoding /\ p.transferChunked
        /\ Field("transfer-encoding", "gzip") <=> p.hasTransferEncoding /\ ~p.transferChunked
    <3>1. Field("transfer-encoding", "chunked") => p.hasTransferEncoding /\ p.transferChunked
      BY <2>2, <2>4, <2>6, Zenon
    <3>2. Field("transfer-encoding", "gzip") => p.hasTransferEncoding /\ ~p.transferChunked
      BY <2>2, <2>4, <2>6, Zenon
    <3>3. p.hasTransferEncoding => Field("transfer-encoding", IF p.transferChunked THEN "chunked" ELSE "gzip")
      BY <2>2, <2>4, <2>6, Zenon
    <3> QED
      BY <3>1, <3>2, <3>3, Zenon
  <2>8. p.hasContentLength => p.remaining \in Nat /\ Announced = p.remaining
    <3> SUFFICES ASSUME p.hasContentLength PROVE p.remaining \in Nat /\ Announced = p.remaining
      BY Zenon
    <3>1. \A v : Field("content-length", v) => v \in DOMAIN Length /\ p.remaining = Length[v]
      BY <2>1, Zenon DEF Knows, Field
    <3>2. \E v \in DOMAIN Length : Field("content-length", v)
      BY <2>2, <2>4, <3>1, Zenon
    <3> DEFINE c == CHOOSE v \in DOMAIN Length : Field("content-length", v)
    <3>3. c \in DOMAIN Length /\ Field("content-length", c)
      BY <3>2, Zenon
    <3>4. Announced = Length[c]
      BY Zenon DEF Announced
    <3> HIDE DEF c
    <3>5. Length[c] \in Nat
      BY <3>3 DEF Length
    <3> QED
      BY <3>1, <3>3, <3>4, <3>5, Zenon
  <2> QED
    BY <2>4, <2>5, <2>7, <2>8, Zenon
\* headersComplete rejects exactly the header sections that break a rule.
<1>JudgesRight.
    ASSUME p.state = "HeadersLF", InHead(p, sent), p.kind \in Kinds
    PROVE  Illformed(p) <=> ~Wellformed
  <2> USE <1>JudgesRight
  <2>1. p.version = sent.version /\ sent.version \in {"1.0", "1.1"} /\ p.line = sent.line
    BY Zenon DEF InHead, InMessage
  <2>2. p.kind = "Response" => (p.connect <=> Context(sent.answered).connect)
    BY Zenon DEF InHead, InMessage, InContext
  <2>3. p.kind = "Response" => (forbidsFraming(p) <=> Tunnels \/ sent.line \in {"100", "204"})
    BY <2>1, <2>2, Zenon DEF forbidsFraming, Tunnels
  <2>4. CASE p.kind = "Request"
    <3>1. Wellformed <=> /\ sent.version = "1.0" => ~p.hasTransferEncoding
                         /\ sent.version = "1.1" => p.hasHost
                         /\ ~(p.hasTransferEncoding /\ ~p.transferChunked)
      BY <2>4, <1>KnowsAll, Zenon DEF Wellformed
    <3>2. Illformed(p) <=> \/ sent.version = "1.1" /\ ~p.hasHost
                           \/ p.hasTransferEncoding /\ sent.version # "1.1"
                           \/ p.hasTransferEncoding /\ ~p.transferChunked
      BY <2>1, <2>4, Zenon DEF Illformed
    <3> QED
      BY <2>1, <3>1, <3>2, Zenon
  <2>5. CASE p.kind = "Response"
    <3>1. Wellformed <=> /\ sent.version = "1.0" => ~p.hasTransferEncoding
                         /\ sent.line = "101" => "upgrade" \in p.connection /\ p.hasUpgrade
                         /\ (Tunnels \/ sent.line \in {"100", "204"}) => ~p.hasContentLength /\ ~p.hasTransferEncoding
      BY <2>5, <1>KnowsAll, Zenon DEF Wellformed
    <3>2. Illformed(p) <=> \/ p.hasTransferEncoding /\ sent.version # "1.1"
                           \/ sent.line = "101" /\ ~("upgrade" \in p.connection /\ p.hasUpgrade)
                           \/ forbidsFraming(p) /\ (p.hasContentLength \/ p.hasTransferEncoding)
      BY <2>1, <2>5, Zenon DEF Illformed
    <3> QED
      BY <2>1, <2>3, <2>5, <3>1, <3>2, Zenon
  <2> QED
    BY <2>4, <2>5, Zenon DEF Kinds
\* Both ends agree on how the body is delimited.
<1>BodyAgreed.
    ASSUME p.state = "HeadersLF", InHead(p, sent), p.kind \in Kinds, SenderFields \subseteq DOMAIN sent
    PROVE  CASE Goes(p) = "Upgrade"   -> Delimits(Delimited, "tunnel")
             [] Goes(p) = "Start"     -> Delimits(Delimited, "done")
             [] Goes(p) = "ChunkSize" -> Delimits(Delimited, "chunked") /\ Delimited.left = 0
             [] Goes(p) = "CloseBody" -> Delimits(Delimited, "close")
             [] Goes(p) = "FixedBody" -> Delimits(Delimited, "fixed") /\ Delimited.left = p.remaining
  <2> USE <1>BodyAgreed
  <2> DEFINE body(b, n) == [sent EXCEPT !.body = b, !.left = n, !.fault = sent.fault \/ ~Wellformed]
  <2>1. p.line = sent.line /\ ~sent.fault
    BY Zenon DEF InHead, InMessage
  <2>2. p.kind = "Response" => p.connect = Context(sent.answered).connect /\ p.head = Context(sent.answered).head
    BY Zenon DEF InHead, InMessage, InContext
  <2>3. p.kind = "Response" => (Upgrades(p) <=> Tunnels)
    BY <2>1, <2>2, Zenon DEF Upgrades, Tunnels
  <2>4. noResponseBody(p) <=> p.kind = "Response" /\ Bodiless
    BY <2>1, <2>2, Zenon DEF noResponseBody, Bodiless, Tunnels
  <2>5. Tunnels => Bodiless
    BY Zenon DEF Bodiless
  <2>6. ASSUME NEW b, NEW n PROVE Delimits(body(b, n), b) /\ body(b, n).left = n
    <3>1. PICK v : v = (sent.fault \/ ~Wellformed)
      BY Zenon
    <3>2. body(b, n) = [sent EXCEPT !.body = b, !.left = n, !.fault = v]
      BY <3>1, Zenon
    <3> HIDE DEF body
    <3>3. /\ SenderFields \subseteq DOMAIN body(b, n)
          /\ body(b, n).answered = sent.answered /\ body(b, n).line = sent.line /\ body(b, n).version = sent.version
          /\ body(b, n).body = b /\ body(b, n).fault = v /\ body(b, n).left = n
      BY <3>2, Zenon DEF SenderFields
    <3> QED
      BY <2>1, <3>1, <3>3, Zenon DEF Delimits
  <2>7. Delimited = CASE p.kind = "Response" /\ Tunnels                -> body("tunnel", 0)
                      [] p.kind = "Response" /\ Bodiless /\ ~Tunnels   -> body("done", 0)
                      [] OTHER ->
                           IF Field("transfer-encoding", "chunked") THEN body("chunked", 0)
                           ELSE IF Sent("transfer-encoding") THEN body("close", 0)
                           ELSE IF Sent("content-length")
                           THEN body(IF Announced = 0 THEN "done" ELSE "fixed", Announced)
                           ELSE body(IF p.kind = "Request" THEN "done" ELSE "close", 0)
    BY Zenon DEF Delimited
  <2> HIDE DEF body
  <2>8. CASE p.kind = "Response" /\ Tunnels
    <3>1. Delimited = body("tunnel", 0) /\ Goes(p) = "Upgrade"
      BY <2>3, <2>4, <2>5, <2>7, <2>8, Zenon DEF Goes
    <3> QED
      BY <2>6, <3>1, Zenon
  <2>9. CASE p.kind = "Response" /\ Bodiless /\ ~Tunnels
    <3>1. Delimited = body("done", 0) /\ Goes(p) = "Start"
      BY <2>3, <2>4, <2>7, <2>9, Zenon DEF Goes
    <3> QED
      BY <2>6, <3>1, Zenon
  <2>10. CASE ~noResponseBody(p)
    <3>1. Delimited = IF p.hasTransferEncoding /\ p.transferChunked THEN body("chunked", 0)
                      ELSE IF p.hasTransferEncoding THEN body("close", 0)
                      ELSE IF p.hasContentLength
                      THEN body(IF p.remaining = 0 THEN "done" ELSE "fixed", p.remaining)
                      ELSE body(IF p.kind = "Request" THEN "done" ELSE "close", 0)
      <4>1. Delimited = IF Field("transfer-encoding", "chunked") THEN body("chunked", 0)
                        ELSE IF Sent("transfer-encoding") THEN body("close", 0)
                        ELSE IF Sent("content-length")
                        THEN body(IF Announced = 0 THEN "done" ELSE "fixed", Announced)
                        ELSE body(IF p.kind = "Request" THEN "done" ELSE "close", 0)
        BY <2>4, <2>5, <2>7, <2>10, Zenon
      <4> QED
        BY <4>1, <1>KnowsAll, Zenon
    <3>2. Goes(p) = IF p.hasTransferEncoding THEN IF p.transferChunked THEN "ChunkSize" ELSE "CloseBody"
                    ELSE IF p.hasContentLength THEN IF p.remaining = 0 THEN "Start" ELSE "FixedBody"
                    ELSE IF p.kind = "Request" THEN "Start" ELSE "CloseBody"
      BY <2>10, Zenon DEF Goes
    <3>3. CASE p.hasTransferEncoding /\ p.transferChunked
      BY <2>6, <3>1, <3>2, <3>3, Zenon
    <3>4. CASE p.hasTransferEncoding /\ ~p.transferChunked
      BY <2>6, <3>1, <3>2, <3>4, Zenon
    <3>5. CASE ~p.hasTransferEncoding /\ p.hasContentLength
      BY <2>6, <3>1, <3>2, <3>5, Zenon
    <3>6. CASE ~p.hasTransferEncoding /\ ~p.hasContentLength
      BY <2>6, <3>1, <3>2, <3>6, Zenon
    <3> QED
      BY <3>3, <3>4, <3>5, <3>6, Zenon
  <2> QED
    BY <2>4, <2>8, <2>9, <2>10, Zenon
<1>HeadersLFKeeps. ASSUME Http1Inv, TakeHeadersLF PROVE Http1Inv'
  <2> USE <1>HeadersLFKeeps
  <2>1. /\ Lives(p) /\ p.state = "HeadersLF" /\ result = "open" /\ Agree(p, sent)
        /\ SenderFields \subseteq DOMAIN sent
    BY Reads, Zenon DEF TakeHeadersLF
  <2>2. PICK t \in Tokens : Takes(HeadersLF(p, t), t)
    BY Zenon DEF TakeHeadersLF
  <2>3. t \in {"LF", "bad"}
    BY <2>1, Zenon DEF Tokens, Grammar
  <2>4. IF p.trailers THEN InTrailers(p, sent) ELSE InHead(p, sent)
    BY <2>1, Zenon DEF Agree, LineStates, HeaderStates, ChunkStates
  <2>5. sent.version # "2.0" /\ p.kind \in Kinds
    BY <2>1, <2>4, Zenon DEF InTrailers, InHead, Lives, Sane, Within
  <2>6. sent.answered \in Nat /\ sent.line = p.line /\ (p.kind = "Response" => p.exchangeNum = sent.answered)
    BY <2>4, Zenon DEF InTrailers, InHead, InMessage
  <2>7. ~p.trailers => sent.body = "head" /\ p.bodyBytes = 0 /\ p.chunkSize = 0 /\ InMessage(p, sent)
    BY <2>4, Zenon DEF InHead
  <2>8. ~p.trailers /\ p.hasContentLength => p.remaining \in Nat
    BY <2>1, <2>4, <1>KnowsAll, Zenon
  <2>9. CASE t = "LF" /\ p.trailers /\ Lives(p') /\ Completed(p, p')
    <3> DEFINE r == [sent EXCEPT !.body = "done"]
    <3>1. sent.body # "head" /\ ~sent.fault
      BY <2>4, <2>9, Zenon DEF InTrailers
    <3>2. Sends(t) = Over(r)
      BY <2>1, <2>5, <2>9, <3>1, <1>SendsEnd, Zenon
    <3>3. r.body = "done" /\ ~r.fault /\ r.answered = sent.answered /\ r.line = sent.line
      BY <2>1, <3>1, Zenon DEF SenderFields
    <3> HIDE DEF r
    <3>4. SenderFields \subseteq DOMAIN Over(r) /\ AtRest(p', Over(r)) /\ p'.state = "Start"
      BY <2>6, <2>9, <3>3, BothAtRest, Zenon
    <3>5. Agree(p', Over(r))
      BY <2>1, <2>9, <3>4, Zenon DEF Agree, Completed
    <3> QED
      BY <2>1, <2>2, <2>9, <3>2, <3>4, <3>5, Accepts, Zenon DEF Takes
  <2>10. ASSUME t = "LF", ~p.trailers
         PROVE  InHead(p, sent) /\ Sends(t) = Over(Delimited) /\ (Illformed(p) <=> ~Wellformed)
    <3>1. Sends(t) = Over(Delimited)
      BY <2>1, <2>5, <2>7, <2>10, <1>SendsEnd, Zenon
    <3> QED
      BY <2>1, <2>4, <2>5, <2>10, <3>1, <1>JudgesRight, Zenon
  <2>11. CASE /\ t = "LF" /\ ~p.trailers /\ ~Illformed(p) /\ Lives(p')
              /\ \/ /\ Goes(p) = "Upgrade" /\ p'.state = "Upgrade" /\ p'.kind = p.kind /\ ~p'.trailers
                    /\ p'.parsing = p.parsing /\ p'.contextual = p.contextual
                 \/ Goes(p) = "Start" /\ Completed(p, p')
                 \/ /\ Goes(p) \in {"ChunkSize", "CloseBody", "FixedBody"}
                    /\ p' = [[p EXCEPT !.headerBytes = p.headerBytes + 1] EXCEPT !.state = Goes(p)]
    <3>1. InHead(p, sent) /\ Sends(t) = Over(Delimited) /\ Wellformed
      BY <2>10, <2>11, Zenon
    <3>2. CASE /\ Goes(p) = "Upgrade" /\ p'.state = "Upgrade" /\ p'.kind = p.kind /\ ~p'.trailers
               /\ p'.parsing = p.parsing /\ p'.contextual = p.contextual
      <4>1. Delimits(Delimited, "tunnel")
        BY <2>1, <2>5, <3>1, <3>2, <1>BodyAgreed, Zenon
      <4>2. Over(Delimited) = Delimited /\ Delimited.body = "tunnel" /\ ~Delimited.fault
        BY <3>1, <4>1, Zenon DEF Over, Delimits
      <4>3. Agree(p', Delimited)
        BY <2>1, <3>2, <4>2, Zenon DEF Agree
      <4> QED
        BY <2>1, <2>2, <2>11, <3>1, <4>1, <4>2, <4>3, Accepts, Zenon DEF Takes, Delimits
    <3>3. CASE Goes(p) = "Start" /\ Completed(p, p')
      <4>1. Delimits(Delimited, "done")
        BY <2>1, <2>5, <3>1, <3>3, <1>BodyAgreed, Zenon
      <4>2. /\ SenderFields \subseteq DOMAIN Over(Delimited) /\ AtRest(p', Over(Delimited)) /\ p'.state = "Start"
        BY <2>6, <3>1, <3>3, <4>1, BothAtRest, Zenon DEF Delimits
      <4>3. Agree(p', Over(Delimited))
        BY <2>1, <3>3, <4>2, Zenon DEF Agree, Completed
      <4> QED
        BY <2>1, <2>2, <2>11, <3>1, <4>2, <4>3, Accepts, Zenon DEF Takes
    <3>4. CASE /\ Goes(p) \in {"ChunkSize", "CloseBody", "FixedBody"}
               /\ p' = [[p EXCEPT !.headerBytes = p.headerBytes + 1] EXCEPT !.state = Goes(p)]
      <4> DEFINE r == Delimited
      <4>1. /\ p'.state = Goes(p) /\ p'.parsing = p.parsing /\ p'.contextual = p.contextual /\ p'.trailers = p.trailers
            /\ SameMessage(p, p') /\ SameFields(p, p')
        BY <2>1, <3>4 DEF SameMessage, SameFields, Lives, Sane, Within, Fields
      <4>2. /\ Goes(p) = "ChunkSize" => Delimits(r, "chunked") /\ r.left = 0
            /\ Goes(p) = "CloseBody" => Delimits(r, "close")
            /\ Goes(p) = "FixedBody" => Delimits(r, "fixed") /\ r.left = p.remaining
        BY <2>1, <2>5, <3>1, <1>BodyAgreed, Zenon
      <4> HIDE DEF r
      <4>3. /\ SenderFields \subseteq DOMAIN r /\ r.answered = sent.answered /\ r.line = sent.line
            /\ r.version = sent.version /\ ~r.fault /\ r.body \in {"chunked", "close", "fixed"}
        BY <3>1, <3>4, <4>2, Zenon DEF Delimits
      <4>4. Over(r) = r
        BY <4>3, Zenon DEF Over
      <4>5. InMessage(p', r)
        BY <2>7, <2>11, <4>1, <4>3, Zenon DEF InMessage, InContext, SameMessage
      <4>6. Agree(p', r)
        <5>1. CASE Goes(p) = "ChunkSize"
          <6>1. InChunks(p', r)
            BY <2>5, <2>7, <2>11, <4>1, <4>2, <4>3, <4>5, <5>1, Zenon DEF InChunks, Delimits, SameMessage
          <6> QED
            BY <2>1, <4>1, <5>1, <6>1, Zenon DEF Agree, ChunkStates
        <5>2. CASE Goes(p) = "FixedBody"
          <6>1. InFixed(p', r)
            BY <2>11, <4>1, <4>2, <4>3, <4>5, <5>2, Zenon DEF InFixed, Delimits, SameFields
          <6> QED
            BY <2>1, <4>1, <5>2, <6>1, Zenon DEF Agree
        <5>3. CASE Goes(p) = "CloseBody"
          <6>1. p.kind = "Response" /\ ~noResponseBody(p)
            BY <2>5, <2>11, <5>3, Zenon DEF Goes, Illformed, Kinds
          <6>2. IF p.hasTransferEncoding THEN ~p.transferChunked ELSE ~p.hasContentLength
            BY <5>3, <6>1, Zenon DEF Goes
          <6>3. p'.kind = "Response" /\ ~noResponseBody(p')
            BY <4>1, <6>1, Zenon DEF noResponseBody, SameMessage
          <6>4. ~KeepAlive(p')
            BY <4>1, <6>2, <6>3, Zenon DEF KeepAlive, SameFields
          <6>5. InClose(p', r)
            BY <2>11, <4>1, <4>2, <4>3, <5>3, <6>4, Zenon DEF InClose, Delimits
          <6> QED
            BY <2>1, <4>1, <5>3, <6>5, Zenon DEF Agree
        <5> QED
          BY <3>4, <5>1, <5>2, <5>3, Zenon
      <4>7. Sends(t) = r
        BY <3>1, <4>4, Zenon DEF r
      <4> QED
        BY <2>1, <2>2, <2>11, <4>3, <4>6, <4>7, Accepts, Zenon DEF Takes
    <3> QED
      BY <2>11, <3>2, <3>3, <3>4, Zenon
  <2>12. CASE Excusable(p') \/ (Blaming(p') /\ t # "LF") \/ (Blaming(p') /\ t = "LF" /\ ~p.trailers /\ Illformed(p))
    <3>1. t # "LF" => Sends(t).fault
      BY <2>1, <2>3, SendsBad, Zenon
    <3>2. t = "LF" /\ ~p.trailers /\ Illformed(p) => Sends(t).fault
      <4> SUFFICES ASSUME t = "LF", ~p.trailers, Illformed(p) PROVE Sends(t).fault
        BY Zenon
      <4>1. InHead(p, sent) /\ Sends(t) = Over(Delimited) /\ ~Wellformed
        BY <2>10, Zenon
      <4>2. \E b : Delimits(Delimited, b)
        <5>1. Goes(p) \in {"Upgrade", "Start", "ChunkSize", "CloseBody", "FixedBody"}
          BY Zenon DEF Goes
        <5> QED
          BY <2>1, <2>5, <4>1, <5>1, <1>BodyAgreed, Zenon
      <4>3. Delimited.fault
        BY <4>1, <4>2, Zenon DEF Delimits
      <4> QED
        BY <4>1, <4>3, Zenon DEF Over
    <3> QED
      BY <2>1, <2>2, <2>12, <3>1, <3>2, Rejects, Zenon DEF Takes
  <2> QED
    BY <2>1, <2>2, <2>7, <2>8, <2>9, <2>11, <2>12, <1>HeadersLFOutcome, Zenon DEF Takes
<1> QED
  BY <1>HeadersLFKeeps, Zenon

-----------------------------------------------------------------------------
(* Chunks and bodies *)

\* Where a chunk is read, both ends agree on what is left of it.
LEMMA ChunkReads ==
  ASSUME Http1Inv, NEW st \in ChunkStates, Reading(st)
  PROVE  /\ Lives(p) /\ p.state = st /\ result = "open" /\ Agree(p, sent) /\ SenderFields \subseteq DOMAIN sent
         /\ InChunks(p, sent) /\ sent.version # "2.0" /\ p.kind \in Kinds
<1>1. /\ Lives(p) /\ p.state = st /\ result = "open" /\ Agree(p, sent) /\ SenderFields \subseteq DOMAIN sent
  BY Reads, Zenon
<1>2. InChunks(p, sent)
  BY <1>1, Zenon DEF Agree, LineStates, HeaderStates, ChunkStates
<1> QED
  BY <1>1, <1>2, Zenon DEF InChunks, Lives, Sane, Within

\* TakeChunkSize keeps the invariant: the size is that of the sender, and too large for
\* both.
LEMMA ChunkSizeKeeps == Http1Inv /\ TakeChunkSize => Http1Inv'
\* A digit is added to the size of the chunk, or the size is rejected as too large.
<1>DigitOutcome.
    ASSUME NEW q, Lives(q), q.state = "ChunkSize", NEW t \in DOMAIN Digit, NEW x \in ChunkSize(q, t)
    PROVE  \/ Lives(x) /\ Digits(q, x, t)
           \/ Excusable(x)
           \/ Blaming(x) /\ q.chunkSize * Radix + Digit[t] > MaxUint
  <2> USE <1>DigitOutcome
  <2> DEFINE v == [q EXCEPT !.chunkDigits = TRUE]
             u == takeChunkLineByte(v)
             d == [u EXCEPT !.chunkSize = u.chunkSize * Radix + Digit[t]]
  <2>1. Digit[t] \in 0..1
    BY DEF Digit
  <2>2. x \in (IF u.code = "none"
               THEN (IF u.chunkSize > (MaxUint - Digit[t]) \div Radix THEN {fail(u, "InvalidChunkSize")} ELSE {d})
               ELSE {u})
    <3>1. x \in AndThen({u}, LAMBDA r : IF r.chunkSize > (MaxUint - Digit[t]) \div Radix
                                THEN {fail(r, "InvalidChunkSize")}
                                ELSE {[r EXCEPT !.chunkSize = @ * Radix + Digit[t]]})
      <4>1. ~(t \in {";ext", "CR"} /\ q.chunkDigits)
        BY Zenon DEF Digit
      <4> QED
        BY <4>1, Zenon DEF ChunkSize
    <3> QED
      BY <3>1, Zenon DEF AndThen
  <2>3. Lives(v) /\ v.chunkSize = q.chunkSize
    BY DEF Lives, Sane, Within, Fields
  <2>4. CASE Excusable(u)
    BY <2>2, <2>4, ExcusedFails, Zenon DEF Excusable
  <2>5. CASE /\ u = [v EXCEPT !.chunkLineBytes = v.chunkLineBytes + 1, !.chunkMetadataBytes = v.chunkMetadataBytes + 1]
             /\ Lives(u)
    <3> HIDE DEF u
    <3>1. u.chunkSize = q.chunkSize /\ u.state = "ChunkSize"
      BY <2>3, <2>5, Zenon DEF Lives, Sane, Within, Fields
    <3>2. CASE u.chunkSize > (MaxUint - Digit[t]) \div Radix
      <4>1. q.chunkSize * Radix + Digit[t] > MaxUint
        <5>1. q.chunkSize \in Nat /\ MaxUint \in Nat /\ Radix = 2
          BY Limits DEF Lives, Sane, Within, Radix
        <5>2. q.chunkSize > (MaxUint - Digit[t]) \div 2
          BY <3>1, <3>2, <5>1, Zenon
        <5>3. ASSUME NEW m \in Int, NEW c \in Nat, NEW e \in 0..1, c > (m - e) \div 2 PROVE c * 2 + e > m
          BY <5>3
        <5> QED
          BY <2>1, <5>1, <5>2, <5>3
      <4> QED
        BY <2>2, <2>5, <3>2, <4>1, FailBlames, Zenon DEF Lives
    <3>3. CASE ~(u.chunkSize > (MaxUint - Digit[t]) \div Radix)
      <4>1. x = d
        BY <2>2, <2>5, <3>3, Zenon DEF Lives
      <4>2. q.chunkSize * Radix + Digit[t] \in 0..MaxUint
        <5>1. q.chunkSize \in Nat /\ MaxUint \in Nat /\ Radix = 2
          BY Limits DEF Lives, Sane, Within, Radix
        <5>2. ~(q.chunkSize > (MaxUint - Digit[t]) \div 2)
          BY <3>1, <3>3, <5>1, Zenon
        <5>3. ASSUME NEW m \in Nat, NEW c \in Nat, NEW e \in 0..1, ~(c > (m - e) \div 2) PROVE c * 2 + e \in 0..m
          BY <5>3
        <5> QED
          BY <2>1, <5>1, <5>2, <5>3, Zenon
      <4>3. PICK z : z = q.chunkSize * Radix + Digit[t]
        BY Zenon
      <4>4. x = [u EXCEPT !.chunkSize = z]
        BY <3>1, <4>1, <4>3, Zenon
      <4>5. z \in 0..MaxUint
        BY <4>2, <4>3, Zenon
      <4>6. Lives(x) /\ x.chunkSize = z
        BY <2>5, <3>1, <4>4, <4>5 DEF Lives, Sane, Within, Fields
      <4>7. /\ x.state = q.state /\ x.kind = q.kind /\ x.contextual = q.contextual /\ x.parsing = q.parsing
            /\ x.exchangeNum = q.exchangeNum /\ x.head = q.head /\ x.connect = q.connect
            /\ x.messageActive = q.messageActive /\ x.trailers = q.trailers
            /\ x.line = q.line /\ x.version = q.version
        BY <2>5, <4>4 DEF Lives, Sane, Within, Fields
      <4> QED
        BY <4>3, <4>6, <4>7, Zenon DEF Digits
    <3> QED
      BY <3>2, <3>3, Zenon
  <2> HIDE DEF v
  <2> QED
    BY <2>3, <2>4, <2>5, ChunkLineByte, Zenon
\* The size of a chunk is read digit by digit.
<1>ChunkSizeOutcome.
    ASSUME NEW q, Lives(q), q.state = "ChunkSize", NEW t, t \notin DOMAIN Digit, NEW x \in ChunkSize(q, t)
    PROVE  \/ t \in {";ext", "CR"} /\ Lives(x) /\ SameMessage(q, x) /\ x.state = IF t = "CR" THEN "ChunkSizeLF" ELSE "ChunkExt"
           \/ Excusable(x)
           \/ Blaming(x) /\ ~(t \in {";ext", "CR"} /\ q.chunkDigits)
  <2> USE <1>ChunkSizeOutcome
  <2>1. CASE t \in {";ext", "CR"} /\ q.chunkDigits
    <3>1. x \in Shift(takeChunkLineByte(q), IF t = "CR" THEN "ChunkSizeLF" ELSE "ChunkExt")
      BY <2>1, Zenon DEF ChunkSize
    <3> DEFINE st == IF t = "CR" THEN "ChunkSizeLF" ELSE "ChunkExt"
    <3>2. st \notin {"Dead", "FixedBody", "ChunkBody"}
      BY Zenon
    <3> HIDE DEF st
    <3>3. (Lives(x) /\ SameMessage(q, x) /\ x.state = st) \/ Excusable(x)
      BY <3>1, <3>2, ChunkShiftKeeps, Zenon DEF st
    <3> QED
      BY <2>1, <3>3, Zenon DEF st
  <2>2. CASE ~(t \in {";ext", "CR"} /\ q.chunkDigits)
    BY <2>2, FailBlames, Zenon DEF ChunkSize
  <2> QED
    BY <2>1, <2>2, Zenon
\* A digit is recorded in the octets the sender announced.
<1>SendsDigit.
    ASSUME NEW t \in DOMAIN Digit, p.state = "ChunkSize", sent.version # "2.0"
    PROVE  /\ t # "bad"
           /\ Sends(t) = [sent EXCEPT !.left = sent.left * Radix + Digit[t],
                                      !.fault = sent.fault \/ sent.left * Radix + Digit[t] > MaxUint]
  <2> USE <1>SendsDigit
  <2>1. t # "bad" /\ t \notin Methods \cup Statuses /\ t \notin Versions
    BY Zenon DEF Methods, Statuses, Versions, Digit
  <2>2. p.state # "HeaderStart" /\ p.state # "HeaderValue" /\ p.state # "HeadersLF"
    BY Zenon
  <2> QED
    BY <2>1, <2>2, Zenon DEF Sends
<1>ChunkSizeKeeps. ASSUME Http1Inv, TakeChunkSize PROVE Http1Inv'
  <2> USE <1>ChunkSizeKeeps
  <2>1. /\ Lives(p) /\ p.state = "ChunkSize" /\ result = "open" /\ Agree(p, sent)
        /\ SenderFields \subseteq DOMAIN sent /\ InChunks(p, sent) /\ sent.version # "2.0"
    BY ChunkReads, Zenon DEF TakeChunkSize, ChunkStates
  <2>2. PICK t \in Tokens : Takes(ChunkSize(p, t), t)
    BY Zenon DEF TakeChunkSize
  <2>3. t \in DOMAIN Digit \cup {"bad"} \/ (p.chunkDigits /\ t \in {";ext", "CR"})
    <3>1. /\ p.state # "Start" /\ p.state # "ReqTarget" /\ p.state # "ResStatus" /\ p.state # "ResReason"
          /\ p.state # "HeaderStart" /\ p.state # "HeaderValue" /\ p.state # "ChunkExt"
          /\ p.state \notin {"ReqLineCR", "ChunkBodyCR"}
          /\ p.state \notin {"LeadingLF", "LineLF", "HeaderValueLF", "HeadersLF", "ChunkSizeLF", "ChunkBodyLF"}
      BY <2>1, Zenon
    <3> QED
      BY <2>1, <3>1, Zenon DEF Tokens, Grammar
  <2>4. p.chunkSize = sent.left /\ p.chunkSize \in Nat /\ InMessage(p, sent) /\ ~sent.fault /\ sent.body = "chunked" /\ ~p.trailers
    BY <2>1, Limits DEF InChunks, Lives, Sane, Within
  <2>5. CASE t \in DOMAIN Digit
    <3> DEFINE left == sent.left * Radix + Digit[t]
               r == Sends(t)
    <3>1. PICK v : v = (sent.fault \/ left > MaxUint)
      BY Zenon
    <3>2. r = [sent EXCEPT !.left = left, !.fault = v]
      BY <2>1, <2>5, <3>1, <1>SendsDigit, Zenon
    <3> HIDE DEF r, left
    <3>3. /\ SenderFields \subseteq DOMAIN r /\ r.left = left /\ r.fault = v /\ r.body = sent.body
          /\ r.version = sent.version /\ r.line = sent.line /\ r.answered = sent.answered
      BY <2>1, <3>2, Zenon DEF SenderFields
    <3>4. CASE Lives(p') /\ Digits(p, p', t)
      <4>1. p'.chunkSize = left /\ p'.chunkSize \in 0..MaxUint
        BY <2>4, <3>4, Zenon DEF Digits, left, Lives, Sane, Within
      <4>2. ~r.fault
        <5>1. ~(left > MaxUint)
          BY <4>1, Limits
        <5> QED
          BY <2>4, <3>1, <3>3, <5>1, Zenon
      <4>3. InChunks(p', r)
        BY <2>1, <2>4, <3>3, <3>4, <4>1, <4>2, Zenon DEF InChunks, InMessage, InContext, Digits
      <4>4. Agree(p', r)
        BY <2>1, <3>4, <4>3, Zenon DEF Agree, Digits, ChunkStates
      <4> QED
        BY <2>1, <2>2, <3>3, <3>4, <4>4, Accepts, Zenon DEF Takes, r
    <3>5. CASE Excusable(p') \/ (Blaming(p') /\ p.chunkSize * Radix + Digit[t] > MaxUint)
      <4>1. p.chunkSize * Radix + Digit[t] > MaxUint => r.fault
        BY <2>4, <3>1, <3>3, Zenon DEF left
      <4> QED
        BY <2>1, <2>2, <3>5, <4>1, Rejects, Zenon DEF Takes, r
    <3> QED
      BY <2>1, <2>2, <2>5, <3>4, <3>5, <1>DigitOutcome, Zenon DEF Takes
  <2>6. CASE t \notin DOMAIN Digit
    <3>1. CASE /\ t \in {";ext", "CR"} /\ Lives(p') /\ SameMessage(p, p')
               /\ p'.state = IF t = "CR" THEN "ChunkSizeLF" ELSE "ChunkExt"
      <4>1. Sends(t) = sent
        <5>1. t \in {"LF", "CR", "target", "reason", ";ext"} /\ p.state # "HeaderValue" /\ p.state # "HeadersLF"
          BY <2>1, <3>1, Zenon
        <5> QED
          BY <2>1, <5>1, SendsNothing, Zenon
      <4>2. p'.state \in {"ChunkSizeLF", "ChunkExt"}
        BY <3>1, Zenon
      <4>3. InChunks(p', sent)
        <5>1. p'.state # "ChunkBody" /\ p'.state \notin {"ChunkBodyCR", "ChunkBodyLF"}
          BY <4>2, Zenon
        <5> QED
          BY <2>1, <2>4, <3>1, <5>1, Zenon DEF InChunks, InMessage, InContext, SameMessage
      <4>4. Agree(p', sent)
        BY <2>1, <3>1, <4>2, <4>3, Zenon DEF Agree, SameMessage, ChunkStates
      <4> QED
        BY <2>1, <2>2, <3>1, <4>1, <4>4, Accepts, Zenon DEF Takes
    <3>2. CASE Excusable(p') \/ (Blaming(p') /\ ~(t \in {";ext", "CR"} /\ p.chunkDigits))
      <4>1. ~(t \in {";ext", "CR"} /\ p.chunkDigits) => Sends(t).fault
        BY <2>1, <2>3, <2>6, SendsBad, Zenon
      <4> QED
        BY <2>1, <2>2, <3>2, <4>1, Rejects, Zenon DEF Takes
    <3> QED
      BY <2>1, <2>2, <2>6, <3>1, <3>2, <1>ChunkSizeOutcome, Zenon DEF Takes
  <2> QED
    BY <2>5, <2>6, Zenon
<1> QED
  BY <1>ChunkSizeKeeps, Zenon

\* TakeChunkExt keeps the invariant.
LEMMA ChunkExtKeeps == Http1Inv /\ TakeChunkExt => Http1Inv'
\* The extension of a chunk is skipped up to the end of its line.
<1>ChunkExtOutcome.
    ASSUME NEW q, Lives(q), NEW t, NEW x \in ChunkExt(q, t)
    PROVE  \/ t \in {";ext", "CR"} /\ Lives(x) /\ SameMessage(q, x) /\ x.state = IF t = "CR" THEN "ChunkSizeLF" ELSE "ChunkExt"
           \/ Excusable(x)
           \/ Blaming(x) /\ t \notin {";ext", "CR"}
  <2> USE <1>ChunkExtOutcome
  <2>1. CASE t = "CR"
    <3>1. x \in Shift(takeChunkLineByte(q), "ChunkSizeLF")
      BY <2>1, Zenon DEF ChunkExt
    <3> QED
      BY <2>1, <3>1, ChunkShiftKeeps, Zenon
  <2>2. CASE t = ";ext"
    <3>1. x \in Shift(takeChunkLineByte(q), "ChunkExt")
      BY <2>2, Zenon DEF ChunkExt
    <3> QED
      BY <2>2, <3>1, ChunkShiftKeeps, Zenon
  <2>3. CASE t \notin {";ext", "CR"}
    BY <2>3, FailBlames, Zenon DEF ChunkExt
  <2> QED
    BY <2>1, <2>2, <2>3, Zenon
<1>ChunkExtKeeps. ASSUME Http1Inv, TakeChunkExt PROVE Http1Inv'
  <2> USE <1>ChunkExtKeeps
  <2>1. /\ Lives(p) /\ p.state = "ChunkExt" /\ result = "open" /\ Agree(p, sent)
        /\ SenderFields \subseteq DOMAIN sent /\ InChunks(p, sent) /\ sent.version # "2.0"
    BY ChunkReads, Zenon DEF TakeChunkExt, ChunkStates
  <2>2. PICK t \in Tokens : Takes(ChunkExt(p, t), t)
    BY Zenon DEF TakeChunkExt
  <2>3. t \in {"bad", ";ext", "CR"}
    <3>1. /\ p.state # "Start" /\ p.state # "ReqTarget" /\ p.state # "ResStatus" /\ p.state # "ResReason"
          /\ p.state # "HeaderStart" /\ p.state # "HeaderValue" /\ p.state # "ChunkSize"
          /\ p.state \notin {"ReqLineCR", "ChunkBodyCR"}
          /\ p.state \notin {"LeadingLF", "LineLF", "HeaderValueLF", "HeadersLF", "ChunkSizeLF", "ChunkBodyLF"}
      BY <2>1, Zenon
    <3> QED
      BY <2>1, <3>1, Zenon DEF Tokens, Grammar
  <2>4. CASE /\ t \in {";ext", "CR"} /\ Lives(p') /\ SameMessage(p, p')
             /\ p'.state = IF t = "CR" THEN "ChunkSizeLF" ELSE "ChunkExt"
    <3>1. Sends(t) = sent
      <4>1. t \in {"LF", "CR", "target", "reason", ";ext"} /\ p.state # "HeaderValue" /\ p.state # "HeadersLF"
        BY <2>1, <2>4, Zenon
      <4> QED
        BY <2>1, <4>1, SendsNothing, Zenon
    <3>2. p'.state \in {"ChunkSizeLF", "ChunkExt"}
      BY <2>4, Zenon
    <3>3. InChunks(p', sent)
      <4>1. p'.state # "ChunkBody" /\ p'.state \notin {"ChunkBodyCR", "ChunkBodyLF"}
        BY <3>2, Zenon
      <4> QED
        BY <2>1, <2>4, <4>1, Zenon DEF InChunks, InMessage, InContext, SameMessage
    <3>4. Agree(p', sent)
      BY <2>1, <2>4, <3>2, <3>3, Zenon DEF Agree, SameMessage, ChunkStates
    <3> QED
      BY <2>1, <2>2, <2>4, <3>1, <3>4, Accepts, Zenon DEF Takes
  <2>5. CASE Excusable(p') \/ (Blaming(p') /\ t \notin {";ext", "CR"})
    <3>1. t \notin {";ext", "CR"} => Sends(t).fault
      BY <2>1, <2>3, SendsBad, Zenon
    <3> QED
      BY <2>1, <2>2, <2>5, <3>1, Rejects, Zenon DEF Takes
  <2> QED
    BY <2>1, <2>2, <2>4, <2>5, <1>ChunkExtOutcome, Zenon DEF Takes
<1> QED
  BY <1>ChunkExtKeeps, Zenon

\* TakeChunkSizeLF keeps the invariant: the octets of the chunk are those announced.
LEMMA ChunkSizeLFKeeps == Http1Inv /\ TakeChunkSizeLF => Http1Inv'
\* A chunk begins after its line, and the trailers after the line of the last.
<1>ChunkLineOutcome.
    ASSUME NEW q, Lives(q), q.state = "ChunkSizeLF", NEW x \in ChunkLine(q)
    PROVE  \/ /\ Lives(x) /\ SameChunked(q, x)
              /\ IF q.chunkSize = 0 THEN x.state = "HeaderStart" /\ x.trailers
                 ELSE x.state = "ChunkBody" /\ x.remaining = q.chunkSize /\ x.trailers = q.trailers
           \/ Excusable(x)
  <2> USE <1>ChunkLineOutcome
  <2>1. CASE q.chunkSize > MaxBodyBytes - q.bodyBytes
    <3>1. "BodyTooLarge" \in Excused
      BY Zenon DEF Excused, LimitCodes
    <3> QED
      BY <2>1, <3>1, FailExcused, Zenon DEF ChunkLine
  <2>2. CASE ~(q.chunkSize > MaxBodyBytes - q.bodyBytes) /\ q.chunkSize # 0 /\ q.chunkCount >= MaxChunks
    <3>1. "TooManyChunks" \in Excused
      BY Zenon DEF Excused, LimitCodes
    <3> QED
      BY <2>2, <3>1, FailExcused, Zenon DEF ChunkLine
  <2>3. CASE ~(q.chunkSize > MaxBodyBytes - q.bodyBytes) /\ ~(q.chunkSize # 0 /\ q.chunkCount >= MaxChunks)
    <3> DEFINE c == [q EXCEPT !.chunkCount = IF q.chunkSize # 0 THEN q.chunkCount + 1 ELSE q.chunkCount]
               d(r) == IF r.chunkSize = 0 THEN [r EXCEPT !.trailers = TRUE, !.state = "HeaderStart"]
                       ELSE [r EXCEPT !.remaining = r.chunkSize, !.state = "ChunkBody"]
    <3>1. PICK r \in Callback(c) : x \in (IF r.code = "none" THEN {d(r)} ELSE {r})
      BY <2>3, Zenon DEF ChunkLine, AndThen
    <3>2. Lives(c) /\ c.chunkSize = q.chunkSize /\ c.bodyBytes = q.bodyBytes /\ SameChunked(q, c) /\ c.trailers = q.trailers
      BY <2>3, Limits DEF Lives, Sane, Within, Fields, SameChunked
    <3>3. CASE r = c
      <4>1. x = d(c)
        BY <3>1, <3>2, <3>3, Zenon DEF Lives
      <4> HIDE DEF c
      <4>2. CASE q.chunkSize = 0
        <5>1. x = [c EXCEPT !.trailers = TRUE, !.state = "HeaderStart"]
          BY <3>2, <4>1, <4>2, Zenon
        <5> QED
          BY <3>2, <4>2, <5>1 DEF Lives, Sane, Within, Fields, SameChunked
      <4>3. CASE q.chunkSize # 0
        <5>1. x = [c EXCEPT !.remaining = c.chunkSize, !.state = "ChunkBody"]
          BY <3>2, <4>1, <4>3, Zenon
        <5>2. c.chunkSize \in 1..(MaxBodyBytes - c.bodyBytes)
          BY <2>3, <3>2, <4>3, Limits DEF Lives, Sane, Within
        <5> QED
          BY <3>2, <4>3, <5>1, <5>2 DEF Lives, Sane, Within, Fields, SameChunked
      <4> QED
        BY <4>2, <4>3, Zenon
    <3>4. CASE Excusable(r)
      BY <3>1, <3>4, ExcusedFails, Zenon DEF Excusable
    <3> QED
      BY <3>1, <3>2, <3>3, <3>4, CallbackKeeps, Zenon
  <2> QED
    BY <2>1, <2>2, <2>3, Zenon
\* The line feed after the size of a chunk begins it.
<1>ChunkSizeLFOutcome.
    ASSUME NEW q, Lives(q), q.state = "ChunkSizeLF", NEW t, NEW x \in ChunkSizeLF(q, t)
    PROVE  \/ /\ t = "LF" /\ Lives(x) /\ SameChunked(q, x)
              /\ IF q.chunkSize = 0 THEN x.state = "HeaderStart" /\ x.trailers
                 ELSE x.state = "ChunkBody" /\ x.remaining = q.chunkSize /\ x.trailers = q.trailers
           \/ Excusable(x)
           \/ Blaming(x) /\ t # "LF"
  <2> USE <1>ChunkSizeLFOutcome
  <2>1. CASE t # "LF"
    BY <2>1, FailBlames, Zenon DEF ChunkSizeLF
  <2>2. CASE t = "LF"
    <3> DEFINE u == takeChunkLineByte(q)
    <3>1. x \in (IF u.code = "none" THEN ChunkLine(u) ELSE {u})
      BY <2>2, Zenon DEF ChunkSizeLF, AndThen
    <3>2. CASE Excusable(u)
      BY <3>1, <3>2, ExcusedFails, Zenon DEF Excusable
    <3>3. CASE /\ u = [q EXCEPT !.chunkLineBytes = q.chunkLineBytes + 1, !.chunkMetadataBytes = q.chunkMetadataBytes + 1]
               /\ Lives(u)
      <4> HIDE DEF u
      <4>1. u.state = "ChunkSizeLF" /\ u.chunkSize = q.chunkSize /\ SameChunked(q, u) /\ u.trailers = q.trailers
        BY <3>3 DEF Lives, Sane, Within, Fields, SameChunked
      <4>2. SameChunked(u, x) => SameChunked(q, x)
        BY <4>1, Zenon DEF SameChunked
      <4> QED
        BY <2>2, <3>1, <3>3, <4>1, <4>2, <1>ChunkLineOutcome, Zenon DEF Lives
    <3> QED
      BY <3>2, <3>3, ChunkLineByte, Zenon
  <2> QED
    BY <2>1, <2>2, Zenon
<1>ChunkSizeLFKeeps. ASSUME Http1Inv, TakeChunkSizeLF PROVE Http1Inv'
  <2> USE <1>ChunkSizeLFKeeps
  <2>1. /\ Lives(p) /\ p.state = "ChunkSizeLF" /\ result = "open" /\ Agree(p, sent)
        /\ SenderFields \subseteq DOMAIN sent /\ InChunks(p, sent) /\ sent.version # "2.0"
    BY ChunkReads, Zenon DEF TakeChunkSizeLF, ChunkStates
  <2>2. PICK t \in Tokens : Takes(ChunkSizeLF(p, t), t)
    BY Zenon DEF TakeChunkSizeLF
  <2>3. t \in {"LF", "bad"}
    BY <2>1, Zenon DEF Tokens, Grammar
  <2>4. /\ InMessage(p, sent) /\ ~sent.fault /\ sent.body = "chunked" /\ p.chunkSize = sent.left /\ ~p.trailers
    BY <2>1, Zenon DEF InChunks
  <2>5. CASE /\ t = "LF" /\ Lives(p') /\ SameChunked(p, p')
             /\ IF p.chunkSize = 0 THEN p'.state = "HeaderStart" /\ p'.trailers
                ELSE p'.state = "ChunkBody" /\ p'.remaining = p.chunkSize /\ p'.trailers = p.trailers
    <3>1. Sends(t) = sent
      <4>1. t \in {"LF", "CR", "target", "reason", ";ext"} /\ p.state # "HeaderValue" /\ p.state # "HeadersLF"
        BY <2>1, <2>5, Zenon
      <4> QED
        BY <2>1, <4>1, SendsNothing, Zenon
    <3>2. InMessage(p', sent) /\ p'.parsing = p.parsing /\ p'.contextual = p.contextual
      BY <2>4, <2>5, Zenon DEF InMessage, InContext, SameChunked
    <3>3. CASE p.chunkSize = 0
      <4>1. InTrailers(p', sent) /\ p'.state = "HeaderStart" /\ p'.trailers
        BY <2>1, <2>4, <2>5, <3>2, <3>3, Zenon DEF InTrailers
      <4>2. Agree(p', sent)
        BY <2>1, <3>2, <4>1, Zenon DEF Agree, HeaderStates
      <4> QED
        BY <2>1, <2>2, <2>5, <3>1, <4>2, Accepts, Zenon DEF Takes
    <3>4. CASE p.chunkSize # 0
      <4>1. InChunks(p', sent) /\ p'.state = "ChunkBody"
        BY <2>1, <2>4, <2>5, <3>2, <3>4, Zenon DEF InChunks
      <4>2. Agree(p', sent)
        BY <2>1, <3>2, <4>1, Zenon DEF Agree, ChunkStates
      <4> QED
        BY <2>1, <2>2, <2>5, <3>1, <4>2, Accepts, Zenon DEF Takes
    <3> QED
      BY <3>3, <3>4, Zenon
  <2>6. CASE Excusable(p') \/ (Blaming(p') /\ t # "LF")
    <3>1. t # "LF" => Sends(t).fault
      BY <2>1, <2>3, SendsBad, Zenon
    <3> QED
      BY <2>1, <2>2, <2>6, <3>1, Rejects, Zenon DEF Takes
  <2> QED
    BY <2>1, <2>2, <2>5, <2>6, <1>ChunkSizeLFOutcome, Zenon DEF Takes
<1> QED
  BY <1>ChunkSizeLFKeeps, Zenon

\* TakeChunkBodyCR keeps the invariant.
LEMMA ChunkBodyCRKeeps == Http1Inv /\ TakeChunkBodyCR => Http1Inv'
\* A chunk is followed by a carriage return.
<1>ChunkBodyCROutcome.
    ASSUME NEW q, Lives(q), NEW t, NEW x \in ChunkBodyCR(q, t)
    PROVE  \/ t = "CR" /\ Lives(x) /\ SameChunked(q, x) /\ x.trailers = q.trailers /\ x.state = "ChunkBodyLF"
           \/ Blaming(x) /\ t # "CR"
  <2> USE <1>ChunkBodyCROutcome
  <2>1. CASE t # "CR"
    BY <2>1, FailBlames, Zenon DEF ChunkBodyCR
  <2>2. CASE t = "CR"
    <3>1. x = [q EXCEPT !.state = "ChunkBodyLF"]
      BY <2>2, ShiftLive, Zenon DEF ChunkBodyCR, Lives
    <3> QED
      BY <2>2, <3>1 DEF Lives, Sane, Within, Fields, SameChunked
  <2> QED
    BY <2>1, <2>2, Zenon
<1>ChunkBodyCRKeeps. ASSUME Http1Inv, TakeChunkBodyCR PROVE Http1Inv'
  <2> USE <1>ChunkBodyCRKeeps
  <2>1. /\ Lives(p) /\ p.state = "ChunkBodyCR" /\ result = "open" /\ Agree(p, sent)
        /\ SenderFields \subseteq DOMAIN sent /\ InChunks(p, sent) /\ sent.version # "2.0"
    BY ChunkReads, Zenon DEF TakeChunkBodyCR, ChunkStates
  <2>2. PICK t \in Tokens : Takes(ChunkBodyCR(p, t), t)
    BY Zenon DEF TakeChunkBodyCR
  <2>3. t \in {"CR", "bad"}
    BY <2>1, Zenon DEF Tokens, Grammar
  <2>4. CASE t = "CR" /\ Lives(p') /\ SameChunked(p, p') /\ p'.trailers = p.trailers /\ p'.state = "ChunkBodyLF"
    <3>1. Sends(t) = sent
      <4>1. t \in {"LF", "CR", "target", "reason", ";ext"} /\ p.state # "HeaderValue" /\ p.state # "HeadersLF"
        BY <2>1, <2>4, Zenon
      <4> QED
        BY <2>1, <4>1, SendsNothing, Zenon
    <3>2. InMessage(p', sent) /\ p'.parsing = p.parsing /\ p'.contextual = p.contextual
      BY <2>1, <2>4, Zenon DEF InChunks, InMessage, InContext, SameChunked
    <3>3. InChunks(p', sent)
      BY <2>1, <2>4, <3>2, Zenon DEF InChunks
    <3>4. Agree(p', sent)
      BY <2>1, <2>4, <3>2, <3>3, Zenon DEF Agree, ChunkStates
    <3> QED
      BY <2>1, <2>2, <2>4, <3>1, <3>4, Accepts, Zenon DEF Takes
  <2>5. CASE Blaming(p') /\ t # "CR"
    <3>1. Sends(t).fault
      BY <2>1, <2>3, <2>5, SendsBad, Zenon
    <3> QED
      BY <2>1, <2>2, <2>5, <3>1, Rejects, Zenon DEF Takes
  <2> QED
    BY <2>1, <2>2, <2>4, <2>5, <1>ChunkBodyCROutcome, Zenon DEF Takes
<1> QED
  BY <1>ChunkBodyCRKeeps, Zenon

\* TakeChunkBodyLF keeps the invariant.
LEMMA ChunkBodyLFKeeps == Http1Inv /\ TakeChunkBodyLF => Http1Inv'
\* The line feed after a chunk begins the line of the next.
<1>ChunkBodyLFOutcome.
    ASSUME NEW q, Lives(q), NEW t, NEW x \in ChunkBodyLF(q, t)
    PROVE  \/ /\ t = "LF" /\ Lives(x) /\ SameChunked(q, x) /\ x.trailers = q.trailers
              /\ x.state = "ChunkSize" /\ x.chunkSize = 0
           \/ Excusable(x)
           \/ Blaming(x) /\ t # "LF"
  <2> USE <1>ChunkBodyLFOutcome
  <2>1. CASE t # "LF"
    BY <2>1, FailBlames, Zenon DEF ChunkBodyLF
  <2>2. CASE t = "LF"
    <3> DEFINE d(r) == [r EXCEPT !.state = "ChunkSize", !.chunkSize = 0, !.chunkDigits = FALSE, !.chunkLineBytes = 0]
    <3>1. PICK r \in Callback(q) : x \in (IF r.code = "none" THEN {d(r)} ELSE {r})
      BY <2>2, Zenon DEF ChunkBodyLF, AndThen
    <3>2. Lives(d(q)) /\ SameChunked(q, d(q)) /\ d(q).trailers = q.trailers /\ d(q).state = "ChunkSize" /\ d(q).chunkSize = 0
      BY Limits DEF Lives, Sane, Within, Fields, SameChunked
    <3> QED
      BY <2>2, <3>1, <3>2, CallbackKeeps, ExcusedFails, Zenon DEF Lives, Excusable
  <2> QED
    BY <2>1, <2>2, Zenon
<1>ChunkBodyLFKeeps. ASSUME Http1Inv, TakeChunkBodyLF PROVE Http1Inv'
  <2> USE <1>ChunkBodyLFKeeps
  <2>1. /\ Lives(p) /\ p.state = "ChunkBodyLF" /\ result = "open" /\ Agree(p, sent)
        /\ SenderFields \subseteq DOMAIN sent /\ InChunks(p, sent) /\ sent.version # "2.0"
    BY ChunkReads, Zenon DEF TakeChunkBodyLF, ChunkStates
  <2>2. PICK t \in Tokens : Takes(ChunkBodyLF(p, t), t)
    BY Zenon DEF TakeChunkBodyLF
  <2>3. t \in {"LF", "bad"}
    BY <2>1, Zenon DEF Tokens, Grammar
  <2>4. CASE /\ t = "LF" /\ Lives(p') /\ SameChunked(p, p') /\ p'.trailers = p.trailers
             /\ p'.state = "ChunkSize" /\ p'.chunkSize = 0
    <3>1. Sends(t) = sent
      <4>1. t \in {"LF", "CR", "target", "reason", ";ext"} /\ p.state # "HeaderValue" /\ p.state # "HeadersLF"
        BY <2>1, <2>4, Zenon
      <4> QED
        BY <2>1, <4>1, SendsNothing, Zenon
    <3>2. InMessage(p', sent) /\ p'.parsing = p.parsing /\ p'.contextual = p.contextual
      BY <2>1, <2>4, Zenon DEF InChunks, InMessage, InContext, SameChunked
    <3>3. InChunks(p', sent)
      BY <2>1, <2>4, <3>2, Zenon DEF InChunks
    <3>4. Agree(p', sent)
      BY <2>1, <2>4, <3>2, <3>3, Zenon DEF Agree, ChunkStates
    <3> QED
      BY <2>1, <2>2, <2>4, <3>1, <3>4, Accepts, Zenon DEF Takes
  <2>5. CASE Excusable(p') \/ (Blaming(p') /\ t # "LF")
    <3>1. t # "LF" => Sends(t).fault
      BY <2>1, <2>3, SendsBad, Zenon
    <3> QED
      BY <2>1, <2>2, <2>5, <3>1, Rejects, Zenon DEF Takes
  <2> QED
    BY <2>1, <2>2, <2>4, <2>5, <1>ChunkBodyLFOutcome, Zenon DEF Takes
<1> QED
  BY <1>ChunkBodyLFKeeps, Zenon

\* The record after octets that leave `left` of the body.
Leaves(left) ==
    [sent EXCEPT !.left = left, !.body = IF sent.body = "fixed" /\ left = 0 THEN "done" ELSE sent.body]

Left(r, left) ==
    /\ SenderFields \subseteq DOMAIN r /\ r.left = left /\ r.fault = sent.fault /\ r.answered = sent.answered
    /\ r.line = sent.line /\ r.version = sent.version
    /\ r.body = IF sent.body = "fixed" /\ left = 0 THEN "done" ELSE sent.body

\* What the sender records of octets of the body.
LEMMA OctetsSent ==
  ASSUME SenderFields \subseteq DOMAIN sent, NEW left PROVE Left(Leaves(left), left)
BY Zenon DEF SenderFields, Leaves, Left

\* TakeFixedBody keeps the invariant: both ends finish at the same octet.
LEMMA FixedBodyKeeps == Http1Inv /\ TakeFixedBody => Http1Inv'
\* Octets of a body of known length are taken, the last of which completes the message.
<1>FixedBodyOutcome.
    ASSUME NEW q, Lives(q), q.state = "FixedBody", NEW n \in 1..q.remaining, NEW x \in FixedBody(q, n)
    PROVE  \/ n # q.remaining /\ Lives(x) /\ x = Fed(q, n)
           \/ n = q.remaining /\ Lives(x) /\ Completed(q, x)
           \/ Excusable(x)
  <2> USE <1>FixedBodyOutcome
  <2> DEFINE k == Least(n, q.remaining)
             a == addBody(q, k)
             f == [a EXCEPT !.remaining = a.remaining - k]
  <2>0. k = n
    BY FedAlive, Zenon
  <2>1. /\ Alive(Fed(q, n)) /\ Fed(q, n).remaining = q.remaining - n
        /\ n # q.remaining => Lives(Fed(q, n))
        /\ a = [q EXCEPT !.bodyBytes = q.bodyBytes + n] /\ a.code = "none" /\ a.remaining = q.remaining
    BY <2>0, FedAlive, ZenonT(40)
  <2>2. x \in (IF a.code = "none"
               THEN UNION {IF s.code = "none" THEN (IF s.remaining = 0 THEN completeMessage(s) ELSE {s}) ELSE {s} : s \in Callback(f)}
               ELSE {a})
    <3>1. x \in AndThen({a}, LAMBDA r : AndThen(Callback([r EXCEPT !.remaining = @ - k]),
                                     LAMBDA s : IF s.remaining = 0 THEN completeMessage(s) ELSE {s}))
      BY Zenon DEF FixedBody
    <3> QED
      BY <3>1, Zenon DEF AndThen
  <2>3. f = Fed(q, n)
    BY <2>0, <2>1, Zenon DEF Fed
  <2>4. PICK s \in Callback(f) :
             x \in (IF s.code = "none" THEN (IF s.remaining = 0 THEN completeMessage(s) ELSE {s}) ELSE {s})
    BY <2>1, <2>2, Zenon
  <2>5. CASE Excusable(s)
    BY <2>4, <2>5, ExcusedFails, Zenon DEF Excusable
  <2>6. CASE s = f
    <3> HIDE DEF f, a, k
    <3>1. f.code = "none"
      BY <2>1, <2>3, Zenon DEF Alive
    <3>2. f.remaining = 0 <=> n = q.remaining
      BY <2>1, <2>3, Limits DEF Lives, Sane, Within
    <3>3. CASE n = q.remaining
      <4>1. x \in completeMessage(f)
        BY <2>4, <2>6, <3>1, <3>2, <3>3, Zenon
      <4>2. (Completed(f, x) /\ Lives(x)) \/ Excusable(x)
        BY <2>1, <2>3, <4>1, CompleteAlive, Zenon
      <4>3. f.kind = q.kind /\ f.contextual = q.contextual /\ f.parsing = q.parsing /\ f.exchangeNum = q.exchangeNum /\ f.line = q.line
        BY <2>3, Zenon DEF Fed, Lives, Sane, Within, Fields
      <4> QED
        BY <3>3, <4>2, <4>3, Zenon DEF Completed
    <3>4. CASE n # q.remaining
      BY <2>1, <2>3, <2>4, <2>6, <3>1, <3>2, <3>4, Zenon
    <3> QED
      BY <3>3, <3>4, Zenon
  <2> QED
    BY <2>1, <2>3, <2>4, <2>5, <2>6, CallbackAlive, Zenon
<1>FixedBodyKeeps. ASSUME Http1Inv, TakeFixedBody PROVE Http1Inv'
  <2> USE <1>FixedBodyKeeps
  <2>1. /\ Lives(p) /\ p.state = "FixedBody" /\ result = "open" /\ Agree(p, sent)
        /\ SenderFields \subseteq DOMAIN sent
    BY Reads, Zenon DEF TakeFixedBody
  <2>2. PICK n \in Octets : TakesOctets(FixedBody(p, n), n)
    BY Zenon DEF TakeFixedBody
  <2>3. InFixed(p, sent)
    BY <2>1, Zenon DEF Agree, LineStates, HeaderStates, ChunkStates
  <2>4. InMessage(p, sent) /\ sent.body = "fixed" /\ ~sent.fault /\ ~p.trailers /\ p.remaining = sent.left
    BY <2>3, Zenon DEF InFixed
  <2>5. n \in 1..p.remaining /\ p.remaining \in Nat /\ n \in Nat
    BY <2>1, <2>4, Limits DEF Octets, Lives, Sane, Within
  <2> DEFINE left == sent.left - n
             r == Leaves(left)
  <2>6. p' \in FixedBody(p, n) /\ sent' = Record(Over(r)) /\ UNCHANGED result
    BY <2>2, <2>4, Zenon DEF TakesOctets, Leaves
  <2>7. /\ SenderFields \subseteq DOMAIN r /\ r.left = left /\ r.fault = sent.fault /\ r.answered = sent.answered
        /\ r.line = sent.line /\ r.version = sent.version
        /\ r.body = IF left = 0 THEN "done" ELSE "fixed"
    <3>1. Left(r, left)
      BY <2>1, OctetsSent, Zenon
    <3> QED
      BY <2>4, <3>1, Zenon DEF Left
  <2>8. left = 0 <=> n = p.remaining
    BY <2>4, <2>5
  <2>9. p.remaining - n = left
    BY <2>4, Zenon
  <2> HIDE DEF r, left
  <2>10. CASE n # p.remaining /\ Lives(p') /\ p' = Fed(p, n)
    <3>1. r.body = "fixed" /\ Over(r) = r
      BY <2>7, <2>8, <2>10, Zenon DEF Over
    <3>2. /\ p'.state = p.state /\ p'.parsing = p.parsing /\ p'.contextual = p.contextual /\ p'.kind = p.kind
          /\ p'.trailers = p.trailers /\ p'.messageActive = p.messageActive /\ p'.line = p.line /\ p'.version = p.version
          /\ p'.exchangeNum = p.exchangeNum /\ p'.head = p.head /\ p'.connect = p.connect
          /\ p'.remaining = left
      BY <2>1, <2>9, <2>10, ZenonT(40) DEF Fed, Lives, Sane, Within, Fields
    <3>3. InFixed(p', r)
      BY <2>4, <2>7, <3>1, <3>2, Zenon DEF InFixed, InMessage, InContext
    <3>4. Agree(p', r)
      BY <2>1, <3>2, <3>3, Zenon DEF Agree
    <3> QED
      BY <2>1, <2>6, <2>7, <2>10, <3>1, <3>4, Accepts, Zenon
  <2>11. CASE n = p.remaining /\ Lives(p') /\ Completed(p, p')
    <3>1. r.body = "done" /\ ~r.fault
      BY <2>4, <2>7, <2>8, <2>11, Zenon
    <3>2. r.answered \in Nat /\ r.line = p.line /\ (p.kind = "Response" => p.exchangeNum = r.answered)
      BY <2>4, <2>7, Zenon DEF InMessage
    <3>3. SenderFields \subseteq DOMAIN Over(r) /\ AtRest(p', Over(r)) /\ p'.state = "Start"
      BY <2>11, <3>1, <3>2, BothAtRest, Zenon
    <3>4. Agree(p', Over(r))
      BY <2>1, <2>11, <3>3, Zenon DEF Agree, Completed
    <3> QED
      BY <2>1, <2>6, <2>11, <3>3, <3>4, Accepts, Zenon
  <2>12. CASE Excusable(p')
    BY <2>1, <2>6, <2>12, Rejects, Zenon
  <2> QED
    BY <2>1, <2>5, <2>6, <2>10, <2>11, <2>12, <1>FixedBodyOutcome, Zenon
<1> QED
  BY <1>FixedBodyKeeps, Zenon

\* TakeChunkBody keeps the invariant.
LEMMA ChunkBodyKeeps == Http1Inv /\ TakeChunkBody => Http1Inv'
\* Octets of a chunk are taken, the last of which ends it.
<1>ChunkBodyOutcome.
    ASSUME NEW q, Lives(q), q.state = "ChunkBody", NEW n \in 1..q.remaining, NEW x \in ChunkBody(q, n)
    PROVE  \/ n # q.remaining /\ Lives(x) /\ x = Fed(q, n)
           \/ n = q.remaining /\ Lives(x) /\ x = [Fed(q, n) EXCEPT !.state = "ChunkBodyCR"]
           \/ Excusable(x)
  <2> USE <1>ChunkBodyOutcome
  <2> DEFINE k == Least(n, q.remaining)
             a == addBody(q, k)
             f == [a EXCEPT !.remaining = a.remaining - k]
  <2>0. k = n
    BY FedAlive, Zenon
  <2>1. /\ Alive(Fed(q, n)) /\ Fed(q, n).remaining = q.remaining - n
        /\ n # q.remaining => Lives(Fed(q, n))
        /\ a = [q EXCEPT !.bodyBytes = q.bodyBytes + n] /\ a.code = "none" /\ a.remaining = q.remaining
    BY <2>0, FedAlive, ZenonT(40)
  <2>2. x \in (IF a.code = "none"
               THEN UNION {IF s.code = "none" THEN (IF s.remaining = 0 THEN Shift(s, "ChunkBodyCR") ELSE {s}) ELSE {s} : s \in Callback(f)}
               ELSE {a})
    <3>1. x \in AndThen({a}, LAMBDA r : AndThen(Callback([r EXCEPT !.remaining = @ - k]),
                                     LAMBDA s : IF s.remaining = 0 THEN Shift(s, "ChunkBodyCR") ELSE {s}))
      BY Zenon DEF ChunkBody
    <3> QED
      BY <3>1, Zenon DEF AndThen
  <2>3. f = Fed(q, n)
    BY <2>0, <2>1, Zenon DEF Fed
  <2>4. PICK s \in Callback(f) :
             x \in (IF s.code = "none" THEN (IF s.remaining = 0 THEN Shift(s, "ChunkBodyCR") ELSE {s}) ELSE {s})
    BY <2>1, <2>2, Zenon
  <2>5. CASE Excusable(s)
    BY <2>4, <2>5, ExcusedFails, Zenon DEF Excusable
  <2>6. CASE s = f
    <3> HIDE DEF f, a, k
    <3>1. f.code = "none"
      BY <2>1, <2>3, Zenon DEF Alive
    <3>2. f.remaining = 0 <=> n = q.remaining
      BY <2>1, <2>3, Limits DEF Lives, Sane, Within
    <3>3. CASE n = q.remaining
      <4>1. x = [f EXCEPT !.state = "ChunkBodyCR"]
        BY <2>4, <2>6, <3>1, <3>2, <3>3, ShiftLive, Zenon
      <4>2. Alive(f)
        BY <2>1, <2>3, Zenon
      <4>3. Lives(x)
        BY <4>1, <4>2 DEF Alive, Lives, Sane, Within, Fields
      <4> QED
        BY <2>3, <3>3, <4>1, <4>3, Zenon
    <3>4. CASE n # q.remaining
      BY <2>1, <2>3, <2>4, <2>6, <3>1, <3>2, <3>4, Zenon
    <3> QED
      BY <3>3, <3>4, Zenon
  <2> QED
    BY <2>1, <2>3, <2>4, <2>5, <2>6, CallbackAlive, Zenon
<1>ChunkBodyKeeps. ASSUME Http1Inv, TakeChunkBody PROVE Http1Inv'
  <2> USE <1>ChunkBodyKeeps
  <2>1. /\ Lives(p) /\ p.state = "ChunkBody" /\ result = "open" /\ Agree(p, sent)
        /\ SenderFields \subseteq DOMAIN sent /\ InChunks(p, sent) /\ sent.version # "2.0"
    BY ChunkReads, Zenon DEF TakeChunkBody, ChunkStates
  <2>2. PICK n \in Octets : TakesOctets(ChunkBody(p, n), n)
    BY Zenon DEF TakeChunkBody
  <2>3. InMessage(p, sent) /\ sent.body = "chunked" /\ ~sent.fault /\ ~p.trailers /\ p.remaining = sent.left
    BY <2>1, Zenon DEF InChunks
  <2>4. n \in 1..p.remaining /\ p.remaining \in Nat /\ n \in Nat
    BY <2>1, <2>3, Limits DEF Octets, Lives, Sane, Within
  <2> DEFINE left == sent.left - n
             r == Leaves(left)
  <2>5. p' \in ChunkBody(p, n) /\ sent' = Record(Over(r)) /\ UNCHANGED result
    BY <2>2, <2>3, Zenon DEF TakesOctets, Leaves
  <2>6. /\ SenderFields \subseteq DOMAIN r /\ r.left = left /\ r.fault = sent.fault /\ r.answered = sent.answered
        /\ r.line = sent.line /\ r.version = sent.version /\ r.body = "chunked"
    <3>1. Left(r, left)
      BY <2>1, OctetsSent, Zenon
    <3> QED
      BY <2>3, <3>1, Zenon DEF Left
  <2>7. left = 0 <=> n = p.remaining
    BY <2>3, <2>4
  <2>8. p.remaining - n = left
    BY <2>3, Zenon
  <2> HIDE DEF r, left
  <2>9. Over(r) = r
    BY <2>6, Zenon DEF Over
  <2>10. CASE \/ n # p.remaining /\ Lives(p') /\ p' = Fed(p, n)
              \/ n = p.remaining /\ Lives(p') /\ p' = [Fed(p, n) EXCEPT !.state = "ChunkBodyCR"]
    <3>1. /\ p'.state = (IF n = p.remaining THEN "ChunkBodyCR" ELSE "ChunkBody")
          /\ p'.parsing = p.parsing /\ p'.contextual = p.contextual /\ p'.kind = p.kind
          /\ p'.trailers = p.trailers /\ p'.messageActive = p.messageActive /\ p'.line = p.line /\ p'.version = p.version
          /\ p'.exchangeNum = p.exchangeNum /\ p'.head = p.head /\ p'.connect = p.connect
          /\ p'.remaining = left
      <4>1. Fields \subseteq DOMAIN p /\ Fields \subseteq DOMAIN Fed(p, n)
        BY <2>1, Zenon DEF Lives, Sane, Within, Fed
      <4>2. CASE n # p.remaining /\ p' = Fed(p, n)
        BY <2>1, <2>8, <4>1, <4>2, ZenonT(40) DEF Fed, Fields
      <4>3. CASE n = p.remaining /\ p' = [Fed(p, n) EXCEPT !.state = "ChunkBodyCR"]
        BY <2>8, <4>1, <4>3, ZenonT(40) DEF Fed, Fields
      <4> QED
        BY <2>10, <4>2, <4>3, Zenon
    <3>2. InMessage(p', r)
      BY <2>3, <2>6, <3>1, Zenon DEF InMessage, InContext
    <3>3. InChunks(p', r)
      BY <2>1, <2>3, <2>6, <2>7, <3>1, <3>2, Zenon DEF InChunks
    <3>4. Agree(p', r)
      BY <2>1, <3>1, <3>3, Zenon DEF Agree, ChunkStates
    <3> QED
      BY <2>1, <2>5, <2>6, <2>9, <2>10, <3>4, Accepts, Zenon
  <2>11. CASE Excusable(p')
    BY <2>1, <2>5, <2>11, Rejects, Zenon
  <2> QED
    BY <2>1, <2>4, <2>5, <2>10, <2>11, <1>ChunkBodyOutcome, Zenon
<1> QED
  BY <1>ChunkBodyKeeps, Zenon

\* TakeCloseBody keeps the invariant.
LEMMA CloseBodyKeeps == Http1Inv /\ TakeCloseBody => Http1Inv'
\* Octets of a body that the connection ends are taken up to the limit.
<1>CloseBodyOutcome.
    ASSUME NEW q, Lives(q), q.state = "CloseBody", NEW n \in Nat, NEW x \in CloseBody(q, n)
    PROVE  \/ Lives(x) /\ x = [q EXCEPT !.bodyBytes = q.bodyBytes + n]
           \/ Excusable(x)
  <2> USE <1>CloseBodyOutcome
  <2> DEFINE k == Least(n, MaxBodyBytes - q.bodyBytes)
             f == [q EXCEPT !.bodyBytes = q.bodyBytes + k]
  <2>1. k \in Nat /\ k <= MaxBodyBytes - q.bodyBytes /\ q.bodyBytes \in Nat
    BY Limits DEF Least, Lives, Sane, Within
  <2>2. PICK r \in (IF k = 0 THEN {f} ELSE Callback(f)) :
             x \in (IF r.code = "none" THEN (IF k # n THEN {fail(r, "BodyTooLarge")} ELSE {r}) ELSE {r})
    BY Zenon DEF CloseBody, AndThen
  <2> HIDE DEF k
  <2>3. Lives(f)
    BY <2>1, Limits DEF Lives, Sane, Within, Fields
  <2>4. r = f \/ Excusable(r)
    BY <2>2, <2>3, CallbackKeeps, Zenon
  <2>5. CASE Excusable(r)
    BY <2>2, <2>5, ExcusedFails, Zenon DEF Excusable
  <2>6. CASE r = f /\ k = n
    BY <2>2, <2>3, <2>6, Zenon DEF Lives
  <2>7. CASE r = f /\ k # n
    <3>1. "BodyTooLarge" \in Excused
      BY Zenon DEF Excused, LimitCodes
    <3> QED
      BY <2>2, <2>3, <2>7, <3>1, FailExcused, Zenon DEF Lives
  <2> QED
    BY <2>4, <2>5, <2>6, <2>7, Zenon
<1>CloseBodyKeeps. ASSUME Http1Inv, TakeCloseBody PROVE Http1Inv'
  <2> USE <1>CloseBodyKeeps
  <2>1. /\ Lives(p) /\ p.state = "CloseBody" /\ result = "open" /\ Agree(p, sent)
        /\ SenderFields \subseteq DOMAIN sent
    BY Reads, Zenon DEF TakeCloseBody
  <2>2. PICK n \in Octets : TakesOctets(CloseBody(p, n), n)
    BY Zenon DEF TakeCloseBody
  <2>3. InClose(p, sent)
    BY <2>1, Zenon DEF Agree, LineStates, HeaderStates, ChunkStates
  <2>4. sent.body = "close" /\ ~sent.fault /\ ~p.trailers /\ ~KeepAlive(p)
    BY <2>3, Zenon DEF InClose
  <2>5. n \in Nat
    BY <2>4, FragmentAssumption DEF Octets
  <2> DEFINE r == Leaves(0)
  <2>6. p' \in CloseBody(p, n) /\ sent' = Record(Over(r)) /\ UNCHANGED result
    BY <2>2, <2>4, Zenon DEF TakesOctets, Leaves
  <2>7. SenderFields \subseteq DOMAIN r /\ r.fault = sent.fault /\ r.body = "close"
    <3>1. Left(r, 0)
      BY <2>1, OctetsSent, Zenon
    <3> QED
      BY <2>4, <3>1, Zenon DEF Left
  <2> HIDE DEF r
  <2>8. Over(r) = r
    BY <2>7, Zenon DEF Over
  <2>9. CASE Lives(p') /\ p' = [p EXCEPT !.bodyBytes = p.bodyBytes + n]
    <3>1. /\ p'.state = p.state /\ p'.parsing = p.parsing /\ p'.contextual = p.contextual /\ p'.trailers = p.trailers
          /\ p'.kind = p.kind /\ p'.line = p.line /\ p'.version = p.version /\ p'.head = p.head /\ p'.connect = p.connect
          /\ SameFields(p, p')
      BY <2>1, <2>9 DEF SameFields, Lives, Sane, Within, Fields
    <3>2. ~KeepAlive(p')
      BY <2>4, <3>1, Zenon DEF KeepAlive, noResponseBody, SameFields
    <3>3. Agree(p', r)
      BY <2>1, <2>4, <2>7, <3>1, <3>2, Zenon DEF Agree, InClose
    <3> QED
      BY <2>1, <2>6, <2>7, <2>8, <2>9, <3>3, Accepts, Zenon
  <2>10. CASE Excusable(p')
    BY <2>1, <2>6, <2>10, Rejects, Zenon
  <2> QED
    BY <2>1, <2>5, <2>6, <2>9, <2>10, <1>CloseBodyOutcome, Zenon
<1> QED
  BY <1>CloseBodyKeeps, Zenon

-----------------------------------------------------------------------------
(* The application *)

\* A parser that a call of the application leaves where it is in the message.
Still(q, x) ==
    /\ x.state = q.state /\ x.kind = q.kind /\ x.contextual = q.contextual
    /\ x.exchangeNum = q.exchangeNum /\ x.head = q.head /\ x.connect = q.connect
    /\ x.messageActive = q.messageActive /\ x.trailers = q.trailers
    /\ x.line = q.line /\ x.version = q.version /\ x.chunkSize = q.chunkSize /\ x.bodyBytes = q.bodyBytes
    /\ SameFields(q, x) /\ SameList(q, x)

\* The parser after a call begins or returns: only the call itself is noted.
Calls(q, x, m) ==
    /\ Fields \subseteq DOMAIN x /\ x.parsing = m
    /\ \A f \in Fields \ {"parsing", "paused"} : x[f] = q[f]

\* A call that begins or returns keeps every limit.
LEMMA StillSane ==
  ASSUME NEW q, Sane(q), NEW m \in {"no", "Parse", "ParseOne"}, NEW x, Calls(q, x, m)
  PROVE  Sane(x) /\ Still(q, x) /\ x.code = q.code
<1>2. /\ Fields \subseteq DOMAIN x /\ x.parsing = m
      /\ \A f \in Fields \ {"parsing", "paused"} : x[f] = q[f]
  BY Zenon DEF Calls
<1>3. /\ x.code = q.code /\ x.late = q.late /\ x.startBytes = q.startBytes /\ x.prefixBytes = q.prefixBytes
      /\ x.headerBytes = q.headerBytes /\ x.headerCount = q.headerCount /\ x.chunkLineBytes = q.chunkLineBytes
      /\ x.chunkMetadataBytes = q.chunkMetadataBytes /\ x.chunkCount = q.chunkCount
  BY <1>2, ZenonT(40) DEF Fields
<1>4. Still(q, x)
  BY <1>2, ZenonT(40) DEF Fields, Still, SameFields, SameList
<1> QED
  BY <1>2, <1>3, <1>4, Zenon DEF Sane, Within, Still, SameFields

\* A call keeps the agreement where its context is that of the response being sent.
LEMMA StillAgrees ==
  ASSUME NEW q, NEW x, NEW s, Agree(q, s), Still(q, x),
         x.parsing = "Parse" => x.contextual, x.parsing = "ParseOne" => ~x.contextual,
         (x.kind = "Response" /\ x.state = "Start" /\ x.parsing = "ParseOne" /\ ~x.paused) => InContext(x, s)
  PROVE  Agree(x, s)
<1>1. AtRest(q, s) => AtRest(x, s)
  BY Zenon DEF AtRest, Still
<1>2. InMessage(q, s) => InMessage(x, s)
  BY Zenon DEF InMessage, InContext, Still
<1>3. InLine(q, s) => InLine(x, s)
  BY <1>2, Zenon DEF InLine, Still, SameFields
<1>4. InHead(q, s) => InHead(x, s)
  <2>1. Knows(q, s) => Knows(x, s)
    BY ZenonT(40) DEF Knows, Seen, Still, SameFields
  <2>2. InValue(q, s) => InValue(x, s)
    BY ZenonT(40) DEF InValue, InList, Repeats, Still, SameFields, SameList
  <2> QED
    BY <1>2, <2>1, <2>2, Zenon DEF InHead, Still
<1>5. InTrailers(q, s) => InTrailers(x, s)
  BY <1>2, Zenon DEF InTrailers, Still, SameList
<1>6. InChunks(q, s) => InChunks(x, s)
  BY <1>2, Zenon DEF InChunks, Still, SameFields
<1>7. InFixed(q, s) => InFixed(x, s)
  BY <1>2, Zenon DEF InFixed, Still, SameFields
<1>8. InClose(q, s) => InClose(x, s)
  BY Zenon DEF InClose, KeepAlive, noResponseBody, Still, SameFields
<1> QED
  BY <1>1, <1>3, <1>4, <1>5, <1>6, <1>7, <1>8, Zenon DEF Agree, Still

\* ReadParse keeps the invariant: the parser asks for the context itself.
LEMMA ReadParseKeeps ==
  ASSUME Http1Inv, ReadParse PROVE Http1Inv'
<1>1. /\ result = "open" /\ p.contextual /\ p.code = "none" /\ UNCHANGED <<sent, result>>
      /\ p' = [p EXCEPT !.parsing = "Parse", !.paused = FALSE]
  BY Zenon DEF ReadParse, BeginParse
<1>2. Sane(p) /\ Agree(p, sent) /\ SenderFields \subseteq DOMAIN sent
  BY <1>1, Zenon DEF Http1Inv
<1>3. Sane(p') /\ Still(p, p') /\ p'.code = p.code /\ p'.parsing = "Parse"
  <2>1. Fields \subseteq DOMAIN p
    BY <1>2, Zenon DEF Sane, Within
  <2>2. p'.parsing = "Parse"
    BY <1>1, <2>1, Zenon DEF Fields
  <2>3. DOMAIN p' = DOMAIN p /\ \A f \in Fields \ {"parsing", "paused"} : p'[f] = p[f]
    BY <1>1, <2>1, Zenon
  <2>4. Calls(p, p', "Parse")
    BY <2>1, <2>2, <2>3, Zenon DEF Calls
  <2> QED
    BY <1>2, <2>2, <2>4, StillSane, Zenon
<1>4. Agree(p', sent)
  BY <1>1, <1>2, <1>3, StillAgrees, Zenon DEF Still
<1> QED
  BY <1>1, <1>2, <1>3, <1>4, Zenon DEF Http1Inv

\* ReadParseOne keeps the invariant: the application has given the context of this
\* response.
LEMMA ReadParseOneKeeps ==
  ASSUME Http1Inv, ReadParseOne PROVE Http1Inv'
<1>1. /\ result = "open" /\ ~p.contextual /\ p.code = "none" /\ UNCHANGED <<sent, result>>
      /\ p' = [p EXCEPT !.parsing = "ParseOne", !.paused = FALSE]
      /\ p.kind = "Response" /\ p.state = "Start" => [head |-> p.head, connect |-> p.connect] = Context(p.exchangeNum)
  BY Zenon DEF ReadParseOne, BeginParse
<1>2. Sane(p) /\ Agree(p, sent) /\ SenderFields \subseteq DOMAIN sent
  BY <1>1, Zenon DEF Http1Inv
<1>3. Sane(p') /\ Still(p, p') /\ p'.code = p.code /\ p'.parsing = "ParseOne"
  <2>1. Fields \subseteq DOMAIN p
    BY <1>2, Zenon DEF Sane, Within
  <2>2. p'.parsing = "ParseOne"
    BY <1>1, <2>1, Zenon DEF Fields
  <2>3. DOMAIN p' = DOMAIN p /\ \A f \in Fields \ {"parsing", "paused"} : p'[f] = p[f]
    BY <1>1, <2>1, Zenon
  <2>4. Calls(p, p', "ParseOne")
    BY <2>1, <2>2, <2>3, Zenon DEF Calls
  <2> QED
    BY <1>2, <2>2, <2>4, StillSane, Zenon
<1>4. p.kind = "Response" /\ p.state = "Start" => InContext(p, sent)
  <2>1. p.state = "Start" => AtRest(p, sent)
    BY <1>2, Zenon DEF Agree, LineStates, HeaderStates, ChunkStates
  <2>2. p.kind = "Response" /\ p.state = "Start" => p.exchangeNum = sent.answered
    BY <2>1, Zenon DEF AtRest
  <2>3. [head |-> p.head, connect |-> p.connect].head = p.head /\ [head |-> p.head, connect |-> p.connect].connect = p.connect
    BY Zenon
  <2> QED
    BY <1>1, <2>2, <2>3, Zenon DEF InContext
<1>5. Agree(p', sent)
  <2>1. p.kind = "Response" /\ p.state = "Start" => InContext(p', sent)
    BY <1>3, <1>4, Zenon DEF InContext, Still
  <2> QED
    BY <1>1, <1>2, <1>3, <2>1, StillAgrees, Zenon DEF Still
<1> QED
  BY <1>1, <1>2, <1>3, <1>5, Zenon DEF Http1Inv

\* Returns keeps the invariant.
LEMMA ReturnsKeeps ==
  ASSUME Http1Inv, Returns PROVE Http1Inv'
<1>1. p.parsing # "no" /\ p' = [p EXCEPT !.parsing = "no"] /\ UNCHANGED <<sent, result>>
  BY Zenon DEF Returns, EndParse
<1>2. Sane(p) /\ SenderFields \subseteq DOMAIN sent /\ result = "open"
  BY <1>1, Zenon DEF Http1Inv
<1>3. Sane(p') /\ Still(p, p') /\ p'.code = p.code /\ p'.parsing = "no"
  <2>1. Fields \subseteq DOMAIN p
    BY <1>2, Zenon DEF Sane, Within
  <2>2. p'.parsing = "no"
    BY <1>1, <2>1, Zenon DEF Fields
  <2>3. DOMAIN p' = DOMAIN p /\ \A f \in Fields \ {"parsing", "paused"} : p'[f] = p[f]
    BY <1>1, <2>1, Zenon
  <2>4. Calls(p, p', "no")
    BY <2>1, <2>2, <2>3, Zenon DEF Calls
  <2> QED
    BY <1>2, <2>2, <2>4, StillSane, Zenon
<1>4. p.code = "none" => Agree(p', sent)
  BY <1>2, <1>3, StillAgrees, Zenon DEF Http1Inv
<1> QED
  BY <1>1, <1>2, <1>3, <1>4, Zenon DEF Http1Inv

\* SetContext keeps the invariant, between messages and outside a call.
LEMMA SetContextKeeps ==
  ASSUME Http1Inv, SetContext PROVE Http1Inv'
<1> DEFINE c == Context(p.exchangeNum)
<1>1. /\ result = "open" /\ p.state = "Start" /\ p.parsing = "no" /\ UNCHANGED <<sent, result>>
      /\ p' = [p EXCEPT !.head = c.head, !.connect = c.connect]
  BY Zenon DEF SetContext, SetResponseContext
<1> HIDE DEF c
<1>2. Sane(p) /\ p.code = "none" /\ SenderFields \subseteq DOMAIN sent /\ Agree(p, sent)
  <2>1. Sane(p) /\ p.code = "none"
    BY <1>1, Zenon DEF Http1Inv, Sane, Within
  <2> QED
    BY <1>1, <2>1, Zenon DEF Http1Inv
<1>3. /\ Sane(p') /\ p'.code = p.code /\ p'.parsing = p.parsing /\ p'.state = p.state /\ p'.kind = p.kind
      /\ p'.contextual = p.contextual
      /\ p'.messageActive = p.messageActive /\ p'.trailers = p.trailers /\ p'.exchangeNum = p.exchangeNum
  BY <1>1, <1>2 DEF Sane, Within, Fields
<1>4. AtRest(p, sent)
  BY <1>1, <1>2, Zenon DEF Agree, LineStates, HeaderStates, ChunkStates
<1>5. AtRest(p', sent)
  BY <1>1, <1>3, <1>4, Zenon DEF AtRest
<1>6. Agree(p', sent)
  BY <1>1, <1>3, <1>5, Zenon DEF Agree
<1> QED
  BY <1>1, <1>2, <1>3, <1>6, Zenon DEF Http1Inv

\* The end of a message fails only where its callback re-enters the parser.
LEMMA CompleteEnds ==
  ASSUME NEW q, Lives(q), NEW x \in completeMessage(q)
  PROVE  x.code \in {"none", "ReentrantCall"} /\ x.parsing = q.parsing
<1> DEFINE d(r) == [r EXCEPT !.exchangeNum = IF r.kind = "Response" /\ r.line # "100" THEN @ + 1 ELSE @,
                             !.messageActive = FALSE, !.trailers = FALSE, !.state = "Start",
                             !.paused = r.parsing = "ParseOne"]
<1> DEFINE f == fail(q, "ReentrantCall")
<1>1. PICK r \in Callback(q) : x \in (IF r.code = "none" THEN {d(r)} ELSE {r})
  BY Zenon DEF completeMessage, AndThen
<1>2. r = q \/ r = f
  BY <1>1, Zenon DEF Callback, Lives
<1>3. Fields \subseteq DOMAIN q /\ q.code = "none"
  BY Zenon DEF Lives, Sane, Within
<1>4. f.code = "ReentrantCall" /\ f.parsing = q.parsing
  BY <1>3, Zenon DEF fail, NewParser
<1>5. d(q).code = "none" /\ d(q).parsing = q.parsing
  BY <1>3, Zenon DEF Fields
<1>6. x = d(q) \/ x = f
  BY <1>1, <1>2, <1>3, <1>4, ZenonT(40)
<1> HIDE DEF d, f
<1> QED
  BY <1>4, <1>5, <1>6, Zenon

\* What Finish reports to the application, and of whom.
LEMMA EndsOutcome ==
  ASSUME Http1Inv, Ends
  PROVE  /\ Lives(p) /\ Agree(p, sent) /\ SenderFields \subseteq DOMAIN sent /\ UNCHANGED sent
         /\ result' = p'.code /\ Sane(p') /\ p'.parsing = "no" /\ p'.code \in {"none", "ReentrantCall", "UnexpectedEOF"}
         /\ p'.code = "UnexpectedEOF" <=> ~(p.state = "CloseBody" \/ p.state = "Start")
<1>1. /\ result = "open" /\ p.parsing = "no" /\ p.code = "none" /\ result' = p'.code /\ UNCHANGED sent
  BY Zenon DEF Ends, Finish
<1>2. Lives(p) /\ Agree(p, sent) /\ SenderFields \subseteq DOMAIN sent
  BY <1>1, Zenon DEF Http1Inv, Lives
<1>3. "CloseBody" # "Start"
  BY Zenon
<1>4. p.state = "Start" => ~p.messageActive
  BY <1>2, Zenon DEF Agree, LineStates, HeaderStates, ChunkStates, AtRest
<1>5. CASE p.state = "CloseBody"
  <2>1. p' \in completeMessage(p)
    BY <1>3, <1>5, Zenon DEF Ends, Finish
  <2>2. Sane(p')
    BY <1>2, <2>1, CompleteMessage, Zenon DEF Lives, Excusable
  <2>3. p'.code \in {"none", "ReentrantCall"} /\ p'.parsing = p.parsing
    BY <1>2, <2>1, CompleteEnds, Zenon
  <2> QED
    BY <1>1, <1>2, <1>5, <2>2, <2>3, Zenon
<1>6. CASE p.state = "Start"
  <2>1. p' = p
    BY <1>3, <1>4, <1>6, Zenon DEF Ends, Finish
  <2> QED
    BY <1>1, <1>2, <1>6, <2>1, Zenon DEF Lives
<1>7. CASE ~(p.state = "CloseBody" \/ p.state = "Start")
  <2>1. p' = fail(p, "UnexpectedEOF")
    BY <1>7, Zenon DEF Ends, Finish
  <2>2. Sane(p') /\ p'.code = "UnexpectedEOF"
    BY <1>2, <2>1, FailSane, Zenon
  <2>3. p'.parsing = p.parsing
    <3>1. Fields \subseteq DOMAIN p
      BY <1>2, Zenon DEF Lives, Sane, Within
    <3> QED
      BY <1>1, <2>1, <3>1, Zenon DEF fail, NewParser
  <2> QED
    BY <1>1, <1>2, <1>7, <2>2, <2>3, Zenon
<1> QED
  BY <1>5, <1>6, <1>7, Zenon

\* Ends keeps the invariant: a message that is cut is reported, and blames nobody.
LEMMA EndsKeeps ==
  ASSUME Http1Inv, Ends PROVE Http1Inv'
<1>1. /\ Lives(p) /\ Agree(p, sent) /\ SenderFields \subseteq DOMAIN sent /\ UNCHANGED sent
      /\ result' = p'.code /\ Sane(p') /\ p'.parsing = "no" /\ p'.code \in {"none", "ReentrantCall", "UnexpectedEOF"}
      /\ p'.code = "UnexpectedEOF" <=> ~(p.state = "CloseBody" \/ p.state = "Start")
  BY EndsOutcome, Zenon
<1>2. p'.code = "none" => ~sent.fault
  <2>1. p.state = "Start" => AtRest(p, sent)
    BY <1>1, Zenon DEF Agree, LineStates, HeaderStates, ChunkStates
  <2>2. p.state = "CloseBody" => InClose(p, sent)
    BY <1>1, Zenon DEF Agree, LineStates, HeaderStates, ChunkStates
  <2>3. p.state = "Start" => ~sent.fault
    <3>1. Idle(sent.answered).fault = FALSE
      BY Zenon DEF Idle
    <3> QED
      BY <2>1, <3>1, Zenon DEF AtRest
  <2> QED
    BY <1>1, <2>2, <2>3, Zenon DEF InClose
<1>3. result' # "open" /\ ~(p'.code = "none" /\ result' = "open")
  BY <1>1, Zenon
<1>4. p'.code \in {"none"} \cup Excused
  BY <1>1, Zenon DEF Excused
<1> QED
  BY <1>1, <1>2, <1>3, <1>4, Zenon DEF Http1Inv

\* A new parser, and one that is reset, agrees with a sender that has sent nothing.
LEMMA NewAgrees ==
  ASSUME NEW k \in Kinds, NEW c
  PROVE  /\ Sane(NewParser(k, c)) /\ NewParser(k, c).code = "none" /\ NewParser(k, c).parsing = "no"
         /\ Agree(NewParser(k, c), Idle(0)) /\ SenderFields \subseteq DOMAIN Idle(0)
<1> DEFINE q == NewParser(k, c)
<1>1. /\ q.state = "Start" /\ q.code = "none" /\ q.parsing = "no" /\ q.exchangeNum = 0
      /\ ~q.messageActive /\ ~q.trailers
  BY Zenon DEF NewParser
<1>2. Idle(0).answered = 0
  BY Zenon DEF Idle
<1>3. Sane(q)
  BY NewSane, Zenon
<1>4. SenderFields \subseteq DOMAIN Idle(0)
  BY Zenon DEF SenderFields, Idle
<1> HIDE DEF q
<1>5. AtRest(q, Idle(0))
  <2>1. 0 \in Nat
    BY Zenon
  <2>2. q.parsing # "ParseOne"
    BY <1>1, Zenon
  <2> QED
    BY <1>1, <1>2, <2>1, <2>2, Zenon DEF AtRest
<1>6. Agree(q, Idle(0))
  BY <1>1, <1>5, Zenon DEF Agree
<1> QED
  BY <1>1, <1>3, <1>4, <1>6, Zenon DEF q

\* Restart keeps the invariant.
LEMMA RestartKeeps ==
  ASSUME Http1Inv, Restart PROVE Http1Inv'
<1>1. p.kind \in Kinds
  BY Zenon DEF Http1Inv, Sane, Within
<1>2. p' = NewParser(p.kind, p.contextual) /\ sent' = Idle(0) /\ result' = "open"
  BY Zenon DEF Restart, Reset
<1>3. /\ Sane(p') /\ p'.code = "none" /\ p'.parsing = "no" /\ Agree(p', sent') /\ SenderFields \subseteq DOMAIN sent'
  BY <1>1, <1>2, NewAgrees, Zenon
<1> QED
  BY <1>2, <1>3, Zenon DEF Http1Inv

\* The invariant holds of a new connection.
LEMMA InitInv == Http1Init => Http1Inv
<1> SUFFICES ASSUME Http1Init PROVE Http1Inv
  BY Zenon
<1>1. PICK k \in Kinds, c \in BOOLEAN : p = NewParser(k, c)
  BY Zenon DEF Http1Init
<1>2. sent = Idle(0) /\ result = "open"
  BY Zenon DEF Http1Init
<1>3. /\ Sane(p) /\ p.code = "none" /\ p.parsing = "no" /\ Agree(p, sent) /\ SenderFields \subseteq DOMAIN sent
  BY <1>1, <1>2, NewAgrees, Zenon
<1> QED
  BY <1>2, <1>3, Zenon DEF Http1Inv

\* Every step of the connection keeps the parser and the sender in agreement.
LEMMA NextInv == Http1Inv /\ [Http1Next]_http1Vars => Http1Inv'
<1> SUFFICES ASSUME Http1Inv, [Http1Next]_http1Vars PROVE Http1Inv'
  BY Zenon
<1>1. CASE TakeStart
  BY <1>1, StartKeeps, Zenon
<1>2. CASE TakeLeadingLF
  BY <1>2, LeadingLFKeeps, ZenonT(40)
<1>3. CASE TakeReqTarget
  BY <1>3, ReqTargetKeeps, Zenon
<1>4. CASE TakeReqLineCR
  BY <1>4, ReqLineCRKeeps, Zenon
<1>5. CASE TakeResStatus
  BY <1>5, ResStatusKeeps, Zenon
<1>6. CASE TakeResReason
  BY <1>6, ResReasonKeeps, Zenon
<1>7. CASE TakeLineLF
  BY <1>7, LineLFKeeps, Zenon
<1>8. CASE TakeHeaderStart
  BY <1>8, HeaderStartKeeps, Zenon
<1>9. CASE TakeHeaderValue
  BY <1>9, HeaderValueKeeps, Zenon
<1>10. CASE TakeHeaderValueLF
  BY <1>10, HeaderValueLFKeeps, Zenon
<1>11. CASE TakeHeadersLF
  BY <1>11, HeadersLFKeeps, Zenon
<1>12. CASE TakeChunkSize
  BY <1>12, ChunkSizeKeeps, Zenon
<1>13. CASE TakeChunkExt
  BY <1>13, ChunkExtKeeps, Zenon
<1>14. CASE TakeChunkSizeLF
  BY <1>14, ChunkSizeLFKeeps, Zenon
<1>15. CASE TakeChunkBodyCR
  BY <1>15, ChunkBodyCRKeeps, Zenon
<1>16. CASE TakeChunkBodyLF
  BY <1>16, ChunkBodyLFKeeps, Zenon
<1>17. CASE TakeFixedBody
  BY <1>17, FixedBodyKeeps, Zenon
<1>18. CASE TakeCloseBody
  BY <1>18, CloseBodyKeeps, Zenon
<1>19. CASE TakeChunkBody
  BY <1>19, ChunkBodyKeeps, Zenon
<1>20. CASE ReadParse
  BY <1>20, ReadParseKeeps, Zenon
<1>21. CASE ReadParseOne
  BY <1>21, ReadParseOneKeeps, ZenonT(40)
<1>22. CASE Returns
  BY <1>22, ReturnsKeeps, Zenon
<1>23. CASE SetContext
  BY <1>23, SetContextKeeps, Zenon
<1>24. CASE Ends
  BY <1>24, EndsKeeps, Zenon
<1>25. CASE Restart
  BY <1>25, RestartKeeps, Zenon
<1>26. CASE UNCHANGED http1Vars
  BY <1>26, Zenon DEF http1Vars, Http1Inv
<1> QED
  BY <1>1, <1>2, <1>3, <1>4, <1>5, <1>6, <1>7, <1>8, <1>9, <1>10, <1>11, <1>12, <1>13, <1>14, <1>15, <1>16, <1>17, <1>18, <1>19, <1>20, <1>21, <1>22, <1>23, <1>24, <1>25, <1>26, ZenonT(40) DEF Http1Next

\* The invariant holds of every connection.
LEMMA InvHolds == Http1Spec => []Http1Inv
BY InitInv, NextInv, PTL DEF Http1Spec

\* For every limit and whatever is sent, no count of the parser passes its limit,
\* so that no unsigned difference of the code wraps around.
THEOREM ParserWithinLimits == Http1Spec => []ParserTypeOK
<1>1. Http1Inv => ParserTypeOK
  BY Zenon DEF Http1Inv, Sane, Within, ParserTypeOK
<1> QED
  BY <1>1, InvHolds, PTL

\* A parser that has failed calls no callback.
THEOREM FailureIsSilent == Http1Spec => []FailedIsSilent
<1>1. Http1Inv => FailedIsSilent
  BY Zenon DEF Http1Inv, Sane, Within, FailedIsSilent
<1> QED
  BY <1>1, InvHolds, PTL

\* The parser and the sender agree on where every message ends.
THEOREM EndsAgree == Http1Spec => []InStep
<1>1. Http1Inv => InStep
  <2> SUFFICES ASSUME Http1Inv, p.code = "none", result = "open" PROVE InStep
    BY Zenon DEF InStep
  <2>1. Agree(p, sent)
    BY Zenon DEF Http1Inv
  <2>2. ASSUME p.state \in {"Start", "LeadingLF"}, AtRest(p, sent) PROVE InStep
    <3>1. Idle(sent.answered).body = "done"
      BY Zenon DEF Idle
    <3>2. sent.body = "done" /\ ~p.trailers /\ (p.kind = "Response" => p.exchangeNum = sent.answered)
      BY <2>2, <3>1, Zenon DEF AtRest
    <3> QED
      BY <2>2, <3>2, Zenon DEF InStep
  <2>3. ASSUME p.state \in LineStates, InLine(p, sent) PROVE InStep
    BY <2>3, Zenon DEF InStep, LineStates, InLine
  <2>4. ASSUME p.state \in HeaderStates, ~p.trailers, InHead(p, sent) PROVE InStep
    BY <2>4, Zenon DEF InStep, HeaderStates, InHead
  <2>5. ASSUME p.state \in HeaderStates, InTrailers(p, sent) PROVE InStep
    BY <2>5, Zenon DEF InStep, HeaderStates, InTrailers
  <2>6. ASSUME p.state \in ChunkStates, InChunks(p, sent) PROVE InStep
    BY <2>6, Zenon DEF InStep, ChunkStates, InChunks
  <2>7. ASSUME p.state = "FixedBody", InFixed(p, sent) PROVE InStep
    BY <2>7, Zenon DEF InStep, InFixed
  <2>8. ASSUME p.state = "CloseBody", InClose(p, sent) PROVE InStep
    BY <2>8, Zenon DEF InStep, InClose
  <2>9. ASSUME p.state = "Upgrade", sent.body = "tunnel", ~p.trailers PROVE InStep
    BY <2>9, Zenon DEF InStep
  <2> QED
    BY <2>1, <2>2, <2>3, <2>4, <2>5, <2>6, <2>7, <2>8, <2>9, Zenon DEF Agree
<1> QED
  BY <1>1, InvHolds, PTL

\* The parser rejects what breaks a rule of framing, and nothing else.
THEOREM RejectsForCause == Http1Spec => []RejectedForCause
<1>1. Http1Inv => RejectedForCause
  <2> SUFFICES ASSUME Http1Inv PROVE RejectedForCause
    BY Zenon
  <2>1. p.code \notin LimitCodes \cup {"none", "ReentrantCall", "UnexpectedEOF"} => sent.fault
    BY Zenon DEF Http1Inv, Excused
  <2>2. ASSUME p.code = "none", result # "open" PROVE ~sent.fault
    BY <2>2, Zenon DEF Http1Inv
  <2>3. ASSUME p.code = "none", result = "open" PROVE ~sent.fault \/ sent.body = "head"
    <3>1. Agree(p, sent)
      BY <2>3, Zenon DEF Http1Inv
    <3>2. AtRest(p, sent) => ~sent.fault
      <4>1. Idle(sent.answered).fault = FALSE
        BY Zenon DEF Idle
      <4> QED
        BY <4>1, Zenon DEF AtRest
    <3> QED
      BY <3>1, <3>2, Zenon DEF Agree, InLine, InHead, InTrailers, InChunks, InFixed, InClose
  <2> QED
    BY <2>1, <2>2, <2>3, Zenon DEF RejectedForCause
<1> QED
  BY <1>1, InvHolds, PTL

\* Finish reports truncation exactly when the sender stopped inside a message, or
\* inside the line break before one.
THEOREM TruncationReported == Http1Spec => FinishTruthful
<1>1. ASSUME Http1Inv, Ends
      PROVE  result' = "UnexpectedEOF" <=> sent.body \in {"head", "fixed", "chunked"} \/ p.state = "LeadingLF"
  <2>1. Agree(p, sent) /\ p.state # "Upgrade"
    BY <1>1, EndsOutcome, Zenon DEF Ends, Finish
  <2>2. result' = "UnexpectedEOF" <=> ~(p.state = "CloseBody" \/ p.state = "Start")
    BY <1>1, EndsOutcome, Zenon
  <2>3. AtRest(p, sent) => sent.body = "done"
    <3>1. Idle(sent.answered).body = "done"
      BY Zenon DEF Idle
    <3> QED
      BY <3>1, Zenon DEF AtRest
  <2>4. /\ InLine(p, sent) \/ InHead(p, sent) => sent.body = "head"
        /\ InTrailers(p, sent) \/ InChunks(p, sent) => sent.body = "chunked"
        /\ InFixed(p, sent) => sent.body = "fixed"
        /\ InClose(p, sent) => sent.body = "close"
    BY Zenon DEF InLine, InHead, InTrailers, InChunks, InFixed, InClose
  <2>5. p.state \in LineStates \cup HeaderStates \cup ChunkStates => p.state \notin {"CloseBody", "Start"}
    BY Zenon DEF LineStates, HeaderStates, ChunkStates
  <2>6. \/ p.state = "Start" /\ sent.body = "done"
        \/ p.state = "LeadingLF"
        \/ p.state = "CloseBody" /\ sent.body = "close"
        \/ p.state \notin {"CloseBody", "Start"} /\ sent.body \in {"head", "fixed", "chunked"}
    BY <2>1, <2>3, <2>4, <2>5, Zenon DEF Agree
  <2> QED
    BY <2>2, <2>6, Zenon
<1>2. Http1Inv /\ [Http1Next]_http1Vars => [Ends => (result' = "UnexpectedEOF" <=>
        sent.body \in {"head", "fixed", "chunked"} \/ p.state = "LeadingLF")]_http1Vars
  BY <1>1, Zenon
<1> QED
  BY <1>2, InvHolds, PTL DEF Http1Spec, FinishTruthful
=============================================================================
