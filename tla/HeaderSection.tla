---------------------------- MODULE HeaderSection ----------------------------
(***************************************************************************)
(* HTTP/2 field sections as a Session sees them, and the progress of one   *)
(* direction of a message.                                                 *)
(*                                                                         *)
(* A decoded section is abstracted to what inspectHeaderSection and        *)
(* validateHeaderSection make of it: its kind and its Content-Length.      *)
(*   "HEAD", "request"     a valid request section (of method HEAD, other) *)
(*   "response"            a valid final response that may have a body     *)
(*   "bodiless"            a valid 204 or 304 response                     *)
(*   "informational"       a valid 1xx response                            *)
(*   "trailers"            a valid section without pseudo-header fields    *)
(*   "malformed"           a section validateHeaderSection rejects         *)
(*   "undecodable"         a block the HPACK decoder rejects               *)
(***************************************************************************)
EXTENDS Integers

NoLength == -1   \* the section has no Content-Length

RequestKind == {"HEAD", "request"}

ResponseKind == {"response", "bodiless", "informational"}

SectionKind == RequestKind \cup ResponseKind \cup {"trailers", "malformed", "undecodable"}

Section == [kind : SectionKind, length : {NoLength} \cup Nat]

\* validateHeaderSection: trailers carry no pseudo-header fields, sections that
\* travel from client to server are requests and the others responses.
ValidSection(role, outbound, trailer, section) ==
  \/ trailer /\ section.kind = "trailers"
  \/ ~trailer /\ ((role = "client") <=> outbound) /\ section.kind \in RequestKind
  \/ ~trailer /\ ~((role = "client") <=> outbound) /\ section.kind \in ResponseKind

\* metadata.method; "" stands for a section without :method.
MethodOf(section) ==
  CASE section.kind = "HEAD" -> "HEAD"
    [] section.kind = "request" -> "other"
    [] OTHER -> ""

Method == {"", "HEAD", "other"}

FirstNonEmpty(current, next) == IF current # "" THEN current ELSE next

Informational(section) == section.kind = "informational"

\* The message has no body: a 204 or 304, or a response to HEAD.
NoBody(method, section) ==
  \/ section.kind = "bodiless"
  \/ method = "HEAD" /\ section.kind \in ResponseKind

-----------------------------------------------------------------------------
\* One direction of a message on one stream: the sent* and send* fields of
\* sessionStream, or the received* and receive* ones.
Progress == [headers : BOOLEAN, trailers : BOOLEAN, noBody : BOOLEAN,
             length : {NoLength} \cup Nat, body : Nat]

NoProgress == [headers |-> FALSE, trailers |-> FALSE, noBody |-> FALSE,
               length |-> NoLength, body |-> 0]

\* The progress after a final section: trailers overwrite the Content-Length of
\* the header section.
AfterSection(progress, section, noBody) ==
  [headers |-> TRUE,
   trailers |-> progress.trailers \/ progress.headers,
   noBody |-> noBody,
   length |-> section.length,
   body |-> progress.body]

AfterData(progress, n) == [progress EXCEPT !.body = @ + n]

\* Mutant: the bytes of earlier frames are forgotten.
ExceedsAlone(progress, n) == progress.length # NoLength /\ n > progress.length

\* n more bytes exceed the Content-Length. The code subtracts unsigned 64-bit
\* numbers: once body exceeds length the difference wraps to a huge one.
Exceeds(progress, n) ==
  /\ progress.length # NoLength
  /\ progress.length >= progress.body
  /\ n > progress.length - progress.body

\* The body that ends here is not as long as its Content-Length announced.
LengthMismatch(progress) ==
  /\ progress.length # NoLength
  /\ ~progress.noBody
  /\ progress.length # progress.body
=============================================================================
