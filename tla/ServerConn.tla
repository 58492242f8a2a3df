------------------------------ MODULE ServerConn ------------------------------
(***************************************************************************)
(* The HTTP/2 server connection of http2/server/server.go: Serve, which    *)
(* reads and calls the handler; ResponseWriters, which the application     *)
(* uses from any goroutine; and Close.                                     *)
(*                                                                         *)
(* A critical section of conn.mu is one step, with the flush inside it;    *)
(* handler callbacks run without it.  The session is the one of Session,   *)
(* reduced to what a connection sees of it: the states of streams, the     *)
(* send windows and the events that a frame raises.                        *)
(*                                                                         *)
(* The application answers a stream with headers and a body of Body units. *)
(* It waits for Writable when a Write comes back short, and writes again.  *)
(***************************************************************************)
EXTENDS Naturals, Sequences, FiniteSetsExt, Functions

CONSTANTS
  Requests,   \* the streams the peer may open
  Pushes,     \* the streams the application may promise
  Body,       \* units of a response body
  MaxCredit,  \* bound: the largest send window
  Casts       \* bound: what there is in a behaviour, see cast

ASSUME ServerAssumption ==
  /\ Requests \cap Pushes = {} /\ "connection" \notin Requests \cup Pushes
  /\ Body \in Nat \ {0}
  /\ MaxCredit \in Nat

VARIABLES
  stream,     \* state of each stream in the session
  credit,     \* send window of each stream, and of "connection"
  resized,    \* SETTINGS has moved the send windows of the streams
  cast,       \* what there is: a "body" in requests, "push", frames to "reject",
              \* "settings" that move windows, a stream that may "break"
  left,       \* what each response has yet to send; Body + 1 before its headers
  waiting,    \* the streams whose application waits for Writable
  held,       \* the streams whose ResponseWriter the application has
  told,       \* the callbacks that each stream has had
  writers,    \* conn.writers
  reader,     \* where Serve is, the stream and the events of the frame it
              \* dispatches, the writers to notify
  closed,     \* conn.closed
  closer,     \* where Close is
  broken      \* the byte stream does not take writes

sessionVars == <<stream, credit, resized, cast>>
appVars == <<left, waiting, held, told>>
vars == <<sessionVars, appVars, writers, reader, closed, closer, broken>>

Streams == Requests \cup Pushes

NoHeaders == Body + 1

CanSend(x) == stream[x] \in {"open", "remote", "reserved"}

PeerCanSend(x) == stream[x] \in {"open", "local"}

Active(x) == stream[x] \notin {"idle", "closed"}

LocalEnd(x) == IF stream[x] = "open" THEN "local" ELSE "closed"

RemoteEnd(x) == IF stream[x] = "open" THEN "remote" ELSE "closed"

\* flushLocked: a byte stream that has failed a write fails them all.
Flush(ok) ==
  /\ IF ok THEN ~broken ELSE broken \/ "break" \in cast
  /\ broken' = (broken \/ ~ok)

-----------------------------------------------------------------------------
(* ResponseWriter                                                          *)

\* Headers: the response headers, or the whole response, or the trailers.
Headers(x, end) ==
  /\ x \in held /\ ~closed
  /\ CanSend(x)
  /\ left[x] = NoHeaders \/ end
  /\ stream' = [stream EXCEPT ![x] =
       IF end THEN LocalEnd(x) ELSE IF @ = "reserved" THEN "remote" ELSE @]
  /\ left' = [left EXCEPT ![x] = IF end THEN 0 ELSE Body]
  /\ \/ Flush(TRUE) /\ writers' = IF end THEN writers \ {x} ELSE writers
     \/ Flush(FALSE) /\ UNCHANGED writers
  /\ waiting' = IF end THEN waiting \ {x} ELSE waiting
  /\ UNCHANGED <<credit, resized, cast, held, told, reader, closed, closer>>

\* What SendData can take now.
Sendable(x) == Min({left[x], credit[x], credit["connection"]})

\* Mutant: a short write removes the writer.
FinishedAlways(x, n) == TRUE

\* Write removes the writer only when all that it was given went out.
Finished(x, n) == n = left[x]

\* Write of what is left of the body, with END_STREAM.
Write(x) ==
  LET n == Sendable(x) IN
  /\ x \in held /\ ~closed
  /\ CanSend(x) /\ left[x] \in 1..Body /\ x \notin waiting
  /\ credit' = [credit EXCEPT ![x] = @ - n, !["connection"] = @ - n]
  /\ left' = [left EXCEPT ![x] = @ - n]
  /\ stream' = [stream EXCEPT ![x] = IF n = left[x] THEN LocalEnd(x) ELSE @]
  /\ \/ n = 0 /\ UNCHANGED <<broken, writers>>
     \/ n > 0 /\ Flush(TRUE) /\ writers' = IF Finished(x, n) THEN writers \ {x} ELSE writers
     \/ n > 0 /\ Flush(FALSE) /\ UNCHANGED writers
  /\ waiting' = IF n < left[x] THEN waiting \cup {x} ELSE waiting
  /\ UNCHANGED <<resized, cast, held, told, reader, closed, closer>>

\* Reset, also of a closed stream, which the session retains for some time.
Reset(x) ==
  /\ x \in held /\ ~closed
  /\ stream[x] # "idle"
  /\ stream' = [stream EXCEPT ![x] = "closed"]
  /\ waiting' = waiting \ {x}
  /\ writers' = writers \ {x}
  /\ \E ok \in BOOLEAN : Flush(ok)
  /\ UNCHANGED <<credit, resized, cast, left, held, told, reader, closed, closer>>

PushPromise(x, p) ==
  /\ x \in held /\ ~closed
  /\ CanSend(x) /\ stream[p] = "idle" /\ "push" \in cast
  /\ stream' = [stream EXCEPT ![p] = "reserved"]
  /\ \/ Flush(TRUE) /\ writers' = writers \cup {p} /\ held' = held \cup {p}
     \/ Flush(FALSE) /\ UNCHANGED <<writers, held>>
  /\ UNCHANGED <<credit, resized, cast, left, waiting, told, reader, closed, closer>>

\* PriorityUpdate: a frame that names the stream, in whatever state this is.
PriorityUpdate(x) ==
  /\ x \in held /\ ~closed
  /\ \E ok \in BOOLEAN : Flush(ok)
  /\ UNCHANGED <<sessionVars, appVars, writers, reader, closed, closer>>

-----------------------------------------------------------------------------
(* Serve                                                                   *)

Quiet(label) == [at |-> label, on |-> "connection", events |-> <<>>, notify |-> {}]

\* Feed of a frame, the flush after it and the events it raised, up to the unlock.
\* Without events to dispatch, the frames that raise none are not seen here.
Fed(x, raised) ==
  /\ reader.at = "read" /\ ~closed
  /\ \/ /\ ~broken
        /\ reader' = [at |-> "dispatch", on |-> x, events |-> raised, notify |-> {}]
        /\ UNCHANGED broken
     \/ Flush(FALSE) /\ reader' = Quiet("fail")
  /\ UNCHANGED <<appVars, writers, closed, closer>>

\* The state of one stream after a frame, and the events of the frame.
Moves(x, state, raised) ==
  /\ stream' = [stream EXCEPT ![x] = state]
  /\ UNCHANGED <<credit, resized, cast>>
  /\ Fed(x, raised)

\* HEADERS that open a stream; without a body to come, a Content-Length is wrong.
RecvHeaders(x) ==
  /\ stream[x] = "idle"
  /\ \/ "body" \in cast /\ Moves(x, "open", <<"headers">>)
     \/ Moves(x, "remote", <<"headers", "end">>)
     \/ Moves(x, "closed", <<"headers", "reset">>)

\* Trailers end the stream, unless the body is not as long as they say.
RecvTrailers(x) ==
  /\ PeerCanSend(x)
  /\ \/ Moves(x, RemoteEnd(x), <<"trailers", "end">>)
     \/ Moves(x, "closed", <<"trailers", "reset">>)

\* DATA, with END_STREAM or not, empty or not, or too short in the end.
RecvData(x) ==
  /\ PeerCanSend(x)
  /\ \/ Moves(x, stream[x], <<"data">>)
     \/ Moves(x, RemoteEnd(x), <<"end">>)
     \/ Moves(x, RemoteEnd(x), <<"data", "end">>)
     \/ Moves(x, "closed", <<"data", "reset">>)

\* A frame that a stream cannot take, and RST_STREAM.  A stream that is not open
\* yet stays so when it is refused, and is closed when its HEADERS are malformed.
\* The payload of rejected DATA still raises an event, or is rejected again for
\* its length, and so is its END_STREAM.
RecvRejected(x) ==
  \/ stream[x] = "idle" /\ Moves(x, "idle", <<"refused">>)
  \/ stream[x] = "idle" /\ x \in Requests /\ Moves(x, "closed", <<"reset">>)
  \/ /\ stream[x] # "idle"
     /\ \/ \E raised \in {<<"reset">>, <<"reset", "data">>} : Moves(x, "closed", raised)
        \/ /\ x \in Requests
           /\ \E raised \in {<<"reset", "reset">>, <<"reset", "data", "reset">>,
                             <<"reset", "reset", "reset">>} : Moves(x, "closed", raised)

\* WINDOW_UPDATE of a stream or of the connection.
RecvWindowUpdate(x) ==
  /\ x \in Streams => Active(x)
  /\ credit[x] < MaxCredit
  /\ credit' = [credit EXCEPT ![x] = @ + 1]
  /\ UNCHANGED <<stream, resized, cast>>
  /\ Fed(x, <<"window">>)

\* SETTINGS_INITIAL_WINDOW_SIZE moves the windows of all streams.
RecvSettings ==
  /\ ~resized /\ "settings" \in cast
  /\ resized' = TRUE
  /\ credit' = [x \in Streams \cup {"connection"} |->
       IF x # "connection" /\ credit[x] < MaxCredit THEN credit[x] + 1 ELSE credit[x]]
  /\ UNCHANGED <<stream, cast>>
  /\ Fed("connection", <<"settings">>)

Recv ==
  \/ \E x \in Requests : RecvHeaders(x) \/ RecvTrailers(x) \/ RecvData(x)
  \/ /\ "reject" \in cast
     /\ \/ "body" \in cast /\ \E x \in Requests : RecvRejected(x)
        \/ "push" \in cast /\ \E x \in Pushes : RecvRejected(x)
  \/ \E x \in Streams \cup {"connection"} : RecvWindowUpdate(x)
  \/ RecvSettings

\* Mutant: the newest event first.
DispatchesNewest(x, kind) ==
  /\ reader.at = "dispatch" /\ reader.on = x /\ reader.events # <<>>
  /\ kind = reader.events[Len(reader.events)]
  /\ reader' = [reader EXCEPT !.events = SubSeq(@, 1, Len(@) - 1)]

\* Mutant: dispatch returns after one event.
DispatchesOne(x, kind) ==
  /\ reader.at = "dispatch" /\ reader.on = x /\ reader.events # <<>>
  /\ Head(reader.events) = kind
  /\ reader' = [reader EXCEPT !.events = <<>>]

\* dispatch takes the events in order.
Dispatches(x, kind) ==
  /\ reader.at = "dispatch" /\ reader.on = x /\ reader.events # <<>>
  /\ Head(reader.events) = kind
  /\ reader' = [reader EXCEPT !.events = Tail(@)]

\* Headers, of the message or of its trailers, Data and End, each with the writer
\* that it finds or makes.
DispatchMessage(x, kind) ==
  /\ Dispatches(x, kind)
  /\ writers' = writers \cup {x}
  /\ held' = held \cup {x}
  /\ told' = [told EXCEPT ![x] = @ \cup {kind}]
  /\ UNCHANGED <<sessionVars, left, waiting, closed, closer, broken>>

\* Writable of one stream.
DispatchWindow(x) ==
  /\ Dispatches(x, "window")
  /\ writers' = writers \cup {x}
  /\ held' = held \cup {x}
  /\ waiting' = waiting \ {x}
  /\ UNCHANGED <<sessionVars, left, told, closed, closer, broken>>

\* Writable of every stream: the writers are copied under mu ...
DispatchConnectionWindow ==
  /\ reader.at = "dispatch" /\ reader.on = "connection" /\ reader.events # <<>>
  /\ Head(reader.events) = "window"
  /\ reader' = [reader EXCEPT !.at = "notify", !.events = Tail(@), !.notify = writers]
  /\ UNCHANGED <<sessionVars, appVars, writers, closed, closer, broken>>


\* ... and called one after the other, in the order of the map.
Notify ==
  /\ reader.at = "notify"
  /\ \/ \E x \in reader.notify :
          /\ waiting' = waiting \ {x}
          /\ reader' = [reader EXCEPT !.notify = @ \ {x}]
     \/ /\ reader.notify = {}
        /\ reader' = [reader EXCEPT !.at = "dispatch"]
        /\ UNCHANGED waiting
  /\ UNCHANGED <<sessionVars, left, held, told, writers, closed, closer, broken>>

\* Reset, then the delete under mu.
DispatchReset(x, kind) ==
  /\ Dispatches(x, kind)
  /\ told' = [told EXCEPT ![x] = @ \cup {kind}]
  /\ waiting' = waiting \ {x}
  /\ writers' = writers \ {x}
  /\ UNCHANGED <<sessionVars, left, held, closed, closer, broken>>

\* Events without a case, and the end of the events.
DispatchOther ==
  /\ \/ Dispatches("connection", "settings")
     \/ /\ reader.at = "dispatch" /\ reader.events = <<>>
        /\ reader' = Quiet("read")
  /\ UNCHANGED <<sessionVars, appVars, writers, closed, closer, broken>>

Message == {"headers", "data", "trailers", "end"}

Dispatch ==
  \/ \E x \in Streams : \/ \E kind \in Message : DispatchMessage(x, kind)
                        \/ \E kind \in {"reset", "refused"} : DispatchReset(x, kind)
                        \/ DispatchWindow(x)
  \/ DispatchConnectionWindow \/ Notify \/ DispatchOther

\* session.Close.
CloseSession ==
  /\ stream' = [x \in Streams |-> "closed"]
  /\ waiting' = {}
  /\ UNCHANGED <<credit, resized, cast, left, held, told>>

\* Mutant: Serve goes on reading a connection that Close has closed.
ServeFailsUnlessClosed ==
  /\ reader.at \in {"read", "fail"} /\ ~closed
  /\ reader' = Quiet("exit")
  /\ closed' = TRUE
  /\ CloseSession
  /\ UNCHANGED <<writers, closer, broken>>

\* Read fails or ends, Feed rejects what was read, or the flush fails: fail.
ServeFails ==
  /\ reader.at \in {"read", "fail"}
  /\ reader' = Quiet("exit")
  /\ closed' = TRUE
  /\ IF closed THEN UNCHANGED <<sessionVars, appVars>> ELSE CloseSession
  /\ UNCHANGED <<writers, closer, broken>>

-----------------------------------------------------------------------------
(* Close                                                                   *)

\* Close up to its unlock: GOAWAY, flush, session.Close.
CloseLocked ==
  /\ closer = "idle"
  /\ IF closed
     THEN closer' = "returned" /\ UNCHANGED <<sessionVars, appVars, broken>>
     ELSE closer' = "closing" /\ CloseSession /\ \E ok \in BOOLEAN : Flush(ok)
  /\ closed' = TRUE
  /\ UNCHANGED <<writers, reader>>

\* The byte stream is closed.
CloseStream ==
  /\ closer = "closing"
  /\ closer' = "returned"
  /\ broken' = TRUE
  /\ UNCHANGED <<sessionVars, appVars, writers, reader, closed>>

-----------------------------------------------------------------------------

Init ==
  /\ stream = [x \in Streams |-> "idle"]
  /\ credit = [x \in Streams \cup {"connection"} |-> 0]
  /\ resized = FALSE
  /\ cast \in Casts
  /\ left = [x \in Streams |-> NoHeaders]
  /\ waiting = {}
  /\ held = {}
  /\ told = [x \in Streams |-> {}]
  /\ writers = {}
  /\ reader = Quiet("read")
  /\ closed = FALSE
  /\ closer = "idle"
  /\ broken = FALSE

Next ==
  \/ \E x \in Streams, end \in BOOLEAN : Headers(x, end)
  \/ \E x \in Streams : Write(x) \/ Reset(x) \/ PriorityUpdate(x)
  \/ \E x \in Streams, p \in Pushes : PushPromise(x, p)
  \/ Recv \/ Dispatch \/ ServeFails \/ CloseLocked \/ CloseStream

\* Serve runs and handlers return; Close goes on once it has begun; a byte
\* stream that has been closed ends a Read.  Nothing is assumed of the peer and
\* of what the application decides to send.
Fairness ==
  /\ WF_vars(Dispatch)
  /\ WF_vars(reader.at = "fail" /\ ServeFails)
  /\ WF_vars(CloseStream)
  /\ WF_vars(closed /\ closer = "returned" /\ ServeFails)

Spec == Init /\ [][Next]_vars /\ Fairness

-----------------------------------------------------------------------------
(* Properties                                                              *)

Callbacks == Message \cup {"reset", "refused"}

ReaderRecord ==
  [at : {"read", "dispatch", "notify", "fail", "exit"}, on : Streams \cup {"connection"},
   events : Seq(Callbacks \cup {"window", "settings"}), notify : SUBSET Streams]

ServerTypeOK ==
  /\ stream \in [Streams -> {"idle", "reserved", "open", "local", "remote", "closed"}]
  /\ credit \in [Streams \cup {"connection"} -> 0..MaxCredit]
  /\ left \in [Streams -> 0..NoHeaders]
  /\ waiting \subseteq held /\ held \subseteq Streams /\ writers \subseteq Streams
  /\ told \in [Streams -> SUBSET Callbacks]
  /\ reader \in ReaderRecord
  /\ closer \in {"idle", "closing", "returned"}
  /\ resized \in BOOLEAN /\ closed \in BOOLEAN /\ broken \in BOOLEAN

\* A stream that the application promised after the peer had used its identifier
\* in vain: the Reset of that frame may take the writer of the promise away.
Spoilt(x) == x \in Pushes /\ "refused" \in told[x]

\* While a response can go on, its writer is registered, so that credit for the
\* connection is announced to it, however its calls interleave with dispatch.
UnfinishedIsRegistered ==
  ~closed => \A x \in held : CanSend(x) => x \in writers \/ Spoilt(x)

\* What may come next for a stream that has had some callbacks: a message is
\* Headers, Data as often as it likes, trailers and one End; Reset may come at any
\* time and more than once; after it there is only the Data of rejected frames.
\* A refusal before Headers is not part of a message.
Legal(seen, kind) ==
  /\ kind \in {"headers", "refused"} => seen \subseteq {"refused"}
  /\ kind = "data" =>
       \/ "reset" \in seen
       \/ "headers" \in seen /\ seen \cap {"trailers", "end"} = {}
  /\ kind = "trailers" => "headers" \in seen /\ seen \cap {"trailers", "end", "reset"} = {}
  /\ kind = "end" => "headers" \in seen /\ seen \cap {"end", "reset"} = {}

\* The callbacks of a stream before the i-th of the events to dispatch, and with
\* all of them.
Seen(x, i) == told[x] \cup {reader.events[j] : j \in 1..(i - 1)}

Heard(x) == told[x] \cup (IF reader.on = x THEN Range(reader.events) ELSE {})

\* What Serve has yet to dispatch of a stream may come next, in this order, and
\* the session agrees with it on how far the message of the stream has come.
EventsExpected ==
  /\ reader.at \notin {"dispatch", "notify"} => reader.events = <<>>
  /\ reader.on \in Streams =>
       \A i \in 1..Len(reader.events) : Legal(Seen(reader.on, i), reader.events[i])
  /\ \A x \in Streams :
       /\ stream[x] = "idle" => Heard(x) \subseteq {"refused"} /\ x \notin held
       /\ PeerCanSend(x) /\ reader.at # "fail" =>
            "headers" \in Heard(x) /\ Heard(x) \cap {"trailers", "end", "reset"} = {}
       /\ "reset" \in Heard(x) \/ closed => stream[x] = "closed"
  /\ reader.on \in Requests /\ "refused" \in Range(reader.events) =>
       stream[reader.on] \in {"idle", "closed"}

\* Types, and the registration of unfinished responses, in every state; with
\* EventsExpected it is inductive.
ServerInv == ServerTypeOK /\ UnfinishedIsRegistered /\ EventsExpected

\* Every callback of a stream comes where a message has it: no Data before Headers,
\* one trailer section and one End at most and nothing after them but a Reset, and
\* after a Reset at most the Data of frames that were rejected.
HandlerOrder ==
  [][\A x \in Streams, kind \in Message :
       DispatchMessage(x, kind) => Legal(told[x], kind)]_vars


\* A request that has been read is announced to the handler to its end, unless the
\* flush after it fails.
RequestReachesHandler ==
  \A x \in Requests :
    stream[x] = "remote" ~> (told[x] \cap {"end", "reset"} # {} \/ reader.at = "fail")

\* Serve returns once Close has closed the byte stream.
ServeReturns == (closer = "returned") ~> (reader.at = "exit")

\* What "writable notifications" promise to a response that waits.
CreditAnnounced ==
  \A x \in Streams : (x \in waiting /\ Sendable(x) > 0) ~> x \notin waiting

\* What a bounded server expects: the table of writers holds live streams only,
\* when nothing is left to dispatch.
WritersAreLive ==
  reader.at = "read" /\ ~closed /\ ~broken => \A x \in writers : Active(x)

\* What Close says: once it has returned, the byte stream is closed.
CloseClosesStream == closer = "returned" => broken
=============================================================================
