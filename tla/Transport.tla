------------------------------- MODULE Transport -------------------------------
(***************************************************************************)
(* The HTTP/2 client of http2/request/transport.go: concurrent Do calls,   *)
(* the readLoop goroutine, the goroutines that consume pushes, and Close.  *)
(*                                                                         *)
(* A critical section of transport.mu is one step.  flushLocked writes to  *)
(* the stream inside it, so a step that flushes assumes that Write returns.*)
(* What happens without mu (channel operations, the context, the caller's  *)
(* body reader) is a step of its own.                                      *)
(*                                                                         *)
(* The session is the one of Session, reduced to what a transport sees of  *)
(* it: the states of the streams, the send windows, and the events that a  *)
(* frame raises.  A stream is named by the call that opened it or by its   *)
(* promise.                                                                *)
(***************************************************************************)
EXTENDS Naturals, Sequences, FiniteSetsExt, Functions

CONSTANTS
  Callers,      \* the calls of Do
  Pushes,       \* the streams the peer may promise
  Body,         \* units of body, if a call has one
  EventBuffer,  \* capacity of an exchange's event channel
  MaxConcurrent,\* the peer's limit on streams
  MaxCredit,    \* bound: the largest send window
  Casts         \* bound: the streams, uploads and faults that happen together

ASSUME TransportAssumption ==
  /\ Callers \cap Pushes = {} /\ Callers \cap {"none", "token"} = {}
  /\ Body \in Nat \ {0}
  /\ EventBuffer \in Nat \ {0}
  /\ MaxConcurrent \in Nat
  /\ MaxCredit \in Nat
  /\ Casts \subseteq SUBSET (Callers \cup Pushes \cup
       {"upload", "trailers", "answer", "parts", "cancel", "close", "goaway", "fail", "break"})

VARIABLES
  call,      \* where each Do is, what body.Read returned last, what is unsent,
             \* and whether its context is done
  pushes,    \* where the consumer of each push is
  pending,   \* transport.pending
  queue,     \* the contents of exchange.events
  progress,  \* finalHeaders and complete of an exchange
  shut,      \* the exchanges whose channel is closed
  reader,    \* where readLoop is and the events it has yet to dispatch
  window,    \* transport.window: "token", or else who took the last one
  once,      \* transport.closeOnce, err and done
  closer,    \* where Close is
  goAway,    \* transport.goAway is set
  broken,    \* the byte stream does not take writes
  panicked,  \* the program has panicked
  sess       \* the session, and the streams and faults of this behaviour

exchangeVars == <<pending, queue, progress, shut>>
failVars == <<once, closer, panicked>>
vars == <<call, pushes, exchangeVars, reader, window, failVars, goAway,
          broken, sess>>

Streams == Callers \cup Pushes

\* transport.done is closed; it is closed a moment after err is set.
done == once = "ran"

failed == once # "unused"

At(label) == [at |-> label, read |-> "none", left |-> 0, cancelled |-> FALSE]

\* A panic ends the program.
Doing(c, label) == ~panicked /\ call[c].at = label

Reading(label) == ~panicked /\ reader.at = label

Returned(c) == call[c].at \in {"response", "error"}

-----------------------------------------------------------------------------
(* The session, as the transport uses it.                                  *)

LocalEnd(s) == IF s = "open" THEN "local" ELSE "closed"

RemoteEnd(s) == IF s = "open" THEN "remote" ELSE "closed"

CanSend(c) == ~failed /\ sess.stream[c] \in {"open", "remote"}

PeerCanSend(x) == sess.stream[x] \in {"open", "local"}

Active == {x \in Streams : sess.stream[x] \in {"open", "local", "remote"}}

\* What Do itself or OpenStream refuses.
Refused ==
  failed \/ goAway \/ sess.goneAway \/ Cardinality(Active \cap Callers) >= MaxConcurrent

CloseStreams(closing) ==
  [sess EXCEPT
    !.stream = [x \in Streams |-> IF x \in closing THEN "closed" ELSE sess.stream[x]],
    !.credit = [c \in Callers |-> IF c \in closing THEN 0 ELSE sess.credit[c]]]

\* flushLocked: a stream that has failed a write fails them all.
Flush(ok) ==
  /\ IF ok THEN ~broken ELSE broken \/ "break" \in sess.cast
  /\ broken' = (broken \/ ~ok)

Goto(c, label) == call' = [call EXCEPT ![c].at = label]

\* Goto where the body, and mostly the context, no longer matter.
Leave(c, label) ==
  call' = [call EXCEPT ![c] =
    [At(label) EXCEPT
      !.cancelled = call[c].cancelled /\ label \in {"reading", "ending", "await"}]]

\* Mutant: the stream is not reset.
CancelStreamSilently(x) ==
  /\ pending' = pending \ {x}
  /\ UNCHANGED <<sess, broken>>

\* cancelStream; a flush that fails is ignored.
CancelStream(x) ==
  /\ sess' = IF failed THEN sess ELSE CloseStreams({x})
  /\ pending' = pending \ {x}
  /\ \E ok \in BOOLEAN : Flush(ok)

\* Mutant: a reset ends the exchange like END_STREAM.
ConsumedResetCompletes(x) ==
  IF Head(queue[x]) \in {"end", "reset"} THEN {"complete"} ELSE {"headers"}

\* Mutant: END_STREAM is not noticed.
ConsumedEndIgnored(x) == IF Head(queue[x]) = "reset" THEN {"error"} ELSE {"headers"}

\* exchange.consume: what becomes of the exchange with its first event.  A body
\* may be larger than the caller allows.
Consumed(x) ==
  CASE Head(queue[x]) = "headers" -> {"headers"}
    [] Head(queue[x]) = "data" -> {"headers", "error"}
    [] Head(queue[x]) = "end" -> {"complete"}
    [] Head(queue[x]) = "reset" -> {"error"}
    [] Head(queue[x]) \in {"section", "window"} -> {progress[x]}

Outcomes == {"none", "headers", "complete", "error"}

Take(x, outcome) ==
  /\ queue[x] # <<>>
  /\ outcome \in Consumed(x)
  /\ queue' = [queue EXCEPT ![x] = Tail(@)]
  /\ progress' = [progress EXCEPT ![x] = IF outcome = "error" THEN @ ELSE outcome]

\* A receive from a closed channel fails once the channel is empty.
Drained(x) == x \in shut /\ queue[x] = <<>>


\* The context that the selects of Do and sendBody watch.
ContextDone(c) == call[c].cancelled

\* A send to exchange.events does not block.
HasRoom(x) == Len(queue[x]) < EventBuffer

-----------------------------------------------------------------------------
(* Do                                                                      *)

BeginRefused(c) ==
  /\ Doing(c, "start") /\ c \in sess.cast
  /\ Refused
  /\ Leave(c, "error")
  /\ UNCHANGED <<pushes, exchangeVars, reader, window, failVars, goAway,
                 broken, sess>>

\* What Do goes on with after the headers: a body, trailers alone, or the wait.
AfterHeaders ==
  CASE "upload" \in sess.cast -> "reading"
    [] "trailers" \in sess.cast -> "ending"
    [] OTHER -> "await"

\* A flush that fails leaves the exchange in pending.
BeginOpen(c) ==
  /\ Doing(c, "start") /\ c \in sess.cast
  /\ ~Refused
  /\ sess' = [sess EXCEPT
       !.stream[c] = IF AfterHeaders = "await" THEN "local" ELSE "open",
       !.order = Append(@, c)]
  /\ pending' = pending \cup {c}
  /\ \/ Flush(TRUE) /\ Leave(c, AfterHeaders)
     \/ Flush(FALSE) /\ Leave(c, "error")
  /\ UNCHANGED <<pushes, queue, progress, shut, reader, window, failVars, goAway>>

\* sendBody: body.Read gives the whole body, then io.EOF, or fails.
ReadBody(c) ==
  /\ Doing(c, "reading")
  /\ \E got \in {IF call[c].read = "none" THEN "data" ELSE "eof", "error"} :
       /\ got = "error" => "cancel" \in sess.cast
       /\ call' = [call EXCEPT ![c].at = "draining", ![c].read = got,
                               ![c].left = IF got = "data" THEN Body ELSE 0]
  /\ UNCHANGED <<pushes, exchangeVars, reader, window, failVars, goAway,
                 broken, sess>>

\* consumeAvailable, one event at a time, and what follows it in sendBody.
Drain(c) ==
  /\ Doing(c, "draining")
  /\ \/ \E outcome \in Outcomes :
          /\ Take(c, outcome)
          /\ IF outcome = "error" THEN Leave(c, "cancel") ELSE UNCHANGED call
     \/ /\ Drained(c)
        /\ Leave(c, "cancel")
        /\ UNCHANGED <<queue, progress>>
     \/ /\ queue[c] = <<>> /\ c \notin shut
        /\ \/ progress[c] = "complete" /\ Leave(c, "abort")
           \/ /\ progress[c] # "complete"
              /\ \/ call[c].read = "data" /\ Goto(c, "sending")
                 \/ call[c].read = "eof" /\ Leave(c, "ending")
                 \/ call[c].read = "error" /\ Leave(c, "cancel")
        /\ UNCHANGED <<queue, progress>>
  /\ UNCHANGED <<pushes, pending, shut, reader, window, failVars, goAway,
                 broken, sess>>

\* What SendData can take now.
Sendable(c) == Min({call[c].left, sess.credit[c], sess.connCredit})

\* One SendData of sendBody, up to the unlock.
SendData(c) ==
  /\ Doing(c, "sending")
  /\ \/ /\ ~CanSend(c)
        /\ Leave(c, "cancel")
        /\ UNCHANGED <<sess, broken>>
     \/ /\ CanSend(c) /\ Sendable(c) = 0
        /\ Goto(c, "blocked")
        /\ UNCHANGED <<sess, broken>>
     \/ /\ CanSend(c) /\ Sendable(c) > 0
        /\ sess' = [sess EXCEPT !.credit[c] = sess.credit[c] - Sendable(c),
                                !.connCredit = sess.connCredit - Sendable(c)]
        /\ \E ok \in BOOLEAN :
             /\ Flush(ok)
             /\ IF ok
                THEN call' = [call EXCEPT ![c].left = call[c].left - Sendable(c),
                                ![c].at = IF call[c].left = Sendable(c)
                                          THEN "reading" ELSE "sending"]
                ELSE Leave(c, "cancel")
  /\ UNCHANGED <<pushes, exchangeVars, reader, window, failVars, goAway>>

\* The empty DATA frame or the trailers that end the request.
SendEnd(c) ==
  /\ Doing(c, "ending")
  /\ IF CanSend(c)
     THEN /\ sess' = [sess EXCEPT !.stream[c] = LocalEnd(sess.stream[c]), !.credit[c] = 0]
          /\ \E ok \in BOOLEAN : Flush(ok) /\ Leave(c, IF ok THEN "await" ELSE "cancel")
     ELSE Leave(c, "cancel") /\ UNCHANGED <<sess, broken>>
  /\ UNCHANGED <<pushes, exchangeVars, reader, window, failVars, goAway>>

\* The select of sendBody while no window is open.
Blocked(c) ==
  /\ Doing(c, "blocked")
  /\ \/ \E outcome \in Outcomes :
          /\ Take(c, outcome)
          /\ CASE outcome = "error" -> Leave(c, "cancel")
               [] outcome = "complete" -> Leave(c, "abort")
               [] OTHER -> Goto(c, "sending")
          /\ UNCHANGED window
     \/ /\ window = "token"
        /\ window' = c
        /\ Goto(c, "sending")
        /\ UNCHANGED <<queue, progress>>
     \/ /\ Drained(c) \/ ContextDone(c) \/ done
        /\ Leave(c, "cancel")
        /\ UNCHANGED <<queue, progress, window>>
  /\ UNCHANGED <<pushes, pending, shut, reader, failVars, goAway, broken, sess>>

\* The select of Do once the request is sent.
Await(c) ==
  /\ Doing(c, "await")
  /\ \/ \E outcome \in Outcomes :
          /\ Take(c, outcome)
          /\ CASE outcome = "error" -> Leave(c, "cancel")
               [] outcome = "complete" -> Leave(c, "finish")
               [] OTHER -> UNCHANGED call
     \/ /\ ContextDone(c)
        /\ Leave(c, "cancel")
        /\ UNCHANGED <<queue, progress>>
     \/ /\ Drained(c) \/ done
        /\ Leave(c, "error")
        /\ UNCHANGED <<queue, progress>>
  /\ UNCHANGED <<pushes, pending, shut, reader, window, failVars, goAway,
                 broken, sess>>

\* Mutant: a call that gives up also closes its channel.
CancelClosesChannel(c) ==
  /\ Doing(c, "cancel") \/ Doing(c, "abort")
  /\ CancelStream(c)
  /\ shut' = shut \cup {c}
  /\ Leave(c, IF call[c].at = "cancel" THEN "error" ELSE "finish")
  /\ UNCHANGED <<pushes, queue, progress, reader, window, failVars, goAway>>

\* A call that gives up cancels its stream and returns the error.  One whose
\* response is complete before its body is sent cancels, then returns it.
Cancel(c) ==
  /\ Doing(c, "cancel") \/ Doing(c, "abort")
  /\ CancelStream(c)
  /\ Leave(c, IF call[c].at = "cancel" THEN "error" ELSE "finish")
  /\ UNCHANGED <<pushes, queue, progress, shut, reader, window, failVars,
                 goAway>>

\* Mutant: the exchange stays registered.
FinishRegistered(c) ==
  /\ Doing(c, "finish")
  /\ Leave(c, "response")
  /\ UNCHANGED <<pushes, exchangeVars, reader, window, failVars, goAway, broken, sess>>

Finish(c) ==
  /\ Doing(c, "finish")
  /\ pending' = pending \ {c}
  /\ Leave(c, "response")
  /\ UNCHANGED <<pushes, queue, progress, shut, reader, window, failVars,
                 goAway, broken, sess>>

\* Everything a call does by itself once it has begun.
Continue(c) ==
  \/ ReadBody(c) \/ Drain(c) \/ SendData(c) \/ SendEnd(c)
  \/ Blocked(c) \/ Await(c) \/ Cancel(c) \/ Finish(c)

\* The context of a call ends while the call may still look at it.
CancelContext(c) ==
  /\ ~panicked /\ call[c].at \in {"reading", "draining", "sending", "blocked", "ending",
                                   "await"}
  /\ ~call[c].cancelled /\ "cancel" \in sess.cast
  /\ call' = [call EXCEPT ![c].cancelled = TRUE]
  /\ UNCHANGED <<pushes, exchangeVars, reader, window, failVars, goAway, broken, sess>>

-----------------------------------------------------------------------------
(* consumePush                                                             *)

ConsumePush(p) ==
  /\ ~panicked /\ pushes[p] = "running"
  /\ \/ \E outcome \in Outcomes \ {"error"} :
          /\ Take(p, outcome)
          /\ IF outcome = "complete"
             THEN /\ pending' = pending \ {p}
                  /\ pushes' = [pushes EXCEPT ![p] = "stopped"]
             ELSE UNCHANGED <<pending, pushes>>
          /\ UNCHANGED <<sess, broken>>
     \/ /\ Take(p, "error")
        /\ CancelStream(p)
        /\ pushes' = [pushes EXCEPT ![p] = "stopped"]
     \/ /\ Drained(p)
        /\ pushes' = [pushes EXCEPT ![p] = "stopped"]
        /\ UNCHANGED <<queue, progress, pending, sess, broken>>
  /\ UNCHANGED <<call, shut, reader, window, failVars, goAway>>

-----------------------------------------------------------------------------
(* readLoop                                                                *)

On(x, kind) == [stream |-> x, kind |-> kind]

\* Feed and the flush that follows it, up to the unlock.  What an earlier flush
\* could not write is still in the output and fails this one too; after Close there
\* may be no output.  A flush that fails drops the events.
Fed(raised) ==
  /\ Reading("read") /\ ~failed
  /\ \/ /\ broken => closer # "idle"
        /\ reader' = [at |-> "dispatch", events |-> raised]
        /\ UNCHANGED broken
     \/ Flush(FALSE) /\ reader' = [at |-> "fail", events |-> <<>>]
  /\ UNCHANGED <<call, pushes, exchangeVars, window, failVars, goAway>>

\* How much the peer has sent of a message.
Heard(x, part) ==
  sess' = [sess EXCEPT !.heard[x] = part,
             !.stream[x] = IF part = "ended" THEN RemoteEnd(sess.stream[x]) ELSE sess.stream[x]]

\* The peer's part of a message: headers, after an informational section; data;
\* trailers; and END_STREAM with any of them.  "section" is the event of a section
\* that is not the headers of the response.  Bound: at most one informational
\* section, and one DATA frame before the last one.
RecvHeaders(x) ==
  /\ PeerCanSend(x) /\ sess.heard[x] \in {"none", "informed"} /\ "answer" \in sess.cast
  /\ \/ Heard(x, "headers") /\ Fed(<<On(x, "headers")>>)
     \/ Heard(x, "ended") /\ Fed(<<On(x, "headers"), On(x, "end")>>)
     \/ /\ sess.heard[x] = "none" /\ "parts" \in sess.cast
        /\ Heard(x, "informed") /\ Fed(<<On(x, "section")>>)

RecvData(x) ==
  /\ PeerCanSend(x) /\ sess.heard[x] \in {"headers", "data"}
  /\ \/ Heard(x, "ended") /\ Fed(<<On(x, "data"), On(x, "end")>>)
     \/ /\ sess.heard[x] = "headers" /\ "parts" \in sess.cast
        /\ Heard(x, "data") /\ Fed(<<On(x, "data")>>)

RecvTrailers(x) ==
  /\ PeerCanSend(x) /\ sess.heard[x] \in {"headers", "data"} /\ "parts" \in sess.cast
  /\ Heard(x, "ended")
  /\ Fed(<<On(x, "section"), On(x, "end")>>)

\* RST_STREAM, or a frame that the stream cannot take; rejected DATA still raises
\* its event.
RecvReset(x) ==
  /\ x \in Active /\ "answer" \in sess.cast
  /\ sess' = CloseStreams({x})
  /\ \/ Fed(<<On(x, "reset")>>)
     \/ "parts" \in sess.cast /\ Fed(<<On(x, "reset"), On(x, "data")>>)

\* WINDOW_UPDATE, while there is something to send.  Only an update of a stream
\* is an event for its exchange.
RecvStreamWindow(c) ==
  /\ CanSend(c) /\ sess.credit[c] < MaxCredit
  /\ sess' = [sess EXCEPT !.credit[c] = sess.credit[c] + 1]
  /\ Fed(<<On(c, "window")>>)

RecvConnectionWindow ==
  /\ sess.connCredit < MaxCredit
  /\ \E c \in Callers : CanSend(c)
  /\ sess' = [sess EXCEPT !.connCredit = @ + 1]
  /\ Fed(<<>>)

\* The streams beyond the last one the peer will process are closed, in the random
\* order of Go's map iteration.
RecvGoAway(last) ==
  LET refused == Range(SubSeq(sess.order, last + 1, Len(sess.order))) \cap Active IN
  /\ ~sess.goneAway /\ "goaway" \in sess.cast
  /\ sess' = [CloseStreams(refused) EXCEPT !.goneAway = TRUE]
  /\ \E n \in 0..Len(sess.order) : \E q \in Bijection(1..n, refused) :
       Fed(Append([i \in 1..n |-> On(q[i], "reset")], On("connection", "goaway")))

RecvPushPromise(p) ==
  /\ sess.stream[p] = "idle" /\ p \in sess.cast
  /\ \E c \in Callers : PeerCanSend(c)
  /\ sess' = [sess EXCEPT !.stream[p] = "local"]
  /\ Fed(<<On(p, "push")>>)

Recv ==
  \/ \E x \in Streams : RecvHeaders(x) \/ RecvData(x) \/ RecvTrailers(x) \/ RecvReset(x)
  \/ \E c \in Callers : RecvStreamWindow(c)
  \/ RecvConnectionWindow
  \/ \E last \in 0..Len(sess.order) : RecvGoAway(last)
  \/ \E p \in Pushes : RecvPushPromise(p)

\* Read fails or ends, or Feed rejects what was read; the events raised by then are
\* dropped with the connection.
ReadFails ==
  /\ Reading("read") /\ ("fail" \in sess.cast \/ broken)
  /\ reader' = [reader EXCEPT !.at = "fail"]
  /\ UNCHANGED <<call, pushes, exchangeVars, window, failVars, goAway, broken, sess>>

\* Mutant: dispatch leaves no token.
DispatchControlNoToken ==
  /\ Reading("dispatch")
  /\ reader.events # <<>> => Head(reader.events).kind = "goaway"
  /\ goAway' = (goAway \/ reader.events # <<>>)
  /\ reader' = IF reader.events = <<>> THEN [reader EXCEPT !.at = "read"]
               ELSE [reader EXCEPT !.events = Tail(@)]
  /\ UNCHANGED <<call, pushes, exchangeVars, window, failVars, broken, sess>>

\* dispatch: the events that are not for an exchange, and the token after the
\* last event.
DispatchControl ==
  /\ Reading("dispatch")
  /\ \/ /\ reader.events = <<>>
        /\ window' = "token"
        /\ reader' = [reader EXCEPT !.at = "read"]
        /\ UNCHANGED goAway
     \/ /\ reader.events # <<>> /\ Head(reader.events).kind = "goaway"
        /\ goAway' = TRUE
        /\ reader' = [reader EXCEPT !.events = Tail(@)]
        /\ UNCHANGED window
  /\ UNCHANGED <<call, pushes, exchangeVars, failVars, broken, sess>>

\* acceptPush: the handler takes the push or not.
AcceptPush ==
  /\ Reading("dispatch") /\ reader.events # <<>>
  /\ Head(reader.events).kind = "push"
  /\ reader' = [reader EXCEPT !.events = Tail(@)]
  /\ LET p == Head(reader.events).stream IN
     \/ /\ CancelStream(p)
        /\ UNCHANGED pushes
     \/ /\ IF failed
           THEN UNCHANGED <<pending, pushes>>
           ELSE /\ pending' = pending \cup {p}
                /\ pushes' = [pushes EXCEPT ![p] = "running"]
        /\ UNCHANGED <<sess, broken>>
  /\ UNCHANGED <<call, queue, progress, shut, window, failVars, goAway>>

\* The lookup of an exchange, under mu.
Lookup ==
  /\ Reading("dispatch") /\ reader.events # <<>>
  /\ Head(reader.events).kind \notin {"goaway", "push"}
  /\ reader' = IF Head(reader.events).stream \in pending
               THEN [reader EXCEPT !.at = "deliver"]
               ELSE [reader EXCEPT !.events = Tail(@)]
  /\ UNCHANGED <<call, pushes, exchangeVars, window, failVars, goAway, broken, sess>>

\* The select that hands the event over, without mu.  A send to a closed
\* channel panics.
Deliver ==
  /\ Reading("deliver")
  /\ LET x == Head(reader.events).stream IN
     \/ /\ x \in shut
        /\ panicked' = TRUE
        /\ UNCHANGED <<queue, reader>>
     \/ /\ x \notin shut /\ HasRoom(x)
        /\ queue' = [queue EXCEPT ![x] = Append(@, Head(reader.events).kind)]
        /\ reader' = [at |-> "dispatch", events |-> Tail(reader.events)]
        /\ UNCHANGED panicked
     \/ /\ done
        /\ reader' = [at |-> "dispatch", events |-> <<>>]
        /\ UNCHANGED <<queue, panicked>>
  /\ UNCHANGED <<call, pushes, pending, progress, shut, window, once, closer, goAway,
                 broken, sess>>

-----------------------------------------------------------------------------
(* fail and Close                                                          *)

\* Mutant: the channels stay open.
ClosedChannelsNone == shut

\* fail closes the channel of every pending exchange.
ClosedChannels == shut \cup pending

\* The part of closeOnce.Do that holds mu: err, the channels, the session.
FailLocked ==
  /\ ~panicked /\ once = "unused"
  /\ reader.at = "fail" \/ closer = "failing"
  /\ once' = "running"
  /\ shut' = ClosedChannels
  /\ pending' = {}
  /\ sess' = [CloseStreams(Streams) EXCEPT !.connCredit = 0]
  /\ UNCHANGED <<call, pushes, queue, progress, reader, window, closer, panicked, goAway,
                 broken>>

CloseDone ==
  /\ ~panicked /\ once = "running"
  /\ once' = "ran"
  /\ UNCHANGED <<call, pushes, exchangeVars, reader, window, closer, panicked, goAway,
                 broken, sess>>

\* fail returns to whoever called it only when closeOnce has run.
FailReturns ==
  /\ ~panicked /\ done
  /\ \/ /\ reader.at = "fail"
        /\ reader' = [reader EXCEPT !.at = "exit"]
        /\ UNCHANGED closer
     \/ /\ closer = "failing"
        /\ closer' = "closed"
        /\ UNCHANGED reader
  /\ UNCHANGED <<call, pushes, exchangeVars, window, once, panicked, goAway, broken, sess>>

\* Close closes the byte stream, then fails the transport.
Close ==
  /\ ~panicked /\ closer = "idle" /\ "close" \in sess.cast
  /\ closer' = "failing"
  /\ broken' = TRUE
  /\ UNCHANGED <<call, pushes, exchangeVars, reader, window, once, panicked, goAway, sess>>

-----------------------------------------------------------------------------

Init ==
  /\ call = [c \in Callers |-> At("start")]
  /\ pushes = [p \in Pushes |-> "none"]
  /\ pending = {}
  /\ queue = [x \in Streams |-> <<>>]
  /\ progress = [x \in Streams |-> "none"]
  /\ shut = {}
  /\ reader = [at |-> "read", events |-> <<>>]
  /\ window = "none"
  /\ once = "unused"
  /\ closer = "idle"
  /\ goAway = FALSE
  /\ broken = FALSE
  /\ panicked = FALSE
  /\ sess \in [stream : {[x \in Streams |-> "idle"]},
               heard : {[x \in Streams |-> "none"]},
               order : {<<>>}, goneAway : {FALSE},
               credit : {[c \in Callers |-> 0]}, connCredit : {0}, cast : Casts]

ReaderStep == DispatchControl \/ AcceptPush \/ Lookup \/ Deliver

FailStep == FailLocked \/ CloseDone \/ FailReturns

Next ==
  \/ \E c \in Callers :
       BeginRefused(c) \/ BeginOpen(c) \/ Continue(c) \/ CancelContext(c)
  \/ \E p \in Pushes : ConsumePush(p)
  \/ Recv \/ ReadFails \/ ReaderStep
  \/ FailStep \/ Close

\* The Go scheduler runs every goroutine that can proceed.  Nothing is assumed
\* of the peer, of contexts, of Close, or of when calls begin; a stream that
\* has been closed is assumed to end a Read.
Fairness ==
  /\ \A c \in Callers : WF_vars(Continue(c))
  /\ \A p \in Pushes : WF_vars(ConsumePush(p))
  /\ WF_vars(ReaderStep)
  /\ WF_vars(FailStep)
  /\ WF_vars(closer # "idle" /\ ReadFails)

Spec == Init /\ [][Next]_vars /\ Fairness

-----------------------------------------------------------------------------
(* Properties                                                              *)

CallRecord ==
  [at : {"start", "reading", "draining", "sending", "blocked", "ending", "await",
         "cancel", "abort", "finish", "response", "error"},
   read : {"none", "data", "eof", "error"}, left : Nat, cancelled : BOOLEAN]

Kinds == {"headers", "section", "data", "end", "reset", "window"}

Event ==
  [stream : Streams, kind : Kinds] \cup [stream : Pushes, kind : {"push"}]
    \cup [stream : {"connection"}, kind : {"goaway"}]

ReaderRecord ==
  [at : {"read", "dispatch", "deliver", "fail", "exit"}, events : Seq(Event)]

SessionRecord ==
  [stream : [Streams -> {"idle", "open", "local", "remote", "closed"}],
   heard : [Streams -> {"none", "informed", "headers", "data", "ended"}],
   order : Seq(Callers), goneAway : BOOLEAN,
   credit : [Callers -> 0..MaxCredit], connCredit : 0..MaxCredit, cast : Casts]

TransportTypeOK ==
  /\ call \in [Callers -> CallRecord]
  /\ pushes \in [Pushes -> {"none", "running", "stopped"}]
  /\ pending \subseteq Streams
  /\ queue \in [Streams -> Seq(Kinds)]
  /\ progress \in [Streams -> {"none", "headers", "complete"}]
  /\ shut \subseteq Streams
  /\ reader \in ReaderRecord
  /\ window \in Callers \cup {"none", "token"}
  /\ once \in {"unused", "running", "ran"}
  /\ closer \in {"idle", "failing", "closed"}
  /\ goAway \in BOOLEAN /\ broken \in BOOLEAN /\ panicked \in BOOLEAN
  /\ sess \in SessionRecord

\* The reader blocks rather than overfill a channel, and delivers what it has
\* looked up.
ChannelsBounded ==
  /\ \A x \in Streams : Len(queue[x]) <= EventBuffer
  /\ reader.at = "deliver" => reader.events # <<>> /\ Head(reader.events).kind \in Kinds
  /\ reader.at \in {"read", "fail", "exit"} => reader.events = <<>>

\* The reader sends to an exchange whose channel is closed only when Close runs
\* against it: fail, called by readLoop itself, cannot race with dispatch.
PanicsOnlyAfterClose == panicked => closer # "idle"

\* A call that has returned is no longer in pending, and a push in pending has a
\* consumer, so that no event is queued for nobody.  The one leak is a Do whose
\* first flush failed.
PendingIsServed ==
  /\ \A c \in Callers \cap pending : Returned(c) => broken
  /\ \A p \in Pushes \cap pending : pushes[p] = "running"

\* The peer's END_STREAM is behind every "end" that is on its way to a call, and
\* behind every call that takes its response for complete.
EndWasHeard ==
  /\ \A x \in Streams :
       sess.heard[x] # "ended" =>
         /\ progress[x] # "complete"
         /\ "end" \notin Range(queue[x])
         /\ On(x, "end") \notin Range(reader.events)
  /\ \A c \in Callers : call[c].at \in {"abort", "finish", "response"} => sess.heard[c] = "ended"

\* How far a call or a message has come shows in the state of its stream.
StreamsAgree ==
  /\ \A x \in Streams : sess.heard[x] = "ended" => sess.stream[x] \in {"remote", "closed"}
  /\ \A p \in Pushes : sess.stream[p] \in {"idle", "local", "closed"}
  /\ \A c \in Callers :
       /\ call[c].at = "start" => c \notin pending /\ (failed \/ sess.stream[c] = "idle")
       /\ call[c].at \in {"await", "finish"} => sess.stream[c] \in {"local", "closed"}

\* fail has emptied pending and closed the session; before it, no channel is closed.
FailedAgree ==
  /\ IF failed THEN pending = {} /\ \A x \in Streams : sess.stream[x] = "closed" ELSE shut = {}
  /\ failed /\ closer = "idle" => reader.at \in {"fail", "exit"}

\* Types, bounded channels and served exchanges, in every state; the other
\* conjuncts make it inductive, together with the next property.
TransportInv ==
  /\ TransportTypeOK /\ ChannelsBounded /\ PendingIsServed
  /\ EndWasHeard /\ StreamsAgree /\ FailedAgree

\* On a transport that works, a call that has returned, or a push whose consumer
\* has stopped, leaves no stream open: an early response resets the upload.
NoOrphanStream ==
  ~failed /\ ~broken =>
    /\ \A c \in Callers : Returned(c) => sess.stream[c] \in {"idle", "closed"}
    /\ \A p \in Pushes : pushes[p] = "stopped" => sess.stream[p] = "closed"

\* What a caller sees of its call.
Status(c) ==
  CASE call[c].at = "start" -> "idle"
    [] Returned(c) -> call[c].at
    [] OTHER -> "busy"

\* A transport keeps the promises of Calls: a response is returned only if the
\* peer has ended its message, whatever resets, cancellations and failures come
\* between, and no call begins on a transport that has failed.
Abstract ==
  INSTANCE Calls WITH
    status <- [c \in Callers |-> Status(c)],
    served <- {c \in Callers : sess.heard[c] = "ended"},
    down <- failed

ImplementsCalls == Abstract!CallsSpec

\* The reader holds an event for an exchange that nobody receives from any more.
Stuck ==
  /\ reader.at = "deliver" /\ ~failed
  /\ LET x == Head(reader.events).stream IN
       /\ Len(queue[x]) = EventBuffer
       /\ IF x \in Callers THEN Returned(x) ELSE pushes[x] = "stopped"

Begun(c) == call[c].at # "start"

\* When the transport fails or is closed, every call returns and readLoop ends,
\* unless the program has panicked.
FailureReleasesAll ==
  failed ~> \/ panicked
            \/ /\ \A c \in Callers : Begun(c) => Returned(c)
               /\ \A p \in Pushes : pushes[p] # "running"
               /\ closer = "closed" => reader.at = "exit"


\* A call whose response has been read returns, unless the reader is stuck.
AnsweredReturns ==
  \A c \in Callers : sess.heard[c] = "ended" ~> (panicked \/ Stuck \/ Returned(c))

\* A call that waits though it could send.
Stalled(c) == call[c].at = "blocked" /\ Sendable(c) > 0

\* A window that opens wakes the call that waits for it, or its token went to
\* another upload since the last read was dispatched: no credit goes by without a
\* token, and no token is lost to anything else.
SenderWakes ==
  \A c \in Callers :
    Stalled(c) ~> \/ panicked \/ Stuck \/ call[c].at # "blocked"
                  \/ reader.at = "read" /\ window \in Callers \ {c}

\* What concurrent uploads on one connection expect: whoever can send is woken.
EverySenderWakes ==
  \A c \in Callers : Stalled(c) ~> (panicked \/ Stuck \/ call[c].at # "blocked")

\* What concurrent calls on one connection expect: the reader never waits for
\* good on behalf of one of them.
ReaderNeverStuck == reader.at = "deliver" ~> (panicked \/ reader.at # "deliver")
=============================================================================
