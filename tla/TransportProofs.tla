---------------------------- MODULE TransportProofs ----------------------------
(***************************************************************************)
(* The client transport for any number of calls and pushes and any size of *)
(* an event channel: its invariants, and that it implements Calls.         *)
(***************************************************************************)
EXTENDS Transport, TLAPS

-----------------------------------------------------------------------------
(* Sequences                                                               *)

\* What is left of a sequence without its head.
LEMMA RangeTail ==
  ASSUME NEW S, NEW s \in Seq(S), s # <<>>
  PROVE  /\ Head(s) \in Range(s) /\ Head(s) \in S /\ Tail(s) \in Seq(S)
         /\ Range(Tail(s)) \subseteq Range(s)
         /\ Len(Tail(s)) = Len(s) - 1 /\ Len(s) \in Nat
  BY DEF Range

\* What is in a sequence after an element is appended.
LEMMA RangeAppend ==
  ASSUME NEW S, NEW s \in Seq(S), NEW e \in S
  PROVE  /\ Append(s, e) \in Seq(S) /\ Len(Append(s, e)) = Len(s) + 1 /\ Len(s) \in Nat
         /\ Range(Append(s, e)) = Range(s) \cup {e}
<1>1. /\ Append(s, e) \in Seq(S) /\ Len(Append(s, e)) = Len(s) + 1 /\ Len(s) \in Nat
      /\ DOMAIN s = 1..Len(s) /\ DOMAIN Append(s, e) = 1..(Len(s) + 1)
      /\ \A i \in 1..Len(s) : Append(s, e)[i] = s[i]
      /\ Append(s, e)[Len(s) + 1] = e
  OBVIOUS
<1>2. 1..(Len(s) + 1) = 1..Len(s) \cup {Len(s) + 1}
  BY <1>1
<1> QED
  BY <1>1, <1>2 DEF Range

\* Sequences of no, one and two elements.
LEMMA RangeShort ==
  ASSUME NEW S, NEW a \in S, NEW b \in S
  PROVE  /\ <<>> \in Seq(S) /\ <<a>> \in Seq(S) /\ <<a, b>> \in Seq(S)
         /\ Range(<<>>) = {} /\ Range(<<a>>) = {a} /\ Range(<<a, b>>) = {a, b}
         /\ <<a>> # <<>> /\ <<a, b>> # <<>>
<1>1. DOMAIN <<>> = {} /\ DOMAIN <<a>> = {1} /\ DOMAIN <<a, b>> = {1, 2}
  OBVIOUS
<1> QED
  BY <1>1 DEF Range

-----------------------------------------------------------------------------
(* The session                                                             *)

\* Closing streams leaves what was heard of them.
LEMMA CloseStreamsType ==
  ASSUME sess \in SessionRecord, NEW S, NEW r, r = CloseStreams(S)
  PROVE  /\ r \in SessionRecord
         /\ r.heard = sess.heard /\ r.cast = sess.cast
         /\ \A x \in Streams : r.stream[x] = IF x \in S THEN "closed" ELSE sess.stream[x]
<1> DEFINE stream == [x \in Streams |-> IF x \in S THEN "closed" ELSE sess.stream[x]]
           credit == [c \in Callers |-> IF c \in S THEN 0 ELSE sess.credit[c]]
<1>1. stream \in [Streams -> {"idle", "open", "local", "remote", "closed"}]
  BY Zenon DEF SessionRecord
<1>2. credit \in [Callers -> 0..MaxCredit]
  BY TransportAssumption DEF SessionRecord
<1>3. r = [sess EXCEPT !.stream = stream, !.credit = credit]
  BY Zenon DEF CloseStreams
<1>4. \A x \in Streams : stream[x] = IF x \in S THEN "closed" ELSE sess.stream[x]
  BY Zenon
<1> HIDE DEF stream, credit
<1>5. r \in SessionRecord
  BY <1>1, <1>2, <1>3, Zenon DEF SessionRecord
<1>6. r.heard = sess.heard /\ r.cast = sess.cast /\ r.stream = stream
  BY <1>3, Zenon DEF SessionRecord
<1> QED
  BY <1>4, <1>5, <1>6, Zenon

-----------------------------------------------------------------------------
(* The invariant                                                           *)

IInv == TransportInv /\ PanicsOnlyAfterClose /\ NoOrphanStream

\* A receive takes the first event; a response that it completes was ended by the peer.
LEMMA TakeFacts ==
  ASSUME IInv, NEW x \in Streams, NEW outcome, Take(x, outcome)
  PROVE  /\ queue' \in [Streams -> Seq(Kinds)]
         /\ progress' \in [Streams -> {"none", "headers", "complete"}]
         /\ \A y \in Streams \ {x} : queue'[y] = queue[y] /\ progress'[y] = progress[y]
         /\ Range(queue'[x]) \subseteq Range(queue[x]) /\ Len(queue'[x]) <= EventBuffer
         /\ outcome = "complete" \/ progress'[x] = "complete" => sess.heard[x] = "ended"
<1> USE DEF IInv, TransportInv
<1>0. /\ queue \in [Streams -> Seq(Kinds)] /\ queue[x] \in Seq(Kinds)
      /\ progress \in [Streams -> {"none", "headers", "complete"}]
      /\ progress[x] \in {"none", "headers", "complete"}
  BY Zenon DEF TransportTypeOK
<1>1. /\ queue[x] # <<>> /\ outcome \in Consumed(x)
      /\ queue' = [queue EXCEPT ![x] = Tail(queue[x])]
      /\ progress' = [progress EXCEPT ![x] = IF outcome = "error" THEN progress[x] ELSE outcome]
  BY Zenon DEF Take
<1>2. /\ Head(queue[x]) \in Range(queue[x]) /\ Head(queue[x]) \in Kinds
      /\ Tail(queue[x]) \in Seq(Kinds)
      /\ Range(Tail(queue[x])) \subseteq Range(queue[x])
      /\ Len(Tail(queue[x])) = Len(queue[x]) - 1 /\ Len(queue[x]) \in Nat
  BY <1>0, <1>1, RangeTail, Zenon
<1>3. /\ outcome \in {"none", "headers", "complete", "error"}
      /\ outcome = "complete" => Head(queue[x]) = "end" \/ progress[x] = "complete"
  BY <1>0, <1>1, <1>2, Zenon DEF Consumed, Kinds
<1>4. outcome = "complete" \/ progress[x] = "complete" => sess.heard[x] = "ended"
  BY <1>2, <1>3, Zenon DEF EndWasHeard
<1>5. /\ queue'[x] = Tail(queue[x]) /\ \A y \in Streams \ {x} : queue'[y] = queue[y]
      /\ queue' \in [Streams -> Seq(Kinds)]
  BY <1>0, <1>1, <1>2, Zenon
<1>6. /\ progress'[x] \in {progress[x], outcome}
      /\ \A y \in Streams \ {x} : progress'[y] = progress[y]
      /\ progress' \in [Streams -> {"none", "headers", "complete"}]
  BY <1>0, <1>1, <1>3, Zenon
<1>7. Len(queue[x]) <= EventBuffer /\ EventBuffer \in Nat
  BY TransportAssumption, Zenon DEF ChannelsBounded
<1> QED
  BY <1>2, <1>4, <1>5, <1>6, <1>7

\* A step of one call.
LEMMA CallerStep ==
  ASSUME IInv, NEW c \in Callers,
         call' \in [Callers -> CallRecord], \A d \in Callers \ {c} : call'[d] = call[d],
         UNCHANGED <<queue, progress>> \/ \E outcome \in Outcomes : Take(c, outcome),
         sess' \in SessionRecord, sess'.heard = sess.heard,
         \A x \in Streams \ {c} : sess'.stream[x] = sess.stream[x],
         pending' \in {pending, pending \ {c}} \/ (pending' = pending \cup {c} /\ ~failed),
         window' \in Callers \cup {"none", "token"}, broken' \in BOOLEAN, broken => broken',
         UNCHANGED <<pushes, shut, reader, failVars, goAway>>,
         failed => sess'.stream[c] = sess.stream[c],
         sess.heard[c] = "ended" => sess'.stream[c] \in {"remote", "closed"},
         call'[c].at # "start",
         call'[c].at \in {"await", "finish"} => sess'.stream[c] \in {"local", "closed"},
         call'[c].at \in {"abort", "finish", "response"} => sess.heard[c] = "ended",
         Returned(c)' => /\ c \in pending' => broken'
                         /\ sess'.stream[c] \in {"idle", "closed"} \/ failed \/ broken'
  PROVE  IInv'
<1> USE DEF IInv, TransportInv
<1>0. c \in Streams /\ c \notin Pushes
  BY TransportAssumption, Zenon DEF Streams
<1>1. /\ queue' \in [Streams -> Seq(Kinds)]
      /\ progress' \in [Streams -> {"none", "headers", "complete"}]
      /\ \A y \in Streams \ {c} : queue'[y] = queue[y] /\ progress'[y] = progress[y]
      /\ Range(queue'[c]) \subseteq Range(queue[c]) /\ Len(queue'[c]) <= EventBuffer
      /\ progress'[c] = "complete" => sess.heard[c] = "ended"
  <2>1. CASE UNCHANGED <<queue, progress>>
    BY <1>0, <2>1, Zenon DEF TransportTypeOK, ChannelsBounded, EndWasHeard
  <2>2. CASE \E outcome \in Outcomes : Take(c, outcome)
    BY <1>0, <2>2, TakeFacts, Zenon
  <2> QED
    BY <2>1, <2>2, Zenon
<1>2. TransportTypeOK'
  <2>1. pending' \subseteq Streams
    BY <1>0, Zenon DEF TransportTypeOK
  <2> QED
    BY <1>1, <2>1, Zenon DEF TransportTypeOK, failVars
<1>3. ChannelsBounded'
  BY <1>1, Zenon DEF ChannelsBounded
<1>4. PendingIsServed'
  <2>1. \A d \in Callers \ {c} : Returned(d)' = Returned(d)
    BY Zenon DEF Returned
  <2>2. \A x : x # c => (x \in pending' <=> x \in pending)
    OBVIOUS
  <2> QED
    BY <1>0, <2>1, <2>2, Zenon DEF PendingIsServed
<1>5. EndWasHeard'
  BY <1>0, <1>1, ZenonT(40) DEF EndWasHeard
<1>6. StreamsAgree'
  <2>1. failed' = failed /\ Callers \subseteq Streams /\ Pushes \subseteq Streams \ {c}
    BY <1>0, Zenon DEF failed, failVars, Streams
  <2>2. \A x \in Streams : sess'.heard[x] = "ended" => sess'.stream[x] \in {"remote", "closed"}
    BY Zenon DEF StreamsAgree
  <2>3. \A p \in Pushes : sess'.stream[p] \in {"idle", "local", "closed"}
    BY <2>1, Zenon DEF StreamsAgree
  <2>4. ASSUME NEW d \in Callers
        PROVE  /\ call'[d].at = "start" => d \notin pending' /\ (failed' \/ sess'.stream[d] = "idle")
               /\ call'[d].at \in {"await", "finish"} => sess'.stream[d] \in {"local", "closed"}
    BY <2>1, Zenon DEF StreamsAgree
  <2> QED
    BY <2>2, <2>3, <2>4, Zenon DEF StreamsAgree
<1>7. FailedAgree'
  BY <1>0, Zenon DEF FailedAgree, failed, failVars
<1>8. PanicsOnlyAfterClose'
  BY Zenon DEF PanicsOnlyAfterClose, failVars
<1>9. NoOrphanStream'
  <2>1. Pushes \subseteq Streams \ {c} /\ Callers \subseteq Streams
    BY <1>0, Zenon DEF Streams
  <2>2. \A d \in Callers \ {c} : Returned(d)' = Returned(d)
    BY Zenon DEF Returned
  <2> QED
    BY <2>1, <2>2, Zenon DEF NoOrphanStream, failed, failVars
<1> QED
  BY <1>2, <1>3, <1>4, <1>5, <1>6, <1>7, <1>8, <1>9, Zenon

Labels == {"start", "reading", "draining", "sending", "blocked", "ending", "await",
           "cancel", "abort", "finish", "response", "error"}

\* Goto and Leave move one call.
LEMMA Jump ==
  ASSUME call \in [Callers -> CallRecord], NEW c \in Callers, NEW label \in Labels,
         Goto(c, label) \/ Leave(c, label)
  PROVE  /\ call' \in [Callers -> CallRecord]
         /\ call'[c].at = label /\ \A d \in Callers \ {c} : call'[d] = call[d]
<1>0. call[c] \in CallRecord /\ label \in Labels
  BY Zenon
<1>1. CASE Goto(c, label)
  BY <1>0, <1>1, Zenon DEF Goto, CallRecord, Labels
<1>2. CASE Leave(c, label)
  <2> DEFINE b == call[c].cancelled /\ label \in {"reading", "ending", "await"}
  <2>1. PICK r : r = [At(label) EXCEPT !.cancelled = b]
    BY Zenon
  <2>2. call' = [call EXCEPT ![c] = r]
    BY <1>2, <2>1, Zenon DEF Leave
  <2>3. b \in BOOLEAN
    BY Zenon
  <2> HIDE DEF b
  <2>4. r \in CallRecord /\ r.at = label
    BY <1>0, <2>1, <2>3, Zenon DEF At, CallRecord, Labels
  <2> QED
    BY <2>2, <2>4, Zenon
<1> QED
  BY <1>1, <1>2, Zenon

\* A write error is for good.
LEMMA FlushFacts ==
  ASSUME broken \in BOOLEAN, NEW ok \in BOOLEAN, Flush(ok)
  PROVE  broken' \in BOOLEAN /\ (broken => broken') /\ (~ok => broken')
  BY Zenon DEF Flush

\* roundTrip is refused a stream, or opens one.
LEMMA BeginInv == ASSUME IInv, NEW c \in Callers, BeginRefused(c) \/ BeginOpen(c) PROVE IInv'
<1> USE DEF IInv, TransportInv
<1>0. /\ c \in Streams /\ call[c].at = "start" /\ c \notin pending
      /\ failed \/ sess.stream[c] = "idle"
      /\ call \in [Callers -> CallRecord] /\ sess \in SessionRecord
      /\ broken \in BOOLEAN /\ window \in Callers \cup {"none", "token"}
  BY Zenon DEF BeginRefused, BeginOpen, Doing, StreamsAgree, Streams, TransportTypeOK
<1>1. CASE BeginRefused(c)
  <2>1. /\ Leave(c, "error")
        /\ UNCHANGED <<pushes, exchangeVars, reader, window, failVars, goAway, broken, sess>>
    BY <1>1, Zenon DEF BeginRefused
  <2>2. /\ call' \in [Callers -> CallRecord]
        /\ call'[c].at = "error" /\ \A d \in Callers \ {c} : call'[d] = call[d]
    BY <1>0, <2>1, Jump, Zenon DEF Labels
  <2>3. sess.heard[c] = "ended" => sess.stream[c] \in {"remote", "closed"}
    BY <1>0, Zenon DEF StreamsAgree
  <2>4. failed => sess.stream[c] = "closed"
    BY <1>0, Zenon DEF FailedAgree
  <2> QED
    BY <1>0, <2>1, <2>2, <2>3, <2>4, CallerStep, Zenon DEF exchangeVars
<1>2. CASE BeginOpen(c)
  <2> DEFINE v == IF AfterHeaders = "await" THEN "local" ELSE "open"
  <2>1. /\ ~failed
        /\ sess' = [sess EXCEPT !.stream[c] = v, !.order = Append(@, c)]
        /\ pending' = pending \cup {c}
        /\ \/ Flush(TRUE) /\ Leave(c, AfterHeaders)
           \/ Flush(FALSE) /\ Leave(c, "error")
        /\ UNCHANGED <<pushes, queue, progress, shut, reader, window, failVars, goAway>>
    BY <1>2, Zenon DEF BeginOpen, Refused
  <2>2. sess.stream[c] = "idle" /\ sess.heard[c] # "ended"
    BY <1>0, <2>1, Zenon DEF StreamsAgree
  <2>3. v \in {"local", "open"} /\ Append(sess.order, c) \in Seq(Callers)
    BY <1>0, RangeAppend, Zenon DEF SessionRecord
  <2>4. AfterHeaders = "await" => v = "local"
    BY Zenon
  <2>5. AfterHeaders \in {"reading", "ending", "await"}
    BY Zenon DEF AfterHeaders
  <2> HIDE DEF v
  <2>6. /\ sess' \in SessionRecord /\ sess'.heard = sess.heard
        /\ sess'.stream[c] = v /\ \A x \in Streams \ {c} : sess'.stream[x] = sess.stream[x]
    BY <1>0, <2>1, <2>3, Zenon DEF SessionRecord
  <2>7. CASE Flush(FALSE) /\ Leave(c, "error")
    <3>1. /\ call' \in [Callers -> CallRecord]
          /\ call'[c].at = "error" /\ \A d \in Callers \ {c} : call'[d] = call[d]
      BY <1>0, <2>7, Jump, Zenon DEF Labels
    <3>2. broken' \in BOOLEAN /\ broken'
      BY <1>0, <2>7, FlushFacts, Zenon
    <3> QED
      BY <1>0, <2>1, <2>2, <2>6, <3>1, <3>2, CallerStep, Zenon
  <2>8. CASE Flush(TRUE) /\ Leave(c, AfterHeaders)
    <3>1. /\ call' \in [Callers -> CallRecord]
          /\ call'[c].at = AfterHeaders /\ \A d \in Callers \ {c} : call'[d] = call[d]
      BY <1>0, <2>5, <2>8, Jump, Zenon DEF Labels
    <3>2. broken' \in BOOLEAN /\ (broken => broken')
      BY <1>0, <2>8, FlushFacts, Zenon
    <3>3. ~Returned(c)' /\ call'[c].at \in {"reading", "ending", "await"}
      BY <2>5, <3>1, Zenon DEF Returned
    <3> QED
      BY <1>0, <2>1, <2>2, <2>4, <2>6, <3>1, <3>2, <3>3, CallerStep, Zenon
  <2> QED
    BY <2>1, <2>7, <2>8, Zenon
<1> QED
  BY <1>1, <1>2, Zenon

\* A step of a call that leaves the session and the registry alone.
LEMMA QuietStep ==
  ASSUME IInv, NEW c \in Callers, NEW label \in Labels,
         call' \in [Callers -> CallRecord], \A d \in Callers \ {c} : call'[d] = call[d],
         call'[c].at = label, label \notin {"start", "response"},
         UNCHANGED <<queue, progress>> \/ \E outcome \in Outcomes : Take(c, outcome),
         window' \in Callers \cup {"none", "token"},
         UNCHANGED <<pushes, pending, shut, reader, failVars, goAway, broken, sess>>,
         label \in {"await", "finish"} => sess.stream[c] \in {"local", "closed"},
         label \in {"abort", "finish"} => sess.heard[c] = "ended",
         label = "error" => failed
  PROVE  IInv'
<1>1. /\ c \in Streams /\ broken \in BOOLEAN /\ sess \in SessionRecord
      /\ failed => pending = {}
      /\ sess.heard[c] = "ended" => sess.stream[c] \in {"remote", "closed"}
  BY Zenon DEF IInv, TransportInv, TransportTypeOK, StreamsAgree, FailedAgree, Streams
<1>2. Returned(c)' => failed
  BY Zenon DEF Returned
<1> QED
  BY <1>1, <1>2, CallerStep, Zenon

\* A channel is drained of nothing more, or done, only after fail.
LEMMA DrainedFails == ASSUME IInv, NEW x \in Streams, Drained(x) \/ done PROVE failed
  BY Zenon DEF IInv, TransportInv, FailedAgree, Drained, done, failed

\* The application reads the body of a response, or cancels its context.
LEMMA ReadBodyInv == ASSUME IInv, NEW c \in Callers, ReadBody(c) \/ CancelContext(c) PROVE IInv'
<1>0. /\ call \in [Callers -> CallRecord] /\ call[c] \in CallRecord
      /\ window \in Callers \cup {"none", "token"}
  BY Zenon DEF IInv, TransportInv, TransportTypeOK
<1>1. CASE ReadBody(c)
  <2>1. PICK got \in {"data", "eof", "error"} :
          call' = [call EXCEPT ![c].at = "draining", ![c].read = got,
                               ![c].left = IF got = "data" THEN Body ELSE 0]
    BY <1>1, Zenon DEF ReadBody
  <2>2. (IF got = "data" THEN Body ELSE 0) \in Nat
    BY TransportAssumption, Zenon
  <2>3. /\ call'[c].at = "draining" /\ \A d \in Callers \ {c} : call'[d] = call[d]
        /\ call' \in [Callers -> CallRecord]
    BY <1>0, <2>1, <2>2, Zenon DEF CallRecord
  <2> QED
    BY <1>0, <1>1, <2>3, QuietStep, Zenon DEF ReadBody, exchangeVars, Labels
<1>2. CASE CancelContext(c)
  <2>1. /\ call[c].at \in {"reading", "draining", "sending", "blocked", "ending", "await"}
        /\ call' = [call EXCEPT ![c].cancelled = TRUE]
    BY <1>2, Zenon DEF CancelContext
  <2>2. /\ call'[c].at = call[c].at /\ \A d \in Callers \ {c} : call'[d] = call[d]
        /\ call' \in [Callers -> CallRecord]
    BY <1>0, <2>1, Zenon DEF CallRecord
  <2>3. call[c].at = "await" => sess.stream[c] \in {"local", "closed"}
    BY Zenon DEF IInv, TransportInv, StreamsAgree
  <2>4. call[c].at \in Labels
    BY <2>1, Zenon DEF Labels
  <2> QED
    BY <1>0, <1>2, <2>1, <2>2, <2>3, <2>4, QuietStep, Zenon DEF CancelContext, exchangeVars
<1> QED
  BY <1>1, <1>2, Zenon

\* A caller consumes the events available to it before it sends on.
LEMMA DrainInv == ASSUME IInv, NEW c \in Callers, Drain(c) PROVE IInv'
<1>0. /\ call \in [Callers -> CallRecord] /\ call[c] \in CallRecord
      /\ window \in Callers \cup {"none", "token"} /\ c \in Streams
  BY Zenon DEF IInv, TransportInv, TransportTypeOK, Streams
<1>1. /\ UNCHANGED <<pushes, pending, shut, reader, window, failVars, goAway, broken, sess>>
      /\ call[c].at = "draining"
  BY Zenon DEF Drain, Doing
<1>2. UNCHANGED <<queue, progress>> \/ \E outcome \in Outcomes : Take(c, outcome)
  BY Zenon DEF Drain
<1>3. CASE UNCHANGED call
  BY <1>0, <1>1, <1>2, <1>3, QuietStep, Zenon DEF Labels
<1>4. CASE ~UNCHANGED call
  <2>1. \E label \in {"cancel", "abort", "sending", "ending"} :
          /\ Goto(c, label) \/ Leave(c, label)
          /\ label = "abort" => progress[c] = "complete"
    BY <1>4, Zenon DEF Drain
  <2>2. PICK label \in {"cancel", "abort", "sending", "ending"} :
          /\ Goto(c, label) \/ Leave(c, label)
          /\ label = "abort" => progress[c] = "complete"
    BY <2>1, Zenon
  <2>3. label \in Labels
    BY Zenon DEF Labels
  <2>4. /\ call' \in [Callers -> CallRecord]
        /\ call'[c].at = label /\ \A d \in Callers \ {c} : call'[d] = call[d]
    BY <1>0, <2>2, <2>3, Jump, Zenon
  <2>5. label = "abort" => sess.heard[c] = "ended"
    BY <1>0, <2>2, Zenon DEF IInv, TransportInv, EndWasHeard
  <2> QED
    BY <1>0, <1>1, <1>2, <2>3, <2>4, <2>5, QuietStep, Zenon
<1> QED
  BY <1>3, <1>4, Zenon

\* A caller that waits for credit.
LEMMA BlockedInv == ASSUME IInv, NEW c \in Callers, Blocked(c) PROVE IInv'
<1>0. /\ call \in [Callers -> CallRecord] /\ call[c] \in CallRecord
      /\ window \in Callers \cup {"none", "token"} /\ c \in Streams
  BY Zenon DEF IInv, TransportInv, TransportTypeOK, Streams
<1>1. /\ UNCHANGED <<pushes, pending, shut, reader, failVars, goAway, broken, sess>>
      /\ window' \in {window, c}
  BY Zenon DEF Blocked
<1>2. UNCHANGED <<queue, progress>> \/ \E outcome \in Outcomes : Take(c, outcome)
  BY Zenon DEF Blocked
<1>3. PICK label \in {"cancel", "abort", "sending"} :
        /\ Goto(c, label) \/ Leave(c, label)
        /\ label = "abort" => Take(c, "complete")
  <2>1. \/ Leave(c, "cancel")
        \/ Leave(c, "abort") /\ Take(c, "complete")
        \/ Goto(c, "sending")
    BY Zenon DEF Blocked
  <2> QED
    BY <2>1, Zenon
<1>4. label \in Labels
  BY Zenon DEF Labels
<1>5. /\ call' \in [Callers -> CallRecord]
      /\ call'[c].at = label /\ \A d \in Callers \ {c} : call'[d] = call[d]
  BY <1>0, <1>3, <1>4, Jump, Zenon
<1>6. label = "abort" => sess.heard[c] = "ended"
  BY <1>0, <1>3, TakeFacts, Zenon
<1> QED
  BY <1>0, <1>1, <1>2, <1>3, <1>4, <1>5, <1>6, QuietStep, Zenon

\* A caller that waits for its response.
LEMMA AwaitInv == ASSUME IInv, NEW c \in Callers, Await(c) PROVE IInv'
<1>0. /\ call \in [Callers -> CallRecord] /\ call[c] \in CallRecord
      /\ window \in Callers \cup {"none", "token"} /\ c \in Streams
  BY Zenon DEF IInv, TransportInv, TransportTypeOK, Streams
<1>1. /\ UNCHANGED <<pushes, pending, shut, reader, window, failVars, goAway, broken, sess>>
      /\ call[c].at = "await"
  BY Zenon DEF Await, Doing
<1>2. UNCHANGED <<queue, progress>> \/ \E outcome \in Outcomes : Take(c, outcome)
  BY Zenon DEF Await
<1>3. sess.stream[c] \in {"local", "closed"}
  BY <1>1, Zenon DEF IInv, TransportInv, StreamsAgree
<1>4. CASE UNCHANGED call
  BY <1>0, <1>1, <1>2, <1>3, <1>4, QuietStep, Zenon DEF Labels
<1>5. CASE ~UNCHANGED call
  <2>1. \/ Leave(c, "cancel")
        \/ Leave(c, "finish") /\ Take(c, "complete")
        \/ Leave(c, "error") /\ (Drained(c) \/ done)
    BY <1>5, Zenon DEF Await
  <2>2. PICK label \in {"cancel", "finish", "error"} :
          /\ Leave(c, label)
          /\ label = "finish" => Take(c, "complete")
          /\ label = "error" => Drained(c) \/ done
    BY <2>1, Zenon
  <2>3. label \in Labels
    BY Zenon DEF Labels
  <2>4. /\ call' \in [Callers -> CallRecord]
        /\ call'[c].at = label /\ \A d \in Callers \ {c} : call'[d] = call[d]
    BY <1>0, <2>2, <2>3, Jump, Zenon
  <2>5. label = "finish" => sess.heard[c] = "ended"
    BY <1>0, <2>2, TakeFacts, Zenon
  <2>6. label = "error" => failed
    BY <1>0, <2>2, DrainedFails, Zenon
  <2> QED
    BY <1>0, <1>1, <1>2, <1>3, <2>2, <2>3, <2>4, <2>5, <2>6, QuietStep, Zenon
<1> QED
  BY <1>4, <1>5, Zenon

\* The part of a body that may be sent is within both windows.
LEMMA SendableBounds ==
  ASSUME TransportTypeOK, NEW c \in Callers
  PROVE  /\ Sendable(c) \in Nat /\ Sendable(c) <= call[c].left
         /\ Sendable(c) <= sess.credit[c] /\ Sendable(c) <= sess.connCredit
<1>1. call[c].left \in Nat /\ sess.credit[c] \in Nat /\ sess.connCredit \in Nat
  BY TransportAssumption DEF TransportTypeOK, CallRecord, SessionRecord
<1>2. \A x, y, z \in Nat : \E m \in {x, y, z} : \A n \in {x, y, z} : m <= n
  OBVIOUS
<1>3. PICK m \in {call[c].left, sess.credit[c], sess.connCredit} :
        \A n \in {call[c].left, sess.credit[c], sess.connCredit} : m <= n
  BY <1>1, <1>2
<1>4. Sendable(c) \in {call[c].left, sess.credit[c], sess.connCredit} /\
        \A n \in {call[c].left, sess.credit[c], sess.connCredit} : Sendable(c) <= n
  BY <1>3, Zenon DEF Sendable, Min
<1> QED
  BY <1>1, <1>4, Zenon

\* A caller sends a part of its request body.
LEMMA SendDataInv == ASSUME IInv, NEW c \in Callers, SendData(c) PROVE IInv'
<1>0. /\ call \in [Callers -> CallRecord] /\ call[c] \in CallRecord
      /\ window \in Callers \cup {"none", "token"}
      /\ c \in Streams /\ sess \in SessionRecord /\ broken \in BOOLEAN
      /\ sess.heard[c] = "ended" => sess.stream[c] \in {"remote", "closed"}
  BY Zenon DEF IInv, TransportInv, TransportTypeOK, Streams, StreamsAgree
<1>1. UNCHANGED <<pushes, pending, queue, progress, shut, reader, window, failVars, goAway>>
  BY Zenon DEF SendData, exchangeVars
<1>2. CASE UNCHANGED <<sess, broken>> /\ \E label \in {"cancel", "blocked"} :
             Leave(c, label) \/ Goto(c, label)
  <2>1. PICK label \in {"cancel", "blocked"} : Leave(c, label) \/ Goto(c, label)
    BY <1>2, Zenon
  <2>2. label \in Labels
    BY Zenon DEF Labels
  <2>3. /\ call' \in [Callers -> CallRecord]
        /\ call'[c].at = label /\ \A d \in Callers \ {c} : call'[d] = call[d]
    BY <1>0, <2>1, <2>2, Jump, Zenon
  <2> QED
    BY <1>0, <1>1, <1>2, <2>2, <2>3, QuietStep, Zenon
<1>3. CASE ~(UNCHANGED <<sess, broken>> /\ \E label \in {"cancel", "blocked"} :
               Leave(c, label) \/ Goto(c, label))
  <2> DEFINE n == Sendable(c)
  <2>0. n \in Nat /\ n <= call[c].left /\ n <= sess.credit[c] /\ n <= sess.connCredit
    BY SendableBounds, Zenon DEF IInv, TransportInv
  <2> HIDE DEF n
  <2>1. /\ sess' = [sess EXCEPT !.credit[c] = sess.credit[c] - n,
                                !.connCredit = sess.connCredit - n]
        /\ \E ok \in BOOLEAN :
             /\ Flush(ok)
             /\ IF ok
                THEN call' = [call EXCEPT ![c].left = call[c].left - n,
                                ![c].at = IF call[c].left = n THEN "reading" ELSE "sending"]
                ELSE Leave(c, "cancel")
    BY <1>3, Zenon DEF SendData, n
  <2>2. sess.credit[c] - n \in 0..MaxCredit /\ sess.connCredit - n \in 0..MaxCredit
    BY <1>0, <2>0, TransportAssumption DEF SessionRecord
  <2>3. /\ sess' \in SessionRecord
        /\ sess'.heard = sess.heard /\ sess'.stream = sess.stream
    BY <1>0, <2>1, <2>2, Zenon DEF SessionRecord
  <2>4. PICK ok \in BOOLEAN :
          /\ Flush(ok)
          /\ IF ok
             THEN call' = [call EXCEPT ![c].left = call[c].left - n,
                             ![c].at = IF call[c].left = n THEN "reading" ELSE "sending"]
             ELSE Leave(c, "cancel")
    BY <2>1, Zenon
  <2>5. /\ call' \in [Callers -> CallRecord]
        /\ call'[c].at \in {"reading", "sending", "cancel"}
        /\ \A d \in Callers \ {c} : call'[d] = call[d]
    <3>1. CASE ok
      <4>1. call[c].left - n \in Nat
        BY <1>0, <2>0 DEF CallRecord
      <4> QED
        BY <1>0, <2>4, <3>1, <4>1 DEF CallRecord
    <3>2. CASE ~ok
      BY <1>0, <2>4, <3>2, Jump, Zenon DEF Labels
    <3> QED
      BY <3>1, <3>2, Zenon
  <2>6. broken' \in BOOLEAN /\ (broken => broken')
    BY <1>0, <2>4, FlushFacts, Zenon
  <2>7. ~Returned(c)'
    BY <2>5, Zenon DEF Returned
  <2> QED
    BY <1>0, <1>1, <2>3, <2>5, <2>6, <2>7, CallerStep, Zenon
<1> QED
  BY <1>2, <1>3, Zenon

\* A caller sends the end of its request.
LEMMA SendEndInv == ASSUME IInv, NEW c \in Callers, SendEnd(c) PROVE IInv'
<1>0. /\ call \in [Callers -> CallRecord] /\ call[c] \in CallRecord
      /\ window \in Callers \cup {"none", "token"}
      /\ c \in Streams /\ sess \in SessionRecord /\ broken \in BOOLEAN
      /\ sess.heard[c] = "ended" => sess.stream[c] \in {"remote", "closed"}
  BY Zenon DEF IInv, TransportInv, TransportTypeOK, Streams, StreamsAgree
<1>1. UNCHANGED <<pushes, pending, queue, progress, shut, reader, window, failVars, goAway>>
  BY Zenon DEF SendEnd, exchangeVars
<1>2. CASE ~CanSend(c)
  <2>1. Leave(c, "cancel") /\ UNCHANGED <<sess, broken>>
    BY <1>2, Zenon DEF SendEnd
  <2>2. "cancel" \in Labels
    BY Zenon DEF Labels
  <2>3. /\ call' \in [Callers -> CallRecord]
        /\ call'[c].at = "cancel" /\ \A d \in Callers \ {c} : call'[d] = call[d]
    BY <1>0, <2>1, <2>2, Jump, Zenon
  <2> QED
    BY <1>0, <1>1, <2>1, <2>2, <2>3, QuietStep, Zenon
<1>3. CASE CanSend(c)
  <2> DEFINE s == LocalEnd(sess.stream[c])
  <2>0. /\ s \in {"local", "closed"} /\ ~failed
        /\ sess.heard[c] = "ended" => s = "closed"
    BY <1>0, <1>3, Zenon DEF CanSend, LocalEnd
  <2>1. sess' = [sess EXCEPT !.stream[c] = s, !.credit[c] = 0]
    BY <1>3, Zenon DEF SendEnd
  <2> HIDE DEF s
  <2>2. 0 \in 0..MaxCredit
    BY TransportAssumption
  <2>3. /\ sess' \in SessionRecord /\ sess'.heard = sess.heard /\ sess'.stream[c] = s
        /\ \A x \in Streams \ {c} : sess'.stream[x] = sess.stream[x]
    BY <1>0, <2>0, <2>1, <2>2, Zenon DEF SessionRecord
  <2>4. PICK ok \in BOOLEAN : Flush(ok) /\ Leave(c, IF ok THEN "await" ELSE "cancel")
    BY <1>3, Zenon DEF SendEnd
  <2>5. PICK label \in {"await", "cancel"} : Leave(c, label)
    BY <2>4, Zenon
  <2>6. /\ call' \in [Callers -> CallRecord] /\ call'[c].at = label
        /\ \A d \in Callers \ {c} : call'[d] = call[d]
    BY <1>0, <2>5, Jump, Zenon DEF Labels
  <2>7. broken' \in BOOLEAN /\ (broken => broken')
    BY <1>0, <2>4, FlushFacts, Zenon
  <2>8. ~Returned(c)'
    BY <2>6, Zenon DEF Returned
  <2> QED
    BY <1>0, <1>1, <2>0, <2>3, <2>6, <2>7, <2>8, CallerStep, Zenon
<1> QED
  BY <1>2, <1>3, Zenon

\* What cancelStream does to the session.
LEMMA CancelStreamFacts ==
  ASSUME IInv, NEW x \in Streams, CancelStream(x)
  PROVE  /\ pending' = pending \ {x}
         /\ broken' \in BOOLEAN /\ (broken => broken')
         /\ sess' \in SessionRecord /\ sess'.heard = sess.heard
         /\ sess'.stream[x] = "closed"
         /\ \A y \in Streams \ {x} : sess'.stream[y] = sess.stream[y]
<1>1. pending' = pending \ {x}
  BY Zenon DEF CancelStream
<1>2. PICK ok \in BOOLEAN : Flush(ok)
  BY Zenon DEF CancelStream
<1>3. broken \in BOOLEAN
  BY Zenon DEF IInv, TransportInv, TransportTypeOK
<1>4. broken' \in BOOLEAN /\ (broken => broken')
  BY <1>2, <1>3, FlushFacts, Zenon
<1>5. sess \in SessionRecord /\ (failed => sess.stream[x] = "closed")
  BY Zenon DEF IInv, TransportInv, TransportTypeOK, FailedAgree
<1>6. CASE failed
  BY <1>1, <1>4, <1>5, <1>6, Zenon DEF CancelStream
<1>7. CASE ~failed
  <2>1. sess' = CloseStreams({x})
    BY <1>7, Zenon DEF CancelStream
  <2> QED
    BY <1>1, <1>4, <1>5, <2>1, CloseStreamsType
<1> QED
  BY <1>6, <1>7, Zenon

\* A caller gives up its stream, or takes it out of the table.
LEMMA CancelInv == ASSUME IInv, NEW c \in Callers, Cancel(c) \/ Finish(c) PROVE IInv'
<1>0. /\ call \in [Callers -> CallRecord] /\ call[c] \in CallRecord
      /\ window \in Callers \cup {"none", "token"}
      /\ c \in Streams /\ sess \in SessionRecord /\ broken \in BOOLEAN
      /\ sess.heard[c] = "ended" => sess.stream[c] \in {"remote", "closed"}
      /\ failed => sess.stream[c] = "closed"
      /\ call[c].at \in {"abort", "finish"} => sess.heard[c] = "ended"
      /\ call[c].at = "finish" => sess.stream[c] \in {"local", "closed"}
  BY Zenon DEF IInv, TransportInv, TransportTypeOK, Streams, StreamsAgree, FailedAgree, EndWasHeard
<1>1. CASE Cancel(c)
  <2>1. /\ CancelStream(c)
        /\ UNCHANGED <<pushes, queue, progress, shut, reader, window, failVars, goAway>>
    BY <1>1, Zenon DEF Cancel
  <2>2. PICK label \in {"error", "finish"} :
          Leave(c, label) /\ (label = "finish" => call[c].at = "abort")
    BY <1>1, Zenon DEF Cancel, Doing
  <2>3. /\ call' \in [Callers -> CallRecord] /\ call'[c].at = label
        /\ \A d \in Callers \ {c} : call'[d] = call[d]
    BY <1>0, <2>2, Jump, Zenon DEF Labels
  <2>4. /\ pending' = pending \ {c}
        /\ broken' \in BOOLEAN /\ (broken => broken')
        /\ sess' \in SessionRecord /\ sess'.heard = sess.heard
        /\ sess'.stream[c] = "closed"
        /\ \A y \in Streams \ {c} : sess'.stream[y] = sess.stream[y]
    BY <1>0, <2>1, CancelStreamFacts, Zenon
  <2>5. c \notin pending'
    BY <2>4, Zenon
  <2> QED
    BY <1>0, <2>1, <2>2, <2>3, <2>4, <2>5, CallerStep
<1>2. CASE Finish(c)
  <2>1. /\ pending' = pending \ {c} /\ call[c].at = "finish"
        /\ UNCHANGED <<pushes, queue, progress, shut, reader, window, failVars, goAway,
                       broken, sess>>
    BY <1>2, Zenon DEF Finish, Doing
  <2>3. /\ call' \in [Callers -> CallRecord] /\ call'[c].at = "response"
        /\ \A d \in Callers \ {c} : call'[d] = call[d]
    BY <1>0, <1>2, Jump, Zenon DEF Finish, Labels
  <2>4. sess.stream[c] = "closed" /\ c \notin pending'
    BY <1>0, <2>1, Zenon
  <2> QED
    BY <1>0, <2>1, <2>3, <2>4, CallerStep, Zenon
<1> QED
  BY <1>1, <1>2, Zenon

\* What a step of a push's consumer does to the registry and the session.
PushMoved(p) ==
  /\ pending' \in {pending, pending \ {p}}
  /\ pushes' = pushes \/ (pushes' = [pushes EXCEPT ![p] = "stopped"] /\ p \notin pending')
  /\ pushes' # pushes => sess'.stream[p] = "closed"
  /\ broken' \in BOOLEAN /\ (broken => broken')
  /\ sess' \in SessionRecord /\ sess'.heard = sess.heard
  /\ sess'.stream[p] \in {sess.stream[p], "closed"}
  /\ \A y \in Streams \ {p} : sess'.stream[y] = sess.stream[y]

\* A push handler takes what its stream has received.
LEMMA ConsumePushInv == ASSUME IInv, NEW p \in Pushes, ConsumePush(p) PROVE IInv'
<1> USE DEF IInv, TransportInv
<1>0. /\ p \in Streams /\ p \notin Callers /\ Callers \subseteq Streams
      /\ Pushes \subseteq Streams
      /\ pushes \in [Pushes -> {"none", "running", "stopped"}] /\ pushes[p] = "running"
      /\ sess \in SessionRecord /\ broken \in BOOLEAN /\ pending \subseteq Streams
      /\ failed => pending = {} /\ sess.stream[p] = "closed"
      /\ sess.stream[p] \in {"idle", "local", "closed"}
      /\ sess.heard[p] = "ended" => sess.stream[p] \in {"remote", "closed"}
      /\ progress[p] = "complete" => sess.heard[p] = "ended"
  BY TransportAssumption, Zenon
  DEF ConsumePush, Streams, TransportTypeOK, FailedAgree, StreamsAgree, EndWasHeard
<1>u. UNCHANGED <<call, shut, reader, window, failVars, goAway>>
  BY Zenon DEF ConsumePush
<1>1. /\ queue' \in [Streams -> Seq(Kinds)]
      /\ progress' \in [Streams -> {"none", "headers", "complete"}]
      /\ \A y \in Streams \ {p} : queue'[y] = queue[y] /\ progress'[y] = progress[y]
      /\ Range(queue'[p]) \subseteq Range(queue[p]) /\ Len(queue'[p]) <= EventBuffer
      /\ progress'[p] = "complete" => sess.heard[p] = "ended"
  <2>1. CASE UNCHANGED <<queue, progress>>
    BY <1>0, <2>1, Zenon DEF TransportTypeOK, ChannelsBounded
  <2>2. CASE \E outcome : Take(p, outcome)
    BY <1>0, <2>2, TakeFacts, Zenon
  <2> QED
    BY <2>1, <2>2, Zenon DEF ConsumePush
<1>m. PushMoved(p)
  <2>1. ASSUME NEW outcome \in Outcomes \ {"error"}, Take(p, outcome),
               UNCHANGED <<sess, broken>>,
               IF outcome = "complete"
               THEN pending' = pending \ {p} /\ pushes' = [pushes EXCEPT ![p] = "stopped"]
               ELSE UNCHANGED <<pending, pushes>>
        PROVE  PushMoved(p)
    <3>1. outcome = "complete" => sess.stream[p] = "closed"
      BY <1>0, <2>1, TakeFacts, Zenon
    <3> QED
      BY <1>0, <2>1, <3>1, Zenon DEF PushMoved
  <2>2. ASSUME CancelStream(p), pushes' = [pushes EXCEPT ![p] = "stopped"]
        PROVE  PushMoved(p)
    BY <1>0, <2>2, CancelStreamFacts, Zenon DEF PushMoved
  <2>3. ASSUME Drained(p), pushes' = [pushes EXCEPT ![p] = "stopped"],
               UNCHANGED <<queue, progress, pending, sess, broken>>
        PROVE  PushMoved(p)
    BY <1>0, <2>3, DrainedFails, Zenon DEF PushMoved
  <2> QED
    <3>1. \/ \E outcome \in Outcomes \ {"error"} :
                /\ Take(p, outcome) /\ UNCHANGED <<sess, broken>>
                /\ IF outcome = "complete"
                   THEN pending' = pending \ {p} /\ pushes' = [pushes EXCEPT ![p] = "stopped"]
                   ELSE UNCHANGED <<pending, pushes>>
          \/ CancelStream(p) /\ pushes' = [pushes EXCEPT ![p] = "stopped"]
          \/ /\ Drained(p) /\ pushes' = [pushes EXCEPT ![p] = "stopped"]
             /\ UNCHANGED <<queue, progress, pending, sess, broken>>
      BY Zenon DEF ConsumePush
    <3> QED
      BY <2>1, <2>2, <2>3, <3>1, Zenon
<1>2. /\ pending' \in {pending, pending \ {p}}
      /\ pushes' = pushes \/ (pushes' = [pushes EXCEPT ![p] = "stopped"] /\ p \notin pending')
      /\ pushes' # pushes => sess'.stream[p] = "closed"
      /\ broken' \in BOOLEAN /\ (broken => broken')
      /\ sess' \in SessionRecord /\ sess'.heard = sess.heard
      /\ sess'.stream[p] \in {sess.stream[p], "closed"}
      /\ \A y \in Streams \ {p} : sess'.stream[y] = sess.stream[y]
  BY <1>m, Zenon DEF PushMoved
<1>3. TransportTypeOK'
  <2>1. pending' \subseteq Streams /\ pushes' \in [Pushes -> {"none", "running", "stopped"}]
    BY <1>0, <1>2, Zenon
  <2> QED
    BY <1>u, <1>1, <1>2, <2>1, Zenon DEF TransportTypeOK, failVars
<1>4. ChannelsBounded'
  BY <1>u, <1>1, Zenon DEF ChannelsBounded
<1>5. PendingIsServed'
  <2>1. \A c \in Callers : Returned(c)' = Returned(c)
    BY <1>u, Zenon DEF Returned
  <2>2. \A x : x \in pending' => x \in pending
    BY <1>2, Zenon
  <2>3. \A x \in Pushes \ {p} : pushes'[x] = pushes[x]
    BY <1>0, <1>2, Zenon
  <2>4. p \in pending' => pushes' = pushes
    BY <1>2, Zenon
  <2> QED
    BY <1>2, <2>1, <2>2, <2>3, <2>4, Zenon DEF PendingIsServed
<1>6. EndWasHeard'
  <2>1. \A x \in Streams : sess.heard[x] # "ended" =>
          /\ progress'[x] # "complete"
          /\ "end" \notin Range(queue'[x])
          /\ On(x, "end") \notin Range(reader.events)
    BY <1>1, Zenon DEF EndWasHeard
  <2>2. sess'.heard = sess.heard /\ reader' = reader /\ call' = call
    BY <1>u, <1>2, Zenon
  <2> QED
    BY <2>1, <2>2, Zenon DEF EndWasHeard, On
<1>7. StreamsAgree'
  <2>1. failed' = failed /\ \A x : x \in pending' => x \in pending
    BY <1>u, <1>2, Zenon DEF failed, failVars
  <2> QED
    BY <1>u, <1>0, <1>2, <2>1, SMTT(30) DEF StreamsAgree
<1>8. FailedAgree'
  BY <1>u, <1>0, <1>2, Zenon DEF FailedAgree, failed, failVars
<1>9. PanicsOnlyAfterClose'
  BY <1>u, Zenon DEF PanicsOnlyAfterClose, failVars
<1>10. NoOrphanStream'
  <2>1. \A c \in Callers : Returned(c)' = Returned(c)
    BY <1>u, Zenon DEF Returned
  <2>2. \A x \in Pushes \ {p} : pushes'[x] = pushes[x]
    BY <1>0, <1>2, Zenon
  <2> QED
    BY <1>u, <1>0, <1>2, <2>1, <2>2, Zenon DEF NoOrphanStream, failed, failVars
<1> QED
  BY <1>3, <1>4, <1>5, <1>6, <1>7, <1>8, <1>9, <1>10, Zenon

-----------------------------------------------------------------------------
(* readLoop                                                                *)

\* How a frame may change what the peer has said and the states of the streams.
PeerMoved ==
  /\ sess' \in SessionRecord
  /\ \A x \in Streams :
       /\ sess'.heard[x] = "ended" =>
            \/ sess.heard[x] = "ended" /\ sess'.stream[x] = sess.stream[x]
            \/ sess'.stream[x] \in {"remote", "closed"}
       /\ sess.heard[x] = "ended" => sess'.heard[x] = "ended"
       /\ \/ sess'.stream[x] = sess.stream[x]
          \/ sess.stream[x] # "idle" /\ sess'.stream[x] = "closed"
          \/ sess.stream[x] = "open" /\ sess'.stream[x] = "remote"
          \/ x \in Pushes /\ sess.stream[x] = "idle" /\ sess'.stream[x] = "local"

\* Feed: whatever frame was read.
LEMMA FedInv ==
  ASSUME IInv, NEW raised \in Seq(Event), Fed(raised), PeerMoved,
         \A x \in Streams : On(x, "end") \in Range(raised) => sess'.heard[x] = "ended"
  PROVE  IInv'
<1> USE DEF IInv, TransportInv
<1>0. /\ UNCHANGED <<call, pushes, pending, queue, progress, shut, window, failVars, goAway>>
      /\ ~failed
      /\ Callers \subseteq Streams /\ Pushes \subseteq Streams /\ Callers \cap Pushes = {}
  BY TransportAssumption, Zenon DEF Fed, exchangeVars, Streams
<1>b. broken' \in BOOLEAN /\ (broken => broken')
  <2>1. broken \in BOOLEAN
    BY Zenon DEF TransportTypeOK
  <2>2. UNCHANGED broken \/ Flush(FALSE)
    BY Zenon DEF Fed
  <2> QED
    BY <2>1, <2>2, FlushFacts, Zenon
<1>r. /\ reader' \in ReaderRecord /\ reader'.at \in {"dispatch", "fail"}
      /\ reader'.at = "fail" => reader'.events = <<>>
      /\ Range(reader'.events) \subseteq Range(raised)
  <2>1. <<>> \in Seq(Event) /\ Range(<<>>) = {}
    BY DEF Range
  <2>2. CASE reader' = [at |-> "dispatch", events |-> raised]
    BY <2>2, Zenon DEF ReaderRecord
  <2>3. CASE reader' = [at |-> "fail", events |-> <<>>]
    BY <2>1, <2>3, Zenon DEF ReaderRecord
  <2> QED
    BY <2>2, <2>3, Zenon DEF Fed
<1>1. TransportTypeOK'
  BY <1>0, <1>b, <1>r, Zenon DEF TransportTypeOK, failVars, PeerMoved
<1>2. ChannelsBounded'
  BY <1>0, <1>r, Zenon DEF ChannelsBounded
<1>3. PendingIsServed'
  BY <1>0, <1>b, Zenon DEF PendingIsServed, Returned
<1>4. EndWasHeard'
  <2>1. \A x \in Streams : sess'.heard[x] # "ended" =>
          /\ progress'[x] # "complete"
          /\ "end" \notin Range(queue'[x])
          /\ On(x, "end") \notin Range(reader'.events)
    BY <1>0, <1>r, Zenon DEF EndWasHeard, PeerMoved
  <2>2. \A c \in Callers :
          call'[c].at \in {"abort", "finish", "response"} => sess'.heard[c] = "ended"
    BY <1>0, Zenon DEF EndWasHeard, PeerMoved
  <2> QED
    BY <2>1, <2>2, Zenon DEF EndWasHeard, On
<1>5. StreamsAgree'
  BY <1>0, Zenon DEF StreamsAgree, PeerMoved, failed, failVars
<1>6. FailedAgree'
  BY <1>0, ZenonT(40) DEF FailedAgree, failed, failVars
<1>7. PanicsOnlyAfterClose'
  BY <1>0, Zenon DEF PanicsOnlyAfterClose, failVars
<1>8. NoOrphanStream'
  BY <1>0, <1>b, Zenon DEF NoOrphanStream, PeerMoved, Returned, failed, failVars
<1> QED
  BY <1>1, <1>2, <1>3, <1>4, <1>5, <1>6, <1>7, <1>8, Zenon

\* An event is known by its stream and its kind.
LEMMA OnEvent ==
  ASSUME NEW x \in Streams, NEW kind \in Kinds
  PROVE  On(x, kind) \in Event /\ \A y : On(x, kind) = On(y, "end") => x = y /\ kind = "end"
<1>1. On(x, kind) \in Event
  BY Zenon DEF On, Event
<1>2. \A y : On(x, kind) = On(y, "end") => x = y /\ kind = "end"
  BY Zenon DEF On
<1> QED
  BY <1>1, <1>2, Zenon

\* Feed of a frame that raises one event, or two.
LEMMA FedOne ==
  ASSUME IInv, NEW e \in Event, Fed(<<e>>), PeerMoved,
         \A x \in Streams : On(x, "end") # e
  PROVE  IInv'
<1>1. <<e>> \in Seq(Event) /\ Range(<<e>>) = {e}
  BY RangeShort, Zenon
<1> QED
  BY <1>1, FedInv, Zenon

\* The same for two events.
LEMMA FedTwo ==
  ASSUME IInv, NEW d \in Event, NEW e \in Event, Fed(<<d, e>>), PeerMoved,
         \A x \in Streams : On(x, "end") \in {d, e} => sess'.heard[x] = "ended"
  PROVE  IInv'
<1>1. <<d, e>> \in Seq(Event) /\ DOMAIN <<d, e>> = {1, 2}
  OBVIOUS
<1>2. Range(<<d, e>>) = {d, e}
  BY <1>1 DEF Range
<1> QED
  BY <1>1, <1>2, FedInv, Zenon

\* What a part of a message does to its stream.
LEMMA HeardMoves ==
  ASSUME IInv, NEW x \in Streams, PeerCanSend(x), sess.heard[x] # "ended",
         NEW part \in {"informed", "headers", "data", "ended"}, Heard(x, part)
  PROVE  /\ PeerMoved /\ sess'.heard[x] = part
         /\ \A y \in Streams \ {x} : sess'.heard[y] = sess.heard[y]
<1>0. sess \in SessionRecord /\ sess.stream[x] \in {"open", "local"}
  BY Zenon DEF IInv, TransportInv, TransportTypeOK, PeerCanSend
<1>1. PICK s : /\ s = IF part = "ended" THEN RemoteEnd(sess.stream[x]) ELSE sess.stream[x]
               /\ sess' = [sess EXCEPT !.heard[x] = part, !.stream[x] = s]
  BY Zenon DEF Heard
<1>2. /\ part = "ended" => s \in {"remote", "closed"}
      /\ s = sess.stream[x] \/ s = "closed" \/ (sess.stream[x] = "open" /\ s = "remote")
  BY <1>0, <1>1, Zenon DEF RemoteEnd
<1>3. s \in {"idle", "open", "local", "remote", "closed"}
  BY <1>0, <1>2, Zenon
<1>4. /\ sess' \in SessionRecord /\ sess'.heard[x] = part /\ sess'.stream[x] = s
      /\ \A y \in Streams \ {x} :
           sess'.heard[y] = sess.heard[y] /\ sess'.stream[y] = sess.stream[y]
  BY <1>0, <1>1, <1>3, Zenon DEF SessionRecord
<1>5. PeerMoved
  BY <1>0, <1>2, <1>4, Zenon DEF PeerMoved
<1> QED
  BY <1>4, <1>5, Zenon

\* What is raised by a part of a message, which ends it or not.
LEMMA PartsOf ==
  ASSUME NEW x \in Streams, RecvHeaders(x) \/ RecvData(x) \/ RecvTrailers(x)
  PROVE  /\ PeerCanSend(x) /\ sess.heard[x] # "ended"
         /\ \E part \in {"informed", "headers", "data", "ended"},
               kind \in {"headers", "data", "section"} :
              /\ Heard(x, part)
              /\ \/ Fed(<<On(x, kind)>>)
                 \/ part = "ended" /\ Fed(<<On(x, kind), On(x, "end")>>)
<1>1. CASE RecvHeaders(x)
  BY <1>1, Zenon DEF RecvHeaders
<1>2. CASE RecvData(x)
  BY <1>2, Zenon DEF RecvData
<1>3. CASE RecvTrailers(x)
  BY <1>3, Zenon DEF RecvTrailers
<1> QED
  BY <1>1, <1>2, <1>3, Zenon

\* HEADERS or DATA are received.
LEMMA RecvMessageInv ==
  ASSUME IInv, NEW x \in Streams, RecvHeaders(x) \/ RecvData(x) \/ RecvTrailers(x)
  PROVE  IInv'
<1>0. PeerCanSend(x) /\ sess.heard[x] # "ended"
  BY PartsOf, Zenon
<1>1. PICK part \in {"informed", "headers", "data", "ended"},
           kind \in {"headers", "data", "section"} :
        /\ Heard(x, part)
        /\ \/ Fed(<<On(x, kind)>>)
           \/ part = "ended" /\ Fed(<<On(x, kind), On(x, "end")>>)
  BY PartsOf, Zenon
<1>2. PeerMoved /\ sess'.heard[x] = part
  BY <1>0, <1>1, HeardMoves, Zenon
<1>3. /\ On(x, kind) \in Event /\ On(x, "end") \in Event
      /\ \A y : On(y, "end") # On(x, kind) /\ (On(y, "end") = On(x, "end") => y = x)
  <2>1. kind \in Kinds /\ "end" \in Kinds /\ kind # "end"
    BY Zenon DEF Kinds
  <2> QED
    BY <2>1, OnEvent, Zenon
<1>4. CASE Fed(<<On(x, kind)>>)
  BY <1>2, <1>3, <1>4, FedOne, Zenon
<1>5. CASE part = "ended" /\ Fed(<<On(x, kind), On(x, "end")>>)
  BY <1>2, <1>3, <1>5, FedTwo, Zenon
<1> QED
  BY <1>1, <1>4, <1>5, Zenon

\* RST_STREAM is received.
LEMMA RecvResetInv == ASSUME IInv, NEW x \in Streams, RecvReset(x) PROVE IInv'
<1>1. sess \in SessionRecord /\ sess' = CloseStreams({x}) /\ sess.stream[x] # "idle"
  BY Zenon DEF IInv, TransportInv, TransportTypeOK, RecvReset, Active
<1>2. /\ sess' \in SessionRecord /\ sess'.heard = sess.heard /\ sess'.stream[x] = "closed"
      /\ \A y \in Streams \ {x} : sess'.stream[y] = sess.stream[y]
  BY <1>1, CloseStreamsType
<1>3. PeerMoved
  BY <1>1, <1>2, Zenon DEF PeerMoved
<1>4. {"reset", "data"} \subseteq Kinds
  BY Zenon DEF Kinds
<1>5. /\ On(x, "reset") \in Event /\ On(x, "data") \in Event
      /\ \A y : On(y, "end") # On(x, "reset") /\ On(y, "end") # On(x, "data")
  BY <1>4, OnEvent, Zenon
<1>6. CASE Fed(<<On(x, "reset")>>)
  BY <1>3, <1>5, <1>6, FedOne, Zenon
<1>7. CASE Fed(<<On(x, "reset"), On(x, "data")>>)
  BY <1>3, <1>5, <1>7, FedTwo, Zenon
<1> QED
  BY <1>6, <1>7, Zenon DEF RecvReset

\* WINDOW_UPDATE is received, for the connection or for a stream.
LEMMA RecvWindowInv ==
  ASSUME IInv, RecvConnectionWindow \/ \E c \in Callers : RecvStreamWindow(c)
  PROVE  IInv'
<1>0. sess \in SessionRecord
  BY Zenon DEF IInv, TransportInv, TransportTypeOK
<1>1. CASE RecvConnectionWindow
  <2>1. sess' = [sess EXCEPT !.connCredit = sess.connCredit + 1] /\ sess.connCredit < MaxCredit
    BY <1>1, Zenon DEF RecvConnectionWindow
  <2>2. sess.connCredit + 1 \in 0..MaxCredit
    BY <1>0, <2>1, TransportAssumption DEF SessionRecord
  <2>3. sess' \in SessionRecord /\ sess'.heard = sess.heard /\ sess'.stream = sess.stream
    BY <1>0, <2>1, <2>2, Zenon DEF SessionRecord
  <2>4. PeerMoved
    BY <2>3, Zenon DEF PeerMoved
  <2>5. <<>> \in Seq(Event) /\ Range(<<>>) = {}
    BY DEF Range
  <2> QED
    BY <1>1, <2>4, <2>5, FedInv, Zenon DEF RecvConnectionWindow
<1>2. ASSUME NEW c \in Callers, RecvStreamWindow(c) PROVE IInv'
  <2>1. sess' = [sess EXCEPT !.credit[c] = sess.credit[c] + 1] /\ sess.credit[c] < MaxCredit
    BY <1>2, Zenon DEF RecvStreamWindow
  <2>2. sess.credit[c] + 1 \in 0..MaxCredit
    BY <1>0, <2>1, TransportAssumption DEF SessionRecord
  <2>3. sess' \in SessionRecord /\ sess'.heard = sess.heard /\ sess'.stream = sess.stream
    BY <1>0, <2>1, <2>2, Zenon DEF SessionRecord
  <2>4. PeerMoved
    BY <2>3, Zenon DEF PeerMoved
  <2>5. "window" \in Kinds /\ c \in Streams
    BY Zenon DEF Kinds, Streams
  <2>6. On(c, "window") \in Event /\ \A y : On(y, "end") # On(c, "window")
    BY <2>5, OnEvent, Zenon
  <2> QED
    BY <1>2, <2>4, <2>6, FedOne, Zenon DEF RecvStreamWindow
<1> QED
  BY <1>1, <1>2, Zenon

\* PUSH_PROMISE is received.
LEMMA RecvPushPromiseInv == ASSUME IInv, NEW p \in Pushes, RecvPushPromise(p) PROVE IInv'
<1>0. sess \in SessionRecord /\ p \in Streams
  BY Zenon DEF IInv, TransportInv, TransportTypeOK, Streams
<1>1. sess.stream[p] = "idle" /\ sess' = [sess EXCEPT !.stream[p] = "local"]
  BY Zenon DEF RecvPushPromise
<1>2. /\ sess' \in SessionRecord /\ sess'.heard = sess.heard /\ sess'.stream[p] = "local"
      /\ \A y \in Streams \ {p} : sess'.stream[y] = sess.stream[y]
  BY <1>0, <1>1, Zenon DEF SessionRecord
<1>3. sess.heard[p] # "ended"
  BY <1>0, <1>1, Zenon DEF IInv, TransportInv, StreamsAgree
<1>4. PeerMoved
  BY <1>1, <1>2, <1>3, Zenon DEF PeerMoved
<1>5. On(p, "push") \in Event /\ \A y : On(y, "end") # On(p, "push")
  BY Zenon DEF On, Event
<1> QED
  BY <1>4, <1>5, FedOne, Zenon DEF RecvPushPromise

\* The events of a GOAWAY: a reset for each refused stream, then the GOAWAY itself.
LEMMA GoAwayEvents ==
  ASSUME NEW refused \in SUBSET Streams, NEW n \in Nat,
         NEW q \in Bijection(1..n, refused), NEW raised,
         raised = Append([i \in 1..n |-> On(q[i], "reset")], On("connection", "goaway"))
  PROVE  raised \in Seq(Event) /\ \A x \in Streams : On(x, "end") \notin Range(raised)
<1> DEFINE resets == [i \in 1..n |-> On(q[i], "reset")]
           last == On("connection", "goaway")
<1>2. q \in [1..n -> refused]
  BY Zenon DEF Bijection, Injection, Surjection
<1>3. \A x \in Streams : On(x, "reset") \in Event /\ \A y : On(y, "end") # On(x, "reset")
  <2>1. "reset" \in Kinds
    BY Zenon DEF Kinds
  <2> QED
    BY <2>1, OnEvent, Zenon
<1>4. last \in Event /\ \A y : On(y, "end") # last
  BY Zenon DEF On, Event
<1>6. \A i \in 1..n : resets[i] \in Event /\ \A y : On(y, "end") # resets[i]
  BY <1>2, <1>3, Zenon
<1> HIDE DEF last
<1>7. resets \in Seq(Event) /\ Len(resets) = n
  BY <1>6
<1>8. raised = Append(resets, last)
  BY Zenon DEF last
<1> HIDE DEF resets
<1>9. /\ raised \in Seq(Event) /\ DOMAIN raised = 1..(n + 1)
      /\ \A i \in 1..n : raised[i] = resets[i]
      /\ raised[n + 1] = last
  BY <1>4, <1>7, <1>8
<1>10. \A i \in 1..(n + 1) : i \in 1..n \/ i = n + 1
  OBVIOUS
<1>11. \A i \in 1..(n + 1) : \A y : On(y, "end") # raised[i]
  BY <1>4, <1>6, <1>9, <1>10, Zenon
<1> QED
  BY <1>9, <1>11, Zenon DEF Range

\* GOAWAY is received, which closes the streams it refuses in any order.
LEMMA RecvGoAwayInv ==
  ASSUME IInv, NEW last \in 0..Len(sess.order), RecvGoAway(last) PROVE IInv'
<1> DEFINE refused == Range(SubSeq(sess.order, last + 1, Len(sess.order))) \cap Active
<1>0. sess \in SessionRecord
  BY Zenon DEF IInv, TransportInv, TransportTypeOK
<1>1. /\ sess' = [CloseStreams(refused) EXCEPT !.goneAway = TRUE]
      /\ \E n \in 0..Len(sess.order) : \E q \in Bijection(1..n, refused) :
           Fed(Append([i \in 1..n |-> On(q[i], "reset")], On("connection", "goaway")))
  BY Zenon DEF RecvGoAway
<1>2. refused \subseteq Streams /\ \A x \in refused : sess.stream[x] # "idle"
  BY Zenon DEF Active
<1> HIDE DEF refused
<1>3. PICK r : r = CloseStreams(refused)
  BY Zenon
<1>4. /\ r \in SessionRecord /\ r.heard = sess.heard
      /\ \A x \in Streams : r.stream[x] = IF x \in refused THEN "closed" ELSE sess.stream[x]
  BY <1>0, <1>2, <1>3, CloseStreamsType
<1>5. sess' \in SessionRecord /\ sess'.heard = r.heard /\ sess'.stream = r.stream
  BY <1>1, <1>3, <1>4, Zenon DEF SessionRecord
<1>6. PeerMoved
  BY <1>2, <1>4, <1>5, Zenon DEF PeerMoved
<1>7. PICK n \in 0..Len(sess.order) : \E q \in Bijection(1..n, refused) :
        Fed(Append([i \in 1..n |-> On(q[i], "reset")], On("connection", "goaway")))
  BY <1>1, Zenon
<1>8. PICK q \in Bijection(1..n, refused) :
        Fed(Append([i \in 1..n |-> On(q[i], "reset")], On("connection", "goaway")))
  BY <1>7, Zenon
<1>9. PICK raised :
        raised = Append([i \in 1..n |-> On(q[i], "reset")], On("connection", "goaway"))
  BY Zenon
<1>10. n \in Nat
  BY <1>0 DEF SessionRecord
<1>11. raised \in Seq(Event) /\ \A x \in Streams : On(x, "end") \notin Range(raised)
  BY <1>2, <1>9, <1>10, GoAwayEvents, Zenon
<1>12. Fed(raised)
  BY <1>8, <1>9, Zenon
<1> QED
  BY <1>6, <1>11, <1>12, FedInv, Zenon

\* A step of readLoop that only moves on, or drops events.
LEMMA ReaderMoves ==
  ASSUME IInv, reader' \in ReaderRecord, Range(reader'.events) \subseteq Range(reader.events),
         reader'.at = "deliver" =>
           reader'.events # <<>> /\ Head(reader'.events).kind \in Kinds,
         reader'.at \in {"read", "fail", "exit"} => reader'.events = <<>>,
         failed /\ closer = "idle" => reader'.at \in {"fail", "exit"},
         window' \in Callers \cup {"none", "token"}, goAway' \in BOOLEAN,
         UNCHANGED <<call, pushes, exchangeVars, failVars, broken, sess>>
  PROVE  IInv'
<1> USE DEF IInv, TransportInv
<1>0. UNCHANGED <<call, pushes, pending, queue, progress, shut, failVars, broken, sess>>
  BY Zenon DEF exchangeVars
<1>1. TransportTypeOK'
  BY <1>0, Zenon DEF TransportTypeOK, failVars
<1>2. ChannelsBounded'
  BY <1>0, Zenon DEF ChannelsBounded
<1>3. PendingIsServed' /\ PanicsOnlyAfterClose' /\ NoOrphanStream'
  BY <1>0 DEF PendingIsServed, PanicsOnlyAfterClose, NoOrphanStream, Returned, failed, failVars
<1>4. EndWasHeard'
  <2>1. \A x \in Streams : sess.heard[x] # "ended" =>
          /\ progress[x] # "complete"
          /\ "end" \notin Range(queue[x])
          /\ On(x, "end") \notin Range(reader'.events)
    BY Zenon DEF EndWasHeard
  <2> QED
    BY <1>0, <2>1, Zenon DEF EndWasHeard, On
<1>5. StreamsAgree' /\ FailedAgree'
  BY <1>0, Zenon DEF StreamsAgree, FailedAgree, failed, failVars
<1> QED
  BY <1>1, <1>2, <1>3, <1>4, <1>5, Zenon

\* An event is what On makes of its stream and its kind.
LEMMA EventFacts ==
  ASSUME NEW e \in Event
  PROVE  /\ e = On(e.stream, e.kind)
         /\ e.kind \in Kinds => e.stream \in Streams
         /\ e.kind = "push" => e.stream \in Pushes
         /\ e.kind \in Kinds \cup {"push", "goaway"}
<1>1. CASE e \in [stream : Streams, kind : Kinds]
  BY <1>1, Zenon DEF On, Kinds
<1>2. CASE e \in [stream : Pushes, kind : {"push"}]
  BY <1>2, Zenon DEF On, Kinds
<1>3. CASE e \in [stream : {"connection"}, kind : {"goaway"}]
  BY <1>3, Zenon DEF On, Kinds
<1> QED
  BY <1>1, <1>2, <1>3, Zenon DEF Event

\* The event that the reader dispatches next.
LEMMA ReaderHead ==
  ASSUME IInv, reader.events # <<>>
  PROVE  /\ reader \in ReaderRecord /\ reader.events \in Seq(Event)
         /\ Head(reader.events) \in Event /\ Head(reader.events) \in Range(reader.events)
         /\ Tail(reader.events) \in Seq(Event)
         /\ Range(Tail(reader.events)) \subseteq Range(reader.events)
<1>1. reader \in ReaderRecord /\ reader.events \in Seq(Event)
  BY Zenon DEF IInv, TransportInv, TransportTypeOK, ReaderRecord
<1> QED
  BY <1>1, RangeTail, Zenon

\* The read of the connection fails.
LEMMA ReadFailsInv == ASSUME IInv, ReadFails PROVE IInv'
<1>1. /\ reader \in ReaderRecord /\ reader.at = "read" /\ reader.events = <<>>
      /\ window \in Callers \cup {"none", "token"} /\ goAway \in BOOLEAN
  BY Zenon DEF IInv, TransportInv, TransportTypeOK, ChannelsBounded, ReadFails, Reading
<1>2. /\ reader' = [reader EXCEPT !.at = "fail"]
      /\ UNCHANGED <<call, pushes, exchangeVars, window, failVars, goAway, broken, sess>>
  BY Zenon DEF ReadFails
<1>3. reader' \in ReaderRecord /\ reader'.at = "fail" /\ reader'.events = <<>>
  BY <1>1, <1>2, Zenon DEF ReaderRecord
<1> QED
  BY <1>1, <1>2, <1>3, ReaderMoves, Zenon

\* The reader dispatches an event of the connection, or looks a stream up.
LEMMA DispatchControlInv == ASSUME IInv, DispatchControl \/ Lookup PROVE IInv'
<1>0. /\ reader \in ReaderRecord /\ reader.events \in Seq(Event)
      /\ window \in Callers \cup {"none", "token"} /\ goAway \in BOOLEAN
      /\ reader.at = "dispatch" => ~(failed /\ closer = "idle")
  BY Zenon DEF IInv, TransportInv, TransportTypeOK, ReaderRecord, FailedAgree
<1>1. reader.at = "dispatch"
  BY Zenon DEF DispatchControl, Lookup, Reading
<1>2. /\ window' \in Callers \cup {"none", "token"} /\ goAway' \in BOOLEAN
      /\ UNCHANGED <<call, pushes, exchangeVars, failVars, broken, sess>>
  BY <1>0, Zenon DEF DispatchControl, Lookup
<1>3. CASE reader.events = <<>>
  <2>1. reader' = [reader EXCEPT !.at = "read"]
    BY <1>3, Zenon DEF DispatchControl, Lookup
  <2>2. reader' \in ReaderRecord /\ reader'.at = "read" /\ reader'.events = reader.events
    BY <1>0, <2>1, Zenon DEF ReaderRecord
  <2> QED
    BY <1>0, <1>1, <1>2, <1>3, <2>2, ReaderMoves, Zenon
<1>4. CASE reader.events # <<>> /\ reader' = [reader EXCEPT !.events = Tail(reader.events)]
  <2>1. /\ reader' \in ReaderRecord /\ reader'.at = "dispatch"
        /\ reader'.events = Tail(reader.events)
    BY <1>0, <1>1, <1>4, ReaderHead, Zenon DEF ReaderRecord
  <2> QED
    BY <1>0, <1>1, <1>2, <1>4, <2>1, ReaderHead, ReaderMoves, Zenon
<1>5. CASE /\ reader.events # <<>> /\ reader' = [reader EXCEPT !.at = "deliver"]
           /\ Head(reader.events).kind \notin {"goaway", "push"}
  <2>1. /\ reader' \in ReaderRecord /\ reader'.at = "deliver"
        /\ reader'.events = reader.events
    BY <1>0, <1>5, Zenon DEF ReaderRecord
  <2>2. Head(reader.events).kind \in Kinds
    BY <1>5, ReaderHead, EventFacts, Zenon
  <2> QED
    BY <1>0, <1>1, <1>2, <1>5, <2>1, <2>2, ReaderMoves, Zenon
<1> QED
  BY <1>3, <1>4, <1>5, Zenon DEF DispatchControl, Lookup

\* The reader hands a promised stream to its handler.
LEMMA AcceptPushInv == ASSUME IInv, AcceptPush PROVE IInv'
<1> USE DEF IInv, TransportInv
<1> DEFINE p == Head(reader.events).stream
<1>0. /\ reader.at = "dispatch" /\ reader.events # <<>>
      /\ reader' = [reader EXCEPT !.events = Tail(reader.events)]
      /\ Head(reader.events).kind = "push"
      /\ UNCHANGED <<call, queue, progress, shut, window, failVars, goAway>>
  BY Zenon DEF AcceptPush, Reading
<1>1. /\ reader' \in ReaderRecord /\ reader'.at = "dispatch"
      /\ Range(reader'.events) \subseteq Range(reader.events)
  BY <1>0, ReaderHead, Zenon DEF ReaderRecord
<1>2. p \in Pushes /\ p \in Streams /\ p \notin Callers
  BY <1>0, ReaderHead, EventFacts, TransportAssumption, Zenon DEF Streams
<1>3. /\ \/ CancelStream(p) /\ UNCHANGED pushes
         \/ failed /\ UNCHANGED <<pending, pushes, sess, broken>>
         \/ /\ ~failed /\ UNCHANGED <<sess, broken>>
            /\ pending' = pending \cup {p}
            /\ pushes' = [pushes EXCEPT ![p] = "running"]
  BY Zenon DEF AcceptPush
<1> HIDE DEF p
<1>4. /\ sess \in SessionRecord /\ broken \in BOOLEAN
      /\ pending \subseteq Streams /\ pushes \in [Pushes -> {"none", "running", "stopped"}]
      /\ Pushes \subseteq Streams /\ Callers \subseteq Streams
  BY Zenon DEF TransportTypeOK, Streams
<1>5. /\ sess' \in SessionRecord /\ sess'.heard = sess.heard
      /\ \A y \in Streams \ {p} : sess'.stream[y] = sess.stream[y]
      /\ sess'.stream[p] \in {sess.stream[p], "closed"}
      /\ broken' \in BOOLEAN /\ (broken => broken')
  BY <1>2, <1>3, <1>4, CancelStreamFacts, Zenon
<1>6. /\ \A x \in pending' : x \in pending \/ x = p
      /\ pending' \subseteq Streams
      /\ pushes' \in [Pushes -> {"none", "running", "stopped"}]
      /\ \A y \in Pushes : pushes'[y] \in {pushes[y], "running"}
      /\ p \in pending' => pushes'[p] = "running"
      /\ failed => pending' = {}
  <2>1. CASE CancelStream(p) /\ UNCHANGED pushes
    BY <1>2, <1>4, <2>1, CancelStreamFacts, SMTT(30) DEF FailedAgree
  <2>2. CASE failed /\ UNCHANGED <<pending, pushes, sess, broken>>
    BY <1>2, <1>4, <2>2, Zenon DEF FailedAgree
  <2>3. CASE /\ ~failed /\ UNCHANGED <<sess, broken>>
             /\ pending' = pending \cup {p}
             /\ pushes' = [pushes EXCEPT ![p] = "running"]
    BY <1>2, <1>4, <2>3, Zenon
  <2> QED
    BY <1>3, <2>1, <2>2, <2>3, Zenon
<1>7. TransportTypeOK'
  BY <1>0, <1>1, <1>5, <1>6, Zenon DEF TransportTypeOK, failVars
<1>8. ChannelsBounded'
  BY <1>0, <1>1, Zenon DEF ChannelsBounded
<1>9. PendingIsServed'
  <2>1. \A c \in Callers : Returned(c)' = Returned(c)
    BY <1>0, Zenon DEF Returned
  <2> QED
    BY <1>2, <1>5, <1>6, <2>1, Zenon DEF PendingIsServed
<1>10. EndWasHeard'
  <2>1. \A x \in Streams : sess.heard[x] # "ended" =>
          /\ progress[x] # "complete"
          /\ "end" \notin Range(queue[x])
          /\ On(x, "end") \notin Range(reader'.events)
    BY <1>1, Zenon DEF EndWasHeard
  <2> QED
    BY <1>0, <1>5, <2>1, Zenon DEF EndWasHeard, On
<1>11. StreamsAgree'
  BY <1>0, <1>2, <1>4, <1>5, <1>6 DEF StreamsAgree, failed, failVars
<1>12. FailedAgree'
  BY <1>0, <1>2, <1>5, <1>6, Zenon DEF FailedAgree, failed, failVars
<1>13. PanicsOnlyAfterClose' /\ NoOrphanStream'
  BY <1>0, <1>2, <1>4, <1>5, <1>6
  DEF PanicsOnlyAfterClose, NoOrphanStream, Returned, failed, failVars
<1> QED
  BY <1>7, <1>8, <1>9, <1>10, <1>11, <1>12, <1>13, Zenon

\* The reader delivers an event to the state of its stream.
LEMMA DeliverInv == ASSUME IInv, Deliver PROVE IInv'
<1> USE DEF IInv, TransportInv
<1> DEFINE e == Head(reader.events)
           x == e.stream
<1>0. /\ reader.at = "deliver" /\ reader.events # <<>> /\ e.kind \in Kinds
      /\ UNCHANGED <<call, pushes, pending, progress, shut, window, once, closer, goAway,
                     broken, sess>>
      /\ failed => closer # "idle"
      /\ reader \in ReaderRecord /\ window \in Callers \cup {"none", "token"} /\ goAway \in BOOLEAN
      /\ panicked \in BOOLEAN
  BY Zenon DEF Deliver, Reading, ChannelsBounded, FailedAgree, TransportTypeOK
<1>1. /\ e \in Event /\ e \in Range(reader.events) /\ Tail(reader.events) \in Seq(Event)
      /\ Range(Tail(reader.events)) \subseteq Range(reader.events)
  BY <1>0, ReaderHead, Zenon
<1>2. x \in Streams /\ e = On(x, e.kind)
  BY <1>0, <1>1, EventFacts, Zenon
<1>3. \/ x \in shut /\ panicked' = TRUE /\ UNCHANGED <<queue, reader>>
      \/ /\ x \notin shut /\ HasRoom(x) /\ UNCHANGED panicked
         /\ queue' = [queue EXCEPT ![x] = Append(queue[x], e.kind)]
         /\ reader' = [at |-> "dispatch", events |-> Tail(reader.events)]
      \/ done /\ reader' = [at |-> "dispatch", events |-> <<>>] /\ UNCHANGED <<queue, panicked>>
  BY Zenon DEF Deliver
<1> HIDE DEF e, x
<1>4. CASE x \in shut /\ panicked' = TRUE /\ UNCHANGED <<queue, reader>>
  <2>1. failed /\ closer # "idle"
    BY <1>0, <1>4, Zenon DEF FailedAgree
  <2>2. TransportTypeOK'
    BY <1>0, <1>4, Zenon DEF TransportTypeOK
  <2>3. ChannelsBounded' /\ PendingIsServed' /\ NoOrphanStream'
    BY <1>0, <1>4, Zenon DEF ChannelsBounded, PendingIsServed, NoOrphanStream, Returned, failed
  <2>4. EndWasHeard'
    BY <1>0, <1>4, Zenon DEF EndWasHeard, On
  <2>5. StreamsAgree' /\ FailedAgree'
    BY <1>0, <1>4, Zenon DEF StreamsAgree, FailedAgree, failed
  <2>6. PanicsOnlyAfterClose'
    BY <1>0, <2>1, Zenon DEF PanicsOnlyAfterClose
  <2> QED
    BY <2>2, <2>3, <2>4, <2>5, <2>6, Zenon
<1>5. CASE done /\ reader' = [at |-> "dispatch", events |-> <<>>] /\ UNCHANGED <<queue, panicked>>
  <2>1. <<>> \in Seq(Event) /\ Range(<<>>) = {}
    BY DEF Range
  <2>2. /\ reader' \in ReaderRecord /\ reader'.at = "dispatch"
        /\ Range(reader'.events) \subseteq Range(reader.events)
    BY <1>5, <2>1, Zenon DEF ReaderRecord
  <2> QED
    BY <1>0, <1>5, <2>2, ReaderMoves, Zenon DEF exchangeVars, failVars
<1>6. CASE /\ x \notin shut /\ HasRoom(x) /\ UNCHANGED panicked
           /\ queue' = [queue EXCEPT ![x] = Append(queue[x], e.kind)]
           /\ reader' = [at |-> "dispatch", events |-> Tail(reader.events)]
  <2>1. /\ reader' \in ReaderRecord /\ reader'.at = "dispatch"
        /\ Range(reader'.events) \subseteq Range(reader.events)
    BY <1>1, <1>6, Zenon DEF ReaderRecord
  <2>2. queue \in [Streams -> Seq(Kinds)] /\ queue[x] \in Seq(Kinds)
    BY <1>2, Zenon DEF TransportTypeOK
  <2>3. /\ Append(queue[x], e.kind) \in Seq(Kinds)
        /\ Len(Append(queue[x], e.kind)) = Len(queue[x]) + 1 /\ Len(queue[x]) \in Nat
        /\ Range(Append(queue[x], e.kind)) = Range(queue[x]) \cup {e.kind}
    BY <1>0, <2>2, RangeAppend, SMTT(30)
  <2>4. /\ queue' \in [Streams -> Seq(Kinds)]
        /\ \A y \in Streams \ {x} : queue'[y] = queue[y]
        /\ Range(queue'[x]) = Range(queue[x]) \cup {e.kind}
        /\ Len(queue'[x]) <= EventBuffer
    BY <1>2, <1>6, <2>2, <2>3, TransportAssumption, SMTT(30) DEF HasRoom
  <2>5. e.kind = "end" => sess.heard[x] = "ended"
    BY <1>1, <1>2, Zenon DEF EndWasHeard
  <2>6. TransportTypeOK'
    BY <1>0, <1>6, <2>1, <2>4, Zenon DEF TransportTypeOK
  <2>7. ChannelsBounded'
    BY <1>0, <2>1, <2>4, Zenon DEF ChannelsBounded
  <2>8. PendingIsServed' /\ NoOrphanStream' /\ PanicsOnlyAfterClose'
    BY <1>0, <1>6, ZenonT(40) DEF PendingIsServed, NoOrphanStream, PanicsOnlyAfterClose, Returned, failed
  <2>9. EndWasHeard'
    <3>1. \A y \in Streams : sess.heard[y] # "ended" =>
            /\ progress[y] # "complete"
            /\ "end" \notin Range(queue'[y])
            /\ On(y, "end") \notin Range(reader'.events)
      <4> TAKE y \in Streams
      <4>1. CASE y = x
        BY <2>1, <2>4, <2>5, <4>1, Zenon DEF EndWasHeard
      <4>2. CASE y # x
        BY <2>1, <2>4, <4>2, Zenon DEF EndWasHeard
      <4> QED
        BY <4>1, <4>2, Zenon
    <3> QED
      BY <1>0, <3>1, ZenonT(40) DEF EndWasHeard, On
  <2>10. StreamsAgree' /\ FailedAgree'
    BY <1>0, <2>1, Zenon DEF StreamsAgree, FailedAgree, failed
  <2> QED
    BY <2>6, <2>7, <2>8, <2>9, <2>10, Zenon
<1> QED
  BY <1>3, <1>4, <1>5, <1>6, Zenon

-----------------------------------------------------------------------------
(* fail and Close                                                          *)

\* fail marks every stream of the table.
LEMMA FailLockedInv == ASSUME IInv, FailLocked PROVE IInv'
<1> USE DEF IInv, TransportInv
<1>0. /\ once' = "running" /\ shut' = shut \cup pending /\ pending' = {}
      /\ sess' = [CloseStreams(Streams) EXCEPT !.connCredit = 0]
      /\ reader.at = "fail" \/ closer = "failing"
      /\ UNCHANGED <<call, pushes, queue, progress, reader, window, closer, panicked, goAway,
                     broken>>
  BY Zenon DEF FailLocked, ClosedChannels
<1>1. sess \in SessionRecord /\ 0 \in 0..MaxCredit
  BY TransportAssumption DEF TransportTypeOK
<1>2. PICK r : r = CloseStreams(Streams)
  BY Zenon
<1>3. /\ r \in SessionRecord /\ r.heard = sess.heard
      /\ \A x \in Streams : r.stream[x] = "closed"
  BY <1>1, <1>2, CloseStreamsType, Zenon
<1>4. sess' \in SessionRecord /\ sess'.heard = r.heard /\ sess'.stream = r.stream
  BY <1>0, <1>1, <1>2, <1>3, Zenon DEF SessionRecord
<1>5. failed' /\ Callers \subseteq Streams /\ Pushes \subseteq Streams
  BY <1>0, Zenon DEF failed, Streams
<1>6. TransportTypeOK'
  BY <1>0, <1>4, Zenon DEF TransportTypeOK
<1>7. ChannelsBounded' /\ PendingIsServed' /\ PanicsOnlyAfterClose' /\ NoOrphanStream'
  BY <1>0, <1>5, Zenon DEF ChannelsBounded, PendingIsServed, PanicsOnlyAfterClose, NoOrphanStream
<1>8. EndWasHeard'
  BY <1>0, <1>3, <1>4, Zenon DEF EndWasHeard, On
<1>9. StreamsAgree'
  BY <1>0, <1>3, <1>4, <1>5, Zenon DEF StreamsAgree
<1>10. FailedAgree'
  BY <1>0, <1>3, <1>4, <1>5, Zenon DEF FailedAgree
<1> QED
  BY <1>6, <1>7, <1>8, <1>9, <1>10, Zenon

\* The rest of fail, and Close.
LEMMA FailStepInv == ASSUME IInv, CloseDone \/ FailReturns \/ Close PROVE IInv'
<1> USE DEF IInv, TransportInv
<1>0. /\ UNCHANGED <<call, pushes, pending, queue, progress, shut, window, panicked, goAway, sess>>
      /\ broken' \in BOOLEAN /\ (broken => broken')
      /\ once' \in {once, "ran"} /\ failed' = failed
      /\ closer' \in {closer, "failing", "closed"}
      /\ reader' = reader \/ (reader.at = "fail" /\ reader' = [reader EXCEPT !.at = "exit"])
  BY Zenon DEF CloseDone, FailReturns, Close, exchangeVars, TransportTypeOK, failed
<1>1. reader \in ReaderRecord /\ (reader.at = "fail" => reader.events = <<>>)
  BY Zenon DEF TransportTypeOK, ChannelsBounded
<1>2. /\ reader' \in ReaderRecord /\ reader'.events = reader.events
      /\ \/ reader'.at = reader.at
         \/ reader'.at = "exit" /\ reader.events = <<>>
  BY <1>0, <1>1, Zenon DEF ReaderRecord
<1>3. TransportTypeOK'
  <2>1. once' \in {"unused", "running", "ran"} /\ closer' \in {"idle", "failing", "closed"}
    BY <1>0, Zenon DEF TransportTypeOK
  <2> QED
    BY <1>0, <1>2, <2>1, Zenon DEF TransportTypeOK
<1>4. ChannelsBounded'
  BY <1>0, <1>2, Zenon DEF ChannelsBounded
<1>5. PendingIsServed' /\ NoOrphanStream'
  BY <1>0, Zenon DEF PendingIsServed, NoOrphanStream, Returned
<1>6. PanicsOnlyAfterClose'
  BY <1>0, Zenon DEF PanicsOnlyAfterClose
<1>7. EndWasHeard'
  BY <1>0, <1>2, Zenon DEF EndWasHeard, On
<1>8. StreamsAgree' /\ FailedAgree'
  BY <1>0, <1>2, Zenon DEF StreamsAgree, FailedAgree
<1> QED
  BY <1>3, <1>4, <1>5, <1>6, <1>7, <1>8, Zenon

-----------------------------------------------------------------------------
(* The theorems                                                            *)

\* Initially the connection has no streams.
LEMMA InitInv == Init => IInv
<1> SUFFICES ASSUME Init PROVE IInv
  BY Zenon
<1> USE DEF Init
<1>0. <<>> \in Seq(Kinds) /\ <<>> \in Seq(Event) /\ <<>> \in Seq(Callers) /\ Range(<<>>) = {}
  BY SMTT(30) DEF Range
<1>1. \A c \in Callers : call[c] = At("start") /\ At("start") \in CallRecord
  BY Zenon DEF At, CallRecord
<1>2. \A c \in Callers : call[c].at = "start"
  BY <1>1, Zenon DEF At
<1>3. /\ sess.stream = [x \in Streams |-> "idle"] /\ sess.heard = [x \in Streams |-> "none"]
      /\ sess \in SessionRecord
  <2> DEFINE idle == [x \in Streams |-> "idle"]
             none == [x \in Streams |-> "none"]
             zero == [c \in Callers |-> 0]
  <2>1. /\ idle \in [Streams -> {"idle", "open", "local", "remote", "closed"}]
        /\ none \in [Streams -> {"none", "informed", "headers", "data", "ended"}]
        /\ zero \in [Callers -> 0..MaxCredit] /\ 0 \in 0..MaxCredit
    BY TransportAssumption
  <2>2. sess \in [stream : {idle}, heard : {none}, order : {<<>>}, goneAway : {FALSE},
                  credit : {zero}, connCredit : {0}, cast : Casts]
    BY Zenon DEF Init
  <2> HIDE DEF idle, none, zero, Init
  <2>3. /\ sess.stream = idle /\ sess.heard = none
        /\ sess = [stream |-> idle, heard |-> none, order |-> <<>>, goneAway |-> FALSE,
                   credit |-> zero, connCredit |-> 0, cast |-> sess.cast]
        /\ sess.cast \in Casts
    BY <2>2, Zenon
  <2>4. FALSE \in BOOLEAN
    BY Zenon
  <2>5. ASSUME NEW A, NEW B, NEW C, NEW D, NEW E, NEW F, NEW a \in A, NEW b \in B,
               NEW c \in C, NEW d \in D, NEW e \in E, NEW f \in F, NEW g \in Casts
        PROVE  [stream |-> a, heard |-> b, order |-> c, goneAway |-> d, credit |-> e,
                connCredit |-> f, cast |-> g]
                 \in [stream : A, heard : B, order : C, goneAway : D, credit : E,
                      connCredit : F, cast : Casts]
    BY Zenon
  <2>6. sess \in SessionRecord
    <3>1. PICK g \in Casts : sess = [stream |-> idle, heard |-> none, order |-> <<>>,
                                     goneAway |-> FALSE, credit |-> zero, connCredit |-> 0,
                                     cast |-> g]
      BY <2>3, Zenon
    <3>2. <<>> \in Seq(Callers)
      OBVIOUS
    <3>3. [stream |-> idle, heard |-> none, order |-> <<>>, goneAway |-> FALSE,
           credit |-> zero, connCredit |-> 0, cast |-> g] \in SessionRecord
      BY <2>1, <2>4, <2>5, <3>2, Zenon DEF SessionRecord
    <3> QED
      BY <3>1, <3>3, Zenon
  <2> QED
    BY <2>3, <2>6, Zenon DEF idle, none
<1>4. TransportTypeOK
  <2>1. reader \in ReaderRecord
    BY <1>0, Zenon DEF ReaderRecord
  <2>2. call \in [Callers -> CallRecord]
    BY <1>1, Zenon
  <2>3. queue \in [Streams -> Seq(Kinds)]
    BY <1>0, Zenon
  <2> QED
    BY <1>3, <2>1, <2>2, <2>3, Zenon DEF TransportTypeOK
<1>5. ~failed
  BY Zenon DEF failed
<1>6. Callers \subseteq Streams /\ Pushes \subseteq Streams
  BY Zenon DEF Streams
<1>7. ChannelsBounded
  BY TransportAssumption, SMTT(30) DEF ChannelsBounded
<1>8. PendingIsServed /\ PanicsOnlyAfterClose /\ FailedAgree
  BY <1>5, Zenon DEF PendingIsServed, PanicsOnlyAfterClose, FailedAgree
<1>9. EndWasHeard
  BY <1>0, <1>2, Zenon DEF EndWasHeard
<1>10. StreamsAgree
  BY <1>2, <1>3, <1>6, SMTT(30) DEF StreamsAgree
<1>11. NoOrphanStream
  BY <1>2, <1>3, <1>6, Zenon DEF NoOrphanStream, Returned
<1> QED
  BY <1>4, <1>7, <1>8, <1>9, <1>10, <1>11, Zenon DEF IInv, TransportInv

\* Every step keeps the invariant: one lemma for each action, above.
LEMMA NextInv == IInv /\ [Next]_vars => IInv'
<1> SUFFICES ASSUME IInv, [Next]_vars PROVE IInv'
  BY Zenon
<1>1. ASSUME NEW c \in Callers, BeginRefused(c) \/ BeginOpen(c) PROVE IInv'
  BY <1>1, BeginInv, Zenon
<1>2. ASSUME NEW c \in Callers, Continue(c) \/ CancelContext(c) PROVE IInv'
  BY <1>2, ReadBodyInv, DrainInv, SendDataInv, SendEndInv, BlockedInv, AwaitInv, CancelInv, Zenon
  DEF Continue
<1>3. ASSUME NEW p \in Pushes, ConsumePush(p) PROVE IInv'
  BY <1>3, ConsumePushInv, Zenon
<1>4. CASE Recv
  <2>1. ASSUME NEW x \in Streams, RecvHeaders(x) \/ RecvData(x) \/ RecvTrailers(x)
        PROVE  IInv'
    BY <2>1, RecvMessageInv, Zenon
  <2>2. ASSUME NEW x \in Streams, RecvReset(x) PROVE IInv'
    BY <2>2, RecvResetInv, Zenon
  <2>3. ASSUME RecvConnectionWindow \/ \E c \in Callers : RecvStreamWindow(c) PROVE IInv'
    BY <2>3, RecvWindowInv, Zenon
  <2>4. ASSUME NEW last \in 0..Len(sess.order), RecvGoAway(last) PROVE IInv'
    BY <2>4, RecvGoAwayInv, Zenon
  <2>5. ASSUME NEW p \in Pushes, RecvPushPromise(p) PROVE IInv'
    BY <2>5, RecvPushPromiseInv, Zenon
  <2> QED
    BY <1>4, <2>1, <2>2, <2>3, <2>4, <2>5, Zenon DEF Recv
<1>5. CASE ReadFails \/ ReaderStep
  BY <1>5, ReadFailsInv, DispatchControlInv, AcceptPushInv, DeliverInv, Zenon DEF ReaderStep
<1>6. CASE FailStep \/ Close
  BY <1>6, FailLockedInv, FailStepInv, Zenon DEF FailStep
<1>7. CASE UNCHANGED vars
  <2>1. /\ reader \in ReaderRecord /\ window \in Callers \cup {"none", "token"} /\ goAway \in BOOLEAN
        /\ ChannelsBounded /\ FailedAgree
    BY Zenon DEF IInv, TransportInv, TransportTypeOK
  <2>2. UNCHANGED <<call, pushes, exchangeVars, reader, window, failVars, goAway, broken, sess>>
    BY <1>7, Zenon DEF vars
  <2> QED
    BY <2>1, <2>2, ReaderMoves, Zenon DEF ChannelsBounded, FailedAgree
<1> QED
  BY <1>1, <1>2, <1>3, <1>4, <1>5, <1>6, <1>7, Zenon DEF Next

\* So the inductive invariant holds in every state.
LEMMA Always == Spec => []IInv
  BY InitInv, NextInv, PTL DEF Spec

\* For any calls, pushes, windows and channel size: channels do not overflow, no
\* exchange is pending for a call that has returned unless a write has failed, and
\* a response that a call takes for complete was ended by the peer.
THEOREM TransportCorrect == Spec => []TransportInv
  BY Always, PTL DEF IInv

\* readLoop sends to a closed channel only if Close was called.
THEOREM PanicsExplained == Spec => []PanicsOnlyAfterClose
  BY Always, PTL DEF IInv

\* On a transport that works, whatever returned has left no stream open.
THEOREM StreamsReleased == Spec => []NoOrphanStream
  BY Always, PTL DEF IInv

-----------------------------------------------------------------------------
(* The transport implements Calls                                          *)

Statuses == [c \in Callers |-> Status(c)]

Served == {c \in Callers : sess.heard[c] = "ended"}

CallsStep == [Abstract!CallsNext]_(Abstract!callsVars)

\* Initially all calls are idle and nothing is served.
LEMMA CallsInitially == Init => Abstract!CallsInit
<1> SUFFICES ASSUME Init PROVE Abstract!CallsInit
  BY Zenon
<1>1. \A c \in Callers : Status(c) = "idle"
  <2>1. \A c \in Callers : call[c].at = "start"
    BY Zenon DEF Init, At
  <2> QED
    BY <2>1, Zenon DEF Status, Returned
<1>2. \A c \in Callers : sess.heard[c] = "none"
  BY Zenon DEF Init, Streams
<1>3. ~failed
  BY Zenon DEF Init, failed
<1> QED
  BY <1>1, <1>2, <1>3 DEF Abstract!CallsInit

\* A step of one call that leaves the rest alone is a step of Calls, if its status
\* moves in one of the ways that Calls allows.
LEMMA CallMoves ==
  ASSUME NEW c \in Callers,
         \A d \in Callers \ {c} : call'[d] = call[d],
         failed' = failed, Served' = Served,
         \/ Status(c)' = Status(c)
         \/ Status(c) = "idle" /\ Status(c)' = "busy" /\ ~failed
         \/ Status(c) \in {"idle", "busy"} /\ Status(c)' = "error"
         \/ Status(c) = "busy" /\ Status(c)' = "response" /\ c \in Served
  PROVE  CallsStep
<1>1. Statuses' = [Statuses EXCEPT ![c] = Status(c)']
  <2>1. \A d \in Callers \ {c} : Status(d)' = Status(d)
    BY Zenon DEF Status, Returned
  <2> QED
    BY <2>1, Zenon DEF Statuses
<1>3. Statuses[c] = Status(c)
  BY Zenon DEF Statuses
<1>4. CASE Status(c)' = Status(c)
  <2>1. Statuses' = Statuses
    BY <1>1, <1>4, Zenon DEF Statuses
  <2> QED
    BY <2>1, Zenon DEF CallsStep, Abstract!callsVars, Statuses, Served
<1>5. CASE Status(c) = "idle" /\ Status(c)' = "busy" /\ ~failed
  <2>1. Abstract!Begin(c)
    BY <1>1, <1>3, <1>5, Zenon DEF Abstract!Begin, Statuses, Served
  <2> QED
    BY <2>1, Zenon DEF CallsStep, Abstract!CallsNext
<1>6. CASE Status(c) = "idle" /\ Status(c)' = "error"
  <2>1. Abstract!Refuse(c)
    BY <1>1, <1>3, <1>6, Zenon DEF Abstract!Refuse, Statuses, Served
  <2> QED
    BY <2>1, Zenon DEF CallsStep, Abstract!CallsNext
<1>7. CASE Status(c) = "busy" /\ Status(c)' = "error"
  <2>1. Abstract!Abort(c)
    BY <1>1, <1>3, <1>7, Zenon DEF Abstract!Abort, Statuses, Served
  <2> QED
    BY <2>1, Zenon DEF CallsStep, Abstract!CallsNext
<1>8. CASE Status(c) = "busy" /\ Status(c)' = "response" /\ c \in Served
  <2>1. Abstract!Answer(c)
    BY <1>1, <1>3, <1>8, Zenon DEF Abstract!Answer, Statuses, Served
  <2> QED
    BY <2>1, Zenon DEF CallsStep, Abstract!CallsNext
<1> QED
  BY <1>4, <1>5, <1>6, <1>7, <1>8, Zenon

\* What a step of a call that has begun leaves alone.
LEMMA ContinueFrame ==
  ASSUME IInv, NEW c \in Callers, Continue(c) \/ CancelContext(c)
  PROVE  /\ \A d \in Callers \ {c} : call'[d] = call[d]
         /\ sess'.heard = sess.heard /\ once' = once
         /\ call[c].at \notin {"start", "response", "error"} /\ call'[c].at # "start"
<1>0. /\ call \in [Callers -> CallRecord] /\ call[c] \in CallRecord
      /\ sess \in SessionRecord /\ c \in Streams
  BY Zenon DEF IInv, TransportInv, TransportTypeOK, Streams
<1>1. ASSUME NEW label \in Labels, Goto(c, label) \/ Leave(c, label)
      PROVE  call'[c].at = label /\ \A d \in Callers \ {c} : call'[d] = call[d]
  BY <1>0, <1>1, Jump, Zenon
<1> DEFINE Moved == /\ \A d \in Callers \ {c} : call'[d] = call[d]
                    /\ call'[c].at # "start"
<1>2. ASSUME call[c].at # "start",
             \/ UNCHANGED call
             \/ \E label \in Labels \ {"start"} : Goto(c, label) \/ Leave(c, label)
      PROVE  Moved
  BY <1>0, <1>1, <1>2, Zenon
<1>3. CASE ReadBody(c) \/ CancelContext(c)
  <2>1. UNCHANGED <<sess, once>> /\ call[c].at \notin {"start", "response", "error"}
    BY <1>3, Zenon DEF ReadBody, CancelContext, Doing, failVars
  <2>2. Moved
    BY <1>0, <1>3 DEF ReadBody, CancelContext, Doing, CallRecord
  <2> QED
    BY <2>1, <2>2, Zenon
<1>4. CASE Drain(c) \/ Blocked(c) \/ Await(c) \/ Finish(c)
  <2>1. UNCHANGED <<sess, once>> /\ call[c].at \notin {"start", "response", "error"}
    BY <1>4, Zenon DEF Drain, Blocked, Await, Finish, Doing, failVars
  <2>2. \/ UNCHANGED call
        \/ \E label \in Labels \ {"start"} : Goto(c, label) \/ Leave(c, label)
    <3>1. {"cancel", "abort", "sending", "ending", "finish", "error", "response"}
            \subseteq Labels \ {"start"}
      BY Zenon DEF Labels
    <3>2. CASE Drain(c)
      BY <3>1, <3>2, Zenon DEF Drain
    <3>3. CASE Blocked(c)
      BY <3>1, <3>3, Zenon DEF Blocked
    <3>4. CASE Await(c)
      BY <3>1, <3>4, Zenon DEF Await
    <3>5. CASE Finish(c)
      BY <3>1, <3>5, Zenon DEF Finish
    <3> QED
      BY <1>4, <3>2, <3>3, <3>4, <3>5, Zenon
  <2> QED
    BY <1>2, <2>1, <2>2, Zenon
<1>5. CASE SendData(c)
  <2>1. once' = once /\ call[c].at = "sending" /\ sess'.heard = sess.heard
    BY <1>0, <1>5, Zenon DEF SendData, Doing, failVars, SessionRecord
  <2>2. CASE \E label \in {"cancel", "blocked"} : Goto(c, label) \/ Leave(c, label)
    BY <1>2, <2>1, <2>2, Zenon DEF Labels
  <2>3. CASE call' = [call EXCEPT ![c].left = call[c].left - Sendable(c),
                                  ![c].at = IF call[c].left = Sendable(c)
                                            THEN "reading" ELSE "sending"]
    BY <1>0, <2>1, <2>3, Zenon DEF CallRecord
  <2> QED
    BY <1>5, <2>1, <2>2, <2>3, Zenon DEF SendData
<1>6. CASE SendEnd(c)
  <2>1. once' = once /\ call[c].at = "ending" /\ sess'.heard = sess.heard
    BY <1>0, <1>6, Zenon DEF SendEnd, Doing, failVars, SessionRecord
  <2>2. \E label \in {"cancel", "await"} : Leave(c, label)
    BY <1>6, Zenon DEF SendEnd
  <2> QED
    BY <1>2, <2>1, <2>2, Zenon DEF Labels
<1>7. CASE Cancel(c)
  <2>1. once' = once /\ call[c].at \in {"cancel", "abort"} /\ CancelStream(c)
    BY <1>7, Zenon DEF Cancel, Doing, failVars
  <2>2. \E label \in {"error", "finish"} : Leave(c, label)
    BY <1>7, Zenon DEF Cancel
  <2>3. sess'.heard = sess.heard
    BY <1>0, <2>1, CancelStreamFacts, Zenon
  <2> QED
    BY <1>2, <2>1, <2>2, <2>3, ZenonT(40) DEF Labels
<1> QED
  BY <1>3, <1>4, <1>5, <1>6, <1>7, Zenon DEF Continue

\* A step that shows no call, no END_STREAM and no failure.
LEMMA Unseen ==
  ASSUME UNCHANGED <<call, once>>, Served' = Served
  PROVE  CallsStep
<1>1. Statuses' = Statuses /\ failed' = failed
  BY Zenon DEF Statuses, Status, Returned, failed
<1> QED
  BY <1>1, Zenon DEF CallsStep, Abstract!callsVars, Statuses, Served

\* The peer's END_STREAM is for a call that has begun and not returned a response;
\* one whose first flush failed has returned, and its stream is still open.
LEMMA EndServes ==
  ASSUME IInv, NEW x \in Streams, RecvHeaders(x) \/ RecvData(x) \/ RecvTrailers(x)
  PROVE  CallsStep
<1>0. /\ UNCHANGED <<call, once>> /\ ~failed /\ Callers \subseteq Streams
      /\ sess.stream[x] \in {"open", "local"} /\ sess.heard[x] # "ended"
      /\ \A y \in Streams \ {x} : sess'.heard[y] = sess.heard[y]
  <2>1. PeerCanSend(x) /\ sess.heard[x] # "ended"
    BY PartsOf, Zenon
  <2>2. PICK part \in {"informed", "headers", "data", "ended"} :
          Heard(x, part) /\ \E raised : Fed(raised)
    BY PartsOf, Zenon
  <2>3. UNCHANGED <<call, once>> /\ ~failed
    BY <2>2, Zenon DEF Fed, failVars
  <2>4. \A y \in Streams \ {x} : sess'.heard[y] = sess.heard[y]
    BY <2>1, <2>2, HeardMoves, Zenon
  <2> QED
    BY <2>1, <2>3, <2>4, Zenon DEF PeerCanSend, Streams
<1>2. CASE x \notin Callers \/ sess'.heard[x] # "ended"
  <2>1. Served' = Served
    BY <1>0, <1>2, Zenon DEF Served
  <2> QED
    BY <1>0, <2>1, Unseen, Zenon
<1>3. CASE x \in Callers /\ sess'.heard[x] = "ended"
  <2>1. x \notin Served /\ Served' = Served \cup {x}
    BY <1>0, <1>3, Zenon DEF Served
  <2>2. call[x].at \notin {"start", "response"}
    BY <1>0, <1>3, Zenon DEF IInv, TransportInv, StreamsAgree, EndWasHeard
  <2>3. Statuses' = Statuses /\ Statuses[x] \in {"busy", "error"} /\ failed' = failed
    BY <1>0, <1>3, <2>2, Zenon DEF Statuses, Status, Returned, failed
  <2>4. Abstract!Serve(x)
    BY <2>1, <2>3, Zenon DEF Abstract!Serve, Statuses, Served
  <2> QED
    BY <1>3, <2>4, Zenon DEF CallsStep, Abstract!CallsNext
<1> QED
  BY <1>2, <1>3, Zenon

\* Every step of a transport is a step of Calls or leaves it alone: only the steps
\* of a call itself, the peer's END_STREAM and fail show.
LEMMA CallsSteps == IInv /\ [Next]_vars => CallsStep
<1> SUFFICES ASSUME IInv, [Next]_vars PROVE CallsStep
  BY Zenon
<1>0. /\ IInv' /\ call \in [Callers -> CallRecord] /\ sess \in SessionRecord
      /\ Pushes \subseteq Streams
  BY NextInv, Zenon DEF IInv, TransportInv, TransportTypeOK, Streams
<1>1. ASSUME NEW c \in Callers, BeginRefused(c) \/ BeginOpen(c) PROVE CallsStep
  <2>1. /\ once' = once /\ call[c].at = "start" /\ sess'.heard = sess.heard
        /\ BeginRefused(c) \/ ~failed
    BY <1>0, <1>1, Zenon DEF BeginRefused, BeginOpen, Doing, Refused, failVars, SessionRecord
  <2>2. \E label \in {"reading", "ending", "await", "error"} :
          Leave(c, label) /\ (BeginRefused(c) => label = "error")
    BY <1>1, Zenon DEF BeginRefused, BeginOpen, AfterHeaders, Refused
  <2>3. PICK label \in {"reading", "ending", "await", "error"} :
          Leave(c, label) /\ (BeginRefused(c) => label = "error")
    BY <2>2, Zenon
  <2>4. call'[c].at = label /\ \A d \in Callers \ {c} : call'[d] = call[d]
    BY <1>0, <2>3, Jump, Zenon DEF Labels
  <2>5. Status(c) = "idle" /\ Status(c)' = IF label = "error" THEN "error" ELSE "busy"
    BY <2>1, <2>4, Zenon DEF Status, Returned
  <2>6. Served' = Served /\ failed' = failed
    BY <2>1, Zenon DEF Served, failed
  <2> QED
    BY <2>1, <2>3, <2>4, <2>5, <2>6, CallMoves, Zenon
<1>2. ASSUME NEW c \in Callers, Continue(c) \/ CancelContext(c) PROVE CallsStep
  <2>1. /\ \A d \in Callers \ {c} : call'[d] = call[d]
        /\ sess'.heard = sess.heard /\ once' = once
        /\ call[c].at \notin {"start", "response", "error"} /\ call'[c].at # "start"
    BY <1>2, ContinueFrame, Zenon
  <2>2. Served' = Served /\ failed' = failed
    BY <2>1, Zenon DEF Served, failed
  <2>3. call'[c].at = "response" => c \in Served
    BY <1>0, <2>1, Zenon DEF IInv, TransportInv, EndWasHeard, Served
  <2>4. /\ Status(c) = "busy" /\ Status(c)' \in {"busy", "error", "response"}
        /\ Status(c)' = "response" => call'[c].at = "response"
    BY <2>1, Zenon DEF Status, Returned
  <2> QED
    BY <2>1, <2>2, <2>3, <2>4, CallMoves, Zenon
<1>3. ASSUME NEW p \in Pushes, ConsumePush(p) PROVE CallsStep
  <2>1. UNCHANGED <<call, once>>
    BY <1>3, Zenon DEF ConsumePush, failVars
  <2>2. sess'.heard = sess.heard
    <3>1. sess' = sess \/ CancelStream(p)
      BY <1>3, Zenon DEF ConsumePush
    <3> QED
      BY <1>0, <3>1, CancelStreamFacts, Zenon
  <2> QED
    BY <2>1, <2>2, Unseen, Zenon DEF Served
<1>4. CASE Recv
  <2>1. ASSUME NEW x \in Streams, RecvHeaders(x) \/ RecvData(x) \/ RecvTrailers(x)
        PROVE  CallsStep
    BY <2>1, EndServes, Zenon
  <2>2. ASSUME UNCHANGED <<call, once>>, sess'.heard = sess.heard PROVE CallsStep
    BY <2>2, Unseen, Zenon DEF Served
  <2>3. ASSUME NEW x \in Streams, RecvReset(x) PROVE CallsStep
    <3>1. sess' = CloseStreams({x}) /\ \E raised : Fed(raised)
      BY <2>3, Zenon DEF RecvReset
    <3>2. sess'.heard = sess.heard
      BY <1>0, <3>1, CloseStreamsType, Zenon
    <3> QED
      BY <2>2, <3>1, <3>2, Zenon DEF Fed, failVars
  <2>4. ASSUME NEW c \in Callers, RecvStreamWindow(c) PROVE CallsStep
    BY <1>0, <2>2, <2>4, Zenon DEF RecvStreamWindow, Fed, failVars, SessionRecord
  <2>5. ASSUME RecvConnectionWindow PROVE CallsStep
    BY <1>0, <2>2, <2>5, Zenon DEF RecvConnectionWindow, Fed, failVars, SessionRecord
  <2>6. ASSUME NEW last \in 0..Len(sess.order), RecvGoAway(last) PROVE CallsStep
    <3>1. PICK refused : sess' = [CloseStreams(refused) EXCEPT !.goneAway = TRUE]
      BY <2>6, Zenon DEF RecvGoAway
    <3>2. PICK r : r = CloseStreams(refused)
      BY Zenon
    <3>3. r \in SessionRecord /\ r.heard = sess.heard
      BY <1>0, <3>2, CloseStreamsType, Zenon
    <3>4. sess'.heard = sess.heard
      BY <3>1, <3>2, <3>3, Zenon DEF SessionRecord
    <3>5. UNCHANGED <<call, once>>
      BY <2>6, Zenon DEF RecvGoAway, Fed, failVars
    <3> QED
      BY <2>2, <3>4, <3>5, Zenon
  <2>7. ASSUME NEW p \in Pushes, RecvPushPromise(p) PROVE CallsStep
    BY <1>0, <2>2, <2>7, Zenon DEF RecvPushPromise, Fed, failVars, SessionRecord
  <2> QED
    BY <1>4, <2>1, <2>3, <2>4, <2>5, <2>6, <2>7, Zenon DEF Recv
<1>5. CASE ReadFails \/ DispatchControl \/ Lookup \/ Deliver \/ UNCHANGED vars
  <2>1. UNCHANGED <<call, once, sess>>
    BY <1>5, Zenon DEF ReadFails, DispatchControl, Lookup, Deliver, failVars, vars
  <2> QED
    BY <2>1, Unseen, Zenon DEF Served
<1>6. CASE AcceptPush
  <2>1. UNCHANGED <<call, once>>
    BY <1>6, Zenon DEF AcceptPush, failVars
  <2>2. Head(reader.events).stream \in Streams
    BY <1>6, ReaderHead, EventFacts, Zenon DEF AcceptPush, Streams
  <2>3. sess' = sess \/ CancelStream(Head(reader.events).stream)
    BY <1>6, Zenon DEF AcceptPush
  <2>4. sess'.heard = sess.heard
    BY <1>0, <2>2, <2>3, CancelStreamFacts, Zenon
  <2> QED
    BY <2>1, <2>4, Unseen, Zenon DEF Served
<1>7. CASE FailLocked
  <2>1. /\ UNCHANGED call /\ ~failed /\ failed'
        /\ sess' = [CloseStreams(Streams) EXCEPT !.connCredit = 0]
    BY <1>7, Zenon DEF FailLocked, failed
  <2>2. PICK r : r = CloseStreams(Streams)
    BY Zenon
  <2>3. r \in SessionRecord /\ r.heard = sess.heard
    BY <1>0, <2>2, CloseStreamsType, Zenon
  <2>4. sess'.heard = sess.heard
    BY <2>1, <2>2, <2>3, Zenon DEF SessionRecord
  <2>5. Statuses' = Statuses /\ Served' = Served
    BY <2>1, <2>4, Zenon DEF Statuses, Status, Returned, Served
  <2>6. failed' = TRUE
    BY <2>1, Zenon DEF failed
  <2>7. Abstract!GoDown
    BY <2>1, <2>5, <2>6, Zenon DEF Abstract!GoDown, Statuses, Served
  <2> QED
    BY <2>7, Zenon DEF CallsStep, Abstract!CallsNext
<1>8. CASE CloseDone \/ FailReturns \/ Close
  <2>1. UNCHANGED <<call, sess>> /\ failed' = failed
    BY <1>8, Zenon DEF CloseDone, FailReturns, Close, failed
  <2>2. Statuses' = Statuses /\ Served' = Served
    BY <2>1, Zenon DEF Statuses, Status, Returned, Served
  <2> QED
    BY <2>1, <2>2, Zenon DEF CallsStep, Abstract!callsVars, Statuses, Served
<1> QED
  BY <1>1, <1>2, <1>3, <1>4, <1>5, <1>6, <1>7, <1>8, Zenon DEF Next, ReaderStep, FailStep

\* A transport keeps the promises of Calls, whatever the peer, the contexts and the
\* byte stream do: a response is returned only if the peer has ended it, a call
\* returns once, and none begins on a transport that has failed.
THEOREM TransportImplementsCalls == Spec => ImplementsCalls
  BY CallsInitially, CallsSteps, Always, PTL
     DEF Spec, ImplementsCalls, Abstract!CallsSpec, CallsStep
=============================================================================
