--------------------------- MODULE ServerPoolProofs ---------------------------
(***************************************************************************)
(* The HTTP/2 server connection for any number of streams, with the order  *)
(* of its handler's callbacks; and, independent of it, the client pool for *)
(* any number of calls, dials and retries, with its refinement of Calls.   *)
(***************************************************************************)
EXTENDS ServerConn, Pool, TLAPS

-----------------------------------------------------------------------------
(* The events of a frame                                                   *)

Kinds == Callbacks \cup {"window", "settings"}

\* Every one of the events may come next, for a stream that has had some callbacks.
InOrder(seen, events) ==
  \A i \in 1..Len(events) : Legal(seen \cup {events[j] : j \in 1..(i - 1)}, events[i])

\* A sequence is its first element and the others.
LEMMA HeadAndTail ==
  ASSUME NEW S, NEW ev \in Seq(S), ev # <<>>
  PROVE  /\ Len(ev) \in Nat \ {0} /\ Head(ev) = ev[1] /\ Head(ev) \in S
         /\ Tail(ev) \in Seq(S) /\ Len(Tail(ev)) = Len(ev) - 1
         /\ \A i \in 1..(Len(ev) - 1) : Tail(ev)[i] = ev[i + 1]
  OBVIOUS

\* So are the elements of it.
LEMMA RangeOfTail ==
  ASSUME NEW S, NEW ev \in Seq(S), ev # <<>>
  PROVE  Range(ev) = {Head(ev)} \cup Range(Tail(ev))
<1>1. /\ Len(ev) \in Nat \ {0} /\ Head(ev) = ev[1]
      /\ Tail(ev) \in Seq(S) /\ Len(Tail(ev)) = Len(ev) - 1
      /\ \A i \in 1..(Len(ev) - 1) : Tail(ev)[i] = ev[i + 1]
  BY HeadAndTail
<1>2. DOMAIN ev = 1..Len(ev) /\ DOMAIN Tail(ev) = 1..(Len(ev) - 1)
  BY <1>1
<1>3. \A i \in 1..Len(ev) : i = 1 \/ (i - 1 \in 1..(Len(ev) - 1) /\ ev[i] = Tail(ev)[i - 1])
  BY <1>1
<1>4. \A i \in 1..(Len(ev) - 1) : i + 1 \in 1..Len(ev)
  BY <1>1
<1>5. 1 \in 1..Len(ev)
  BY <1>1
<1>6. ASSUME NEW v \in Range(ev) PROVE v \in {Head(ev)} \cup Range(Tail(ev))
  <2>1. PICK i \in 1..Len(ev) : v = ev[i]
    BY <1>2, <1>6, Zenon DEF Range
  <2> QED
    BY <1>1, <1>2, <1>3, <2>1, Zenon DEF Range
<1>7. Head(ev) \in Range(ev)
  BY <1>1, <1>2, <1>5, Zenon DEF Range
<1>8. Range(Tail(ev)) \subseteq Range(ev)
  BY <1>1, <1>2, <1>4 DEF Range
<1> QED
  BY <1>6, <1>7, <1>8, Zenon

\* The elements of short sequences.
LEMMA ShortRange ==
  ASSUME NEW a, NEW b, NEW c
  PROVE  /\ Range(<<>>) = {} /\ Range(<<a>>) = {a} /\ Range(<<a, b>>) = {a, b}
         /\ Range(<<a, b, c>>) = {a, b, c}
  BY DEF Range

\* They are sequences over the set of their elements.
LEMMA ShortSeq ==
  ASSUME NEW S, NEW a \in S, NEW b \in S, NEW c \in S
  PROVE  <<>> \in Seq(S) /\ <<a>> \in Seq(S) /\ <<a, b>> \in Seq(S) /\ <<a, b, c>> \in Seq(S)
  OBVIOUS

\* The order of a sequence: its first element, then the others with this one seen.
LEMMA OrderOfTail ==
  ASSUME NEW S, NEW ev \in Seq(S), ev # <<>>, NEW seen, InOrder(seen, ev)
  PROVE  Legal(seen, Head(ev)) /\ InOrder(seen \cup {Head(ev)}, Tail(ev))
<1>1. /\ Len(ev) \in Nat \ {0} /\ Head(ev) = ev[1]
      /\ Len(Tail(ev)) = Len(ev) - 1
      /\ \A i \in 1..(Len(ev) - 1) : Tail(ev)[i] = ev[i + 1]
  BY HeadAndTail
<1>2. Legal(seen, Head(ev))
  <2>1. 1 \in 1..Len(ev) /\ {ev[j] : j \in 1..(1 - 1)} = {}
    BY <1>1
  <2>2. Legal(seen \cup {ev[j] : j \in 1..(1 - 1)}, ev[1])
    BY <2>1, Zenon DEF InOrder
  <2>3. seen \cup {ev[j] : j \in 1..(1 - 1)} = seen
    BY <2>1, Zenon
  <2> QED
    BY <1>1, <2>2, <2>3, Zenon
<1>3. ASSUME NEW i \in 1..Len(Tail(ev))
      PROVE  Legal((seen \cup {Head(ev)}) \cup {Tail(ev)[j] : j \in 1..(i - 1)}, Tail(ev)[i])
  <2>1. i + 1 \in 1..Len(ev) /\ Tail(ev)[i] = ev[i + 1] /\ i \in Nat
    BY <1>1
  <2>2. {ev[j] : j \in 1..((i + 1) - 1)} = {Head(ev)} \cup {Tail(ev)[j] : j \in 1..(i - 1)}
    <3>1. \A j \in 1..((i + 1) - 1) : j = 1 \/ (j - 1 \in 1..(i - 1) /\ ev[j] = Tail(ev)[j - 1])
      BY <1>1, <2>1
    <3>2. \A j \in 1..(i - 1) : j + 1 \in 1..((i + 1) - 1) /\ Tail(ev)[j] = ev[j + 1]
      BY <1>1, <2>1
    <3>3. 1 \in 1..((i + 1) - 1)
      BY <1>1, <2>1
    <3>4. {ev[j] : j \in 1..((i + 1) - 1)} \subseteq {Head(ev)} \cup {Tail(ev)[j] : j \in 1..(i - 1)}
      BY <1>1, <3>1
    <3>5. Head(ev) \in {ev[j] : j \in 1..((i + 1) - 1)}
      BY <1>1, <3>3, Zenon
    <3>6. {Tail(ev)[j] : j \in 1..(i - 1)} \subseteq {ev[j] : j \in 1..((i + 1) - 1)}
      BY <3>2, Zenon
    <3> QED
      BY <3>4, <3>5, <3>6, Zenon
  <2>3. Legal(seen \cup {ev[j] : j \in 1..((i + 1) - 1)}, ev[i + 1])
    BY <2>1, Zenon DEF InOrder
  <2>4. seen \cup {ev[j] : j \in 1..((i + 1) - 1)}
          = (seen \cup {Head(ev)}) \cup {Tail(ev)[j] : j \in 1..(i - 1)}
    BY <2>2, Zenon
  <2> QED
    BY <2>1, <2>3, <2>4, Zenon
<1> QED
  BY <1>2, <1>3, Zenon DEF InOrder

\* The order of short sequences.
LEMMA ShortOrder ==
  ASSUME NEW seen, NEW a, NEW b, NEW c
  PROVE  /\ Legal(seen, a) => InOrder(seen, <<a>>)
         /\ Legal(seen, a) /\ Legal(seen \cup {a}, b) => InOrder(seen, <<a, b>>)
         /\ Legal(seen, a) /\ Legal(seen \cup {a}, b) /\ Legal(seen \cup {a, b}, c)
              => InOrder(seen, <<a, b, c>>)
<1>1. \A f : /\ seen \cup {f[j] : j \in 1..(1 - 1)} = seen
             /\ seen \cup {f[j] : j \in 1..(2 - 1)} = seen \cup {f[1]}
             /\ seen \cup {f[j] : j \in 1..(3 - 1)} = seen \cup {f[1], f[2]}
  <2>1. 1..(1 - 1) = {} /\ 1..(2 - 1) = {1} /\ 1..(3 - 1) = {1, 2}
    OBVIOUS
  <2> QED
    BY <2>1, Zenon
<1>2. ASSUME NEW f, NEW n \in {1, 2, 3}, Len(f) = n,
             Legal(seen, f[1]),
             n > 1 => Legal(seen \cup {f[1]}, f[2]),
             n > 2 => Legal(seen \cup {f[1], f[2]}, f[3])
      PROVE  InOrder(seen, f)
  <2>1. ASSUME NEW i \in 1..n PROVE Legal(seen \cup {f[j] : j \in 1..(i - 1)}, f[i])
    <3>1. i = 1 \/ (i = 2 /\ n > 1) \/ (i = 3 /\ n > 2)
      BY <2>1
    <3>2. CASE i = 1
      <4>1. PICK u : u = seen \cup {f[j] : j \in 1..(1 - 1)}
        BY Zenon
      <4>2. u = seen
        BY <1>1, <4>1, ZenonT(40)
      <4>3. Legal(u, f[1])
        BY <1>2, <4>2, Zenon
      <4> QED
        BY <3>2, <4>1, <4>3, Zenon
    <3>3. CASE i = 2 /\ n > 1
      BY <1>1, <1>2, <3>3, Zenon
    <3>4. CASE i = 3 /\ n > 2
      BY <1>1, <1>2, <3>4, Zenon
    <3> QED
      BY <3>1, <3>2, <3>3, <3>4, Zenon
  <2> QED
    BY <1>2, <2>1, Zenon DEF InOrder
<1>3. ASSUME Legal(seen, a) PROVE InOrder(seen, <<a>>)
  <2> DEFINE f == <<a>>
  <2>1. Len(f) = 1 /\ f[1] = a /\ ~(1 > 1) /\ ~(1 > 2)
    OBVIOUS
  <2> HIDE DEF f
  <2>2. InOrder(seen, f)
    BY <1>2, <1>3, <2>1, Zenon
  <2> QED
    BY <2>2, Zenon DEF f
<1>4. ASSUME Legal(seen, a), Legal(seen \cup {a}, b) PROVE InOrder(seen, <<a, b>>)
  <2> DEFINE f == <<a, b>>
  <2>1. Len(f) = 2 /\ f[1] = a /\ f[2] = b /\ ~(2 > 2)
    OBVIOUS
  <2> HIDE DEF f
  <2>2. InOrder(seen, f)
    BY <1>2, <1>4, <2>1, Zenon
  <2> QED
    BY <2>2, Zenon DEF f
<1>5. ASSUME Legal(seen, a), Legal(seen \cup {a}, b), Legal(seen \cup {a, b}, c)
      PROVE  InOrder(seen, <<a, b, c>>)
  <2> DEFINE f == <<a, b, c>>
  <2>1. Len(f) = 3 /\ f[1] = a /\ f[2] = b /\ f[3] = c
    OBVIOUS
  <2> HIDE DEF f
  <2>2. InOrder(seen, f)
    BY <1>2, <1>5, <2>1, Zenon
  <2> QED
    BY <2>2, Zenon DEF f
<1> QED
  BY <1>3, <1>4, <1>5, Zenon

\* Credit is not a callback of a message.
LEMMA OrderWithoutWindow ==
  ASSUME NEW seen, NEW ev, InOrder(seen \cup {"window"}, ev)
  PROVE  InOrder(seen, ev)
<1>1. \A s, t, k : s \subseteq t /\ t \subseteq s \cup {"window"} /\ Legal(t, k) => Legal(s, k)
  BY DEF Legal
<1>2. ASSUME NEW i \in 1..Len(ev)
      PROVE  Legal(seen \cup {ev[j] : j \in 1..(i - 1)}, ev[i])
  <2> DEFINE s == seen \cup {ev[j] : j \in 1..(i - 1)}
             t == (seen \cup {"window"}) \cup {ev[j] : j \in 1..(i - 1)}
  <2>1. Legal(t, ev[i])
    BY <1>2, Zenon DEF InOrder
  <2>2. s \subseteq t /\ t \subseteq s \cup {"window"}
    BY Zenon
  <2> QED
    BY <1>1, <2>1, <2>2, Zenon
<1> QED
  BY <1>2, Zenon DEF InOrder

-----------------------------------------------------------------------------
(* The invariant                                                           *)

States == {"idle", "reserved", "open", "local", "remote", "closed"}

\* Initially nothing is received and no stream is held.
LEMMA InitInv == Init => ServerInv
<1> SUFFICES ASSUME Init PROVE ServerInv
  BY Zenon
<1>1. ServerTypeOK
  <2>1. /\ credit \in [Streams \cup {"connection"} -> 0..MaxCredit]
        /\ left \in [Streams -> 0..NoHeaders]
    BY ServerAssumption DEF Init, NoHeaders
  <2>2. reader \in ReaderRecord
    BY DEF Init, ReaderRecord, Quiet
  <2> QED
    BY <2>1, <2>2, Zenon DEF Init, ServerTypeOK
<1>2. UnfinishedIsRegistered
  BY Zenon DEF Init, UnfinishedIsRegistered
<1>3. EventsExpected
  <2>1. reader.at = "read" /\ reader.on = "connection" /\ reader.events = <<>>
    BY Zenon DEF Init, Quiet
  <2>2. "connection" \notin Streams /\ "connection" \notin Requests
    BY ServerAssumption, Zenon DEF Streams
  <2>3. \A x \in Streams : Heard(x) = {}
    BY <2>1, <2>2, Zenon DEF Init, Heard
  <2>4. \A x \in Streams : stream[x] = "idle" /\ x \notin held /\ ~closed
    BY Zenon DEF Init
  <2> QED
    BY <2>1, <2>2, <2>3, <2>4, Zenon DEF EventsExpected, PeerCanSend
<1> QED
  BY <1>1, <1>2, <1>3, Zenon DEF ServerInv

\* A step that dispatches nothing and moves streams on, towards "closed".
LEMMA StreamsMove ==
  ASSUME EventsExpected, UNCHANGED <<told, reader>>,
         \A x \in Streams :
           /\ stream'[x] = "idle" => stream[x] = "idle" /\ (x \in held' => x \in held)
           /\ stream[x] = "closed" => stream'[x] = "closed"
           /\ x \in Requests /\ stream[x] = "idle" => stream'[x] \in {"idle", "closed"}
           /\ PeerCanSend(x)' => PeerCanSend(x)
           /\ closed' => closed \/ stream'[x] = "closed"
  PROVE  EventsExpected'
<1>1. \A x \in Streams : Heard(x)' = Heard(x)
  BY Zenon DEF Heard
<1>2. (reader.on \in Streams =>
         \A i \in 1..Len(reader.events) : Legal(Seen(reader.on, i), reader.events[i]))'
  <2>1. \A x, i : Seen(x, i)' = Seen(x, i)
    BY Zenon DEF Seen
  <2>2. reader'.on = reader.on /\ reader'.events = reader.events
    BY Zenon
  <2> QED
    BY <2>1, <2>2, Zenon DEF EventsExpected
<1>3. ASSUME NEW x \in Streams
      PROVE  /\ stream'[x] = "idle" => Heard(x)' \subseteq {"refused"} /\ x \notin held'
             /\ PeerCanSend(x)' /\ reader'.at # "fail" =>
                  "headers" \in Heard(x)' /\ Heard(x)' \cap {"trailers", "end", "reset"} = {}
             /\ "reset" \in Heard(x)' \/ closed' => stream'[x] = "closed"
  <2>1. Heard(x)' = Heard(x) /\ reader'.at = reader.at
    BY <1>1, <1>3, Zenon
  <2>2. stream'[x] = "idle" => Heard(x) \subseteq {"refused"} /\ x \notin held'
    BY <1>3, Zenon DEF EventsExpected
  <2>3. PeerCanSend(x)' /\ reader.at # "fail" =>
          "headers" \in Heard(x) /\ Heard(x) \cap {"trailers", "end", "reset"} = {}
    BY <1>3, Zenon DEF EventsExpected
  <2>4. "reset" \in Heard(x) \/ closed' => stream'[x] = "closed"
    BY <1>3, Zenon DEF EventsExpected
  <2> QED
    BY <2>1, <2>2, <2>3, <2>4, Zenon
<1>4. reader'.on \in Requests /\ "refused" \in Range(reader'.events) =>
        stream'[reader'.on] \in {"idle", "closed"}
  <2>1. Requests \subseteq Streams
    BY Zenon DEF Streams
  <2> QED
    BY <2>1, Zenon DEF EventsExpected
<1> QED
  BY <1>2, <1>3, <1>4, Zenon DEF EventsExpected

\* The response headers of stream x, with or without a body.
LEMMA HeadersInv ==
  ASSUME ServerInv, NEW x \in Streams, NEW end \in BOOLEAN, Headers(x, end)
  PROVE  ServerInv'
<1> USE DEF ServerInv
<1>1. /\ x \in held /\ ~closed /\ CanSend(x)
      /\ left' = [left EXCEPT ![x] = IF end THEN 0 ELSE Body]
      /\ writers' \in {writers, writers \ {x}} /\ (~end => writers' = writers)
      /\ waiting' \subseteq waiting
      /\ broken' \in BOOLEAN
      /\ UNCHANGED <<credit, resized, held, told, reader, closed, closer>>
  BY Zenon DEF Headers, Flush, ServerTypeOK
<1>2. /\ \A y \in Streams \ {x} : stream'[y] = stream[y]
      /\ end => stream'[x] \in {"local", "closed"} /\ (stream'[x] = "local" => stream[x] = "open")
      /\ ~end => stream'[x] = stream[x] \/ (stream[x] = "reserved" /\ stream'[x] = "remote")
      /\ stream' \in [Streams -> States]
  BY Zenon DEF Headers, ServerTypeOK, LocalEnd, States
<1>3. ServerTypeOK'
  <2>1. left' \in [Streams -> 0..NoHeaders]
    BY <1>1, ServerAssumption DEF ServerTypeOK, NoHeaders
  <2> QED
    BY <1>1, <1>2, <2>1, Zenon DEF ServerTypeOK, States
<1>4. UnfinishedIsRegistered'
  <2>1. held \subseteq Streams
    BY Zenon DEF ServerTypeOK
  <2> QED
    BY <1>1, <1>2, <2>1, Zenon DEF UnfinishedIsRegistered, CanSend, Spoilt
<1>5. EventsExpected'
  <2>1. \A y \in Streams :
           /\ stream'[y] = "idle" => stream[y] = "idle"
           /\ stream[y] = "closed" => stream'[y] = "closed"
           /\ stream[y] = "idle" => stream'[y] = "idle"
           /\ PeerCanSend(y)' => PeerCanSend(y)
    BY <1>1, <1>2, Zenon DEF PeerCanSend, CanSend
  <2> QED
    BY <1>1, <2>1, StreamsMove, Zenon
<1> QED
  BY <1>3, <1>4, <1>5, Zenon

\* A write takes no more than there is to send, nor than a window holds.
LEMMA SendableBounds ==
  ASSUME ServerTypeOK, NEW x \in Streams
  PROVE  /\ Sendable(x) \in Nat /\ Sendable(x) <= left[x]
         /\ Sendable(x) <= credit[x] /\ Sendable(x) <= credit["connection"]
<1>1. left[x] \in Nat /\ credit[x] \in Nat /\ credit["connection"] \in Nat
  BY ServerAssumption DEF ServerTypeOK, NoHeaders
<1>2. \A a, b, c \in Nat : \E m \in {a, b, c} : \A y \in {a, b, c} : m <= y
  OBVIOUS
<1>3. PICK m \in {left[x], credit[x], credit["connection"]} :
        \A y \in {left[x], credit[x], credit["connection"]} : m <= y
  BY <1>1, <1>2
<1>4. Sendable(x) \in {left[x], credit[x], credit["connection"]} /\
        \A y \in {left[x], credit[x], credit["connection"]} : Sendable(x) <= y
  BY <1>3, Zenon DEF Sendable, Min
<1> QED
  BY <1>1, <1>4, Zenon

\* A handler that writes a part of its response body.
LEMMA WriteInv == ASSUME ServerInv, NEW x \in Streams, Write(x) PROVE ServerInv'
<1> USE DEF ServerInv
<1> DEFINE n == Sendable(x)
<1>0. /\ n \in Nat /\ n <= left[x] /\ n <= credit[x] /\ n <= credit["connection"]
      /\ x # "connection"
  BY SendableBounds, ServerAssumption, Zenon DEF Streams
<1> HIDE DEF n
<1>1. /\ x \in held /\ ~closed /\ CanSend(x)
      /\ credit' = [credit EXCEPT ![x] = @ - n, !["connection"] = @ - n]
      /\ left' = [left EXCEPT ![x] = @ - n]
      /\ writers' = writers \/ (writers' = writers \ {x} /\ n = left[x])
      /\ waiting' \in {waiting, waiting \cup {x}}
      /\ UNCHANGED <<resized, held, told, reader, closed, closer>>
  BY Zenon DEF Write, Finished, n
<1>2. /\ stream' = [stream EXCEPT ![x] = IF n = left[x] THEN LocalEnd(x) ELSE stream[x]]
      /\ broken' \in BOOLEAN
  BY Zenon DEF Write, n, Flush, ServerTypeOK
<1>3. /\ \A y \in Streams \ {x} : stream'[y] = stream[y]
      /\ n = left[x] => stream'[x] \in {"local", "closed"} /\ (stream'[x] = "local" => stream[x] = "open")
      /\ n # left[x] => stream'[x] = stream[x]
      /\ stream' \in [Streams -> States]
  BY <1>2, Zenon DEF ServerTypeOK, LocalEnd, States
<1>4. ServerTypeOK'
  <2>1. left' \in [Streams -> 0..NoHeaders]
    BY <1>0, <1>1, ServerAssumption DEF ServerTypeOK, NoHeaders
  <2>2. credit[x] - n \in 0..MaxCredit /\ credit["connection"] - n \in 0..MaxCredit
    BY <1>0, ServerAssumption DEF ServerTypeOK
  <2>3. credit' \in [Streams \cup {"connection"} -> 0..MaxCredit]
    BY <1>0, <1>1, <2>2, Zenon DEF ServerTypeOK
  <2>4. waiting' \subseteq held' /\ held' \subseteq Streams /\ writers' \subseteq Streams
    BY <1>1, Zenon DEF ServerTypeOK
  <2> QED
    BY <1>1, <1>2, <1>3, <2>1, <2>3, <2>4, Zenon DEF ServerTypeOK, States
<1>5. UnfinishedIsRegistered'
  <2>1. held \subseteq Streams
    BY Zenon DEF ServerTypeOK
  <2> QED
    BY <1>1, <1>3, <2>1, Zenon DEF UnfinishedIsRegistered, CanSend, Spoilt
<1>6. EventsExpected'
  <2>1. \A y \in Streams :
           /\ stream'[y] = "idle" => stream[y] = "idle"
           /\ stream[y] = "closed" => stream'[y] = "closed"
           /\ stream[y] = "idle" => stream'[y] = "idle"
           /\ PeerCanSend(y)' => PeerCanSend(y)
    BY <1>1, <1>3, Zenon DEF PeerCanSend, CanSend
  <2> QED
    BY <1>1, <2>1, StreamsMove, Zenon
<1> QED
  BY <1>4, <1>5, <1>6, Zenon

\* Reset, PushPromise and PriorityUpdate.
LEMMA WriterInv ==
  ASSUME ServerInv, NEW x \in Streams,
         Reset(x) \/ (\E p \in Pushes : PushPromise(x, p)) \/ PriorityUpdate(x)
  PROVE  ServerInv'
<1> USE DEF ServerInv
<1>1. CASE Reset(x)
  <2>1. ServerTypeOK'
    BY <1>1, Zenon DEF Reset, ServerTypeOK, Flush
  <2>2. UnfinishedIsRegistered'
    BY <1>1, Zenon DEF Reset, ServerTypeOK, UnfinishedIsRegistered, CanSend, Spoilt
  <2>3. \A y \in Streams :
          /\ stream'[y] = "idle" => stream[y] = "idle"
          /\ stream[y] = "closed" => stream'[y] = "closed"
          /\ stream[y] = "idle" => stream'[y] = "idle"
          /\ PeerCanSend(y)' => PeerCanSend(y)
    BY <1>1, Zenon DEF Reset, ServerTypeOK, PeerCanSend
  <2>4. EventsExpected'
    BY <1>1, <2>3, StreamsMove, Zenon DEF Reset
  <2> QED
    BY <2>1, <2>2, <2>4, Zenon
<1>2. ASSUME NEW p \in Pushes, PushPromise(x, p) PROVE ServerInv'
  <2>0. p \in Streams /\ stream[p] = "idle" /\ p \notin held
    BY <1>2, Zenon DEF PushPromise, Streams, EventsExpected
  <2>1. ServerTypeOK'
    <3>1. stream' \in [Streams -> States]
      BY <1>2, Zenon DEF PushPromise, ServerTypeOK, States
    <3>2. waiting' \subseteq held' /\ held' \subseteq Streams /\ writers' \subseteq Streams
      BY <1>2, <2>0, Zenon DEF PushPromise, ServerTypeOK
    <3>3. broken' \in BOOLEAN
      BY <1>2, Zenon DEF PushPromise, ServerTypeOK, Flush
    <3> QED
      BY <1>2, <3>1, <3>2, <3>3, Zenon DEF PushPromise, ServerTypeOK, States
  <2>2. UnfinishedIsRegistered'
    <3>1. \A y \in Streams \ {p} : stream'[y] = stream[y]
      BY <1>2, Zenon DEF PushPromise, ServerTypeOK, States
    <3>2. /\ ~closed /\ held \subseteq Streams
          /\ \/ writers' = writers \cup {p} /\ held' = held \cup {p}
             \/ writers' = writers /\ held' = held
          /\ told' = told
      BY <1>2, Zenon DEF PushPromise, ServerTypeOK
    <3>3. ASSUME NEW y \in held', CanSend(y)' PROVE y \in writers' \/ Spoilt(y)'
      <4>1. y = p \/ (y \in held /\ CanSend(y))
        BY <3>1, <3>2, <3>3, Zenon DEF CanSend
      <4> QED
        BY <2>0, <3>2, <3>3, <4>1, SMT DEF UnfinishedIsRegistered, Spoilt
    <3> QED
      BY <3>3, Zenon DEF UnfinishedIsRegistered
  <2>3. \A y \in Streams :
          /\ stream'[y] = "idle" => stream[y] = "idle" /\ (y \in held' => y \in held)
          /\ stream[y] = "closed" => stream'[y] = "closed"
          /\ y \in Requests /\ stream[y] = "idle" => stream'[y] \in {"idle", "closed"}
          /\ PeerCanSend(y)' => PeerCanSend(y)
    BY <1>2, <2>0, ServerAssumption, Zenon DEF PushPromise, ServerTypeOK, PeerCanSend
  <2>4. EventsExpected'
    BY <1>2, <2>3, StreamsMove, Zenon DEF PushPromise
  <2> QED
    BY <2>1, <2>2, <2>4, Zenon
<1>3. CASE PriorityUpdate(x)
  <2>1. ServerTypeOK'
    BY <1>3, Zenon DEF PriorityUpdate, ServerTypeOK, Flush, sessionVars, appVars
  <2>2. UnfinishedIsRegistered'
    BY <1>3, Zenon DEF PriorityUpdate, UnfinishedIsRegistered, CanSend, Spoilt, sessionVars, appVars
  <2>3. EventsExpected'
    BY <1>3, StreamsMove, Zenon DEF PriorityUpdate, sessionVars, appVars, PeerCanSend
  <2> QED
    BY <2>1, <2>2, <2>3, Zenon
<1> QED
  BY <1>1, <1>2, <1>3, Zenon

\* The state of a stream agrees with the callbacks it has had and the raised ones.
Fits(x, state, raised) ==
  LET heard == told[x] \cup Range(raised) IN
  /\ state = "idle" => heard \subseteq {"refused"} /\ x \notin held
  /\ state \in {"open", "local"} =>
       "headers" \in heard /\ heard \cap {"trailers", "end", "reset"} = {}
  /\ "reset" \in heard => state = "closed"
  /\ "refused" \in Range(raised) => state \in {"idle", "closed"}

\* Before a frame is read there is nothing to dispatch.
LEMMA NothingQueued ==
  ASSUME ServerInv, reader.at = "read", NEW x \in Streams
  PROVE  Heard(x) = told[x]
<1>1. reader.events = <<>>
  BY Zenon DEF ServerInv, EventsExpected
<1> QED
  BY <1>1, ShortRange, Zenon DEF Heard

\* What Feed raises becomes the reader's events, unless the flush fails.
LEMMA FedReader ==
  ASSUME ServerInv, NEW x \in Streams \cup {"connection"}, NEW raised \in Seq(Kinds),
         Fed(x, raised)
  PROVE  /\ reader.at = "read" /\ ~closed /\ reader' \in ReaderRecord
         /\ \/ reader'.at = "dispatch" /\ reader'.on = x /\ reader'.events = raised
            \/ reader'.at = "fail" /\ reader'.on = "connection" /\ reader'.events = <<>>
         /\ broken' \in BOOLEAN
         /\ UNCHANGED <<left, waiting, held, told, writers, closed, closer>>
<1>1. /\ reader.at = "read" /\ ~closed
      /\ broken' \in BOOLEAN
      /\ UNCHANGED <<left, waiting, held, told, writers, closed, closer>>
  BY Zenon DEF Fed, Flush, appVars, ServerInv, ServerTypeOK
<1>2. CASE reader' = [at |-> "dispatch", on |-> x, events |-> raised, notify |-> {}]
  BY <1>1, <1>2, Zenon DEF ReaderRecord, Kinds
<1>3. CASE reader' = Quiet("fail")
  <2>1. <<>> \in Seq(Kinds)
    BY ShortSeq
  <2> QED
    BY <1>1, <1>3, <2>1, Zenon DEF ReaderRecord, Kinds, Quiet
<1> QED
  BY <1>2, <1>3, Zenon DEF Fed

\* A frame that moves at most one stream, whose events fit the state it moves to.
LEMMA FedInv ==
  ASSUME ServerInv, NEW x \in Streams \cup {"connection"}, NEW raised \in Seq(Kinds),
         Fed(x, raised),
         stream' \in [Streams -> States],
         credit' \in [Streams \cup {"connection"} -> 0..MaxCredit], resized' \in BOOLEAN,
         \A y \in Streams : y # x => stream'[y] = stream[y],
         x \in Streams => /\ InOrder(told[x], raised) /\ Fits(x, stream'[x], raised)
                          /\ CanSend(x)' => CanSend(x) \/ stream[x] = "idle"
  PROVE  ServerInv'
<1> USE DEF ServerInv
<1>1. /\ reader.at = "read" /\ ~closed /\ reader' \in ReaderRecord
      /\ \/ reader'.at = "dispatch" /\ reader'.on = x /\ reader'.events = raised
         \/ reader'.at = "fail" /\ reader'.on = "connection" /\ reader'.events = <<>>
      /\ broken' \in BOOLEAN
      /\ UNCHANGED <<left, waiting, held, told, writers, closed, closer>>
  BY FedReader, Zenon
<1>2. "connection" \notin Streams /\ "connection" \notin Requests /\ Requests \subseteq Streams
  BY ServerAssumption, Zenon DEF Streams
<1>3. ServerTypeOK'
  BY <1>1, Zenon DEF ServerTypeOK, States
<1>4. UnfinishedIsRegistered'
  <2>1. held \subseteq Streams /\ (x \in Streams /\ stream[x] = "idle" => x \notin held)
    BY Zenon DEF ServerTypeOK, EventsExpected
  <2>2. \A y \in held : CanSend(y)' => CanSend(y)
    BY <2>1, Zenon DEF CanSend
  <2> QED
    BY <1>1, <2>2, Zenon DEF UnfinishedIsRegistered, Spoilt
<1>5. (reader.at \notin {"dispatch", "notify"} => reader.events = <<>>)'
  BY <1>1, Zenon
<1>6. (reader.on \in Streams =>
         \A i \in 1..Len(reader.events) : Legal(Seen(reader.on, i), reader.events[i]))'
  <2>1. CASE reader'.on = x /\ reader'.events = raised /\ x \in Streams
    <3>1. reader'.on = x /\ reader'.events = raised
      BY <2>1, Zenon
    <3>2. \A i : Seen(x, i)' = told[x] \cup {raised[j] : j \in 1..(i - 1)}
      BY <1>1, <3>1, Zenon DEF Seen
    <3>3. \A i \in 1..Len(raised) : Legal(told[x] \cup {raised[j] : j \in 1..(i - 1)}, raised[i])
      BY <2>1, Zenon DEF InOrder
    <3>4. \A i \in 1..Len(raised) : Legal(Seen(x, i)', raised[i])
      BY <3>2, <3>3, Zenon
    <3> QED
      BY <3>1, <3>4, Zenon DEF Seen
  <2>2. CASE reader'.on = "connection"
    BY <1>2, <2>2, Zenon
  <2>3. \/ reader'.on = "connection"
        \/ reader'.on = x /\ reader'.events = raised /\ x \in Streams
    BY <1>1, Zenon
  <2> QED
    BY <2>1, <2>2, <2>3, Zenon
<1>7. ASSUME NEW y \in Streams
      PROVE  /\ stream'[y] = "idle" => Heard(y)' \subseteq {"refused"} /\ y \notin held'
             /\ PeerCanSend(y)' /\ reader'.at # "fail" =>
                  "headers" \in Heard(y)' /\ Heard(y)' \cap {"trailers", "end", "reset"} = {}
             /\ "reset" \in Heard(y)' \/ closed' => stream'[y] = "closed"
  <2>0. Heard(y) = told[y]
    BY <1>1, <1>7, NothingQueued, Zenon
  <2>1. CASE y # x
    <3>1. Heard(y)' = told[y]
      BY <1>1, <1>2, <2>1, <1>7, ShortRange, Zenon DEF Heard
    <3>2. stream'[y] = stream[y]
      BY <1>7, <2>1, Zenon
    <3>3. /\ stream[y] = "idle" => told[y] \subseteq {"refused"} /\ y \notin held
          /\ PeerCanSend(y) => "headers" \in told[y] /\ told[y] \cap {"trailers", "end", "reset"} = {}
          /\ "reset" \in told[y] => stream[y] = "closed"
      BY <1>1, <1>7, <2>0, SMT DEF EventsExpected
    <3> QED
      BY <1>1, <3>1, <3>2, <3>3, Zenon DEF PeerCanSend
  <2>2. CASE y = x
    <3>1. Heard(x)' = told[x] \/ Heard(x)' = told[x] \cup Range(raised)
      BY <1>1, <1>2, <1>7, <2>2, ShortRange, Zenon DEF Heard
    <3>2. reader'.at # "fail" => Heard(x)' = told[x] \cup Range(raised)
      BY <1>1, <1>2, <1>7, <2>2, Zenon DEF Heard
    <3>3. /\ stream'[x] = "idle" => told[x] \cup Range(raised) \subseteq {"refused"} /\ x \notin held
          /\ stream'[x] \in {"open", "local"} =>
               /\ "headers" \in told[x] \cup Range(raised)
               /\ (told[x] \cup Range(raised)) \cap {"trailers", "end", "reset"} = {}
          /\ "reset" \in told[x] \cup Range(raised) => stream'[x] = "closed"
      BY <1>7, <2>2, Zenon DEF Fits
    <3> QED
      BY <1>1, <2>2, <3>1, <3>2, <3>3, Zenon DEF PeerCanSend
  <2> QED
    BY <2>1, <2>2, Zenon
<1>8. (reader.on \in Requests /\ "refused" \in Range(reader.events) =>
         stream[reader.on] \in {"idle", "closed"})'
  BY <1>1, <1>2, Zenon DEF Fits
<1>9. EventsExpected'
  BY <1>5, <1>6, <1>7, <1>8, Zenon DEF EventsExpected
<1> QED
  BY <1>3, <1>4, <1>9, Zenon

\* A stream before a frame of it: what it has had so far.
LEMMA BeforeFrame ==
  ASSUME ServerInv, reader.at = "read", NEW x \in Streams
  PROVE  /\ stream[x] \in States
         /\ stream[x] = "idle" => told[x] \subseteq {"refused"} /\ x \notin held
         /\ PeerCanSend(x) => "headers" \in told[x] /\ told[x] \cap {"trailers", "end", "reset"} = {}
         /\ "reset" \in told[x] => stream[x] = "closed"
<1>1. Heard(x) = told[x]
  BY NothingQueued, Zenon
<1> QED
  BY <1>1, SMT DEF ServerInv, ServerTypeOK, States, EventsExpected

\* A frame that moves one stream.
LEMMA MovesInv ==
  ASSUME ServerInv, NEW x \in Streams, NEW state \in States, NEW raised \in Seq(Kinds),
         Moves(x, state, raised), InOrder(told[x], raised), Fits(x, state, raised),
         state \in {"open", "remote", "reserved"} => CanSend(x) \/ stream[x] = "idle"
  PROVE  ServerInv'
<1>1. /\ stream' \in [Streams -> States] /\ stream'[x] = state
      /\ \A y \in Streams : y # x => stream'[y] = stream[y]
      /\ credit' = credit /\ resized' = resized /\ Fed(x, raised)
  BY Zenon DEF Moves, ServerInv, ServerTypeOK, States
<1>2. /\ credit' \in [Streams \cup {"connection"} -> 0..MaxCredit] /\ resized' \in BOOLEAN
  BY <1>1, Zenon DEF ServerInv, ServerTypeOK
<1>3. CanSend(x)' => CanSend(x) \/ stream[x] = "idle"
  BY <1>1, Zenon DEF CanSend
<1> QED
  BY <1>1, <1>2, <1>3, FedInv, Zenon

\* HEADERS.
LEMMA HeadersReceived == ASSUME ServerInv, NEW x \in Requests, RecvHeaders(x) PROVE ServerInv'
<1>0. x \in Streams
  BY Zenon DEF Streams
<1>1. PICK state \in States, k \in {"none", "end", "reset"} :
        /\ \/ state = "open" /\ k = "none" /\ Moves(x, state, <<"headers">>)
           \/ state = "remote" /\ k = "end" /\ Moves(x, state, <<"headers", k>>)
           \/ state = "closed" /\ k = "reset" /\ Moves(x, state, <<"headers", k>>)
        /\ stream[x] = "idle"
  BY Zenon DEF RecvHeaders, States
<1>2. PICK raised :
        /\ Moves(x, state, raised)
        /\ IF state = "open" THEN raised = <<"headers">> ELSE raised = <<"headers", k>>
  BY <1>1, Zenon
<1>3. reader.at = "read"
  BY <1>2, Zenon DEF Moves, Fed
<1>4. told[x] \subseteq {"refused"}
  BY <1>0, <1>1, <1>3, BeforeFrame, Zenon
<1>5. raised \in Seq(Kinds)
  <2>1. "headers" \in Kinds /\ "end" \in Kinds /\ "reset" \in Kinds
    BY Zenon DEF Kinds, Callbacks, Message
  <2> QED
    BY <1>1, <1>2, <2>1, ShortSeq, Zenon
<1>6. InOrder(told[x], raised)
  <2>1. Legal(told[x], "headers")
    BY <1>4, Zenon DEF Legal
  <2>2. Legal(told[x] \cup {"headers"}, "end") /\ Legal(told[x] \cup {"headers"}, "reset")
    BY <1>4, Zenon DEF Legal
  <2> QED
    BY <1>1, <1>2, <2>1, <2>2, ShortOrder, Zenon
<1>7. Fits(x, state, raised)
  <2>0. Range(<<"headers">>) = {"headers"} /\ Range(<<"headers", k>>) = {"headers", k}
    BY ShortRange, Zenon
  <2>1. Range(raised) = IF state = "open" THEN {"headers"} ELSE {"headers", k}
    BY <1>2, <2>0, Zenon
  <2> QED
    BY <1>1, <1>4, <2>1 DEF Fits
<1> QED
  BY <1>0, <1>1, <1>2, <1>5, <1>6, <1>7, MovesInv, Zenon

\* DATA and trailers: the first event, and a second one where the message ends.
LEMMA PartReceived ==
  ASSUME ServerInv, NEW x \in Requests, RecvData(x) \/ RecvTrailers(x)
  PROVE  ServerInv'
<1>0. x \in Streams
  BY Zenon DEF Streams
<1>1. PeerCanSend(x)
  BY Zenon DEF RecvData, RecvTrailers
<1>2. RemoteEnd(x) \in {"remote", "closed"} /\ (RemoteEnd(x) = "remote" => CanSend(x))
  BY Zenon DEF RemoteEnd, CanSend
<1>3. ASSUME NEW state \in States, NEW raised, Moves(x, state, raised),
             \/ state = stream[x] /\ raised = <<"data">>
             \/ state = RemoteEnd(x) /\ raised = <<"end">>
             \/ state = RemoteEnd(x) /\ raised \in {<<"data", "end">>, <<"trailers", "end">>}
             \/ state = "closed" /\ raised \in {<<"data", "reset">>, <<"trailers", "reset">>}
      PROVE  ServerInv'
  <2>1. reader.at = "read"
    BY <1>3, Zenon DEF Moves, Fed
  <2>2. "headers" \in told[x] /\ told[x] \cap {"trailers", "end", "reset"} = {}
    BY <1>0, <1>1, <2>1, BeforeFrame, Zenon
  <2>3. raised \in Seq(Kinds)
    <3>1. /\ "data" \in Kinds /\ "end" \in Kinds /\ "reset" \in Kinds /\ "trailers" \in Kinds
      BY Zenon DEF Kinds, Callbacks, Message
    <3> QED
      BY <1>3, <3>1, ShortSeq, Zenon
  <2>4. InOrder(told[x], raised)
    <3>1. Legal(told[x], "data") /\ Legal(told[x], "trailers") /\ Legal(told[x], "end")
      BY <2>2, Zenon DEF Legal
    <3>2. /\ Legal(told[x] \cup {"data"}, "end") /\ Legal(told[x] \cup {"trailers"}, "end")
          /\ Legal(told[x] \cup {"data"}, "reset") /\ Legal(told[x] \cup {"trailers"}, "reset")
      BY <2>2, Zenon DEF Legal
    <3> QED
      BY <1>3, <3>1, <3>2, ShortOrder, Zenon
  <2>5. \/ state = stream[x] /\ Range(raised) = {"data"}
        \/ state = RemoteEnd(x) /\ Range(raised) \subseteq {"data", "trailers", "end"}
        \/ state = "closed" /\ Range(raised) \subseteq {"data", "trailers", "reset"}
    <3>1. /\ Range(<<"data">>) = {"data"} /\ Range(<<"end">>) = {"end"}
          /\ Range(<<"data", "end">>) = {"data", "end"}
          /\ Range(<<"trailers", "end">>) = {"trailers", "end"}
          /\ Range(<<"data", "reset">>) = {"data", "reset"}
          /\ Range(<<"trailers", "reset">>) = {"trailers", "reset"}
      BY ShortRange, Zenon
    <3> QED
      BY <1>3, <3>1, Zenon
  <2>6. Fits(x, state, raised)
    <3>1. PICK R : R = Range(raised)
      BY Zenon
    <3>2. CASE state = stream[x] /\ R = {"data"}
      BY <1>1, <2>2, <3>1, <3>2 DEF Fits, PeerCanSend
    <3>3. CASE state = RemoteEnd(x) /\ R \subseteq {"data", "trailers", "end"}
      BY <1>2, <2>2, <3>1, <3>3 DEF Fits
    <3>4. CASE state = "closed" /\ R \subseteq {"data", "trailers", "reset"}
      BY <2>2, <3>1, <3>4 DEF Fits
    <3> QED
      BY <2>5, <3>1, <3>2, <3>3, <3>4, Zenon
  <2>7. state \in {"open", "remote", "reserved"} => CanSend(x) \/ stream[x] = "idle"
    BY <1>2, <2>5, Zenon DEF CanSend
  <2> QED
    BY <1>0, <1>3, <2>3, <2>4, <2>6, <2>7, MovesInv, Zenon
<1>4. stream[x] \in States /\ RemoteEnd(x) \in States /\ "closed" \in States
  BY <1>0, <1>2, Zenon DEF States, ServerInv, ServerTypeOK
<1> QED
  BY <1>3, <1>4, Zenon DEF RecvData, RecvTrailers

\* A frame that a stream cannot take.
LEMMA RejectedReceived == ASSUME ServerInv, NEW x \in Streams, RecvRejected(x) PROVE ServerInv'
<1>0. /\ "data" \in Kinds /\ "refused" \in Kinds /\ "reset" \in Kinds
      /\ "idle" \in States /\ "closed" \in States
  BY Zenon DEF Kinds, Callbacks, Message, States
<1>1. CASE stream[x] = "idle" /\ Moves(x, "idle", <<"refused">>)
  <2>1. reader.at = "read"
    BY <1>1, Zenon DEF Moves, Fed
  <2>2. told[x] \subseteq {"refused"} /\ x \notin held
    BY <1>1, <2>1, BeforeFrame, Zenon
  <2>3. Legal(told[x], "refused")
    BY <2>2, Zenon DEF Legal
  <2>4. InOrder(told[x], <<"refused">>) /\ <<"refused">> \in Seq(Kinds)
    BY <1>0, <2>3, ShortOrder, ShortSeq, Zenon
  <2>5. Range(<<"refused">>) = {"refused"}
    BY ShortRange, Zenon
  <2>6. Fits(x, "idle", <<"refused">>)
    BY <2>2, <2>5 DEF Fits
  <2> QED
    BY <1>0, <1>1, <2>4, <2>6, MovesInv, Zenon
<1>2. ASSUME NEW raised \in {<<"reset">>, <<"reset", "data">>, <<"reset", "reset">>,
                             <<"reset", "data", "reset">>, <<"reset", "reset", "reset">>},
             Moves(x, "closed", raised)
      PROVE  ServerInv'
  <2>1. raised \in Seq(Kinds)
    BY <1>0, <1>2, ShortSeq, Zenon
  <2>2. \A seen : Legal(seen, "reset") /\ ("reset" \in seen => Legal(seen, "data"))
    BY Zenon DEF Legal
  <2>3. InOrder(told[x], raised)
    BY <1>2, <2>2, ShortOrder, Zenon
  <2>4. Fits(x, "closed", raised)
    BY Zenon DEF Fits
  <2> QED
    BY <1>0, <1>2, <2>1, <2>3, <2>4, MovesInv, Zenon
<1> QED
  BY <1>1, <1>2, Zenon DEF RecvRejected

\* Credit and settings move no stream.
LEMMA WindowsReceived ==
  ASSUME ServerInv, NEW x \in Streams \cup {"connection"}, NEW k \in {"window", "settings"},
         k = "settings" => x = "connection",
         Fed(x, <<k>>), UNCHANGED stream,
         credit' \in [Streams \cup {"connection"} -> 0..MaxCredit], resized' \in BOOLEAN,
         x \in Streams => Active(x)
  PROVE  ServerInv'
<1>1. k \in Kinds
  BY Zenon DEF Kinds
<1>2. <<k>> \in Seq(Kinds) /\ Range(<<k>>) = {k}
  BY <1>1, ShortSeq, ShortRange, Zenon
<1>3. ASSUME x \in Streams PROVE InOrder(told[x], <<k>>) /\ Fits(x, stream'[x], <<k>>)
  <2>1. reader.at = "read"
    BY Zenon DEF Fed
  <2>2. Legal(told[x], k)
    BY Zenon DEF Legal
  <2>3. InOrder(told[x], <<k>>)
    BY <2>2, ShortOrder, Zenon
  <2>4. /\ stream[x] # "idle"
        /\ PeerCanSend(x) => "headers" \in told[x] /\ told[x] \cap {"trailers", "end", "reset"} = {}
        /\ "reset" \in told[x] => stream[x] = "closed"
    BY <1>3, <2>1, BeforeFrame, Zenon DEF Active
  <2>5. Fits(x, stream'[x], <<k>>)
    BY <1>2, <2>4, SMT DEF Fits, PeerCanSend
  <2> QED
    BY <2>3, <2>5, Zenon
<1>4. stream' \in [Streams -> States]
  BY Zenon DEF ServerInv, ServerTypeOK, States
<1>5. x \in Streams /\ CanSend(x)' => CanSend(x)
  BY Zenon DEF CanSend
<1>6. \A y \in Streams : stream'[y] = stream[y]
  BY Zenon
<1> QED
  BY <1>2, <1>3, <1>4, <1>5, <1>6, FedInv, Zenon

\* Every frame the connection may receive.
LEMMA RecvInv == ASSUME ServerInv, Recv PROVE ServerInv'
<1>0. Requests \subseteq Streams /\ Pushes \subseteq Streams
  BY Zenon DEF Streams
<1>1. ASSUME NEW x \in Requests, RecvHeaders(x) \/ RecvTrailers(x) \/ RecvData(x) PROVE ServerInv'
  BY <1>1, HeadersReceived, PartReceived, Zenon
<1>2. ASSUME NEW x \in Streams, RecvRejected(x) PROVE ServerInv'
  BY <1>2, RejectedReceived, Zenon
<1>3. ASSUME NEW x \in Streams \cup {"connection"}, RecvWindowUpdate(x) PROVE ServerInv'
  <2>1. /\ x \in Streams => Active(x)
        /\ credit[x] < MaxCredit /\ credit' = [credit EXCEPT ![x] = @ + 1]
        /\ UNCHANGED <<stream, resized>> /\ Fed(x, <<"window">>)
    BY <1>3, Zenon DEF RecvWindowUpdate
  <2>2. credit' \in [Streams \cup {"connection"} -> 0..MaxCredit]
    BY <2>1, ServerAssumption DEF ServerInv, ServerTypeOK
  <2>3. resized' \in BOOLEAN
    BY <2>1, Zenon DEF ServerInv, ServerTypeOK
  <2> QED
    BY <1>3, <2>1, <2>2, <2>3, WindowsReceived, Zenon
<1>4. CASE RecvSettings
  <2>1. /\ resized' = TRUE
        /\ credit' = [x \in Streams \cup {"connection"} |->
             IF x # "connection" /\ credit[x] < MaxCredit THEN credit[x] + 1 ELSE credit[x]]
        /\ UNCHANGED stream /\ Fed("connection", <<"settings">>)
    BY <1>4, Zenon DEF RecvSettings
  <2>2. credit' \in [Streams \cup {"connection"} -> 0..MaxCredit]
    BY <2>1, ServerAssumption DEF ServerInv, ServerTypeOK
  <2>3. "connection" \notin Streams
    BY ServerAssumption, Zenon DEF Streams
  <2> QED
    BY <2>1, <2>2, <2>3, WindowsReceived, Zenon
<1> QED
  BY <1>0, <1>1, <1>2, <1>3, <1>4, Zenon DEF Recv

\* What dispatch finds at the head of the events of a stream, and what it leaves.
LEMMA Dispatched ==
  ASSUME ServerInv, NEW x \in Streams \cup {"connection"}, NEW k, Dispatches(x, k)
  PROVE  /\ reader.at = "dispatch" /\ reader.on = x
         /\ reader' \in ReaderRecord /\ reader'.at = "dispatch" /\ reader'.on = x
         /\ reader'.events = Tail(reader.events)
         /\ Range(reader.events) = {k} \cup Range(reader'.events)
         /\ x \in Streams =>
              Legal(told[x], k) /\ InOrder(told[x] \cup {k}, reader'.events)
<1>1. /\ reader \in ReaderRecord /\ reader.at = "dispatch" /\ reader.on = x
      /\ reader.events # <<>> /\ Head(reader.events) = k
      /\ reader' = [reader EXCEPT !.events = Tail(reader.events)]
  BY Zenon DEF Dispatches, ServerInv, ServerTypeOK
<1>2. reader.events \in Seq(Kinds)
  BY <1>1, Zenon DEF ReaderRecord, Kinds
<1>3. Tail(reader.events) \in Seq(Kinds)
  BY <1>1, <1>2, HeadAndTail, Zenon
<1>4. /\ reader' \in ReaderRecord /\ reader'.at = "dispatch" /\ reader'.on = x
      /\ reader'.events = Tail(reader.events)
  BY <1>1, <1>3, Zenon DEF ReaderRecord, Kinds
<1>5. Range(reader.events) = {k} \cup Range(reader'.events)
  BY <1>1, <1>2, <1>4, RangeOfTail, ZenonT(40)
<1>6. ASSUME x \in Streams
      PROVE  Legal(told[x], k) /\ InOrder(told[x] \cup {k}, reader'.events)
  <2>1. \A i \in 1..Len(reader.events) : Legal(Seen(x, i), reader.events[i])
    BY <1>1, <1>6, Zenon DEF ServerInv, EventsExpected
  <2>2. InOrder(told[x], reader.events)
    BY <2>1, Zenon DEF InOrder, Seen
  <2> QED
    BY <1>1, <1>2, <1>4, <2>2, OrderOfTail, Zenon
<1> QED
  BY <1>1, <1>4, <1>5, <1>6, Zenon

\* A callback for a stream: the handler has the writer afterwards, registered, unless
\* the stream is reset.
LEMMA DispatchStreamInv ==
  ASSUME ServerInv, NEW x \in Streams, NEW k \in Callbacks \cup {"window"}, Dispatches(x, k),
         told' = IF k = "window" THEN told ELSE [told EXCEPT ![x] = @ \cup {k}],
         IF k \in {"reset", "refused"} THEN writers' = writers \ {x} /\ held' = held
         ELSE writers' = writers \cup {x} /\ held' = held \cup {x},
         waiting' \subseteq waiting,
         UNCHANGED <<stream, credit, resized, left, closed, closer, broken>>
  PROVE  ServerInv'
<1> USE DEF ServerInv
<1>1. /\ reader.at = "dispatch" /\ reader.on = x
      /\ reader' \in ReaderRecord /\ reader'.at = "dispatch" /\ reader'.on = x
      /\ Range(reader.events) = {k} \cup Range(reader'.events)
      /\ InOrder(told[x] \cup {k}, reader'.events)
  BY Dispatched, Zenon
<1>2. /\ \A y \in Streams \ {x} : told'[y] = told[y]
      /\ told'[x] = IF k = "window" THEN told[x] ELSE told[x] \cup {k}
      /\ told' \in [Streams -> SUBSET Callbacks]
  <2>1. CASE k = "window"
    BY <2>1, Zenon DEF ServerTypeOK
  <2>2. CASE k # "window"
    <3>1. told[x] \cup {k} \in SUBSET Callbacks
      BY <2>2, Zenon DEF ServerTypeOK
    <3> QED
      BY <2>2, <3>1, Zenon DEF ServerTypeOK
  <2> QED
    BY <2>1, <2>2, Zenon
<1>3. /\ Heard(x) = told[x] \cup {k} \cup Range(reader'.events)
      /\ Heard(x)' = told'[x] \cup Range(reader'.events)
      /\ \A y \in Streams \ {x} : Heard(y)' = Heard(y)
  BY <1>1, <1>2, Zenon DEF Heard
<1>4. /\ Heard(x)' \subseteq Heard(x)
      /\ \A j \in Heard(x) : j # "window" => j \in Heard(x)'
      /\ k \in Heard(x)
  BY <1>2, <1>3, Zenon
<1>5. /\ stream[x] = "idle" => Heard(x) \subseteq {"refused"} /\ x \notin held
      /\ PeerCanSend(x) => "headers" \in Heard(x) /\ Heard(x) \cap {"trailers", "end", "reset"} = {}
      /\ "reset" \in Heard(x) \/ closed => stream[x] = "closed"
      /\ x \in Requests /\ "refused" \in Range(reader.events) => stream[x] \in {"idle", "closed"}
  BY <1>1, SMT DEF EventsExpected
<1>6. ServerTypeOK'
  <2>1. waiting' \subseteq held' /\ held' \subseteq Streams /\ writers' \subseteq Streams
    BY Zenon DEF ServerTypeOK
  <2> QED
    BY <1>1, <1>2, <2>1, Zenon DEF ServerTypeOK
<1>7. UnfinishedIsRegistered'
  <2>1. ASSUME ~closed, NEW y \in held', CanSend(y) PROVE y \in writers' \/ Spoilt(y)'
    <3>1. CASE y # x
      <4>1. y \in held /\ y \in Streams /\ told'[y] = told[y]
        BY <1>2, <2>1, <3>1, Zenon DEF ServerTypeOK
      <4>2. y \in writers \/ Spoilt(y)
        BY <2>1, <4>1, Zenon DEF UnfinishedIsRegistered
      <4> QED
        BY <3>1, <4>1, <4>2, Zenon DEF Spoilt
    <3>2. CASE y = x /\ k \in {"reset", "refused"}
      <4>1. k = "refused" /\ x \in Pushes
        BY <1>1, <1>4, <1>5, <2>1, <3>2, Zenon DEF CanSend, Streams
      <4> QED
        BY <1>2, <3>2, <4>1, Zenon DEF Spoilt
    <3>3. CASE y = x /\ k \notin {"reset", "refused"}
      BY <3>3, Zenon
    <3> QED
      BY <3>1, <3>2, <3>3, Zenon
  <2> QED
    BY <2>1, Zenon DEF UnfinishedIsRegistered, CanSend
<1>8. (reader.on \in Streams =>
         \A i \in 1..Len(reader.events) : Legal(Seen(reader.on, i), reader.events[i]))'
  <2>1. InOrder(told'[x], reader'.events)
    BY <1>1, <1>2, OrderWithoutWindow, Zenon
  <2>2. \A i \in 1..Len(reader'.events) : Legal(Seen(x, i)', reader'.events[i])
    BY <2>1, Zenon DEF InOrder, Seen
  <2> QED
    BY <1>1, <2>2, Zenon DEF Seen
<1>9. ASSUME NEW y \in Streams
      PROVE  /\ stream'[y] = "idle" => Heard(y)' \subseteq {"refused"} /\ y \notin held'
             /\ PeerCanSend(y)' /\ reader'.at # "fail" =>
                  "headers" \in Heard(y)' /\ Heard(y)' \cap {"trailers", "end", "reset"} = {}
             /\ "reset" \in Heard(y)' \/ closed' => stream'[y] = "closed"
  <2>1. CASE y = x
    <3>1. stream[x] = "idle" => x \notin held'
      BY <1>4, <1>5, Zenon
    <3> QED
      BY <1>4, <1>5, <2>1, <3>1, Zenon DEF PeerCanSend
  <2>2. CASE y # x
    <3>1. Heard(y)' = Heard(y) /\ (y \in held' => y \in held)
      BY <1>3, <1>9, <2>2, Zenon
    <3>2. /\ stream[y] = "idle" => Heard(y) \subseteq {"refused"} /\ y \notin held
          /\ PeerCanSend(y) => "headers" \in Heard(y) /\ Heard(y) \cap {"trailers", "end", "reset"} = {}
          /\ "reset" \in Heard(y) \/ closed => stream[y] = "closed"
      BY <1>1, <1>9, SMT DEF EventsExpected
    <3> QED
      BY <3>1, <3>2, Zenon DEF PeerCanSend
  <2> QED
    BY <2>1, <2>2, Zenon
<1>10. (reader.on \in Requests /\ "refused" \in Range(reader.events) =>
          stream[reader.on] \in {"idle", "closed"})'
  BY <1>1, <1>5, Zenon
<1>11. (reader.at \notin {"dispatch", "notify"} => reader.events = <<>>)'
  BY <1>1, Zenon
<1>12. EventsExpected'
  BY <1>8, <1>9, <1>10, <1>11, Zenon DEF EventsExpected
<1> QED
  BY <1>6, <1>7, <1>12, Zenon

\* The reader goes on, without a callback of a stream.
LEMMA ReaderMoves ==
  ASSUME ServerInv, reader' \in ReaderRecord, reader.at # "fail",
         reader'.at \notin {"dispatch", "notify"} => reader'.events = <<>>,
         \/ reader'.on = reader.on /\ reader'.events = reader.events
         \/ reader'.on = "connection" /\ reader.on = "connection"
         \/ reader'.on = "connection" /\ reader.events = <<>>,
         waiting' \subseteq waiting,
         UNCHANGED <<stream, credit, resized, left, held, told, writers, closed, closer, broken>>
  PROVE  ServerInv'
<1> USE DEF ServerInv
<1>0. "connection" \notin Streams /\ Requests \subseteq Streams
  BY ServerAssumption, Zenon DEF Streams
<1>1. ServerTypeOK'
  BY Zenon DEF ServerTypeOK
<1>2. UnfinishedIsRegistered'
  BY Zenon DEF UnfinishedIsRegistered, CanSend, Spoilt
<1>3. \A y \in Streams : Heard(y)' = Heard(y)
  <2>1. Range(<<>>) = {}
    BY ShortRange, Zenon
  <2> QED
    BY <1>0, <2>1, Zenon DEF Heard
<1>4. (reader.on \in Streams =>
         \A i \in 1..Len(reader.events) : Legal(Seen(reader.on, i), reader.events[i]))'
  <2>1. CASE reader'.on = reader.on /\ reader'.events = reader.events
    <3>1. \A x, i : Seen(x, i)' = Seen(x, i)
      BY <2>1, Zenon DEF Seen
    <3> QED
      BY <2>1, <3>1, Zenon DEF EventsExpected
  <2>2. CASE reader'.on = "connection"
    BY <1>0, <2>2, Zenon
  <2> QED
    BY <2>1, <2>2, Zenon
<1>5. ASSUME NEW y \in Streams
      PROVE  /\ stream'[y] = "idle" => Heard(y)' \subseteq {"refused"} /\ y \notin held'
             /\ PeerCanSend(y)' /\ reader'.at # "fail" =>
                  "headers" \in Heard(y)' /\ Heard(y)' \cap {"trailers", "end", "reset"} = {}
             /\ "reset" \in Heard(y)' \/ closed' => stream'[y] = "closed"
  <2>1. /\ stream[y] = "idle" => Heard(y) \subseteq {"refused"} /\ y \notin held
        /\ PeerCanSend(y) => "headers" \in Heard(y) /\ Heard(y) \cap {"trailers", "end", "reset"} = {}
        /\ "reset" \in Heard(y) \/ closed => stream[y] = "closed"
    BY <1>5, SMT DEF EventsExpected
  <2>2. Heard(y)' = Heard(y)
    BY <1>3, <1>5, Zenon
  <2> QED
    BY <2>1, <2>2, Zenon DEF PeerCanSend
<1>6. (reader.on \in Requests /\ "refused" \in Range(reader.events) =>
         stream[reader.on] \in {"idle", "closed"})'
  BY <1>0, Zenon DEF EventsExpected
<1>7. EventsExpected'
  BY <1>4, <1>5, <1>6, Zenon DEF EventsExpected
<1> QED
  BY <1>1, <1>2, <1>7, Zenon

\* The dispatch of a queued event to its handler.
LEMMA DispatchInv == ASSUME ServerInv, Dispatch PROVE ServerInv'
<1>0. reader \in ReaderRecord /\ writers \subseteq Streams
  BY Zenon DEF ServerInv, ServerTypeOK
<1>1. ASSUME NEW x \in Streams, NEW k \in Message, DispatchMessage(x, k) PROVE ServerInv'
  <2>1. k \in Callbacks /\ k \notin {"reset", "refused", "window"}
    BY <1>1, Zenon DEF Callbacks, Message
  <2> QED
    BY <1>1, <2>1, DispatchStreamInv, Zenon DEF DispatchMessage, sessionVars
<1>2. ASSUME NEW x \in Streams, DispatchWindow(x) PROVE ServerInv'
  BY <1>2, DispatchStreamInv, Zenon DEF DispatchWindow, sessionVars
<1>3. ASSUME NEW x \in Streams, NEW k \in {"reset", "refused"}, DispatchReset(x, k) PROVE ServerInv'
  <2>1. k \in Callbacks /\ k # "window"
    BY <1>3, Zenon DEF Callbacks
  <2> QED
    BY <1>3, <2>1, DispatchStreamInv, Zenon DEF DispatchReset, sessionVars
<1>4. CASE DispatchConnectionWindow
  <2>1. /\ reader.at = "dispatch" /\ reader.on = "connection" /\ reader.events # <<>>
        /\ reader' = [reader EXCEPT !.at = "notify", !.events = Tail(reader.events), !.notify = writers]
    BY <1>4, Zenon DEF DispatchConnectionWindow
  <2>2. Tail(reader.events) \in Seq(Kinds)
    BY <1>0, <2>1, HeadAndTail, Zenon DEF ReaderRecord, Kinds
  <2>3. reader' \in ReaderRecord /\ reader'.at = "notify" /\ reader'.on = "connection"
    BY <1>0, <2>1, <2>2, Zenon DEF ReaderRecord, Kinds
  <2> QED
    BY <1>4, <2>1, <2>3, ReaderMoves, Zenon DEF DispatchConnectionWindow, sessionVars, appVars
<1>5. CASE Notify
  <2>1. /\ reader.at = "notify" /\ waiting' \subseteq waiting
        /\ \/ reader' = [reader EXCEPT !.at = "dispatch"]
           \/ \E x \in reader.notify : reader' = [reader EXCEPT !.notify = @ \ {x}]
    BY <1>5, Zenon DEF Notify
  <2>2. /\ reader' \in ReaderRecord /\ reader'.on = reader.on /\ reader'.events = reader.events
        /\ reader'.at \in {"dispatch", "notify"}
    <3>1. CASE reader' = [reader EXCEPT !.at = "dispatch"]
      BY <1>0, <3>1, Zenon DEF ReaderRecord
    <3>2. ASSUME NEW x \in reader.notify, reader' = [reader EXCEPT !.notify = @ \ {x}]
          PROVE  /\ reader' \in ReaderRecord /\ reader'.on = reader.on /\ reader'.events = reader.events
                 /\ reader'.at \in {"dispatch", "notify"}
      BY <1>0, <2>1, <3>2, Zenon DEF ReaderRecord
    <3> QED
      BY <2>1, <3>1, <3>2, Zenon
  <2> QED
    BY <1>5, <2>1, <2>2, ReaderMoves, Zenon DEF Notify, sessionVars
<1>6. CASE DispatchOther
  <2>1. CASE Dispatches("connection", "settings")
    <3>1. /\ reader.at = "dispatch" /\ reader.on = "connection"
          /\ reader' \in ReaderRecord /\ reader'.at = "dispatch" /\ reader'.on = "connection"
      BY <2>1, Dispatched, Zenon
    <3> QED
      BY <1>6, <3>1, ReaderMoves, Zenon DEF DispatchOther, sessionVars, appVars
  <2>2. CASE reader.at = "dispatch" /\ reader.events = <<>> /\ reader' = Quiet("read")
    <3>1. <<>> \in Seq(Kinds)
      BY ShortSeq
    <3>2. reader' \in ReaderRecord /\ reader'.on = "connection" /\ reader'.events = <<>>
      BY <2>2, <3>1, Zenon DEF Quiet, ReaderRecord, Kinds
    <3> QED
      BY <1>6, <2>2, <3>2, ReaderMoves, Zenon DEF DispatchOther, sessionVars, appVars
  <2> QED
    BY <1>6, <2>1, <2>2, Zenon DEF DispatchOther
<1> QED
  BY <1>1, <1>2, <1>3, <1>4, <1>5, <1>6, Zenon DEF Dispatch

\* The connection fails: once it is closed, all its streams are.
LEMMA FailInv == ASSUME ServerInv, ServeFails PROVE ServerInv'
<1> USE DEF ServerInv
<1>1. /\ reader.at \in {"read", "fail"} /\ reader' = Quiet("exit") /\ closed' = TRUE
      /\ waiting' \subseteq waiting
      /\ UNCHANGED <<credit, resized, left, held, told, writers, closer, broken>>
  BY Zenon DEF ServeFails, CloseSession, sessionVars, appVars
<1>2. stream' \in [Streams -> States] /\ \A x \in Streams : stream'[x] = "closed"
  <2>1. CASE closed
    <3>1. stream' = stream /\ \A x \in Streams : stream[x] = "closed"
      BY <2>1, Zenon DEF ServeFails, sessionVars, EventsExpected
    <3> QED
      BY <3>1, Zenon DEF ServerTypeOK, States
  <2>2. CASE ~closed
    <3>1. stream' = [x \in Streams |-> "closed"]
      BY <2>2, Zenon DEF ServeFails, CloseSession
    <3> QED
      BY <3>1, Zenon DEF States
  <2> QED
    BY <2>1, <2>2, Zenon
<1>3. /\ reader' \in ReaderRecord
      /\ reader'.at = "exit" /\ reader'.on = "connection" /\ reader'.events = <<>>
  <2>1. <<>> \in Seq(Kinds)
    BY ShortSeq
  <2> QED
    BY <1>1, <2>1, Zenon DEF Quiet, ReaderRecord, Kinds
<1>4. ServerTypeOK'
  BY <1>1, <1>2, <1>3, Zenon DEF ServerTypeOK, States
<1>5. UnfinishedIsRegistered'
  BY <1>1, Zenon DEF UnfinishedIsRegistered
<1>6. EventsExpected'
  <2>1. "connection" \notin Streams /\ "connection" \notin Requests
    BY ServerAssumption, Zenon DEF Streams
  <2> QED
    BY <1>2, <1>3, <2>1, Zenon DEF EventsExpected, PeerCanSend
<1> QED
  BY <1>4, <1>5, <1>6, Zenon

\* Close, up to its unlock and after it.
LEMMA CloseInv == ASSUME ServerInv, CloseLocked \/ CloseStream PROVE ServerInv'
<1> USE DEF ServerInv
<1>1. /\ UNCHANGED <<credit, resized, left, held, told, writers, reader>>
      /\ waiting' \subseteq waiting
      /\ \/ closed' = closed /\ stream' = stream
         \/ closed' = TRUE /\ stream' = [x \in Streams |-> "closed"]
  <2>1. CASE CloseLocked
    BY <2>1, Zenon DEF CloseLocked, CloseSession, ServerTypeOK, sessionVars, appVars
  <2>2. CASE CloseStream
    BY <2>2, Zenon DEF CloseStream, ServerTypeOK, sessionVars, appVars
  <2> QED
    BY <2>1, <2>2, Zenon
<1>2. /\ closer' \in {"idle", "closing", "returned"}
      /\ closed' \in BOOLEAN /\ broken' \in BOOLEAN
  BY Zenon DEF CloseLocked, CloseStream, ServerTypeOK, Flush
<1>3. ServerTypeOK'
  <2>1. stream' \in [Streams -> States]
    BY <1>1, Zenon DEF ServerTypeOK, States
  <2> QED
    BY <1>1, <1>2, <2>1, Zenon DEF ServerTypeOK, States
<1>4. UnfinishedIsRegistered'
  <2>1. CASE closed'
    BY <2>1, Zenon DEF UnfinishedIsRegistered
  <2>2. CASE ~closed'
    <3>1. ~closed /\ UNCHANGED <<stream, held, told, writers>>
      BY <1>1, <2>2, SMT
    <3> QED
      BY <3>1, Zenon DEF UnfinishedIsRegistered, CanSend, Spoilt
  <2> QED
    BY <2>1, <2>2, Zenon
<1>5. EventsExpected'
  <2>1. \A x \in Streams :
          /\ stream'[x] = "idle" => stream[x] = "idle"
          /\ stream[x] = "closed" => stream'[x] = "closed"
          /\ stream[x] = "idle" => stream'[x] \in {"idle", "closed"}
          /\ PeerCanSend(x)' => PeerCanSend(x)
          /\ closed' => closed \/ stream'[x] = "closed"
    BY <1>1, Zenon DEF PeerCanSend
  <2> QED
    BY <1>1, <2>1, StreamsMove, Zenon
<1> QED
  BY <1>3, <1>4, <1>5, Zenon

\* Every step of the connection preserves the invariant.
LEMMA NextInv == ServerInv /\ [Next]_vars => ServerInv'
<1> SUFFICES ASSUME ServerInv, [Next]_vars PROVE ServerInv'
  BY Zenon
<1>1. ASSUME NEW x \in Streams, NEW end \in BOOLEAN, Headers(x, end) PROVE ServerInv'
  BY <1>1, HeadersInv, Zenon
<1>2. ASSUME NEW x \in Streams, Write(x) PROVE ServerInv'
  BY <1>2, WriteInv, Zenon
<1>3. ASSUME NEW x \in Streams,
             Reset(x) \/ (\E p \in Pushes : PushPromise(x, p)) \/ PriorityUpdate(x)
      PROVE  ServerInv'
  BY <1>3, WriterInv, Zenon
<1>4. CASE Recv
  BY <1>4, RecvInv, Zenon
<1>5. CASE Dispatch
  BY <1>5, DispatchInv, Zenon
<1>6. CASE ServeFails
  BY <1>6, FailInv, Zenon
<1>7. CASE CloseLocked \/ CloseStream
  BY <1>7, CloseInv, Zenon
<1>8. CASE UNCHANGED vars
  <2>1. ServerTypeOK'
    BY <1>8, Zenon DEF vars, sessionVars, appVars, ServerInv, ServerTypeOK
  <2>2. UnfinishedIsRegistered'
    BY <1>8, Zenon DEF vars, sessionVars, appVars, ServerInv, UnfinishedIsRegistered, CanSend, Spoilt
  <2>3. EventsExpected'
    BY <1>8, StreamsMove, Zenon DEF vars, sessionVars, appVars, PeerCanSend, ServerInv
  <2> QED
    BY <2>1, <2>2, <2>3, Zenon DEF ServerInv
<1> QED
  BY <1>1, <1>2, <1>3, <1>4, <1>5, <1>6, <1>7, <1>8, Zenon DEF Next

\* For any number of streams: an unfinished response is registered for Writable,
\* whatever the application, the peer and Close do meanwhile, and what Serve has yet
\* to dispatch of a stream continues the message the handler has had of it.
THEOREM ServerCorrect == Spec => []ServerInv
  BY InitInv, NextInv, PTL DEF Spec

-----------------------------------------------------------------------------
(* The order of callbacks                                                  *)

\* The handler gets the callbacks of every stream in the order of a message: a
\* Headers first, no Data or trailers after an End, one End at most, and after a
\* Reset nothing but the Data of rejected frames.
THEOREM CallbacksInOrder == Spec => HandlerOrder
<1>1. ServerInv /\ [Next]_vars =>
        [\A x \in Streams, kind \in Message :
           DispatchMessage(x, kind) => Legal(told[x], kind)]_vars
  BY Dispatched, Zenon DEF DispatchMessage
<1> QED
  BY <1>1, ServerCorrect, PTL DEF Spec, HandlerOrder

-----------------------------------------------------------------------------
(* The pool                                                                *)

\* A call that returns keeps its type and owns nothing.
LEMMA ReturnType ==
  ASSUME PoolTypeOK, NEW c \in Callers, NEW outcome \in {"response", "error", "rejected", "turnedaway"},
         Return(c, outcome)
  PROVE  /\ call' \in [Callers -> CallRecord]
         /\ \A d \in Callers : d # c => call'[d] = call[d]
         /\ call'[c].at = outcome /\ call'[c].attempt = call[c].attempt
<1>1. call'[c] = [call[c] EXCEPT !.at = outcome, !.conn = None, !.own = None]
  BY Zenon DEF Return, PoolTypeOK
<1>2. \A d \in Callers : d # c => call'[d] = call[d]
  BY Zenon DEF Return, PoolTypeOK
<1>3. call'[c] \in CallRecord
  BY <1>1, ZenonT(40) DEF PoolTypeOK, CallRecord, CallRecord
<1> QED
  BY <1>1, <1>2, <1>3 DEF PoolTypeOK, CallRecord, CallRecord, Return

\* Steps of a call that owns nothing leave the connections of the others apart.
LEMMA ApartKept ==
  ASSUME PoolTypeOK, OwnedApart, NEW c \in Callers,
         \A d \in Callers : d # c => call'[d] = call[d],
         ~Owns(c)', UNCHANGED <<conn, transports, poolClosed>>, current' \in {current, None}
  PROVE  OwnedApart'
<1>1. 0 \notin Conns
  BY DEF Conns
<1> QED
  BY <1>1 DEF OwnedApart, Owns, At, None

\* Initially nothing is dialed and no call has begun.
LEMMA PoolInitInv == PoolInit => PoolInv
<1> SUFFICES ASSUME PoolInit PROVE PoolInv
  BY Zenon
<1> USE DEF PoolInit, None
<1>1. PoolTypeOK
  <2>1. 0 \in 0 .. MaxRetries
    BY PoolAssumption
  <2> QED
    BY <2>1, Zenon DEF PoolTypeOK, CallRecord
<1>2. CurrentIsRegistered /\ RetriesUsedUp
  BY Zenon DEF CurrentIsRegistered, RetriesUsedUp, At
<1>3. Accounted
  BY DEF Accounted
<1>4. OwnedApart
  BY Zenon DEF OwnedApart, Owns
<1>5. ClosedEmpty
  BY Zenon DEF ClosedEmpty
<1> QED
  BY <1>1, <1>2, <1>3, <1>4, <1>5, Zenon DEF PoolInv

\* What a step of the pool does to each conjunct, action by action.
LEMMA PoolNextInv == PoolInv /\ [PoolNext]_poolVars => PoolInv'
<1> SUFFICES ASSUME PoolInv, [PoolNext]_poolVars PROVE PoolInv'
  BY Zenon
<1> USE PoolAssumption DEF PoolInv, None
<1>0. 0 \notin Conns
  BY DEF Conns
<1>1. ASSUME NEW c \in Callers, Acquire(c), At(c, "start") \/ At(c, "retry")
      PROVE  PoolInv'
  <2>1. PoolTypeOK'
    BY <1>1 DEF Acquire, Return, PoolTypeOK, CallRecord, At
  <2>2. CurrentIsRegistered'
    BY <1>1, Zenon DEF Acquire, Return, PoolTypeOK, CallRecord, CurrentIsRegistered, ClosedEmpty, At
  <2>6. RetriesUsedUp'
    BY <1>1 DEF Acquire, Return, PoolTypeOK, CallRecord, RetriesUsedUp, At
  <2>3. Accounted'
    BY <1>1 DEF Acquire, Return, PoolTypeOK, CallRecord, Accounted, At
  <2>4. OwnedApart'
    <3>1. \A d \in Callers : d # c => call'[d] = call[d]
      BY <1>1, Zenon DEF Acquire, Return, PoolTypeOK
    <3>2. ~Owns(c)'
      BY <1>1 DEF Acquire, Return, PoolTypeOK, CallRecord, Owns
    <3> QED
      BY <1>1, <3>1, <3>2, ApartKept, Zenon DEF Acquire
  <2>5. ClosedEmpty'
    BY <1>1, Zenon DEF Acquire, Return, PoolTypeOK, CallRecord, ClosedEmpty, OwnedApart, Owns, At
  <2> QED
    BY <2>1, <2>2, <2>3, <2>4, <2>5, <2>6, Zenon
<1>2. ASSUME NEW c \in Callers, Dial(c)
      PROVE  PoolInv'
  <2>0. \/ \E t \in Conns :
             /\ conn[t] = "unused"
             /\ conn' = [conn EXCEPT ![t] = "open"]
             /\ call' = [call EXCEPT ![c].at = "register", ![c].own = t]
        \/ Return(c, "error") /\ UNCHANGED conn
    BY <1>2, Zenon DEF Dial
  <2>1. PoolTypeOK'
    BY <1>2, <2>0, SMTT(30) DEF Dial, Return, PoolTypeOK, CallRecord, At
  <2>2. CurrentIsRegistered'
    BY <1>2, <2>0, Zenon DEF Dial, Return, PoolTypeOK, CallRecord, CurrentIsRegistered, ClosedEmpty, At
  <2>6. RetriesUsedUp'
    BY <1>2, <2>0 DEF Dial, Return, PoolTypeOK, CallRecord, RetriesUsedUp, At
  <2>3. Accounted'
    BY <1>2, <2>0, SMTT(30) DEF Dial, Return, PoolTypeOK, CallRecord, Accounted, At
  <2>4. OwnedApart'
    <3>1. CASE Return(c, "error") /\ UNCHANGED conn
      BY <1>2, <3>1, ReturnType, ApartKept, Zenon DEF Dial, Owns
    <3>2. ASSUME NEW t \in Conns, conn[t] = "unused", conn' = [conn EXCEPT ![t] = "open"],
                 call' = [call EXCEPT ![c].at = "register", ![c].own = t]
          PROVE  OwnedApart'
      <4>1. \A d \in Callers : d # c => call'[d] = call[d]
        BY <3>2, Zenon DEF PoolTypeOK
      <4>2. At(c, "register")' /\ call'[c].own = t
        BY <3>2 DEF PoolTypeOK, CallRecord, At
      <4>3. t \notin transports /\ t # current
        BY <1>0, <3>2, Zenon DEF ClosedEmpty, CurrentIsRegistered
      <4>4. \A d \in Callers : d # c /\ Owns(d) => call[d].own # t
        BY <3>2, Zenon DEF OwnedApart
      <4>5. \A u \in Conns : conn'[u] = IF u = t THEN "open" ELSE conn[u]
        BY <3>2, Zenon DEF PoolTypeOK
      <4>6. UNCHANGED <<current, transports, poolClosed>>
        BY <1>2, Zenon DEF Dial
      <4> SUFFICES ASSUME NEW e \in Callers, Owns(e)'
                   PROVE  /\ call'[e].own \in Conns
                          /\ conn'[call'[e].own] # "unused"
                          /\ call'[e].own # current
                          /\ At(e, "register")' /\ ~poolClosed =>
                               call'[e].own \notin transports /\ conn'[call'[e].own] # "closed"
                          /\ \A d \in Callers : Owns(d)' /\ d # e => call'[d].own # call'[e].own
        BY <4>6, Zenon DEF OwnedApart
      <4>7. CASE e = c
        BY <4>1, <4>2, <4>3, <4>4, <4>5, <4>7, Zenon DEF Owns
      <4>8. CASE e # c
        <5>1. Owns(e) /\ call'[e] = call[e]
          BY <4>1, <4>8, Zenon DEF Owns
        <5>2. \A d \in Callers : Owns(d)' /\ d # e => call'[d].own # call[e].own
          BY <4>1, <4>2, <4>4, <4>8, <5>1 DEF OwnedApart, Owns
        <5> QED
          BY <4>5, <5>1, <5>2, Zenon DEF OwnedApart, At
      <4> QED
        BY <4>7, <4>8, Zenon
    <3> QED
      BY <2>0, <3>1, <3>2, Zenon
  <2>5. ClosedEmpty'
    BY <1>2, <2>0, Zenon DEF Dial, Return, PoolTypeOK, CallRecord, ClosedEmpty, OwnedApart, Owns, At
  <2> QED
    BY <2>1, <2>2, <2>3, <2>4, <2>5, <2>6, Zenon
<1>3. ASSUME NEW c \in Callers, Register(c)
      PROVE  PoolInv'
  <2>1. PoolTypeOK'
    BY <1>3, SMTT(30) DEF Register, Goto, PoolTypeOK, CallRecord, At, OwnedApart, Owns
  <2>2. CurrentIsRegistered'
    BY <1>3 DEF Register, Goto, PoolTypeOK, CallRecord, CurrentIsRegistered, ClosedEmpty, At, OwnedApart, Owns
  <2>6. RetriesUsedUp'
    BY <1>3 DEF Register, Goto, PoolTypeOK, CallRecord, RetriesUsedUp, At
  <2>3. Accounted'
    BY <1>3 DEF Register, Goto, PoolTypeOK, CallRecord, Accounted, At
  <2>4. OwnedApart'
    BY <1>3, SMTT(60) DEF Register, Goto, PoolTypeOK, CallRecord, CurrentIsRegistered, OwnedApart, Owns, At, ClosedEmpty
  <2>5. ClosedEmpty'
    BY <1>3 DEF Register, Goto, PoolTypeOK, CallRecord, ClosedEmpty, OwnedApart, Owns, At
  <2> QED
    BY <2>1, <2>2, <2>3, <2>4, <2>5, <2>6, Zenon
<1>4. ASSUME NEW c \in Callers, CloseOwn(c)
      PROVE  PoolInv'
  <2>1. PoolTypeOK'
    BY <1>4 DEF CloseOwn, Return, Goto, PoolTypeOK, CallRecord, At, OwnedApart, Owns
  <2>2. CurrentIsRegistered'
    BY <1>4, Zenon DEF CloseOwn, Return, Goto, PoolTypeOK, CallRecord, CurrentIsRegistered, ClosedEmpty, At, OwnedApart, Owns
  <2>6. RetriesUsedUp'
    BY <1>4, SMTT(30) DEF CloseOwn, Return, Goto, PoolTypeOK, CallRecord, RetriesUsedUp, At
  <2>3. Accounted'
    BY <1>4 DEF CloseOwn, Return, Goto, PoolTypeOK, CallRecord, Accounted, At
  <2>4. OwnedApart'
    BY <1>4, SMTT(30) DEF CloseOwn, Return, Goto, PoolTypeOK, CallRecord, CurrentIsRegistered, OwnedApart, Owns, At, ClosedEmpty
  <2>5. ClosedEmpty'
    BY <1>4, Zenon DEF CloseOwn, Return, Goto, PoolTypeOK, CallRecord, ClosedEmpty, OwnedApart, Owns, At
  <2> QED
    BY <2>1, <2>2, <2>3, <2>4, <2>5, <2>6, Zenon
<1>5. ASSUME NEW c \in Callers, Use(c)
      PROVE  PoolInv'
  <2>1. PoolTypeOK'
    BY <1>5, SMTT(30) DEF Use, Return, Goto, PoolTypeOK, CallRecord, At
  <2>2. CurrentIsRegistered'
    BY <1>5, Zenon DEF Use, Return, Goto, PoolTypeOK, CallRecord, CurrentIsRegistered, ClosedEmpty, At
  <2>6. RetriesUsedUp'
    BY <1>5, SMTT(30) DEF Use, Return, Goto, PoolTypeOK, CallRecord, RetriesUsedUp, At
  <2>3. Accounted'
    BY <1>5 DEF Use, Return, Goto, PoolTypeOK, CallRecord, Accounted, At
  <2>4. OwnedApart'
    BY <1>5, SMTT(30) DEF Use, Return, Goto, PoolTypeOK, CallRecord, CurrentIsRegistered, OwnedApart, Owns, At, ClosedEmpty
  <2>5. ClosedEmpty'
    BY <1>5, Zenon DEF Use, Return, Goto, PoolTypeOK, CallRecord, ClosedEmpty, OwnedApart, Owns, At
  <2> QED
    BY <2>1, <2>2, <2>3, <2>4, <2>5, <2>6, Zenon
<1>6. ASSUME NEW c \in Callers, Respond(c)
      PROVE  PoolInv'
  <2>1. PoolTypeOK'
    BY <1>6 DEF Respond, Return, Goto, PoolTypeOK, CallRecord, At
  <2>2. CurrentIsRegistered'
    BY <1>6, Zenon DEF Respond, Return, Goto, PoolTypeOK, CallRecord, CurrentIsRegistered, ClosedEmpty, At
  <2>6. RetriesUsedUp'
    BY <1>6 DEF Respond, Return, Goto, PoolTypeOK, CallRecord, RetriesUsedUp, At
  <2>3. Accounted'
    BY <1>6 DEF Respond, Return, Goto, PoolTypeOK, CallRecord, Accounted, At
  <2>4. OwnedApart'
    BY <1>6, SMTT(30) DEF Respond, Return, Goto, PoolTypeOK, CallRecord, CurrentIsRegistered, OwnedApart, Owns, At, ClosedEmpty
  <2>5. ClosedEmpty'
    BY <1>6, Zenon DEF Respond, Return, Goto, PoolTypeOK, CallRecord, ClosedEmpty, OwnedApart, Owns, At
  <2> QED
    BY <2>1, <2>2, <2>3, <2>4, <2>5, <2>6, Zenon
<1>7. ASSUME NEW c \in Callers, Reject(c)
      PROVE  PoolInv'
  <2>1. PoolTypeOK'
    BY <1>7, SMTT(30) DEF Reject, Return, Goto, PoolTypeOK, CallRecord, At
  <2>2. CurrentIsRegistered'
    BY <1>7, Zenon DEF Reject, Return, Goto, PoolTypeOK, CallRecord, CurrentIsRegistered, ClosedEmpty, At
  <2>6. RetriesUsedUp'
    BY <1>7 DEF Reject, Return, Goto, PoolTypeOK, CallRecord, RetriesUsedUp, At
  <2>3. Accounted'
    BY <1>7 DEF Reject, Return, Goto, PoolTypeOK, CallRecord, Accounted, At
  <2>4. OwnedApart'
    BY <1>7, SMTT(30) DEF Reject, Return, Goto, PoolTypeOK, CallRecord, CurrentIsRegistered, OwnedApart, Owns, At, ClosedEmpty
  <2>5. ClosedEmpty'
    BY <1>7, Zenon DEF Reject, Return, Goto, PoolTypeOK, CallRecord, ClosedEmpty, OwnedApart, Owns, At
  <2> QED
    BY <2>1, <2>2, <2>3, <2>4, <2>5, <2>6, Zenon
<1>8. ASSUME NEW c \in Callers, Answer(c)
      PROVE  PoolInv'
  <2>1. PoolTypeOK'
    BY <1>8, ReturnType, Zenon DEF Answer, PoolTypeOK
  <2>2. CurrentIsRegistered'
    BY <1>8, Zenon DEF Answer, Return, PoolTypeOK, CallRecord, CurrentIsRegistered, ClosedEmpty, At
  <2>6. RetriesUsedUp'
    BY <1>8 DEF Answer, Return, PoolTypeOK, CallRecord, RetriesUsedUp, At
  <2>3. Accounted'
    BY <1>8 DEF Answer, Return, PoolTypeOK, CallRecord, Accounted, At
  <2>4. OwnedApart'
    BY <1>8 DEF Answer, Return, PoolTypeOK, CallRecord, CurrentIsRegistered, OwnedApart, Owns, At, ClosedEmpty
  <2>5. ClosedEmpty'
    BY <1>8, Zenon DEF Answer, Return, PoolTypeOK, CallRecord, ClosedEmpty, OwnedApart, Owns, At
  <2> QED
    BY <2>1, <2>2, <2>3, <2>4, <2>5, <2>6, Zenon
<1>9. ASSUME NEW c \in Callers, Retry(c)
      PROVE  PoolInv'
  <2>1. PoolTypeOK'
    BY <1>9, SMTT(30) DEF Retry, MayRetry, Return, PoolTypeOK, CallRecord, At
  <2>2. CurrentIsRegistered'
    BY <1>9, Zenon DEF Retry, MayRetry, Return, PoolTypeOK, CallRecord, CurrentIsRegistered, ClosedEmpty, At
  <2>6. RetriesUsedUp'
    <3>1. \A d \in Callers : d # c => call'[d] = call[d]
      BY <1>9, Zenon DEF Retry, Return, PoolTypeOK, CallRecord
    <3>2. At(c, "rejected")' => ~MayRetry(c) /\ call'[c].attempt = call[c].attempt
      BY <1>9 DEF Retry, Return, PoolTypeOK, CallRecord, At
    <3>3. call[c].attempt \in 0 .. MaxRetries
      BY <1>9, Zenon DEF PoolTypeOK, CallRecord
    <3> QED
      BY <3>1, <3>2, <3>3 DEF RetriesUsedUp, At, MayRetry
  <2>3. Accounted'
    BY <1>9 DEF Retry, MayRetry, Return, PoolTypeOK, CallRecord, Accounted, At
  <2>4. OwnedApart'
    <3>1. \A d \in Callers : d # c => call'[d] = call[d]
      BY <1>9, Zenon DEF Retry, Return, PoolTypeOK
    <3>2. ~Owns(c)'
      BY <1>9 DEF Retry, Return, PoolTypeOK, CallRecord, Owns
    <3> QED
      BY <1>9, <3>1, <3>2, ApartKept, Zenon DEF Retry
  <2>5. ClosedEmpty'
    BY <1>9, Zenon DEF Retry, MayRetry, Return, PoolTypeOK, CallRecord, ClosedEmpty, OwnedApart, Owns, At
  <2> QED
    BY <2>1, <2>2, <2>3, <2>4, <2>5, <2>6, Zenon
<1>10. CASE Close
  <2>1. PoolTypeOK'
    BY <1>10, Zenon DEF Close, PoolTypeOK, CallRecord, At
  <2>2. CurrentIsRegistered'
    BY <1>10, Zenon DEF Close, PoolTypeOK, CallRecord, CurrentIsRegistered, ClosedEmpty, At
  <2>6. RetriesUsedUp'
    BY <1>10, Zenon DEF Close, PoolTypeOK, CallRecord, RetriesUsedUp, At
  <2>3. Accounted'
    BY <1>10, Zenon DEF Close, PoolTypeOK, CallRecord, Accounted, At
  <2>4. OwnedApart'
    BY <1>10, <1>0, Zenon DEF Close, PoolTypeOK, CallRecord, CurrentIsRegistered, OwnedApart, Owns, At, ClosedEmpty
  <2>5. ClosedEmpty'
    BY <1>10, Zenon DEF Close, PoolTypeOK, CallRecord, ClosedEmpty, OwnedApart, Owns, At
  <2> QED
    BY <2>1, <2>2, <2>3, <2>4, <2>5, <2>6, Zenon
<1>11. CASE CloseNext
  <2>1. PoolTypeOK'
    BY <1>11, Zenon DEF CloseNext, PoolTypeOK, CallRecord, At
  <2>2. CurrentIsRegistered'
    BY <1>11, Zenon DEF CloseNext, PoolTypeOK, CallRecord, CurrentIsRegistered, ClosedEmpty, At
  <2>6. RetriesUsedUp'
    BY <1>11, Zenon DEF CloseNext, PoolTypeOK, CallRecord, RetriesUsedUp, At
  <2>3. Accounted'
    BY <1>11, Zenon DEF CloseNext, PoolTypeOK, CallRecord, Accounted, At
  <2>4. OwnedApart'
    BY <1>11, Zenon DEF CloseNext, PoolTypeOK, CallRecord, CurrentIsRegistered, OwnedApart, Owns, At, ClosedEmpty
  <2>5. ClosedEmpty'
    BY <1>11, Zenon DEF CloseNext, PoolTypeOK, CallRecord, ClosedEmpty, OwnedApart, Owns, At
  <2> QED
    BY <2>1, <2>2, <2>3, <2>4, <2>5, <2>6, Zenon
<1>12. CASE PeerStep
  <2>1. PoolTypeOK'
    BY <1>12, Zenon DEF PeerStep, Working, PoolTypeOK, CallRecord, At
  <2>2. CurrentIsRegistered'
    BY <1>12, Zenon DEF PeerStep, Working, PoolTypeOK, CallRecord, CurrentIsRegistered, ClosedEmpty, At
  <2>6. RetriesUsedUp'
    BY <1>12, Zenon DEF PeerStep, Working, PoolTypeOK, CallRecord, RetriesUsedUp, At
  <2>3. Accounted'
    BY <1>12, Zenon DEF PeerStep, Working, PoolTypeOK, CallRecord, Accounted, At
  <2>4. OwnedApart'
    BY <1>12 DEF PeerStep, Working, PoolTypeOK, CallRecord, CurrentIsRegistered, OwnedApart, Owns, At, ClosedEmpty
  <2>5. ClosedEmpty'
    BY <1>12, Zenon DEF PeerStep, Working, PoolTypeOK, CallRecord, ClosedEmpty, OwnedApart, Owns, At
  <2> QED
    BY <2>1, <2>2, <2>3, <2>4, <2>5, <2>6, Zenon
<1>13. CASE UNCHANGED poolVars
  BY <1>13, Zenon DEF poolVars, PoolTypeOK, CallRecord, CurrentIsRegistered, RetriesUsedUp, Accounted, OwnedApart, Owns,
     ClosedEmpty, At
<1> QED
  BY <1>1, <1>2, <1>3, <1>4, <1>5, <1>6, <1>7, <1>8, <1>9, <1>10, <1>11, <1>12, <1>13, Zenon DEF PoolNext, Begin, Again, Step

\* PoolInv is inductive: the connection that calls share is registered and not
\* closed by the pool, connections that lose a race are closed by the call that
\* dialed them only, and what the transport reports as rejected is retried.
THEOREM PoolCorrect == PoolSpec => []PoolInv
  BY PoolInitInv, PoolNextInv, PTL DEF PoolSpec

\* However often a call is retried, the peer processes it at most once.
THEOREM ProcessedOnce == PoolSpec => []AtMostOnce
<1>1. PoolInv => AtMostOnce
  BY DEF PoolInv, Accounted, AtMostOnce, At
<1> QED
  BY <1>1, PoolCorrect, PTL

-----------------------------------------------------------------------------
(* Refinement of Calls                                                     *)

Statuses == [c \in Callers |-> Status(c)]

Served == {c \in Callers : processed[c] > 0}

\* A step that moves one call changes the status of this call only.
LEMMA StatusMoves ==
  ASSUME PoolTypeOK, NEW c \in Callers,
         \A d \in Callers : d # c => call'[d] = call[d]
  PROVE  Statuses' = [Statuses EXCEPT ![c] = Status(c)']
<1>1. \A d \in Callers : d # c => Status(d)' = Status(d)
  BY Zenon DEF Status, At
<1> QED
  BY <1>1, Zenon DEF Statuses

\* Initially all calls are idle and nothing is served.
LEMMA CallsInitially == PoolInit => Abstract!CallsInit
<1> SUFFICES ASSUME PoolInit PROVE Abstract!CallsInit
  BY Zenon
<1>1. \A c \in Callers : Status(c) = "idle"
  BY Zenon DEF PoolInit, Status, At
<1> QED
  BY <1>1 DEF PoolInit, Abstract!CallsInit

CallsStep == [Abstract!CallsNext]_(Abstract!callsVars)

\* A step of one call that the peer does not see is a step of Calls, if its status
\* moves in one of the ways that Calls allows.
LEMMA CallMoves ==
  ASSUME PoolTypeOK, NEW c \in Callers,
         \A d \in Callers : d # c => call'[d] = call[d],
         UNCHANGED <<processed, poolClosed>>,
         \/ Status(c)' = Status(c)
         \/ Status(c) = "idle" /\ Status(c)' = "busy" /\ ~poolClosed
         \/ Status(c) \in {"idle", "busy"} /\ Status(c)' = "error"
         \/ Status(c) = "busy" /\ Status(c)' = "response" /\ c \in Served
  PROVE  CallsStep
<1>1. Statuses' = [Statuses EXCEPT ![c] = Status(c)']
  BY StatusMoves, Zenon
<1>2. Served' = Served
  BY Zenon DEF Served
<1>3. Statuses[c] = Status(c)
  BY Zenon DEF Statuses
<1>4. CASE Status(c)' = Status(c)
  <2>1. Statuses' = Statuses
    BY <1>1, <1>4, Zenon DEF Statuses
  <2> QED
    BY <1>2, <2>1, Zenon DEF CallsStep, Abstract!callsVars, Statuses, Served
<1>5. CASE Status(c) = "idle" /\ Status(c)' = "busy" /\ ~poolClosed
  <2>1. Abstract!Begin(c)
    BY <1>1, <1>2, <1>3, <1>5, Zenon DEF Abstract!Begin, Statuses, Served
  <2> QED
    BY <2>1, Zenon DEF CallsStep, Abstract!CallsNext
<1>6. CASE Status(c) = "idle" /\ Status(c)' = "error"
  <2>1. Abstract!Refuse(c)
    BY <1>1, <1>2, <1>3, <1>6, Zenon DEF Abstract!Refuse, Statuses, Served
  <2> QED
    BY <2>1, Zenon DEF CallsStep, Abstract!CallsNext
<1>7. CASE Status(c) = "busy" /\ Status(c)' = "error"
  <2>1. Abstract!Abort(c)
    BY <1>1, <1>2, <1>3, <1>7, Zenon DEF Abstract!Abort, Statuses, Served
  <2> QED
    BY <2>1, Zenon DEF CallsStep, Abstract!CallsNext
<1>8. CASE Status(c) = "busy" /\ Status(c)' = "response" /\ c \in Served
  <2>1. Abstract!Answer(c)
    BY <1>1, <1>2, <1>3, <1>8, Zenon DEF Abstract!Answer, Statuses, Served
  <2> QED
    BY <2>1, Zenon DEF CallsStep, Abstract!CallsNext
<1> QED
  BY <1>4, <1>5, <1>6, <1>7, <1>8, Zenon

\* Every step of a pool is a step of Calls or leaves it alone: only Begin, Respond,
\* Answer, Close and the returns show.
LEMMA CallsSteps == PoolInv /\ [PoolNext]_poolVars => CallsStep
<1> SUFFICES ASSUME PoolInv, [PoolNext]_poolVars PROVE CallsStep
  BY Zenon
<1> USE DEF PoolInv
<1>1. ASSUME NEW c \in Callers, Begin(c) PROVE CallsStep
  <2>1. \A d \in Callers : d # c => call'[d] = call[d]
    BY <1>1, Zenon DEF Begin, Acquire, Return, PoolTypeOK
  <2>2. Status(c) = "idle" /\ Status(c)' = IF poolClosed THEN "error" ELSE "busy"
    BY <1>1 DEF Begin, Acquire, Return, PoolTypeOK, CallRecord, Status, At
  <2>3. UNCHANGED <<processed, poolClosed>>
    BY <1>1, Zenon DEF Begin, Acquire
  <2> QED
    BY <2>1, <2>2, <2>3, CallMoves, Zenon
<1>2. ASSUME NEW c \in Callers, Again(c) PROVE CallsStep
  <2>1. \A d \in Callers : d # c => call'[d] = call[d]
    BY <1>2, Zenon DEF Again, Acquire, Return, PoolTypeOK
  <2>2. Status(c) = "busy" /\ Status(c)' \in {"busy", "error"}
    BY <1>2 DEF Again, Acquire, Return, PoolTypeOK, CallRecord, Status, At
  <2>3. UNCHANGED <<processed, poolClosed>>
    BY <1>2, Zenon DEF Again, Acquire
  <2> QED
    BY <2>1, <2>2, <2>3, CallMoves, Zenon
<1>3. ASSUME NEW c \in Callers, Dial(c) PROVE CallsStep
  <2>1. \A d \in Callers : d # c => call'[d] = call[d]
    BY <1>3, Zenon DEF Dial, Return, PoolTypeOK
  <2>2. Status(c) = "busy" /\ Status(c)' \in {"busy", "error"}
    BY <1>3 DEF Dial, Return, PoolTypeOK, CallRecord, Status, At
  <2>3. UNCHANGED <<processed, poolClosed>>
    BY <1>3, Zenon DEF Dial
  <2> QED
    BY <2>1, <2>2, <2>3, CallMoves, Zenon
<1>4. ASSUME NEW c \in Callers, Register(c) PROVE CallsStep
  <2>1. \A d \in Callers : d # c => call'[d] = call[d]
    BY <1>4, Zenon DEF Register, Goto, PoolTypeOK
  <2>2. Status(c) = "busy" /\ Status(c)' \in {"busy", "error"}
    BY <1>4 DEF Register, Goto, PoolTypeOK, CallRecord, Status, At
  <2>3. UNCHANGED <<processed, poolClosed>>
    BY <1>4, Zenon DEF Register
  <2> QED
    BY <2>1, <2>2, <2>3, CallMoves, Zenon
<1>5. ASSUME NEW c \in Callers, CloseOwn(c) PROVE CallsStep
  <2>1. \A d \in Callers : d # c => call'[d] = call[d]
    BY <1>5, Zenon DEF CloseOwn, Return, Goto, PoolTypeOK
  <2>2. Status(c) = "busy" /\ Status(c)' \in {"busy", "error"}
    BY <1>5 DEF CloseOwn, Return, Goto, PoolTypeOK, CallRecord, Status, At
  <2>3. UNCHANGED <<processed, poolClosed>>
    BY <1>5, Zenon DEF CloseOwn
  <2> QED
    BY <2>1, <2>2, <2>3, CallMoves, Zenon
<1>6. ASSUME NEW c \in Callers, Use(c) PROVE CallsStep
  <2>1. \A d \in Callers : d # c => call'[d] = call[d]
    BY <1>6, Zenon DEF Use, Return, Goto, PoolTypeOK
  <2>2. Status(c) = "busy" /\ Status(c)' \in {"busy", "error"}
    BY <1>6 DEF Use, Return, Goto, PoolTypeOK, CallRecord, Status, At
  <2>3. UNCHANGED <<processed, poolClosed>>
    BY <1>6, Zenon DEF Use
  <2> QED
    BY <2>1, <2>2, <2>3, CallMoves, Zenon
<1>7. ASSUME NEW c \in Callers, Reject(c) PROVE CallsStep
  <2>1. \A d \in Callers : d # c => call'[d] = call[d]
    BY <1>7, Zenon DEF Reject, Return, Goto, PoolTypeOK
  <2>2. Status(c) = "busy" /\ Status(c)' \in {"busy", "error"}
    BY <1>7 DEF Reject, Return, Goto, PoolTypeOK, CallRecord, Status, At
  <2>3. UNCHANGED <<processed, poolClosed>>
    BY <1>7, Zenon DEF Reject
  <2> QED
    BY <2>1, <2>2, <2>3, CallMoves, Zenon
<1>8. ASSUME NEW c \in Callers, Answer(c) PROVE CallsStep
  <2>1. \A d \in Callers : d # c => call'[d] = call[d]
    BY <1>8, Zenon DEF Answer, Return, PoolTypeOK
  <2>2. Status(c) = "busy" /\ Status(c)' = "response" /\ c \in Served
    BY <1>8 DEF Answer, Return, PoolTypeOK, CallRecord, Status, At, Accounted, Served
  <2>3. UNCHANGED <<processed, poolClosed>>
    BY <1>8, Zenon DEF Answer
  <2> QED
    BY <2>1, <2>2, <2>3, CallMoves, Zenon
<1>9. ASSUME NEW c \in Callers, Retry(c) PROVE CallsStep
  <2>1. \A d \in Callers : d # c => call'[d] = call[d]
    BY <1>9, Zenon DEF Retry, Return, PoolTypeOK
  <2>2. Status(c) = "busy" /\ Status(c)' \in {"busy", "error"}
    BY <1>9 DEF Retry, Return, PoolTypeOK, CallRecord, Status, At
  <2>3. UNCHANGED <<processed, poolClosed>>
    BY <1>9, Zenon DEF Retry
  <2> QED
    BY <2>1, <2>2, <2>3, CallMoves, Zenon
<1>10. ASSUME NEW c \in Callers, Respond(c) PROVE CallsStep
  <2>1. Statuses' = [Statuses EXCEPT ![c] = Status(c)']
    <3>1. \A d \in Callers : d # c => call'[d] = call[d]
      BY <1>10, Zenon DEF Respond, Goto, Return, PoolTypeOK
    <3> QED
      BY <3>1, StatusMoves, Zenon
  <2>2. Status(c) = "busy" /\ Status(c)' \in {"busy", "error"}
    BY <1>10 DEF Respond, Goto, Return, PoolTypeOK, CallRecord, Status, At
  <2>3. Statuses[c] = "busy" /\ Statuses' \in {Statuses, [Statuses EXCEPT ![c] = "error"]}
    BY <2>1, <2>2, Zenon DEF Statuses
  <2>4. c \notin Served /\ Served' = Served \cup {c}
    BY <1>10 DEF Respond, PoolTypeOK, Accounted, At, Served
  <2>5. poolClosed' = poolClosed
    BY <1>10, Zenon DEF Respond
  <2>6. Abstract!Serve(c)
    BY <2>3, <2>4, <2>5, Zenon DEF Abstract!Serve, Statuses, Served
  <2> QED
    BY <2>6, Zenon DEF CallsStep, Abstract!CallsNext
<1>11. CASE Close
  <2>1. Statuses' = Statuses /\ Served' = Served
    BY <1>11, Zenon DEF Close, Statuses, Served, Status, At
  <2>2. Abstract!GoDown
    BY <1>11, <2>1, Zenon DEF Close, Abstract!GoDown, Statuses, Served
  <2> QED
    BY <2>2, Zenon DEF CallsStep, Abstract!CallsNext
<1>12. CASE CloseNext \/ PeerStep \/ UNCHANGED poolVars
  <2>1. UNCHANGED <<call, processed, poolClosed>>
    BY <1>12, Zenon DEF CloseNext, PeerStep, poolVars
  <2>2. Statuses' = Statuses /\ Served' = Served
    BY <2>1, Zenon DEF Statuses, Served, Status, At
  <2> QED
    BY <2>1, <2>2, Zenon DEF CallsStep, Abstract!callsVars, Statuses, Served
<1> QED
  BY <1>1, <1>2, <1>3, <1>4, <1>5, <1>6, <1>7, <1>8, <1>9, <1>10, <1>11, <1>12, Zenon DEF PoolNext, Step

\* A pool keeps the promises of Calls, whatever number of calls, dials and retries:
\* a call is answered only if the peer has processed it, it returns once, the peer
\* processes it at most once, and no call begins after Close.
THEOREM PoolImplementsCalls == PoolSpec => ImplementsCalls
  BY CallsInitially, CallsSteps, PoolCorrect, PTL
     DEF PoolSpec, ImplementsCalls, Abstract!CallsSpec, CallsStep
=============================================================================
