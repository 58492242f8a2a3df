--------------------------- MODULE SessionTheorems ---------------------------
(***************************************************************************)
(* First the stream table: what its invariants say of behaviours of the    *)
(* table alone. Then what holds of every behaviour of a Session.           *)
(* Every step of a session is one of the table (StepsTable), so what holds *)
(* of the table holds of sessions; and with it what SessionProofs,         *)
(* SessionFlowProofs and SessionMessageProofs show of single steps becomes *)
(* a property of the whole behaviour.                                      *)
(***************************************************************************)
EXTENDS SessionFlowProofs, SessionMessageProofs, FiniteSetTheorems

-----------------------------------------------------------------------------
(* The stream table *)

\* Every set of stream identifiers is finite and has a natural cardinality.
LEMMA IdSetsFinite ==
  ASSUME NEW S \in SUBSET StreamId
  PROVE  IsFiniteSet(S) /\ Cardinality(S) \in Nat
<1>1. IsFiniteSet(StreamId)
  BY FS_Interval, TableAssumption, SMTT(30) DEF StreamId
<1> QED
  BY <1>1, FS_Subset, FS_CardinalityType, ZenonT(40)

\* So their sizes are what the single steps assume.
LEMMA SizesKnown == SizesCounted
<1>1. Cardinality({}) = 0
  BY FS_EmptySet, ZenonT(40)
<1>2. \A x : Cardinality({x}) = 1
  BY FS_Singleton, Zenon
<1>3. ASSUME NEW S \in SUBSET StreamId
      PROVE  /\ Cardinality(S) \in Nat
             /\ \A x \in StreamId \ S : Cardinality(S \cup {x}) = Cardinality(S) + 1
             /\ \A R \in SUBSET S : /\ Cardinality(R) <= Cardinality(S)
                                   /\ Cardinality(S \ R) = Cardinality(S) - Cardinality(R)
  <2>1. IsFiniteSet(S) /\ Cardinality(S) \in Nat
    BY IdSetsFinite, Zenon
  <2>2. \A x \in StreamId \ S : Cardinality(S \cup {x}) = Cardinality(S) + 1
    BY <2>1, FS_AddElement, ZenonT(40)
  <2>3. ASSUME NEW R \in SUBSET S
        PROVE  /\ Cardinality(R) <= Cardinality(S)
               /\ Cardinality(S \ R) = Cardinality(S) - Cardinality(R)
    <3>1. S \cap R = R
      BY Zenon
    <3>2. Cardinality(S \ R) = Cardinality(S) - Cardinality(S \cap R)
      BY <2>1, FS_Difference, ZenonT(40)
    <3>3. Cardinality(R) <= Cardinality(S)
      BY <2>1, FS_Subset, ZenonT(40)
    <3> QED
      BY <3>1, <3>2, <3>3, ZenonT(40)
  <2> QED
    BY <2>1, <2>2, <2>3, ZenonT(40)
<1> QED
  BY <1>1, <1>2, <1>3, ZenonT(40) DEF SizesCounted

\* For every role and all limits, the stream table keeps its types, counts
\* its active streams exactly, never retains more than MaxStreams streams,
\* lists exactly the closed ones in its FIFO and keeps its identifiers in
\* order.
THEOREM TableCorrect == TableSpec => []TableInv
<1>1. TableInit => TableInv
  BY TableInitInv, SizesKnown, ZenonT(40)
<1>2. TableInv /\ [TableNext]_tableVars => TableInv'
  BY TableStepInv, SizesKnown, ZenonT(40)
<1> QED
  BY <1>1, <1>2, PTL DEF TableSpec

\* The positions of a sequence of length n number n.
LEMMA PositionsCount ==
  ASSUME NEW n \in Nat
  PROVE  IsFiniteSet(1 .. n) /\ Cardinality(1 .. n) = n
<1>1. 1 \in Int /\ n \in Int
  OBVIOUS
<1>2. /\ IsFiniteSet(1 .. n)
      /\ Cardinality(1 .. n) = IF 1 > n THEN 0 ELSE n - 1 + 1
  BY <1>1, FS_Interval, ZenonT(40)
<1>3. (IF 1 > n THEN 0 ELSE n - 1 + 1) = n
  OBVIOUS
<1> QED
  BY <1>2, <1>3, SMTT(30)

\* When fewer closed streams than MaxStreams are kept, a connection without
\* live streams always has room for another one.
THEOREM QuietRoom ==
  ASSUME MaxClosedStreams < MaxStreams
  PROVE  TableSpec => []QuietHasRoom
<1>1. TableInv => QuietHasRoom
  <2> SUFFICES ASSUME TableInv, ~closed, Live = {}
               PROVE  Cardinality(Retained) < MaxStreams
    BY Zenon DEF QuietHasRoom
  <2> DEFINE c == closedStreams
  <2>1. /\ c \in Seq(StreamId) /\ Len(c) <= MaxClosedStreams
        /\ Retained = Range(c)
    BY ZenonT(40) DEF TableInv, TableTypeOK, ClosedExact, Retained, Live, LiveState, StreamState
  <2>2. DOMAIN c = 1 .. Len(c) /\ Len(c) \in Nat /\ c \in [1 .. Len(c) -> StreamId]
    BY <2>1, SMTT(30)
  <2>3. IsFiniteSet(1 .. Len(c)) /\ Cardinality(1 .. Len(c)) = Len(c)
    BY <2>2, PositionsCount, ZenonT(40)
  <2>4. c \in Surjection(1 .. Len(c), Range(c))
    BY <2>2, ZenonT(40) DEF Surjection, Range
  <2>5. Cardinality(Range(c)) <= Len(c)
    BY <2>3, <2>4, FS_Surjection, SMTT(30)
  <2>6. Cardinality(Retained) \in Nat
    BY IdSetsFinite, ZenonT(40) DEF Retained
  <2> QED
    BY <2>1, <2>2, <2>5, <2>6, TableAssumption, SMTT(30)
<1> QED
  BY <1>1, TableCorrect, PTL

\* No step opens an identifier a second time.
THEOREM IdsNeverReused == TableSpec => NeverReused
<1>1. TableInv /\ [TableNext]_tableVars => [\A id \in StreamId : StaysSpent(id)]_tableVars
  BY SpentStays, Zenon
<1> QED
  BY <1>1, TableCorrect, PTL DEF TableSpec, NeverReused

-----------------------------------------------------------------------------
(* Sessions implement the table *)

\* Whatever the peer sends and the application calls, the streams of a session
\* are allocated, moved, closed and evicted as the stream table specifies.
THEOREM SessionImplementsTable == Spec => ImplementsTable
<1>1. Init => TableInit
  BY Zenon DEF Init
<1>2. ParserInv /\ [Next]_vars => [TableNext]_tableVars
  BY StepsTable, SizesKnown, ZenonT(40)
<1> QED
  BY <1>1, <1>2, ParserCorrect, PTL DEF Spec, TableSpec, ImplementsTable

\* So the table invariants hold of every session: the counters the concurrency
\* limits test are exact, the retained streams stay within MaxStreams, and the
\* FIFO of closeStream lists exactly the closed ones.
THEOREM SessionTableCorrect == Spec => []TableInv
  BY SessionImplementsTable, TableCorrect, PTL DEF ImplementsTable

\* And no session reuses a stream identifier.
THEOREM SessionNeverReuses == Spec => NeverReused
  BY SessionImplementsTable, IdsNeverReused, PTL DEF ImplementsTable

-----------------------------------------------------------------------------
(* Queues, types and failures *)

\* The queues and counters stay within their limits.
LEMMA CountersCorrect == Spec => []CountersOK
<1>1. Init => CountersOK
  <2> SUFFICES ASSUME Init PROVE CountersOK
    BY Zenon
  <2>1. /\ output = 1 /\ events = 0 /\ settingsOutstanding = 1 /\ failed = "none"
        /\ goAwaySent = FALSE /\ prefaced = (Role = "client") /\ controlFrames = 0
    BY Zenon DEF Init
  <2>2. MaxOutput \in Nat \ {0} /\ MaxOutstanding \in Nat \ {0}
    BY SessionAssumption, Zenon DEF SessionAssumption
  <2>3. prefaced \in BOOLEAN /\ goAwaySent \in BOOLEAN
    BY <2>1, Zenon
  <2>4. /\ output \in 0 .. MaxOutput /\ events \in 0 .. MaxQueuedEvents
        /\ settingsOutstanding \in 0 .. MaxOutstanding
        /\ controlFrames \in 0 .. MaxControlFrames + 1 /\ controlFrames <= MaxControlFrames
    BY <2>1, <2>2, CounterLimits, SMTT(30)
  <2> QED
    BY <2>1, <2>3, <2>4, ZenonT(40) DEF CountersOK
<1>2. CountersOK /\ [Next]_vars => CountersOK'
  <2> SUFFICES ASSUME CountersOK, [Next]_vars PROVE CountersOK'
    BY Zenon
  <2>1. CASE LocalCall
    BY <2>1, LocalCallCounters, ZenonT(40)
  <2>2. CASE ReceiveControl
    BY <2>2, ReceiveControlCounters, SizesKnown, ZenonT(40)
  <2>3. CASE ReceiveHeaders \/ ReceiveData
    BY <2>3, ReceiveMessageCounters, ZenonT(40)
  <2>4. CASE UNCHANGED vars
    BY <2>4, Zenon DEF vars, CountersOK, settingVars, statusVars
  <2> QED
    BY <2>1, <2>2, <2>3, <2>4, ZenonT(40) DEF Next
<1> QED
  BY <1>1, <1>2, PTL DEF Spec

\* "Protocol failures are sticky": whatever the peer sent and whichever calls
\* follow, a session that has failed never again changes a stream, queues a frame
\* or raises an event.
THEOREM FailureIsSticky == Spec => FailureFreezes
<1>1. CountersOK /\ [Next]_vars => [Frozen]_vars
  BY FailedFrozen, Zenon DEF Frozen
<1> QED
  BY <1>1, CountersCorrect, PTL DEF Spec, FailureFreezes

\* Every variable of a session keeps its type: no queue or counter exceeds its
\* limit, and every setting stays in its range, whatever values the peer sends.
THEOREM SessionTypes == Spec => []SessionTypeOK
<1>1. TableInv /\ CountersOK /\ Typed => SessionTypeOK
  BY Zenon DEF TableInv, CountersOK, Typed, StreamsTyped, ConnectionTyped, ParserTyped, SessionTypeOK
<1> QED
  BY <1>1, SessionTableCorrect, CountersCorrect, TypedAlways, PTL

-----------------------------------------------------------------------------
(* Streams *)

\* The invariants the following proofs build on hold throughout.
LEMMA KnownAlways == Spec => []Known
  BY SizesKnown, SessionTableCorrect, TypedAlways, ParserCorrect, DecoderInStep, PTL DEF Known

\* After the peer's GOAWAY (onGoAway) a client has no live stream of its own above
\* the last identifier the peer will process: OpenStream refuses new ones, and
\* no received frame brings one of them back.
THEOREM GoAwayIsHonoured == Spec => []GoAwayHonoured
<1>1. ASSUME Init PROVE GoAwayHonoured
  <2>1. peer = [maxConcurrent |-> Unlimited, initialWindow |-> DefaultWindow,
                maxFrame |-> DefaultMaxFrame,
                enablePush |-> TRUE, noPriorities |-> FALSE, settled |-> FALSE,
                goAway |-> FALSE, lastStream |-> 0]
    BY <1>1, Zenon DEF Init
  <2> QED
    BY <2>1, Zenon DEF GoAwayHonoured
<1> QED
  BY <1>1, GoAwayStep, KnownAlways, PTL DEF Spec

\* The invariant of the windows holds throughout.
LEMMA WindowsCorrect == Spec => []WindowInv
<1>1. ASSUME Init PROVE WindowInv
  <2>1. /\ state = [id \in StreamId |-> "idle"]
        /\ sendWindow = [id \in StreamId |-> 0] /\ recvWindow = [id \in StreamId |-> 0]
        /\ connectionSendWindow = DefaultWindow /\ connectionRecvWindow = InitialWindow
        /\ limits = [maxConcurrent |-> MaxConcurrent, initialWindow |-> InitialWindow,
                     enablePush |-> EnablePush]
    BY <1>1, Zenon DEF Init, TableInit
  <2>2. MaxWindow \in Nat /\ InitialWindow \in 1 .. MaxWindow /\ DefaultWindow \in 1 .. MaxWindow
    BY SessionAssumption, Zenon
  <2> QED
    BY <2>1, <2>2, SMTT(30) DEF WindowInv, StreamWindows, Window
<1> QED
  BY <1>1, WindowsStep, KnownAlways, PTL DEF Spec

\* No window leaves the 31-bit range, whatever DATA, SETTINGS and WINDOW_UPDATE
\* frames do to it; the session never lets the peer overdraw the connection
\* window, nor overdraws the peer's (SendData, applyPeerSetting, onWindowUpdate).
THEOREM WindowsStayInRange == Spec => []WindowsInRange
<1>1. WindowInv => WindowsInRange
  BY ZenonT(40) DEF WindowInv, StreamWindows, WindowsInRange, Retained
<1> QED
  BY <1>1, WindowsCorrect, PTL

\* The WINDOW_UPDATEs of onFrameComplete and the changes of UpdateSettings never
\* give a stream more than the current SETTINGS_INITIAL_WINDOW_SIZE.
THEOREM CreditIsBounded == Spec => []CreditBounded
<1>1. WindowInv => CreditBounded
  BY Zenon DEF WindowInv, StreamWindows, CreditBounded, Retained
<1> QED
  BY <1>1, WindowsCorrect, PTL

\* GOAWAY reports as processed (lastProcessedPeerStream, set by remoteEnd) only a
\* stream that was opened and on which nothing more can be received, then and
\* ever after.
THEOREM ProcessedIsOver == Spec => []ProcessedWasReceived
<1>1. ASSUME Init PROVE PromiseInv /\ ProcessedWasReceived
  <2>1. /\ state = [id \in StreamId |-> "idle"] /\ frame = NoFrame /\ decoding = FALSE
        /\ lastProcessedPeerStream = 0
    BY <1>1, Zenon DEF Init, TableInit
  <2> QED
    BY <2>1, Zenon DEF PromiseInv, ProcessedWasReceived, NoFrame, StreamId
<1>2. ASSUME Known, PromiseInv, ProcessedWasReceived, [Next]_vars
      PROVE  ProcessedWasReceived'
  <2>1. TableInv /\ [TableNext]_tableVars
    BY <1>2, StepsTable, ZenonT(40) DEF Known
  <2>2. \A id \in StreamId : Spent(id) => Spent(id)'
    BY <2>1, SpentStays, ZenonT(40) DEF StaysSpent
  <2>3. \A id \in StreamId : Spent(id) /\ ~CanReceive(state[id]) => ~CanReceive(state'[id])
    BY <2>1, EndedStays, ZenonT(40)
  <2> QED
    BY <1>2, <2>2, <2>3, ProcessedKept, ZenonT(40)
<1> QED
  BY <1>1, <1>2, PromiseStep, KnownAlways, PTL DEF Spec

\* Every step is steady: failures and Close last, and the FIFO never shrinks.
LEMMA AlwaysSteady == ASSUME Known, CountersOK, [Next]_vars PROVE Steady
<1> SUFFICES ASSUME Ready'
             PROVE  /\ Ready /\ failed' = "none"
                    /\ Len(closedStreams') < MaxClosedStreams =>
                         /\ Len(closedStreams) < MaxClosedStreams
                         /\ \A id \in StreamId : state[id] # "idle" => state'[id] # "idle"
  BY Zenon DEF Steady
<1>1. ~closed' /\ failed' = "none"
  BY Zenon DEF Ready
<1>2. failed = "none"
  BY <1>1, FailedFrozen, ZenonT(40) DEF Frozen
<1>3. TableInv /\ [TableNext]_tableVars
  BY StepsTable, Zenon DEF Known
<1> QED
  BY <1>1, <1>2, <1>3, SizesKnown, NoneForgotten, ZenonT(40) DEF Ready

\* Between two frames more than half the window of every live stream is open, and
\* of the connection until the FIFO of closed streams has been full: the
\* WINDOW_UPDATEs of onFrameComplete restore what accepted DATA frames take, as
\* long as UpdateSettings leaves the initial window alone.
THEOREM CreditComesBack ==
  ASSUME \A settings \in LocalSettings : settings.initialWindow = Keep
  PROVE  Spec => []CreditRestored
<1>1. ASSUME Init PROVE CreditInv
  <2>1. /\ state = [id \in StreamId |-> "idle"]
        /\ connectionRecvWindow = InitialWindow
        /\ limits = [maxConcurrent |-> MaxConcurrent, initialWindow |-> InitialWindow,
                     enablePush |-> EnablePush]
    BY <1>1, ZenonT(40) DEF Init, TableInit
  <2> QED
    BY <2>1, HalfWindow, ZenonT(40) DEF CreditInv, Live, LiveState
<1>2. CreditInv => CreditRestored
  <2> SUFFICES ASSUME CreditInv, AtFrame
               PROVE  /\ \A id \in Live : recvWindow[id] > limits.initialWindow \div 2
                      /\ Len(closedStreams) < MaxClosedStreams =>
                           connectionRecvWindow > limits.initialWindow \div 2
    BY Zenon DEF CreditRestored
  <2>1. frame.stream = 0 /\ 0 \notin StreamId /\ Ready
    BY DEF AtFrame, Receiving, NoFrame, StreamId
  <2> QED
    BY <2>1, ZenonT(40) DEF CreditInv, Half, Live
<1>3. Known /\ CountersOK /\ CreditInv /\ [Next]_vars => CreditInv'
  BY AlwaysSteady, CreditStep, ZenonT(40)
<1> QED
  BY <1>1, <1>2, <1>3, KnownAlways, CountersCorrect, PTL DEF Spec

\* So the lengths of what is sent are right in every state.
LEMMA SentCorrect == Spec => []SentInv
<1>1. ASSUME Init PROVE SentInv
  <2>1. sent = [id \in StreamId |-> NoProgress] /\ state = [id \in StreamId |-> "idle"]
    BY <1>1, ZenonT(40) DEF Init, TableInit
  <2> QED
    BY <2>1, ZenonT(40) DEF SentInv, SentOK, NoProgress, LiveState
<1> QED
  BY <1>1, SentStep, KnownAlways, PTL DEF Spec

\* For client and server: SendData never sends more body than the Content-Length of
\* the header section, nor ends a message with less; SendHeaders ends one with
\* trailers only if its body is as long as the trailers say, if they do.
THEOREM SentLengthsExact == Spec => []SentLengthExact
<1>1. SentInv => SentLengthExact
  BY Zenon DEF SentInv, SentOK, SentLengthExact, Live
<1> QED
  BY <1>1, SentCorrect, PTL

\* On a server no live stream has sent or delivered more body than the Content-Length
\* of its header section, and a body that has ended without trailers is exactly as
\* long (SendHeaders, SendData, onData, remoteEnd), however calls and frames
\* interleave; with trailers only a length that they carry is compared.
THEOREM LengthsAreExact == ASSUME Role = "server" PROVE Spec => []LengthsExact
<1>1. ASSUME Init PROVE ReceivedInv
  <2>1. /\ received = [id \in StreamId |-> NoProgress] /\ state = [id \in StreamId |-> "idle"]
        /\ frame = NoFrame /\ decoding = FALSE
    BY <1>1, Zenon DEF Init, TableInit
  <2> QED
    BY <2>1, Zenon DEF ReceivedInv, ReceivedOK, InFrame, InBlock, NoProgress, NoFrame, LiveState,
                CanReceive, StreamId
<1>2. ReceivedInv => ReceivedLengthExact
  BY Zenon DEF ReceivedInv, ReceivedOK, ReceivedLengthExact, Live
<1>3. Known /\ ReceivedInv /\ [Next]_vars => ReceivedInv'
  BY ReceivedStep, Zenon
<1> QED
  BY <1>1, <1>2, <1>3, SentLengthsExact, KnownAlways, PTL DEF Spec, LengthsExact

\* No stream of an open session disappears silently, whatever closes it: a local
\* call sends the frame that does, and everything received raises an event for
\* each stream it closes, as long as the queue of the events has room.
THEOREM ClosingIsAnnounced == Spec => ClosingAnnounced
<1>1. Known /\ CountersOK /\ [Next]_vars => [Announced]_vars
  BY LocalCallAnnounced, ReceiveControlAnnounced, ReceiveHeadersAnnounced,
     ReceiveDataAnnounced, ZenonT(40) DEF Next
<1> QED
  BY <1>1, KnownAlways, CountersCorrect, PTL DEF Spec, ClosingAnnounced
=============================================================================
