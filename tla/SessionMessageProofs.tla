------------------------ MODULE SessionMessageProofs -------------------------
(***************************************************************************)
(* First the connection credit of a peer that obeys flow control. Then what*)
(* single steps of a Session keep true of the types of its variables, of   *)
(* its decoder (in step with the parser) and of the messages on its        *)
(* streams (the lengths of their bodies). SessionTheorems draws the        *)
(* conclusions about behaviours.                                           *)
(***************************************************************************)
EXTENDS SessionProofs, ConnectionCredit

-----------------------------------------------------------------------------
(* The connection credit of a peer that obeys flow control *)

\* CreditNotOverstated with the types that make it inductive.
AccountInv ==
  /\ connectionRecvWindow \in Nat
  /\ limits.initialWindow \in Nat
  /\ CreditNotOverstated

\* What a step leaves alone that touches neither the receive window of the
\* connection nor the local settings.
Quiet == connectionRecvWindow' = connectionRecvWindow /\ limits' = limits

\* connectionError leaves the receive window and the settings alone.
LEMMA ErrorQuiet == ASSUME NEW code, ConnectionError(code) PROVE Quiet
  BY Zenon DEF ConnectionError, windowVars, settingVars, Quiet

\* A call of the application leaves the connection's receive window alone, and
\* only UpdateSettings changes the local settings.
LEMMA LocalCallQuiet ==
  ASSUME LocalCall
  PROVE  Quiet \/ \E settings \in LocalSettings : UpdateSettings(settings)
<1>1. ASSUME NEW section, NEW end, OpenStream(section, end) PROVE Quiet
  BY <1>1, Zenon DEF OpenStream, windowVars, settingVars, Quiet
<1>2. ASSUME NEW section, NEW end, OpenStreamFails(section, end) PROVE Quiet
  BY <1>2, Zenon DEF OpenStreamFails, windowVars, settingVars, Quiet
<1>3. ASSUME NEW id, NEW section, NEW end, SendHeaders(id, section, end) PROVE Quiet
  BY <1>3, Zenon DEF SendHeaders, windowVars, settingVars, Quiet
<1>4. ASSUME NEW id, NEW section, PushPromise(id, section) PROVE Quiet
  BY <1>4, Zenon DEF PushPromise, windowVars, settingVars, Quiet
<1>5. ASSUME NEW id, NEW section, PushPromiseFails(id, section) PROVE Quiet
  BY <1>5, Zenon DEF PushPromiseFails, windowVars, settingVars, Quiet
<1>6. ASSUME NEW id, NEW n, NEW end, SendData(id, n, end) PROVE Quiet
  BY <1>6, Zenon DEF SendData, settingVars, Quiet
<1>7. ASSUME NEW id, ResetStream(id) PROVE Quiet
  BY <1>7, Zenon DEF ResetStream, windowVars, settingVars, Quiet
<1>8. ASSUME SendControl \/ GoAway \/ Close \/ ConsumeOutput \/ NextEvent PROVE Quiet
  BY <1>8, Zenon DEF SendControl, GoAway, Close, ConsumeOutput, NextEvent, windowVars,
              settingVars, Quiet
<1> QED
  BY <1>1, <1>2, <1>3, <1>4, <1>5, <1>6, <1>7, <1>8, Zenon DEF LocalCall

\* No control frame of the peer touches the receive window or the settings.
LEMMA ReceiveControlQuiet == ASSUME ReceiveControl PROVE Quiet
<1>1. ASSUME RecvPreface \/ ParseError \/ FirstFrameNotSettings PROVE Quiet
  BY <1>1, ErrorQuiet, Zenon DEF RecvPreface, ParseError, FirstFrameNotSettings, windowVars,
                          settingVars, Quiet
<1>2. ASSUME RecvPriority \/ RecvUnknown PROVE Quiet
  BY <1>2, Zenon DEF RecvPriority, RecvUnknown, controlUnchanged, windowVars, settingVars, Quiet
<1>3. ASSUME NEW valid, RecvPriorityUpdate(valid) PROVE Quiet
  BY <1>3, Zenon DEF RecvPriorityUpdate, controlUnchanged, windowVars, settingVars, Quiet
<1>4. ASSUME NEW id, RecvRSTStreamUnknown(id) PROVE Quiet
  BY <1>4, ErrorQuiet, Zenon DEF RecvRSTStreamUnknown, controlUnchanged, windowVars, settingVars,
                          Quiet
<1>5. ASSUME NEW id, RecvRSTStream(id) PROVE Quiet
  BY <1>5, Zenon DEF RecvRSTStream, controlUnchanged, windowVars, settingVars, Quiet
<1>6. ASSUME NEW id, RecvWindowUpdateLate(id) PROVE Quiet
  BY <1>6, ErrorQuiet, Zenon DEF RecvWindowUpdateLate, controlUnchanged, windowVars, settingVars,
                          Quiet
<1>7. ASSUME NEW settings, RecvSettingsRejected(settings) PROVE Quiet
  BY <1>7, ErrorQuiet, Zenon DEF RecvSettingsRejected
<1>8. ASSUME NEW settings, RecvSettings(settings) PROVE Quiet
  BY <1>8, Zenon DEF RecvSettings, windowVars, Quiet
<1>9. ASSUME RecvSettingsAck PROVE Quiet
  BY <1>9, ErrorQuiet, Zenon DEF RecvSettingsAck, windowVars, Quiet
<1>10. ASSUME NEW ack, RecvPing(ack) PROVE Quiet
  BY <1>10, ErrorQuiet, Zenon DEF RecvPing, controlUnchanged, windowVars, settingVars, Quiet
<1>11. ASSUME NEW last, RecvGoAway(last) PROVE Quiet
  BY <1>11, ErrorQuiet, Zenon DEF RecvGoAway, windowVars, Quiet
<1>12. ASSUME NEW n, RecvConnectionWindowUpdate(n) PROVE Quiet
  BY <1>12, ErrorQuiet, Zenon DEF RecvConnectionWindowUpdate, settingVars, Quiet
<1>13. ASSUME NEW id, NEW n, RecvWindowUpdate(id, n) PROVE Quiet
  BY <1>13, Zenon DEF RecvWindowUpdate, controlUnchanged, windowVars, settingVars, Quiet
<1> QED
  BY <1>1, <1>2, <1>3, <1>4, <1>5, <1>6, <1>7, <1>8, <1>9, <1>10, <1>11, <1>12, <1>13, ZenonT(40)
     DEF ReceiveControl

\* Nor does any part of a header block.
LEMMA ReceiveHeadersQuiet == ASSUME ReceiveHeaders PROVE Quiet
<1>1. ASSUME NEW id, NEW end, RecvHeadersOpen(id, end) PROVE Quiet
  BY <1>1, ErrorQuiet, Zenon DEF RecvHeadersOpen, RefuseBlock, beginUnchanged, windowVars,
                          settingVars, Quiet
<1>2. ASSUME NEW id, NEW end, RecvHeaders(id, end) PROVE Quiet
  BY <1>2, ErrorQuiet, Zenon DEF RecvHeaders, RefuseBlock, beginUnchanged, windowVars,
                          settingVars, Quiet
<1>3. ASSUME NEW parent, NEW id, RecvPushPromise(parent, id) PROVE Quiet
  BY <1>3, ErrorQuiet, Zenon DEF RecvPushPromise, beginUnchanged, windowVars, settingVars, Quiet
<1>4. ASSUME ContinueBlock \/ EndIgnoredBlock PROVE Quiet
  BY <1>4, Zenon DEF ContinueBlock, EndIgnoredBlock, endUnchanged, windowVars, settingVars, Quiet
<1>5. ASSUME NEW section, CompressionError(section) \/ EndBlockNoRoom(section) PROVE Quiet
  BY <1>5, ErrorQuiet, Zenon DEF CompressionError, EndBlockNoRoom
<1>6. ASSUME NEW section, EndRejectedBlock(section) PROVE Quiet
  BY <1>6, Zenon DEF EndRejectedBlock, endUnchanged, windowVars, settingVars, Quiet
<1>7. ASSUME NEW section, EndPushPromise(section) PROVE Quiet
  BY <1>7, Zenon DEF EndPushPromise, endUnchanged, windowVars, settingVars, Quiet
<1>8. ASSUME NEW section, EndInformational(section) PROVE Quiet
  BY <1>8, Zenon DEF EndInformational, endUnchanged, windowVars, settingVars, Quiet
<1>9. ASSUME NEW section, EndMessageBlock(section) PROVE Quiet
  BY <1>9, Zenon DEF EndMessageBlock, endUnchanged, windowVars, settingVars, Quiet
<1> QED
  BY <1>1, <1>2, <1>3, <1>4, <1>5, <1>6, <1>7, <1>8, <1>9, Zenon DEF ReceiveHeaders

\* Nor does the payload of a DATA frame.
LEMMA PayloadQuiet ==
  ASSUME (\E k \in DataLengths : RecvDataFragment(k)) \/ DataNoRoom PROVE Quiet
<1>1. ASSUME NEW k, RecvDataFragment(k) PROVE Quiet
  BY <1>1, Zenon DEF RecvDataFragment, dataUnchanged, windowVars, settingVars, Quiet
<1>2. ASSUME DataNoRoom PROVE Quiet
  <2>1. \E code : ConnectionError(code)
    BY <1>2, Zenon DEF DataNoRoom
  <2> QED
    BY <2>1, ErrorQuiet, Zenon
<1> QED
  BY <1>1, <1>2, Zenon

\* UpdateSettings keeps the initial window a natural number and leaves the
\* connection's window alone.
LEMMA UpdateSettingsCredit ==
  ASSUME AccountInv, NEW settings \in LocalSettings, UpdateSettings(settings)
  PROVE  connectionRecvWindow' = connectionRecvWindow /\ limits'.initialWindow \in Nat
<1>1. settings.initialWindow \in {Keep} \cup 0 .. MaxWindow
  BY SessionAssumption, Zenon DEF SessionAssumption
<1>2. Updated(limits.initialWindow, settings.initialWindow) \in Nat
  BY <1>1, SessionAssumption, SMTT(30) DEF Updated, Keep, AccountInv, SessionAssumption
<1> QED
  BY <1>2, Zenon DEF UpdateSettings, windowVars

\* The credit onFrameComplete gives back is never negative.
LEMMA CreditNatural ==
  ASSUME AccountInv PROVE Credit(connectionRecvWindow) \in Nat
  BY DEF Credit, AccountInv

\* A DATA frame takes the same from both accounts, or from the peer's alone.
LEMMA PeerSendsDataCredit == ASSUME AccountInv, PeerSendsData PROVE AccountInv'
<1>1. PICK id \in sending, n \in DataLengths, end \in BOOLEAN :
        /\ n <= peerCredit
        /\ \/ \E m \in 0 .. n : BeginData(id, n, m, end)
           \/ BeginDataOverConnectionWindow(id, n)
        /\ peerCredit' = peerCredit - n
  BY Zenon DEF PeerSendsData
<1>2. n \in Nat
  BY SessionAssumption, Zenon DEF SessionAssumption
<1>3. limits' = limits /\ \/ connectionRecvWindow' = connectionRecvWindow
                          \/ /\ n <= connectionRecvWindow
                             /\ connectionRecvWindow' = connectionRecvWindow - n
  <2>1. CASE \E m \in 0 .. n : BeginData(id, n, m, end)
    BY <2>1, Zenon DEF BeginData, dataUnchanged, settingVars, windowVars
  <2>2. CASE BeginDataOverConnectionWindow(id, n)
    BY <2>2, ErrorQuiet, Zenon DEF BeginDataOverConnectionWindow, Quiet
  <2> QED
    BY <1>1, <2>1, <2>2, Zenon
<1> QED
  BY <1>1, <1>2, <1>3, SMTT(30) DEF AccountInv, CreditNotOverstated

\* A WINDOW_UPDATE adds the same to both accounts; one that is lost adds to the
\* session's alone.
LEMMA SessionGrantsCreditCredit == ASSUME AccountInv, SessionGrantsCredit PROVE AccountInv'
<1> DEFINE c == Credit(connectionRecvWindow)
<1>1. c \in Nat
  BY CreditNatural, Zenon
<1>2. limits' = limits
  BY Zenon DEF SessionGrantsCredit, CompleteData, dataUnchanged, settingVars
<1>3. CASE state[frame.stream] = "idle"
  <2>1. peerCredit' = peerCredit + 0 /\ connectionRecvWindow' = connectionRecvWindow
    BY <1>3, Zenon DEF SessionGrantsCredit, GrantedCredit, CompleteData, windowVars
  <2> QED
    BY <2>1, <1>2, SMTT(30) DEF AccountInv, CreditNotOverstated
<1>4. CASE state[frame.stream] # "idle"
  <2>1. connectionRecvWindow' = connectionRecvWindow + c
    BY <1>4, Zenon DEF SessionGrantsCredit, CompleteData
  <2>2. peerCredit' = peerCredit + c \/ peerCredit' = peerCredit + 0
    BY Zenon DEF SessionGrantsCredit, GrantedCredit
  <2> HIDE DEF c
  <2> QED
    BY <2>1, <2>2, <1>1, <1>2, SMTT(30) DEF AccountInv, CreditNotOverstated
<1> QED
  BY <1>3, <1>4, Zenon

\* Every step preserves the invariant.
LEMMA AccountStep == ASSUME AccountInv, [CreditNext]_creditVars PROVE AccountInv'
<1>1. ASSUME Quiet, peerCredit' = peerCredit PROVE AccountInv'
  BY <1>1, Zenon DEF Quiet, AccountInv, CreditNotOverstated
<1>2. CASE PeerSendsData
  BY <1>2, PeerSendsDataCredit, Zenon
<1>3. CASE SessionGrantsCredit
  BY <1>3, SessionGrantsCreditCredit, Zenon
<1>4. CASE PeerSendsOther
  BY <1>1, <1>4, ReceiveControlQuiet, ReceiveHeadersQuiet, PayloadQuiet, Zenon DEF PeerSendsOther
<1>5. CASE SessionCalled
  <2>1. peerCredit' = peerCredit
    BY <1>5, Zenon DEF SessionCalled
  <2>2. CASE Quiet
    BY <1>1, <2>1, <2>2, Zenon
  <2>3. CASE \E settings \in LocalSettings : UpdateSettings(settings)
    BY <2>1, <2>3, UpdateSettingsCredit, Zenon DEF AccountInv, CreditNotOverstated
  <2> QED
    BY <1>5, <2>2, <2>3, LocalCallQuiet, Zenon DEF SessionCalled
<1>6. CASE UNCHANGED creditVars
  BY <1>1, <1>6, Zenon DEF creditVars, vars, windowVars, settingVars, Quiet
<1> QED
  BY <1>2, <1>3, <1>4, <1>5, <1>6, Zenon DEF CreditNext

\* A session that starts with at least the window RFC 9113 gives never lets the
\* peer believe in connection credit it has not got, whatever DATA is refused,
\* WINDOW_UPDATEs are lost and settings are changed: a peer that obeys flow
\* control cannot exceed the connection window of onFrameBegin.
THEOREM CreditNeverOverstated ==
  ASSUME DefaultWindow <= InitialWindow
  PROVE  CreditSpec => []CreditNotOverstated
<1>1. CreditInit => AccountInv
  <2> SUFFICES ASSUME CreditInit PROVE AccountInv
    BY Zenon
  <2>1. connectionRecvWindow = InitialWindow /\ peerCredit = DefaultWindow
    BY Zenon DEF CreditInit, Init
  <2>2. limits.initialWindow = InitialWindow
    BY Zenon DEF CreditInit, Init
  <2> QED
    BY <2>1, <2>2, SessionAssumption, SMTT(30) DEF AccountInv, CreditNotOverstated, SessionAssumption
<1>2. AccountInv /\ [CreditNext]_creditVars => AccountInv'
  BY AccountStep, Zenon
<1>3. AccountInv => CreditNotOverstated
  BY Zenon DEF AccountInv
<1> QED
  BY <1>1, <1>2, <1>3, PTL DEF CreditSpec

-----------------------------------------------------------------------------
(* Types *)

\* What does not change keeps its type.
LEMMA KeptTyped ==
  /\ StreamsTyped /\ UNCHANGED streamVars => StreamsTyped'
  /\ ConnectionTyped /\ UNCHANGED connectionVars => ConnectionTyped'
  /\ ParserTyped /\ UNCHANGED <<frame, headerVars>> => ParserTyped'
<1>1. StreamsTyped /\ UNCHANGED streamVars => StreamsTyped'
  BY Zenon DEF StreamsTyped, streamVars
<1>2. ConnectionTyped /\ UNCHANGED connectionVars => ConnectionTyped'
  BY Zenon DEF ConnectionTyped, connectionVars, windowVars
<1>3. ParserTyped /\ UNCHANGED <<frame, headerVars>> => ParserTyped'
  BY Zenon DEF ParserTyped, headerVars
<1> QED
  BY <1>1, <1>2, <1>3, Zenon

\* The records of an idle parser.
LEMMA NoneTyped ==
  /\ NoFrame \in [stream : 0 .. MaxStreamId, left : Nat, end : BOOLEAN]
  /\ NoBlock \in [stream : 0 .. MaxStreamId, end : BOOLEAN, push : BOOLEAN,
                  continued : BOOLEAN]
  /\ NoCurrent \in [stream : 0 .. MaxStreamId, event : 0 .. MaxStreamId,
                    trailer : BOOLEAN, push : BOOLEAN]
<1>1. 0 \in 0 .. MaxStreamId /\ 0 \in Nat
  BY TableAssumption DEF TableAssumption
<1> QED
  BY <1>1, Zenon DEF NoFrame, NoBlock, NoCurrent

\* A step that only fails the connection.
LEMMA ErrorTyped == ASSUME Typed, NEW code, ConnectionError(code) PROVE Typed'
<1>1. UNCHANGED streamVars /\ UNCHANGED connectionVars
  BY Zenon DEF ConnectionError, settingVars, connectionVars
<1>2. frame' = NoFrame /\ block' = NoBlock /\ current' = NoCurrent /\ decoding' = FALSE
  BY Zenon DEF ConnectionError
<1>3. ParserTyped'
  BY <1>2, NoneTyped, Zenon DEF ParserTyped
<1> QED
  BY <1>1, <1>3, KeptTyped, Zenon DEF Typed

\* The progress of a message keeps its type.
LEMMA ProgressTyped ==
  /\ NoProgress \in Progress
  /\ \A progress \in Progress, section \in Sections, noBody \in BOOLEAN :
       AfterSection(progress, section, noBody) \in Progress
  /\ \A progress \in Progress, n \in Nat : AfterData(progress, n) \in Progress
  /\ \A section : MethodOf(section) \in Method
  /\ \A a, b \in Method : FirstNonEmpty(a, b) \in Method
<1>1. NoProgress \in Progress
  BY Zenon DEF NoProgress, Progress, NoLength
<1>2. ASSUME NEW progress \in Progress, NEW section \in Sections, NEW noBody \in BOOLEAN
      PROVE  AfterSection(progress, section, noBody) \in Progress
  <2>1. section \in Section
    BY SessionAssumption, Zenon DEF SessionAssumption
  <2>2. section.length \in {NoLength} \cup Nat
    BY <2>1, Zenon DEF Section
  <2>3. progress.trailers \in BOOLEAN /\ progress.headers \in BOOLEAN /\ progress.body \in Nat
    BY Zenon DEF Progress
  <2>4. (progress.trailers \/ progress.headers) \in BOOLEAN
    BY <2>3, Zenon
  <2> QED
    BY <2>2, <2>3, <2>4, Zenon DEF AfterSection, Progress
<1>3. ASSUME NEW progress \in Progress, NEW n \in Nat
      PROVE  AfterData(progress, n) \in Progress
  BY DEF AfterData, Progress
<1>4. \A section : MethodOf(section) \in Method
  BY Zenon DEF MethodOf, Method
<1>5. \A a, b \in Method : FirstNonEmpty(a, b) \in Method
  BY Zenon DEF FirstNonEmpty
<1> QED
  BY <1>1, <1>2, <1>3, <1>4, <1>5, Zenon

\* The attributes of a fresh stream.
LEMMA NewStreamTyped ==
  ASSUME StreamsTyped, ConnectionTyped, NEW id, NEW se \in Progress, NEW me \in Method,
         NewStream(id, se, me)
  PROVE  StreamsTyped'
<1>1. peer.initialWindow \in Int /\ limits.initialWindow \in Int
  <2>1. 0 .. MaxWindow \subseteq Int
    OBVIOUS
  <2> QED
    BY <2>1, Zenon DEF ConnectionTyped
<1> QED
  BY <1>1, ProgressTyped, Zenon DEF StreamsTyped, NewStream

\* The attributes that remain when streams are evicted.
LEMMA SetStreamsTyped ==
  ASSUME NEW q, NEW sw \in [StreamId -> Int], NEW rw \in [StreamId -> Int],
         NEW se \in [StreamId -> Progress], NEW re \in [StreamId -> Progress],
         NEW me \in [StreamId -> Method], SetStreams(q, sw, rw, se, re, me)
  PROVE  StreamsTyped'
<1>1. "" \in Method
  BY Zenon DEF Method
<1>2. ASSUME NEW T, NEW f \in [StreamId -> T], NEW none \in T
      PROVE  [id \in StreamId |-> IF id \in Evicted(q) THEN none ELSE f[id]] \in [StreamId -> T]
  BY Zenon
<1>3. /\ sendWindow' = [id \in StreamId |-> IF id \in Evicted(q) THEN 0 ELSE sw[id]]
      /\ recvWindow' = [id \in StreamId |-> IF id \in Evicted(q) THEN 0 ELSE rw[id]]
      /\ sent' = [id \in StreamId |-> IF id \in Evicted(q) THEN NoProgress ELSE se[id]]
      /\ received' = [id \in StreamId |-> IF id \in Evicted(q) THEN NoProgress ELSE re[id]]
      /\ method' = [id \in StreamId |-> IF id \in Evicted(q) THEN "" ELSE me[id]]
  BY Zenon DEF SetStreams
<1>4. 0 \in Int /\ NoProgress \in Progress
  BY ProgressTyped
<1> QED
  BY <1>1, <1>2, <1>3, <1>4, Zenon DEF StreamsTyped

\* Closing streams.
LEMMA EndTyped == ASSUME StreamsTyped, NEW q, End(q) PROVE StreamsTyped'
  BY SetStreamsTyped, Zenon DEF End, StreamsTyped

\* The calls of the application keep the types.
LEMMA LocalCallTyped == ASSUME Typed, LocalCall PROVE Typed'
<1>1. ASSUME UNCHANGED localUnchanged PROVE ParserTyped' /\ UNCHANGED lastProcessedPeerStream
  BY <1>1, KeptTyped, Zenon DEF Typed, localUnchanged
<1>2. ASSUME UNCHANGED <<windowVars, settingVars, localUnchanged>>, StreamsTyped' PROVE Typed'
  <2>1. UNCHANGED connectionVars
    BY <1>1, <1>2, Zenon DEF settingVars, connectionVars
  <2> QED
    BY <1>1, <1>2, <2>1, KeptTyped, Zenon DEF Typed
<1>3. ASSUME NEW section \in Sections, NEW end, OpenStream(section, end) PROVE Typed'
  <2>1. AfterSection(NoProgress, section, FALSE) \in Progress /\ MethodOf(section) \in Method
    BY ProgressTyped, Zenon
  <2>2. StreamsTyped'
    BY <1>3, <2>1, NewStreamTyped, Zenon DEF OpenStream, Typed
  <2> QED
    BY <1>2, <1>3, <2>2, Zenon DEF OpenStream
<1>4. ASSUME NEW section, NEW end, OpenStreamFails(section, end) PROVE Typed'
  BY <1>2, <1>4, KeptTyped, Zenon DEF OpenStreamFails, Typed
<1>5. ASSUME NEW id \in StreamId, NEW section \in Sections, NEW end, SendHeaders(id, section, end)
      PROVE  Typed'
  <2> DEFINE noBody == NoBody(method[id], section)
  <2> DEFINE se == [sent EXCEPT ![id] = AfterSection(@, section, noBody)]
  <2> DEFINE me == [method EXCEPT ![id] = FirstNonEmpty(@, MethodOf(section))]
  <2>1. \/ \E q : SetStreams(q, sendWindow, recvWindow, sent, received, method)
        \/ \E q : SetStreams(q, sendWindow, recvWindow, se, received, me)
    BY <1>5, Zenon DEF SendHeaders, LocalEnd
  <2>2. noBody \in BOOLEAN
    BY Zenon DEF NoBody
  <2>3. se \in [StreamId -> Progress]
    <3> HIDE DEF noBody
    <3> QED
      BY <2>2, ProgressTyped, Zenon DEF Typed, StreamsTyped
  <2>4. me \in [StreamId -> Method]
    BY ProgressTyped, Zenon DEF Typed, StreamsTyped
  <2>5. StreamsTyped'
    <3> HIDE DEF se, me
    <3> QED
      BY <2>1, <2>3, <2>4, SetStreamsTyped, Zenon DEF Typed, StreamsTyped
  <2> QED
    BY <1>2, <1>5, <2>5, Zenon DEF SendHeaders
<1>6. ASSUME NEW id, NEW section, PushPromise(id, section) PROVE Typed'
  <2>1. StreamsTyped'
    BY <1>6, ProgressTyped, NewStreamTyped, Zenon DEF PushPromise, Typed
  <2> QED
    BY <1>2, <1>6, <2>1, Zenon DEF PushPromise
<1>7. ASSUME NEW id, NEW section, PushPromiseFails(id, section) PROVE Typed'
  BY <1>2, <1>7, KeptTyped, Zenon DEF PushPromiseFails, Typed
<1>8. ASSUME NEW id \in StreamId, NEW n \in DataLengths, NEW end, SendData(id, n, end)
      PROVE  Typed'
  <2> DEFINE used == IF n = 0 THEN 0 ELSE Available(id, n)
  <2> DEFINE sw == [sendWindow EXCEPT ![id] = @ - used]
  <2> DEFINE se == [sent EXCEPT ![id] = AfterData(@, used)]
  <2>1. n \in Nat
    BY SessionAssumption, Zenon DEF SessionAssumption
  <2>2. used \in Nat
    <3>1. IF n = 0 THEN TRUE ELSE Available(id, n) > 0
      BY <1>8, Zenon DEF SendData
    <3> QED
      BY <2>1, <3>1, AvailableBounds DEF Typed
  <2>3. /\ \E q : SetStreams(q, sw, recvWindow, se, received, method)
        /\ connectionSendWindow' = connectionSendWindow - used
        /\ UNCHANGED <<connectionRecvWindow, settingVars, localUnchanged>>
    BY <1>8, Zenon DEF SendData, LocalEnd
  <2>4. sw \in [StreamId -> Int]
    <3> HIDE DEF used
    <3> QED
      BY <2>2 DEF Typed, StreamsTyped
  <2>5. se \in [StreamId -> Progress]
    <3> HIDE DEF used
    <3> QED
      BY <2>2, ProgressTyped, Zenon DEF Typed, StreamsTyped
  <2>6. StreamsTyped'
    <3> HIDE DEF sw, se
    <3> QED
      BY <2>3, <2>4, <2>5, SetStreamsTyped, Zenon DEF Typed, StreamsTyped
  <2>7. ConnectionTyped'
    <3> HIDE DEF used
    <3>1. connectionSendWindow' \in Int
      BY <2>2, <2>3 DEF Typed, ConnectionTyped
    <3> QED
      BY <2>3, <3>1, <1>1, Zenon DEF Typed, ConnectionTyped, settingVars
  <2> QED
    BY <1>1, <2>3, <2>6, <2>7, Zenon DEF Typed
<1>9. ASSUME NEW id, ResetStream(id) PROVE Typed'
  <2>1. StreamsTyped'
    BY <1>9, EndTyped, Zenon DEF ResetStream, Typed
  <2> QED
    BY <1>2, <1>9, <2>1, Zenon DEF ResetStream
<1>10. ASSUME NEW settings \in LocalSettings, UpdateSettings(settings) PROVE Typed'
  <2> DEFINE window == Updated(limits.initialWindow, settings.initialWindow)
  <2> DEFINE change == window - limits.initialWindow
  <2>1. settings \in [maxConcurrent : {Keep} \cup Nat, initialWindow : {Keep} \cup 0 .. MaxWindow,
                      enablePush : {Keep, 0, 1}]
    BY SessionAssumption, Zenon DEF SessionAssumption
  <2>2. /\ settings.maxConcurrent <= MaxStreams
        /\ limits' = [maxConcurrent |-> Updated(limits.maxConcurrent, settings.maxConcurrent),
                      initialWindow |-> window,
                      enablePush |-> IF settings.enablePush = Keep THEN limits.enablePush
                                     ELSE settings.enablePush = 1]
        /\ recvWindow' = [id \in StreamId |-> IF id \in Retained THEN recvWindow[id] + change
                                              ELSE recvWindow[id]]
        /\ UNCHANGED <<sendWindow, sent, received, method, windowVars, peer, localUnchanged>>
    BY <1>10, Zenon DEF UpdateSettings
  <2>3. window \in 0 .. MaxWindow
    BY <2>1, Zenon DEF Updated, Typed, ConnectionTyped
  <2>4. change \in Int
    <3> HIDE DEF window
    <3> QED
      BY <2>3 DEF Typed, ConnectionTyped
  <2>5. StreamsTyped'
    <3> HIDE DEF change
    <3>1. recvWindow' \in [StreamId -> Int]
      <4>1. recvWindow \in [StreamId -> Int]
        BY Zenon DEF Typed, StreamsTyped
      <4> QED
        BY <2>2, <2>4, <4>1
    <3>2. UNCHANGED <<sendWindow, sent, received, method>>
      BY <2>2, Zenon
    <3> QED
      BY <3>1, <3>2, Zenon DEF Typed, StreamsTyped
  <2>6. Updated(limits.maxConcurrent, settings.maxConcurrent) \in 0 .. MaxStreams
    BY <2>1, <2>2, TableAssumption DEF Updated, Typed, ConnectionTyped, TableAssumption
  <2>7. (IF settings.enablePush = Keep THEN limits.enablePush ELSE settings.enablePush = 1)
          \in BOOLEAN
    BY Zenon DEF Typed, ConnectionTyped
  <2>8. limits' \in [maxConcurrent : 0 .. MaxStreams, initialWindow : 0 .. MaxWindow,
                     enablePush : BOOLEAN]
    BY <2>2, <2>3, <2>6, <2>7, Zenon
  <2>9. ConnectionTyped'
    BY <1>1, <2>2, <2>8, Zenon DEF Typed, ConnectionTyped, windowVars
  <2> QED
    BY <1>1, <2>2, <2>5, <2>9, Zenon DEF Typed
<1>11. ASSUME SendControl \/ GoAway \/ ConsumeOutput \/ NextEvent PROVE Typed'
  BY <1>2, <1>11, KeptTyped, Zenon DEF SendControl, GoAway, ConsumeOutput, NextEvent, Typed
<1>12. ASSUME Close PROVE Typed'
  <2>1. "" \in Method
    BY Zenon DEF Method
  <2>2. ASSUME NEW T, NEW none \in T PROVE [id \in StreamId |-> none] \in [StreamId -> T]
    BY Zenon
  <2>3. /\ sendWindow' = [id \in StreamId |-> 0]
        /\ recvWindow' = [id \in StreamId |-> 0]
        /\ sent' = [id \in StreamId |-> NoProgress]
        /\ received' = [id \in StreamId |-> NoProgress]
        /\ method' = [id \in StreamId |-> ""]
        /\ UNCHANGED <<windowVars, settingVars, localUnchanged>>
    BY <1>12, Zenon DEF Close
  <2>4. 0 \in Int /\ NoProgress \in Progress
    BY ProgressTyped
  <2>5. StreamsTyped'
    BY <2>1, <2>2, <2>3, <2>4, Zenon DEF StreamsTyped
  <2> QED
    BY <1>2, <2>3, <2>5, Zenon
<1> QED
  BY <1>3, <1>4, <1>5, <1>6, <1>7, <1>8, <1>9, <1>10, <1>11, <1>12, ZenonT(40) DEF LocalCall

\* A SETTINGS frame leaves a well-typed record of the peer's settings.
LEMMA PeerAfterTyped ==
  ASSUME ConnectionTyped, NEW settings \in PeerSettings
  PROVE  PeerAfter(settings)
           \in [maxConcurrent : Nat, initialWindow : 0 .. MaxWindow,
                maxFrame : Nat \ {0}, enablePush : BOOLEAN, noPriorities : BOOLEAN,
                settled : BOOLEAN, goAway : BOOLEAN, lastStream : 0 .. MaxStreamId]
<1>1. settings \in [maxConcurrent : {Keep} \cup Nat, initialWindow : {Keep} \cup 0 .. MaxWindow,
                    maxFrame : {Keep} \cup (Nat \ {0}), enablePush : {Keep, 0, 1},
                    noPriorities : {Keep, 0, 1}]
  BY SessionAssumption, Zenon DEF SessionAssumption
<1>2. /\ Updated(peer.maxConcurrent, settings.maxConcurrent) \in Nat
      /\ Updated(peer.initialWindow, settings.initialWindow) \in 0 .. MaxWindow
      /\ Updated(peer.maxFrame, settings.maxFrame) \in Nat \ {0}
  BY <1>1, Zenon DEF Updated, ConnectionTyped
<1>3. /\ (IF settings.enablePush = Keep THEN peer.enablePush ELSE settings.enablePush = 1) \in BOOLEAN
      /\ (IF settings.noPriorities = Keep THEN peer.noPriorities ELSE settings.noPriorities = 1)
           \in BOOLEAN
  BY Zenon DEF ConnectionTyped
<1> DEFINE mc == Updated(peer.maxConcurrent, settings.maxConcurrent)
           iw == Updated(peer.initialWindow, settings.initialWindow)
           mf == Updated(peer.maxFrame, settings.maxFrame)
           ep == IF settings.enablePush = Keep THEN peer.enablePush ELSE settings.enablePush = 1
           np == IF settings.noPriorities = Keep THEN peer.noPriorities
                 ELSE settings.noPriorities = 1
<1>4. PeerAfter(settings)
        = [peer EXCEPT !.maxConcurrent = mc, !.initialWindow = iw, !.maxFrame = mf,
                       !.enablePush = ep, !.noPriorities = np, !.settled = TRUE]
  BY Zenon DEF PeerAfter
<1>5. mc \in Nat /\ iw \in 0 .. MaxWindow /\ mf \in Nat \ {0} /\ ep \in BOOLEAN /\ np \in BOOLEAN
  BY <1>2, <1>3, Zenon
<1> HIDE DEF mc, iw, mf, ep, np
<1> QED
  BY <1>4, <1>5, ZenonT(40) DEF ConnectionTyped

\* Control frames keep the types.
LEMMA ReceiveControlTyped == ASSUME Typed, ReceiveControl PROVE Typed'
<1>1. ASSUME UNCHANGED connectionVars, UNCHANGED <<frame, headerVars>>, StreamsTyped' PROVE Typed'
  BY <1>1, KeptTyped, Zenon DEF Typed
<1>2. ASSUME UNCHANGED <<windowVars, settingVars, lastProcessedPeerStream, frame, headerVars>>,
             StreamsTyped'
      PROVE  Typed'
  BY <1>1, <1>2, Zenon DEF connectionVars, settingVars
<1>3. UNCHANGED streamVars => StreamsTyped'
  BY KeptTyped, Zenon DEF Typed
<1>4. ASSUME UNCHANGED controlUnchanged, StreamsTyped' PROVE Typed'
  BY <1>2, <1>4, Zenon DEF controlUnchanged
<1>5. ASSUME RecvPreface PROVE Typed'
  BY <1>2, <1>3, <1>5, Zenon DEF RecvPreface
<1>6. ASSUME ParseError \/ FirstFrameNotSettings PROVE Typed'
  BY <1>6, ErrorTyped, Zenon DEF ParseError, FirstFrameNotSettings
<1>7. ASSUME RecvPriority \/ RecvUnknown PROVE Typed'
  BY <1>3, <1>4, <1>7, Zenon DEF RecvPriority, RecvUnknown
<1>8. ASSUME NEW valid, RecvPriorityUpdate(valid) PROVE Typed'
  BY <1>3, <1>4, <1>8, Zenon DEF RecvPriorityUpdate
<1>9. ASSUME NEW id, RecvRSTStreamUnknown(id) PROVE Typed'
  BY <1>3, <1>4, <1>9, ErrorTyped, Zenon DEF RecvRSTStreamUnknown
<1>10. ASSUME NEW id, RecvRSTStream(id) PROVE Typed'
  <2>1. StreamsTyped'
    BY <1>10, EndTyped, Zenon DEF RecvRSTStream, Typed
  <2> QED
    BY <1>4, <1>10, <2>1, Zenon DEF RecvRSTStream
<1>11. ASSUME NEW id, RecvWindowUpdateLate(id) PROVE Typed'
  BY <1>3, <1>4, <1>11, ErrorTyped, Zenon DEF RecvWindowUpdateLate
<1>12. ASSUME NEW settings, RecvSettingsRejected(settings) PROVE Typed'
  BY <1>12, ErrorTyped, Zenon DEF RecvSettingsRejected
<1>13. ASSUME NEW settings \in PeerSettings, RecvSettings(settings) PROVE Typed'
  <2> DEFINE change == SendWindowChange(settings)
  <2>1. /\ peer' = PeerAfter(settings)
        /\ sendWindow' = [id \in StreamId |-> IF id \in Live THEN sendWindow[id] + change
                                              ELSE sendWindow[id]]
        /\ UNCHANGED <<recvWindow, sent, received, method, windowVars, limits,
                       lastProcessedPeerStream, frame, headerVars>>
    BY <1>13, Zenon DEF RecvSettings
  <2>2. change \in Int
    <3>1. settings.initialWindow \in {Keep} \cup 0 .. MaxWindow
      BY SessionAssumption, Zenon DEF SessionAssumption
    <3> QED
      BY <3>1 DEF SendWindowChange, Updated, Keep, Typed, ConnectionTyped
  <2>3. StreamsTyped'
    <3> HIDE DEF change
    <3> QED
      BY <2>1, <2>2 DEF Typed, StreamsTyped
  <2>4. ConnectionTyped'
    BY <2>1, PeerAfterTyped, Zenon DEF Typed, ConnectionTyped, windowVars
  <2> QED
    BY <2>1, <2>3, <2>4, KeptTyped, Zenon DEF Typed
<1>14. ASSUME RecvSettingsAck PROVE Typed'
  <2>1. CASE ConnectionError("PROTOCOL")
    BY <2>1, ErrorTyped, Zenon
  <2>2. CASE ~ConnectionError("PROTOCOL")
    <3>1. UNCHANGED <<streamVars, windowVars, peer, limits, lastProcessedPeerStream, frame,
                      headerVars>>
      BY <1>14, <2>2, Zenon DEF RecvSettingsAck
    <3> QED
      BY <1>1, <1>3, <3>1, Zenon DEF connectionVars
  <2> QED
    BY <2>1, <2>2, Zenon
<1>15. ASSUME NEW ack, RecvPing(ack) PROVE Typed'
  BY <1>3, <1>4, <1>15, ErrorTyped, Zenon DEF RecvPing
<1>16. ASSUME NEW last \in LastStreams, RecvGoAway(last) PROVE Typed'
  <2>1. CASE ConnectionError("PROTOCOL")
    BY <2>1, ErrorTyped, Zenon
  <2>2. CASE ~ConnectionError("PROTOCOL")
    <3>1. /\ peer' = [peer EXCEPT !.goAway = TRUE, !.lastStream = last]
          /\ \E q : End(q)
          /\ UNCHANGED <<windowVars, limits, lastProcessedPeerStream, frame, headerVars>>
      BY <1>16, <2>2, Zenon DEF RecvGoAway
    <3>2. StreamsTyped'
      BY <3>1, EndTyped, Zenon DEF Typed
    <3>3. last \in 0 .. MaxStreamId
      BY SessionAssumption, Zenon DEF SessionAssumption
    <3>4. ConnectionTyped'
      BY <3>1, <3>3, Zenon DEF Typed, ConnectionTyped, windowVars
    <3> QED
      BY <3>1, <3>2, <3>4, KeptTyped, Zenon DEF Typed
  <2> QED
    BY <2>1, <2>2, Zenon
<1>17. ASSUME NEW n \in Increments, RecvConnectionWindowUpdate(n) PROVE Typed'
  <2>1. CASE ConnectionError("FLOW_CONTROL")
    BY <2>1, ErrorTyped, Zenon
  <2>2. CASE ~ConnectionError("FLOW_CONTROL")
    <3>1. /\ connectionSendWindow' = connectionSendWindow + n
          /\ UNCHANGED <<streamVars, connectionRecvWindow, settingVars, lastProcessedPeerStream,
                         frame, headerVars>>
      BY <1>17, <2>2, Zenon DEF RecvConnectionWindowUpdate
    <3>2. n \in Int
      BY SessionAssumption DEF SessionAssumption
    <3>3. ConnectionTyped'
      BY <3>1, <3>2 DEF Typed, ConnectionTyped, settingVars
    <3> QED
      BY <1>3, <3>1, <3>3, KeptTyped, Zenon DEF Typed
  <2> QED
    BY <2>1, <2>2, Zenon
<1>18. ASSUME NEW id \in StreamId, NEW n \in Increments, RecvWindowUpdate(id, n) PROVE Typed'
  <2>1. n \in Int
    BY SessionAssumption DEF SessionAssumption
  <2>2. CASE End(<<id>>)
    BY <1>4, <1>18, <2>2, EndTyped, Zenon DEF RecvWindowUpdate, Typed
  <2>3. CASE /\ sendWindow' = [sendWindow EXCEPT ![id] = @ + n]
             /\ UNCHANGED <<recvWindow, sent, received, method>>
    <3>1. StreamsTyped'
      BY <2>1, <2>3 DEF Typed, StreamsTyped
    <3> QED
      BY <1>4, <1>18, <3>1, Zenon DEF RecvWindowUpdate
  <2> QED
    BY <1>18, <2>2, <2>3, Zenon DEF RecvWindowUpdate
<1> QED
  BY <1>5, <1>6, <1>7, <1>8, <1>9, <1>10, <1>11, <1>12, <1>13, <1>14, <1>15, <1>16, <1>17,
     <1>18, ZenonT(40) DEF ReceiveControl

\* Header blocks keep the types.
LEMMA ReceiveHeadersTyped == ASSUME Typed, ParserInv, ReceiveHeaders PROVE Typed'
<1>1. UNCHANGED streamVars => StreamsTyped'
  BY KeptTyped, Zenon DEF Typed
<1>2. ASSUME UNCHANGED beginUnchanged PROVE ConnectionTyped' /\ frame' = frame
  <2>1. UNCHANGED connectionVars
    BY <1>2, Zenon DEF beginUnchanged, settingVars, connectionVars
  <2> QED
    BY <1>2, <2>1, KeptTyped, Zenon DEF Typed, beginUnchanged
<1>3. \A id \in StreamId : id \in 0 .. MaxStreamId
  BY DEF StreamId
<1>4. ASSUME NEW id \in StreamId, NEW end \in BOOLEAN, NEW push \in BOOLEAN,
             BeginBlock(id, end, push)
      PROVE  block' \in [stream : 0 .. MaxStreamId, end : BOOLEAN, push : BOOLEAN,
                         continued : BOOLEAN]
  BY <1>3, <1>4, Zenon DEF BeginBlock
<1>5. ASSUME NEW id \in StreamId, NEW event \in StreamId, NEW trailer \in BOOLEAN,
             NEW push \in BOOLEAN, Decode(id, event, trailer, push)
      PROVE  /\ current' \in [stream : 0 .. MaxStreamId, event : 0 .. MaxStreamId,
                              trailer : BOOLEAN, push : BOOLEAN]
             /\ decoding' \in BOOLEAN
  BY <1>3, <1>5, Zenon DEF Decode
<1>6. ASSUME NEW id \in StreamId, NEW end \in BOOLEAN, NEW push \in BOOLEAN,
             BeginBlock(id, end, push), UNCHANGED beginUnchanged, StreamsTyped',
             \/ UNCHANGED <<current, decoding>>
             \/ \E event \in StreamId, trailer \in BOOLEAN, p \in BOOLEAN :
                  Decode(id, event, trailer, p)
      PROVE  Typed'
  <2>1. /\ current' \in [stream : 0 .. MaxStreamId, event : 0 .. MaxStreamId,
                         trailer : BOOLEAN, push : BOOLEAN]
        /\ decoding' \in BOOLEAN
    BY <1>5, <1>6 DEF Typed, ParserTyped
  <2>2. ParserTyped'
    BY <1>2, <1>4, <1>6, <2>1, Zenon DEF Typed, ParserTyped
  <2> QED
    BY <1>2, <1>6, <2>2, Zenon DEF Typed
<1>7. ASSUME NEW id \in StreamId, NEW end \in BOOLEAN, RefuseBlock(id, end) PROVE Typed'
  <2>1. StreamsTyped'
    BY <1>7, EndTyped, Zenon DEF RefuseBlock, Typed
  <2> QED
    BY <1>6, <1>7, <2>1, Zenon DEF RefuseBlock
<1>8. ASSUME NEW id, NewStream(id, NoProgress, "") PROVE StreamsTyped'
  <2>1. "" \in Method
    BY Zenon DEF Method
  <2> QED
    BY <1>8, <2>1, ProgressTyped, NewStreamTyped, Zenon DEF Typed
<1>9. ASSUME NEW id \in StreamId, NEW end \in BOOLEAN, RecvHeadersOpen(id, end) PROVE Typed'
  <2>1. CASE /\ NewStream(id, NoProgress, "") /\ BeginBlock(id, end, FALSE)
             /\ Decode(id, id, FALSE, FALSE) /\ UNCHANGED beginUnchanged
    BY <1>6, <1>8, <2>1, Zenon
  <2> QED
    BY <1>7, <1>9, <2>1, ErrorTyped, Zenon DEF RecvHeadersOpen
<1>10. ASSUME NEW id \in StreamId, NEW end \in BOOLEAN, RecvHeaders(id, end) PROVE Typed'
  <2>1. CASE /\ BeginBlock(id, end, FALSE) /\ Decode(id, id, received[id].headers, FALSE)
             /\ UNCHANGED streamVars /\ UNCHANGED beginUnchanged
    <3>1. received[id].headers \in BOOLEAN
      BY Zenon DEF Typed, StreamsTyped, Progress
    <3> QED
      BY <1>1, <1>6, <2>1, <3>1, Zenon
  <2> QED
    BY <1>7, <1>10, <2>1, ErrorTyped, Zenon DEF RecvHeaders
<1>11. ASSUME NEW parent \in StreamId, NEW id \in StreamId, RecvPushPromise(parent, id)
       PROVE  Typed'
  <2>1. CASE /\ BeginBlock(parent, FALSE, TRUE)
             /\ UNCHANGED <<streamVars, current, decoding, beginUnchanged>>
    BY <1>1, <1>6, <2>1, Zenon
  <2>2. CASE /\ NewStream(id, NoProgress, "") /\ BeginBlock(parent, FALSE, TRUE)
             /\ Decode(parent, id, FALSE, TRUE) /\ UNCHANGED beginUnchanged
    BY <1>6, <1>8, <2>2, Zenon
  <2> QED
    BY <1>11, <2>1, <2>2, ErrorTyped, Zenon DEF RecvPushPromise
<1>12. ASSUME UNCHANGED endUnchanged, UNCHANGED lastProcessedPeerStream
       PROVE  ConnectionTyped' /\ frame' = frame
  <2>1. UNCHANGED connectionVars
    BY <1>12, Zenon DEF endUnchanged, settingVars, connectionVars
  <2> QED
    BY <1>12, <2>1, KeptTyped, Zenon DEF Typed, endUnchanged
<1>13. ASSUME StreamsTyped', ConnectionTyped', frame' = frame, block' = NoBlock,
              decoding' \in BOOLEAN, current' = current \/ current' = NoCurrent
       PROVE  Typed'
  <2>1. ParserTyped'
    BY <1>13, NoneTyped, Zenon DEF Typed, ParserTyped
  <2> QED
    BY <1>13, <2>1, Zenon DEF Typed
<1>14. ASSUME ContinueBlock PROVE Typed'
  <2>1. /\ UNCHANGED <<streamVars, windowVars, settingVars, lastProcessedPeerStream, frame,
                       current, decoding>>
        /\ block' = [block EXCEPT !.continued = TRUE]
    BY <1>14, Zenon DEF ContinueBlock
  <2>2. UNCHANGED connectionVars
    BY <2>1, Zenon DEF settingVars, connectionVars
  <2>3. ParserTyped'
    BY <2>1, Zenon DEF Typed, ParserTyped
  <2> QED
    BY <1>1, <2>1, <2>2, <2>3, KeptTyped, Zenon DEF Typed
<1>15. ASSUME EndIgnoredBlock PROVE Typed'
  <2>1. decoding' \in BOOLEAN
    BY <1>15, Zenon DEF EndIgnoredBlock, Typed, ParserTyped
  <2> QED
    BY <1>1, <1>12, <1>13, <1>15, <2>1, Zenon DEF EndIgnoredBlock
<1>16. ASSUME NEW section, CompressionError(section) \/ EndBlockNoRoom(section) PROVE Typed'
  BY <1>16, ErrorTyped, Zenon DEF CompressionError, EndBlockNoRoom
<1>17. ASSUME NEW section, EndRejectedBlock(section) PROVE Typed'
  <2>1. /\ UNCHANGED streamVars \/ \E q : End(q)
        /\ block' = NoBlock /\ decoding' = FALSE
        /\ UNCHANGED <<current, lastProcessedPeerStream, endUnchanged>>
    BY <1>17, Zenon DEF EndRejectedBlock
  <2>2. StreamsTyped'
    BY <1>1, <2>1, EndTyped, Zenon DEF Typed
  <2> QED
    BY <1>12, <1>13, <2>1, <2>2, Zenon
<1>18. ASSUME EndBlock, UNCHANGED <<lastProcessedPeerStream, endUnchanged>>, StreamsTyped'
       PROVE  Typed'
  BY <1>12, <1>13, <1>18, Zenon DEF EndBlock
<1>19. ASSUME NEW section, Accepted(section) PROVE current.event \in StreamId
  BY <1>19, Zenon DEF Accepted, Decoded, ParserInv
<1>20. ASSUME NEW section, EndPushPromise(section) PROVE Typed'
  <2>1. /\ method' = [method EXCEPT ![current.event] = MethodOf(section)]
        /\ UNCHANGED <<sendWindow, recvWindow, sent, received>>
    BY <1>20, Zenon DEF EndPushPromise
  <2>2. StreamsTyped'
    BY <2>1, ProgressTyped, Zenon DEF Typed, StreamsTyped
  <2> QED
    BY <1>18, <1>20, <2>2, Zenon DEF EndPushPromise
<1>21. ASSUME NEW section, EndInformational(section) PROVE Typed'
  <2>1. StreamsTyped'
    BY <1>1, <1>21, EndTyped, Zenon DEF EndInformational, Typed
  <2> QED
    BY <1>18, <1>21, <2>1, Zenon DEF EndInformational
<1>22. ASSUME NEW section \in Sections, EndMessageBlock(section) PROVE Typed'
  <2> DEFINE id == current.event
  <2> DEFINE me == [method EXCEPT ![id] = FirstNonEmpty(@, MethodOf(section))]
  <2> DEFINE re == [received EXCEPT ![id] = AfterSection(@, section, NoBody(me[id], section))]
  <2>1. id \in StreamId
    BY <1>19, <1>22, Zenon DEF EndMessageBlock
  <2>2. /\ \/ RemoteEnd(id, recvWindow, re, me, 0, 1)
           \/ received' = re /\ method' = me
              /\ UNCHANGED <<sendWindow, recvWindow, sent, lastProcessedPeerStream>>
        /\ EndBlock
        /\ UNCHANGED endUnchanged
    BY <1>22, Zenon DEF EndMessageBlock
  <2>3. me \in [StreamId -> Method]
    BY ProgressTyped, Zenon DEF Typed, StreamsTyped
  <2>4. NoBody(me[id], section) \in BOOLEAN
    BY Zenon DEF NoBody
  <2>5. re \in [StreamId -> Progress]
    <3> DEFINE b == NoBody(me[id], section)
    <3>1. b \in BOOLEAN
      BY <2>4, Zenon
    <3> HIDE DEF b, id
    <3>2. [received EXCEPT ![id] = AfterSection(@, section, b)] \in [StreamId -> Progress]
      BY <3>1, ProgressTyped, Zenon DEF Typed, StreamsTyped
    <3> QED
      BY <3>2, Zenon DEF b
  <2> HIDE DEF me, re, id
  <2>6. /\ StreamsTyped'
        /\ lastProcessedPeerStream' \in {id, lastProcessedPeerStream}
    <3>1. CASE RemoteEnd(id, recvWindow, re, me, 0, 1)
      <4>1. \E q : SetStreams(q, sendWindow, recvWindow, sent, re, me)
        BY <3>1, Zenon DEF RemoteEnd
      <4>2. StreamsTyped'
        BY <2>3, <2>5, <4>1, SetStreamsTyped, Zenon DEF Typed, StreamsTyped
      <4>3. lastProcessedPeerStream' \in {id, lastProcessedPeerStream}
        BY <3>1, Zenon DEF RemoteEnd
      <4> QED
        BY <4>2, <4>3, Zenon
    <3>2. CASE received' = re /\ method' = me
               /\ UNCHANGED <<sendWindow, recvWindow, sent, lastProcessedPeerStream>>
      BY <2>3, <2>5, <3>2, Zenon DEF Typed, StreamsTyped
    <3> QED
      BY <2>2, <3>1, <3>2, Zenon
  <2>7. ConnectionTyped'
    BY <1>3, <2>1, <2>2, <2>6, Zenon DEF Typed, ConnectionTyped, endUnchanged, settingVars, windowVars
  <2> QED
    BY <1>13, <2>2, <2>6, <2>7, Zenon DEF EndBlock, endUnchanged
<1> QED
  BY <1>9, <1>10, <1>11, <1>14, <1>15, <1>16, <1>17, <1>20, <1>21, <1>22, ZenonT(40)
     DEF ReceiveHeaders

\* DATA frames keep the types.
LEMMA ReceiveDataTyped == ASSUME Typed, ParserInv, ReceiveData PROVE Typed'
<1>1. UNCHANGED streamVars => StreamsTyped'
  BY KeptTyped, Zenon DEF Typed
<1>2. ASSUME UNCHANGED dataUnchanged PROVE UNCHANGED <<peer, limits, block, current, decoding>>
  BY <1>2, Zenon DEF dataUnchanged, settingVars, headerVars
<1>3. ASSUME UNCHANGED dataUnchanged, StreamsTyped',
             connectionSendWindow' \in Int, connectionRecvWindow' \in Int,
             lastProcessedPeerStream' \in 0 .. MaxStreamId,
             frame' \in [stream : 0 .. MaxStreamId, left : Nat, end : BOOLEAN]
      PROVE  Typed'
  <2>1. ConnectionTyped'
    BY <1>2, <1>3, Zenon DEF Typed, ConnectionTyped
  <2>2. ParserTyped'
    BY <1>2, <1>3, Zenon DEF Typed, ParserTyped
  <2> QED
    BY <1>3, <2>1, <2>2, Zenon DEF Typed
<1>4. ASSUME NEW id \in StreamId, NEW n \in DataLengths, NEW m \in 0 .. n, NEW end \in BOOLEAN,
             BeginData(id, n, m, end)
      PROVE  Typed'
  <2>1. n \in Nat /\ m \in Nat /\ id \in 0 .. MaxStreamId
    BY SessionAssumption DEF SessionAssumption, StreamId
  <2>2. /\ frame' = [stream |-> id, left |-> m, end |-> end]
        /\ UNCHANGED <<lastProcessedPeerStream, dataUnchanged>>
        /\ \/ End(IfLive(id)) /\ UNCHANGED windowVars
           \/ /\ connectionRecvWindow' = connectionRecvWindow - n
              /\ recvWindow' = [recvWindow EXCEPT ![id] = @ - n]
              /\ UNCHANGED <<sendWindow, sent, received, method, connectionSendWindow>>
    BY <1>4, Zenon DEF BeginData
  <2>3. frame' \in [stream : 0 .. MaxStreamId, left : Nat, end : BOOLEAN]
    BY <2>1, <2>2, Zenon
  <2>4. connectionSendWindow' \in Int /\ connectionRecvWindow' \in Int
    BY <2>1, <2>2 DEF Typed, ConnectionTyped, windowVars
  <2>5. StreamsTyped'
    <3>1. CASE End(IfLive(id))
      BY <3>1, EndTyped, Zenon DEF Typed
    <3>2. CASE /\ recvWindow' = [recvWindow EXCEPT ![id] = @ - n]
               /\ UNCHANGED <<sendWindow, sent, received, method>>
      BY <2>1, <3>2 DEF Typed, StreamsTyped
    <3> QED
      BY <2>2, <3>1, <3>2, Zenon
  <2> QED
    BY <1>3, <2>2, <2>3, <2>4, <2>5, Zenon DEF Typed, ConnectionTyped
<1>5. ASSUME NEW id, NEW n, BeginDataOverConnectionWindow(id, n) PROVE Typed'
  BY <1>5, ErrorTyped, Zenon DEF BeginDataOverConnectionWindow
<1>6. ASSUME NEW k \in DataLengths, RecvDataFragment(k) PROVE Typed'
  <2>1. k \in Nat
    BY SessionAssumption, Zenon DEF SessionAssumption
  <2>2. /\ k \in 1 .. frame.left
        /\ frame' = [frame EXCEPT !.left = @ - k]
        /\ UNCHANGED <<windowVars, lastProcessedPeerStream, dataUnchanged>>
        /\ \/ UNCHANGED streamVars
           \/ End(IfLive(frame.stream))
           \/ /\ received' = [received EXCEPT ![frame.stream] = AfterData(@, k)]
              /\ UNCHANGED <<sendWindow, recvWindow, sent, method>>
    BY <1>6, Zenon DEF RecvDataFragment
  <2>3. frame' \in [stream : 0 .. MaxStreamId, left : Nat, end : BOOLEAN]
    BY <2>1, <2>2 DEF Typed, ParserTyped
  <2>4. StreamsTyped'
    <3>1. CASE End(IfLive(frame.stream))
      BY <3>1, EndTyped, Zenon DEF Typed
    <3>2. CASE /\ received' = [received EXCEPT ![frame.stream] = AfterData(@, k)]
               /\ UNCHANGED <<sendWindow, recvWindow, sent, method>>
      BY <2>1, <3>2, ProgressTyped, Zenon DEF Typed, StreamsTyped
    <3> QED
      BY <1>1, <2>2, <3>1, <3>2, Zenon
  <2> QED
    BY <1>3, <2>2, <2>3, <2>4, Zenon DEF Typed, ConnectionTyped, windowVars
<1>7. ASSUME DataNoRoom PROVE Typed'
  BY <1>7, ErrorTyped, Zenon DEF DataNoRoom
<1>8. ASSUME CompleteData PROVE Typed'
  <2> DEFINE id == frame.stream
  <2> DEFINE rw == [recvWindow EXCEPT ![id] = @ + Credit(recvWindow[id])]
  <2>1. frame # NoFrame /\ frame' = NoFrame /\ UNCHANGED dataUnchanged
    BY <1>8, Zenon DEF CompleteData
  <2>2. id \in StreamId /\ id \in 0 .. MaxStreamId
    BY <2>1, TableAssumption DEF ParserInv, StreamId, TableAssumption
  <2>3. frame' \in [stream : 0 .. MaxStreamId, left : Nat, end : BOOLEAN]
    BY <2>1, NoneTyped, Zenon
  <2>4. \/ UNCHANGED <<streamVars, windowVars, lastProcessedPeerStream>>
        \/ /\ connectionRecvWindow' = connectionRecvWindow + Credit(connectionRecvWindow)
           /\ UNCHANGED connectionSendWindow
           /\ \/ \E n : RemoteEnd(id, rw, received, method, n, 0)
              \/ /\ recvWindow' = rw
                 /\ UNCHANGED <<sendWindow, sent, received, method, lastProcessedPeerStream>>
    BY <1>8, Zenon DEF CompleteData
  <2>5. rw \in [StreamId -> Int]
    <3>1. recvWindow[id] \in Int
      BY <2>2, Zenon DEF Typed, StreamsTyped
    <3>2. Credit(recvWindow[id]) \in Int
      BY <3>1, CreditBounds DEF Typed
    <3> HIDE DEF id
    <3> QED
      BY <2>2, <3>1, <3>2 DEF Typed, StreamsTyped
  <2>6. Credit(connectionRecvWindow) \in Int
    BY CreditBounds DEF Typed, ConnectionTyped
  <2> HIDE DEF rw, id
  <2>7. CASE UNCHANGED <<streamVars, windowVars, lastProcessedPeerStream>>
    BY <1>1, <1>3, <2>1, <2>3, <2>7, Zenon DEF Typed, ConnectionTyped, windowVars
  <2>8. CASE /\ connectionRecvWindow' = connectionRecvWindow + Credit(connectionRecvWindow)
             /\ UNCHANGED connectionSendWindow
             /\ \/ \E n : RemoteEnd(id, rw, received, method, n, 0)
                \/ /\ recvWindow' = rw
                   /\ UNCHANGED <<sendWindow, sent, received, method, lastProcessedPeerStream>>
    <3>1. connectionSendWindow' \in Int /\ connectionRecvWindow' \in Int
      BY <2>6, <2>8 DEF Typed, ConnectionTyped
    <3>2. StreamsTyped' /\ lastProcessedPeerStream' \in {id, lastProcessedPeerStream}
      <4>1. ASSUME NEW n, RemoteEnd(id, rw, received, method, n, 0)
            PROVE  StreamsTyped' /\ lastProcessedPeerStream' \in {id, lastProcessedPeerStream}
        <5>1. \E q : SetStreams(q, sendWindow, rw, sent, received, method)
          BY <4>1, Zenon DEF RemoteEnd
        <5>2. StreamsTyped'
          BY <2>5, <5>1, SetStreamsTyped, Zenon DEF Typed, StreamsTyped
        <5>3. lastProcessedPeerStream' \in {id, lastProcessedPeerStream}
          BY <4>1, Zenon DEF RemoteEnd
        <5> QED
          BY <5>2, <5>3, Zenon
      <4>2. CASE /\ recvWindow' = rw
                 /\ UNCHANGED <<sendWindow, sent, received, method, lastProcessedPeerStream>>
        BY <2>5, <4>2, Zenon DEF Typed, StreamsTyped
      <4> QED
        BY <2>8, <4>1, <4>2, Zenon
    <3>3. lastProcessedPeerStream' \in 0 .. MaxStreamId
      BY <2>2, <3>2, Zenon DEF Typed, ConnectionTyped
    <3> QED
      BY <1>3, <2>1, <2>3, <3>1, <3>2, <3>3, Zenon
  <2> QED
    BY <2>4, <2>7, <2>8, Zenon
<1> QED
  BY <1>4, <1>5, <1>6, <1>7, <1>8, Zenon DEF ReceiveData

\* The attributes, windows, settings and parser records keep their types.
LEMMA TypedAlways == Spec => []Typed
<1>1. Init => Typed
  <2> SUFFICES ASSUME Init PROVE Typed
    BY Zenon
  <2>1. StreamsTyped
    <3>1. ASSUME NEW T, NEW none \in T PROVE [id \in StreamId |-> none] \in [StreamId -> T]
      BY Zenon
    <3>2. /\ sendWindow = [id \in StreamId |-> 0]
          /\ recvWindow = [id \in StreamId |-> 0]
          /\ sent = [id \in StreamId |-> NoProgress]
          /\ received = [id \in StreamId |-> NoProgress]
          /\ method = [id \in StreamId |-> ""]
      BY Zenon DEF Init
    <3>3. 0 \in Int /\ NoProgress \in Progress
      BY ProgressTyped
    <3>4. "" \in Method
      BY Zenon DEF Method
    <3> QED
      BY <3>1, <3>2, <3>3, <3>4, Zenon DEF StreamsTyped
  <2>2. ConnectionTyped
    <3>1. /\ connectionSendWindow = DefaultWindow
          /\ connectionRecvWindow = InitialWindow
          /\ peer = [maxConcurrent |-> Unlimited, initialWindow |-> DefaultWindow,
                     maxFrame |-> DefaultMaxFrame,
                     enablePush |-> TRUE, noPriorities |-> FALSE, settled |-> FALSE,
                     goAway |-> FALSE, lastStream |-> 0]
          /\ limits = [maxConcurrent |-> MaxConcurrent, initialWindow |-> InitialWindow,
                       enablePush |-> EnablePush]
          /\ lastProcessedPeerStream = 0
      BY Zenon DEF Init
    <3>2. /\ MaxConcurrent \in 1 .. MaxStreams /\ EnablePush \in BOOLEAN
          /\ MaxWindow \in Nat /\ InitialWindow \in 1 .. MaxWindow
          /\ DefaultWindow \in 1 .. MaxWindow
          /\ DefaultMaxFrame \in Nat \ {0} /\ Unlimited \in Nat
      BY SessionAssumption, Zenon DEF SessionAssumption
    <3>3. MaxStreams \in Nat /\ MaxStreamId \in Nat
      BY TableAssumption, Zenon DEF TableAssumption
    <3>4. /\ MaxConcurrent \in 0 .. MaxStreams /\ InitialWindow \in 0 .. MaxWindow
          /\ DefaultWindow \in 0 .. MaxWindow /\ 0 \in 0 .. MaxStreamId
          /\ DefaultWindow \in Int /\ InitialWindow \in Int
      BY <3>2, <3>3
    <3> QED
      BY <3>1, <3>2, <3>4, Zenon DEF ConnectionTyped
  <2>3. ParserTyped
    <3>1. frame = NoFrame /\ block = NoBlock /\ current = NoCurrent /\ decoding = FALSE
      BY Zenon DEF Init
    <3> QED
      BY <3>1, NoneTyped, Zenon DEF ParserTyped
  <2> QED
    BY <2>1, <2>2, <2>3, Zenon DEF Typed
<1>2. Typed /\ ParserInv /\ [Next]_vars => Typed'
  <2> SUFFICES ASSUME Typed, ParserInv, [Next]_vars PROVE Typed'
    BY Zenon
  <2>1. CASE LocalCall
    BY <2>1, LocalCallTyped, Zenon
  <2>2. CASE ReceiveControl
    BY <2>2, ReceiveControlTyped, Zenon
  <2>3. CASE ReceiveHeaders
    BY <2>3, ReceiveHeadersTyped, Zenon
  <2>4. CASE ReceiveData
    BY <2>4, ReceiveDataTyped, Zenon
  <2>5. CASE UNCHANGED vars
    <3>1. UNCHANGED streamVars /\ UNCHANGED connectionVars /\ UNCHANGED <<frame, headerVars>>
      BY <2>5, Zenon DEF vars, connectionVars, settingVars
    <3> QED
      BY <3>1, KeptTyped, Zenon DEF Typed
  <2> QED
    BY <2>1, <2>2, <2>3, <2>4, <2>5, Zenon DEF Next
<1> QED
  BY <1>1, <1>2, ParserCorrect, PTL DEF Spec

-----------------------------------------------------------------------------
(* The decoder and the parser *)

\* While a block is being decoded the parser is inside that block. A block begins
\* only between two blocks, when none is being decoded; the early returns of
\* onHeaderBlockEnd, which leave the session's block in place, end the decoder's.
THEOREM DecoderInStep == Spec => []DecoderFollowsParser
<1>1. Init => DecoderFollowsParser
  <2>1. Init => decoding = FALSE
    BY Zenon DEF Init
  <2> QED
    BY <2>1, Zenon DEF DecoderFollowsParser
<1>2. ASSUME Typed, DecoderFollowsParser, [Next]_vars PROVE DecoderFollowsParser'
  <2>1. ASSUME decoding' = FALSE PROVE DecoderFollowsParser'
    BY <2>1, Zenon DEF DecoderFollowsParser
  <2>2. ASSUME UNCHANGED headerVars PROVE DecoderFollowsParser'
    BY <1>2, <2>2, Zenon DEF DecoderFollowsParser, headerVars
  <2>3. ASSUME NEW code, ConnectionError(code) PROVE DecoderFollowsParser'
    BY <2>1, <2>3, ErrorParser, Zenon DEF Interrupted
  <2>4. CASE LocalCall
    BY <2>2, <2>4, LocalCallParser, Zenon DEF localUnchanged
  <2>5. CASE ReceiveControl
    BY <2>1, <2>2, <2>5, ReceiveControlParser, Zenon DEF Interrupted
  <2>6. CASE ReceiveData
    <3>1. ASSUME NEW id, NEW n, NEW m, NEW end, BeginData(id, n, m, end)
          PROVE  UNCHANGED headerVars
      BY <3>1, Zenon DEF BeginData, dataUnchanged
    <3>2. ASSUME NEW k, RecvDataFragment(k) PROVE UNCHANGED headerVars
      BY <3>2, Zenon DEF RecvDataFragment, dataUnchanged
    <3>3. ASSUME CompleteData PROVE UNCHANGED headerVars
      BY <3>3, Zenon DEF CompleteData, dataUnchanged
    <3>4. ASSUME NEW id, NEW n, BeginDataOverConnectionWindow(id, n)
          PROVE  DecoderFollowsParser'
      BY <2>3, <3>4, Zenon DEF BeginDataOverConnectionWindow
    <3>5. ASSUME DataNoRoom PROVE DecoderFollowsParser'
      BY <2>3, <3>5, Zenon DEF DataNoRoom
    <3> QED
      BY <2>2, <2>6, <3>1, <3>2, <3>3, <3>4, <3>5, Zenon DEF ReceiveData
  <2>7. Settled => ~decoding
    BY <1>2, Zenon DEF Settled, AtFrame, DecoderFollowsParser
  <2>8. ASSUME NEW id \in StreamId, NEW end, NEW push, BeginBlock(id, end, push),
               \/ Settled /\ UNCHANGED <<current, decoding>>
               \/ \E event, trailer, p : Decode(id, event, trailer, p)
        PROVE  DecoderFollowsParser'
    <3>1. block' # NoBlock /\ block'.stream = id
      BY <2>8 DEF BeginBlock, NoBlock, StreamId
    <3>2. CASE \E event, trailer, p : Decode(id, event, trailer, p)
      BY <3>1, <3>2 DEF Decode, DecoderFollowsParser
    <3>3. CASE Settled /\ UNCHANGED <<current, decoding>>
      BY <2>7, <3>3, Zenon DEF DecoderFollowsParser
    <3> QED
      BY <2>8, <3>2, <3>3, Zenon
  <2>9. ASSUME NEW id \in StreamId, NEW end, RecvHeadersOpen(id, end)
        PROVE  DecoderFollowsParser'
    BY <2>3, <2>8, <2>9, Zenon DEF RecvHeadersOpen, RefuseBlock
  <2>10. ASSUME NEW id \in StreamId, NEW end, RecvHeaders(id, end) PROVE DecoderFollowsParser'
    BY <2>3, <2>8, <2>10, Zenon DEF RecvHeaders, RefuseBlock
  <2>11. ASSUME NEW parent \in StreamId, NEW id, RecvPushPromise(parent, id)
         PROVE  DecoderFollowsParser'
    BY <2>3, <2>8, <2>11, Zenon DEF RecvPushPromise
  <2>12. ASSUME ContinueBlock PROVE DecoderFollowsParser'
    <3>1. /\ block' = [block EXCEPT !.continued = TRUE] /\ ~block.continued
          /\ UNCHANGED <<current, decoding>>
      BY <2>12, Zenon DEF ContinueBlock
    <3> QED
      BY <1>2, <3>1, Zenon DEF Typed, ParserTyped, DecoderFollowsParser, NoBlock
  <2>13. ASSUME EndIgnoredBlock PROVE DecoderFollowsParser'
    <3>1. block.stream # current.stream /\ UNCHANGED <<current, decoding>>
      BY <2>13, Zenon DEF EndIgnoredBlock
    <3>2. ~decoding
      BY <1>2, <3>1, Zenon DEF DecoderFollowsParser
    <3> QED
      BY <3>1, <3>2, Zenon DEF DecoderFollowsParser
  <2>14. ASSUME NEW section, \/ EndRejectedBlock(section) \/ EndPushPromise(section)
                             \/ EndInformational(section) \/ EndMessageBlock(section)
         PROVE  DecoderFollowsParser'
    <3>1. decoding' = FALSE
      BY <2>14, Zenon DEF EndRejectedBlock, EndPushPromise, EndInformational, EndMessageBlock,
                          EndBlock
    <3> QED
      BY <2>1, <3>1, Zenon
  <2>15. ASSUME NEW section, CompressionError(section) \/ EndBlockNoRoom(section)
         PROVE  DecoderFollowsParser'
    BY <2>3, <2>15, Zenon DEF CompressionError, EndBlockNoRoom
  <2>16. CASE ReceiveHeaders
    BY <2>9, <2>10, <2>11, <2>12, <2>13, <2>14, <2>15, <2>16, Zenon DEF ReceiveHeaders
  <2>17. CASE UNCHANGED vars
    BY <2>2, <2>17, Zenon DEF vars
  <2> QED
    BY <1>2, <2>4, <2>5, <2>6, <2>16, <2>17, Zenon DEF Next
<1> QED
  BY <1>1, <1>2, TypedAlways, PTL DEF Spec

-----------------------------------------------------------------------------
(* Content-Length of what is sent *)

\* SentLengthExact of one stream, with what SendHeaders needs of a stream that
\* has sent no header section.
SentOK(id) ==
  /\ ~sent[id].headers => sent[id].body = 0
  /\ state[id] \in LiveState =>
       /\ sent[id].length # NoLength => sent[id].body <= sent[id].length
       /\ ~CanSend(state[id]) => ~LengthMismatch(sent[id])

SentInv == \A id \in StreamId : SentOK(id)

\* The arithmetic of a body and its Content-Length: what does not exceed it fits.
LEMMA BodyBounds ==
  /\ \A b \in Nat : b <= b
  /\ \A l \in {NoLength} \cup Nat : l # NoLength => 0 <= l
  /\ \A n \in Nat : 0 \in Nat /\ 0 <= n /\ \A k \in Int : k > 0 /\ k <= n => k \in Nat
  /\ \A r \in Progress, n \in Nat, k \in Nat :
       r.length # NoLength /\ r.body <= r.length /\ ~Exceeds(r, n) /\ k <= n
       => r.body + k <= r.length
BY DEF NoLength, Progress, Exceeds

\* A stream of which the local side is left alone, or that is new or forgotten.
SentKept(id) ==
  \/ /\ sent'[id] = sent[id]
     /\ state'[id] \in LiveState =>
          state[id] \in LiveState /\ (CanSend(state[id]) => CanSend(state'[id]))
  \/ sent'[id] = NoProgress

\* What is sent on such a stream keeps its length.
LEMMA SentKeptOK == ASSUME NEW id, SentOK(id), SentKept(id) PROVE SentOK(id)'
<1>1. CASE sent'[id] = NoProgress
  BY <1>1 DEF SentOK, NoProgress, LengthMismatch
<1>2. CASE sent'[id] # NoProgress
  BY <1>2, Zenon DEF SentOK, SentKept
<1> QED
  BY <1>1, <1>2, Zenon

\* SendHeaders and SendData, when they set the progress of stream id to se[id].
LEMMA LocalEndSent ==
  ASSUME TableInv, SentInv, ~closed, NEW id \in StreamId, CanSend(state[id]), NEW end,
         NEW sw, NEW se, NEW me, LocalEnd(id, end, sw, se, me),
         \A i \in StreamId \ {id} : se[i] = sent[i],
         ~se[id].headers => se[id].body = 0,
         se[id].length # NoLength => se[id].body <= se[id].length,
         end => ~LengthMismatch(se[id])
  PROVE  SentInv'
<1> SUFFICES ASSUME NEW i \in StreamId PROVE SentOK(i)'
  BY Zenon DEF SentInv
<1>1. Becomes(i, id, sw, recvWindow, se, received) /\ SendsUntil(id, end)
  BY LocalEndBecomes, Zenon
<1>2. SentOK(i)
  BY Zenon DEF SentInv
<1>3. CASE Cleared(i)
  BY <1>2, <1>3, SentKeptOK, Zenon DEF Cleared, SentKept
<1>4. CASE ~Cleared(i)
  <2>1. /\ sent'[i] = se[i]
        /\ \/ state'[i] = state[i]
           \/ state'[i] = "closed"
           \/ i = id
    BY <1>1, <1>4, Zenon DEF Becomes
  <2>2. CASE i = id
    BY <1>1, <2>1, <2>2, Zenon DEF SentOK, SendsUntil
  <2>3. CASE i # id
    BY <1>2, <2>1, <2>3, SentKeptOK, Zenon DEF SentKept, LiveState
  <2> QED
    BY <2>2, <2>3, Zenon
<1> QED
  BY <1>3, <1>4, Zenon

\* SendHeaders admits END_STREAM only with the Content-Length of what it sent.
LEMMA SendHeadersSent ==
  ASSUME Known, SentInv, NEW id \in StreamId, NEW section \in Sections, NEW end,
         SendHeaders(id, section, end)
  PROVE  SentInv'
<1> USE DEF Known
<1> DEFINE noBody == NoBody(method[id], section)
           p == AfterSection(sent[id], section, noBody)
           se == [sent EXCEPT ![id] = p]
<1>1. /\ Ready /\ CanSend(state[id])
      /\ sent[id].headers => end
      /\ end /\ ~noBody => section.length \in {NoLength, sent[id].body}
      /\ \/ LocalEnd(id, FALSE, sendWindow, sent, method)
         \/ \E me : LocalEnd(id, end, sendWindow, se, me)
  BY Zenon DEF SendHeaders
<1>2. ~closed /\ SentOK(id)
  BY <1>1, Zenon DEF Ready, SentInv
<1>3. state[id] \in LiveState
  BY <1>1, Zenon DEF CanSend, LiveState
<1>4. CASE LocalEnd(id, FALSE, sendWindow, sent, method)
  <2>1. /\ ~sent[id].headers => sent[id].body = 0
        /\ sent[id].length # NoLength => sent[id].body <= sent[id].length
    BY <1>2, <1>3, Zenon DEF SentOK
  <2> QED
    BY <1>1, <1>2, <1>4, <2>1, LocalEndSent, Zenon
<1>5. CASE \E me : LocalEnd(id, end, sendWindow, se, me)
  <2>1. /\ sent \in [StreamId -> Progress] /\ section \in Section
        /\ sent[id].body \in Nat /\ section.length \in {NoLength} \cup Nat
    BY SessionAssumption, Zenon DEF Typed, StreamsTyped, Progress, Section
  <2>2. /\ p.headers /\ p.length = section.length /\ p.body = sent[id].body
        /\ p.noBody = noBody
    BY Zenon DEF AfterSection
  <2>3. end => ~LengthMismatch(p)
    BY <1>1, <2>2, Zenon DEF LengthMismatch
  <2>4. p.length # NoLength => p.body <= p.length
    <3>1. CASE sent[id].headers /\ noBody
      <4>1. section.kind # "trailers"
        BY <3>1, Zenon DEF NoBody, ResponseKind
      <4>2. section.kind = "trailers"
        BY <3>1, Zenon DEF SendHeaders, ValidSection
      <4> QED
        BY <4>1, <4>2, Zenon
    <3>2. CASE sent[id].headers /\ ~noBody
      BY <1>1, <2>1, <2>2, <3>2, BodyBounds, Zenon
    <3>3. CASE ~sent[id].headers
      BY <1>2, <2>1, <2>2, <3>3, BodyBounds, Zenon DEF SentOK
    <3> QED
      BY <3>1, <3>2, <3>3, Zenon
  <2> HIDE DEF p
  <2>5. se[id] = p /\ \A i \in StreamId \ {id} : se[i] = sent[i]
    BY <2>1, Zenon
  <2> HIDE DEF se
  <2> QED
    BY <1>1, <1>2, <1>5, <2>2, <2>3, <2>4, <2>5, LocalEndSent, ZenonT(40)
<1> QED
  BY <1>1, <1>4, <1>5, Zenon

\* SendData sends no more than the Content-Length, and all of it at the end.
LEMMA SendDataSent ==
  ASSUME Known, SentInv, NEW id \in StreamId, NEW n \in DataLengths, NEW end,
         SendData(id, n, end)
  PROVE  SentInv'
<1> USE DEF Known
<1> DEFINE used == IF n = 0 THEN 0 ELSE Available(id, n)
           last == end /\ used = n
           p == AfterData(sent[id], used)
           se == [sent EXCEPT ![id] = p]
<1>1. /\ Ready /\ CanSend(state[id])
      /\ sent[id].headers
      /\ ~Exceeds(sent[id], n)
      /\ IF n = 0 THEN end ELSE used > 0
      /\ last /\ sent[id].length # NoLength => sent[id].body + n = sent[id].length
      /\ \E sw : LocalEnd(id, last, sw, se, method)
  BY Zenon DEF SendData
<1>2. ~closed /\ SentOK(id) /\ state[id] \in LiveState
  BY <1>1, Zenon DEF Ready, SentInv, CanSend, LiveState
<1>3. used \in Nat /\ n \in Nat /\ used <= n
  <2>1. n \in Nat
    BY SessionAssumption, Zenon
  <2>2. Available(id, n) \in Int /\ Available(id, n) <= n
    BY <2>1, AvailableBounds, Zenon DEF Typed
  <2> QED
    BY <1>1, <2>1, <2>2, BodyBounds, Zenon
<1> HIDE DEF used
<1>4. /\ sent \in [StreamId -> Progress] /\ sent[id] \in Progress
      /\ sent[id].body \in Nat /\ sent[id].length \in {NoLength} \cup Nat
  BY Zenon DEF Typed, StreamsTyped, Progress
<1>5. /\ p.headers = sent[id].headers /\ p.length = sent[id].length
      /\ p.body = sent[id].body + used /\ p.noBody = sent[id].noBody
  BY <1>4, Zenon DEF AfterData, Progress
<1> HIDE DEF p
<1>6. p.length # NoLength => p.body <= p.length
  BY <1>1, <1>2, <1>3, <1>4, <1>5, BodyBounds, Zenon DEF SentOK
<1>7. last => ~LengthMismatch(p)
  BY <1>1, <1>3, <1>4, <1>5, Zenon DEF LengthMismatch
<1>8. se[id] = p /\ \A i \in StreamId \ {id} : se[i] = sent[i]
  BY <1>4, Zenon
<1> HIDE DEF last, se
<1> QED
  BY <1>1, <1>2, <1>5, <1>6, <1>7, <1>8, LocalEndSent, ZenonT(40)

\* Every step keeps the lengths of what is sent.
LEMMA SentStep == ASSUME Known, SentInv, [Next]_vars PROVE SentInv'
<1> USE DEF Known
<1>0. /\ state \in [StreamId -> StreamState] /\ sent \in [StreamId -> Progress]
  BY Zenon DEF Typed, StreamsTyped, TableInv, TableTypeOK
<1>a. ASSUME \A id \in StreamId : SentKept(id) PROVE SentInv'
  BY <1>a, SentKeptOK, Zenon DEF SentInv
<1>b. ASSUME UNCHANGED <<state, sent>> PROVE SentInv'
  BY <1>a, <1>b, Zenon DEF SentKept
<1>c. ASSUME NEW id \in StreamId, NEW st, state' = [state EXCEPT ![id] = st], NEW p,
             sent' = [sent EXCEPT ![id] = p],
             ~p.headers => p.body = 0,
             p.length # NoLength => p.body <= p.length,
             ~CanSend(st) => ~LengthMismatch(p)
      PROVE  SentInv'
  <2>1. ASSUME NEW i \in StreamId PROVE SentOK(i)'
    <3>1. SentOK(i)
      BY Zenon DEF SentInv
    <3>2. CASE i = id
      <4>1. sent'[i] = p /\ state'[i] = st
        BY <1>0, <1>c, <3>2, Zenon
      <4> QED
        BY <1>c, <4>1, Zenon DEF SentOK
    <3>3. CASE i # id
      <4>1. sent'[i] = sent[i] /\ state'[i] = state[i]
        BY <1>0, <1>c, <3>3, Zenon
      <4> QED
        BY <3>1, <4>1, Zenon DEF SentOK
    <3> QED
      BY <3>2, <3>3, Zenon
  <2> QED
    BY <2>1, Zenon DEF SentInv
<1>d. /\ ~NoProgress.headers => NoProgress.body = 0
      /\ NoProgress.length = NoLength
      /\ ~LengthMismatch(NoProgress)
  BY Zenon DEF NoProgress, LengthMismatch
<1>e. ASSUME NEW id \in StreamId, state[id] # "idle", NEW rw, NEW re, NEW me, NEW n, NEW e,
             RemoteEnd(id, rw, re, me, n, e)
      PROVE  SentInv'
  <2>1. /\ \A i \in StreamId : Becomes(i, id, sendWindow, rw, sent, re)
        /\ state'[id] \in LiveState /\ CanSend(state[id]) => CanSend(state'[id])
    BY <1>e, RemoteEndBecomes, Zenon
  <2>2. ASSUME NEW i \in StreamId PROVE SentKept(i)
    <3>1. CASE Cleared(i)
      BY <3>1, Zenon DEF Cleared, SentKept
    <3>2. CASE ~Cleared(i)
      <4>1. Becomes(i, id, sendWindow, rw, sent, re)
        BY <2>1, Zenon
      <4>2. /\ sent'[i] = sent[i]
            /\ \/ state'[i] = state[i]
               \/ state'[i] = "closed"
               \/ i = id /\ Follows(state[i], state'[i])
        BY <3>2, <4>1, Zenon DEF Becomes
      <4>3. Follows(state[i], state'[i]) => state[i] \in LiveState
        BY Zenon DEF Follows, LiveState
      <4> QED
        BY <2>1, <4>2, <4>3, Zenon DEF SentKept, LiveState
    <3> QED
      BY <3>1, <3>2, Zenon
  <2> QED
    BY <1>a, <2>2, Zenon
<1>1. CASE ShrinkStep
  <2>1. ASSUME NEW id \in StreamId PROVE SentKept(id)
    BY <1>1, Zenon DEF ShrinkStep, Shrinks, SameAttributes, Cleared, SentKept, LiveState
  <2> QED
    BY <1>a, <2>1, Zenon
<1>2. ASSUME NEW section \in Sections, NEW end \in BOOLEAN, OpenStream(section, end)
      PROVE  SentInv'
  <2> DEFINE p == AfterSection(NoProgress, section, FALSE)
             st == IF end THEN "halfClosedLocal" ELSE "open"
  <2>1. /\ AllocateLocal(st)
        /\ NewStream(nextLocalStream, p, MethodOf(section))
        /\ end => section.length \in {NoLength, 0}
    BY <1>2, Zenon DEF OpenStream, SendableRequest
  <2>2. p.headers /\ p.length = section.length /\ p.body = 0
    BY Zenon DEF AfterSection, NoProgress
  <2>3. section.length # NoLength => 0 <= section.length
    <3>1. section.length \in {NoLength} \cup Nat
      BY SessionAssumption, Zenon DEF Section
    <3> QED
      BY <3>1
  <2>4. p.length # NoLength => p.body <= p.length
    BY <2>2, <2>3, Zenon
  <2>5. ~CanSend(st) => ~LengthMismatch(p)
    BY <2>1, <2>2, Zenon DEF CanSend, LengthMismatch
  <2>6. /\ nextLocalStream \in StreamId
        /\ state' = [state EXCEPT ![nextLocalStream] = st]
        /\ sent' = [sent EXCEPT ![nextLocalStream] = p]
    BY <2>1, Zenon DEF AllocateLocal, MayAllocate, NewStream
  <2>7. ~p.headers => p.body = 0
    BY <2>2, Zenon
  <2> HIDE DEF p, st
  <2> QED
    BY <1>c, <2>4, <2>5, <2>6, <2>7, Zenon
<1>3. ASSUME NEW id, NEW section, PushPromise(id, section) PROVE SentInv'
  <2>1. /\ nextLocalStream \in StreamId
        /\ state' = [state EXCEPT ![nextLocalStream] = "reservedLocal"]
        /\ sent' = [sent EXCEPT ![nextLocalStream] = NoProgress]
    BY <1>3, Zenon DEF PushPromise, AllocateLocal, MayAllocate, NewStream
  <2> QED
    BY <1>c, <1>d, <2>1, Zenon
<1>4. ASSUME NEW settings, UpdateSettings(settings) \/ RecvSettings(settings) PROVE SentInv'
  BY <1>b, <1>4, Zenon DEF UpdateSettings, RecvSettings, tableVars
<1>5. ASSUME NEW n, ConnectionCredited(n) \/ (\E id : StreamCredited(id, n)) PROVE SentInv'
  BY <1>b, <1>5, Zenon DEF ConnectionCredited, StreamCredited, tableVars, streamVars
<1>6. ASSUME NEW id \in StreamId, NEW end, PeerOpens(id, end) PROVE SentInv'
  <2>1. /\ state' = [state EXCEPT ![id] = "open"]
        /\ sent' = [sent EXCEPT ![id] = NoProgress]
    BY <1>6, Zenon DEF PeerOpens, AllocatePeer, NewStream
  <2> QED
    BY <1>c, <1>d, <2>1, Zenon
<1>7. ASSUME NEW id \in StreamId, NEW end, PeerContinues(id, end) PROVE SentInv'
  <2>1. /\ sent' = sent
        /\ \/ state[id] = "reservedRemote" /\ state' = [state EXCEPT ![id] = "halfClosedLocal"]
           \/ state' = state
    BY <1>7, Zenon DEF PeerContinues, Move, tableVars, streamVars
  <2>2. ASSUME NEW i \in StreamId PROVE SentKept(i)
    BY <1>0, <2>1, Zenon DEF SentKept, LiveState, CanSend
  <2> QED
    BY <1>a, <2>2, Zenon
<1>8. ASSUME NEW parent, NEW id \in StreamId, PeerPromises(parent, id) PROVE SentInv'
  <2>1. /\ state' = [state EXCEPT ![id] = "reservedRemote"]
        /\ sent' = [sent EXCEPT ![id] = NoProgress]
    BY <1>8, Zenon DEF PeerPromises, AllocatePeer, NewStream
  <2> QED
    BY <1>c, <1>d, <2>1, Zenon
<1>9. ASSUME NEW section, EndMessageBlock(section) PROVE SentInv'
  <2>1. /\ decoding /\ state[current.event] # "idle"
        /\ \/ \E re, me : RemoteEnd(current.event, recvWindow, re, me, 0, 1)
           \/ UNCHANGED <<tableVars, sent>>
    BY <1>9, Zenon DEF EndMessageBlock, Accepted, Decoded
  <2>2. current.event \in StreamId
    BY <2>1, Zenon DEF ParserInv
  <2> QED
    BY <1>b, <1>e, <2>1, <2>2, Zenon DEF tableVars
<1>10. ASSUME NEW id, NEW n, NEW m, NEW end, DataAccepted(id, n, m, end) PROVE SentInv'
  BY <1>b, <1>10, Zenon DEF DataAccepted, tableVars
<1>11. ASSUME NEW k, FragmentDelivered(k) PROVE SentInv'
  BY <1>b, <1>11, Zenon DEF FragmentDelivered, tableVars
<1>12. CASE DataCompleted
  <2>1. /\ frame.stream \in StreamId /\ state[frame.stream] # "idle"
        /\ \/ \E rw, n : RemoteEnd(frame.stream, rw, received, method, n, 0)
           \/ UNCHANGED <<tableVars, sent>>
    BY <1>12, Zenon DEF DataCompleted
  <2> QED
    BY <1>b, <1>e, <2>1, Zenon DEF tableVars
<1>13. GrowStep => SentInv'
  BY <1>2, <1>3, <1>4, <1>5, <1>6, <1>7, <1>8, <1>9, <1>10, <1>11, <1>12, SendHeadersSent,
     SendDataSent, ZenonT(40) DEF GrowStep
<1> QED
  BY <1>1, <1>13, StepCases, Zenon

-----------------------------------------------------------------------------
(* Content-Length of what a server receives *)

\* ReceivedLengthExact of one stream, with what onHeaderBlockEnd needs of a
\* request that has not begun. No header section arrives on the streams a server
\* has promised itself.
ReceivedOK(id) ==
  /\ Own(id) => received[id].length = NoLength /\ ~CanReceive(state[id])
  /\ state[id] \in LiveState =>
       /\ received[id].length # NoLength => received[id].body <= received[id].length
       /\ ~CanReceive(state[id]) => ~LengthMismatch(received[id])
       /\ ~Own(id) /\ ~received[id].headers => received[id].body = 0

\* While a DATA frame is received no block is decoded, and the stream of a request
\* can still receive its body.
InFrame ==
  frame.stream \in StreamId =>
    /\ ~decoding
    /\ ~Own(frame.stream) /\ state[frame.stream] \in LiveState =>
         CanReceive(state[frame.stream]) /\ received[frame.stream].headers

\* A block that is decoded begins or ends a request that is still being received.
InBlock ==
  decoding =>
    /\ ~Own(current.event)
    /\ state[current.event] \in LiveState =>
         /\ CanReceive(state[current.event])
         /\ ~block.end => ~received[current.event].headers

ReceivedInv == (\A id \in StreamId : ReceivedOK(id)) /\ InFrame /\ InBlock

\* A stream of which the remote side is left alone, or that is forgotten or one of
\* this endpoint's own.
ReceivedKept(id) ==
  \/ /\ received'[id] = received[id]
     /\ state'[id] \in LiveState =>
          state[id] \in LiveState /\ (CanReceive(state[id]) <=> CanReceive(state'[id]))
  \/ received'[id] = NoProgress
     /\ (state'[id] \notin LiveState \/ (Own(id) /\ ~CanReceive(state'[id])))

\* What is received on such a stream keeps its length.
LEMMA ReceivedKeptOK == ASSUME NEW id, ReceivedOK(id), ReceivedKept(id) PROVE ReceivedOK(id)'
<1>0. CanReceive(state'[id]) => state'[id] \in LiveState
  BY Zenon DEF CanReceive, LiveState
<1>1. CASE received'[id] = NoProgress /\ (state'[id] \notin LiveState \/ ~CanReceive(state'[id]))
  BY <1>0, <1>1 DEF ReceivedOK, NoProgress, LengthMismatch
<1>2. CASE ~(received'[id] = NoProgress /\ (state'[id] \notin LiveState \/ ~CanReceive(state'[id])))
  BY <1>0, <1>2, Zenon DEF ReceivedOK, ReceivedKept, Own
<1> QED
  BY <1>1, <1>2, Zenon

\* A step that at most closes streams keeps the invariant, whether it goes on with
\* a frame or a block or gives them up.
LEMMA ReceivedKeptInv ==
  ASSUME Known, ReceivedInv, \A id \in StreamId : ReceivedKept(id),
         frame'.stream \in StreamId =>
           \/ frame'.stream = frame.stream
           \/ state'[frame'.stream] \notin LiveState /\ ~decoding,
         decoding' => decoding /\ current' = current /\ block'.end = block.end
  PROVE  ReceivedInv'
<1>1. \A id \in StreamId : ReceivedOK(id)'
  BY ReceivedKeptOK, Zenon DEF ReceivedInv
<1>2. InFrame'
  <2> SUFFICES ASSUME frame'.stream \in StreamId
               PROVE  /\ ~decoding'
                      /\ ~Own(frame'.stream) /\ state'[frame'.stream] \in LiveState =>
                           CanReceive(state'[frame'.stream]) /\ received'[frame'.stream].headers
    BY Zenon DEF InFrame, Own
  <2>1. CASE state'[frame'.stream] \notin LiveState /\ ~decoding
    BY <2>1, Zenon
  <2>2. CASE frame'.stream = frame.stream
    <3>1. ~decoding /\ ReceivedKept(frame.stream)
      BY <2>2, Zenon DEF ReceivedInv, InFrame
    <3> QED
      BY <2>2, <3>1, Zenon DEF ReceivedInv, InFrame, ReceivedKept
  <2> QED
    BY <2>1, <2>2, Zenon
<1>3. InBlock'
  <2> SUFFICES ASSUME decoding'
               PROVE  /\ ~Own(current'.event)
                      /\ state'[current'.event] \in LiveState =>
                           /\ CanReceive(state'[current'.event])
                           /\ ~block'.end => ~received'[current'.event].headers
    BY Zenon DEF InBlock, Own
  <2>1. current.event \in StreamId /\ current' = current /\ block'.end = block.end /\ decoding
    BY Zenon DEF Known, ParserInv
  <2>2. ReceivedKept(current.event)
    BY <2>1, Zenon
  <2> QED
    BY <2>1, <2>2, Zenon DEF ReceivedInv, InBlock, ReceivedKept
<1> QED
  BY <1>1, <1>2, <1>3, Zenon DEF ReceivedInv

\* Every step of a server keeps the lengths of what is received.
LEMMA ReceivedStep == ASSUME Role = "server", Known, ReceivedInv, [Next]_vars PROVE ReceivedInv'
<1> USE DEF Known
<1>0. /\ state \in [StreamId -> StreamState] /\ received \in [StreamId -> Progress]
      /\ decoding => current.event \in StreamId
      /\ NoFrame.stream \notin StreamId
  BY DEF Typed, StreamsTyped, TableInv, TableTypeOK, ParserInv, NoFrame, StreamId
<1>a. ASSUME \A id \in StreamId : ReceivedKept(id), UNCHANGED <<frame, headerVars>>
      PROVE  ReceivedInv'
  BY <1>a, ReceivedKeptInv, Zenon DEF headerVars
<1>b. ASSUME UNCHANGED <<state, received>> PROVE \A id \in StreamId : ReceivedKept(id)
  BY <1>b, Zenon DEF ReceivedKept
<1>c. ASSUME Settled PROVE frame.stream \notin StreamId /\ ~decoding
  BY <1>0, <1>c, Zenon DEF Settled, AtFrame, DecoderFollowsParser
<1>d. ASSUME NEW id \in StreamId, NEW sw, NEW rw, NEW se, NEW re, NEW i \in StreamId, i # id,
             Becomes(i, id, sw, rw, se, re), re[i] = received[i]
      PROVE  ReceivedKept(i)
  BY <1>d, Zenon DEF Becomes, Cleared, ReceivedKept, LiveState
<1>1. CASE ShrinkStep
  <2>1. ParserShrinks /\ \A id \in StreamId : Shrinks(id)
    BY <1>1, Zenon DEF ShrinkStep
  <2>2. ASSUME NEW id \in StreamId PROVE ReceivedKept(id)
    BY <2>1, Zenon DEF Shrinks, SameAttributes, Cleared, ReceivedKept, LiveState
  <2>3. frame'.stream \in StreamId =>
          \/ frame'.stream = frame.stream
          \/ state'[frame'.stream] \notin LiveState /\ ~decoding
    BY <1>0, <2>1, Zenon DEF ParserShrinks
  <2>4. decoding' => decoding /\ current' = current /\ block'.end = block.end
    BY <2>1, Zenon DEF ParserShrinks
  <2> QED
    BY <2>2, <2>3, <2>4, ReceivedKeptInv, Zenon
<1>2. ASSUME NEW section, NEW end, OpenStream(section, end) PROVE ReceivedInv'
  BY <1>2, Zenon DEF OpenStream, MayOpen
<1>3. ASSUME NEW id, NEW section, PushPromise(id, section) PROVE ReceivedInv'
  <2>1. /\ nextLocalStream \in StreamId
        /\ state' = [state EXCEPT ![nextLocalStream] = "reservedLocal"]
        /\ received' = [received EXCEPT ![nextLocalStream] = NoProgress]
        /\ UNCHANGED <<frame, headerVars>>
    BY <1>3, Zenon DEF PushPromise, AllocateLocal, MayAllocate, NewStream, localUnchanged
  <2>2. Own(nextLocalStream)
    BY Zenon DEF TableInv, IdsInOrder
  <2>3. ASSUME NEW i \in StreamId PROVE ReceivedKept(i)
    <3>1. CASE i = nextLocalStream
      BY <1>0, <2>1, <2>2, <3>1, ZenonT(40) DEF ReceivedKept, CanReceive
    <3>2. CASE i # nextLocalStream
      BY <1>0, <2>1, <3>2, Zenon DEF ReceivedKept
    <3> QED
      BY <3>1, <3>2, Zenon
  <2> QED
    BY <1>a, <2>1, <2>3, Zenon
<1>4. ASSUME NEW id \in StreamId,
             \/ \E section \in Sections, end \in BOOLEAN : SendHeaders(id, section, end)
             \/ \E n \in DataLengths, end \in BOOLEAN : SendData(id, n, end)
      PROVE  ReceivedInv'
  <2>1. /\ UNCHANGED <<frame, headerVars>>
        /\ state'[id] \in LiveState /\ CanReceive(state[id]) => CanReceive(state'[id])
    BY <1>4, SendBecomes, Zenon
  <2>2. \E sw, se : \A i \in StreamId : Becomes(i, id, sw, recvWindow, se, received)
    BY <1>4, SendBecomes, Zenon
  <2>3. ASSUME NEW i \in StreamId PROVE ReceivedKept(i)
    <3>1. CASE i # id
      BY <1>d, <2>2, <3>1, Zenon
    <3>2. CASE i = id
      <4>1. CASE Cleared(id)
        BY <3>2, <4>1, Zenon DEF Cleared, ReceivedKept, LiveState
      <4>2. CASE ~Cleared(id)
        <5>1. /\ received'[id] = received[id]
              /\ state'[id] \in LiveState =>
                   state[id] \in LiveState /\ (CanReceive(state'[id]) => CanReceive(state[id]))
          BY <2>2, <4>2, Zenon DEF Becomes, Follows, LiveState, CanReceive
        <5> QED
          BY <2>1, <3>2, <5>1, Zenon DEF ReceivedKept
      <4> QED
        BY <4>1, <4>2, Zenon
    <3> QED
      BY <3>1, <3>2, Zenon
  <2> QED
    BY <1>a, <2>1, <2>3, Zenon
<1>5. ASSUME NEW settings, UpdateSettings(settings) \/ RecvSettings(settings) PROVE ReceivedInv'
  <2>1. UNCHANGED <<state, received, frame, headerVars>>
    BY <1>5, Zenon DEF UpdateSettings, RecvSettings, tableVars, localUnchanged
  <2> QED
    BY <1>a, <1>b, <2>1, Zenon
<1>6. ASSUME NEW n, ConnectionCredited(n) \/ (\E id : StreamCredited(id, n))
      PROVE  ReceivedInv'
  <2>1. UNCHANGED <<state, received, frame, headerVars>>
    BY <1>6, Zenon DEF ConnectionCredited, StreamCredited, tableVars, streamVars
  <2> QED
    BY <1>a, <1>b, <2>1, Zenon
<1>7. ASSUME NEW id \in StreamId, NEW end, PeerOpens(id, end) PROVE ReceivedInv'
  <2>1. /\ Settled /\ ~Own(id) /\ frame' = frame
        /\ state' = [state EXCEPT ![id] = "open"]
        /\ received' = [received EXCEPT ![id] = NoProgress]
        /\ current'.event = id
    BY <1>7, Zenon DEF PeerOpens, AllocatePeer, NewStream, Decode
  <2>2. ASSUME NEW i \in StreamId PROVE ReceivedOK(i)'
    <3>1. ReceivedOK(i)
      BY Zenon DEF ReceivedInv
    <3>2. CASE i = id
      BY <1>0, <2>1, <3>2, Zenon DEF ReceivedOK, NoProgress, LengthMismatch, Own
    <3>3. CASE i # id
      BY <1>0, <2>1, <3>1, <3>3, ZenonT(40) DEF ReceivedOK, Own
    <3> QED
      BY <3>2, <3>3, Zenon
  <2>3. InFrame'
    BY <1>c, <2>1, Zenon DEF InFrame
  <2>4. InBlock'
    BY <1>0, <2>1, ZenonT(40) DEF InBlock, Own, CanReceive, NoProgress
  <2> QED
    BY <2>2, <2>3, <2>4, Zenon DEF ReceivedInv
<1>8. ASSUME NEW id \in StreamId, NEW end, PeerContinues(id, end) PROVE ReceivedInv'
  <2>1. /\ Settled /\ frame' = frame /\ received' = received
        /\ CanReceive(state[id]) /\ (received[id].headers => end)
        /\ \/ state[id] = "reservedRemote" /\ state' = [state EXCEPT ![id] = "halfClosedLocal"]
           \/ state' = state
        /\ current'.event = id /\ block'.end = end
    BY <1>8, Zenon DEF PeerContinues, Move, BeginBlock, Decode, tableVars, streamVars
  <2>2. ASSUME NEW i \in StreamId PROVE ReceivedOK(i)'
    <3>1. ReceivedOK(i)
      BY Zenon DEF ReceivedInv
    <3>2. ReceivedKept(i)
      BY <1>0, <2>1, Zenon DEF ReceivedKept, LiveState, CanReceive
    <3> QED
      BY <3>1, <3>2, ReceivedKeptOK, Zenon
  <2>3. InFrame'
    BY <1>c, <2>1, Zenon DEF InFrame
  <2>4. InBlock'
    <3>1. CanReceive(state'[id])
      BY <1>0, <2>1, Zenon DEF CanReceive
    <3>2. ~Own(id)
      BY <2>1, Zenon DEF ReceivedInv, ReceivedOK
    <3> QED
      BY <2>1, <3>1, <3>2, Zenon DEF InBlock, Own
  <2> QED
    BY <2>2, <2>3, <2>4, Zenon DEF ReceivedInv
<1>9. ASSUME NEW parent, NEW id, PeerPromises(parent, id) PROVE ReceivedInv'
  BY <1>9, Zenon DEF PeerPromises
<1>10. ASSUME NEW section \in Sections, EndMessageBlock(section) PROVE ReceivedInv'
  <2> DEFINE id == current.event
             noBody == NoBody(FirstNonEmpty(method[id], MethodOf(section)), section)
             p == AfterSection(received[id], section, noBody)
             re == [received EXCEPT ![id] = p]
  <2>1. /\ Accepted(section) /\ ~current.push
        /\ frame' = frame /\ decoding' = FALSE
    BY <1>10, Zenon DEF EndMessageBlock, EndBlock, endUnchanged
  <2>2. id \in StreamId /\ decoding /\ state[id] # "idle"
    BY <1>0, <2>1, Zenon DEF Accepted, Decoded
  <2>3. \/ \E me : RemoteEnd(id, recvWindow, re, me, 0, 1)
        \/ ~block.end /\ received' = re /\ UNCHANGED tableVars
    <3>1. method \in [StreamId -> Method]
      BY Zenon DEF Typed, StreamsTyped
    <3> DEFINE me == [method EXCEPT ![id] = FirstNonEmpty(@, MethodOf(section))]
    <3>2. me[id] = FirstNonEmpty(method[id], MethodOf(section))
      BY <2>2, <3>1, Zenon
    <3>3. LET r == [received EXCEPT ![id] = AfterSection(@, section, NoBody(me[id], section))]
          IN \/ RemoteEnd(id, recvWindow, r, me, 0, 1)
             \/ ~block.end /\ received' = r /\ UNCHANGED tableVars
      BY <1>10, Zenon DEF EndMessageBlock
    <3> QED
      BY <3>2, <3>3, Zenon
  <2>4. ~noBody
    <3>1. ValidSection("server", FALSE, current.trailer, section)
      BY <2>1, Zenon DEF Accepted
    <3>2. section.kind \in {"trailers", "HEAD", "request"}
      BY <3>1, Zenon DEF ValidSection, RequestKind
    <3> QED
      BY <3>2, Zenon DEF NoBody, ResponseKind
  <2>5. /\ received[id] \in Progress /\ received[id].body \in Nat
        /\ section.length \in {NoLength} \cup Nat
    BY <1>0, <2>2, SessionAssumption, Zenon DEF Progress, Section
  <2>6. p.headers /\ p.length = section.length /\ p.body = received[id].body /\ p.noBody = noBody
    BY Zenon DEF AfterSection
  <2> HIDE DEF noBody, p
  <2>7. re[id] = p /\ \A i \in StreamId \ {id} : re[i] = received[i]
    BY <1>0, <2>2, Zenon
  <2> HIDE DEF re
  <2>8. /\ ~Own(id)
        /\ state[id] \in LiveState =>
             CanReceive(state[id]) /\ (~block.end => ~received[id].headers)
    BY <2>2, Zenon DEF ReceivedInv, InBlock
  <2>9. frame'.stream \notin StreamId
    BY <2>1, <2>2, Zenon DEF ReceivedInv, InFrame
  <2>10. ASSUME NEW i \in StreamId PROVE ReceivedOK(i)'
    <3>1. ReceivedOK(i)
      BY Zenon DEF ReceivedInv
    <3>2. CASE \E me : RemoteEnd(id, recvWindow, re, me, 0, 1)
      <4>1. /\ Becomes(i, id, sendWindow, recvWindow, sent, re)
            /\ state'[id] \in LiveState => ~LengthMismatch(re[id])
        BY <2>2, <3>2, RemoteEndBecomes, Zenon
      <4>2. CASE i # id
        BY <1>d, <2>2, <2>7, <3>1, <4>1, <4>2, ReceivedKeptOK, ZenonT(40)
      <4>3. CASE i = id /\ Cleared(id)
        BY <3>1, <4>3, ReceivedKeptOK, Zenon DEF Cleared, ReceivedKept, LiveState
      <4>4. CASE i = id /\ ~Cleared(id)
        <5>1. received'[id] = p
          BY <2>7, <4>1, <4>4, Zenon DEF Becomes
        <5>2. /\ state'[id] \in LiveState => ~LengthMismatch(p)
              /\ state'[id] \in LiveState /\ p.length # NoLength => p.body = p.length
          BY <2>4, <2>6, <2>7, <4>1, ZenonT(40) DEF LengthMismatch
        <5>3. p.length # NoLength /\ p.body = p.length => p.body <= p.length
          BY <2>5, <2>6, BodyBounds, Zenon
        <5> QED
          BY <2>6, <2>8, <4>4, <5>1, <5>2, <5>3, ZenonT(40) DEF ReceivedOK, Own
      <4> QED
        BY <4>2, <4>3, <4>4, Zenon
    <3>3. CASE ~block.end /\ received' = re /\ UNCHANGED tableVars
      <4>1. CASE i # id
        BY <2>7, <3>1, <3>3, <4>1, ReceivedKeptOK, ZenonT(40) DEF ReceivedKept, tableVars
      <4>2. CASE i = id
        <5>1. state' = state /\ received'[id] = p
          BY <2>7, <3>3, Zenon DEF tableVars
        <5>2. state[id] \in LiveState => received[id].body = 0
          BY <2>8, <3>1, <3>3, <4>2, ZenonT(40) DEF ReceivedOK
        <5>3. state[id] \in LiveState /\ p.length # NoLength => p.body <= p.length
          BY <2>5, <2>6, <5>2, BodyBounds, Zenon
        <5> QED
          BY <2>6, <2>8, <4>2, <5>1, <5>3, ZenonT(40) DEF ReceivedOK, Own
      <4> QED
        BY <4>1, <4>2, Zenon
    <3> QED
      BY <2>3, <3>2, <3>3, Zenon
  <2> QED
    BY <2>1, <2>9, <2>10, Zenon DEF ReceivedInv, InFrame, InBlock
<1>11. ASSUME NEW id \in StreamId, NEW n, NEW m, NEW end, DataAccepted(id, n, m, end)
       PROVE  ReceivedInv'
  <2>1. /\ Settled /\ CanReceive(state[id]) /\ received[id].headers /\ frame'.stream = id
        /\ UNCHANGED <<state, received, headerVars>>
    BY <1>11, Zenon DEF DataAccepted, tableVars
  <2>2. ~decoding'
    BY <1>c, <2>1, Zenon DEF headerVars
  <2>3. ASSUME NEW i \in StreamId PROVE ReceivedOK(i)'
    <3>1. ReceivedOK(i) /\ ReceivedKept(i)
      BY <1>b, <2>1, Zenon DEF ReceivedInv
    <3> QED
      BY <3>1, ReceivedKeptOK, Zenon
  <2> QED
    BY <2>1, <2>2, <2>3, Zenon DEF ReceivedInv, InFrame, InBlock
<1>12. ASSUME NEW k \in DataLengths, FragmentDelivered(k) PROVE ReceivedInv'
  <2> DEFINE id == frame.stream
             p == AfterData(received[id], k)
  <2>1. /\ id \in StreamId /\ frame'.stream = id
        /\ ~Exceeds(received[id], k)
        /\ received' = [received EXCEPT ![id] = p]
        /\ UNCHANGED <<state, headerVars>>
    BY <1>12, Zenon DEF FragmentDelivered, tableVars
  <2>2. received[id] \in Progress /\ k \in Nat
    BY <1>0, <2>1, SessionAssumption, Zenon
  <2>3. /\ p.headers = received[id].headers /\ p.length = received[id].length
        /\ p.body = received[id].body + k /\ p.noBody = received[id].noBody
    BY <2>2, Zenon DEF AfterData, Progress
  <2> HIDE DEF p
  <2>4. /\ ~decoding /\ ~decoding'
        /\ ~Own(id) /\ state[id] \in LiveState => CanReceive(state[id]) /\ received[id].headers
    BY <2>1, Zenon DEF ReceivedInv, InFrame, headerVars
  <2>5. received'[id] = p /\ \A i \in StreamId \ {id} : received'[i] = received[i]
    BY <1>0, <2>1, Zenon
  <2>6. ASSUME NEW i \in StreamId PROVE ReceivedOK(i)'
    <3>1. ReceivedOK(i)
      BY Zenon DEF ReceivedInv
    <3>2. CASE i # id
      BY <2>1, <2>5, <3>1, <3>2, ReceivedKeptOK, ZenonT(40) DEF ReceivedKept
    <3>3. CASE i = id
      <4>1. state[id] \in LiveState /\ p.length # NoLength => p.body <= p.length
        BY <2>1, <2>2, <2>3, <3>1, <3>3, BodyBounds, ZenonT(40) DEF ReceivedOK
      <4>2. Own(id) => p.length = NoLength /\ ~CanReceive(state[id])
        BY <2>3, <3>1, <3>3, ZenonT(40) DEF ReceivedOK
      <4>3. state[id] \in LiveState /\ ~CanReceive(state[id]) => ~LengthMismatch(p)
        BY <2>4, <4>2, Zenon DEF LengthMismatch
      <4>4. ~Own(id) /\ state[id] \in LiveState => p.headers
        BY <2>3, <2>4, Zenon
      <4>5. state'[i] = state[id] /\ received'[i] = p
        BY <2>1, <2>5, <3>3, Zenon
      <4> QED
        BY <3>3, <4>1, <4>2, <4>3, <4>4, <4>5, ZenonT(40) DEF ReceivedOK, Own
    <3> QED
      BY <3>2, <3>3, Zenon
  <2>7. InFrame'
    BY <2>1, <2>3, <2>4, <2>5, ZenonT(40) DEF InFrame, Own
  <2> QED
    BY <2>4, <2>6, <2>7, Zenon DEF ReceivedInv, InBlock
<1>13. CASE DataCompleted
  <2> DEFINE id == frame.stream
  <2>1. /\ id \in StreamId /\ state[id] # "idle"
        /\ frame' = NoFrame /\ UNCHANGED headerVars
        /\ \/ \E rw, n : RemoteEnd(id, rw, received, method, n, 0)
           \/ UNCHANGED <<tableVars, received>>
    BY <1>13, Zenon DEF DataCompleted
  <2>2. ~decoding' /\ frame'.stream \notin StreamId
    BY <1>0, <2>1, Zenon DEF ReceivedInv, InFrame, headerVars
  <2>3. ASSUME NEW i \in StreamId PROVE ReceivedOK(i)'
    <3>1. ReceivedOK(i)
      BY Zenon DEF ReceivedInv
    <3>2. CASE \E rw, n : RemoteEnd(id, rw, received, method, n, 0)
      <4>1. /\ \E rw : Becomes(i, id, sendWindow, rw, sent, received)
            /\ state'[id] \in LiveState => ~LengthMismatch(received[id])
            /\ CanReceive(state'[id]) => state[id] = "reservedRemote"
        BY <2>1, <3>2, RemoteEndBecomes, Zenon
      <4>2. CASE i # id
        BY <1>d, <2>1, <3>1, <4>1, <4>2, ReceivedKeptOK, ZenonT(40)
      <4>3. CASE i = id /\ Cleared(id)
        BY <3>1, <4>3, ReceivedKeptOK, Zenon DEF Cleared, ReceivedKept, LiveState
      <4>4. CASE i = id /\ ~Cleared(id)
        <5>1. /\ received'[id] = received[id]
              /\ state'[id] \in LiveState => state[id] \in LiveState
          BY <4>1, <4>4, Zenon DEF Becomes, Follows, LiveState
        <5>2. CanReceive(state'[id]) => CanReceive(state[id])
          BY <4>1, Zenon DEF CanReceive
        <5> QED
          BY <3>1, <4>1, <4>4, <5>1, <5>2, ZenonT(40) DEF ReceivedOK, Own
      <4> QED
        BY <4>2, <4>3, <4>4, ZenonT(40)
    <3>3. CASE UNCHANGED <<tableVars, received>>
      BY <1>b, <3>1, <3>3, ReceivedKeptOK, Zenon DEF tableVars
    <3> QED
      BY <2>1, <3>2, <3>3, Zenon
  <2> QED
    BY <2>2, <2>3, Zenon DEF ReceivedInv, InFrame, InBlock
<1>14. GrowStep => ReceivedInv'
  BY <1>2, <1>3, <1>4, <1>5, <1>6, <1>7, <1>8, <1>9, <1>10, <1>11, <1>12, <1>13,
     ZenonT(40) DEF GrowStep
<1> QED
  BY <1>1, <1>14, StepCases, Zenon
=============================================================================
