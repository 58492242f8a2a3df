-------------------------- MODULE SessionFlowProofs --------------------------
(***************************************************************************)
(* What single steps of a Session keep true of its queues and counters, of *)
(* the streams that it closes (what is announced of them, GOAWAY and the   *)
(* streams it reports) and of the windows (their range, and the credit     *)
(* that completed DATA frames restore); and that a session that failed is  *)
(* frozen. SessionTheorems draws the conclusions about behaviours.         *)
(***************************************************************************)
EXTENDS SessionProofs

-----------------------------------------------------------------------------
(* Queues, counters and status *)

\* appendFrame keeps the output within its limit.
LEMMA EmitBounded ==
  ASSUME output \in 0 .. MaxOutput, NEW n \in Nat, Emit(n)
  PROVE  output' \in 0 .. MaxOutput
  BY CounterLimits DEF Emit, Room

\* queueEvent keeps the events within their limit.
LEMMA RaiseBounded ==
  ASSUME events \in 0 .. MaxQueuedEvents, NEW n \in Nat, Raise(n)
  PROVE  events' \in 0 .. MaxQueuedEvents
  BY CounterLimits DEF Raise

\* onFrameComplete of a control frame.
LEMMA ControlCompleteCounters ==
  ASSUME CountersOK, Ready, NEW n \in Nat, ControlComplete(n)
  PROVE  /\ output' \in 0 .. MaxOutput
         /\ failed' \in {"none"} \cup Failures
         /\ goAwaySent' \in BOOLEAN
         /\ controlFrames' \in 0 .. MaxControlFrames + 1
         /\ failed' = "none" => controlFrames' <= MaxControlFrames
<1>1. \E k \in Nat : Emit(k)
  BY SMTT(30) DEF ControlComplete, Failure
<1>2. output' \in 0 .. MaxOutput
  BY <1>1, EmitBounded, Zenon DEF CountersOK
<1>3. /\ controlFrames' = controlFrames + 1
      /\ \/ failed' = "ENHANCE_YOUR_CALM" /\ goAwaySent' = TRUE
         \/ controlFrames < MaxControlFrames /\ UNCHANGED <<failed, goAwaySent>>
  BY Zenon DEF ControlComplete, Failure, statusVars
<1>4. controlFrames \in 0 .. MaxControlFrames
  BY CounterLimits DEF CountersOK, Ready
<1>5. controlFrames' \in 0 .. MaxControlFrames + 1
  BY <1>3, <1>4, CounterLimits
<1>6. CASE failed' = "ENHANCE_YOUR_CALM" /\ goAwaySent' = TRUE
  BY <1>2, <1>5, <1>6, Zenon DEF Failures
<1>7. CASE controlFrames < MaxControlFrames /\ UNCHANGED <<failed, goAwaySent>>
  BY <1>2, <1>3, <1>4, <1>5, <1>7, CounterLimits, SMTT(30) DEF CountersOK
<1> QED
  BY <1>3, <1>6, <1>7, Zenon

\* A step that only fails the connection.
LEMMA ErrorCounters ==
  ASSUME CountersOK, NEW code \in Failures, ConnectionError(code)
  PROVE  CountersOK'
<1>1. output' \in 0 .. MaxOutput
  BY EmitBounded DEF CountersOK, ConnectionError, Failure
<1>2. failed' = code /\ goAwaySent' = TRUE /\ controlFrames' = 0
  BY Zenon DEF ConnectionError, Failure
<1>3. UNCHANGED <<events, settingsOutstanding, prefaced>>
  BY Zenon DEF ConnectionError, settingVars
<1> QED
  BY <1>1, <1>2, <1>3, CounterLimits DEF CountersOK, Failures

\* No call of the application takes a queue or a counter out of its range.
LEMMA LocalCallCounters == ASSUME CountersOK, LocalCall PROVE CountersOK'
<1>1. ASSUME UNCHANGED <<events, settingsOutstanding, statusVars, prefaced, controlFrames>>,
             Emit(1)
      PROVE  CountersOK'
  <2>1. output' \in 0 .. MaxOutput
    BY <1>1, EmitBounded, Zenon DEF CountersOK
  <2> QED
    BY <1>1, <2>1, Zenon DEF CountersOK, statusVars
<1>2. ASSUME UNCHANGED <<events, settingVars, statusVars, localUnchanged>>, Emit(1)
      PROVE  CountersOK'
  BY <1>1, <1>2, Zenon DEF settingVars, localUnchanged
<1>3. ASSUME NEW section, NEW end, OpenStream(section, end) PROVE CountersOK'
  BY <1>2, <1>3, Zenon DEF OpenStream
<1>4. ASSUME UNCHANGED <<output, events, settingVars, statusVars, localUnchanged>>
      PROVE  CountersOK'
  BY <1>4, Zenon DEF CountersOK, settingVars, statusVars, localUnchanged
<1>5. ASSUME NEW section, NEW end, OpenStreamFails(section, end) PROVE CountersOK'
  BY <1>4, <1>5, Zenon DEF OpenStreamFails
<1>6. ASSUME NEW id, NEW section, NEW end, SendHeaders(id, section, end) PROVE CountersOK'
  BY <1>2, <1>6, Zenon DEF SendHeaders
<1>7. ASSUME NEW id, NEW section, PushPromise(id, section) PROVE CountersOK'
  BY <1>2, <1>7, Zenon DEF PushPromise
<1>8. ASSUME NEW id, NEW section, PushPromiseFails(id, section) PROVE CountersOK'
  BY <1>4, <1>8, Zenon DEF PushPromiseFails
<1>9. ASSUME NEW id, NEW n, NEW end, SendData(id, n, end) PROVE CountersOK'
  BY <1>2, <1>9, Zenon DEF SendData
<1>10. ASSUME NEW id, ResetStream(id) PROVE CountersOK'
  BY <1>2, <1>10, Zenon DEF ResetStream
<1>11. ASSUME NEW settings, UpdateSettings(settings) PROVE CountersOK'
  <2>1. output' \in 0 .. MaxOutput
    BY <1>11, EmitBounded, Zenon DEF CountersOK, UpdateSettings
  <2>2. settingsOutstanding' \in 0 .. MaxOutstanding
    BY <1>11, CounterLimits, SMTT(30) DEF CountersOK, UpdateSettings
  <2>3. UNCHANGED <<events, statusVars, localUnchanged>>
    BY <1>11, Zenon DEF UpdateSettings
  <2> QED
    BY <2>1, <2>2, <2>3, Zenon DEF CountersOK, statusVars, localUnchanged
<1>12. ASSUME SendControl PROVE CountersOK'
  BY <1>2, <1>12, Zenon DEF SendControl
<1>13. ASSUME GoAway PROVE CountersOK'
  <2>1. output' \in 0 .. MaxOutput
    BY <1>13, EmitBounded, Zenon DEF CountersOK, GoAway
  <2> QED
    BY <1>13, <2>1, Zenon DEF CountersOK, GoAway, settingVars, localUnchanged
<1>14. ASSUME Close PROVE CountersOK'
  <2>1. output' = 0 /\ events' = 0
    BY <1>14, Zenon DEF Close
  <2>2. UNCHANGED <<settingsOutstanding, statusVars, prefaced, controlFrames>>
    BY <1>14, Zenon DEF Close, settingVars, localUnchanged
  <2> QED
    BY <2>1, <2>2, CounterLimits DEF CountersOK, statusVars
<1>15. ASSUME ConsumeOutput PROVE CountersOK'
  BY <1>15, CounterLimits, SMTT(30)
     DEF CountersOK, ConsumeOutput, settingVars, statusVars, localUnchanged
<1>16. ASSUME NextEvent PROVE CountersOK'
  BY <1>16, CounterLimits, SMTT(30)
     DEF CountersOK, NextEvent, settingVars, statusVars, localUnchanged
<1> QED
  BY <1>3, <1>5, <1>6, <1>7, <1>8, <1>9, <1>10, <1>11, <1>12, <1>13, <1>14, <1>15, <1>16,
     ZenonT(40) DEF LocalCall

\* No control frame does.
LEMMA ReceiveControlCounters ==
  ASSUME CountersOK, SizesCounted, ReceiveControl
  PROVE  CountersOK'
<1>1. ASSUME NEW n \in Nat, Ready, ControlComplete(n), events' \in 0 .. MaxQueuedEvents,
             UNCHANGED <<settingsOutstanding, prefaced>>
      PROVE  CountersOK'
  BY <1>1, ControlCompleteCounters, Zenon DEF CountersOK
<1>2. ASSUME NEW n \in Nat, Ready, ControlComplete(n), UNCHANGED events \/ Raise(1),
             UNCHANGED controlUnchanged
      PROVE  CountersOK'
  <2>1. events' \in 0 .. MaxQueuedEvents
    BY <1>2, RaiseBounded, Zenon DEF CountersOK
  <2>2. UNCHANGED <<settingsOutstanding, prefaced>>
    BY <1>2, Zenon DEF controlUnchanged, settingVars
  <2> QED
    BY <1>1, <1>2, <2>1, <2>2, Zenon
<1>3. ASSUME NEW code \in Failures, NEW n \in Nat, Failure(code, n),
             events' \in 0 .. MaxQueuedEvents,
             UNCHANGED <<settingsOutstanding, prefaced>>,
             controlFrames' \in 0 .. MaxControlFrames + 1
      PROVE  CountersOK'
  <2>1. output' \in 0 .. MaxOutput
    <3>1. n + 1 \in Nat /\ Emit(n + 1)
      BY <1>3 DEF Failure
    <3> QED
      BY <3>1, EmitBounded, Zenon DEF CountersOK
  <2> QED
    BY <1>3, <2>1, Zenon DEF CountersOK, Failure, Failures
<1>4. {"PROTOCOL", "INTERNAL", "FLOW_CONTROL"} \subseteq Failures
  BY Zenon DEF Failures
<1>5. AtFrame => Ready
  BY Zenon DEF AtFrame, Receiving
<1>6. Settled => Ready
  BY <1>5, Zenon DEF Settled
<1>7. ASSUME RecvPreface PROVE CountersOK'
  BY <1>7, Zenon DEF CountersOK, RecvPreface, settingVars, statusVars
<1>8. ASSUME ParseError \/ FirstFrameNotSettings PROVE CountersOK'
  BY <1>4, <1>8, ErrorCounters, Zenon DEF ParseError, FirstFrameNotSettings
<1>9. ASSUME RecvPriority \/ RecvUnknown PROVE CountersOK'
  BY <1>2, <1>6, <1>9, Zenon DEF RecvPriority, RecvUnknown
<1>10. ASSUME NEW valid, RecvPriorityUpdate(valid) PROVE CountersOK'
  <2>1. Ready /\ (UNCHANGED events \/ Raise(1)) /\ UNCHANGED controlUnchanged
    BY <1>6, <1>10, Zenon DEF RecvPriorityUpdate
  <2>2. CASE ControlComplete(0)
    BY <1>2, <2>1, <2>2, Zenon
  <2>3. CASE /\ controlFrames' = controlFrames + 1 /\ Failure("PROTOCOL", 0)
             /\ controlFrames < MaxControlFrames
    <3>1. controlFrames' \in 0 .. MaxControlFrames + 1
      BY <2>3, CounterLimits DEF CountersOK
    <3>2. events' \in 0 .. MaxQueuedEvents
      BY <2>1, RaiseBounded, Zenon DEF CountersOK
    <3>3. UNCHANGED <<settingsOutstanding, prefaced>>
      BY <2>1, Zenon DEF controlUnchanged, settingVars
    <3> QED
      BY <1>3, <1>4, <2>3, <3>1, <3>2, <3>3, Zenon
  <2>4. controlFrames >= MaxControlFrames \/ controlFrames < MaxControlFrames
    BY CounterLimits DEF CountersOK
  <2> QED
    BY <1>10, <2>2, <2>3, <2>4, Zenon DEF RecvPriorityUpdate
<1>11. ASSUME NEW id, RecvRSTStreamUnknown(id) PROVE CountersOK'
  BY <1>2, <1>4, <1>6, <1>11, ErrorCounters, Zenon DEF RecvRSTStreamUnknown
<1>12. ASSUME NEW n \in Nat, NEW k \in Nat, Ready, Raise(n), UNCHANGED <<settingsOutstanding, prefaced>>,
              \/ ControlComplete(k)
              \/ Failure("PROTOCOL", k) /\ UNCHANGED controlFrames
       PROVE  CountersOK'
  <2>1. events' \in 0 .. MaxQueuedEvents
    BY <1>12, RaiseBounded, Zenon DEF CountersOK
  <2>2. UNCHANGED controlFrames => controlFrames' \in 0 .. MaxControlFrames + 1
    BY Zenon DEF CountersOK
  <2> QED
    BY <1>1, <1>3, <1>4, <1>12, <2>1, <2>2, Zenon
<1>13. ASSUME NEW id, RecvRSTStream(id) PROVE CountersOK'
  <2>1. UNCHANGED <<settingsOutstanding, prefaced>>
    BY <1>13, Zenon DEF RecvRSTStream, controlUnchanged, settingVars
  <2> QED
    BY <1>5, <1>12, <1>13, <2>1, Zenon DEF RecvRSTStream
<1>14. ASSUME NEW id, RecvWindowUpdateLate(id) PROVE CountersOK'
  BY <1>2, <1>4, <1>6, <1>14, ErrorCounters, Zenon DEF RecvWindowUpdateLate
<1>15. ASSUME NEW settings, RecvSettingsRejected(settings) PROVE CountersOK'
  BY <1>4, <1>15, ErrorCounters, Zenon DEF RecvSettingsRejected
<1>16. ASSUME NEW settings, RecvSettings(settings) PROVE CountersOK'
  <2>1. Ready /\ UNCHANGED <<settingsOutstanding, prefaced>>
    BY <1>5, <1>16, Zenon DEF RecvSettings
  <2>2. CASE Raise(1) /\ ControlComplete(1)
    BY <1>12, <2>1, <2>2, Zenon
  <2>3. CASE Failure("INTERNAL", 0) /\ UNCHANGED <<events, controlFrames>>
    BY <1>3, <1>4, <2>1, <2>3, Zenon DEF CountersOK
  <2> QED
    BY <1>16, <2>2, <2>3, Zenon DEF RecvSettings
<1>17. ASSUME RecvSettingsAck PROVE CountersOK'
  <2>1. CASE ConnectionError("PROTOCOL")
    BY <1>4, <2>1, ErrorCounters, Zenon
  <2>2. CASE ~ConnectionError("PROTOCOL")
    <3>1. /\ Ready /\ Raise(1) /\ ControlComplete(0) /\ prefaced' = prefaced
          /\ settingsOutstanding > 0 /\ settingsOutstanding' = settingsOutstanding - 1
      BY <1>6, <1>17, <2>2, Zenon DEF RecvSettingsAck
    <3>2. settingsOutstanding' \in 0 .. MaxOutstanding
      BY <3>1, CounterLimits DEF CountersOK
    <3>3. events' \in 0 .. MaxQueuedEvents
      BY <3>1, RaiseBounded, Zenon DEF CountersOK
    <3> QED
      BY <3>1, <3>2, <3>3, ControlCompleteCounters, Zenon DEF CountersOK
  <2> QED
    BY <2>1, <2>2, Zenon
<1>18. ASSUME NEW ack, RecvPing(ack) PROVE CountersOK'
  <2>1. Ready
    BY <1>6, <1>18, Zenon DEF RecvPing
  <2>2. \/ ConnectionError("INTERNAL")
        \/ /\ Raise(1) /\ UNCHANGED controlUnchanged
           /\ ControlComplete(0) \/ ControlComplete(1)
    BY <1>18, Zenon DEF RecvPing
  <2> QED
    BY <1>2, <1>4, <2>1, <2>2, ErrorCounters, Zenon
<1>19. ASSUME NEW last, RecvGoAway(last) PROVE CountersOK'
  <2> DEFINE refused == {id \in LocalLive : id > last}
  <2>1. CASE ConnectionError("PROTOCOL")
    BY <1>4, <2>1, ErrorCounters, Zenon
  <2>2. CASE ~ConnectionError("PROTOCOL")
    <3>3. Cardinality(refused) + 1 \in Nat
      BY DEF SizesCounted, LocalLive, Live
    <3>4. Ready /\ UNCHANGED <<settingsOutstanding, prefaced>>
      BY <1>5, <1>19, <2>2, Zenon DEF RecvGoAway
    <3>5. /\ Raise(Cardinality(refused) + 1)
          /\ \/ ControlComplete(0)
             \/ Failure("PROTOCOL", 0) /\ UNCHANGED controlFrames
      BY <1>19, <2>2, Zenon DEF RecvGoAway
    <3> QED
      BY <1>12, <3>3, <3>4, <3>5, Zenon
  <2> QED
    BY <2>1, <2>2, Zenon
<1>20. ASSUME NEW n, RecvConnectionWindowUpdate(n) PROVE CountersOK'
  <2>1. CASE ConnectionError("FLOW_CONTROL")
    BY <1>4, <2>1, ErrorCounters, Zenon
  <2>2. CASE ~ConnectionError("FLOW_CONTROL")
    <3>1. Ready /\ Raise(1) /\ ControlComplete(0) /\ UNCHANGED <<settingsOutstanding, prefaced>>
      BY <1>6, <1>20, <2>2, Zenon DEF RecvConnectionWindowUpdate, settingVars
    <3> QED
      BY <1>12, <3>1, Zenon
  <2> QED
    BY <2>1, <2>2, Zenon
<1>21. ASSUME NEW id, NEW n, RecvWindowUpdate(id, n) PROVE CountersOK'
  <2>1. Ready /\ Raise(1) /\ (ControlComplete(0) \/ ControlComplete(1))
    BY <1>6, <1>21, Zenon DEF RecvWindowUpdate
  <2>2. UNCHANGED <<settingsOutstanding, prefaced>>
    BY <1>21, Zenon DEF RecvWindowUpdate, controlUnchanged, settingVars
  <2> QED
    BY <1>12, <2>1, <2>2, Zenon
<1> QED
  BY <1>7, <1>8, <1>9, <1>10, <1>11, <1>13, <1>14, <1>15, <1>16, <1>17, <1>18, <1>19, <1>20,
     <1>21, ZenonT(40) DEF ReceiveControl

\* No part of a header block or of a DATA frame does.
LEMMA ReceiveMessageCounters ==
  ASSUME CountersOK, ReceiveHeaders \/ ReceiveData
  PROVE  CountersOK'
<1>1. ASSUME NEW n \in Nat, NEW e \in Nat, Emit(n), Raise(e),
             UNCHANGED <<settingsOutstanding, prefaced, statusVars>>,
             controlFrames' = 0 \/ UNCHANGED controlFrames
      PROVE  CountersOK'
  <2>1. output' \in 0 .. MaxOutput /\ events' \in 0 .. MaxQueuedEvents
    BY <1>1, EmitBounded, RaiseBounded, Zenon DEF CountersOK
  <2> QED
    BY <1>1, <2>1, CounterLimits, SMTT(30) DEF CountersOK, statusVars
<1>2. (UNCHANGED output => Emit(0)) /\ (UNCHANGED events => Raise(0))
  BY CounterLimits DEF Emit, Room, Raise, CountersOK
<1>3. UNCHANGED beginUnchanged => UNCHANGED <<settingsOutstanding, prefaced, controlFrames>>
  BY Zenon DEF beginUnchanged, settingVars
<1>4. ASSUME NEW n \in Nat, NEW e \in Nat, MessageComplete(n), Raise(e),
             UNCHANGED <<settingsOutstanding, prefaced>>
      PROVE  CountersOK'
  BY <1>1, <1>4, Zenon DEF MessageComplete
<1>5. ASSUME NEW n \in Nat, NEW e \in Nat, Ready, BlockComplete(n), Raise(e),
             UNCHANGED <<settingsOutstanding, prefaced>>
      PROVE  CountersOK'
  <2>1. CASE MessageComplete(n)
    BY <1>4, <1>5, <2>1, Zenon
  <2>2. CASE ControlComplete(n)
    <3>1. events' \in 0 .. MaxQueuedEvents
      BY <1>5, RaiseBounded, Zenon DEF CountersOK
    <3> QED
      BY <1>5, <2>2, <3>1, ControlCompleteCounters, Zenon DEF CountersOK
  <2> QED
    BY <1>5, <2>1, <2>2, Zenon DEF BlockComplete
<1>6. {"PROTOCOL", "STREAM_CLOSED", "COMPRESSION", "FLOW_CONTROL", "ENHANCE_YOUR_CALM"}
         \subseteq Failures
  BY Zenon DEF Failures
<1>7. ASSUME NEW id, NEW end, RefuseBlock(id, end) PROVE CountersOK'
  BY <1>1, <1>3, <1>7, Zenon DEF RefuseBlock
<1>8. ASSUME UNCHANGED <<output, events, statusVars, beginUnchanged>> PROVE CountersOK'
  BY <1>1, <1>2, <1>3, <1>8, Zenon
<1>9. ASSUME NEW id, NEW end, RecvHeadersOpen(id, end) PROVE CountersOK'
  BY <1>6, <1>7, <1>8, <1>9, ErrorCounters, Zenon DEF RecvHeadersOpen
<1>10. ASSUME NEW id, NEW end, RecvHeaders(id, end) PROVE CountersOK'
  BY <1>6, <1>7, <1>8, <1>10, ErrorCounters, Zenon DEF RecvHeaders
<1>11. ASSUME NEW parent, NEW id, RecvPushPromise(parent, id) PROVE CountersOK'
  <2>1. \/ ConnectionError("PROTOCOL")
        \/ Raise(1) /\ Emit(1) /\ UNCHANGED <<statusVars, beginUnchanged>>
        \/ UNCHANGED <<output, events, statusVars, beginUnchanged>>
    BY <1>11, Zenon DEF RecvPushPromise
  <2> QED
    BY <1>1, <1>3, <1>6, <1>8, <2>1, ErrorCounters, Zenon
<1>12. Receiving => Ready
  BY Zenon DEF Receiving
<1>13. UNCHANGED endUnchanged => UNCHANGED <<settingsOutstanding, prefaced>>
  BY Zenon DEF endUnchanged, settingVars
<1>14. ASSUME ContinueBlock PROVE CountersOK'
  BY <1>2, <1>5, <1>12, <1>14, Zenon DEF ContinueBlock, settingVars
<1>15. ASSUME EndIgnoredBlock PROVE CountersOK'
  BY <1>2, <1>5, <1>12, <1>13, <1>15, Zenon DEF EndIgnoredBlock
<1>16. ASSUME NEW section, CompressionError(section) \/ EndBlockNoRoom(section)
       PROVE  CountersOK'
  BY <1>6, <1>16, ErrorCounters, Zenon DEF CompressionError, EndBlockNoRoom
<1>17. ASSUME NEW section, EndRejectedBlock(section) PROVE CountersOK'
  <2>1. Receiving /\ UNCHANGED endUnchanged
    BY <1>17, Zenon DEF EndRejectedBlock, Decoded
  <2>2. (UNCHANGED events /\ BlockComplete(0)) \/ (Raise(1) /\ BlockComplete(1))
    BY <1>17, Zenon DEF EndRejectedBlock
  <2> QED
    BY <1>2, <1>5, <1>12, <1>13, <2>1, <2>2, Zenon
<1>18. ASSUME NEW section, EndPushPromise(section) PROVE CountersOK'
  BY <1>5, <1>12, <1>13, <1>18, Zenon DEF EndPushPromise, Accepted, Decoded
<1>19. ASSUME NEW section, EndInformational(section) PROVE CountersOK'
  BY <1>4, <1>13, <1>19, Zenon DEF EndInformational
<1>20. ASSUME NEW id, NEW rw, NEW re, NEW me, NEW n \in Nat, NEW e \in Nat,
              RemoteEnd(id, rw, re, me, n, e), UNCHANGED <<settingsOutstanding, prefaced>>
       PROVE  CountersOK'
  <2>1. \E k \in Nat : MessageComplete(k)
    BY <1>20, SMTT(30) DEF RemoteEnd
  <2>2. \E k \in Nat : Raise(k)
    BY <1>20, SMTT(30) DEF RemoteEnd
  <2> QED
    BY <1>4, <1>20, <2>1, <2>2, Zenon
<1>21. ASSUME NEW section, EndMessageBlock(section) PROVE CountersOK'
  <2>1. \/ \E id, re, me : RemoteEnd(id, recvWindow, re, me, 0, 1)
        \/ Raise(1) /\ MessageComplete(0)
    BY <1>21, Zenon DEF EndMessageBlock
  <2>2. UNCHANGED endUnchanged
    BY <1>21, Zenon DEF EndMessageBlock
  <2> QED
    BY <1>4, <1>13, <1>20, <2>1, <2>2, Zenon
<1>22. UNCHANGED dataUnchanged => UNCHANGED <<settingsOutstanding, prefaced>>
  BY Zenon DEF dataUnchanged, settingVars
<1>23. ASSUME NEW id, NEW n, NEW m, NEW end, BeginData(id, n, m, end) PROVE CountersOK'
  <2>1. UNCHANGED <<statusVars, controlFrames, settingsOutstanding, prefaced>>
    BY <1>22, <1>23, Zenon DEF BeginData
  <2>2. (Raise(1) /\ Emit(1)) \/ UNCHANGED <<output, events>>
    BY <1>23, Zenon DEF BeginData
  <2> QED
    BY <1>1, <1>2, <2>1, <2>2, Zenon
<1>24. ASSUME NEW id, NEW n, BeginDataOverConnectionWindow(id, n) PROVE CountersOK'
  BY <1>6, <1>24, ErrorCounters, Zenon DEF BeginDataOverConnectionWindow
<1>25. ASSUME NEW k, RecvDataFragment(k) PROVE CountersOK'
  <2>1. UNCHANGED <<statusVars, controlFrames, settingsOutstanding, prefaced>>
    BY <1>22, <1>25, Zenon DEF RecvDataFragment
  <2>2. \/ UNCHANGED <<output, events>>
        \/ Raise(1) /\ Emit(1)
        \/ Raise(1) /\ UNCHANGED output
    BY <1>25, Zenon DEF RecvDataFragment
  <2> QED
    BY <1>1, <1>2, <2>1, <2>2, Zenon
<1>26. ASSUME DataNoRoom PROVE CountersOK'
  BY <1>6, <1>26, ErrorCounters, Zenon DEF DataNoRoom
<1>27. ASSUME CompleteData PROVE CountersOK'
  <2>1. UNCHANGED <<settingsOutstanding, prefaced>>
    BY <1>22, <1>27, Zenon DEF CompleteData
  <2>2. \E n \in Nat : \/ MessageComplete(n) /\ UNCHANGED events
                       \/ \E id, rw : RemoteEnd(id, rw, received, method, n, 0)
    <3> DEFINE n == (IF Credit(connectionRecvWindow) > 0 THEN 1 ELSE 0)
                      + (IF Credit(recvWindow[frame.stream]) > 0 THEN 1 ELSE 0)
    <3>1. n \in Nat
      OBVIOUS
    <3>2. \/ MessageComplete(0) /\ UNCHANGED events
          \/ MessageComplete(n) /\ UNCHANGED events
          \/ \E id, rw : RemoteEnd(id, rw, received, method, n, 0)
      BY <1>27, Zenon DEF CompleteData
    <3> QED
      BY <3>1, <3>2, Zenon
  <2> QED
    BY <1>2, <1>4, <1>20, <2>1, <2>2, Zenon
<1>28. CASE ReceiveHeaders
  BY <1>9, <1>10, <1>11, <1>14, <1>15, <1>16, <1>17, <1>18, <1>19, <1>21, <1>28, ZenonT(40)
     DEF ReceiveHeaders
<1>29. CASE ReceiveData
  BY <1>23, <1>24, <1>25, <1>26, <1>27, <1>29, Zenon DEF ReceiveData
<1> QED
  BY <1>28, <1>29, Zenon

\* A session that has failed can only be closed and drained.
LEMMA FailedFrozen == ASSUME CountersOK, failed # "none", [Next]_vars PROVE Frozen
<1>1. ~Ready /\ ~Receiving /\ ~AtFrame /\ ~Settled
  BY Zenon DEF Ready, Receiving, AtFrame, Settled
<1>2. ASSUME UNCHANGED <<state, streamVars, windowVars, statusVars>>,
             output' <= output, events' <= events
      PROVE  Frozen
  BY <1>2, Zenon DEF Frozen, statusVars
<1>3. output <= output /\ events <= events
  BY DEF CountersOK
<1>4. ASSUME NEW section, NEW end, OpenStreamFails(section, end) PROVE Frozen
  BY <1>2, <1>3, <1>4, Zenon DEF OpenStreamFails, SpendLocal
<1>5. ASSUME NEW id, NEW section, PushPromiseFails(id, section) PROVE Frozen
  BY <1>2, <1>3, <1>5, Zenon DEF PushPromiseFails, SpendLocal
<1>6. ASSUME Close PROVE Frozen
  <2>1. closed' # closed
    BY <1>6, Zenon DEF Close, ClearStreams
  <2>2. output' = 0 /\ events' = 0 /\ failed' = failed
    BY <1>6, Zenon DEF Close, statusVars
  <2> QED
    BY <2>1, <2>2 DEF Frozen, CountersOK
<1>7. ASSUME ConsumeOutput PROVE Frozen
  <2>1. output' <= output /\ events' <= events
    BY <1>3, <1>7 DEF ConsumeOutput, CountersOK
  <2> QED
    BY <1>2, <1>7, <2>1, Zenon DEF ConsumeOutput, tableVars
<1>8. ASSUME NextEvent PROVE Frozen
  <2>1. output' <= output /\ events' <= events
    BY <1>3, <1>8 DEF NextEvent, CountersOK
  <2> QED
    BY <1>2, <1>8, <2>1, Zenon DEF NextEvent, tableVars
<1>9. CASE LocalCall
  <2>1. /\ \A section, end : ~OpenStream(section, end)
        /\ \A id, section : ~PushPromise(id, section)
        /\ \A id : ~ResetStream(id)
        /\ \A settings : ~UpdateSettings(settings)
        /\ ~SendControl /\ ~GoAway
    BY <1>1, Zenon DEF OpenStream, PushPromise, ResetStream, UpdateSettings, SendControl, GoAway
  <2>2. /\ \A id, section, end : ~SendHeaders(id, section, end)
        /\ \A id, n, end : ~SendData(id, n, end)
    BY <1>1, ZenonT(40) DEF SendHeaders, SendData
  <2> QED
    BY <1>4, <1>5, <1>6, <1>7, <1>8, <1>9, <2>1, <2>2, Zenon DEF LocalCall
<1>10. ~ReceiveControl
  <2>1. /\ ~RecvPreface /\ ~ParseError /\ ~FirstFrameNotSettings /\ ~RecvPriority
        /\ ~RecvUnknown /\ \A valid : ~RecvPriorityUpdate(valid)
    BY <1>1, Zenon DEF RecvPreface, ParseError, FirstFrameNotSettings, RecvPriority,
                       RecvUnknown, RecvPriorityUpdate
  <2>2. /\ \A id : ~RecvRSTStreamUnknown(id) /\ ~RecvRSTStream(id) /\ ~RecvWindowUpdateLate(id)
        /\ \A settings : ~RecvSettingsRejected(settings) /\ ~RecvSettings(settings)
    BY <1>1, Zenon DEF RecvRSTStreamUnknown, RecvRSTStream, RecvWindowUpdateLate,
                       RecvSettingsRejected, RecvSettings
  <2>3. /\ ~RecvSettingsAck /\ \A ack : ~RecvPing(ack)
        /\ \A last : ~RecvGoAway(last)
        /\ \A n : ~RecvConnectionWindowUpdate(n) /\ \A id : ~RecvWindowUpdate(id, n)
    BY <1>1, Zenon DEF RecvSettingsAck, RecvPing, RecvGoAway, RecvConnectionWindowUpdate,
                       RecvWindowUpdate
  <2> QED
    BY <2>1, <2>2, <2>3, Zenon DEF ReceiveControl
<1>11. ~ReceiveHeaders
  <2>1. /\ \A id, end : ~RecvHeadersOpen(id, end) /\ ~RecvHeaders(id, end)
        /\ \A parent, id : ~RecvPushPromise(parent, id)
        /\ ~ContinueBlock /\ ~EndIgnoredBlock
    BY <1>1, Zenon DEF RecvHeadersOpen, RecvHeaders, RecvPushPromise, ContinueBlock,
                       EndIgnoredBlock
  <2>2. \A section : ~Decoded(section) /\ ~Accepted(section) /\ ~CompressionError(section)
    BY <1>1, Zenon DEF Decoded, Accepted, CompressionError
  <2>3. \A section : /\ ~EndRejectedBlock(section) /\ ~EndBlockNoRoom(section)
                     /\ ~EndPushPromise(section) /\ ~EndInformational(section)
                     /\ ~EndMessageBlock(section)
    BY <2>2, Zenon DEF EndRejectedBlock, EndBlockNoRoom, EndPushPromise, EndInformational,
                       EndMessageBlock
  <2> QED
    BY <2>1, <2>2, <2>3, Zenon DEF ReceiveHeaders
<1>12. ~ReceiveData
  <2>1. /\ \A id, n, m, end : ~BeginData(id, n, m, end)
        /\ \A id, n : ~BeginDataOverConnectionWindow(id, n)
        /\ \A k : ~RecvDataFragment(k)
        /\ ~DataNoRoom /\ ~CompleteData
    BY <1>1, Zenon DEF BeginData, BeginDataOverConnectionWindow, RecvDataFragment,
                       DataNoRoom, CompleteData
  <2> QED
    BY <2>1, Zenon DEF ReceiveData
<1>13. CASE UNCHANGED vars
  BY <1>2, <1>3, <1>13, Zenon DEF vars, tableVars
<1> QED
  BY <1>9, <1>10, <1>11, <1>12, <1>13, Zenon DEF Next

-----------------------------------------------------------------------------
(* What is announced *)

\* The step tells the application of a stream it closes, or sends a frame.
Noticed == (\E n \in Nat \ {0} : Raise(n)) \/ output' = output + 1

\* The step closes no stream.
NoneGone == \A id \in StreamId : state[id] \in LiveState => state'[id] \in LiveState

\* A step that closes no stream has nothing to announce.
LEMMA QuietAnnounced == ASSUME NoneGone \/ UNCHANGED tableVars PROVE Announced
<1>1. Gone = {}
  BY Zenon DEF Gone, NoneGone, Live, tableVars
<1> QED
  BY <1>1, Zenon DEF Announced

\* A stream that is allocated or moves closes none.
LEMMA MovedAnnounced ==
  ASSUME TableInv, NEW id \in StreamId, NEW st \in LiveState, state' = [state EXCEPT ![id] = st]
  PROVE  Announced
  BY QuietAnnounced, Zenon DEF NoneGone, TableInv, TableTypeOK

\* closeStream closes the streams it is called for and no others: those it evicts
\* had been closed before.
LEMMA GoneQueue ==
  ASSUME TableInv, NEW q \in Seq(StreamId), Range(q) \subseteq Live, IsInjective(q),
         CloseStreams(q)
  PROVE  Gone \subseteq Range(q)
<1> SUFFICES ASSUME NEW id \in Gone, id \notin Range(q) PROVE FALSE
  BY Zenon
<1>1. id \in StreamId /\ state[id] \in LiveState /\ state'[id] \notin LiveState
  BY Zenon DEF Gone, Live
<1>2. id \in Evicted(q)
  BY <1>1, CloseStreamsEach, Zenon
<1>3. id \in Range(closedStreams)
  <2>1. closedStreams \in Seq(StreamId)
    BY Zenon DEF TableInv, TableTypeOK
  <2>2. PICK k \in 1 .. Overflow(q) : id = ClosedQueue(q)[k]
    BY <1>2, Zenon DEF Evicted
  <2>3. Len(closedStreams \o q) = Len(closedStreams) + Len(q) /\ MaxClosedStreams \in Nat
    BY <2>1, TableAssumption DEF TableAssumption
  <2>4. k \in 1 .. Len(closedStreams) + Len(q)
    BY <2>1, <2>2, <2>3 DEF Overflow, ClosedQueue
  <2>5. k > Len(closedStreams) => k - Len(closedStreams) \in 1 .. Len(q)
                                  /\ id = q[k - Len(closedStreams)]
    BY <2>1, <2>2, <2>4 DEF ClosedQueue
  <2>6. k \in 1 .. Len(closedStreams) /\ id = closedStreams[k]
    BY <2>1, <2>2, <2>4, <2>5 DEF ClosedQueue, Range
  <2> QED
    BY <2>1, <2>6 DEF Range
<1>4. ~closed
  BY Zenon DEF CloseStreams
<1> QED
  BY <1>1, <1>3, <1>4, Zenon DEF TableInv, ClosedExact, LiveState

\* The same for the sequences of at most one stream.
LEMMA GoneOne ==
  ASSUME TableInv, NEW id, NEW q \in {<<>>, <<id>>}, q = <<id>> => id \in Live,
         CloseStreams(q)
  PROVE  Gone \subseteq {id} \cap Live
<1>1. q \in Seq(StreamId) /\ Range(q) \subseteq Live /\ Range(q) \subseteq {id} /\ IsInjective(q)
  <2>1. CASE q = <<>>
    BY <2>1 DEF Range, IsInjective
  <2>2. CASE q = <<id>>
    <3>1. id \in Live /\ id \in StreamId
      BY <2>2, Zenon DEF Live
    <3>2. Range(<<id>>) = {id} /\ IsInjective(<<id>>) /\ <<id>> \in Seq(StreamId)
      BY <3>1 DEF Range, IsInjective
    <3> QED
      BY <2>2, <3>1, <3>2, Zenon
  <2> QED
    BY <2>1, <2>2, Zenon
<1>2. Gone \subseteq Live
  BY Zenon DEF Gone
<1> QED
  BY <1>1, <1>2, GoneQueue, Zenon

\* A step that closes one stream announces it with an event or a frame.
LEMMA OneAnnounced ==
  ASSUME SizesCounted, CountersOK, NEW id, Gone \subseteq {id}, Gone # {} => Noticed
  PROVE  Announced
<1> SUFFICES ASSUME Gone # {} PROVE Announced
  BY Zenon DEF Announced
<1>1. Gone = {id}
  BY Zenon
<1>2. Cardinality(Gone) = 1
  BY <1>1, Zenon DEF SizesCounted
<1>3. CASE output' = output + 1
  BY <1>2, <1>3, Zenon DEF Announced
<1>4. CASE \E n \in Nat \ {0} : Raise(n)
  <2> PICK n \in Nat \ {0} : Raise(n)
    BY <1>4, Zenon
  <2>1. events' >= events + 1 \/ events' = MaxQueuedEvents
    BY CounterLimits DEF Raise, CountersOK
  <2> QED
    BY <1>2, <2>1, Zenon DEF Announced
<1> QED
  BY <1>3, <1>4, Zenon DEF Noticed

\* closeStream on a stream that may have been closed before.
LEMMA EndAnnounced ==
  ASSUME TableInv, SizesCounted, CountersOK, NEW id,
         End(IfLive(id)) \/ (End(<<id>>) /\ id \in Live), Noticed
  PROVE  Announced
<1>1. PICK q \in {<<>>, <<id>>} : CloseStreams(q) /\ (q = <<id>> => id \in Live)
  <2>1. <<>> # <<id>>
    BY Zenon
  <2> QED
    BY <2>1, Zenon DEF End, IfLive
<1>2. Gone \subseteq {id}
  BY <1>1, GoneOne, Zenon
<1> QED
  BY <1>2, OneAnnounced, Zenon

\* A frame that finds room is appended.
LEMMA EmitNoticed == ASSUME CountersOK, Room(1) \/ Room(HeaderReserve), Emit(1) PROVE Noticed
  BY SessionAssumption, CounterLimits DEF CountersOK, Room, Emit, Noticed

\* SendHeaders and SendData announce the end of a stream with its last frame.
LEMMA LocalEndAnnounced ==
  ASSUME TableInv, SizesCounted, CountersOK, NEW id \in StreamId, CanSend(state[id]), NEW end,
         NEW sw, NEW se, NEW me, LocalEnd(id, end, sw, se, me), Noticed
  PROVE  Announced
<1> DEFINE st == IF state[id] = "reservedLocal" THEN "halfClosedRemote" ELSE state[id]
           after == IF end /\ st = "open" THEN "halfClosedLocal" ELSE st
           q == IF end /\ st = "halfClosedRemote" THEN <<id>> ELSE <<>>
<1>1. CloseStreams(q) \/ Move(id, after) \/ UNCHANGED tableVars
  BY Zenon DEF LocalEnd
<1>2. id \in Live /\ after \in LiveState
  BY Zenon DEF CanSend, Live, LiveState
<1>3. q \in {<<>>, <<id>>}
  BY Zenon
<1> HIDE DEF after, q
<1>4. CASE CloseStreams(q)
  <2>1. Gone \subseteq {id}
    BY <1>2, <1>3, <1>4, GoneOne, Zenon
  <2> QED
    BY <2>1, OneAnnounced, Zenon
<1>5. CASE Move(id, after)
  BY <1>2, <1>5, MovedAnnounced, Zenon DEF Move
<1> QED
  BY <1>1, <1>4, <1>5, QuietAnnounced, Zenon

\* remoteEnd announces the end of a stream with an event.
LEMMA RemoteEndAnnounced ==
  ASSUME TableInv, SizesCounted, CountersOK, NEW id \in StreamId, NEW rw, NEW re, NEW me, NEW n,
         NEW e \in Nat, RemoteEnd(id, rw, re, me, n, e)
  PROVE  Announced
<1> DEFINE mismatch == LengthMismatch(re[id])
           q == IF mismatch THEN IfLive(id)
                ELSE IF state[id] = "halfClosedLocal" THEN <<id>> ELSE <<>>
           notice == IF mismatch \/ state[id] # "closed" THEN 1 ELSE 0
<1>1. /\ IF ~mismatch /\ state[id] = "open" THEN Move(id, "halfClosedRemote")
         ELSE CloseStreams(q)
      /\ Raise(e + notice)
  BY Zenon DEF RemoteEnd
<1>2. q \in {<<>>, <<id>>}
  BY Zenon DEF IfLive
<1>3. q = <<id>> => id \in Live
  BY Zenon DEF IfLive, Live, LiveState
<1>4. id \in Live => notice = 1
  BY Zenon DEF Live, LiveState
<1> HIDE DEF mismatch, q, notice
<1>5. CASE Move(id, "halfClosedRemote")
  BY <1>5, MovedAnnounced, Zenon DEF Move, LiveState
<1>6. CASE CloseStreams(q)
  <2>1. Gone \subseteq {id} \cap Live
    BY <1>2, <1>3, <1>6, GoneOne, Zenon
  <2>2. Gone # {} => Raise(e + 1) /\ e + 1 \in Nat \ {0}
    BY <1>1, <1>4, <2>1
  <2>3. Gone # {} => Noticed
    BY <2>2, Zenon DEF Noticed
  <2> QED
    BY <2>1, <2>3, OneAnnounced, Zenon
<1> QED
  BY <1>1, <1>5, <1>6, Zenon

\* Every local call announces the streams it closes.
LEMMA LocalCallAnnounced == ASSUME Known, CountersOK, LocalCall PROVE Announced
<1>a. TableInv /\ SizesCounted
  BY Zenon DEF Known
<1>1. ASSUME NEW section, NEW end \in BOOLEAN, OpenStream(section, end) PROVE Announced
  <2> DEFINE st == IF end THEN "halfClosedLocal" ELSE "open"
  <2>1. nextLocalStream \in StreamId /\ state' = [state EXCEPT ![nextLocalStream] = st]
    BY <1>1, Zenon DEF OpenStream, AllocateLocal, MayAllocate
  <2>2. st \in LiveState
    BY Zenon DEF LiveState
  <2> QED
    BY <1>a, <2>1, <2>2, MovedAnnounced, Zenon
<1>2. ASSUME NEW section, NEW end, OpenStreamFails(section, end) PROVE Announced
  BY <1>2, QuietAnnounced, Zenon DEF OpenStreamFails, SpendLocal, NoneGone
<1>3. ASSUME NEW id \in StreamId, NEW section, NEW end, SendHeaders(id, section, end)
      PROVE  Announced
  <2>1. CanSend(state[id]) /\ Room(HeaderReserve) /\ Emit(1)
        /\ \E last, sw, se, me : LocalEnd(id, last, sw, se, me)
    BY <1>3, Zenon DEF SendHeaders
  <2>2. Noticed
    BY <2>1, EmitNoticed, Zenon
  <2> QED
    BY <1>a, <2>1, <2>2, LocalEndAnnounced, Zenon
<1>4. ASSUME NEW id, NEW section, PushPromise(id, section) PROVE Announced
  <2>1. /\ nextLocalStream \in StreamId
        /\ state' = [state EXCEPT ![nextLocalStream] = "reservedLocal"]
    BY <1>4, Zenon DEF PushPromise, AllocateLocal, MayAllocate
  <2> QED
    BY <1>a, <2>1, MovedAnnounced, Zenon DEF LiveState
<1>5. ASSUME NEW id, NEW section, PushPromiseFails(id, section) PROVE Announced
  BY <1>5, QuietAnnounced, Zenon DEF PushPromiseFails, SpendLocal, NoneGone
<1>6. ASSUME NEW id \in StreamId, NEW n, NEW end, SendData(id, n, end) PROVE Announced
  <2>1. CanSend(state[id]) /\ Room(1) /\ Emit(1)
        /\ \E last, sw, se, me : LocalEnd(id, last, sw, se, me)
    BY <1>6, Zenon DEF SendData
  <2>2. Noticed
    BY <2>1, EmitNoticed, Zenon
  <2> QED
    BY <1>a, <2>1, <2>2, LocalEndAnnounced, Zenon
<1>7. ASSUME NEW id, ResetStream(id) PROVE Announced
  <2>1. Room(1) /\ Emit(1) /\ End(IfLive(id))
    BY <1>7, Zenon DEF ResetStream
  <2>2. Noticed
    BY <2>1, EmitNoticed, Zenon
  <2> QED
    BY <1>a, <2>1, <2>2, EndAnnounced, Zenon
<1>8. ASSUME NEW settings, UpdateSettings(settings) PROVE Announced
  <2>1. UNCHANGED tableVars
    BY <1>8, Zenon DEF UpdateSettings
  <2> QED
    BY <2>1, QuietAnnounced, Zenon
<1>9. CASE SendControl \/ GoAway \/ ConsumeOutput \/ NextEvent
  <2>1. UNCHANGED tableVars
    BY <1>9, Zenon DEF SendControl, GoAway, ConsumeOutput, NextEvent
  <2> QED
    BY <2>1, QuietAnnounced, Zenon
<1>10. CASE Close
  BY <1>10, Zenon DEF Close, ClearStreams, Announced
<1> QED
  BY <1>1, <1>2, <1>3, <1>4, <1>5, <1>6, <1>7, <1>8, <1>9, <1>10, ZenonT(40) DEF LocalCall

\* Every control frame announces the streams it closes.
LEMMA ReceiveControlAnnounced == ASSUME Known, CountersOK, ReceiveControl PROVE Announced
<1>0. ASSUME NEW code, ConnectionError(code) PROVE Announced
  BY <1>0, QuietAnnounced, Zenon DEF ConnectionError
<1>a. TableInv /\ SizesCounted
  BY Zenon DEF Known
<1>1. CASE \/ RecvPreface \/ RecvPriority \/ RecvUnknown
           \/ \E valid \in BOOLEAN : RecvPriorityUpdate(valid)
  <2>1. UNCHANGED tableVars
    BY <1>1, Zenon DEF RecvPreface, RecvPriority, RecvUnknown, RecvPriorityUpdate
  <2> QED
    BY <2>1, QuietAnnounced, Zenon
<1>2. CASE ParseError \/ FirstFrameNotSettings
  BY <1>0, <1>2, Zenon DEF ParseError, FirstFrameNotSettings
<1>3. ASSUME NEW id, RecvRSTStreamUnknown(id) \/ RecvWindowUpdateLate(id) PROVE Announced
  <2>1. ConnectionError("PROTOCOL") \/ UNCHANGED tableVars
    BY <1>3, Zenon DEF RecvRSTStreamUnknown, RecvWindowUpdateLate
  <2> QED
    BY <1>0, <2>1, QuietAnnounced, Zenon
<1>4. ASSUME NEW id, RecvRSTStream(id) PROVE Announced
  <2>1. End(IfLive(id)) /\ Raise(1)
    BY <1>4, Zenon DEF RecvRSTStream
  <2>2. Noticed
    BY <2>1 DEF Noticed
  <2> QED
    BY <1>a, <2>1, <2>2, EndAnnounced, Zenon
<1>5. ASSUME NEW settings, RecvSettingsRejected(settings) PROVE Announced
  BY <1>0, <1>5, Zenon DEF RecvSettingsRejected
<1>6. ASSUME NEW settings, RecvSettings(settings) PROVE Announced
  <2>1. UNCHANGED tableVars
    BY <1>6, Zenon DEF RecvSettings
  <2> QED
    BY <2>1, QuietAnnounced, Zenon
<1>7. CASE RecvSettingsAck \/ \E ack \in BOOLEAN : RecvPing(ack)
  <2>1. (\E code : ConnectionError(code)) \/ UNCHANGED tableVars
    BY <1>7, Zenon DEF RecvSettingsAck, RecvPing
  <2> QED
    BY <1>0, <2>1, QuietAnnounced, Zenon
<1>8. ASSUME NEW last \in LastStreams, RecvGoAway(last) PROVE Announced
  <2> DEFINE refused == {id \in LocalLive : id > last}
             n == Cardinality(refused)
  <2>1. \/ ConnectionError("PROTOCOL")
        \/ (\E q \in Orders(refused) : End(q)) /\ Raise(n + 1)
    BY <1>8, Zenon DEF RecvGoAway
  <2>2. CASE ConnectionError("PROTOCOL")
    BY <1>0, <2>2, Zenon
  <2>3. CASE (\E q \in Orders(refused) : End(q)) /\ Raise(n + 1)
    <3>1. PICK q \in Orders(refused) : End(q)
      BY <2>3, Zenon
    <3>2. refused \subseteq Live /\ refused \subseteq StreamId
      BY Zenon DEF LocalLive, Live
    <3> HIDE DEF refused
    <3>3. n \in Nat
      BY <1>a, <3>2, Zenon DEF SizesCounted
    <3>4. q \in [1 .. n -> refused] /\ IsInjective(q) /\ Range(q) = refused
      <4>1. q \in [1 .. n -> refused] /\ IsInjective(q)
        BY Zenon DEF Orders, Bijection, Injection, Surjection, IsInjective
      <4>2. Range(q) = refused
        BY OrdersRange, Zenon
      <4> QED
        BY <4>1, <4>2, Zenon
    <3> HIDE DEF n
    <3>5. q \in Seq(StreamId)
      BY <3>2, <3>3, <3>4
    <3>6. Gone \subseteq refused
      BY <1>a, <3>1, <3>2, <3>4, <3>5, GoneQueue, Zenon DEF End
    <3>7. Cardinality(Gone) \in Nat /\ Cardinality(Gone) <= n
      BY <1>a, <3>2, <3>6, Zenon DEF n, SizesCounted
    <3>8. events' >= events + Cardinality(Gone) \/ events' = MaxQueuedEvents
      BY <2>3, <3>3, <3>7, CounterLimits DEF Raise, CountersOK
    <3> QED
      BY <3>8, Zenon DEF Announced
  <2> QED
    BY <2>1, <2>2, <2>3, Zenon
<1>9. ASSUME NEW n, RecvConnectionWindowUpdate(n) PROVE Announced
  <2>1. ConnectionError("FLOW_CONTROL") \/ UNCHANGED tableVars
    BY <1>9, Zenon DEF RecvConnectionWindowUpdate
  <2> QED
    BY <1>0, <2>1, QuietAnnounced, Zenon
<1>10. ASSUME NEW id, NEW n, RecvWindowUpdate(id, n) PROVE Announced
  <2>1. id \in Live /\ Raise(1) /\ (End(<<id>>) \/ UNCHANGED tableVars)
    BY <1>10, Zenon DEF RecvWindowUpdate
  <2>2. Noticed
    BY <2>1 DEF Noticed
  <2> QED
    BY <1>a, <2>1, <2>2, EndAnnounced, QuietAnnounced, Zenon
<1> QED
  BY <1>1, <1>2, <1>3, <1>4, <1>5, <1>6, <1>7, <1>8, <1>9, <1>10, ZenonT(40) DEF ReceiveControl

\* Every step of a header block announces the streams it closes.
LEMMA ReceiveHeadersAnnounced == ASSUME Known, CountersOK, ReceiveHeaders PROVE Announced
<1>0. ASSUME NEW code, ConnectionError(code) PROVE Announced
  BY <1>0, QuietAnnounced, Zenon DEF ConnectionError
<1>a. TableInv /\ SizesCounted
  BY Zenon DEF Known
<1>b. ASSUME NEW id, NEW end, RefuseBlock(id, end) PROVE Announced
  <2>1. End(IfLive(id)) /\ Raise(1)
    BY <1>b, Zenon DEF RefuseBlock
  <2>2. Noticed
    BY <2>1 DEF Noticed
  <2> QED
    BY <1>a, <2>1, <2>2, EndAnnounced, Zenon
<1>c. {"open", "halfClosedLocal", "reservedRemote"} \subseteq LiveState
  BY Zenon DEF LiveState
<1>1. ASSUME NEW id \in StreamId, NEW end, RecvHeadersOpen(id, end) PROVE Announced
  <2>1. \/ ConnectionError("PROTOCOL") \/ RefuseBlock(id, end)
        \/ state' = [state EXCEPT ![id] = "open"]
    BY <1>1, Zenon DEF RecvHeadersOpen, AllocatePeer
  <2> QED
    BY <1>0, <1>a, <1>b, <1>c, <2>1, MovedAnnounced, Zenon
<1>2. ASSUME NEW id \in StreamId, NEW end, RecvHeaders(id, end) PROVE Announced
  <2>1. \/ ConnectionError("STREAM_CLOSED") \/ RefuseBlock(id, end) \/ UNCHANGED tableVars
        \/ state' = [state EXCEPT ![id] = "halfClosedLocal"]
    BY <1>2, Zenon DEF RecvHeaders, Move
  <2> QED
    BY <1>0, <1>a, <1>b, <1>c, <2>1, MovedAnnounced, QuietAnnounced, Zenon
<1>3. ASSUME NEW parent, NEW id \in StreamId, RecvPushPromise(parent, id) PROVE Announced
  <2>1. \/ ConnectionError("PROTOCOL") \/ UNCHANGED tableVars
        \/ state' = [state EXCEPT ![id] = "reservedRemote"]
    BY <1>3, Zenon DEF RecvPushPromise, AllocatePeer
  <2> QED
    BY <1>0, <1>a, <1>c, <2>1, MovedAnnounced, QuietAnnounced, Zenon
<1>4. CASE ContinueBlock \/ EndIgnoredBlock \/ \E section \in Sections : EndPushPromise(section)
  <2>1. UNCHANGED tableVars
    BY <1>4, Zenon DEF ContinueBlock, EndIgnoredBlock, EndPushPromise
  <2> QED
    BY <2>1, QuietAnnounced, Zenon
<1>5. ASSUME NEW section, CompressionError(section) \/ EndBlockNoRoom(section) PROVE Announced
  BY <1>0, <1>5, Zenon DEF CompressionError, EndBlockNoRoom
<1>6. ASSUME NEW section, EndRejectedBlock(section) \/ EndInformational(section) PROVE Announced
  <2>1. \/ UNCHANGED tableVars
        \/ End(IfLive(current.event)) /\ (Raise(1) \/ Raise(2))
    BY <1>6, Zenon DEF EndRejectedBlock, EndInformational
  <2>2. Raise(1) \/ Raise(2) => Noticed
    BY DEF Noticed
  <2> QED
    BY <1>a, <2>1, <2>2, EndAnnounced, QuietAnnounced, Zenon
<1>7. ASSUME NEW section, EndMessageBlock(section) PROVE Announced
  <2>1. /\ decoding
        /\ \/ \E rw, re, me : RemoteEnd(current.event, rw, re, me, 0, 1)
           \/ UNCHANGED tableVars
    BY <1>7, Zenon DEF EndMessageBlock, Accepted, Decoded
  <2>2. current.event \in StreamId
    BY <2>1, Zenon DEF Known, ParserInv
  <2> QED
    BY <1>a, <2>1, <2>2, RemoteEndAnnounced, QuietAnnounced, Zenon
<1> QED
  BY <1>1, <1>2, <1>3, <1>4, <1>5, <1>6, <1>7, ZenonT(40) DEF ReceiveHeaders

\* Every step of a DATA frame announces the streams it closes.
LEMMA ReceiveDataAnnounced == ASSUME Known, CountersOK, ReceiveData PROVE Announced
<1>0. ASSUME NEW code, ConnectionError(code) PROVE Announced
  BY <1>0, QuietAnnounced, Zenon DEF ConnectionError
<1>a. TableInv /\ SizesCounted
  BY Zenon DEF Known
<1>b. ASSUME NEW id, End(IfLive(id)), Raise(1) PROVE Announced
  <2>1. Noticed
    BY <1>b DEF Noticed
  <2> QED
    BY <1>a, <1>b, <2>1, EndAnnounced, Zenon
<1>1. ASSUME NEW id, NEW n, NEW m, NEW end, BeginData(id, n, m, end) PROVE Announced
  <2>1. UNCHANGED tableVars \/ (End(IfLive(id)) /\ Raise(1))
    BY <1>1, Zenon DEF BeginData
  <2> QED
    BY <1>b, <2>1, QuietAnnounced, Zenon
<1>2. ASSUME NEW k, RecvDataFragment(k) PROVE Announced
  <2>1. UNCHANGED tableVars \/ (End(IfLive(frame.stream)) /\ Raise(1))
    BY <1>2, Zenon DEF RecvDataFragment
  <2> QED
    BY <1>b, <2>1, QuietAnnounced, Zenon
<1>3. CASE DataNoRoom \/ \E id \in StreamId, n \in DataLengths : BeginDataOverConnectionWindow(id, n)
  BY <1>0, <1>3, Zenon DEF DataNoRoom, BeginDataOverConnectionWindow
<1>4. CASE CompleteData
  <2>1. /\ frame # NoFrame
        /\ \/ \E rw, re, me, n : RemoteEnd(frame.stream, rw, re, me, n, 0)
           \/ UNCHANGED tableVars
    BY <1>4, Zenon DEF CompleteData
  <2>2. frame.stream \in StreamId
    BY <2>1 DEF Known, ParserInv, StreamId
  <2> QED
    BY <1>a, <2>1, <2>2, RemoteEndAnnounced, QuietAnnounced, Zenon
<1> QED
  BY <1>1, <1>2, <1>3, <1>4, Zenon DEF ReceiveData

-----------------------------------------------------------------------------
(* GOAWAY *)

\* No stream of this endpoint comes to life.
LocalKept ==
  \A id \in StreamId :
    state'[id] \in LiveState /\ local'[id] => state[id] \in LiveState /\ local[id]

\* Where no stream of this endpoint comes to life and the GOAWAY the peer sent
\* stays the same, it stays honoured.
LEMMA GoAwayKept ==
  ASSUME GoAwayHonoured, LocalKept, peer'.goAway = peer.goAway,
         peer'.lastStream = peer.lastStream
  PROVE  GoAwayHonoured'
  BY Zenon DEF GoAwayHonoured, LocalKept, LocalLive, Live

\* What becomes of the streams when one side ends brings none to life.
LEMMA BecomesLocal ==
  ASSUME NEW id, NEW sw, NEW rw, NEW se, NEW re,
         \A i \in StreamId : Becomes(i, id, sw, rw, se, re)
  PROVE  LocalKept
<1> SUFFICES ASSUME NEW i \in StreamId, state'[i] \in LiveState, local'[i]
             PROVE  state[i] \in LiveState /\ local[i]
  BY Zenon DEF LocalKept
<1> QED
  BY Zenon DEF Becomes, Cleared, LiveState, Follows

\* Every step honours it.
LEMMA GoAwayStep == ASSUME Known, GoAwayHonoured, [Next]_vars PROVE GoAwayHonoured'
<1> USE DEF Known
<1>0. /\ state \in [StreamId -> StreamState] /\ local \in [StreamId -> BOOLEAN]
      /\ peer \in [maxConcurrent : Nat, initialWindow : 0 .. MaxWindow,
             maxFrame : Nat \ {0}, enablePush : BOOLEAN, noPriorities : BOOLEAN,
             settled : BOOLEAN, goAway : BOOLEAN, lastStream : 0 .. MaxStreamId]
  BY Zenon DEF TableInv, TableTypeOK, Typed, ConnectionTyped
<1>1. CASE ShrinkStep
  <2>1. CASE peer' = peer
    <3>1. LocalKept
      BY <1>1, Zenon DEF ShrinkStep, Shrinks, Cleared, LocalKept, LiveState
    <3> QED
      BY <2>1, <3>1, GoAwayKept, Zenon
  <2>2. CASE peer' # peer
    BY <1>1, <2>2, Zenon DEF ShrinkStep, PeerShrinks, GoAwayHonoured, LocalLive, Live
  <2> QED
    BY <2>1, <2>2, Zenon
<1>2. CASE UNCHANGED tableVars /\ UNCHANGED peer
  <2>1. LocalKept
    BY <1>2, Zenon DEF LocalKept, tableVars
  <2> QED
    BY <1>2, <2>1, GoAwayKept, Zenon
<1>3. ASSUME NEW section, NEW end, OpenStream(section, end) PROVE GoAwayHonoured'
  <2>1. ~peer.goAway /\ UNCHANGED peer
    BY <1>3, Zenon DEF OpenStream, MayOpen, settingVars
  <2> QED
    BY <2>1, Zenon DEF GoAwayHonoured
<1>4. ASSUME NEW id, NEW section, PushPromise(id, section) PROVE GoAwayHonoured'
  BY <1>4, Zenon DEF PushPromise, MayPush, GoAwayHonoured
<1>5. ASSUME NEW id \in StreamId,
             \/ \E section \in Sections, end \in BOOLEAN : SendHeaders(id, section, end)
             \/ \E n \in DataLengths, end \in BOOLEAN : SendData(id, n, end)
      PROVE  GoAwayHonoured'
  <2>1. UNCHANGED peer
    BY <1>5, SendBecomes, Zenon
  <2>2. \E sw, se : \A i \in StreamId : Becomes(i, id, sw, recvWindow, se, received)
    BY <1>5, SendBecomes, Zenon
  <2> QED
    BY <2>1, <2>2, BecomesLocal, GoAwayKept, Zenon
<1>6. ASSUME NEW settings, UpdateSettings(settings) PROVE GoAwayHonoured'
  BY <1>2, <1>6, Zenon DEF UpdateSettings
<1>7. ASSUME NEW settings, RecvSettings(settings) PROVE GoAwayHonoured'
  <2>1. UNCHANGED tableVars /\ peer' = PeerAfter(settings)
    BY <1>7, Zenon DEF RecvSettings
  <2>2. peer'.goAway = peer.goAway /\ peer'.lastStream = peer.lastStream
    BY <1>0, <2>1, Zenon DEF PeerAfter
  <2>3. LocalKept
    BY <2>1, Zenon DEF LocalKept, tableVars
  <2> QED
    BY <2>2, <2>3, GoAwayKept, Zenon
<1>8. ASSUME NEW n, ConnectionCredited(n) \/ (\E id : StreamCredited(id, n))
      PROVE  GoAwayHonoured'
  BY <1>2, <1>8, Zenon DEF ConnectionCredited, StreamCredited, connectionVars
<1>9. ASSUME NEW id \in StreamId, NEW st, AllocatePeer(id, st), UNCHANGED connectionVars
      PROVE  GoAwayHonoured'
  <2>1. LocalKept
    BY <1>0, <1>9, Zenon DEF AllocatePeer, LocalKept
  <2> QED
    BY <1>9, <2>1, GoAwayKept, Zenon DEF connectionVars
<1>10. ASSUME NEW id \in StreamId, NEW end, PeerOpens(id, end) PROVE GoAwayHonoured'
  BY <1>9, <1>10, Zenon DEF PeerOpens
<1>11. ASSUME NEW id \in StreamId, NEW end, PeerContinues(id, end) PROVE GoAwayHonoured'
  <2>1. LocalKept
    BY <1>0, <1>11, Zenon DEF PeerContinues, Move, Follows, LocalKept, tableVars, LiveState
  <2> QED
    BY <1>11, <2>1, GoAwayKept, Zenon DEF PeerContinues, connectionVars
<1>12. ASSUME NEW parent, NEW id \in StreamId, PeerPromises(parent, id)
       PROVE  GoAwayHonoured'
  BY <1>9, <1>12, Zenon DEF PeerPromises
<1>13. ASSUME NEW id \in StreamId, state[id] # "idle", NEW rw, NEW re, NEW me, NEW n, NEW e,
              RemoteEnd(id, rw, re, me, n, e)
       PROVE  LocalKept
  <2>1. \A i \in StreamId : Becomes(i, id, sendWindow, rw, sent, re)
    BY <1>13, RemoteEndBecomes, Zenon
  <2> QED
    BY <2>1, BecomesLocal, Zenon
<1>14. ASSUME NEW section, EndMessageBlock(section) PROVE GoAwayHonoured'
  <2>1. /\ decoding /\ state[current.event] # "idle"
        /\ UNCHANGED endUnchanged
        /\ \/ \E re, me : RemoteEnd(current.event, recvWindow, re, me, 0, 1)
           \/ UNCHANGED tableVars
    BY <1>14, Zenon DEF EndMessageBlock, Accepted, Decoded
  <2>2. current.event \in StreamId
    BY <2>1, Zenon DEF ParserInv
  <2>3. LocalKept \/ UNCHANGED tableVars
    BY <2>1, <2>2, <1>13, Zenon
  <2> QED
    BY <1>2, <2>1, <2>3, GoAwayKept, Zenon DEF endUnchanged, settingVars
<1>15. ASSUME NEW id, NEW n, NEW m, NEW end, DataAccepted(id, n, m, end) PROVE GoAwayHonoured'
  BY <1>2, <1>15, Zenon DEF DataAccepted
<1>16. ASSUME NEW k, FragmentDelivered(k) PROVE GoAwayHonoured'
  BY <1>2, <1>16, Zenon DEF FragmentDelivered, connectionVars
<1>17. CASE DataCompleted
  <2>1. /\ frame.stream \in StreamId /\ state[frame.stream] # "idle"
        /\ UNCHANGED peer
        /\ \/ \E rw, n : RemoteEnd(frame.stream, rw, received, method, n, 0)
           \/ UNCHANGED tableVars
    BY <1>17, Zenon DEF DataCompleted
  <2>2. LocalKept \/ UNCHANGED tableVars
    BY <2>1, <1>13, Zenon
  <2> QED
    BY <1>2, <2>1, <2>2, GoAwayKept, Zenon
<1>18. GrowStep => GoAwayHonoured'
  BY <1>3, <1>4, <1>5, <1>6, <1>7, <1>8, <1>10, <1>11, <1>12, <1>14, <1>15, <1>16, <1>17,
     ZenonT(40) DEF GrowStep
<1> QED
  BY <1>1, <1>18, StepCases, Zenon

-----------------------------------------------------------------------------
(* Windows *)

\* The windows of stream id. A stream that is not retained has no credit left
\* over that a change of the settings could turn into too much.
StreamWindows(id) ==
  /\ sendWindow[id] \in Window
  /\ recvWindow[id] \in Window
  /\ recvWindow[id] <= limits.initialWindow
  /\ state[id] = "idle" => recvWindow[id] <= 0

\* WindowsInRange and CreditBounded, made inductive.
WindowInv ==
  /\ connectionSendWindow \in 0 .. MaxWindow
  /\ connectionRecvWindow \in 0 .. MaxWindow
  /\ \A id \in StreamId : StreamWindows(id)

\* Streams that keep their windows, lose them, or are new.
LEMMA StreamWindowsKept ==
  ASSUME Typed, NEW id \in StreamId, StreamWindows(id), limits' = limits
  PROVE  /\ /\ sendWindow'[id] = sendWindow[id] /\ recvWindow'[id] = recvWindow[id]
            /\ state'[id] = "idle" => state[id] = "idle"
            => StreamWindows(id)'
         /\ sendWindow'[id] = 0 /\ recvWindow'[id] = 0 => StreamWindows(id)'
         /\ /\ sendWindow'[id] = peer.initialWindow /\ recvWindow'[id] = limits.initialWindow
            /\ state'[id] # "idle"
            => StreamWindows(id)'
<1>1. /\ MaxWindow \in Nat /\ limits.initialWindow \in 0 .. MaxWindow
      /\ peer.initialWindow \in 0 .. MaxWindow
  BY SessionAssumption, Zenon DEF Typed, ConnectionTyped
<1>2. /\ 0 \in Window /\ limits.initialWindow \in Window /\ peer.initialWindow \in Window
      /\ 0 <= 0 /\ 0 <= limits.initialWindow /\ limits.initialWindow <= limits.initialWindow
  BY <1>1 DEF Window
<1> QED
  BY <1>2, Zenon DEF StreamWindows

\* The calls that allocate a stream.
LEMMA AllocatedWindows ==
  ASSUME Known, WindowInv, NEW id \in StreamId, NEW se, NEW me, NewStream(id, se, me),
         NEW st \in LiveState, state' = [state EXCEPT ![id] = st], limits' = limits,
         UNCHANGED windowVars
  PROVE  WindowInv'
<1>1. ASSUME NEW i \in StreamId PROVE StreamWindows(i)'
  <2>1. /\ sendWindow \in [StreamId -> Int] /\ recvWindow \in [StreamId -> Int]
        /\ state \in [StreamId -> StreamState]
    BY Zenon DEF Known, Typed, StreamsTyped, TableInv, TableTypeOK
  <2>2. /\ sendWindow' = [sendWindow EXCEPT ![id] = peer.initialWindow]
        /\ recvWindow' = [recvWindow EXCEPT ![id] = limits.initialWindow]
    BY Zenon DEF NewStream
  <2>3. StreamWindows(i) /\ Typed
    BY Zenon DEF WindowInv, Known
  <2>4. CASE i = id
    <3>1. /\ sendWindow'[i] = peer.initialWindow /\ recvWindow'[i] = limits.initialWindow
          /\ state'[i] # "idle"
      BY <2>1, <2>2, <2>4, Zenon DEF LiveState
    <3> QED
      BY <2>3, <3>1, StreamWindowsKept, Zenon
  <2>5. CASE i # id
    <3>1. /\ sendWindow'[i] = sendWindow[i] /\ recvWindow'[i] = recvWindow[i]
          /\ state'[i] = state[i]
      BY <2>1, <2>2, <2>5, Zenon
    <3> QED
      BY <2>3, <3>1, StreamWindowsKept, Zenon
  <2> QED
    BY <2>4, <2>5, Zenon
<1> QED
  BY <1>1, Zenon DEF WindowInv, windowVars

\* The steps that end one side of a stream after its windows have been set.
LEMMA EndedWindows ==
  ASSUME Known, WindowInv, NEW id \in StreamId, NEW sw, NEW rw, NEW se, NEW re,
         \A i \in StreamId : Becomes(i, id, sw, rw, se, re),
         sw[id] \in Window, rw[id] \in Window, rw[id] <= limits.initialWindow,
         state[id] # "idle",
         \A i \in StreamId \ {id} : sw[i] = sendWindow[i] /\ rw[i] = recvWindow[i],
         limits' = limits
  PROVE  \A i \in StreamId : StreamWindows(i)'
<1> SUFFICES ASSUME NEW i \in StreamId PROVE StreamWindows(i)'
  BY Zenon
<1>1. StreamWindows(i) /\ Typed
  BY Zenon DEF WindowInv, Known
<1>2. CASE Cleared(i)
  BY <1>1, <1>2, StreamWindowsKept, Zenon DEF Cleared
<1>3. CASE ~Cleared(i)
  <2>1. /\ sendWindow'[i] = sw[i] /\ recvWindow'[i] = rw[i]
        /\ state'[i] = "idle" => state[i] = "idle"
    BY <1>3, Zenon DEF Becomes, Follows
  <2>2. CASE i = id
    BY <2>1, <2>2, Zenon DEF StreamWindows, Window
  <2>3. CASE i # id
    BY <1>1, <2>1, <2>3, StreamWindowsKept, Zenon
  <2> QED
    BY <2>2, <2>3, Zenon
<1> QED
  BY <1>2, <1>3, Zenon

\* Every step keeps the windows in range.
LEMMA WindowsStep == ASSUME Known, WindowInv, [Next]_vars PROVE WindowInv'
<1> USE DEF Known
<1>0. /\ sendWindow \in [StreamId -> Int] /\ recvWindow \in [StreamId -> Int]
      /\ state \in [StreamId -> StreamState]
      /\ MaxWindow \in Nat /\ limits.initialWindow \in 0 .. MaxWindow
      /\ peer.initialWindow \in 0 .. MaxWindow
  BY SessionAssumption, Zenon DEF Typed, StreamsTyped, ConnectionTyped, TableInv, TableTypeOK
<1>a. ASSUME UNCHANGED <<state, sendWindow, recvWindow, limits>>
      PROVE  \A id \in StreamId : StreamWindows(id)'
  BY <1>a, Zenon DEF WindowInv, StreamWindows
<1>1. CASE ShrinkStep
  <2>1. limits' = limits /\ UNCHANGED windowVars
    BY <1>1, Zenon DEF ShrinkStep
  <2>2. ASSUME NEW id \in StreamId PROVE StreamWindows(id)'
    <3>1. StreamWindows(id) /\ Shrinks(id)
      BY <1>1, Zenon DEF ShrinkStep, WindowInv
    <3> QED
      BY <2>1, <3>1, StreamWindowsKept, Zenon DEF Shrinks, SameAttributes, Cleared
  <2> QED
    BY <2>1, <2>2, Zenon DEF WindowInv, windowVars
<1>2. ASSUME NEW section, NEW end, OpenStream(section, end) PROVE WindowInv'
  <2>1. /\ AllocateLocal(IF end THEN "halfClosedLocal" ELSE "open")
        /\ \E se, me : NewStream(nextLocalStream, se, me)
        /\ UNCHANGED <<windowVars, settingVars>>
    BY <1>2, Zenon DEF OpenStream
  <2>2. /\ nextLocalStream \in StreamId
        /\ \E st \in LiveState : state' = [state EXCEPT ![nextLocalStream] = st]
    BY <2>1, Zenon DEF AllocateLocal, MayAllocate, LiveState
  <2> QED
    BY <2>1, <2>2, AllocatedWindows, Zenon DEF settingVars
<1>3. ASSUME NEW id, NEW section, PushPromise(id, section) PROVE WindowInv'
  <2>1. /\ AllocateLocal("reservedLocal")
        /\ \E se, me : NewStream(nextLocalStream, se, me)
        /\ UNCHANGED <<windowVars, settingVars>>
    BY <1>3, Zenon DEF PushPromise
  <2>2. /\ nextLocalStream \in StreamId
        /\ \E st \in LiveState : state' = [state EXCEPT ![nextLocalStream] = st]
    BY <2>1, Zenon DEF AllocateLocal, MayAllocate, LiveState
  <2> QED
    BY <2>1, <2>2, AllocatedWindows, Zenon DEF settingVars
<1>4. ASSUME NEW id \in StreamId,
             \/ \E section \in Sections, end \in BOOLEAN : SendHeaders(id, section, end)
             \/ \E n \in DataLengths, end \in BOOLEAN : SendData(id, n, end)
      PROVE  WindowInv'
  <2>1. /\ UNCHANGED <<connectionRecvWindow, limits>>
        /\ \E used \in Nat : \E se :
              /\ used # 0 => used <= connectionSendWindow /\ used <= sendWindow[id]
              /\ connectionSendWindow' = connectionSendWindow - used
              /\ \A i \in StreamId :
                   Becomes(i, id, [sendWindow EXCEPT ![id] = sendWindow[id] - used],
                           recvWindow, se, received)
    BY <1>4, SendBecomes, Zenon
  <2> PICK used \in Nat : \E se :
              /\ used # 0 => used <= connectionSendWindow /\ used <= sendWindow[id]
              /\ connectionSendWindow' = connectionSendWindow - used
              /\ \A i \in StreamId :
                   Becomes(i, id, [sendWindow EXCEPT ![id] = sendWindow[id] - used],
                           recvWindow, se, received)
    BY <2>1, Zenon
  <2> DEFINE sw == [sendWindow EXCEPT ![id] = sendWindow[id] - used]
  <2>2. state[id] # "idle"
    BY <1>4, Zenon DEF SendHeaders, SendData, CanSend
  <2>3. /\ sw[id] \in Window /\ recvWindow[id] \in Window
        /\ recvWindow[id] <= limits.initialWindow
        /\ \A i \in StreamId \ {id} : sw[i] = sendWindow[i]
    <3>1. StreamWindows(id)
      BY Zenon DEF WindowInv
    <3> QED
      BY <1>0, <3>1 DEF StreamWindows, Window
  <2>4. connectionSendWindow' \in 0 .. MaxWindow
    BY <1>0 DEF WindowInv
  <2>5. \E se : \A i \in StreamId : Becomes(i, id, sw, recvWindow, se, received)
    BY Zenon
  <2> HIDE DEF sw
  <2>6. \A i \in StreamId : StreamWindows(i)'
    BY <2>1, <2>2, <2>3, <2>5, EndedWindows, Zenon
  <2> QED
    BY <2>1, <2>4, <2>6, Zenon DEF WindowInv
<1>5. ASSUME NEW settings \in LocalSettings, UpdateSettings(settings) PROVE WindowInv'
  <2> DEFINE window == Updated(limits.initialWindow, settings.initialWindow)
             change == window - limits.initialWindow
  <2>1. /\ \A id \in Retained : recvWindow[id] + change \in -MaxWindow - 1 .. MaxWindow
        /\ limits' = [maxConcurrent |-> Updated(limits.maxConcurrent, settings.maxConcurrent),
                      initialWindow |-> window,
                      enablePush |-> IF settings.enablePush = Keep THEN limits.enablePush
                                     ELSE settings.enablePush = 1]
        /\ recvWindow' = [id \in StreamId |->
                            IF id \in Retained THEN recvWindow[id] + change ELSE recvWindow[id]]
        /\ UNCHANGED <<tableVars, sendWindow, windowVars>>
    BY <1>5, Zenon DEF UpdateSettings
  <2>2. window \in 0 .. MaxWindow /\ limits'.initialWindow = window
    <3>1. settings.initialWindow \in {Keep} \cup 0 .. MaxWindow
      BY SessionAssumption, Zenon
    <3> QED
      BY <1>0, <2>1, <3>1, Zenon DEF Updated
  <2> HIDE DEF window
  <2>3. ASSUME NEW id \in StreamId PROVE StreamWindows(id)'
    <3>1. StreamWindows(id) /\ state'[id] = state[id] /\ sendWindow'[id] = sendWindow[id]
      BY <2>1, Zenon DEF WindowInv, tableVars
    <3>2. CASE id \in Retained
      <4>1. recvWindow'[id] = recvWindow[id] + change /\ recvWindow'[id] \in Window
        BY <2>1, <3>2, Zenon DEF Window
      <4>2. recvWindow'[id] <= window
        BY <1>0, <2>2, <3>1, <4>1, SMTT(30) DEF StreamWindows
      <4>3. state'[id] # "idle"
        BY <3>1, <3>2, Zenon DEF Retained
      <4> QED
        BY <2>2, <3>1, <4>1, <4>2, <4>3, Zenon DEF StreamWindows
    <3>3. CASE id \notin Retained
      <4>1. recvWindow'[id] = recvWindow[id] /\ recvWindow[id] <= 0
        BY <2>1, <3>1, <3>3, Zenon DEF StreamWindows, Retained
      <4> QED
        BY <1>0, <2>2, <3>1, <4>1, SMTT(30) DEF StreamWindows
    <3> QED
      BY <3>2, <3>3, Zenon
  <2> QED
    BY <2>1, <2>3, Zenon DEF WindowInv, windowVars
<1>6. ASSUME NEW settings, RecvSettings(settings) PROVE WindowInv'
  <2>1. /\ ~WindowOverflow(settings)
        /\ sendWindow' = [id \in StreamId |-> IF id \in Live
                                              THEN sendWindow[id] + SendWindowChange(settings)
                                              ELSE sendWindow[id]]
        /\ UNCHANGED <<tableVars, recvWindow, windowVars, limits>>
    BY <1>6, Zenon DEF RecvSettings
  <2>2. ASSUME NEW id \in StreamId PROVE StreamWindows(id)'
    <3>1. StreamWindows(id) /\ state'[id] = state[id]
      BY <2>1, Zenon DEF WindowInv, tableVars
    <3>2. sendWindow'[id] \in Window
      BY <2>1, <3>1, Zenon DEF WindowOverflow, StreamWindows, Window
    <3> QED
      BY <2>1, <3>1, <3>2, Zenon DEF StreamWindows
  <2> QED
    BY <2>1, <2>2, Zenon DEF WindowInv, windowVars
<1>7. ASSUME NEW n \in Increments, ConnectionCredited(n) PROVE WindowInv'
  <2>1. n \in 1 .. MaxWindow
    BY SessionAssumption, Zenon
  <2>2. connectionSendWindow' \in 0 .. MaxWindow
    BY <1>0, <1>7, <2>1, SMTT(30) DEF ConnectionCredited, WindowInv
  <2>3. connectionRecvWindow' = connectionRecvWindow
        /\ UNCHANGED <<state, sendWindow, recvWindow, limits>>
    BY <1>7, Zenon DEF ConnectionCredited, tableVars, streamVars
  <2> QED
    BY <1>a, <2>2, <2>3, Zenon DEF WindowInv
<1>8. ASSUME NEW n \in Increments, NEW id \in StreamId, StreamCredited(id, n) PROVE WindowInv'
  <2>1. n \in 1 .. MaxWindow
    BY SessionAssumption, Zenon
  <2>2. /\ sendWindow[id] <= MaxWindow - n
        /\ sendWindow' = [sendWindow EXCEPT ![id] = sendWindow[id] + n]
        /\ UNCHANGED <<state, recvWindow, windowVars, limits>>
    BY <1>8, Zenon DEF StreamCredited, tableVars, connectionVars
  <2>3. ASSUME NEW i \in StreamId PROVE StreamWindows(i)'
    <3>1. StreamWindows(i)
      BY Zenon DEF WindowInv
    <3>2. sendWindow'[i] \in Window
      BY <1>0, <2>1, <2>2, <3>1, SMTT(30) DEF StreamWindows, Window
    <3> QED
      BY <2>2, <3>1, <3>2, Zenon DEF StreamWindows
  <2> QED
    BY <2>2, <2>3, Zenon DEF WindowInv, windowVars
<1>9. ASSUME NEW id \in StreamId, NEW end, PeerOpens(id, end) PROVE WindowInv'
  <2>1. /\ state' = [state EXCEPT ![id] = "open"]
        /\ NewStream(id, NoProgress, "")
        /\ UNCHANGED <<windowVars, limits>>
    BY <1>9, Zenon DEF PeerOpens, AllocatePeer, connectionVars
  <2> QED
    BY <2>1, AllocatedWindows, Zenon DEF LiveState
<1>10. ASSUME NEW id \in StreamId, NEW end, PeerContinues(id, end) PROVE WindowInv'
  <2>1. /\ UNCHANGED <<sendWindow, recvWindow, windowVars, limits>>
        /\ \A i \in StreamId : state'[i] = "idle" => state[i] = "idle"
    BY <1>0, <1>10, Zenon DEF PeerContinues, Move, streamVars, connectionVars, tableVars
  <2>2. ASSUME NEW i \in StreamId PROVE StreamWindows(i)'
    <3>1. StreamWindows(i)
      BY Zenon DEF WindowInv
    <3> QED
      BY <2>1, <3>1, Zenon DEF StreamWindows
  <2> QED
    BY <2>1, <2>2, Zenon DEF WindowInv, windowVars
<1>11. ASSUME NEW parent, NEW id \in StreamId, PeerPromises(parent, id) PROVE WindowInv'
  <2>1. /\ state' = [state EXCEPT ![id] = "reservedRemote"]
        /\ NewStream(id, NoProgress, "")
        /\ UNCHANGED <<windowVars, limits>>
    BY <1>11, Zenon DEF PeerPromises, AllocatePeer, connectionVars
  <2> QED
    BY <2>1, AllocatedWindows, Zenon DEF LiveState
<1>12. ASSUME NEW section, EndMessageBlock(section) PROVE WindowInv'
  <2> DEFINE id == current.event
  <2>1. /\ decoding /\ state[id] # "idle"
        /\ UNCHANGED endUnchanged
        /\ \/ \E re, me : RemoteEnd(id, recvWindow, re, me, 0, 1)
           \/ UNCHANGED <<tableVars, sendWindow, recvWindow>>
    BY <1>12, Zenon DEF EndMessageBlock, Accepted, Decoded
  <2>2. id \in StreamId
    BY <2>1, Zenon DEF ParserInv
  <2>3. UNCHANGED <<windowVars, limits>>
    BY <2>1, Zenon DEF endUnchanged, settingVars
  <2>4. CASE \E re, me : RemoteEnd(id, recvWindow, re, me, 0, 1)
    <3>1. StreamWindows(id)
      BY <2>2, Zenon DEF WindowInv
    <3>2. \E re : \A i \in StreamId : Becomes(i, id, sendWindow, recvWindow, sent, re)
      BY <2>1, <2>2, <2>4, RemoteEndBecomes, Zenon
    <3>3. \A i \in StreamId : StreamWindows(i)'
      BY <2>1, <2>2, <2>3, <3>1, <3>2, EndedWindows, Zenon DEF StreamWindows
    <3> QED
      BY <2>3, <3>3, Zenon DEF WindowInv, windowVars
  <2>5. CASE UNCHANGED <<tableVars, sendWindow, recvWindow>>
    BY <1>a, <2>3, <2>5, Zenon DEF WindowInv, windowVars, tableVars
  <2> QED
    BY <2>1, <2>4, <2>5, Zenon
<1>13. ASSUME NEW id \in StreamId, NEW n \in DataLengths, NEW m, NEW end,
              DataAccepted(id, n, m, end)
       PROVE  WindowInv'
  <2>1. n \in Nat
    BY SessionAssumption, Zenon
  <2>2. /\ n <= connectionRecvWindow /\ n <= recvWindow[id]
        /\ connectionRecvWindow' = connectionRecvWindow - n
        /\ recvWindow' = [recvWindow EXCEPT ![id] = recvWindow[id] - n]
        /\ UNCHANGED <<state, sendWindow, connectionSendWindow, limits>>
    BY <1>13, Zenon DEF DataAccepted, tableVars
  <2>3. ASSUME NEW i \in StreamId PROVE StreamWindows(i)'
    <3>1. StreamWindows(i)
      BY Zenon DEF WindowInv
    <3>2. CASE i = id
      <4>1. recvWindow'[i] = recvWindow[i] - n
        BY <1>0, <2>2, <3>2, Zenon
      <4> QED
        BY <1>0, <2>1, <2>2, <3>1, <3>2, <4>1, SMTT(30) DEF StreamWindows, Window
    <3>3. CASE i # id
      BY <1>0, <2>2, <3>1, <3>3, Zenon DEF StreamWindows
    <3> QED
      BY <3>2, <3>3, Zenon
  <2>4. connectionRecvWindow' \in 0 .. MaxWindow
    BY <1>0, <2>1, <2>2, SMTT(30) DEF WindowInv
  <2> QED
    BY <2>2, <2>3, <2>4, Zenon DEF WindowInv
<1>14. ASSUME NEW k, FragmentDelivered(k) PROVE WindowInv'
  BY <1>14, <1>a, Zenon DEF FragmentDelivered, connectionVars, windowVars, tableVars, WindowInv
<1>15. CASE DataCompleted
  <2> DEFINE id == frame.stream
             rw == [recvWindow EXCEPT ![id] = recvWindow[id] + Credit(recvWindow[id])]
  <2>1. /\ id \in StreamId /\ state[id] # "idle"
        /\ connectionRecvWindow' = connectionRecvWindow + Credit(connectionRecvWindow)
        /\ \/ \E n : RemoteEnd(id, rw, received, method, n, 0)
           \/ recvWindow' = rw /\ UNCHANGED <<tableVars, sendWindow>>
        /\ UNCHANGED <<connectionSendWindow, limits>>
    BY <1>15, Zenon DEF DataCompleted
  <2>2. StreamWindows(id)
    BY <2>1, Zenon DEF WindowInv
  <2>3. /\ rw[id] \in Window /\ rw[id] <= limits.initialWindow
        /\ \A i \in StreamId \ {id} : rw[i] = recvWindow[i]
    <3>1. recvWindow[id] \in Int
      BY <1>0, <2>1, Zenon
    <3>2. /\ Credit(recvWindow[id]) \in Nat
          /\ Credit(recvWindow[id]) # 0 =>
               recvWindow[id] + Credit(recvWindow[id]) = limits.initialWindow
      BY <3>1, CreditBounds, Zenon DEF Typed
    <3> QED
      BY <1>0, <2>1, <2>2, <3>1, <3>2, SMTT(30) DEF StreamWindows, Window
  <2>4. connectionRecvWindow' \in 0 .. MaxWindow
    <3>1. connectionRecvWindow \in Int
      BY <1>0 DEF WindowInv
    <3>2. /\ Credit(connectionRecvWindow) \in Nat
          /\ Credit(connectionRecvWindow) # 0 =>
               connectionRecvWindow + Credit(connectionRecvWindow) = limits.initialWindow
      BY <3>1, CreditBounds, Zenon DEF Typed
    <3> QED
      BY <1>0, <2>1, <3>1, <3>2, SMTT(30) DEF WindowInv
  <2> HIDE DEF rw
  <2>6. CASE \E n : RemoteEnd(id, rw, received, method, n, 0)
    <3>1. \A i \in StreamId : Becomes(i, id, sendWindow, rw, sent, received)
      BY <2>1, <2>6, RemoteEndBecomes, Zenon
    <3>2. \A i \in StreamId : StreamWindows(i)'
      BY <2>1, <2>2, <2>3, <3>1, EndedWindows, ZenonT(40) DEF StreamWindows
    <3> QED
      BY <2>1, <2>4, <3>2, Zenon DEF WindowInv
  <2>7. CASE recvWindow' = rw /\ UNCHANGED <<tableVars, sendWindow>>
    <3>1. ASSUME NEW i \in StreamId PROVE StreamWindows(i)'
      <4>1. StreamWindows(i)
        BY Zenon DEF WindowInv
      <4> QED
        BY <2>1, <2>3, <2>7, <4>1, Zenon DEF StreamWindows, tableVars
    <3> QED
      BY <2>1, <2>4, <3>1, Zenon DEF WindowInv
  <2> QED
    BY <2>1, <2>6, <2>7, Zenon
<1>16. GrowStep => WindowInv'
  BY <1>2, <1>3, <1>4, <1>5, <1>6, <1>7, <1>8, <1>9, <1>10, <1>11, <1>12, <1>13, <1>14, <1>15,
     ZenonT(40) DEF GrowStep
<1> QED
  BY <1>1, <1>16, StepCases, Zenon

-----------------------------------------------------------------------------
(* The stream that GOAWAY reports *)

\* A stream the peer has only promised has received no header section, and is not
\* the one the parser is at.
PromiseInv ==
  /\ \A id \in StreamId : state[id] = "reservedRemote" => ~received[id].headers
  /\ frame.stream \in StreamId => state[frame.stream] # "reservedRemote"
  /\ decoding /\ ~current.push => state[current.event] # "reservedRemote"

\* No stream becomes a promised one.
NoPromise ==
  \A id \in StreamId : state'[id] = "reservedRemote" =>
    state[id] = "reservedRemote" /\ received'[id].headers = received[id].headers

\* A step after which the parser is at no other promised stream keeps the invariant.
LEMMA PromiseKept ==
  ASSUME Known, PromiseInv, NoPromise,
         frame'.stream \in StreamId =>
           frame'.stream = frame.stream \/ state'[frame'.stream] # "reservedRemote",
         decoding' => \/ decoding /\ current' = current
                      \/ current'.event \in StreamId /\ state'[current'.event] # "reservedRemote"
  PROVE  PromiseInv'
<1>1. decoding => current.event \in StreamId
  BY Zenon DEF Known, ParserInv
<1> QED
  BY <1>1, Zenon DEF PromiseInv, NoPromise

\* What becomes of the streams when one side ends makes none of them a promise.
LEMMA BecomesNoPromise ==
  ASSUME NEW id \in StreamId, NEW sw, NEW rw, NEW se, NEW re,
         \A i \in StreamId : Becomes(i, id, sw, rw, se, re),
         \A i \in StreamId \ {id} : re[i] = received[i],
         re[id].headers = received[id].headers \/ state[id] # "reservedRemote"
  PROVE  NoPromise
  BY Zenon DEF NoPromise, Becomes, Follows, Cleared

\* Every step keeps promises apart.
LEMMA PromiseStep == ASSUME Known, PromiseInv, [Next]_vars PROVE PromiseInv'
<1> USE DEF Known
<1>0. /\ state \in [StreamId -> StreamState] /\ received \in [StreamId -> Progress]
      /\ frame.stream = 0 => frame = NoFrame
      /\ decoding => current.event \in StreamId
  BY Zenon DEF Typed, StreamsTyped, TableInv, TableTypeOK, ParserInv
<1>a. ASSUME NoPromise, UNCHANGED <<frame, headerVars>> PROVE PromiseInv'
  BY <1>a, PromiseKept, Zenon DEF headerVars
<1>b. ASSUME UNCHANGED <<state, received>> PROVE NoPromise
  BY <1>b, Zenon DEF NoPromise
<1>c. ASSUME NEW id \in StreamId, NEW st, st # "reservedRemote",
             state' = [state EXCEPT ![id] = st], NEW se, NEW me, NewStream(id, se, me)
      PROVE  NoPromise
  BY <1>0, <1>c, Zenon DEF NoPromise, NewStream
<1>d. ASSUME Settled PROVE frame.stream \notin StreamId /\ ~decoding
  BY <1>d DEF Settled, AtFrame, NoFrame, StreamId, DecoderFollowsParser
<1>1. CASE ShrinkStep
  <2>1. NoPromise
    <3>1. ASSUME NEW id \in StreamId, state'[id] = "reservedRemote"
          PROVE  state[id] = "reservedRemote" /\ received'[id] = received[id]
      BY <1>1, <3>1, Zenon DEF ShrinkStep, Shrinks, SameAttributes, Cleared
    <3> QED
      BY <3>1, Zenon DEF NoPromise
  <2>2. ParserShrinks
    BY <1>1, Zenon DEF ShrinkStep
  <2>3. decoding' => decoding /\ current' = current
    BY <2>2, Zenon DEF ParserShrinks
  <2>4. frame'.stream \in StreamId =>
          frame'.stream = frame.stream \/ state'[frame'.stream] # "reservedRemote"
    <3>1. NoFrame.stream \notin StreamId
      BY DEF NoFrame, StreamId
    <3> QED
      BY <2>2, <3>1, Zenon DEF ParserShrinks, LiveState
  <2> QED
    BY <2>1, <2>3, <2>4, PromiseKept, Zenon
<1>2. ASSUME NEW section, NEW end, OpenStream(section, end) PROVE PromiseInv'
  <2>1. /\ AllocateLocal(IF end THEN "halfClosedLocal" ELSE "open")
        /\ \E se, me : NewStream(nextLocalStream, se, me)
        /\ UNCHANGED <<frame, headerVars>>
    BY <1>2, Zenon DEF OpenStream, localUnchanged
  <2>2. /\ nextLocalStream \in StreamId
        /\ \E st \in {"halfClosedLocal", "open"} : state' = [state EXCEPT ![nextLocalStream] = st]
    BY <2>1, Zenon DEF AllocateLocal, MayAllocate
  <2> QED
    BY <1>a, <1>c, <2>1, <2>2, Zenon
<1>3. ASSUME NEW id, NEW section, PushPromise(id, section) PROVE PromiseInv'
  <2>1. /\ AllocateLocal("reservedLocal")
        /\ \E se, me : NewStream(nextLocalStream, se, me)
        /\ UNCHANGED <<frame, headerVars>>
    BY <1>3, Zenon DEF PushPromise, localUnchanged
  <2>2. /\ nextLocalStream \in StreamId
        /\ state' = [state EXCEPT ![nextLocalStream] = "reservedLocal"]
    BY <2>1, Zenon DEF AllocateLocal, MayAllocate
  <2> QED
    BY <1>a, <1>c, <2>1, <2>2, Zenon
<1>4. ASSUME NEW id \in StreamId,
             \/ \E section \in Sections, end \in BOOLEAN : SendHeaders(id, section, end)
             \/ \E n \in DataLengths, end \in BOOLEAN : SendData(id, n, end)
      PROVE  PromiseInv'
  <2>1. UNCHANGED <<frame, headerVars>>
    BY <1>4, SendBecomes, Zenon
  <2>2. \E sw, se : \A i \in StreamId : Becomes(i, id, sw, recvWindow, se, received)
    BY <1>4, SendBecomes, Zenon
  <2> QED
    BY <1>a, <2>1, <2>2, BecomesNoPromise, Zenon
<1>5. ASSUME NEW settings, UpdateSettings(settings) PROVE PromiseInv'
  BY <1>a, <1>b, <1>5, Zenon DEF UpdateSettings, tableVars, localUnchanged
<1>6. ASSUME NEW settings, RecvSettings(settings) PROVE PromiseInv'
  BY <1>a, <1>b, <1>6, Zenon DEF RecvSettings, tableVars
<1>7. ASSUME NEW n, ConnectionCredited(n) \/ (\E id : StreamCredited(id, n)) PROVE PromiseInv'
  BY <1>a, <1>b, <1>7, Zenon DEF ConnectionCredited, StreamCredited, tableVars, streamVars
<1>8. ASSUME NEW id \in StreamId, NEW end, PeerOpens(id, end) PROVE PromiseInv'
  <2>1. /\ Settled /\ frame' = frame
        /\ state' = [state EXCEPT ![id] = "open"]
        /\ NewStream(id, NoProgress, "")
        /\ current'.event = id
    BY <1>8, Zenon DEF PeerOpens, AllocatePeer, Decode
  <2>2. NoPromise /\ state'[current'.event] # "reservedRemote"
    BY <1>0, <1>c, <2>1, Zenon
  <2> QED
    BY <2>1, <2>2, PromiseKept, Zenon
<1>9. ASSUME NEW id \in StreamId, NEW end, PeerContinues(id, end) PROVE PromiseInv'
  <2>1. /\ frame' = frame /\ current'.event = id /\ received' = received
        /\ \/ state[id] = "reservedRemote" /\ state' = [state EXCEPT ![id] = "halfClosedLocal"]
           \/ state[id] # "reservedRemote" /\ state' = state
    BY <1>9, Zenon DEF PeerContinues, Move, Decode, tableVars, streamVars
  <2>2. NoPromise /\ state'[id] # "reservedRemote"
    BY <1>0, <2>1, Zenon DEF NoPromise
  <2> QED
    BY <2>1, <2>2, PromiseKept, Zenon
<1>10. ASSUME NEW parent \in StreamId, NEW id \in StreamId, PeerPromises(parent, id)
       PROVE  PromiseInv'
  <2>1. /\ Settled /\ frame' = frame
        /\ state' = [state EXCEPT ![id] = "reservedRemote"]
        /\ received' = [received EXCEPT ![id] = NoProgress]
        /\ current'.push
    BY <1>10, Zenon DEF PeerPromises, AllocatePeer, Decode, NewStream
  <2>2. ~NoProgress.headers
    BY Zenon DEF NoProgress
  <2> QED
    BY <1>0, <1>d, <2>1, <2>2, Zenon DEF PromiseInv
<1>11. ASSUME NEW section, EndMessageBlock(section) PROVE PromiseInv'
  <2> DEFINE id == current.event
  <2>1. /\ decoding /\ state[id] # "idle" /\ ~current.push
        /\ UNCHANGED frame /\ decoding' = FALSE
        /\ \E p, me :
             LET re == [received EXCEPT ![id] = p]
             IN \/ RemoteEnd(id, recvWindow, re, me, 0, 1)
                \/ received' = re /\ UNCHANGED tableVars
    BY <1>11, Zenon DEF EndMessageBlock, Accepted, Decoded, EndBlock, endUnchanged
  <2>2. id \in StreamId /\ state[id] # "reservedRemote"
    BY <1>0, <2>1, Zenon DEF PromiseInv
  <2>3. PICK p, me : LET re == [received EXCEPT ![id] = p]
                     IN \/ RemoteEnd(id, recvWindow, re, me, 0, 1)
                        \/ received' = re /\ UNCHANGED tableVars
    BY <2>1, Zenon
  <2> DEFINE re == [received EXCEPT ![id] = p]
  <2>4. \A i \in StreamId \ {id} : re[i] = received[i]
    BY <1>0, Zenon
  <2>5. CASE received' = re /\ UNCHANGED tableVars
    <3>1. NoPromise
      BY <2>2, <2>4, <2>5, ZenonT(40) DEF NoPromise, tableVars
    <3> QED
      BY <2>1, <3>1, PromiseKept, Zenon
  <2> HIDE DEF re
  <2>6. CASE RemoteEnd(id, recvWindow, re, me, 0, 1)
    <3>1. \A i \in StreamId : Becomes(i, id, sendWindow, recvWindow, sent, re)
      BY <2>1, <2>2, <2>6, RemoteEndBecomes, Zenon
    <3>2. NoPromise
      BY <2>2, <2>4, <3>1, BecomesNoPromise, Zenon
    <3> QED
      BY <2>1, <3>2, PromiseKept, Zenon
  <2> QED
    BY <2>3, <2>5, <2>6, Zenon DEF re
<1>12. ASSUME NEW id \in StreamId, NEW n, NEW m, NEW end, DataAccepted(id, n, m, end)
       PROVE  PromiseInv'
  <2>1. /\ received[id].headers /\ frame'.stream = id
        /\ UNCHANGED <<state, received, headerVars>>
    BY <1>12, Zenon DEF DataAccepted, tableVars
  <2>2. state'[id] # "reservedRemote"
    BY <2>1, Zenon DEF PromiseInv
  <2> QED
    BY <1>b, <2>1, <2>2, PromiseKept, ZenonT(40) DEF headerVars
<1>13. ASSUME NEW k, FragmentDelivered(k) PROVE PromiseInv'
  <2>1. /\ frame.stream \in StreamId /\ frame'.stream = frame.stream
        /\ received' = [received EXCEPT ![frame.stream] = AfterData(received[frame.stream], k)]
        /\ UNCHANGED <<state, headerVars>>
    BY <1>13, Zenon DEF FragmentDelivered, tableVars
  <2>2. state[frame.stream] # "reservedRemote"
    BY <2>1, Zenon DEF PromiseInv
  <2>3. NoPromise
    BY <1>0, <2>1, <2>2, Zenon DEF NoPromise
  <2> QED
    BY <2>1, <2>3, PromiseKept, Zenon DEF headerVars
<1>14. CASE DataCompleted
  <2> DEFINE id == frame.stream
  <2>1. /\ id \in StreamId /\ state[id] # "idle"
        /\ frame' = NoFrame /\ UNCHANGED headerVars
        /\ \/ \E rw, n : RemoteEnd(id, rw, received, method, n, 0)
           \/ UNCHANGED <<tableVars, received>>
    BY <1>14, Zenon DEF DataCompleted
  <2>2. NoPromise
    <3>1. CASE \E rw, n : RemoteEnd(id, rw, received, method, n, 0)
      <4>1. \E rw : \A i \in StreamId : Becomes(i, id, sendWindow, rw, sent, received)
        BY <2>1, <3>1, RemoteEndBecomes, Zenon
      <4> QED
        BY <2>1, <4>1, BecomesNoPromise, Zenon
    <3>2. CASE UNCHANGED <<tableVars, received>>
      BY <1>b, <3>2, Zenon DEF tableVars
    <3> QED
      BY <2>1, <3>1, <3>2, Zenon
  <2>3. frame'.stream \notin StreamId
    BY <2>1 DEF NoFrame, StreamId
  <2> QED
    BY <2>1, <2>2, <2>3, PromiseKept, Zenon DEF headerVars
<1>15. GrowStep => PromiseInv'
  BY <1>2, <1>3, <1>4, <1>5, <1>6, <1>7, <1>8, <1>9, <1>10, <1>11, <1>12, <1>13, <1>14,
     ZenonT(40) DEF GrowStep
<1> QED
  BY <1>1, <1>15, StepCases, Zenon

\* Only remoteEnd moves the stream that GOAWAY reports, to the stream whose remote
\* side it has ended.
LEMMA ProcessedStep ==
  ASSUME Known, PromiseInv, [Next]_vars
  PROVE  \/ lastProcessedPeerStream' = lastProcessedPeerStream
         \/ \E id \in StreamId : /\ state[id] # "idle" /\ ~CanReceive(state'[id])
                                 /\ lastProcessedPeerStream' = id
<1> USE DEF Known
<1> DEFINE Goal == \/ lastProcessedPeerStream' = lastProcessedPeerStream
                   \/ \E id \in StreamId : /\ state[id] # "idle" /\ ~CanReceive(state'[id])
                                           /\ lastProcessedPeerStream' = id
<1> SUFFICES Goal
  BY Zenon
<1>1. ASSUME NEW id \in StreamId, state[id] # "idle", state[id] # "reservedRemote",
             NEW rw, NEW re, NEW me, NEW n, NEW e, RemoteEnd(id, rw, re, me, n, e)
      PROVE  Goal
  <2>1. /\ CanReceive(state'[id]) => state[id] = "reservedRemote"
        /\ lastProcessedPeerStream' = lastProcessedPeerStream \/ lastProcessedPeerStream' = id
    BY <1>1, RemoteEndBecomes, Zenon
  <2> QED
    BY <1>1, <2>1, Zenon
<1> HIDE DEF Goal
<1>2. ASSUME lastProcessedPeerStream' = lastProcessedPeerStream PROVE Goal
  BY <1>2, Zenon DEF Goal
<1>3. CASE ShrinkStep
  BY <1>2, <1>3, Zenon DEF ShrinkStep
<1>4. ASSUME NEW section, NEW end, OpenStream(section, end) PROVE Goal
  BY <1>2, <1>4, Zenon DEF OpenStream, localUnchanged
<1>5. ASSUME NEW id, NEW section, PushPromise(id, section) PROVE Goal
  BY <1>2, <1>5, Zenon DEF PushPromise, localUnchanged
<1>6. ASSUME NEW id \in StreamId,
             \/ \E section \in Sections, end \in BOOLEAN : SendHeaders(id, section, end)
             \/ \E n \in DataLengths, end \in BOOLEAN : SendData(id, n, end)
      PROVE  Goal
  BY <1>2, <1>6, SendBecomes, Zenon
<1>7. ASSUME NEW settings, UpdateSettings(settings) \/ RecvSettings(settings) PROVE Goal
  BY <1>2, <1>7, Zenon DEF UpdateSettings, RecvSettings, localUnchanged
<1>8. ASSUME NEW n, ConnectionCredited(n) \/ (\E id : StreamCredited(id, n)) PROVE Goal
  BY <1>2, <1>8, Zenon DEF ConnectionCredited, StreamCredited, connectionVars
<1>9. ASSUME NEW id, NEW end, PeerOpens(id, end) \/ PeerContinues(id, end) PROVE Goal
  BY <1>2, <1>9, Zenon DEF PeerOpens, PeerContinues, connectionVars
<1>10. ASSUME NEW parent, NEW id, PeerPromises(parent, id) PROVE Goal
  BY <1>2, <1>10, Zenon DEF PeerPromises, connectionVars
<1>11. ASSUME NEW section, EndMessageBlock(section) PROVE Goal
  <2>1. /\ decoding /\ state[current.event] # "idle" /\ ~current.push
        /\ \/ \E re, me : RemoteEnd(current.event, recvWindow, re, me, 0, 1)
           \/ lastProcessedPeerStream' = lastProcessedPeerStream
    BY <1>11, Zenon DEF EndMessageBlock, Accepted, Decoded
  <2>2. current.event \in StreamId /\ state[current.event] # "reservedRemote"
    BY <2>1, Zenon DEF ParserInv, PromiseInv
  <2> QED
    BY <1>1, <1>2, <2>1, <2>2, Zenon
<1>12. ASSUME NEW id, NEW n, NEW m, NEW end, DataAccepted(id, n, m, end) PROVE Goal
  BY <1>2, <1>12, Zenon DEF DataAccepted
<1>13. ASSUME NEW k, FragmentDelivered(k) PROVE Goal
  BY <1>2, <1>13, Zenon DEF FragmentDelivered, connectionVars
<1>14. CASE DataCompleted
  <2>1. /\ frame.stream \in StreamId /\ state[frame.stream] # "idle"
        /\ \/ \E rw, n : RemoteEnd(frame.stream, rw, received, method, n, 0)
           \/ lastProcessedPeerStream' = lastProcessedPeerStream
    BY <1>14, Zenon DEF DataCompleted
  <2>2. state[frame.stream] # "reservedRemote"
    BY <2>1, Zenon DEF PromiseInv
  <2> QED
    BY <1>1, <1>2, <2>1, <2>2, ZenonT(40)
<1>15. GrowStep => Goal
  BY <1>4, <1>5, <1>6, <1>7, <1>8, <1>9, <1>10, <1>11, <1>12, <1>13, <1>14, ZenonT(40) DEF GrowStep
<1> QED
  BY <1>3, <1>15, StepCases, Zenon

\* So it stays a stream that is over, if streams stay spent and ended.
LEMMA ProcessedKept ==
  ASSUME Known, PromiseInv, ProcessedWasReceived, [Next]_vars,
         \A id \in StreamId : Spent(id) => Spent(id)',
         \A id \in StreamId : Spent(id) /\ ~CanReceive(state[id]) => ~CanReceive(state'[id])
  PROVE  ProcessedWasReceived'
<1> DEFINE last == lastProcessedPeerStream
<1>1. TableInv
  BY Zenon DEF Known
<1>2. last \in 0 .. MaxStreamId /\ MaxStreamId \in Nat
  BY TableAssumption, Zenon DEF Known, Typed, ConnectionTyped
<1>3. CASE last' = last
  <2>1. CASE last = 0
    BY <1>3, <2>1, Zenon DEF ProcessedWasReceived
  <2>2. CASE last # 0
    <3>1. last \in StreamId /\ Spent(last) /\ ~CanReceive(state[last])
      BY <1>2, <2>2 DEF ProcessedWasReceived, StreamId
    <3>2. \A id : id = last => (Spent(id)' /\ ~CanReceive(state'[id]))
      BY <3>1, Zenon
    <3> QED
      BY <1>3, <3>2, Zenon DEF ProcessedWasReceived, Spent, Own
  <2> QED
    BY <2>1, <2>2, Zenon
<1>4. ASSUME NEW id \in StreamId, state[id] # "idle", ~CanReceive(state'[id]), last' = id
      PROVE  ProcessedWasReceived'
  <2>1. id \in Retained
    BY <1>4, Zenon DEF Retained
  <2>2. Spent(id)
    BY <1>1, <2>1, Zenon DEF TableInv, IdsInOrder, Spent
  <2>3. Spent(id)'
    BY <2>2, Zenon
  <2> QED
    BY <1>4, <2>3, Zenon DEF ProcessedWasReceived, Spent, Own
<1> QED
  BY <1>3, <1>4, ProcessedStep, Zenon

-----------------------------------------------------------------------------
(* The credit a completed DATA frame restores *)

Half == InitialWindow \div 2

\* The stream whose DATA frame is being received is the only one that may be
\* short of credit, and only while it is in the table may the connection be.
CreditInv ==
  /\ limits.initialWindow = InitialWindow
  /\ Ready =>
       /\ \A id \in Live : recvWindow[id] > Half \/ frame.stream = id
       /\ Len(closedStreams) < MaxClosedStreams =>
            \/ connectionRecvWindow > Half
            \/ frame.stream \in StreamId /\ state[frame.stream] # "idle"

\* A session that is still ready was so before, and unless the FIFO of closed
\* streams is full it has forgotten no stream.
Steady ==
  Ready' => /\ Ready /\ failed' = "none"
            /\ Len(closedStreams') < MaxClosedStreams =>
                 /\ Len(closedStreams) < MaxClosedStreams
                 /\ \A id \in StreamId : state[id] # "idle" => state'[id] # "idle"

\* A step of the parser or of a call that leaves the frame and the credit alone.
LEMMA CreditKept ==
  ASSUME CreditInv, Steady, limits' = limits,
         \A id \in StreamId : state'[id] \in LiveState =>
           \/ recvWindow'[id] > Half
           \/ recvWindow'[id] = recvWindow[id] /\ state[id] \in LiveState,
         connectionRecvWindow' = connectionRecvWindow,
         frame'.stream = frame.stream
  PROVE  CreditInv'
<1>1. limits'.initialWindow = InitialWindow
  BY Zenon DEF CreditInv
<1> SUFFICES ASSUME Ready'
             PROVE  /\ \A id \in Live' : recvWindow'[id] > Half \/ frame'.stream = id
                    /\ Len(closedStreams') < MaxClosedStreams =>
                         \/ connectionRecvWindow' > Half
                         \/ frame'.stream \in StreamId /\ state'[frame'.stream] # "idle"
  BY <1>1, Zenon DEF CreditInv
<1>2. /\ \A id \in Live : recvWindow[id] > Half \/ frame.stream = id
      /\ Len(closedStreams) < MaxClosedStreams =>
           \/ connectionRecvWindow > Half
           \/ frame.stream \in StreamId /\ state[frame.stream] # "idle"
  BY Zenon DEF CreditInv, Steady
<1>3. ASSUME NEW id \in Live' PROVE recvWindow'[id] > Half \/ frame'.stream = id
  BY <1>2, Zenon DEF Live
<1> QED
  BY <1>2, <1>3, Zenon DEF Steady

\* More than half of a full window is more than half.
LEMMA HalfWindow == Half \in Nat /\ InitialWindow \in Nat /\ InitialWindow > Half
<1>1. InitialWindow \in Nat \ {0}
  BY SessionAssumption
<1> QED
  BY <1>1 DEF Half

\* What onFrameComplete makes of a window.
LEMMA CreditRestores ==
  ASSUME limits.initialWindow = InitialWindow, NEW window \in Int
  PROVE  window + Credit(window) > Half
<1>1. CASE window <= Half
  <2>1. Credit(window) = InitialWindow - window
    BY <1>1, Zenon DEF Credit, Half
  <2> QED
    BY <2>1, HalfWindow, SMTT(30)
<1>2. CASE window > Half
  <2>1. Credit(window) = 0
    BY <1>2, HalfWindow DEF Credit, Half
  <2> QED
    BY <1>2, <2>1, HalfWindow, SMTT(30)
<1> QED
  BY <1>1, <1>2, HalfWindow, SMTT(30)

\* Becomes brings no stream to life.
LEMMA BecomesLive ==
  ASSUME NEW i, NEW id, NEW sw, NEW rw, NEW se, NEW re, Becomes(i, id, sw, rw, se, re),
         state'[i] \in LiveState
  PROVE  state[i] \in LiveState /\ recvWindow'[i] = rw[i]
  BY Zenon DEF Becomes, Cleared, Follows, LiveState

\* Every step keeps the account, as long as UpdateSettings leaves the initial
\* window alone.
LEMMA CreditStep ==
  ASSUME Known, CreditInv, Steady, [Next]_vars,
         \A settings \in LocalSettings : settings.initialWindow = Keep
  PROVE  CreditInv'
<1> USE DEF Known
<1>0. /\ state \in [StreamId -> StreamState] /\ recvWindow \in [StreamId -> Int]
      /\ connectionRecvWindow \in Int
      /\ limits.initialWindow = InitialWindow
      /\ frame.stream = 0 => frame = NoFrame
      /\ frame.stream \in StreamId \/ frame = NoFrame
      /\ NoFrame.stream = 0 /\ 0 \notin StreamId
  BY SMTT(30) DEF Typed, StreamsTyped, ConnectionTyped, TableInv, TableTypeOK, ParserInv, CreditInv,
         NoFrame, StreamId
<1>a. ASSUME UNCHANGED <<limits, state, recvWindow, connectionRecvWindow>>,
             frame'.stream = frame.stream
      PROVE  CreditInv'
  BY <1>a, CreditKept, Zenon
<1>b. ASSUME NEW id \in StreamId, NEW st, state' = [state EXCEPT ![id] = st],
             NEW se, NEW me, NewStream(id, se, me),
             UNCHANGED <<limits, connectionRecvWindow, frame>>
      PROVE  CreditInv'
  <2>1. recvWindow' = [recvWindow EXCEPT ![id] = InitialWindow]
    BY <1>0, <1>b, Zenon DEF NewStream
  <2> QED
    BY <1>0, <1>b, <2>1, HalfWindow, CreditKept, ZenonT(40)
<1>c. ASSUME NEW id \in StreamId, NEW sw, NEW se, NEW re,
             \A i \in StreamId : Becomes(i, id, sw, recvWindow, se, re),
             UNCHANGED <<limits, connectionRecvWindow, frame>>
      PROVE  CreditInv'
  <2>1. ASSUME NEW i \in StreamId, state'[i] \in LiveState
        PROVE  recvWindow'[i] = recvWindow[i] /\ state[i] \in LiveState
    BY <1>c, <2>1, BecomesLive, Zenon
  <2> QED
    BY <1>c, <2>1, CreditKept, Zenon
<1>1. CASE ShrinkStep
  <2>1. /\ UNCHANGED <<limits, connectionRecvWindow>>
        /\ ParserShrinks
        /\ \A id \in StreamId : Shrinks(id)
    BY <1>1, Zenon DEF ShrinkStep, windowVars
  <2>2. ASSUME NEW id \in StreamId, state'[id] \in LiveState
        PROVE  recvWindow'[id] = recvWindow[id] /\ state[id] \in LiveState
    BY <2>1, <2>2, Zenon DEF Shrinks, SameAttributes, Cleared, LiveState
  <2>3. CASE frame'.stream = frame.stream
    BY <2>1, <2>2, <2>3, CreditKept, Zenon
  <2>4. CASE frame' = NoFrame /\ failed' # "none"
    BY <1>0, <2>1, <2>4, Zenon DEF CreditInv, Ready
  <2>5. CASE \/ frame' = NoFrame /\ state[frame.stream] = "idle"
             \/ frame = NoFrame
    <3>1. ASSUME Ready, NEW id \in StreamId, state[id] \in LiveState PROVE recvWindow[id] > Half
      <4>1. frame.stream # id
        BY <1>0, <2>5, <3>1, Zenon DEF LiveState
      <4> QED
        BY <3>1, <4>1, Zenon DEF CreditInv, Live
    <3>2. Ready /\ Len(closedStreams) < MaxClosedStreams => connectionRecvWindow > Half
      BY <1>0, <2>5, Zenon DEF CreditInv
    <3>3. ASSUME Ready' PROVE Ready /\ \A id \in Live' : recvWindow'[id] > Half
      BY <2>2, <3>1, <3>3, ZenonT(40) DEF Steady, Live
    <3>4. ASSUME Ready', Len(closedStreams') < MaxClosedStreams
          PROVE  connectionRecvWindow' > Half
      BY <2>1, <3>2, <3>4, Zenon DEF Steady
    <3> QED
      BY <1>0, <2>1, <3>3, <3>4, ZenonT(40) DEF CreditInv
  <2> QED
    BY <2>1, <2>3, <2>4, <2>5, Zenon DEF ParserShrinks
<1>2. ASSUME NEW section, NEW end, OpenStream(section, end) PROVE CreditInv'
  <2>1. /\ AllocateLocal(IF end THEN "halfClosedLocal" ELSE "open")
        /\ \E se, me : NewStream(nextLocalStream, se, me)
        /\ UNCHANGED <<windowVars, settingVars, frame>>
    BY <1>2, Zenon DEF OpenStream, localUnchanged
  <2>2. /\ nextLocalStream \in StreamId
        /\ \E st \in LiveState : state' = [state EXCEPT ![nextLocalStream] = st]
    BY <2>1, Zenon DEF AllocateLocal, MayAllocate, LiveState
  <2> QED
    BY <1>b, <2>1, <2>2, Zenon DEF settingVars, windowVars
<1>3. ASSUME NEW id, NEW section, PushPromise(id, section) PROVE CreditInv'
  <2>1. /\ AllocateLocal("reservedLocal")
        /\ \E se, me : NewStream(nextLocalStream, se, me)
        /\ UNCHANGED <<windowVars, settingVars, frame>>
    BY <1>3, Zenon DEF PushPromise, localUnchanged
  <2>2. /\ nextLocalStream \in StreamId
        /\ \E st \in LiveState : state' = [state EXCEPT ![nextLocalStream] = st]
    BY <2>1, Zenon DEF AllocateLocal, MayAllocate, LiveState
  <2> QED
    BY <1>b, <2>1, <2>2, Zenon DEF settingVars, windowVars
<1>4. ASSUME NEW id \in StreamId,
             \/ \E section \in Sections, end \in BOOLEAN : SendHeaders(id, section, end)
             \/ \E n \in DataLengths, end \in BOOLEAN : SendData(id, n, end)
      PROVE  CreditInv'
  <2>1. UNCHANGED <<limits, connectionRecvWindow, frame>>
    BY <1>4, SendBecomes, Zenon
  <2>2. \E sw, se : \A i \in StreamId : Becomes(i, id, sw, recvWindow, se, received)
    BY <1>4, SendBecomes, Zenon
  <2> QED
    BY <1>c, <2>1, <2>2, Zenon
<1>5. ASSUME NEW settings \in LocalSettings, UpdateSettings(settings) PROVE CreditInv'
  <2> DEFINE window == Updated(limits.initialWindow, settings.initialWindow)
  <2>1. /\ limits' = [maxConcurrent |-> Updated(limits.maxConcurrent, settings.maxConcurrent),
                      initialWindow |-> window,
                      enablePush |-> IF settings.enablePush = Keep THEN limits.enablePush
                                     ELSE settings.enablePush = 1]
        /\ recvWindow' = [id \in StreamId |->
                            IF id \in Retained THEN recvWindow[id] + (window - limits.initialWindow)
                            ELSE recvWindow[id]]
        /\ Ready
        /\ UNCHANGED <<tableVars, windowVars, frame>>
    BY <1>5, Zenon DEF UpdateSettings, localUnchanged
  <2>2. window = InitialWindow
    BY <1>0, Zenon DEF Updated
  <2>3. limits'.initialWindow = InitialWindow
    BY <2>1, <2>2, Zenon
  <2> HIDE DEF window
  <2>4. \A id \in StreamId : recvWindow'[id] = recvWindow[id]
    BY <1>0, <2>1, <2>2, HalfWindow, SMTT(30)
  <2> QED
    BY <2>1, <2>3, <2>4, Zenon DEF CreditInv, Live, tableVars, windowVars
<1>6. ASSUME NEW settings, RecvSettings(settings) PROVE CreditInv'
  BY <1>a, <1>6, Zenon DEF RecvSettings, tableVars, windowVars
<1>7. ASSUME NEW n, ConnectionCredited(n) \/ (\E id : StreamCredited(id, n)) PROVE CreditInv'
  BY <1>a, <1>7, Zenon DEF ConnectionCredited, StreamCredited, tableVars, streamVars, connectionVars,
                    windowVars
<1>8. ASSUME NEW id \in StreamId, NEW end, PeerOpens(id, end) PROVE CreditInv'
  <2>1. /\ state' = [state EXCEPT ![id] = "open"]
        /\ NewStream(id, NoProgress, "")
        /\ UNCHANGED <<windowVars, limits, frame>>
    BY <1>8, Zenon DEF PeerOpens, AllocatePeer, connectionVars
  <2> QED
    BY <1>b, <2>1, Zenon DEF windowVars
<1>9. ASSUME NEW id \in StreamId, NEW end, PeerContinues(id, end) PROVE CreditInv'
  <2>1. /\ UNCHANGED <<recvWindow, windowVars, limits, frame>>
        /\ \A i \in StreamId : state'[i] \in LiveState => state[i] \in LiveState
    BY <1>0, <1>9, Zenon DEF PeerContinues, Move, Follows, LiveState, streamVars, connectionVars,
                      tableVars
  <2> QED
    BY <2>1, CreditKept, Zenon DEF windowVars
<1>10. ASSUME NEW parent, NEW id \in StreamId, PeerPromises(parent, id) PROVE CreditInv'
  <2>1. /\ state' = [state EXCEPT ![id] = "reservedRemote"]
        /\ NewStream(id, NoProgress, "")
        /\ UNCHANGED <<windowVars, limits, frame>>
    BY <1>10, Zenon DEF PeerPromises, AllocatePeer, connectionVars
  <2> QED
    BY <1>b, <2>1, Zenon DEF windowVars
<1>11. ASSUME NEW section, EndMessageBlock(section) PROVE CreditInv'
  <2> DEFINE id == current.event
  <2>1. /\ decoding /\ state[id] # "idle"
        /\ UNCHANGED endUnchanged
        /\ \/ \E re, me : RemoteEnd(id, recvWindow, re, me, 0, 1)
           \/ UNCHANGED <<tableVars, recvWindow>>
    BY <1>11, Zenon DEF EndMessageBlock, Accepted, Decoded
  <2>2. id \in StreamId
    BY <2>1, Zenon DEF ParserInv
  <2>3. UNCHANGED <<connectionRecvWindow, limits, frame>>
    BY <2>1, Zenon DEF endUnchanged, settingVars, windowVars
  <2>4. CASE \E re, me : RemoteEnd(id, recvWindow, re, me, 0, 1)
    <3>1. \E re : \A i \in StreamId : Becomes(i, id, sendWindow, recvWindow, sent, re)
      BY <2>1, <2>2, <2>4, RemoteEndBecomes, Zenon
    <3> QED
      BY <1>c, <2>2, <2>3, <3>1, Zenon
  <2>5. CASE UNCHANGED <<tableVars, recvWindow>>
    BY <1>a, <2>3, <2>5, Zenon DEF tableVars
  <2> QED
    BY <2>1, <2>4, <2>5, Zenon
<1>12. ASSUME NEW id \in StreamId, NEW n, NEW m, NEW end, DataAccepted(id, n, m, end)
       PROVE  CreditInv'
  <2>1. /\ frame = NoFrame /\ Ready /\ CanReceive(state[id]) /\ frame'.stream = id
        /\ recvWindow' = [recvWindow EXCEPT ![id] = recvWindow[id] - n]
        /\ UNCHANGED <<state, limits>>
    BY <1>12, Zenon DEF DataAccepted, Settled, AtFrame, Receiving, tableVars
  <2>2. \A i \in Live : recvWindow[i] > Half
    BY <1>0, <2>1, Zenon DEF CreditInv, Live
  <2>3. state'[id] # "idle"
    BY <2>1, Zenon DEF CanReceive
  <2>4. \A i \in Live' : recvWindow'[i] > Half \/ i = id
    BY <1>0, <2>1, <2>2, Zenon DEF Live
  <2> QED
    BY <1>0, <2>1, <2>3, <2>4, Zenon DEF CreditInv
<1>13. ASSUME NEW k, FragmentDelivered(k) PROVE CreditInv'
  BY <1>a, <1>13, Zenon DEF FragmentDelivered, connectionVars, windowVars, tableVars
<1>14. CASE DataCompleted
  <2> DEFINE id == frame.stream
             rw == [recvWindow EXCEPT ![id] = recvWindow[id] + Credit(recvWindow[id])]
  <2>1. /\ id \in StreamId /\ state[id] # "idle"
        /\ connectionRecvWindow' = connectionRecvWindow + Credit(connectionRecvWindow)
        /\ \/ \E n : RemoteEnd(id, rw, received, method, n, 0)
           \/ recvWindow' = rw /\ UNCHANGED tableVars
        /\ UNCHANGED limits
    BY <1>14, Zenon DEF DataCompleted
  <2>2. /\ rw[id] > Half
        /\ \A i \in StreamId \ {id} : rw[i] = recvWindow[i]
    <3>1. recvWindow[id] + Credit(recvWindow[id]) > Half
      BY <1>0, <2>1, CreditRestores, Zenon
    <3> QED
      BY <1>0, <2>1, <3>1, Zenon
  <2>3. connectionRecvWindow' > Half
    BY <1>0, <2>1, CreditRestores, Zenon
  <2> HIDE DEF rw
  <2>4. ASSUME NEW i \in StreamId, state'[i] \in LiveState
        PROVE  recvWindow'[i] = rw[i] /\ state[i] \in LiveState
    <3>1. CASE \E n : RemoteEnd(id, rw, received, method, n, 0)
      <4>1. Becomes(i, id, sendWindow, rw, sent, received)
        BY <2>1, <3>1, RemoteEndBecomes, Zenon
      <4> QED
        BY <2>4, <4>1, BecomesLive, Zenon
    <3>2. CASE recvWindow' = rw /\ UNCHANGED tableVars
      BY <2>4, <3>2, Zenon DEF tableVars
    <3> QED
      BY <2>1, <3>1, <3>2, Zenon
  <2>5. ASSUME Ready', NEW i \in Live' PROVE recvWindow'[i] > Half
    <3>1. /\ i \in StreamId /\ recvWindow'[i] = rw[i] /\ i \in Live
      BY <2>4, <2>5, Zenon DEF Live
    <3>2. Ready
      BY <2>5, Zenon DEF Steady
    <3> QED
      BY <2>2, <3>1, <3>2, Zenon DEF CreditInv
  <2> QED
    BY <1>0, <2>1, <2>3, <2>5, ZenonT(40) DEF CreditInv
<1>15. GrowStep => CreditInv'
  BY <1>2, <1>3, <1>4, <1>5, <1>6, <1>7, <1>8, <1>9, <1>10, <1>11, <1>12, <1>13, <1>14,
     ZenonT(40) DEF GrowStep
<1> QED
  BY <1>1, <1>15, StepCases, ZenonT(40)
=============================================================================
