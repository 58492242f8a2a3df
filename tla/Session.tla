------------------------------- MODULE Session -------------------------------
(***************************************************************************)
(* One http2.Session: the state machine that turns received frames into    *)
(* events and local calls into frames, for a client or a server.           *)
(*                                                                         *)
(* A received control frame is one step, from onFrameBegin to              *)
(* onFrameComplete. A DATA frame, and a header block of HEADERS or         *)
(* PUSH_PROMISE with its CONTINUATIONs, take a step per callback, since    *)
(* Feed returns when its bytes run out and the application may make any    *)
(* call before it feeds the rest. A local call that returns an error       *)
(* without changing anything is no step.                                   *)
(*                                                                         *)
(* Queued output and events are counted, a frame or an event being one     *)
(* unit; header blocks need HeaderReserve units to be free, as             *)
(* encodeAndAppendHeaders reserves room for the largest block.             *)
(***************************************************************************)
EXTENDS StreamTable, HeaderSection

CONSTANTS
  MaxConcurrent,      \* limits.MaxConcurrentStreams
  InitialWindow,      \* limits.InitialWindowSize
  EnablePush,         \* limits.EnablePush
  MaxControlFrames,   \* limits.MaxControlFrames
  MaxOutput,          \* limits.MaxQueuedOutputBytes, in frames
  MaxQueuedEvents,    \* limits.MaxQueuedEvents
  HeaderReserve,      \* room a header block must find in the output
  DefaultWindow,      \* 65535, the window RFC 9113 gives to begin with
  MaxWindow,          \* 2^31 - 1
  DefaultMaxFrame,    \* 16384, the frame size RFC 9113 gives to begin with
  Unlimited,          \* math.MaxUint32, the peer's initial concurrency limit
  Sections,           \* the field sections that may be sent or received
  PeerSettings,       \* the SETTINGS the peer may send
  LocalSettings,      \* the SETTINGS UpdateSettings may be called with
  LastStreams,        \* last-stream identifiers of the peer's GOAWAY frames
  DataLengths,        \* lengths of DATA frames and of SendData calls
  Increments,         \* increments of WINDOW_UPDATE frames
  MaxBody,            \* bound on the bytes of one body
  MaxOutstanding      \* bound on unacknowledged SETTINGS

Keep == -1   \* a setting that a SETTINGS frame does not carry

ASSUME SessionAssumption ==
  /\ MaxConcurrent \in 1 .. MaxStreams
  /\ EnablePush \in BOOLEAN
  /\ MaxControlFrames \in Nat \ {0}
  /\ MaxQueuedEvents \in Nat \ {0}
  /\ HeaderReserve \in Nat \ {0}
  /\ MaxOutput \in Nat \ {0}
  /\ MaxWindow \in Nat \ {0}
  /\ InitialWindow \in 1 .. MaxWindow
  /\ DefaultWindow \in 1 .. MaxWindow
  /\ DefaultMaxFrame \in Nat \ {0}
  /\ Unlimited \in Nat
  /\ Sections \subseteq Section
  /\ LastStreams \subseteq 0 .. MaxStreamId
  /\ DataLengths \subseteq Nat
  /\ Increments \subseteq 1 .. MaxWindow
  /\ MaxBody \in Nat
  /\ MaxOutstanding \in Nat \ {0}
  /\ LocalSettings \subseteq [maxConcurrent : {Keep} \cup Nat,
                              initialWindow : {Keep} \cup 0 .. MaxWindow,
                              enablePush : {Keep, 0, 1}]
  /\ PeerSettings \subseteq [maxConcurrent : {Keep} \cup Nat,
                             initialWindow : {Keep} \cup 0 .. MaxWindow,
                             maxFrame : {Keep} \cup (Nat \ {0}),
                             enablePush : {Keep, 0, 1},
                             noPriorities : {Keep, 0, 1}]

VARIABLES
  sendWindow, recvWindow,      \* flow-control windows of the retained streams
  connectionSendWindow,
  connectionRecvWindow,
  sent, received,              \* progress of the two directions of a stream
  method,                      \* request method of a stream
  output,                      \* frames queued for the transport
  events,                      \* events queued for the application
  peer,                        \* what the peer's SETTINGS and GOAWAY said
  limits,                      \* the local settings UpdateSettings can change
  settingsOutstanding,         \* SETTINGS of ours not acknowledged yet
  failed,                      \* code of the sticky connection error, or "none"
  goAwaySent,
  lastProcessedPeerStream,
  prefaced,                    \* the client preface has been received
  frame,                       \* DATA frame being received
  block,                       \* header block being received, for the parser
  current,                     \* header block being decoded, for the session
  decoding,                    \* HeaderDecoder.active
  controlFrames                \* consecutive control frames

streamVars == <<sendWindow, recvWindow, sent, received, method>>
windowVars == <<connectionSendWindow, connectionRecvWindow>>
settingVars == <<peer, limits, settingsOutstanding>>
headerVars == <<block, current, decoding>>
statusVars == <<failed, goAwaySent>>

vars == <<tableVars, streamVars, windowVars, output, events, settingVars,
          statusVars, lastProcessedPeerStream, prefaced, frame, headerVars,
          controlFrames>>

NoFrame == [stream |-> 0, left |-> 0, end |-> FALSE]
NoBlock == [stream |-> 0, end |-> FALSE, push |-> FALSE, continued |-> FALSE]
NoCurrent == [stream |-> 0, event |-> 0, trailer |-> FALSE, push |-> FALSE]

-----------------------------------------------------------------------------
\* NewSession has queued the preface and the initial SETTINGS.
Init ==
  /\ TableInit
  /\ sendWindow = [id \in StreamId |-> 0]
  /\ recvWindow = [id \in StreamId |-> 0]
  /\ connectionSendWindow = DefaultWindow
  /\ connectionRecvWindow = InitialWindow
  /\ sent = [id \in StreamId |-> NoProgress]
  /\ received = [id \in StreamId |-> NoProgress]
  /\ method = [id \in StreamId |-> ""]
  /\ output = 1
  /\ events = 0
  /\ peer = [maxConcurrent |-> Unlimited, initialWindow |-> DefaultWindow,
             maxFrame |-> DefaultMaxFrame,
             enablePush |-> TRUE, noPriorities |-> FALSE, settled |-> FALSE,
             goAway |-> FALSE, lastStream |-> 0]
  /\ limits = [maxConcurrent |-> MaxConcurrent, initialWindow |-> InitialWindow,
               enablePush |-> EnablePush]
  /\ settingsOutstanding = 1
  /\ failed = "none"
  /\ goAwaySent = FALSE
  /\ lastProcessedPeerStream = 0
  /\ prefaced = (Role = "client")
  /\ frame = NoFrame
  /\ block = NoBlock
  /\ current = NoCurrent
  /\ decoding = FALSE
  /\ controlFrames = 0

\* Mutant: a failed session goes on.
ReadyThoughFailed == ~closed

\* Session.ready
Ready == ~closed /\ failed = "none"

Room(n) == output + n <= MaxOutput

\* Mutant: the output limit is not tested.
EmitUnbounded(n) == output' = output + n

\* appendFrame where the caller ignores ErrOutputLimit: frames that find no room
\* are lost. With Room(n) it appends all n.
Emit(n) == output' = IF Room(n) THEN output + n ELSE MaxOutput

\* queueEvent where the caller ignores ErrEventLimit.
Raise(n) ==
  events' = IF events + n <= MaxQueuedEvents THEN events + n ELSE MaxQueuedEvents

\* The stream attributes after a step that leaves them as the five functions,
\* without those of the streams that closing q evicts.
SetStreams(q, sw, rw, se, re, me) ==
  LET Kept(f, none) == [id \in StreamId |-> IF id \in Evicted(q) THEN none ELSE f[id]]
  IN /\ sendWindow' = Kept(sw, 0)
     /\ recvWindow' = Kept(rw, 0)
     /\ sent' = Kept(se, NoProgress)
     /\ received' = Kept(re, NoProgress)
     /\ method' = Kept(me, "")

\* closeStream on every stream of q.
End(q) == CloseStreams(q) /\ SetStreams(q, sendWindow, recvWindow, sent, received, method)

\* Mutant: closeStream on a stream that is closed already.
AlwaysClose(id) == IF id \in Retained THEN <<id>> ELSE <<>>

\* closeStream does nothing to a stream that is closed or not in the map.
IfLive(id) == IF id \in Live THEN <<id>> ELSE <<>>

\* Fresh attributes of stream id.
NewStream(id, se, me) ==
  /\ sendWindow' = [sendWindow EXCEPT ![id] = peer.initialWindow]
  /\ recvWindow' = [recvWindow EXCEPT ![id] = limits.initialWindow]
  /\ sent' = [sent EXCEPT ![id] = se]
  /\ received' = [received EXCEPT ![id] = NoProgress]
  /\ method' = [method EXCEPT ![id] = me]

\* connectionError in a step that emits n frames before it.
Failure(code, n) ==
  /\ failed' = code
  /\ goAwaySent' = TRUE
  /\ Emit(n + 1)

\* A step that does nothing but fail the connection. Feed never parses again, so
\* that the frame in progress is forgotten.
ConnectionError(code) ==
  /\ Failure(code, 0)
  /\ frame' = NoFrame
  /\ block' = NoBlock
  /\ current' = NoCurrent
  /\ decoding' = FALSE
  /\ controlFrames' = 0
  /\ UNCHANGED <<tableVars, streamVars, windowVars, events, settingVars,
                 lastProcessedPeerStream, prefaced>>

\* onFrameComplete of a control frame whose handler emitted n frames.
ControlComplete(n) ==
  /\ controlFrames' = controlFrames + 1
  /\ \/ controlFrames >= MaxControlFrames /\ Failure("ENHANCE_YOUR_CALM", n)
     \/ controlFrames < MaxControlFrames /\ Emit(n) /\ UNCHANGED statusVars

\* onFrameComplete of a frame that is not a control frame.
MessageComplete(n) ==
  /\ controlFrames' = 0
  /\ Emit(n)
  /\ UNCHANGED statusVars
-----------------------------------------------------------------------------
(* Local calls *)

\* What every local call leaves alone.
localUnchanged == <<lastProcessedPeerStream, prefaced, frame, headerVars, controlFrames>>

\* Mutant: the peer's GOAWAY is forgotten.
MayOpenAfterGoAway ==
  /\ Role = "client"
  /\ ~goAwaySent
  /\ activeLocal < peer.maxConcurrent
  /\ MayAllocate

\* The checks OpenStream makes before it takes an identifier.
MayOpen ==
  /\ Role = "client"
  /\ ~goAwaySent /\ ~peer.goAway
  /\ activeLocal < peer.maxConcurrent
  /\ MayAllocate

\* The checks SendHeaders makes of the section of a new stream.
SendableRequest(section, end) ==
  /\ ValidSection(Role, TRUE, FALSE, section)
  /\ end => section.length \in {NoLength, 0}
  /\ Room(HeaderReserve)

OpenStream(section, end) ==
  /\ MayOpen
  /\ Ready
  /\ SendableRequest(section, end)
  /\ AllocateLocal(IF end THEN "halfClosedLocal" ELSE "open")
  /\ NewStream(nextLocalStream, AfterSection(NoProgress, section, FALSE), MethodOf(section))
  /\ Emit(1)
  /\ UNCHANGED <<windowVars, events, settingVars, statusVars, localUnchanged>>

\* SendHeaders fails: OpenStream gives the stream up, and its identifier with it.
OpenStreamFails(section, end) ==
  /\ MayOpen
  /\ ~(Ready /\ SendableRequest(section, end))
  /\ SpendLocal
  /\ UNCHANGED <<streamVars, windowVars, output, events, settingVars, statusVars,
                 localUnchanged>>

\* The checks PushPromise makes before it takes an identifier.
MayPush(parent, section) ==
  /\ Role = "server" /\ limits.enablePush /\ peer.enablePush
  /\ CanSend(state[parent])
  /\ activeLocal < peer.maxConcurrent
  /\ MayAllocate
  /\ ValidSection("client", TRUE, FALSE, section)

PushPromise(parent, section) ==
  /\ MayPush(parent, section)
  /\ Ready
  /\ Room(HeaderReserve)
  /\ AllocateLocal("reservedLocal")
  /\ NewStream(nextLocalStream, NoProgress, MethodOf(section))
  /\ Emit(1)
  /\ UNCHANGED <<windowVars, events, settingVars, statusVars, localUnchanged>>

\* encodeAndAppendHeaders fails: the identifier is spent.
PushPromiseFails(parent, section) ==
  /\ MayPush(parent, section)
  /\ ~(Ready /\ Room(HeaderReserve))
  /\ SpendLocal
  /\ UNCHANGED <<streamVars, windowVars, output, events, settingVars, statusVars,
                 localUnchanged>>

\* The table and the attributes after the local side of stream id has sent a
\* frame, with END_STREAM or not; a reservation that is used is half-closed.
LocalEnd(id, end, sw, se, me) ==
  LET st == IF state[id] = "reservedLocal" THEN "halfClosedRemote" ELSE state[id]
      after == IF end /\ st = "open" THEN "halfClosedLocal" ELSE st
      q == IF end /\ st = "halfClosedRemote" THEN <<id>> ELSE <<>>
  IN /\ \/ q # <<>> /\ CloseStreams(q)
        \/ q = <<>> /\ after # state[id] /\ Move(id, after)
        \/ q = <<>> /\ after = state[id] /\ UNCHANGED tableVars
     /\ SetStreams(q, sw, recvWindow, se, received, me)

SendHeaders(id, section, end) ==
  LET trailer == sent[id].headers
      noBody == NoBody(method[id], section)
  IN /\ Ready
     /\ CanSend(state[id])
     /\ ~sent[id].trailers
     /\ trailer => end
     /\ ValidSection(Role, TRUE, trailer, section)
     /\ Informational(section) => ~end
     /\ section.kind = "bodiless" => end
     /\ end /\ ~noBody => section.length \in {NoLength, sent[id].body}
     /\ Room(HeaderReserve)
     /\ \/ Informational(section) /\ LocalEnd(id, FALSE, sendWindow, sent, method)
        \/ /\ ~Informational(section)
           /\ LocalEnd(id, end, sendWindow,
                       [sent EXCEPT ![id] = AfterSection(@, section, noBody)],
                       [method EXCEPT ![id] = FirstNonEmpty(@, MethodOf(section))])
     /\ Emit(1)
     /\ UNCHANGED <<windowVars, events, settingVars, statusVars, localUnchanged>>

\* Mutant: the connection window is not tested.
AvailableOnStream(id, n) == Min({n, peer.maxFrame, sendWindow[id]})

\* The part of a source of n bytes that one frame and the windows admit.
Available(id, n) == Min({n, peer.maxFrame, connectionSendWindow, sendWindow[id]})

\* SendData writes what they admit, with END_STREAM only when it is the
\* whole source.
SendData(id, n, end) ==
  LET used == IF n = 0 THEN 0 ELSE Available(id, n)
      last == end /\ used = n
  IN /\ Ready
     /\ CanSend(state[id])
     /\ sent[id].headers /\ ~sent[id].trailers /\ ~sent[id].noBody
     /\ ~Exceeds(sent[id], n)
     /\ IF n = 0 THEN end ELSE used > 0
     /\ last /\ sent[id].length # NoLength => sent[id].body + n = sent[id].length
     /\ Room(1)
     /\ sent[id].body + n <= MaxBody
     /\ LocalEnd(id, last, [sendWindow EXCEPT ![id] = @ - used],
                 [sent EXCEPT ![id] = AfterData(@, used)], method)
     /\ connectionSendWindow' = connectionSendWindow - used
     /\ Emit(1)
     /\ UNCHANGED <<connectionRecvWindow, events, settingVars, statusVars, localUnchanged>>

ResetStream(id) ==
  /\ Ready
  /\ state[id] # "idle"
  /\ Room(1)
  /\ End(IfLive(id))
  /\ Emit(1)
  /\ UNCHANGED <<windowVars, events, settingVars, statusVars, localUnchanged>>

\* The value a setting has after a SETTINGS frame.
Updated(value, setting) == IF setting = Keep THEN value ELSE setting

UpdateSettings(settings) ==
  LET window == Updated(limits.initialWindow, settings.initialWindow)
      change == window - limits.initialWindow
  IN /\ Ready
     /\ Room(1)
     /\ settings.enablePush # Keep => Role = "client"
     /\ settings.maxConcurrent <= MaxStreams
     /\ \A id \in Retained : recvWindow[id] + change \in -MaxWindow - 1 .. MaxWindow
     /\ ~decoding
     /\ settingsOutstanding < MaxOutstanding
     /\ limits' = [maxConcurrent |-> Updated(limits.maxConcurrent, settings.maxConcurrent),
                   initialWindow |-> window,
                   enablePush |-> IF settings.enablePush = Keep THEN limits.enablePush
                                  ELSE settings.enablePush = 1]
     /\ recvWindow' = [id \in StreamId |->
                         IF id \in Retained THEN recvWindow[id] + change ELSE recvWindow[id]]
     /\ settingsOutstanding' = settingsOutstanding + 1
     /\ Emit(1)
     /\ UNCHANGED <<tableVars, sendWindow, sent, received, method, windowVars, events,
                    peer, statusVars, localUnchanged>>

\* Ping and PriorityUpdate.
SendControl ==
  /\ Ready
  /\ Room(1)
  /\ Emit(1)
  /\ UNCHANGED <<tableVars, streamVars, windowVars, events, settingVars, statusVars,
                 localUnchanged>>

GoAway ==
  /\ Ready
  /\ ~goAwaySent
  /\ Room(1)
  /\ goAwaySent' = TRUE
  /\ Emit(1)
  /\ UNCHANGED <<tableVars, streamVars, windowVars, events, settingVars, failed,
                 localUnchanged>>

Close ==
  /\ ~closed
  /\ ClearStreams
  /\ sendWindow' = [id \in StreamId |-> 0]
  /\ recvWindow' = [id \in StreamId |-> 0]
  /\ sent' = [id \in StreamId |-> NoProgress]
  /\ received' = [id \in StreamId |-> NoProgress]
  /\ method' = [id \in StreamId |-> ""]
  /\ output' = 0
  /\ events' = 0
  /\ UNCHANGED <<windowVars, settingVars, statusVars, localUnchanged>>

ConsumeOutput ==
  /\ \E n \in 1 .. output : output' = output - n
  /\ UNCHANGED <<tableVars, streamVars, windowVars, events, settingVars, statusVars,
                 localUnchanged>>

NextEvent ==
  /\ events > 0
  /\ events' = events - 1
  /\ UNCHANGED <<tableVars, streamVars, windowVars, output, settingVars, statusVars,
                 localUnchanged>>

-----------------------------------------------------------------------------
(* Received frames *)

Receiving == Ready /\ prefaced

\* The parser is between two frames, and not inside a header block.
AtFrame == Receiving /\ frame = NoFrame /\ block = NoBlock

Settled == AtFrame /\ peer.settled

\* Feed on the last byte of the client preface.
RecvPreface ==
  /\ Ready
  /\ ~prefaced
  /\ prefaced' = TRUE
  /\ UNCHANGED <<tableVars, streamVars, windowVars, output, events, settingVars,
                 statusVars, lastProcessedPeerStream, frame, headerVars, controlFrames>>

\* Bytes the preface check or the frame parser rejects, and Finish in the
\* middle of the preface, a frame or a header block.
ParseError ==
  /\ Ready
  /\ ConnectionError("PROTOCOL")

\* "peer did not begin with SETTINGS": any first frame but the two below, whose
\* handlers go on after the failure.
FirstFrameNotSettings ==
  /\ AtFrame
  /\ ~peer.settled
  /\ ConnectionError("PROTOCOL")

controlUnchanged == <<windowVars, settingVars, lastProcessedPeerStream, prefaced, frame,
                      headerVars>>

RecvPriority ==
  /\ Settled
  /\ Raise(1)
  /\ ControlComplete(0)
  /\ UNCHANGED <<tableVars, streamVars, controlUnchanged>>

\* Frames of unknown type have no effect but to count.
RecvUnknown ==
  /\ Settled
  /\ ControlComplete(0)
  /\ UNCHANGED <<tableVars, streamVars, events, controlUnchanged>>

\* PRIORITY_UPDATE is an unknown frame to the parser; onFrameComplete rejects it
\* on a stream, or without a stream identifier, after having counted it.
RecvPriorityUpdate(valid) ==
  /\ Settled
  /\ IF valid \/ controlFrames >= MaxControlFrames
     THEN ControlComplete(0)
     ELSE controlFrames' = controlFrames + 1 /\ Failure("PROTOCOL", 0)
  /\ IF valid /\ controlFrames < MaxControlFrames THEN Raise(1) ELSE UNCHANGED events
  /\ UNCHANGED <<tableVars, streamVars, controlUnchanged>>

\* onRSTStream on a stream the session does not retain.
RecvRSTStreamUnknown(id) ==
  /\ Settled
  /\ state[id] = "idle"
  /\ \/ id > lastPeerStream /\ ConnectionError("PROTOCOL")
     \/ /\ id <= lastPeerStream
        /\ ControlComplete(0)
        /\ UNCHANGED <<tableVars, streamVars, events, controlUnchanged>>

\* Mutant: no event tells the application.
RecvRSTStreamSilent(id) ==
  /\ AtFrame
  /\ state[id] # "idle"
  /\ End(IfLive(id))
  /\ \/ peer.settled /\ ControlComplete(0)
     \/ ~peer.settled /\ Failure("PROTOCOL", 0) /\ UNCHANGED controlFrames
  /\ UNCHANGED <<events, controlUnchanged>>

\* onRSTStream closes the stream, also when the frame came before the peer's
\* SETTINGS and has failed the connection.
RecvRSTStream(id) ==
  /\ AtFrame
  /\ state[id] # "idle"
  /\ End(IfLive(id))
  /\ Raise(1)
  /\ \/ peer.settled /\ ControlComplete(0)
     \/ ~peer.settled /\ Failure("PROTOCOL", 0) /\ UNCHANGED controlFrames
  /\ UNCHANGED controlUnchanged

\* applyPeerSetting rejects a setting; what it applied before is never read
\* again, since the session has failed.
RejectedSettings(settings) ==
  \/ settings.enablePush # Keep /\ Role = "client"
  \/ peer.settled /\ settings.noPriorities # Keep
     /\ peer.noPriorities # (settings.noPriorities = 1)

SendWindowChange(settings) ==
  Updated(peer.initialWindow, settings.initialWindow) - peer.initialWindow

WindowOverflow(settings) ==
  \E id \in Live : sendWindow[id] + SendWindowChange(settings)
                     \notin -MaxWindow - 1 .. MaxWindow

RecvSettingsRejected(settings) ==
  /\ AtFrame
  /\ \/ RejectedSettings(settings) /\ ConnectionError("PROTOCOL")
     \/ WindowOverflow(settings) /\ ConnectionError("FLOW_CONTROL")

PeerAfter(settings) ==
  [peer EXCEPT !.maxConcurrent = Updated(@, settings.maxConcurrent),
               !.initialWindow = Updated(@, settings.initialWindow),
               !.maxFrame = Updated(@, settings.maxFrame),
               !.enablePush = IF settings.enablePush = Keep THEN @
                              ELSE settings.enablePush = 1,
               !.noPriorities = IF settings.noPriorities = Keep THEN @
                                ELSE settings.noPriorities = 1,
               !.settled = TRUE]

RecvSettings(settings) ==
  /\ AtFrame
  /\ ~RejectedSettings(settings)
  /\ ~WindowOverflow(settings)
  /\ peer' = PeerAfter(settings)
  /\ sendWindow' = [id \in StreamId |-> IF id \in Live
                                        THEN sendWindow[id] + SendWindowChange(settings)
                                        ELSE sendWindow[id]]
  /\ \/ Room(1) /\ Raise(1) /\ ControlComplete(1)
     \/ ~Room(1) /\ Failure("INTERNAL", 0) /\ UNCHANGED <<events, controlFrames>>
  /\ UNCHANGED <<tableVars, recvWindow, sent, received, method, windowVars, limits,
                 settingsOutstanding, lastProcessedPeerStream, prefaced, frame,
                 headerVars>>

RecvSettingsAck ==
  /\ Settled
  /\ \/ settingsOutstanding = 0 /\ ConnectionError("PROTOCOL")
     \/ /\ settingsOutstanding > 0
        /\ settingsOutstanding' = settingsOutstanding - 1
        /\ Raise(1)
        /\ ControlComplete(0)
        /\ UNCHANGED <<tableVars, streamVars, windowVars, peer, limits,
                       lastProcessedPeerStream, prefaced, frame, headerVars>>

RecvPing(ack) ==
  /\ Settled
  /\ \/ ~ack /\ ~Room(1) /\ ConnectionError("INTERNAL")
     \/ /\ ack \/ Room(1)
        /\ Raise(1)
        /\ ControlComplete(IF ack THEN 0 ELSE 1)
        /\ UNCHANGED <<tableVars, streamVars, controlUnchanged>>

\* onGoAway closes the streams the peer will not process, in the random order
\* of Go's map iteration, also when the frame came before the peer's SETTINGS.
RecvGoAway(last) ==
  LET refused == {id \in LocalLive : id > last}
  IN /\ AtFrame
     /\ \/ peer.goAway /\ last > peer.lastStream /\ ConnectionError("PROTOCOL")
        \/ /\ ~(peer.goAway /\ last > peer.lastStream)
           /\ peer' = [peer EXCEPT !.goAway = TRUE, !.lastStream = last]
           /\ \E q \in Orders(refused) : End(q)
           /\ Raise(Cardinality(refused) + 1)
           /\ \/ peer.settled /\ ControlComplete(0)
              \/ ~peer.settled /\ Failure("PROTOCOL", 0) /\ UNCHANGED controlFrames
           /\ UNCHANGED <<windowVars, limits, settingsOutstanding,
                          lastProcessedPeerStream, prefaced, frame, headerVars>>

RecvConnectionWindowUpdate(n) ==
  /\ Settled
  /\ \/ connectionSendWindow > MaxWindow - n /\ ConnectionError("FLOW_CONTROL")
     \/ /\ connectionSendWindow <= MaxWindow - n
        /\ connectionSendWindow' = connectionSendWindow + n
        /\ Raise(1)
        /\ ControlComplete(0)
        /\ UNCHANGED <<tableVars, streamVars, connectionRecvWindow, settingVars,
                       lastProcessedPeerStream, prefaced, frame, headerVars>>

\* onWindowUpdate on a stream that is closed or not retained.
RecvWindowUpdateLate(id) ==
  /\ Settled
  /\ id \notin Live
  /\ \/ /\ state[id] = "idle" /\ id > lastPeerStream
        /\ ConnectionError("PROTOCOL")
     \/ /\ state[id] = "closed" \/ id <= lastPeerStream
        /\ ControlComplete(0)
        /\ UNCHANGED <<tableVars, streamVars, events, controlUnchanged>>

RecvWindowUpdate(id, n) ==
  /\ Settled
  /\ id \in Live
  /\ Raise(1)
  /\ \/ /\ sendWindow[id] > MaxWindow - n
        /\ End(<<id>>)
        /\ ControlComplete(1)
     \/ /\ sendWindow[id] <= MaxWindow - n
        /\ sendWindow' = [sendWindow EXCEPT ![id] = @ + n]
        /\ ControlComplete(0)
        /\ UNCHANGED <<tableVars, recvWindow, sent, received, method>>
  /\ UNCHANGED controlUnchanged

-----------------------------------------------------------------------------
(* Received header blocks *)

\* peerMayOpen
PeerMayOpen(id) ==
  /\ id > lastPeerStream
  /\ ~Own(id)
  /\ Role = "client" => limits.enablePush

\* The limits a stream of the peer has to fit in.
PeerFits ==
  /\ activePeer < limits.maxConcurrent
  /\ Cardinality(Retained) < MaxStreams

beginUnchanged == <<windowVars, settingVars, lastProcessedPeerStream, prefaced, frame,
                    controlFrames>>

\* The parser has seen the header of a frame that begins a header block. A priority
\* that HEADERS carry is the event of a PRIORITY frame, RecvPriority.
BeginBlock(id, end, push) ==
  block' = [stream |-> id, end |-> end, push |-> push, continued |-> FALSE]

\* Mutant: a promised block is filed under the promised stream.
DecodeForEvent(id, event, trailer, push) ==
  /\ current' = [stream |-> event, event |-> event, trailer |-> trailer, push |-> push]
  /\ decoding' = TRUE

\* The session hands the block on to the decoder, for stream event.
Decode(id, event, trailer, push) ==
  /\ current' = [stream |-> id, event |-> event, trailer |-> trailer, push |-> push]
  /\ decoding' = TRUE

\* beginInboundHeaders: a stream error at the head of a block. The block is
\* still parsed, but the decoder never sees it.
RefuseBlock(id, end) ==
  /\ BeginBlock(id, end, FALSE)
  /\ End(IfLive(id))
  /\ Raise(1)
  /\ Emit(1)
  /\ UNCHANGED <<current, decoding, statusVars, beginUnchanged>>

\* HEADERS that open a stream.
RecvHeadersOpen(id, end) ==
  /\ Settled
  /\ state[id] = "idle"
  /\ \/ ~PeerMayOpen(id) /\ ConnectionError("PROTOCOL")
     \/ PeerMayOpen(id) /\ ~PeerFits /\ RefuseBlock(id, end)
     \/ /\ PeerMayOpen(id)
        /\ PeerFits
        /\ AllocatePeer(id, "open")
        /\ NewStream(id, NoProgress, "")
        /\ BeginBlock(id, end, FALSE)
        /\ Decode(id, id, FALSE, FALSE)
        /\ UNCHANGED <<output, events, statusVars, beginUnchanged>>

\* HEADERS on a stream the session retains.
RecvHeaders(id, end) ==
  LET invalid == \/ ~CanReceive(state[id])
                 \/ received[id].trailers
                 \/ received[id].headers /\ ~end
  IN /\ Settled
     /\ state[id] # "idle"
     /\ \/ state[id] = "closed" /\ ConnectionError("STREAM_CLOSED")
        \/ state[id] # "closed" /\ invalid /\ RefuseBlock(id, end)
        \/ /\ ~invalid
           /\ IF state[id] = "reservedRemote" THEN Move(id, "halfClosedLocal")
              ELSE UNCHANGED tableVars
           /\ BeginBlock(id, end, FALSE)
           /\ Decode(id, id, received[id].headers, FALSE)
           /\ UNCHANGED <<streamVars, output, events, statusVars, beginUnchanged>>

\* PUSH_PROMISE of stream id on stream parent.
RecvPushPromise(parent, id) ==
  LET valid == /\ Role = "client"
               /\ limits.enablePush /\ peer.enablePush
               /\ ~Own(id)
               /\ id > lastPeerStream
               /\ CanReceive(state[parent])
  IN /\ Settled
     /\ \/ ~valid /\ ConnectionError("PROTOCOL")
        \/ /\ valid
           /\ ~PeerFits
           /\ BeginBlock(parent, FALSE, TRUE)
           /\ Raise(1)
           /\ Emit(1)
           /\ UNCHANGED <<tableVars, streamVars, current, decoding, statusVars,
                          beginUnchanged>>
        \/ /\ valid
           /\ PeerFits
           /\ AllocatePeer(id, "reservedRemote")
           /\ NewStream(id, NoProgress, "")
           /\ BeginBlock(parent, FALSE, TRUE)
           /\ Decode(parent, id, FALSE, TRUE)
           /\ UNCHANGED <<output, events, statusVars, beginUnchanged>>

\* onFrameComplete at the end of a header block, or of its first frame; only a
\* PUSH_PROMISE frame itself counts as a control frame.
BlockComplete(n) ==
  IF block.push /\ ~block.continued THEN ControlComplete(n) ELSE MessageComplete(n)

\* The first frame of the block ends without END_HEADERS.
ContinueBlock ==
  /\ Receiving
  /\ block # NoBlock
  /\ ~block.continued
  /\ BlockComplete(0)
  /\ block' = [block EXCEPT !.continued = TRUE]
  /\ UNCHANGED <<tableVars, streamVars, windowVars, events, settingVars,
                 lastProcessedPeerStream, prefaced, frame, current, decoding>>

endUnchanged == <<windowVars, settingVars, prefaced, frame>>

\* The block ends and is not the one the session has begun.
EndIgnoredBlock ==
  /\ Receiving
  /\ block # NoBlock
  /\ block.stream # current.stream
  /\ block' = NoBlock
  /\ BlockComplete(0)
  /\ UNCHANGED <<tableVars, streamVars, events, current, decoding,
                 lastProcessedPeerStream, endUnchanged>>

\* The decoder rejects a fragment or the end of the block, the latter also when
\* no block is active.
CompressionError(section) ==
  /\ Receiving
  /\ block # NoBlock
  /\ block.stream = current.stream
  /\ ~decoding \/ section.kind = "undecodable"
  /\ ConnectionError("COMPRESSION")

\* onHeaderBlockEnd: the block has been decoded to section.
Decoded(section) ==
  /\ Receiving
  /\ block # NoBlock
  /\ block.stream = current.stream
  /\ decoding
  /\ section.kind # "undecodable"

\* The stream has gone meanwhile, or validation fails: an early return, which
\* leaves the session's header block in place.
EndRejectedBlock(section) ==
  LET id == current.event
      valid == ValidSection(IF current.push THEN "server" ELSE Role, FALSE,
                            current.trailer, section)
  IN /\ Decoded(section)
     /\ \/ /\ state[id] = "idle"
           /\ BlockComplete(0)
           /\ UNCHANGED <<tableVars, streamVars, events>>
        \/ /\ state[id] # "idle"
           /\ ~valid
           /\ End(IfLive(id))
           /\ Raise(1)
           /\ BlockComplete(1)
     /\ block' = NoBlock
     /\ decoding' = FALSE
     /\ UNCHANGED <<current, lastProcessedPeerStream, endUnchanged>>

Accepted(section) ==
  /\ Decoded(section)
  /\ state[current.event] # "idle"
  /\ ValidSection(IF current.push THEN "server" ELSE Role, FALSE, current.trailer, section)

\* The event queue is full.
EndBlockNoRoom(section) ==
  /\ Accepted(section)
  /\ events >= MaxQueuedEvents
  /\ ConnectionError("ENHANCE_YOUR_CALM")

EndBlock == block' = NoBlock /\ current' = NoCurrent /\ decoding' = FALSE

EndPushPromise(section) ==
  /\ Accepted(section)
  /\ events < MaxQueuedEvents
  /\ current.push
  /\ method' = [method EXCEPT ![current.event] = MethodOf(section)]
  /\ Raise(1)
  /\ EndBlock
  /\ BlockComplete(0)
  /\ UNCHANGED <<tableVars, sendWindow, recvWindow, sent, received,
                 lastProcessedPeerStream, endUnchanged>>

EndInformational(section) ==
  /\ Accepted(section)
  /\ events < MaxQueuedEvents
  /\ ~current.push
  /\ Informational(section)
  /\ \/ /\ ~block.end
        /\ Raise(1)
        /\ MessageComplete(0)
        /\ UNCHANGED <<tableVars, streamVars>>
     \/ /\ block.end
        /\ End(IfLive(current.event))
        /\ Raise(2)
        /\ MessageComplete(1)
  /\ EndBlock
  /\ UNCHANGED <<lastProcessedPeerStream, endUnchanged>>

\* Mutant: an open stream stays open.
RemoteEndStaysOpen(id, rw, re, me, n, e) ==
  LET mismatch == LengthMismatch(re[id])
      q == IF mismatch THEN IfLive(id)
           ELSE IF state[id] = "halfClosedLocal" THEN <<id>> ELSE <<>>
  IN /\ CloseStreams(q)
     /\ SetStreams(q, sendWindow, rw, sent, re, me)
     /\ MessageComplete(IF mismatch THEN n + 1 ELSE n)
     /\ Raise(e + 1)
     /\ lastProcessedPeerStream' =
          IF ~mismatch /\ id > lastProcessedPeerStream THEN id ELSE lastProcessedPeerStream

\* remoteEnd, in a step that has emitted n frames and raised e events before it
\* and that leaves the attributes as rw, re and me.
RemoteEnd(id, rw, re, me, n, e) ==
  LET mismatch == LengthMismatch(re[id])
      q == IF mismatch THEN IfLive(id)
           ELSE IF state[id] = "halfClosedLocal" THEN <<id>> ELSE <<>>
      notice == IF mismatch \/ state[id] # "closed" THEN 1 ELSE 0
  IN /\ IF ~mismatch /\ state[id] = "open" THEN Move(id, "halfClosedRemote")
        ELSE CloseStreams(q)
     /\ SetStreams(q, sendWindow, rw, sent, re, me)
     /\ MessageComplete(IF mismatch THEN n + 1 ELSE n)
     /\ Raise(e + notice)
     /\ lastProcessedPeerStream' =
          IF ~mismatch /\ state[id] # "closed" /\ id > lastProcessedPeerStream
          THEN id ELSE lastProcessedPeerStream

\* A final response, a request or trailers.
EndMessageBlock(section) ==
  LET id == current.event
      me == [method EXCEPT ![id] = FirstNonEmpty(@, MethodOf(section))]
      re == [received EXCEPT ![id] = AfterSection(@, section, NoBody(me[id], section))]
  IN /\ Accepted(section)
     /\ events < MaxQueuedEvents
     /\ ~current.push
     /\ ~Informational(section)
     /\ \/ block.end /\ RemoteEnd(id, recvWindow, re, me, 0, 1)
        \/ /\ ~block.end
           /\ received' = re
           /\ method' = me
           /\ Raise(1)
           /\ MessageComplete(0)
           /\ UNCHANGED <<tableVars, sendWindow, recvWindow, sent,
                          lastProcessedPeerStream>>
     /\ EndBlock
     /\ UNCHANGED endUnchanged

-----------------------------------------------------------------------------
(* Received DATA *)

dataUnchanged == <<settingVars, prefaced, headerVars>>

\* onFrameBegin of a DATA frame of n bytes, n - m of them padding.
BeginData(id, n, m, end) ==
  LET invalid == \/ ~CanReceive(state[id])
                 \/ ~received[id].headers
                 \/ received[id].trailers
                 \/ received[id].noBody
  IN /\ Settled
     /\ frame' = [stream |-> id, left |-> m, end |-> end]
     /\ \/ /\ invalid \/ (n <= connectionRecvWindow /\ n > recvWindow[id])
           /\ End(IfLive(id))
           /\ Raise(1)
           /\ Emit(1)
           /\ UNCHANGED windowVars
        \/ /\ ~invalid
           /\ n <= connectionRecvWindow
           /\ n <= recvWindow[id]
           /\ connectionRecvWindow' = connectionRecvWindow - n
           /\ recvWindow' = [recvWindow EXCEPT ![id] = @ - n]
           /\ UNCHANGED <<tableVars, sendWindow, sent, received, method,
                          connectionSendWindow, output, events>>
     /\ UNCHANGED <<statusVars, lastProcessedPeerStream, controlFrames, dataUnchanged>>

BeginDataOverConnectionWindow(id, n) ==
  /\ Settled
  /\ CanReceive(state[id])
  /\ received[id].headers /\ ~received[id].trailers /\ ~received[id].noBody
  /\ n > connectionRecvWindow
  /\ ConnectionError("FLOW_CONTROL")

\* onData: k bytes of the payload. It tests neither the state of the stream nor
\* whether onFrameBegin accepted the frame.
RecvDataFragment(k) ==
  LET id == frame.stream
  IN /\ Receiving
     /\ k \in 1 .. frame.left
     /\ frame' = [frame EXCEPT !.left = @ - k]
     /\ \/ /\ state[id] = "idle"
           /\ UNCHANGED <<tableVars, streamVars, output, events>>
        \/ /\ state[id] # "idle"
           /\ Exceeds(received[id], k)
           /\ End(IfLive(id))
           /\ Raise(1)
           /\ Emit(1)
        \/ /\ state[id] # "idle"
           /\ ~Exceeds(received[id], k)
           /\ events < MaxQueuedEvents
           /\ received[id].body + k <= MaxBody
           /\ received' = [received EXCEPT ![id] = AfterData(@, k)]
           /\ Raise(1)
           /\ UNCHANGED <<tableVars, sendWindow, recvWindow, sent, method, output>>
     /\ UNCHANGED <<windowVars, statusVars, lastProcessedPeerStream, controlFrames,
                    dataUnchanged>>

\* The event queue is full when a fragment arrives. Its bytes have been counted by
\* then, in a session that has failed and reads no count any more.
DataNoRoom ==
  /\ Receiving
  /\ frame.left > 0
  /\ state[frame.stream] # "idle"
  /\ \E k \in 1 .. frame.left : ~Exceeds(received[frame.stream], k)
  /\ events >= MaxQueuedEvents
  /\ ConnectionError("ENHANCE_YOUR_CALM")

\* Mutant: the credit is a whole window.
CreditWholeWindow(window) ==
  IF window <= limits.initialWindow \div 2 THEN limits.initialWindow ELSE 0

\* Mutant: exactly half a window is not restored.
CreditBelowHalf(window) ==
  IF window < limits.initialWindow \div 2 THEN limits.initialWindow - window ELSE 0

\* The credit onFrameComplete gives back when at most half a window is left.
Credit(window) ==
  IF window <= limits.initialWindow \div 2 THEN limits.initialWindow - window ELSE 0

\* onFrameComplete of a DATA frame.
CompleteData ==
  LET id == frame.stream
      connection == Credit(connectionRecvWindow)
      stream == Credit(recvWindow[id])
      rw == [recvWindow EXCEPT ![id] = @ + stream]
      n == (IF connection > 0 THEN 1 ELSE 0) + (IF stream > 0 THEN 1 ELSE 0)
  IN /\ Receiving
     /\ frame # NoFrame
     /\ frame.left = 0
     /\ frame' = NoFrame
     /\ \/ /\ state[id] = "idle"
           /\ MessageComplete(0)
           /\ UNCHANGED <<tableVars, streamVars, windowVars, events,
                          lastProcessedPeerStream>>
        \/ /\ state[id] # "idle"
           /\ connectionRecvWindow' = connectionRecvWindow + connection
           /\ UNCHANGED connectionSendWindow
           /\ \/ frame.end /\ RemoteEnd(id, rw, received, method, n, 0)
              \/ /\ ~frame.end
                 /\ recvWindow' = rw
                 /\ MessageComplete(n)
                 /\ UNCHANGED <<tableVars, sendWindow, sent, received, method, events,
                                lastProcessedPeerStream>>
     /\ UNCHANGED dataUnchanged

-----------------------------------------------------------------------------
LocalCall ==
  \/ \E section \in Sections, end \in BOOLEAN :
       \/ OpenStream(section, end)
       \/ OpenStreamFails(section, end)
       \/ \E id \in StreamId : SendHeaders(id, section, end)
  \/ \E id \in StreamId, section \in Sections :
       PushPromise(id, section) \/ PushPromiseFails(id, section)
  \/ \E id \in StreamId, n \in DataLengths, end \in BOOLEAN : SendData(id, n, end)
  \/ \E id \in StreamId : ResetStream(id)
  \/ \E settings \in LocalSettings : UpdateSettings(settings)
  \/ SendControl \/ GoAway \/ Close \/ ConsumeOutput \/ NextEvent

ReceiveControl ==
  \/ RecvPreface \/ ParseError \/ FirstFrameNotSettings
  \/ RecvPriority \/ RecvUnknown
  \/ \E valid \in BOOLEAN : RecvPriorityUpdate(valid)
  \/ \E id \in StreamId : \/ RecvRSTStreamUnknown(id)
                          \/ RecvRSTStream(id)
                          \/ RecvWindowUpdateLate(id)
  \/ \E settings \in PeerSettings : RecvSettingsRejected(settings) \/ RecvSettings(settings)
  \/ RecvSettingsAck
  \/ \E ack \in BOOLEAN : RecvPing(ack)
  \/ \E last \in LastStreams : RecvGoAway(last)
  \/ \E n \in Increments : \/ RecvConnectionWindowUpdate(n)
                           \/ \E id \in StreamId : RecvWindowUpdate(id, n)

ReceiveHeaders ==
  \/ \E id \in StreamId, end \in BOOLEAN : RecvHeadersOpen(id, end) \/ RecvHeaders(id, end)
  \/ \E parent, id \in StreamId : RecvPushPromise(parent, id)
  \/ ContinueBlock \/ EndIgnoredBlock
  \/ \E section \in Sections : \/ CompressionError(section)
                               \/ EndRejectedBlock(section)
                               \/ EndBlockNoRoom(section)
                               \/ EndPushPromise(section)
                               \/ EndInformational(section)
                               \/ EndMessageBlock(section)

ReceiveData ==
  \/ \E id \in StreamId, n \in DataLengths :
       \/ \E m \in 0 .. n, end \in BOOLEAN : BeginData(id, n, m, end)
       \/ BeginDataOverConnectionWindow(id, n)
  \/ \E k \in DataLengths : RecvDataFragment(k)
  \/ DataNoRoom \/ CompleteData

Next == LocalCall \/ ReceiveControl \/ ReceiveHeaders \/ ReceiveData

Spec == Init /\ [][Next]_vars

-----------------------------------------------------------------------------
(* Properties *)

Window == -MaxWindow - 1 .. MaxWindow

Failures == {"PROTOCOL", "INTERNAL", "FLOW_CONTROL", "STREAM_CLOSED",
             "COMPRESSION", "ENHANCE_YOUR_CALM"}

SessionTypeOK ==
  /\ TableTypeOK
  /\ sendWindow \in [StreamId -> Int]
  /\ recvWindow \in [StreamId -> Int]
  /\ connectionSendWindow \in Int
  /\ connectionRecvWindow \in Int
  /\ sent \in [StreamId -> Progress]
  /\ received \in [StreamId -> Progress]
  /\ method \in [StreamId -> Method]
  /\ output \in 0 .. MaxOutput
  /\ events \in 0 .. MaxQueuedEvents
  /\ peer \in [maxConcurrent : Nat, initialWindow : 0 .. MaxWindow,
               maxFrame : Nat \ {0}, enablePush : BOOLEAN, noPriorities : BOOLEAN,
               settled : BOOLEAN, goAway : BOOLEAN, lastStream : 0 .. MaxStreamId]
  /\ limits \in [maxConcurrent : 0 .. MaxStreams, initialWindow : 0 .. MaxWindow,
                 enablePush : BOOLEAN]
  /\ settingsOutstanding \in 0 .. MaxOutstanding
  /\ failed \in {"none"} \cup Failures
  /\ goAwaySent \in BOOLEAN
  /\ lastProcessedPeerStream \in 0 .. MaxStreamId
  /\ prefaced \in BOOLEAN
  /\ frame \in [stream : 0 .. MaxStreamId, left : Nat, end : BOOLEAN]
  /\ block \in [stream : 0 .. MaxStreamId, end : BOOLEAN, push : BOOLEAN,
                continued : BOOLEAN]
  /\ current \in [stream : 0 .. MaxStreamId, event : 0 .. MaxStreamId,
                  trailer : BOOLEAN, push : BOOLEAN]
  /\ decoding \in BOOLEAN
  /\ controlFrames \in 0 .. MaxControlFrames + 1

\* Every step of a session is a step of its stream table: streams are allocated
\* only below the limits, follow the RFC 9113 states and leave the table only
\* through the FIFO of closed streams or Close.
ImplementsTable == TableSpec

\* No window leaves the 31-bit range, whatever DATA, SETTINGS and WINDOW_UPDATE
\* frames do to it, and the session never lets the peer overdraw the
\* connection window nor overdraws the peer's.
WindowsInRange ==
  /\ connectionSendWindow \in 0 .. MaxWindow
  /\ connectionRecvWindow \in 0 .. MaxWindow
  /\ \A id \in Retained : sendWindow[id] \in Window /\ recvWindow[id] \in Window

\* A stream never has more receive credit than the current
\* SETTINGS_INITIAL_WINDOW_SIZE: the WINDOW_UPDATEs of onFrameComplete and the
\* change UpdateSettings applies never add up to more.
CreditBounded == \A id \in Retained : recvWindow[id] <= limits.initialWindow

\* Between two frames more than half the window of every live stream is open by
\* the session's own account: onFrameComplete restores what an accepted DATA
\* frame takes. It restores the connection window too, but not for a frame whose
\* stream has left the map in the middle of it, so that more than half of that
\* is sure to be open only while the FIFO of closed streams has never been full.
\* It holds as long as UpdateSettings does not change the initial window.
CreditRestored ==
  AtFrame => /\ \A id \in Live : recvWindow[id] > limits.initialWindow \div 2
             /\ Len(closedStreams) < MaxClosedStreams =>
                  connectionRecvWindow > limits.initialWindow \div 2

\* While a block is being decoded the parser is inside that block: BeginBlock
\* never finds another one active in the HPACK decoder.
DecoderFollowsParser ==
  decoding => block # NoBlock /\ block.stream = current.stream

\* As long as a stream lives and has no trailers, the body sent on it never exceeds
\* the Content-Length of its header section, and once its local side has ended it is
\* as long, however SendData, SendHeaders and received frames interleave. Trailers
\* put their own Content-Length, or none, in its place: the body of a message with
\* trailers is compared with that alone, see DeclaredLengthKept.
SentLengthExact ==
  \A id \in Live :
    /\ ~sent[id].trailers /\ sent[id].length # NoLength => sent[id].body <= sent[id].length
    /\ ~CanSend(state[id]) => ~LengthMismatch(sent[id])

\* The same of what a server has received. A client cannot promise this: see
\* DataAfterHeaders.
ReceivedLengthExact ==
  \A id \in Live :
    /\ ~received[id].trailers /\ received[id].length # NoLength =>
         received[id].body <= received[id].length
    /\ ~CanReceive(state[id]) => ~LengthMismatch(received[id])

\* Both together: a message without trailers that has ended is as long as its
\* header section declared, one with trailers as long as the trailers say, if they do.
LengthsExact == SentLengthExact /\ ReceivedLengthExact

\* What a reader of Content-Length expects: trailers end a message only if its body
\* is as long as its header section declared.
DeclaredLengthKept ==
  [][\A id \in StreamId :
       received[id].headers /\ ~received[id].trailers /\ received'[id].trailers
         => ~LengthMismatch(received[id])]_vars

\* After the peer's GOAWAY a client has no live stream above the last identifier
\* the peer will process.
GoAwayHonoured ==
  Role = "client" /\ peer.goAway => \A id \in LocalLive : id <= peer.lastStream

\* GOAWAY names as processed only a stream that was opened and on which nothing
\* more can be received. It may be one of this endpoint's own: a DATA frame that
\* begins on an identifier still idle and ends after OpenStream or PushPromise
\* has taken it counts as the end of that stream.
ProcessedWasReceived ==
  lastProcessedPeerStream # 0 =>
    /\ Spent(lastProcessedPeerStream)
    /\ ~CanReceive(state[lastProcessedPeerStream])

\* A step of a failed session.
Frozen ==
  failed # "none" => /\ failed' = failed
                     /\ output' <= output
                     /\ events' <= events
                     /\ closed' = closed => UNCHANGED <<state, streamVars, windowVars>>

\* "Protocol failures are sticky": once the session has failed, no step changes
\* a stream, queues a frame or raises an event; only Close still acts.
FailureFreezes == [][Frozen]_vars

\* The streams a step closes.
Gone == {id \in Live : state'[id] \notin LiveState}

Announced ==
  Gone # {} /\ ~closed' =>
    \/ events' >= events + Cardinality(Gone)
    \/ events' = MaxQueuedEvents
    \/ Cardinality(Gone) = 1 /\ output' = output + 1

\* No stream disappears silently: unless the session is closed, a step that
\* closes streams either raises an event for each of them, or sends the frame
\* that closes the only one; events are lost only when their queue is full.
ClosingAnnounced == [][Announced]_vars

\* "Values may reduce configured limits but cannot exceed the Session's original
\* bounds" (UpdateSettings).
WithinOriginalBounds ==
  /\ limits.maxConcurrent <= MaxConcurrent
  /\ limits.initialWindow <= InitialWindow

\* A session that no one has shut down and that has no live stream can take the
\* next one: "http2.Session implements persistent client and server connections"
\* (README.md).
HealthyHasRoom ==
  Ready /\ ~goAwaySent /\ ~peer.goAway /\ Live = {} => Cardinality(Retained) < MaxStreams

\* No body reaches the application before the header section of its message:
\* onFrameBegin rejects such a frame ("DATA in invalid stream state"), which is
\* the "stream-state enforcement" of README.md.
DataAfterHeaders == \A id \in Live : received[id].body > 0 => received[id].headers

=============================================================================
