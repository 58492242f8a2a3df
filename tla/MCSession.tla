------------------------------ MODULE MCSession ------------------------------
(***************************************************************************)
(* Small instances of Session: the field sections and the SETTINGS that    *)
(* the configurations choose from.                                         *)
(***************************************************************************)
EXTENDS Session

Plain(kinds) == [kind : kinds, length : {NoLength}]

\* Enough to open, refuse and end streams.
StreamSections == Plain({"request", "response", "trailers", "malformed"})

\* What can happen to a promised stream.
PushSections ==
  Plain({"request", "response", "informational", "malformed", "undecodable"})

\* Requests alone: a client that only sends bodies, a server that only receives
\* them.
FlowSections == Plain({"request"})

\* Enough for a server to take, refuse and answer requests.
ServerSections == Plain({"request", "response", "malformed"})

\* A response to a request.
ExchangeSections == Plain({"request", "response"})

\* Messages with and without Content-Length, and the bodiless ones.
MessageSections ==
  [kind : {"request", "response"}, length : {NoLength, 1}]
    \cup Plain({"HEAD", "bodiless"})
    \cup [kind : {"trailers"}, length : {NoLength, 0}]

NoSettings == {}

\* A SETTINGS frame of the peer that leaves everything as it is.
EmptySettings ==
  [maxConcurrent |-> Keep, initialWindow |-> Keep, maxFrame |-> Keep,
   enablePush |-> Keep, noPriorities |-> Keep]

PlainSettings == {EmptySettings}

\* The peer may lower its concurrency limit, stop taking pushes and drop
\* priorities.
PushSettings ==
  {EmptySettings,
   [EmptySettings EXCEPT !.maxConcurrent = 1, !.enablePush = 0, !.noPriorities = 1]}

\* The peer moves its initial window up and down, and its frame size up.
WindowSettings ==
  {[EmptySettings EXCEPT !.initialWindow = 0],
   [EmptySettings EXCEPT !.initialWindow = 1],
   [EmptySettings EXCEPT !.initialWindow = MaxWindow, !.maxFrame = MaxWindow]}

\* UpdateSettings moves the local window.
OwnWindowSettings ==
  [maxConcurrent : {Keep}, initialWindow : {0, MaxWindow}, enablePush : {Keep}]

\* UpdateSettings turns push off and raises the concurrency limit.
NoPush == {[maxConcurrent |-> MaxStreams, initialWindow |-> Keep, enablePush |-> 0]}
=============================================================================
