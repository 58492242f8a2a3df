--------------------------- MODULE ConnectionCredit ---------------------------
(***************************************************************************)
(* A Session whose peer obeys flow control. The peer keeps the account of  *)
(* the connection window that RFC 9113 prescribes: it starts with          *)
(* DefaultWindow, pays every DATA frame it sends on any stream from it,    *)
(* and gains what WINDOW_UPDATE frames on stream 0 grant. It sends DATA    *)
(* only between the header section and the END_STREAM of a message, within *)
(* its credit and within the window of a live stream; it may go on after   *)
(* the session has closed the stream, until it hears of that. In its other *)
(* frames the peer is as arbitrary as in Session.                          *)
(***************************************************************************)
EXTENDS Session

VARIABLES
  peerCredit,   \* the connection window as the peer counts it
  sending       \* the streams whose body the peer is sending

creditVars == <<vars, peerCredit, sending>>

CreditInit ==
  /\ Init
  /\ peerCredit = DefaultWindow
  /\ sending = {}

\* The streams on which the session expects DATA.
Expected == {id \in StreamId : CanReceive(state[id]) /\ received[id].headers}

\* DATA, whatever the session makes of it.
PeerSendsData ==
  \E id \in sending, n \in DataLengths, end \in BOOLEAN :
    /\ n <= peerCredit
    /\ id \in Live => n <= recvWindow[id]
    /\ \/ \E m \in 0 .. n : BeginData(id, n, m, end)
       \/ BeginDataOverConnectionWindow(id, n)
    /\ peerCredit' = peerCredit - n
    /\ sending' = IF end THEN sending \ {id} ELSE sending

\* Mutant: the WINDOW_UPDATE carries a whole window.
GrantedWholeWindow ==
  IF state[frame.stream] # "idle" /\ Room(1) /\ Credit(connectionRecvWindow) > 0
  THEN limits.initialWindow ELSE 0

\* The increment of the WINDOW_UPDATE that onFrameComplete queues on stream 0,
\* if it finds room; the session adds it to its window in either case.
GrantedCredit ==
  IF state[frame.stream] # "idle" /\ Room(1) THEN Credit(connectionRecvWindow) ELSE 0

SessionGrantsCredit ==
  /\ CompleteData
  /\ peerCredit' = peerCredit + GrantedCredit
  /\ UNCHANGED sending

\* Any other frame, or a part of one: it may begin messages and end them.
PeerSendsOther ==
  /\ \/ ReceiveControl \/ ReceiveHeaders
     \/ \E k \in DataLengths : RecvDataFragment(k)
     \/ DataNoRoom
  /\ sending' = (sending \cup Expected') \ (Expected \ Expected')
  /\ UNCHANGED peerCredit

SessionCalled == LocalCall /\ UNCHANGED <<peerCredit, sending>>

CreditNext == PeerSendsData \/ SessionGrantsCredit \/ PeerSendsOther \/ SessionCalled

CreditSpec == CreditInit /\ [][CreditNext]_creditVars

-----------------------------------------------------------------------------
\* The peer never believes in credit the session does not grant, provided the
\* session starts with at least the window RFC 9113 gives.
CreditNotOverstated == peerCredit \in 0 .. connectionRecvWindow

\* A peer that obeys flow control is never accused of "connection receive window
\* exceeded" (onFrameBegin). For instances without WINDOW_UPDATEs and window
\* SETTINGS of the peer, the other two causes of this connection error.
ObedientPeerAccepted == failed # "FLOW_CONTROL"

\* Between two frames the peer always has connection credit left, so that
\* "bodies and responses larger than the initial window" (README.md) go on.
PeerNotStarved == AtFrame => peerCredit > 0
=============================================================================
