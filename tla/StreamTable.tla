----------------------------- MODULE StreamTable -----------------------------
(***************************************************************************)
(* The retained-stream table of one http2.Session: which streams the       *)
(* session knows, their RFC 9113 state, the counters of active streams and *)
(* the FIFO of closed streams that are kept for late frames.               *)
(*                                                                         *)
(* The Go map `streams` is the function `state`: an identifier that is not *)
(* a key of the map has state "idle", which is what Session.StreamState    *)
(* reports for it; no stream is ever stored with StreamIdle.               *)
(***************************************************************************)
EXTENDS Integers, Sequences, FiniteSetsExt, Functions

CONSTANTS
  Role,              \* "client" or "server"
  MaxStreamId,       \* largest stream identifier (2^31 - 1 in the code)
  MaxStreams,        \* limits.MaxStreams
  MaxClosedStreams   \* limits.MaxClosedStreams

\* What SessionLimits.normalized guarantees of the table's limits.
ASSUME TableAssumption ==
  /\ Role \in {"client", "server"}
  /\ MaxStreamId \in Nat \ {0}
  /\ MaxStreams \in Nat \ {0}
  /\ MaxClosedStreams \in 1 .. MaxStreams

VARIABLES
  state,             \* state of every identifier; "idle" when not retained
  local,             \* the retained streams this endpoint initiated
  closedStreams,     \* closed identifiers, oldest first
  activeLocal,       \* streams of ours that are not closed
  activePeer,        \* streams of the peer that are not closed
  nextLocalStream,   \* next identifier this endpoint allocates
  lastPeerStream,    \* largest identifier the peer has opened
  closed             \* Session.Close has been called

tableVars == <<state, local, closedStreams, activeLocal, activePeer,
               nextLocalStream, lastPeerStream, closed>>

StreamId == 1 .. MaxStreamId

LiveState == {"reservedLocal", "reservedRemote", "open",
              "halfClosedLocal", "halfClosedRemote"}

StreamState == LiveState \cup {"idle", "closed"}

Retained == {id \in StreamId : state[id] # "idle"}

Live == {id \in StreamId : state[id] \in LiveState}

LocalLive == {id \in Live : local[id]}

PeerLive == {id \in Live : ~local[id]}

\* The orders in which the streams of S may be closed.
Orders(S) == Bijection(1 .. Cardinality(S), S)

\* Clients allocate odd identifiers and servers even ones.
Own(id) == (id % 2 = 1) <=> (Role = "client")

CanSend(st) == st \in {"open", "halfClosedRemote", "reservedLocal"}

CanReceive(st) == st \in {"open", "halfClosedLocal", "reservedRemote"}

-----------------------------------------------------------------------------
\* NewSession: an empty table.
TableInit ==
  /\ state = [id \in StreamId |-> "idle"]
  /\ local = [id \in StreamId |-> FALSE]
  /\ closedStreams = <<>>
  /\ activeLocal = 0
  /\ activePeer = 0
  /\ nextLocalStream = IF Role = "client" THEN 1 ELSE 2
  /\ lastPeerStream = 0
  /\ closed = FALSE

\* The checks OpenStream and PushPromise make before they take an identifier.
MayAllocate ==
  /\ nextLocalStream \in StreamId
  /\ Cardinality(Retained) < MaxStreams

\* OpenStream or PushPromise succeeds with a stream in state st.
AllocateLocal(st) ==
  /\ ~closed
  /\ MayAllocate
  /\ state' = [state EXCEPT ![nextLocalStream] = st]
  /\ local' = [local EXCEPT ![nextLocalStream] = TRUE]
  /\ activeLocal' = activeLocal + 1
  /\ nextLocalStream' = nextLocalStream + 2
  /\ UNCHANGED <<closedStreams, activePeer, lastPeerStream, closed>>

\* OpenStream or PushPromise takes an identifier, then fails and gives up the
\* stream: the identifier is spent all the same.
SpendLocal ==
  /\ MayAllocate
  /\ nextLocalStream' = nextLocalStream + 2
  /\ UNCHANGED <<state, local, closedStreams, activeLocal, activePeer,
                 lastPeerStream, closed>>

\* The peer opens (HEADERS) or promises (PUSH_PROMISE) stream id.
AllocatePeer(id, st) ==
  /\ ~closed
  /\ id > lastPeerStream
  /\ ~Own(id)
  /\ state[id] = "idle"
  /\ Cardinality(Retained) < MaxStreams
  /\ state' = [state EXCEPT ![id] = st]
  /\ local' = [local EXCEPT ![id] = FALSE]
  /\ activePeer' = activePeer + 1
  /\ lastPeerStream' = id
  /\ UNCHANGED <<closedStreams, activeLocal, nextLocalStream, closed>>

\* The state st that follows `from` when a reservation is used or one side
\* ends the stream while the other is still open.
Follows(from, st) ==
  \/ from = "open" /\ st \in {"halfClosedLocal", "halfClosedRemote"}
  \/ from = "reservedLocal" /\ st = "halfClosedRemote"
  \/ from = "reservedRemote" /\ st = "halfClosedLocal"

Move(id, st) ==
  /\ ~closed
  /\ Follows(state[id], st)
  /\ state' = [state EXCEPT ![id] = st]
  /\ UNCHANGED <<local, closedStreams, activeLocal, activePeer,
                 nextLocalStream, lastPeerStream, closed>>

\* closeStream applied to the live streams of q, in that order: each is
\* appended to the FIFO, and whatever then exceeds MaxClosedStreams leaves it
\* from the front and is deleted from the map.
ClosedQueue(q) == closedStreams \o q

Overflow(q) ==
  IF Len(ClosedQueue(q)) > MaxClosedStreams
  THEN Len(ClosedQueue(q)) - MaxClosedStreams
  ELSE 0

\* Mutant: streams leave the FIFO but not the map.
EvictedNone(q) == {}

Evicted(q) == {ClosedQueue(q)[i] : i \in 1 .. Overflow(q)}

CloseStreams(q) ==
  LET ended == Range(q)
      ours == Cardinality({id \in ended : local[id]})
      theirs == Cardinality({id \in ended : ~local[id]})
  IN /\ ~closed
     /\ closedStreams' =
          SubSeq(ClosedQueue(q), Overflow(q) + 1, Len(ClosedQueue(q)))
     /\ state' = [id \in StreamId |->
                    IF id \in Evicted(q) THEN "idle"
                    ELSE IF id \in ended THEN "closed" ELSE state[id]]
     /\ local' = [id \in StreamId |-> local[id] /\ id \notin Evicted(q)]
     /\ activeLocal' = IF ours > activeLocal THEN 0 ELSE activeLocal - ours
     /\ activePeer' = IF theirs > activePeer THEN 0 ELSE activePeer - theirs
     /\ UNCHANGED <<nextLocalStream, lastPeerStream, closed>>

\* Mutant: the identifiers start again as well.
ClearStreamsForgets ==
  /\ closed' = TRUE
  /\ state' = [id \in StreamId |-> "idle"]
  /\ local' = [id \in StreamId |-> FALSE]
  /\ lastPeerStream' = 0
  /\ UNCHANGED <<closedStreams, activeLocal, activePeer, nextLocalStream>>

\* Session.Close clears the map; the FIFO and the counters are left as they are.
ClearStreams ==
  /\ closed' = TRUE
  /\ state' = [id \in StreamId |-> "idle"]
  /\ local' = [id \in StreamId |-> FALSE]
  /\ UNCHANGED <<closedStreams, activeLocal, activePeer, nextLocalStream,
                 lastPeerStream>>

TableNext ==
  \/ \E st \in {"open", "halfClosedLocal", "reservedLocal"} : AllocateLocal(st)
  \/ SpendLocal
  \/ \E id \in StreamId, st \in {"open", "reservedRemote"} : AllocatePeer(id, st)
  \/ \E id \in StreamId, st \in LiveState : Move(id, st)
  \/ \E ended \in SUBSET Live : \E q \in Orders(ended) : CloseStreams(q)
  \/ ~closed /\ ClearStreams

TableSpec == TableInit /\ [][TableNext]_tableVars

-----------------------------------------------------------------------------
TableTypeOK ==
  /\ state \in [StreamId -> StreamState]
  /\ local \in [StreamId -> BOOLEAN]
  /\ closedStreams \in Seq(StreamId)
  /\ activeLocal \in Nat
  /\ activePeer \in Nat
  /\ nextLocalStream \in Nat \ {0}
  /\ lastPeerStream \in 0 .. MaxStreamId
  /\ closed \in BOOLEAN

\* activeLocal and activePeer, which closeStream decrements with saturation,
\* count exactly the streams that are not closed: the concurrency limits of
\* OpenStream, PushPromise, beginInboundHeaders and onPushPromise test them.
ActiveExact ==
  ~closed => /\ activeLocal = Cardinality(LocalLive)
             /\ activePeer = Cardinality(PeerLive)

\* "SessionLimits bounds connection-wide retained state": at most MaxStreams
\* streams are retained, whatever mix of live and closed ones.
TableBounded == Cardinality(Retained) <= MaxStreams

\* The FIFO of closeStream and the map agree: it lists each closed stream that
\* is still in the map once and nothing else, and never exceeds its limit.
ClosedExact ==
  ~closed => /\ Len(closedStreams) <= MaxClosedStreams
             /\ IsInjective(closedStreams)
             /\ Range(closedStreams) = {id \in StreamId : state[id] = "closed"}

\* Each side's identifiers have its own parity and stay below the counter that
\* onRSTStream, onWindowUpdate and peerMayOpen take for "already used".
IdsInOrder ==
  /\ Own(nextLocalStream)
  /\ \A id \in Retained :
       /\ local[id] <=> Own(id)
       /\ local[id] => id < nextLocalStream
       /\ ~local[id] => id <= lastPeerStream

\* The strengthening that makes the four invariants inductive together.
TableInv == TableTypeOK /\ ActiveExact /\ TableBounded /\ ClosedExact /\ IdsInOrder

Spent(id) == IF Own(id) THEN id < nextLocalStream ELSE id <= lastPeerStream

\* An identifier that has been used is never opened a second time, also after
\* closeStream has deleted it from the map or Close has cleared the map.
StaysSpent(id) ==
  Spent(id) => /\ Spent(id)'
               /\ state[id] = "idle" => state'[id] = "idle"
               /\ state[id] = "closed" => state'[id] \in {"closed", "idle"}

NeverReused == [][\A id \in StreamId : StaysSpent(id)]_tableVars

\* A connection without live streams has room for the next one: the closed
\* streams kept by closeStream never fill the table on their own.
QuietHasRoom == ~closed /\ Live = {} => Cardinality(Retained) < MaxStreams
=============================================================================
