---------------------------- MODULE SessionProofs ----------------------------
(***************************************************************************)
(* First the stream table: its steps keep its invariant. Then what the     *)
(* steps of a Session do to the table and to the streams: a step is one of *)
(* the stream table or leaves the table alone, and keeps what the parser   *)
(* knows of the stream of the frame or block in progress.                  *)
(*                                                                         *)
(* Most of the steps of a session at most close streams (ShrinkStep). The  *)
(* fifteen that do more are those of GrowStep, and an invariant of the     *)
(* streams needs a step for each of them only (StepCases).                 *)
(*                                                                         *)
(* The lemmas are about single steps where they need the stream table;     *)
(* SessionTheorems draws the conclusions about behaviours.                 *)
(***************************************************************************)
EXTENDS Session, TLAPS

-----------------------------------------------------------------------------
(* The stream table *)

\* What the steps take for granted of the sizes of sets: SessionTheorems derives it
\* from the theorems about finite sets (SizesKnown).
SizesCounted ==
  /\ Cardinality({}) = 0
  /\ \A x : Cardinality({x}) = 1
  /\ \A S \in SUBSET StreamId :
       /\ Cardinality(S) \in Nat
       /\ \A x \in StreamId \ S : Cardinality(S \cup {x}) = Cardinality(S) + 1
       /\ \A R \in SUBSET S :
            Cardinality(R) <= Cardinality(S) /\ Cardinality(S \ R) = Cardinality(S) - Cardinality(R)

\* Every set of stream identifiers has a natural cardinality.
LEMMA IdSetsSized ==
  ASSUME SizesCounted, NEW S \in SUBSET StreamId
  PROVE  Cardinality(S) \in Nat
  BY Zenon DEF SizesCounted

\* One more identifier adds one to the cardinality.
LEMMA IdSetsAdd ==
  ASSUME SizesCounted, NEW S \in SUBSET StreamId, NEW id \in StreamId, id \notin S
  PROVE  Cardinality(S \cup {id}) = Cardinality(S) + 1
<1>1. id \in StreamId \ S
  BY Zenon
<1> QED
  BY <1>1, Zenon DEF SizesCounted

\* Removing a subset subtracts its cardinality.
LEMMA IdSetsRemove ==
  ASSUME SizesCounted, NEW S \in SUBSET StreamId, NEW T \in SUBSET S
  PROVE  /\ Cardinality(S \ T) = Cardinality(S) - Cardinality(T)
         /\ Cardinality(T) <= Cardinality(S)
         /\ Cardinality(S) \in Nat /\ Cardinality(T) \in Nat
<1>1. T \in SUBSET StreamId
  BY Zenon
<1> QED
  BY <1>1, Zenon DEF SizesCounted

\* The elements of a concatenation are those of its two parts, in place.
LEMMA ConcatElements ==
  ASSUME NEW S, NEW c \in Seq(S), NEW q \in Seq(S)
  PROVE  /\ \A i \in 1 .. Len(c) : i \in 1 .. Len(c \o q) /\ (c \o q)[i] = c[i]
         /\ \A j \in 1 .. Len(q) :
              Len(c) + j \in 1 .. Len(c \o q) /\ (c \o q)[Len(c) + j] = q[j]
         /\ \A i \in 1 .. Len(c \o q) :
              i \in 1 .. Len(c) \/ \E j \in 1 .. Len(q) : i = Len(c) + j
<1> DEFINE a == Len(c)
           b == Len(q)
<1>1. /\ a \in Nat /\ b \in Nat /\ Len(c \o q) = a + b
      /\ \A i \in 1 .. a + b : (c \o q)[i] = IF i <= a THEN c[i] ELSE q[i - a]
  OBVIOUS
<1> HIDE DEF a, b
<1>2. \A i \in 1 .. a : i \in 1 .. a + b /\ (c \o q)[i] = c[i]
  BY <1>1
<1>3. ASSUME NEW j \in 1 .. b PROVE a + j \in 1 .. a + b /\ (c \o q)[a + j] = q[j]
  <2>1. a + j \in 1 .. a + b /\ ~(a + j <= a) /\ (a + j) - a = j
    BY <1>1
  <2> QED
    BY <1>1, <2>1, Zenon
<1>4. ASSUME NEW i \in 1 .. a + b, i \notin 1 .. a PROVE \E j \in 1 .. b : i = a + j
  <2>1. i - a \in 1 .. b /\ i = a + (i - a)
    BY <1>1, <1>4
  <2> QED
    BY <2>1, Zenon
<1> QED
  BY <1>1, <1>2, <1>3, <1>4, Zenon DEF a, b

\* Two duplicate-free sequences without a common element stay duplicate-free
\* when one is appended to the other.
LEMMA ConcatInjective ==
  ASSUME NEW S, NEW c \in Seq(S), NEW q \in Seq(S),
         IsInjective(c), IsInjective(q), Range(c) \cap Range(q) = {}
  PROVE  /\ IsInjective(c \o q)
         /\ Range(c \o q) = Range(c) \cup Range(q)
<1> DEFINE all == c \o q
<1>1. /\ DOMAIN c = 1 .. Len(c) /\ DOMAIN q = 1 .. Len(q) /\ DOMAIN all = 1 .. Len(all)
      /\ Len(c) \in Nat
  OBVIOUS
<1>2. /\ \A i \in 1 .. Len(c) : i \in 1 .. Len(all) /\ all[i] = c[i]
      /\ \A j \in 1 .. Len(q) : Len(c) + j \in 1 .. Len(all) /\ all[Len(c) + j] = q[j]
      /\ \A i \in 1 .. Len(all) : i \in 1 .. Len(c) \/ \E j \in 1 .. Len(q) : i = Len(c) + j
  BY ConcatElements
<1> HIDE DEF all
<1>3. ASSUME NEW i \in 1 .. Len(all), NEW j \in 1 .. Len(all), all[i] = all[j]
      PROVE  i = j
  <2>1. CASE i \in 1 .. Len(c) /\ j \in 1 .. Len(c)
    BY <2>1, <1>1, <1>2, <1>3, Zenon DEF IsInjective
  <2>2. CASE i \notin 1 .. Len(c) /\ j \notin 1 .. Len(c)
    <3>1. PICK x \in 1 .. Len(q), y \in 1 .. Len(q) : i = Len(c) + x /\ j = Len(c) + y
      BY <2>2, <1>2, Zenon
    <3>2. q[x] = q[y]
      BY <3>1, <1>2, <1>3, Zenon
    <3> QED
      BY <3>1, <3>2, <1>1, Zenon DEF IsInjective
  <2>3. CASE i \in 1 .. Len(c) /\ j \notin 1 .. Len(c)
    <3>1. all[i] \in Range(c) /\ all[j] \in Range(q)
      BY <2>3, <1>1, <1>2, Zenon DEF Range
    <3> QED
      BY <3>1, <1>3, Zenon
  <2>4. CASE i \notin 1 .. Len(c) /\ j \in 1 .. Len(c)
    <3>1. all[j] \in Range(c) /\ all[i] \in Range(q)
      BY <2>4, <1>1, <1>2, Zenon DEF Range
    <3> QED
      BY <3>1, <1>3, Zenon
  <2> QED
    BY <2>1, <2>2, <2>3, <2>4, Zenon
<1>4. IsInjective(all)
  BY <1>1, <1>3, Zenon DEF IsInjective
<1>5. Range(all) = Range(c) \cup Range(q)
  <2>1. ASSUME NEW i \in 1 .. Len(all) PROVE all[i] \in Range(c) \cup Range(q)
    BY <1>1, <1>2, Zenon DEF Range
  <2>2. ASSUME NEW i \in 1 .. Len(c) PROVE c[i] \in Range(all)
    BY <1>1, <1>2, Zenon DEF Range
  <2>3. ASSUME NEW i \in 1 .. Len(q) PROVE q[i] \in Range(all)
    BY <1>1, <1>2, Zenon DEF Range
  <2>4. Range(all) \subseteq Range(c) \cup Range(q)
    BY <1>1, <2>1, Zenon DEF Range
  <2>5. Range(c) \subseteq Range(all)
    BY <1>1, <2>2, Zenon DEF Range
  <2>6. Range(q) \subseteq Range(all)
    BY <1>1, <2>3, Zenon DEF Range
  <2> QED
    BY <2>4, <2>5, <2>6, Zenon
<1> QED
  BY <1>4, <1>5, Zenon DEF all

\* Dropping the first k elements of a duplicate-free sequence removes exactly
\* those elements.
LEMMA SuffixElements ==
  ASSUME NEW S, NEW all \in Seq(S), NEW k \in 0 .. Len(all), IsInjective(all)
  PROVE  LET suffix == SubSeq(all, k + 1, Len(all))
             prefix == {all[i] : i \in 1 .. k}
         IN /\ suffix \in Seq(S)
            /\ Len(suffix) = Len(all) - k
            /\ IsInjective(suffix)
            /\ Range(suffix) = Range(all) \ prefix
            /\ prefix \subseteq Range(all)
<1> DEFINE suffix == SubSeq(all, k + 1, Len(all))
           prefix == {all[i] : i \in 1 .. k}
           m == Len(all)
<1>1. m \in Nat /\ DOMAIN all = 1 .. m /\ k \in 0 .. m
  OBVIOUS
<1>2. /\ suffix \in Seq(S) /\ Len(suffix) = m - k
      /\ \A i \in 1 .. m - k : suffix[i] = all[k + i]
  <2>1. k + 1 \in Int /\ m \in Int /\ m - (k + 1) + 1 = m - k
    BY <1>1
  <2>2. \A i \in k + 1 .. m : all[i] \in S
    <3> SUFFICES ASSUME NEW i \in k + 1 .. m PROVE all[i] \in S
      BY Zenon
    <3>1. i \in 1 .. m
      BY <1>1
    <3> QED
      BY <3>1
  <2>3. /\ suffix \in Seq(S)
        /\ Len(suffix) = IF k + 1 <= m THEN m - (k + 1) + 1 ELSE 0
        /\ \A i \in 1 .. m - (k + 1) + 1 : suffix[i] = all[(k + 1) + i - 1]
    <3> HIDE DEF m
    <3> QED
      BY <2>1, <2>2 DEF m
  <2>4. \A i \in 1 .. m - k : (k + 1) + i - 1 = k + i
    BY <1>1
  <2> HIDE DEF suffix, m
  <2> QED
    BY <1>1, <2>1, <2>3, <2>4
<1>3. DOMAIN suffix = 1 .. m - k
  BY <1>2
<1> HIDE DEF suffix, m
<1>4. \A i \in 1 .. m - k : k + i \in 1 .. m /\ k + i \notin 1 .. k
  BY <1>1
<1>5. \A i \in 1 .. m : i \notin 1 .. k => i - k \in 1 .. m - k /\ k + (i - k) = i
  BY <1>1
<1>6. IsInjective(suffix)
  <2> SUFFICES ASSUME NEW i \in 1 .. m - k, NEW j \in 1 .. m - k, suffix[i] = suffix[j]
               PROVE  i = j
    BY <1>3, Zenon DEF IsInjective
  <2>1. k + i = k + j
    BY <1>1, <1>2, <1>4, Zenon DEF IsInjective
  <2> QED
    BY <2>1, <1>1
<1>7. Range(suffix) \subseteq Range(all) \ prefix
  <2> SUFFICES ASSUME NEW i \in 1 .. m - k PROVE suffix[i] \in Range(all) \ prefix
    BY <1>3, Zenon DEF Range
  <2>1. suffix[i] = all[k + i] /\ k + i \in 1 .. m /\ k + i \notin 1 .. k
    BY <1>2, <1>4, Zenon
  <2>2. all[k + i] \in Range(all)
    BY <2>1, <1>1, Zenon DEF Range
  <2>3. ASSUME NEW j \in 1 .. k PROVE all[j] # all[k + i]
    <3>1. j \in 1 .. m
      BY <1>1
    <3> QED
      BY <3>1, <2>1, <1>1, Zenon DEF IsInjective
  <2> QED
    BY <2>1, <2>2, <2>3, Zenon
<1>8. Range(all) \ prefix \subseteq Range(suffix)
  <2> SUFFICES ASSUME NEW i \in 1 .. m, all[i] \notin prefix
               PROVE  all[i] \in Range(suffix)
    BY <1>1, Zenon DEF Range
  <2>1. i \notin 1 .. k
    BY Zenon
  <2>2. i - k \in 1 .. m - k /\ suffix[i - k] = all[i]
    BY <2>1, <1>2, <1>5, Zenon
  <2> QED
    BY <2>2, <1>3, Zenon DEF Range
<1>9. prefix \subseteq Range(all)
  <2>1. \A i \in 1 .. k : i \in 1 .. m
    BY <1>1
  <2> QED
    BY <2>1, <1>1, Zenon DEF Range
<1> QED
  BY <1>2, <1>6, <1>7, <1>8, <1>9, Zenon DEF suffix, m

\* Initially the table satisfies its invariant.
LEMMA TableInitInv == ASSUME SizesCounted PROVE TableInit => TableInv
<1> SUFFICES ASSUME TableInit PROVE TableInv
  BY Zenon
<1>1. Retained = {} /\ LocalLive = {} /\ PeerLive = {}
  BY Zenon DEF TableInit, Retained, LocalLive, PeerLive, Live, LiveState
<1>2. Cardinality({}) = 0
  BY Zenon DEF SizesCounted
<1>3. TableTypeOK
  <2>1. <<>> \in Seq(StreamId)
    OBVIOUS
  <2>2. state \in [StreamId -> StreamState] /\ local \in [StreamId -> BOOLEAN]
    BY Zenon DEF TableInit, StreamState
  <2>3. nextLocalStream \in Nat \ {0} /\ lastPeerStream \in 0 .. MaxStreamId
    BY TableAssumption DEF TableInit
  <2> QED
    BY <2>1, <2>2, <2>3, Zenon DEF TableInit, TableTypeOK
<1>4. ActiveExact /\ TableBounded
  BY <1>1, <1>2, TableAssumption DEF TableInit, ActiveExact, TableBounded
<1>5. ClosedExact
  BY TableAssumption DEF TableInit, ClosedExact, IsInjective, Range
<1>6. IdsInOrder
  BY <1>1, TableAssumption DEF TableInit, IdsInOrder, Own
<1> QED
  BY <1>3, <1>4, <1>5, <1>6, Zenon DEF TableInv

\* OpenStream and PushPromise never find the identifier they take in use.
LEMMA NextLocalIdle ==
  ASSUME TableInv, nextLocalStream \in StreamId
  PROVE  state[nextLocalStream] = "idle" /\ Own(nextLocalStream + 2)
<1>1. state[nextLocalStream] = "idle"
  BY DEF TableInv, IdsInOrder, Retained, TableTypeOK, StreamId
<1>2. Own(nextLocalStream + 2)
  BY TableAssumption DEF TableInv, IdsInOrder, Own, TableTypeOK
<1> QED
  BY <1>1, <1>2, Zenon

\* A successful OpenStream or PushPromise preserves the invariant.
LEMMA AllocateLocalInv ==
  ASSUME SizesCounted, TableInv, NEW st \in LiveState, AllocateLocal(st)
  PROVE  TableInv'
<1> DEFINE n == nextLocalStream
<1>1. n \in StreamId /\ n \in Nat /\ state[n] = "idle" /\ Own(n + 2) /\ Own(n)
  BY NextLocalIdle DEF AllocateLocal, MayAllocate, TableInv, IdsInOrder, StreamId
<1>2. TableTypeOK'
  BY <1>1 DEF AllocateLocal, TableInv, TableTypeOK, StreamState
<1>3. /\ Retained' = Retained \cup {n} /\ n \notin Retained
      /\ LocalLive' = LocalLive \cup {n} /\ n \notin LocalLive
      /\ PeerLive' = PeerLive
  BY <1>1, Zenon DEF AllocateLocal, TableInv, TableTypeOK, Retained, LocalLive, PeerLive,
              Live, LiveState
<1>4. ActiveExact'
  <2>1. Cardinality(LocalLive \cup {n}) = Cardinality(LocalLive) + 1
    BY <1>1, <1>3, IdSetsAdd, Zenon DEF LocalLive, Live
  <2> QED
    BY <1>3, <2>1, Zenon DEF AllocateLocal, TableInv, ActiveExact
<1>5. TableBounded'
  <2>1. Cardinality(Retained \cup {n}) = Cardinality(Retained) + 1
    BY <1>1, <1>3, IdSetsAdd, Zenon DEF Retained
  <2>2. Cardinality(Retained) \in Nat
    BY IdSetsSized, Zenon DEF Retained
  <2> QED
    BY <1>3, <2>1, <2>2, TableAssumption
    DEF AllocateLocal, MayAllocate, TableBounded
<1>6. ClosedExact'
  BY <1>1, Zenon DEF AllocateLocal, TableInv, TableTypeOK, ClosedExact, LiveState
<1>7. IdsInOrder'
  <2>1. Own(nextLocalStream)'
    BY <1>1, Zenon DEF AllocateLocal, Own
  <2>2. ASSUME NEW id \in Retained'
        PROVE  /\ local'[id] <=> Own(id)
               /\ local'[id] => id < nextLocalStream'
               /\ ~local'[id] => id <= lastPeerStream'
    BY <1>1, <1>3, <2>2
    DEF AllocateLocal, TableInv, TableTypeOK, IdsInOrder, Retained, StreamId
  <2> QED
    BY <2>1, <2>2, Zenon DEF IdsInOrder, Own
<1> QED
  BY <1>2, <1>4, <1>5, <1>6, <1>7, Zenon DEF TableInv

\* An identifier that is taken and given up leaves the table as it is.
LEMMA SpendLocalInv ==
  ASSUME TableInv, SpendLocal
  PROVE  TableInv'
<1>1. Own(nextLocalStream + 2)
  BY NextLocalIdle, Zenon DEF SpendLocal, MayAllocate
<1>2. TableTypeOK'
  BY DEF SpendLocal, TableInv, TableTypeOK
<1>3. ActiveExact' /\ TableBounded' /\ ClosedExact'
  BY Zenon DEF SpendLocal, TableInv, ActiveExact, TableBounded, ClosedExact,
         Retained, LocalLive, PeerLive, Live
<1>4. IdsInOrder'
  BY <1>1 DEF SpendLocal, TableInv, TableTypeOK, IdsInOrder, Own, Retained, StreamId
<1> QED
  BY <1>2, <1>3, <1>4, Zenon DEF TableInv

\* A stream the peer opens or promises preserves the invariant.
LEMMA AllocatePeerInv ==
  ASSUME SizesCounted, TableInv, NEW id \in StreamId, NEW st \in LiveState, AllocatePeer(id, st)
  PROVE  TableInv'
<1>1. id \in Nat /\ state[id] = "idle" /\ ~Own(id) /\ id > lastPeerStream
  BY DEF AllocatePeer, StreamId
<1>2. TableTypeOK'
  BY <1>1 DEF AllocatePeer, TableInv, TableTypeOK, StreamState, StreamId
<1>3. /\ Retained' = Retained \cup {id} /\ id \notin Retained
      /\ PeerLive' = PeerLive \cup {id} /\ id \notin PeerLive
      /\ LocalLive' = LocalLive
  BY <1>1, Zenon DEF AllocatePeer, TableInv, TableTypeOK, Retained, LocalLive, PeerLive,
              Live, LiveState
<1>4. ActiveExact'
  <2>1. Cardinality(PeerLive \cup {id}) = Cardinality(PeerLive) + 1
    BY <1>3, IdSetsAdd, Zenon DEF PeerLive, Live
  <2> QED
    BY <1>3, <2>1, Zenon DEF AllocatePeer, TableInv, ActiveExact
<1>5. TableBounded'
  <2>1. Cardinality(Retained \cup {id}) = Cardinality(Retained) + 1
    BY <1>3, IdSetsAdd, Zenon DEF Retained
  <2>2. Cardinality(Retained) \in Nat
    BY IdSetsSized, Zenon DEF Retained
  <2> QED
    BY <1>3, <2>1, <2>2, TableAssumption DEF AllocatePeer, TableBounded
<1>6. ClosedExact'
  BY <1>1, Zenon DEF AllocatePeer, TableInv, TableTypeOK, ClosedExact, LiveState
<1>7. IdsInOrder'
  <2>1. Own(nextLocalStream)'
    BY Zenon DEF AllocatePeer, TableInv, IdsInOrder, Own
  <2>2. ASSUME NEW r \in Retained'
        PROVE  /\ local'[r] <=> Own(r)
               /\ local'[r] => r < nextLocalStream'
               /\ ~local'[r] => r <= lastPeerStream'
    BY <1>1, <1>3, <2>2
    DEF AllocatePeer, TableInv, TableTypeOK, IdsInOrder, Retained, StreamId
  <2> QED
    BY <2>1, <2>2, Zenon DEF IdsInOrder, Own
<1> QED
  BY <1>2, <1>4, <1>5, <1>6, <1>7, Zenon DEF TableInv

\* Half-closing a stream and using a reservation leave it live.
LEMMA MoveInv ==
  ASSUME TableInv, NEW id \in StreamId, NEW st \in LiveState, Move(id, st)
  PROVE  TableInv'
<1>1. state[id] \in LiveState
  BY Zenon DEF Move, Follows, LiveState
<1>2. TableTypeOK'
  BY Zenon DEF Move, TableInv, TableTypeOK, StreamState
<1>3. Retained' = Retained /\ LocalLive' = LocalLive /\ PeerLive' = PeerLive
  BY <1>1, Zenon DEF Move, TableInv, TableTypeOK, Retained, LocalLive, PeerLive, Live, LiveState
<1>4. ActiveExact' /\ TableBounded'
  BY <1>3, Zenon DEF Move, TableInv, ActiveExact, TableBounded
<1>5. ClosedExact'
  BY <1>1, Zenon DEF Move, TableInv, TableTypeOK, ClosedExact, LiveState
<1>6. IdsInOrder'
  BY <1>3, Zenon DEF Move, TableInv, TableTypeOK, IdsInOrder, Own
<1> QED
  BY <1>2, <1>4, <1>5, <1>6, Zenon DEF TableInv

\* The FIFO after closeStream: a suffix of the old FIFO followed by q.
LEMMA ClosedQueueFacts ==
  ASSUME TableInv, NEW q \in Seq(StreamId), Range(q) \subseteq Live,
         IsInjective(q), CloseStreams(q)
  PROVE  /\ closedStreams' \in Seq(StreamId)
         /\ Len(closedStreams') <= MaxClosedStreams
         /\ IsInjective(closedStreams')
         /\ Range(closedStreams') = (Range(closedStreams) \cup Range(q)) \ Evicted(q)
         /\ Evicted(q) \subseteq Range(closedStreams) \cup Range(q)
<1> DEFINE all == ClosedQueue(q)
<1>1. /\ closedStreams \in Seq(StreamId)
      /\ Len(closedStreams) <= MaxClosedStreams
      /\ IsInjective(closedStreams)
      /\ Range(closedStreams) \cap Range(q) = {}
  <2>1. Range(closedStreams) = {id \in StreamId : state[id] = "closed"}
    BY Zenon DEF TableInv, ClosedExact, CloseStreams
  <2> QED
    BY <2>1, Zenon DEF TableInv, TableTypeOK, ClosedExact, CloseStreams, Live, LiveState
<1>2. /\ all \in Seq(StreamId)
      /\ IsInjective(all)
      /\ Range(all) = Range(closedStreams) \cup Range(q)
  BY <1>1, ConcatInjective DEF ClosedQueue
<1>3. Len(all) \in Nat
  BY <1>2
<1>4. Overflow(q) \in 0 .. Len(all) /\ Len(all) - Overflow(q) <= MaxClosedStreams
  BY <1>3, TableAssumption DEF Overflow
<1>5. Evicted(q) = {all[i] : i \in 1 .. Overflow(q)}
  BY Zenon DEF Evicted
<1>6. closedStreams' = SubSeq(all, Overflow(q) + 1, Len(all))
  BY Zenon DEF CloseStreams
<1> HIDE DEF all
<1>7. /\ closedStreams' \in Seq(StreamId)
      /\ Len(closedStreams') = Len(all) - Overflow(q)
      /\ IsInjective(closedStreams')
      /\ Range(closedStreams') = Range(all) \ Evicted(q)
      /\ Evicted(q) \subseteq Range(all)
  BY <1>2, <1>4, <1>5, <1>6, SuffixElements, Zenon
<1> QED
  BY <1>2, <1>4, <1>7, Zenon

\* closeStream, for one stream or for all those a GOAWAY closes, preserves
\* the invariant.
LEMMA CloseStreamsInv ==
  ASSUME SizesCounted, TableInv, NEW q \in Seq(StreamId), Range(q) \subseteq Live,
         IsInjective(q), CloseStreams(q)
  PROVE  TableInv'
<1> DEFINE ended == Range(q)
           ours == {id \in ended : local[id]}
           theirs == {id \in ended : ~local[id]}
<1>1. /\ closedStreams' \in Seq(StreamId)
      /\ Len(closedStreams') <= MaxClosedStreams
      /\ IsInjective(closedStreams')
      /\ Range(closedStreams') = (Range(closedStreams) \cup ended) \ Evicted(q)
      /\ Evicted(q) \subseteq Range(closedStreams) \cup ended
  BY ClosedQueueFacts, Zenon
<1>2. /\ Range(closedStreams) = {id \in StreamId : state[id] = "closed"}
      /\ state \in [StreamId -> StreamState]
      /\ local \in [StreamId -> BOOLEAN]
  BY Zenon DEF TableInv, TableTypeOK, ClosedExact, CloseStreams
<1>3. /\ state' = [id \in StreamId |->
                    IF id \in Evicted(q) THEN "idle"
                    ELSE IF id \in ended THEN "closed" ELSE state[id]]
      /\ local' = [id \in StreamId |-> local[id] /\ id \notin Evicted(q)]
      /\ ended \subseteq Live
  BY Zenon DEF CloseStreams
<1> HIDE DEF ended
<1>4. /\ Live' = Live \ ended
      /\ Retained' \subseteq Retained
      /\ LocalLive' = LocalLive \ ours
      /\ PeerLive' = PeerLive \ theirs
      /\ {id \in StreamId : state[id] = "closed"}' = Range(closedStreams')
      /\ \A id \in Retained' : local'[id] <=> local[id]
  <2>1. ASSUME NEW id \in StreamId
        PROVE  /\ id \in Evicted(q) => state'[id] = "idle"
               /\ id \notin Evicted(q) /\ id \in ended => state'[id] = "closed"
               /\ id \notin Evicted(q) /\ id \notin ended => state'[id] = state[id]
               /\ id \notin Evicted(q) => (local'[id] <=> local[id])
    BY <1>2, <1>3, Zenon
  <2>2. ASSUME NEW id \in Evicted(q)
        PROVE  id \in StreamId /\ (state[id] = "closed" \/ id \in ended)
    BY <1>1, <1>2, <1>3, Zenon DEF Live
  <2>3. Live' = Live \ ended
    BY <2>1, <2>2, <1>3, Zenon DEF Live, LiveState
  <2>4. Retained' \subseteq Retained
    BY <2>1, <1>3, Zenon DEF Retained, Live, LiveState
  <2>5. \A id \in Retained' : local'[id] <=> local[id]
    BY <2>1, Zenon DEF Retained
  <2>6. \A id \in Live' : local'[id] <=> local[id]
    BY <2>5, Zenon DEF Live, Retained, LiveState
  <2>7. LocalLive' = LocalLive \ ours /\ PeerLive' = PeerLive \ theirs
    BY <2>3, <2>6, Zenon DEF LocalLive, PeerLive
  <2>8. {id \in StreamId : state[id] = "closed"}' = Range(closedStreams')
    BY <2>1, <2>2, <1>1, <1>2, <1>3, Zenon DEF Live
  <2> QED
    BY <2>3, <2>4, <2>5, <2>7, <2>8, Zenon
<1>5. /\ ours \subseteq LocalLive /\ theirs \subseteq PeerLive
      /\ LocalLive \in SUBSET StreamId /\ PeerLive \in SUBSET StreamId
  BY <1>3, Zenon DEF LocalLive, PeerLive, Live
<1> HIDE DEF ours, theirs
<1>6. /\ Cardinality(LocalLive \ ours) = Cardinality(LocalLive) - Cardinality(ours)
      /\ Cardinality(PeerLive \ theirs) = Cardinality(PeerLive) - Cardinality(theirs)
      /\ Cardinality(ours) \in Nat /\ Cardinality(theirs) \in Nat
      /\ Cardinality(LocalLive) \in Nat /\ Cardinality(PeerLive) \in Nat
      /\ Cardinality(ours) <= Cardinality(LocalLive)
      /\ Cardinality(theirs) <= Cardinality(PeerLive)
  BY <1>5, IdSetsRemove, Zenon
<1>7. /\ activeLocal' = IF Cardinality(ours) > activeLocal THEN 0
                         ELSE activeLocal - Cardinality(ours)
      /\ activePeer' = IF Cardinality(theirs) > activePeer THEN 0
                        ELSE activePeer - Cardinality(theirs)
      /\ ~closed /\ ~closed'
  BY Zenon DEF CloseStreams, ours, theirs, ended
<1>8. activeLocal = Cardinality(LocalLive) /\ activePeer = Cardinality(PeerLive)
  BY <1>7, Zenon DEF TableInv, ActiveExact
<1>9. /\ activeLocal' = Cardinality(LocalLive) - Cardinality(ours)
      /\ activePeer' = Cardinality(PeerLive) - Cardinality(theirs)
      /\ activeLocal' \in Nat /\ activePeer' \in Nat
  BY <1>6, <1>7, <1>8
<1>10. TableTypeOK'
  <2>1. activeLocal' \in Nat /\ activePeer' \in Nat
    BY <1>9, Zenon
  <2>2. state' \in [StreamId -> StreamState] /\ local' \in [StreamId -> BOOLEAN]
    BY <1>2, <1>3, Zenon DEF StreamState
  <2>3. UNCHANGED <<nextLocalStream, lastPeerStream, closed>>
    BY Zenon DEF CloseStreams
  <2> QED
    BY <1>1, <2>1, <2>2, <2>3, Zenon DEF TableInv, TableTypeOK
<1>11. ActiveExact'
  BY <1>4, <1>6, <1>9, Zenon DEF ActiveExact
<1>12. TableBounded'
  <2>1. Retained \in SUBSET StreamId /\ Retained' \in SUBSET StreamId
    BY Zenon DEF Retained
  <2>2. Cardinality(Retained') <= Cardinality(Retained)
    BY <1>4, <2>1, IdSetsRemove, Zenon
  <2>3. Cardinality(Retained) \in Nat /\ Cardinality(Retained') \in Nat
    BY <2>1, IdSetsSized, Zenon
  <2> QED
    BY <2>2, <2>3, TableAssumption DEF TableInv, TableBounded
<1>13. ClosedExact'
  BY <1>1, <1>4, Zenon DEF ClosedExact
<1>14. IdsInOrder'
  <2>1. UNCHANGED <<nextLocalStream, lastPeerStream>>
    BY Zenon DEF CloseStreams
  <2> QED
    BY <1>4, <2>1, Zenon DEF TableInv, IdsInOrder, Own
<1> QED
  BY <1>10, <1>11, <1>12, <1>13, <1>14, Zenon DEF TableInv

\* Close empties the map.
LEMMA ClearStreamsInv ==
  ASSUME SizesCounted, TableInv, ClearStreams
  PROVE  TableInv'
<1>1. Retained' = {}
  BY Zenon DEF ClearStreams, Retained
<1>2. Cardinality({}) = 0
  BY Zenon DEF SizesCounted
<1>3. TableTypeOK'
  BY Zenon DEF ClearStreams, TableInv, TableTypeOK, StreamState
<1>4. ActiveExact' /\ ClosedExact'
  BY Zenon DEF ClearStreams, ActiveExact, ClosedExact
<1>5. TableBounded'
  BY <1>1, <1>2, TableAssumption DEF TableBounded
<1>6. IdsInOrder'
  BY <1>1, Zenon DEF ClearStreams, TableInv, IdsInOrder, Own
<1> QED
  BY <1>3, <1>4, <1>5, <1>6, Zenon DEF TableInv

\* Every step of the table preserves the invariant.
LEMMA TableStepInv == ASSUME SizesCounted, TableInv, [TableNext]_tableVars PROVE TableInv'
<1>1. ASSUME NEW st \in {"open", "halfClosedLocal", "reservedLocal"}, AllocateLocal(st)
      PROVE  TableInv'
  BY <1>1, AllocateLocalInv, Zenon DEF LiveState
<1>2. CASE SpendLocal
  BY <1>2, SpendLocalInv, Zenon
<1>3. ASSUME NEW id \in StreamId, NEW st \in {"open", "reservedRemote"},
             AllocatePeer(id, st)
      PROVE  TableInv'
  BY <1>3, AllocatePeerInv, Zenon DEF LiveState
<1>4. ASSUME NEW id \in StreamId, NEW st \in LiveState, Move(id, st)
      PROVE  TableInv'
  BY <1>4, MoveInv, Zenon
<1>5. ASSUME NEW ended \in SUBSET Live, NEW q \in Orders(ended), CloseStreams(q)
      PROVE  TableInv'
  <2>1. Cardinality(ended) \in Nat
    BY IdSetsSized, Zenon DEF Live
  <2>2. q \in [1 .. Cardinality(ended) -> ended] /\ IsInjective(q)
    BY Zenon DEF Orders, Bijection, Injection, Surjection, IsInjective
  <2>3. q \in Seq(StreamId) /\ Range(q) \subseteq Live
    BY <2>1, <2>2 DEF Range, Live
  <2> QED
    BY <1>5, <2>2, <2>3, CloseStreamsInv, Zenon
<1>6. CASE ClearStreams
  BY <1>6, ClearStreamsInv, Zenon
<1>7. CASE UNCHANGED tableVars
  BY <1>7, Zenon DEF tableVars, TableInv, TableTypeOK, ActiveExact, TableBounded, ClosedExact,
              IdsInOrder, Own, Retained, Live, LocalLive, PeerLive
<1> QED
  BY <1>1, <1>2, <1>3, <1>4, <1>5, <1>6, <1>7, Zenon DEF TableNext

\* No step opens an identifier a second time.
LEMMA SpentStays ==
  ASSUME TableInv, [TableNext]_tableVars, NEW id \in StreamId
  PROVE  StaysSpent(id)
<1> SUFFICES ASSUME Spent(id) PROVE StaysSpent(id)
  BY Zenon DEF StaysSpent
<1>1. /\ state \in [StreamId -> StreamState]
      /\ id \in Nat /\ nextLocalStream \in Nat /\ lastPeerStream \in Nat
  BY DEF TableInv, TableTypeOK, StreamId
<1>2. ASSUME NEW st \in {"open", "halfClosedLocal", "reservedLocal"}, AllocateLocal(st)
      PROVE  StaysSpent(id)
  <2>1. id # nextLocalStream
    BY <1>1 DEF Spent, TableInv, IdsInOrder
  <2> QED
    BY <2>1, <1>1, <1>2 DEF AllocateLocal, StaysSpent, Spent, Own
<1>3. CASE SpendLocal
  BY <1>1, <1>3 DEF SpendLocal, StaysSpent, Spent, Own
<1>4. ASSUME NEW p \in StreamId, NEW st \in {"open", "reservedRemote"},
             AllocatePeer(p, st)
      PROVE  StaysSpent(id)
  <2>1. p \in Nat /\ id # p
    BY <1>1, <1>4 DEF AllocatePeer, Spent, StreamId
  <2> QED
    BY <2>1, <1>1, <1>4 DEF AllocatePeer, StaysSpent, Spent, Own
<1>5. ASSUME NEW m \in StreamId, NEW st \in LiveState, Move(m, st)
      PROVE  StaysSpent(id)
  BY <1>1, <1>5, Zenon DEF Move, Follows, StaysSpent, Spent, Own
<1>6. ASSUME NEW ended \in SUBSET Live, NEW q \in Orders(ended), CloseStreams(q)
      PROVE  StaysSpent(id)
  <2>1. id \in Range(q) => state[id] \in LiveState
    BY Zenon DEF Orders, Bijection, Injection, Surjection, Range, Live
  <2>2. /\ state'[id] = IF id \in Evicted(q) THEN "idle"
                       ELSE IF id \in Range(q) THEN "closed" ELSE state[id]
        /\ UNCHANGED <<nextLocalStream, lastPeerStream>>
    BY <1>6, Zenon DEF CloseStreams
  <2>3. id \in Evicted(q) => state'[id] = "idle"
    BY <2>2, Zenon
  <2> QED
    BY <2>1, <2>2, Zenon DEF StaysSpent, Spent, Own, LiveState
<1>7. CASE ClearStreams
  BY <1>1, <1>7, Zenon DEF ClearStreams, StaysSpent, Spent, Own
<1>8. CASE UNCHANGED tableVars
  <2>1. UNCHANGED <<state, nextLocalStream, lastPeerStream>>
    BY <1>8, Zenon DEF tableVars
  <2> QED
    BY <2>1, Zenon DEF StaysSpent, Spent, Own
<1> QED
  BY <1>2, <1>3, <1>4, <1>5, <1>6, <1>7, <1>8, Zenon DEF TableNext

\* A stream whose remote side has ended never receives again, and a stream is
\* reserved by the peer only when its identifier is new.
LEMMA EndedStays ==
  ASSUME TableInv, [TableNext]_tableVars, NEW id \in StreamId
  PROVE  /\ Spent(id) /\ ~CanReceive(state[id]) => ~CanReceive(state'[id])
         /\ Spent(id) /\ state'[id] = "reservedRemote" => state[id] = "reservedRemote"
<1> SUFFICES ASSUME Spent(id)
             PROVE  /\ ~CanReceive(state[id]) => ~CanReceive(state'[id])
                    /\ state'[id] = "reservedRemote" => state[id] = "reservedRemote"
  BY Zenon
<1>1. /\ state \in [StreamId -> StreamState]
      /\ id \in Nat /\ nextLocalStream \in Nat /\ lastPeerStream \in Nat
  BY DEF TableInv, TableTypeOK, StreamId
<1>2. ASSUME NEW m \in StreamId, NEW st, m # id, state' = [state EXCEPT ![m] = st]
      PROVE  state'[id] = state[id]
  BY <1>1, <1>2, Zenon
<1>3. ASSUME NEW st, AllocateLocal(st) PROVE state'[id] = state[id]
  <2>1. id # nextLocalStream
    BY <1>1 DEF Spent, TableInv, IdsInOrder
  <2> QED
    BY <1>2, <1>3, <2>1, Zenon DEF AllocateLocal, MayAllocate
<1>4. ASSUME NEW p \in StreamId, NEW st, AllocatePeer(p, st) PROVE state'[id] = state[id]
  <2>1. p \in Nat /\ id # p
    BY <1>1, <1>4 DEF AllocatePeer, Spent, StreamId
  <2> QED
    BY <1>2, <1>4, <2>1, Zenon DEF AllocatePeer
<1>5. ASSUME NEW m \in StreamId, NEW st \in LiveState, Move(m, st)
      PROVE  state'[id] = state[id] \/ Follows(state[id], state'[id])
  BY <1>1, <1>5, Zenon DEF Move
<1>6. ASSUME NEW q, CloseStreams(q)
      PROVE  state'[id] = state[id] \/ state'[id] \in {"idle", "closed"}
  <2>1. state'[id] = IF id \in Evicted(q) THEN "idle"
                     ELSE IF id \in Range(q) THEN "closed" ELSE state[id]
    BY <1>6, Zenon DEF CloseStreams
  <2> QED
    BY <2>1, Zenon
<1>7. CASE ClearStreams
  BY <1>7, Zenon DEF ClearStreams, CanReceive
<1>8. \/ state'[id] = state[id]
      \/ Follows(state[id], state'[id])
      \/ state'[id] \in {"idle", "closed"}
  BY <1>3, <1>4, <1>5, <1>6, <1>7, Zenon DEF TableNext, SpendLocal, tableVars, ClearStreams
<1> QED
  BY <1>8, Zenon DEF Follows, CanReceive

\* Until the FIFO of closed streams is full no stream leaves the table.
LEMMA NoneForgotten ==
  ASSUME SizesCounted, TableInv, [TableNext]_tableVars, ~closed'
  PROVE  /\ ~closed
         /\ Len(closedStreams') < MaxClosedStreams =>
              /\ Len(closedStreams) < MaxClosedStreams
              /\ \A id \in StreamId : state[id] # "idle" => state'[id] # "idle"
<1>1. /\ state \in [StreamId -> StreamState] /\ closedStreams \in Seq(StreamId)
      /\ MaxClosedStreams \in Nat
  BY TableAssumption DEF TableInv, TableTypeOK
<1>2. ASSUME NEW id \in StreamId, NEW st, st # "idle", state' = [state EXCEPT ![id] = st],
             closedStreams' = closedStreams, closed' = closed
      PROVE  ~closed /\ (\A i \in StreamId : state[i] # "idle" => state'[i] # "idle")
  BY <1>1, <1>2, Zenon
<1>3. ASSUME NEW st \in {"open", "halfClosedLocal", "reservedLocal"}, AllocateLocal(st)
      PROVE  /\ closedStreams' = closedStreams /\ ~closed
             /\ \A i \in StreamId : state[i] # "idle" => state'[i] # "idle"
  BY <1>2, <1>3, Zenon DEF AllocateLocal, MayAllocate
<1>4. ASSUME NEW p \in StreamId, NEW st \in {"open", "reservedRemote"}, AllocatePeer(p, st)
      PROVE  /\ closedStreams' = closedStreams /\ ~closed
             /\ \A i \in StreamId : state[i] # "idle" => state'[i] # "idle"
  BY <1>2, <1>4, Zenon DEF AllocatePeer
<1>5. ASSUME NEW m \in StreamId, NEW st \in LiveState, Move(m, st)
      PROVE  /\ closedStreams' = closedStreams /\ ~closed
             /\ \A i \in StreamId : state[i] # "idle" => state'[i] # "idle"
  BY <1>2, <1>5, Zenon DEF Move, LiveState
<1>6. ASSUME SpendLocal \/ UNCHANGED tableVars
      PROVE  /\ closedStreams' = closedStreams /\ ~closed
             /\ \A i \in StreamId : state[i] # "idle" => state'[i] # "idle"
  BY <1>6 DEF SpendLocal, tableVars
<1>7. ASSUME NEW ended \in SUBSET Live, NEW q \in Orders(ended), CloseStreams(q)
      PROVE  /\ ~closed
             /\ Len(closedStreams') < MaxClosedStreams =>
                  /\ Len(closedStreams) < MaxClosedStreams
                  /\ \A i \in StreamId : state[i] # "idle" => state'[i] # "idle"
  <2>1. q \in Seq(StreamId)
    <3>1. Cardinality(ended) \in Nat
      BY IdSetsSized, Zenon DEF Live
    <3>2. q \in [1 .. Cardinality(ended) -> ended]
      BY Zenon DEF Orders, Bijection, Injection
    <3> QED
      BY <3>1, <3>2 DEF Live
  <2>2. /\ ~closed
        /\ closedStreams' = SubSeq(ClosedQueue(q), Overflow(q) + 1, Len(ClosedQueue(q)))
        /\ state' = [id \in StreamId |->
                       IF id \in Evicted(q) THEN "idle"
                       ELSE IF id \in Range(q) THEN "closed" ELSE state[id]]
    BY <1>7, Zenon DEF CloseStreams
  <2>3. /\ ClosedQueue(q) \in Seq(StreamId)
        /\ Len(ClosedQueue(q)) = Len(closedStreams) + Len(q)
        /\ Len(closedStreams) \in Nat /\ Len(q) \in Nat
    BY <1>1, <2>1 DEF ClosedQueue
  <2> DEFINE all == ClosedQueue(q)
             n == Len(all)
             over == Overflow(q)
  <2>4. /\ n \in Nat /\ over \in 0 .. n
        /\ over # 0 => n - over = MaxClosedStreams
    BY <1>1, <2>3 DEF Overflow
  <2>5. over = 0 => Evicted(q) = {}
    BY DEF Evicted
  <2> HIDE DEF all, n, over
  <2>6. Len(SubSeq(all, over + 1, n)) = n - over
    <3>1. over + 1 \in 1 .. n + 1 /\ all \in Seq(StreamId) /\ n = Len(all)
      BY <2>3, <2>4 DEF all, n
    <3> QED
      BY <2>4, <3>1
  <2>7. Len(closedStreams') = n - over
    BY <2>2, <2>6, Zenon DEF all, n, over
  <2>8. n = Len(closedStreams) + Len(q)
    BY <2>3, Zenon DEF all, n
  <2>9. CASE over = 0
    <3>1. Len(closedStreams') < MaxClosedStreams => Len(closedStreams) < MaxClosedStreams
      BY <1>1, <2>3, <2>4, <2>7, <2>8, <2>9
    <3>2. \A i \in StreamId : state[i] # "idle" => state'[i] # "idle"
      BY <1>1, <2>2, <2>5, <2>9, Zenon
    <3> QED
      BY <2>2, <3>1, <3>2, Zenon
  <2>10. CASE over # 0
    <3>1. ~(Len(closedStreams') < MaxClosedStreams)
      BY <1>1, <2>4, <2>7, <2>10
    <3> QED
      BY <2>2, <3>1, Zenon
  <2> QED
    BY <2>9, <2>10, Zenon
<1>8. ~ClearStreams
  BY Zenon DEF ClearStreams
<1> QED
  BY <1>3, <1>4, <1>5, <1>6, <1>7, <1>8, Zenon DEF TableNext

-----------------------------------------------------------------------------
(* What the parser knows *)

\* What the parser knows of the stream of the frame or block in progress: the
\* handlers that run at its end apply to a stream of the table.
ParserInv ==
  /\ frame \in [stream : 0 .. MaxStreamId, left : Int, end : BOOLEAN]
  /\ frame.stream = 0 => frame = NoFrame
  /\ decoding => current.event \in StreamId

-----------------------------------------------------------------------------
(* Steps of the table *)

TableStep == TableNext \/ UNCHANGED tableVars

\* Closing no stream, or one, is a step of the table.
LEMMA CloseFew ==
  ASSUME SizesCounted
  PROVE  /\ CloseStreams(<<>>) => TableStep
         /\ \A id \in Live : CloseStreams(<<id>>) => TableStep
         /\ \A id : CloseStreams(IfLive(id)) => TableStep
<1>1. <<>> \in Orders({})
  <2>1. Cardinality({}) = 0
    BY Zenon DEF SizesCounted
  <2> QED
    BY <2>1 DEF Orders, Bijection, Injection, Surjection, IsInjective
<1>2. \A id : <<id>> \in Orders({id})
  <2> SUFFICES ASSUME NEW id PROVE <<id>> \in Orders({id})
    BY Zenon
  <2>1. <<id>> \in [1 .. 1 -> {id}] /\ <<id>>[1] = id /\ 1 .. 1 = {1}
    OBVIOUS
  <2>2. <<id>> \in Bijection(1 .. 1, {id})
    BY <2>1 DEF Bijection, Injection, Surjection, IsInjective
  <2>3. Cardinality({id}) = 1
    BY Zenon DEF SizesCounted
  <2> QED
    BY <2>2, <2>3, Zenon DEF Orders
<1>3. CloseStreams(<<>>) => TableStep
  BY <1>1, Zenon DEF TableStep, TableNext
<1>4. \A id \in Live : CloseStreams(<<id>>) => TableStep
  BY <1>2, Zenon DEF TableStep, TableNext
<1> QED
  BY <1>3, <1>4, Zenon DEF IfLive

\* The same for the steps that also reset the attributes of evicted streams.
LEMMA EndFew ==
  ASSUME SizesCounted
  PROVE  /\ \A id \in Live : End(<<id>>) => TableStep
         /\ \A id : End(IfLive(id)) => TableStep
  BY CloseFew, Zenon DEF End

\* Failing the connection leaves the table alone.
LEMMA ErrorTable == ASSUME NEW code, ConnectionError(code) PROVE TableStep
  BY Zenon DEF ConnectionError, TableStep

\* Ending the local side of a stream that can send is a step of the table.
LEMMA LocalEndTable ==
  ASSUME SizesCounted, NEW id \in StreamId, CanSend(state[id]), NEW end, NEW sw, NEW se, NEW me,
         LocalEnd(id, end, sw, se, me)
  PROVE  TableStep
<1> DEFINE st == IF state[id] = "reservedLocal" THEN "halfClosedRemote" ELSE state[id]
<1> DEFINE after == IF end /\ st = "open" THEN "halfClosedLocal" ELSE st
<1> DEFINE q == IF end /\ st = "halfClosedRemote" THEN <<id>> ELSE <<>>
<1>1. id \in Live /\ after \in LiveState
  BY Zenon DEF CanSend, Live, LiveState
<1>2. \/ CloseStreams(q)
      \/ Move(id, after)
      \/ UNCHANGED tableVars
  BY Zenon DEF LocalEnd
<1>3. CloseStreams(q) => TableStep
  BY <1>1, CloseFew, Zenon
<1>4. Move(id, after) => TableStep
  <2> HIDE DEF after
  <2> QED
    BY <1>1, Zenon DEF TableStep, TableNext
<1> QED
  BY <1>2, <1>3, <1>4, Zenon DEF TableStep

\* Ending the remote side of a stream of the table is a step of the table.
LEMMA RemoteEndTable ==
  ASSUME SizesCounted, NEW id \in StreamId, NEW rw, NEW re, NEW me, NEW n, NEW e,
         RemoteEnd(id, rw, re, me, n, e)
  PROVE  TableStep
<1> DEFINE q == IF LengthMismatch(re[id]) THEN IfLive(id)
                ELSE IF state[id] = "halfClosedLocal" THEN <<id>> ELSE <<>>
<1>1. Move(id, "halfClosedRemote") \/ CloseStreams(q)
  BY Zenon DEF RemoteEnd
<1>2. Move(id, "halfClosedRemote") => TableStep
  BY Zenon DEF TableStep, TableNext, LiveState
<1>3. state[id] = "halfClosedLocal" => id \in Live
  BY Zenon DEF Live, LiveState
<1>4. CloseStreams(q) => TableStep
  BY <1>3, CloseFew, Zenon
<1> QED
  BY <1>1, <1>2, <1>4, Zenon

\* Every call of the application is a step of the table.
LEMMA LocalCallTable == ASSUME SizesCounted, LocalCall PROVE TableStep
<1>1. ASSUME NEW section, NEW end, OpenStream(section, end) PROVE TableStep
  BY <1>1, Zenon DEF OpenStream, TableStep, TableNext
<1>2. ASSUME NEW section, NEW end, OpenStreamFails(section, end) PROVE TableStep
  BY <1>2, Zenon DEF OpenStreamFails, TableStep, TableNext
<1>3. ASSUME NEW id \in StreamId, NEW section, NEW end, SendHeaders(id, section, end)
      PROVE  TableStep
  <2>1. CanSend(state[id])
    BY <1>3, Zenon DEF SendHeaders
  <2>2. \E e, sw, se, me : LocalEnd(id, e, sw, se, me)
    BY <1>3, Zenon DEF SendHeaders
  <2> QED
    BY <2>1, <2>2, LocalEndTable, Zenon
<1>4. ASSUME NEW id, NEW section, PushPromise(id, section) PROVE TableStep
  BY <1>4, Zenon DEF PushPromise, TableStep, TableNext
<1>5. ASSUME NEW id, NEW section, PushPromiseFails(id, section) PROVE TableStep
  BY <1>5, Zenon DEF PushPromiseFails, TableStep, TableNext
<1>6. ASSUME NEW id \in StreamId, NEW n, NEW end, SendData(id, n, end) PROVE TableStep
  <2>1. CanSend(state[id])
    BY <1>6, Zenon DEF SendData
  <2>2. \E e, sw, se, me : LocalEnd(id, e, sw, se, me)
    BY <1>6, Zenon DEF SendData
  <2> QED
    BY <2>1, <2>2, LocalEndTable, Zenon
<1>7. ASSUME NEW id, ResetStream(id) PROVE TableStep
  BY <1>7, EndFew, Zenon DEF ResetStream
<1>8. ASSUME NEW settings, UpdateSettings(settings) PROVE TableStep
  BY <1>8, Zenon DEF UpdateSettings, TableStep
<1>9. ASSUME SendControl \/ GoAway \/ ConsumeOutput \/ NextEvent PROVE TableStep
  BY <1>9, Zenon DEF SendControl, GoAway, ConsumeOutput, NextEvent, TableStep
<1>10. ASSUME Close PROVE TableStep
  BY <1>10, Zenon DEF Close, TableStep, TableNext
<1> QED
  BY <1>1, <1>2, <1>3, <1>4, <1>5, <1>6, <1>7, <1>8, <1>9, <1>10, Zenon DEF LocalCall

\* Every control frame is a step of the table.
LEMMA ReceiveControlTable == ASSUME SizesCounted, ReceiveControl PROVE TableStep
<1>1. ASSUME RecvPreface \/ ParseError \/ FirstFrameNotSettings PROVE TableStep
  BY <1>1, ErrorTable, Zenon DEF RecvPreface, ParseError, FirstFrameNotSettings, TableStep
<1>2. ASSUME RecvPriority \/ RecvUnknown PROVE TableStep
  BY <1>2, Zenon DEF RecvPriority, RecvUnknown, TableStep
<1>3. ASSUME NEW valid, RecvPriorityUpdate(valid) PROVE TableStep
  BY <1>3, Zenon DEF RecvPriorityUpdate, TableStep
<1>4. ASSUME NEW id, RecvRSTStreamUnknown(id) PROVE TableStep
  BY <1>4, ErrorTable, Zenon DEF RecvRSTStreamUnknown, TableStep
<1>5. ASSUME NEW id, RecvRSTStream(id) PROVE TableStep
  BY <1>5, EndFew, Zenon DEF RecvRSTStream
<1>6. ASSUME NEW id, RecvWindowUpdateLate(id) PROVE TableStep
  BY <1>6, ErrorTable, Zenon DEF RecvWindowUpdateLate, TableStep
<1>7. ASSUME NEW settings, RecvSettingsRejected(settings) PROVE TableStep
  BY <1>7, ErrorTable, Zenon DEF RecvSettingsRejected
<1>8. ASSUME NEW settings, RecvSettings(settings) PROVE TableStep
  BY <1>8, Zenon DEF RecvSettings, TableStep
<1>9. ASSUME RecvSettingsAck PROVE TableStep
  BY <1>9, ErrorTable, Zenon DEF RecvSettingsAck, TableStep
<1>10. ASSUME NEW ack, RecvPing(ack) PROVE TableStep
  BY <1>10, ErrorTable, Zenon DEF RecvPing, TableStep
<1>11. ASSUME NEW last, RecvGoAway(last) PROVE TableStep
  <2>1. CASE \E code : ConnectionError(code)
    BY <2>1, ErrorTable, Zenon
  <2>2. CASE \E q \in Orders({id \in LocalLive : id > last}) : End(q)
    BY <2>2, Zenon DEF End, TableStep, TableNext, LocalLive
  <2> QED
    BY <1>11, <2>1, <2>2, Zenon DEF RecvGoAway
<1>12. ASSUME NEW n, RecvConnectionWindowUpdate(n) PROVE TableStep
  BY <1>12, ErrorTable, Zenon DEF RecvConnectionWindowUpdate, TableStep
<1>13. ASSUME NEW id, NEW n, RecvWindowUpdate(id, n) PROVE TableStep
  BY <1>13, EndFew, Zenon DEF RecvWindowUpdate, TableStep
<1> QED
  BY <1>1, <1>2, <1>3, <1>4, <1>5, <1>6, <1>7, <1>8, <1>9, <1>10, <1>11, <1>12, <1>13, Zenon
     DEF ReceiveControl

\* Every part of a header block is a step of the table.
LEMMA ReceiveHeadersTable == ASSUME SizesCounted, ParserInv, ReceiveHeaders PROVE TableStep
<1>1. ASSUME NEW id \in StreamId, NEW end, RecvHeadersOpen(id, end) PROVE TableStep
  <2>1. \/ \E code : ConnectionError(code)
        \/ End(IfLive(id))
        \/ AllocatePeer(id, "open")
    BY <1>1, Zenon DEF RecvHeadersOpen, RefuseBlock
  <2>2. AllocatePeer(id, "open") => TableStep
    BY Zenon DEF TableStep, TableNext
  <2> QED
    BY <2>1, <2>2, ErrorTable, EndFew, Zenon
<1>2. ASSUME NEW id \in StreamId, NEW end, RecvHeaders(id, end) PROVE TableStep
  <2>1. \/ \E code : ConnectionError(code)
        \/ End(IfLive(id))
        \/ Move(id, "halfClosedLocal")
        \/ UNCHANGED tableVars
    BY <1>2, Zenon DEF RecvHeaders, RefuseBlock
  <2>2. Move(id, "halfClosedLocal") => TableStep
    BY Zenon DEF TableStep, TableNext, LiveState
  <2> QED
    BY <2>1, <2>2, ErrorTable, EndFew, Zenon DEF TableStep
<1>3. ASSUME NEW parent, NEW id \in StreamId, RecvPushPromise(parent, id) PROVE TableStep
  <2>1. \/ \E code : ConnectionError(code)
        \/ AllocatePeer(id, "reservedRemote")
        \/ UNCHANGED tableVars
    BY <1>3, Zenon DEF RecvPushPromise
  <2>2. AllocatePeer(id, "reservedRemote") => TableStep
    BY Zenon DEF TableStep, TableNext
  <2> QED
    BY <2>1, <2>2, ErrorTable, Zenon DEF TableStep
<1>4. ASSUME ContinueBlock \/ EndIgnoredBlock PROVE TableStep
  BY <1>4, Zenon DEF ContinueBlock, EndIgnoredBlock, TableStep
<1>5. ASSUME NEW section, CompressionError(section) \/ EndBlockNoRoom(section)
      PROVE  TableStep
  BY <1>5, ErrorTable, Zenon DEF CompressionError, EndBlockNoRoom
<1>6. ASSUME NEW section, EndRejectedBlock(section) PROVE TableStep
  BY <1>6, EndFew, Zenon DEF EndRejectedBlock, TableStep
<1>7. ASSUME NEW section, EndPushPromise(section) PROVE TableStep
  BY <1>7, Zenon DEF EndPushPromise, TableStep
<1>8. ASSUME NEW section, EndInformational(section) PROVE TableStep
  BY <1>8, EndFew, Zenon DEF EndInformational, TableStep
<1>9. ASSUME NEW section, EndMessageBlock(section) PROVE TableStep
  <2>1. current.event \in StreamId
    BY <1>9, Zenon DEF EndMessageBlock, Accepted, Decoded, ParserInv
  <2>2. \/ UNCHANGED tableVars
        \/ \E rw, re, me, n, e : RemoteEnd(current.event, rw, re, me, n, e)
    BY <1>9, Zenon DEF EndMessageBlock
  <2> QED
    BY <2>1, <2>2, RemoteEndTable, Zenon DEF TableStep
<1> QED
  BY <1>1, <1>2, <1>3, <1>4, <1>5, <1>6, <1>7, <1>8, <1>9, Zenon DEF ReceiveHeaders

\* Every part of a DATA frame is a step of the table.
LEMMA ReceiveDataTable == ASSUME SizesCounted, ParserInv, ReceiveData PROVE TableStep
<1>1. ASSUME NEW id, NEW n, NEW m, NEW end, BeginData(id, n, m, end) PROVE TableStep
  BY <1>1, EndFew, Zenon DEF BeginData, TableStep
<1>2. ASSUME NEW id, NEW n, BeginDataOverConnectionWindow(id, n) PROVE TableStep
  BY <1>2, ErrorTable, Zenon DEF BeginDataOverConnectionWindow
<1>3. ASSUME NEW k, RecvDataFragment(k) PROVE TableStep
  BY <1>3, EndFew, Zenon DEF RecvDataFragment, TableStep
<1>4. ASSUME DataNoRoom PROVE TableStep
  BY <1>4, ErrorTable, Zenon DEF DataNoRoom
<1>5. ASSUME CompleteData PROVE TableStep
  <2>1. frame.stream \in StreamId
    BY <1>5, TableAssumption, SMTT(30) DEF CompleteData, ParserInv, StreamId, TableAssumption
  <2>2. \/ UNCHANGED tableVars
        \/ \E rw, re, me, n, e : RemoteEnd(frame.stream, rw, re, me, n, e)
    BY <1>5, Zenon DEF CompleteData
  <2> QED
    BY <2>1, <2>2, RemoteEndTable, Zenon DEF TableStep
<1> QED
  BY <1>1, <1>2, <1>3, <1>4, <1>5, Zenon DEF ReceiveData

\* Every step of a session is one of the table.
LEMMA StepsTable ==
  ASSUME SizesCounted, ParserInv, [Next]_vars
  PROVE  [TableNext]_tableVars
<1> SUFFICES TableStep
  BY Zenon DEF TableStep
<1>1. CASE LocalCall
  BY <1>1, LocalCallTable, Zenon
<1>2. CASE ReceiveControl
  BY <1>2, ReceiveControlTable, Zenon
<1>3. CASE ReceiveHeaders
  BY <1>3, ReceiveHeadersTable, Zenon
<1>4. CASE ReceiveData
  BY <1>4, ReceiveDataTable, Zenon
<1>5. CASE UNCHANGED vars
  BY <1>5, Zenon DEF vars, TableStep
<1> QED
  BY <1>1, <1>2, <1>3, <1>4, <1>5, Zenon DEF Next

-----------------------------------------------------------------------------
(* The parser *)

\* A step that begins neither a DATA frame nor the decoding of a block.
ParserKept ==
  /\ frame' = frame \/ frame' = NoFrame
  /\ decoding' = FALSE \/ UNCHANGED <<current, decoding>>

\* Such a step preserves ParserInv.
LEMMA ParserKeptInv == ASSUME ParserInv, ParserKept PROVE ParserInv'
<1>1. NoFrame \in [stream : 0 .. MaxStreamId, left : Int, end : BOOLEAN]
  BY TableAssumption DEF NoFrame, TableAssumption
<1> QED
  BY <1>1 DEF ParserInv, ParserKept

\* Failing the connection forgets the frame and the block.
Interrupted == frame' = NoFrame /\ block' = NoBlock /\ decoding' = FALSE

\* A step that leaves the parser alone or fails the connection preserves
\* ParserInv.
LEMMA ErrorParser ==
  /\ \A code : ConnectionError(code) => Interrupted
  /\ Interrupted => ParserKept
  /\ UNCHANGED <<frame, headerVars>> => ParserKept
<1>1. \A code : ConnectionError(code) => Interrupted
  BY Zenon DEF ConnectionError, Interrupted
<1> QED
  BY <1>1, Zenon DEF Interrupted, headerVars, ParserKept

\* No call of the application touches the parser.
LEMMA LocalCallParser == ASSUME LocalCall PROVE UNCHANGED localUnchanged
<1>2. ASSUME NEW section, NEW end, OpenStream(section, end) PROVE UNCHANGED localUnchanged
  BY <1>2, Zenon DEF OpenStream
<1>3. ASSUME NEW section, NEW end, OpenStreamFails(section, end) PROVE UNCHANGED localUnchanged
  BY <1>3, Zenon DEF OpenStreamFails
<1>4. ASSUME NEW id, NEW section, NEW end, SendHeaders(id, section, end)
      PROVE  UNCHANGED localUnchanged
  BY <1>4, Zenon DEF SendHeaders
<1>5. ASSUME NEW id, NEW section, PushPromise(id, section) PROVE UNCHANGED localUnchanged
  BY <1>5, Zenon DEF PushPromise
<1>6. ASSUME NEW id, NEW section, PushPromiseFails(id, section) PROVE UNCHANGED localUnchanged
  BY <1>6, Zenon DEF PushPromiseFails
<1>7. ASSUME NEW id, NEW n, NEW end, SendData(id, n, end) PROVE UNCHANGED localUnchanged
  BY <1>7, Zenon DEF SendData
<1>8. ASSUME NEW id, ResetStream(id) PROVE UNCHANGED localUnchanged
  BY <1>8, Zenon DEF ResetStream
<1>9. ASSUME NEW settings, UpdateSettings(settings) PROVE UNCHANGED localUnchanged
  BY <1>9, Zenon DEF UpdateSettings
<1>10. ASSUME SendControl \/ GoAway \/ Close \/ ConsumeOutput \/ NextEvent
       PROVE  UNCHANGED localUnchanged
  BY <1>10, Zenon DEF SendControl, GoAway, Close, ConsumeOutput, NextEvent
<1> QED
  BY <1>2, <1>3, <1>4, <1>5, <1>6, <1>7, <1>8, <1>9, <1>10, Zenon DEF LocalCall

\* A control frame arrives between two frames and leaves none in progress.
LEMMA ReceiveControlParser ==
  ASSUME ReceiveControl
  PROVE  Interrupted \/ UNCHANGED <<frame, headerVars>>
<1> DEFINE Goal == Interrupted \/ UNCHANGED <<frame, headerVars>>
<1>1. ASSUME NEW code, ConnectionError(code) PROVE Goal
  BY <1>1, ErrorParser, Zenon
<1>2. ASSUME UNCHANGED controlUnchanged PROVE Goal
  BY <1>2, Zenon DEF controlUnchanged
<1>3. ASSUME RecvPreface \/ ParseError \/ FirstFrameNotSettings PROVE Goal
  BY <1>1, <1>3, Zenon DEF RecvPreface, ParseError, FirstFrameNotSettings
<1>4. ASSUME RecvPriority \/ RecvUnknown PROVE Goal
  BY <1>2, <1>4, Zenon DEF RecvPriority, RecvUnknown
<1>5. ASSUME NEW valid, RecvPriorityUpdate(valid) PROVE Goal
  BY <1>2, <1>5, Zenon DEF RecvPriorityUpdate
<1>6. ASSUME NEW id, RecvRSTStreamUnknown(id) PROVE Goal
  BY <1>1, <1>2, <1>6, Zenon DEF RecvRSTStreamUnknown
<1>7. ASSUME NEW id, RecvRSTStream(id) PROVE Goal
  BY <1>2, <1>7, Zenon DEF RecvRSTStream
<1>8. ASSUME NEW id, RecvWindowUpdateLate(id) PROVE Goal
  BY <1>1, <1>2, <1>8, Zenon DEF RecvWindowUpdateLate
<1>9. ASSUME NEW settings, RecvSettingsRejected(settings) PROVE Goal
  BY <1>1, <1>9, Zenon DEF RecvSettingsRejected
<1>10. ASSUME NEW settings, RecvSettings(settings) PROVE Goal
  BY <1>10, Zenon DEF RecvSettings
<1>11. ASSUME RecvSettingsAck PROVE Goal
  BY <1>1, <1>11, Zenon DEF RecvSettingsAck
<1>12. ASSUME NEW ack, RecvPing(ack) PROVE Goal
  BY <1>1, <1>2, <1>12, Zenon DEF RecvPing
<1>13. ASSUME NEW last, RecvGoAway(last) PROVE Goal
  BY <1>1, <1>13, Zenon DEF RecvGoAway
<1>14. ASSUME NEW n, RecvConnectionWindowUpdate(n) PROVE Goal
  BY <1>1, <1>14, Zenon DEF RecvConnectionWindowUpdate
<1>15. ASSUME NEW id, NEW n, RecvWindowUpdate(id, n) PROVE Goal
  BY <1>2, <1>15, Zenon DEF RecvWindowUpdate
<1> QED
  BY <1>3, <1>4, <1>5, <1>6, <1>7, <1>8, <1>9, <1>10, <1>11, <1>12, <1>13, <1>14, <1>15, Zenon
     DEF ReceiveControl

\* A block is decoded for a stream of the table.
LEMMA ReceiveHeadersParser == ASSUME ParserInv, ReceiveHeaders PROVE ParserInv'
<1>1. ASSUME frame' = frame, NEW id, NEW event \in StreamId, NEW trailer, NEW push,
             Decode(id, event, trailer, push)
      PROVE  ParserInv'
  BY <1>1, Zenon DEF Decode, ParserInv
<1>2. ASSUME NEW id \in StreamId, NEW end, RecvHeadersOpen(id, end) PROVE ParserInv'
  <2>1. CASE \E code : ConnectionError(code)
    BY <2>1, ErrorParser, ParserKeptInv, Zenon
  <2>2. CASE RefuseBlock(id, end)
    BY <2>2, ParserKeptInv, Zenon DEF RefuseBlock, beginUnchanged, ParserKept
  <2>3. CASE UNCHANGED beginUnchanged /\ Decode(id, id, FALSE, FALSE)
    BY <2>3, <1>1, Zenon DEF beginUnchanged
  <2> QED
    BY <1>2, <2>1, <2>2, <2>3, Zenon DEF RecvHeadersOpen
<1>3. ASSUME NEW id \in StreamId, NEW end, RecvHeaders(id, end) PROVE ParserInv'
  <2>1. CASE \E code : ConnectionError(code)
    BY <2>1, ErrorParser, ParserKeptInv, Zenon
  <2>2. CASE RefuseBlock(id, end)
    BY <2>2, ParserKeptInv, Zenon DEF RefuseBlock, beginUnchanged, ParserKept
  <2>3. CASE UNCHANGED beginUnchanged /\ Decode(id, id, received[id].headers, FALSE)
    BY <2>3, <1>1, Zenon DEF beginUnchanged
  <2> QED
    BY <1>3, <2>1, <2>2, <2>3, Zenon DEF RecvHeaders
<1>4. ASSUME NEW parent, NEW id \in StreamId, RecvPushPromise(parent, id) PROVE ParserInv'
  <2>1. CASE \E code : ConnectionError(code)
    BY <2>1, ErrorParser, ParserKeptInv, Zenon
  <2>2. CASE UNCHANGED <<current, decoding, beginUnchanged>>
    BY <2>2, ParserKeptInv, Zenon DEF beginUnchanged, ParserKept
  <2>3. CASE UNCHANGED beginUnchanged /\ Decode(parent, id, FALSE, TRUE)
    BY <2>3, <1>1, Zenon DEF beginUnchanged
  <2> QED
    BY <1>4, <2>1, <2>2, <2>3, Zenon DEF RecvPushPromise
<1>5. ASSUME ContinueBlock \/ EndIgnoredBlock PROVE ParserInv'
  BY <1>5, ParserKeptInv, Zenon DEF ContinueBlock, EndIgnoredBlock, endUnchanged, ParserKept
<1>6. ASSUME NEW section, CompressionError(section) \/ EndBlockNoRoom(section)
      PROVE  ParserInv'
  BY <1>6, ErrorParser, ParserKeptInv, Zenon DEF CompressionError, EndBlockNoRoom
<1>7. ASSUME NEW section, EndRejectedBlock(section) PROVE ParserInv'
  BY <1>7, ParserKeptInv, Zenon DEF EndRejectedBlock, endUnchanged, ParserKept
<1>8. ASSUME NEW section, EndPushPromise(section) PROVE ParserInv'
  BY <1>8, ParserKeptInv, Zenon DEF EndPushPromise, EndBlock, endUnchanged, ParserKept
<1>9. ASSUME NEW section, EndInformational(section) PROVE ParserInv'
  BY <1>9, ParserKeptInv, Zenon DEF EndInformational, EndBlock, endUnchanged, ParserKept
<1>10. ASSUME NEW section, EndMessageBlock(section) PROVE ParserInv'
  BY <1>10, ParserKeptInv, Zenon DEF EndMessageBlock, EndBlock, endUnchanged, ParserKept
<1> QED
  BY <1>2, <1>3, <1>4, <1>5, <1>6, <1>7, <1>8, <1>9, <1>10, Zenon DEF ReceiveHeaders

\* A DATA frame is begun on a stream of the table, and stays on it.
LEMMA ReceiveDataParser == ASSUME ParserInv, ReceiveData PROVE ParserInv'
<1>1. ASSUME NEW id \in StreamId, NEW n \in DataLengths, NEW m \in 0 .. n,
             NEW end \in BOOLEAN, BeginData(id, n, m, end)
      PROVE  ParserInv'
  <2>1. frame' = [stream |-> id, left |-> m, end |-> end]
    BY <1>1, Zenon DEF BeginData
  <2>2. UNCHANGED <<current, decoding>>
    BY <1>1, Zenon DEF BeginData, dataUnchanged, headerVars
  <2>3. id \in 0 .. MaxStreamId /\ id # 0
    BY DEF StreamId
  <2>4. m \in Int
    OBVIOUS
  <2> QED
    BY <2>1, <2>2, <2>3, <2>4, Zenon DEF ParserInv
<1>2. ASSUME NEW id, NEW n, BeginDataOverConnectionWindow(id, n) PROVE ParserInv'
  BY <1>2, ErrorParser, ParserKeptInv, Zenon DEF BeginDataOverConnectionWindow
<1>3. ASSUME NEW k, RecvDataFragment(k) PROVE ParserInv'
  <2>1. k \in 1 .. frame.left /\ frame' = [frame EXCEPT !.left = @ - k]
    BY <1>3, Zenon DEF RecvDataFragment
  <2>2. UNCHANGED <<current, decoding>>
    BY <1>3, Zenon DEF RecvDataFragment, dataUnchanged, headerVars
  <2>3. frame.stream # 0
    BY <2>1 DEF ParserInv, NoFrame
  <2> QED
    BY <2>1, <2>2, <2>3, SMTT(30) DEF ParserInv
<1>4. ASSUME DataNoRoom PROVE ParserInv'
  BY <1>4, ErrorParser, ParserKeptInv, Zenon DEF DataNoRoom
<1>5. ASSUME CompleteData PROVE ParserInv'
  BY <1>5, ParserKeptInv, Zenon DEF CompleteData, dataUnchanged, headerVars, ParserKept
<1> QED
  BY <1>1, <1>2, <1>3, <1>4, <1>5, Zenon DEF ReceiveData

\* The streams the parser refers to are streams of the table, always.
LEMMA ParserCorrect == Spec => []ParserInv
<1>1. Init => ParserInv
  <2>1. Init => frame = NoFrame /\ decoding = FALSE
    BY Zenon DEF Init
  <2>2. NoFrame \in [stream : 0 .. MaxStreamId, left : Int, end : BOOLEAN]
    BY TableAssumption DEF NoFrame, TableAssumption
  <2> QED
    BY <2>1, <2>2, Zenon DEF ParserInv
<1>2. ParserInv /\ [Next]_vars => ParserInv'
  <2> SUFFICES ASSUME ParserInv, [Next]_vars PROVE ParserInv'
    BY Zenon
  <2>1. CASE LocalCall
    BY <2>1, LocalCallParser, ErrorParser, ParserKeptInv, Zenon DEF localUnchanged
  <2>2. CASE ReceiveControl
    BY <2>2, ReceiveControlParser, ErrorParser, ParserKeptInv, Zenon
  <2>3. CASE ReceiveHeaders
    BY <2>3, ReceiveHeadersParser, Zenon
  <2>4. CASE ReceiveData
    BY <2>4, ReceiveDataParser, Zenon
  <2>5. CASE UNCHANGED vars
    BY <2>5, ParserKeptInv, Zenon DEF vars, headerVars, ParserKept
  <2> QED
    BY <2>1, <2>2, <2>3, <2>4, <2>5, Zenon DEF Next
<1> QED
  BY <1>1, <1>2, PTL DEF Spec

-----------------------------------------------------------------------------
(* What the variables range over *)

\* The types of the queues, the counters and the status flags. A session that
\* has not failed is within its budget of control frames: the frame that exceeds
\* it fails the connection.
CountersOK ==
  /\ output \in 0 .. MaxOutput
  /\ events \in 0 .. MaxQueuedEvents
  /\ settingsOutstanding \in 0 .. MaxOutstanding
  /\ failed \in {"none"} \cup Failures
  /\ goAwaySent \in BOOLEAN
  /\ prefaced \in BOOLEAN
  /\ controlFrames \in 0 .. MaxControlFrames + 1
  /\ failed = "none" => controlFrames <= MaxControlFrames

\* The limits of the queues and the counters are natural numbers.
LEMMA CounterLimits ==
  /\ MaxOutput \in Nat
  /\ MaxQueuedEvents \in Nat
  /\ MaxOutstanding \in Nat
  /\ MaxControlFrames \in Nat
  BY SessionAssumption, Zenon DEF SessionAssumption

\* The attributes of the streams.
StreamsTyped ==
  /\ sendWindow \in [StreamId -> Int]
  /\ recvWindow \in [StreamId -> Int]
  /\ sent \in [StreamId -> Progress]
  /\ received \in [StreamId -> Progress]
  /\ method \in [StreamId -> Method]

\* The windows of the connection, the settings of both sides and the stream that
\* GOAWAY reports.
ConnectionTyped ==
  /\ connectionSendWindow \in Int
  /\ connectionRecvWindow \in Int
  /\ peer \in [maxConcurrent : Nat, initialWindow : 0 .. MaxWindow,
               maxFrame : Nat \ {0}, enablePush : BOOLEAN, noPriorities : BOOLEAN,
               settled : BOOLEAN, goAway : BOOLEAN, lastStream : 0 .. MaxStreamId]
  /\ limits \in [maxConcurrent : 0 .. MaxStreams, initialWindow : 0 .. MaxWindow,
                 enablePush : BOOLEAN]
  /\ lastProcessedPeerStream \in 0 .. MaxStreamId

\* The frame and the header block in progress.
ParserTyped ==
  /\ frame \in [stream : 0 .. MaxStreamId, left : Nat, end : BOOLEAN]
  /\ block \in [stream : 0 .. MaxStreamId, end : BOOLEAN, push : BOOLEAN,
                continued : BOOLEAN]
  /\ current \in [stream : 0 .. MaxStreamId, event : 0 .. MaxStreamId,
                  trailer : BOOLEAN, push : BOOLEAN]
  /\ decoding \in BOOLEAN

Typed == StreamsTyped /\ ConnectionTyped /\ ParserTyped

connectionVars == <<windowVars, peer, limits, lastProcessedPeerStream>>

\* The part of a source that SendData takes is a number of bytes, at most what
\* the source and the connection window have.
LEMMA AvailableBounds ==
  ASSUME StreamsTyped, ConnectionTyped, NEW id \in StreamId, NEW n \in Nat
  PROVE  /\ Available(id, n) \in Int
         /\ Available(id, n) <= n
         /\ Available(id, n) <= connectionSendWindow
         /\ Available(id, n) <= sendWindow[id]
<1> DEFINE S == {n, peer.maxFrame, connectionSendWindow, sendWindow[id]}
<1>1. /\ peer.maxFrame \in Int /\ connectionSendWindow \in Int /\ sendWindow[id] \in Int
      /\ n \in Int
  BY DEF ConnectionTyped, StreamsTyped
<1>2. PICK m \in S : \A x \in S : m <= x
  BY <1>1, SMTT(30)
<1>3. m \in Int
  BY <1>1, <1>2, Zenon
<1>4. \A y \in S : (\A x \in S : y <= x) => y = m
  BY <1>1, <1>2, <1>3
<1>5. Min(S) = m
  <2> HIDE DEF S
  <2>1. Min(S) = CHOOSE y \in S : \A x \in S : y <= x
    BY Zenon DEF Min
  <2> QED
    BY <1>2, <1>4, <2>1, Zenon
<1> QED
  BY <1>1, <1>2, <1>3, <1>5, Zenon DEF Available

\* What onFrameComplete gives back is a number of bytes.
LEMMA CreditBounds ==
  ASSUME ConnectionTyped, NEW window \in Int
  PROVE  /\ Credit(window) \in Nat
         /\ Credit(window) # 0 => window + Credit(window) = limits.initialWindow
         /\ Credit(window) = 0 => \/ window > limits.initialWindow \div 2
                                  \/ limits.initialWindow = 0 /\ window = 0
  BY DEF Credit, ConnectionTyped

-----------------------------------------------------------------------------
(* What a step does to the streams *)

SameAttributes(id) ==
  /\ sendWindow'[id] = sendWindow[id]
  /\ recvWindow'[id] = recvWindow[id]
  /\ sent'[id] = sent[id]
  /\ received'[id] = received[id]

Cleared(id) ==
  /\ state'[id] = "idle"
  /\ sendWindow'[id] = 0
  /\ recvWindow'[id] = 0
  /\ sent'[id] = NoProgress
  /\ received'[id] = NoProgress

\* Stream id is left alone, closed, or forgotten.
Shrinks(id) ==
  \/ SameAttributes(id) /\ state'[id] = state[id] /\ local'[id] = local[id]
  \/ SameAttributes(id) /\ state'[id] = "closed" /\ state[id] \in LiveState
  \/ Cleared(id)

\* No DATA frame of a live stream is begun or completed, and no block.
ParserShrinks ==
  /\ \/ frame' = frame
     \/ frame' = NoFrame /\ (failed' # "none" \/ state[frame.stream] = "idle")
     \/ frame.stream \in StreamId /\ frame'.stream = frame.stream
     \/ /\ frame = NoFrame /\ frame'.stream \in StreamId /\ ~decoding
        /\ state'[frame'.stream] \notin LiveState
  /\ decoding' => decoding /\ current' = current /\ block'.end = block.end

\* The peer's settings stay as they are; GOAWAY has closed the streams it names.
PeerShrinks ==
  \/ peer' = peer
  \/ /\ peer'.initialWindow = peer.initialWindow
     /\ \A id \in StreamId : state'[id] \in LiveState /\ local'[id] => id <= peer'.lastStream

\* A step that at most closes streams. All but the fifteen actions below are.
ShrinkStep ==
  /\ \A id \in StreamId : Shrinks(id)
  /\ UNCHANGED <<windowVars, limits, lastProcessedPeerStream>>
  /\ PeerShrinks
  /\ ParserShrinks

\* A WINDOW_UPDATE frame is accepted for the connection.
ConnectionCredited(n) ==
  /\ connectionSendWindow <= MaxWindow - n
  /\ connectionSendWindow' = connectionSendWindow + n
  /\ UNCHANGED <<tableVars, streamVars, connectionRecvWindow, peer, limits,
                 lastProcessedPeerStream, frame, headerVars>>

\* A WINDOW_UPDATE frame is accepted for stream id.
StreamCredited(id, n) ==
  /\ sendWindow[id] <= MaxWindow - n
  /\ sendWindow' = [sendWindow EXCEPT ![id] = sendWindow[id] + n]
  /\ UNCHANGED <<tableVars, recvWindow, sent, received, connectionVars, frame, headerVars>>

\* The peer opens stream id.
PeerOpens(id, end) ==
  /\ Settled
  /\ state[id] = "idle" /\ ~Own(id)
  /\ AllocatePeer(id, "open")
  /\ NewStream(id, NoProgress, "")
  /\ BeginBlock(id, end, FALSE)
  /\ Decode(id, id, FALSE, FALSE)
  /\ UNCHANGED <<connectionVars, frame>>

\* The peer sends a further header section on stream id.
PeerContinues(id, end) ==
  /\ Settled
  /\ CanReceive(state[id])
  /\ ~received[id].trailers
  /\ received[id].headers => end
  /\ \/ state[id] = "reservedRemote" /\ Move(id, "halfClosedLocal")
     \/ state[id] # "reservedRemote" /\ UNCHANGED tableVars
  /\ BeginBlock(id, end, FALSE)
  /\ Decode(id, id, received[id].headers, FALSE)
  /\ UNCHANGED <<streamVars, connectionVars, frame>>

\* The peer promises stream id.
PeerPromises(parent, id) ==
  /\ Settled
  /\ Role = "client" /\ ~Own(id)
  /\ AllocatePeer(id, "reservedRemote")
  /\ NewStream(id, NoProgress, "")
  /\ BeginBlock(parent, FALSE, TRUE)
  /\ Decode(parent, id, FALSE, TRUE)
  /\ UNCHANGED <<connectionVars, frame>>

\* A DATA frame of n bytes is accepted on stream id.
DataAccepted(id, n, m, end) ==
  /\ Settled
  /\ CanReceive(state[id])
  /\ received[id].headers /\ ~received[id].trailers /\ ~received[id].noBody
  /\ n <= connectionRecvWindow
  /\ n <= recvWindow[id]
  /\ frame' = [stream |-> id, left |-> m, end |-> end]
  /\ connectionRecvWindow' = connectionRecvWindow - n
  /\ recvWindow' = [recvWindow EXCEPT ![id] = recvWindow[id] - n]
  /\ UNCHANGED <<tableVars, sendWindow, sent, received, connectionSendWindow, peer, limits,
                 lastProcessedPeerStream, headerVars>>

\* k bytes of the frame are delivered to the application.
FragmentDelivered(k) ==
  /\ frame.stream \in StreamId /\ state[frame.stream] # "idle"
  /\ ~Exceeds(received[frame.stream], k)
  /\ received' = [received EXCEPT ![frame.stream] = AfterData(received[frame.stream], k)]
  /\ frame'.stream = frame.stream
  /\ UNCHANGED <<tableVars, sendWindow, recvWindow, sent, connectionVars, headerVars>>

\* The frame ends on a stream that is still retained.
DataCompleted ==
  LET id == frame.stream
      rw == [recvWindow EXCEPT ![id] = recvWindow[id] + Credit(recvWindow[id])]
  IN /\ id \in StreamId /\ state[id] # "idle"
     /\ frame' = NoFrame
     /\ connectionRecvWindow' = connectionRecvWindow + Credit(connectionRecvWindow)
     /\ \/ \E n : RemoteEnd(id, rw, received, method, n, 0)
        \/ /\ recvWindow' = rw
           /\ UNCHANGED <<tableVars, sendWindow, sent, received, lastProcessedPeerStream>>
     /\ UNCHANGED <<connectionSendWindow, peer, limits, headerVars>>

\* The steps that are not ShrinkSteps.
GrowStep ==
  \/ \E section \in Sections, end \in BOOLEAN :
       \/ OpenStream(section, end)
       \/ \E id \in StreamId : SendHeaders(id, section, end)
  \/ \E id \in StreamId, section \in Sections : PushPromise(id, section)
  \/ \E id \in StreamId, n \in DataLengths, end \in BOOLEAN : SendData(id, n, end)
  \/ \E settings \in LocalSettings : UpdateSettings(settings)
  \/ \E settings \in PeerSettings : RecvSettings(settings)
  \/ \E n \in Increments : \/ ConnectionCredited(n)
                           \/ \E id \in StreamId : StreamCredited(id, n)
  \/ \E id \in StreamId, end \in BOOLEAN : PeerOpens(id, end) \/ PeerContinues(id, end)
  \/ \E parent, id \in StreamId : PeerPromises(parent, id)
  \/ \E section \in Sections : EndMessageBlock(section)
  \/ \E id \in StreamId, n \in DataLengths, m \in Nat, end \in BOOLEAN :
       DataAccepted(id, n, m, end)
  \/ \E k \in DataLengths : FragmentDelivered(k)
  \/ DataCompleted

\* What the proofs below may assume of a state.
Known == TableInv /\ Typed /\ ParserInv /\ DecoderFollowsParser /\ SizesCounted

\* Closing streams of the table.
LEMMA EndShrinks ==
  ASSUME TableInv, NEW q, Range(q) \subseteq Live, End(q)
  PROVE  \A id \in StreamId : Shrinks(id)
<1> SUFFICES ASSUME NEW id \in StreamId PROVE Shrinks(id)
  BY Zenon
<1>1. /\ state' = [i \in StreamId |-> IF i \in Evicted(q) THEN "idle"
                                      ELSE IF i \in Range(q) THEN "closed" ELSE state[i]]
      /\ local' = [i \in StreamId |-> local[i] /\ i \notin Evicted(q)]
  BY Zenon DEF End, CloseStreams
<1>2. /\ sendWindow' = [i \in StreamId |-> IF i \in Evicted(q) THEN 0 ELSE sendWindow[i]]
      /\ recvWindow' = [i \in StreamId |-> IF i \in Evicted(q) THEN 0 ELSE recvWindow[i]]
      /\ sent' = [i \in StreamId |-> IF i \in Evicted(q) THEN NoProgress ELSE sent[i]]
      /\ received' = [i \in StreamId |-> IF i \in Evicted(q) THEN NoProgress ELSE received[i]]
  BY Zenon DEF End, SetStreams
<1>3. CASE id \in Evicted(q)
  BY <1>1, <1>2, <1>3, Zenon DEF Shrinks, Cleared
<1>4. CASE id \notin Evicted(q)
  <2>1. SameAttributes(id)
    BY <1>2, <1>4, Zenon DEF SameAttributes
  <2>2. CASE id \in Range(q)
    BY <1>1, <1>4, <2>1, <2>2, Zenon DEF Shrinks, Live
  <2>3. CASE id \notin Range(q)
    <3>1. state'[id] = state[id]
      BY <1>1, <1>4, <2>3, Zenon
    <3>2. local'[id] = local[id]
      <4>1. local[id] \in BOOLEAN
        BY Zenon DEF TableInv, TableTypeOK
      <4>2. local' = [i \in StreamId |-> local[i] /\ i \notin Evicted(q)]
        BY <1>1, Zenon
      <4>3. local'[id] = (local[id] /\ id \notin Evicted(q))
        BY <4>2, Zenon
      <4> QED
        BY <1>4, <4>1, <4>3
    <3> QED
      BY <2>1, <3>1, <3>2, Zenon DEF Shrinks
  <2> QED
    BY <2>2, <2>3, Zenon
<1> QED
  BY <1>3, <1>4, Zenon

\* The sequences the actions close.
LEMMA EndFewShrinks ==
  ASSUME TableInv, NEW id, End(IfLive(id)) \/ (End(<<id>>) /\ id \in Live)
  PROVE  \A i \in StreamId : Shrinks(i)
<1>1. Range(<<>>) \subseteq Live
  BY DEF Range
<1>2. id \in Live => Range(<<id>>) \subseteq Live
  BY DEF Range
<1> QED
  BY <1>1, <1>2, EndShrinks, Zenon DEF IfLive

\* A step that leaves the table and the attributes alone.
LEMMA SameShrinks ==
  ASSUME UNCHANGED <<state, local, sendWindow, recvWindow, sent, received>>
  PROVE  \A id \in StreamId : Shrinks(id)
  BY Zenon DEF Shrinks, SameAttributes

\* Failing the connection closes nothing.
LEMMA ErrorShrinks == ASSUME NEW code \in Failures, ConnectionError(code) PROVE ShrinkStep
<1>1. /\ UNCHANGED <<tableVars, streamVars, windowVars, settingVars, lastProcessedPeerStream>>
      /\ frame' = NoFrame /\ decoding' = FALSE /\ failed' = code
  BY Zenon DEF ConnectionError, Failure
<1>2. code # "none"
  BY Zenon DEF Failures
<1>3. \A id \in StreamId : Shrinks(id)
  BY <1>1, SameShrinks, Zenon DEF tableVars, streamVars
<1> QED
  BY <1>1, <1>2, <1>3, Zenon DEF ShrinkStep, PeerShrinks, ParserShrinks, settingVars

\* An order of a set lists the whole set.
LEMMA OrdersRange == ASSUME NEW S, NEW q \in Orders(S) PROVE Range(q) = S
  BY Zenon DEF Orders, Bijection, Injection, Surjection, Range

\* A step that at most closes streams and has nothing to do with a frame.
LEMMA StreamsShrink ==
  ASSUME \A id \in StreamId : Shrinks(id),
         UNCHANGED <<windowVars, peer, limits, lastProcessedPeerStream, frame>>,
         decoding' => decoding /\ current' = current /\ block'.end = block.end
  PROVE  ShrinkStep
  BY Zenon DEF ShrinkStep, PeerShrinks, ParserShrinks

\* A step that leaves the streams, the settings and the parser alone.
LEMMA QuietShrinks ==
  ASSUME UNCHANGED <<state, local, sendWindow, recvWindow, sent, received, windowVars, peer,
                     limits, lastProcessedPeerStream, frame, headerVars>>
  PROVE  ShrinkStep
<1>1. \A id \in StreamId : Shrinks(id)
  BY SameShrinks, Zenon
<1> QED
  BY <1>1, StreamsShrink, Zenon DEF headerVars

\* Every local call closes streams at most, or is one of five.
LEMMA LocalCallCases == ASSUME TableInv, LocalCall PROVE ShrinkStep \/ GrowStep
<1>1. CASE \E section \in Sections, end \in BOOLEAN :
             \/ OpenStream(section, end)
             \/ \E id \in StreamId : SendHeaders(id, section, end)
  BY <1>1, Zenon DEF GrowStep
<1>2. CASE \E section \in Sections, end \in BOOLEAN : OpenStreamFails(section, end)
  BY <1>2, QuietShrinks, Zenon
     DEF OpenStreamFails, SpendLocal, streamVars, settingVars, localUnchanged
<1>3. CASE \E id \in StreamId, section \in Sections : PushPromise(id, section)
  BY <1>3, Zenon DEF GrowStep
<1>4. CASE \E id \in StreamId, section \in Sections : PushPromiseFails(id, section)
  BY <1>4, QuietShrinks, Zenon
     DEF PushPromiseFails, SpendLocal, streamVars, settingVars, localUnchanged
<1>5. CASE \E id \in StreamId, n \in DataLengths, end \in BOOLEAN : SendData(id, n, end)
  BY <1>5, Zenon DEF GrowStep
<1>6. CASE \E id \in StreamId : ResetStream(id)
  <2> PICK id \in StreamId : ResetStream(id)
    BY <1>6, Zenon
  <2>1. End(IfLive(id)) /\ UNCHANGED <<windowVars, settingVars, localUnchanged>>
    BY Zenon DEF ResetStream
  <2>2. \A i \in StreamId : Shrinks(i)
    BY <2>1, EndFewShrinks, Zenon
  <2> QED
    BY <2>1, <2>2, StreamsShrink, Zenon DEF settingVars, localUnchanged, headerVars
<1>7. CASE \E settings \in LocalSettings : UpdateSettings(settings)
  BY <1>7, Zenon DEF GrowStep
<1>8. CASE SendControl \/ GoAway \/ ConsumeOutput \/ NextEvent
  BY <1>8, QuietShrinks, Zenon DEF SendControl, GoAway, ConsumeOutput, NextEvent, tableVars, streamVars,
     settingVars, localUnchanged
<1>9. CASE Close
  <2>1. /\ UNCHANGED <<windowVars, settingVars, localUnchanged>>
        /\ state' = [id \in StreamId |-> "idle"]
        /\ sendWindow' = [id \in StreamId |-> 0]
        /\ recvWindow' = [id \in StreamId |-> 0]
        /\ sent' = [id \in StreamId |-> NoProgress]
        /\ received' = [id \in StreamId |-> NoProgress]
    BY <1>9, Zenon DEF Close, ClearStreams
  <2>2. \A id \in StreamId : Shrinks(id)
    BY <2>1, Zenon DEF Shrinks, Cleared
  <2> QED
    BY <2>1, <2>2, StreamsShrink, Zenon DEF settingVars, localUnchanged, headerVars
<1> QED
  BY <1>1, <1>2, <1>3, <1>4, <1>5, <1>6, <1>7, <1>8, <1>9, Zenon DEF LocalCall

\* Every control frame closes streams at most, or is one of three.
LEMMA ReceiveControlCases ==
  ASSUME TableInv, Typed, ReceiveControl
  PROVE  ShrinkStep \/ GrowStep
<1>0. ASSUME NEW code \in Failures, ConnectionError(code) PROVE ShrinkStep
  BY <1>0, ErrorShrinks, Zenon
<1>a. {"PROTOCOL", "FLOW_CONTROL", "INTERNAL"} \subseteq Failures
  BY Zenon DEF Failures
<1>1. CASE RecvPreface
  BY <1>1, QuietShrinks, Zenon DEF RecvPreface, tableVars, streamVars, settingVars
<1>2. CASE ParseError \/ FirstFrameNotSettings
  BY <1>2, <1>0, <1>a, Zenon DEF ParseError, FirstFrameNotSettings
<1>3. CASE RecvPriority \/ RecvUnknown \/ \E valid \in BOOLEAN : RecvPriorityUpdate(valid)
  <2>1. UNCHANGED <<tableVars, streamVars, controlUnchanged>>
    BY <1>3, Zenon DEF RecvPriority, RecvUnknown, RecvPriorityUpdate
  <2> QED
    BY <2>1, QuietShrinks, Zenon DEF controlUnchanged, tableVars, streamVars, settingVars
<1>4. CASE \E id \in StreamId : RecvRSTStreamUnknown(id) \/ RecvWindowUpdateLate(id)
  <2>1. \/ ConnectionError("PROTOCOL")
        \/ UNCHANGED <<tableVars, streamVars, controlUnchanged>>
    BY <1>4, Zenon DEF RecvRSTStreamUnknown, RecvWindowUpdateLate
  <2> QED
    BY <2>1, <1>0, <1>a, QuietShrinks, Zenon DEF controlUnchanged, tableVars, streamVars, settingVars
<1>5. CASE \E id \in StreamId : RecvRSTStream(id)
  <2> PICK id \in StreamId : RecvRSTStream(id)
    BY <1>5, Zenon
  <2>1. End(IfLive(id)) /\ UNCHANGED controlUnchanged
    BY Zenon DEF RecvRSTStream
  <2>2. \A i \in StreamId : Shrinks(i)
    BY <2>1, EndFewShrinks, Zenon
  <2> QED
    BY <2>1, <2>2, StreamsShrink, Zenon DEF settingVars, controlUnchanged, headerVars
<1>6. CASE \E settings \in PeerSettings : RecvSettingsRejected(settings)
  BY <1>6, <1>0, <1>a, Zenon DEF RecvSettingsRejected
<1>7. CASE \E settings \in PeerSettings : RecvSettings(settings)
  BY <1>7, Zenon DEF GrowStep
<1>8. CASE RecvSettingsAck
  <2>1. \/ ConnectionError("PROTOCOL")
        \/ UNCHANGED <<tableVars, streamVars, windowVars, peer, limits,
                       lastProcessedPeerStream, frame, headerVars>>
    BY <1>8, Zenon DEF RecvSettingsAck
  <2> QED
    BY <2>1, <1>0, <1>a, QuietShrinks, Zenon DEF tableVars, streamVars
<1>9. CASE \E ack \in BOOLEAN : RecvPing(ack)
  <2>1. \/ ConnectionError("INTERNAL")
        \/ UNCHANGED <<tableVars, streamVars, controlUnchanged>>
    BY <1>9, Zenon DEF RecvPing
  <2> QED
    BY <2>1, <1>0, <1>a, QuietShrinks, Zenon DEF controlUnchanged, tableVars, streamVars, settingVars
<1>10. CASE \E last \in LastStreams : RecvGoAway(last)
  <2> PICK last \in LastStreams : RecvGoAway(last)
    BY <1>10, Zenon
  <2>1. CASE ConnectionError("PROTOCOL")
    BY <2>1, <1>0, <1>a, Zenon
  <2>2. CASE ~ConnectionError("PROTOCOL")
    <3> DEFINE refused == {id \in LocalLive : id > last}
    <3>1. /\ peer' = [peer EXCEPT !.goAway = TRUE, !.lastStream = last]
          /\ \E q \in Orders(refused) : End(q)
          /\ UNCHANGED <<windowVars, limits, lastProcessedPeerStream, frame, headerVars>>
      BY <2>2, Zenon DEF RecvGoAway
    <3> PICK q \in Orders(refused) : End(q)
      BY <3>1, Zenon
    <3>2. Range(q) = refused
      BY OrdersRange, Zenon
    <3>3. \A id \in StreamId : Shrinks(id)
      BY <3>2, EndShrinks, Zenon DEF LocalLive
    <3>4. ASSUME NEW id \in StreamId, state'[id] \in LiveState, local'[id]
          PROVE  id <= last
      <4>1. /\ state' = [i \in StreamId |-> IF i \in Evicted(q) THEN "idle"
                                            ELSE IF i \in Range(q) THEN "closed" ELSE state[i]]
            /\ local' = [i \in StreamId |-> local[i] /\ i \notin Evicted(q)]
        BY Zenon DEF End, CloseStreams
      <4>2. id \notin Evicted(q) /\ id \notin Range(q) /\ state[id] \in LiveState
        BY <3>4, <4>1, Zenon DEF LiveState
      <4>3. local[id]
        BY <3>4, <4>1, Zenon
      <4>4. id \in LocalLive
        BY <4>2, <4>3, Zenon DEF LocalLive, Live
      <4>5. last \in Int
        BY SessionAssumption
      <4> QED
        BY <4>2, <4>4, <4>5, <3>2, SMTT(30) DEF StreamId
    <3>5. PeerShrinks
      <4>1. peer'.initialWindow = peer.initialWindow /\ peer'.lastStream = last
        <5>1. peer \in [maxConcurrent : Nat, initialWindow : 0 .. MaxWindow,
               maxFrame : Nat \ {0}, enablePush : BOOLEAN, noPriorities : BOOLEAN,
               settled : BOOLEAN, goAway : BOOLEAN, lastStream : 0 .. MaxStreamId]
          BY Zenon DEF Typed, ConnectionTyped
        <5> QED
          BY <3>1, <5>1, Zenon
      <4> QED
        BY <4>1, <3>4, Zenon DEF PeerShrinks
    <3> QED
      BY <3>1, <3>3, <3>5, Zenon DEF ShrinkStep, ParserShrinks, headerVars
  <2> QED
    BY <2>1, <2>2, Zenon
<1>11. CASE \E n \in Increments : RecvConnectionWindowUpdate(n)
  <2> PICK n \in Increments : RecvConnectionWindowUpdate(n)
    BY <1>11, Zenon
  <2>1. \/ ConnectionError("FLOW_CONTROL")
        \/ /\ connectionSendWindow <= MaxWindow - n
           /\ connectionSendWindow' = connectionSendWindow + n
           /\ UNCHANGED <<tableVars, streamVars, connectionRecvWindow, settingVars,
                          lastProcessedPeerStream, prefaced, frame, headerVars>>
    BY Zenon DEF RecvConnectionWindowUpdate
  <2>2. ConnectionError("FLOW_CONTROL") \/ ConnectionCredited(n)
    BY <2>1, Zenon DEF ConnectionCredited, settingVars
  <2> QED
    BY <2>2, <1>0, <1>a, Zenon DEF GrowStep
<1>12. CASE \E n \in Increments, id \in StreamId : RecvWindowUpdate(id, n)
  <2> PICK n \in Increments, id \in StreamId : RecvWindowUpdate(id, n)
    BY <1>12, Zenon
  <2>1. /\ id \in Live
        /\ UNCHANGED controlUnchanged
        /\ \/ End(<<id>>)
           \/ /\ sendWindow[id] <= MaxWindow - n
              /\ sendWindow' = [sendWindow EXCEPT ![id] = sendWindow[id] + n]
              /\ UNCHANGED <<tableVars, recvWindow, sent, received, method>>
    BY Zenon DEF RecvWindowUpdate
  <2>2. CASE End(<<id>>)
    <3>1. \A i \in StreamId : Shrinks(i)
      BY <2>1, <2>2, EndFewShrinks, Zenon
    <3> QED
      BY <2>1, <3>1, StreamsShrink, Zenon DEF settingVars, controlUnchanged, headerVars
  <2>3. CASE ~End(<<id>>)
    <3>1. StreamCredited(id, n)
      BY <2>1, <2>3, Zenon
         DEF StreamCredited, connectionVars, controlUnchanged, settingVars, windowVars
    <3> QED
      BY <3>1, Zenon DEF GrowStep
  <2> QED
    BY <2>2, <2>3, Zenon
<1> QED
  BY <1>1, <1>2, <1>3, <1>4, <1>5, <1>6, <1>7, <1>8, <1>9, <1>10, <1>11, <1>12, ZenonT(40)
     DEF ReceiveControl

\* Every step of a header block closes streams at most, or is one of four.
LEMMA ReceiveHeadersCases == ASSUME Known, ReceiveHeaders PROVE ShrinkStep \/ GrowStep
<1> USE DEF Known
<1>0. ASSUME NEW code \in Failures, ConnectionError(code) PROVE ShrinkStep
  BY <1>0, ErrorShrinks, Zenon
<1>a. {"PROTOCOL", "STREAM_CLOSED", "COMPRESSION", "ENHANCE_YOUR_CALM"} \subseteq Failures
  BY Zenon DEF Failures
<1>b. ASSUME NEW id \in StreamId, NEW end, Settled, RefuseBlock(id, end) PROVE ShrinkStep
  <2>1. /\ End(IfLive(id))
        /\ UNCHANGED <<current, decoding, beginUnchanged>>
        /\ block = NoBlock
    BY <1>b, Zenon DEF RefuseBlock, Settled, AtFrame
  <2>2. \A i \in StreamId : Shrinks(i)
    BY <2>1, EndFewShrinks, Zenon
  <2>3. ~decoding'
    BY <2>1, Zenon DEF DecoderFollowsParser
  <2> QED
    BY <2>1, <2>2, <2>3, StreamsShrink, Zenon DEF beginUnchanged, settingVars
<1>1. CASE \E id \in StreamId, end \in BOOLEAN : RecvHeadersOpen(id, end)
  <2> PICK id \in StreamId, end \in BOOLEAN : RecvHeadersOpen(id, end)
    BY <1>1, Zenon
  <2>1. CASE PeerMayOpen(id) /\ PeerFits
    <3>1. /\ Settled /\ state[id] = "idle"
          /\ AllocatePeer(id, "open")
          /\ NewStream(id, NoProgress, "")
          /\ BeginBlock(id, end, FALSE)
          /\ Decode(id, id, FALSE, FALSE)
          /\ UNCHANGED beginUnchanged
      <4>1. ~(~PeerMayOpen(id) /\ ConnectionError("PROTOCOL"))
        BY <2>1, Zenon
      <4>2. ~(PeerMayOpen(id) /\ ~PeerFits /\ RefuseBlock(id, end))
        BY <2>1, Zenon
      <4> QED
        BY <4>1, <4>2, Zenon DEF RecvHeadersOpen
    <3>2. PeerOpens(id, end)
      BY <3>1, <2>1, Zenon DEF PeerOpens, beginUnchanged, connectionVars, settingVars, PeerMayOpen
    <3> QED
      BY <3>2, Zenon DEF GrowStep
  <2>2. CASE ~(PeerMayOpen(id) /\ PeerFits)
    <3>1. Settled /\ (ConnectionError("PROTOCOL") \/ RefuseBlock(id, end))
      BY <2>2, Zenon DEF RecvHeadersOpen
    <3> QED
      BY <3>1, <1>0, <1>a, <1>b, Zenon
  <2> QED
    BY <2>1, <2>2, Zenon
<1>2. CASE \E id \in StreamId, end \in BOOLEAN : RecvHeaders(id, end)
  <2> PICK id \in StreamId, end \in BOOLEAN : RecvHeaders(id, end)
    BY <1>2, Zenon
  <2>1. /\ Settled
        /\ \/ ConnectionError("STREAM_CLOSED")
           \/ RefuseBlock(id, end)
           \/ /\ CanReceive(state[id])
              /\ ~received[id].trailers
              /\ ~(received[id].headers /\ ~end)
              /\ IF state[id] = "reservedRemote" THEN Move(id, "halfClosedLocal")
                 ELSE UNCHANGED tableVars
              /\ BeginBlock(id, end, FALSE)
              /\ Decode(id, id, received[id].headers, FALSE)
              /\ UNCHANGED <<streamVars, output, events, statusVars, beginUnchanged>>
    BY Zenon DEF RecvHeaders
  <2>2. ConnectionError("STREAM_CLOSED") \/ RefuseBlock(id, end) \/ PeerContinues(id, end)
    BY <2>1, Zenon DEF PeerContinues, beginUnchanged, connectionVars, settingVars
  <2>3. PeerContinues(id, end) => GrowStep
    BY Zenon DEF GrowStep
  <2> QED
    BY <2>1, <2>2, <2>3, <1>0, <1>a, <1>b, Zenon
<1>3. CASE \E parent, id \in StreamId : RecvPushPromise(parent, id)
  <2> PICK parent \in StreamId, id \in StreamId : RecvPushPromise(parent, id)
    BY <1>3, Zenon
  <2>1. /\ Settled
        /\ \/ ConnectionError("PROTOCOL")
           \/ UNCHANGED <<tableVars, streamVars, current, decoding, statusVars, beginUnchanged>>
           \/ /\ Role = "client" /\ ~Own(id)
              /\ AllocatePeer(id, "reservedRemote")
              /\ NewStream(id, NoProgress, "")
              /\ BeginBlock(parent, FALSE, TRUE)
              /\ Decode(parent, id, FALSE, TRUE)
              /\ UNCHANGED <<output, events, statusVars, beginUnchanged>>
    BY Zenon DEF RecvPushPromise
  <2>2. CASE ConnectionError("PROTOCOL")
    BY <2>2, <1>0, <1>a, Zenon
  <2>3. CASE UNCHANGED <<tableVars, streamVars, current, decoding, statusVars, beginUnchanged>>
    <3>1. \A i \in StreamId : Shrinks(i)
      BY <2>3, SameShrinks, Zenon DEF tableVars, streamVars
    <3>2. block = NoBlock
      BY <2>1, Zenon DEF Settled, AtFrame
    <3>3. ~decoding'
      BY <2>3, <3>2, Zenon DEF DecoderFollowsParser
    <3> QED
      BY <2>3, <3>1, <3>3, StreamsShrink, Zenon DEF beginUnchanged, settingVars
  <2>4. CASE /\ Role = "client" /\ ~Own(id)
             /\ AllocatePeer(id, "reservedRemote")
             /\ NewStream(id, NoProgress, "")
             /\ BeginBlock(parent, FALSE, TRUE)
             /\ Decode(parent, id, FALSE, TRUE)
             /\ UNCHANGED <<output, events, statusVars, beginUnchanged>>
    <3>1. PeerPromises(parent, id)
      BY <2>1, <2>4, Zenon DEF PeerPromises, beginUnchanged, connectionVars, settingVars
    <3> QED
      BY <3>1, Zenon DEF GrowStep
  <2> QED
    BY <2>1, <2>2, <2>3, <2>4, Zenon
<1>4. CASE ContinueBlock
  <2>1. /\ block' = [block EXCEPT !.continued = TRUE]
        /\ UNCHANGED <<tableVars, streamVars, windowVars, settingVars,
                       lastProcessedPeerStream, frame, current, decoding>>
    BY <1>4, Zenon DEF ContinueBlock
  <2>2. \A i \in StreamId : Shrinks(i)
    BY <2>1, SameShrinks, Zenon DEF tableVars, streamVars
  <2>3. block'.end = block.end
    BY <2>1, Zenon DEF Typed, ParserTyped
  <2> QED
    BY <2>1, <2>2, <2>3, StreamsShrink, ZenonT(40) DEF settingVars
<1>5. CASE EndIgnoredBlock
  <2>1. /\ block.stream # current.stream
        /\ UNCHANGED <<tableVars, streamVars, decoding, lastProcessedPeerStream, endUnchanged>>
    BY <1>5, Zenon DEF EndIgnoredBlock
  <2>2. \A i \in StreamId : Shrinks(i)
    BY <2>1, SameShrinks, Zenon DEF tableVars, streamVars
  <2>3. ~decoding'
    BY <2>1, Zenon DEF DecoderFollowsParser
  <2> QED
    BY <2>1, <2>2, <2>3, StreamsShrink, Zenon DEF settingVars, endUnchanged
<1>6. CASE \E section \in Sections : CompressionError(section) \/ EndBlockNoRoom(section)
  BY <1>6, <1>0, <1>a, Zenon DEF CompressionError, EndBlockNoRoom
<1>7. CASE \E section \in Sections : EndRejectedBlock(section)
  <2> PICK section \in Sections : EndRejectedBlock(section)
    BY <1>7, Zenon
  <2>1. /\ End(IfLive(current.event)) \/ UNCHANGED <<tableVars, streamVars, events>>
        /\ decoding' = FALSE
        /\ UNCHANGED <<lastProcessedPeerStream, endUnchanged>>
    BY Zenon DEF EndRejectedBlock
  <2>2. \A i \in StreamId : Shrinks(i)
    BY <2>1, EndFewShrinks, SameShrinks, Zenon DEF tableVars, streamVars
  <2> QED
    BY <2>1, <2>2, StreamsShrink, Zenon DEF endUnchanged, settingVars
<1>8. CASE \E section \in Sections : EndPushPromise(section)
  <2>1. /\ UNCHANGED <<tableVars, sendWindow, recvWindow, sent, received,
                       lastProcessedPeerStream, endUnchanged>>
        /\ decoding' = FALSE
    BY <1>8, Zenon DEF EndPushPromise, EndBlock
  <2>2. \A i \in StreamId : Shrinks(i)
    BY <2>1, SameShrinks, Zenon DEF tableVars
  <2> QED
    BY <2>1, <2>2, StreamsShrink, Zenon DEF endUnchanged, settingVars
<1>9. CASE \E section \in Sections : EndInformational(section)
  <2> PICK section \in Sections : EndInformational(section)
    BY <1>9, Zenon
  <2>1. /\ End(IfLive(current.event)) \/ UNCHANGED <<tableVars, streamVars>>
        /\ decoding' = FALSE
        /\ UNCHANGED <<lastProcessedPeerStream, endUnchanged>>
    BY Zenon DEF EndInformational, EndBlock
  <2>2. \A i \in StreamId : Shrinks(i)
    BY <2>1, EndFewShrinks, SameShrinks, Zenon DEF tableVars, streamVars
  <2> QED
    BY <2>1, <2>2, StreamsShrink, Zenon DEF endUnchanged, settingVars
<1>10. CASE \E section \in Sections : EndMessageBlock(section)
  BY <1>10, Zenon DEF GrowStep
<1> QED
  BY <1>1, <1>2, <1>3, <1>4, <1>5, <1>6, <1>7, <1>8, <1>9, <1>10, Zenon DEF ReceiveHeaders

\* Every step of a DATA frame closes streams at most, or is one of three.
LEMMA ReceiveDataCases == ASSUME Known, ReceiveData PROVE ShrinkStep \/ GrowStep
<1> USE DEF Known
<1>0. ASSUME NEW code \in Failures, ConnectionError(code) PROVE ShrinkStep
  BY <1>0, ErrorShrinks, Zenon
<1>a. {"FLOW_CONTROL", "ENHANCE_YOUR_CALM"} \subseteq Failures
  BY Zenon DEF Failures
<1>b. frame.stream \in StreamId \/ frame = NoFrame
  BY DEF ParserInv, StreamId
<1>1. CASE \E id \in StreamId, n \in DataLengths :
             \E m \in 0 .. n, end \in BOOLEAN : BeginData(id, n, m, end)
  <2> PICK id \in StreamId, n \in DataLengths :
             \E m \in 0 .. n, end \in BOOLEAN : BeginData(id, n, m, end)
    BY <1>1, Zenon
  <2> PICK m \in 0 .. n, end \in BOOLEAN : BeginData(id, n, m, end)
    BY Zenon
  <2>1. /\ Settled
        /\ frame' = [stream |-> id, left |-> m, end |-> end]
        /\ UNCHANGED <<lastProcessedPeerStream, dataUnchanged>>
        /\ \/ End(IfLive(id)) /\ UNCHANGED windowVars
           \/ /\ ~(\/ ~CanReceive(state[id])
                   \/ ~received[id].headers
                   \/ received[id].trailers
                   \/ received[id].noBody)
              /\ n <= connectionRecvWindow
              /\ n <= recvWindow[id]
              /\ connectionRecvWindow' = connectionRecvWindow - n
              /\ recvWindow' = [recvWindow EXCEPT ![id] = recvWindow[id] - n]
              /\ UNCHANGED <<tableVars, sendWindow, sent, received, method,
                             connectionSendWindow, output, events>>
    BY Zenon DEF BeginData
  <2>2. CASE End(IfLive(id)) /\ UNCHANGED windowVars
    <3>1. \A i \in StreamId : Shrinks(i)
      BY <2>2, EndFewShrinks, Zenon
    <3>2. frame = NoFrame /\ frame'.stream = id /\ ~decoding
      BY <2>1, Zenon DEF Settled, AtFrame, DecoderFollowsParser
    <3>3. state'[id] \notin LiveState
      <4> DEFINE q == IfLive(id)
      <4>1. state' = [i \in StreamId |-> IF i \in Evicted(q) THEN "idle"
                                         ELSE IF i \in Range(q) THEN "closed" ELSE state[i]]
        BY <2>2, Zenon DEF End, CloseStreams
      <4>2. id \in Live => id \in Range(q)
        BY DEF IfLive, Range
      <4> HIDE DEF q
      <4> QED
        BY <4>1, <4>2, Zenon DEF Live, LiveState
    <3> QED
      BY <2>1, <2>2, <3>1, <3>2, <3>3, Zenon
         DEF ShrinkStep, PeerShrinks, ParserShrinks, dataUnchanged, settingVars, headerVars
  <2>3. CASE ~(End(IfLive(id)) /\ UNCHANGED windowVars)
    <3>1. DataAccepted(id, n, m, end)
      BY <2>1, <2>3, Zenon DEF DataAccepted, dataUnchanged, settingVars
    <3>2. m \in Nat
      BY SessionAssumption
    <3> QED
      BY <3>1, <3>2, Zenon DEF GrowStep
  <2> QED
    BY <2>2, <2>3, Zenon
<1>2. CASE \E id \in StreamId, n \in DataLengths : BeginDataOverConnectionWindow(id, n)
  BY <1>2, <1>0, <1>a, Zenon DEF BeginDataOverConnectionWindow
<1>3. CASE \E k \in DataLengths : RecvDataFragment(k)
  <2> PICK k \in DataLengths : RecvDataFragment(k)
    BY <1>3, Zenon
  <2> DEFINE id == frame.stream
  <2>1. /\ k \in 1 .. frame.left
        /\ frame' = [frame EXCEPT !.left = frame.left - k]
        /\ UNCHANGED <<windowVars, lastProcessedPeerStream, dataUnchanged>>
        /\ \/ UNCHANGED <<tableVars, streamVars>>
           \/ End(IfLive(id))
           \/ /\ state[id] # "idle"
              /\ ~Exceeds(received[id], k)
              /\ received' = [received EXCEPT ![id] = AfterData(received[id], k)]
              /\ UNCHANGED <<tableVars, sendWindow, recvWindow, sent>>
    BY Zenon DEF RecvDataFragment
  <2>2. id \in StreamId /\ frame'.stream = id
    BY <2>1, <1>b DEF ParserInv, NoFrame
  <2>3. CASE UNCHANGED <<tableVars, streamVars>> \/ End(IfLive(id))
    <3>1. \A i \in StreamId : Shrinks(i)
      BY <2>3, EndFewShrinks, SameShrinks, Zenon DEF tableVars, streamVars
    <3> QED
      BY <2>1, <2>2, <3>1, Zenon
         DEF ShrinkStep, PeerShrinks, ParserShrinks, dataUnchanged, settingVars, headerVars
  <2>4. CASE ~(UNCHANGED <<tableVars, streamVars>> \/ End(IfLive(id)))
    <3>1. /\ UNCHANGED <<windowVars, lastProcessedPeerStream, peer, limits, headerVars>>
          /\ state[id] # "idle"
          /\ ~Exceeds(received[id], k)
          /\ received' = [received EXCEPT ![id] = AfterData(received[id], k)]
          /\ UNCHANGED <<tableVars, sendWindow, recvWindow, sent>>
      BY <2>1, <2>4, Zenon DEF dataUnchanged, settingVars
    <3>2. FragmentDelivered(k)
      BY <2>2, <3>1, Zenon DEF FragmentDelivered, connectionVars
    <3> QED
      BY <3>2, Zenon DEF GrowStep
  <2> QED
    BY <2>3, <2>4, Zenon
<1>4. CASE DataNoRoom
  BY <1>4, <1>0, <1>a, Zenon DEF DataNoRoom
<1>5. CASE CompleteData
  <2> DEFINE id == frame.stream
             rw == [recvWindow EXCEPT ![id] = recvWindow[id] + Credit(recvWindow[id])]
  <2>1. /\ frame # NoFrame /\ frame' = NoFrame
        /\ UNCHANGED dataUnchanged
        /\ \/ /\ state[id] = "idle"
              /\ UNCHANGED <<tableVars, streamVars, windowVars, lastProcessedPeerStream>>
           \/ /\ state[id] # "idle"
              /\ connectionRecvWindow' = connectionRecvWindow + Credit(connectionRecvWindow)
              /\ UNCHANGED connectionSendWindow
              /\ \/ \E n : RemoteEnd(id, rw, received, method, n, 0)
                 \/ /\ recvWindow' = rw
                    /\ UNCHANGED <<tableVars, sendWindow, sent, received,
                                   lastProcessedPeerStream>>
    BY <1>5, Zenon DEF CompleteData
  <2>2. CASE state[id] = "idle"
    <3>1. UNCHANGED <<tableVars, streamVars, windowVars, lastProcessedPeerStream>>
      BY <2>1, <2>2, Zenon
    <3>2. \A i \in StreamId : Shrinks(i)
      BY <3>1, SameShrinks, Zenon DEF tableVars, streamVars
    <3> QED
      BY <2>1, <2>2, <3>1, <3>2, Zenon
         DEF ShrinkStep, PeerShrinks, ParserShrinks, dataUnchanged, settingVars, headerVars
  <2>3. CASE state[id] # "idle"
    <3>1. id \in StreamId /\ UNCHANGED <<peer, limits, headerVars>>
      BY <2>1, <1>b, Zenon DEF dataUnchanged, settingVars
    <3>2. /\ frame' = NoFrame
          /\ connectionRecvWindow' = connectionRecvWindow + Credit(connectionRecvWindow)
          /\ UNCHANGED connectionSendWindow
          /\ \/ \E n : RemoteEnd(id, rw, received, method, n, 0)
             \/ /\ recvWindow' = rw
                /\ UNCHANGED <<tableVars, sendWindow, sent, received,
                               lastProcessedPeerStream>>
      BY <2>1, <2>3, Zenon
    <3>3. DataCompleted
      BY <2>3, <3>1, <3>2, Zenon DEF DataCompleted
    <3> QED
      BY <3>3, Zenon DEF GrowStep
  <2> QED
    BY <2>2, <2>3, Zenon
<1> QED
  BY <1>1, <1>2, <1>3, <1>4, <1>5, ZenonT(40) DEF ReceiveData

\* A step of a session closes streams at most, or is one of fifteen actions.
LEMMA StepCases == ASSUME Known, [Next]_vars PROVE ShrinkStep \/ GrowStep
<1>1. CASE UNCHANGED vars
  BY <1>1, QuietShrinks, Zenon DEF vars, tableVars, streamVars, settingVars
<1> QED
  BY <1>1, LocalCallCases, ReceiveControlCases, ReceiveHeadersCases, ReceiveDataCases, Zenon
     DEF Next, Known

\* Stream i when one side of stream id has ended, or a reservation has been used,
\* in a step that sets the attributes to the four functions.
Becomes(i, id, sw, rw, se, re) ==
  \/ /\ sendWindow'[i] = sw[i]
     /\ recvWindow'[i] = rw[i]
     /\ sent'[i] = se[i]
     /\ received'[i] = re[i]
     /\ local'[i] = local[i]
     /\ \/ state'[i] = state[i]
        \/ state'[i] = "closed" /\ state[i] \in LiveState
        \/ i = id /\ Follows(state[i], state'[i])
  \/ Cleared(i)

\* Closing no stream evicts none.
LEMMA NothingEvicted == ASSUME TableInv, ~closed PROVE Evicted(<<>>) = {}
<1>1. closedStreams \in Seq(StreamId) /\ Len(closedStreams) <= MaxClosedStreams
  BY Zenon DEF TableInv, TableTypeOK, ClosedExact
<1>2. Len(closedStreams \o <<>>) = Len(closedStreams)
  BY <1>1
<1>3. Len(closedStreams) \in Nat /\ MaxClosedStreams \in Nat
  BY <1>1, TableAssumption DEF TableAssumption
<1>4. Overflow(<<>>) = 0
  BY <1>1, <1>2, <1>3 DEF Overflow, ClosedQueue
<1> QED
  BY <1>4 DEF Evicted

\* What setting the attributes means, stream by stream.
LEMMA SetStreamsEach ==
  ASSUME NEW q, NEW sw, NEW rw, NEW se, NEW re, NEW me, SetStreams(q, sw, rw, se, re, me),
         NEW i \in StreamId
  PROVE  /\ i \in Evicted(q) => /\ sendWindow'[i] = 0 /\ recvWindow'[i] = 0
                                /\ sent'[i] = NoProgress /\ received'[i] = NoProgress
         /\ i \notin Evicted(q) => /\ sendWindow'[i] = sw[i] /\ recvWindow'[i] = rw[i]
                                   /\ sent'[i] = se[i] /\ received'[i] = re[i]
<1>1. /\ sendWindow' = [id \in StreamId |-> IF id \in Evicted(q) THEN 0 ELSE sw[id]]
      /\ recvWindow' = [id \in StreamId |-> IF id \in Evicted(q) THEN 0 ELSE rw[id]]
      /\ sent' = [id \in StreamId |-> IF id \in Evicted(q) THEN NoProgress ELSE se[id]]
      /\ received' = [id \in StreamId |-> IF id \in Evicted(q) THEN NoProgress ELSE re[id]]
  BY Zenon DEF SetStreams
<1> QED
  BY <1>1, Zenon

\* What closing streams of the table means, stream by stream.
LEMMA CloseStreamsEach ==
  ASSUME TableInv, NEW q, CloseStreams(q), NEW i \in StreamId
  PROVE  /\ i \in Evicted(q) => state'[i] = "idle"
         /\ i \notin Evicted(q) => /\ local'[i] = local[i]
                                   /\ state'[i] = IF i \in Range(q) THEN "closed" ELSE state[i]
<1>1. /\ state' = [id \in StreamId |-> IF id \in Evicted(q) THEN "idle"
                                       ELSE IF id \in Range(q) THEN "closed" ELSE state[id]]
      /\ local' = [id \in StreamId |-> local[id] /\ id \notin Evicted(q)]
  BY Zenon DEF CloseStreams
<1>2. local'[i] = (local[i] /\ i \notin Evicted(q))
  BY <1>1, Zenon
<1>3. local[i] \in BOOLEAN
  BY Zenon DEF TableInv, TableTypeOK
<1>4. i \notin Evicted(q) => local'[i] = local[i]
  BY <1>2, <1>3, Zenon
<1> QED
  BY <1>1, <1>4, Zenon

\* The same for streams that are closed with their attributes set.
LEMMA ClosedBecomes ==
  ASSUME TableInv, NEW q, Range(q) \subseteq Live, CloseStreams(q), NEW id,
         NEW sw, NEW rw, NEW se, NEW re, NEW me, SetStreams(q, sw, rw, se, re, me),
         NEW i \in StreamId
  PROVE  /\ Becomes(i, id, sw, rw, se, re)
         /\ i \in Range(q) => state'[i] \in {"closed", "idle"}
         /\ i \notin Range(q) => state'[i] \in {state[i], "idle"}
<1>1. CASE i \in Evicted(q)
  BY <1>1, SetStreamsEach, CloseStreamsEach, ZenonT(40) DEF Becomes, Cleared
<1>2. CASE i \notin Evicted(q)
  <2>1. /\ sendWindow'[i] = sw[i] /\ recvWindow'[i] = rw[i]
        /\ sent'[i] = se[i] /\ received'[i] = re[i]
    BY <1>2, SetStreamsEach
  <2>2. /\ local'[i] = local[i]
        /\ state'[i] = IF i \in Range(q) THEN "closed" ELSE state[i]
    BY <1>2, CloseStreamsEach, Zenon
  <2> QED
    BY <2>1, <2>2, Zenon DEF Becomes, Live
<1> QED
  BY <1>1, <1>2, Zenon

\* The same for a stream that moves to another state, or for none.
LEMMA MovedBecomes ==
  ASSUME TableInv, ~closed, NEW id \in StreamId,
         (\E st : Move(id, st)) \/ UNCHANGED tableVars,
         NEW sw, NEW rw, NEW se, NEW re, NEW me, SetStreams(<<>>, sw, rw, se, re, me),
         NEW i \in StreamId
  PROVE  Becomes(i, id, sw, rw, se, re)
<1>1. /\ sendWindow'[i] = sw[i] /\ recvWindow'[i] = rw[i]
      /\ sent'[i] = se[i] /\ received'[i] = re[i]
  BY NothingEvicted, SetStreamsEach
<1>2. CASE \E st : Move(id, st)
  <2> PICK st : Move(id, st)
    BY <1>2, Zenon
  <2>1. /\ Follows(state[id], st)
        /\ state' = [state EXCEPT ![id] = st]
        /\ local' = local
    BY Zenon DEF Move
  <2>2. state \in [StreamId -> StreamState]
    BY Zenon DEF TableInv, TableTypeOK
  <2> QED
    BY <1>1, <2>1, <2>2, Zenon DEF Becomes
<1>3. CASE UNCHANGED tableVars
  BY <1>1, <1>3, Zenon DEF Becomes, tableVars
<1> QED
  BY <1>2, <1>3, Zenon

\* Stream id can send until the frame with END_STREAM.
SendsUntil(id, end) == state'[id] \in LiveState /\ ~CanSend(state'[id]) => end

\* SendHeaders and SendData: stream id keeps a side that can still send, unless
\* the frame has ended it.
LEMMA LocalEndBecomes ==
  ASSUME TableInv, ~closed, NEW id \in StreamId, CanSend(state[id]), NEW end,
         NEW sw, NEW se, NEW me, LocalEnd(id, end, sw, se, me)
  PROVE  /\ \A i \in StreamId : Becomes(i, id, sw, recvWindow, se, received)
         /\ SendsUntil(id, end)
         /\ state'[id] \in LiveState /\ CanReceive(state[id]) => CanReceive(state'[id])
<1> DEFINE st == IF state[id] = "reservedLocal" THEN "halfClosedRemote" ELSE state[id]
           after == IF end /\ st = "open" THEN "halfClosedLocal" ELSE st
           q == IF end /\ st = "halfClosedRemote" THEN <<id>> ELSE <<>>
<1>1. /\ \/ q # <<>> /\ CloseStreams(q)
         \/ q = <<>> /\ after # state[id] /\ Move(id, after)
         \/ q = <<>> /\ after = state[id] /\ UNCHANGED tableVars
      /\ SetStreams(q, sw, recvWindow, se, received, me)
  BY Zenon DEF LocalEnd
<1>2. state \in [StreamId -> StreamState]
  BY Zenon DEF TableInv, TableTypeOK
<1>3. CASE q # <<>>
  <2>1. q = <<id>> /\ end /\ CloseStreams(<<id>>)
        /\ SetStreams(<<id>>, sw, recvWindow, se, received, me)
    BY <1>1, <1>3, Zenon
  <2>2. Range(<<id>>) \subseteq Live
    BY DEF Range, Live, CanSend, LiveState
  <2>3. \A i \in StreamId : /\ Becomes(i, id, sw, recvWindow, se, received)
                            /\ i \in Range(<<id>>) => state'[i] \in {"closed", "idle"}
    BY <2>1, <2>2, ClosedBecomes, Zenon
  <2>4. state'[id] \notin LiveState
    BY <2>3 DEF Range, LiveState
  <2> QED
    BY <2>1, <2>3, <2>4, Zenon DEF SendsUntil
<1>4. CASE q = <<>>
  <2>1. /\ (after # state[id] /\ Move(id, after)) \/ (after = state[id] /\ UNCHANGED tableVars)
        /\ SetStreams(<<>>, sw, recvWindow, se, received, me)
    BY <1>1, <1>4, Zenon
  <2>2. state'[id] = after
    BY <1>2, <2>1, Zenon DEF Move, tableVars
  <2>3. /\ ~CanSend(after) => end
        /\ CanReceive(state[id]) => CanReceive(after)
    BY Zenon DEF CanSend, CanReceive
  <2> HIDE DEF after, st
  <2>4. \A i \in StreamId : Becomes(i, id, sw, recvWindow, se, received)
    BY <2>1, MovedBecomes, Zenon
  <2> QED
    BY <2>2, <2>3, <2>4, Zenon DEF SendsUntil
<1> QED
  BY <1>3, <1>4, Zenon

\* remoteEnd: a stream that survives it has no wrong length, and can no longer
\* receive unless it was a reservation.
LEMMA RemoteEndBecomes ==
  ASSUME TableInv, NEW id \in StreamId, state[id] # "idle", NEW rw, NEW re, NEW me, NEW n,
         NEW e, RemoteEnd(id, rw, re, me, n, e)
  PROVE  /\ \A i \in StreamId : Becomes(i, id, sendWindow, rw, sent, re)
         /\ state'[id] \in LiveState => ~LengthMismatch(re[id])
         /\ CanReceive(state'[id]) => state[id] = "reservedRemote"
         /\ state'[id] \in LiveState /\ CanSend(state[id]) => CanSend(state'[id])
         /\ \/ lastProcessedPeerStream' = lastProcessedPeerStream
            \/ lastProcessedPeerStream' = id
<1> DEFINE mismatch == LengthMismatch(re[id])
           q == IF mismatch THEN IfLive(id)
                ELSE IF state[id] = "halfClosedLocal" THEN <<id>> ELSE <<>>
<1>1. /\ IF ~mismatch /\ state[id] = "open" THEN Move(id, "halfClosedRemote")
         ELSE CloseStreams(q)
      /\ SetStreams(q, sendWindow, rw, sent, re, me)
      /\ lastProcessedPeerStream' \in {lastProcessedPeerStream, id}
  BY Zenon DEF RemoteEnd
<1>2. state \in [StreamId -> StreamState]
  BY Zenon DEF TableInv, TableTypeOK
<1>3. CASE ~mismatch /\ state[id] = "open"
  <2>1. q = <<>> /\ Move(id, "halfClosedRemote")
    BY <1>1, <1>3, Zenon
  <2>2. ~closed /\ state'[id] = "halfClosedRemote"
    BY <1>2, <2>1, Zenon DEF Move
  <2>3. SetStreams(<<>>, sendWindow, rw, sent, re, me)
    BY <1>1, <2>1, Zenon
  <2>4. \A i \in StreamId : Becomes(i, id, sendWindow, rw, sent, re)
    BY <2>1, <2>2, <2>3, MovedBecomes, Zenon
  <2> QED
    BY <1>1, <1>3, <2>2, <2>4, Zenon DEF CanReceive, CanSend
<1>4. CASE ~(~mismatch /\ state[id] = "open")
  <2>1. CloseStreams(q) /\ SetStreams(q, sendWindow, rw, sent, re, me)
    BY <1>1, <1>4, Zenon
  <2>2. Range(q) \subseteq Live
    BY DEF Range, IfLive, Live, LiveState
  <2>3. mismatch /\ state[id] \in LiveState => id \in Range(q)
    BY DEF Range, IfLive, Live
  <2>4. ~mismatch /\ state[id] = "halfClosedLocal" => id \in Range(q)
    BY DEF Range
  <2> HIDE DEF mismatch, q
  <2>5. \A i \in StreamId : /\ Becomes(i, id, sendWindow, rw, sent, re)
                            /\ i \in Range(q) => state'[i] \in {"closed", "idle"}
                            /\ i \notin Range(q) => state'[i] \in {state[i], "idle"}
    BY <2>1, <2>2, ClosedBecomes, Zenon
  <2>6. state'[id] \in LiveState => ~mismatch
    BY <2>3, <2>5, Zenon DEF LiveState
  <2>7. CanReceive(state'[id]) => state[id] = "reservedRemote"
    BY <1>4, <2>3, <2>4, <2>5, Zenon DEF LiveState, CanReceive
  <2>8. state'[id] \in LiveState /\ CanSend(state[id]) => CanSend(state'[id])
    BY <2>5, Zenon DEF LiveState
  <2> QED
    BY <1>1, <2>5, <2>6, <2>7, <2>8, Zenon DEF mismatch
<1> QED
  BY <1>3, <1>4, Zenon

\* What SendHeaders and SendData do to the streams and the windows.
LEMMA SendBecomes ==
  ASSUME Known, NEW id \in StreamId,
         \/ \E section \in Sections, end \in BOOLEAN : SendHeaders(id, section, end)
         \/ \E n \in DataLengths, end \in BOOLEAN : SendData(id, n, end)
  PROVE  /\ UNCHANGED <<connectionRecvWindow, peer, limits, lastProcessedPeerStream, frame,
                        headerVars>>
         /\ state'[id] \in LiveState /\ CanReceive(state[id]) => CanReceive(state'[id])
         /\ \E used \in Nat : \E se :
              /\ used # 0 => used <= connectionSendWindow /\ used <= sendWindow[id]
              /\ connectionSendWindow' = connectionSendWindow - used
              /\ \A i \in StreamId :
                   Becomes(i, id, [sendWindow EXCEPT ![id] = sendWindow[id] - used],
                           recvWindow, se, received)
<1> USE DEF Known
<1>0. sendWindow \in [StreamId -> Int] /\ connectionSendWindow \in Int
  BY Zenon DEF Typed, StreamsTyped, ConnectionTyped
<1>1. ASSUME NEW section \in Sections, NEW end \in BOOLEAN, SendHeaders(id, section, end)
      PROVE  /\ UNCHANGED <<windowVars, settingVars, localUnchanged>>
             /\ state'[id] \in LiveState /\ CanReceive(state[id]) => CanReceive(state'[id])
             /\ \E se : \A i \in StreamId : Becomes(i, id, sendWindow, recvWindow, se, received)
  <2>1. /\ Ready /\ CanSend(state[id])
        /\ UNCHANGED <<windowVars, settingVars, localUnchanged>>
        /\ \E last, se, me : LocalEnd(id, last, sendWindow, se, me)
    BY <1>1, Zenon DEF SendHeaders
  <2>2. ~closed
    BY <2>1, Zenon DEF Ready
  <2> QED
    BY <2>1, <2>2, LocalEndBecomes, Zenon
<1>2. ASSUME NEW n \in DataLengths, NEW end \in BOOLEAN, SendData(id, n, end)
      PROVE  /\ UNCHANGED <<connectionRecvWindow, settingVars, localUnchanged>>
             /\ state'[id] \in LiveState /\ CanReceive(state[id]) => CanReceive(state'[id])
             /\ \E used \in Nat : \E se :
              /\ used # 0 => used <= connectionSendWindow /\ used <= sendWindow[id]
              /\ connectionSendWindow' = connectionSendWindow - used
              /\ \A i \in StreamId :
                   Becomes(i, id, [sendWindow EXCEPT ![id] = sendWindow[id] - used],
                           recvWindow, se, received)
  <2> DEFINE used == IF n = 0 THEN 0 ELSE Available(id, n)
             sw == [sendWindow EXCEPT ![id] = sendWindow[id] - used]
  <2>1. /\ Ready /\ CanSend(state[id])
        /\ IF n = 0 THEN end ELSE used > 0
        /\ UNCHANGED <<connectionRecvWindow, settingVars, localUnchanged>>
        /\ connectionSendWindow' = connectionSendWindow - used
        /\ \E last, se, me : LocalEnd(id, last, sw, se, me)
    BY <1>2, Zenon DEF SendData
  <2>2. ~closed
    BY <2>1, Zenon DEF Ready
  <2>3. /\ used \in Nat
        /\ used # 0 => used <= connectionSendWindow /\ used <= sendWindow[id]
    <3>1. n \in Nat
      BY SessionAssumption, Zenon
    <3> QED
      BY <2>1, <3>1, AvailableBounds DEF Typed
  <2> HIDE DEF used
  <2>4. /\ \E se : \A i \in StreamId : Becomes(i, id, sw, recvWindow, se, received)
        /\ state'[id] \in LiveState /\ CanReceive(state[id]) => CanReceive(state'[id])
    BY <2>1, <2>2, LocalEndBecomes, Zenon
  <2> QED
    BY <2>1, <2>3, <2>4, Zenon
<1>3. CASE \E section \in Sections, end \in BOOLEAN : SendHeaders(id, section, end)
  <2>1. sendWindow = [sendWindow EXCEPT ![id] = sendWindow[id] - 0]
    <3> DEFINE w == sendWindow[id] - 0
    <3>1. w = sendWindow[id]
      <4>1. sendWindow[id] \in Int
        BY <1>0, Zenon
      <4> QED
        BY <4>1
    <3> HIDE DEF w
    <3>2. sendWindow = [sendWindow EXCEPT ![id] = w]
      BY <1>0, <3>1, ZenonT(40)
    <3> QED
      BY <3>2, Zenon DEF w
  <2>2. connectionSendWindow' = connectionSendWindow - 0
    <3>1. connectionSendWindow' = connectionSendWindow /\ connectionSendWindow \in Int
      BY <1>0, <1>1, <1>3, Zenon DEF windowVars
    <3>2. \A w \in Int : w - 0 = w
      OBVIOUS
    <3> QED
      BY <3>1, <3>2, Zenon
  <2>3. \E se : \A i \in StreamId :
          Becomes(i, id, [sendWindow EXCEPT ![id] = sendWindow[id] - 0], recvWindow, se, received)
    BY <1>1, <1>3, <2>1, Zenon
  <2>4. UNCHANGED <<connectionRecvWindow, peer, limits, lastProcessedPeerStream, frame,
                    headerVars>>
    BY <1>1, <1>3, Zenon DEF windowVars, settingVars, localUnchanged
  <2>5. 0 \in Nat
    BY Zenon
  <2>6. state'[id] \in LiveState /\ CanReceive(state[id]) => CanReceive(state'[id])
    BY <1>1, <1>3, Zenon
  <2> QED
    BY <2>2, <2>3, <2>4, <2>5, <2>6, Zenon
<1>4. CASE \E n \in DataLengths, end \in BOOLEAN : SendData(id, n, end)
  <2>1. UNCHANGED <<connectionRecvWindow, peer, limits, lastProcessedPeerStream, frame,
                    headerVars>>
    BY <1>2, <1>4, Zenon DEF settingVars, localUnchanged
  <2> QED
    BY <1>2, <1>4, <2>1, Zenon
<1> QED
  BY <1>3, <1>4, Zenon
=============================================================================
