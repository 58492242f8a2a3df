--------------------------- MODULE AbiManagerProofs ---------------------------
(***************************************************************************)
(* The handle tables of the guest ABI for any number of instances, threads *)
(* and handles.                                                            *)
(***************************************************************************)
EXTENDS AbiManager, FiniteSetTheorems, WellFoundedInduction, TLAPS

\* A nonempty set of natural numbers has its minimum as an element.
LEMMA LeastElement ==
  ASSUME NEW S \in SUBSET Nat, S # {}
  PROVE  Min(S) \in S
<1> DEFINE R == {p \in Nat \X Nat : p[1] < p[2]}
<1>1. OpToRel(<, Nat) = R
  BY Zenon DEF OpToRel
<1>2. PICK x \in S : \A y \in S : <<y, x>> \notin R
  BY <1>1, NatLessThanWellFounded, WFMin, ZenonT(40)
<1>3. \A y, z \in Nat : y < z => <<y, z>> \in R
  BY Zenon
<1> HIDE DEF R
<1>4. ASSUME NEW y \in S PROVE x <= y
  <2>1. x \in Nat /\ y \in Nat
    BY Zenon
  <2>2. ~(y < x)
    BY <1>2, <1>3, <2>1, Zenon
  <2> QED
    BY <2>1, <2>2
<1> QED
  BY <1>4, Zenon DEF Min

-----------------------------------------------------------------------------
(* Handles                                                                 *)

\* Counting on from any handle, modulo the width of a handle, reaches them all.
LEMMA HandlesReached ==
  ASSUME NEW next \in Handles, NEW h \in Handles
  PROVE  \E k \in Handles : (next + k) % Modulus = h
<1>1. Modulus \in Nat /\ Modulus > 0
  BY AbiAssumption
<1>2. h % Modulus = h /\ (h + Modulus) % Modulus = h
  BY <1>1 DEF Handles
<1>3. CASE next <= h
  <2>1. h - next \in Handles /\ next + (h - next) = h
    BY <1>1, <1>3 DEF Handles
  <2> QED
    BY <1>2, <2>1, Zenon
<1>4. CASE h < next
  <2>1. h + Modulus - next \in Handles /\ next + (h + Modulus - next) = h + Modulus
    BY <1>1, <1>4 DEF Handles
  <2> QED
    BY <1>2, <2>1, Zenon
<1> QED
  BY <1>3, <1>4 DEF Handles

\* The successor of a handle is one.
LEMMA NextHandleType == ASSUME NEW h \in Handles PROVE NextHandle(h) \in Handles
  BY AbiAssumption DEF NextHandle, Handles

\* Sets of handles are finite.
LEMMA HandleSetsFinite ==
  ASSUME NEW S \in SUBSET Handles
  PROVE  IsFiniteSet(S) /\ Cardinality(S) \in Nat
<1>1. IsFiniteSet(Handles)
  BY FS_Interval, AbiAssumption DEF Handles
<1> QED
  BY <1>1, FS_Subset, FS_CardinalityType, Zenon

\* sessionOpen finds a handle: below the limit on sessions, one that is neither 0
\* nor in use exists, so that the search of the code never comes round.
LEMMA HandleFound ==
  ASSUME AbiTypeOK, SessionsBounded, NEW st \in States, HasSlot(st)
  PROVE  FreeHandle(st) \in Handles \ ({0} \cup Used(st))
<1>0. Modulus \in Nat /\ MaxSessions \in Nat /\ Modulus > MaxSessions /\ 0 \in Handles
  BY AbiAssumption DEF Handles
<1>1. PICK h \in Handles : h # 0 /\ h \notin Used(st)
  <2>1. IsFiniteSet(Handles) /\ Cardinality(Handles) = Modulus
    BY <1>0, FS_Interval DEF Handles
  <2>2. Used(st) \in SUBSET Handles
    BY Zenon DEF Used
  <2>3. /\ IsFiniteSet(Used(st) \cup {0})
        /\ Cardinality(Used(st) \cup {0}) <= Cardinality(Used(st)) + 1
        /\ Cardinality(Used(st)) \in Nat
    <3>1. IsFiniteSet(Used(st)) /\ Cardinality(Used(st)) \in Nat
      BY <2>2, HandleSetsFinite, Zenon
    <3>2. /\ IsFiniteSet(Used(st) \cup {0})
          /\ Cardinality(Used(st) \cup {0}) =
               IF 0 \in Used(st) THEN Cardinality(Used(st)) ELSE Cardinality(Used(st)) + 1
      BY <3>1, FS_AddElement, Zenon
    <3> QED
      BY <3>1, <3>2
  <2>4. Used(st) \cup {0} # Handles
    <3>1. Cardinality(Used(st)) < MaxSessions
      BY Zenon DEF HasSlot
    <3>2. Cardinality(Used(st) \cup {0}) # Modulus
      BY <1>0, <2>3, <3>1, FS_CardinalityType
    <3> QED
      BY <2>1, <3>2, Zenon
  <2> QED
    BY <1>0, <2>2, <2>4, Zenon
<1> DEFINE Handle(k) == (tables[st].next + k) % Modulus
           free == {k \in Handles : Handle(k) # 0 /\ tables[st].sessions[Handle(k)] = None}
<1>2. \A k \in Handles : Handle(k) \in Handles
  BY <1>0 DEF AbiTypeOK, Table, Handles
<1>3. free # {}
  <2>1. tables[st].next \in Handles
    BY Zenon DEF AbiTypeOK, Table
  <2>2. PICK k \in Handles : Handle(k) = h
    BY <2>1, HandlesReached, Zenon
  <2>3. tables[st].sessions[h] = None
    BY <1>1, Zenon DEF Used
  <2> QED
    BY <1>1, <2>2, <2>3, Zenon
<1>4. free \in SUBSET Nat
  BY DEF Handles
<1>5. Min(free) \in free
  BY <1>3, <1>4, LeastElement, Zenon
<1>6. FreeHandle(st) = Handle(Min(free))
  BY Zenon DEF FreeHandle
<1> HIDE DEF Handle
<1> QED
  BY <1>2, <1>5, <1>6, Zenon DEF Used

\* The session that sessionOpen makes and the handle that it gives it.
Opened(c, s, h) ==
  LET st == call[c].state IN
  /\ s \in Unmade
  /\ HasSlot(st)
  /\ h \in Handles \ ({0} \cup Used(st))
  /\ tables' = [tables EXCEPT ![st].next = NextHandle(h), ![st].sessions[h] = s]
  /\ sessions' = [sessions EXCEPT ![s] =
       [Fresh EXCEPT !.owner = call[c].inst, !.late = instances[call[c].inst] # st]]
  /\ closing' \in {closing, closing \cup {s}}
  /\ closing' # closing => Live(st) \cap closing # {}

\* sessionOpen fails, or it takes a session that nothing refers to and a free handle.
LEMMA OpenCases ==
  ASSUME AbiTypeOK, SessionsBounded, StatesApart, NEW c \in Threads, OpenLocked(c)
  PROVE  /\ call[c].at = "entered" /\ Return(c) /\ UNCHANGED instances
         /\ call[c].state \in States /\ call[c].inst \in Instances
         /\ \/ UNCHANGED <<tables, sessions, closing>>
            \/ \E s \in Unmade, h \in Handles : Opened(c, s, h)
<1>1. call[c].at = "entered" /\ Return(c) /\ UNCHANGED instances
  BY Zenon DEF OpenLocked
<1>2. call[c].state \in States /\ call[c].inst \in Instances
  BY <1>1, Zenon DEF StatesApart
<1>3. CASE UNCHANGED <<tables, sessions, closing>>
  BY <1>1, <1>2, <1>3, Zenon
<1>4. CASE ~UNCHANGED <<tables, sessions, closing>>
  <2> DEFINE st == call[c].state
             s == Min(Unmade)
             h == FreeHandle(st)
  <2>1. /\ HasSlot(st) /\ Unmade # {}
        /\ tables' = [tables EXCEPT ![st].next = NextHandle(h), ![st].sessions[h] = s]
        /\ sessions' = [sessions EXCEPT ![s] =
             [Fresh EXCEPT !.owner = call[c].inst, !.late = instances[call[c].inst] # st]]
        /\ closing' \in {closing} \cup
             (IF Live(st) \cap closing # {} THEN {closing \cup {s}} ELSE {})
    BY <1>4, Zenon DEF OpenLocked
  <2>2. Unmade \in SUBSET Nat
    BY DEF Unmade
  <2>3. s \in Unmade
    BY <2>1, <2>2, LeastElement, Zenon
  <2>4. h \in Handles \ ({0} \cup Used(st))
    BY <1>2, <2>1, HandleFound, Zenon
  <2>5. /\ closing' \in {closing, closing \cup {s}}
        /\ closing' # closing => Live(st) \cap closing # {}
    BY <2>1, Zenon
  <2>6. Opened(c, s, h)
    BY <2>1, <2>3, <2>4, <2>5, Zenon DEF Opened
  <2> QED
    BY <1>1, <1>2, <2>3, <2>4, <2>6, Zenon
<1> QED
  BY <1>3, <1>4, Zenon

-----------------------------------------------------------------------------
(* Tables                                                                  *)

Filled(T) == {h \in Handles : T.sessions[h] # None}

\* SessionsBounded of one table.
Bounded(T) ==
  /\ Cardinality(Filled(T)) <= MaxSessions
  /\ 0 \notin Filled(T)
  /\ \A g, h \in Filled(T) : T.sessions[g] = T.sessions[h] => g = h

\* The bound on the sessions of all instances, store table by store table.
LEMMA BoundedTables == SessionsBounded <=> \A st \in States : Bounded(tables[st])
  BY Zenon DEF SessionsBounded, Bounded, Filled, Used

\* A new abiInstance has no sessions.
LEMMA NewStateBounded == NewState \in Table /\ Bounded(NewState) /\ Filled(NewState) = {}
<1>1. NewState \in Table
  BY AbiAssumption DEF NewState, Table, Handles, None
<1>2. Filled(NewState) = {}
  BY Zenon DEF Filled, NewState
<1> QED
  BY <1>1, <1>2, FS_EmptySet, AbiAssumption DEF Bounded

\* A session that enters under a free handle, while there is a slot.
LEMMA EnteredBounded ==
  ASSUME NEW T \in Table, Bounded(T), Cardinality(Filled(T)) < MaxSessions,
         NEW h \in Handles, h # 0, h \notin Filled(T),
         NEW s \in 1..MaxOpens, \A g \in Handles : T.sessions[g] # s,
         NEW n \in Handles, NEW U, U = [T EXCEPT !.next = n, !.sessions[h] = s]
  PROVE  U \in Table /\ Bounded(U)
<1>1. U.next = n /\ U.sessions = [T.sessions EXCEPT ![h] = s]
  BY Zenon DEF Table
<1>2. U \in Table
  <2>1. s \in 0..MaxOpens
    BY AbiAssumption
  <2>2. [T.sessions EXCEPT ![h] = s] \in [Handles -> 0..MaxOpens]
    BY <2>1, Zenon DEF Table
  <2>3. U = [next |-> n, sessions |-> [T.sessions EXCEPT ![h] = s]]
    BY Zenon DEF Table
  <2> QED
    BY <2>2, <2>3, Zenon DEF Table
<1>3. \A g \in Handles : U.sessions[g] = IF g = h THEN s ELSE T.sessions[g]
  BY <1>1, Zenon DEF Table
<1>4. Filled(U) = Filled(T) \cup {h}
  BY <1>3, Zenon DEF Filled, None
<1>5. Cardinality(Filled(U)) <= MaxSessions
  <2>1. Filled(T) \in SUBSET Handles
    BY Zenon DEF Filled
  <2>2. Cardinality(Filled(U)) = Cardinality(Filled(T)) + 1
    BY <1>4, <2>1, HandleSetsFinite, FS_AddElement, Zenon
  <2>3. Cardinality(Filled(T)) \in Nat
    BY <2>1, HandleSetsFinite, Zenon
  <2> QED
    BY <2>2, <2>3, AbiAssumption
<1>6. \A g, k \in Filled(U) : U.sessions[g] = U.sessions[k] => g = k
  BY <1>3, <1>4 DEF Bounded, Filled
<1> QED
  BY <1>2, <1>4, <1>5, <1>6, Zenon DEF Bounded

\* A handle that is taken out.
LEMMA RemovedBounded ==
  ASSUME NEW T \in Table, Bounded(T), NEW h \in Handles,
         NEW U, U = [T EXCEPT !.sessions[h] = None]
  PROVE  U \in Table /\ Bounded(U)
<1>1. U.next = T.next /\ U.sessions = [T.sessions EXCEPT ![h] = None]
  BY Zenon DEF Table
<1>2. U \in Table
  BY <1>1, AbiAssumption DEF Table, None
<1>3. \A g \in Handles : U.sessions[g] = IF g = h THEN None ELSE T.sessions[g]
  BY <1>1, Zenon DEF Table
<1>4. Filled(U) = Filled(T) \ {h}
  BY <1>3, Zenon DEF Filled
<1>5. Cardinality(Filled(U)) <= MaxSessions
  <2>1. Filled(T) \in SUBSET Handles
    BY Zenon DEF Filled
  <2>2. Cardinality(Filled(U)) <= Cardinality(Filled(T))
    BY <1>4, <2>1, HandleSetsFinite, FS_Subset, Zenon
  <2>3. Cardinality(Filled(T)) \in Nat /\ Cardinality(Filled(U)) \in Nat
    BY <1>4, <2>1, HandleSetsFinite, Zenon
  <2> QED
    BY <2>2, <2>3, AbiAssumption DEF Bounded
<1>6. \A g, k \in Filled(U) : U.sessions[g] = U.sessions[k] => g = k
  BY <1>3, <1>4 DEF Bounded
<1> QED
  BY <1>2, <1>4, <1>5, <1>6, Zenon DEF Bounded

-----------------------------------------------------------------------------
(* The invariant                                                           *)

\* The host starts without instances.
LEMMA InitInv == Init => AbiInv
<1> SUFFICES ASSUME Init PROVE AbiInv
  BY Zenon
<1>1. \A c \in Threads : call[c] = Idle
  BY Zenon DEF Init
<1>2. \A i \in Instances : instances[i] = None
  BY Zenon DEF Init
<1>3. \A st \in States : tables[st] = NewState
  BY Zenon DEF Init
<1>4. AbiTypeOK
  <2>1. Fresh \in SessionRecord /\ Idle \in CallRecord
    BY AbiAssumption DEF Fresh, Idle, SessionRecord, CallRecord, None
  <2> QED
    BY <2>1, NewStateBounded, Zenon DEF Init, AbiTypeOK
<1>5. SessionsBounded
  BY <1>3, BoundedTables, NewStateBounded, Zenon
<1>6. Isolated /\ StatesApart
  BY <1>1, <1>2 DEF Isolated, StatesApart, Idle
<1>7. OwnersAgree
  BY <1>3 DEF OwnersAgree, NewState
<1> QED
  BY <1>4, <1>5, <1>6, <1>7, Zenon DEF AbiInv

\* A step that keeps the tables and the owners, and at most ends a host call.
LEMMA TablesKept ==
  ASSUME AbiInv, NEW c,
         UNCHANGED <<instances, tables>>,
         call' \in {call, [call EXCEPT ![c] = Idle]},
         closing' \subseteq 1..MaxOpens,
         sessions' \in [1..MaxOpens -> SessionRecord],
         \A s \in 1..MaxOpens : sessions'[s].owner = sessions[s].owner
  PROVE  AbiInv'
<1> USE DEF AbiInv
<1>1. \A d \in Threads : call'[d] = call[d] \/ call'[d] = Idle
  BY Zenon DEF AbiTypeOK
<1>2. Idle \in CallRecord
  BY AbiAssumption DEF Idle, CallRecord, None
<1>3. AbiTypeOK'
  <2>1. call' \in [Threads -> CallRecord]
    BY <1>2, Zenon DEF AbiTypeOK
  <2> QED
    BY <2>1, Zenon DEF AbiTypeOK
<1>4. SessionsBounded'
  BY Zenon DEF SessionsBounded, Used
<1>5. Isolated'
  <2> SUFFICES ASSUME NEW d \in Threads, call'[d].at \in {"use", "close"}
               PROVE  sessions'[call'[d].session].owner = call'[d].inst
    BY Zenon DEF Isolated
  <2>1. call'[d] = call[d]
    BY <1>1 DEF Idle
  <2>2. call[d].session \in 1..MaxOpens
    BY <2>1 DEF AbiTypeOK, CallRecord, StatesApart, None
  <2> QED
    BY <2>1, <2>2, Zenon DEF Isolated
<1>6. StatesApart'
  <2>1. Idle.at = "idle" /\ Idle.state \notin States
    BY DEF Idle, States, None
  <2> QED
    BY <1>1, <2>1 DEF StatesApart
<1>7. OwnersAgree'
  <2> SUFFICES ASSUME NEW st \in States, NEW h \in Handles, tables[st].sessions[h] # None
               PROVE  LET s == tables[st].sessions[h] IN
                      /\ \A i \in Instances : instances[i] = st => sessions'[s].owner = i
                      /\ \A d \in Threads :
                           call'[d].state = st => sessions'[s].owner = call'[d].inst
    BY DEF OwnersAgree
  <2>1. tables[st].sessions[h] \in 1..MaxOpens
    BY DEF AbiTypeOK, Table, None
  <2>2. Idle.state # st
    BY DEF Idle, States, None
  <2> QED
    BY <1>1, <2>1, <2>2, SMTT(30) DEF OwnersAgree
<1> QED
  BY <1>3, <1>4, <1>5, <1>6, <1>7, Zenon

\* The calls that use a session that they have looked up.
Using(c) == Feed(c) \/ Send(c) \/ Output(c) \/ EventNext(c) \/ EventRead(c)

\* What a session call makes of the session.
Moved(q, r) ==
  /\ r \in SessionRecord
  /\ r.owner = q.owner
  /\ r.closed \/ (r.late = q.late /\ r.closed = q.closed)

\* Closing a session drops what it has queued.
LEMMA Closing ==
  ASSUME NEW q \in SessionRecord, NEW r,
         r = [q EXCEPT !.closed = TRUE, !.late = FALSE, !.events = 0, !.output = 0]
  PROVE  Moved(q, r) /\ r.closed
<1>1. r \in SessionRecord
  BY Zenon DEF SessionRecord
<1>2. r.owner = q.owner /\ r.closed
  BY Zenon DEF SessionRecord
<1> QED
  BY <1>1, <1>2, Zenon DEF Moved

\* A session that queues or hands out keeps its owner and stays as open as it was.
LEMMA Queueing ==
  ASSUME NEW q \in SessionRecord, NEW r, NEW m \in Nat, NEW n \in Nat, NEW b \in BOOLEAN,
         r = [q EXCEPT !.events = m, !.output = n, !.current = b]
  PROVE  Moved(q, r) /\ r.closed = q.closed
<1>1. r \in SessionRecord
  BY Zenon DEF SessionRecord
<1>2. r.owner = q.owner /\ r.closed = q.closed /\ r.late = q.late
  BY Zenon DEF SessionRecord
<1> QED
  BY <1>1, <1>2, Zenon DEF Moved

\* A session call changes what its session has queued, never whose it is, and only
\* session_close closes it.
LEMMA SessionCalls ==
  ASSUME AbiInv, NEW c \in Threads, CloseSession(c) \/ Using(c)
  PROVE  /\ UNCHANGED <<instances, tables, closing>>
         /\ call' = [call EXCEPT ![c] = Idle]
         /\ call[c].session \in 1..MaxOpens
         /\ sessions' \in [1..MaxOpens -> SessionRecord]
         /\ \A s \in 1..MaxOpens : Moved(sessions[s], sessions'[s])
         /\ call[c].at = "close" => sessions'[call[c].session].closed
         /\ \A s \in 1..MaxOpens :
              sessions'[s].closed # sessions[s].closed => call[c].at = "close" /\ call[c].session = s
<1>1. /\ UNCHANGED <<instances, tables, closing>>
      /\ call' = [call EXCEPT ![c] = Idle]
      /\ call[c].at \in {"use", "close"}
      /\ call[c].at = "close" <=> CloseSession(c)
  BY Zenon DEF CloseSession, Using, Feed, Send, Output, EventNext, EventRead, Calling, Return
<1>2. call[c].session \in 1..MaxOpens
  BY <1>1 DEF AbiInv, AbiTypeOK, CallRecord, StatesApart, None
<1> DEFINE s == call[c].session
           q == sessions[s]
<1>3. sessions \in [1..MaxOpens -> SessionRecord] /\ q \in SessionRecord
  BY <1>2, Zenon DEF AbiInv, AbiTypeOK
<1>4. \A x \in SessionRecord : Moved(x, x)
  BY Zenon DEF Moved
<1>5. q.events \in Nat /\ q.output \in Nat /\ q.current \in BOOLEAN
  BY <1>3, Zenon DEF SessionRecord
<1>6. \E r : /\ sessions' = [sessions EXCEPT ![s] = r]
             /\ Moved(q, r)
             /\ IF CloseSession(c) THEN r.closed ELSE r.closed = q.closed
  <2>1. CASE CloseSession(c)
    <3>1. PICK r : r = [q EXCEPT !.closed = TRUE, !.late = FALSE, !.events = 0, !.output = 0]
      BY Zenon
    <3>2. sessions' = [sessions EXCEPT ![s] = r]
      BY <2>1, <3>1, Zenon DEF CloseSession, Closed
    <3> QED
      BY <1>3, <2>1, <3>1, <3>2, Closing, Zenon
  <2>2. CASE ~CloseSession(c) /\ sessions' = sessions
    <3>1. sessions' = [sessions EXCEPT ![s] = q]
      BY <1>3, <2>2, Zenon
    <3> QED
      BY <1>3, <1>4, <2>2, <3>1, Zenon
  <2>3. CASE ~CloseSession(c) /\ sessions' # sessions
    <3>1. \E m, n \in Nat, b \in BOOLEAN : sessions' =
            [sessions EXCEPT ![s] = [q EXCEPT !.events = m, !.output = n, !.current = b]]
      <4>1. CASE Feed(c)
        <5>1. PICK e, o \in 0..1 :
                sessions' = [sessions EXCEPT ![s] = [q EXCEPT !.events = @ + e, !.output = @ + o]]
          BY <2>3, <4>1, Zenon DEF Feed
        <5>2. q.events + e \in Nat /\ q.output + o \in Nat
          BY <1>5
        <5>3. [q EXCEPT !.events = @ + e, !.output = @ + o] =
              [q EXCEPT !.events = q.events + e, !.output = q.output + o, !.current = q.current]
          BY <1>3, Zenon DEF SessionRecord
        <5> QED
          BY <1>5, <5>1, <5>2, <5>3, ZenonT(40)
      <4>2. CASE Send(c)
        <5>1. sessions' = [sessions EXCEPT ![s] = [q EXCEPT !.output = @ + 1]]
          BY <2>3, <4>2, Zenon DEF Send
        <5>2. q.output + 1 \in Nat
          BY <1>5
        <5>3. [q EXCEPT !.output = @ + 1] =
              [q EXCEPT !.events = q.events, !.output = q.output + 1, !.current = q.current]
          BY <1>3, Zenon DEF SessionRecord
        <5> QED
          BY <1>5, <5>1, <5>2, <5>3, Zenon
      <4>3. CASE Output(c)
        <5>1. PICK n \in 0..q.output : sessions' = [sessions EXCEPT ![s] = [q EXCEPT !.output = @ - n]]
          BY <2>3, <4>3, Zenon DEF Output
        <5>2. q.output - n \in Nat
          BY <1>5
        <5>3. [q EXCEPT !.output = @ - n] =
              [q EXCEPT !.events = q.events, !.output = q.output - n, !.current = q.current]
          BY <1>3, Zenon DEF SessionRecord
        <5> QED
          BY <1>5, <5>1, <5>2, <5>3, Zenon
      <4>4. CASE EventNext(c)
        <5>1. q.events > 0 /\ sessions' =
                [sessions EXCEPT ![s] = [q EXCEPT !.events = @ - 1, !.current = TRUE]]
          BY <2>3, <4>4, Zenon DEF EventNext
        <5>2. q.events - 1 \in Nat /\ TRUE \in BOOLEAN
          BY <1>5, <5>1
        <5>3. [q EXCEPT !.events = @ - 1, !.current = TRUE] =
              [q EXCEPT !.events = q.events - 1, !.output = q.output, !.current = TRUE]
          BY <1>3, Zenon DEF SessionRecord
        <5> QED
          BY <1>5, <5>1, <5>2, <5>3, Zenon
      <4> QED
        BY <2>3, <4>1, <4>2, <4>3, <4>4, Zenon DEF Using, EventRead
    <3>2. PICK m, n \in Nat, b \in BOOLEAN : sessions' =
            [sessions EXCEPT ![s] = [q EXCEPT !.events = m, !.output = n, !.current = b]]
      BY <3>1, Zenon
    <3>3. PICK r : r = [q EXCEPT !.events = m, !.output = n, !.current = b]
      BY Zenon
    <3>4. Moved(q, r) /\ r.closed = q.closed
      BY <1>3, <3>3, Queueing, Zenon
    <3> QED
      BY <2>3, <3>2, <3>3, <3>4, Zenon
  <2> QED
    BY <2>1, <2>2, <2>3, Zenon
<1>7. PICK r : /\ sessions' = [sessions EXCEPT ![s] = r]
               /\ Moved(q, r)
               /\ IF CloseSession(c) THEN r.closed ELSE r.closed = q.closed
  BY <1>6, Zenon
<1>8. /\ sessions' \in [1..MaxOpens -> SessionRecord]
      /\ \A x \in 1..MaxOpens : sessions'[x] = IF x = s THEN r ELSE sessions[x]
  BY <1>3, <1>7, Zenon DEF Moved
<1> QED
  BY <1>1, <1>2, <1>3, <1>4, <1>7, <1>8, Zenon

\* The first step of a host call: the guest's abiInstance, or a new one.
LEMMA EnterInv == ASSUME AbiInv, NEW c \in Threads, NEW i \in Instances, Enter(c, i) PROVE AbiInv'
<1> USE DEF AbiInv
<1> DEFINE st == CallerState(i)
           r == [at |-> "entered", inst |-> i, state |-> st, session |-> None]
<1>0. /\ instances \in [Instances -> States \cup {None}] /\ tables \in [States -> Table]
      /\ call \in [Threads -> CallRecord]
  BY Zenon DEF AbiTypeOK
<1>1. /\ call[c] = Idle
      /\ instances' = [instances EXCEPT ![i] = st]
      /\ call' = [call EXCEPT ![c] = r]
      /\ UNCHANGED <<sessions, closing>>
  BY Zenon DEF Enter
<1>2. st \in States
  <2>1. CASE instances[i] = None
    <3>1. Unused # {} /\ Unused \in SUBSET Nat /\ Unused \subseteq States
      BY <2>1 DEF Enter, Unused, States
    <3> QED
      BY <2>1, <3>1, LeastElement, Zenon DEF CallerState
  <2>2. CASE instances[i] # None
    BY <1>0, <2>2, Zenon DEF CallerState
  <2> QED
    BY <2>1, <2>2, Zenon
<1>3. /\ instances'[i] = st /\ \A j \in Instances \ {i} : instances'[j] = instances[j]
      /\ call'[c] = r /\ \A d \in Threads \ {c} : call'[d] = call[d]
      /\ instances' \in [Instances -> States \cup {None}]
  BY <1>0, <1>1, <1>2, Zenon
<1>4. Idle.at = "idle" /\ Idle.state = None /\ st # None
  BY <1>2 DEF Idle, States, None
<1>5. /\ \A j \in Instances \ {i} : instances[j] # st
      /\ \A d \in Threads : call[d].state = st => call[d].inst = i
  <2>1. CASE instances[i] = None
    <3>1. st \in Unused
      <4>1. Unused # {} /\ Unused \in SUBSET Nat
        BY <2>1 DEF Enter, Unused, States
      <4> QED
        BY <2>1, <4>1, LeastElement, Zenon DEF CallerState
    <3> QED
      BY <1>0, <3>1, Zenon DEF Unused, Range
  <2>2. CASE instances[i] # None
    <3>1. instances[i] = st
      BY <2>2, Zenon DEF CallerState
    <3> QED
      BY <1>4, <3>1 DEF StatesApart
  <2> QED
    BY <2>1, <2>2, Zenon
<1>6. /\ tables' \in [States -> Table]
      /\ \A q \in States : \/ tables'[q] = NewState
                           \/ tables'[q] = tables[q] /\ (q = st => instances[i] = st)
  BY <1>0, <1>2, NewStateBounded, Zenon DEF Enter, CallerState
<1>7. AbiTypeOK'
  <2>1. r \in CallRecord
    BY <1>2, AbiAssumption DEF CallRecord, None
  <2>2. call' \in [Threads -> CallRecord]
    BY <1>0, <1>1, <2>1, Zenon
  <2> QED
    BY <1>1, <1>3, <1>6, <2>2, Zenon DEF AbiTypeOK
<1>8. SessionsBounded'
  <2>1. SessionsBounded' <=> \A q \in States : Bounded(tables'[q])
    BY Zenon DEF SessionsBounded, Bounded, Filled, Used
  <2> QED
    BY <1>6, <2>1, BoundedTables, NewStateBounded, Zenon
<1>9. Isolated'
  BY <1>1, <1>3 DEF Isolated
<1>10. StatesApart'
  <2>1. /\ r.at = "entered" /\ r.inst = i /\ r.state = st
    BY Zenon
  <2>2. \A j, k \in Instances : instances'[j] # None /\ instances'[j] = instances'[k] => j = k
    BY <1>3, <1>5 DEF StatesApart
  <2>3. ASSUME NEW d \in Threads \ {c}, call[d].at = "idle" PROVE call'[d] = Idle
    BY <1>3, <2>3, Zenon DEF StatesApart
  <2>4. ASSUME NEW d \in Threads \ {c}, call[d].at # "idle"
        PROVE  /\ call[d].inst \in Instances /\ call[d].state \in States
               /\ call[d].at # "entered" => call[d].session # None
               /\ \A j \in Instances : instances'[j] = call[d].state => j = call[d].inst
               /\ \A e \in Threads : call'[e].state = call[d].state => call'[e].inst = call[d].inst
    <3>1. /\ call[d].inst \in Instances /\ call[d].state \in States
          /\ call[d].at # "entered" => call[d].session # None
      BY <2>4, Zenon DEF StatesApart
    <3>2. \A j \in Instances : instances'[j] = call[d].state => j = call[d].inst
      BY <1>3, <1>5, <2>4 DEF StatesApart
    <3>3. \A e \in Threads : call'[e].state = call[d].state => call'[e].inst = call[d].inst
      BY <1>3, <1>5, <2>1, <2>4, SMTT(30) DEF StatesApart
    <3> QED
      BY <3>1, <3>2, <3>3, Zenon
  <2>5. /\ \A j \in Instances : instances'[j] = st => j = i
        /\ \A e \in Threads : call'[e].state = st => call'[e].inst = i
    BY <1>3, <1>5, <2>1, Zenon
  <2> HIDE DEF r, st
  <2>6. \A d \in Threads :
          IF call'[d].at = "idle" THEN call'[d] = Idle
          ELSE /\ call'[d].inst \in Instances /\ call'[d].state \in States
               /\ call'[d].at # "entered" => call'[d].session # None
               /\ \A j \in Instances : instances'[j] = call'[d].state => j = call'[d].inst
               /\ \A e \in Threads : call'[e].state = call'[d].state => call'[e].inst = call'[d].inst
    BY <1>2, <1>3, <1>4, <2>1, <2>3, <2>4, <2>5, SMTT(30)
  <2> QED
    BY <2>2, <2>6, Zenon DEF StatesApart
<1>11. OwnersAgree'
  <2> SUFFICES ASSUME NEW q \in States, NEW h \in Handles, tables'[q].sessions[h] # None
               PROVE  LET s == tables'[q].sessions[h] IN
                      /\ \A j \in Instances : instances'[j] = q => sessions[s].owner = j
                      /\ \A d \in Threads :
                           call'[d].state = q => sessions[s].owner = call'[d].inst
    BY <1>1 DEF OwnersAgree
  <2>1. tables'[q] = tables[q] /\ (q = st => instances[i] = st)
    BY <1>6 DEF NewState
  <2>2. r.inst = i /\ r.state = st
    BY Zenon
  <2> QED
    BY <1>3, <2>1, <2>2, SMTT(30) DEF OwnersAgree
<1> QED
  BY <1>7, <1>8, <1>9, <1>10, <1>11, Zenon

\* sessionOpen enters a session that nothing else refers to, for the guest of the call.
LEMMA OpenInv == ASSUME AbiInv, NEW c \in Threads, OpenLocked(c) PROVE AbiInv'
<1> USE DEF AbiInv
<1> DEFINE st == call[c].state
           i == call[c].inst
<1>1. /\ call[c].at = "entered" /\ Return(c) /\ UNCHANGED instances
      /\ st \in States /\ i \in Instances
      /\ \/ UNCHANGED <<tables, sessions, closing>>
         \/ \E s \in Unmade, h \in Handles : Opened(c, s, h)
  BY OpenCases, Zenon
<1>2. CASE UNCHANGED <<tables, sessions, closing>>
  BY <1>1, <1>2, TablesKept, Zenon DEF AbiTypeOK, Return
<1>3. CASE \E s \in Unmade, h \in Handles : Opened(c, s, h)
  <2>1. PICK s \in Unmade, h \in Handles : Opened(c, s, h)
    BY <1>3, Zenon
  <2> DEFINE T == [tables[st] EXCEPT !.next = NextHandle(h), !.sessions[h] = s]
             r == [Fresh EXCEPT !.owner = i, !.late = instances[i] # st]
  <2>2. /\ HasSlot(st) /\ h # 0 /\ h \notin Used(st)
        /\ tables' = [tables EXCEPT ![st].next = NextHandle(h), ![st].sessions[h] = s]
        /\ sessions' = [sessions EXCEPT ![s] = r]
        /\ closing' \in {closing, closing \cup {s}}
    BY <2>1, Zenon DEF Opened
  <2>3. /\ s \in 1..MaxOpens
        /\ \A q \in States, g \in Handles : tables[q].sessions[g] # s
        /\ \A d \in Threads : call[d].session # s
    <3>1. /\ s \in 1..MaxOpens
          /\ \A q \in States : s \notin Live(q)
          /\ \A d \in Threads : call[d].session # s
      BY Zenon DEF Unmade
    <3>2. \A q \in States : DOMAIN tables[q].sessions = Handles
      BY Zenon DEF AbiTypeOK, Table
    <3> QED
      BY <3>1, <3>2 DEF Live, Range, None
  <2>4. tables'[st] = T /\ \A q \in States \ {st} : tables'[q] = tables[q]
    BY <1>1, <2>2, Zenon DEF AbiTypeOK, Table
  <2>5. T \in Table /\ Bounded(T)
    <3>1. tables[st] \in Table /\ Bounded(tables[st])
      BY <1>1, BoundedTables, Zenon DEF AbiTypeOK
    <3>2. Filled(tables[st]) = Used(st)
      BY Zenon DEF Filled, Used
    <3>3. Cardinality(Filled(tables[st])) < MaxSessions
      BY <2>2, <3>2, Zenon DEF HasSlot
    <3>4. NextHandle(h) \in Handles
      BY NextHandleType, Zenon
    <3>5. h # 0 /\ h \notin Filled(tables[st]) /\ \A g \in Handles : tables[st].sessions[g] # s
      BY <1>1, <2>2, <2>3, <3>2, Zenon
    <3> QED
      BY <2>3, <3>1, <3>3, <3>4, <3>5, EnteredBounded, Zenon
  <2>6. /\ T.sessions[h] = s
        /\ \A g \in Handles \ {h} : T.sessions[g] = tables[st].sessions[g]
    BY <1>1, Zenon DEF AbiTypeOK, Table
  <2>7. r \in SessionRecord /\ r.owner = i
    <3>1. Fresh \in SessionRecord
      BY Zenon DEF Fresh, SessionRecord
    <3>2. i \in Instances \cup {None} /\ (instances[i] # st) \in BOOLEAN
      BY <1>1, Zenon
    <3> QED
      BY <3>1, <3>2, Zenon DEF SessionRecord
  <2>8. /\ sessions'[s] = r /\ \A q \in 1..MaxOpens \ {s} : sessions'[q] = sessions[q]
        /\ sessions' \in [1..MaxOpens -> SessionRecord]
    BY <2>2, <2>3, <2>7, Zenon DEF AbiTypeOK
  <2>9. /\ call'[c] = Idle /\ \A d \in Threads \ {c} : call'[d] = call[d]
        /\ call' \in [Threads -> CallRecord]
    <3>1. Idle \in CallRecord
      BY AbiAssumption DEF Idle, CallRecord, None
    <3> QED
      BY <1>1, <3>1, Zenon DEF AbiTypeOK, Return
  <2>10. Idle.at = "idle" /\ Idle.state \notin States
    BY DEF Idle, States, None
  <2> HIDE DEF T, r
  <2>11. AbiTypeOK'
    <3>1. tables' \in [States -> Table]
      BY <1>1, <2>2, <2>4, <2>5, Zenon DEF AbiTypeOK
    <3>2. closing' \subseteq 1..MaxOpens
      BY <2>2, <2>3, Zenon DEF AbiTypeOK
    <3> QED
      BY <1>1, <2>8, <2>9, <3>1, <3>2, Zenon DEF AbiTypeOK
  <2>12. SessionsBounded'
    <3>1. SessionsBounded' <=> \A q \in States : Bounded(tables'[q])
      BY Zenon DEF SessionsBounded, Bounded, Filled, Used
    <3> QED
      BY <2>4, <2>5, <3>1, BoundedTables, Zenon
  <2>13. Isolated'
    <3> SUFFICES ASSUME NEW d \in Threads, call'[d].at \in {"use", "close"}
                 PROVE  sessions'[call'[d].session].owner = call'[d].inst
      BY Zenon DEF Isolated
    <3>1. d # c /\ call'[d] = call[d] /\ call[d].session \in 1..MaxOpens
      BY <2>9, <2>10, SMTT(30) DEF AbiTypeOK, CallRecord, StatesApart, None
    <3> QED
      BY <2>3, <2>8, <3>1 DEF Isolated
  <2>14. StatesApart'
    BY <1>1, <2>9, <2>10, SMTT(30) DEF StatesApart
  <2>15. OwnersAgree'
    <3> SUFFICES ASSUME NEW q \in States, NEW g \in Handles, tables'[q].sessions[g] # None
                 PROVE  LET u == tables'[q].sessions[g] IN
                        /\ \A j \in Instances : instances'[j] = q => sessions'[u].owner = j
                        /\ \A d \in Threads :
                             call'[d].state = q => sessions'[u].owner = call'[d].inst
      BY ZenonT(40) DEF OwnersAgree
    <3>1. CASE q = st /\ g = h
      <4>1. \A j \in Instances : instances[j] = st => j = i
        BY <1>1, Zenon DEF StatesApart
      <4>2. \A d \in Threads : call[d].state = st => call[d].inst = i
        BY <1>1, Zenon DEF StatesApart
      <4>3. sessions'[tables'[q].sessions[g]].owner = i
        BY <2>4, <2>6, <2>7, <2>8, <3>1, ZenonT(40)
      <4> QED
        BY <1>1, <2>9, <2>10, <3>1, <4>1, <4>2, <4>3, SMTT(30)
    <3>2. CASE ~(q = st /\ g = h)
      <4>1. tables'[q].sessions[g] = tables[q].sessions[g]
        BY <2>4, <2>6, <3>2, Zenon
      <4>2. tables[q].sessions[g] \in 1..MaxOpens \ {s}
        BY <2>3, <4>1 DEF AbiTypeOK, Table, None
      <4> QED
        BY <1>1, <2>8, <2>9, <2>10, <4>1, <4>2, SMTT(30) DEF OwnersAgree
    <3> QED
      BY <3>1, <3>2, Zenon
  <2> QED
    BY <2>11, <2>12, <2>13, <2>14, <2>15, Zenon
<1> QED
  BY <1>1, <1>2, <1>3, Zenon

\* sessionClose and lookup: a handle names a session of the guest, or nothing.
LEMMA HandleInv ==
  ASSUME AbiInv, NEW c \in Threads, NEW h \in Handles, CloseLocked(c, h) \/ LookupLocked(c, h)
  PROVE  AbiInv'
<1> USE DEF AbiInv
<1> DEFINE st == call[c].state
           s == tables[st].sessions[h]
           T == [tables[st] EXCEPT !.sessions[h] = None]
<1>1. /\ call[c].at = "entered"
      /\ UNCHANGED <<instances, sessions, closing>>
      /\ tables' \in {tables, [tables EXCEPT ![st].sessions[h] = None]}
      /\ IF s = None THEN call' = [call EXCEPT ![c] = Idle]
         ELSE \E at \in {"close", "use"} : call' = [call EXCEPT ![c].at = at, ![c].session = s]
  BY Zenon DEF CloseLocked, LookupLocked, Return
<1>2. st \in States /\ call[c].inst \in Instances
  BY <1>1, Zenon DEF StatesApart
<1>3. T \in Table /\ Bounded(T) /\ \A g \in Handles : T.sessions[g] \in {None, tables[st].sessions[g]}
  <2>1. tables[st] \in Table /\ Bounded(tables[st])
    BY <1>2, BoundedTables, Zenon DEF AbiTypeOK
  <2>2. T \in Table /\ Bounded(T)
    BY <2>1, RemovedBounded, Zenon
  <2> QED
    BY <2>1, <2>2, Zenon DEF Table
<1>4. \/ tables' = tables
      \/ tables'[st] = T /\ \A q \in States \ {st} : tables'[q] = tables[q]
  BY <1>1, <1>2, Zenon DEF AbiTypeOK
<1>5. s \in 0..MaxOpens /\ call[c] \in CallRecord
  BY <1>2, SMTT(30) DEF AbiTypeOK, Table
<1>6. /\ \A d \in Threads \ {c} : call'[d] = call[d]
      /\ \/ call'[c] = Idle
         \/ /\ s # None /\ call'[c].at \in {"close", "use"} /\ call'[c].session = s
            /\ call'[c].inst = call[c].inst /\ call'[c].state = st
      /\ call' \in [Threads -> CallRecord]
  <2>0. call \in [Threads -> CallRecord]
    BY Zenon DEF AbiTypeOK
  <2>1. CASE s = None
    <3>1. Idle \in CallRecord
      BY AbiAssumption DEF Idle, CallRecord, None
    <3> QED
      BY <1>1, <2>0, <2>1, <3>1, Zenon
  <2>2. CASE s # None
    <3>1. PICK at \in {"close", "use"} : call' = [call EXCEPT ![c].at = at, ![c].session = s]
      BY <1>1, <2>2, Zenon
    <3>2. /\ \A d \in Threads \ {c} : call'[d] = call[d]
          /\ call'[c] = [call[c] EXCEPT !.at = at, !.session = s]
          /\ call' = [call EXCEPT ![c] = call'[c]]
      BY <2>0, <3>1, Zenon
    <3>3. [call[c] EXCEPT !.at = at, !.session = s] \in CallRecord
      BY <1>5, Zenon DEF CallRecord
    <3>4. /\ call'[c].at = at /\ call'[c].session = s
          /\ call'[c].inst = call[c].inst /\ call'[c].state = st
      BY <1>5, <3>2, Zenon DEF CallRecord
    <3> QED
      BY <2>0, <2>2, <3>2, <3>3, <3>4, SMTT(30)
  <2> QED
    BY <2>1, <2>2, Zenon
<1>7. Idle.at = "idle" /\ Idle.state \notin States
  BY SMTT(30) DEF Idle, States, None
<1>8. s # None => sessions[s].owner = call[c].inst
  BY <1>2, SMTT(30) DEF OwnersAgree
<1> HIDE DEF T
<1>9. AbiTypeOK'
  <2>1. tables' \in [States -> Table]
    BY <1>1, <1>2, <1>3, <1>4, SMTT(30) DEF AbiTypeOK
  <2> QED
    BY <1>1, <1>6, <2>1, Zenon DEF AbiTypeOK
<1>10. SessionsBounded'
  <2>1. SessionsBounded' <=> \A q \in States : Bounded(tables'[q])
    BY Zenon DEF SessionsBounded, Bounded, Filled, Used
  <2> QED
    BY <1>3, <1>4, <2>1, BoundedTables, Zenon
<1>11. Isolated'
  BY <1>1, <1>6, <1>7, <1>8, ZenonT(40) DEF Isolated
<1>12. StatesApart'
  <2>1. \A d \in Threads : /\ call'[d].state = call[d].state /\ call'[d].inst = call[d].inst
                           \/ call'[d] = Idle
    BY <1>6, Zenon
  <2>2. \A d \in Threads : call'[d].at # "idle" =>
          /\ call[d].at # "idle" /\ call'[d].state = call[d].state /\ call'[d].inst = call[d].inst
          /\ call'[d].at # "entered" => call'[d].session # None
    BY <1>1, <1>6, <1>7, SMTT(30) DEF StatesApart
  <2>3. \A d \in Threads : call'[d].at = "idle" => call'[d] = Idle
    BY <1>6, ZenonT(40) DEF StatesApart
  <2> QED
    BY <1>1, <1>7, <2>1, <2>2, <2>3 DEF StatesApart
<1>13. OwnersAgree'
  <2>1. \A q \in States, g \in Handles : tables'[q].sessions[g] \in {None, tables[q].sessions[g]}
    BY <1>3, <1>4, Zenon
  <2>2. \A d \in Threads : /\ call'[d].state = call[d].state /\ call'[d].inst = call[d].inst
                           \/ call'[d] = Idle
    BY <1>6, Zenon
  <2> QED
    BY <1>1, <1>7, <2>1, <2>2, SMTT(30) DEF OwnersAgree
<1> QED
  BY <1>9, <1>10, <1>11, <1>12, <1>13, Zenon

\* The hooks take guests out of the registry; what calls still hold stays as it is.
LEMMA DetachInv == ASSUME AbiInv, NEW set \in SUBSET Instances, Detach(set) PROVE AbiInv'
<1> USE DEF AbiInv
<1>1. /\ \A i \in Instances : instances'[i] \in {None, instances[i]}
      /\ instances' \in [Instances -> States \cup {None}]
      /\ UNCHANGED <<sessions, call>>
  BY Zenon DEF Detach, AbiTypeOK
<1>2. /\ tables' \in [States -> Table]
      /\ \A st \in States : tables'[st] \in {NewState, tables[st]}
  BY NewStateBounded, Zenon DEF Detach, AbiTypeOK
<1>3. closing' \subseteq 1..MaxOpens
  <2>1. \A st \in States : Live(st) \subseteq 1..MaxOpens
    BY DEF Live, Range, AbiTypeOK, Table, None
  <2>2. \A i \in set : instances[i] # None => instances[i] \in States
    BY Zenon DEF AbiTypeOK
  <2> QED
    <3>1. closing' = closing \cup
            UNION {Live(instances[i]) : i \in {j \in set : instances[j] # None}}
      BY Zenon DEF Detach
    <3>2. ASSUME NEW s \in closing', s \notin closing PROVE s \in 1..MaxOpens
      <4>1. PICK i \in set : instances[i] # None /\ s \in Live(instances[i])
        BY <3>1, <3>2, Zenon
      <4> QED
        BY <2>1, <2>2, <4>1, Zenon
    <3>3. closing \subseteq 1..MaxOpens
      BY Zenon DEF AbiTypeOK
    <3> QED
      BY <3>2, <3>3, Zenon
<1>4. AbiTypeOK'
  BY <1>1, <1>2, <1>3, Zenon DEF AbiTypeOK
<1>5. SessionsBounded'
  <2>1. SessionsBounded' <=> \A q \in States : Bounded(tables'[q])
    BY Zenon DEF SessionsBounded, Bounded, Filled, Used
  <2> QED
    BY <1>2, <2>1, BoundedTables, NewStateBounded, Zenon
<1>6. Isolated'
  BY <1>1, Zenon DEF Isolated
<1>7. StatesApart'
  BY <1>1, SMTT(30) DEF StatesApart, States, None
<1>8. OwnersAgree'
  <2>1. \A st \in States, h \in Handles : tables'[st].sessions[h] \in {None, tables[st].sessions[h]}
    BY <1>2 DEF NewState
  <2>2. None \notin States
    BY DEF States, None
  <2> QED
    BY <1>1, <2>1, <2>2 DEF OwnersAgree
<1> QED
  BY <1>4, <1>5, <1>6, <1>7, <1>8, Zenon

\* The loop of the hooks closes a session and keeps its owner.
LEMMA CloseNextMoves ==
  ASSUME AbiInv, NEW s \in 1..MaxOpens, CloseNext(s)
  PROVE  /\ UNCHANGED <<instances, tables, call>> /\ closing' = closing \ {s}
         /\ sessions' \in [1..MaxOpens -> SessionRecord]
         /\ sessions'[s].closed /\ \A q \in 1..MaxOpens \ {s} : sessions'[q] = sessions[q]
         /\ \A q \in 1..MaxOpens : Moved(sessions[q], sessions'[q])
<1>1. sessions \in [1..MaxOpens -> SessionRecord] /\ sessions[s] \in SessionRecord
  BY Zenon DEF AbiInv, AbiTypeOK
<1>2. PICK r : r = [sessions[s] EXCEPT !.closed = TRUE, !.late = FALSE,
                                   !.events = 0, !.output = 0]
  BY Zenon
<1>3. /\ UNCHANGED <<instances, tables, call>> /\ closing' = closing \ {s}
      /\ sessions' = [sessions EXCEPT ![s] = r]
  BY <1>2, Zenon DEF CloseNext, Closed
<1>4. Moved(sessions[s], r) /\ r.closed /\ r \in SessionRecord
  BY <1>1, <1>2, Closing, Zenon DEF Moved
<1>5. \A q \in 1..MaxOpens : Moved(sessions[q], sessions[q])
  BY <1>1, Zenon DEF Moved
<1>6. /\ sessions' \in [1..MaxOpens -> SessionRecord]
      /\ \A q \in 1..MaxOpens : sessions'[q] = IF q = s THEN r ELSE sessions[q]
  BY <1>1, <1>3, <1>4, Zenon
<1> QED
  BY <1>3, <1>4, <1>5, <1>6, Zenon

\* Every step of the host preserves the invariant.
LEMMA NextInv == AbiInv /\ [Next]_vars => AbiInv'
<1> SUFFICES ASSUME AbiInv, [Next]_vars PROVE AbiInv'
  BY Zenon
<1>1. ASSUME NEW c \in Threads, NEW i \in Instances, Enter(c, i) PROVE AbiInv'
  BY <1>1, EnterInv, Zenon
<1>2. ASSUME NEW c \in Threads, HostStep(c) PROVE AbiInv'
  <2>1. CASE OpenLocked(c)
    BY <2>1, OpenInv, Zenon
  <2>2. CASE \E h \in Handles : CloseLocked(c, h) \/ LookupLocked(c, h)
    BY <2>2, HandleInv, Zenon
  <2>3. CASE CloseSession(c) \/ Using(c)
    <3>1. /\ UNCHANGED <<instances, tables, closing>>
          /\ call' = [call EXCEPT ![c] = Idle]
          /\ sessions' \in [1..MaxOpens -> SessionRecord]
          /\ \A s \in 1..MaxOpens : Moved(sessions[s], sessions'[s])
      BY <2>3, SessionCalls, Zenon
    <3> QED
      BY <3>1, TablesKept, Zenon DEF Moved, AbiInv, AbiTypeOK
  <2> QED
    BY <1>2, <2>1, <2>2, <2>3, Zenon DEF HostStep, Using
<1>3. ASSUME NEW i \in Instances, CloseInstance(i) PROVE AbiInv'
  BY <1>3, DetachInv, Zenon DEF CloseInstance
<1>4. CASE CloseAll
  BY <1>4, DetachInv, Zenon DEF CloseAll
<1>5. ASSUME NEW s \in 1..MaxOpens, CloseNext(s) PROVE AbiInv'
  <2>1. /\ UNCHANGED <<instances, tables, call>> /\ closing' = closing \ {s}
        /\ sessions' \in [1..MaxOpens -> SessionRecord]
        /\ \A q \in 1..MaxOpens : Moved(sessions[q], sessions'[q])
    BY <1>5, CloseNextMoves, Zenon
  <2> QED
    BY <2>1, TablesKept, Zenon DEF Moved, AbiInv, AbiTypeOK
<1>6. CASE UNCHANGED vars
  <2>1. UNCHANGED <<instances, tables, call>> /\ closing' = closing /\ sessions' = sessions
    BY <1>6, Zenon DEF vars
  <2> QED
    BY <2>1, TablesKept, Zenon DEF AbiInv, AbiTypeOK
<1> QED
  BY <1>1, <1>2, <1>3, <1>4, <1>5, <1>6, Zenon DEF Next

\* For any number of guests, threads, handles and sessions: a table never holds
\* more than MaxSessions, handle 0 is never given, and a host call only ever works
\* on a session of its own instance.
THEOREM AbiCorrect == Spec => []AbiInv
  BY InitInv, NextInv, PTL DEF Spec

-----------------------------------------------------------------------------
(* Sessions under handles                                                  *)

\* The sessions of a table are the ones under its handles.
LEMMA LiveHandles ==
  ASSUME NEW T \in Table, NEW s, s # None
  PROVE  s \in Range(T.sessions) \ {None} <=> \E h \in Handles : T.sessions[h] = s
  BY Zenon DEF Range, Table

\* A session that is not closed and that nothing is about to close.
Safe(s) ==
  /\ ~sessions[s].closed
  /\ s \notin closing
  /\ \A c \in Threads : ~(call[c].at = "close" /\ call[c].session = s)

\* The sessions under the handles of an instance are open.
LEMMA HandlesSafe ==
  ASSUME AbiTypeOK, HandlesInv, NEW i \in Instances, NEW h \in Handles,
         instances[i] # None, tables[instances[i]].sessions[h] # None
  PROVE  Safe(tables[instances[i]].sessions[h])
<1>1. instances[i] \in States /\ tables[instances[i]] \in Table
  BY Zenon DEF AbiTypeOK
<1>2. tables[instances[i]].sessions[h] \in Live(instances[i])
  BY <1>1, LiveHandles, ZenonT(40) DEF Live
<1> QED
  BY <1>2, Zenon DEF HandlesInv, HandlesOpen, Safe

\* Handles of two tables name different sessions.
LEMMA HandlesApart ==
  ASSUME AbiTypeOK, HandlesInv, NEW p \in States, NEW q \in States, p # q,
         NEW g \in Handles, NEW h \in Handles, tables[p].sessions[g] # None
  PROVE  tables[p].sessions[g] # tables[q].sessions[h]
<1>1. tables[p] \in Table /\ tables[q] \in Table
  BY Zenon DEF AbiTypeOK
<1>2. SUFFICES ASSUME tables[p].sessions[g] = tables[q].sessions[h] PROVE FALSE
  BY Zenon
<1>3. tables[p].sessions[g] \in Live(p) /\ tables[p].sessions[g] \in Live(q)
  BY <1>1, <1>2, LiveHandles, Zenon DEF Live
<1> QED
  BY <1>3, Zenon DEF HandlesInv, TablesApart

\* What makes HandlesInv hold after a step.
LEMMA HandlesAfter ==
  ASSUME AbiTypeOK',
         \A i \in Instances, h \in Handles :
           instances'[i] # None /\ tables'[instances'[i]].sessions[h] # None
             => Safe(tables[instances[i]].sessions[h])',
         \A p, q \in States, g, h \in Handles :
           p # q /\ tables'[p].sessions[g] # None => tables'[p].sessions[g] # tables'[q].sessions[h]
  PROVE  HandlesInv'
<1>1. \A st \in States : \A s : s \in Live(st)' =>
        s # None /\ \E h \in Handles : tables'[st].sessions[h] = s
  BY LiveHandles, Zenon DEF AbiTypeOK, Live
<1>2. \A i \in Instances : instances'[i] # None => instances'[i] \in States
  BY Zenon DEF AbiTypeOK
<1>3. HandlesOpen'
  <2> SUFFICES ASSUME NEW i \in Instances, instances'[i] # None, NEW s \in Live(instances[i])'
               PROVE  Safe(s)'
    BY Zenon DEF HandlesOpen, Safe
  <2>1. PICK h \in Handles : s # None /\ tables'[instances'[i]].sessions[h] = s
    BY <1>1, <1>2, Zenon
  <2> QED
    BY <2>1, Zenon
<1>4. TablesApart'
  <2> SUFFICES ASSUME NEW p \in States, NEW q \in States, p # q, NEW s \in Live(p)', s \in Live(q)'
               PROVE  FALSE
    BY Zenon DEF TablesApart
  <2>1. PICK g \in Handles : s # None /\ tables'[p].sessions[g] = s
    BY <1>1, Zenon
  <2>2. PICK h \in Handles : tables'[q].sessions[h] = s
    BY <1>1, Zenon
  <2> QED
    BY <2>1, <2>2, Zenon
<1> QED
  BY <1>3, <1>4, Zenon DEF HandlesInv

\* A step after which the tables hold no more than before.
LEMMA HandlesShrink ==
  ASSUME AbiTypeOK, AbiTypeOK', HandlesInv,
         \A st \in States, h \in Handles : tables'[st].sessions[h] \in {None, tables[st].sessions[h]},
         \A i \in Instances, h \in Handles :
           instances'[i] # None /\ tables'[instances'[i]].sessions[h] # None
             => /\ instances'[i] = instances[i]
                /\ Safe(tables[instances[i]].sessions[h]) => Safe(tables[instances[i]].sessions[h])'
  PROVE  HandlesInv'
<1>1. \A i \in Instances : instances'[i] # None => instances'[i] \in States
  BY Zenon DEF AbiTypeOK
<1>2. ASSUME NEW i \in Instances, NEW h \in Handles,
             instances'[i] # None, tables'[instances'[i]].sessions[h] # None
      PROVE  Safe(tables[instances[i]].sessions[h])'
  <2>1. instances'[i] = instances[i] /\ tables[instances[i]].sessions[h] # None
    BY <1>1, <1>2, ZenonT(40)
  <2>2. Safe(tables[instances[i]].sessions[h])
    BY <1>2, <2>1, HandlesSafe, Zenon
  <2> QED
    BY <1>2, <2>2, Zenon
<1>3. ASSUME NEW p \in States, NEW q \in States, NEW g \in Handles, NEW h \in Handles,
             p # q, tables'[p].sessions[g] # None
      PROVE  tables'[p].sessions[g] # tables'[q].sessions[h]
  <2>1. ASSUME tables[p].sessions[g] # None PROVE tables[p].sessions[g] # tables[q].sessions[h]
    BY <1>3, <2>1, HandlesApart, SMTT(30)
  <2>2. /\ tables'[p].sessions[g] \in {None, tables[p].sessions[g]}
        /\ tables'[q].sessions[h] \in {None, tables[q].sessions[h]}
    BY Zenon
  <2> QED
    BY <1>3, <2>1, <2>2, Zenon
<1>4. \A p, q \in States, g, h \in Handles :
        p # q /\ tables'[p].sessions[g] # None => tables'[p].sessions[g] # tables'[q].sessions[h]
  BY <1>3, SMTT(30)
<1> QED
  BY <1>2, <1>4, HandlesAfter, ZenonT(40)

\* sessionOpen enters a session that is in no table and that nothing is about to
\* close: the hooks are not at work on the table of an instance that is registered.
LEMMA OpenHandles ==
  ASSUME AbiInv, AbiTypeOK', HandlesInv, NEW c \in Threads, NEW x \in Unmade, NEW k \in Handles,
         call[c].at = "entered", Return(c), UNCHANGED instances, call[c].state \in States,
         Opened(c, x, k)
  PROVE  HandlesInv'
<1> DEFINE st == call[c].state
           r == [Fresh EXCEPT !.owner = call[c].inst, !.late = instances[call[c].inst] # st]
<1>0. AbiTypeOK
  BY Zenon DEF AbiInv
<1>1. /\ x \in 1..MaxOpens /\ x \notin closing
      /\ \A q \in States, g \in Handles : tables[q].sessions[g] # x
      /\ \A d \in Threads : call[d].session # x
  <2>1. /\ x \in 1..MaxOpens /\ x \notin closing
        /\ \A q \in States : x \notin Live(q)
        /\ \A d \in Threads : call[d].session # x
    BY Zenon DEF Unmade
  <2>2. x # None
    BY <2>1 DEF None
  <2> QED
    <3>1. \A q \in States : tables[q] \in Table
      BY <1>0, Zenon DEF AbiTypeOK
    <3>2. ASSUME NEW q \in States, NEW g \in Handles PROVE tables[q].sessions[g] # x
      BY <2>1, <2>2, <3>1, SMTT(30) DEF Live, Range, Table
    <3> QED
      BY <2>1, <3>2, Zenon
<1>2. /\ tables' = [tables EXCEPT ![st].next = NextHandle(k), ![st].sessions[k] = x]
      /\ sessions' = [sessions EXCEPT ![x] = r]
      /\ closing' \in {closing, closing \cup {x}}
      /\ closing' # closing => Live(st) \cap closing # {}
  BY Zenon DEF Opened
<1>3. ~r.closed
  BY Zenon DEF Fresh
<1> HIDE DEF r
<1>4. ~sessions'[x].closed /\ \A s \in 1..MaxOpens \ {x} : sessions'[s] = sessions[s]
  BY <1>0, <1>1, <1>2, <1>3, Zenon DEF AbiTypeOK
<1>5. \A q \in States, g \in Handles :
        tables'[q].sessions[g] = IF q = st /\ g = k THEN x ELSE tables[q].sessions[g]
  <2>1. tables \in [States -> Table] /\ tables[st] \in Table
    BY <1>0, Zenon DEF AbiTypeOK
  <2>2. \A q \in States \ {st} : tables'[q] = tables[q]
    BY <1>2, <2>1, Zenon
  <2>3. tables'[st].sessions = [tables[st].sessions EXCEPT ![k] = x]
    BY <1>2, <2>1, Zenon DEF Table
  <2>4. \A g \in Handles : tables'[st].sessions[g] = IF g = k THEN x ELSE tables[st].sessions[g]
    BY <2>1, <2>3, Zenon DEF Table
  <2> QED
    BY <2>2, <2>4, Zenon
<1>6. \A d \in Threads : call'[d] = call[d] \/ call'[d] = Idle
  BY <1>0, Zenon DEF Return, AbiTypeOK
<1>7. Idle.at # "close"
  BY Zenon DEF Idle
<1>8. ASSUME NEW i \in Instances, NEW h \in Handles,
             instances[i] # None, tables'[instances[i]].sessions[h] # None
      PROVE  Safe(tables[instances[i]].sessions[h])'
  <2> DEFINE s == tables'[instances[i]].sessions[h]
  <2>0. instances[i] \in States /\ s \in 1..MaxOpens
    BY <1>8 DEF AbiTypeOK, Table, None
  <2>1. CASE instances[i] = st /\ h = k
    <3>1. s = x
      BY <1>5, <2>0, <2>1, Zenon
    <3>2. closing' = closing
      <4>1. Live(st) \cap closing = {}
        BY <1>8, <2>1, Zenon DEF HandlesInv, HandlesOpen
      <4> QED
        BY <1>2, <4>1, Zenon
    <3>3. \A d \in Threads : ~(call'[d].at = "close" /\ call'[d].session = x)
      BY <1>1, <1>6, <1>7, Zenon
    <3> QED
      BY <1>1, <1>4, <3>1, <3>2, <3>3, Zenon DEF Safe
  <2>2. CASE ~(instances[i] = st /\ h = k)
    <3>1. s = tables[instances[i]].sessions[h] /\ s # x
      BY <1>1, <1>5, <2>0, <2>2, SMTT(30)
    <3>2. Safe(s)
      BY <1>0, <1>8, <3>1, HandlesSafe, Zenon
    <3>3. sessions'[s] = sessions[s] /\ s \notin closing'
      BY <1>2, <1>4, <2>0, <3>1, <3>2, Zenon DEF Safe
    <3>4. \A d \in Threads : ~(call'[d].at = "close" /\ call'[d].session = s)
      BY <1>6, <1>7, <3>2, Zenon DEF Safe
    <3> QED
      BY <3>2, <3>3, <3>4, Zenon DEF Safe
  <2> QED
    BY <2>1, <2>2, Zenon
<1>9. ASSUME NEW p \in States, NEW q \in States, NEW g \in Handles, NEW h \in Handles,
             p # q, tables'[p].sessions[g] # None
      PROVE  tables'[p].sessions[g] # tables'[q].sessions[h]
  <2>1. tables[p].sessions[g] # None => tables[p].sessions[g] # tables[q].sessions[h]
    BY <1>0, <1>9, HandlesApart, Zenon
  <2> QED
    BY <1>1, <1>5, <1>9, <2>1, SMTT(30)
<1> QED
  BY <1>8, <1>9, HandlesAfter, ZenonT(40)

\* session_close takes the handle out of the one table that has the session.
LEMMA CloseHandles ==
  ASSUME AbiInv, AbiTypeOK', HandlesInv, NEW c \in Threads, NEW k \in Handles,
         CloseLocked(c, k)
  PROVE  HandlesInv'
<1> DEFINE st == call[c].state
           x == tables[st].sessions[k]
<1>0. AbiTypeOK /\ call[c].at = "entered" /\ st \in States
  BY Zenon DEF AbiInv, StatesApart, CloseLocked
<1>1. /\ tables' = [tables EXCEPT ![st].sessions[k] = None]
      /\ UNCHANGED <<instances, sessions, closing>>
      /\ \A d \in Threads \ {c} : call'[d] = call[d]
  BY <1>0, Zenon DEF CloseLocked, Return, AbiTypeOK
<1>2. call'[c].at = "close" => call'[c].session = x /\ x # None
  <2>1. CASE x = None
    BY <1>0, <2>1, SMTT(30) DEF CloseLocked, Return, AbiTypeOK, Idle
  <2>2. CASE x # None
    BY <1>0, <2>2, SMTT(30) DEF CloseLocked, AbiTypeOK, CallRecord
  <2> QED
    BY <2>1, <2>2, Zenon
<1>3. \A q \in States, g \in Handles :
        tables'[q].sessions[g] = IF q = st /\ g = k THEN None ELSE tables[q].sessions[g]
  <2>1. tables \in [States -> Table] /\ tables[st] \in Table
    BY <1>0, Zenon DEF AbiTypeOK
  <2>2. \A q \in States \ {st} : tables'[q] = tables[q]
    BY <1>1, <2>1, Zenon
  <2>3. tables'[st].sessions = [tables[st].sessions EXCEPT ![k] = None]
    <3>1. tables'[st] = [tables[st] EXCEPT !.sessions[k] = None]
      BY <1>0, <1>1, <2>1, Zenon
    <3> QED
      BY <2>1, <3>1, Zenon DEF Table
  <2>4. \A g \in Handles : tables'[st].sessions[g] = IF g = k THEN None ELSE tables[st].sessions[g]
    BY <2>1, <2>3, Zenon DEF Table
  <2> QED
    BY <2>2, <2>4, Zenon
<1>4. \A q \in States, g \in Handles : tables'[q].sessions[g] \in {None, tables[q].sessions[g]}
  BY <1>3, Zenon
<1>5. ASSUME NEW i \in Instances, NEW h \in Handles,
             instances[i] # None, tables'[instances[i]].sessions[h] # None,
             Safe(tables[instances[i]].sessions[h])
      PROVE  Safe(tables[instances[i]].sessions[h])'
  <2> DEFINE s == tables[instances[i]].sessions[h]
  <2>0. instances[i] \in States
    BY <1>0, <1>5, Zenon DEF AbiTypeOK
  <2>1. ~(instances[i] = st /\ h = k) /\ tables'[instances[i]].sessions[h] = s /\ s # None
    BY <1>3, <1>5, <2>0, Zenon
  <2>2. x # None => s # x
    <3>1. CASE instances[i] = st
      <4>1. h \in Used(st) /\ (x # None => k \in Used(st)) /\ h # k
        BY <2>1, <3>1, Zenon DEF Used
      <4> QED
        BY <1>0, <3>1, <4>1, Zenon DEF AbiInv, SessionsBounded
    <3>2. CASE instances[i] # st
      BY <1>0, <2>0, <2>1, <3>2, HandlesApart, Zenon
    <3> QED
      BY <3>1, <3>2, Zenon
  <2>3. \A d \in Threads : ~(call'[d].at = "close" /\ call'[d].session = s)
    BY <1>1, <1>2, <1>5, <2>2, Zenon DEF Safe
  <2>4. PICK y : y = s
    BY Zenon
  <2>5. Safe(y)'
    BY <1>1, <1>5, <2>3, <2>4, Zenon DEF Safe
  <2> QED
    BY <1>1, <2>1, <2>4, <2>5, Zenon DEF Safe
<1> QED
  BY <1>0, <1>1, <1>4, <1>5, HandlesShrink, Zenon

\* The hooks detach the sessions of the instances that go, and no others.
LEMMA DetachHandles ==
  ASSUME AbiInv, AbiTypeOK', HandlesInv, NEW set \in SUBSET Instances, Detach(set)
  PROVE  HandlesInv'
<1>0. AbiTypeOK
  BY Zenon DEF AbiInv
<1>1. /\ UNCHANGED <<sessions, call>>
      /\ closing' = closing \cup
           UNION {Live(instances[i]) : i \in {j \in set : instances[j] # None}}
      /\ \A i \in Instances : instances'[i] = IF i \in set THEN None ELSE instances[i]
      /\ \A st \in States : tables'[st] \in {NewState, tables[st]}
  BY Zenon DEF Detach
<1>2. \A st \in States, h \in Handles : tables'[st].sessions[h] \in {None, tables[st].sessions[h]}
  BY <1>1, SMTT(30) DEF NewState
<1>3. ASSUME NEW i \in Instances, NEW h \in Handles,
             instances'[i] # None, tables'[instances'[i]].sessions[h] # None
      PROVE  /\ instances'[i] = instances[i]
             /\ Safe(tables[instances[i]].sessions[h]) => Safe(tables[instances[i]].sessions[h])'
  <2> DEFINE s == tables[instances[i]].sessions[h]
  <2>1. i \notin set /\ instances'[i] = instances[i] /\ instances[i] # None
    BY <1>1, <1>3, Zenon
  <2>2. instances[i] \in States
    BY <1>0, <2>1, Zenon DEF AbiTypeOK
  <2>3. tables'[instances'[i]].sessions[h] = s /\ s # None
    BY <1>2, <1>3, <2>1, <2>2, Zenon
  <2>4. ASSUME NEW j \in set, instances[j] # None PROVE s \notin Live(instances[j])
    <3>1. instances[j] # instances[i] /\ instances[j] \in States
      BY <1>0, <2>1, <2>4, Zenon DEF AbiInv, StatesApart, AbiTypeOK
    <3>2. s \in Live(instances[i])
      BY <1>0, <2>2, <2>3, LiveHandles, Zenon DEF AbiTypeOK, Live
    <3> QED
      BY <2>2, <3>1, <3>2, Zenon DEF HandlesInv, TablesApart
  <2>5. s \in closing' => s \in closing
    BY <1>1, <2>4, Zenon
  <2> QED
    BY <1>1, <2>1, <2>3, <2>5, Zenon DEF Safe
<1> QED
  BY <1>0, <1>2, <1>3, HandlesShrink, Zenon

\* Every step leaves the sessions that a guest can look up open.
LEMMA HandlesKept == AbiInv /\ AbiInv' /\ HandlesInv /\ [Next]_vars => HandlesInv'
<1> SUFFICES ASSUME AbiInv, AbiInv', HandlesInv, [Next]_vars PROVE HandlesInv'
  BY Zenon
<1>0. AbiTypeOK /\ AbiTypeOK'
  BY Zenon DEF AbiInv
<1>1. ASSUME NEW c, UNCHANGED <<instances, tables>>, closing' \subseteq closing,
             \A d \in Threads : call'[d] = call[d] \/ call'[d].at # "close",
             \A s \in 1..MaxOpens : Safe(s) => ~sessions'[s].closed
      PROVE  HandlesInv'
  <2>1. \A i \in Instances, h \in Handles :
          instances[i] # None /\ tables[instances[i]].sessions[h] # None
            => tables[instances[i]].sessions[h] \in 1..MaxOpens
    BY <1>0 DEF AbiTypeOK, Table, None
  <2>2. \A s \in 1..MaxOpens : Safe(s) => Safe(s)'
    BY <1>1, Zenon DEF Safe
  <2>3. ASSUME NEW i \in Instances, NEW h \in Handles,
               instances[i] # None, tables[instances[i]].sessions[h] # None
        PROVE  Safe(tables[instances[i]].sessions[h]) => Safe(tables[instances[i]].sessions[h])'
    <3>1. PICK s \in 1..MaxOpens : s = tables[instances[i]].sessions[h]
      BY <2>1, <2>3, Zenon
    <3>2. (tables[instances[i]].sessions[h])' = s
      BY <1>1, <3>1, Zenon
    <3>3. Safe(s) => Safe(tables[instances[i]].sessions[h])'
      BY <2>2, <3>2, Zenon DEF Safe
    <3> QED
      BY <3>1, <3>3, Zenon
  <2> QED
    BY <1>0, <1>1, <2>3, HandlesShrink, Zenon
<1>2. ASSUME NEW c \in Threads, NEW i \in Instances, Enter(c, i) PROVE HandlesInv'
  <2> DEFINE st == CallerState(i)
  <2>1. /\ instances' = [instances EXCEPT ![i] = st] /\ UNCHANGED <<sessions, closing>>
        /\ tables' = IF instances[i] = None THEN [tables EXCEPT ![st] = NewState] ELSE tables
        /\ instances[i] # None => st = instances[i]
        /\ call'[c].at = "entered" /\ \A d \in Threads \ {c} : call'[d] = call[d]
    BY <1>0, <1>2, Zenon DEF Enter, CallerState, AbiTypeOK
  <2>2. \A q \in States : tables'[q] \in {NewState, tables[q]}
    BY <1>0, <2>1, Zenon DEF AbiTypeOK
  <2>3. \A q \in States, h \in Handles : tables'[q].sessions[h] \in {None, tables[q].sessions[h]}
    BY <2>2, SMTT(30) DEF NewState
  <2>4. ASSUME NEW j \in Instances, NEW h \in Handles,
               instances'[j] # None, tables'[instances'[j]].sessions[h] # None
        PROVE  /\ instances'[j] = instances[j]
               /\ Safe(tables[instances[j]].sessions[h]) => Safe(tables[instances[j]].sessions[h])'
    <3>0. instances'[j] \in States
      BY <1>0, <2>4, Zenon DEF AbiTypeOK
    <3>1. instances'[j] = instances[j]
      <4>1. CASE j = i /\ instances[i] = None
        <5>1. instances'[j] = st
          BY <1>0, <2>1, <4>1, Zenon DEF AbiTypeOK
        <5>2. tables'[st] = NewState
          BY <1>0, <2>1, <3>0, <4>1, <5>1, Zenon DEF AbiTypeOK
        <5> QED
          BY <2>4, <5>1, <5>2, SMTT(30) DEF NewState
      <4>2. CASE ~(j = i /\ instances[i] = None)
        BY <1>0, <2>1, <4>2, Zenon DEF AbiTypeOK
      <4> QED
        BY <4>1, <4>2, Zenon
    <3>2. tables'[instances'[j]].sessions[h] = tables[instances[j]].sessions[h]
      BY <2>3, <2>4, <3>0, <3>1, Zenon
    <3>3. \A s : Safe(s) => Safe(s)'
      BY <2>1 DEF Safe
    <3> QED
      BY <3>1, <3>2, <3>3, Zenon DEF Safe
  <2> QED
    BY <1>0, <2>3, <2>4, HandlesShrink, Zenon
<1>3. ASSUME NEW c \in Threads, OpenLocked(c) PROVE HandlesInv'
  <2>1. /\ call[c].at = "entered" /\ Return(c) /\ UNCHANGED instances /\ call[c].state \in States
        /\ \/ UNCHANGED <<tables, sessions, closing>>
           \/ \E s \in Unmade, h \in Handles : Opened(c, s, h)
    BY <1>3, OpenCases, Zenon DEF AbiInv
  <2>2. CASE UNCHANGED <<tables, sessions, closing>>
    <3>1. \A d \in Threads : call'[d] = call[d] \/ call'[d] = Idle
      BY <1>0, <2>1, Zenon DEF Return, AbiTypeOK
    <3>2. Idle.at # "close"
      BY Zenon DEF Idle
    <3> QED
      BY <1>1, <2>1, <2>2, <3>1, <3>2, Zenon DEF Safe
  <2>3. CASE \E s \in Unmade, h \in Handles : Opened(c, s, h)
    BY <1>0, <2>1, <2>3, OpenHandles, Zenon
  <2> QED
    BY <2>1, <2>2, <2>3, Zenon
<1>4. ASSUME NEW c \in Threads, NEW h \in Handles, LookupLocked(c, h) PROVE HandlesInv'
  <2>1. UNCHANGED <<instances, tables, sessions, closing>>
    BY <1>4, Zenon DEF LookupLocked
  <2>2. \A d \in Threads : call'[d] = call[d] \/ call'[d].at # "close"
    BY <1>0, <1>4, SMTT(30) DEF LookupLocked, Return, AbiTypeOK, CallRecord, Idle
  <2> QED
    BY <1>1, <2>1, <2>2, Zenon DEF Safe
<1>5. ASSUME NEW c \in Threads, CloseSession(c) \/ Using(c) PROVE HandlesInv'
  <2>1. /\ UNCHANGED <<instances, tables, closing>>
        /\ call' = [call EXCEPT ![c] = Idle]
        /\ \A s \in 1..MaxOpens :
              sessions'[s].closed # sessions[s].closed => call[c].at = "close" /\ call[c].session = s
    BY <1>5, SessionCalls, Zenon
  <2>2. \A d \in Threads : call'[d] = call[d] \/ call'[d] = Idle
    BY <1>0, <2>1, Zenon DEF AbiTypeOK
  <2>3. Idle.at # "close"
    BY Zenon DEF Idle
  <2>4. \A s \in 1..MaxOpens : Safe(s) => ~sessions'[s].closed
    BY <2>1, Zenon DEF Safe
  <2> QED
    BY <1>1, <2>1, <2>2, <2>3, <2>4, Zenon
<1>6. ASSUME NEW q \in 1..MaxOpens, CloseNext(q) PROVE HandlesInv'
  <2>1. /\ UNCHANGED <<instances, tables, call>> /\ closing' = closing \ {q}
        /\ \A s \in 1..MaxOpens \ {q} : sessions'[s] = sessions[s]
    BY <1>6, CloseNextMoves, Zenon
  <2>2. \A s \in 1..MaxOpens : Safe(s) => ~sessions'[s].closed
    BY <1>6, <2>1, Zenon DEF Safe, CloseNext
  <2> QED
    BY <1>1, <2>1, <2>2, Zenon
<1>7. CASE UNCHANGED vars
  BY <1>1, <1>7, Zenon DEF vars, Safe
<1>8. ASSUME NEW c \in Threads, NEW h \in Handles, CloseLocked(c, h) PROVE HandlesInv'
  BY <1>0, <1>8, CloseHandles, Zenon
<1>9. ASSUME NEW set \in SUBSET Instances, Detach(set) PROVE HandlesInv'
  BY <1>0, <1>9, DetachHandles, Zenon
<1> QED
  BY <1>2, <1>3, <1>4, <1>5, <1>6, <1>7, <1>8, <1>9, Zenon
     DEF Next, HostStep, Using, CloseInstance, CloseAll

\* For any number of guests, threads and handles: what a guest can look up is open,
\* and no hook and no session_close is about to close it.
THEOREM HandlesStayOpen == Spec => []HandlesOpen
<1>1. Init => HandlesInv
  <2> SUFFICES ASSUME Init PROVE HandlesInv
    BY Zenon
  <2>1. \A i \in Instances : instances[i] = None
    BY Zenon DEF Init
  <2>2. \A st \in States : Live(st) = {}
    BY Zenon DEF Init, Live, Range, NewState
  <2> QED
    BY <2>1, <2>2, Zenon DEF HandlesInv, HandlesOpen, TablesApart
<1>2. AbiInv /\ HandlesInv /\ [Next]_vars => HandlesInv'
  BY NextInv, HandlesKept, Zenon
<1>3. HandlesInv => HandlesOpen
  BY Zenon DEF HandlesInv
<1> QED
  BY <1>1, <1>2, <1>3, AbiCorrect, PTL DEF Spec

-----------------------------------------------------------------------------
(* Sessions that can still be closed                                       *)

\* The owner and the origin of a session that sessionOpen makes.
LEMMA OpenedRecord ==
  ASSUME NEW r, NEW i \in Instances, NEW b \in BOOLEAN,
         r = [Fresh EXCEPT !.owner = i, !.late = b]
  PROVE  r.owner = i /\ r.late = b /\ ~r.closed
  BY Zenon DEF Fresh

\* Reachable by handles.
LEMMA ReachableHandles ==
  ASSUME AbiTypeOK, NEW s \in 1..MaxOpens
  PROVE  Reachable(s) <=>
           \/ \E i \in Instances, h \in Handles :
                instances[i] # None /\ tables[instances[i]].sessions[h] = s
           \/ s \in closing
           \/ \E c \in Threads : call[c].at = "close" /\ call[c].session = s
<1>1. s # None
  BY DEF None
<1>2. \A i \in Instances : instances[i] # None =>
        (s \in Live(instances[i]) <=> \E h \in Handles : tables[instances[i]].sessions[h] = s)
  BY <1>1, LiveHandles, Zenon DEF AbiTypeOK, Live
<1> QED
  BY <1>2, Zenon DEF Reachable

\* What makes a session reachable after a step.
LEMMA ReachableAfter ==
  ASSUME AbiTypeOK', NEW s \in 1..MaxOpens,
         \/ \E i \in Instances, h \in Handles :
              instances'[i] # None /\ tables'[instances'[i]].sessions[h] = s
         \/ s \in closing'
         \/ \E c \in Threads : call'[c].at = "close" /\ call'[c].session = s
  PROVE  Reachable(s)'
<1>1. s # None
  BY DEF None
<1>2. \A i \in Instances : instances'[i] # None =>
        (s \in Live(instances[i])' <=> \E h \in Handles : tables'[instances'[i]].sessions[h] = s)
  BY <1>1, LiveHandles, Zenon DEF AbiTypeOK, Live
<1> QED
  BY <1>2, Zenon DEF Reachable

\* Every step leaves a session that is in use with something that can close it.
LEMMA ReleasedKept == AbiInv /\ AbiInv' /\ Released /\ [Next]_vars => Released'
<1> SUFFICES ASSUME AbiInv, AbiInv', Released, [Next]_vars, NEW s \in 1..MaxOpens,
                    InUse(s)', ~sessions'[s].late
             PROVE  Reachable(s)'
  BY Zenon DEF Released
<1> DEFINE InTable(i, h) == instances[i] # None /\ tables[instances[i]].sessions[h] = s
           ClosedBy(c) == call[c].at = "close" /\ call[c].session = s
<1>0. AbiTypeOK /\ AbiTypeOK' /\ StatesApart
  BY Zenon DEF AbiInv
<1>1. ASSUME InUse(s), ~sessions[s].late
      PROVE  \/ \E i \in Instances, h \in Handles : InTable(i, h)
             \/ s \in closing
             \/ \E c \in Threads : ClosedBy(c)
  BY <1>0, <1>1, ReachableHandles, Zenon DEF Released
<1>2. Moved(sessions[s], sessions'[s]) => InUse(s) /\ ~sessions[s].late
  BY Zenon DEF Moved, InUse
<1>3. sessions'[s] = sessions[s] => InUse(s) /\ ~sessions[s].late
  BY Zenon DEF InUse
<1>4. ASSUME NEW c \in Threads, NEW i \in Instances, Enter(c, i) PROVE Reachable(s)'
  <2>1. /\ instances' = [instances EXCEPT ![i] = CallerState(i)]
        /\ call[c] = Idle /\ \A d \in Threads \ {c} : call'[d] = call[d]
        /\ closing' = closing /\ sessions' = sessions
    BY <1>0, <1>4, Zenon DEF Enter, AbiTypeOK
  <2>2. \A j \in Instances : instances[j] # None => instances'[j] = instances[j]
    BY <1>0, <2>1, Zenon DEF CallerState, AbiTypeOK
  <2>3. \A j \in Instances : instances[j] # None => tables'[instances[j]] = tables[instances[j]]
    <3>1. CASE instances[i] # None
      BY <1>4, <3>1, Zenon DEF Enter
    <3>2. CASE instances[i] = None
      <4>1. Unused # {} /\ Unused \in SUBSET Nat
        BY <1>4, <3>2 DEF Enter, Unused, States
      <4>2. CallerState(i) \in Unused
        BY <3>2, <4>1, LeastElement, Zenon DEF CallerState
      <4>3. \A j \in Instances : instances[j] # CallerState(i)
        BY <1>0, <4>2, Zenon DEF Unused, Range, AbiTypeOK
      <4>4. tables' = [tables EXCEPT ![CallerState(i)] = NewState]
        BY <1>4, <3>2, Zenon DEF Enter
      <4> QED
        BY <1>0, <4>3, <4>4, Zenon DEF AbiTypeOK
    <3> QED
      BY <3>1, <3>2, Zenon
  <2>4. ~ClosedBy(c)
    BY <2>1 DEF Idle
  <2> QED
    BY <1>0, <1>1, <1>3, <2>1, <2>2, <2>3, <2>4, ReachableAfter, SMTT(30)
<1>5. ASSUME NEW c \in Threads, OpenLocked(c) PROVE Reachable(s)'
  <2>0. /\ call[c].at = "entered" /\ Return(c) /\ instances' = instances
        /\ call[c].state \in States /\ call[c].inst \in Instances
        /\ \/ UNCHANGED <<tables, sessions, closing>>
           \/ \E q \in Unmade, h \in Handles : Opened(c, q, h)
    BY <1>5, OpenCases, Zenon DEF AbiInv
  <2>1. ~ClosedBy(c) /\ \A d \in Threads \ {c} : call'[d] = call[d]
    BY <1>0, <2>0, Zenon DEF Return, AbiTypeOK
  <2>2. CASE UNCHANGED <<tables, sessions, closing>>
    BY <1>0, <1>1, <1>3, <2>0, <2>1, <2>2, ReachableAfter, Zenon
  <2>3. CASE \E q \in Unmade, h \in Handles : Opened(c, q, h)
    <3>1. PICK q \in Unmade, h \in Handles : Opened(c, q, h)
      BY <2>3, Zenon
    <3> DEFINE st == call[c].state
    <3>2. /\ tables' = [tables EXCEPT ![st].next = NextHandle(h), ![st].sessions[h] = q]
          /\ tables[st].sessions[h] = None
          /\ closing \subseteq closing'
          /\ q \in 1..MaxOpens
      BY <3>1, Zenon DEF Opened, Used, Unmade
    <3>3. /\ tables'[st].sessions[h] = q
          /\ \A p \in States, g \in Handles :
               tables[p].sessions[g] # None => tables'[p].sessions[g] = tables[p].sessions[g]
      <4>1. st \in DOMAIN tables /\ h \in Handles /\ DOMAIN tables[st].sessions = Handles /\ {"next", "sessions"} \subseteq DOMAIN tables[st]
        <5>1. tables \in [States -> Table] /\ st \in States /\ h \in Handles
          BY <1>0, <2>0, Zenon DEF AbiTypeOK
        <5>2. tables[st] \in Table
          BY <5>1, Zenon
        <5> QED
          BY <5>1, <5>2, Zenon DEF Table
      <4>2. \A p \in States \ {st} : tables'[p] = tables[p]
        BY <1>0, <3>2, Zenon DEF AbiTypeOK
      <4>3. tables'[st].sessions = [tables[st].sessions EXCEPT ![h] = q]
        BY <3>2, <4>1, Zenon
      <4>4. tables'[st].sessions[h] = q /\ \A g \in Handles \ {h} : tables'[st].sessions[g] = tables[st].sessions[g]
        BY <4>1, <4>3, ZenonT(40)
      <4> QED
        BY <3>2, <4>2, <4>4, Zenon
    <3>4. CASE s = q
      <4> DEFINE b == instances[call[c].inst] # st
      <4>1. PICK r : r = [Fresh EXCEPT !.owner = call[c].inst, !.late = b]
        BY Zenon
      <4>2. sessions' = [sessions EXCEPT ![q] = r]
        BY <3>1, <4>1, Zenon DEF Opened
      <4>3. sessions'[s] = r
        BY <1>0, <3>4, <4>2, Zenon DEF AbiTypeOK
      <4>4. r.late = b
        <5>1. b \in BOOLEAN
          BY Zenon
        <5> HIDE DEF b
        <5> QED
          BY <2>0, <4>1, <5>1, OpenedRecord, Zenon
      <4>5. ~b
        BY <4>3, <4>4, Zenon
      <4>6. instances[call[c].inst] = st /\ st # None
        BY <2>0, <4>5 DEF States, None
      <4> QED
        BY <1>0, <2>0, <3>3, <3>4, <4>6, ReachableAfter, Zenon
    <3>5. CASE s # q
      <4> DEFINE r == [Fresh EXCEPT !.owner = call[c].inst,
                                    !.late = instances[call[c].inst] # st]
      <4>0. sessions' = [sessions EXCEPT ![q] = r]
        BY <3>1, Zenon DEF Opened
      <4> HIDE DEF r
      <4>1. sessions'[s] = sessions[s]
        BY <1>0, <3>5, <4>0, Zenon DEF AbiTypeOK
      <4>2. s # None /\ \A i \in Instances : instances[i] # None => instances[i] \in States
        BY <1>0 DEF None, AbiTypeOK
      <4>3. \/ \E i \in Instances, g \in Handles : InTable(i, g)
            \/ s \in closing
            \/ \E d \in Threads : ClosedBy(d)
        BY <1>1, <1>3, <4>1, Zenon
      <4>4. ASSUME NEW i \in Instances, NEW g \in Handles, InTable(i, g)
            PROVE  instances'[i] # None /\ tables'[instances'[i]].sessions[g] = s
        BY <2>0, <3>3, <4>2, <4>4, Zenon
      <4>5. \A d \in Threads : ClosedBy(d) => call'[d].at = "close" /\ call'[d].session = s
        BY <2>1, Zenon
      <4> QED
        BY <1>0, <3>2, <4>3, <4>4, <4>5, ReachableAfter, ZenonT(40)
    <3> QED
      BY <3>4, <3>5, Zenon
  <2> QED
    BY <2>0, <2>2, <2>3, Zenon
<1>6. ASSUME NEW c \in Threads, NEW h \in Handles, CloseLocked(c, h) \/ LookupLocked(c, h)
      PROVE  Reachable(s)'
  <2> DEFINE st == call[c].state
  <2>0. /\ call[c].at = "entered" /\ UNCHANGED <<instances, sessions, closing>>
        /\ \A d \in Threads \ {c} : call'[d] = call[d]
    BY <1>0, <1>6, Zenon DEF CloseLocked, LookupLocked, Return, AbiTypeOK
  <2>1. ~ClosedBy(c) /\ st \in States
    BY <1>0, <2>0, Zenon DEF StatesApart
  <2>2. CASE tables[st].sessions[h] = s /\ CloseLocked(c, h)
    <3>1. s # None
      BY DEF None
    <3>2. call'[c].at = "close" /\ call'[c].session = s
      BY <1>0, <2>2, <3>1, SMTT(30) DEF CloseLocked, AbiTypeOK, CallRecord
    <3> QED
      BY <1>0, <3>2, ReachableAfter, Zenon
  <2>3. CASE tables[st].sessions[h] # s /\ CloseLocked(c, h)
    <3>1. tables' = [tables EXCEPT ![st].sessions[h] = None]
      BY <2>3, Zenon DEF CloseLocked
    <3>2. \A p \in States, g \in Handles :
            tables[p].sessions[g] = s => tables'[p].sessions[g] = s
      BY <1>0, <2>1, <2>3, <3>1, ZenonT(40) DEF AbiTypeOK, Table
    <3>3. \A i \in Instances : instances[i] # None => instances[i] \in States
      BY <1>0, Zenon DEF AbiTypeOK
    <3> QED
      BY <1>0, <1>1, <1>3, <2>0, <2>1, <3>2, <3>3, ReachableAfter, SMTT(30)
  <2>4. CASE LookupLocked(c, h)
    BY <1>0, <1>1, <1>3, <2>0, <2>1, <2>4, ReachableAfter, Zenon DEF LookupLocked
  <2> QED
    BY <1>6, <2>2, <2>3, <2>4, Zenon
<1>7. ASSUME NEW c \in Threads,
             CloseSession(c) \/ Using(c)
      PROVE  Reachable(s)'
  <2>1. /\ UNCHANGED <<instances, tables, closing>>
        /\ call' = [call EXCEPT ![c] = Idle]
        /\ Moved(sessions[s], sessions'[s])
        /\ call[c].at = "close" => sessions'[call[c].session].closed
    BY <1>7, SessionCalls, Zenon
  <2>2. ~ClosedBy(c) /\ \A d \in Threads \ {c} : call'[d] = call[d]
    BY <1>0, <2>1, Zenon DEF InUse, AbiTypeOK
  <2> QED
    BY <1>0, <1>1, <1>2, <2>1, <2>2, ReachableAfter, Zenon
<1>8. ASSUME NEW set \in SUBSET Instances, Detach(set) PROVE Reachable(s)'
  <2>1. /\ sessions' = sessions /\ call' = call /\ closing \subseteq closing'
        /\ \A i \in Instances \ set : instances'[i] = instances[i]
    BY <1>8, Zenon DEF Detach
  <2>2. ASSUME NEW i \in Instances, NEW h \in Handles, InTable(i, h) PROVE Reachable(s)'
    <3>0. instances[i] \in States /\ s # None
      BY <1>0, <2>2 DEF AbiTypeOK, None
    <3>1. CASE i \in set
      <4>1. s \in Live(instances[i])
        BY <1>0, <2>2, <3>0, LiveHandles, Zenon DEF AbiTypeOK, Live
      <4>2. s \in closing'
        BY <1>8, <2>2, <3>1, <4>1, Zenon DEF Detach
      <4> QED
        BY <1>0, <4>2, ReachableAfter, Zenon
    <3>2. CASE i \notin set
      <4>1. tables'[instances[i]] = tables[instances[i]]
        BY <1>8, <3>0, <3>2, Zenon DEF Detach
      <4> QED
        BY <1>0, <2>1, <2>2, <3>2, <4>1, ReachableAfter, Zenon
    <3> QED
      BY <3>1, <3>2, Zenon
  <2> QED
    BY <1>0, <1>1, <1>3, <2>1, <2>2, ReachableAfter, Zenon
<1>9. ASSUME NEW q \in 1..MaxOpens, CloseNext(q) PROVE Reachable(s)'
  <2>1. /\ UNCHANGED <<instances, tables, call>> /\ closing' = closing \ {q}
        /\ sessions'[q].closed /\ Moved(sessions[s], sessions'[s])
    BY <1>9, CloseNextMoves, Zenon
  <2>2. s # q
    BY <2>1, Zenon DEF InUse
  <2> QED
    BY <1>0, <1>1, <1>2, <2>1, <2>2, ReachableAfter, Zenon
<1>10. CASE UNCHANGED vars
  BY <1>0, <1>1, <1>3, <1>10, ReachableAfter, Zenon DEF vars
<1> QED
  BY <1>4, <1>5, <1>6, <1>7, <1>8, <1>9, <1>10, Zenon DEF Next, HostStep, Using, CloseInstance, CloseAll

\* A session that is not closed is in the table of an instance, or something is
\* about to close it; only a session opened after its instance was closed escapes.
THEOREM SessionsReleased == Spec => []Released
<1>1. Init => Released
  BY DEF Init, Released, InUse, Fresh
<1>2. AbiInv /\ Released /\ [Next]_vars => Released'
  BY NextInv, ReleasedKept, Zenon
<1> QED
  BY <1>1, <1>2, AbiCorrect, PTL DEF Spec
=============================================================================
