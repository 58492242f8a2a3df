------------------------------- MODULE AbiManager -------------------------------
(***************************************************************************)
(* The guest ABI of http2/abi.go: instances open sessions, use them by     *)
(* handle and close them, on several threads, while the hooks of the       *)
(* runtime close an instance or all of them.                               *)
(*                                                                         *)
(* A critical section of manager.mu or of a session's mu is one step; a    *)
(* host call takes several, and keeps in between what it has looked up.    *)
(* A session is the one of Session, reduced to whether it is closed, to    *)
(* how much it has queued, and to whether there is a current event.        *)
(***************************************************************************)
EXTENDS Naturals, FiniteSets, FiniteSetsExt, Functions

CONSTANTS
  Instances,    \* the guests
  Threads,      \* host calls that can be in flight at once
  MaxSessions,  \* of the configuration
  Modulus,      \* the number of values of a handle, 2^32 in the code
  MaxStates,    \* bound: the abiInstances that exist at once
  MaxOpens,     \* bound: the sessions that are made
  MaxTraffic    \* bound: the events and the output units that are outstanding

ASSUME AbiAssumption ==
  /\ MaxSessions \in Nat \ {0}
  /\ Modulus \in Nat /\ Modulus > MaxSessions
  /\ MaxStates \in Nat /\ MaxOpens \in Nat /\ MaxTraffic \in Nat

VARIABLES
  instances,   \* manager.instances
  tables,      \* of each abiInstance: next, and sessions by handle
  sessions,    \* of each session: owner, closed, and what it has queued
  call,        \* of each thread: where its host call is and what it looked up
  closing      \* the sessions that a lifecycle hook has yet to close

vars == <<instances, tables, sessions, call, closing>>

None == 0

States == 1..MaxStates

Handles == 0..(Modulus - 1)

NewState == [next |-> 1, sessions |-> [h \in Handles |-> None]]

Fresh == [owner |-> None, late |-> FALSE, closed |-> FALSE,
          events |-> 0, output |-> 0, current |-> FALSE]

Idle == [at |-> "idle", inst |-> None, state |-> None, session |-> None]

\* The handles in use, and the sessions they name.
Used(st) == {h \in Handles : tables[st].sessions[h] # None}

Live(st) == Range(tables[st].sessions) \ {None}

\* Sessions that were never made or that nothing refers to any more.
Unmade ==
  {s \in 1..MaxOpens : /\ sessions[s] \in {Fresh} \/ sessions[s].closed
                       /\ \A st \in States : s \notin Live(st)
                       /\ s \notin closing
                       /\ \A c \in Threads : call[c].session # s}

\* An abiInstance that nothing refers to any more.
Unused ==
  {st \in States : st \notin Range(instances) /\ \A c \in Threads : call[c].state # st}

InUse(s) == sessions[s].owner # None /\ ~sessions[s].closed

Traffic == MapThenSumSet(LAMBDA s : sessions[s].events + sessions[s].output, 1..MaxOpens)

\* Session.Close drops what is queued; the current event stays with the abiSession.
Closed(s) ==
  [sessions EXCEPT ![s] =
     [sessions[s] EXCEPT !.closed = TRUE, !.late = FALSE, !.events = 0, !.output = 0]]

Return(c) == call' = [call EXCEPT ![c] = Idle]

-----------------------------------------------------------------------------
(* Host calls                                                              *)

\* Mutant: one table for all instances.
CallerStateShared(i) ==
  IF \E j \in Instances : instances[j] # None
  THEN CHOOSE st \in Range(instances) : st # None ELSE Min(Unused)

\* caller: the abiInstance of the guest, made if there is none.
CallerState(i) == IF instances[i] = None THEN Min(Unused) ELSE instances[i]

Enter(c, i) ==
  LET st == CallerState(i) IN
  /\ call[c] = Idle
  /\ instances[i] = None => Unused # {}
  /\ instances' = [instances EXCEPT ![i] = st]
  /\ tables' = IF instances[i] = None THEN [tables EXCEPT ![st] = NewState] ELSE tables
  /\ call' = [call EXCEPT ![c] =
       [at |-> "entered", inst |-> i, state |-> st, session |-> None]]
  /\ UNCHANGED <<sessions, closing>>

\* The limit on the sessions of an instance.
HasSlot(st) == Cardinality(Used(st)) < MaxSessions

\* Mutant: a handle that is in use is taken again after a wrap.
FreeHandleNext(st) == IF tables[st].next = 0 THEN 1 ELSE tables[st].next

\* The first handle from next on, modulo its width, that is neither 0 nor in use.
FreeHandle(st) ==
  LET Handle(n) == (tables[st].next + n) % Modulus
      n == Min({k \in Handles : Handle(k) # 0 /\ tables[st].sessions[Handle(k)] = None})
  IN Handle(n)

NextHandle(h) == (h + 1) % Modulus

\* sessionOpen from the lock on.  NewSession refuses an unknown role.  A session
\* that enters a table that is being closed may or may not be seen.
OpenLocked(c) ==
  LET st == call[c].state
      s == Min(Unmade)
      h == FreeHandle(st)
  IN
  /\ call[c].at = "entered"
  /\ \/ UNCHANGED <<tables, sessions, closing>>
     \/ /\ HasSlot(st) /\ Unmade # {}
        /\ tables' = [tables EXCEPT ![st].next = NextHandle(h), ![st].sessions[h] = s]
        /\ sessions' = [sessions EXCEPT ![s] =
             [Fresh EXCEPT !.owner = call[c].inst, !.late = instances[call[c].inst] # st]]
        /\ closing' \in {closing} \cup
             (IF Live(st) \cap closing # {} THEN {closing \cup {s}} ELSE {})
  /\ Return(c)
  /\ UNCHANGED <<instances>>

\* sessionClose: the handle goes under manager.mu, the session is closed later.
CloseLocked(c, h) ==
  LET st == call[c].state
      s == tables[st].sessions[h]
  IN
  /\ call[c].at = "entered"
  /\ tables' = [tables EXCEPT ![st].sessions[h] = None]
  /\ IF s = None THEN Return(c)
     ELSE call' = [call EXCEPT ![c].at = "close", ![c].session = s]
  /\ UNCHANGED <<instances, sessions, closing>>

\* lookup, for every other call.
LookupLocked(c, h) ==
  LET s == tables[call[c].state].sessions[h] IN
  /\ call[c].at = "entered"
  /\ IF s = None THEN Return(c)
     ELSE call' = [call EXCEPT ![c].at = "use", ![c].session = s]
  /\ UNCHANGED <<instances, tables, sessions, closing>>

\* The session call that follows, under the session's mu; every handler starts so.
Calling(c, label) ==
  /\ call[c].at = label
  /\ Return(c)
  /\ UNCHANGED <<instances, tables, closing>>

CloseSession(c) ==
  /\ Calling(c, "close")
  /\ sessions' = Closed(call[c].session)

\* session_feed: input that raises an event, makes the session answer, both, or
\* neither; a closed session refuses it.
Feed(c) ==
  LET s == call[c].session IN
  /\ Calling(c, "use")
  /\ \/ UNCHANGED sessions
     \/ /\ ~sessions[s].closed
        /\ \E e, o \in 0..1 :
             /\ Traffic + e + o <= MaxTraffic
             /\ sessions' =
                  [sessions EXCEPT ![s] = [sessions[s] EXCEPT !.events = @ + e, !.output = @ + o]]

\* stream_open, stream_headers, stream_data, stream_push, stream_reset,
\* stream_priority_update, session_settings, session_ping, session_goaway: arguments
\* are checked against the guest's memory, then the session queues a frame or refuses.
Send(c) ==
  LET s == call[c].session IN
  /\ Calling(c, "use")
  /\ \/ UNCHANGED sessions
     \/ /\ ~sessions[s].closed /\ Traffic < MaxTraffic
        /\ sessions' = [sessions EXCEPT ![s] = [sessions[s] EXCEPT !.output = @ + 1]]

\* session_output: as much as the guest's buffer holds, nothing if it is not in
\* the guest's memory.
Output(c) ==
  LET s == call[c].session IN
  /\ Calling(c, "use")
  /\ \E n \in 0..sessions[s].output :
       sessions' = [sessions EXCEPT ![s] = [sessions[s] EXCEPT !.output = @ - n]]

\* event_next: the buffer is checked first; the event becomes the current one.
EventNext(c) ==
  LET s == call[c].session IN
  /\ Calling(c, "use")
  /\ \/ UNCHANGED sessions
     \/ /\ sessions[s].events > 0
        /\ sessions' =
             [sessions EXCEPT ![s] = [sessions[s] EXCEPT !.events = @ - 1, !.current = TRUE]]

\* event_data, event_header, event_setting: they read the current event, if any,
\* also that of a session that was closed since the lookup.
EventRead(c) == Calling(c, "use") /\ UNCHANGED sessions

HostStep(c) ==
  \/ OpenLocked(c)
  \/ \E h \in Handles : CloseLocked(c, h) \/ LookupLocked(c, h)
  \/ CloseSession(c) \/ Feed(c) \/ Send(c) \/ Output(c) \/ EventNext(c) \/ EventRead(c)

-----------------------------------------------------------------------------
(* Lifecycle hooks                                                         *)

\* Mutant: the instance stays in manager.instances.
DetachRegistered(set) ==
  /\ closing' = closing \cup
       UNION {Live(instances[i]) : i \in {j \in set : instances[j] # None}}
  /\ UNCHANGED <<instances, tables, sessions, call>>

\* What the hooks do under manager.mu.  A state that neither the registry nor a host
\* call refers to is garbage and starts over.
Detach(set) ==
  /\ instances' = [i \in Instances |-> IF i \in set THEN None ELSE instances[i]]
  /\ closing' = closing \cup
       UNION {Live(instances[i]) : i \in {j \in set : instances[j] # None}}
  /\ tables' = [st \in States |->
       IF /\ \A c \in Threads : call[c].state # st
          /\ \A i \in Instances \ set : instances[i] # st
       THEN NewState ELSE tables[st]]
  /\ UNCHANGED <<sessions, call>>

\* closeInstance and closeAll up to the unlock.
CloseInstance(i) == instances[i] # None /\ Detach({i})

CloseAll == Range(instances) # {None} /\ Detach(Instances)

\* The loop that closes what was detached, under each session's mu.
CloseNext(s) ==
  /\ s \in closing
  /\ sessions' = Closed(s)
  /\ closing' = closing \ {s}
  /\ UNCHANGED <<instances, tables, call>>

-----------------------------------------------------------------------------

Init ==
  /\ instances = [i \in Instances |-> None]
  /\ tables = [st \in States |-> NewState]
  /\ sessions = [s \in 1..MaxOpens |-> Fresh]
  /\ call = [c \in Threads |-> Idle]
  /\ closing = {}

Next ==
  \/ \E c \in Threads, i \in Instances : Enter(c, i)
  \/ \E c \in Threads : HostStep(c)
  \/ \E i \in Instances : CloseInstance(i)
  \/ CloseAll
  \/ \E s \in 1..MaxOpens : CloseNext(s)

Spec == Init /\ [][Next]_vars

-----------------------------------------------------------------------------
(* Properties                                                              *)

Table == [next : Handles, sessions : [Handles -> 0..MaxOpens]]

SessionRecord ==
  [owner : Instances \cup {None}, late : BOOLEAN, closed : BOOLEAN,
   events : Nat, output : Nat, current : BOOLEAN]

CallRecord ==
  [at : {"idle", "entered", "use", "close"}, inst : Instances \cup {None},
   state : States \cup {None}, session : 0..MaxOpens]

AbiTypeOK ==
  /\ instances \in [Instances -> States \cup {None}]
  /\ tables \in [States -> Table]
  /\ sessions \in [1..MaxOpens -> SessionRecord]
  /\ call \in [Threads -> CallRecord]
  /\ closing \subseteq 1..MaxOpens

\* However calls interleave, a table holds at most MaxSessions, never under
\* handle 0, and no session under two handles.
SessionsBounded ==
  \A st \in States :
    /\ Cardinality(Used(st)) <= MaxSessions
    /\ 0 \notin Used(st)
    /\ \A g, h \in Used(st) : tables[st].sessions[g] = tables[st].sessions[h] => g = h

\* A host call works on a session of its own instance, whatever handles other
\* instances use and however often handles wrap.
Isolated ==
  \A c \in Threads :
    call[c].at \in {"use", "close"} => sessions[call[c].session].owner = call[c].inst

\* An abiInstance serves one guest: the one that is registered with it, and that of
\* every host call that still holds it.
StatesApart ==
  /\ \A i, j \in Instances : instances[i] # None /\ instances[i] = instances[j] => i = j
  /\ \A c \in Threads :
       IF call[c].at = "idle" THEN call[c] = Idle
       ELSE /\ call[c].inst \in Instances /\ call[c].state \in States
            /\ call[c].at # "entered" => call[c].session # None
            /\ \A i \in Instances : instances[i] = call[c].state => i = call[c].inst
            /\ \A d \in Threads : call[d].state = call[c].state => call[d].inst = call[c].inst

\* The sessions in the table of an abiInstance belong to the guest it serves.
OwnersAgree ==
  \A st \in States, h \in Handles :
    LET s == tables[st].sessions[h] IN
    s # None =>
      /\ \A i \in Instances : instances[i] = st => sessions[s].owner = i
      /\ \A c \in Threads : call[c].state = st => sessions[s].owner = call[c].inst

\* Types, bounded tables and isolation, in every state; the other conjuncts make
\* it inductive.
AbiInv == AbiTypeOK /\ SessionsBounded /\ Isolated /\ StatesApart /\ OwnersAgree

Reachable(s) ==
  \/ \E i \in Instances : instances[i] # None /\ s \in Live(instances[i])
  \/ s \in closing
  \/ \E c \in Threads : call[c].at = "close" /\ call[c].session = s

\* A session that is not closed can still be closed: it is in the table of an
\* instance, or something is about to close it.  The exception is a session that
\* a host call opens after its instance was closed under it.
Released ==
  \A s \in 1..MaxOpens : InUse(s) /\ ~sessions[s].late => Reachable(s)

\* Nothing that a guest can look up is closed, or about to be: neither by a hook
\* that has detached another instance nor by a session_close that has already
\* taken the handle, however the handles of the guests and their reuse interleave.
HandlesOpen ==
  \A i \in Instances :
    instances[i] # None =>
      \A s \in Live(instances[i]) :
        /\ ~sessions[s].closed
        /\ s \notin closing
        /\ \A c \in Threads : ~(call[c].at = "close" /\ call[c].session = s)

\* No session is in the tables of two abiInstances; with it HandlesOpen is inductive.
TablesApart == \A p, q \in States : p # q => Live(p) \cap Live(q) = {}

HandlesInv == HandlesOpen /\ TablesApart

\* What the documentation says of the hooks: they release every session.
ReleasedAlways == \A s \in 1..MaxOpens : InUse(s) => Reachable(s)
=============================================================================
