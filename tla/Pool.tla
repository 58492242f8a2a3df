---------------------------------- MODULE Pool ----------------------------------
(***************************************************************************)
(* http2/request/pool.go: calls that share one connection, dial another    *)
(* when there is none, and retry what the peer has refused.                *)
(*                                                                         *)
(* A critical section of pool.mu is one step; dialing, transport.Do and    *)
(* transport.Close happen without it.  A connection is the Transport over  *)
(* it, reduced to what its Do answers: it works, its session has received  *)
(* GOAWAY that readLoop has not yet dispatched, it is going away, it has   *)
(* failed, or it was closed.                                               *)
(***************************************************************************)
EXTENDS Naturals

CONSTANTS
  Callers,     \* the calls of Do
  MaxDials,    \* bound: the connections the dialer can make
  Replayable,  \* the calls that retryableRequest lets through
  MaxRetries   \* of the pool, one by default

ASSUME PoolAssumption ==
  /\ MaxDials \in Nat
  /\ Replayable \subseteq Callers
  /\ MaxRetries \in Nat

VARIABLES
  call,        \* where each Do is, its connection, its own dial, its attempt
  processed,   \* how often the peer has processed each call
  conn,        \* the state of each connection
  current,     \* pool.current
  transports,  \* pool.transports
  poolClosed,  \* pool.closed
  closing      \* the connections that Close has yet to close

poolVars == <<call, processed, conn, current, transports, poolClosed, closing>>

Conns == 1..MaxDials

None == 0

Working(t) == conn[t] \in {"open", "going", "goaway"}

At(c, label) == call[c].at = label

Goto(c, label) == call' = [call EXCEPT ![c].at = label]

Return(c, outcome) ==
  call' = [call EXCEPT ![c].at = outcome, ![c].conn = None, ![c].own = None]

Returned(c) == call[c].at \in {"response", "error", "rejected", "turnedaway"}

-----------------------------------------------------------------------------
(* Do                                                                      *)

\* Mutant: closed is not tested.
AcquireThoughClosed(c) ==
  /\ call' = [call EXCEPT ![c].at = IF current # None THEN "use" ELSE "dial",
                          ![c].conn = current]
  /\ UNCHANGED <<processed, conn, current, transports, poolClosed, closing>>

\* transport, up to the first unlock.
Acquire(c) ==
  /\ IF poolClosed
     THEN Return(c, "error")
     ELSE call' = [call EXCEPT ![c].at = IF current # None THEN "use" ELSE "dial",
                               ![c].conn = current]
  /\ UNCHANGED <<processed, conn, current, transports, poolClosed, closing>>

Begin(c) == At(c, "start") /\ Acquire(c)

Again(c) == At(c, "retry") /\ Acquire(c)

\* Dial and NewTransport; a stream that NewTransport refuses is closed.
Dial(c) ==
  /\ At(c, "dial")
  /\ \/ \E t \in Conns :
          /\ conn[t] = "unused" /\ \A u \in 1..(t - 1) : conn[u] # "unused"
          /\ conn' = [conn EXCEPT ![t] = "open"]
          /\ call' = [call EXCEPT ![c].at = "register", ![c].own = t]
     \/ Return(c, "error") /\ UNCHANGED conn
  /\ UNCHANGED <<processed, current, transports, poolClosed, closing>>

\* Mutant: closed is not tested again after the dial.
RegisterThoughClosed(c) ==
  LET selected == IF current = None THEN call[c].own ELSE current IN
  /\ At(c, "register")
  /\ transports' = transports \cup {call[c].own}
  /\ current' = selected
  /\ call' = [call EXCEPT ![c].at = IF selected = call[c].own THEN "use" ELSE "close",
                          ![c].conn = selected]
  /\ UNCHANGED <<processed, conn, poolClosed, closing>>

\* transport, from the second lock: a pool closed meanwhile, or another call
\* that was faster, leaves a connection to close.
Register(c) ==
  LET selected == IF current = None THEN call[c].own ELSE current IN
  /\ At(c, "register")
  /\ IF poolClosed
     THEN /\ Goto(c, "close")
          /\ UNCHANGED <<current, transports>>
     ELSE /\ transports' = transports \cup {call[c].own}
          /\ current' = selected
          /\ call' = [call EXCEPT
               ![c].at = IF selected = call[c].own THEN "use" ELSE "close",
               ![c].conn = selected]
  /\ UNCHANGED <<processed, conn, poolClosed, closing>>

CloseOwn(c) ==
  /\ At(c, "close")
  /\ conn' = [conn EXCEPT ![call[c].own] = "closed"]
  /\ IF call[c].conn = None THEN Return(c, "error") ELSE Goto(c, "use")
  /\ UNCHANGED <<processed, current, transports, poolClosed, closing>>

\* transport.Do as far as OpenStream.  Between Feed and dispatch of a GOAWAY the
\* session turns a stream away with an error that is not a GoAwayError: Do gives it
\* to its caller, as it gives any error that is not retryable.
Use(c) ==
  /\ At(c, "use")
  /\ CASE conn[call[c].conn] = "open" -> Goto(c, "running")
       [] conn[call[c].conn] = "goaway" -> Goto(c, "refused")
       [] conn[call[c].conn] = "going" -> Return(c, "turnedaway")
       [] OTHER -> Return(c, "error")
  /\ UNCHANGED <<processed, conn, current, transports, poolClosed, closing>>

\* Mutant: an error after the response headers is taken for a refusal.
RespondRefused(c) ==
  /\ At(c, "running")
  /\ processed' = [processed EXCEPT ![c] = @ + 1]
  /\ Goto(c, "answered") \/ Goto(c, "refused")
  /\ UNCHANGED <<conn, current, transports, poolClosed, closing>>

\* The end of transport.Do: a response, REFUSED_STREAM before response headers,
\* or any other error, after which the peer may have processed the request.
Respond(c) ==
  /\ At(c, "running")
  /\ processed' = [processed EXCEPT ![c] = @ + 1]
  /\ Goto(c, "answered") \/ Return(c, "error")
  /\ UNCHANGED <<conn, current, transports, poolClosed, closing>>

Reject(c) ==
  /\ At(c, "running")
  /\ \/ Working(call[c].conn) /\ Goto(c, "refused")
     \/ Return(c, "error")
  /\ UNCHANGED <<processed, conn, current, transports, poolClosed, closing>>

Answer(c) ==
  /\ At(c, "answered")
  /\ Return(c, "response")
  /\ UNCHANGED <<processed, conn, current, transports, poolClosed, closing>>

\* Mutant: one retry too few.
MayRetryOnceLess(c) == call[c].attempt + 1 < MaxRetries /\ c \in Replayable

\* The attempts of Do and retryableRequest.
MayRetry(c) == call[c].attempt < MaxRetries /\ c \in Replayable

\* attempt and retryableRequest, then discard and replayRequest.
Retry(c) ==
  /\ At(c, "refused")
  /\ IF MayRetry(c)
     THEN /\ current' = IF current = call[c].conn THEN None ELSE current
          /\ \/ call' = [call EXCEPT ![c].at = "retry", ![c].attempt = @ + 1]
             \/ Return(c, "error")
     ELSE Return(c, "rejected") /\ UNCHANGED current
  /\ UNCHANGED <<processed, conn, transports, poolClosed, closing>>

Step(c) ==
  \/ Dial(c) \/ Register(c) \/ CloseOwn(c) \/ Use(c) \/ Respond(c) \/ Reject(c)
  \/ Answer(c) \/ Retry(c) \/ Again(c)

-----------------------------------------------------------------------------
(* Close and the peer                                                      *)

\* Mutant: only the connection in use is closed.
CloseCurrent ==
  /\ ~poolClosed
  /\ poolClosed' = TRUE
  /\ closing' = {current} \cap transports
  /\ transports' = {}
  /\ current' = None
  /\ UNCHANGED <<call, processed, conn>>

Close ==
  /\ ~poolClosed
  /\ poolClosed' = TRUE
  /\ closing' = transports
  /\ transports' = {}
  /\ current' = None
  /\ UNCHANGED <<call, processed, conn>>

CloseNext ==
  /\ \E t \in closing :
       /\ conn' = [conn EXCEPT ![t] = "closed"]
       /\ closing' = closing \ {t}
  /\ UNCHANGED <<call, processed, current, transports, poolClosed>>

\* GOAWAY arrives, is dispatched; or the connection fails.
PeerStep ==
  /\ \E t \in Conns :
       \/ conn[t] = "open" /\ conn' = [conn EXCEPT ![t] = "going"]
       \/ conn[t] = "going" /\ conn' = [conn EXCEPT ![t] = "goaway"]
       \/ Working(t) /\ conn' = [conn EXCEPT ![t] = "failed"]
  /\ UNCHANGED <<call, processed, current, transports, poolClosed, closing>>

-----------------------------------------------------------------------------

PoolInit ==
  /\ call = [c \in Callers |-> [at |-> "start", conn |-> None, own |-> None, attempt |-> 0]]
  /\ processed = [c \in Callers |-> 0]
  /\ conn = [t \in Conns |-> "unused"]
  /\ current = None
  /\ transports = {}
  /\ poolClosed = FALSE
  /\ closing = {}

PoolNext ==
  \/ \E c \in Callers : Begin(c) \/ Step(c)
  \/ Close \/ CloseNext \/ PeerStep

\* What a call does in the pool, and the release of one whose connection has failed
\* or was closed (FailureReleasesAll of Transport).
OwnStep(c) ==
  \/ Register(c) \/ CloseOwn(c) \/ Use(c) \/ Answer(c) \/ Retry(c) \/ Again(c)
  \/ At(c, "running") /\ ~Working(call[c].conn) /\ Reject(c)

\* The scheduler runs every call and Close.  Nothing is assumed of the dialer, and
\* nothing of the peer of a connection that works: it may never answer.
PoolFairness ==
  /\ \A c \in Callers : WF_poolVars(OwnStep(c))
  /\ WF_poolVars(CloseNext)

PoolSpec == PoolInit /\ [][PoolNext]_poolVars /\ PoolFairness

-----------------------------------------------------------------------------
(* Properties                                                              *)

CallRecord ==
  [at : {"start", "retry", "dial", "register", "close", "use", "running", "answered",
         "refused", "response", "error", "rejected", "turnedaway"},
   conn : Conns \cup {None}, own : Conns \cup {None}, attempt : 0..MaxRetries]

PoolTypeOK ==
  /\ call \in [Callers -> CallRecord]
  /\ processed \in [Callers -> Nat]
  /\ conn \in [Conns -> {"unused", "open", "going", "goaway", "failed", "closed"}]
  /\ current \in Conns \cup {None}
  /\ transports \subseteq Conns
  /\ poolClosed \in BOOLEAN
  /\ closing \subseteq Conns

\* However often a call is retried, and whichever connections fail meanwhile, the
\* peer processes it at most once.
AtMostOnce == \A c \in Callers : processed[c] <= 1

\* The connection that new calls get is registered for Close and is not one that
\* the pool has closed, also when several calls dial at once.  It may have failed.
CurrentIsRegistered ==
  current # None => current \in transports /\ conn[current] # "closed"

\* A call that the transport reports as rejected, by GOAWAY or REFUSED_STREAM, goes
\* back to its caller only if it may not be replayed or its retries are used up.  One
\* that the session turned away is not reported so: see RejectedIsRetried.
RetriesUsedUp ==
  \A c \in Callers \cap Replayable : At(c, "rejected") => call[c].attempt = MaxRetries

\* The calls that own a connection nobody else can have: dialed, and not yet
\* registered or about to be closed.
Owns(c) == call[c].at \in {"register", "close"}

\* A call is processed when it has left transport.Do, and not before.
Accounted ==
  \A c \in Callers :
    /\ call[c].at \in {"answered", "response"} => processed[c] = 1
    /\ At(c, "error") => processed[c] <= 1
    /\ ~(call[c].at \in {"answered", "response", "error"}) => processed[c] = 0

\* A connection that a call will register or close is its own, it is not the one
\* that is shared, and nobody registers or closes it before its call does.
OwnedApart ==
  \A c \in Callers : Owns(c) =>
    /\ call[c].own \in Conns
    /\ conn[call[c].own] # "unused"
    /\ call[c].own # current
    /\ At(c, "register") /\ ~poolClosed =>
         call[c].own \notin transports /\ conn[call[c].own] # "closed"
    /\ \A d \in Callers : Owns(d) /\ d # c => call[d].own # call[c].own

\* What is registered was dialed; Close takes all of it at once.
ClosedEmpty ==
  /\ poolClosed => current = None /\ transports = {}
  /\ ~poolClosed => closing = {}
  /\ \A t \in transports : conn[t] # "unused"

\* Types, the connection that is shared and the retries, in every state; the other
\* conjuncts make it inductive.
PoolInv ==
  PoolTypeOK /\ CurrentIsRegistered /\ RetriesUsedUp /\ Accounted /\ OwnedApart /\ ClosedEmpty

\* After Close, every connection that was or is still being made is closed in
\* the end, also one dialed while Close ran.
CloseLeavesNothing ==
  <>poolClosed => <>[](\A t \in Conns : conn[t] \in {"unused", "closed"})

\* Close ends every call that has begun, wherever it is and whichever connection it
\* uses, however silent the peer is; only a dial that does not return keeps one.
CloseReleasesCalls ==
  \A c \in Callers : (poolClosed /\ ~At(c, "start")) ~> (Returned(c) \/ At(c, "dial"))

\* What a caller sees of its call.
Status(c) ==
  CASE At(c, "start") -> "idle"
    [] At(c, "response") -> "response"
    [] call[c].at \in {"error", "rejected", "turnedaway"} -> "error"
    [] OTHER -> "busy"

\* A pool keeps the promises of Calls: a call is answered only if the peer has
\* processed it, whichever connections it was tried on, and none begins after Close.
Abstract ==
  INSTANCE Calls WITH
    status <- [c \in Callers |-> Status(c)],
    served <- {c \in Callers : processed[c] > 0},
    down <- poolClosed

ImplementsCalls == Abstract!CallsSpec

\* A replayable call that GOAWAY keeps from the peer is retried.
RejectedIsRetried ==
  \A c \in Callers \cap Replayable :
    call[c].at \in {"rejected", "turnedaway"} => call[c].attempt = MaxRetries

\* A call does not end on a connection that had failed before the call looked
\* for one.
FailedIsReplaced ==
  [][\A c \in Callers :
       Begin(c) /\ current # None => conn[current] # "failed"]_poolVars
=============================================================================
