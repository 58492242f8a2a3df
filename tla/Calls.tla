--------------------------------- MODULE Calls ---------------------------------
(***************************************************************************)
(* What a client promises to those who call Do, in any order and at any    *)
(* time: a call is answered only if the peer has served it, it returns     *)
(* once, and no call begins once the client is down.  Transport and Pool   *)
(* implement this.                                                         *)
(***************************************************************************)
CONSTANT Callers

VARIABLES
  status, \* of each call
  served, \* the calls that the peer has served
  down    \* the client takes no more calls

callsVars == <<status, served, down>>

CallsInit ==
  /\ status = [c \in Callers |-> "idle"]
  /\ served = {}
  /\ down = FALSE

Begin(c) ==
  /\ status[c] = "idle" /\ ~down
  /\ status' = [status EXCEPT ![c] = "busy"]
  /\ UNCHANGED <<served, down>>

Refuse(c) ==
  /\ status[c] = "idle"
  /\ status' = [status EXCEPT ![c] = "error"]
  /\ UNCHANGED <<served, down>>

\* The peer may serve a call that is about to fail, or has failed unknown to it,
\* but not one that has not begun or was answered.
Serve(c) ==
  /\ status[c] \in {"busy", "error"} /\ c \notin served
  /\ served' = served \cup {c}
  /\ status' \in {status, [status EXCEPT ![c] = "error"]}
  /\ UNCHANGED down

Answer(c) ==
  /\ status[c] = "busy" /\ c \in served
  /\ status' = [status EXCEPT ![c] = "response"]
  /\ UNCHANGED <<served, down>>

Abort(c) ==
  /\ status[c] = "busy"
  /\ status' = [status EXCEPT ![c] = "error"]
  /\ UNCHANGED <<served, down>>

GoDown ==
  /\ ~down
  /\ down' = TRUE
  /\ UNCHANGED <<status, served>>

CallsNext ==
  \/ \E c \in Callers : Begin(c) \/ Refuse(c) \/ Serve(c) \/ Answer(c) \/ Abort(c)
  \/ GoDown

CallsSpec == CallsInit /\ [][CallsNext]_callsVars
=============================================================================
