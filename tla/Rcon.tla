-------------------------------- MODULE Rcon --------------------------------
(***************************************************************************)
(* The RCON client of rcon.rs: one actor task that owns the connection,    *)
(* and the calls that reach it through a handle.                           *)
(*                                                                         *)
(* RconHandle::command reads the connected flag, queues a request and      *)
(* waits for the reply; the actor serves the requests one at a time. When  *)
(* a command fails it drops the connection, and while it cannot connect it *)
(* answers every request with None.                                        *)
(***************************************************************************)
EXTENDS Integers, Sequences

CONSTANTS
  Calls,    \* calls of the handle
  RconCap,  \* slots of the request channel (64)
  MaxDrops  \* bound: connections lost while the server is up

NoCall == "no call"

ASSUME RconAssumption ==
  RconCap \in Nat \ {0} /\ MaxDrops \in Nat /\ NoCall \notin Calls

VARIABLES
  actor,     \* "connecting", "waiting" (to try again), "serving", "executing" or "dropped"
  connected, \* the flag the handles read
  requests,  \* calls queued for the actor
  current,   \* the call whose command the server is executing
  reply,     \* reply[c]: "none" yet, the "body" of a response, or "nothing"
  drops      \* connections lost so far

rconVars == <<actor, connected, requests, current, reply, drops>>

RconInit ==
  /\ actor = "connecting" /\ connected = FALSE
  /\ requests = <<>> /\ current = NoCall
  /\ reply = [c \in Calls |-> "none"] /\ drops = 0

Answer(c, r) == reply' = [reply EXCEPT ![c] = r]

\* Connection and login succeed.
Connect ==
  /\ actor = "connecting"
  /\ actor' = "serving" /\ connected' = TRUE
  /\ UNCHANGED <<requests, current, reply, drops>>

\* They do not: the server is not up yet, or gone, or the password is wrong.
CannotConnect ==
  /\ actor = "connecting"
  /\ actor' = "waiting" /\ connected' = FALSE
  /\ UNCHANGED <<requests, current, reply, drops>>

\* Mutant: requests that come in the retry window wait for the connection.
TurnAwayLater == FALSE /\ UNCHANGED rconVars

\* In the retry window a request is answered with None at once.
TurnAway ==
  /\ actor = "waiting" /\ requests # <<>>
  /\ Answer(Head(requests), "nothing")
  /\ requests' = Tail(requests)
  /\ UNCHANGED <<actor, connected, current, drops>>

\* Mutant: the flag is raised before the login.
RetryRaised ==
  /\ actor = "waiting"
  /\ actor' = "connecting" /\ connected' = TRUE
  /\ UNCHANGED <<requests, current, reply, drops>>

Retry ==
  /\ actor = "waiting"
  /\ actor' = "connecting"
  /\ UNCHANGED <<connected, requests, current, reply, drops>>

Execute ==
  /\ actor = "serving" /\ requests # <<>>
  /\ actor' = "executing" /\ current' = Head(requests) /\ requests' = Tail(requests)
  /\ UNCHANGED <<connected, reply, drops>>

\* The server's response comes back to the caller, if it still waits.
Respond ==
  /\ actor = "executing"
  /\ actor' = "serving" /\ current' = NoCall
  /\ Answer(current, "body")
  /\ UNCHANGED <<connected, requests, drops>>

\* The command fails: None to its caller. The server is gone (lost), or the
\* connection broke.
Drop(lost) ==
  /\ actor = "executing" /\ (lost \/ drops < MaxDrops)
  /\ drops' = IF lost THEN drops ELSE drops + 1
  /\ Answer(current, "nothing")
  /\ actor' = "dropped" /\ current' = NoCall
  /\ UNCHANGED <<connected, requests>>

\* Only then is the flag lowered, and a new connection tried.
LowerFlag ==
  /\ actor = "dropped"
  /\ actor' = "connecting" /\ connected' = FALSE
  /\ UNCHANGED <<requests, current, reply, drops>>

\* RconHandle::command hands its request to the channel, waiting for a slot.
Request(c) ==
  /\ Len(requests) < RconCap
  /\ requests' = Append(requests, c)
  /\ UNCHANGED <<actor, connected, current, reply, drops>>
=============================================================================
