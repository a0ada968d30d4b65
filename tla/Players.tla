------------------------------ MODULE Players ------------------------------
(***************************************************************************)
(* The player registry of players.rs and its live queries, over RCON       *)
(* (module Rcon) or over the server's console.                             *)
(*                                                                         *)
(* The main thread feeds every output line to observe_line, which keeps    *)
(* the set of online players and hands the server's answers to the waiting *)
(* queries. A query (pos or dimension, called by Lua code on a worker      *)
(* thread) registers a waiter under the player's name, queues a data get   *)
(* command and waits for a line about that player, any such line, with a   *)
(* timeout. rcon_command has no such second path.                          *)
(***************************************************************************)
EXTENDS Rcon

CONSTANTS
  Names,      \* players
  Of,         \* Of[c]: whom call c asks about
  Kinds,      \* what calls may ask: "pos", "dim", or "raw", an rcon_command
  QueueCap,   \* slots on the way to the server's stdin
  MaxMoves    \* bound: joins and leaves

ASSUME PlayersAssumption ==
  /\ Of \in [Calls -> Names] /\ Kinds \subseteq {"pos", "dim", "raw"}
  /\ QueueCap \in Nat \ {0} /\ MaxMoves \in Nat

VARIABLES
  server,  \* "up" or "gone"
  there,   \* players who are on the server
  stdout,  \* lines printed and not yet read: joins, leaves, answers
  inbox,   \* data get commands on the way to the server
  open,    \* the command queue still has its receiver
  main,    \* the main thread: "reading", past its loop ("ended"), or "stopped"
  online,  \* the players the registry holds online
  waiting, \* pending_pos and pending_dim: calls whose waiter is registered
  call,    \* call[c]: how far call c is
  kind,    \* kind[c]: what it asks ("none" before it begins)
  given,   \* given[c]: what its waiter was given: "none", "value", "dropped"
  path,    \* path[c]: "none", "rcon" or "stdio"
  result,  \* result[c]: "none" yet, "value" or "nil"
  said,    \* said[c]: what the server said to c's command
  moves

worldVars == <<server, there, stdout, inbox, open, moves>>
callVars  == <<call, kind, given, path, result, said>>
regVars   == <<main, online, waiting>>
vars == <<rconVars, worldVars, callVars, regVars>>

Init ==
  /\ RconInit
  /\ server = "up" /\ there = {} /\ stdout = <<>> /\ inbox = <<>> /\ open = TRUE
  /\ main = "reading" /\ online = {} /\ waiting = {}
  /\ call = [c \in Calls |-> "idle"] /\ kind = [c \in Calls |-> "none"]
  /\ given = [c \in Calls |-> "none"]
  /\ path = [c \in Calls |-> "none"] /\ result = [c \in Calls |-> "none"]
  /\ said = [c \in Calls |-> "none"]
  /\ moves = 0
-----------------------------------------------------------------------------
(* The server. *)

Line(what, name, c) == [what |-> what, name |-> name, call |-> c]

Join(n) ==
  /\ server = "up" /\ n \notin there /\ moves < MaxMoves
  /\ there' = there \cup {n} /\ moves' = moves + 1
  /\ stdout' = Append(stdout, Line("join", n, NoCall))
  /\ UNCHANGED <<rconVars, server, inbox, open, callVars, regVars>>

Leave(n) ==
  /\ server = "up" /\ n \in there /\ moves < MaxMoves
  /\ there' = there \ {n} /\ moves' = moves + 1
  /\ stdout' = Append(stdout, Line("leave", n, NoCall))
  /\ UNCHANGED <<rconVars, server, inbox, open, callVars, regVars>>

\* A data get about somebody who is not there prints a line no pattern knows.
Said(c) == IF Of[c] \in there THEN "data" ELSE "no entity"

ServerAnswers ==
  /\ server = "up" /\ inbox # <<>>
  /\ LET c == Head(inbox)
     IN /\ said' = [said EXCEPT ![c] = Said(c)]
        /\ stdout' = IF Said(c) = "data" THEN Append(stdout, Line(kind[c], Of[c], c))
                     ELSE stdout
  /\ inbox' = Tail(inbox)
  /\ UNCHANGED <<rconVars, server, there, open, moves, call, kind, given, path, result,
                 regVars>>

\* It stops or crashes without a word about who was there.
ServerExits ==
  /\ server = "up"
  /\ server' = "gone" /\ there' = {}
  /\ UNCHANGED <<rconVars, stdout, inbox, open, moves, callVars, regVars>>

\* The next write to its stdin fails: the sender goes, and the queue with it.
SenderStops ==
  /\ server = "gone" /\ open /\ inbox # <<>>
  /\ open' = FALSE /\ inbox' = <<>>
  /\ UNCHANGED <<rconVars, server, there, stdout, moves, callVars, regVars>>
-----------------------------------------------------------------------------
(* The main thread: observe_line, and the end of the loop. *)

\* Mutant: an answer goes to one waiter only.
ForOne(l) ==
  LET all == {c \in waiting : kind[c] = l.what /\ Of[c] = l.name}
  IN IF all = {} THEN {} ELSE {CHOOSE c \in all : TRUE}

\* Waiters the server's answer l is for: of its kind, under its name.
For(l) == {c \in waiting : kind[c] = l.what /\ Of[c] = l.name}

\* The waiters in C are taken out and get g.
Give(C, g) ==
  /\ waiting' = waiting \ C
  /\ given' = [c \in Calls |-> IF c \in C THEN g ELSE given[c]]

Observe(l) ==
  \/ l.what \in {"pos", "dim"} /\ Give(For(l), "value") /\ UNCHANGED online
  \/ l.what = "join" /\ online' = online \cup {l.name} /\ UNCHANGED <<waiting, given>>
  \/ /\ l.what = "leave" /\ online' = online \ {l.name}
     /\ Give({c \in waiting : Of[c] = l.name}, "dropped")

ObserveLine ==
  /\ main = "reading" /\ stdout # <<>>
  /\ Observe(Head(stdout))
  /\ stdout' = Tail(stdout)
  /\ UNCHANGED <<rconVars, server, there, inbox, open, moves, main, call, kind, path,
                 result, said>>

\* A line that is not UTF-8 ends the loop, whatever the server prints then.
ReadFails ==
  /\ main = "reading"
  /\ main' = "ended"
  /\ UNCHANGED <<rconVars, worldVars, online, waiting, callVars>>

ReadToEnd == main = "ended" \/ (main = "reading" /\ stdout = <<>>)

\* Mutant: the registry is left as it is when the server goes.
MarkNobodyOffline ==
  /\ ReadToEnd /\ server = "gone"
  /\ main' = "stopped"
  /\ Give(waiting, "dropped")
  /\ UNCHANGED <<rconVars, worldVars, online, call, kind, path, result, said>>

\* check_shutdown: nobody is online any more, and nobody need wait.
MarkAllOffline ==
  /\ ReadToEnd /\ server = "gone"
  /\ main' = "stopped" /\ online' = {}
  /\ Give(waiting, "dropped")
  /\ UNCHANGED <<rconVars, worldVars, call, kind, path, result, said>>
-----------------------------------------------------------------------------
(* A call c, in a callback on a worker thread. *)

At(c, here) == call[c] = here
Go(c, next) == call' = [call EXCEPT ![c] = next] /\ UNCHANGED result
End(c, r)   == call' = [call EXCEPT ![c] = "done"] /\ result' = [result EXCEPT ![c] = r]

\* pos() and dimension() of somebody offline end at once.
Begin(c, k) ==
  /\ At(c, "idle")
  /\ kind' = [kind EXCEPT ![c] = k]
  /\ IF k = "raw" THEN Go(c, "rcon")
     ELSE IF Of[c] \in online THEN Go(c, "online") ELSE End(c, "nil")
  /\ UNCHANGED <<rconVars, worldVars, regVars, given, path, said>>

\* RCON when the flag is set, and then nothing else; or the console.
ChoosePath(c) ==
  /\ At(c, "online")
  /\ Go(c, IF connected THEN "rcon" ELSE "stdio")
  /\ path' = [path EXCEPT ![c] = IF connected THEN "rcon" ELSE "stdio"]
  /\ UNCHANGED <<rconVars, worldVars, regVars, kind, given, said>>

\* RconHandle::command reads the flag again.
CheckConnected(c) ==
  /\ At(c, "rcon")
  /\ IF connected THEN Go(c, "requesting") ELSE End(c, "nil")
  /\ UNCHANGED <<rconVars, worldVars, regVars, kind, given, path, said>>

RequestRcon(c) ==
  /\ At(c, "requesting")
  /\ Request(c) /\ Go(c, "requested")
  /\ UNCHANGED <<worldVars, regVars, kind, given, path, said>>

\* A body about nobody does not parse.
RconReturns(c) ==
  /\ At(c, "requested") /\ reply[c] # "none"
  /\ End(c, IF reply[c] = "body" /\ (said[c] = "data" \/ kind[c] = "raw")
            THEN "value" ELSE "nil")
  /\ UNCHANGED <<rconVars, worldVars, regVars, kind, given, path, said>>

\* Only rcon_command limits its wait; what it asked for is still executed.
RconTimeout(c) ==
  /\ kind[c] = "raw" /\ call[c] \in {"requesting", "requested"} /\ reply[c] = "none"
  /\ End(c, "nil")
  /\ UNCHANGED <<rconVars, worldVars, regVars, kind, given, path, said>>

\* The waiter is registered before the command is sent.
RegisterWaiter(c) ==
  /\ At(c, "stdio")
  /\ waiting' = waiting \cup {c}
  /\ Go(c, "sending")
  /\ UNCHANGED <<rconVars, worldVars, main, online, kind, given, path, said>>

SendCommand(c) ==
  /\ At(c, "sending")
  /\ \/ ~open /\ End(c, "nil") /\ UNCHANGED inbox
     \/ open /\ Len(inbox) < QueueCap /\ inbox' = Append(inbox, c) /\ Go(c, "waiting")
  /\ UNCHANGED <<rconVars, server, there, stdout, open, moves, regVars, kind, given, path, said>>

Receive(c) ==
  /\ At(c, "waiting") /\ given[c] # "none"
  /\ End(c, IF given[c] = "value" THEN "value" ELSE "nil")
  /\ UNCHANGED <<rconVars, worldVars, regVars, kind, given, path, said>>

\* pos_timeout passes: the query gives up, its waiter stays where it is.
Timeout(c) ==
  /\ At(c, "waiting") /\ given[c] = "none"
  /\ End(c, "nil")
  /\ UNCHANGED <<rconVars, worldVars, regVars, kind, given, path, said>>
-----------------------------------------------------------------------------
(* The actor, with the server at the other end. *)

ActorResponds ==
  /\ server = "up" /\ Respond
  /\ said' = [said EXCEPT ![current] = Said(current)]
  /\ UNCHANGED <<worldVars, regVars, call, kind, given, path, result>>

Actor(step) == step /\ UNCHANGED <<worldVars, regVars, callVars>>
ActorConnects == Actor((server = "up" /\ Connect) \/ CannotConnect)
ActorTurnsAway == Actor(TurnAway)
ActorRetries == Actor(Retry)
ActorExecutes == Actor(Execute)
ActorDrops == Actor(Drop(server = "gone"))
ActorLowersFlag == Actor(LowerFlag)

ActorNext == \/ ActorConnects \/ ActorTurnsAway \/ ActorRetries
             \/ ActorExecutes \/ ActorResponds \/ ActorDrops \/ ActorLowersFlag

World == \/ \E n \in Names : Join(n) \/ Leave(n)
         \/ ServerAnswers \/ ServerExits \/ SenderStops
Main  == ObserveLine \/ ReadFails \/ MarkAllOffline
Call(c) == \/ \E k \in Kinds : Begin(c, k)
           \/ ChoosePath(c) \/ CheckConnected(c) \/ RequestRcon(c)
           \/ RconReturns(c) \/ RconTimeout(c) \/ RegisterWaiter(c)
           \/ SendCommand(c) \/ Receive(c) \/ Timeout(c)

Next == World \/ Main \/ ActorNext \/ \E c \in Calls : Call(c)

Spec == Init /\ [][Next]_vars

\* Tasks run and timers fire. A full channel serves its senders in turn, and a
\* request that comes in the retry window does not wait for its end. The server
\* reads its stdin while it is up, and each RCON command ends, with a response
\* or an error (the plugin guide has a caveat on wedged commands).
GoOn(c) == \/ ChoosePath(c) \/ CheckConnected(c) \/ RconReturns(c)
           \/ RegisterWaiter(c) \/ Receive(c) \/ Timeout(c)

Fairness ==
  /\ WF_vars(ServerAnswers) /\ WF_vars(SenderStops)
  /\ WF_vars(ActorConnects) /\ WF_vars(ActorRetries) /\ WF_vars(ActorExecutes)
  /\ WF_vars(ActorResponds \/ ActorDrops) /\ WF_vars(ActorLowersFlag)
  /\ SF_vars(ActorTurnsAway)
  /\ \A c \in Calls : /\ WF_vars(GoOn(c))
                      /\ SF_vars(RequestRcon(c)) /\ SF_vars(SendCommand(c))

FairSpec == Spec /\ Fairness
-----------------------------------------------------------------------------
(* Properties. *)

\* A query that still waits has its waiter registered and its answer still on
\* the way, unless there is none to come: no answer is read before the waiter
\* is there, or given to somebody else only.
OnItsWay(c) == \/ \E i \in DOMAIN inbox : inbox[i] = c
               \/ \E i \in DOMAIN stdout : stdout[i].call = c
NoAnswerLost ==
  \A c \in Calls : (call[c] = "waiting" /\ given[c] = "none") =>
     c \in waiting /\ (OnItsWay(c) \/ said[c] = "no entity" \/ server = "gone")

\* When the output is read up, the registry and the server agree on who is
\* online; and after check_shutdown nobody is.
OnlineIsThere ==
  (main = "stopped" \/ (server = "up" /\ stdout = <<>>)) => online = there

\* Every query comes back to the Lua code that made it, with a value or nil,
\* whatever becomes of the connection, the server, the player and other queries,
\* as long as each attempt to connect and each RCON command ends some day.
CallsReturn == \A c \in Calls : call[c] # "idle" ~> call[c] = "done"

\* A query that chose RCON comes back with nil only if the server knew nobody of
\* the name, or the connection was lost or the server went: not because other
\* calls were before it, timed out, or had the actor turn requests away.
RconFailsForCause ==
  \A c \in Calls : (path[c] = "rcon" /\ result[c] = "nil") =>
    said[c] = "no entity" \/ drops > 0 \/ server = "gone"
=============================================================================
