---------------------------- MODULE PlayersProofs ----------------------------
(***************************************************************************)
(* Proofs about the player registry: about modules Players and Rcon, for   *)
(* all calls, players, channel sizes and numbers of joins, leaves and lost *)
(* connections; and, behind them, about module PlayersFile, for every set  *)
(* of players and every bound.                                             *)
(***************************************************************************)
EXTENDS Players, PlayersFile, TLAPS

Lines  == [what : {"join", "leave", "pos", "dim"}, name : Names, call : Calls \cup {NoCall}]
Places == {"idle", "online", "rcon", "requesting", "requested", "stdio", "sending",
           "waiting", "done"}
Kind   == {"pos", "dim"}

WorldType ==
  /\ server \in {"up", "gone"} /\ there \subseteq Names
  /\ stdout \in Seq(Lines) /\ inbox \in Seq(Calls)
RegType  == main \in {"reading", "ended", "stopped"} /\ online \subseteq Names
CallType ==
  /\ call \in [Calls -> Places] /\ kind \in [Calls -> {"none", "raw"} \cup Kind]
  /\ given \in [Calls -> {"none", "value", "dropped"}]
  /\ path \in [Calls -> {"none", "rcon", "stdio"}]
  /\ result \in [Calls -> {"none", "value", "nil"}]
  /\ said \in [Calls -> {"none", "data", "no entity"}]
RconType ==
  /\ actor \in {"connecting", "waiting", "serving", "executing", "dropped"}
  /\ connected \in BOOLEAN
  /\ requests \in Seq(Calls) /\ (actor = "executing" => current \in Calls)
  /\ reply \in [Calls -> {"none", "body", "nothing"}] /\ drops \in Nat

\* The lines that are answers are about what a call has asked, of whom it asked.
IsAnswer(l) == /\ l.call \in Calls /\ l.what \in Kind /\ l.what = kind[l.call]
               /\ l.name = Of[l.call] /\ call[l.call] # "idle"
IsMove(l)   == l.what \in {"join", "leave"} /\ l.call = NoCall
LineInv == \A i \in DOMAIN stdout : IsMove(stdout[i]) \/ IsAnswer(stdout[i])

\* Commands on the console are those of queries that took this path.
InboxInv == \A i \in DOMAIN inbox :
  /\ kind[inbox[i]] \in Kind /\ path[inbox[i]] = "stdio"
  /\ call[inbox[i]] \in {"waiting", "done"}

\* Where a call is goes with what it asks and with its path.
PathInv == \A c \in Calls :
  /\ call[c] \in {"idle", "online"} => path[c] = "none"
  /\ call[c] \in {"stdio", "sending", "waiting"} => path[c] = "stdio"
  /\ call[c] \in {"rcon", "requesting", "requested"} =>
       (path[c] = "none" /\ kind[c] = "raw") \/ path[c] = "rcon"
  /\ call[c] = "online" \/ path[c] # "none" => kind[c] \in Kind
  /\ call[c] # "done" => result[c] = "none"

\* The actor has each request once, and has not answered it yet.
Asked(c) == /\ call[c] \in {"requested", "done"} /\ path[c] # "stdio"
            /\ reply[c] = "none"
ReqInv ==
  /\ \A i \in DOMAIN requests : Asked(requests[i]) /\ requests[i] # current
  /\ \A i, j \in DOMAIN requests : requests[i] = requests[j] => i = j
  /\ current \in Calls => Asked(current)
  /\ \A c \in Calls : /\ call[c] \notin {"requested", "done"} => reply[c] = "none"
                      /\ reply[c] = "body" => said[c] # "none"

\* As long as no connection was lost and the server is up, a query that has
\* chosen RCON is served, and ends only when it has its reply.
Fine == drops = 0 /\ server = "up"
CauseInv ==
  /\ connected => actor \in {"serving", "executing", "dropped"}
  /\ actor = "dropped" => ~Fine
  /\ Fine => \A c \in Calls : path[c] = "rcon" =>
       /\ connected /\ reply[c] # "nothing"
       /\ result[c] # "none" => reply[c] # "none"

\* A query has its waiter registered before it sends its command, until it is
\* given something.
WaiterInv == \A c \in Calls :
  (call[c] \in {"sending", "waiting"} /\ given[c] = "none") => c \in waiting

\* The registry and what is still to be read make up who is there: n is known as
\* online once all of the output is read.
Joins(i, n)  == stdout[i].what = "join" /\ stdout[i].name = n
Leaves(i, n) == stdout[i].what = "leave" /\ stdout[i].name = n
Known(n) ==
  \/ n \in online /\ \A j \in DOMAIN stdout : ~Leaves(j, n)
  \/ \E i \in DOMAIN stdout : /\ Joins(i, n)
                              /\ \A j \in DOMAIN stdout : j > i => ~Leaves(j, n)
ThereInv ==
  /\ server = "gone" => there = {}
  /\ main = "stopped" => server = "gone" /\ online = {}
  /\ server = "up" => \A n \in Names : n \in there <=> Known(n)

TypeInv == WorldType /\ RegType /\ CallType /\ RconType
CallInv == LineInv /\ InboxInv /\ PathInv /\ ReqInv /\ CauseInv /\ WaiterInv
IInv == TypeInv /\ ThereInv /\ CallInv /\ NoAnswerLost /\ RconFailsForCause
-----------------------------------------------------------------------------
\* What Tail and Append do to the elements of a sequence.
LEMMA TailFacts ==
  ASSUME NEW S, NEW s \in Seq(S), s # <<>>
  PROVE  /\ Head(s) = s[1] /\ Head(s) \in S /\ 1 \in DOMAIN s
         /\ Tail(s) \in Seq(S) /\ DOMAIN Tail(s) = 1 .. Len(s) - 1
         /\ \A i \in DOMAIN Tail(s) : i + 1 \in DOMAIN s /\ Tail(s)[i] = s[i + 1]
         /\ \A i \in DOMAIN s : i = 1 \/ (i - 1 \in DOMAIN Tail(s) /\ Tail(s)[i - 1] = s[i])
OBVIOUS

LEMMA AppendFacts ==
  ASSUME NEW S, NEW s \in Seq(S), NEW e \in S
  PROVE  /\ Append(s, e) \in Seq(S) /\ Len(s) + 1 \in DOMAIN Append(s, e)
         /\ Append(s, e)[Len(s) + 1] = e /\ Append(s, e) # <<>>
         /\ \A i \in DOMAIN s : i \in DOMAIN Append(s, e) /\ Append(s, e)[i] = s[i] /\ i <= Len(s)
         /\ \A i \in DOMAIN Append(s, e) : i = Len(s) + 1 \/ i \in DOMAIN s
         /\ DOMAIN s = 1 .. Len(s) /\ Len(s) \in Nat
OBVIOUS
-----------------------------------------------------------------------------
\* Nothing has happened yet.
LEMMA InitInv == Init => IInv
<1> SUFFICES ASSUME Init PROVE IInv
  OBVIOUS
<1>1. WorldType /\ RegType
  BY DEF Init, WorldType, RegType
<1>2. CallType
  BY DEF Init, CallType, Places
<1>3. RconType
  <2>1. connected \in BOOLEAN
    BY DEF Init, RconInit
  <2>2. requests \in Seq(Calls) /\ (actor = "executing" => current \in Calls)
    BY DEF Init, RconInit
  <2> QED
    BY <2>1, <2>2 DEF Init, RconInit, RconType
<1>4. ThereInv
  BY DEF Init, ThereInv, Known, Joins
<1>5. CallInv
  BY RconAssumption DEF Init, RconInit, CallInv, LineInv, InboxInv, PathInv, ReqInv, Asked, CauseInv,
     WaiterInv
<1>6. NoAnswerLost /\ RconFailsForCause
  BY DEF Init, NoAnswerLost, RconFailsForCause
<1> QED
  BY <1>1, <1>2, <1>3, <1>4, <1>5, <1>6 DEF IInv, TypeInv
-----------------------------------------------------------------------------
(* Who is there. *)

\* A line more: a leave makes its player unknown, a join known, others change
\* nothing.
LEMMA KnownAppend ==
  ASSUME stdout \in Seq(Lines), NEW l \in Lines, stdout' = Append(stdout, l),
         online' = online, NEW n
  PROVE  Known(n)' <=> IF l.name = n /\ l.what = "leave" THEN FALSE
                       ELSE (l.name = n /\ l.what = "join") \/ Known(n)
<1>1. PICK m \in Nat :
      /\ m \in DOMAIN stdout' /\ stdout'[m] = l
      /\ DOMAIN stdout' \subseteq Nat
      /\ \A i \in DOMAIN stdout : i \in DOMAIN stdout' /\ stdout'[i] = stdout[i] /\ i < m
      /\ \A i \in DOMAIN stdout' : i = m \/ i \in DOMAIN stdout
  <2> DEFINE m == Len(stdout) + 1
  <2> WITNESS m \in Nat
  <2> QED
    BY AppendFacts
<1>2. \A i \in DOMAIN stdout : /\ Joins(i, n)' <=> Joins(i, n)
                               /\ Leaves(i, n)' <=> Leaves(i, n)
  BY <1>1 DEF Joins, Leaves
<1>3. /\ Joins(m, n)' <=> (l.what = "join" /\ l.name = n)
      /\ Leaves(m, n)' <=> (l.what = "leave" /\ l.name = n)
  BY <1>1 DEF Joins, Leaves
<1>4. CASE l.name = n /\ l.what = "leave"
  <2>1. Leaves(m, n)' /\ ~Joins(m, n)'
    BY <1>3, <1>4
  <2> QED
    BY <1>1, <1>4, <2>1 DEF Known
<1>5. CASE l.name = n /\ l.what = "join"
  <2>1. \A j \in DOMAIN stdout' : ~(j > m)
    BY <1>1
  <2> QED
    BY <1>1, <1>3, <1>5, <2>1 DEF Known
<1>6. CASE ~(l.name = n /\ l.what \in {"join", "leave"})
  <2>1. ~Joins(m, n)' /\ ~Leaves(m, n)'
    BY <1>3, <1>6
  <2> QED
    BY <1>1, <1>2, <1>6, <2>1 DEF Known
<1> QED
  BY <1>4, <1>5, <1>6

\* A line that is read moves what it says from the output to the registry.
LEMMA KnownTail ==
  ASSUME stdout \in Seq(Lines), stdout # <<>>, stdout' = Tail(stdout), NEW n,
         n \in online' <=>
           IF Leaves(1, n) THEN FALSE ELSE Joins(1, n) \/ n \in online
  PROVE  Known(n)' <=> Known(n)
<1>1. /\ 1 \in DOMAIN stdout
      /\ \A i \in DOMAIN stdout' : i + 1 \in DOMAIN stdout /\ stdout'[i] = stdout[i + 1]
      /\ \A i \in DOMAIN stdout : i = 1 \/ (i - 1 \in DOMAIN stdout' /\ stdout'[i - 1] = stdout[i])
      /\ DOMAIN stdout' \subseteq Nat /\ DOMAIN stdout \subseteq Nat \ {0}
  BY TailFacts
<1>2. \A i \in DOMAIN stdout' : /\ Joins(i, n)' <=> Joins(i + 1, n)
                                /\ Leaves(i, n)' <=> Leaves(i + 1, n)
  BY <1>1 DEF Joins, Leaves
<1>3. ~(Joins(1, n) /\ Leaves(1, n))
  BY DEF Joins, Leaves
<1>4. ASSUME Known(n) PROVE Known(n)'
  <2>1. CASE n \in online /\ \A j \in DOMAIN stdout : ~Leaves(j, n)
    BY <1>1, <1>2, <2>1 DEF Known
  <2>2. ASSUME NEW i \in DOMAIN stdout, Joins(i, n),
               \A j \in DOMAIN stdout : j > i => ~Leaves(j, n)
        PROVE  Known(n)'
    <3>1. CASE i = 1
      <4>1. \A j \in DOMAIN stdout' : ~Leaves(j, n)'
        BY <1>1, <1>2, <2>2, <3>1
      <4> QED
        BY <1>3, <2>2, <3>1, <4>1 DEF Known
    <3>2. CASE i # 1
      <4>1. i - 1 \in DOMAIN stdout' /\ Joins(i - 1, n)'
        BY <1>1, <1>2, <2>2, <3>2
      <4>2. \A j \in DOMAIN stdout' : j > i - 1 => ~Leaves(j, n)'
        BY <1>1, <1>2, <2>2
      <4> QED
        BY <4>1, <4>2 DEF Known
    <3> QED
      BY <3>1, <3>2
  <2> QED
    BY <1>4, <2>1, <2>2 DEF Known
<1>5. ASSUME Known(n)' PROVE Known(n)
  <2>1. CASE n \in online' /\ \A j \in DOMAIN stdout' : ~Leaves(j, n)'
    <3>1. ASSUME NEW j \in DOMAIN stdout, j # 1 PROVE ~Leaves(j, n)
      <4>1. j - 1 \in DOMAIN stdout' /\ stdout'[j - 1] = stdout[j]
        BY <1>1, <3>1
      <4>2. ~Leaves(j - 1, n)'
        BY <2>1, <4>1
      <4> QED
        BY <4>1, <4>2 DEF Leaves
    <3>2. ~Leaves(1, n)
      BY <2>1
    <3>3. CASE Joins(1, n)
      BY <1>1, <3>1, <3>3 DEF Known
    <3>4. CASE n \in online
      BY <3>1, <3>2, <3>4 DEF Known
    <3> QED
      BY <2>1, <3>3, <3>4
  <2>2. ASSUME NEW i \in DOMAIN stdout', Joins(i, n)',
               \A j \in DOMAIN stdout' : j > i => ~Leaves(j, n)'
        PROVE  Known(n)
    <3>1. i + 1 \in DOMAIN stdout /\ Joins(i + 1, n)
      BY <1>1, <1>2, <2>2
    <3>2. ASSUME NEW j \in DOMAIN stdout, j > i + 1 PROVE ~Leaves(j, n)
      <4>1. j - 1 \in DOMAIN stdout' /\ j - 1 > i /\ stdout'[j - 1] = stdout[j]
        BY <1>1, <3>2
      <4>2. ~Leaves(j - 1, n)'
        BY <2>2, <4>1
      <4> QED
        BY <4>1, <4>2 DEF Leaves
    <3> QED
      BY <3>1, <3>2 DEF Known
  <2> QED
    BY <1>5, <2>1, <2>2 DEF Known
<1> QED
  BY <1>4, <1>5

\* Whatever leaves the output, the registry and the server's players alone.
LEMMA ThereKeeps ==
  ASSUME ThereInv, UNCHANGED <<server, there, stdout, main, online>>
  PROVE  ThereInv'
BY DEF ThereInv, Known, Joins, Leaves

\* Somebody joins or leaves: a line that no call is concerned with.
LEMMA MovesKeep ==
  ASSUME IInv, NEW n \in Names, Join(n) \/ Leave(n) PROVE IInv'
<1> USE DEF IInv, TypeInv, CallInv
<1>1. PICK l \in Lines : /\ IsMove(l) /\ l.name = n /\ stdout' = Append(stdout, l)
                         /\ Join(n) => l.what = "join"
                         /\ Leave(n) => l.what = "leave"
  <2>1. CASE Join(n)
    <3>1. Line("join", n, NoCall) \in Lines
      BY DEF Line, Lines
    <3> QED
      BY <2>1, <3>1 DEF Join, Leave, Line, IsMove
  <2>2. CASE Leave(n)
    <3>1. Line("leave", n, NoCall) \in Lines
      BY DEF Line, Lines
    <3> QED
      BY <2>2, <3>1 DEF Join, Leave, Line, IsMove
  <2> QED
    BY <2>1, <2>2
<1>2. /\ UNCHANGED <<rconVars, callVars, regVars, server, inbox>> /\ server = "up"
      /\ there' = IF l.what = "join" THEN there \cup {n} ELSE there \ {n}
  BY <1>1 DEF Join, Leave, IsMove
<1>3. /\ stdout' \in Seq(Lines)
      /\ \A i \in DOMAIN stdout : i \in DOMAIN stdout' /\ stdout'[i] = stdout[i]
      /\ \A i \in DOMAIN stdout' : i \in DOMAIN stdout \/ stdout'[i] = l
  BY <1>1, AppendFacts DEF WorldType
<1>4. TypeInv'
  BY <1>2, <1>3 DEF WorldType, RegType, CallType, RconType, rconVars, callVars, regVars
<1>5. ThereInv'
  <2>1. ASSUME NEW m \in Names PROVE m \in there' <=> Known(m)'
    BY <1>1, <1>2, KnownAppend DEF ThereInv, WorldType, regVars, IsMove
  <2> QED
    BY <1>2, <2>1 DEF ThereInv, regVars
<1>6. LineInv' /\ InboxInv' /\ PathInv'
  BY <1>1, <1>2, <1>3 DEF LineInv, IsMove, IsAnswer, InboxInv, PathInv, callVars
<1>7. ReqInv' /\ CauseInv' /\ WaiterInv' /\ RconFailsForCause'
  BY <1>2 DEF ReqInv, Asked, CauseInv, Fine, WaiterInv, RconFailsForCause, callVars, rconVars,
     regVars
<1>8. NoAnswerLost'
  BY <1>2, <1>3 DEF NoAnswerLost, OnItsWay, callVars, regVars
<1> QED
  BY <1>4, <1>5, <1>6, <1>7, <1>8

\* The server answers the first command on its stdin, or finds nobody.
LEMMA ServerAnswersKeeps ==
  ASSUME IInv, ServerAnswers PROVE IInv'
<1> USE DEF IInv, TypeInv, CallInv
<1> DEFINE c == Head(inbox)
           l == Line(kind[c], Of[c], c)
<1>1. /\ c = inbox[1] /\ c \in Calls /\ 1 \in DOMAIN inbox
      /\ inbox' \in Seq(Calls)
      /\ \A i \in DOMAIN inbox' : i + 1 \in DOMAIN inbox /\ inbox'[i] = inbox[i + 1]
      /\ \A i \in DOMAIN inbox : inbox[i] = c
                                 \/ (i - 1 \in DOMAIN inbox' /\ inbox'[i - 1] = inbox[i])
  BY TailFacts DEF ServerAnswers, WorldType
<1>2. /\ kind[c] \in Kind /\ path[c] = "stdio" /\ call[c] \in {"waiting", "done"}
  BY <1>1 DEF InboxInv
<1>3. /\ said' = [said EXCEPT ![c] = Said(c)] /\ server = "up"
      /\ UNCHANGED <<rconVars, server, there, call, kind, given, path, result, regVars>>
      /\ \/ Said(c) = "data" /\ stdout' = Append(stdout, l)
         \/ Said(c) = "no entity" /\ stdout' = stdout
  BY DEF ServerAnswers, Said
<1>4. l \in Lines /\ IsAnswer(l) /\ l.call = c /\ l.what \notin {"join", "leave"}
  BY <1>1, <1>2, PlayersAssumption DEF Line, Lines, IsAnswer, Kind
<1> HIDE DEF c, l
<1>5. /\ said' \in [Calls -> {"none", "data", "no entity"}]
      /\ said'[c] = Said(c) /\ \A d \in Calls : d # c => said'[d] = said[d]
  BY <1>1, <1>3 DEF CallType
<1>6. /\ stdout' \in Seq(Lines)
      /\ \A i \in DOMAIN stdout : i \in DOMAIN stdout' /\ stdout'[i] = stdout[i]
      /\ \A i \in DOMAIN stdout' : i \in DOMAIN stdout \/ stdout'[i] = l
      /\ Said(c) = "data" => \E i \in DOMAIN stdout' : stdout'[i].call = c
  <2>1. CASE Said(c) = "data" /\ stdout' = Append(stdout, l)
    BY <1>4, <2>1, AppendFacts DEF WorldType
  <2>2. CASE Said(c) = "no entity" /\ stdout' = stdout
    BY <2>2 DEF WorldType
  <2> QED
    BY <1>3, <2>1, <2>2
<1>7. TypeInv'
  BY <1>1, <1>3, <1>5, <1>6 DEF WorldType, RegType, CallType, RconType, rconVars, regVars
<1>8. ThereInv'
  <2>1. CASE stdout' = stdout
    BY <1>3, <2>1, ThereKeeps DEF regVars
  <2>2. CASE stdout' = Append(stdout, l)
    <3>1. ASSUME NEW m \in Names PROVE m \in there' <=> Known(m)'
      BY <1>3, <1>4, <2>2, KnownAppend DEF ThereInv, WorldType, regVars
    <3> QED
      BY <1>3, <3>1 DEF ThereInv, regVars
  <2> QED
    BY <1>3, <2>1, <2>2
<1>9. LineInv'
  BY <1>3, <1>4, <1>6 DEF LineInv, IsMove, IsAnswer
<1>10. InboxInv' /\ PathInv'
  <2>1. ASSUME NEW i \in DOMAIN inbox'
        PROVE  /\ kind'[inbox'[i]] \in Kind /\ path'[inbox'[i]] = "stdio"
               /\ call'[inbox'[i]] \in {"waiting", "done"}
    <3>1. i + 1 \in DOMAIN inbox /\ inbox'[i] = inbox[i + 1]
      BY <1>1, <2>1
    <3>2. UNCHANGED <<kind, path, call>>
      BY <1>3
    <3> QED
      BY <3>1, <3>2 DEF InboxInv
  <2> QED
    BY <1>3, <2>1 DEF InboxInv, PathInv
<1>11. ReqInv'
  BY <1>3, <1>5 DEF ReqInv, Asked, rconVars, Said
<1>12. CauseInv' /\ WaiterInv'
  BY <1>3 DEF CauseInv, Fine, WaiterInv, rconVars, regVars
<1>13. RconFailsForCause'
  BY <1>2, <1>3, <1>5 DEF RconFailsForCause, rconVars
<1>14. NoAnswerLost'
  <2> SUFFICES ASSUME NEW d \in Calls, call[d] = "waiting", given[d] = "none"
               PROVE  d \in waiting /\ (OnItsWay(d)' \/ said'[d] = "no entity")
    BY <1>3 DEF NoAnswerLost, regVars
  <2>1. d \in waiting /\ (OnItsWay(d) \/ said[d] = "no entity")
    BY <1>3 DEF NoAnswerLost
  <2>2. CASE d = c
    BY <1>3, <1>5, <1>6, <2>1, <2>2 DEF OnItsWay
  <2>3. CASE d # c
    <3>1. ASSUME NEW i \in DOMAIN inbox, inbox[i] = d PROVE OnItsWay(d)'
      <4>1. i - 1 \in DOMAIN inbox' /\ inbox'[i - 1] = d
        BY <1>1, <2>3, <3>1
      <4> QED
        BY <4>1 DEF OnItsWay
    <3>2. ASSUME NEW i \in DOMAIN stdout, stdout[i].call = d PROVE OnItsWay(d)'
      BY <1>6, <3>2 DEF OnItsWay
    <3> QED
      BY <1>5, <2>1, <2>3, <3>1, <3>2 DEF OnItsWay
  <2> QED
    BY <2>2, <2>3
<1> QED
  BY <1>7, <1>8, <1>9, <1>10, <1>11, <1>12, <1>13, <1>14

\* The server goes; then, at the next command, the sender.
LEMMA ServerGoesKeeps ==
  ASSUME IInv, ServerExits \/ SenderStops PROVE IInv'
<1> USE DEF IInv, TypeInv, CallInv
<1>1. /\ UNCHANGED <<rconVars, stdout, callVars, regVars>> /\ server' = "gone" /\ there' = {}
      /\ inbox' = inbox \/ inbox' = <<>>
  BY DEF ServerExits, SenderStops, ThereInv
<1>2. TypeInv'
  <2>1. inbox' \in Seq(Calls)
    <3>1. <<>> \in Seq(Calls)
      OBVIOUS
    <3> QED
      BY <1>1, <3>1 DEF WorldType
  <2> QED
    BY <1>1, <2>1 DEF WorldType, RegType, CallType, RconType, rconVars, callVars, regVars
<1>3. ThereInv'
  BY <1>1 DEF ThereInv, regVars
<1>4. CallInv'
  BY <1>1 DEF LineInv, IsMove, IsAnswer, InboxInv, PathInv, ReqInv, Asked, CauseInv, Fine,
     WaiterInv, callVars, rconVars, regVars
<1>5. NoAnswerLost' /\ RconFailsForCause'
  BY <1>1 DEF NoAnswerLost, RconFailsForCause, callVars, regVars
<1> QED
  BY <1>2, <1>3, <1>4, <1>5

\* The main thread reads a line: an answer wakes whoever it is for, so whoever
\* asked; a leave wakes all who ask about the player.
LEMMA ObserveKeeps ==
  ASSUME IInv, ObserveLine PROVE IInv'
<1> USE DEF IInv, TypeInv, CallInv
<1> DEFINE h == Head(stdout)
<1>1. /\ h = stdout[1] /\ h \in Lines /\ 1 \in DOMAIN stdout
      /\ stdout # <<>> /\ stdout' = Tail(stdout) /\ stdout' \in Seq(Lines)
      /\ \A i \in DOMAIN stdout' : i + 1 \in DOMAIN stdout /\ stdout'[i] = stdout[i + 1]
      /\ \A i \in DOMAIN stdout : i = 1
                                  \/ (i - 1 \in DOMAIN stdout' /\ stdout'[i - 1] = stdout[i])
  BY TailFacts DEF ObserveLine, WorldType
<1>2. IsMove(h) \/ IsAnswer(h)
  BY <1>1 DEF LineInv
<1>3. /\ UNCHANGED <<rconVars, server, there, inbox, main, call, kind, path, result, said>>
      /\ main = "reading"
  BY DEF ObserveLine
<1>4. PICK C, g :
        /\ C \subseteq waiting /\ g \in {"value", "dropped"} /\ waiting' = waiting \ C
        /\ given' = [c \in Calls |-> IF c \in C THEN g ELSE given[c]]
        /\ IsAnswer(h) => C = For(h)
  <2>1. CASE h.what \in Kind
    BY <2>1 DEF ObserveLine, Observe, Give, For, Kind
  <2>2. CASE h.what = "join"
    <3>1. /\ given' = [c \in Calls |-> IF c \in {} THEN "value" ELSE given[c]]
          /\ waiting' = waiting \ {}
      BY <2>2 DEF ObserveLine, Observe, CallType
    <3>2. {} \subseteq waiting /\ "value" \in {"value", "dropped"} /\ ~IsAnswer(h)
      BY <2>2 DEF IsAnswer, Kind
    <3> WITNESS {}, "value"
    <3> QED
      BY <3>1, <3>2
  <2>3. CASE h.what = "leave"
    BY <2>3 DEF ObserveLine, Observe, Give, IsAnswer, Kind
  <2> QED
    BY <1>2, <2>1, <2>2, <2>3 DEF IsMove, IsAnswer
<1>5. /\ online' \subseteq Names
      /\ \A n \in Names : n \in online' <=>
           IF Leaves(1, n) THEN FALSE ELSE Joins(1, n) \/ n \in online
  BY <1>1, <1>2 DEF ObserveLine, Observe, Leaves, Joins, IsMove, IsAnswer, Kind, Lines, RegType
<1> HIDE DEF h
<1>6. TypeInv'
  BY <1>1, <1>3, <1>4, <1>5 DEF WorldType, RegType, CallType, RconType, rconVars
<1>7. ThereInv'
  <2>1. ASSUME NEW n \in Names PROVE Known(n)' <=> Known(n)
    BY <1>1, <1>5, KnownTail DEF WorldType
  <2> QED
    BY <1>3, <2>1 DEF ThereInv
<1>8. LineInv'
  <2>1. ASSUME NEW i \in DOMAIN stdout' PROVE IsMove(stdout'[i]) \/ IsAnswer(stdout'[i])
    BY <1>1, <2>1 DEF LineInv
  <2> QED
    BY <1>3, <2>1 DEF LineInv, IsMove, IsAnswer
<1>9. InboxInv' /\ PathInv' /\ ReqInv' /\ CauseInv' /\ RconFailsForCause'
  BY <1>3 DEF InboxInv, PathInv, ReqInv, Asked, CauseInv, Fine, RconFailsForCause, rconVars
<1>10. \A c \in Calls : given'[c] = "none" => given[c] = "none" /\ c \notin C
  BY <1>4
<1>11. WaiterInv'
  BY <1>3, <1>4, <1>10 DEF WaiterInv
<1>12. NoAnswerLost'
  <2> SUFFICES ASSUME NEW c \in Calls, call[c] = "waiting", given'[c] = "none",
                      server # "gone", said[c] # "no entity"
               PROVE  c \in waiting' /\ OnItsWay(c)'
    BY <1>3, <1>4, <1>10 DEF NoAnswerLost
  <2>1. c \in waiting /\ c \in waiting' /\ OnItsWay(c)
    BY <1>4, <1>10 DEF NoAnswerLost
  <2>2. h.call # c
    <3>1. ASSUME h.call = c PROVE FALSE
      <4>1. c \in For(h)
        BY <1>2, <2>1, <3>1, RconAssumption DEF IsMove, IsAnswer, For
      <4>2. IsAnswer(h)
        BY <1>2, <3>1, RconAssumption DEF IsMove
      <4> QED
        BY <1>4, <1>10, <4>1, <4>2
    <3> QED
      BY <3>1
  <2>3. ASSUME NEW i \in DOMAIN stdout, stdout[i].call = c PROVE OnItsWay(c)'
    <3>1. i - 1 \in DOMAIN stdout' /\ stdout'[i - 1].call = c
      BY <1>1, <2>2, <2>3
    <3> QED
      BY <3>1 DEF OnItsWay
  <2> QED
    BY <1>3, <2>1, <2>3 DEF OnItsWay
<1> QED
  BY <1>6, <1>7, <1>8, <1>9, <1>11, <1>12

\* The loop ends; and when the server is gone, all are offline and all waiters
\* dropped.
LEMMA LoopEndsKeeps ==
  ASSUME IInv, ReadFails \/ MarkAllOffline PROVE IInv'
<1> USE DEF IInv, TypeInv, CallInv
<1>1. UNCHANGED <<rconVars, worldVars, call, kind, path, result, said>>
  BY DEF ReadFails, MarkAllOffline, callVars
<1>2. CASE ReadFails
  <2>1. UNCHANGED <<online, waiting, given>> /\ main = "reading" /\ main' = "ended"
    BY <1>2 DEF ReadFails, callVars
  <2>2. TypeInv'
    BY <1>1, <2>1 DEF WorldType, RegType, CallType, RconType, rconVars, worldVars
  <2>3. ThereInv'
    <3>1. \A n : Known(n)' <=> Known(n)
      BY <1>1, <2>1 DEF Known, Joins, Leaves, worldVars
    <3> QED
      BY <1>1, <2>1, <3>1 DEF ThereInv, worldVars
  <2>4. CallInv'
    BY <1>1, <2>1 DEF LineInv, IsMove, IsAnswer, InboxInv, PathInv, ReqInv, Asked, CauseInv,
       Fine, WaiterInv, rconVars, worldVars
  <2>5. NoAnswerLost' /\ RconFailsForCause'
    BY <1>1, <2>1 DEF NoAnswerLost, OnItsWay, RconFailsForCause, worldVars, rconVars
  <2> QED
    BY <2>2, <2>4, <2>5, <2>3
<1>3. CASE MarkAllOffline
  <2>1. /\ server = "gone" /\ main' = "stopped" /\ online' = {}
        /\ given' = [c \in Calls |-> IF c \in waiting THEN "dropped" ELSE given[c]]
    BY <1>3 DEF MarkAllOffline, Give
  <2>2. given' \in [Calls -> {"none", "value", "dropped"}]
    BY <2>1 DEF CallType
  <2>3. TypeInv'
    BY <1>1, <2>1, <2>2 DEF WorldType, RegType, CallType, RconType, rconVars, worldVars
  <2>4. ThereInv'
    BY <1>1, <2>1 DEF ThereInv, worldVars
  <2>5. LineInv' /\ InboxInv' /\ PathInv' /\ ReqInv' /\ CauseInv'
    BY <1>1 DEF LineInv, IsMove, IsAnswer, InboxInv, PathInv, ReqInv, Asked, CauseInv,
       Fine, rconVars, worldVars
  <2>6. WaiterInv' /\ NoAnswerLost'
    BY <1>1, <2>1 DEF WaiterInv, NoAnswerLost, OnItsWay, worldVars
  <2>7. RconFailsForCause'
    BY <1>1 DEF RconFailsForCause, worldVars, rconVars
  <2> QED
    BY <2>5, <2>6, <2>7, <2>3, <2>4
<1> QED
  BY <1>2, <1>3
-----------------------------------------------------------------------------
(* A call. *)

\* What every step of a call c leaves alone, and where c then is.
CallStep(c) ==
  /\ UNCHANGED <<server, there, stdout, main, online, actor, connected, current, reply,
                 drops, given, said>>
  /\ call' \in [Calls -> Places] /\ \A d \in Calls : d # c => call'[d] = call[d]
  /\ call[c] # "done"

\* One that asks for nothing and sends nothing yet, or ends.
Plain(c) ==
  /\ CallStep(c) /\ UNCHANGED <<requests, inbox, waiting, kind, path>>
  /\ result' \in [Calls -> {"none", "value", "nil"}]
  /\ \A d \in Calls : d # c => result'[d] = result[d]
  /\ call'[c] # "done" => result'[c] = result[c]

LEMMA GoFacts ==
  ASSUME CallType, NEW c \in Calls, NEW p \in Places, Go(c, p)
  PROVE  /\ call' \in [Calls -> Places] /\ call'[c] = p /\ result' = result
         /\ \A d \in Calls : d # c => call'[d] = call[d]
BY DEF CallType, Go

LEMMA EndFacts ==
  ASSUME CallType, NEW c \in Calls, NEW r \in {"value", "nil"}, End(c, r)
  PROVE  /\ call' \in [Calls -> Places] /\ call'[c] = "done"
         /\ \A d \in Calls : d # c => call'[d] = call[d]
         /\ result' \in [Calls -> {"none", "value", "nil"}] /\ result'[c] = r
         /\ \A d \in Calls : d # c => result'[d] = result[d]
BY DEF CallType, End, Places

\* Plain steps keep the invariant: the rules of PathInv decide what a call may do
\* next, and what it needs for that.
LEMMA PlainKeeps ==
  ASSUME IInv, NEW c \in Calls, Plain(c), call[c] # "idle", call'[c] # "idle", PathInv',
         call[c] \in {"requested", "done"} => call'[c] \in {"requested", "done"},
         call[c] = "waiting" => call'[c] \in {"waiting", "done"},
         call'[c] \in {"sending", "waiting"} => call[c] = call'[c],
         Fine /\ path[c] = "rcon" /\ result'[c] # "none" => reply[c] # "none",
         RconFailsForCause'
  PROVE  IInv'
<1> USE DEF IInv, TypeInv, CallInv, Plain, CallStep
<1>1. TypeInv'
  BY DEF WorldType, RegType, CallType, RconType
<1>2. ThereInv'
  BY ThereKeeps
<1>3. \A d \in Calls :
        /\ call[d] # "idle" => call'[d] # "idle"
        /\ call[d] \in {"waiting", "done"} => call'[d] \in {"waiting", "done"}
        /\ call[d] \in {"requested", "done"} => call'[d] \in {"requested", "done"}
  OBVIOUS
<1>4. LineInv'
  BY <1>3 DEF LineInv, IsMove, IsAnswer
<1>5. InboxInv'
  BY <1>3 DEF InboxInv, WorldType
<1>6. ReqInv'
  <2>1. \A d \in Calls : Asked(d) => Asked(d)'
    BY <1>3 DEF Asked
  <2>2. \A i \in DOMAIN requests : requests[i] \in Calls
    BY DEF RconType
  <2> QED
    BY <1>3, <2>1, <2>2 DEF ReqInv
<1>7. CauseInv' /\ WaiterInv'
  BY DEF CauseInv, Fine, WaiterInv
<1>8. NoAnswerLost'
  <2>1. NoAnswerLost /\ \A d \in Calls : OnItsWay(d)' = OnItsWay(d)
    BY DEF OnItsWay
  <2> QED
    BY <1>3, <2>1 DEF NoAnswerLost
<1> QED
  BY <1>1, <1>2, <1>4, <1>5, <1>6, <1>7, <1>8

\* RCON's second look at the flag, its reply or its timeout: a query that chose
\* RCON gets nil here for one of the three causes only.
LEMMA RconCallKeeps ==
  ASSUME IInv, NEW c \in Calls, CheckConnected(c) \/ RconReturns(c) \/ RconTimeout(c)
  PROVE  IInv'
<1> USE DEF IInv, TypeInv, CallInv
<1>1. /\ call[c] \in {"rcon", "requesting", "requested"} /\ result[c] = "none"
      /\ UNCHANGED <<rconVars, worldVars, regVars, kind, given, path, said>>
      /\ path[c] # "stdio" /\ (path[c] = "rcon" => kind[c] \in Kind)
  BY DEF CheckConnected, RconReturns, RconTimeout, At, PathInv
<1>2. \/ connected /\ call[c] = "rcon" /\ Go(c, "requesting")
      \/ End(c, "value") /\ reply[c] # "none"
      \/ End(c, "nil") /\ (path[c] = "rcon" => /\ said[c] = "no entity" \/ ~Fine
                                               /\ reply[c] # "none" \/ ~Fine)
  <2>1. CASE CheckConnected(c)
    BY <1>1, <2>1 DEF CheckConnected, At, CauseInv
  <2>2. CASE RconReturns(c)
    <3>1. reply[c] = "body" \/ reply[c] = "nothing"
      BY <2>2 DEF RconReturns, RconType
    <3>2. reply[c] = "body" => said[c] \in {"data", "no entity"}
      BY DEF ReqInv, CallType
    <3>3. path[c] = "rcon" /\ reply[c] = "nothing" => ~Fine
      BY DEF CauseInv
    <3>4. path[c] = "rcon" => kind[c] # "raw"
      BY <1>1 DEF Kind
    <3> QED
      BY <2>2, <3>1, <3>2, <3>3, <3>4 DEF RconReturns
  <2>3. CASE RconTimeout(c)
    BY <1>1, <2>3 DEF RconTimeout, Kind
  <2> QED
    BY <2>1, <2>2, <2>3
<1>3. Plain(c) /\ call'[c] \in {"requesting", "done"}
  BY <1>1, <1>2, GoFacts, EndFacts
     DEF Plain, CallStep, CallType, Places, rconVars, worldVars, regVars
<1>4. call'[c] = "requesting" => connected /\ call[c] = "rcon" /\ result'[c] = "none"
  BY <1>1, <1>2, EndFacts, GoFacts DEF Places
<1>5. result'[c] = "nil" => (path[c] = "rcon" => said[c] = "no entity" \/ ~Fine)
  BY <1>1, <1>2, GoFacts, EndFacts DEF Places
<1>6. result'[c] # "none" => (path[c] = "rcon" => reply[c] # "none" \/ ~Fine)
  BY <1>1, <1>2, GoFacts, EndFacts DEF Places
<1>7. PathInv'
  BY <1>1, <1>3, <1>4 DEF PathInv, Plain, CallStep
<1>8. RconFailsForCause'
  <2>1. ~Fine => drops > 0 \/ server = "gone"
    BY DEF Fine, RconType, WorldType
  <2>2. UNCHANGED <<path, said, drops, server>> /\ \A d \in Calls : d # c => result'[d] = result[d]
    BY <1>3 DEF Plain, CallStep
  <2> QED
    BY <1>5, <2>1, <2>2 DEF RconFailsForCause
<1> QED
  BY <1>1, <1>3, <1>4, <1>6, <1>7, <1>8, PlainKeeps

\* What comes of a console query: what its waiter was given, or the timeout.
LEMMA WaitEndsKeeps ==
  ASSUME IInv, NEW c \in Calls, Receive(c) \/ Timeout(c)
  PROVE  IInv'
<1> USE DEF IInv, TypeInv, CallInv
<1>1. /\ call[c] = "waiting" /\ path[c] = "stdio"
      /\ UNCHANGED <<rconVars, worldVars, regVars, kind, given, path, said>>
      /\ End(c, "value") \/ End(c, "nil")
  BY DEF Receive, Timeout, At, PathInv
<1>2. Plain(c) /\ call'[c] = "done"
  BY <1>1, EndFacts DEF Plain, CallStep, rconVars, worldVars, regVars
<1>3. PathInv'
  BY <1>1, <1>2 DEF PathInv, Plain, CallStep
<1>4. RconFailsForCause'
  BY <1>1, <1>2 DEF RconFailsForCause, Plain, CallStep
<1> QED
  BY <1>1, <1>2, <1>3, <1>4, PlainKeeps

\* A query begins: it has neither asked nor been asked for anything.
LEMMA BeginKeeps ==
  ASSUME IInv, NEW c \in Calls, NEW k \in Kinds, Begin(c, k)
  PROVE  IInv'
<1> USE DEF IInv, TypeInv, CallInv
<1>1. /\ call[c] = "idle" /\ kind' = [kind EXCEPT ![c] = k] /\ path[c] = "none"
      /\ UNCHANGED <<rconVars, worldVars, regVars, given, path, said>>
      /\ k \in Kind \cup {"raw"} /\ reply[c] = "none" /\ result[c] = "none"
  BY PlayersAssumption DEF Begin, At, PathInv, Kind, ReqInv
<1>2. \/ Go(c, "rcon") /\ k = "raw"
      \/ Go(c, "online") /\ k \in Kind
      \/ End(c, "nil") /\ k \in Kind
  BY <1>1 DEF Begin
<1>3. /\ call' \in [Calls -> Places] /\ call'[c] \in {"rcon", "online", "done"}
      /\ call'[c] = "rcon" => k = "raw" 
      /\ call'[c] = "online" => k \in Kind
      /\ call'[c] # "done" => result'[c] = "none"
      /\ \A d \in Calls : d # c => call'[d] = call[d] /\ result'[d] = result[d]
      /\ result' \in [Calls -> {"none", "value", "nil"}]
  BY <1>1, <1>2, GoFacts, EndFacts DEF Places, CallType
<1>4. /\ kind' \in [Calls -> {"none", "raw"} \cup Kind]
      /\ kind'[c] = k /\ \A d \in Calls : d # c => kind'[d] = kind[d]
  BY <1>1 DEF CallType
<1>5. TypeInv'
  BY <1>1, <1>3, <1>4 DEF WorldType, RegType, CallType, RconType, rconVars, worldVars, regVars
<1>6. ThereInv'
  BY <1>1, ThereKeeps DEF worldVars, regVars
<1>7. LineInv'
  BY <1>1, <1>3, <1>4 DEF LineInv, IsMove, IsAnswer, worldVars
<1>8. InboxInv' /\ PathInv'
  BY <1>1, <1>3, <1>4 DEF InboxInv, PathInv, worldVars, WorldType
<1>9. ReqInv'
  <2>1. \A d \in Calls : Asked(d) => Asked(d)'
    BY <1>1, <1>3 DEF Asked, rconVars
  <2>2. \A i \in DOMAIN requests : requests[i] \in Calls
    BY DEF RconType
  <2> QED
    BY <1>1, <1>3, <2>1, <2>2 DEF ReqInv, rconVars
<1>10. CauseInv' /\ WaiterInv' /\ RconFailsForCause'
  BY <1>1, <1>3 DEF CauseInv, Fine, WaiterInv, RconFailsForCause, rconVars, worldVars, regVars
<1>11. NoAnswerLost'
  BY <1>1, <1>3 DEF NoAnswerLost, OnItsWay, worldVars, regVars
<1> QED
  BY <1>5, <1>6, <1>7, <1>8, <1>9, <1>10, <1>11

\* A query chooses RCON while the flag is up, and the flag is up while the actor
\* serves.
LEMMA ChoosePathKeeps ==
  ASSUME IInv, NEW c \in Calls, ChoosePath(c)
  PROVE  IInv'
<1> USE DEF IInv, TypeInv, CallInv
<1> DEFINE p == IF connected THEN "rcon" ELSE "stdio"
<1>1. /\ call[c] = "online" /\ p \in Places /\ Go(c, p)
      /\ path' = [path EXCEPT ![c] = p]
      /\ UNCHANGED <<rconVars, worldVars, regVars, kind, given, said>>
      /\ kind[c] \in Kind /\ reply[c] = "none" /\ result[c] = "none"
      /\ p = "rcon" => connected
  BY DEF ChoosePath, At, PathInv, ReqInv, Places
<1>2. p \in {"rcon", "stdio"}
  OBVIOUS
<1> HIDE DEF p
<1>3. /\ call' \in [Calls -> Places] /\ call'[c] = p /\ result' = result
      /\ \A d \in Calls : d # c => call'[d] = call[d] /\ path'[d] = path[d]
      /\ path' \in [Calls -> {"none", "rcon", "stdio"}] /\ path'[c] = p
  BY <1>1, <1>2, GoFacts DEF CallType
<1>4. TypeInv'
  BY <1>1, <1>3 DEF WorldType, RegType, CallType, RconType, rconVars, worldVars, regVars
<1>5. ThereInv'
  BY <1>1, ThereKeeps DEF worldVars, regVars
<1>6. LineInv'
  BY <1>1, <1>2, <1>3 DEF LineInv, IsMove, IsAnswer, worldVars
<1>7. InboxInv' /\ PathInv'
  BY <1>1, <1>2, <1>3 DEF InboxInv, PathInv, worldVars, WorldType
<1>8. ReqInv'
  <2>1. \A d \in Calls : Asked(d) => Asked(d)'
    BY <1>1, <1>3 DEF Asked, rconVars
  <2>2. \A i \in DOMAIN requests : requests[i] \in Calls
    BY DEF RconType
  <2> QED
    BY <1>1, <1>2, <1>3, <2>1, <2>2 DEF ReqInv, rconVars
<1>9. CauseInv' /\ WaiterInv' /\ RconFailsForCause'
  BY <1>1, <1>2, <1>3 DEF CauseInv, Fine, WaiterInv, RconFailsForCause, rconVars, worldVars,
     regVars
<1>10. NoAnswerLost'
  <2>1. \A d \in Calls : call'[d] = "waiting" => call[d] = "waiting"
    BY <1>2, <1>3
  <2> QED
    BY <1>1, <2>1 DEF NoAnswerLost, OnItsWay, worldVars, regVars
<1> QED
  BY <1>4, <1>5, <1>6, <1>7, <1>8, <1>9, <1>10

\* A request is queued, once.
LEMMA RequestKeeps ==
  ASSUME IInv, NEW c \in Calls, RequestRcon(c)
  PROVE  IInv'
<1> USE DEF IInv, TypeInv, CallInv
<1>1. /\ call[c] = "requesting" /\ Go(c, "requested") /\ requests' = Append(requests, c)
      /\ UNCHANGED <<actor, connected, current, reply, drops, worldVars, regVars, kind, given,
                     path, said>>
      /\ reply[c] = "none" /\ result[c] = "none" /\ path[c] # "stdio"
  BY DEF RequestRcon, Request, At, PathInv, ReqInv
<1>2. /\ call' \in [Calls -> Places] /\ call'[c] = "requested" /\ result' = result
      /\ \A d \in Calls : d # c => call'[d] = call[d]
  BY <1>1, GoFacts DEF Places
<1>3. /\ requests' \in Seq(Calls)
      /\ \A i \in DOMAIN requests' :
           \/ i = Len(requests) + 1 /\ requests'[i] = c
           \/ i \in DOMAIN requests /\ requests'[i] = requests[i]
  BY <1>1, AppendFacts DEF RconType
<1>4. TypeInv'
  BY <1>1, <1>2, <1>3 DEF WorldType, RegType, CallType, RconType, worldVars, regVars
<1>5. ThereInv'
  BY <1>1, ThereKeeps DEF worldVars, regVars
<1>6. LineInv' /\ InboxInv' /\ PathInv'
  <2>1. LineInv'
    BY <1>1, <1>2 DEF LineInv, IsMove, IsAnswer, worldVars
  <2>2. InboxInv'
    BY <1>1, <1>2 DEF InboxInv, worldVars, WorldType
  <2>3. PathInv'
    BY <1>1, <1>2 DEF PathInv
  <2> QED
    BY <2>1, <2>2, <2>3
<1>7. ReqInv'
  <2>1. \A d \in Calls : Asked(d) => Asked(d)' /\ d # c
    BY <1>1, <1>2 DEF Asked
  <2>2. Asked(c)' /\ c # current
    BY <1>1, <1>2 DEF Asked, ReqInv
  <2>3. \A i \in DOMAIN requests : requests[i] \in Calls /\ requests[i] # c
    BY <2>1 DEF RconType, ReqInv
  <2>4. ASSUME NEW i \in DOMAIN requests', NEW d, d = requests'[i]
        PROVE  Asked(d)' /\ d # current'
    BY <1>1, <1>3, <2>1, <2>2, <2>3, <2>4 DEF ReqInv
  <2>5. \A i, j \in DOMAIN requests' : requests'[i] = requests'[j] => i = j
    BY <1>3, <2>3 DEF ReqInv
  <2> QED
    BY <1>1, <1>2, <2>1, <2>4, <2>5 DEF ReqInv, Asked
<1>8. CauseInv' /\ WaiterInv' /\ RconFailsForCause'
  BY <1>1, <1>2 DEF CauseInv, Fine, WaiterInv, RconFailsForCause, worldVars, regVars
<1>9. NoAnswerLost'
  BY <1>1, <1>2 DEF NoAnswerLost, OnItsWay, worldVars, regVars
<1> QED
  BY <1>4, <1>5, <1>6, <1>7, <1>8, <1>9

\* First the waiter, then the command.
LEMMA AskConsoleKeeps ==
  ASSUME IInv, NEW c \in Calls, RegisterWaiter(c) \/ SendCommand(c)
  PROVE  IInv'
<1> USE DEF IInv, TypeInv, CallInv
<1>1. /\ UNCHANGED <<rconVars, server, there, stdout, main, online, kind, given, path, said>>
      /\ path[c] = "stdio" /\ kind[c] \in Kind /\ result[c] = "none" /\ reply[c] = "none"
      /\ call[c] \in {"stdio", "sending"}
      /\ \/ Go(c, "sending") /\ waiting' = waiting \cup {c} /\ inbox' = inbox
         \/ /\ waiting' = waiting /\ call[c] = "sending"
            /\ (End(c, "nil") /\ inbox' = inbox) \/ (Go(c, "waiting") /\ inbox' = Append(inbox, c))
  BY DEF RegisterWaiter, SendCommand, At, PathInv, ReqInv, worldVars, regVars
<1>2. /\ inbox' \in Seq(Calls)
      /\ \A i \in DOMAIN inbox : i \in DOMAIN inbox' /\ inbox'[i] = inbox[i]
      /\ \A i \in DOMAIN inbox' : i \in DOMAIN inbox \/ (inbox'[i] = c /\ Go(c, "waiting"))
      /\ inbox' = Append(inbox, c) => \E i \in DOMAIN inbox' : inbox'[i] = c
  BY <1>1, AppendFacts DEF WorldType
<1>3. /\ call' \in [Calls -> Places] /\ call'[c] \in {"sending", "waiting", "done"}
      /\ call'[c] = "sending" => c \in waiting'
      /\ call'[c] = "waiting" => call[c] = "sending" /\ \E i \in DOMAIN inbox' : inbox'[i] = c
      /\ call'[c] # "done" => result'[c] = "none"
      /\ \A d \in Calls : d # c => call'[d] = call[d] /\ result'[d] = result[d]
      /\ result' \in [Calls -> {"none", "value", "nil"}]
      /\ Go(c, "waiting") => call'[c] = "waiting"
  BY <1>1, <1>2, GoFacts, EndFacts DEF Places, CallType
<1>4. TypeInv'
  BY <1>1, <1>2, <1>3 DEF WorldType, RegType, CallType, RconType, rconVars
<1>5. ThereInv'
  BY <1>1, ThereKeeps
<1>6. LineInv'
  BY <1>1, <1>3 DEF LineInv, IsMove, IsAnswer
<1>7. InboxInv'
  <2>1. ASSUME NEW i \in DOMAIN inbox'
        PROVE  /\ kind[inbox'[i]] \in Kind /\ path[inbox'[i]] = "stdio"
               /\ call'[inbox'[i]] \in {"waiting", "done"}
    <3>1. CASE i \in DOMAIN inbox
      BY <1>1, <1>2, <1>3, <3>1 DEF InboxInv, WorldType
    <3>2. CASE inbox'[i] = c /\ Go(c, "waiting")
      BY <1>1, <1>3, <3>2
    <3> QED
      BY <1>2, <3>1, <3>2
  <2> QED
    BY <1>1, <2>1 DEF InboxInv
<1>8. PathInv'
  BY <1>1, <1>3 DEF PathInv
<1>9. ReqInv'
  <2>1. \A d \in Calls : Asked(d) => Asked(d)'
    BY <1>1, <1>3 DEF Asked, rconVars
  <2>2. \A i \in DOMAIN requests : requests[i] \in Calls
    BY DEF RconType
  <2> QED
    BY <1>1, <1>3, <2>1, <2>2 DEF ReqInv, rconVars
<1>10. CauseInv' /\ WaiterInv' /\ RconFailsForCause'
  BY <1>1, <1>3 DEF CauseInv, Fine, WaiterInv, RconFailsForCause, rconVars
<1>11. NoAnswerLost'
  <2> SUFFICES ASSUME NEW d \in Calls, call'[d] = "waiting", given[d] = "none"
               PROVE  d \in waiting' /\ (OnItsWay(d)' \/ said[d] = "no entity" \/ server = "gone")
    BY <1>1 DEF NoAnswerLost
  <2>1. CASE d = c
    BY <1>1, <1>3, <2>1 DEF OnItsWay, WaiterInv
  <2>2. CASE d # c
    BY <1>1, <1>2, <1>3, <2>2 DEF OnItsWay, NoAnswerLost
  <2> QED
    BY <2>1, <2>2
<1> QED
  BY <1>4, <1>5, <1>6, <1>7, <1>8, <1>9, <1>10, <1>11
-----------------------------------------------------------------------------
(* The actor. *)

\* What it leaves alone.
LEMMA ActorKeeps ==
  ASSUME IInv, UNCHANGED <<worldVars, regVars, call, kind, given, path, result>>,
         RconType', ReqInv', CauseInv', RconFailsForCause',
         said' \in [Calls -> {"none", "data", "no entity"}],
         \A d \in Calls : path[d] = "stdio" => said'[d] = said[d]
  PROVE  IInv'
<1> USE DEF IInv, TypeInv, CallInv, worldVars, regVars
<1>1. TypeInv'
  BY DEF WorldType, RegType, CallType
<1>2. ThereInv'
  BY ThereKeeps
<1>3. LineInv'
  BY DEF LineInv, IsMove, IsAnswer
<1>4. InboxInv' /\ PathInv' /\ WaiterInv'
  BY DEF InboxInv, PathInv, WaiterInv
<1>5. NoAnswerLost'
  <2>1. \A d \in Calls : call[d] = "waiting" => said'[d] = said[d]
    BY DEF PathInv
  <2> QED
    BY <2>1 DEF NoAnswerLost, OnItsWay
<1> QED
  BY <1>1, <1>2, <1>3, <1>4, <1>5

\* It connects, or cannot, or tries again, or gives a broken connection up.
LEMMA ConnectKeeps ==
  ASSUME IInv, ActorConnects \/ ActorRetries \/ ActorLowersFlag PROVE IInv'
<1> USE DEF IInv, TypeInv, CallInv
<1>1. /\ UNCHANGED <<requests, current, reply, drops, worldVars, regVars, callVars>>
      /\ \/ actor \in {"connecting", "waiting"} /\ actor' = "serving" /\ connected' = TRUE
         \/ actor \in {"connecting", "waiting"} /\ actor' = "waiting" /\ connected' = FALSE
         \/ actor \in {"connecting", "waiting"} /\ actor' = "connecting" /\ connected' = connected
         \/ actor = "dropped" /\ actor' = "connecting" /\ connected' = FALSE
  BY DEF ActorConnects, ActorRetries, ActorLowersFlag, Actor, Connect, CannotConnect, Retry,
         LowerFlag
<1>2. RconType'
  BY <1>1 DEF RconType
<1>3. ReqInv' /\ RconFailsForCause'
  BY <1>1 DEF ReqInv, Asked, RconFailsForCause, callVars, worldVars
<1>4. CauseInv'
  BY <1>1 DEF CauseInv, Fine, callVars, worldVars
<1> QED
  BY <1>1, <1>2, <1>3, <1>4, ActorKeeps DEF callVars, CallType

\* It takes the next request: to turn it away, which happens to no query while
\* all is fine, or to have the server execute it.
LEMMA TakeRequestKeeps ==
  ASSUME IInv, ActorTurnsAway \/ ActorExecutes PROVE IInv'
<1> USE DEF IInv, TypeInv, CallInv
<1> DEFINE c == Head(requests)
<1>1. /\ UNCHANGED <<connected, drops, worldVars, regVars, callVars>>
      /\ requests # <<>> /\ requests' = Tail(requests)
      /\ \/ /\ actor = "waiting" /\ UNCHANGED <<actor, current>>
            /\ reply' = [reply EXCEPT ![c] = "nothing"]
         \/ /\ actor = "serving" /\ actor' = "executing" /\ current' = c
            /\ UNCHANGED reply
  BY DEF ActorTurnsAway, ActorExecutes, Actor, TurnAway, Answer, Execute
<1>2. /\ c = requests[1] /\ c \in Calls /\ 1 \in DOMAIN requests
      /\ requests' \in Seq(Calls)
      /\ \A i \in DOMAIN requests' : i + 1 \in DOMAIN requests /\ requests'[i] = requests[i + 1]
      /\ DOMAIN requests' \subseteq Nat \ {0}
  BY <1>1, TailFacts DEF RconType
<1>3. Asked(c) /\ c # current
  BY <1>2 DEF ReqInv
<1> HIDE DEF c
<1>4. /\ reply' \in [Calls -> {"none", "body", "nothing"}]
      /\ \A d \in Calls : d # c => reply'[d] = reply[d]
      /\ reply'[c] \in {"none", "nothing"} /\ (actor = "serving" => reply'[c] = "none")
  BY <1>1, <1>2, <1>3 DEF RconType, Asked
<1>5. RconType'
  BY <1>1, <1>2, <1>4 DEF RconType
<1>6. ReqInv'
  <2>1. ASSUME NEW i \in DOMAIN requests', NEW d, d = requests'[i]
        PROVE  d \in Calls /\ d # c /\ Asked(d)' /\ d # current'
    <3>1. i + 1 \in DOMAIN requests /\ d = requests[i + 1] /\ i + 1 # 1
      BY <1>2, <2>1
    <3>2. d \in Calls /\ d # c /\ Asked(d) /\ d # current
      BY <1>2, <3>1 DEF ReqInv, RconType
    <3> QED
      BY <1>1, <1>4, <3>2 DEF Asked, callVars
  <2>2. \A i, j \in DOMAIN requests' : requests'[i] = requests'[j] => i = j
    BY <1>2 DEF ReqInv
  <2>3. ASSUME current' \in Calls, NEW d, d = current' PROVE Asked(d)'
    BY <1>1, <1>3, <1>4, <2>3 DEF ReqInv, Asked, callVars
  <2>4. ASSUME NEW d \in Calls
        PROVE  /\ call'[d] \notin {"requested", "done"} => reply'[d] = "none"
               /\ reply'[d] = "body" => said'[d] # "none"
    BY <1>1, <1>3, <1>4 DEF ReqInv, Asked, callVars
  <2> QED
    BY <2>1, <2>2, <2>3, <2>4 DEF ReqInv, Asked
<1>7. CauseInv'
  BY <1>1, <1>3, <1>4 DEF CauseInv, Fine, Asked, callVars, worldVars
<1>8. RconFailsForCause'
  BY <1>1 DEF RconFailsForCause, callVars, worldVars
<1> QED
  BY <1>1, <1>5, <1>6, <1>7, <1>8, ActorKeeps DEF callVars, CallType

\* The command in hand comes to its end: with what the server says, or with the
\* connection lost.
LEMMA CommandEndsKeeps ==
  ASSUME IInv, ActorResponds \/ ActorDrops PROVE IInv'
<1> USE DEF IInv, TypeInv, CallInv
<1> DEFINE Ends(c, r) ==
      /\ UNCHANGED <<requests, worldVars, regVars, call, kind, given, path, result>>
      /\ c = current /\ current' = NoCall /\ actor = "executing"
      /\ reply' = [reply EXCEPT ![c] = r]
           Responds(c) ==
      /\ Ends(c, "body") /\ actor' = "serving" /\ UNCHANGED <<connected, drops>>
      /\ said' = [said EXCEPT ![c] = Said(c)]
           Drops(c) ==
      /\ Ends(c, "nothing") /\ actor' = "dropped" /\ UNCHANGED <<connected, said>>
      /\ drops' \in Nat /\ drops' >= drops /\ (drops' > 0 \/ server = "gone")
<1>1. PICK c \in Calls : Responds(c) \/ Drops(c)
  <2>1. current \in Calls /\ drops \in Nat
    BY DEF ActorResponds, ActorDrops, Actor, Respond, Drop, RconType
  <2>2. CASE ActorResponds
    BY <2>1, <2>2 DEF ActorResponds, Respond, Answer
  <2>3. CASE ActorDrops
    <3>1. drops' \in Nat /\ drops' >= drops /\ (drops' > 0 \/ server = "gone")
      BY <2>1, <2>3 DEF ActorDrops, Actor, Drop
    <3> QED
      BY <2>1, <2>3, <3>1 DEF ActorDrops, Actor, Drop, Answer, callVars
  <2> QED
    BY <2>2, <2>3
<1>2. Ends(c, "body") \/ Ends(c, "nothing")
  BY <1>1
<1>3. Asked(c) /\ Said(c) \in {"data", "no entity"}
  BY <1>1 DEF ReqInv, Said
<1>4. /\ reply' \in [Calls -> {"none", "body", "nothing"}]
      /\ \A d \in Calls : d # c => reply'[d] = reply[d]
      /\ reply'[c] \in {"body", "nothing"}
  BY <1>2 DEF RconType
<1>5. /\ said' \in [Calls -> {"none", "data", "no entity"}]
      /\ \A d \in Calls : d # c => said'[d] = said[d]
      /\ reply'[c] = "body" => said'[c] # "none"
  <2>1. CASE Responds(c)
    BY <1>3, <2>1 DEF CallType
  <2>2. CASE Drops(c)
    <3>1. reply'[c] = "nothing" /\ said' = said
      BY <2>2 DEF RconType
    <3> QED
      BY <3>1 DEF CallType
  <2> QED
    BY <1>1, <2>1, <2>2
<1>6. RconType'
  <2>1. connected' \in BOOLEAN
    BY <1>1 DEF RconType
  <2>2. drops' \in Nat
    BY <1>1 DEF RconType
  <2> QED
    BY <1>1, <1>2, <1>4, <2>1, <2>2 DEF RconType
<1>7. ReqInv'
  <2>1. ASSUME NEW i \in DOMAIN requests, NEW d, d = requests[i]
        PROVE  d \in Calls /\ Asked(d)' /\ d # current'
    <3>1. d \in Calls /\ Asked(d) /\ d # c
      BY <1>2, <2>1 DEF ReqInv, RconType
    <3> QED
      BY <1>2, <1>4, <3>1, RconAssumption DEF Asked
  <2>2. ASSUME NEW d \in Calls
        PROVE  /\ call'[d] \notin {"requested", "done"} => reply'[d] = "none"
               /\ reply'[d] = "body" => said'[d] # "none"
    BY <1>2, <1>3, <1>4, <1>5 DEF ReqInv, Asked
  <2>3. current' \notin Calls /\ requests' = requests
    BY <1>2, RconAssumption
  <2>4. \A i, j \in DOMAIN requests : requests[i] = requests[j] => i = j
    BY DEF ReqInv
  <2> QED
    BY <2>1, <2>2, <2>3, <2>4 DEF ReqInv, Asked
<1>8. Fine' => Responds(c) /\ Fine
  BY <1>1 DEF Fine, worldVars
<1>9. CauseInv'
  <2>1. actor' \in {"serving", "dropped"} /\ (actor' = "dropped" => ~Fine')
    BY <1>1, <1>8
  <2>2. ASSUME Fine', NEW d \in Calls, path[d] = "rcon"
        PROVE  /\ connected' /\ reply'[d] # "nothing"
               /\ result[d] # "none" => reply'[d] # "none"
    <3>1. reply'[c] = "body"
      BY <1>8, <2>2 DEF RconType
    <3> QED
      BY <1>4, <1>8, <2>2, <3>1 DEF CauseInv
  <2>3. UNCHANGED <<path, result>>
    BY <1>2
  <2> QED
    BY <2>1, <2>2, <2>3 DEF CauseInv
<1>10. RconFailsForCause'
  <2>1. UNCHANGED <<path, result, server>> /\ drops' >= drops /\ drops \in Nat /\ drops' \in Nat
    BY <1>1 DEF RconType, worldVars
  <2> SUFFICES ASSUME NEW d \in Calls, path[d] = "rcon", result[d] = "nil"
               PROVE  said'[d] = "no entity" \/ drops' > 0 \/ server = "gone"
    BY <2>1 DEF RconFailsForCause
  <2>2. drops > 0 => drops' > 0
    BY <2>1
  <2>3. CASE d # c
    <3>1. said[d] = "no entity" \/ drops > 0 \/ server = "gone"
      BY DEF RconFailsForCause
    <3> QED
      BY <1>5, <2>2, <2>3, <3>1
  <2>4. CASE d = c
    <3>1. ~Fine
      BY <1>3, <2>4 DEF CauseInv, Asked
    <3>2. drops > 0 \/ server = "gone"
      BY <2>1, <3>1 DEF Fine, WorldType
    <3> QED
      BY <2>2, <3>2
  <2> QED
    BY <2>3, <2>4
<1>11. \A d \in Calls : path[d] = "stdio" => said'[d] = said[d]
  BY <1>3, <1>5 DEF Asked
<1> QED
  BY <1>2, <1>5, <1>6, <1>7, <1>9, <1>10, <1>11, ActorKeeps
-----------------------------------------------------------------------------
\* Every step keeps the invariant.
LEMMA NextInv == IInv /\ [Next]_vars => IInv'
<1> SUFFICES ASSUME IInv, [Next]_vars PROVE IInv'
  OBVIOUS
<1>1. CASE World \/ Main
  BY <1>1, MovesKeep, ServerAnswersKeeps, ServerGoesKeeps, ObserveKeeps, LoopEndsKeeps
     DEF World, Main
<1>2. CASE ActorNext
  BY <1>2, ConnectKeeps, TakeRequestKeeps, CommandEndsKeeps DEF ActorNext
<1>3. ASSUME NEW c \in Calls, Call(c) PROVE IInv'
  BY <1>3, BeginKeeps, ChoosePathKeeps, RconCallKeeps, RequestKeeps, AskConsoleKeeps,
     WaitEndsKeeps DEF Call
<1>4. CASE UNCHANGED vars
  <2>1. UNCHANGED <<rconVars, worldVars, callVars, regVars>>
    BY <1>4 DEF vars
  <2>2. RconType' /\ ReqInv' /\ CauseInv' /\ RconFailsForCause'
    BY <2>1 DEF IInv, TypeInv, CallInv, RconType, ReqInv, Asked, CauseInv, Fine,
       RconFailsForCause, rconVars, worldVars, callVars
  <2> QED
    BY <2>1, <2>2, ActorKeeps DEF IInv, TypeInv, CallType, callVars
<1> QED
  BY <1>1, <1>2, <1>3, <1>4 DEF Next

\* The invariant of the registry, its queries and the RCON client.
THEOREM Invariant == Spec => []IInv
BY InitInv, NextInv, PTL DEF Spec

\* A query that still waits has its waiter registered and its answer on the way,
\* for all calls and players and whatever is on the way beside it.
THEOREM NoAnswerLostHolds == Spec => []NoAnswerLost
<1>1. IInv => NoAnswerLost
  BY DEF IInv
<1> QED
  BY Invariant, <1>1, PTL

\* Once the output is read up, the registry agrees with the server.
THEOREM OnlineIsThereHolds == Spec => []OnlineIsThere
<1>1. IInv => OnlineIsThere
  <2> SUFFICES ASSUME IInv, main = "stopped" \/ (server = "up" /\ stdout = <<>>)
               PROVE  online = there
    BY DEF OnlineIsThere
  <2>1. CASE main = "stopped"
    BY <2>1 DEF IInv, ThereInv
  <2>2. CASE server = "up" /\ stdout = <<>>
    <3>1. \A n : Known(n) <=> n \in online
      BY <2>2 DEF Known
    <3> QED
      BY <2>2, <3>1 DEF IInv, ThereInv, TypeInv, WorldType, RegType
  <2> QED
    BY <2>1, <2>2
<1> QED
  BY Invariant, <1>1, PTL

\* A query that chose RCON gets nil for one of three causes only.
THEOREM RconFailsForCauseHolds == Spec => []RconFailsForCause
<1>1. IInv => RconFailsForCause
  BY DEF IInv
<1> QED
  BY Invariant, <1>1, PTL
-----------------------------------------------------------------------------
(* What the registry remembers: PlayersFile. *)

\* Who is not online has no session.
SessionInv == \A n \in People : ~records[n].online => records[n].joined = Never

\* A save is under way only before the callbacks of shutdown begin, and what it
\* writes are the records as they are.
WriterInv ==
  /\ writer # "idle" => phase \in {"running", "flushing"} /\ text = Saved(records)

\* From the shutdown on nobody is online.
OfflineInv ==
  phase \in {"flushing", "callbacks", "exited"} => records = Saved(records)

\* When the save of shutdown is through, it failed, or the file is up to date.
FlushedInv ==
  (phase \in {"flushing", "callbacks", "exited"} /\ writer = "idle" /\ ~failed)
    => file = "whole" /\ disk = records

FileInv == TypeOK /\ SessionInv /\ WriterInv /\ OfflineInv /\ FlushedInv
-----------------------------------------------------------------------------
(* Records. *)

\* What is saved are records without a session; saving them again changes nothing.
LEMMA SavedRecords ==
  ASSUME NEW recs \in [People -> Record]
  PROVE  /\ Saved(recs) \in [People -> Record]
         /\ Saved(Saved(recs)) = Saved(recs)
         /\ \A n \in People : ~Saved(recs)[n].online /\ Saved(recs)[n].joined = Never
<1> Never \in Times
  BY PlayersFileAssumption DEF Never, Times
<1>1. \A n \in People : [recs[n] EXCEPT !.online = FALSE, !.joined = Never] \in Record
  BY DEF Record
<1>2. \A n \in People : Saved(recs)[n] = [recs[n] EXCEPT !.online = FALSE, !.joined = Never]
  BY DEF Saved
<1>3. Saved(recs) \in [People -> Record]
  BY <1>1 DEF Saved
<1>4. \A n \in People : ~Saved(recs)[n].online /\ Saved(recs)[n].joined = Never
  BY <1>2 DEF Record
<1>5. \A n \in People : [Saved(recs)[n] EXCEPT !.online = FALSE, !.joined = Never]
                         = Saved(recs)[n]
  BY <1>2, <1>3, <1>4 DEF Record
<1>6. Saved(Saved(recs)) = Saved(recs)
  BY <1>3, <1>5 DEF Saved
<1> QED
  BY <1>3, <1>4, <1>6

\* A file without records holds nothing that could be lost.
LEMMA EmptyRecords ==
  /\ Empty \in [People -> Record] /\ Saved(Empty) = Empty
  /\ \A n \in People : /\ ~Empty[n].online /\ Empty[n].joined = Never
                      /\ Empty[n].first = Never
<1>1. Never \in Times
  BY PlayersFileAssumption DEF Never, Times
<1>2. Nobody \in Record
  BY <1>1 DEF Nobody, Record
<1>3. ~Nobody.online /\ Nobody.joined = Never /\ Nobody.first = Never
  BY DEF Nobody
<1>4. Empty \in [People -> Record] /\ \A n \in People : Empty[n] = Nobody
  BY <1>2 DEF Empty
<1>5. \A r \in Record : (~r.online /\ r.joined = Never) =>
        [r EXCEPT !.online = FALSE, !.joined = Never] = r
  BY DEF Record
<1>6. Saved(Empty) = Empty
  BY <1>2, <1>3, <1>4, <1>5 DEF Saved, Empty
<1> QED
  BY <1>3, <1>4, <1>6

\* What a line makes of a record.
LEMMA LineRecords ==
  ASSUME TypeOK, SessionInv, NEW n \in People
  PROVE  /\ Upserted(n) \in Record
         /\ Upserted(n).online = records[n].online
         /\ Upserted(n).joined = records[n].joined
         /\ Upserted(n).first = records[n].first
         /\ records[n].first # Never => Upserted(n).last = records[n].last
<1>1. clock \in Times /\ Never \in Times
  BY PlayersFileAssumption DEF TypeOK, Never, Times
<1>2. records[n] \in Record
  BY DEF TypeOK
<1>3. CASE records[n] = Nobody
  <2>1. Upserted(n) = [login |-> FALSE, online |-> FALSE, first |-> Never,
                       last |-> clock, joined |-> Never]
    BY <1>3 DEF Upserted, Nobody
  <2> QED BY <1>1, <1>3, <2>1 DEF Nobody, Record
<1>4. CASE records[n] # Nobody
  BY <1>2, <1>4 DEF Upserted
<1> QED
  BY <1>3, <1>4

\* Login, join and leave keep records records, and only the join makes a session.
LEMMA ChangedRecords ==
  ASSUME TypeOK, SessionInv, NEW r \in Record
  PROVE  /\ [r EXCEPT !.login = TRUE] \in Record
         /\ Joined(r) \in Record /\ Joined(r).online
         /\ Gone(r) \in Record /\ ~Gone(r).online /\ Gone(r).joined = Never
<1>1. clock \in Times /\ Never \in Times
  BY PlayersFileAssumption DEF TypeOK, Never, Times
<1> QED
  BY <1>1 DEF Joined, Gone, Record

\* When everybody is offline, the records are as they are saved.
LEMMA OfflineRecords ==
  ASSUME TypeOK, SessionInv
  PROVE  AllOffline \in [People -> Record] /\ AllOffline = Saved(AllOffline)
<1>1. \A n \in People : /\ AllOffline[n] \in Record /\ ~AllOffline[n].online
                       /\ AllOffline[n].joined = Never
  BY ChangedRecords DEF AllOffline, TypeOK, SessionInv
<1>2. AllOffline \in [People -> Record]
  BY <1>1 DEF AllOffline
<1>3. \A n \in People : [AllOffline[n] EXCEPT !.online = FALSE, !.joined = Never]
                         = AllOffline[n]
  BY <1>1 DEF Record
<1> QED
  BY <1>2, <1>3 DEF Saved
-----------------------------------------------------------------------------
(* The invariant. *)

\* The first start of the wrapper, without a file or with one of no records,
\* establishes the invariant.
THEOREM FileInitInv == FileInit => FileInv
<1> SUFFICES ASSUME FileInit PROVE FileInv
  OBVIOUS
<1>1. TypeOK
  <2>1. /\ ever \in [People -> Times] /\ left \in [People -> Times] /\ clock \in 1..MaxClock
    BY PlayersFileAssumption DEF FileInit, Never, Times
  <2>2. used \in [failures : 0..MaxFailures, restarts : 0..MaxRestarts]
    BY PlayersFileAssumption DEF FileInit
  <2>3. \A saved \in {text, disk} : saved \in [People -> Record] /\ saved = Saved(saved)
    BY EmptyRecords DEF FileInit
  <2> QED BY <2>1, <2>2, <2>3, EmptyRecords DEF FileInit, TypeOK
<1>2. SessionInv /\ WriterInv /\ OfflineInv /\ FlushedInv
  BY EmptyRecords DEF FileInit, SessionInv, WriterInv, OfflineInv, FlushedInv
<1> QED
  BY <1>1, <1>2 DEF FileInv

\* A line about n that makes her record r keeps the invariant.
LEMMA ChangeKeeps ==
  ASSUME FileInv, NEW n \in People, NEW r \in Record, Change(n, r),
         ~r.online => r.joined = Never,
         ever' \in [People -> Times], left' \in [People -> Times]
  PROVE  FileInv'
<1> USE DEF FileInv
<1>1. /\ records' \in [People -> Record]
      /\ \A m \in People : records'[m] = IF m = n THEN r ELSE records[m]
  BY DEF Change, TypeOK
<1>2. SessionInv'
  BY <1>1 DEF SessionInv
<1>3. CASE due
  <2>1. /\ dirty' = FALSE /\ due' = FALSE /\ writer' = "open" /\ text' = Saved(records')
    BY <1>3 DEF Change, BeginSave
  <2>2. text' \in [People -> Record] /\ text' = Saved(text')
    BY <1>1, <2>1, SavedRecords
  <2>3. TypeOK'
    <3>1. \A saved \in {text', disk'} : saved \in [People -> Record] /\ saved = Saved(saved)
      BY <2>2 DEF Change, TypeOK
    <3> QED BY <1>1, <2>1, <3>1 DEF Change, Running, TypeOK
  <2>4. WriterInv' /\ OfflineInv' /\ FlushedInv'
    BY <2>1 DEF Change, Running, WriterInv, OfflineInv, FlushedInv
  <2> QED BY <1>2, <2>3, <2>4
<1>4. CASE ~due
  <2>1. dirty' = TRUE /\ UNCHANGED <<due, writer, text>>
    BY <1>4 DEF Change
  <2>2. TypeOK'
    BY <1>1, <2>1 DEF Change, Running, TypeOK
  <2>3. WriterInv' /\ OfflineInv' /\ FlushedInv'
    BY <2>1 DEF Change, Running, WriterInv, OfflineInv, FlushedInv
  <2> QED BY <1>2, <2>2, <2>3
<1> QED
  BY <1>3, <1>4

\* Joining and going of n, whose record is made when there is none.
LEMMA LineKeeps ==
  ASSUME FileInv, NEW n \in People, SeeLogin(n) \/ SeeJoin(n) \/ SeeLeave(n)
  PROVE  FileInv'
<1>1. TypeOK /\ SessionInv /\ clock \in Times
  BY DEF FileInv, TypeOK, Times
<1>2. /\ Upserted(n) \in Record /\ Upserted(n).online = records[n].online
      /\ Upserted(n).joined = records[n].joined
  BY <1>1, LineRecords
<1>3. CASE SeeLogin(n)
  <2>1. [Upserted(n) EXCEPT !.login = TRUE] \in Record
    BY <1>1, <1>2, ChangedRecords
  <2>2. /\ [Upserted(n) EXCEPT !.login = TRUE].online = records[n].online
        /\ [Upserted(n) EXCEPT !.login = TRUE].joined = records[n].joined
    BY <1>2 DEF Record
  <2>3. ~[Upserted(n) EXCEPT !.login = TRUE].online
          => [Upserted(n) EXCEPT !.login = TRUE].joined = Never
    BY <1>1, <2>2 DEF SessionInv
  <2>4. ever' \in [People -> Times] /\ left' \in [People -> Times]
    BY <1>1, <1>3 DEF SeeLogin, TypeOK
  <2> QED BY <1>3, <2>1, <2>3, <2>4, ChangeKeeps DEF SeeLogin
<1>4. CASE SeeJoin(n)
  <2>1. Joined(Upserted(n)) \in Record /\ Joined(Upserted(n)).online
    BY <1>1, <1>2, ChangedRecords
  <2>2. ever' \in [People -> Times] /\ left' \in [People -> Times]
    BY <1>1, <1>4 DEF SeeJoin, TypeOK
  <2> QED BY <1>4, <2>1, <2>2, ChangeKeeps DEF SeeJoin
<1>5. CASE SeeLeave(n)
  <2>1. Gone(Upserted(n)) \in Record /\ Gone(Upserted(n)).joined = Never
    BY <1>1, <1>2, ChangedRecords
  <2>2. ever' \in [People -> Times] /\ left' \in [People -> Times]
    BY <1>1, <1>5 DEF SeeLeave, TypeOK
  <2> QED BY <1>5, <2>1, <2>2, ChangeKeeps DEF SeeLeave
<1> QED
  BY <1>3, <1>4, <1>5

\* Every line, save, shutdown, kill and restart keeps the invariant.
THEOREM FileNextInv == FileInv /\ [FileNext]_fileVars => FileInv'
<1> SUFFICES ASSUME FileInv, [FileNext]_fileVars PROVE FileInv'
  OBVIOUS
<1> USE DEF FileInv
<1>1. CASE SeeOther
  <2>1. Saved(records) \in [People -> Record] /\ Saved(Saved(records)) = Saved(records)
    BY SavedRecords DEF TypeOK
  <2>2. /\ text' = Saved(records) /\ writer' = "open" /\ dirty' = FALSE /\ due' = FALSE
        /\ UNCHANGED <<phase, enabled, records, file, disk, failed, clock, history, used>>
    BY <1>1 DEF SeeOther, BeginSave
  <2>3. TypeOK'
    BY <2>1, <2>2 DEF TypeOK, history
  <2>4. SessionInv' /\ WriterInv' /\ OfflineInv' /\ FlushedInv'
    BY <1>1, <2>2 DEF SeeOther, Running, SessionInv, WriterInv, OfflineInv, FlushedInv
  <2> QED BY <2>3, <2>4
<1>2. ASSUME NEW n \in People, SeeLogin(n) \/ SeeJoin(n) \/ SeeLeave(n)
      PROVE  FileInv'
  BY <1>2, LineKeeps
<1>3. CASE Open
  <2>1. TypeOK'
    BY <1>3 DEF Open, TypeOK, history
  <2>2. SessionInv' /\ WriterInv' /\ OfflineInv' /\ FlushedInv'
    BY <1>3 DEF Open, SessionInv, WriterInv, OfflineInv, FlushedInv
  <2> QED BY <2>1, <2>2
<1>4. CASE Write
  <2>1. /\ disk' = text /\ text' = Empty /\ file' = "whole" /\ writer' = "idle"
        /\ failed' = FALSE
        /\ UNCHANGED <<phase, enabled, records, dirty, due, clock, history, used>>
    BY <1>4 DEF Write
  <2>2. \A saved \in {text', disk'} : saved \in [People -> Record] /\ saved = Saved(saved)
    BY <2>1, EmptyRecords DEF TypeOK
  <2>3. TypeOK'
    BY <2>1, <2>2 DEF TypeOK, history
  <2>4. phase \in {"flushing", "callbacks", "exited"} => disk' = records'
    BY <1>4, <2>1 DEF Write, WriterInv, OfflineInv
  <2>5. SessionInv' /\ WriterInv' /\ OfflineInv' /\ FlushedInv'
    BY <2>1, <2>4 DEF SessionInv, WriterInv, OfflineInv, FlushedInv
  <2> QED BY <2>3, <2>5
<1>5. CASE Fail
  <2>1. used' \in [failures : 0..MaxFailures, restarts : 0..MaxRestarts]
    BY <1>5, PlayersFileAssumption DEF Fail, TypeOK
  <2>2. /\ writer' = "idle" /\ text' = Empty /\ failed' = TRUE
        /\ UNCHANGED <<phase, enabled, records, dirty, due, file, disk, clock, history>>
    BY <1>5 DEF Fail
  <2>3. TypeOK'
    BY <2>1, <2>2, EmptyRecords DEF TypeOK, history
  <2>4. SessionInv' /\ WriterInv' /\ OfflineInv' /\ FlushedInv'
    BY <2>2 DEF SessionInv, WriterInv, OfflineInv, FlushedInv
  <2> QED BY <2>3, <2>4
<1>6. CASE Shutdown
  <2>1. AllOffline \in [People -> Record] /\ AllOffline = Saved(AllOffline)
    BY OfflineRecords
  <2>2. /\ records' = AllOffline /\ text' = Saved(AllOffline) /\ writer' = "open"
        /\ phase' = "flushing" /\ dirty' = FALSE /\ due' = FALSE
        /\ UNCHANGED <<enabled, file, disk, failed, clock, intact, ever, used>>
    BY <1>6 DEF Shutdown, FlushAll, BeginSave
  <2>3. left' \in [People -> Times]
    BY <1>6 DEF Shutdown, TypeOK, Times
  <2>4. \A saved \in {text', disk'} : saved \in [People -> Record] /\ saved = Saved(saved)
    BY <2>1, <2>2 DEF TypeOK
  <2>5. TypeOK'
    BY <2>1, <2>2, <2>3, <2>4 DEF TypeOK
  <2>6. SessionInv'
    BY <2>1, <2>2, SavedRecords DEF SessionInv
  <2>7. WriterInv' /\ OfflineInv' /\ FlushedInv'
    BY <2>1, <2>2 DEF WriterInv, OfflineInv, FlushedInv
  <2> QED BY <2>5, <2>6, <2>7
<1>7. CASE BeginCallbacks \/ Exit
  <2>1. TypeOK'
    BY <1>7 DEF BeginCallbacks, Exit, TypeOK, history
  <2>2. SessionInv' /\ WriterInv' /\ OfflineInv' /\ FlushedInv'
    BY <1>7 DEF BeginCallbacks, Exit, SessionInv, WriterInv, OfflineInv, FlushedInv
  <2> QED BY <2>1, <2>2
<1>8. CASE Kill
  <2>1. TypeOK'
    BY <1>8, EmptyRecords DEF Kill, TypeOK, history
  <2>2. SessionInv' /\ WriterInv' /\ OfflineInv' /\ FlushedInv'
    BY <1>8 DEF Kill, SessionInv, WriterInv, OfflineInv, FlushedInv
  <2> QED BY <2>1, <2>2
<1>9. CASE Restart
  <2>1. Loaded \in [People -> Record] /\ Loaded = Saved(Loaded)
    BY EmptyRecords DEF Loaded, TypeOK
  <2>2. used' \in [failures : 0..MaxFailures, restarts : 0..MaxRestarts]
    BY <1>9, PlayersFileAssumption DEF Restart, TypeOK
  <2>3. TypeOK'
    BY <1>9, <2>1, <2>2 DEF Restart, TypeOK
  <2>4. SessionInv'
    BY <1>9, <2>1, SavedRecords DEF Restart, SessionInv
  <2>5. WriterInv' /\ OfflineInv' /\ FlushedInv'
    BY <1>9 DEF Restart, WriterInv, OfflineInv, FlushedInv
  <2> QED BY <2>3, <2>4, <2>5
<1>10. CASE Elapse \/ Tick
  <2>1. clock' \in 1..MaxClock
    BY <1>10, PlayersFileAssumption DEF Elapse, Tick, TypeOK
  <2>2. due' \in BOOLEAN
    BY <1>10 DEF Elapse, Tick, TypeOK
  <2>3. UNCHANGED <<phase, enabled, records, dirty, writer, text, file, disk, failed,
                    intact, ever, left, used>>
    BY <1>10 DEF Elapse, Tick, history
  <2>4. TypeOK'
    BY <2>1, <2>2, <2>3 DEF TypeOK
  <2>5. SessionInv' /\ WriterInv' /\ OfflineInv' /\ FlushedInv'
    BY <2>3 DEF SessionInv, WriterInv, OfflineInv, FlushedInv
  <2> QED BY <2>4, <2>5
<1>11. CASE UNCHANGED fileVars
  <2>1. TypeOK' /\ SessionInv'
    BY <1>11 DEF fileVars, TypeOK, SessionInv
  <2>2. WriterInv' /\ OfflineInv' /\ FlushedInv'
    BY <1>11 DEF fileVars, WriterInv, OfflineInv, FlushedInv
  <2> QED BY <2>1, <2>2
<1> QED
  BY <1>1, <1>2, <1>3, <1>4, <1>5, <1>6, <1>7, <1>8, <1>9, <1>10, <1>11
  DEF FileNext, Seen, Saving, Process

\* The invariant holds in every state of the registry and its file.
THEOREM FileInvariant == FileSpec => []FileInv
BY FileInitInv, FileNextInv, PTL DEF FileSpec

\* The records, the file and the histories keep their types, and no session is
\* ever saved.
THEOREM TypeCorrect == FileSpec => []TypeOK
<1>1. FileInv => TypeOK
  BY DEF FileInv
<1> QED
  BY FileInvariant, <1>1, PTL

\* The shutdown saves everything, unless its own save fails.
LEMMA InvSaves == FileInv => ExitSaves
BY DEF FileInv, FlushedInv, WriterInv, ExitSaves

\* That holds of every run, as does what follows from it for the next start.
THEOREM ExitSavesHolds == FileSpec => []ExitSaves
BY FileInvariant, InvSaves, PTL
-----------------------------------------------------------------------------
(* first_join and last_seen. *)

\* A restart after runs that ended well finds the records as they were.
LEMMA RestartFinds ==
  ASSUME FileInv, Restart, intact'
  PROVE  intact /\ UNCHANGED <<records, ever, left>>
BY InvSaves DEF Restart, ExitSaves, Loaded

\* What the shutdown makes of the records.
LEMMA ShutdownRecords ==
  ASSUME FileInv, NEW n \in People
  PROVE  /\ AllOffline[n].first = records[n].first
         /\ AllOffline[n].last = IF records[n].online THEN clock ELSE records[n].last
<1>1. records[n] \in Record /\ clock \in Times
  BY DEF FileInv, TypeOK, Times
<1>2. AllOffline[n] = IF records[n].online THEN Gone(records[n]) ELSE records[n]
  BY DEF AllOffline
<1>3. Gone(records[n]).first = records[n].first /\ Gone(records[n]).last = clock
  BY <1>1 DEF Gone, Record
<1> QED
  BY <1>2, <1>3

\* The records but n's stay as they are when a line is about n.
LEMMA OtherRecords ==
  ASSUME FileInv, NEW n \in People, NEW r \in Record, Change(n, r)
  PROVE  /\ \A m \in People : records'[m] = IF m = n THEN r ELSE records[m]
         /\ intact' = intact
BY DEF FileInv, TypeOK, Change

\* What login, join and leave make of first_join and last_seen.
LEMMA LineTimes ==
  ASSUME FileInv, NEW n \in People
  PROVE  /\ [Upserted(n) EXCEPT !.login = TRUE] \in Record
         /\ Joined(Upserted(n)) \in Record /\ Gone(Upserted(n)) \in Record
         /\ [Upserted(n) EXCEPT !.login = TRUE].first = records[n].first
         /\ [Upserted(n) EXCEPT !.login = TRUE].last = Upserted(n).last
         /\ [Upserted(n) EXCEPT !.login = TRUE].online = records[n].online
         /\ Joined(Upserted(n)).first
              = IF records[n].first = Never THEN clock ELSE records[n].first
         /\ Joined(Upserted(n)).online
         /\ Gone(Upserted(n)).first = records[n].first
         /\ Gone(Upserted(n)).last = clock
         /\ records[n].first # Never => Upserted(n).last = records[n].last
<1>1. TypeOK /\ SessionInv /\ clock \in Times /\ Never \in Times
  BY PlayersFileAssumption DEF FileInv, TypeOK, Times, Never
<1>2. /\ Upserted(n) \in Record /\ Upserted(n).online = records[n].online
      /\ Upserted(n).first = records[n].first
      /\ records[n].first # Never => Upserted(n).last = records[n].last
  BY <1>1, LineRecords
<1>3. /\ [Upserted(n) EXCEPT !.login = TRUE] \in Record
      /\ Joined(Upserted(n)) \in Record /\ Gone(Upserted(n)) \in Record
  BY <1>1, <1>2, ChangedRecords
<1>4. /\ [Upserted(n) EXCEPT !.login = TRUE].first = Upserted(n).first
      /\ [Upserted(n) EXCEPT !.login = TRUE].last = Upserted(n).last
      /\ [Upserted(n) EXCEPT !.login = TRUE].online = Upserted(n).online
  BY <1>2 DEF Record
<1>5. /\ Joined(Upserted(n)).first
           = IF Upserted(n).first = Never THEN clock ELSE Upserted(n).first
      /\ Joined(Upserted(n)).online
  BY <1>1, <1>2 DEF Joined, Record
<1>6. Gone(Upserted(n)).first = Upserted(n).first /\ Gone(Upserted(n)).last = clock
  BY <1>1, <1>2 DEF Gone, Record
<1> QED
  BY <1>2, <1>3, <1>4, <1>5, <1>6

\* Both times are right: the two properties are inductive together, over IInv.
Right == FirstEver /\ LastSeen

\* Every step keeps both times right.
LEMMA RightNext ==
  ASSUME FileInv, Right, [FileNext]_fileVars
  PROVE  Right'
<1> SUFFICES ASSUME intact',
                    NEW m \in People
             PROVE  /\ records'[m].first = ever'[m]
                    /\ (ever'[m] # Never /\ ~records'[m].online) => records'[m].last = left'[m]
  BY DEF Right, FirstEver, LastSeen
<1> DEFINE Was == /\ records[m].first = ever[m]
                  /\ (ever[m] # Never /\ ~records[m].online) => records[m].last = left[m]
<1>1. intact => Was
  BY DEF Right, FirstEver, LastSeen
<1>2. CASE UNCHANGED <<records, ever, left, intact>>
  BY <1>1, <1>2
<1>3. ASSUME NEW n \in People, SeeLogin(n)
      PROVE  Was => /\ records'[m].first = ever'[m]
                    /\ (ever'[m] # Never /\ ~records'[m].online) => records'[m].last = left'[m]
  <2>1. records'[m] = IF m = n THEN [Upserted(n) EXCEPT !.login = TRUE] ELSE records[m]
    BY <1>3, LineTimes, OtherRecords DEF SeeLogin
  <2>2. ever' = ever /\ left' = left
    BY <1>3 DEF SeeLogin
  <2> QED BY <2>1, <2>2, LineTimes
<1>4. ASSUME NEW n \in People, SeeJoin(n)
      PROVE  Was => /\ records'[m].first = ever'[m]
                    /\ (ever'[m] # Never /\ ~records'[m].online) => records'[m].last = left'[m]
  <2>1. records'[m] = IF m = n THEN Joined(Upserted(n)) ELSE records[m]
    BY <1>4, LineTimes, OtherRecords DEF SeeJoin
  <2>2. /\ ever'[m] = IF m = n /\ ever[n] = Never THEN clock ELSE ever[m]
        /\ left' = left
    BY <1>4 DEF SeeJoin, FileInv, TypeOK
  <2> QED BY <2>1, <2>2, LineTimes
<1>5. ASSUME NEW n \in People, SeeLeave(n)
      PROVE  Was => /\ records'[m].first = ever'[m]
                    /\ (ever'[m] # Never /\ ~records'[m].online) => records'[m].last = left'[m]
  <2>1. records'[m] = IF m = n THEN Gone(Upserted(n)) ELSE records[m]
    BY <1>5, LineTimes, OtherRecords DEF SeeLeave
  <2>2. /\ left'[m] = IF m = n THEN clock ELSE left[m]
        /\ ever' = ever
    BY <1>5 DEF SeeLeave, FileInv, TypeOK
  <2> QED BY <2>1, <2>2, LineTimes
<1>6. ASSUME NEW n \in People, SeeLogin(n) \/ SeeJoin(n) \/ SeeLeave(n)
      PROVE  intact' = intact
  BY <1>6 DEF SeeLogin, SeeJoin, SeeLeave, Change
<1>7. CASE Shutdown
  <2>1. /\ records'[m] = AllOffline[m] /\ ever' = ever /\ intact' = intact
        /\ left'[m] = IF records[m].online THEN clock ELSE left[m]
    BY <1>7 DEF Shutdown
  <2> QED BY <1>1, <2>1, ShutdownRecords
<1>8. CASE Restart
  BY <1>1, <1>8, RestartFinds
<1>9. CASE SeeOther \/ Saving \/ BeginCallbacks \/ Exit \/ Kill \/ Elapse \/ Tick \/ UNCHANGED fileVars
  BY <1>2, <1>9 DEF SeeOther, Saving, Open, Write, Fail, BeginCallbacks, Exit, Kill, Elapse,
                    Tick, fileVars, history
<1> QED
  BY <1>1, <1>3, <1>4, <1>5, <1>6, <1>7, <1>8, <1>9 DEF FileNext, Seen, Process

\* Nobody is known at the first start, and nothing has been seen.
LEMMA RightInit == FileInit => Right
BY EmptyRecords DEF FileInit, Right, FirstEver, LastSeen

\* Both times are right in every state.
LEMMA RightAlways == FileSpec => []Right
<1>1. FileInv /\ Right /\ [FileNext]_fileVars => Right'
  BY RightNext
<1> QED
  BY FileInvariant, RightInit, <1>1, PTL DEF FileSpec

\* first_join is the first join ever, over any number of runs, as long as they
\* end orderly and with a save that succeeds.
THEOREM FirstEverHolds == FileSpec => []FirstEver
<1>1. Right => FirstEver
  BY DEF Right
<1> QED
  BY RightAlways, <1>1, PTL

\* So long, last_seen is when the player was last seen to go.
THEOREM LastSeenHolds == FileSpec => []LastSeen
<1>1. Right => LastSeen
  BY DEF Right
<1> QED
  BY RightAlways, <1>1, PTL
=============================================================================
