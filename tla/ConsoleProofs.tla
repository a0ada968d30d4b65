---------------------------- MODULE ConsoleProofs ----------------------------
(***************************************************************************)
(* Proofs about modules Console, for everything that may be typed, every   *)
(* size of the channels and any number of keys, lines and commands, and    *)
(* Terminal, for all tasks that print and any number of lines, keys and    *)
(* failures.                                                               *)
(***************************************************************************)
EXTENDS Console, Terminal, TLAPS

KeyType  == Texts \cup Lines \cup Events
Word     == KeyType \cup {"stop", "cmd"}
ItemType == [key : Nat, text : Seq(Word)]

WorldType ==
  /\ editor \in BOOLEAN /\ wrapper \in {"running", "returned", "forced", "interrupted"}
  /\ server \in {"up", "wedged", "gone"} /\ pid \in {"server", "nobody", "other"}
TypedType == keys \in Seq(KeyType) /\ line \in Seq(Word) /\ armed \in BOOLEAN
QueueType == /\ received \in Seq(ItemType) /\ pipe \in Seq(ItemType)
             /\ hand \in Seq(ItemType) /\ queue \in Seq(ItemType)
             /\ open \in BOOLEAN

TypeInv == WorldType /\ TypedType /\ QueueType

\* The process is gone before its pid is free, and before its end is handled.
ReapInv == /\ pid # "server" => server = "gone"
           /\ loop = "callbacks" => server = "gone"

\* The queue is closed only when the server is gone.
ClosedInv == ~open => server = "gone"

\* The first conjunct of TypedOrder, about the commands on their way.
PathInv ==
  \A i \in DOMAIN Path : Path[i].key # 0 =>
    LET k == Path[i].key
    IN /\ k \in DOMAIN keys /\ ForServer(keys[k]) /\ Path[i].text = <<TextOf(keys[k])>>
       /\ \A j \in DOMAIN Path : i < j /\ Path[j].key # 0 => k < Path[j].key
       /\ \A l \in 1..k : ForServer(keys[l]) => OnWay(l)

\* Its second one, until the queue is closed.
CompleteInv ==
  (Running /\ open) => \A k \in DOMAIN keys : ForServer(keys[k]) => OnWay(k) \/ NextUp(k)

\* The buffer is empty when the console reads; when it sends, the buffer has the
\* last key in it, which no command on its way came from.
LineInv ==
  /\ console = "reading" => line = <<>>
  /\ (Running /\ console = "sending") =>
       /\ Len(keys) > 0 /\ ForServer(keys[Len(keys)]) /\ NextUp(Len(keys))
       /\ \A i \in DOMAIN Path : Path[i].key < Len(keys)

\* Only the line editor is ever armed, and then the last key was a Ctrl-C.
ArmedInv ==
  /\ armed => editor
  /\ (Running /\ armed /\ console # "left") => Len(keys) > 0 /\ keys[Len(keys)] = "^C"

IInv == /\ TypeInv /\ ReapInv /\ NoOrphan /\ ClosedInv
        /\ PathInv /\ CompleteInv /\ LineInv /\ ArmedInv /\ QuitsDeliberately
-----------------------------------------------------------------------------
(* The way of the commands. *)

\* Appending an element, and taking one from the front of the part behind.
LEMMA AppendFacts ==
  ASSUME NEW S, NEW s \in Seq(S), NEW x \in S
  PROVE  /\ Append(s, x) \in Seq(S) /\ Len(s) \in Nat /\ Len(Append(s, x)) = Len(s) + 1
         /\ Append(s, x)[Len(s) + 1] = x
         /\ \A i \in 1..Len(s) : Append(s, x)[i] = s[i]
OBVIOUS

LEMMA HeadFacts ==
  ASSUME NEW S, NEW s \in Seq(S), NEW q \in Seq(S), q # <<>>
  PROVE  /\ Head(q) \in S /\ Tail(q) \in Seq(S) /\ <<Head(q)>> \in Seq(S)
         /\ s \o <<Head(q)>> \o Tail(q) = s \o q
         /\ Append(s, Head(q)) \o Tail(q) = s \o q
<1>1. Len(q) \in Nat /\ Len(q) > 0 /\ Len(Tail(q)) = Len(q) - 1
  OBVIOUS
<1> QED
  BY <1>1

LEMMA ConcatFacts ==
  ASSUME NEW S, NEW a \in Seq(S), NEW b \in Seq(S)
  PROVE  /\ a \o b \in Seq(S) /\ a \o <<>> = a /\ Len(a \o b) = Len(a) + Len(b)
         /\ \A i \in 1..Len(a) : (a \o b)[i] = a[i]
OBVIOUS

LEMMA AppendConcat ==
  ASSUME NEW S, NEW a \in Seq(S), NEW b \in Seq(S), NEW x \in S
  PROVE  a \o Append(b, x) = Append(a \o b, x)
OBVIOUS

LEMMA ConcatAssoc ==
  ASSUME NEW S, NEW a \in Seq(S), NEW b \in Seq(S), NEW c \in Seq(S)
  PROVE  (a \o b) \o c = a \o (b \o c)
OBVIOUS

LEMMA ItemKeys ==
  ASSUME NEW s \in Seq(ItemType)
  PROVE  \A i \in DOMAIN s : s[i].key \in Nat
<1>1. \A i \in DOMAIN s : s[i] \in ItemType
  OBVIOUS
<1>2. \A x \in ItemType : x.key \in Nat
  BY DEF ItemType
<1> QED
  BY <1>1, <1>2

\* The type of the way.
LEMMA PathType ==
  ASSUME QueueType
  PROVE  /\ received \o pipe \in Seq(ItemType) /\ received \o pipe \o hand \in Seq(ItemType)
         /\ Path \in Seq(ItemType)
<1>1. received \o pipe \in Seq(ItemType)
  BY ConcatFacts DEF QueueType
<1>2. received \o pipe \o hand \in Seq(ItemType)
  BY <1>1, ConcatFacts DEF QueueType
<1> QED
  BY <1>1, <1>2, ConcatFacts DEF QueueType, Path

\* The sender and the server pass commands on.
LEMMA TakeMoves == ASSUME QueueType, Take PROVE Path' = Path /\ QueueType'
<1>1. received \o pipe \in Seq(ItemType) /\ queue \in Seq(ItemType) /\ queue # <<>>
  BY PathType DEF Take, QueueType
<1>2. /\ Tail(queue) \in Seq(ItemType) /\ <<Head(queue)>> \in Seq(ItemType)
      /\ received \o pipe \o <<Head(queue)>> \o Tail(queue) = received \o pipe \o queue
  BY <1>1, HeadFacts
<1>3. received \o pipe \o <<>> = received \o pipe
  BY <1>1, ConcatFacts
<1> QED
  BY <1>2, <1>3 DEF Take, Path, QueueType

LEMMA WriteMoves ==
  ASSUME QueueType, Write
  PROVE  /\ QueueType'
         /\ \/ Path' = Path /\ UNCHANGED open
            \/ server = "gone" /\ open' = FALSE /\ Path' = received \o pipe
<1>1. /\ received \in Seq(ItemType) /\ pipe \in Seq(ItemType) /\ hand \in Seq(ItemType)
      /\ queue \in Seq(ItemType) /\ received \o pipe \in Seq(ItemType)
  BY PathType DEF QueueType
<1>2. CASE pipe' = pipe \o hand /\ hand' = <<>> /\ UNCHANGED <<open, queue>>
  <2>1. pipe \o hand \in Seq(ItemType) /\ received \o (pipe \o hand) = received \o pipe \o hand
    <3>1. pipe \o hand \in Seq(ItemType)
      BY <1>1, ConcatFacts
    <3>2. received \o (pipe \o hand) = received \o pipe \o hand
      BY <1>1
    <3> QED
      BY <3>1, <3>2
  <2>2. received \o (pipe \o hand) \o <<>> = received \o (pipe \o hand)
    BY <1>1, <2>1, ConcatFacts
  <2>3. received' = received
    BY DEF Write
  <2>4. <<>> \in Seq(ItemType)
    OBVIOUS
  <2> QED
    BY <1>1, <1>2, <2>1, <2>2, <2>3, <2>4 DEF Path, QueueType
<1>3. CASE WriteFails
  <2>1. received \o pipe \o <<>> \o <<>> = received \o pipe
    BY <1>1, ConcatFacts
  <2>2. <<>> \in Seq(ItemType)
    OBVIOUS
  <2> QED
    BY <1>1, <1>3, <2>1, <2>2 DEF Write, WriteFails, Path, QueueType
<1> QED
  BY <1>2, <1>3 DEF Write

LEMMA ServerReadsMoves == ASSUME QueueType, ServerReads PROVE Path' = Path /\ QueueType'
<1>1. received \in Seq(ItemType) /\ pipe \in Seq(ItemType) /\ pipe # <<>>
  BY DEF ServerReads, QueueType
<1>2. /\ Head(pipe) \in ItemType /\ Tail(pipe) \in Seq(ItemType)
      /\ Append(received, Head(pipe)) \o Tail(pipe) = received \o pipe
  BY <1>1, HeadFacts
<1>3. Append(received, Head(pipe)) \in Seq(ItemType)
  BY <1>1, <1>2, AppendFacts
<1> QED
  BY <1>2, <1>3 DEF ServerReads, Path, QueueType

\* What goes into the queue is the last on the way.
LEMMA QueueMoves ==
  ASSUME QueueType, NEW x \in ItemType, queue' = Append(queue, x),
         UNCHANGED <<open, hand, pipe, received>>
  PROVE  Path' = Append(Path, x) /\ QueueType'
<1>1. queue' \in Seq(ItemType)
  BY AppendFacts DEF QueueType
<1>2. received \o pipe \o hand \o Append(queue, x) = Append(received \o pipe \o hand \o queue, x)
  BY PathType, AppendConcat DEF QueueType
<1> QED
  BY <1>1, <1>2 DEF Path, QueueType
-----------------------------------------------------------------------------
(* The order on the way. *)

\* Keys that come later change nothing about the commands on their way.
LEMMA PathSame ==
  ASSUME TypeInv, PathInv, Path' = Path, UNCHANGED editor,
         \/ keys' = keys
         \/ \E k \in KeyType : keys' = Append(keys, k)
  PROVE  PathInv'
<1>1. \A k \in DOMAIN keys : k \in DOMAIN keys' /\ keys'[k] = keys[k] /\ \A l \in 1..k : l \in DOMAIN keys
  <2>1. keys \in Seq(KeyType)
    BY DEF TypeInv, TypedType
  <2>2. CASE keys' = keys
    BY <2>1, <2>2
  <2>3. CASE \E k \in KeyType : keys' = Append(keys, k)
    BY <2>1, <2>3
  <2> QED
    BY <2>2, <2>3
<1>2. \A k \in DOMAIN keys : ForServer(keys[k])' <=> ForServer(keys[k])
  BY <1>1 DEF ForServer
<1>3. \A l : OnWay(l)' <=> OnWay(l)
  BY DEF OnWay
<1> QED
  BY <1>1, <1>2, <1>3 DEF PathInv, ForServer

\* What is cut off is the end of the way.
LEMMA PathCut ==
  ASSUME TypeInv, PathInv, Path' = received \o pipe, UNCHANGED <<editor, keys>>
  PROVE  PathInv'
<1>1. PICK ps, cut : ps = Path /\ cut = received \o pipe
  OBVIOUS
<1>2. /\ Len(cut) <= Len(ps) /\ \A i \in DOMAIN cut : i \in DOMAIN ps /\ cut[i] = ps[i]
      /\ DOMAIN cut = 1..Len(cut) /\ DOMAIN ps = 1..Len(ps)
      /\ \A i \in DOMAIN ps : ps[i].key \in Nat
  <2>1. /\ cut \in Seq(ItemType) /\ hand \in Seq(ItemType) /\ queue \in Seq(ItemType)
        /\ cut \o hand \in Seq(ItemType) /\ ps = cut \o hand \o queue /\ ps \in Seq(ItemType)
    BY <1>1, PathType DEF TypeInv, QueueType, Path
  <2>2. /\ Len(cut \o hand) = Len(cut) + Len(hand)
        /\ \A i \in 1..Len(cut) : (cut \o hand)[i] = cut[i]
    BY <2>1, ConcatFacts
  <2>3. /\ Len(ps) = Len(cut \o hand) + Len(queue)
        /\ \A i \in 1..Len(cut \o hand) : ps[i] = (cut \o hand)[i]
    BY <2>1, ConcatFacts
  <2>4. Len(cut) \in Nat /\ Len(hand) \in Nat /\ Len(queue) \in Nat
    BY <2>1
  <2>5. DOMAIN cut = 1..Len(cut) /\ DOMAIN ps = 1..Len(ps)
    BY <2>1
  <2>6. \A i \in DOMAIN ps : ps[i].key \in Nat
    BY <2>1, ItemKeys
  <2> QED
    BY <2>2, <2>3, <2>4, <2>5, <2>6
<1>3. Path' = cut
  BY <1>1
<1>4. ASSUME NEW i \in DOMAIN cut, cut[i].key # 0
      PROVE  LET k == cut[i].key
             IN /\ k \in DOMAIN keys /\ ForServer(keys[k]) /\ cut[i].text = <<TextOf(keys[k])>>
                /\ \A j \in DOMAIN cut : i < j /\ cut[j].key # 0 => k < cut[j].key
                /\ \A l \in 1..k : ForServer(keys[l]) => \E j \in DOMAIN cut : cut[j].key = l
  <2>1. PICK k : k = cut[i].key
    OBVIOUS
  <2>2. i \in DOMAIN ps /\ ps[i].key = k /\ k # 0 /\ k \in Nat
    BY <1>2, <1>4, <2>1
  <2>3. /\ k \in DOMAIN keys /\ ForServer(keys[k]) /\ ps[i].text = <<TextOf(keys[k])>>
        /\ \A j \in DOMAIN ps : i < j /\ ps[j].key # 0 => k < ps[j].key
        /\ \A l \in 1..k : ForServer(keys[l]) => OnWay(l)
    BY <1>1, <2>2 DEF PathInv
  <2>4. ASSUME NEW l \in 1..k, ForServer(keys[l]) PROVE \E j \in DOMAIN cut : cut[j].key = l
    <3>1. PICK j \in DOMAIN ps : ps[j].key = l
      BY <1>1, <2>3, <2>4 DEF OnWay
    <3>2. ~(i < j)
      BY <2>2, <2>3, <2>4, <3>1
    <3>3. j \in DOMAIN cut
      BY <1>2, <1>4, <3>1, <3>2
    <3> QED
      BY <1>2, <3>1, <3>3
  <2> QED
    BY <1>2, <1>4, <2>1, <2>3, <2>4
<1> QED
  BY <1>3, <1>4 DEF PathInv, OnWay, ForServer

\* A plugin's command comes last, and came from no key.
LEMMA PathPlugin ==
  ASSUME TypeInv, PathInv, UNCHANGED <<editor, keys>>,
         NEW x \in ItemType, x.key = 0, Path' = Append(Path, x)
  PROVE  /\ PathInv' /\ \A l \in DOMAIN keys : OnWay(l)' <=> OnWay(l)
<1>1. PICK ps, qs : ps = Path /\ qs = Append(Path, x)
  OBVIOUS
<1>2. /\ DOMAIN ps = 1..Len(ps) /\ DOMAIN qs = 1..Len(ps) + 1 /\ Len(ps) \in Nat
      /\ qs[Len(ps) + 1] = x /\ \A i \in DOMAIN ps : qs[i] = ps[i]
  BY <1>1, PathType, AppendFacts DEF TypeInv
<1>3. \A l : l # 0 => (OnWay(l)' <=> OnWay(l))
  BY <1>1, <1>2 DEF OnWay
<1>4. \A i \in DOMAIN qs : qs[i].key # 0 => i \in DOMAIN ps /\ qs[i] = ps[i]
  BY <1>2
<1>5. DOMAIN keys = 1..Len(keys) /\ Len(keys) \in Nat
  BY DEF TypeInv, TypedType
<1>6. ASSUME NEW i \in DOMAIN qs, qs[i].key # 0
      PROVE  LET k == qs[i].key
             IN /\ k \in DOMAIN keys /\ ForServer(keys[k]) /\ qs[i].text = <<TextOf(keys[k])>>
                /\ \A j \in DOMAIN qs : i < j /\ qs[j].key # 0 => k < qs[j].key
                /\ \A l \in 1..k : ForServer(keys[l]) => OnWay(l)
  BY <1>1, <1>4, <1>6 DEF PathInv
<1>7. \A k \in DOMAIN keys : \A l \in 1..k : l # 0
  BY <1>5
<1>8. PathInv'
  BY <1>1, <1>3, <1>6, <1>7 DEF PathInv, ForServer
<1> QED
  BY <1>3, <1>5, <1>8

\* So does what the console sends, which came from the last key; all the keys
\* before that were for something that is on its way already, or for nothing.
LEMMA PathTyped ==
  ASSUME TypeInv, PathInv, UNCHANGED <<editor, keys>>,
         Len(keys) > 0, ForServer(keys[Len(keys)]),
         \A i \in DOMAIN Path : Path[i].key < Len(keys),
         \A k \in DOMAIN keys : ForServer(keys[k]) => OnWay(k) \/ k = Len(keys),
         NEW x \in ItemType, x = Item(Len(keys), <<TextOf(keys[Len(keys)])>>),
         Path' = Append(Path, x)
  PROVE  /\ PathInv' /\ \A l \in DOMAIN keys : OnWay(l) \/ l = Len(keys) => OnWay(l)'
<1>1. PICK ps, qs, n : ps = Path /\ qs = Append(Path, x) /\ n = Len(keys)
  OBVIOUS
<1>2. /\ DOMAIN ps = 1..Len(ps) /\ DOMAIN qs = 1..Len(ps) + 1 /\ Len(ps) \in Nat
      /\ qs[Len(ps) + 1] = x /\ \A i \in DOMAIN ps : qs[i] = ps[i]
      /\ \A i \in DOMAIN ps : ps[i].key \in Nat
  <2>1. ps \in Seq(ItemType)
    BY <1>1, PathType DEF TypeInv
  <2>2. \A i \in DOMAIN ps : ps[i].key \in Nat
    BY <2>1, ItemKeys
  <2> QED
    BY <1>1, <2>1, <2>2, AppendFacts
<1>3. DOMAIN keys = 1..n /\ n \in Nat /\ n # 0 /\ n \in DOMAIN keys
  BY <1>1 DEF TypeInv, TypedType
<1>4. x.key = n /\ x.text = <<TextOf(keys[n])>>
  BY <1>1 DEF Item
<1>5. Path' = qs
  BY <1>1
<1>6. \A l : OnWay(l) \/ l = n => OnWay(l)'
  BY <1>1, <1>2, <1>4, <1>5 DEF OnWay
<1>7. ASSUME NEW i \in DOMAIN qs, qs[i].key # 0
      PROVE  LET k == qs[i].key
             IN /\ k \in DOMAIN keys /\ ForServer(keys[k]) /\ qs[i].text = <<TextOf(keys[k])>>
                /\ \A j \in DOMAIN qs : i < j /\ qs[j].key # 0 => k < qs[j].key
                /\ \A l \in 1..k : ForServer(keys[l]) => OnWay(l)'
  <2>1. CASE i = Len(ps) + 1
    <3>1. qs[i] = x
      BY <1>2, <2>1
    <3>2. \A l \in 1..n : ForServer(keys[l]) => OnWay(l)'
      BY <1>1, <1>3, <1>6
    <3>3. \A j \in DOMAIN qs : ~(i < j)
      BY <1>2, <2>1
    <3>4. ForServer(keys[n])
      BY <1>1
    <3>5. qs[i].key = n /\ qs[i].text = <<TextOf(keys[n])>>
      BY <1>4, <3>1
    <3> HIDE <2>1
    <3> QED
      BY <1>3, <3>2, <3>3, <3>4, <3>5
  <2>2. CASE i \in DOMAIN ps
    <3>1. PICK k : k = ps[i].key
      OBVIOUS
    <3>2. qs[i] = ps[i] /\ qs[i].key = k /\ k # 0 /\ k < n
      BY <1>1, <1>2, <1>7, <2>2, <3>1
    <3>3. /\ k \in DOMAIN keys /\ ForServer(keys[k]) /\ ps[i].text = <<TextOf(keys[k])>>
          /\ \A j \in DOMAIN ps : i < j /\ ps[j].key # 0 => k < ps[j].key
          /\ \A l \in 1..k : ForServer(keys[l]) => OnWay(l)
      BY <1>1, <2>2, <3>1, <3>2 DEF PathInv
    <3>4. \A j \in DOMAIN qs : i < j /\ qs[j].key # 0 => k < qs[j].key
      BY <1>2, <1>4, <3>2, <3>3
    <3> QED
      BY <1>6, <3>2, <3>3, <3>4
  <2>3. i = Len(ps) + 1 \/ i \in DOMAIN ps
    BY <1>2
  <2> QED
    BY <2>1, <2>2, <2>3, Zenon
<1>8. PathInv'
  BY <1>5, <1>7 DEF PathInv, ForServer
<1> QED
  BY <1>1, <1>6, <1>8
-----------------------------------------------------------------------------
(* The keys. *)

\* A key comes while the console reads, and everything typed before it is on its
\* way. What is for the server is sent next.
LEMMA KeyKeeps ==
  ASSUME IInv, NEW k \in KeyType, keys' = Append(keys, k), Running, UNCHANGED queueVars,
         UNCHANGED editor, console = "reading" \/ ~Running',
         line' \in Seq(Word), console' # "reading" \/ (console = "reading" /\ line' = line),
         console' = "sending" \/ ~ForServer(k) \/ ~Running',
         (Running' /\ console' = "sending") => ForServer(k) /\ line' = <<TextOf(k)>>
  PROVE  /\ keys' \in Seq(KeyType) /\ QueueType' /\ PathInv' /\ CompleteInv' /\ LineInv'
         /\ Len(keys') > 0 /\ keys'[Len(keys')] = k
<1>1. PICK n : n = Len(keys)
  OBVIOUS
<1>2. /\ keys \in Seq(KeyType) /\ keys' \in Seq(KeyType) /\ n \in Nat /\ Len(keys') = n + 1
      /\ DOMAIN keys = 1..n /\ DOMAIN keys' = 1..n + 1
      /\ keys'[n + 1] = k /\ \A i \in 1..n : keys'[i] = keys[i]
  <2>1. keys \in Seq(KeyType)
    BY DEF IInv, TypeInv, TypedType
  <2> QED
    BY <1>1, <2>1
<1>3. Path' = Path /\ QueueType' /\ open' = open
  BY DEF queueVars, Path, IInv, TypeInv, QueueType
<1>4. PathInv'
  BY <1>3, PathSame DEF IInv
<1>5. \A l : (ForServer(l)' <=> ForServer(l)) /\ (OnWay(l)' <=> OnWay(l))
  BY <1>3 DEF ForServer, OnWay
<1>6. CompleteInv'
  <2>1. ASSUME Running', open', NEW l \in DOMAIN keys', ForServer(keys'[l])
        PROVE  OnWay(l)' \/ NextUp(l)'
    <3>1. CASE l \in 1..n
      <4>1. ForServer(keys[l]) /\ l \in DOMAIN keys
        BY <1>2, <2>1, <3>1
      <4>2. OnWay(l) \/ NextUp(l)
        BY <1>3, <2>1, <4>1 DEF IInv, CompleteInv
      <4>3. ~NextUp(l)
        BY <2>1 DEF NextUp
      <4> QED
        BY <1>5, <4>2, <4>3
    <3>2. CASE l = n + 1
      BY <1>2, <2>1, <3>2 DEF NextUp, TextOf
    <3> QED
      BY <1>2, <3>1, <3>2
  <2> QED
    BY <1>5, <2>1 DEF CompleteInv, ForServer
<1>7. LineInv'
  <2>1. console' = "reading" => line' = <<>>
    BY DEF IInv, LineInv
  <2>2. ASSUME Running', console' = "sending"
        PROVE  /\ Len(keys') > 0 /\ ForServer(keys'[Len(keys')]) /\ NextUp(Len(keys))'
               /\ \A i \in DOMAIN Path : Path[i].key < Len(keys')
    <3>1. \A i \in DOMAIN Path : Path[i].key # 0 => Path[i].key \in DOMAIN keys
      BY DEF IInv, PathInv
    <3>2. \A i \in DOMAIN Path : Path[i].key < n + 1
      BY <1>2, <3>1
    <3> QED
      BY <1>2, <2>2, <3>2 DEF NextUp, TextOf
  <2> QED
    BY <1>3, <1>5, <2>1, <2>2 DEF LineInv, ForServer
<1> QED
  BY <1>2, <1>3, <1>4, <1>6, <1>7
-----------------------------------------------------------------------------
(* Steps that type nothing. *)

Way == QueueType /\ PathInv /\ CompleteInv /\ LineInv

\* Passing commands on, and what the console does apart from sending.
LEMMA WayKeeps ==
  ASSUME IInv, UNCHANGED <<editor, keys>>, Path' = Path, open' = open, QueueType',
         wrapper' = wrapper \/ ~Running',
         \/ UNCHANGED <<console, line>>
         \/ console # "sending" /\ console' = "left" /\ UNCHANGED line
         \/ console # "sending" /\ console' = "reading" /\ line' = <<>>
  PROVE  Way' /\ line' \in Seq(Word)
<1>1. \A l : (ForServer(l)' <=> ForServer(l)) /\ (OnWay(l)' <=> OnWay(l))
  BY DEF ForServer, OnWay
<1>2. PathInv'
  BY PathSame DEF IInv
<1>3. \A l : NextUp(l) => NextUp(l)'
  BY DEF NextUp, TextOf
<1>4. CompleteInv'
  BY <1>1, <1>3 DEF IInv, CompleteInv, Running, ForServer
<1>5. LineInv'
  BY <1>1, <1>3 DEF IInv, LineInv, Running, ForServer
<1>6. line' \in Seq(Word)
  <2>1. line \in Seq(Word) /\ <<>> \in Seq(Word)
    BY DEF IInv, TypeInv, TypedType
  <2> QED
    BY <2>1
<1> QED
  BY <1>2, <1>4, <1>5, <1>6 DEF Way

\* The end of the sender.
LEMMA CutKeeps ==
  ASSUME IInv, UNCHANGED <<editor, keys, wrapper, console, line>>,
         Path' = received \o pipe, open' = FALSE, QueueType'
  PROVE  Way'
<1>1. PathInv'
  BY PathCut DEF IInv
<1>2. CompleteInv'
  BY DEF CompleteInv
<1>3. LineInv'
  <2>1. ASSUME Running, console = "sending" PROVE \A i \in DOMAIN Path' : Path'[i].key < Len(keys)
    <3>1. received \o pipe \in Seq(ItemType) /\ hand \in Seq(ItemType) /\ queue \in Seq(ItemType)
      BY PathType DEF IInv, TypeInv, QueueType
    <3>2. \A i \in DOMAIN (received \o pipe) : /\ i \in DOMAIN Path
                                               /\ (received \o pipe)[i] = Path[i]
      BY <3>1 DEF Path
    <3> QED
      BY <2>1, <3>2 DEF IInv, LineInv
  <2> QED
    BY <2>1 DEF IInv, LineInv, Running, ForServer, NextUp, TextOf
<1> QED
  BY <1>1, <1>2, <1>3 DEF Way

\* A plugin's command.
LEMMA PluginKeeps == ASSUME IInv, PluginSends PROVE Way'
<1>1. PICK x : x = Item(0, <<"cmd">>)
  OBVIOUS
<1>2. x \in ItemType /\ x.key = 0
  <2>1. <<"cmd">> \in Seq(Word) /\ 0 \in Nat
    BY DEF Word
  <2> QED
    BY <1>1, <2>1 DEF Item, ItemType
<1>3. UNCHANGED <<worldVars, consoleVars, open, hand, pipe, received>> /\ queue' = Append(queue, x)
  BY <1>1 DEF PluginSends
<1>4. Path' = Append(Path, x) /\ QueueType'
  BY <1>2, <1>3, QueueMoves DEF IInv, TypeInv
<1>5. PathInv' /\ \A l \in DOMAIN keys : OnWay(l)' <=> OnWay(l)
  BY <1>2, <1>3, <1>4, PathPlugin DEF IInv, worldVars, consoleVars
<1>6. CompleteInv'
  BY <1>3, <1>5 DEF IInv, CompleteInv, Running, ForServer, NextUp, TextOf, worldVars, consoleVars
<1>7. LineInv'
  <2>1. ASSUME Running, console = "sending" PROVE \A i \in DOMAIN Path' : Path'[i].key < Len(keys)
    <3>1. PICK ps, qs : ps = Path /\ qs = Append(Path, x)
      OBVIOUS
    <3>2. /\ DOMAIN ps = 1..Len(ps) /\ DOMAIN qs = 1..Len(ps) + 1 /\ Len(ps) \in Nat
          /\ qs[Len(ps) + 1] = x /\ \A i \in DOMAIN ps : qs[i] = ps[i]
      BY <1>2, <3>1, PathType, AppendFacts DEF IInv, TypeInv
    <3>3. \A i \in DOMAIN ps : ps[i].key < Len(keys)
      BY <2>1, <3>1 DEF IInv, LineInv
    <3>4. Len(keys) > 0
      BY <2>1 DEF IInv, LineInv
    <3> QED
      BY <1>2, <1>4, <3>1, <3>2, <3>3, <3>4
  <2> QED
    BY <1>3, <2>1 DEF IInv, LineInv, Running, ForServer, NextUp, TextOf, worldVars, consoleVars
<1> QED
  BY <1>4, <1>5, <1>6, <1>7 DEF Way

\* What was typed goes into the queue, or the console leaves.
LEMMA SendTypedKeeps ==
  ASSUME IInv, SendTyped
  PROVE  Way' /\ line' \in Seq(Word)
<1>1. /\ UNCHANGED <<worldVars, keys, armed, open, hand, pipe, received>>
      /\ Running /\ console = "sending"
  BY DEF SendTyped
<1>2. /\ Len(keys) > 0 /\ ForServer(keys[Len(keys)]) /\ line = <<TextOf(keys[Len(keys)])>>
      /\ \A i \in DOMAIN Path : Path[i].key < Len(keys)
  BY <1>1 DEF IInv, LineInv, NextUp
<1>3. CASE ~open /\ console' = "left" /\ UNCHANGED <<queue, line>>
  <2>1. Path' = Path /\ QueueType' /\ open' = FALSE
    BY <1>1, <1>3 DEF Path, QueueType, IInv, TypeInv
  <2>2. PathInv'
    BY <1>1, <2>1, PathSame DEF IInv, worldVars
  <2>3. CompleteInv' /\ LineInv'
    BY <1>3, <2>1 DEF CompleteInv, LineInv
  <2>4. line' \in Seq(Word)
    BY <1>3 DEF IInv, TypeInv, TypedType
  <2> QED
    BY <2>1, <2>2, <2>3, <2>4 DEF Way
<1>4. CASE /\ open /\ queue' = Append(queue, Item(Len(keys), line))
           /\ console' = "reading" /\ line' = <<>>
  <2>1. PICK x : x = Item(Len(keys), line)
    OBVIOUS
  <2>2. x \in ItemType
    <3>1. Len(keys) \in Nat /\ line \in Seq(Word)
      BY DEF IInv, TypeInv, TypedType
    <3> QED
      BY <2>1, <3>1 DEF Item, ItemType
  <2>3. Path' = Append(Path, x) /\ QueueType'
    BY <1>1, <1>4, <2>1, <2>2, QueueMoves DEF IInv, TypeInv
  <2>4. \A k \in DOMAIN keys : ForServer(keys[k]) => OnWay(k) \/ k = Len(keys)
    BY <1>1, <1>4 DEF IInv, CompleteInv, NextUp
  <2>5. x = Item(Len(keys), <<TextOf(keys[Len(keys)])>>)
    BY <1>2, <2>1
  <2>6. PathInv' /\ \A l \in DOMAIN keys : OnWay(l) \/ l = Len(keys) => OnWay(l)'
    BY <1>1, <1>2, <2>2, <2>3, <2>4, <2>5, PathTyped DEF IInv, worldVars
  <2>7. CompleteInv'
    BY <1>1, <2>4, <2>6 DEF CompleteInv, Running, ForServer, worldVars
  <2>8. LineInv' /\ line' \in Seq(Word)
    BY <1>4 DEF LineInv
  <2> QED
    BY <2>3, <2>6, <2>7, <2>8 DEF Way
<1> QED
  BY <1>3, <1>4 DEF SendTyped
-----------------------------------------------------------------------------
(* The invariant, action by action. *)

\* What is typed is a key, and a text that is sent is a word.
LEMMA KeyTypes ==
  /\ "^C" \in KeyType /\ "^D" \in KeyType /\ "error" \in KeyType /\ "" \in KeyType /\ "!reload" \in KeyType
  /\ <<"stop">> \in Seq(Word)
  /\ \A l \in Texts : l \in KeyType /\ l \notin Lines \cup Events
  /\ \A l \in KeyType : <<l>> \in Seq(Word)
<1>1. \A l \in Texts : l \in KeyType /\ l \notin Lines \cup Events
  BY ConsoleAssumption DEF KeyType
<1>2. /\ "^C" \in KeyType /\ "^D" \in KeyType /\ "error" \in KeyType /\ "" \in KeyType /\ "!reload" \in KeyType
      /\ "stop" \in Word
  BY DEF KeyType, Word, Lines, Events
<1>3. \A l \in Word : <<l>> \in Seq(Word)
  OBVIOUS
<1>4. \A l \in KeyType : l \in Word
  BY DEF Word
<1> QED
  BY <1>1, <1>2, <1>3, <1>4

\* On unix, quitting kills the server for as long as it is the wrapper's to kill.
LEMMA ForceQuitKills ==
  ASSUME IInv, ForceQuit, UNCHANGED loop
  PROVE  /\ WorldType' /\ ReapInv' /\ NoOrphan' /\ ~Running' /\ wrapper' = "forced"
         /\ UNCHANGED editor /\ (server = "gone" => server' = "gone")
BY ConsoleAssumption DEF ForceQuit, IInv, TypeInv, WorldType, ReapInv, NoOrphan, Running

LEMMA EnterKeeps == ASSUME IInv, NEW l \in Texts \cup Lines, Enter(l) PROVE IInv'
<1>1. /\ Running /\ console = "reading" /\ keys' = Append(keys, l) /\ editor
      /\ UNCHANGED <<worldVars, queueVars, loopVars>> /\ l \in KeyType /\ armed' = FALSE
  BY KeyTypes DEF Enter, Press, Lines
<1>2. line = <<>> /\ line \in Seq(Word)
  BY <1>1 DEF IInv, LineInv, TypeInv, TypedType
<1>3. /\ line' \in Seq(Word) /\ (console' = "reading" => line' = line)
      /\ console' = "sending" \/ ~ForServer(l)
      /\ console' = "sending" => ForServer(l) /\ line' = <<TextOf(l)>>
  <2>1. CASE l \in {"", "!reload"}
    <3>1. l \notin Texts /\ l # "^C"
      BY <2>1, KeyTypes DEF Lines
    <3> QED
      BY <1>1, <1>2, <2>1, <3>1 DEF Enter, ForServer
  <2>2. CASE l \in Texts
    <3>1. <<l>> \in Seq(Word) /\ l \notin {"", "!reload", "^C"}
      BY <2>2, KeyTypes DEF Lines, Events
    <3>2. console' = "sending" /\ line' = <<l>>
      BY <2>2, <3>1 DEF Enter
    <3> QED
      BY <2>2, <3>1, <3>2 DEF ForServer, TextOf
  <2> QED
    BY <2>1, <2>2 DEF Lines
<1>4. keys' \in Seq(KeyType) /\ QueueType' /\ PathInv' /\ CompleteInv' /\ LineInv'
  BY <1>1, <1>3, KeyKeeps DEF worldVars
<1>5. TypeInv'
  BY <1>1, <1>3, <1>4 DEF IInv, TypeInv, WorldType, TypedType, worldVars
<1> QED
  BY <1>1, <1>4, <1>5 DEF IInv, ReapInv, NoOrphan, ClosedInv, ArmedInv, QuitsDeliberately,
                         Running, worldVars, loopVars, queueVars

LEMMA ReadTypedKeeps == ASSUME IInv, NEW l \in Texts \cup Lines, ReadTyped(l) PROVE IInv'
<1>1. /\ Running /\ console = "reading" /\ keys' = Append(keys, l) /\ ~editor
      /\ UNCHANGED <<worldVars, queueVars, loopVars, armed>> /\ l \in KeyType
      /\ line' = Append(line, l)
      /\ console' = IF line' = <<"!reload">> THEN "controlling" ELSE "sending"
  BY KeyTypes DEF ReadTyped, Press, Lines
<1>2. line = <<>>
  BY <1>1 DEF IInv, LineInv
<1>3. line' = <<l>> /\ line' \in Seq(Word)
  <2>1. line' = <<l>>
    BY <1>1, <1>2
  <2>2. <<l>> \in Seq(Word)
    BY <1>1, KeyTypes
  <2> QED
    BY <2>1, <2>2
<1>4. l # "^C" /\ ("!reload" \notin Texts)
  BY KeyTypes DEF Lines, Events
<1>5. /\ console' = "sending" \/ ~ForServer(l)
      /\ console' = "sending" => ForServer(l) /\ line' = <<TextOf(l)>>
  <2>1. CASE l = "!reload"
    BY <1>1, <1>3, <1>4, <2>1 DEF ForServer
  <2>2. CASE l # "!reload"
    <3>1. line' # <<"!reload">>
      BY <1>3, <2>2
    <3>2. console' = "sending"
      BY <1>1, <3>1
    <3>3. ForServer(l) /\ <<TextOf(l)>> = <<l>>
      BY <1>1, <1>4, <2>2 DEF ForServer, TextOf, Lines
    <3> QED
      BY <1>3, <3>2, <3>3
  <2> QED
    BY <2>1, <2>2
<1>6. keys' \in Seq(KeyType) /\ QueueType' /\ PathInv' /\ CompleteInv' /\ LineInv'
  BY <1>1, <1>3, <1>5, KeyKeeps DEF worldVars
<1>7. TypeInv'
  BY <1>1, <1>3, <1>6 DEF IInv, TypeInv, WorldType, TypedType, worldVars
<1> QED
  BY <1>1, <1>6, <1>7 DEF IInv, ReapInv, NoOrphan, ClosedInv, ArmedInv, QuitsDeliberately,
                         Running, worldVars, loopVars, queueVars

LEMMA CtrlCKeeps == ASSUME IInv, CtrlC PROVE IInv'
<1>1. /\ Running /\ console = "reading" /\ keys' = Append(keys, "^C") /\ editor
      /\ UNCHANGED <<queueVars, loopVars>> /\ "^C" \in KeyType
  BY KeyTypes DEF CtrlC, Press
<1>2. CASE armed /\ ForceQuit /\ UNCHANGED <<console, armed, line>>
  <2>1. /\ WorldType' /\ ReapInv' /\ NoOrphan' /\ ~Running' /\ wrapper' = "forced"
        /\ UNCHANGED editor /\ (server = "gone" => server' = "gone")
    BY <1>1, <1>2, ForceQuitKills DEF loopVars
  <2>2. line' \in Seq(Word)
    BY <1>2 DEF IInv, TypeInv, TypedType
  <2>3. /\ keys' \in Seq(KeyType) /\ QueueType' /\ PathInv' /\ CompleteInv' /\ LineInv'
        /\ Len(keys') > 0 /\ keys'[Len(keys')] = "^C"
    BY <1>1, <1>2, <2>1, <2>2, KeyKeeps
  <2>4. TypeInv'
    BY <1>2, <2>1, <2>2, <2>3 DEF IInv, TypeInv, TypedType
  <2>5. QuitsDeliberately'
    <3>1. Len(keys) > 0 /\ keys[Len(keys)] = "^C"
      BY <1>1, <1>2 DEF IInv, ArmedInv
    <3>2. /\ Len(keys) \in Nat /\ Len(keys) \in DOMAIN keys
          /\ Len(keys') - 1 = Len(keys) /\ keys'[Len(keys)] = keys[Len(keys)]
      BY <1>1, <3>1 DEF IInv, TypeInv, TypedType
    <3>3. open => \E i \in DOMAIN Path : Path[i] = Item(Len(keys), <<"stop">>)
      <4>1. ASSUME open PROVE \E i \in DOMAIN Path : Path[i] = Item(Len(keys), <<"stop">>)
        <5>1. OnWay(Len(keys))
          BY <1>1, <3>1, <3>2, <4>1 DEF IInv, CompleteInv, NextUp, ForServer
        <5>2. PICK i \in DOMAIN Path : Path[i].key = Len(keys)
          BY <5>1 DEF OnWay
        <5>3. Path[i].text = <<"stop">>
          BY <3>1, <3>2, <5>2 DEF IInv, PathInv, TextOf
        <5>4. Path[i] \in ItemType
          BY <5>2, PathType DEF IInv, TypeInv
        <5>5. Path[i] = Item(Len(keys), <<"stop">>)
          BY <5>2, <5>3, <5>4 DEF ItemType, Item
        <5> QED
          BY <5>5
      <4> QED
        BY <4>1
    <3>4. Path' = Path /\ open' = open
      BY <1>1 DEF queueVars, Path
    <3> QED
      BY <3>1, <3>2, <3>3, <3>4 DEF QuitsDeliberately
  <2> QED
    BY <1>1, <2>1, <2>3, <2>4, <2>5 DEF IInv, ClosedInv, ArmedInv, queueVars
<1>3. CASE /\ armed' = TRUE /\ console' = "sending" /\ line' = <<"stop">>
           /\ UNCHANGED worldVars
  <2>1. line' \in Seq(Word) /\ ForServer("^C") /\ line' = <<TextOf("^C")>>
    BY <1>3, KeyTypes DEF ForServer, TextOf
  <2>2. /\ keys' \in Seq(KeyType) /\ QueueType' /\ PathInv' /\ CompleteInv' /\ LineInv'
        /\ Len(keys') > 0 /\ keys'[Len(keys')] = "^C"
    BY <1>1, <1>3, <2>1, KeyKeeps DEF worldVars
  <2>3. TypeInv'
    BY <1>3, <2>1, <2>2 DEF IInv, TypeInv, WorldType, TypedType, worldVars
  <2> QED
    BY <1>1, <1>3, <2>2, <2>3 DEF IInv, ReapInv, NoOrphan, ClosedInv, ArmedInv,
                           QuitsDeliberately, Running, worldVars, loopVars, queueVars
<1> QED
  BY <1>2, <1>3 DEF CtrlC

LEMMA CtrlDKeeps == ASSUME IInv, CtrlD PROVE IInv'
<1>1. /\ Running /\ console = "reading" /\ keys' = Append(keys, "^D") /\ ForceQuit
      /\ UNCHANGED <<console, armed, line, queueVars, loopVars>> /\ "^D" \in KeyType
  BY KeyTypes DEF CtrlD, Press
<1>2. /\ WorldType' /\ ReapInv' /\ NoOrphan' /\ ~Running' /\ wrapper' = "forced"
      /\ UNCHANGED editor /\ (server = "gone" => server' = "gone")
  BY <1>1, ForceQuitKills DEF loopVars
<1>3. line' \in Seq(Word)
  BY <1>1 DEF IInv, TypeInv, TypedType
<1>4. /\ keys' \in Seq(KeyType) /\ QueueType' /\ PathInv' /\ CompleteInv' /\ LineInv'
      /\ keys'[Len(keys')] = "^D"
  BY <1>1, <1>2, <1>3, KeyKeeps
<1>5. TypeInv'
  BY <1>1, <1>2, <1>3, <1>4 DEF IInv, TypeInv, TypedType
<1> QED
  BY <1>1, <1>2, <1>4, <1>5 DEF IInv, ClosedInv, ArmedInv, QuitsDeliberately, queueVars

LEMMA ReadlineFailsKeeps == ASSUME IInv, ReadlineFails PROVE IInv'
<1>1. /\ Running /\ console = "reading" /\ keys' = Append(keys, "error") /\ console' = "left"
      /\ UNCHANGED <<worldVars, armed, line, queueVars, loopVars>> /\ "error" \in KeyType
  BY KeyTypes DEF ReadlineFails, Press
<1>2. line' \in Seq(Word) /\ ~ForServer("error")
  <2>1. "error" \notin Texts
    BY KeyTypes DEF Events
  <2> QED
    BY <1>1, <2>1 DEF IInv, TypeInv, TypedType, ForServer
<1>3. keys' \in Seq(KeyType) /\ QueueType' /\ PathInv' /\ CompleteInv' /\ LineInv'
  BY <1>1, <1>2, KeyKeeps DEF worldVars
<1>4. TypeInv'
  BY <1>1, <1>2, <1>3 DEF IInv, TypeInv, WorldType, TypedType, worldVars
<1> QED
  BY <1>1, <1>3, <1>4 DEF IInv, ReapInv, NoOrphan, ClosedInv, ArmedInv, QuitsDeliberately,
                         Running, worldVars, loopVars, queueVars

LEMMA InterruptKeeps == ASSUME IInv, Interrupt PROVE IInv'
<1>1. /\ Running /\ console # "reading" /\ keys' = Append(keys, "^C")
      /\ wrapper' = "interrupted" /\ server' = IF server = "up" THEN "gone" ELSE server
      /\ UNCHANGED <<editor, pid, console, armed, line, queueVars, loopVars>> /\ "^C" \in KeyType
      /\ ~Running'
  BY KeyTypes DEF Interrupt, Running
<1>2. line' \in Seq(Word)
  BY <1>1 DEF IInv, TypeInv, TypedType
<1>3. keys' \in Seq(KeyType) /\ QueueType' /\ PathInv' /\ CompleteInv' /\ LineInv'
  BY <1>1, <1>2, KeyKeeps
<1>4. TypeInv'
  BY <1>1, <1>2, <1>3 DEF IInv, TypeInv, WorldType, TypedType
<1> QED
  BY <1>1, <1>3, <1>4 DEF IInv, ReapInv, NoOrphan, ClosedInv, ArmedInv, QuitsDeliberately,
                         loopVars, queueVars

\* The steps that type nothing and send nothing: they pass commands on, or leave
\* the console and the queue alone.
LEMMA RestKeeps ==
  ASSUME IInv, UNCHANGED <<editor, keys, armed, open>>, Path' = Path, QueueType',
         wrapper' = wrapper \/ wrapper' = "returned",
         WorldType', ReapInv', NoOrphan', server = "gone" => server' = "gone",
         \/ UNCHANGED <<console, line>>
         \/ console # "sending" /\ console' = "left" /\ UNCHANGED line
         \/ console # "sending" /\ console # "left" /\ console' = "reading" /\ line' = <<>>
  PROVE  IInv'
<1>1. wrapper' = wrapper \/ ~Running'
  BY DEF Running
<1>2. Way' /\ line' \in Seq(Word)
  BY <1>1, WayKeeps
<1>3. TypeInv'
  BY <1>2 DEF IInv, TypeInv, TypedType
<1>4. QuitsDeliberately'
  BY DEF IInv, QuitsDeliberately
<1>5. ClosedInv' /\ ArmedInv'
  BY DEF IInv, ClosedInv, ArmedInv, Running
<1> QED
  BY <1>2, <1>3, <1>4, <1>5 DEF IInv, Way

LEMMA EndOfInputKeeps == ASSUME IInv, EndOfInput PROVE IInv'
<1>1. /\ UNCHANGED <<worldVars, keys, armed, line, queueVars, loopVars>>
      /\ console # "sending" /\ console' = "left"
  BY DEF EndOfInput
<1>2. Path' = Path /\ QueueType' /\ WorldType' /\ ReapInv' /\ NoOrphan'
  BY <1>1 DEF Path, QueueType, WorldType, ReapInv, NoOrphan, IInv, TypeInv, queueVars,
              worldVars, loopVars
<1> QED
  BY <1>1, <1>2, RestKeeps DEF queueVars, worldVars

LEMMA SendReloadKeeps == ASSUME IInv, SendReload PROVE IInv'
<1>1. /\ UNCHANGED <<worldVars, keys, armed, queueVars, loop>> /\ console = "controlling"
      /\ \/ console' = "left" /\ UNCHANGED line
         \/ console' = "reading" /\ line' = <<>>
  BY DEF SendReload
<1>2. Path' = Path /\ QueueType' /\ WorldType' /\ ReapInv' /\ NoOrphan'
  BY <1>1 DEF Path, QueueType, WorldType, ReapInv, NoOrphan, IInv, TypeInv, queueVars,
              worldVars
<1> QED
  BY <1>1, <1>2, RestKeeps DEF queueVars, worldVars

LEMMA SendTypedStep == ASSUME IInv, SendTyped PROVE IInv'
<1>1. /\ UNCHANGED <<worldVars, keys, armed, open, loopVars>> /\ Running
      /\ console = "sending" /\ console' \in {"left", "reading"}
  BY DEF SendTyped
<1>2. Way' /\ line' \in Seq(Word)
  BY SendTypedKeeps
<1>3. TypeInv'
  BY <1>1, <1>2 DEF IInv, TypeInv, WorldType, TypedType, Way, worldVars
<1> QED
  BY <1>1, <1>2, <1>3 DEF IInv, Way, ReapInv, NoOrphan, ClosedInv, ArmedInv, QuitsDeliberately,
                          Running, worldVars, loopVars

LEMMA PluginSendsStep == ASSUME IInv, PluginSends PROVE IInv'
<1>1. UNCHANGED <<worldVars, consoleVars, open, loopVars>> /\ Running
  BY DEF PluginSends
<1>2. Way'
  BY PluginKeeps
<1>3. TypeInv'
  BY <1>1, <1>2 DEF IInv, TypeInv, WorldType, TypedType, Way, worldVars, consoleVars
<1> QED
  BY <1>1, <1>2, <1>3 DEF IInv, Way, ReapInv, NoOrphan, ClosedInv, ArmedInv, QuitsDeliberately,
                          Running, worldVars, loopVars, consoleVars

LEMMA TakeKeeps == ASSUME IInv, Take PROVE IInv'
<1>1. UNCHANGED <<worldVars, consoleVars, open, loopVars>>
  BY DEF Take
<1>2. Path' = Path /\ QueueType'
  BY TakeMoves DEF IInv, TypeInv
<1>3. WorldType' /\ ReapInv' /\ NoOrphan'
  BY <1>1 DEF WorldType, ReapInv, NoOrphan, IInv, TypeInv, worldVars, loopVars
<1> QED
  BY <1>1, <1>2, <1>3, RestKeeps DEF consoleVars, worldVars

LEMMA WriteKeeps == ASSUME IInv, Write PROVE IInv'
<1>1. UNCHANGED <<worldVars, consoleVars, loopVars>> /\ Running
  BY DEF Write
<1>2. /\ QueueType'
      /\ \/ Path' = Path /\ UNCHANGED open
         \/ server = "gone" /\ open' = FALSE /\ Path' = received \o pipe
  BY WriteMoves DEF IInv, TypeInv
<1>3. WorldType' /\ ReapInv' /\ NoOrphan'
  BY <1>1 DEF WorldType, ReapInv, NoOrphan, IInv, TypeInv, worldVars, loopVars
<1>4. CASE Path' = Path /\ UNCHANGED open
  BY <1>1, <1>2, <1>3, <1>4, RestKeeps DEF consoleVars, worldVars
<1>5. CASE server = "gone" /\ open' = FALSE /\ Path' = received \o pipe
  <2>1. Way'
    BY <1>1, <1>2, <1>5, CutKeeps DEF consoleVars, worldVars
  <2>2. TypeInv' /\ ClosedInv' /\ ArmedInv' /\ QuitsDeliberately'
    BY <1>1, <1>2, <1>3, <1>5 DEF IInv, TypeInv, TypedType, ClosedInv, ArmedInv,
       QuitsDeliberately, Running, consoleVars, worldVars
  <2> QED
    BY <1>3, <2>1, <2>2 DEF IInv, Way
<1> QED
  BY <1>2, <1>4, <1>5

LEMMA ServerReadsKeeps == ASSUME IInv, ServerReads PROVE IInv'
<1>1. UNCHANGED <<worldVars, consoleVars, open, loopVars>>
  BY DEF ServerReads
<1>2. Path' = Path /\ QueueType'
  BY ServerReadsMoves DEF IInv, TypeInv
<1>3. WorldType' /\ ReapInv' /\ NoOrphan'
  BY <1>1 DEF WorldType, ReapInv, NoOrphan, IInv, TypeInv, worldVars, loopVars
<1> QED
  BY <1>1, <1>2, <1>3, RestKeeps DEF consoleVars, worldVars

\* The server, the kernel and the main loop.
LEMMA LoopKeeps ==
  ASSUME IInv, \/ ServerPrints \/ ServerWedges \/ ServerExits \/ ReusePid
               \/ PickLine \/ PickControl \/ Serve \/ Reap \/ Return
  PROVE  IInv'
<1>1. UNCHANGED <<editor, consoleVars, queueVars>>
  BY DEF ServerPrints, ServerWedges, ServerExits, ReusePid, PickLine, PickControl, Serve, Reap,
         Return, worldVars
<1>2. Path' = Path /\ QueueType'
  BY <1>1 DEF Path, QueueType, IInv, TypeInv, queueVars
<1>3. /\ WorldType' /\ ReapInv' /\ NoOrphan'
      /\ server = "gone" => server' = "gone"
      /\ wrapper' = wrapper \/ wrapper' = "returned"
  <2>1. WorldType /\ ReapInv /\ NoOrphan
    BY DEF IInv, TypeInv
  <2>2. CASE ServerPrints \/ PickLine \/ PickControl \/ Serve
    <3>1. UNCHANGED worldVars /\ (loop' = loop \/ loop' \in {"line", "ended", "reload", "none", "selecting"})
      BY <2>2 DEF ServerPrints, PickLine, PickControl, Serve
    <3> QED
      BY <2>1, <3>1 DEF WorldType, ReapInv, NoOrphan, worldVars
  <2>3. CASE ServerWedges \/ ServerExits
    BY <2>1, <2>3 DEF ServerWedges, ServerExits, WorldType, ReapInv, NoOrphan, Running, loopVars
  <2>4. CASE ReusePid \/ Reap \/ Return
    BY <2>1, <2>4 DEF ReusePid, Reap, Return, WorldType, ReapInv, NoOrphan, Running, loopVars
  <2> QED
    BY <2>2, <2>3, <2>4
<1> QED
  BY <1>1, <1>2, <1>3, RestKeeps DEF consoleVars, queueVars
-----------------------------------------------------------------------------
LEMMA InitInv == Init => IInv
<1> SUFFICES ASSUME Init PROVE IInv
  OBVIOUS
<1>1. <<>> \in Seq(KeyType) /\ <<>> \in Seq(Word) /\ <<>> \in Seq(ItemType)
  OBVIOUS
<1>2. TypeInv
  BY <1>1 DEF Init, TypeInv, WorldType, TypedType, QueueType
<1>3. Path = <<>> /\ DOMAIN Path = {} /\ DOMAIN keys = {}
  <2>1. Path = <<>>
    BY DEF Init, Path
  <2> QED
    BY <2>1 DEF Init
<1>4. PathInv /\ CompleteInv
  BY <1>3 DEF PathInv, CompleteInv
<1> QED
  BY <1>2, <1>4 DEF Init, IInv, ReapInv, NoOrphan, ClosedInv, LineInv, ArmedInv,
                    QuitsDeliberately

LEMMA NextInv == IInv /\ [Next]_vars => IInv'
<1> SUFFICES ASSUME IInv, [Next]_vars PROVE IInv'
  OBVIOUS
<1>1. CASE Operator
  BY <1>1, EnterKeeps, ReadTypedKeeps, CtrlCKeeps, CtrlDKeeps, ReadlineFailsKeeps,
     EndOfInputKeeps, InterruptKeeps DEF Operator
<1>2. CASE Forward
  BY <1>2, SendTypedStep, SendReloadKeeps, TakeKeeps, WriteKeeps DEF Forward
<1>3. CASE World
  BY <1>3, PluginSendsStep, ServerReadsKeeps, LoopKeeps DEF World
<1>4. CASE MainLoop
  BY <1>4, LoopKeeps DEF MainLoop
<1>5. CASE UNCHANGED vars
  <2>1. UNCHANGED <<worldVars, consoleVars, queueVars, loopVars>>
    BY <1>5 DEF vars
  <2>2. Path' = Path /\ QueueType' /\ WorldType' /\ ReapInv' /\ NoOrphan'
    BY <2>1 DEF Path, QueueType, WorldType, ReapInv, NoOrphan, IInv, TypeInv, queueVars,
                worldVars, loopVars
  <2> QED
    BY <2>1, <2>2, RestKeeps DEF consoleVars, queueVars, worldVars
<1> QED
  BY <1>1, <1>2, <1>3, <1>4, <1>5 DEF Next

THEOREM Invariant == Spec => []IInv
BY InitInv, NextInv, PTL DEF Spec

\* What the operator types reaches the server in order, each line once, and while
\* the server is there none is lost, however plugins compete for the queue.
THEOREM TypedOrderHolds == Spec => []TypedOrder
<1>1. IInv => TypedOrder
  BY DEF IInv, TypedOrder, PathInv, CompleteInv, ClosedInv
<1> QED
  BY Invariant, <1>1, PTL

\* Ctrl-C quits only right after another one, whose stop is on its way.
THEOREM QuitsDeliberatelyHolds == Spec => []QuitsDeliberately
<1>1. IInv => QuitsDeliberately
  BY DEF IInv
<1> QED
  BY Invariant, <1>1, PTL

\* A wrapper that has returned leaves no server behind, nor, on unix, one that has
\* quit.
THEOREM NoOrphanHolds == Spec => []NoOrphan
<1>1. IInv => NoOrphan
  BY DEF IInv
<1> QED
  BY Invariant, <1>1, PTL
-----------------------------------------------------------------------------
(* The terminal: what is printed. *)

Printing == {"idle", "locking", "printing", "handing", "plain"}

LineType == Threads \X Nat

TermType ==
  /\ at \in [Threads -> Printing] /\ lines \in [Threads -> Nat]
  /\ shown \in Seq(LineType) /\ slot \in Seq(LineType)

\* A thread that is printing has begun a line, and the console's does not print
\* while it reads, or sends what was entered.
BegunInv == \A t \in Threads : at[t] # "idle" => lines[t] # 0
QuietInv == prompt \in {"reading", "sending", "reloading"} => at["console"] = "idle"

\* NeverDropped, apart for what is shown and what readline has in its hands.
Apart ==
  /\ IsInjective(shown) /\ IsInjective(slot) /\ ToSet(shown) \cap ToSet(slot) = {}
  /\ \A t \in Threads, n \in Nat :
       <<t, n>> \in ToSet(shown) \cup ToSet(slot) <=> n \in Printed(t)

TermInv == TermType /\ BegunInv /\ QuietInv /\ Apart

\* The elements of a sequence that grows, and whether it repeats one.
LEMMA GrowFacts ==
  ASSUME NEW S, NEW s \in Seq(S), NEW x \in S
  PROVE  /\ Append(s, x) \in Seq(S) /\ ToSet(Append(s, x)) = ToSet(s) \cup {x}
         /\ IsInjective(s) /\ x \notin ToSet(s) => IsInjective(Append(s, x))
<1>1. PICK a : a = Append(s, x)
  OBVIOUS
<1>2. /\ a \in Seq(S) /\ DOMAIN a = 1..Len(s) + 1 /\ DOMAIN s = 1..Len(s) /\ Len(s) \in Nat
      /\ a[Len(s) + 1] = x /\ \A i \in DOMAIN s : a[i] = s[i]
  BY <1>1
<1>3. \A i \in DOMAIN a : i \in DOMAIN s \/ i = Len(s) + 1
  BY <1>2
<1>4. \A i \in DOMAIN s : i \in DOMAIN a /\ i # Len(s) + 1
  BY <1>2
<1>5. Len(s) + 1 \in DOMAIN a
  BY <1>2
<1>6. ToSet(a) = ToSet(s) \cup {x}
  BY <1>2, <1>3, <1>4, <1>5 DEF ToSet
<1>7. ASSUME IsInjective(s), x \notin ToSet(s) PROVE IsInjective(a)
  BY <1>2, <1>3, <1>7 DEF ToSet, IsInjective
<1> QED
  BY <1>1, <1>2, <1>6, <1>7

LEMMA JoinFacts ==
  ASSUME NEW S, NEW s \in Seq(S), NEW q \in Seq(S)
  PROVE  /\ s \o q \in Seq(S) /\ ToSet(s \o q) = ToSet(s) \cup ToSet(q)
         /\ IsInjective(s \o q) <=>
              IsInjective(s) /\ IsInjective(q) /\ ToSet(s) \cap ToSet(q) = {}
<1>1. PICK a, n, m : a = s \o q /\ n = Len(s) /\ m = Len(q)
  OBVIOUS
<1>2. /\ a \in Seq(S) /\ n \in Nat /\ m \in Nat
      /\ DOMAIN a = 1..n + m /\ DOMAIN s = 1..n /\ DOMAIN q = 1..m
      /\ \A i \in DOMAIN s : i \in DOMAIN a /\ a[i] = s[i]
      /\ \A i \in DOMAIN q : n + i \in DOMAIN a /\ a[n + i] = q[i]
  BY <1>1
<1>3. \A i \in DOMAIN a : i \in DOMAIN s \/ \E j \in DOMAIN q : i = n + j
  <2>1. \A i \in DOMAIN a : i \notin DOMAIN s => i - n \in DOMAIN q /\ i = n + (i - n)
    BY <1>2
  <2> QED
    BY <2>1
<1>4. ToSet(a) = ToSet(s) \cup ToSet(q)
  <2>1. \A i \in DOMAIN a : a[i] \in ToSet(s) \cup ToSet(q)
    BY <1>2, <1>3 DEF ToSet
  <2>2. (\A i \in DOMAIN s : s[i] \in ToSet(a)) /\ (\A i \in DOMAIN q : q[i] \in ToSet(a))
    BY <1>2 DEF ToSet
  <2> QED
    BY <2>1, <2>2 DEF ToSet
<1>5. \A i \in DOMAIN s, j \in DOMAIN q : i # n + j
  BY <1>2
<1>6. \A i, j \in DOMAIN q : n + i = n + j => i = j
  BY <1>2
<1>7. ASSUME IsInjective(a)
      PROVE  IsInjective(s) /\ IsInjective(q) /\ ToSet(s) \cap ToSet(q) = {}
  <2>1. IsInjective(s)
    BY <1>2, <1>7 DEF IsInjective
  <2>2. IsInjective(q)
    BY <1>2, <1>6, <1>7 DEF IsInjective
  <2>3. \A i \in DOMAIN s, j \in DOMAIN q : s[i] # q[j]
    BY <1>2, <1>5, <1>7 DEF IsInjective
  <2> QED
    BY <2>1, <2>2, <2>3 DEF ToSet
<1>8. ASSUME IsInjective(s), IsInjective(q), ToSet(s) \cap ToSet(q) = {}
      PROVE  IsInjective(a)
  <2>1. \A i \in DOMAIN s, j \in DOMAIN q : s[i] # q[j]
    BY <1>8 DEF ToSet
  <2> QED
    BY <1>2, <1>3, <1>8, <2>1 DEF IsInjective
<1> QED
  BY <1>1, <1>2, <1>4, <1>7, <1>8

\* The invariant says what NeverDropped does.
LEMMA ApartIsNeverDropped == TermType /\ Apart => NeverDropped
<1> SUFFICES ASSUME TermType, Apart PROVE NeverDropped
  OBVIOUS
<1>1. /\ shown \in Seq(LineType) /\ slot \in Seq(LineType)
      /\ \A t \in Threads : lines[t] \in Nat
  BY DEF TermType
<1>2. /\ ToSet(shown \o slot) = ToSet(shown) \cup ToSet(slot)
      /\ IsInjective(shown \o slot) <=>
           IsInjective(shown) /\ IsInjective(slot) /\ ToSet(shown) \cap ToSet(slot) = {}
  BY <1>1, JoinFacts
<1>3. ToSet(shown) \subseteq LineType /\ ToSet(slot) \subseteq LineType
  BY <1>1 DEF ToSet
<1>4. \A t \in Threads : Printed(t) \subseteq Nat
  BY <1>1 DEF Printed
<1>5. ToSet(shown) \cup ToSet(slot) = UNION {{t} \X Printed(t) : t \in Threads}
  <2>1. ASSUME NEW x \in ToSet(shown) \cup ToSet(slot)
        PROVE  \E t \in Threads : x \in {t} \X Printed(t)
    <3>1. PICK t \in Threads, n \in Nat : x = <<t, n>>
      BY <1>3 DEF LineType
    <3> QED
      BY <3>1 DEF Apart
  <2>2. ASSUME NEW t \in Threads, NEW x \in {t} \X Printed(t)
        PROVE  x \in ToSet(shown) \cup ToSet(slot)
    <3>1. PICK n \in Printed(t) : x = <<t, n>>
      OBVIOUS
    <3> QED
      BY <1>4, <3>1 DEF Apart
  <2> QED
    BY <2>1, <2>2
<1> QED
  BY <1>2, <1>5 DEF NeverDropped, Apart
-----------------------------------------------------------------------------
(* The terminal, step by step. *)

\* A line comes to the terminal or to readline, which has its hands free.
LEMMA LineAppears ==
  ASSUME TermInv, NEW t \in Threads, at[t] # "idle", at' = [at EXCEPT ![t] = "idle"],
         UNCHANGED <<lines, prompt>>,
         \/ shown' = Append(shown, Line(t)) /\ UNCHANGED slot
         \/ slot = <<>> /\ slot' = <<Line(t)>> /\ UNCHANGED shown
  PROVE  TermInv'
<1>1. PICK x, n : x = Line(t) /\ n = lines[t]
  OBVIOUS
<1>2. /\ n \in Nat /\ n # 0 /\ x = <<t, n>> /\ x \in LineType
      /\ shown \in Seq(LineType) /\ slot \in Seq(LineType)
  BY <1>1 DEF TermInv, TermType, BegunInv, Line, LineType
<1>3. /\ at' \in [Threads -> Printing] /\ at'[t] = "idle"
      /\ \A u \in Threads : u # t => at'[u] = at[u]
  BY DEF TermInv, TermType, Printing
<1>4. /\ Printed(t) = 1..n - 1 /\ Printed(t)' = 1..n
      /\ \A u \in Threads : u # t => Printed(u)' = Printed(u)
  BY <1>1, <1>3 DEF Printed
<1>5. x \notin ToSet(shown) \cup ToSet(slot)
  BY <1>2, <1>4 DEF TermInv, Apart
<1>6. /\ shown' \in Seq(LineType) /\ slot' \in Seq(LineType)
      /\ IsInjective(shown') /\ IsInjective(slot') /\ ToSet(shown') \cap ToSet(slot') = {}
      /\ ToSet(shown') \cup ToSet(slot') = ToSet(shown) \cup ToSet(slot) \cup {x}
  <2>1. IsInjective(shown) /\ IsInjective(slot) /\ ToSet(shown) \cap ToSet(slot) = {}
    BY DEF TermInv, Apart
  <2>2. CASE shown' = Append(shown, x) /\ slot' = slot
    <3>1. /\ Append(shown, x) \in Seq(LineType) /\ IsInjective(Append(shown, x))
          /\ ToSet(Append(shown, x)) = ToSet(shown) \cup {x}
      BY <1>2, <1>5, <2>1, GrowFacts
    <3> QED
      BY <1>2, <1>5, <2>1, <2>2, <3>1
  <2>3. CASE slot = <<>> /\ slot' = <<x>> /\ shown' = shown
    <3>1. DOMAIN <<x>> = {1} /\ <<x>>[1] = x /\ <<x>> \in Seq(LineType)
      BY <1>2
    <3>2. /\ IsInjective(<<x>>) /\ ToSet(<<x>>) = {x} /\ ToSet(slot) = {}
      BY <2>3, <3>1 DEF ToSet, IsInjective
    <3> QED
      BY <1>2, <1>5, <2>1, <2>3, <3>1, <3>2
  <2> QED
    BY <1>1, <2>2, <2>3
<1>7. Apart'
  <2>1. ASSUME NEW u \in Threads, NEW m \in Nat
        PROVE  <<u, m>> \in ToSet(shown') \cup ToSet(slot') <=> m \in Printed(u)'
    <3>1. <<u, m>> \in ToSet(shown) \cup ToSet(slot) <=> m \in Printed(u)
      BY DEF TermInv, Apart
    <3>2. CASE u # t
      BY <1>2, <1>4, <1>6, <3>1, <3>2
    <3>3. CASE u = t
      <4>1. m \in Printed(t)' <=> m \in Printed(t) \/ m = n
        BY <1>2, <1>4
      <4> QED
        BY <1>2, <1>6, <3>1, <3>3, <4>1
    <3> QED
      BY <3>2, <3>3
  <2> QED
    BY <1>6, <2>1 DEF Apart, ToSet, IsInjective
<1>8. TermType' /\ BegunInv' /\ QuietInv'
  <2>1. \A u \in Threads : at'[u] # "idle" => at[u] # "idle"
    BY <1>3
  <2>2. "console" \in Threads
    BY DEF Threads
  <2> QED
    BY <1>3, <1>6, <2>1, <2>2 DEF TermInv, TermType, BegunInv, QuietInv
<1> QED
  BY <1>7, <1>8 DEF TermInv

\* Another step of print_line, and what does not print: the same lines are printed.
LEMMA NothingAppears ==
  ASSUME TermInv, TermType', BegunInv', QuietInv', UNCHANGED <<shown, slot>>,
         \A t \in Threads : Printed(t)' = Printed(t)
  PROVE  TermInv'
BY DEF TermInv, Apart, ToSet, IsInjective

\* A line is begun.
LEMMA BeginKeeps ==
  ASSUME TermInv, NEW t \in Threads, at[t] = "idle", Begin(t), UNCHANGED <<shown, slot>>,
         prompt' \notin {"reading", "sending", "reloading"} \/ (UNCHANGED prompt /\ t # "console")
  PROVE  TermInv'
<1>1. PICK a : a \in {"locking", "plain"} /\ at' = [at EXCEPT ![t] = a]
  BY DEF Begin
<1>2. /\ at' \in [Threads -> Printing] /\ at'[t] = a
      /\ lines' \in [Threads -> Nat] /\ lines'[t] = lines[t] + 1 /\ lines[t] \in Nat
      /\ \A u \in Threads : u # t => at'[u] = at[u] /\ lines'[u] = lines[u]
  BY <1>1 DEF TermInv, TermType, Printing, Begin
<1>3. Printed(t)' = Printed(t)
  BY <1>1, <1>2 DEF Printed
<1>4. ASSUME NEW u \in Threads, u # t PROVE Printed(u)' = Printed(u)
  BY <1>2, <1>4 DEF Printed
<1>5. TermType' /\ BegunInv' /\ QuietInv'
  <2>1. "console" \in Threads
    BY DEF Threads
  <2>2. TermType'
    BY <1>2 DEF TermInv, TermType
  <2>3. BegunInv'
    <3>1. lines'[t] # 0
      BY <1>2
    <3> QED
      BY <1>2, <3>1 DEF TermInv, BegunInv
  <2>4. QuietInv'
    BY <1>2, <2>1 DEF TermInv, QuietInv
  <2> QED
    BY <2>2, <2>3, <2>4
<1> QED
  BY <1>3, <1>4, <1>5, NothingAppears

\* print_line goes on, without an end.
LEMMA MoveKeeps ==
  ASSUME TermInv, NEW t \in Threads, at[t] # "idle", NEW a \in Printing \ {"idle"},
         at' = [at EXCEPT ![t] = a], UNCHANGED <<lines, shown, slot, prompt>>
  PROVE  TermInv'
<1>1. /\ at' \in [Threads -> Printing] /\ at'[t] = a
      /\ \A u \in Threads : u # t => at'[u] = at[u]
  BY DEF TermInv, TermType, Printing
<1>2. \A u \in Threads : Printed(u)' = Printed(u)
  BY <1>1 DEF Printed
<1>3. TermType' /\ BegunInv' /\ QuietInv'
  <2>1. "console" \in Threads /\ \A u \in Threads : at'[u] # "idle" <=> at[u] # "idle"
    BY <1>1 DEF Threads
  <2> QED
    BY <1>1, <2>1 DEF TermInv, TermType, BegunInv, QuietInv
<1> QED
  BY <1>2, <1>3, NothingAppears

\* Nobody prints.
LEMMA StillKeeps ==
  ASSUME TermInv, UNCHANGED <<at, lines, shown, slot>>,
         UNCHANGED prompt \/ at["console"] = "idle"
  PROVE  TermInv'
<1>1. \A u \in Threads : Printed(u)' = Printed(u)
  BY DEF Printed
<1>2. TermType' /\ BegunInv' /\ QuietInv'
  BY DEF TermInv, TermType, BegunInv, QuietInv
<1> QED
  BY <1>1, <1>2, NothingAppears

\* What readline has in its hands is shown.
LEMMA ShowKeeps == ASSUME TermInv, Show PROVE TermInv'
<1>1. /\ UNCHANGED <<at, lines, prompt>> /\ shown' = shown \o slot /\ slot' = <<>>
      /\ shown \in Seq(LineType) /\ slot \in Seq(LineType)
  BY DEF Show, TermInv, TermType, promptVars
<1>2. /\ shown' \in Seq(LineType) /\ ToSet(shown') = ToSet(shown) \cup ToSet(slot)
      /\ IsInjective(shown')
  BY <1>1, JoinFacts DEF TermInv, Apart
<1>3. slot' \in Seq(LineType) /\ ToSet(slot') = {} /\ IsInjective(slot')
  BY <1>1 DEF ToSet, IsInjective
<1>4. \A t \in Threads : Printed(t)' = Printed(t)
  BY <1>1 DEF Printed
<1>5. Apart'
  <2>1. \A t \in Threads, n \in Nat :
          <<t, n>> \in ToSet(shown') \cup ToSet(slot') <=> n \in Printed(t)'
    BY <1>2, <1>3, <1>4 DEF TermInv, Apart
  <2> QED
    BY <1>2, <1>3, <2>1 DEF Apart, ToSet, IsInjective
<1> QED
  BY <1>1, <1>2, <1>3, <1>5 DEF TermInv, TermType, BegunInv, QuietInv
-----------------------------------------------------------------------------
\* A step of print_line, or its failure.
LEMMA PrintKeeps ==
  ASSUME TermInv, NEW t \in Threads, PrintLine(t) \/ PrinterFails(t)
  PROVE  TermInv'
<1>1. CASE Lock(t)
  BY <1>1, MoveKeeps DEF Lock, Printing, promptVars
<1>2. CASE WriteOrHand(t)
  BY <1>2, MoveKeeps, LineAppears DEF WriteOrHand, Leave, Printing, promptVars
<1>3. CASE HandOver(t)
  BY <1>3, LineAppears DEF HandOver, Leave, promptVars
<1>4. CASE Plain(t)
  BY <1>4, LineAppears DEF Plain, promptVars
<1>5. CASE PrinterFails(t)
  BY <1>5, MoveKeeps DEF PrinterFails, FallThrough, Leave, Printing, promptVars
<1> QED
  BY <1>1, <1>2, <1>3, <1>4, <1>5 DEF PrintLine

\* A key ends readline, and the console may have something to say.
LEMMA TermKeyKeeps == ASSUME TermInv, NEW k \in Keys, Key(k) PROVE TermInv'
<1>1. prompt = "reading" /\ UNCHANGED <<shown, slot>>
  BY DEF Key
<1>2. at["console"] = "idle" /\ "console" \in Threads
  BY <1>1 DEF TermInv, QuietInv, Threads
<1>3. \/ UNCHANGED <<at, lines>>
      \/ Begin("console") /\ prompt' \in {"quitting", "leaving"}
  BY DEF Key, Silent
<1> QED
  BY <1>1, <1>2, <1>3, StillKeeps, BeginKeeps

\* So does a send, whose stop is announced, and what has been said.
LEMMA PromptingKeeps == ASSUME TermInv, Prompting PROVE TermInv'
<1>1. UNCHANGED <<shown, slot>> /\ "console" \in Threads
  BY DEF Prompting, Readline, SendEntered, SendToLoop, Said, printVars, Threads
<1>2. at["console"] = "idle"
  BY DEF Prompting, Readline, SendEntered, SendToLoop, Said, TermInv, QuietInv
<1>3. \/ UNCHANGED <<at, lines>>
      \/ Begin("console") /\ prompt' \in {"stopping", "killing"}
  BY DEF Prompting, Readline, SendEntered, SendToLoop, Said, Sent, Silent, printVars
<1> QED
  BY <1>1, <1>2, <1>3, StillKeeps, BeginKeeps

\* The sender has one line to print; the rest happens without a word.
LEMMA SendingKeeps == ASSUME TermInv, Sending PROVE TermInv'
<1>1. CASE WriteError
  <2>1. "sender" \in Threads /\ at["sender"] = "idle" /\ Begin("sender")
        /\ UNCHANGED <<shown, slot, prompt>>
    BY <1>1 DEF WriteError, Threads, promptVars
  <2> QED
    BY <2>1, BeginKeeps
<1>2. CASE OthersSend \/ SenderTakes \/ SenderEnds
  BY <1>2, StillKeeps DEF OthersSend, SenderTakes, SenderEnds, DropReceiver,
                          printVars, promptVars
<1> QED
  BY <1>1, <1>2 DEF Sending

LEMMA OthersKeep == ASSUME TermInv, Others \/ UNCHANGED termVars PROVE TermInv'
<1>1. CASE Install
  <2>1. UNCHANGED <<at, lines, shown, slot>> /\ prompt' = "ready"
    BY <1>1 DEF Install
  <2>2. \A t \in Threads : Printed(t)' = Printed(t)
    BY <2>1 DEF Printed
  <2>3. TermType' /\ BegunInv' /\ QuietInv'
    BY <2>1 DEF TermInv, TermType, BegunInv, QuietInv
  <2> QED
    BY <2>1, <2>2, <2>3, NothingAppears
<1>2. CASE ServerChanges \/ TakeReload \/ LoopIsOver \/ Exit \/ UNCHANGED termVars
  BY <1>2, StillKeeps DEF ServerChanges, TakeReload, LoopIsOver, Exit, termVars,
                          printVars, promptVars
<1> QED
  BY <1>1, <1>2 DEF Others

LEMMA TermNextInv == TermInv /\ [TermNext]_termVars => TermInv'
<1> SUFFICES ASSUME TermInv, [TermNext]_termVars PROVE TermInv'
  OBVIOUS
<1>1. ASSUME NEW t \in Tasks, Say(t) PROVE TermInv'
  <2>1. t \in Threads /\ t # "console"
    BY TerminalAssumption DEF Threads
  <2> QED
    BY <1>1, <2>1, BeginKeeps DEF Say, promptVars
<1>2. CASE \E t \in Threads : PrintLine(t) \/ PrinterFails(t)
  BY <1>2, PrintKeeps
<1>3. CASE \E k \in Keys : Key(k)
  BY <1>3, TermKeyKeeps
<1>4. CASE Show
  BY <1>4, ShowKeeps
<1>5. CASE Prompting \/ Sending \/ Others \/ UNCHANGED termVars
  BY <1>5, PromptingKeeps, SendingKeeps, OthersKeep
<1> QED
  BY <1>1, <1>2, <1>3, <1>4, <1>5 DEF TermNext

LEMMA TermInitInv == TermInit => TermInv
<1> SUFFICES ASSUME TermInit PROVE TermInv
  OBVIOUS
<1>1. /\ at = [t \in Threads |-> "idle"] /\ lines = [t \in Threads |-> 0]
      /\ shown = <<>> /\ slot = <<>> /\ prompt = "none"
  BY DEF TermInit
<1>2. TermType /\ BegunInv /\ QuietInv
  <2>1. <<>> \in Seq(LineType)
    OBVIOUS
  <2> QED
    BY <1>1, <2>1 DEF TermType, BegunInv, QuietInv, Printing
<1>3. ToSet(shown) = {} /\ ToSet(slot) = {} /\ IsInjective(shown) /\ IsInjective(slot)
  BY <1>1 DEF ToSet, IsInjective
<1>4. \A t \in Threads : Printed(t) = {}
  BY <1>1 DEF Printed
<1> QED
  BY <1>2, <1>3, <1>4 DEF TermInv, Apart

\* Each line whose print_line has returned is on the terminal or in readline's
\* hands, exactly once, and no other is.
THEOREM NeverDroppedHolds == TermSpec => []NeverDropped
<1>1. TermInv => NeverDropped
  BY ApartIsNeverDropped DEF TermInv
<1> QED
  BY TermInitInv, TermNextInv, <1>1, PTL DEF TermSpec
=============================================================================
