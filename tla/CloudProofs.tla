---------------------------- MODULE CloudProofs -----------------------------
(***************************************************************************)
(* Theorems about the two ways in which the cloud and the backend work     *)
(* together: CloudLink, which carries the messages, for any set of         *)
(* commands, any size of the queue and any number of events, failed        *)
(* attempts, lost sessions and restarts; and, in the second half,          *)
(* CallCommands, the commands about calls and doors, for any set of calls, *)
(* phones and devices and any number of mishaps.  The two modules share no *)
(* variable and no constant, and no proof about one uses the other.        *)
(***************************************************************************)
EXTENDS CloudLink, CallCommands, SequenceTheorems, TLAPS

(* Inductive invariants.  Messages are kept in the order of their numbers. *)
Sorted(s) == \A i, j \in 1..Len(s) : i < j => s[i].id < s[j].id

IdsInv ==
  /\ Sorted(History)
  /\ \A m \in Elements(History) : m.id \in 1..created

(* Commands that were sent to this session and not yet answered.           *)
Waiting == Elements(inbox) \cup ({running} \cap Commands)

CommandInv ==
  /\ \A i, j \in 1..Len(inbox) : i < j => inbox[i] < inbox[j]
  /\ running \in Commands => \A c \in Elements(inbox) : running < c
  /\ \A c \in Waiting : c <= issued

(* A later reply is to a later command, and nothing that waits for a reply *)
(* was sent before a command that has one.                                 *)
ReplyInv ==
  /\ \A m, n \in Elements(History) :
       IsReply(m) /\ IsReply(n) /\ m.id < n.id => m.cmd < n.cmd
  /\ \A m \in Elements(History) : IsReply(m) =>
       /\ m.cmd \in Commands
       /\ m.cmd <= issued
       /\ \A c \in Waiting : m.cmd < c

(* A ring that became too old in the queue is still there or is gone.      *)
DoomedInv ==
  /\ \A i \in doomed : i <= expired
  /\ \A m \in Elements(received) \cup Elements(wire) \cup Elements(sender) : m.id \notin doomed
  /\ \A m \in Elements(queue) : m.id \in doomed => m.kind = "ring"

(* The commands that wait are newer than the stored token, which is the    *)
(* token in use unless the start could not read it.                        *)
StoredInv ==
  /\ stored \in Commands => stored <= issued
  /\ \A c \in Elements(inbox) : stored < c
  /\ running \in Commands => stored <= running

TokenInv ==
  /\ StoredInv
  /\ token = IF unread THEN NoCommand ELSE stored

-----------------------------------------------------------------------------
(* Sequences of messages: their elements and their order.                  *)

(* Concatenation as an operator of which the provers see no more than is   *)
(* cited.                                                                  *)
Cat(s, t) == s \o t

LEMMA CatIn ==
  ASSUME NEW S, NEW s \in Seq(S), NEW t \in Seq(S)
  PROVE  Cat(s, t) \in Seq(S)
  BY ConcatProperties DEF Cat

LEMMA CatAssociative ==
  ASSUME NEW S, NEW s \in Seq(S), NEW t \in Seq(S), NEW u \in Seq(S)
  PROVE  Cat(Cat(s, t), u) = Cat(s, Cat(t, u))
  BY ConcatAssociative DEF Cat

LEMMA ElementsOfConcat ==
  ASSUME NEW S, NEW s \in Seq(S), NEW t \in Seq(S)
  PROVE  /\ s \o t \in Seq(S)
         /\ Elements(s \o t) = Elements(s) \cup Elements(t)
  <1>1. /\ s \o t \in Seq(S)
        /\ Len(s \o t) = Len(s) + Len(t)
        /\ \A i \in 1..Len(s) : (s \o t)[i] = s[i]
        /\ \A i \in 1..Len(t) : (s \o t)[Len(s) + i] = t[i]
        /\ \A i \in 1 .. Len(s) + Len(t) :
             i \in 1..Len(s) \/ (i - Len(s) \in 1..Len(t) /\ i = Len(s) + (i - Len(s)))
    BY ConcatProperties, LenProperties
  <1>2. Elements(s) \cup Elements(t) \subseteq Elements(s \o t)
    <2>1. /\ DOMAIN s = 1..Len(s) /\ DOMAIN t = 1..Len(t)
          /\ DOMAIN (s \o t) = 1 .. Len(s) + Len(t)
          /\ Len(s) \in Nat /\ Len(t) \in Nat
      BY <1>1, LenProperties
    <2>2. \A i \in 1..Len(s) : s[i] \in Elements(s \o t)
      BY <1>1, <2>1 DEF Elements
    <2>3. \A i \in 1..Len(t) : t[i] \in Elements(s \o t)
      <3> TAKE i \in 1..Len(t)
      <3>1. Len(s) + i \in DOMAIN (s \o t)
        BY <2>1
      <3>2. QED
        BY <1>1, <3>1 DEF Elements
    <2>4. QED
      BY <2>1, <2>2, <2>3 DEF Elements
  <1>3. Elements(s \o t) \subseteq Elements(s) \cup Elements(t)
    <2> SUFFICES ASSUME NEW i \in 1 .. Len(s) + Len(t)
                 PROVE  (s \o t)[i] \in Elements(s) \cup Elements(t)
      BY <1>1, LenProperties DEF Elements
    <2>1. CASE i \in 1..Len(s)
      BY <1>1, <2>1 DEF Elements
    <2>2. CASE i - Len(s) \in 1..Len(t)
      BY <1>1, <2>2 DEF Elements
    <2>3. QED
      BY <1>1, <2>1, <2>2
  <1>4. QED
    BY <1>1, <1>2, <1>3

LEMMA ElementsOfCat ==
  ASSUME NEW S, NEW s \in Seq(S), NEW t \in Seq(S)
  PROVE  Elements(Cat(s, t)) = Elements(s) \cup Elements(t)
  BY ElementsOfConcat DEF Cat

LEMMA ElementsOfAppend ==
  ASSUME NEW S, NEW s \in Seq(S), NEW e \in S
  PROVE  /\ Append(s, e) \in Seq(S)
         /\ Elements(Append(s, e)) = Elements(s) \cup {e}
  <1> DEFINE u == <<e>>
  <1>1. Append(s, e) = s \o u /\ u \in Seq(S) /\ Elements(u) = {e}
    BY AppendIsConcat DEF Elements
  <1> HIDE DEF u
  <1>2. Elements(s \o u) = Elements(s) \cup Elements(u)
    BY <1>1, ElementsOfConcat
  <1>3. QED
    BY <1>1, <1>2, AppendProperties

LEMMA HeadAndTail ==
  ASSUME NEW S, NEW s \in Seq(S), s # <<>>
  PROVE  /\ Head(s) \in S
         /\ Tail(s) \in Seq(S)
         /\ s = <<Head(s)>> \o Tail(s)
         /\ Elements(s) = {Head(s)} \cup Elements(Tail(s))
  <1>1. Head(s) \in S /\ Tail(s) \in Seq(S) /\ <<Head(s)>> \in Seq(S)
    BY HeadTailProperties
  <1>2. s = <<Head(s)>> \o Tail(s)
    <2> DEFINE u == <<Head(s)>> \o Tail(s)
    <2>1. /\ u \in Seq(S)
          /\ Len(u) = Len(s)
          /\ \A i \in 1..Len(s) : u[i] = IF i <= 1 THEN Head(s) ELSE Tail(s)[i - 1]
      BY <1>1, ConcatProperties, HeadTailProperties, LenProperties
    <2>2. \A i \in 1..Len(s) : u[i] = s[i]
      BY <2>1, HeadTailProperties, LenProperties
    <2>3. QED
      BY <2>1, <2>2, SeqEqual
  <1> DEFINE h == <<Head(s)>>
  <1>3. h \in Seq(S) /\ s = h \o Tail(s) /\ Elements(h) = {Head(s)}
    BY <1>1, <1>2 DEF Elements
  <1> HIDE DEF h
  <1>4. Elements(h \o Tail(s)) = Elements(h) \cup Elements(Tail(s))
    <2>1. h \in Seq(S) /\ Tail(s) \in Seq(S)
      BY <1>1, <1>3
    <2>2. Elements(Cat(h, Tail(s))) = Elements(h) \cup Elements(Tail(s))
      BY <2>1, ElementsOfCat
    <2>3. QED
      BY <2>2, Zenon DEF Cat
  <1>5. QED
    BY <1>1, <1>2, <1>3, <1>4

(* Messages at the front of a sorted sequence are older than those at its  *)
(* end, and both parts are sorted.                                         *)
LEMMA SortedConcat ==
  ASSUME NEW s \in Seq(Message), NEW t \in Seq(Message)
  PROVE  Sorted(s \o t) <=>
           /\ Sorted(s)
           /\ Sorted(t)
           /\ \A m \in Elements(s), n \in Elements(t) : m.id < n.id
  <1>1. /\ Len(s \o t) = Len(s) + Len(t)
        /\ \A i \in 1..Len(s) : (s \o t)[i] = s[i]
        /\ \A i \in 1..Len(t) : (s \o t)[Len(s) + i] = t[i]
        /\ \A i \in 1..Len(t) : Len(s) + i \in 1 .. Len(s) + Len(t)
        /\ Len(s) \in Nat /\ Len(t) \in Nat
    BY ConcatProperties, LenProperties
  <1>2. ASSUME Sorted(s \o t)
        PROVE  /\ Sorted(s)
               /\ Sorted(t)
               /\ \A m \in Elements(s), n \in Elements(t) : m.id < n.id
    <2>1. Sorted(s)
      BY <1>1, <1>2 DEF Sorted
    <2>2. Sorted(t)
      <3> SUFFICES ASSUME NEW i \in 1..Len(t), NEW j \in 1..Len(t), i < j
                   PROVE  t[i].id < t[j].id
        BY DEF Sorted
      <3>1. /\ (s \o t)[Len(s) + i] = t[i] /\ (s \o t)[Len(s) + j] = t[j]
            /\ Len(s) + i < Len(s) + j
        BY <1>1
      <3>2. QED
        BY <1>1, <1>2, <3>1 DEF Sorted
    <2>3. ASSUME NEW i \in 1..Len(s), NEW j \in 1..Len(t)
          PROVE  s[i].id < t[j].id
      <3>1. /\ (s \o t)[i] = s[i] /\ (s \o t)[Len(s) + j] = t[j]
            /\ i < Len(s) + j /\ i \in 1 .. Len(s) + Len(t)
        BY <1>1
      <3>2. QED
        BY <1>1, <1>2, <3>1 DEF Sorted
    <2>4. QED
      BY <2>1, <2>2, <2>3, LenProperties DEF Elements
  <1>3. ASSUME Sorted(s), Sorted(t),
               \A m \in Elements(s), n \in Elements(t) : m.id < n.id
        PROVE  Sorted(s \o t)
    <2> SUFFICES ASSUME NEW i \in 1 .. Len(s) + Len(t), NEW j \in 1 .. Len(s) + Len(t), i < j
                 PROVE  (s \o t)[i].id < (s \o t)[j].id
      BY <1>1 DEF Sorted
    <2>1. CASE j <= Len(s)
      BY <1>1, <1>3, <2>1 DEF Sorted
    <2>2. CASE i > Len(s)
      <3>1. /\ i - Len(s) \in 1..Len(t) /\ j - Len(s) \in 1..Len(t)
            /\ i - Len(s) < j - Len(s)
        BY <1>1, <2>2
      <3>2. t[i - Len(s)].id < t[j - Len(s)].id
        BY <1>3, <3>1 DEF Sorted
      <3>3. (s \o t)[i] = t[i - Len(s)] /\ (s \o t)[j] = t[j - Len(s)]
        BY ConcatProperties, <1>1, <2>2
      <3>4. QED
        BY <3>2, <3>3
    <2>3. CASE i <= Len(s) /\ j > Len(s)
      <3>1. /\ (s \o t)[i] = s[i] /\ (s \o t)[j] = t[j - Len(s)]
            /\ i \in 1..Len(s) /\ j - Len(s) \in 1..Len(t)
        BY ConcatProperties, <1>1, <2>3
      <3>2. s[i] \in Elements(s) /\ t[j - Len(s)] \in Elements(t)
        BY <3>1, LenProperties DEF Elements
      <3>3. QED
        BY <1>3, <3>1, <3>2
    <2>4. QED
      BY <1>1, <2>1, <2>2, <2>3
  <1>4. QED
    BY <1>2, <1>3

LEMMA ConcatAppend ==
  ASSUME NEW S, NEW s \in Seq(S), NEW t \in Seq(S), NEW e \in S
  PROVE  s \o Append(t, e) = Append(s \o t, e)
  <1> DEFINE u == <<e>>
  <1>1. u \in Seq(S) /\ s \o t \in Seq(S) /\ Append(t, e) = t \o u
    BY AppendIsConcat, ConcatProperties
  <1>2. Append(s \o t, e) = (s \o t) \o u
    BY <1>1, AppendIsConcat
  <1> HIDE DEF u
  <1>3. (s \o t) \o u = s \o (t \o u)
    BY <1>1, ConcatAssociative
  <1>4. QED
    BY <1>1, <1>2, <1>3

LEMMA ElementsInSet ==
  ASSUME NEW S, NEW s \in Seq(S)
  PROVE  Elements(s) \subseteq S
  BY LenProperties, ElementOfSeq DEF Elements

-----------------------------------------------------------------------------
(* Types.                                                                  *)

LEMMA Parts ==
  ASSUME TypeOK
  PROVE  /\ wire \o sender \in Seq(Message)
         /\ Elements(wire \o sender) = Elements(wire) \cup Elements(sender)
         /\ Outgoing \in Seq(Message)
         /\ Elements(Outgoing) = Elements(wire) \cup Elements(sender) \cup Elements(queue)
         /\ History \in Seq(Message)
         /\ Elements(History) = Elements(received) \cup Elements(Outgoing)
  <1>1. /\ wire \o sender \in Seq(Message)
        /\ Elements(wire \o sender) = Elements(wire) \cup Elements(sender)
    BY ElementsOfConcat DEF TypeOK
  <1>2. /\ Outgoing \in Seq(Message)
        /\ Elements(Outgoing) = Elements(wire) \cup Elements(sender) \cup Elements(queue)
    <2> DEFINE u == wire \o sender
    <2>1. Outgoing = u \o queue
      BY DEF Outgoing
    <2>2. u \in Seq(Message) /\ queue \in Seq(Message)
      BY <1>1 DEF TypeOK
    <2>3. Elements(u) = Elements(wire) \cup Elements(sender)
      BY <1>1
    <2> HIDE DEF u
    <2>4. QED
      BY <2>1, <2>2, <2>3, ElementsOfConcat
  <1>3. /\ History \in Seq(Message)
        /\ Elements(History) = Elements(received) \cup Elements(Outgoing)
    BY <1>2, ElementsOfConcat DEF TypeOK, History
  <1>4. QED
    BY <1>1, <1>2, <1>3

Enqueued == \E kind \in Kinds, cmd \in Commands \cup {NoCommand} : Enqueue(kind, cmd)

LEMMA EnqueueType ==
  ASSUME TypeOK, Enqueued
  PROVE  /\ created' \in Nat /\ created <= created'
         /\ queue' \in Seq(Message) /\ Len(queue') <= QueueSize
         /\ sender' = sender /\ lost' = lost
  <1>1. PICK kind \in Kinds, cmd \in Commands \cup {NoCommand} : Enqueue(kind, cmd)
    BY DEF Enqueued
  <1> DEFINE m == [id |-> created + 1, kind |-> kind, cmd |-> cmd]
  <1>2. m \in Message
    BY DEF Message, TypeOK
  <1>3. /\ created' = created + 1
        /\ queue' = IF Len(queue) < QueueSize THEN Append(queue, m) ELSE queue
        /\ sender' = sender /\ lost' = lost
    BY <1>1 DEF Enqueue
  <1> HIDE DEF m
  <1>4. queue' \in Seq(Message) /\ Len(queue') <= QueueSize
    BY <1>2, <1>3, AppendProperties, LenProperties, CloudLinkAssumption DEF TypeOK
  <1>5. QED
    BY <1>3, <1>4 DEF TypeOK

LEMMA BackoffType ==
  ASSUME backoff \in 1..MaxBackoff, AfterReturn \/ AfterException
  PROVE  backoff' \in 1..MaxBackoff
  BY CloudLinkAssumption DEF AfterReturn, AfterException, Doubled

LEMMA TypeStep ==
  ASSUME TypeOK, IdsInv, [Next]_vars
  PROVE  TypeOK'
  <1> USE DEF linkVars, queueVars, wireVars, commandVars, agedVars, tokenVars
  <1>1. CASE Dial \/ HandshakeOk \/ UNCHANGED vars
    BY <1>1 DEF TypeOK, Dial, HandshakeOk, vars
  <1>2. CASE DialFails \/ HandshakeRefused
    <2>1. backoff' \in 1..MaxBackoff
      BY <1>2, BackoffType DEF TypeOK, DialFails, HandshakeRefused
    <2>2. /\ session' = "wait" /\ troubles' = troubles + 1
          /\ UNCHANGED <<queueVars, wireVars, raised, agedVars, commandVars, tokenVars>>
      BY <1>2, Zenon DEF DialFails, HandshakeRefused
    <2>3. QED
      BY <2>1, <2>2 DEF TypeOK
  <1>3. CASE SendSnapshot \/ SendActiveCall
    <2>1. Enqueued \/ UNCHANGED queueVars
      BY <1>3 DEF SendSnapshot, SendActiveCall, Enqueued, Kinds
    <2>2. /\ created' \in Nat /\ created <= created'
          /\ queue' \in Seq(Message) /\ Len(queue') <= QueueSize
          /\ sender' = sender /\ lost' = lost
      BY <2>1, EnqueueType DEF TypeOK
    <2>3. /\ session' \in {"callstate", "up"}
          /\ UNCHANGED <<backoff, troubles, wireVars, raised, agedVars, commandVars, tokenVars>>
      BY <1>3, Zenon DEF SendSnapshot, SendActiveCall
    <2>4. QED
      BY <2>2, <2>3 DEF TypeOK
  <1>4. CASE SessionEnds
    <2>1. backoff' \in 1..MaxBackoff
      BY <1>4, BackoffType DEF SessionEnds, TypeOK
    <2>2. Elements(wire \o sender) \subseteq Message
      BY ElementsOfConcat, ElementsInSet DEF TypeOK
    <2>3. QED
      BY <1>4, <2>1, <2>2 DEF SessionEnds, TypeOK
  <1>5. CASE Restart
    <2>1. Elements(Outgoing) \subseteq Message
      BY Parts, ElementsInSet
    <2>2. /\ stored' \in Rotations \cup {NoCommand} /\ token' \in {stored', NoCommand}
          /\ unread' \in BOOLEAN
      BY <1>5 DEF Restart, LoadToken, TypeOK
    <2>3. /\ session' = "wait" /\ troubles' = troubles + 1 /\ backoff' = 1
          /\ wire' = <<>> /\ sender' = <<>> /\ queue' = <<>> /\ inbox' = <<>>
          /\ running' = NoCommand /\ lost' = lost \cup Elements(Outgoing)
          /\ UNCHANGED <<received, raised, created, agedVars, issued, done>>
      BY <1>5 DEF Restart
    <2>4. 1 \in 1..MaxBackoff /\ 0 <= QueueSize
      BY CloudLinkAssumption
    <2>5. lost' \subseteq Message /\ {token', stored'} \subseteq Rotations \cup {NoCommand}
      BY <2>1, <2>2, <2>3 DEF TypeOK
    <2>6. unread' \in BOOLEAN
      BY <2>2
    <2>7. QED
      BY <2>3, <2>4, <2>5, <2>6 DEF TypeOK
  <1>6. CASE RaiseEvent
    <2>1. Enqueued
      BY <1>6 DEF RaiseEvent, Enqueued, Kinds
    <2>2. QED
      BY <1>6, <2>1, EnqueueType DEF RaiseEvent, TypeOK
  <1>7. CASE TimePasses
    <2>1. PICK k \in DOMAIN queue :
            /\ expired' = queue[k].id
            /\ doomed' = doomed \cup {queue[i].id : i \in {j \in 1..k : queue[j].kind = "ring"}}
      BY <1>7 DEF TimePasses
    <2>2. Elements(queue) \subseteq Elements(History)
      BY Parts
    <2>3. \A i \in 1..k : queue[i] \in Elements(queue)
      BY LenProperties DEF Elements, TypeOK
    <2>4. doomed' \subseteq 1..created
      BY <2>1, <2>2, <2>3 DEF IdsInv, TypeOK
    <2>5. expired' \in Nat
      <3>1. queue[k] \in Message
        BY ElementOfSeq, LenProperties DEF TypeOK
      <3>2. QED
        BY <2>1, <3>1 DEF Message
    <2>6. QED
      BY <1>7, <2>4, <2>5 DEF TimePasses, TypeOK
  <1>8. CASE TakeMessage
    BY <1>8, HeadAndTail, HeadTailProperties, LenProperties, CloudLinkAssumption
    DEF TakeMessage, TypeOK
  <1>9. CASE SendMessage
    BY <1>9, HeadAndTail, AppendProperties DEF SendMessage, TypeOK
  <1>10. CASE CloudReceives
    BY <1>10, HeadAndTail, AppendProperties DEF CloudReceives, TypeOK
  <1>11. CASE CloudSendsCommand
    BY <1>11, AppendProperties DEF CloudSendsCommand, TypeOK
  <1>12. CASE ReadCommand
    BY <1>12, HeadAndTail DEF ReadCommand, TypeOK
  <1>13. CASE RefuseUnknown
    <2>1. Head(inbox) \in Commands /\ Tail(inbox) \in Seq(Commands)
      BY <1>13, HeadAndTail DEF RefuseUnknown, TypeOK
    <2>2. Enqueued
      BY <1>13, <2>1 DEF RefuseUnknown, Enqueued, Kinds
    <2>3. QED
      BY <1>13, <2>1, <2>2, EnqueueType DEF RefuseUnknown, TypeOK
  <1>14. CASE HandlerActs
    BY <1>14 DEF HandlerActs, Rotate, TypeOK
  <1>15. CASE HandlerReturns \/ HandlerRaises
    <2>1. Enqueued
      BY <1>15 DEF HandlerReturns, HandlerRaises, Enqueued, Kinds, TypeOK
    <2>2. running' = NoCommand
      BY <1>15 DEF HandlerReturns, HandlerRaises
    <2>3. UNCHANGED <<linkVars, wireVars, raised, agedVars, inbox, issued, done, tokenVars>>
      BY <1>15, Zenon DEF HandlerReturns, HandlerRaises
    <2>4. QED
      BY <2>1, <2>2, <2>3, EnqueueType DEF TypeOK
  <1>16. QED
    BY <1>1, <1>2, <1>3, <1>4, <1>5, <1>6, <1>7, <1>8, <1>9, <1>10, <1>11, <1>12, <1>13,
       <1>14, <1>15
    DEF Next, LinkStep, MessageStep, CommandStep

-----------------------------------------------------------------------------
(* What a step does to the messages on their way and to those received.    *)

Keeps == Outgoing' = Outgoing /\ received' = received /\ created <= created'

(* A message whose place in the queue is the last; a reply is to command c.*)
Adds(m) ==
  /\ m.id = created + 1
  /\ created' = created + 1
  /\ Outgoing' = Append(Outgoing, m)
  /\ received' = received

Delivers ==
  /\ \E m \in Message, s \in Seq(Message) :
       /\ Outgoing = <<m>> \o s
       /\ Outgoing' = s
       /\ received' = Append(received, m)
  /\ created' = created

Loses ==
  /\ \E s, t, u \in Seq(Message) :
       /\ Outgoing = s \o t \o u
       /\ Outgoing' = s \o u
  /\ received' = received
  /\ created' = created

LEMMA EnqueueEffect ==
  ASSUME TypeOK, NEW kind \in Kinds, NEW cmd \in Commands \cup {NoCommand},
         Enqueue(kind, cmd), UNCHANGED wireVars
  PROVE  Keeps \/ Adds([id |-> created + 1, kind |-> kind, cmd |-> cmd])
  <1> DEFINE m == [id |-> created + 1, kind |-> kind, cmd |-> cmd]
  <1>1. /\ created' = created + 1
        /\ queue' = IF Len(queue) < QueueSize THEN Append(queue, m) ELSE queue
        /\ sender' = sender /\ wire' = wire /\ received' = received
    BY DEF Enqueue, wireVars
  <1>2. m \in Message /\ m.id = created + 1
    BY DEF Message, TypeOK
  <1> HIDE DEF m
  <1>3. CASE queue' = queue
    <2>1. Outgoing' = Outgoing
      BY <1>1, <1>3 DEF Outgoing
    <2>2. created <= created'
      BY <1>1 DEF TypeOK
    <2>3. QED
      BY <1>1, <2>1, <2>2 DEF Keeps
  <1>4. CASE queue' = Append(queue, m)
    <2>1. Outgoing' = (wire \o sender) \o Append(queue, m)
      BY <1>1, <1>4 DEF Outgoing
    <2>2. Outgoing' = Append(Outgoing, m)
      BY <1>2, <2>1, Parts, ConcatAppend, SMTT(30) DEF Outgoing, TypeOK
    <2>3. Adds(m)
      BY <1>1, <1>2, <2>2 DEF Adds
    <2>4. QED
      BY <2>3 DEF m
  <1>5. QED
    BY <1>1, <1>3, <1>4 DEF m

(* What is left when the middle of three parts is lost.                   *)
LEMMA CutMiddle ==
  ASSUME NEW S, NEW s \in Seq(S), NEW t \in Seq(S), NEW u \in Seq(S)
  PROVE  /\ Len(s) \in 0..Len(s \o t \o u)
         /\ Len(s \o t) + 1 \in Len(s) + 1 .. Len(s \o t \o u) + 1
         /\ s \o u = Fifo!Cut(s \o t \o u, Len(s), Len(s \o t) + 1)
  <1> DEFINE st == s \o t
             all == st \o u
             front == SubSeq(all, 1, Len(s))
             end == SubSeq(all, Len(st) + 1, Len(all))
  <1>1. /\ st \in Seq(S) /\ Len(st) = Len(s) + Len(t)
        /\ \A i \in 1..Len(st) : st[i] = IF i <= Len(s) THEN s[i] ELSE t[i - Len(s)]
        /\ Len(s) \in Nat /\ Len(t) \in Nat /\ Len(u) \in Nat
    BY ConcatProperties, LenProperties
  <1> HIDE DEF st
  <1>2. /\ all \in Seq(S) /\ Len(all) = Len(s) + Len(t) + Len(u)
        /\ \A i \in 1..Len(all) : all[i] = IF i <= Len(st) THEN st[i] ELSE u[i - Len(st)]
    <2>1. st \in Seq(S) /\ u \in Seq(S)
      BY <1>1
    <2>2. /\ all \in Seq(S) /\ Len(all) = Len(st) + Len(u)
          /\ \A i \in 1 .. Len(st) + Len(u) :
               all[i] = IF i <= Len(st) THEN st[i] ELSE u[i - Len(st)]
      BY <2>1, ConcatProperties
    <2> HIDE DEF all
    <2>3. QED
      BY <1>1, <2>2
  <1> HIDE DEF all
  <1>3. front = s
    <2>1. \A i \in 1..Len(s) : all[i] = s[i] /\ all[i] \in S
      BY <1>1, <1>2, ElementOfSeq
    <2>2. /\ front \in Seq(S)
          /\ Len(front) = Len(s)
          /\ \A i \in 1..Len(s) : front[i] = all[i]
      BY <1>1, <2>1, SubSeqProperties
    <2> HIDE DEF front
    <2>3. QED
      BY <2>1, <2>2, SeqEqual
  <1>4. end = u
    <2>1. \A i \in Len(st) + 1 .. Len(all) : all[i] \in S
      BY <1>1, <1>2, ElementOfSeq
    <2>2. /\ end \in Seq(S)
          /\ Len(end) = Len(u)
          /\ \A i \in 1..Len(u) : end[i] = all[Len(st) + i]
      BY <1>1, <1>2, <2>1, SubSeqProperties
    <2>3. \A i \in 1..Len(u) : all[Len(st) + i] = u[i]
      <3> TAKE i \in 1..Len(u)
      <3>1. /\ Len(st) + i \in 1..Len(all) /\ ~(Len(st) + i <= Len(st))
            /\ (Len(st) + i) - Len(st) = i
        BY <1>1, <1>2
      <3>2. QED
        BY <1>2, <3>1
    <2> HIDE DEF end
    <2>4. QED
      BY <2>2, <2>3, SeqEqual
  <1>5. QED
    <2>1. Fifo!Cut(all, Len(s), Len(st) + 1) = s \o u
      BY <1>3, <1>4 DEF Fifo!Cut
    <2>2. /\ Len(s) \in 0..Len(all)
          /\ Len(st) + 1 \in Len(s) + 1 .. Len(all) + 1
      BY <1>1, <1>2
    <2>3. QED
      BY <2>1, <2>2, Zenon DEF all, st

LEMMA TakeEffect ==
  ASSUME TypeOK, TakeMessage
  PROVE  Keeps \/ Loses
  <1> DEFINE h == <<Head(queue)>>
  <1>1. /\ h \in Seq(Message) /\ Tail(queue) \in Seq(Message)
        /\ queue = h \o Tail(queue)
    BY HeadAndTail DEF TakeMessage, TypeOK
  <1>2. /\ queue' = Tail(queue)
        /\ sender' = h \/ sender' = <<>>
        /\ sender = <<>>
        /\ UNCHANGED <<created, wire, received>>
    BY DEF TakeMessage, wireVars
  <1> HIDE DEF h
  <1>3. /\ wire \in Seq(Message) /\ wire \o <<>> = wire /\ created \in Nat
        /\ (wire \o h) \o Tail(queue) = wire \o (h \o Tail(queue))
    <2>1. wire \in Seq(Message) /\ created \in Nat
      BY DEF TypeOK
    <2>2. wire \o <<>> = wire
      BY <2>1, ConcatEmptySeq
    <2>3. (wire \o h) \o Tail(queue) = wire \o (h \o Tail(queue))
      BY <1>1, <2>1, ConcatAssociative
    <2>4. QED
      BY <2>1, <2>2, <2>3
  <1>4. Outgoing = wire \o h \o Tail(queue)
    BY <1>1, <1>2, <1>3, Zenon DEF Outgoing
  <1>5. CASE sender' = h
    <2>1. Outgoing' = wire \o h \o Tail(queue)
      BY <1>2, <1>5, Zenon DEF Outgoing
    <2>2. created <= created'
      BY <1>2, <1>3
    <2>3. QED
      BY <1>2, <1>4, <2>1, <2>2, Zenon DEF Keeps
  <1>6. CASE sender' = <<>>
    <2>1. Outgoing' = wire \o Tail(queue)
      BY <1>2, <1>3, <1>6, Zenon DEF Outgoing
    <2>2. QED
      BY <1>1, <1>2, <1>3, <1>4, <2>1, Zenon DEF Loses
  <1>7. QED
    BY <1>2, <1>5, <1>6

LEMMA SendEffect ==
  ASSUME TypeOK, SendMessage
  PROVE  Keeps
  <1> DEFINE h == <<Head(sender)>>
  <1>1. /\ sender = h /\ h \in Seq(Message) /\ Head(sender) \in Message
    <2>1. sender \in Seq(Message) /\ Len(sender) <= 1 /\ sender # <<>>
      BY DEF SendMessage, TypeOK
    <2>2. /\ Head(sender) \in Message /\ Tail(sender) \in Seq(Message)
          /\ Len(Tail(sender)) = Len(sender) - 1 /\ Len(sender) \in Nat
          /\ Len(Tail(sender)) \in Nat
          /\ sender = h \o Tail(sender)
      BY <2>1, HeadAndTail, HeadTailProperties, LenProperties
    <2>3. h \in Seq(Message)
      BY <2>2
    <2> HIDE DEF h
    <2>4. Len(Tail(sender)) = 0
      BY <2>1, <2>2
    <2>5. Tail(sender) = <<>>
      BY <2>2, <2>4, EmptySeq
    <2>6. QED
      BY <2>2, <2>3, <2>5, ConcatEmptySeq
  <1>2. Append(wire, Head(sender)) = wire \o h
    BY <1>1, AppendIsConcat DEF TypeOK
  <1>3. /\ wire' = wire \o h /\ sender' = <<>> /\ UNCHANGED <<queue, received, created>>
    BY <1>2 DEF SendMessage
  <1> HIDE DEF h
  <1>4. (wire \o h) \o <<>> = wire \o h
    BY <1>1, ConcatProperties, ConcatEmptySeq DEF TypeOK
  <1>5. Outgoing' = Outgoing
    BY <1>1, <1>3, <1>4, Zenon DEF Outgoing
  <1>6. QED
    BY <1>3, <1>5 DEF Keeps, TypeOK

LEMMA ReceiveEffect ==
  ASSUME TypeOK, CloudReceives
  PROVE  Delivers
  <1> DEFINE h == <<Head(wire)>>
             s == Tail(wire) \o sender \o queue
  <1>1. /\ h \in Seq(Message) /\ Tail(wire) \in Seq(Message) /\ Head(wire) \in Message
        /\ wire = h \o Tail(wire)
    BY HeadAndTail DEF CloudReceives, TypeOK
  <1>2. /\ received' = Append(received, Head(wire)) /\ wire' = Tail(wire)
        /\ UNCHANGED <<sender, queue, created>>
    BY DEF CloudReceives, queueVars
  <1>3. Outgoing' = s
    BY <1>2 DEF Outgoing
  <1>4. Outgoing = h \o s
    <2>1. Outgoing = (h \o Tail(wire)) \o sender \o queue
      BY <1>1, Zenon DEF Outgoing
    <2>2. /\ h \in Seq(Message) /\ Tail(wire) \in Seq(Message)
          /\ sender \in Seq(Message) /\ queue \in Seq(Message)
          /\ Tail(wire) \o sender \in Seq(Message)
      BY <1>1, ConcatProperties DEF TypeOK
    <2> HIDE DEF h
    <2>3. (h \o Tail(wire)) \o sender = h \o (Tail(wire) \o sender)
      BY <2>2, ConcatAssociative
    <2>4. (h \o (Tail(wire) \o sender)) \o queue = h \o ((Tail(wire) \o sender) \o queue)
      BY <2>2, ConcatAssociative
    <2>5. QED
      BY <2>1, <2>3, <2>4
  <1>5. s \in Seq(Message)
    BY <1>1, ConcatProperties DEF TypeOK
  <1> HIDE DEF s
  <1>6. QED
    BY <1>1, <1>2, <1>3, <1>4, <1>5 DEF Delivers

LEMMA EndEffect ==
  ASSUME TypeOK, SessionEnds
  PROVE  Loses
  <1> DEFINE t == wire \o sender
  <1>1. /\ wire' = <<>> /\ sender' = <<>> /\ UNCHANGED <<queue, received, created>>
    BY DEF SessionEnds
  <1>2. /\ t \in Seq(Message) /\ queue \in Seq(Message) /\ <<>> \in Seq(Message)
        /\ <<>> \o t = t /\ <<>> \o <<>> = <<>> /\ <<>> \o queue = queue
    BY Parts, ConcatEmptySeq, EmptySeq DEF TypeOK
  <1>3. /\ Outgoing = t \o queue
        /\ Outgoing' = (<<>> \o <<>>) \o queue
    BY <1>1, Zenon DEF Outgoing
  <1> HIDE DEF t
  <1>4. Outgoing = <<>> \o t \o queue /\ Outgoing' = <<>> \o queue
    BY <1>2, <1>3, Zenon
  <1>5. QED
    BY <1>1, <1>2, <1>4, Zenon DEF Loses

LEMMA RestartEffect ==
  ASSUME TypeOK, Restart
  PROVE  Loses
  <1>1. /\ wire' = <<>> /\ sender' = <<>> /\ queue' = <<>> /\ UNCHANGED <<received, created>>
    BY DEF Restart
  <1>2. /\ Outgoing \in Seq(Message) /\ <<>> \in Seq(Message)
        /\ <<>> \o Outgoing = Outgoing /\ <<>> \o <<>> = <<>> /\ Outgoing \o <<>> = Outgoing
    BY Parts, ConcatEmptySeq, EmptySeq
  <1>3. Outgoing' = (<<>> \o <<>>) \o <<>>
    BY <1>1, Zenon DEF Outgoing
  <1>4. Outgoing = <<>> \o Outgoing \o <<>> /\ Outgoing' = <<>> \o <<>>
    BY <1>2, <1>3, Zenon
  <1>5. QED
    BY <1>1, <1>2, <1>4, Zenon DEF Loses

LEMMA OutgoingEffect ==
  ASSUME TypeOK, [Next]_vars
  PROVE  Keeps \/ Delivers \/ Loses \/ \E m \in Message : Adds(m)
  <1>1. CASE \/ Dial \/ DialFails \/ HandshakeRefused \/ HandshakeOk
             \/ TimePasses \/ CloudSendsCommand \/ ReadCommand \/ HandlerActs
             \/ UNCHANGED vars
    <2>1. UNCHANGED <<queueVars, wireVars>>
      BY <1>1, Zenon DEF Dial, DialFails, HandshakeRefused, HandshakeOk, TimePasses,
         CloudSendsCommand, ReadCommand, HandlerActs, vars
    <2>2. UNCHANGED <<queue, sender, wire, received, created>>
      BY <2>1 DEF queueVars, wireVars
    <2>3. QED
      BY <2>2 DEF Keeps, Outgoing, TypeOK
  <1>2. CASE \/ RaiseEvent \/ SendSnapshot \/ SendActiveCall \/ RefuseUnknown
             \/ HandlerReturns \/ HandlerRaises
    <2>1. UNCHANGED wireVars
      BY <1>2, Zenon DEF RaiseEvent, SendSnapshot, SendActiveCall, RefuseUnknown,
         HandlerReturns, HandlerRaises
    <2>2. Enqueued \/ UNCHANGED queueVars
      <3>1. CASE RefuseUnknown
        BY <3>1, HeadAndTail DEF RefuseUnknown, Enqueued, Kinds, TypeOK
      <3>2. CASE RaiseEvent \/ SendSnapshot \/ SendActiveCall
        BY <3>2 DEF RaiseEvent, SendSnapshot, SendActiveCall, Enqueued, Kinds
      <3>3. CASE HandlerReturns \/ HandlerRaises
        BY <3>3 DEF HandlerReturns, HandlerRaises, Enqueued, Kinds, TypeOK
      <3>4. QED
        BY <1>2, <3>1, <3>2, <3>3
    <2>3. CASE UNCHANGED queueVars
      BY <2>1, <2>3 DEF Keeps, Outgoing, TypeOK, queueVars, wireVars
    <2>4. CASE Enqueued
      <3>1. PICK kind \in Kinds, cmd \in Commands \cup {NoCommand} : Enqueue(kind, cmd)
        BY <2>4 DEF Enqueued
      <3>2. [id |-> created + 1, kind |-> kind, cmd |-> cmd] \in Message
        BY DEF Message, TypeOK
      <3>3. QED
        BY <2>1, <3>1, <3>2, EnqueueEffect
    <2>5. QED
      BY <2>2, <2>3, <2>4
  <1>3. QED
    BY <1>1, <1>2, TakeEffect, SendEffect, ReceiveEffect, EndEffect, RestartEffect
    DEF Next, LinkStep, MessageStep, CommandStep

-----------------------------------------------------------------------------
(* Messages are numbered in the order in which they are on their way.      *)

LEMMA HistoryEffect ==
  ASSUME TypeOK, [Next]_vars
  PROVE  \/ History' = History /\ created <= created'
         \/ /\ created' = created
            /\ \E s, t, u \in Seq(Message) :
                 History = s \o t \o u /\ History' = s \o u
         \/ \E m \in Message :
              /\ m.id = created + 1
              /\ created' = created + 1
              /\ Adds(m)
              /\ History' = Append(History, m)
  <1>0. received \in Seq(Message) /\ Outgoing \in Seq(Message) /\ created \in Nat
    BY Parts DEF TypeOK
  <1>1. CASE Keeps
    BY <1>1 DEF Keeps, History
  <1>2. CASE Delivers
    <2>1. PICK m \in Message, s \in Seq(Message) :
            Outgoing = <<m>> \o s /\ Outgoing' = s /\ received' = Append(received, m)
      BY <1>2 DEF Delivers
    <2> DEFINE h == <<m>>
    <2>2. /\ h \in Seq(Message) /\ received' = received \o h /\ Outgoing = h \o s
      BY <1>0, <2>1, AppendIsConcat
    <2> HIDE DEF h
    <2>3. (received \o h) \o s = received \o (h \o s)
      BY <1>0, <2>2, ConcatAssociative
    <2>4. History' = History
      BY <2>1, <2>2, <2>3, Zenon DEF History
    <2>5. QED
      BY <1>0, <1>2, <2>4 DEF Delivers
  <1>3. CASE Loses
    <2>1. PICK s \in Seq(Message), t \in Seq(Message), u \in Seq(Message) :
            Outgoing = s \o t \o u /\ Outgoing' = s \o u
      BY <1>3 DEF Loses
    <2>2. received' = received /\ created' = created
      BY <1>3 DEF Loses
    <2>3. /\ received \o ((s \o t) \o u) = ((received \o s) \o t) \o u
          /\ received \o (s \o u) = (received \o s) \o u
          /\ received \o s \in Seq(Message)
      <3>1. /\ Cat(received, Cat(Cat(s, t), u)) = Cat(Cat(Cat(received, s), t), u)
            /\ Cat(received, Cat(s, u)) = Cat(Cat(received, s), u)
            /\ Cat(received, s) \in Seq(Message)
        BY <1>0, CatIn, CatAssociative
      <3>2. QED
        BY <3>1, Zenon DEF Cat
    <2>4. /\ History = (received \o s) \o t \o u
          /\ History' = (received \o s) \o u
      BY <2>1, <2>2, <2>3, Zenon DEF History
    <2>5. QED
      BY <2>2, <2>3, <2>4
  <1>4. ASSUME NEW m \in Message, Adds(m)
        PROVE  History' = Append(History, m)
    BY <1>0, <1>4, ConcatAppend DEF Adds, History
  <1>5. QED
    BY <1>1, <1>2, <1>3, <1>4, OutgoingEffect DEF Adds

LEMMA IdsStep ==
  ASSUME TypeOK, IdsInv, [Next]_vars
  PROVE  IdsInv'
  <1>0. History \in Seq(Message) /\ created \in Nat /\ Elements(History) \subseteq Message
    BY Parts, ElementsInSet DEF TypeOK
  <1>1. CASE History' = History /\ created <= created'
    <2>1. created' \in Nat
      BY TypeStep DEF TypeOK
    <2>2. \A m \in Elements(History) : m.id \in 1..created'
      BY <1>0, <1>1, <2>1 DEF IdsInv
    <2>3. QED
      BY <1>1, <2>2, Zenon DEF IdsInv
  <1>2. ASSUME created' = created, NEW s \in Seq(Message), NEW t \in Seq(Message),
               NEW u \in Seq(Message), History = s \o t \o u, History' = s \o u
        PROVE  IdsInv'
    <2>1. /\ s \o t \in Seq(Message) /\ Elements(s \o t) = Elements(s) \cup Elements(t)
          /\ Elements(History) = Elements(s \o t) \cup Elements(u)
          /\ Elements(History') = Elements(s) \cup Elements(u)
      <3>1. /\ s \o t \in Seq(Message) /\ Elements(s \o t) = Elements(s) \cup Elements(t)
            /\ Elements(s \o u) = Elements(s) \cup Elements(u)
        BY ElementsOfConcat
      <3>2. Elements((s \o t) \o u) = Elements(s \o t) \cup Elements(u)
        <4> DEFINE st == s \o t
        <4>1. st \in Seq(Message)
          BY <3>1
        <4> HIDE DEF st
        <4>2. Elements(st \o u) = Elements(st) \cup Elements(u)
          BY <4>1, ElementsOfConcat
        <4>3. QED
          BY <4>2 DEF st
      <3>3. QED
        BY <1>2, <3>1, <3>2
    <2>2. /\ Sorted(s \o t) /\ Sorted(u)
          /\ \A m \in Elements(s \o t), n \in Elements(u) : m.id < n.id
      BY <1>2, <2>1, SortedConcat DEF IdsInv
    <2>3. Sorted(s)
      BY <2>2, SortedConcat
    <2>4. Sorted(History')
      BY <1>2, <2>1, <2>2, <2>3, SortedConcat
    <2>5. \A m \in Elements(History') : m.id \in 1..created'
      BY <1>2, <2>1 DEF IdsInv
    <2>6. QED
      BY <2>4, <2>5 DEF IdsInv
  <1>3. ASSUME NEW m \in Message, m.id = created + 1, created' = created + 1,
               History' = Append(History, m)
        PROVE  IdsInv'
    <2> DEFINE h == <<m>>
    <2>1. /\ History' = History \o h /\ h \in Seq(Message) /\ Elements(h) = {m} /\ Sorted(h)
      BY <1>0, <1>3, AppendIsConcat DEF Elements, Sorted
    <2> HIDE DEF h
    <2>2. Elements(History') = Elements(History) \cup {m}
      BY <1>0, <2>1, ElementsOfConcat
    <2>3. \A k \in Elements(History) : k.id < m.id /\ k.id \in 1..created'
      BY <1>0, <1>3 DEF IdsInv
    <2>4. Sorted(History')
      BY <1>0, <2>1, <2>3, SortedConcat DEF IdsInv
    <2>5. QED
      BY <1>0, <1>3, <2>2, <2>3, <2>4 DEF IdsInv
  <1>4. QED
    BY <1>1, <1>2, <1>3, HistoryEffect

-----------------------------------------------------------------------------
(* Types and the order of messages hold together.                          *)

LinkInv == TypeOK /\ IdsInv

LEMMA LinkInvariant == Spec => []LinkInv
  <1>1. Init => LinkInv
    <2> SUFFICES ASSUME Init PROVE LinkInv
      OBVIOUS
    <2>1. TypeOK
      <3>1. unread \in BOOLEAN
        BY DEF Init
      <3>2. {token, stored} \subseteq Rotations \cup {NoCommand}
        BY DEF Init
      <3>3. /\ <<>> \in Seq(Message) /\ <<>> \in Seq(Commands) /\ Len(<<>>) = 0
            /\ 1 \in 1..MaxBackoff /\ 0 <= QueueSize
        BY CloudLinkAssumption
      <3>4. /\ session = "wait" /\ backoff = 1 /\ troubles = 0 /\ raised = 0 /\ created = 0
            /\ expired = 0 /\ issued = 0 /\ queue = <<>> /\ sender = <<>> /\ wire = <<>>
            /\ received = <<>> /\ lost = {} /\ doomed = {} /\ inbox = <<>>
            /\ running = NoCommand /\ done = {}
        BY DEF Init
      <3>5. QED
        BY <3>1, <3>2, <3>3, <3>4 DEF TypeOK
    <2>2. History = <<>>
      BY ConcatEmptySeq, EmptySeq DEF Init, History, Outgoing
    <2>3. QED
      BY <2>1, <2>2 DEF LinkInv, IdsInv, Sorted, Elements
  <1>2. LinkInv /\ [Next]_vars => LinkInv'
    BY TypeStep, IdsStep DEF LinkInv
  <1>3. QED
    BY <1>1, <1>2, PTL DEF Spec

(* The state of the link is well formed in every reachable state.          *)
THEOREM LinkTypeCorrect == Spec => []TypeOK
  BY LinkInvariant, PTL DEF LinkInv

-----------------------------------------------------------------------------
(* The refinement of LossyFifo.                                            *)

Ids(s) == [i \in DOMAIN s |-> s[i].id]

LEMMA IdsOfConcat ==
  ASSUME NEW s \in Seq(Message), NEW t \in Seq(Message)
  PROVE  /\ Ids(s) \in Seq(Nat)
         /\ Ids(s \o t) = Ids(s) \o Ids(t)
  <1>1. ASSUME NEW r \in Seq(Message)
        PROVE  /\ Ids(r) \in Seq(Nat)
               /\ Len(Ids(r)) = Len(r)
               /\ \A i \in 1..Len(r) : Ids(r)[i] = r[i].id
    <2>1. DOMAIN r = 1..Len(r) /\ Len(r) \in Nat
      BY LenProperties
    <2>2. \A i \in 1..Len(r) : r[i].id \in Nat
      <3>1. \A i \in 1..Len(r) : r[i] \in Message
        BY ElementOfSeq
      <3>2. QED
        BY <3>1 DEF Message
    <2>3. QED
      BY <2>1, <2>2 DEF Ids
  <1>2. /\ s \o t \in Seq(Message) /\ Len(s \o t) = Len(s) + Len(t)
        /\ \A i \in 1 .. Len(s) + Len(t) :
             (s \o t)[i] = IF i <= Len(s) THEN s[i] ELSE t[i - Len(s)]
        /\ Len(s) \in Nat /\ Len(t) \in Nat
    BY ConcatProperties, LenProperties
  <1> DEFINE a == Ids(s)
             b == Ids(t)
             c == Ids(s \o t)
  <1>3. /\ a \in Seq(Nat) /\ Len(a) = Len(s) /\ \A i \in 1..Len(s) : a[i] = s[i].id
        /\ b \in Seq(Nat) /\ Len(b) = Len(t) /\ \A i \in 1..Len(t) : b[i] = t[i].id
        /\ c \in Seq(Nat) /\ Len(c) = Len(s) + Len(t)
        /\ \A i \in 1 .. Len(s) + Len(t) : c[i] = (s \o t)[i].id
    BY <1>1, <1>2
  <1> HIDE DEF a, b, c
  <1>4. /\ a \o b \in Seq(Nat) /\ Len(a \o b) = Len(s) + Len(t)
        /\ \A i \in 1 .. Len(s) + Len(t) :
             (a \o b)[i] = IF i <= Len(s) THEN a[i] ELSE b[i - Len(s)]
    <2>1. /\ a \o b \in Seq(Nat) /\ Len(a \o b) = Len(a) + Len(b)
          /\ \A i \in 1 .. Len(a) + Len(b) :
               (a \o b)[i] = IF i <= Len(a) THEN a[i] ELSE b[i - Len(a)]
      <3>1. a \in Seq(Nat) /\ b \in Seq(Nat)
        BY <1>3
      <3>2. QED
        BY <3>1, ConcatProperties
    <2>2. QED
      BY <1>3, <2>1
  <1>5. \A i \in 1 .. Len(s) + Len(t) : c[i] = (a \o b)[i]
    <2> SUFFICES ASSUME NEW i \in 1 .. Len(s) + Len(t)
                 PROVE  c[i] = (a \o b)[i]
      OBVIOUS
    <2>0. c[i] = (s \o t)[i].id
      BY <1>3
    <2>1. CASE i <= Len(s)
      <3>1. i \in 1..Len(s) /\ (s \o t)[i] = s[i] /\ (a \o b)[i] = a[i]
        BY <1>2, <1>4, <2>1
      <3>2. QED
        BY <1>3, <2>0, <3>1
    <2>2. CASE ~(i <= Len(s))
      <3>1. /\ i - Len(s) \in 1..Len(t)
            /\ (s \o t)[i] = t[i - Len(s)] /\ (a \o b)[i] = b[i - Len(s)]
        BY <1>2, <1>4, <2>2
      <3>2. QED
        BY <1>3, <2>0, <3>1
    <2>3. QED
      BY <2>1, <2>2
  <1>6. c = a \o b
    BY <1>2, <1>3, <1>4, <1>5, SeqEqual
  <1>7. QED
    BY <1>3, <1>6 DEF a, b, c

LEMMA IdsOfAppend ==
  ASSUME NEW s \in Seq(Message), NEW m \in Message
  PROVE  /\ Ids(s) \in Seq(Nat) /\ m.id \in Nat
         /\ Ids(Append(s, m)) = Append(Ids(s), m.id)
  <1> DEFINE h == <<m>>
             k == <<m.id>>
  <1>1. /\ h \in Seq(Message) /\ Append(s, m) = s \o h /\ m.id \in Nat /\ Ids(h) = k
    BY AppendIsConcat DEF Ids, Message
  <1> HIDE DEF h
  <1>2. Ids(s) \in Seq(Nat) /\ Ids(s \o h) = Ids(s) \o k
    BY <1>1, IdsOfConcat
  <1>3. QED
    BY <1>1, <1>2, AppendIsConcat

LEMMA FifoStep ==
  ASSUME LinkInv, [Next]_vars
  PROVE  [Fifo!Next]_(Fifo!vars)
  <1> DEFINE P == Ids(Outgoing)
             D == Ids(received)
  <1>0. /\ Outgoing \in Seq(Message) /\ received \in Seq(Message) /\ created \in Nat
        /\ P \in Seq(Nat) /\ D \in Seq(Nat)
    BY Parts, IdsOfConcat DEF LinkInv, TypeOK
  <1>1. CASE Keeps
    BY <1>1 DEF Keeps, Fifo!vars
  <1>2. ASSUME NEW m \in Message, Adds(m)
        PROVE  Fifo!AcceptNew
    <2>1. P' = Append(P, m.id) /\ D' = D /\ m.id \in Nat /\ m.id = created + 1
      BY <1>0, <1>2, IdsOfAppend DEF Adds
    <2>2. /\ P' # <<>> /\ P'[Len(P')] = m.id
      <3> HIDE DEF P
      <3>1. /\ Append(P, m.id) # <<>>
            /\ Append(P, m.id)[Len(Append(P, m.id))] = m.id
        <4>1. P \in Seq(Nat) /\ m.id \in Nat
          BY <1>0, <2>1
        <4>2. /\ Append(P, m.id) # <<>> /\ Len(Append(P, m.id)) = Len(P) + 1
              /\ Append(P, m.id)[Len(P) + 1] = m.id
          BY <4>1, AppendProperties
        <4>3. QED
          BY <4>2
      <3>2. QED
        BY <2>1, <3>1
    <2>4. m.id \notin Fifo!Elements(P) \cup Fifo!Elements(D)
      <3>0. /\ \A i \in DOMAIN Outgoing : Outgoing[i] \in Elements(Outgoing)
            /\ \A i \in DOMAIN received : received[i] \in Elements(received)
            /\ m.id = created + 1
            /\ \A k \in Elements(Outgoing) \cup Elements(received) : k.id \in 1..created
        BY <1>0, <2>1, Parts, LenProperties DEF Elements, LinkInv, IdsInv
      <3>1. \A i \in DOMAIN Outgoing : Outgoing[i].id # m.id
        BY <1>0, <3>0
      <3>2. \A i \in DOMAIN received : received[i].id # m.id
        BY <1>0, <3>0
      <3>3. QED
        BY <3>1, <3>2 DEF Ids, Fifo!Elements
    <2>5. QED
      BY <2>1, <2>2, <2>4 DEF Fifo!AcceptNew, Fifo!Accept, Ids
  <1>3. CASE Delivers
    <2>1. PICK m \in Message, s \in Seq(Message) :
            Outgoing = <<m>> \o s /\ Outgoing' = s /\ received' = Append(received, m)
      BY <1>3 DEF Delivers
    <2> DEFINE h == <<m>>
               k == <<m.id>>
    <2>2. h \in Seq(Message) /\ Ids(h) = k /\ Outgoing = h \o s /\ m.id \in Nat /\ k \in Seq(Nat)
      BY <2>1 DEF Ids, Message
    <2> HIDE DEF h
    <2>3. P = k \o Ids(s) /\ Ids(s) \in Seq(Nat)
      BY <2>2, IdsOfConcat
    <2>4. P' = Ids(s)
      BY <2>1
    <2>5. D' = Append(D, m.id)
      BY <1>0, <2>1, IdsOfAppend
    <2>6. ASSUME NEW q \in Seq(Nat), NEW n \in Nat
          PROVE  <<n>> \o q # <<>> /\ Head(<<n>> \o q) = n /\ Tail(<<n>> \o q) = q
      OBVIOUS
    <2>7. P # <<>> /\ Head(P) = m.id /\ Tail(P) = Ids(s)
      BY <2>2, <2>3, <2>6
    <2>8. QED
      BY <2>4, <2>5, <2>7 DEF Fifo!Deliver, Fifo!Next, Ids
  <1>4. CASE Loses
    <2>1. PICK s \in Seq(Message), t \in Seq(Message), u \in Seq(Message) :
            Outgoing = s \o t \o u /\ Outgoing' = s \o u
      BY <1>4 DEF Loses
    <2>2. D' = D
      BY <1>4 DEF Loses
    <2> DEFINE a == Ids(s)
               b == Ids(t)
               c == Ids(u)
    <2>3. a \in Seq(Nat) /\ b \in Seq(Nat) /\ c \in Seq(Nat)
      BY IdsOfConcat
    <2>4. P' = a \o c
      BY <2>1, IdsOfConcat
    <2>5. P = a \o b \o c
      <3>1. s \o t \in Seq(Message)
        BY ConcatProperties
      <3>2. Ids(s \o t) = a \o b
        BY IdsOfConcat
      <3>3. Ids((s \o t) \o u) = Ids(s \o t) \o c
        BY <3>1, IdsOfConcat
      <3>4. QED
        BY <2>1, <3>2, <3>3
    <2>6. /\ Len(a) \in 0..Len(P)
          /\ Len(a \o b) + 1 \in Len(a) + 1 .. Len(P) + 1
          /\ P' = Fifo!Cut(P, Len(a), Len(a \o b) + 1)
      <3> HIDE DEF P, a, b, c
      <3>1. /\ Len(a) \in 0..Len(a \o b \o c)
            /\ Len(a \o b) + 1 \in Len(a) + 1 .. Len(a \o b \o c) + 1
            /\ a \o c = Fifo!Cut(a \o b \o c, Len(a), Len(a \o b) + 1)
        BY <2>3, CutMiddle, ZenonT(30)
      <3>2. QED
        BY <2>4, <2>5, <3>1, Zenon
    <2>7. \E i \in 0..Len(P) : \E j \in i + 1 .. Len(P) + 1 : P' = Fifo!Cut(P, i, j)
      <3> HIDE DEF P, a, b, c
      <3>1. QED
        BY <2>6
    <2>8. QED
      BY <2>2, <2>7 DEF Fifo!Lose, Fifo!Next, Ids
  <1>5. QED
    BY <1>1, <1>2, <1>3, <1>4, OutgoingEffect DEF LinkInv, Fifo!Next

(* The link implements a lossy FIFO channel: no message reaches the cloud  *)
(* twice or out of order, over all sessions and restarts.                  *)
THEOREM LinkImplementsFifo == Spec => FifoSpec
  <1>1. Init => Fifo!Init
    <2> SUFFICES ASSUME Init PROVE Fifo!Init
      OBVIOUS
    <2>1. Outgoing = <<>> /\ received = <<>>
      BY ConcatEmptySeq, EmptySeq DEF Init, Outgoing
    <2>2. QED
      BY <2>1 DEF Fifo!Init
  <1>2. LinkInv /\ [Next]_vars => [Fifo!Next]_(Fifo!vars)
    BY FifoStep
  <1>3. QED
    BY <1>1, <1>2, LinkInvariant, PTL DEF Spec, FifoSpec, Fifo!Spec

-----------------------------------------------------------------------------
(* Commands, their replies and the token.                                  *)

(* Nothing about commands but those that wait.                             *)
CommandIdle ==
  /\ issued' = issued
  /\ inbox' = inbox
  /\ running' = running

(* What waits for a reply is forgotten.                                    *)
CommandsForgotten ==
  /\ issued' = issued
  /\ inbox' = <<>>
  /\ running' = NoCommand

CommandArrives ==
  /\ issued + 1 \in Commands
  /\ issued' = issued + 1
  /\ inbox' = Append(inbox, issued + 1)
  /\ running' = running

CommandStarts ==
  /\ running = NoCommand
  /\ inbox # <<>>
  /\ issued' = issued
  /\ running' = Head(inbox)
  /\ inbox' = Tail(inbox)

CommandRefused ==
  /\ running = NoCommand
  /\ inbox # <<>>
  /\ issued' = issued
  /\ running' = running
  /\ inbox' = Tail(inbox)

CommandEnds ==
  /\ running \in Commands
  /\ issued' = issued
  /\ running' = NoCommand
  /\ inbox' = inbox

(* The command that a step replies to, if it does.                         *)
Replies(c) ==
  \/ CommandEnds /\ c = running
  \/ CommandRefused /\ c = Head(inbox)

NoReply ==
  \/ CommandIdle
  \/ CommandsForgotten
  \/ CommandArrives
  \/ CommandStarts

LEMMA InboxTail ==
  ASSUME NEW s \in Seq(Commands), s # <<>>,
         \A i, j \in 1..Len(s) : i < j => s[i] < s[j]
  PROVE  /\ Head(s) \in Commands /\ Tail(s) \in Seq(Commands)
         /\ Elements(s) = {Head(s)} \cup Elements(Tail(s))
         /\ \A c \in Elements(Tail(s)) : Head(s) < c
         /\ \A i, j \in 1..Len(Tail(s)) : i < j => Tail(s)[i] < Tail(s)[j]
  <1>1. /\ Head(s) \in Commands /\ Tail(s) \in Seq(Commands)
        /\ Elements(s) = {Head(s)} \cup Elements(Tail(s))
    BY HeadAndTail
  <1>2. /\ Len(s) \in Nat \ {0} /\ Head(s) = s[1] /\ Len(Tail(s)) = Len(s) - 1
        /\ \A i \in 1..Len(Tail(s)) : Tail(s)[i] = s[i + 1]
    BY HeadTailProperties, EmptySeq
  <1>3. \A i \in 1..Len(Tail(s)) : i + 1 \in 1..Len(s) /\ 1 \in 1..Len(s) /\ 1 < i + 1
    BY <1>2
  <1>4. \A c \in Elements(Tail(s)) : Head(s) < c
    BY <1>1, <1>2, <1>3, LenProperties DEF Elements
  <1>5. \A i, j \in 1..Len(Tail(s)) : i < j => Tail(s)[i] < Tail(s)[j]
    <2> SUFFICES ASSUME NEW i \in 1..Len(Tail(s)), NEW j \in 1..Len(Tail(s)), i < j
                 PROVE  s[i + 1] < s[j + 1]
      BY <1>2
    <2>1. i + 1 \in 1..Len(s) /\ j + 1 \in 1..Len(s) /\ i + 1 < j + 1
      BY <1>2
    <2>2. QED
      BY <2>1
  <1>6. QED
    BY <1>1, <1>4, <1>5

LEMMA AddsEnqueued ==
  ASSUME TypeOK, NEW kind \in Kinds, NEW cmd \in Commands \cup {NoCommand},
         Enqueue(kind, cmd), UNCHANGED wireVars, NEW m \in Message, Adds(m)
  PROVE  m.kind = kind /\ m.cmd = cmd
  <1> DEFINE n == [id |-> created + 1, kind |-> kind, cmd |-> cmd]
  <1>1. n \in Message /\ Outgoing \in Seq(Message)
    BY Parts DEF Message, TypeOK
  <1>2. Outgoing' = Append(Outgoing, m)
    BY DEF Adds
  <1>3. Keeps \/ Adds(n)
    BY EnqueueEffect
  <1> HIDE DEF n
  <1>4. CASE Keeps
    <2>1. Len(Append(Outgoing, m)) = Len(Outgoing) + 1 /\ Len(Outgoing) \in Nat
      BY <1>1, AppendProperties, LenProperties
    <2>2. Outgoing = Append(Outgoing, m)
      BY <1>2, <1>4 DEF Keeps
    <2>3. QED
      BY <2>1, <2>2
  <1>5. CASE Adds(n)
    <2>1. Append(Outgoing, n) = Append(Outgoing, m)
      BY <1>2, <1>5 DEF Adds
    <2>2. n = m
      BY <1>1, <2>1, AppendInjective
    <2>3. QED
      BY <2>2 DEF n
  <1>6. QED
    BY <1>3, <1>4, <1>5

LEMMA CommandEffect ==
  ASSUME TypeOK, [Next]_vars
  PROVE  /\ NoReply \/ \E c \in Commands : Replies(c)
         /\ \A m \in Message : Adds(m) /\ IsReply(m) => Replies(m.cmd)
  <1>1. CASE \/ Dial \/ DialFails \/ HandshakeRefused \/ HandshakeOk
             \/ TimePasses \/ TakeMessage \/ SendMessage \/ CloudReceives
             \/ HandlerActs \/ UNCHANGED vars
    <2>1. UNCHANGED <<issued, inbox, running, created>>
      BY <1>1, Zenon DEF Dial, DialFails, HandshakeRefused, HandshakeOk, TimePasses,
         TakeMessage, SendMessage, CloudReceives, HandlerActs, vars, commandVars, queueVars
    <2>2. QED
      BY <2>1 DEF NoReply, CommandIdle, Adds, TypeOK
  <1>2. CASE SessionEnds \/ Restart
    <2>1. /\ inbox' = <<>> /\ running' = NoCommand /\ issued' = issued /\ created' = created
      BY <1>2 DEF SessionEnds, Restart
    <2>2. QED
      BY <2>1 DEF NoReply, CommandsForgotten, Adds, TypeOK
  <1>3. CASE RaiseEvent \/ SendSnapshot \/ SendActiveCall
    <2>1. UNCHANGED <<issued, inbox, running>> /\ UNCHANGED wireVars
      BY <1>3 DEF RaiseEvent, SendSnapshot, SendActiveCall, commandVars
    <2>2. \/ created' = created
          \/ \E kind \in {"ring", "event", "snapshot"} : Enqueue(kind, NoCommand)
      BY <1>3 DEF RaiseEvent, SendSnapshot, SendActiveCall, queueVars
    <2>3. ASSUME NEW kind \in {"ring", "event", "snapshot"}, Enqueue(kind, NoCommand),
                 NEW m \in Message, Adds(m)
          PROVE  ~IsReply(m)
      <3>1. m.kind = kind
        BY <2>1, <2>3, AddsEnqueued DEF Kinds
      <3>2. QED
        BY <3>1 DEF IsReply
    <2>4. QED
      BY <2>1, <2>2, <2>3 DEF NoReply, CommandIdle, Adds, TypeOK
  <1>4. CASE CloudSendsCommand
    <2>1. CommandArrives /\ created' = created
      BY <1>4 DEF CloudSendsCommand, CommandArrives, queueVars
    <2>2. QED
      BY <2>1 DEF NoReply, Adds, TypeOK
  <1>5. CASE ReadCommand
    <2>1. CommandStarts /\ created' = created
      BY <1>5 DEF ReadCommand, CommandStarts, queueVars
    <2>2. QED
      BY <2>1 DEF NoReply, Adds, TypeOK
  <1>6. CASE RefuseUnknown
    <2>1. /\ CommandRefused /\ UNCHANGED wireVars /\ Enqueue("nack", Head(inbox))
          /\ Head(inbox) \in Commands
      BY <1>6, HeadAndTail DEF RefuseUnknown, CommandRefused, TypeOK
    <2>2. \A m \in Message : Adds(m) => m.cmd = Head(inbox)
      BY <2>1, AddsEnqueued DEF Kinds
    <2>3. QED
      BY <2>1, <2>2 DEF Replies
  <1>7. CASE HandlerReturns \/ HandlerRaises
    <2>1. /\ CommandEnds /\ UNCHANGED wireVars
          /\ \E kind \in Kinds : Enqueue(kind, running)
      BY <1>7 DEF HandlerReturns, HandlerRaises, CommandEnds, Kinds, TypeOK
    <2>2. \A m \in Message : Adds(m) => m.cmd = running
      BY <2>1, AddsEnqueued DEF CommandEnds
    <2>3. QED
      BY <2>1, <2>2 DEF Replies, CommandEnds
  <1>8. QED
    BY <1>1, <1>2, <1>3, <1>4, <1>5, <1>6, <1>7
    DEF Next, LinkStep, MessageStep, CommandStep

LEMMA CommandStepInv ==
  ASSUME TypeOK, CommandInv, [Next]_vars
  PROVE  CommandInv'
  <1>0. /\ inbox \in Seq(Commands) /\ issued \in Nat /\ running \in Commands \cup {NoCommand}
        /\ NoCommand \notin Commands /\ Commands \subseteq Nat
        /\ Elements(inbox) \subseteq Commands
    BY CloudLinkAssumption, ElementsInSet DEF TypeOK
  <1>1. CASE CommandIdle
    BY <1>1 DEF CommandIdle, CommandInv, Waiting
  <1>2. CASE CommandsForgotten
    BY <1>0, <1>2, EmptySeq DEF CommandsForgotten, CommandInv, Waiting, Elements
  <1>3. CASE CommandArrives
    <2> DEFINE c == issued + 1
    <2>0. \A d \in Waiting : d \in Nat /\ d <= issued
      BY <1>0 DEF CommandInv, Waiting
    <2>1. /\ c \in Commands /\ inbox' = Append(inbox, c) /\ running' = running /\ issued' = c
          /\ c \in Nat /\ \A d \in Waiting : d < c
      BY <1>0, <1>3, <2>0 DEF CommandArrives
    <2> HIDE DEF c
    <2>2. Elements(inbox') = Elements(inbox) \cup {c}
      BY <1>0, <2>1, ElementsOfAppend
    <2>3. /\ Len(inbox') = Len(inbox) + 1 /\ Len(inbox) \in Nat
          /\ \A i \in 1..Len(inbox) : inbox'[i] = inbox[i]
          /\ inbox'[Len(inbox) + 1] = c
      BY <1>0, <2>1, AppendProperties, LenProperties
    <2>4. \A i \in 1..Len(inbox) : inbox[i] < c
      BY <1>0, <2>1, LenProperties DEF Waiting, Elements
    <2>5. \A i, j \in 1..Len(inbox') : i < j => inbox'[i] < inbox'[j]
      <3> SUFFICES ASSUME NEW i \in 1..Len(inbox'), NEW j \in 1..Len(inbox'), i < j
                   PROVE  inbox'[i] < inbox'[j]
        OBVIOUS
      <3>1. i \in 1..Len(inbox) /\ inbox'[i] = inbox[i]
        BY <2>3
      <3>2. CASE j \in 1..Len(inbox)
        BY <2>3, <3>1, <3>2 DEF CommandInv
      <3>3. CASE j = Len(inbox) + 1
        BY <2>3, <2>4, <3>1, <3>3
      <3>4. QED
        BY <2>3, <3>2, <3>3
    <2>6. \A d \in Waiting' : d <= issued'
      <3>1. Waiting' = Waiting \cup {c}
        BY <2>1, <2>2 DEF Waiting
      <3>2. QED
        BY <2>0, <2>1, <3>1
    <2>7. running' \in Commands => \A d \in Elements(inbox') : running' < d
      BY <1>0, <2>1, <2>2 DEF Waiting, CommandInv
    <2>8. QED
      BY <2>5, <2>6, <2>7 DEF CommandInv
  <1>4. CASE CommandStarts
    <2>1. /\ inbox # <<>> /\ inbox' = Tail(inbox) /\ running' = Head(inbox) /\ issued' = issued
      BY <1>4 DEF CommandStarts
    <2>2. /\ Head(inbox) \in Commands
          /\ Elements(inbox) = {Head(inbox)} \cup Elements(Tail(inbox))
          /\ \A c \in Elements(Tail(inbox)) : Head(inbox) < c
          /\ \A i, j \in 1..Len(Tail(inbox)) : i < j => Tail(inbox)[i] < Tail(inbox)[j]
      BY <1>0, <2>1, InboxTail DEF CommandInv
    <2>3. Waiting' \subseteq Waiting
      BY <2>1, <2>2 DEF Waiting
    <2>4. QED
      BY <2>1, <2>2, <2>3 DEF CommandInv
  <1>5. CASE CommandRefused
    <2>1. /\ inbox # <<>> /\ inbox' = Tail(inbox) /\ running' = running /\ issued' = issued
          /\ running = NoCommand
      BY <1>5 DEF CommandRefused
    <2>2. /\ Elements(inbox) = {Head(inbox)} \cup Elements(Tail(inbox))
          /\ \A i, j \in 1..Len(Tail(inbox)) : i < j => Tail(inbox)[i] < Tail(inbox)[j]
      BY <1>0, <2>1, InboxTail DEF CommandInv
    <2>3. Waiting' \subseteq Waiting
      BY <2>1, <2>2 DEF Waiting
    <2>4. QED
      BY <1>0, <2>1, <2>2, <2>3 DEF CommandInv
  <1>6. CASE CommandEnds
    BY <1>0, <1>6 DEF CommandEnds, CommandInv, Waiting
  <1>7. QED
    BY <1>1, <1>2, <1>3, <1>4, <1>5, <1>6, CommandEffect DEF NoReply, Replies

(* What waits after a step waited before or is the newest command.         *)
LEMMA WaitingEffect ==
  ASSUME TypeOK, CommandInv, [Next]_vars
  PROVE  /\ \A c \in Waiting' : c \in Waiting \/ (c = issued + 1 /\ issued' = c)
         /\ issued' \in Nat /\ issued <= issued'
         /\ \A c \in Commands : Replies(c) => c \in Waiting /\ \A d \in Waiting' : c < d
  <1>0. /\ inbox \in Seq(Commands) /\ issued \in Nat /\ running \in Commands \cup {NoCommand}
        /\ NoCommand \notin Commands /\ Commands \subseteq Nat
        /\ \A c \in Elements(inbox) : c \in Commands
    BY CloudLinkAssumption, ElementsInSet DEF TypeOK
  <1>1. CASE CommandIdle
    BY <1>0, <1>1 DEF CommandIdle, Replies, CommandEnds, CommandRefused, Waiting, CommandInv
  <1>2. CASE CommandsForgotten
    <2>1. Waiting' = {} /\ issued' = issued
      BY <1>0, <1>2 DEF CommandsForgotten, Waiting, Elements
    <2>2. \A c \in Commands : Replies(c) => c \in Waiting
      BY <1>0, HeadAndTail DEF Replies, CommandEnds, CommandRefused, Waiting
    <2>3. QED
      BY <1>0, <2>1, <2>2
  <1>3. CASE CommandArrives
    <2>1. Elements(inbox') = Elements(inbox) \cup {issued + 1}
      BY <1>0, <1>3, ElementsOfAppend DEF CommandArrives
    <2>2. ~CommandEnds /\ ~CommandRefused
      BY <1>0, <1>3 DEF CommandArrives, CommandEnds, CommandRefused
    <2>3. Waiting' = Waiting \cup {issued + 1}
      BY <1>0, <1>3, <2>1 DEF CommandArrives, Waiting
    <2>4. QED
      BY <1>0, <1>3, <2>2, <2>3 DEF CommandArrives, Replies
  <1>4. CASE inbox # <<>> /\ (CommandStarts \/ CommandRefused)
    <2>1. /\ Head(inbox) \in Commands
          /\ Elements(inbox) = {Head(inbox)} \cup Elements(Tail(inbox))
          /\ \A c \in Elements(Tail(inbox)) : Head(inbox) < c
      BY <1>0, <1>4, InboxTail DEF CommandInv
    <2>2. /\ issued' = issued /\ ~CommandEnds
          /\ inbox' = Tail(inbox) /\ (running' = NoCommand \/ running' = Head(inbox))
          /\ CommandRefused => running' = NoCommand
      BY <1>0, <1>4 DEF CommandStarts, CommandRefused, CommandEnds
    <2>3. Waiting' \subseteq Waiting
      BY <2>1, <2>2, <1>0 DEF Waiting
    <2>4. ASSUME NEW c \in Commands, Replies(c)
          PROVE  c \in Waiting /\ \A d \in Waiting' : c < d
      <3>1. c = Head(inbox) /\ running' = NoCommand
        BY <2>2, <2>4 DEF Replies
      <3>2. Waiting' = Elements(Tail(inbox))
        BY <1>0, <2>2, <3>1 DEF Waiting
      <3>3. QED
        BY <2>1, <3>1, <3>2 DEF Waiting
    <2>5. QED
      BY <1>0, <2>2, <2>3, <2>4
  <1>5. CASE CommandEnds
    BY <1>0, <1>5, HeadAndTail DEF CommandEnds, CommandRefused, Replies, Waiting, CommandInv
  <1>6. QED
    BY <1>1, <1>2, <1>3, <1>4, <1>5, CommandEffect
    DEF NoReply, Replies, CommandStarts, CommandRefused

LEMMA ElementsEffect ==
  ASSUME TypeOK, [Next]_vars
  PROVE  \/ Elements(History') \subseteq Elements(History)
         \/ \E m \in Message :
              /\ m.id = created + 1
              /\ Adds(m)
              /\ Elements(History') = Elements(History) \cup {m}
  <1>1. History \in Seq(Message)
    BY Parts
  <1>2. ASSUME NEW s \in Seq(Message), NEW t \in Seq(Message), NEW u \in Seq(Message)
        PROVE  Elements(s \o u) \subseteq Elements(s \o t \o u)
    <2> DEFINE st == s \o t
    <2>1. st \in Seq(Message) /\ Elements(st) = Elements(s) \cup Elements(t)
      BY ElementsOfConcat
    <2> HIDE DEF st
    <2>2. /\ Elements(st \o u) = Elements(st) \cup Elements(u)
          /\ Elements(s \o u) = Elements(s) \cup Elements(u)
      BY <2>1, ElementsOfConcat
    <2>3. QED
      BY <2>1, <2>2 DEF st
  <1>3. CASE \E s, t, u \in Seq(Message) : History = s \o t \o u /\ History' = s \o u
    BY <1>2, <1>3
  <1>4. ASSUME NEW m \in Message, History' = Append(History, m)
        PROVE  Elements(History') = Elements(History) \cup {m}
    BY <1>1, <1>4, ElementsOfAppend
  <1>5. QED
    BY <1>3, <1>4, HistoryEffect

LEMMA ReplyStepInv ==
  ASSUME LinkInv, CommandInv, ReplyInv, [Next]_vars
  PROVE  ReplyInv'
  <1> USE DEF LinkInv
  <1>0. /\ issued \in Nat /\ created \in Nat /\ Commands \subseteq Nat
        /\ Elements(History) \subseteq Message
    BY Parts, ElementsInSet, CloudLinkAssumption DEF TypeOK
  <1>1. ASSUME NEW m \in Elements(History), IsReply(m)
        PROVE  m.cmd \in Commands /\ m.cmd <= issued' /\ \A c \in Waiting' : m.cmd < c
    <2>1. m.cmd \in Commands /\ m.cmd <= issued /\ \A c \in Waiting : m.cmd < c
      BY <1>1 DEF ReplyInv
    <2>2. /\ m.cmd \in Nat /\ issued' \in Nat /\ issued <= issued'
          /\ \A c \in Waiting' : c \in Waiting \/ c = issued + 1
      BY <1>0, <2>1, WaitingEffect
    <2>3. QED
      BY <1>0, <2>1, <2>2
  <1>2. CASE Elements(History') \subseteq Elements(History)
    BY <1>1, <1>2 DEF ReplyInv, IsReply
  <1>3. ASSUME NEW m \in Message, m.id = created + 1, Adds(m),
               Elements(History') = Elements(History) \cup {m}
        PROVE  ReplyInv'
    <2>1. \A n \in Elements(History) : ~(m.id < n.id)
      BY <1>0, <1>3 DEF IdsInv
    <2>2. CASE ~IsReply(m)
      BY <1>1, <1>3, <2>2 DEF ReplyInv, IsReply
    <2>3. CASE IsReply(m)
      <3>1. Replies(m.cmd) /\ m.cmd \in Commands
        <4>1. Replies(m.cmd)
          BY <1>3, <2>3, CommandEffect
        <4>2. QED
          BY <4>1, HeadAndTail DEF Replies, CommandEnds, CommandRefused, TypeOK
      <3>2. m.cmd \in Waiting /\ \A c \in Waiting' : m.cmd < c
        BY <3>1, WaitingEffect
      <3>3. m.cmd <= issued'
        <4>1. m.cmd <= issued /\ m.cmd \in Nat
          BY <1>0, <3>1, <3>2 DEF CommandInv
        <4>2. issued' \in Nat /\ issued <= issued'
          BY WaitingEffect
        <4>3. QED
          BY <1>0, <4>1, <4>2
      <3>4. \A n \in Elements(History) : IsReply(n) => n.cmd < m.cmd
        BY <3>2 DEF ReplyInv
      <3>5. \A k, n \in Elements(History') : IsReply(k) /\ IsReply(n) /\ k.id < n.id => k.cmd < n.cmd
        BY <1>0, <1>3, <2>1, <3>4 DEF ReplyInv
      <3>6. QED
        BY <1>1, <1>3, <3>1, <3>2, <3>3, <3>5 DEF ReplyInv, IsReply
    <2>4. QED
      BY <2>2, <2>3
  <1>4. QED
    BY <1>2, <1>3, ElementsEffect

-----------------------------------------------------------------------------
(* Rings that became too old in the queue.                                 *)

LEMMA QueueSorted ==
  ASSUME LinkInv
  PROVE  /\ Sorted(queue)
         /\ \A m \in Elements(received) \cup Elements(wire) \cup Elements(sender) :
              \A n \in Elements(queue) : m.id < n.id
  <1> DEFINE front == wire \o sender
  <1>1. /\ front \in Seq(Message) /\ queue \in Seq(Message)
        /\ Outgoing \in Seq(Message) /\ received \in Seq(Message)
        /\ Elements(front) = Elements(wire) \cup Elements(sender)
        /\ Elements(Outgoing) = Elements(wire) \cup Elements(sender) \cup Elements(queue)
    BY Parts DEF LinkInv, TypeOK
  <1>2. Outgoing = front \o queue /\ History = received \o Outgoing /\ Sorted(History)
    BY DEF Outgoing, History, LinkInv, IdsInv
  <1> HIDE DEF front
  <1>3. /\ Sorted(Outgoing)
        /\ \A m \in Elements(received), n \in Elements(Outgoing) : m.id < n.id
    BY <1>1, <1>2, SortedConcat
  <1>4. /\ Sorted(queue)
        /\ \A m \in Elements(front), n \in Elements(queue) : m.id < n.id
    BY <1>1, <1>2, <1>3, SortedConcat
  <1>5. QED
    BY <1>1, <1>3, <1>4

Away == Elements(received) \cup Elements(wire) \cup Elements(sender)

LEMMA DoomedStepInv ==
  ASSUME LinkInv, DoomedInv, [Next]_vars
  PROVE  DoomedInv'
  <1>0. /\ queue \in Seq(Message) /\ wire \in Seq(Message) /\ sender \in Seq(Message)
        /\ received \in Seq(Message) /\ created \in Nat /\ expired \in Nat
        /\ doomed \subseteq 1..created
    BY DEF LinkInv, TypeOK
  <1>1. CASE TimePasses
    <2>1. PICK k \in DOMAIN queue :
            /\ queue[k].id > expired
            /\ expired' = queue[k].id
            /\ doomed' = doomed \cup {queue[i].id : i \in {j \in 1..k : queue[j].kind = "ring"}}
      BY <1>1 DEF TimePasses
    <2>2. /\ UNCHANGED <<queue, sender, wire, received>>
      BY <1>1 DEF TimePasses, queueVars, wireVars
    <2>3. /\ DOMAIN queue = 1..Len(queue) /\ Len(queue) \in Nat /\ k \in 1..Len(queue)
          /\ \A j \in 1..Len(queue) : queue[j] \in Elements(queue) /\ queue[j].id \in Nat
      <3>1. \A j \in 1..Len(queue) : queue[j] \in Message
        BY <1>0, ElementOfSeq
      <3>2. QED
        BY <1>0, <3>1, LenProperties DEF Elements, Message
    <2>4. \A j \in 1..k : j \in 1..Len(queue) /\ queue[j].id <= queue[k].id
      BY <2>3, QueueSorted DEF Sorted
    <2>5. \A i \in doomed' : i <= expired'
      BY <1>0, <2>1, <2>3, <2>4 DEF DoomedInv
    <2>6. \A m \in Away : \A j \in 1..Len(queue) : m.id # queue[j].id
      <3> SUFFICES ASSUME NEW m \in Away, NEW j \in 1..Len(queue)
                   PROVE  m.id # queue[j].id
        OBVIOUS
      <3>1. m.id < queue[j].id
        BY <2>3, QueueSorted DEF Away
      <3>2. m.id \in Nat
        BY <1>0, ElementsInSet DEF Away, Message
      <3>3. QED
        BY <2>3, <3>1, <3>2
    <2>7. \A m \in Away' : m.id \notin doomed'
      BY <2>1, <2>2, <2>3, <2>4, <2>6 DEF DoomedInv, Away
    <2>8. ASSUME NEW m \in Elements(queue), NEW j \in 1..Len(queue), m.id = queue[j].id
          PROVE  m = queue[j]
      <3>1. PICK i \in 1..Len(queue) : m = queue[i]
        BY <2>3 DEF Elements
      <3>2. ~(i < j) /\ ~(j < i)
        BY <2>3, <2>8, <3>1, QueueSorted DEF Sorted
      <3>3. QED
        BY <2>3, <3>1, <3>2
    <2>9. \A m \in Elements(queue') : m.id \in doomed' => m.kind = "ring"
      <3> SUFFICES ASSUME NEW m \in Elements(queue), m.id \in doomed'
                   PROVE  m.kind = "ring"
        BY <2>2
      <3>1. CASE m.id \in doomed
        BY <3>1 DEF DoomedInv
      <3>2. CASE m.id \notin doomed
        <4>1. PICK j \in 1..k : queue[j].kind = "ring" /\ m.id = queue[j].id
          BY <2>1, <3>2
        <4>2. QED
          BY <2>4, <2>8, <4>1
      <3>3. QED
        BY <3>1, <3>2
    <2>10. QED
      BY <2>5, <2>7, <2>9 DEF DoomedInv, Away
  <1>2. ASSUME UNCHANGED agedVars,
               \A m \in Away' : m \in Away \/ m.id \notin doomed,
               \A m \in Elements(queue') : m \in Elements(queue) \/ m.id = created + 1
        PROVE  DoomedInv'
    <2>1. doomed' = doomed /\ expired' = expired
      BY <1>2 DEF agedVars
    <2>2. \A m \in Away' : m.id \notin doomed
      BY <1>2 DEF DoomedInv, Away
    <2>3. \A m \in Elements(queue') : m.id \in doomed => m.kind = "ring"
      BY <1>0, <1>2 DEF DoomedInv
    <2>4. QED
      BY <2>1, <2>2, <2>3 DEF DoomedInv, Away
  <1>3. CASE \/ Dial \/ DialFails \/ HandshakeRefused \/ HandshakeOk
             \/ CloudSendsCommand \/ ReadCommand \/ HandlerActs \/ UNCHANGED vars
    <2>1. UNCHANGED <<queueVars, wireVars, agedVars>>
      BY <1>3, Zenon DEF Dial, DialFails, HandshakeRefused, HandshakeOk,
         CloudSendsCommand, ReadCommand, HandlerActs, vars
    <2>2. QED
      BY <2>1 DEF DoomedInv, queueVars, wireVars, agedVars
  <1>4. CASE \/ RaiseEvent \/ SendSnapshot \/ SendActiveCall \/ RefuseUnknown
             \/ HandlerReturns \/ HandlerRaises
    <2>1. UNCHANGED <<wireVars, agedVars>>
      BY <1>4, Zenon DEF RaiseEvent, SendSnapshot, SendActiveCall, RefuseUnknown,
         HandlerReturns, HandlerRaises
    <2>2. Enqueued \/ UNCHANGED queueVars
      <3>1. CASE RefuseUnknown
        BY <3>1, HeadAndTail DEF RefuseUnknown, Enqueued, Kinds, LinkInv, TypeOK
      <3>2. CASE RaiseEvent \/ SendSnapshot \/ SendActiveCall
        BY <3>2 DEF RaiseEvent, SendSnapshot, SendActiveCall, Enqueued, Kinds
      <3>3. CASE HandlerReturns \/ HandlerRaises
        BY <3>3 DEF HandlerReturns, HandlerRaises, Enqueued, Kinds, LinkInv, TypeOK
      <3>4. QED
        BY <1>4, <3>1, <3>2, <3>3
    <2>3. Away' = Away
      BY <2>1, <2>2 DEF Away, Enqueued, Enqueue, wireVars, queueVars
    <2>4. \A m \in Elements(queue') : m \in Elements(queue) \/ m.id = created + 1
      <3>1. ASSUME NEW kind \in Kinds, NEW cmd \in Commands \cup {NoCommand}, Enqueue(kind, cmd)
            PROVE  \A m \in Elements(queue') : m \in Elements(queue) \/ m.id = created + 1
        <4> DEFINE n == [id |-> created + 1, kind |-> kind, cmd |-> cmd]
        <4>1. n \in Message /\ n.id = created + 1
          BY <1>0 DEF Message
        <4>2. queue' = queue \/ queue' = Append(queue, n)
          BY <3>1 DEF Enqueue
        <4> HIDE DEF n
        <4>3. Elements(Append(queue, n)) = Elements(queue) \cup {n}
          BY <1>0, <4>1, ElementsOfAppend
        <4>4. QED
          BY <4>1, <4>2, <4>3
      <3>2. QED
        BY <2>2, <3>1 DEF Enqueued, queueVars
    <2>5. QED
      BY <1>2, <2>1, <2>3, <2>4
  <1>5. CASE SessionEnds \/ Restart
    <2>1. /\ wire' = <<>> /\ sender' = <<>> /\ (queue' = <<>> \/ queue' = queue)
          /\ received' = received /\ UNCHANGED agedVars
      BY <1>5 DEF SessionEnds, Restart
    <2>2. Elements(<<>>) = {}
      BY DEF Elements
    <2>3. QED
      BY <1>2, <2>1, <2>2 DEF Away
  <1>6. CASE TakeMessage
    <2>1. /\ queue # <<>> /\ queue' = Tail(queue) /\ UNCHANGED <<wire, received>>
          /\ UNCHANGED agedVars
          /\ sender' = IF IsStaleRing(Head(queue)) THEN <<>> ELSE <<Head(queue)>>
      BY <1>6, Zenon DEF TakeMessage, wireVars
    <2>2. Elements(queue) = {Head(queue)} \cup Elements(Tail(queue)) /\ Head(queue) \in Message
      BY <1>0, <2>1, HeadAndTail
    <2>3. Head(queue).id \in doomed => IsStaleRing(Head(queue))
      BY <2>2 DEF DoomedInv, IsStaleRing
    <2>4. \A m \in Elements(sender') : m.id \notin doomed
      BY <2>1, <2>3 DEF Elements
    <2>5. QED
      BY <1>2, <2>1, <2>2, <2>4 DEF Away
  <1>7. CASE SendMessage
    <2>1. /\ sender # <<>> /\ wire' = Append(wire, Head(sender)) /\ sender' = <<>>
          /\ UNCHANGED <<queue, received>> /\ UNCHANGED agedVars
      BY <1>7, Zenon DEF SendMessage
    <2>2. /\ Head(sender) \in Elements(sender) /\ Elements(<<>>) = {}
          /\ Elements(wire') = Elements(wire) \cup {Head(sender)}
      <3>1. Head(sender) \in Elements(sender) /\ Head(sender) \in Message
        BY <1>0, <2>1, HeadAndTail
      <3>2. Elements(<<>>) = {}
        BY DEF Elements
      <3>3. QED
        BY <1>0, <2>1, <3>1, <3>2, ElementsOfAppend
    <2>3. QED
      BY <1>2, <2>1, <2>2 DEF Away
  <1>8. CASE CloudReceives
    <2>1. /\ wire # <<>> /\ received' = Append(received, Head(wire)) /\ wire' = Tail(wire)
          /\ UNCHANGED <<queue, sender>> /\ UNCHANGED agedVars
      BY <1>8, Zenon DEF CloudReceives, queueVars
    <2>2. /\ Elements(wire) = {Head(wire)} \cup Elements(Tail(wire))
          /\ Elements(received') = Elements(received) \cup {Head(wire)}
      <3>1. /\ Elements(wire) = {Head(wire)} \cup Elements(Tail(wire))
            /\ Head(wire) \in Message
        BY <1>0, <2>1, HeadAndTail
      <3>2. QED
        BY <1>0, <2>1, <3>1, ElementsOfAppend
    <2>3. QED
      BY <1>2, <2>1, <2>2 DEF Away
  <1>9. QED
    BY <1>1, <1>3, <1>4, <1>5, <1>6, <1>7, <1>8 DEF Next, LinkStep, MessageStep, CommandStep

-----------------------------------------------------------------------------
(* The token.                                                              *)

(* The steps that touch the token.                                         *)
LEMMA TokenSteps ==
  ASSUME [Next]_vars
  PROVE  HandlerActs \/ Restart \/ UNCHANGED tokenVars
  BY Zenon DEF Next, LinkStep, MessageStep, CommandStep, vars,
     Dial, DialFails, HandshakeRefused, HandshakeOk, SendSnapshot, SendActiveCall, SessionEnds,
     RaiseEvent, TimePasses, TakeMessage, SendMessage, CloudReceives, CloudSendsCommand,
     ReadCommand, RefuseUnknown, HandlerReturns, HandlerRaises, tokenVars

LEMMA StoredStepInv ==
  ASSUME TypeOK, CommandInv, StoredInv, [Next]_vars
  PROVE  /\ StoredInv'
         /\ stored' >= stored
  <1>0. /\ inbox \in Seq(Commands) /\ issued \in Nat
        /\ NoCommand \notin Commands /\ Commands \subseteq Nat
        /\ \A c \in Commands : NoCommand < c
        /\ Elements(inbox) \subseteq Commands
        /\ running \in Commands \cup {NoCommand}
        /\ Rotations \subseteq Commands
    BY CloudLinkAssumption, ElementsInSet DEF TypeOK
  <1>a. /\ stored \in Nat
        /\ stored = NoCommand \/ (stored \in Commands /\ stored <= issued)
        /\ \A c \in Elements(inbox) : stored < c
        /\ running \in Commands => stored <= running
    BY CloudLinkAssumption DEF TypeOK, StoredInv
  <1>b. SUFFICES /\ stored' \in Commands => stored' <= issued'
                 /\ \A c \in Elements(inbox') : stored' < c
                 /\ running' \in Commands => stored' <= running'
                 /\ stored' >= stored
    BY DEF StoredInv
  <1>1. CASE HandlerActs
    <2>1. /\ running \in Commands /\ UNCHANGED <<inbox, issued, running>>
          /\ stored' = running \/ stored' = stored
      BY <1>0, <1>a, <1>1 DEF HandlerActs, Rotate
    <2>2. running <= issued /\ running \in Nat /\ \A c \in Elements(inbox) : running < c
      BY <1>0, <2>1 DEF CommandInv, Waiting
    <2>3. CASE stored' = running
      <3>1. /\ stored' <= issued' /\ running' = stored'
            /\ stored' <= running'
        BY <2>1, <2>2, <2>3
      <3>2. \A c \in Elements(inbox') : stored' < c
        BY <2>1, <2>2, <2>3
      <3>3. stored' >= stored
        BY <1>a, <2>1, <2>2, <2>3
      <3>4. QED
        BY <3>1, <3>2, <3>3
    <2>4. CASE stored' = stored
      BY <1>0, <1>a, <2>1, <2>4
    <2>5. QED
      BY <2>1, <2>3, <2>4
  <1>2. CASE Restart
    <2>1. /\ inbox' = <<>> /\ running' = NoCommand /\ issued' = issued
          /\ stored' = stored \/ (stored' = running /\ running \in Commands)
      BY <1>0, <1>a, <1>2 DEF Restart, LoadToken
    <2>2. Elements(<<>>) = {}
      BY DEF Elements
    <2>3. running \in Commands => running <= issued /\ running \in Nat
      BY <1>0 DEF CommandInv, Waiting
    <2>4. /\ running' \notin Commands
          /\ \A c \in Elements(inbox') : stored' < c
      BY <1>0, <2>1, <2>2
    <2>5. stored' \in Commands => stored' <= issued'
      BY <1>0, <1>a, <2>1, <2>3
    <2>6. stored' >= stored
      BY <1>a, <2>1, <2>3
    <2>7. QED
      BY <2>4, <2>5, <2>6
  <1>3. CASE UNCHANGED tokenVars
    <2>0. stored' = stored
      BY <1>3 DEF tokenVars
    <2>1. CASE CommandIdle
      BY <1>0, <1>a, <2>0, <2>1 DEF CommandIdle
    <2>2. CASE CommandsForgotten
      <3>1. Elements(<<>>) = {}
        BY DEF Elements
      <3>2. QED
        BY <1>0, <1>a, <2>0, <2>2, <3>1 DEF CommandsForgotten
    <2>3. CASE CommandArrives
      <3>1. Elements(inbox') = Elements(inbox) \cup {issued + 1}
        BY <1>0, <2>3, ElementsOfAppend DEF CommandArrives
      <3>2. stored < issued + 1 /\ (stored \in Commands => stored <= issued + 1)
        BY <1>0, <1>a, <2>3 DEF CommandArrives
      <3>3. QED
        BY <1>a, <2>0, <2>3, <3>1, <3>2 DEF CommandArrives
    <2>4. CASE CommandStarts \/ CommandRefused
      <3>1. /\ inbox # <<>> /\ issued' = issued /\ inbox' = Tail(inbox)
            /\ running' = Head(inbox) \/ running' = NoCommand
        BY <2>4 DEF CommandStarts, CommandRefused
      <3>2. Elements(inbox) = {Head(inbox)} \cup Elements(Tail(inbox))
        BY <1>0, <3>1, HeadAndTail
      <3>3. Head(inbox) \in Commands /\ stored < Head(inbox) /\ Head(inbox) \in Nat
        BY <1>0, <1>a, <3>2
      <3>4. \A c \in Elements(inbox') : stored' < c
        BY <1>a, <2>0, <3>1, <3>2
      <3>5. /\ running' \in Commands => stored' <= running'
            /\ stored' >= stored
            /\ stored' \in Commands => stored' <= issued'
        <4>1. running' \in Commands => running' = Head(inbox)
          BY <1>0, <3>1
        <4>2. QED
          BY <1>0, <1>a, <2>0, <3>1, <3>3, <4>1
      <3>6. QED
        BY <3>4, <3>5
    <2>5. CASE CommandEnds
      BY <1>0, <1>a, <2>0, <2>5 DEF CommandEnds
    <2>6. QED
      BY <2>1, <2>2, <2>3, <2>4, <2>5, CommandEffect DEF NoReply, Replies
  <1>5. QED
    BY <1>1, <1>2, <1>3, TokenSteps

LEMMA TokenStepInv ==
  ASSUME TypeOK, CommandInv, TokenInv, [Next]_vars
  PROVE  /\ TokenInv'
         /\ token' >= token \/ (unread' /\ ~unread)
  <1>1. StoredInv' /\ stored' >= stored
    BY StoredStepInv DEF TokenInv
  <1>2. /\ stored \in Nat /\ stored >= NoCommand /\ NoCommand \in Nat
        /\ NoCommand \notin Rotations /\ unread \in BOOLEAN
        /\ token = IF unread THEN NoCommand ELSE stored
    <2>1. /\ stored \in Rotations \cup {NoCommand} /\ Rotations \subseteq Commands
          /\ Commands \subseteq Nat /\ NoCommand \in Nat /\ \A c \in Commands : NoCommand < c
      BY CloudLinkAssumption DEF TypeOK
    <2>2. stored \in Nat /\ stored >= NoCommand /\ NoCommand \notin Rotations
      BY <2>1
    <2>3. unread \in BOOLEAN /\ token = IF unread THEN NoCommand ELSE stored
      BY DEF TypeOK, TokenInv
    <2>4. QED
      BY <2>1, <2>2, <2>3
  <1>3. /\ stored' \in Nat
        /\ token' = (IF unread' THEN NoCommand ELSE stored')
        /\ ~unread' \/ unread' = unread \/ token' = NoCommand
    <2>1. CASE HandlerActs
      <3>1. CASE running \in Rotations
        BY <1>2, <2>1, <3>1, CloudLinkAssumption DEF HandlerActs, Rotate
      <3>2. CASE running \notin Rotations
        BY <1>2, <2>1, <3>2 DEF HandlerActs, Rotate
      <3>3. QED
        BY <3>1, <3>2
    <2>2. CASE Restart
      BY <1>2, <2>2, CloudLinkAssumption DEF Restart, LoadToken
    <2>3. CASE UNCHANGED tokenVars
      BY <1>2, <2>3 DEF tokenVars
    <2>4. QED
      BY <2>1, <2>2, <2>3, TokenSteps
  <1>4. token' >= token \/ (unread' /\ ~unread)
    <2>1. CASE ~unread'
      BY <1>1, <1>2, <1>3, <2>1
    <2>2. CASE unread' /\ unread
      BY <1>2, <1>3, <2>2
    <2>3. CASE unread' /\ ~unread
      BY <2>3
    <2>4. QED
      BY <2>1, <2>2, <2>3
  <1>5. QED
    BY <1>1, <1>3, <1>4 DEF TokenInv

-----------------------------------------------------------------------------
(* The link: the theorems.                                                 *)

AllInv == LinkInv /\ CommandInv /\ ReplyInv /\ DoomedInv /\ TokenInv

LEMMA AllInvariant == Spec => []AllInv
  <1>1. Init => CommandInv /\ ReplyInv /\ DoomedInv /\ TokenInv
    <2> SUFFICES ASSUME Init PROVE CommandInv /\ ReplyInv /\ DoomedInv /\ TokenInv
      OBVIOUS
    <2>1. /\ History = <<>> /\ Elements(<<>>) = {}
      BY ConcatEmptySeq, EmptySeq DEF Init, History, Outgoing, Elements
    <2>2. Waiting = {} /\ NoCommand \notin Commands
      BY <2>1, CloudLinkAssumption DEF Init, Waiting
    <2>3. QED
      BY <2>1, <2>2 DEF Init, CommandInv, ReplyInv, DoomedInv, TokenInv, StoredInv
  <1>2. AllInv /\ [Next]_vars => (CommandInv /\ ReplyInv /\ DoomedInv /\ TokenInv)'
    BY CommandStepInv, ReplyStepInv, DoomedStepInv, TokenStepInv DEF AllInv, LinkInv
  <1>3. QED
    BY <1>1, <1>2, LinkInvariant, PTL DEF Spec, AllInv

(* The cloud gets the replies in the order of its commands, and at most    *)
(* one for each.                                                           *)
THEOREM RepliesAlwaysInOrder == Spec => []RepliesInOrder
  <1>1. AllInv => RepliesInOrder
    <2> SUFFICES ASSUME AllInv, NEW i \in DOMAIN History, NEW j \in DOMAIN History, i < j,
                        IsReply(History[i]), IsReply(History[j])
                 PROVE  History[i].cmd < History[j].cmd
      BY DEF RepliesInOrder
    <2>1. History \in Seq(Message) /\ DOMAIN History = 1..Len(History)
      BY Parts, LenProperties DEF AllInv, LinkInv
    <2>2. History[i] \in Elements(History) /\ History[j] \in Elements(History)
      BY <2>1 DEF Elements
    <2>3. History[i].id < History[j].id
      BY <2>1 DEF AllInv, LinkInv, IdsInv, Sorted
    <2>4. QED
      BY <2>2, <2>3 DEF AllInv, ReplyInv
  <1>2. QED
    BY <1>1, AllInvariant, PTL

(* A ring that grows older than its TTL while it waits in the queue never  *)
(* reaches the cloud.                                                      *)
THEOREM StaleRingsNeverDelivered == Spec => []StaleRingNeverDelivered
  <1>1. AllInv => StaleRingNeverDelivered
    BY DEF AllInv, DoomedInv, StaleRingNeverDelivered, Delivered, Elements
  <1>2. QED
    BY <1>1, AllInvariant, PTL

(* The token presented to the cloud is never replaced by an older one, by  *)
(* whatever a crash or a lost session cuts a rotation short, other than by *)
(* a start that cannot read the file.                                      *)
THEOREM TokenNeverOlder == Spec => NeverOlderToken
  <1>1. AllInv /\ [Next]_vars => [token' >= token \/ (unread' /\ ~unread)]_vars
    BY TokenStepInv DEF AllInv, LinkInv
  <1>2. QED
    BY <1>1, AllInvariant, PTL DEF Spec, NeverOlderToken

-----------------------------------------------------------------------------
(* Call commands: types.                                                   *)

YesNo == {"yes", "no"}

Command ==
  [kind : {"reject", "answer", "reinvite", "unlock"}, at : Places \ {"idle"},
   call : Calls \cup {NoCall}, phone : Phones \cup {NoPhone}, device : Devices \cup {NoDevice},
   ok : YesNo, stale : YesNo, slot : Calls \cup {NoCall}, switched : Nat,
   listed : SUBSET Ends, left : SUBSET Ends, missed : YesNo, polls : Nat,
   picked : Calls \cup {NoCall}, door : Devices \cup {NoDevice},
   names : Calls \cup {NoCall}, steady : YesNo]

TasksOK == task \in [Tasks -> Command \cup {Idle}]

(* What a command was issued with stays as it is.                          *)
Given(r) == <<r.kind, r.call, r.phone, r.device, r.stale, r.slot, r.switched>>

(* Task t becomes the command r, and no other task changes.                *)
Becomes(t, r) ==
  /\ task' \in [Tasks -> Command \cup {Idle}]
  /\ r \in Command
  /\ task'[t] = r
  /\ \A u \in Tasks \ {t} : task'[u] = task[u]

LEMMA CommandNotIdle ==
  ASSUME NEW r \in Command
  PROVE  r # Idle /\ r.at # "idle" /\ r.at \in Places
  BY DEF Command, Idle

LEMMA ChangeTask ==
  ASSUME TasksOK, NEW t \in Tasks, NEW r \in Command, task' = [task EXCEPT ![t] = r]
  PROVE  Becomes(t, r)
  BY DEF TasksOK, Becomes

LEMMA GotoFacts ==
  ASSUME TasksOK, NEW t \in Tasks, task[t] \in Command, NEW place \in Places \ {"idle"},
         Goto(t, place)
  PROVE  \E r \in Command :
           /\ Becomes(t, r)
           /\ Given(r) = Given(task[t]) /\ r.at = place
           /\ r.ok = task[t].ok /\ r.listed = task[t].listed /\ r.left = task[t].left
           /\ r.missed = task[t].missed /\ r.polls = task[t].polls
           /\ r.picked = task[t].picked /\ r.door = task[t].door
           /\ r.names = task[t].names /\ r.steady = task[t].steady
  <1> DEFINE r == [task[t] EXCEPT !.at = place]
  <1>1. r \in Command
    BY DEF Command
  <1>2. task' = [task EXCEPT ![t] = r]
    BY DEF Goto
  <1>3. Becomes(t, r)
    BY <1>1, <1>2, ChangeTask
  <1>4. /\ Given(r) = Given(task[t]) /\ r.at = place
        /\ r.ok = task[t].ok /\ r.listed = task[t].listed /\ r.left = task[t].left
        /\ r.missed = task[t].missed /\ r.polls = task[t].polls
        /\ r.picked = task[t].picked /\ r.door = task[t].door
        /\ r.names = task[t].names /\ r.steady = task[t].steady
    BY DEF Command, Given
  <1>5. QED
    BY <1>1, <1>3, <1>4

LEMMA ReplyFacts ==
  ASSUME TasksOK, NEW t \in Tasks, task[t] \in Command, NEW ok \in YesNo, Reply(t, ok)
  PROVE  \E r \in Command :
           /\ Becomes(t, r)
           /\ Given(r) = Given(task[t]) /\ r.at = "done" /\ r.ok = ok /\ r.polls = 0
           /\ r.listed = task[t].listed /\ r.left = task[t].left
           /\ r.missed = task[t].missed
           /\ r.picked = task[t].picked /\ r.door = task[t].door
           /\ r.names = task[t].names /\ r.steady = task[t].steady
  <1> DEFINE r == [task[t] EXCEPT !.at = "done", !.ok = ok, !.polls = 0]
  <1>1. r \in Command
    <2>1. "done" \in Places \ {"idle"} /\ 0 \in Nat
      BY DEF Places
    <2>2. QED
      BY <2>1 DEF Command
  <1>2. task' = [task EXCEPT ![t] = r]
    BY DEF Reply
  <1>3. Becomes(t, r)
    BY <1>1, <1>2, ChangeTask
  <1>4. /\ Given(r) = Given(task[t]) /\ r.at = "done" /\ r.ok = ok /\ r.polls = 0
        /\ r.listed = task[t].listed /\ r.left = task[t].left
        /\ r.missed = task[t].missed
        /\ r.picked = task[t].picked /\ r.door = task[t].door
        /\ r.names = task[t].names /\ r.steady = task[t].steady
    BY DEF Command, Given
  <1>5. QED
    BY <1>1, <1>3, <1>4

-----------------------------------------------------------------------------
(* Channels, slot and devices: what one step can change of them.           *)

WorldOK ==
  /\ chan \in [Calls -> [Ends -> {"none", "up", "gone"}]]
  /\ invited \subseteq Calls \X Phones
  /\ contacts \subseteq Phones
  /\ ami \in {"up", "down"}
  /\ active \in Calls \cup {NoCall}
  /\ active # NoCall => chan[active][Panel] # "none"
  /\ unlock \in [Devices -> {"on", "disabled", "off"}]
  /\ commanded \subseteq Tasks
  /\ mishaps \in 0 .. MaxMishaps
  /\ switched \in 0 .. mishaps

(* The panel has hung up and no channel of the call is left.               *)
Dead(c) == chan[c][Panel] = "gone" /\ Group(c) = {}

(* A channel that has gone stays so, a dead call too, a call comes into    *)
(* the slot only when its panel begins to call, and a device that changes  *)
(* is counted.                                                             *)
Forward ==
  /\ \A c \in Calls, x \in Ends : /\ chan[c][x] = "gone" => chan'[c][x] = "gone"
                                  /\ chan[c][x] # "none" => chan'[c][x] # "none"
  /\ \A c \in Calls : Dead(c) => Dead(c)'
  /\ \A c \in Calls : active' = c => active = c \/ chan[c][Panel] = "none"
  /\ switched' >= switched
  /\ switched' = switched => unlock' = unlock

(* What can become of one channel.                                         *)
ChannelStep(c, x) ==
  \/ chan'[c][x] = chan[c][x]
  \/ chan[c][x] # "none" /\ chan'[c][x] = "gone"
  \/ chan[c][x] = "none" /\ chan'[c][x] = "up" /\ (x = Panel \/ chan[c][Panel] = "up")

LEMMA PanelIsEnd == Panel \in Ends /\ \A x \in Phones : x \in Ends /\ x # Panel
  BY CallCommandsAssumption DEF Ends

LEMMA ForwardChannels ==
  ASSUME WorldOK, \A c \in Calls, x \in Ends : ChannelStep(c, x)
  PROVE  /\ \A c \in Calls, x \in Ends : /\ chan[c][x] = "gone" => chan'[c][x] = "gone"
                                         /\ chan[c][x] # "none" => chan'[c][x] # "none"
         /\ \A c \in Calls : Dead(c) => Dead(c)'
  <1>1. \A c \in Calls, x \in Ends : /\ chan[c][x] = "gone" => chan'[c][x] = "gone"
                                     /\ chan[c][x] # "none" => chan'[c][x] # "none"
    BY DEF ChannelStep
  <1>2. ASSUME NEW c \in Calls, Dead(c)
        PROVE  Dead(c)'
    <2>1. chan[c][Panel] = "gone" /\ chan'[c][Panel] = "gone"
      BY <1>1, <1>2, PanelIsEnd DEF Dead
    <2>2. ASSUME NEW x \in Ends, chan'[c][x] = "up"
          PROVE  FALSE
      <3>1. chan[c][x] # "up"
        BY <1>2 DEF Dead, Group
      <3>2. QED
        BY <2>1, <2>2, <3>1 DEF ChannelStep
    <2>3. QED
      BY <2>1, <2>2 DEF Dead, Group
  <1>3. QED
    BY <1>1, <1>2

LEMMA HangUpFacts ==
  ASSUME WorldOK, NEW c \in Calls, NEW x \in Ends, chan[c][x] = "up", HangUp(c, x)
  PROVE  /\ chan' \in [Calls -> [Ends -> {"none", "up", "gone"}]]
         /\ chan'[c][x] = "gone"
         /\ \A d \in Calls, y \in Ends : ChannelStep(d, y)
         /\ active' \in {active, NoCall}
  <1>1. PICK S \in SUBSET (IF x = Panel THEN Group(c) ELSE {}) :
          chan' = [chan EXCEPT ![c] = [y \in Ends |-> IF y \in S \cup {x} THEN "gone" ELSE @[y]]]
    BY DEF HangUp
  <1>2. \A y \in S : y \in Ends /\ chan[c][y] = "up"
    BY DEF Group
  <1>3. /\ chan' \in [Calls -> [Ends -> {"none", "up", "gone"}]]
        /\ chan'[c][x] = "gone"
        /\ \A d \in Calls \ {c}, y \in Ends : chan'[d][y] = chan[d][y]
        /\ \A y \in Ends : chan'[c][y] = IF y \in S \cup {x} THEN "gone" ELSE chan[c][y]
    BY <1>1 DEF WorldOK
  <1>4. \A d \in Calls, y \in Ends : ChannelStep(d, y)
    BY <1>2, <1>3 DEF ChannelStep
  <1>5. active' \in {active, NoCall}
    BY DEF HangUp
  <1>6. QED
    BY <1>3, <1>4, <1>5

(* A command that hangs up does so at one of the ends of its call.         *)
HangsAtEnds ==
  task[Cloud].at = "hang" => task[Cloud].call \in Calls /\ task[Cloud].left \subseteq Ends

LEMMA RejectHangWorld ==
  ASSUME WorldOK, HangsAtEnds, RejectHang
  PROVE  \/ UNCHANGED <<chan, active>>
         \/ \E x \in Ends : chan[task[Cloud].call][x] = "up" /\ HangUp(task[Cloud].call, x)
  BY DEF RejectHang, HangsAtEnds

LEMMA MishapFacts ==
  ASSUME WorldOK, Mishap
  PROVE  mishaps' \in 0 .. MaxMishaps /\ mishaps' = mishaps + 1 /\ switched \in 0 .. mishaps'
                   /\ switched + 1 \in 0 .. mishaps'
  BY CallCommandsAssumption DEF WorldOK, Mishap

(* Steps that leave channels, slot and devices alone.                      *)
LEMMA Unmoved ==
  ASSUME WorldOK, UNCHANGED <<chan, active, unlock, switched>>
  PROVE  Forward
  <1>1. \A c \in Calls, x \in Ends : ChannelStep(c, x)
    BY DEF ChannelStep
  <1>2. switched' >= switched
    BY CallCommandsAssumption DEF WorldOK
  <1>3. QED
    BY <1>1, <1>2, ForwardChannels DEF Forward

LEMMA EnvironmentWorld ==
  ASSUME WorldOK, Environment
  PROVE  WorldOK' /\ Forward
  <1>1. /\ mishaps \in Nat /\ switched \in Nat /\ switched >= switched
        /\ NoCall \notin Calls
    BY CallCommandsAssumption DEF WorldOK
  <1>2. ASSUME NEW c \in Calls, StartCall(c)
        PROVE  WorldOK' /\ Forward
    <2>1. /\ chan[c][Panel] = "none"
          /\ chan' = [chan EXCEPT ![c][Panel] = "up"]
          /\ active' \in {c, active}
          /\ UNCHANGED <<invited, contacts, ami, unlock, commanded, mishaps, switched>>
      BY <1>2 DEF StartCall, counterVars
    <2>2. /\ chan' \in [Calls -> [Ends -> {"none", "up", "gone"}]]
          /\ chan'[c][Panel] = "up"
          /\ \A d \in Calls, x \in Ends : ChannelStep(d, x)
      BY <2>1, PanelIsEnd DEF WorldOK, ChannelStep
    <2>3. WorldOK'
      BY <1>1, <2>1, <2>2, ForwardChannels, PanelIsEnd DEF WorldOK
    <2>4. \A d \in Calls : active' = d => active = d \/ chan[d][Panel] = "none"
      BY <1>1, <2>1, <2>2
    <2>5. switched' = switched /\ switched' >= switched
      BY <1>1, <2>1
    <2>6. Forward
      BY <2>1, <2>2, <2>4, <2>5, ForwardChannels DEF Forward
    <2>7. QED
      BY <2>3, <2>6
  <1>3. ASSUME NEW c \in Calls, NEW x \in Phones, DialLeg(c, x)
        PROVE  WorldOK' /\ Forward
    <2>1. /\ chan[c][Panel] = "up" /\ chan[c][x] = "none"
          /\ chan' = [chan EXCEPT ![c][x] = "up"]
          /\ UNCHANGED <<invited, contacts, ami, active, unlock, commanded, mishaps, switched>>
      BY <1>3 DEF DialLeg, slotVars, counterVars
    <2>2. /\ chan' \in [Calls -> [Ends -> {"none", "up", "gone"}]]
          /\ \A d \in Calls, y \in Ends : ChannelStep(d, y)
      BY <2>1, PanelIsEnd DEF WorldOK, ChannelStep
    <2>3. WorldOK'
      BY <1>1, <2>1, <2>2, ForwardChannels, PanelIsEnd DEF WorldOK
    <2>4. \A d \in Calls : active' = d => active = d \/ chan[d][Panel] = "none"
      BY <1>1, <2>1, <2>2
    <2>5. switched' = switched /\ switched' >= switched
      BY <1>1, <2>1
    <2>6. Forward
      BY <2>1, <2>2, <2>4, <2>5, ForwardChannels DEF Forward
    <2>7. QED
      BY <2>3, <2>6
  <1>4. ASSUME NEW c \in Calls, NEW x \in Ends, EndHangsUp(c, x)
        PROVE  WorldOK' /\ Forward
    <2>1. /\ chan[c][x] = "up" /\ HangUp(c, x)
          /\ UNCHANGED <<invited, contacts, ami, unlock, commanded, mishaps, switched>>
      BY <1>4 DEF EndHangsUp, counterVars
    <2>2. /\ chan' \in [Calls -> [Ends -> {"none", "up", "gone"}]]
          /\ \A d \in Calls, y \in Ends : ChannelStep(d, y)
          /\ active' \in {active, NoCall}
      BY <2>1, HangUpFacts
    <2>3. WorldOK'
      BY <1>1, <2>1, <2>2, ForwardChannels, PanelIsEnd DEF WorldOK
    <2>4. \A d \in Calls : active' = d => active = d \/ chan[d][Panel] = "none"
      BY <1>1, <2>1, <2>2
    <2>5. switched' = switched /\ switched' >= switched
      BY <1>1, <2>1
    <2>6. Forward
      BY <2>1, <2>2, <2>4, <2>5, ForwardChannels DEF Forward
    <2>7. QED
      BY <2>3, <2>6
  <1>5. CASE InviteEnds \/ AmiConnect \/ \E x \in Phones : ContactChanges(x)
    <2>1. /\ UNCHANGED <<chan, active, unlock, commanded, switched>>
          /\ invited' \subseteq invited
          /\ contacts' \subseteq Phones
          /\ ami' \in {"up", "down"}
      BY <1>5
      DEF InviteEnds, AmiConnect, ContactChanges, WorldOK, asteriskVars, slotVars, counterVars
    <2>2. mishaps' = mishaps \/ Mishap
      BY <1>5 DEF InviteEnds, AmiConnect, ContactChanges
    <2>3. mishaps' \in 0 .. MaxMishaps /\ switched \in 0 .. mishaps'
      BY <2>2, MishapFacts DEF WorldOK
    <2>4. Forward
      BY <2>1, Unmoved
    <2>5. WorldOK'
      BY <2>1, <2>3 DEF WorldOK
    <2>6. QED
      BY <2>4, <2>5
  <1>6. ASSUME NEW d \in Devices, SwitchDevice(d)
        PROVE  WorldOK' /\ Forward
    <2>1. /\ UNCHANGED <<chan, invited, contacts, ami, active, commanded>>
          /\ Mishap /\ switched' = switched + 1
          /\ unlock' \in [Devices -> {"on", "disabled", "off"}]
      BY <1>6 DEF SwitchDevice, asteriskVars, slotVars, WorldOK
    <2>2. /\ mishaps' \in 0 .. MaxMishaps /\ switched' \in 0 .. mishaps'
          /\ switched' >= switched /\ switched' # switched
      BY <1>1, <2>1, MishapFacts
    <2>3. \A c \in Calls, x \in Ends : ChannelStep(c, x)
      BY <2>1 DEF ChannelStep
    <2>4. WorldOK'
      BY <2>1, <2>2 DEF WorldOK
    <2>5. \A c \in Calls : active' = c => active = c
      BY <2>1
    <2>6. QED
      BY <2>2, <2>3, <2>4, <2>5, ForwardChannels DEF Forward
  <1>7. CASE AmiDown \/ SessionDrops
    <2>1. /\ UNCHANGED <<chan, invited, contacts, active, unlock, commanded, switched>>
          /\ Mishap /\ ami' \in {"up", "down"}
      BY <1>7 DEF AmiDown, SessionDrops, WorldOK, asteriskVars, slotVars, counterVars
    <2>2. mishaps' \in 0 .. MaxMishaps /\ switched \in 0 .. mishaps'
      BY <2>1, MishapFacts
    <2>3. Forward
      BY <2>1, Unmoved
    <2>4. WorldOK'
      BY <2>1, <2>2 DEF WorldOK
    <2>5. QED
      BY <2>3, <2>4
  <1>8. CASE CommandsRestart
    <2>1. /\ UNCHANGED <<chan, invited, contacts, unlock, commanded, switched>>
          /\ Mishap /\ ami' = "down" /\ active' = NoCall
      BY <1>8 DEF CommandsRestart, asteriskVars, counterVars
    <2>2. mishaps' \in 0 .. MaxMishaps /\ switched \in 0 .. mishaps'
      BY <2>1, MishapFacts
    <2>3. \A c \in Calls, x \in Ends : ChannelStep(c, x)
      BY <2>1 DEF ChannelStep
    <2>4. QED
      BY <1>1, <2>1, <2>2, <2>3, ForwardChannels DEF WorldOK, Forward
  <1>9. QED
    BY <1>2, <1>3, <1>4, <1>5, <1>6, <1>7, <1>8 DEF Environment

(* The handlers change the channels only when they hang up.                *)
LEMMA HandlerWorld ==
  ASSUME WorldOK, HangsAtEnds, NEW t \in Tasks, HandlerStep(t),
         task[Cloud].at = "originate" =>
           task[Cloud].call \in Calls /\ task[Cloud].phone \in Phones
  PROVE  WorldOK' /\ Forward
  <1>1. mishaps' = mishaps \/ Mishap
    BY DEF HandlerStep, RejectList, RejectHang, RejectEnds, FindChannel, FindLeg, Poll,
           Originate, PickDoor, PickDoorOf, PickAnyDoor, OpenDoor, Acknowledge, Answers, NoAnswer
  <1>2. mishaps' \in 0 .. MaxMishaps /\ switched \in 0 .. mishaps'
    BY <1>1, MishapFacts DEF WorldOK
  <1>3. UNCHANGED <<contacts, ami, unlock, commanded, switched>>
    BY DEF HandlerStep, RejectList, RejectHang, RejectEnds, FindChannel, FindLeg, Poll,
           Originate, PickDoor, PickDoorOf, PickAnyDoor, OpenDoor, Acknowledge,
           asteriskVars, slotVars, counterVars
  <1>4. CASE RejectHang
    <2>1. UNCHANGED invited
      BY <1>4 DEF RejectHang
    <2>2. /\ chan' \in [Calls -> [Ends -> {"none", "up", "gone"}]]
          /\ \A d \in Calls, y \in Ends : ChannelStep(d, y)
          /\ active' \in {active, NoCall}
      <3>1. CASE UNCHANGED <<chan, active>>
        BY <3>1 DEF WorldOK, ChannelStep
      <3>2. CASE \E x \in Ends : chan[task[Cloud].call][x] = "up" /\ HangUp(task[Cloud].call, x)
        BY <1>4, <3>2, HangUpFacts DEF RejectHang, HangsAtEnds
      <3>3. QED
        BY <1>4, <3>1, <3>2, RejectHangWorld
    <2>3. NoCall \notin Calls
      BY CallCommandsAssumption
    <2>4. WorldOK'
      BY <1>2, <1>3, <2>1, <2>2, <2>3, ForwardChannels, PanelIsEnd DEF WorldOK
    <2>5. switched' >= switched
      BY <1>3, CallCommandsAssumption DEF WorldOK
    <2>6. QED
      BY <1>3, <2>2, <2>3, <2>4, <2>5, ForwardChannels DEF Forward
  <1>5. CASE ~RejectHang
    <2>1. UNCHANGED <<chan, active>>
      BY <1>5 DEF HandlerStep, RejectList, RejectEnds, FindChannel, FindLeg, Poll,
           Originate, PickDoor, PickDoorOf, PickAnyDoor, OpenDoor, Acknowledge,
           asteriskVars, slotVars
    <2>2. invited' = invited \/ Originate
      BY <1>5 DEF HandlerStep, RejectList, RejectEnds, FindChannel, FindLeg, Poll,
           PickDoor, PickDoorOf, PickAnyDoor, OpenDoor, Acknowledge, asteriskVars
    <2>3. invited' \subseteq Calls \X Phones
      BY <2>2 DEF Originate, WorldOK
    <2>4. QED
      BY <1>2, <1>3, <2>1, <2>3, Unmoved DEF WorldOK
  <1>6. QED
    BY <1>4, <1>5

LEMMA RequestWorld ==
  ASSUME WorldOK, Request
  PROVE  WorldOK' /\ Forward
  <1>1. /\ UNCHANGED <<chan, invited, contacts, ami, active, unlock, switched, mishaps>>
        /\ \E t \in Tasks : commanded' = commanded \cup {t}
    BY DEF Request, RejectCall, AnswerCall, ReInvite, UnlockDoor, UnlockDuringCall, Tasks, Issue,
           asteriskVars, slotVars
  <1>2. Forward
    BY <1>1, Unmoved
  <1>3. WorldOK'
    BY <1>1 DEF WorldOK
  <1>4. QED
    BY <1>2, <1>3
-----------------------------------------------------------------------------
(* Call commands: what a handler knows, and what of it cannot go stale.    *)

(* A place belongs to its kind of command, with the arguments it needs.    *)
Placed(r) ==
  /\ r.at \in {"list", "hang"} => r.kind = "reject"
  /\ r.at = "find" => r.kind \in {"answer", "reinvite"}
  /\ r.at = "leg" => r.kind = "answer" /\ r.phone \in Phones
  /\ r.at \in {"poll", "originate"} => r.kind = "reinvite"
  /\ r.kind = "reinvite" => r.phone \in Phones
  /\ r.at \in {"pick", "fallback", "open"} => r.kind = "unlock"
  /\ r.kind # "unlock" => r.call \in Calls /\ chan[r.call][Panel] # "none"
  /\ r.polls <= MaxPolls
  /\ r.left \subseteq r.listed
  /\ r.at = "open" => r.door \in Devices
  /\ r.switched <= switched

(* A call that was dead when the command was read is dead for good, and    *)
(* no handler gets past its look at the channels for it.                   *)
NotStale(r) ==
  r.kind # "unlock" =>
    /\ r.stale = "yes" => Dead(r.call)
    /\ r.at \in {"hang", "leg", "poll", "originate"} \/ r.ok = "yes" => r.stale = "no"

(* What has been listed and is not left to be hung up has gone.            *)
HungUp(r) ==
  r.kind = "reject" =>
    /\ r.at = "hang" /\ r.missed = "no" =>
         \A x \in r.listed \ r.left : chan[r.call][x] = "gone"
    /\ r.at = "done" /\ r.ok = "yes" /\ r.missed = "no" =>
         \A x \in r.listed : chan[r.call][x] = "gone"

Reached(r) ==
  r.at = "done" /\ r.kind = "answer" /\ r.phone # NoPhone /\ r.ok = "yes" =>
    chan[r.call][r.phone] # "none"

(* The call of the slot has been there since the command, and its panel    *)
(* may be unlocked.                                                        *)
Steady(r) ==
  /\ r.slot # NoCall /\ active = r.slot
  /\ r.switched = switched
  /\ unlock[PanelOf[r.slot]] = "on"

OpensOwn(t, r) ==
  r.kind = "unlock" =>
    /\ r.slot # NoCall => /\ r.device = NoDevice /\ r.call \in {NoCall, r.slot}
                          /\ chan[r.slot][Panel] # "none"
    /\ r.at = "fallback" => ~Steady(r)
    /\ r.at = "open" /\ Steady(r) =>
         r.door = PanelOf[r.slot] /\ (t = Operator => r.picked = r.slot)
    /\ r.at = "done" /\ r.steady = "yes" /\ r.door # NoDevice =>
         r.door = PanelOf[r.slot] /\ r.names = r.slot
    /\ r.at # "done" => r.steady = "no"

CommandOK(t, r) == Placed(r) /\ NotStale(r) /\ HungUp(r) /\ Reached(r) /\ OpensOwn(t, r)

CommandsOK ==
  \A t \in Tasks, r \in Command : task[t] = r => CommandOK(t, r)

CommandsInv == WorldOK /\ TasksOK /\ CommandsOK

LEMMA CommandFields ==
  ASSUME NEW r \in Command
  PROVE  /\ r.kind \in {"reject", "answer", "reinvite", "unlock"}
         /\ r.at \in Places \ {"idle"}
         /\ r.call \in Calls \cup {NoCall} /\ r.slot \in Calls \cup {NoCall}
         /\ r.phone \in Phones \cup {NoPhone} /\ r.device \in Devices \cup {NoDevice}
         /\ r.ok \in YesNo /\ r.stale \in YesNo /\ r.missed \in YesNo /\ r.steady \in YesNo
         /\ r.switched \in Nat /\ r.polls \in Nat
         /\ r.listed \subseteq Ends /\ r.left \subseteq Ends
  BY DEF Command

(* What a step can change about channels, slot and devices leaves the      *)
(* facts about a command that does not move.                               *)
LEMMA StaysOK ==
  ASSUME WorldOK, WorldOK', Forward, NEW t \in Tasks, NEW r \in Command, CommandOK(t, r)
  PROVE  CommandOK(t, r)'
  <1>1. /\ r.call \in Calls \cup {NoCall} /\ r.slot \in Calls \cup {NoCall}
        /\ r.phone \in Phones \cup {NoPhone} /\ r.listed \subseteq Ends
        /\ r.switched \in Nat /\ switched \in Nat /\ switched' \in Nat /\ switched <= switched'
    BY CommandFields DEF WorldOK, Forward
  <1>2. /\ \A c \in Calls, x \in Ends : /\ chan[c][x] = "gone" => chan'[c][x] = "gone"
                                        /\ chan[c][x] # "none" => chan'[c][x] # "none"
        /\ \A c \in Calls : Dead(c) => Dead(c)'
        /\ Panel \in Ends
    BY PanelIsEnd DEF Forward
  <1>3. r.kind # "unlock" => r.call \in Calls
    BY DEF CommandOK, Placed
  <1>4. Placed(r)'
    <2>1. r.switched <= switched'
      BY <1>1 DEF CommandOK, Placed
    <2>2. QED
      BY <1>2, <1>3, <2>1 DEF CommandOK, Placed
  <1>5. NotStale(r)'
    BY <1>2, <1>3 DEF CommandOK, NotStale
  <1>6. HungUp(r)'
    BY <1>1, <1>2, <1>3 DEF CommandOK, HungUp
  <1>7. Reached(r)'
    BY <1>1, <1>2, <1>3, PanelIsEnd DEF CommandOK, Reached
  <1>8. r.kind = "unlock" /\ Steady(r)' => Steady(r)
    <2>1. SUFFICES ASSUME r.kind = "unlock", Steady(r)'
                   PROVE  Steady(r)
      OBVIOUS
    <2>2. r.slot \in Calls /\ active' = r.slot /\ r.switched = switched'
          /\ unlock'[PanelOf[r.slot]] = "on"
      BY <1>1, <2>1 DEF Steady
    <2>3. chan[r.slot][Panel] # "none"
      BY <2>1, <2>2, CallCommandsAssumption DEF CommandOK, OpensOwn
    <2>4. active = r.slot
      BY <2>2, <2>3 DEF Forward
    <2>5. r.switched <= switched
      BY DEF CommandOK, Placed
    <2>6. switched' = switched
      BY <1>1, <2>2, <2>5
    <2>7. unlock' = unlock
      BY <2>6 DEF Forward
    <2>8. QED
      BY <2>2, <2>4, <2>6, <2>7, CallCommandsAssumption DEF Steady
  <1>9. OpensOwn(t, r)'
    <2>1. r.kind = "unlock" /\ r.slot # NoCall => chan'[r.slot][Panel] # "none"
      BY <1>1, <1>2 DEF CommandOK, OpensOwn
    <2>2. QED
      BY <1>8, <2>1 DEF CommandOK, OpensOwn
  <1>10. QED
    BY <1>4, <1>5, <1>6, <1>7, <1>9 DEF CommandOK

(* A step by which one task becomes the command r.                         *)
LEMMA OneMoves ==
  ASSUME CommandsInv, WorldOK', Forward, NEW t \in Tasks, NEW r \in Command,
         Becomes(t, r), CommandOK(t, r)'
  PROVE  CommandsInv'
  <1>1. TasksOK'
    BY DEF Becomes, TasksOK
  <1>2. ASSUME NEW u \in Tasks, NEW q \in Command, task'[u] = q
        PROVE  CommandOK(u, q)'
    <2>1. CASE u = t
      BY <1>2, <2>1 DEF Becomes
    <2>2. CASE u # t
      <3>1. task[u] = q
        BY <1>2, <2>2 DEF Becomes
      <3>2. CommandOK(u, q)
        BY <3>1 DEF CommandsInv, CommandsOK
      <3>3. QED
        BY <3>2, StaysOK DEF CommandsInv
    <2>3. QED
      BY <2>1, <2>2
  <1>3. QED
    BY <1>1, <1>2 DEF CommandsInv, CommandsOK

(* A step by which tasks at most become idle.                              *)
LEMMA NoneMoves ==
  ASSUME CommandsInv, WorldOK', Forward, task' \in [Tasks -> Command \cup {Idle}],
         \A u \in Tasks : task'[u] = task[u] \/ task'[u] = Idle
  PROVE  CommandsInv'
  <1>1. ASSUME NEW u \in Tasks, NEW q \in Command, task'[u] = q
        PROVE  CommandOK(u, q)'
    <2>1. task[u] = q
      BY <1>1, CommandNotIdle
    <2>2. CommandOK(u, q)
      BY <2>1 DEF CommandsInv, CommandsOK
    <2>3. QED
      BY <2>2, StaysOK DEF CommandsInv
  <1>2. QED
    BY <1>1 DEF CommandsInv, CommandsOK, TasksOK

(* A handler that goes on to its next place, and one that returns.         *)
LEMMA GoesOnOK ==
  ASSUME TasksOK, NEW t \in Tasks, task[t] \in Command, CommandOK(t, task[t]),
         NEW place \in {"leg", "poll", "originate"}, Goto(t, place),
         task[t].at \notin {"done", "list", "hang"},
         task[t].kind = IF place = "leg" THEN "answer" ELSE "reinvite",
         task[t].phone \in Phones, task[t].stale = "no"
  PROVE  \E r \in Command : Becomes(t, r) /\ CommandOK(t, r)
  <1>1. place \in Places \ {"idle"}
    BY DEF Places
  <1>2. PICK r \in Command :
           /\ Becomes(t, r)
           /\ Given(r) = Given(task[t]) /\ r.at = place
           /\ r.ok = task[t].ok /\ r.listed = task[t].listed /\ r.left = task[t].left
           /\ r.missed = task[t].missed /\ r.polls = task[t].polls
           /\ r.picked = task[t].picked /\ r.door = task[t].door
           /\ r.names = task[t].names /\ r.steady = task[t].steady
    BY <1>1, GotoFacts
  <1>3. /\ r.kind = task[t].kind /\ r.call = task[t].call /\ r.phone = task[t].phone
        /\ r.stale = task[t].stale /\ r.switched = task[t].switched
    BY <1>2 DEF Given
  <1>4. Placed(r)
    BY <1>2, <1>3 DEF CommandOK, Placed
  <1>5. NotStale(r) /\ HungUp(r) /\ Reached(r) /\ OpensOwn(t, r)
    BY <1>2, <1>3 DEF CommandOK, NotStale, HungUp, Reached, OpensOwn
  <1>6. QED
    BY <1>2, <1>4, <1>5 DEF CommandOK

LEMMA ReplyOK ==
  ASSUME TasksOK, NEW t \in Tasks, task[t] \in Command, CommandOK(t, task[t]),
         NEW ok \in YesNo, Reply(t, ok), task[t].at # "done",
         ok = "yes" =>
           /\ task[t].kind # "unlock" => task[t].stale = "no"
           /\ task[t].kind = "reject" /\ task[t].missed = "no" =>
                \A x \in task[t].listed : chan[task[t].call][x] = "gone"
           /\ task[t].kind = "answer" /\ task[t].phone # NoPhone =>
                chan[task[t].call][task[t].phone] # "none"
  PROVE  \E r \in Command : Becomes(t, r) /\ CommandOK(t, r)
  <1>1. PICK r \in Command :
           /\ Becomes(t, r)
           /\ Given(r) = Given(task[t]) /\ r.at = "done" /\ r.ok = ok /\ r.polls = 0
           /\ r.listed = task[t].listed /\ r.left = task[t].left
           /\ r.missed = task[t].missed
           /\ r.picked = task[t].picked /\ r.door = task[t].door
           /\ r.names = task[t].names /\ r.steady = task[t].steady
    BY ReplyFacts
  <1>2. /\ r.kind = task[t].kind /\ r.call = task[t].call /\ r.phone = task[t].phone
        /\ r.device = task[t].device /\ r.stale = task[t].stale
        /\ r.slot = task[t].slot /\ r.switched = task[t].switched
    BY <1>1 DEF Given
  <1>3. Placed(r)
    <2>1. r.polls <= MaxPolls
      BY <1>1, CallCommandsAssumption
    <2>2. QED
      BY <1>1, <1>2, <2>1 DEF CommandOK, Placed
  <1>4. NotStale(r)
    BY <1>1, <1>2, CommandFields DEF CommandOK, NotStale
  <1>5. HungUp(r)
    BY <1>1, <1>2 DEF HungUp
  <1>6. Reached(r)
    BY <1>1, <1>2 DEF Reached
  <1>7. OpensOwn(t, r)
    BY <1>1, <1>2 DEF CommandOK, OpensOwn
  <1>8. QED
    BY <1>1, <1>3, <1>4, <1>5, <1>6, <1>7 DEF CommandOK

(* A new command.                                                          *)
LEMMA IssueOK ==
  ASSUME CommandsInv, NEW t \in Tasks, NEW kind, NEW place,
         NEW c \in Calls \cup {NoCall}, NEW x \in Phones \cup {NoPhone},
         NEW d \in Devices \cup {NoDevice},
         Issue(t, kind, place, c, x, d),
         \/ kind = "reject" /\ place = "list"
         \/ kind = "answer" /\ place = "find"
         \/ kind = "reinvite" /\ place = "find" /\ x \in Phones
         \/ kind = "unlock" /\ place = "pick",
         kind # "unlock" => c \in Calls /\ Came(c)
  PROVE  \E r \in Command : Becomes(t, r) /\ CommandOK(t, r)
  <1> DEFINE r == [kind |-> kind, at |-> place, call |-> c, phone |-> x, device |-> d, ok |-> "no",
                   stale |-> IF c # NoCall /\ Group(c) = {} THEN "yes" ELSE "no",
                   slot |-> IF kind = "unlock" /\ d = NoDevice /\ c \in {NoCall, active}
                            THEN active ELSE NoCall,
                   switched |-> switched,
                   listed |-> {}, left |-> {}, missed |-> "no", polls |-> 0,
                   picked |-> NoCall, door |-> NoDevice, names |-> NoCall, steady |-> "no"]
  <1>1. task' = [task EXCEPT ![t] = r]
    BY DEF Issue
  <1>2. active \in Calls \cup {NoCall} /\ switched \in Nat
    BY CallCommandsAssumption DEF CommandsInv, WorldOK
  <1>3. r \in Command
    BY <1>2 DEF Command, Places, YesNo
  <1>4. Becomes(t, r)
    BY <1>1, <1>3, ChangeTask DEF CommandsInv
  <1>5. Placed(r)
    <2>1. 0 <= MaxPolls /\ switched <= switched
      BY <1>2, CallCommandsAssumption
    <2>2. QED
      BY <2>1 DEF Placed, Came
  <1>6. NotStale(r)
    <2>1. SUFFICES ASSUME kind # "unlock", c # NoCall, Group(c) = {}
                   PROVE  Dead(c)
      BY DEF NotStale
    <2>2. c \in Calls /\ chan[c][Panel] # "none" /\ chan[c][Panel] # "up"
      BY <2>1, PanelIsEnd DEF Came, Group
    <2>3. chan[c][Panel] \in {"none", "up", "gone"}
      BY <2>2, PanelIsEnd DEF CommandsInv, WorldOK
    <2>4. QED
      BY <2>1, <2>2, <2>3 DEF Dead
  <1>7. HungUp(r) /\ Reached(r)
    BY DEF HungUp, Reached
  <1>8. OpensOwn(t, r)
    BY DEF OpensOwn, CommandsInv, WorldOK
  <1>9. QED
    BY <1>3, <1>4, <1>5, <1>6, <1>7, <1>8 DEF CommandOK

LEMMA RequestOK ==
  ASSUME CommandsInv, Request
  PROVE  CommandsInv'
  <1>1. WorldOK' /\ Forward
    BY RequestWorld DEF CommandsInv
  <1>2. \E t \in Tasks, r \in Command : Becomes(t, r) /\ CommandOK(t, r)
    <2>1. CASE RejectCall
      BY <2>1, IssueOK DEF RejectCall, Tasks
    <2>2. CASE AnswerCall
      BY <2>2, IssueOK DEF AnswerCall, Tasks
    <2>3. CASE ReInvite
      BY <2>3, IssueOK DEF ReInvite, Tasks
    <2>4. CASE UnlockDoor
      BY <2>4, IssueOK DEF UnlockDoor, Tasks
    <2>5. CASE UnlockDuringCall
      BY <2>5, IssueOK DEF UnlockDuringCall, Tasks
    <2>6. QED
      BY <2>1, <2>2, <2>3, <2>4, <2>5 DEF Request
  <1>3. PICK t \in Tasks, r \in Command : Becomes(t, r) /\ CommandOK(t, r)
    BY <1>2
  <1>4. CommandOK(t, r)'
    BY <1>1, <1>3, StaysOK DEF CommandsInv
  <1>5. QED
    BY <1>1, <1>3, <1>4, OneMoves

LEMMA EnvironmentOK ==
  ASSUME CommandsInv, Environment
  PROVE  CommandsInv'
  <1>1. WorldOK' /\ Forward
    BY EnvironmentWorld DEF CommandsInv
  <1>2. \/ task' = task
        \/ task' = [task EXCEPT ![Cloud] = Idle]
        \/ task' = [t \in Tasks |-> Idle]
    BY DEF Environment, StartCall, DialLeg, EndHangsUp, InviteEnds, ContactChanges, SwitchDevice,
           AmiDown, AmiConnect, SessionDrops, CommandsRestart
  <1>3. /\ task' \in [Tasks -> Command \cup {Idle}]
        /\ \A u \in Tasks : task'[u] = task[u] \/ task'[u] = Idle
    BY <1>2 DEF CommandsInv, TasksOK, Tasks
  <1>4. QED
    BY <1>1, <1>3, NoneMoves

LEMMA BusyTask ==
  ASSUME CommandsInv, NEW t \in Tasks, task[t].at \in Places \ {"idle"}
  PROVE  task[t] \in Command /\ CommandOK(t, task[t]) /\ TasksOK
  BY DEF CommandsInv, TasksOK, CommandsOK, Idle

(* reject_call *)

LEMMA RejectListOK ==
  ASSUME CommandsInv, RejectList
  PROVE  \E r \in Command : Becomes(Cloud, r) /\ CommandOK(Cloud, r)
  <1>1. Cloud \in Tasks /\ task[Cloud].at = "list" /\ "list" \in Places \ {"idle"}
    BY DEF RejectList, Tasks, Places
  <1>2. task[Cloud] \in Command /\ CommandOK(Cloud, task[Cloud]) /\ TasksOK
    BY <1>1, BusyTask
  <1>3. CASE Reply(Cloud, "no")
    BY <1>1, <1>2, <1>3, ReplyOK DEF YesNo
  <1>4. CASE ~Reply(Cloud, "no")
    <2> DEFINE group == Group(task[Cloud].call)
               r == [task[Cloud] EXCEPT !.at = "hang", !.listed = group, !.left = group]
    <2>1. group # {} /\ task' = [task EXCEPT ![Cloud] = r]
      BY <1>4 DEF RejectList
    <2>2. r \in Command
      BY <1>2 DEF Command, Places, Group
    <2>3. Becomes(Cloud, r)
      BY <1>1, <1>2, <2>1, <2>2, ChangeTask
    <2>4. /\ r.kind = task[Cloud].kind /\ r.call = task[Cloud].call /\ r.phone = task[Cloud].phone
          /\ r.stale = task[Cloud].stale /\ r.ok = task[Cloud].ok /\ r.polls = task[Cloud].polls
          /\ r.switched = task[Cloud].switched
          /\ r.at = "hang" /\ r.listed = group /\ r.left = group
      BY <1>2 DEF Command
    <2>5. r.kind = "reject"
      BY <1>1, <1>2, <2>4 DEF CommandOK, Placed
    <2>6. r.stale = "no"
      <3>1. task[Cloud].stale = "yes" => Dead(task[Cloud].call)
        BY <1>2, <2>4, <2>5 DEF CommandOK, NotStale
      <3>2. ~Dead(task[Cloud].call)
        BY <2>1 DEF Dead
      <3>3. QED
        BY <1>2, <2>4, <3>1, <3>2, CommandFields DEF YesNo
    <2>7. Placed(r)
      BY <1>2, <2>4, <2>5 DEF CommandOK, Placed
    <2>8. NotStale(r) /\ HungUp(r) /\ Reached(r) /\ OpensOwn(Cloud, r)
      BY <2>4, <2>5, <2>6 DEF NotStale, HungUp, Reached, OpensOwn
    <2>9. QED
      BY <2>2, <2>3, <2>7, <2>8 DEF CommandOK
  <1>5. QED
    BY <1>3, <1>4

LEMMA RejectEndsOK ==
  ASSUME CommandsInv, RejectEnds
  PROVE  \E r \in Command : Becomes(Cloud, r) /\ CommandOK(Cloud, r)
  <1>1. /\ Cloud \in Tasks /\ task[Cloud].at = "hang" /\ "hang" \in Places \ {"idle"}
        /\ task[Cloud].left = {} /\ Reply(Cloud, task[Cloud].ok)
    BY DEF RejectEnds, Tasks, Places
  <1>2. task[Cloud] \in Command /\ CommandOK(Cloud, task[Cloud]) /\ TasksOK
    BY <1>1, BusyTask
  <1>3. task[Cloud].kind = "reject" /\ task[Cloud].stale = "no" /\ task[Cloud].ok \in YesNo
    BY <1>1, <1>2, CommandFields DEF CommandOK, Placed, NotStale
  <1>4. task[Cloud].missed = "no" =>
          \A x \in task[Cloud].listed : chan[task[Cloud].call][x] = "gone"
    BY <1>1, <1>2, <1>3 DEF CommandOK, HungUp
  <1>5. QED
    BY <1>1, <1>2, <1>3, <1>4, ReplyOK

(* A Hangup that was answered leaves the channel gone.                     *)
LEMMA RejectHangOK ==
  ASSUME CommandsInv, RejectHang, WorldOK', Forward
  PROVE  CommandsInv'
  <1>1. Cloud \in Tasks /\ task[Cloud].at = "hang" /\ "hang" \in Places \ {"idle"}
    BY DEF RejectHang, Tasks, Places
  <1>2. task[Cloud] \in Command /\ CommandOK(Cloud, task[Cloud]) /\ TasksOK
    BY <1>1, BusyTask
  <1>3. PICK old \in Command : task[Cloud] = old
    BY <1>2
  <1>4. old.at = "hang" /\ CommandOK(Cloud, old) /\ CommandOK(Cloud, old)'
    BY <1>1, <1>2, <1>3, StaysOK DEF CommandsInv
  <1>5. /\ old.kind = "reject" /\ old.call \in Calls /\ old.stale = "no"
        /\ old.left \subseteq old.listed /\ old.listed \subseteq Ends
    BY <1>4, CommandFields DEF CommandOK, Placed, NotStale
  <1>6. PICK x \in old.left :
          \/ /\ chan'[old.call][x] = "gone"
             /\ \E ok \in YesNo :
                  task' = [task EXCEPT ![Cloud] = [old EXCEPT !.left = @ \ {x}, !.ok = ok]]
          \/ task' = [task EXCEPT ![Cloud] = [old EXCEPT !.left = @ \ {x}, !.missed = "yes"]]
    <2>1. PICK x \in old.left :
            \/ /\ chan[old.call][x] = "up" /\ HangUp(old.call, x)
               /\ task' = [task EXCEPT ![Cloud].left = @ \ {x}, ![Cloud].ok = "yes"]
            \/ /\ chan[old.call][x] = "gone"
               /\ task' = [task EXCEPT ![Cloud].left = @ \ {x}]
            \/ task' = [task EXCEPT ![Cloud].left = @ \ {x}, ![Cloud].missed = "yes"]
      BY <1>3 DEF RejectHang
    <2>2. x \in Ends
      BY <1>5, <2>1
    <2>3. CASE /\ chan[old.call][x] = "up" /\ HangUp(old.call, x)
               /\ task' = [task EXCEPT ![Cloud].left = @ \ {x}, ![Cloud].ok = "yes"]
      <3>1. chan'[old.call][x] = "gone"
        BY <1>5, <2>2, <2>3, HangUpFacts DEF CommandsInv
      <3>2. task' = [task EXCEPT ![Cloud] = [old EXCEPT !.left = @ \ {x}, !.ok = "yes"]]
        BY <1>1, <1>2, <1>3, <2>3 DEF TasksOK
      <3>3. QED
        BY <3>1, <3>2 DEF YesNo
    <2>4. CASE /\ chan[old.call][x] = "gone"
               /\ task' = [task EXCEPT ![Cloud].left = @ \ {x}]
      <3>1. chan'[old.call][x] = "gone"
        BY <1>5, <2>2, <2>4 DEF Forward
      <3>2. task' = [task EXCEPT ![Cloud] = [old EXCEPT !.left = @ \ {x}, !.ok = old.ok]]
        <4>1. [old EXCEPT !.left = @ \ {x}] = [old EXCEPT !.left = @ \ {x}, !.ok = old.ok]
          BY DEF Command
        <4>2. QED
          BY <1>1, <1>2, <1>3, <2>4, <4>1 DEF TasksOK
      <3>3. QED
        BY <3>1, <3>2, CommandFields
    <2>5. CASE task' = [task EXCEPT ![Cloud].left = @ \ {x}, ![Cloud].missed = "yes"]
      BY <1>1, <1>2, <1>3, <2>5 DEF TasksOK
    <2>6. QED
      BY <2>1, <2>3, <2>4, <2>5
  <1>7. \E new \in Command :
          /\ task' = [task EXCEPT ![Cloud] = new]
          /\ Given(new) = Given(old) /\ new.at = "hang" /\ new.polls = old.polls
          /\ new.listed = old.listed /\ new.left = old.left \ {x}
          /\ new.missed = "no" => old.missed = "no" /\ chan'[old.call][x] = "gone"
    <2>1. CASE /\ chan'[old.call][x] = "gone"
               /\ \E ok \in YesNo :
                    task' = [task EXCEPT ![Cloud] = [old EXCEPT !.left = @ \ {x}, !.ok = ok]]
      <3>1. PICK ok \in YesNo :
              task' = [task EXCEPT ![Cloud] = [old EXCEPT !.left = @ \ {x}, !.ok = ok]]
        BY <2>1
      <3> DEFINE new == [old EXCEPT !.left = @ \ {x}, !.ok = ok]
      <3>2. new \in Command
        BY DEF Command
      <3>3. /\ Given(new) = Given(old) /\ new.at = "hang" /\ new.polls = old.polls
            /\ new.listed = old.listed /\ new.left = old.left \ {x}
            /\ new.missed = old.missed
        BY <1>4 DEF Command, Given
      <3>4. QED
        BY <2>1, <3>1, <3>2, <3>3
    <2>2. CASE task' = [task EXCEPT ![Cloud] = [old EXCEPT !.left = @ \ {x}, !.missed = "yes"]]
      <3> DEFINE new == [old EXCEPT !.left = @ \ {x}, !.missed = "yes"]
      <3>1. new \in Command
        BY DEF Command, YesNo
      <3>2. /\ Given(new) = Given(old) /\ new.at = "hang" /\ new.polls = old.polls
            /\ new.listed = old.listed /\ new.left = old.left \ {x}
            /\ new.missed = "yes"
        BY <1>4 DEF Command, Given
      <3>3. QED
        BY <2>2, <3>1, <3>2
    <2>3. QED
      BY <1>6, <2>1, <2>2
  <1>8. PICK new \in Command :
          /\ task' = [task EXCEPT ![Cloud] = new]
          /\ Given(new) = Given(old) /\ new.at = "hang" /\ new.polls = old.polls
          /\ new.listed = old.listed /\ new.left = old.left \ {x}
          /\ new.missed = "no" => old.missed = "no" /\ chan'[old.call][x] = "gone"
    BY <1>7
  <1>9. /\ new.kind = old.kind /\ new.call = old.call /\ new.phone = old.phone
        /\ new.stale = old.stale /\ new.switched = old.switched
    BY <1>8 DEF Given
  <1>10. Placed(new)'
    BY <1>4, <1>8, <1>9 DEF CommandOK, Placed
  <1>11. HungUp(new)'
    BY <1>4, <1>5, <1>8, <1>9 DEF CommandOK, HungUp
  <1>12. NotStale(new)' /\ Reached(new)' /\ OpensOwn(Cloud, new)'
    BY <1>5, <1>8, <1>9 DEF NotStale, Reached, OpensOwn
  <1>13. CommandOK(Cloud, new)'
    BY <1>10, <1>11, <1>12 DEF CommandOK
  <1>14. Becomes(Cloud, new)
    BY <1>1, <1>2, <1>8, ChangeTask
  <1>15. QED
    BY <1>1, <1>13, <1>14, OneMoves

(* answer_call and re_invite_apartment *)

LEMMA AliveNotStale ==
  ASSUME NEW r \in Command, CommandOK(Cloud, r), r.kind # "unlock", Group(r.call) # {}
  PROVE  r.stale = "no"
  BY CommandFields DEF CommandOK, NotStale, Dead, YesNo

LEMMA FindChannelOK ==
  ASSUME CommandsInv, FindChannel
  PROVE  \E r \in Command : Becomes(Cloud, r) /\ CommandOK(Cloud, r)
  <1>1. Cloud \in Tasks /\ task[Cloud].at = "find" /\ "find" \in Places \ {"idle"}
    BY DEF FindChannel, Tasks, Places
  <1>2. task[Cloud] \in Command /\ CommandOK(Cloud, task[Cloud]) /\ TasksOK
    BY <1>1, BusyTask
  <1>3. task[Cloud].kind \in {"answer", "reinvite"}
    BY <1>1, <1>2 DEF CommandOK, Placed
  <1>4. task[Cloud].phone \in Phones \cup {NoPhone}
    BY <1>2, CommandFields
  <1>5. CASE Reply(Cloud, "no")
    BY <1>1, <1>2, <1>5, ReplyOK DEF YesNo
  <1>6. CASE ~Reply(Cloud, "no")
    <2>1. Group(task[Cloud].call) # {}
      BY <1>6 DEF FindChannel
    <2>2. task[Cloud].stale = "no"
      BY <1>2, <1>3, <2>1, AliveNotStale
    <2>3. CASE task[Cloud].kind = "reinvite" /\ Goto(Cloud, "poll")
      <3>1. task[Cloud].phone \in Phones
        BY <1>2, <2>3 DEF CommandOK, Placed
      <3>2. QED
        BY <1>1, <1>2, <2>2, <2>3, <3>1, GoesOnOK
    <2>4. CASE task[Cloud].kind = "answer" /\ task[Cloud].phone # NoPhone /\ Goto(Cloud, "leg")
      BY <1>1, <1>2, <1>4, <2>2, <2>4, GoesOnOK
    <2>5. CASE task[Cloud].kind = "answer" /\ task[Cloud].phone = NoPhone /\ Reply(Cloud, "yes")
      BY <1>1, <1>2, <2>2, <2>5, ReplyOK DEF YesNo
    <2>6. QED
      BY <1>6, <2>3, <2>4, <2>5 DEF FindChannel
  <1>7. QED
    BY <1>5, <1>6

LEMMA FindLegOK ==
  ASSUME CommandsInv, FindLeg
  PROVE  \E r \in Command : Becomes(Cloud, r) /\ CommandOK(Cloud, r)
  <1>1. Cloud \in Tasks /\ task[Cloud].at = "leg" /\ "leg" \in Places \ {"idle"}
    BY DEF FindLeg, Tasks, Places
  <1>2. task[Cloud] \in Command /\ CommandOK(Cloud, task[Cloud]) /\ TasksOK
    BY <1>1, BusyTask
  <1>3. task[Cloud].kind = "answer" /\ task[Cloud].stale = "no"
    BY <1>1, <1>2 DEF CommandOK, Placed, NotStale
  <1>4. CASE Reply(Cloud, "no")
    BY <1>1, <1>2, <1>4, ReplyOK DEF YesNo
  <1>5. CASE ~Reply(Cloud, "no")
    <2>1. Reply(Cloud, "yes") /\ task[Cloud].phone \in Group(task[Cloud].call)
      BY <1>5 DEF FindLeg
    <2>2. chan[task[Cloud].call][task[Cloud].phone] # "none"
      BY <2>1 DEF Group
    <2>3. QED
      BY <1>1, <1>2, <1>3, <2>1, <2>2, ReplyOK DEF YesNo
  <1>6. QED
    BY <1>4, <1>5

LEMMA PollOK ==
  ASSUME CommandsInv, Poll
  PROVE  \E r \in Command : Becomes(Cloud, r) /\ CommandOK(Cloud, r)
  <1>1. Cloud \in Tasks /\ task[Cloud].at = "poll" /\ "poll" \in Places \ {"idle"}
    BY DEF Poll, Tasks, Places
  <1>2. task[Cloud] \in Command /\ CommandOK(Cloud, task[Cloud]) /\ TasksOK
    BY <1>1, BusyTask
  <1>3. /\ task[Cloud].kind = "reinvite" /\ task[Cloud].stale = "no"
        /\ task[Cloud].phone \in Phones
    BY <1>1, <1>2 DEF CommandOK, Placed, NotStale
  <1>4. CASE Reply(Cloud, "no")
    BY <1>1, <1>2, <1>4, ReplyOK DEF YesNo
  <1>5. CASE Goto(Cloud, "originate")
    BY <1>1, <1>2, <1>3, <1>5, GoesOnOK
  <1>6. CASE task[Cloud].polls < MaxPolls /\ task' = [task EXCEPT ![Cloud].polls = @ + 1]
    <2> DEFINE r == [task[Cloud] EXCEPT !.polls = @ + 1]
    <2>1. task[Cloud].polls + 1 \in Nat /\ task[Cloud].polls + 1 <= MaxPolls
      BY <1>2, <1>6, CommandFields, CallCommandsAssumption
    <2>2. r \in Command
      BY <1>2, <2>1 DEF Command
    <2>3. Becomes(Cloud, r)
      BY <1>1, <1>2, <1>6, <2>2, ChangeTask
    <2>4. /\ r.kind = task[Cloud].kind /\ r.call = task[Cloud].call /\ r.phone = task[Cloud].phone
          /\ r.stale = task[Cloud].stale /\ r.at = "poll" /\ r.ok = task[Cloud].ok
          /\ r.polls = task[Cloud].polls + 1 /\ r.left = task[Cloud].left
          /\ r.listed = task[Cloud].listed /\ r.switched = task[Cloud].switched
      BY <1>1, <1>2 DEF Command
    <2>5. Placed(r)
      BY <1>2, <1>3, <2>1, <2>4 DEF CommandOK, Placed
    <2>6. NotStale(r) /\ HungUp(r) /\ Reached(r) /\ OpensOwn(Cloud, r)
      BY <1>3, <2>4 DEF NotStale, HungUp, Reached, OpensOwn
    <2>7. QED
      BY <2>2, <2>3, <2>5, <2>6 DEF CommandOK
  <1>7. QED
    BY <1>4, <1>5, <1>6 DEF Poll

LEMMA OriginateOK ==
  ASSUME CommandsInv, Originate
  PROVE  \E r \in Command : Becomes(Cloud, r) /\ CommandOK(Cloud, r)
  <1>1. Cloud \in Tasks /\ task[Cloud].at = "originate" /\ "originate" \in Places \ {"idle"}
    BY DEF Originate, Tasks, Places
  <1>2. task[Cloud] \in Command /\ CommandOK(Cloud, task[Cloud]) /\ TasksOK
    BY <1>1, BusyTask
  <1>3. task[Cloud].kind = "reinvite" /\ task[Cloud].stale = "no"
    BY <1>1, <1>2 DEF CommandOK, Placed, NotStale
  <1>4. PICK ok \in YesNo : Reply(Cloud, ok)
    BY DEF Originate, YesNo
  <1>5. QED
    BY <1>1, <1>2, <1>3, <1>4, ReplyOK

(* unlock_door and unlock_during_call *)

LEMMA PickedOK ==
  ASSUME CommandsInv, NEW t \in Tasks, task[t] \in Command, CommandOK(t, task[t]),
         task[t].kind = "unlock", task[t].at # "done",
         NEW c \in Calls \cup {NoCall}, NEW d \in Devices \cup {NoDevice},
         NEW place \in {"open", "fallback"}, Picked(t, c, d, place),
         place = "open" => d \in Devices,
         place = "fallback" => ~Steady(task[t]),
         place = "open" /\ Steady(task[t]) => d = PanelOf[task[t].slot] /\ c = task[t].slot
  PROVE  \E r \in Command : Becomes(t, r) /\ CommandOK(t, r)
  <1> DEFINE r == [task[t] EXCEPT !.at = place, !.door = d,
                                  !.picked = IF t = Operator THEN c ELSE NoCall]
  <1>1. task' = [task EXCEPT ![t] = r]
    BY DEF Picked
  <1>2. r \in Command
    <2> DEFINE p == IF t = Operator THEN c ELSE NoCall
    <2>1. place \in Places \ {"idle"} /\ p \in Calls \cup {NoCall}
      BY DEF Places
    <2>2. [task[t] EXCEPT !.at = place, !.door = d, !.picked = p] \in Command
      <3> HIDE DEF p
      <3>1. QED
        BY <2>1 DEF Command
    <2>3. QED
      BY <2>2
  <1>3. Becomes(t, r)
    BY <1>1, <1>2, ChangeTask DEF CommandsInv
  <1>4. /\ r.kind = "unlock" /\ r.at = place /\ r.door = d
        /\ r.picked = IF t = Operator THEN c ELSE NoCall
        /\ r.call = task[t].call /\ r.device = task[t].device /\ r.phone = task[t].phone
        /\ r.slot = task[t].slot
        /\ r.switched = task[t].switched /\ r.steady = task[t].steady
        /\ r.polls = task[t].polls /\ r.listed = task[t].listed /\ r.left = task[t].left
    BY DEF Command
  <1>5. Placed(r)
    BY <1>4 DEF CommandOK, Placed
  <1>6. NotStale(r) /\ HungUp(r) /\ Reached(r)
    BY <1>4 DEF NotStale, HungUp, Reached
  <1>7. Steady(r) <=> Steady(task[t])
    BY <1>4 DEF Steady
  <1>8. OpensOwn(t, r)
    BY <1>4, <1>7 DEF CommandOK, OpensOwn
  <1>9. QED
    BY <1>2, <1>3, <1>5, <1>6, <1>8 DEF CommandOK

LEMMA PickDoorOK ==
  ASSUME CommandsInv, NEW t \in Tasks, PickDoor(t)
  PROVE  \E r \in Command : Becomes(t, r) /\ CommandOK(t, r)
  <1>1. task[t].at = "pick" /\ "pick" \in Places \ {"idle"}
    BY DEF PickDoor, Places
  <1>2. task[t] \in Command /\ CommandOK(t, task[t])  /\ TasksOK
    BY <1>1, BusyTask
  <1>3. task[t].kind = "unlock" /\ task[t].at # "done"
    BY <1>1, <1>2 DEF CommandOK, Placed
  <1>4. active \in Calls \cup {NoCall} /\ task[t].device \in Devices \cup {NoDevice}
    BY <1>2, CommandFields DEF CommandsInv, WorldOK
  <1> DEFINE own == /\ active # NoCall /\ task[t].call \in {NoCall, active}
                    /\ Enabled(t, PanelOf[active])
  <1>5. Steady(task[t]) => task[t].device = NoDevice /\ own /\ active = task[t].slot
    BY <1>2, <1>3 DEF Steady, CommandOK, OpensOwn, Enabled
  <1>6. CASE \E ok \in YesNo : Reply(t, ok)
    BY <1>2, <1>3, <1>6, ReplyOK
  <1>7. CASE task[t].device # NoDevice /\ Picked(t, active, task[t].device, "open")
    BY <1>2, <1>3, <1>4, <1>5, <1>7, PickedOK
  <1>8. CASE own /\ Picked(t, active, PanelOf[active], "open")
    <2>1. PanelOf[active] \in Devices
      BY <1>4, <1>8, CallCommandsAssumption
    <2>2. QED
      BY <1>2, <1>3, <1>4, <1>5, <1>8, <2>1, PickedOK
  <1>9. CASE ~own /\ Picked(t, active, NoDevice, "fallback")
    BY <1>2, <1>3, <1>4, <1>5, <1>9, PickedOK
  <1>10. QED
    BY <1>6, <1>7, <1>8, <1>9 DEF PickDoor, PickDoorOf, YesNo

LEMMA PickAnyDoorOK ==
  ASSUME CommandsInv, NEW t \in Tasks, PickAnyDoor(t)
  PROVE  \E r \in Command : Becomes(t, r) /\ CommandOK(t, r)
  <1>1. task[t].at = "fallback" /\ "fallback" \in Places \ {"idle"}
    BY DEF PickAnyDoor, Places
  <1>2. task[t] \in Command /\ CommandOK(t, task[t]) /\ TasksOK
    BY <1>1, BusyTask
  <1>3. task[t].kind = "unlock" /\ task[t].at # "done"
    BY <1>1, <1>2 DEF CommandOK, Placed
  <1>4. ~Steady(task[t]) /\ task[t].picked \in Calls \cup {NoCall}
    BY <1>1, <1>2, <1>3 DEF CommandOK, OpensOwn, Command
  <1>5. CASE \E ok \in YesNo : Reply(t, ok)
    BY <1>2, <1>3, <1>5, ReplyOK
  <1>6. CASE \E d \in Devices : Picked(t, task[t].picked, d, "open")
    BY <1>2, <1>3, <1>4, <1>6, PickedOK
  <1>7. QED
    BY <1>5, <1>6 DEF PickAnyDoor, YesNo

LEMMA OpenDoorOK ==
  ASSUME CommandsInv, NEW t \in Tasks, OpenDoor(t)
  PROVE  \E r \in Command : Becomes(t, r) /\ CommandOK(t, r)
  <1>1. task[t].at = "open" /\ "open" \in Places \ {"idle"}
    BY DEF OpenDoor, Places
  <1>2. task[t] \in Command /\ CommandOK(t, task[t]) /\ TasksOK
    BY <1>1, BusyTask
  <1>3. task[t].kind = "unlock" /\ task[t].door \in Devices
    BY <1>1, <1>2 DEF CommandOK, Placed
  <1> DEFINE steady == /\ active # NoCall /\ task[t].slot = active
                       /\ task[t].switched = switched /\ unlock[PanelOf[active]] = "on"
             mark   == IF steady THEN "yes" ELSE "no"
  <1>4. steady <=> Steady(task[t])
    BY DEF Steady
  <1>5. EventCall(t) \in Calls \cup {NoCall}
    BY <1>2 DEF EventCall, Command, CommandsInv, WorldOK
  <1>6. steady => task[t].door = PanelOf[task[t].slot] /\ EventCall(t) = task[t].slot
    <2>1. SUFFICES ASSUME steady
                   PROVE  task[t].door = PanelOf[task[t].slot] /\ EventCall(t) = task[t].slot
      OBVIOUS
    <2>2. /\ task[t].door = PanelOf[task[t].slot]
          /\ t = Operator => task[t].picked = task[t].slot
          /\ task[t].call \in {NoCall, task[t].slot}
      BY <1>1, <1>2, <1>3, <1>4, <2>1 DEF CommandOK, OpensOwn
    <2>3. QED
      BY <2>1, <2>2 DEF EventCall
  <1>7. ASSUME NEW ok \in YesNo, NEW d \in Devices \cup {NoDevice}, NEW n \in Calls \cup {NoCall},
               task' = [task EXCEPT ![t] = [task[t] EXCEPT !.at = "done", !.picked = NoCall,
                          !.steady = mark, !.ok = ok, !.names = n, !.door = d]],
               steady /\ d # NoDevice => d = PanelOf[task[t].slot] /\ n = task[t].slot
        PROVE  \E r \in Command : Becomes(t, r) /\ CommandOK(t, r)
    <2> DEFINE r == [task[t] EXCEPT !.at = "done", !.picked = NoCall,
                       !.steady = mark, !.ok = ok, !.names = n, !.door = d]
    <2>1. r \in Command
      <3>1. mark \in YesNo /\ "done" \in Places \ {"idle"}
        BY DEF YesNo, Places
      <3> HIDE DEF mark
      <3>2. QED
        BY <1>2, <3>1 DEF Command
    <2>2. Becomes(t, r)
      BY <1>2, <1>7, <2>1, ChangeTask
    <2>3. /\ r.kind = "unlock" /\ r.at = "done" /\ r.door = d /\ r.names = n /\ r.steady = mark
          /\ r.call = task[t].call /\ r.device = task[t].device /\ r.phone = task[t].phone
          /\ r.slot = task[t].slot /\ r.switched = task[t].switched
          /\ r.polls = task[t].polls /\ r.listed = task[t].listed /\ r.left = task[t].left
      <3> HIDE DEF mark
      <3>1. QED
        BY <1>2, <1>3 DEF Command
    <2>4. Placed(r)
      BY <1>2, <2>3 DEF CommandOK, Placed
    <2>5. NotStale(r) /\ HungUp(r) /\ Reached(r)
      BY <2>3 DEF NotStale, HungUp, Reached
    <2>6. OpensOwn(t, r)
      BY <1>2, <1>3, <1>7, <2>3 DEF CommandOK, OpensOwn
    <2>7. QED
      BY <2>1, <2>2, <2>4, <2>5, <2>6 DEF CommandOK
  <1> DEFINE door == [task[t] EXCEPT !.at = "done", !.picked = NoCall, !.steady = mark]
  <1>8. CASE task' = [task EXCEPT ![t] = [door EXCEPT !.ok = "yes", !.names = EventCall(t)]]
    <2>1. [door EXCEPT !.ok = "yes", !.names = EventCall(t)]
            = [task[t] EXCEPT !.at = "done", !.picked = NoCall, !.steady = mark,
                              !.ok = "yes", !.names = EventCall(t), !.door = task[t].door]
      <3> HIDE DEF mark
      <3>1. QED
        BY <1>2 DEF Command
    <2>2. QED
      BY <1>3, <1>5, <1>6, <1>7, <1>8, <2>1 DEF YesNo
  <1>9. CASE task' = [task EXCEPT ![t] = [door EXCEPT !.ok = IF t = Cloud THEN "yes" ELSE "no",
                                                      !.door = NoDevice]]
    <2> DEFINE ok == IF t = Cloud THEN "yes" ELSE "no"
    <2>1. ok \in YesNo /\ task[t].names \in Calls \cup {NoCall}
      BY <1>2 DEF YesNo, Command
    <2>2. [door EXCEPT !.ok = ok, !.door = NoDevice]
            = [task[t] EXCEPT !.at = "done", !.picked = NoCall, !.steady = mark,
                              !.ok = ok, !.names = task[t].names, !.door = NoDevice]
      <3> HIDE DEF mark, ok
      <3>1. QED
        BY <1>2 DEF Command
    <2>3. QED
      BY <1>7, <1>9, <2>1, <2>2
  <1>10. QED
    BY <1>8, <1>9 DEF OpenDoor

-----------------------------------------------------------------------------
(* Call commands: the theorems.                                            *)

LEMMA HandlerOK ==
  ASSUME CommandsInv, NEW t \in Tasks, HandlerStep(t)
  PROVE  CommandsInv'
  <1>1. HangsAtEnds
    <2>1. SUFFICES ASSUME task[Cloud].at = "hang"
                   PROVE  task[Cloud].call \in Calls /\ task[Cloud].left \subseteq Ends
      BY DEF HangsAtEnds
    <2>2. task[Cloud] \in Command /\ CommandOK(Cloud, task[Cloud])
      BY <2>1, BusyTask DEF Tasks, Places
    <2>3. QED
      BY <2>1, <2>2, CommandFields DEF CommandOK, Placed
  <1>2. task[Cloud].at = "originate" => task[Cloud].call \in Calls /\ task[Cloud].phone \in Phones
    <2>1. SUFFICES ASSUME task[Cloud].at = "originate"
                   PROVE  task[Cloud].call \in Calls /\ task[Cloud].phone \in Phones
      OBVIOUS
    <2>2. task[Cloud] \in Command /\ CommandOK(Cloud, task[Cloud])
      BY <2>1, BusyTask DEF Tasks, Places
    <2>3. QED
      BY <2>1, <2>2 DEF CommandOK, Placed
  <1>3. WorldOK' /\ Forward
    BY <1>1, <1>2, HandlerWorld DEF CommandsInv
  <1>4. CASE RejectHang
    BY <1>3, <1>4, RejectHangOK
  <1>5. CASE Acknowledge(t)
    <2>1. task' = [task EXCEPT ![t] = Idle]
      BY <1>5 DEF Acknowledge
    <2>2. /\ task' \in [Tasks -> Command \cup {Idle}]
          /\ \A u \in Tasks : task'[u] = task[u] \/ task'[u] = Idle
      BY <2>1 DEF CommandsInv, TasksOK
    <2>3. QED
      BY <1>3, <2>2, NoneMoves
  <1>6. CASE ~RejectHang /\ ~Acknowledge(t)
    <2>1. \E u \in Tasks, r \in Command : Becomes(u, r) /\ CommandOK(u, r)
      <3>1. Cloud \in Tasks
        BY DEF Tasks
      <3>2. QED
        BY <1>6, <3>1, RejectListOK, RejectEndsOK, FindChannelOK, FindLegOK, PollOK,
           OriginateOK, PickDoorOK, PickAnyDoorOK, OpenDoorOK DEF HandlerStep
    <2>2. PICK u \in Tasks, r \in Command : Becomes(u, r) /\ CommandOK(u, r)
      BY <2>1
    <2>3. CommandOK(u, r)'
      BY <1>3, <2>2, StaysOK DEF CommandsInv
    <2>4. QED
      BY <1>3, <2>2, <2>3, OneMoves
  <1>7. QED
    BY <1>4, <1>5, <1>6

LEMMA CommandsInvInit ==
  ASSUME CommandsInit
  PROVE  CommandsInv
  <1>1. WorldOK
    BY PanelIsEnd, CallCommandsAssumption DEF CommandsInit, WorldOK
  <1>2. TasksOK
    BY DEF CommandsInit, TasksOK
  <1>3. \A t \in Tasks : task[t] = Idle
    BY DEF CommandsInit
  <1>4. CommandsOK
    BY <1>3, CommandNotIdle DEF CommandsOK
  <1>5. QED
    BY <1>1, <1>2, <1>4 DEF CommandsInv

LEMMA CommandsInvStep ==
  ASSUME CommandsInv, [CommandsNext]_callCommandVars
  PROVE  CommandsInv'
  <1>1. CASE UNCHANGED callCommandVars
    <2>1. UNCHANGED <<chan, invited, contacts, ami, active, unlock, task, commanded, switched,
                      mishaps>>
      BY <1>1 DEF callCommandVars, asteriskVars, slotVars, counterVars
    <2>2. WorldOK'
      BY <2>1 DEF CommandsInv, WorldOK
    <2>3. Forward
      BY <2>1, Unmoved DEF CommandsInv
    <2>4. QED
      BY <2>1, <2>2, <2>3, NoneMoves DEF CommandsInv, TasksOK
  <1>2. CASE CommandsNext
    BY <1>2, EnvironmentOK, RequestOK, HandlerOK DEF CommandsNext
  <1>3. QED
    BY <1>1, <1>2

LEMMA CommandsInvariant == CommandsSpec => []CommandsInv
  BY CommandsInvInit, CommandsInvStep, PTL DEF CommandsSpec

(* Every record that a handler keeps has its type, and the counters their  *)
(* bounds.                                                                 *)
THEOREM CommandsTypeCorrect == CommandsSpec => []CommandsTypeOK
  <1>1. CommandsInv => CommandsTypeOK
    <2>1. SUFFICES ASSUME CommandsInv
                   PROVE  CommandsTypeOK
      OBVIOUS
    <2>2. ASSUME NEW t \in Tasks
          PROVE  /\ task[t].at \in Places
                 /\ task[t] # Idle =>
                      task[t].polls <= MaxPolls /\ task[t].left \subseteq task[t].listed
                 /\ task[t].at = "open" => task[t].door \in Devices
      <3>1. CASE task[t] = Idle
        BY <3>1 DEF Idle, Places
      <3>2. CASE task[t] # Idle
        <4>1. task[t] \in Command
          BY <2>1, <3>2 DEF CommandsInv, TasksOK
        <4>2. CommandOK(t, task[t])
          BY <2>1, <4>1 DEF CommandsInv, CommandsOK
        <4>3. QED
          BY <4>1, <4>2, CommandNotIdle DEF CommandOK, Placed
      <3>3. QED
        BY <3>1, <3>2
    <2>3. QED
      BY <2>1, <2>2 DEF CommandsTypeOK, CommandsInv, WorldOK
  <1>2. QED
    BY <1>1, CommandsInvariant, PTL

LEMMA DoneCommand ==
  ASSUME CommandsInv, NEW t \in Tasks, task[t].at = "done"
  PROVE  task[t] \in Command /\ CommandOK(t, task[t])
  BY BusyTask DEF Places

(* When a reject_call is acknowledged, none of the channels that the call  *)
(* had when it was listed is left.                                         *)
THEOREM RejectsForGood == CommandsSpec => []RejectEndsCall
  <1>1. CommandsInv => RejectEndsCall
    <2> DEFINE r == task[Cloud]
    <2>1. SUFFICES ASSUME CommandsInv, r.at = "done", r.kind = "reject", r.ok = "yes",
                          r.missed = "no"
                   PROVE  r.listed \cap Group(r.call) = {}
      BY DEF RejectEndsCall
    <2>2. CommandOK(Cloud, r)
      BY <2>1, DoneCommand DEF Tasks
    <2>3. \A x \in r.listed : chan[r.call][x] = "gone"
      BY <2>1, <2>2 DEF CommandOK, HungUp
    <2>4. QED
      BY <2>3 DEF Group
  <1>2. QED
    BY <1>1, CommandsInvariant, PTL

(* A command about a call that had no channel left when it was read is     *)
(* never acknowledged as done, nor is an answer by a phone to which the    *)
(* call never had a leg.                                                   *)
THEOREM AcknowledgesWhatWasDone == CommandsSpec => []NoFalseSuccess
  <1>1. CommandsInv => NoFalseSuccess
    <2> DEFINE r == task[Cloud]
    <2>1. SUFFICES ASSUME CommandsInv, r.at = "done", r.kind \in {"reject", "answer", "reinvite"},
                          r.ok = "yes"
                   PROVE  /\ r.stale = "no"
                          /\ r.kind = "answer" /\ r.phone # NoPhone =>
                               chan[r.call][r.phone] # "none"
      BY DEF NoFalseSuccess
    <2>2. CommandOK(Cloud, r)
      BY <2>1, DoneCommand DEF Tasks
    <2>3. r.stale = "no"
      BY <2>1, <2>2 DEF CommandOK, NotStale
    <2>4. r.kind = "answer" /\ r.phone # NoPhone => chan[r.call][r.phone] # "none"
      BY <2>1, <2>2 DEF CommandOK, Reached
    <2>5. QED
      BY <2>3, <2>4
  <1>2. QED
    BY <1>1, CommandsInvariant, PTL

(* While one call keeps the slot and its panel may be unlocked, the door   *)
(* that opens is that of its panel, and the event names that call.         *)
THEOREM OpensCallersDoor == CommandsSpec => []CallersDoor
  <1>1. CommandsInv => CallersDoor
    <2>1. SUFFICES ASSUME CommandsInv, NEW t \in Tasks, task[t].at = "done",
                          task[t].kind = "unlock", task[t].steady = "yes",
                          task[t].door # NoDevice
                   PROVE  task[t].door = PanelOf[task[t].slot] /\ task[t].names = task[t].slot
      BY DEF CallersDoor
    <2>2. CommandOK(t, task[t])
      BY <2>1, DoneCommand
    <2>3. QED
      BY <2>1, <2>2 DEF CommandOK, OpensOwn
  <1>2. QED
    BY <1>1, CommandsInvariant, PTL

=============================================================================
