-------------------------- MODULE SseStreamProofs ---------------------------
(***************************************************************************)
(* Theorems about SseStream, for any number of browsers and calls and any  *)
(* limits on subscribers and queues.                                       *)
(***************************************************************************)
EXTENDS SseStream, FiniteSetTheorems, SequenceTheorems, TLAPS

Event == [event : {"call_started", "call_ended"}, call : Calls]

(* What the proofs need to know of the types besides TypeOK: the cap on    *)
(* subscribers counts a finite set.                                        *)
Types == TypeOK /\ IsFiniteSet(subs)

-----------------------------------------------------------------------------
(* The bus                                                                 *)

LEMMA Events ==
  ASSUME NEW c \in Calls
  PROVE  /\ Started(c) \in Event /\ Ended(c) \in Event
         /\ \A k : Shown(k, Started(c)) = c /\ Shown(k, Ended(c)) = NoCall
  BY DEF Event, Started, Ended, Shown

LEMMA AppendLast ==
  ASSUME NEW S, NEW s \in Seq(S), NEW e \in S
  PROVE  /\ Append(s, e) \in Seq(S) /\ Append(s, e) # <<>>
         /\ Len(Append(s, e)) = Len(s) + 1
         /\ Append(s, e)[Len(Append(s, e))] = e
  OBVIOUS

LEMMA TailLast ==
  ASSUME NEW S, NEW s \in Seq(S), s # <<>>
  PROVE  /\ Tail(s) \in Seq(S) /\ Len(Tail(s)) = Len(s) - 1
         /\ Head(s) \in S
         /\ Tail(s) # <<>> => Tail(s)[Len(Tail(s))] = s[Len(s)]
         /\ Tail(s) = <<>> => Head(s) = s[Len(s)]
  <1>1. Tail(s) \in Seq(S) /\ Len(Tail(s)) = Len(s) - 1 /\ Head(s) \in S /\ Len(s) \in Nat
    OBVIOUS
  <1>2. ASSUME Tail(s) # <<>> PROVE Tail(s)[Len(Tail(s))] = s[Len(s)]
    <2>1. Len(Tail(s)) \in 1..Len(Tail(s))
      BY <1>1, <1>2, EmptySeq
    <2>2. QED
      BY <1>1, <2>1
  <1>3. ASSUME Tail(s) = <<>> PROVE Head(s) = s[Len(s)]
    <2>1. Len(Tail(s)) = 0
      BY <1>3, EmptySeq
    <2>2. Len(s) - 1 = 0
      BY <1>1, <2>1, Zenon
    <2>3. Len(s) = 1
      <3>1. \A n \in Nat : n - 1 = 0 => n = 1
        OBVIOUS
      <3>2. QED
        BY <1>1, <2>2, <3>1, Zenon
    <2>4. Head(s) = s[1]
      OBVIOUS
    <2>5. QED
      BY <2>3, <2>4
  <1>4. QED
    BY <1>1, <1>2, <1>3

(* After an event every subscriber has it last in its queue, or missed it. *)
LEMMA PublishEffect ==
  ASSUME TypeOK, NEW e \in Event, Publish(e)
  PROVE  /\ subs' = subs
         /\ queue' \in [Clients -> Seq(Event)]
         /\ \A k \in Clients : Len(queue'[k]) <= QueueSize
         /\ missed \subseteq missed' /\ missed' \subseteq Clients
         /\ \A k \in subs : k \notin missed' =>
              queue'[k] # <<>> /\ queue'[k][Len(queue'[k])] = e
  <1>a. /\ queue \in [Clients -> Seq(Event)] /\ subs \subseteq Clients /\ missed \subseteq Clients
        /\ \A k \in Clients : Len(queue[k]) <= QueueSize
        /\ QueueSize \in Nat
    BY SseStreamAssumption, Zenon DEF TypeOK, Event
  <1>b. \A k \in Clients : queue[k] \in Seq(Event)
    BY <1>a
  <1>0. /\ queue \in [Clients -> Seq(Event)] /\ subs \subseteq Clients /\ missed \subseteq Clients
        /\ \A k \in Clients : Len(queue[k]) <= QueueSize /\ Len(queue[k]) \in Nat
        /\ QueueSize \in Nat
    BY <1>a, <1>b, LenProperties
  <1>1. \A k \in Clients : /\ Append(queue[k], e) \in Seq(Event) /\ Append(queue[k], e) # <<>>
                           /\ Len(Append(queue[k], e)) = Len(queue[k]) + 1
                           /\ Append(queue[k], e)[Len(Append(queue[k], e))] = e
    BY <1>0, AppendLast
  <1>2. ASSUME NEW k \in Clients
        PROVE  /\ queue'[k] \in Seq(Event) /\ Len(queue'[k]) <= QueueSize
               /\ k \in subs /\ k \notin missed' =>
                    queue'[k] # <<>> /\ queue'[k][Len(queue'[k])] = e
    <2>1. queue'[k] = IF k \in subs /\ Len(queue[k]) < QueueSize
                      THEN Append(queue[k], e) ELSE queue[k]
      BY DEF Publish
    <2>2. k \in subs /\ k \notin missed' => Len(queue[k]) < QueueSize
      BY <1>0 DEF Publish
    <2>3. QED
      BY <1>0, <1>1, <2>1, <2>2
  <1>3. queue' \in [Clients -> Seq(Event)]
    BY <1>2 DEF Publish
  <1>4. QED
    BY <1>0, <1>2, <1>3 DEF Publish

(* A connection takes the last place: the cap is not exceeded.             *)
LEMMA ConnectCount ==
  ASSUME Types, NEW k \in Clients, Cardinality(subs) < MaxSubs
  PROVE  IsFiniteSet(subs \cup {k}) /\ Cardinality(subs \cup {k}) <= MaxSubs
  <1>1. Cardinality(subs) \in Nat
    BY FS_CardinalityType DEF Types
  <1>2. /\ IsFiniteSet(subs \cup {k})
        /\ Cardinality(subs \cup {k}) = Cardinality(subs)
           \/ Cardinality(subs \cup {k}) = Cardinality(subs) + 1
    BY FS_AddElement DEF Types
  <1>3. QED
    BY <1>1, <1>2, SseStreamAssumption

LEMMA CloseCount ==
  ASSUME Types, NEW k \in Clients
  PROVE  IsFiniteSet(subs \ {k}) /\ Cardinality(subs \ {k}) <= MaxSubs
  <1>1. Cardinality(subs \ {k}) <= Cardinality(subs) /\ IsFiniteSet(subs \ {k})
    BY FS_Subset DEF Types
  <1>2. Cardinality(subs \ {k}) \in Nat /\ Cardinality(subs) \in Nat
    BY <1>1, FS_CardinalityType DEF Types
  <1>3. QED
    BY <1>1, <1>2, SseStreamAssumption DEF Types, TypeOK

-----------------------------------------------------------------------------
(* Types                                                                   *)

LEMMA TypesStep == Types /\ [Next]_vars => Types'
  <1> SUFFICES ASSUME Types, [Next]_vars PROVE Types'
    OBVIOUS
  <1>0. TypeOK /\ IsFiniteSet(subs) /\ Calls \subseteq Nat
    BY SseStreamAssumption DEF Types
  <1>1. CASE Register
    BY <1>0, <1>1 DEF Register, clientVars, busVars, Types, TypeOK
  <1>2. ASSUME NEW c \in Calls, Announce(c) PROVE Types'
    <2>1. Started(c) \in Event
      BY Events
    <2>2. QED
      BY <1>0, <1>2, <2>1, PublishEffect DEF Announce, clientVars, Types, TypeOK, Event
  <1>3. CASE Hangup
    <2>1. Ended(active) \in Event
      BY <1>0, <1>3, Events DEF Hangup, TypeOK
    <2>2. QED
      BY <1>0, <1>3, <2>1, PublishEffect DEF Hangup, clientVars, Types, TypeOK, Event
  <1>4. ASSUME NEW k \in Clients, ClientStep(k) PROVE Types'
    <2>1. CASE Connect(k)
      BY <1>0, <2>1, ConnectCount DEF Connect, callVars, Types, TypeOK
    <2>2. CASE Refuse(k)
      BY <1>0, <2>2 DEF Refuse, callVars, busVars, Types, TypeOK
    <2>3. CASE Greet(k)
      BY <1>0, <2>3 DEF Greet, Show, callVars, busVars, Types, TypeOK
    <2>4. CASE EnterLoop(k)
      BY <1>0, <2>4 DEF EnterLoop, callVars, busVars, Types, TypeOK
    <2>5. CASE Yield(k)
      <3>0. queue \in [Clients -> Seq(Event)] /\ queue[k] \in Seq(Event) /\ queue[k] # <<>>
        BY <1>0, <2>5 DEF TypeOK, Event, Yield
      <3>1. /\ Tail(queue[k]) \in Seq(Event) /\ Len(Tail(queue[k])) = Len(queue[k]) - 1
            /\ Head(queue[k]) \in Event
        BY <3>0, TailLast
      <3>2. Shown(k, Head(queue[k])) \in Calls \cup {NoCall}
        BY <3>1 DEF Shown, Event
      <3>3. banner' \in [Clients -> Calls \cup {NoCall}]
        BY <1>0, <2>5, <3>2 DEF Yield, Show, TypeOK
      <3>4. queue' = [queue EXCEPT ![k] = Tail(queue[k])]
        BY <2>5 DEF Yield
      <3>5. queue' \in [Clients -> Seq(Event)]
        BY <3>0, <3>1, <3>4
      <3>6. \A j \in Clients : Len(queue'[j]) <= QueueSize
        <4>1. Len(queue[k]) \in Nat /\ Len(queue[k]) <= QueueSize /\ QueueSize \in Nat
          BY <1>0, <3>0, SseStreamAssumption DEF TypeOK
        <4>2. queue'[k] = Tail(queue[k]) /\ \A j \in Clients \ {k} : queue'[j] = queue[j]
          BY <3>0, <3>4
        <4>3. QED
          BY <1>0, <3>1, <4>1, <4>2 DEF TypeOK
      <3>7. QED
        BY <1>0, <2>5, <3>3, <3>5, <3>6 DEF Yield, callVars, Types, TypeOK, Event
    <2>6. CASE KeepAlive(k)
      BY <1>0, <2>6 DEF KeepAlive, Show, callVars, busVars, Types, TypeOK
    <2>7. CASE Leave(k)
      BY <1>0, <2>7 DEF Leave, callVars, busVars, Types, TypeOK
    <2>8. CASE Close(k)
      BY <1>0, <2>8, CloseCount DEF Close, callVars, Types, TypeOK
    <2>9. QED
      BY <1>4, <2>1, <2>2, <2>3, <2>4, <2>5, <2>6, <2>7, <2>8 DEF ClientStep, StreamStep
  <1>5. CASE UNCHANGED vars
    BY <1>0, <1>5 DEF vars, callVars, clientVars, busVars, Types, TypeOK
  <1>6. QED
    BY <1>1, <1>2, <1>3, <1>4, <1>5 DEF Next

LEMMA TypesInvariant == Spec => []Types
  <1>1. Init => Types
    <2> SUFFICES ASSUME Init PROVE Types
      OBVIOUS
    <2>1. \A k \in Clients : queue[k] = <<>>
      BY DEF Init
    <2>2. IsFiniteSet(subs) /\ Cardinality(subs) <= MaxSubs
      BY FS_EmptySet, SseStreamAssumption DEF Init
    <2>3. QED
      BY <2>1, <2>2, EmptySeq, SseStreamAssumption DEF Init, Types, TypeOK
  <1>2. QED
    BY <1>1, TypesStep, PTL DEF Spec

(* The variables of the stream keep their types: no more subscribers than  *)
(* MAX_SSE_SUBS, no queue longer than its limit.                           *)
THEOREM StreamTypeCorrect == Spec => []TypeOK
  BY TypesInvariant, PTL DEF Types

-----------------------------------------------------------------------------
(* The banner                                                              *)

Open(k) == conn[k] \in {"subscribed", "greeted", "loop"}

SubsInv == \A k \in Clients : /\ Open(k) => k \in subs
                              /\ conn[k] = "new" => k \notin subs /\ queue[k] = <<>>

(* A lookup that still runs is the one of the call in the slot.            *)
OneLookup == late = "no" => \A c \in announcing : c = active

(* A generator that was greeted, or has something in its queue already,    *)
(* will bring its browser to what CallStore holds.                         *)
Follows(k) ==
  /\ Open(k) /\ browser[k] = "here" /\ k \notin missed
  /\ queue[k] # <<>> \/ (conn[k] # "subscribed" /\ k \notin idled)
  => Prospect(k) = active

StreamInv ==
  /\ SubsInv
  /\ OneLookup
  /\ announcing = {} /\ late = "no" => \A k \in Clients : Follows(k)

LEMMA PublishSubs ==
  ASSUME SubsInv, NEW e \in Event, Publish(e), UNCHANGED conn
  PROVE  SubsInv'
  <1>1. subs' = subs /\ \A k \in Clients : k \notin subs => queue'[k] = queue[k]
    BY DEF Publish
  <1>2. QED
    BY <1>1 DEF SubsInv, Open

(* An event that tells every subscriber what CallStore holds now.          *)
LEMMA PublishedFollows ==
  ASSUME TypeOK, SubsInv, NEW e \in Event, Publish(e), UNCHANGED conn,
         \A k \in Clients : Shown(k, e) = active'
  PROVE  /\ SubsInv'
         /\ \A k \in Clients : Follows(k)'
  <1>1. SubsInv'
    BY PublishSubs
  <1>2. ASSUME NEW k \in Clients, Open(k)', k \notin missed' PROVE Prospect(k)' = active'
    <2>1. k \in subs
      BY <1>2 DEF SubsInv, Open
    <2>2. queue'[k] # <<>> /\ queue'[k][Len(queue'[k])] = e
      BY <1>2, <2>1, PublishEffect
    <2>3. Prospect(k)' = Shown(k, e)
      BY <2>2 DEF Prospect, Shown
    <2>4. QED
      BY <2>3
  <1>3. QED
    BY <1>1, <1>2 DEF Follows

(* A step of one client, seen by the others.                               *)
LEMMA OthersFollow ==
  ASSUME StreamInv, NEW k \in Clients, UNCHANGED callVars,
         \A j \in Clients \ {k} :
           /\ conn'[j] = conn[j] /\ browser'[j] = browser[j] /\ banner'[j] = banner[j]
           /\ queue'[j] = queue[j] /\ (j \in missed <=> j \in missed')
           /\ j \in idled <=> j \in idled'
           /\ j \in subs <=> j \in subs',
         Open(k)' => k \in subs',
         conn'[k] = "new" => k \notin subs' /\ queue'[k] = <<>>,
         announcing = {} /\ late = "no" => Follows(k)'
  PROVE  StreamInv'
  <1>1. SubsInv'
    BY DEF StreamInv, SubsInv, Open
  <1>2. OneLookup'
    BY DEF StreamInv, OneLookup, callVars
  <1>3. ASSUME announcing = {}, late = "no", NEW j \in Clients PROVE Follows(j)'
    <2>1. CASE j = k
      BY <1>3, <2>1
    <2>2. CASE j # k
      <3>1. Follows(j) /\ active' = active
        BY <1>3 DEF StreamInv, callVars
      <3>2. QED
        BY <2>2, <3>1 DEF Follows, Open, Prospect, Shown
    <2>3. QED
      BY <2>1, <2>2
  <1>4. QED
    BY <1>1, <1>2, <1>3 DEF StreamInv, callVars

LEMMA YieldFollows ==
  ASSUME TypeOK, NEW k \in Clients, Yield(k), Follows(k)
  PROVE  Follows(k)'
  <1>1. queue[k] \in Seq(Event) /\ queue[k] # <<>> /\ queue'[k] = Tail(queue[k])
    BY DEF TypeOK, Event, Yield
  <1>2. /\ Tail(queue[k]) # <<>> => Tail(queue[k])[Len(Tail(queue[k]))] = queue[k][Len(queue[k])]
        /\ Tail(queue[k]) = <<>> => Head(queue[k]) = queue[k][Len(queue[k])]
    BY <1>1, TailLast
  <1>3. /\ UNCHANGED <<active, conn, browser, missed>>
        /\ browser[k] = "here" => banner'[k] = Shown(k, Head(queue[k]))
    BY DEF Yield, Show, callVars, TypeOK
  <1>4. browser[k] = "here" => Prospect(k)' = Prospect(k)
    BY <1>1, <1>2, <1>3 DEF Prospect, Shown
  <1>5. Open(k)' = Open(k)
    BY <1>3 DEF Open
  <1>6. QED
    BY <1>1, <1>3, <1>4, <1>5 DEF Follows

LEMMA StreamStepInv == Types /\ StreamInv /\ [Next]_vars => StreamInv'
  <1> SUFFICES ASSUME Types, StreamInv, [Next]_vars PROVE StreamInv'
    OBVIOUS
  <1>0. TypeOK /\ SubsInv /\ OneLookup
    BY DEF Types, StreamInv
  <1>1. CASE Register
    <2>1. SubsInv'
      BY <1>0, <1>1 DEF Register, SubsInv, Open, clientVars, busVars
    <2>2. announcing' = announcing \cup {active'} /\ active = NoCall /\ late' = late
      BY <1>1 DEF Register
    <2>3. OneLookup'
      BY <1>0, <2>2, SseStreamAssumption DEF OneLookup, TypeOK
    <2>4. QED
      BY <2>1, <2>2, <2>3 DEF StreamInv
  <1>2. ASSUME NEW c \in Calls, Announce(c) PROVE StreamInv'
    <2>1. /\ c \in announcing /\ announcing' = announcing \ {c} /\ UNCHANGED <<active, late, conn>>
          /\ Publish(Started(c)) /\ Started(c) \in Event
          /\ \A k \in Clients : Shown(k, Started(c)) = c
      BY <1>2, Events DEF Announce, clientVars
    <2>2. OneLookup'
      BY <1>0, <2>1 DEF OneLookup
    <2>3. SubsInv'
      BY <1>0, <2>1, PublishSubs
    <2>4. late = "no" => \A k \in Clients : Follows(k)'
      BY <1>0, <2>1, PublishedFollows DEF OneLookup
    <2>5. QED
      BY <2>1, <2>2, <2>3, <2>4 DEF StreamInv
  <1>3. CASE Hangup
    <2>1. /\ active \in Calls /\ active' = NoCall /\ announcing' = announcing
          /\ late' = (IF active \in announcing THEN "yes" ELSE late)
          /\ Publish(Ended(active)) /\ UNCHANGED conn
      BY <1>0, <1>3 DEF Hangup, clientVars, TypeOK
    <2>2. Ended(active) \in Event /\ \A k \in Clients : Shown(k, Ended(active)) = active'
      BY <2>1, Events
    <2>3. SubsInv' /\ \A k \in Clients : Follows(k)'
      BY <1>0, <2>1, <2>2, PublishedFollows
    <2>4. OneLookup'
      BY <1>0, <2>1 DEF OneLookup
    <2>5. QED
      BY <2>3, <2>4 DEF StreamInv
  <1>4. ASSUME NEW k \in Clients, ClientStep(k) PROVE StreamInv'
    <2>0. /\ conn \in [Clients -> {"new", "subscribed", "greeted", "loop", "refused", "closed"}]
          /\ browser \in [Clients -> {"here", "left"}]
          /\ banner \in [Clients -> Calls \cup {NoCall}]
          /\ queue \in [Clients -> Seq(Event)]
          /\ Open(k) => k \in subs
          /\ conn[k] = "new" => k \notin subs /\ queue[k] = <<>>
          /\ announcing = {} /\ late = "no" => Follows(k)
      BY <1>0 DEF TypeOK, StreamInv, SubsInv, Event
    <2>1. CASE Connect(k)
      <3>1. Follows(k)'
        BY <2>0, <2>1 DEF Connect, Follows
      <3>2. QED
        BY <2>0, <2>1, <3>1, OthersFollow DEF Connect, Open
    <2>2. CASE Refuse(k)
      BY <2>0, <2>2, OthersFollow DEF Refuse, Follows, Open, busVars
    <2>3. CASE Greet(k)
      BY <2>0, <2>3, OthersFollow DEF Greet, Show, Follows, Open, Prospect, busVars, callVars
    <2>4. CASE EnterLoop(k)
      BY <2>0, <2>4, OthersFollow DEF EnterLoop, Follows, Open, Prospect, busVars, callVars
    <2>5. CASE Yield(k)
      <3>1. announcing = {} /\ late = "no" => Follows(k)'
        BY <1>0, <2>0, <2>5, YieldFollows
      <3>2. QED
        BY <2>0, <2>5, <3>1, OthersFollow DEF Yield, Show, Open
    <2>6. CASE KeepAlive(k)
      BY <2>0, <2>6, OthersFollow DEF KeepAlive, Show, Follows, Open, Prospect, busVars, callVars
    <2>7. CASE Leave(k)
      BY <2>0, <2>7, OthersFollow DEF Leave, Follows, Open, busVars
    <2>8. CASE Close(k)
      BY <2>0, <2>8, OthersFollow DEF Close, Follows, Open
    <2>9. QED
      BY <1>4, <2>1, <2>2, <2>3, <2>4, <2>5, <2>6, <2>7, <2>8 DEF ClientStep, StreamStep
  <1>5. CASE UNCHANGED vars
    BY <1>0, <1>5 DEF vars, callVars, clientVars, busVars, StreamInv, SubsInv, OneLookup, Open,
                      Follows, Prospect, Shown
  <1>6. QED
    BY <1>1, <1>2, <1>3, <1>4, <1>5 DEF Next

(* A browser ends up showing what CallStore holds, although calls come and *)
(* go between its subscription, its greeting and its loop.                 *)
THEOREM BannersInSync == Spec => []InSync
  <1>1. Init => StreamInv
    BY DEF Init, StreamInv, SubsInv, OneLookup, Follows, Open
  <1>2. StreamInv => InSync
    BY DEF StreamInv, Follows, Open, InSync
  <1>3. QED
    BY <1>1, <1>2, StreamStepInv, TypesInvariant, PTL DEF Spec
=============================================================================
