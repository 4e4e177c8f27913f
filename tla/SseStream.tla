----------------------------- MODULE SseStream ------------------------------
(***************************************************************************)
(* The event stream of the admin UI: the in-memory bus, one bounded queue  *)
(* and one generator per browser, and the banner in the browser.           *)
(* Sources: backend/app/events/bus.py, backend/app/api/routes/events.py,   *)
(* frontend/src/hooks/useCallEvents.ts; the publisher is ami/consumer.py,  *)
(* as CallTracking has it for one call at a time.                          *)
(*                                                                         *)
(* What a generator yields reaches its browser in order; the browser or    *)
(* the connection may be gone at any time.                                 *)
(***************************************************************************)
EXTENDS Integers, Sequences, FiniteSets

CONSTANTS
  Clients,   \* connections of browsers
  Calls,     \* numbers of the calls, in the order in which they come
  NoCall,    \* no call; also the browser without a banner
  MaxSubs,   \* MAX_SSE_SUBS
  QueueSize  \* maxsize of a subscriber's queue

ASSUME SseStreamAssumption ==
  /\ Calls \subseteq Nat
  /\ NoCall \notin Calls
  /\ MaxSubs \in Nat
  /\ QueueSize \in Nat \ {0}

VARIABLES
  active,     \* the call in CallStore
  came,       \* calls so far
  announcing, \* calls registered, their call_started not yet published
  conn,       \* "new", "subscribed", "greeted", "loop", "refused", "closed"
  browser,    \* "here" or "left"
  subs,       \* EventBus._subs, by client
  queue,      \* the queue of each client
  banner,     \* the call shown by each browser
  late,       \* history: "yes" since a call ended before its call_started went out
  missed,     \* history: clients whose queue was full when an event came
  idled       \* history: clients that got a keep-alive during a call, and nothing since

callVars   == <<active, came, announcing, late>>
clientVars == <<conn, browser, banner, idled>>
busVars    == <<subs, queue, missed>>
vars == <<callVars, clientVars, busVars>>

Started(c) == [event |-> "call_started", call |-> c]
Ended(c)   == [event |-> "call_ended", call |-> c]

-----------------------------------------------------------------------------
(* Slip: a full queue grows.                                               *)
PublishAlways(e) ==
  /\ queue' = [k \in Clients |-> IF k \in subs THEN Append(queue[k], e) ELSE queue[k]]
  /\ UNCHANGED <<subs, missed>>

(* EventBus.publish: a full queue drops the message, the others get it.    *)
Publish(e) ==
  /\ queue' = [k \in Clients |-> IF k \in subs /\ Len(queue[k]) < QueueSize
                                 THEN Append(queue[k], e) ELSE queue[k]]
  /\ missed' = missed \cup {k \in subs : Len(queue[k]) >= QueueSize}
  /\ UNCHANGED subs

Register ==
  /\ active = NoCall
  /\ came + 1 \in Calls
  /\ came' = came + 1
  /\ active' = came + 1
  /\ announcing' = announcing \cup {came + 1}
  /\ UNCHANGED <<late, clientVars, busVars>>

(* After the database lookup; the call may be over by then.                *)
Announce(c) ==
  /\ c \in announcing
  /\ announcing' = announcing \ {c}
  /\ Publish(Started(c))
  /\ UNCHANGED <<active, came, late, clientVars>>

Hangup ==
  /\ active # NoCall
  /\ active' = NoCall
  /\ late' = IF active \in announcing THEN "yes" ELSE late
  /\ Publish(Ended(active))
  /\ UNCHANGED <<came, announcing, clientVars>>

-----------------------------------------------------------------------------
(* GET /api/events/stream *)

(* The check and the subscription are not separated by an await.           *)
Connect(k) ==
  /\ conn[k] = "new"
  /\ Cardinality(subs) < MaxSubs
  /\ conn' = [conn EXCEPT ![k] = "subscribed"]
  /\ subs' = subs \cup {k}
  /\ UNCHANGED <<callVars, browser, banner, idled, queue, missed>>

Refuse(k) ==
  /\ conn[k] = "new"
  /\ Cardinality(subs) >= MaxSubs
  /\ conn' = [conn EXCEPT ![k] = "refused"]
  /\ UNCHANGED <<callVars, browser, banner, idled, busVars>>

(* useCallEvents: call_ended of any call clears the banner.                *)
Shown(k, e) == IF e.event = "call_started" THEN e.call ELSE NoCall

Show(k, call) == banner' = [banner EXCEPT ![k] = IF browser[k] = "here" THEN call ELSE @]

(* The first yield of the generator: the state of this moment.             *)
Greet(k) ==
  /\ conn[k] = "subscribed"
  /\ conn' = [conn EXCEPT ![k] = "greeted"]
  /\ Show(k, active)
  /\ UNCHANGED <<callVars, browser, idled, busVars>>

(* Slip: the queue is created only now.                                    *)
EnterLoopSubscribes(k) ==
  /\ conn[k] = "greeted"
  /\ conn' = [conn EXCEPT ![k] = "loop"]
  /\ queue' = [queue EXCEPT ![k] = <<>>]
  /\ UNCHANGED <<callVars, browser, banner, idled, subs, missed>>

EnterLoop(k) ==
  /\ conn[k] = "greeted"
  /\ conn' = [conn EXCEPT ![k] = "loop"]
  /\ UNCHANGED <<callVars, browser, banner, idled, busVars>>

Yield(k) ==
  /\ conn[k] = "loop"
  /\ queue[k] # <<>>
  /\ Show(k, Shown(k, Head(queue[k])))
  /\ idled' = idled \ {k}
  /\ queue' = [queue EXCEPT ![k] = Tail(@)]
  /\ UNCHANGED <<callVars, conn, browser, subs, missed>>

(* Slip: a keep-alive that the browser ignores.                            *)
KeepAliveComment(k) ==
  /\ conn[k] = "loop"
  /\ queue[k] = <<>>
  /\ UNCHANGED vars

(* Nothing for 25 s: the event "idle", which clears the banner as well.    *)
KeepAlive(k) ==
  /\ conn[k] = "loop"
  /\ queue[k] = <<>>
  /\ Show(k, NoCall)
  /\ idled' = IF active = NoCall THEN idled ELSE idled \cup {k}
  /\ UNCHANGED <<callVars, conn, browser, busVars>>

(* The browser goes away; its generator is closed at some later time.      *)
Leave(k) ==
  /\ conn[k] \in {"subscribed", "greeted", "loop"}
  /\ browser[k] = "here"
  /\ browser' = [browser EXCEPT ![k] = "left"]
  /\ UNCHANGED <<callVars, conn, banner, idled, busVars>>

(* A generator that is suspended in its loop runs its finally clause; one  *)
(* that has not started, or is suspended at its first yield, does not.     *)
Close(k) ==
  /\ browser[k] = "left"
  /\ conn[k] \in {"subscribed", "greeted", "loop"}
  /\ conn' = [conn EXCEPT ![k] = "closed"]
  /\ subs' = IF conn[k] = "loop" THEN subs \ {k} ELSE subs
  /\ UNCHANGED <<callVars, browser, banner, idled, queue, missed>>

-----------------------------------------------------------------------------
Init ==
  /\ active = NoCall
  /\ came = 0
  /\ announcing = {}
  /\ late = "no"
  /\ conn = [k \in Clients |-> "new"]
  /\ browser = [k \in Clients |-> "here"]
  /\ subs = {}
  /\ queue = [k \in Clients |-> <<>>]
  /\ banner = [k \in Clients |-> NoCall]
  /\ missed = {}
  /\ idled = {}

StreamStep(k) == Greet(k) \/ EnterLoop(k) \/ Yield(k) \/ KeepAlive(k)

ClientStep(k) == Connect(k) \/ Refuse(k) \/ StreamStep(k) \/ Leave(k) \/ Close(k)

Next ==
  \/ Register
  \/ \E c \in Calls : Announce(c)
  \/ Hangup
  \/ \E k \in Clients : ClientStep(k)

Spec == Init /\ [][Next]_vars

(* Generators run on, and a lookup that was started is answered.           *)
FairSpec ==
  /\ Spec
  /\ \A k \in Clients : WF_vars(StreamStep(k)) /\ WF_vars(Close(k))
  /\ \A c \in Calls : WF_vars(Announce(c))

-----------------------------------------------------------------------------
(* Properties *)

TypeOK ==
  /\ active \in Calls \cup {NoCall}
  /\ came \in Nat
  /\ announcing \subseteq Calls
  /\ late \in {"no", "yes"}
  /\ conn \in [Clients -> {"new", "subscribed", "greeted", "loop", "refused", "closed"}]
  /\ browser \in [Clients -> {"here", "left"}]
  /\ subs \subseteq Clients /\ Cardinality(subs) <= MaxSubs
  /\ queue \in [Clients -> Seq([event : {"call_started", "call_ended"}, call : Calls])]
  /\ \A k \in Clients : Len(queue[k]) <= QueueSize
  /\ banner \in [Clients -> Calls \cup {NoCall}]
  /\ missed \subseteq Clients
  /\ idled \subseteq Clients

(* What the browser will show when it has been sent all that is queued.    *)
Prospect(k) ==
  IF queue[k] = <<>> THEN banner[k] ELSE Shown(k, queue[k][Len(queue[k])])

(* events.py: "Send current state immediately so the client is in sync."   *)
(* Although calls come and go between the subscription, the greeting and   *)
(* the loop, a browser ends up showing what CallStore holds.  Excepted are *)
(* the moments while a lookup runs, a queue that overflowed, a banner that *)
(* the keep-alive cleared, and a call that ended before it was announced.  *)
InSync ==
  announcing = {} /\ late = "no" =>
    \A k \in Clients :
      conn[k] \in {"greeted", "loop"} /\ browser[k] = "here" /\ k \notin missed \cup idled
        => Prospect(k) = active

(* No browser that stays connected shows a call for ever that is over,     *)
(* not even after an overflow or a call_started that came too late.        *)
BannerClears ==
  \A k \in Clients, c \in Calls :
    (conn[k] = "loop" /\ banner[k] = c /\ active # c)
      ~> (banner[k] # c \/ browser[k] = "left")

=============================================================================
