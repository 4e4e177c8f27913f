----------------------------- MODULE CallBridge -----------------------------
(***************************************************************************)
(* Calls and the cloud link together: what the cloud believes of each call.*)
(* CallTracking says which events the AMI handlers hand to the bridge;     *)
(* here they go through the send queue and the sessions of                 *)
(* backend/app/cloud/bridge.py, and a session that starts adds the state   *)
(* of the slot.  Three parts of the backend race for the order of the      *)
(* queue: on_dial_begin after its lookup, on_hangup, and the snapshot of a *)
(* new session, which reads the slot, waits for a lookup of its own and    *)
(* then queues call_started.                                               *)
(*                                                                         *)
(* The module extends CallTracking: a step of the calls is one of its      *)
(* actions with what the bridge does of the event, and Bridge... stands    *)
(* before the names that both modules have.                                *)
(*                                                                         *)
(* Messages that are not about calls are left out.  What the send loop has *)
(* taken and the network holds is one sequence, flight; CloudLink has the  *)
(* two apart.                                                              *)
(***************************************************************************)
EXTENDS CallTracking, Sequences

CONSTANTS
  QueueSize,      \* maxsize of the send queue
  MaxEnded        \* bound: sessions that end

ASSUME CallBridgeAssumption ==
  /\ QueueSize \in Nat \ {0}
  /\ MaxEnded \in Nat

VARIABLES
  session,     \* "down", "devices", "lookup", "up"
  snap,        \* the call whose state the snapshot looks up, else NoCall
  queue,       \* _send_queue
  flight,      \* taken by the send loop, not yet received by the cloud
  heard,       \* the last that the cloud received of each call
  ended,       \* sessions that ended
  raced,       \* calls that ended while a handler or the snapshot looked them up
  endLost,     \* calls whose call_ended was lost with a session or the process
  overflowed   \* calls of which a message found the queue full

linkVars == <<session, snap, ended>>
pathVars == <<queue, flight, heard>>
pastVars == <<raced, endLost, overflowed>>
bridgeVars == <<vars, linkVars, pathVars, pastVars>>

Kinds == {"started", "answered", "ended"}

EndsIn(messages) ==
  {c \in Calls : \E i \in DOMAIN messages :
                   messages[i].kind = "ended" /\ messages[i].call = c}

-----------------------------------------------------------------------------
(* send_event: a message that finds the queue full is dropped.             *)
SendEvent(kind, c) ==
  IF Len(queue) < QueueSize
  THEN /\ queue' = Append(queue, [kind |-> kind, call |-> c, stale |-> FALSE])
       /\ UNCHANGED overflowed
  ELSE /\ overflowed' = overflowed \cup {c}
       /\ UNCHANGED queue

(* The event of kind that a step of call tracking hands to the bridge.     *)
Pushed(kind, c) == cloud'[c][kind] # cloud[c][kind]

(* One step of the calls: a handler pushes one event at most.              *)
CallEvent ==
  /\ \/ \E c \in Calls : CallStep(c)
     \/ AmiDown
     \/ AmiConnect
  /\ \/ /\ cloud' = cloud
        /\ UNCHANGED <<queue, pastVars>>
     \/ \E c \in Calls, kind \in Kinds :
          /\ Pushed(kind, c)
          /\ SendEvent(kind, c)
          /\ raced' = IF kind = "ended" /\ (lookups[c] > 0 \/ snap = c)
                      THEN raced \cup {c} ELSE raced
          /\ UNCHANGED endLost
  /\ UNCHANGED <<linkVars, flight, heard>>

-----------------------------------------------------------------------------
(* The session: handshake, devices, the slot, its lookup, the main loop.   *)

Connect ==
  /\ session = "down"
  /\ session' = "devices"
  /\ UNCHANGED <<snap, ended, vars, pathVars, pastVars>>

(* Slip: a new session does not send the state of the slot.                *)
ReadSlotSkipped ==
  /\ session = "devices"
  /\ session' = "up"
  /\ UNCHANGED <<snap, ended, vars, pathVars, pastVars>>

(* _send_full_snapshot when the devices are collected.                     *)
ReadSlot ==
  /\ session = "devices"
  /\ session' = IF active = NoCall THEN "up" ELSE "lookup"
  /\ snap' = active
  /\ UNCHANGED <<ended, vars, pathVars, pastVars>>

(* _active_call_to_cloud has returned; the slot is not looked at again.    *)
SendActiveCall ==
  /\ session = "lookup"
  /\ session' = "up"
  /\ snap' = NoCall
  /\ SendEvent("started", snap)
  /\ UNCHANGED <<ended, vars, flight, heard, raced, endLost>>

(* Slip: what was taken and not delivered goes back into the queue.        *)
SessionEndsRequeues ==
  /\ session # "down"
  /\ ended < MaxEnded
  /\ ended' = ended + 1
  /\ session' = "down"
  /\ snap' = NoCall
  /\ queue' = queue \o flight
  /\ flight' = <<>>
  /\ UNCHANGED <<vars, heard, pastVars>>

SessionEnds ==
  /\ session # "down"
  /\ ended < MaxEnded
  /\ ended' = ended + 1
  /\ session' = "down"
  /\ snap' = NoCall
  /\ flight' = <<>>
  /\ endLost' = endLost \cup EndsIn(flight)
  /\ UNCHANGED <<vars, queue, heard, raced, overflowed>>

(* Queue, session and slot live in memory only.                            *)
BridgeRestart ==
  /\ Restart
  /\ session' = "down"
  /\ snap' = NoCall
  /\ queue' = <<>>
  /\ flight' = <<>>
  /\ endLost' = endLost \cup EndsIn(flight \o queue)
  /\ UNCHANGED <<ended, heard, raced, overflowed>>

(* A call_started gets older than 60 s, with all that is before it.  In a  *)
(* session nothing waits that long: the pings (20 s and 15 s) end it.      *)
Expire ==
  /\ session = "down"
  /\ \E k \in DOMAIN queue :
       /\ queue[k].kind = "started"
       /\ ~queue[k].stale
       /\ queue' = [i \in DOMAIN queue |->
                      IF i <= k THEN [queue[i] EXCEPT !.stale = TRUE] ELSE queue[i]]
  /\ UNCHANGED <<vars, linkVars, flight, heard, pastVars>>

(* _send_loop: only a stale call_started is dropped.                       *)
TakeMessage ==
  /\ session = "up"
  /\ queue # <<>>
  /\ queue' = Tail(queue)
  /\ LET m == Head(queue) IN
       flight' = IF m.kind = "started" /\ m.stale THEN flight ELSE Append(flight, m)
  /\ UNCHANGED <<vars, linkVars, heard, pastVars>>

CloudReceives ==
  /\ flight # <<>>
  /\ heard' = [heard EXCEPT ![Head(flight).call] = Head(flight).kind]
  /\ flight' = Tail(flight)
  /\ UNCHANGED <<vars, linkVars, queue, pastVars>>

-----------------------------------------------------------------------------
BridgeInit ==
  /\ Init
  /\ session = "down"
  /\ snap = NoCall
  /\ queue = <<>>
  /\ flight = <<>>
  /\ heard = [c \in Calls |-> "nothing"]
  /\ ended = 0
  /\ raced = {}
  /\ endLost = {}
  /\ overflowed = {}

BridgeNext ==
  \/ CallEvent
  \/ Connect
  \/ ReadSlot
  \/ SendActiveCall
  \/ SessionEnds
  \/ BridgeRestart
  \/ Expire
  \/ TakeMessage
  \/ CloudReceives

BridgeSpec == BridgeInit /\ [][BridgeNext]_bridgeVars

-----------------------------------------------------------------------------
(* Properties *)

(* bridge.py on the send loop: "a reconnect can't replay a call_started    *)
(* for a finished call."  Whatever was lost, dropped as stale or sent      *)
(* again by a snapshot, the cloud hears of no call that begins after its   *)
(* end, unless the panel hung up while a handler or the snapshot was       *)
(* looking up that very call.                                              *)
NoRingAfterEnd ==
  [][\A c \in Calls :
       heard[c] = "ended" /\ heard'[c] = "started" => c \in raced]_bridgeVars

(* Nothing is under way between the handlers and the cloud.                *)
Settled ==
  /\ session = "up"
  /\ queue = <<>>
  /\ flight = <<>>
  /\ \A c \in Calls : lookups[c] = 0

GoesOn(c) == heard[c] \in {"started", "answered"}

(* "Also send current call state": when all is delivered, the cloud knows  *)
(* the call in the slot, whatever was lost with earlier sessions, and it   *)
(* believes of no other call that it goes on.  The first does not hold of  *)
(* a call that only a legacy webhook has registered, and the second not of *)
(* a call that another one or a restart removed from the slot, that ended  *)
(* while it was looked up, or whose call_ended was lost: the snapshot of   *)
(* an empty slot says nothing.                                             *)
CloudAgrees ==
  Settled =>
    \A c \in Calls \ overflowed :
      /\ active = c => GoesOn(c) \/ c \in Legacy
      /\ GoesOn(c) => active = c \/ dropped[c] > 0 \/ c \in raced \cup endLost

=============================================================================
