---------------------------- MODULE CallTracking ----------------------------
(***************************************************************************)
(* Call tracking: how Asterisk's AMI events become call_started,           *)
(* call_answered and call_ended for the browser (SSE) and for the cloud.   *)
(* Sources: backend/app/ami/consumer.py (the handlers),                    *)
(* services/call_store.py (the one slot for "the" active call),            *)
(* ami/client.py (the AMI session) and the webhook of api/routes/calls.py. *)
(*                                                                         *)
(* Every AMI event runs its handler as an asyncio task of its own, started *)
(* in the order of the events.  A handler runs without interruption up to  *)
(* its only await that suspends, the database lookup of the calling panel; *)
(* an action is therefore one event with the handler up to that point, and *)
(* LookupDone is the rest of a suspended handler.  Publishing to SSE and   *)
(* queueing for the cloud never suspend.                                   *)
(***************************************************************************)
EXTENDS Integers, FiniteSets

CONSTANTS
  Calls,          \* call groups, named by their Linkedid
  NoCall,         \* the value None of CallStore._active
  Legacy,         \* calls routed by a dialplan that still has the CURL lines
  MaxConcurrent,  \* bound: panels calling at the same time
  MaxDials,       \* bound: dial legs of one call
  MaxBridged,     \* bound: non-originating BridgeEnter events of one call
  MaxOutages,     \* bound: losses of the AMI session
  MaxRestarts     \* bound: restarts of the backend

ASSUME CallTrackingAssumption ==
  /\ NoCall \notin Calls
  /\ Legacy \subseteq Calls
  /\ {MaxConcurrent, MaxDials, MaxBridged, MaxOutages, MaxRestarts} \subseteq Nat

VARIABLES
  (* Asterisk *)
  chan,        \* the panel's channel of each call: "none", "ring", "gone"
  dials,       \* DialBegin events so far
  legs,        \* dial legs that have not hung up
  bridged,     \* BridgeEnter events of channels other than the panel's
  hook,        \* how far a legacy dialplan got with its webhooks
  (* the AMI session *)
  ami,         \* "up" while events reach the consumer, else "down"
  outages,
  restarts,
  (* the backend *)
  active,      \* CallStore._active
  lookups,     \* handlers suspended in _lookup_caller_device, per call
  (* what was published, and what became of each registration *)
  sse,         \* events published on the bus
  cloud,       \* events handed to the cloud bridge
  registered,  \* calls of CallStore.on_call_started
  dropped,     \* slots overwritten, lost, or cleared without a cloud call_ended
  lost         \* suspended handlers that died with the process

asteriskVars == <<chan, dials, legs, bridged, hook>>
amiVars      == <<ami, outages, restarts>>
storeVars    == <<active, registered, dropped>>
handlerVars  == <<lookups, lost>>
outVars      == <<sse, cloud>>
vars == <<asteriskVars, amiVars, storeVars, handlerVars, outVars>>

Published == [started : Nat, answered : Nat, ended : Nat]

Live(c) == chan[c] = "ring"

(* One more event of call c in the record of published events out.         *)
PublishStarted(out, c)  == [out EXCEPT ![c].started  = @ + 1]
PublishAnswered(out, c) == [out EXCEPT ![c].answered = @ + 1]
PublishEnded(out, c)    == [out EXCEPT ![c].ended    = @ + 1]

-----------------------------------------------------------------------------
(* CallStore                                                               *)

(* on_call_started: the slot is overwritten, whatever it holds.            *)
OnCallStarted(c) ==
  /\ active' = c
  /\ registered' = [registered EXCEPT ![c] = @ + 1]
  /\ dropped' = [d \in Calls |-> dropped[d] + (IF d = active THEN 1 ELSE 0)]

(* on_call_ended: only the slot of that very call is cleared.              *)
OnCallEnded(c) == active' = IF active = c THEN NoCall ELSE active

-----------------------------------------------------------------------------
(* The handlers *)

(* on_dial_begin and on_newchannel up to the lookup.  An event of the call *)
(* in the slot is dropped; one without a CallerIDNum leaves nothing to     *)
(* look up and the handler publishes at once.                              *)
CallDetected(c, caller) ==
  \/ /\ active = c
     /\ UNCHANGED <<storeVars, handlerVars, outVars>>
  \/ /\ active # c
     /\ OnCallStarted(c)
     /\ \/ /\ ~caller
           /\ sse' = PublishStarted(sse, c)
           /\ cloud' = PublishStarted(cloud, c)
           /\ UNCHANGED lookups
        \/ /\ caller
           /\ lookups' = [lookups EXCEPT ![c] = @ + 1]
           /\ UNCHANGED outVars
     /\ UNCHANGED lost

(* on_newchannel also wants an inbound context, a ringing or answered      *)
(* channel and a caller (detectable).                                      *)
OnNewchannel(c, detectable) ==
  IF detectable
  THEN CallDetected(c, TRUE)
  ELSE UNCHANGED <<storeVars, handlerVars, outVars>>

(* Slip: every BridgeEnter of an extension is an answer.                   *)
OnBridgeEnterAnyCall(c, isCaller) ==
  /\ cloud' = IF ~isCaller THEN PublishAnswered(cloud, c) ELSE cloud
  /\ UNCHANGED <<storeVars, handlerVars, sse>>

(* on_bridge_enter: a channel that is not the caller's joined the bridge.  *)
OnBridgeEnter(c, isCaller) ==
  /\ cloud' = IF active = c /\ ~isCaller THEN PublishAnswered(cloud, c) ELSE cloud
  /\ UNCHANGED <<storeVars, handlerVars, sse>>

(* Slip: the slot is not cleared.                                          *)
OnHangupKeepsSlot(c, originating) ==
  IF originating /\ active = c
  THEN /\ sse' = PublishEnded(sse, c)
       /\ cloud' = PublishEnded(cloud, c)
       /\ UNCHANGED <<storeVars, handlerVars>>
  ELSE UNCHANGED <<storeVars, handlerVars, outVars>>

(* on_hangup: only the panel's own channel (Uniqueid = Linkedid), and only *)
(* if the slot holds its call.                                             *)
OnHangup(c, originating) ==
  IF originating /\ active = c
  THEN /\ OnCallEnded(c)
       /\ sse' = PublishEnded(sse, c)
       /\ cloud' = PublishEnded(cloud, c)
       /\ UNCHANGED <<registered, dropped, handlerVars>>
  ELSE UNCHANGED <<storeVars, handlerVars, outVars>>

(* Slip: publishing only if the slot still holds the call.                 *)
LookupDoneRechecks(c) ==
  /\ lookups[c] > 0
  /\ lookups' = [lookups EXCEPT ![c] = @ - 1]
  /\ sse' = IF active = c THEN PublishStarted(sse, c) ELSE sse
  /\ cloud' = IF active = c THEN PublishStarted(cloud, c) ELSE cloud
  /\ UNCHANGED <<asteriskVars, amiVars, storeVars, lost>>

(* The rest of a suspended handler.  A lookup that fails returns (None,    *)
(* None), so the events go out either way, and nothing is checked again.   *)
LookupDone(c) ==
  /\ lookups[c] > 0
  /\ lookups' = [lookups EXCEPT ![c] = @ - 1]
  /\ sse' = PublishStarted(sse, c)
  /\ cloud' = PublishStarted(cloud, c)
  /\ UNCHANGED <<asteriskVars, amiVars, storeVars, lost>>

-----------------------------------------------------------------------------
(* Asterisk: one action per event.  An event that is raised while the AMI  *)
(* session is down is never delivered.                                     *)

Deliver(handler) ==
  IF ami = "up" THEN handler ELSE UNCHANGED <<storeVars, handlerVars, outVars>>

Newchannel(c) ==
  /\ chan[c] = "none"
  /\ Cardinality({d \in Calls : Live(d)}) < MaxConcurrent
  /\ chan' = [chan EXCEPT ![c] = "ring"]
  /\ \E detectable \in BOOLEAN : Deliver(OnNewchannel(c, detectable))
  /\ UNCHANGED <<dials, legs, bridged, hook, amiVars>>

(* Slip: the call is named by the leg that is dialled (DestUniqueid).      *)
DialBeginNamesLeg(c) ==
  /\ Live(c)
  /\ hook[c] # "ended"
  /\ dials[c] < MaxDials
  /\ dials' = [dials EXCEPT ![c] = @ + 1]
  /\ legs' = [legs EXCEPT ![c] = @ + 1]
  /\ Deliver(/\ active' = <<"leg", c>>
             /\ dropped' = [d \in Calls |-> dropped[d] + (IF d = active THEN 1 ELSE 0)]
             /\ UNCHANGED <<registered, handlerVars, outVars>>)
  /\ UNCHANGED <<chan, bridged, hook, amiVars>>

(* All legs of a call have its Linkedid.                                   *)
DialBegin(c) ==
  /\ Live(c)
  /\ hook[c] # "ended"
  /\ dials[c] < MaxDials
  /\ dials' = [dials EXCEPT ![c] = @ + 1]
  /\ legs' = [legs EXCEPT ![c] = @ + 1]
  /\ \E caller \in BOOLEAN : Deliver(CallDetected(c, caller))
  /\ UNCHANGED <<chan, bridged, hook, amiVars>>

(* A leg may still join the bridge while the panel is hanging up.          *)
BridgeEnter(c) ==
  /\ legs[c] > 0
  /\ \/ /\ Deliver(OnBridgeEnter(c, TRUE))
        /\ UNCHANGED bridged
     \/ /\ bridged[c] < MaxBridged
        /\ bridged' = [bridged EXCEPT ![c] = @ + 1]
        /\ Deliver(OnBridgeEnter(c, FALSE))
  /\ UNCHANGED <<chan, dials, legs, hook, amiVars>>

LegHangup(c) ==
  /\ legs[c] > 0
  /\ legs' = [legs EXCEPT ![c] = @ - 1]
  /\ Deliver(OnHangup(c, FALSE))
  /\ UNCHANGED <<chan, dials, bridged, hook, amiVars>>

PanelHangup(c) ==
  /\ Live(c)
  /\ chan' = [chan EXCEPT ![c] = "gone"]
  /\ Deliver(OnHangup(c, TRUE))
  /\ UNCHANGED <<dials, legs, bridged, hook, amiVars>>

(* The webhook, called over HTTP by a legacy dialplan before and after its *)
(* Dial(): no check of the slot, and nothing for the cloud.                *)
WebhookStart(c) ==
  /\ c \in Legacy
  /\ Live(c)
  /\ hook[c] = "none"
  /\ dials[c] = 0
  /\ hook' = [hook EXCEPT ![c] = "started"]
  /\ OnCallStarted(c)
  /\ sse' = PublishStarted(sse, c)
  /\ UNCHANGED <<chan, dials, legs, bridged, amiVars, handlerVars, cloud>>

WebhookEnd(c) ==
  /\ Live(c)
  /\ hook[c] = "started"
  /\ dials[c] > 0
  /\ hook' = [hook EXCEPT ![c] = "ended"]
  /\ OnCallEnded(c)
  /\ dropped' = [dropped EXCEPT ![c] = @ + (IF active = c THEN 1 ELSE 0)]
  /\ sse' = PublishEnded(sse, c)
  /\ UNCHANGED <<chan, dials, legs, bridged, amiVars, registered, handlerVars, cloud>>

-----------------------------------------------------------------------------
(* The AMI session and the process *)

AmiDown ==
  /\ ami = "up"
  /\ outages < MaxOutages
  /\ ami' = "down"
  /\ outages' = outages + 1
  /\ UNCHANGED <<asteriskVars, restarts, storeVars, handlerVars, outVars>>

AmiConnect ==
  /\ ami = "down"
  /\ ami' = "up"
  /\ UNCHANGED <<asteriskVars, outages, restarts, storeVars, handlerVars, outVars>>

(* The store and the suspended handlers live in memory only.               *)
Restart ==
  /\ restarts < MaxRestarts
  /\ restarts' = restarts + 1
  /\ ami' = "down"
  /\ active' = NoCall
  /\ dropped' = [d \in Calls |-> dropped[d] + (IF d = active THEN 1 ELSE 0)]
  /\ lost' = [d \in Calls |-> lost[d] + lookups[d]]
  /\ lookups' = [d \in Calls |-> 0]
  /\ UNCHANGED <<asteriskVars, outages, registered, outVars>>

-----------------------------------------------------------------------------
Init ==
  /\ chan = [c \in Calls |-> "none"]
  /\ dials = [c \in Calls |-> 0]
  /\ legs = [c \in Calls |-> 0]
  /\ bridged = [c \in Calls |-> 0]
  /\ hook = [c \in Calls |-> "none"]
  /\ ami = "down"
  /\ outages = 0
  /\ restarts = 0
  /\ active = NoCall
  /\ lookups = [c \in Calls |-> 0]
  /\ sse = [c \in Calls |-> [started |-> 0, answered |-> 0, ended |-> 0]]
  /\ cloud = [c \in Calls |-> [started |-> 0, answered |-> 0, ended |-> 0]]
  /\ registered = [c \in Calls |-> 0]
  /\ dropped = [c \in Calls |-> 0]
  /\ lost = [c \in Calls |-> 0]

CallStep(c) ==
  \/ Newchannel(c)
  \/ DialBegin(c)
  \/ BridgeEnter(c)
  \/ LegHangup(c)
  \/ PanelHangup(c)
  \/ WebhookStart(c)
  \/ WebhookEnd(c)
  \/ LookupDone(c)

Next ==
  \/ \E c \in Calls : CallStep(c)
  \/ AmiDown
  \/ AmiConnect
  \/ Restart

Spec == Init /\ [][Next]_vars

-----------------------------------------------------------------------------
(* Invariants *)

TypeOK ==
  /\ chan \in [Calls -> {"none", "ring", "gone"}]
  /\ hook \in [Calls -> {"none", "started", "ended"}]
  /\ dials \in [Calls -> Nat]
  /\ legs \in [Calls -> Nat]
  /\ bridged \in [Calls -> Nat]
  /\ ami \in {"up", "down"}
  /\ outages \in Nat
  /\ restarts \in Nat
  /\ active \in Calls \cup {NoCall}
  /\ lookups \in [Calls -> Nat]
  /\ registered \in [Calls -> Nat]
  /\ dropped \in [Calls -> Nat]
  /\ lost \in [Calls -> Nat]
  /\ sse \in [Calls -> Published]
  /\ cloud \in [Calls -> Published]

(* Every time a call was put into the slot is accounted for: it ended with *)
(* one call_ended, or the slot was taken away from it (another call, the   *)
(* webhook, a restart), or it is still in the slot.  No Hangup, however    *)
(* late or repeated, produces a call_ended of its own.                     *)
RegistrationsAccounted ==
  \A c \in Calls :
    registered[c] = cloud[c].ended + dropped[c] + (IF active = c THEN 1 ELSE 0)

(* Every registration is announced by exactly one call_started: it is      *)
(* published, or its handler is still suspended in the lookup, or died     *)
(* with the process; registrations by the webhook are announced on SSE.    *)
AnnouncementsAccounted ==
  \A c \in Calls :
    registered[c] = cloud[c].started + lookups[c] + lost[c]
                    + (IF hook[c] = "none" THEN 0 ELSE 1)

(* The browser and the cloud are told the same about every call; only a    *)
(* legacy webhook adds one call_started and one call_ended for the browser.*)
SinksAgree ==
  \A c \in Calls :
    /\ sse[c].started = cloud[c].started + (IF hook[c] = "none" THEN 0 ELSE 1)
    /\ sse[c].ended = cloud[c].ended + (IF hook[c] = "ended" THEN 1 ELSE 0)

(* on_hangup: one call_ended at most per call group, whatever was lost,    *)
(* overwritten or registered a second time before.                         *)
AtMostOneCallEnded == \A c \in Calls : cloud[c].ended <= 1

(* README "phantom call_ended": no call_ended while the panel is still     *)
(* calling or talking, although its dial legs hang up one by one.          *)
EndedOnlyAfterPanelHangup ==
  \A c \in Calls : cloud[c].ended > 0 => chan[c] = "gone"

(* on_dial_begin and on_newchannel: the many DialBegin and Newchannel      *)
(* events of one call register it once, and once more only for each time   *)
(* that its registration was taken away from it.                           *)
RegisteredAgainOnlyAfterLoss ==
  \A c \in Calls : registered[c] <= 1 + dropped[c]

(* on_bridge_enter: the cloud never hears that a finished call is answered.*)
NoAnswerAfterEnd ==
  [][\A c \in Calls :
       cloud'[c].answered # cloud[c].answered => cloud[c].ended = 0]_vars

-----------------------------------------------------------------------------
(* consumer.py: "Acting only on the originating channel's Hangup gives us  *)
(* exactly one call_ended per call group."  It does not where two panels   *)
(* call at the same time: the slot keeps the second call only.             *)
ExactlyOneCallEnded ==
  \A c \in Calls : registered[c] > 0 /\ chan[c] = "gone" => cloud[c].ended = 1

=============================================================================
