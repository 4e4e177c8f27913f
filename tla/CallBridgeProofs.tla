-------------------------- MODULE CallBridgeProofs --------------------------
(***************************************************************************)
(* Theorems about CallTracking and CallBridge, for any set of calls, any   *)
(* routing, any number of concurrent calls, outages and restarts, and any  *)
(* size of the queue.                                                      *)
(***************************************************************************)
EXTENDS CallBridge, TLAPS

(* The steps of the backend, seen by the backend only: what the proofs     *)
(* split on instead of the fifteen actions.                                *)
LEMMA DeliverCases ==
  ASSUME NEW c \in Calls, NEW b \in BOOLEAN
  PROVE  /\ Deliver(OnNewchannel(c, b)) =>
              CallDetected(c, TRUE) \/ UNCHANGED <<storeVars, handlerVars, outVars>>
         /\ Deliver(CallDetected(c, b)) =>
              CallDetected(c, b) \/ UNCHANGED <<storeVars, handlerVars, outVars>>
         /\ Deliver(OnBridgeEnter(c, b)) =>
              OnBridgeEnter(c, b) \/ UNCHANGED <<storeVars, handlerVars, outVars>>
         /\ Deliver(OnHangup(c, b)) =>
              OnHangup(c, b) \/ UNCHANGED <<storeVars, handlerVars, outVars>>
  BY DEF Deliver, OnNewchannel

(* The variables of Asterisk and of the session keep their types.          *)
TypeEnv ==
  /\ chan \in [Calls -> {"none", "ring", "gone"}]
  /\ hook \in [Calls -> {"none", "started", "ended"}]
  /\ dials \in [Calls -> Nat]
  /\ legs \in [Calls -> Nat]
  /\ bridged \in [Calls -> Nat]
  /\ ami \in {"up", "down"}
  /\ outages \in Nat
  /\ restarts \in Nat

(* The variables of the backend and of its history keep theirs.            *)
TypeBackend ==
  /\ active \in Calls \cup {NoCall}
  /\ lookups \in [Calls -> Nat]
  /\ registered \in [Calls -> Nat]
  /\ dropped \in [Calls -> Nat]
  /\ lost \in [Calls -> Nat]
  /\ sse \in [Calls -> Published]
  /\ cloud \in [Calls -> Published]

LEMMA PublishType ==
  ASSUME NEW out \in [Calls -> Published], NEW c \in Calls
  PROVE  /\ PublishStarted(out, c) \in [Calls -> Published]
         /\ PublishAnswered(out, c) \in [Calls -> Published]
         /\ PublishEnded(out, c) \in [Calls -> Published]
  BY DEF PublishStarted, PublishAnswered, PublishEnded, Published

LEMMA OnCallStartedType ==
  ASSUME NEW c \in Calls, OnCallStarted(c),
         registered \in [Calls -> Nat], dropped \in [Calls -> Nat]
  PROVE  /\ active' \in Calls
         /\ registered' \in [Calls -> Nat]
         /\ dropped' \in [Calls -> Nat]
  BY DEF OnCallStarted

LEMMA CallDetectedType ==
  ASSUME TypeBackend, NEW c \in Calls, NEW b \in BOOLEAN, CallDetected(c, b)
  PROVE  TypeBackend'
  <1>1. CASE active = c
    BY <1>1 DEF CallDetected, TypeBackend, storeVars, handlerVars, outVars
  <1>2. CASE active # c
    <2>1. OnCallStarted(c) /\ UNCHANGED lost
      BY <1>2 DEF CallDetected
    <2>2. sse' \in [Calls -> Published] /\ cloud' \in [Calls -> Published]
      BY <1>2, PublishType DEF CallDetected, TypeBackend, outVars
    <2>3. lookups' \in [Calls -> Nat]
      BY <1>2 DEF CallDetected, TypeBackend
    <2>4. QED
      BY <2>1, <2>2, <2>3, OnCallStartedType DEF TypeBackend
  <1>3. QED
    BY <1>1, <1>2

LEMMA TypeStep == TypeOK /\ [Next]_vars => TypeOK'
  <1> SUFFICES ASSUME TypeEnv, TypeBackend, [Next]_vars
               PROVE  TypeEnv' /\ TypeBackend'
    BY DEF TypeOK, TypeEnv, TypeBackend
  <1>1. ASSUME NEW c \in Calls, Newchannel(c)
        PROVE  TypeEnv' /\ TypeBackend'
    <2>1. TypeEnv'
      BY <1>1 DEF TypeEnv, Newchannel, amiVars
    <2>2. \/ \E b \in BOOLEAN : CallDetected(c, b)
          \/ UNCHANGED <<storeVars, handlerVars, outVars>>
      BY <1>1, DeliverCases DEF Newchannel
    <2>3. TypeBackend'
      BY <2>2, CallDetectedType DEF TypeBackend, storeVars, handlerVars, outVars
    <2>4. QED BY <2>1, <2>3
  <1>2. ASSUME NEW c \in Calls, DialBegin(c)
        PROVE  TypeEnv' /\ TypeBackend'
    <2>1. TypeEnv'
      BY <1>2 DEF TypeEnv, DialBegin, amiVars
    <2>2. \/ \E b \in BOOLEAN : CallDetected(c, b)
          \/ UNCHANGED <<storeVars, handlerVars, outVars>>
      BY <1>2, DeliverCases DEF DialBegin
    <2>3. TypeBackend'
      BY <2>2, CallDetectedType DEF TypeBackend, storeVars, handlerVars, outVars
    <2>4. QED BY <2>1, <2>3
  <1>3. ASSUME NEW c \in Calls, BridgeEnter(c)
        PROVE  TypeEnv' /\ TypeBackend'
    <2>1. /\ bridged' = bridged \/ bridged' = [bridged EXCEPT ![c] = @ + 1]
          /\ UNCHANGED <<chan, dials, legs, hook, ami, outages, restarts>>
      BY <1>3, Zenon DEF BridgeEnter, amiVars
    <2>2. TypeEnv'
      BY <2>1 DEF TypeEnv
    <2>3. \/ \E b \in BOOLEAN : OnBridgeEnter(c, b)
          \/ UNCHANGED <<storeVars, handlerVars, outVars>>
      BY <1>3, DeliverCases DEF BridgeEnter
    <2>4. TypeBackend'
      BY <2>3, PublishType
      DEF TypeBackend, OnBridgeEnter, storeVars, handlerVars, outVars
    <2>5. QED BY <2>2, <2>4
  <1>4. ASSUME NEW c \in Calls, LegHangup(c) \/ PanelHangup(c)
        PROVE  TypeEnv' /\ TypeBackend'
    <2>1. \/ /\ legs[c] > 0
             /\ legs' = [legs EXCEPT ![c] = @ - 1]
             /\ UNCHANGED <<chan, dials, bridged, hook, ami, outages, restarts>>
          \/ /\ chan' = [chan EXCEPT ![c] = "gone"]
             /\ UNCHANGED <<legs, dials, bridged, hook, ami, outages, restarts>>
      BY <1>4, Zenon DEF LegHangup, PanelHangup, amiVars
    <2>2. TypeEnv'
      BY <2>1 DEF TypeEnv
    <2>3. \/ \E b \in BOOLEAN : OnHangup(c, b)
          \/ UNCHANGED <<storeVars, handlerVars, outVars>>
      BY <1>4, DeliverCases DEF LegHangup, PanelHangup
    <2>4. TypeBackend'
      BY <2>3, PublishType
      DEF TypeBackend, OnHangup, OnCallEnded, storeVars, handlerVars, outVars
    <2>5. QED BY <2>2, <2>4
  <1>5. ASSUME NEW c \in Calls, WebhookStart(c)
        PROVE  TypeEnv' /\ TypeBackend'
    <2>1. TypeEnv'
      BY <1>5 DEF TypeEnv, WebhookStart, amiVars
    <2>2. TypeBackend'
      BY <1>5, PublishType, OnCallStartedType DEF TypeBackend, WebhookStart, handlerVars
    <2>3. QED BY <2>1, <2>2
  <1>6. ASSUME NEW c \in Calls, WebhookEnd(c)
        PROVE  TypeEnv' /\ TypeBackend'
    <2>1. TypeEnv'
      BY <1>6 DEF TypeEnv, WebhookEnd, amiVars
    <2>2. TypeBackend'
      BY <1>6, PublishType DEF TypeBackend, WebhookEnd, OnCallEnded, handlerVars
    <2>3. QED BY <2>1, <2>2
  <1>7. ASSUME NEW c \in Calls, LookupDone(c)
        PROVE  TypeEnv' /\ TypeBackend'
    <2>1. TypeEnv'
      BY <1>7 DEF TypeEnv, LookupDone, asteriskVars, amiVars
    <2>2. lookups' \in [Calls -> Nat]
      BY <1>7 DEF TypeBackend, LookupDone
    <2>3. TypeBackend'
      BY <1>7, <2>2, PublishType DEF TypeBackend, LookupDone, storeVars
    <2>4. QED BY <2>1, <2>3
  <1>8. CASE AmiDown \/ AmiConnect
    BY <1>8 DEF TypeEnv, TypeBackend, AmiDown, AmiConnect, asteriskVars, amiVars,
                storeVars, handlerVars, outVars
  <1>9. CASE Restart
    BY <1>9 DEF TypeEnv, TypeBackend, Restart, asteriskVars, amiVars, outVars
  <1>10. CASE UNCHANGED vars
    BY <1>10 DEF TypeEnv, TypeBackend, vars, asteriskVars, amiVars, storeVars,
                 handlerVars, outVars
  <1>11. QED
    BY <1>1, <1>2, <1>3, <1>4, <1>5, <1>6, <1>7, <1>8, <1>9, <1>10
    DEF Next, CallStep

(* The state of the tracker is well formed in every reachable state.       *)
THEOREM TypeCorrect == Spec => []TypeOK
  <1>1. Init => TypeOK
    BY DEF Init, TypeOK, Published
  <1>2. QED
    BY <1>1, TypeStep, PTL DEF Spec

-----------------------------------------------------------------------------
(* What a step means for the slot and for what was published.              *)

Silent == UNCHANGED <<storeVars, handlerVars, outVars, hook>>

Registers(c) ==
  /\ chan[c] # "gone"
  /\ OnCallStarted(c)
  /\ \/ /\ sse' = PublishStarted(sse, c)
        /\ cloud' = PublishStarted(cloud, c)
        /\ lookups' = lookups
     \/ /\ lookups' = [lookups EXCEPT ![c] = @ + 1]
        /\ sse' = sse
        /\ cloud' = cloud
  /\ lost' = lost
  /\ hook' = hook

Answers(c) ==
  /\ active = c
  /\ cloud' = PublishAnswered(cloud, c)
  /\ UNCHANGED <<storeVars, handlerVars, sse, hook>>

Ends(c) ==
  /\ active = c
  /\ active' = NoCall
  /\ chan'[c] = "gone"
  /\ sse' = PublishEnded(sse, c)
  /\ cloud' = PublishEnded(cloud, c)
  /\ UNCHANGED <<registered, dropped, handlerVars, hook>>

Effect(c) ==
  \/ Registers(c)
  \/ Answers(c)
  \/ Ends(c)
  \/ WebhookStart(c)
  \/ WebhookEnd(c)
  \/ LookupDone(c)

LEMMA DetectedEffect ==
  ASSUME NEW c \in Calls, NEW b \in BOOLEAN, CallDetected(c, b), UNCHANGED hook, chan[c] # "gone"
  PROVE  Silent \/ Registers(c)
  BY DEF CallDetected, Silent, Registers, outVars

(* One event of Asterisk, or of the AMI session.                           *)
CallsStep == (\E c \in Calls : CallStep(c)) \/ AmiDown \/ AmiConnect

LEMMA CallsStepEffect ==
  ASSUME TypeOK, CallsStep
  PROVE  Silent \/ \E c \in Calls : Effect(c)
  <1>1. ASSUME NEW c \in Calls, Newchannel(c) \/ DialBegin(c)
        PROVE  Silent \/ Effect(c)
    <2>1. chan[c] # "gone" /\ UNCHANGED hook
      BY <1>1 DEF Newchannel, DialBegin, Live
    <2>2. \/ \E b \in BOOLEAN : CallDetected(c, b)
          \/ UNCHANGED <<storeVars, handlerVars, outVars>>
      BY <1>1, DeliverCases DEF Newchannel, DialBegin
    <2>3. QED
      BY <2>1, <2>2, DetectedEffect DEF Silent, Effect
  <1>2. ASSUME NEW c \in Calls, BridgeEnter(c)
        PROVE  Silent \/ Effect(c)
    <2>1. UNCHANGED hook
      BY <1>2 DEF BridgeEnter
    <2>2. \/ \E b \in BOOLEAN : OnBridgeEnter(c, b)
          \/ UNCHANGED <<storeVars, handlerVars, outVars>>
      BY <1>2, DeliverCases DEF BridgeEnter
    <2>3. QED
      BY <2>1, <2>2 DEF Silent, Effect, Answers, OnBridgeEnter, outVars
  <1>3. ASSUME NEW c \in Calls, LegHangup(c)
        PROVE  Silent
    <2>1. UNCHANGED hook
      BY <1>3 DEF LegHangup
    <2>2. OnHangup(c, FALSE) \/ UNCHANGED <<storeVars, handlerVars, outVars>>
      BY <1>3, Zenon DEF LegHangup, Deliver
    <2>3. QED
      BY <2>1, <2>2 DEF Silent, OnHangup
  <1>4. ASSUME NEW c \in Calls, PanelHangup(c)
        PROVE  Silent \/ Effect(c)
    <2>1. hook' = hook /\ chan'[c] = "gone"
      BY <1>4 DEF PanelHangup, TypeOK
    <2>2. OnHangup(c, TRUE) \/ UNCHANGED <<storeVars, handlerVars, outVars>>
      BY <1>4, Zenon DEF PanelHangup, Deliver
    <2>3. QED
      BY <2>1, <2>2 DEF Silent, Effect, Ends, OnHangup, OnCallEnded
  <1>5. CASE AmiDown \/ AmiConnect
    BY <1>5 DEF AmiDown, AmiConnect, asteriskVars, Silent
  <1>6. QED
    BY <1>1, <1>2, <1>3, <1>4, <1>5 DEF CallsStep, CallStep, Effect

LEMMA StepEffect ==
  ASSUME TypeOK, [Next]_vars
  PROVE  Silent \/ Restart \/ \E c \in Calls : Effect(c)
  <1>1. CASE UNCHANGED vars
    BY <1>1 DEF vars, asteriskVars, Silent
  <1>2. QED
    BY <1>1, CallsStepEffect DEF Next, CallsStep

(* A panel that has hung up stays so.                                      *)
LEMMA GoneStays ==
  ASSUME TypeOK, [Next]_vars, NEW d \in Calls, chan[d] = "gone"
  PROVE  chan'[d] = "gone"
  <1>1. CASE UNCHANGED chan
    BY <1>1
  <1>2. CASE \E c \in Calls : Newchannel(c) \/ PanelHangup(c)
    BY <1>2 DEF TypeOK, Newchannel, PanelHangup, Live
  <1>3. QED
    BY <1>1, <1>2 DEF Next, CallStep, DialBegin, BridgeEnter, LegHangup, WebhookStart,
       WebhookEnd, LookupDone, AmiDown, AmiConnect, Restart, vars, asteriskVars

(* What one more published event changes in the counts.                    *)
LEMMA PublishCounts ==
  ASSUME NEW out \in [Calls -> Published], NEW c \in Calls, NEW d \in Calls
  PROVE  /\ PublishStarted(out, c)[d].started = out[d].started + (IF d = c THEN 1 ELSE 0)
         /\ PublishStarted(out, c)[d].ended = out[d].ended
         /\ PublishStarted(out, c)[d].answered = out[d].answered
         /\ PublishAnswered(out, c)[d].started = out[d].started
         /\ PublishAnswered(out, c)[d].ended = out[d].ended
         /\ PublishAnswered(out, c)[d].answered = out[d].answered + (IF d = c THEN 1 ELSE 0)
         /\ PublishEnded(out, c)[d].started = out[d].started
         /\ PublishEnded(out, c)[d].answered = out[d].answered
         /\ PublishEnded(out, c)[d].ended = out[d].ended + (IF d = c THEN 1 ELSE 0)
         /\ out[d].started \in Nat /\ out[d].ended \in Nat /\ out[d].answered \in Nat
  BY DEF PublishStarted, PublishAnswered, PublishEnded, Published

-----------------------------------------------------------------------------
(* Every registration is accounted for.                                    *)

LEMMA RegistrationsStep ==
  ASSUME TypeOK, RegistrationsAccounted, [Next]_vars
  PROVE  RegistrationsAccounted'
  <1> SUFFICES ASSUME NEW d \in Calls
               PROVE  registered'[d] = cloud'[d].ended + dropped'[d]
                                       + (IF active' = d THEN 1 ELSE 0)
    BY DEF RegistrationsAccounted
  <1> DEFINE InSlot(x) == IF x = d THEN 1 ELSE 0
  <1>1. /\ registered[d] = cloud[d].ended + dropped[d] + InSlot(active)
        /\ registered \in [Calls -> Nat] /\ dropped \in [Calls -> Nat]
        /\ registered[d] \in Nat /\ dropped[d] \in Nat /\ cloud[d].ended \in Nat
    BY DEF RegistrationsAccounted, TypeOK, Published
  <1>2. NoCall # d
    BY CallTrackingAssumption
  <1>3. ASSUME NEW c \in Calls, OnCallStarted(c)
        PROVE  registered'[d] = cloud[d].ended + dropped'[d] + InSlot(active')
    BY <1>1, <1>3 DEF OnCallStarted
  <1>4. ASSUME NEW c \in Calls, Registers(c)
        PROVE  registered'[d] = cloud'[d].ended + dropped'[d] + InSlot(active')
    <2>1. cloud'[d].ended = cloud[d].ended
      BY <1>4, PublishCounts DEF Registers, TypeOK
    <2>2. QED BY <1>3, <1>4, <2>1 DEF Registers
  <1>5. ASSUME NEW c \in Calls, Answers(c)
        PROVE  registered'[d] = cloud'[d].ended + dropped'[d] + InSlot(active')
    BY <1>1, <1>5, PublishCounts DEF Answers, TypeOK, storeVars
  <1>6. ASSUME NEW c \in Calls, Ends(c)
        PROVE  registered'[d] = cloud'[d].ended + dropped'[d] + InSlot(active')
    <2>1. cloud'[d].ended = cloud[d].ended + (IF d = c THEN 1 ELSE 0)
      BY <1>6, PublishCounts DEF Ends, TypeOK
    <2>2. QED BY <1>1, <1>2, <1>6, <2>1 DEF Ends
  <1>7. ASSUME NEW c \in Calls, WebhookStart(c)
        PROVE  registered'[d] = cloud'[d].ended + dropped'[d] + InSlot(active')
    BY <1>3, <1>7 DEF WebhookStart
  <1>8. ASSUME NEW c \in Calls, WebhookEnd(c)
        PROVE  registered'[d] = cloud'[d].ended + dropped'[d] + InSlot(active')
    BY <1>1, <1>2, <1>8 DEF WebhookEnd, OnCallEnded
  <1>9. ASSUME NEW c \in Calls, LookupDone(c)
        PROVE  registered'[d] = cloud'[d].ended + dropped'[d] + InSlot(active')
    BY <1>1, <1>9, PublishCounts DEF LookupDone, TypeOK, storeVars
  <1>10. CASE Silent
    BY <1>1, <1>10 DEF Silent, storeVars, outVars
  <1>11. CASE Restart
    BY <1>1, <1>2, <1>11 DEF Restart, outVars
  <1>12. QED
    BY <1>4, <1>5, <1>6, <1>7, <1>8, <1>9, <1>10, <1>11, StepEffect DEF Effect

(* Each registration ended once, was taken away, or is in the slot.        *)
THEOREM RegistrationsAlwaysAccounted == Spec => []RegistrationsAccounted
  <1>1. Init => RegistrationsAccounted
    BY CallTrackingAssumption DEF Init, RegistrationsAccounted
  <1>2. QED
    BY <1>1, TypeCorrect, RegistrationsStep, PTL DEF Spec

-----------------------------------------------------------------------------
(* Announcements and the two sinks.  Both invariants are balances in which *)
(* the webhook of a legacy dialplan has its own term.                      *)

Hooked(c) == IF hook[c] = "none" THEN 0 ELSE 1

LEMMA HookedStep ==
  ASSUME TypeOK, NEW c \in Calls, NEW d \in Calls
  PROVE  /\ Registers(c) \/ Answers(c) \/ Ends(c) \/ LookupDone(c) \/ Silent \/ Restart
              => hook' = hook
         /\ WebhookStart(c) => /\ Hooked(d)' = Hooked(d) + (IF d = c THEN 1 ELSE 0)
                               /\ (hook'[d] = "ended") <=> (hook[d] = "ended")
         /\ WebhookEnd(c) => /\ Hooked(d)' = Hooked(d)
                             /\ hook[c] # "ended"
                             /\ (hook'[d] = "ended") <=> (hook[d] = "ended" \/ d = c)
         /\ Hooked(d) \in Nat
  BY DEF Registers, Answers, Ends, LookupDone, Silent, Restart, WebhookStart, WebhookEnd,
         Hooked, TypeOK, asteriskVars

LEMMA AnnouncementsStep ==
  ASSUME TypeOK, AnnouncementsAccounted, [Next]_vars
  PROVE  AnnouncementsAccounted'
  <1> SUFFICES ASSUME NEW d \in Calls
               PROVE  registered'[d] = cloud'[d].started + lookups'[d] + lost'[d] + Hooked(d)'
    BY DEF AnnouncementsAccounted, Hooked
  <1> DEFINE One(c) == IF d = c THEN 1 ELSE 0
  <1>1. /\ registered[d] = cloud[d].started + lookups[d] + lost[d] + Hooked(d)
        /\ registered \in [Calls -> Nat] /\ lookups \in [Calls -> Nat] /\ lost \in [Calls -> Nat]
        /\ registered[d] \in Nat /\ lookups[d] \in Nat /\ lost[d] \in Nat
        /\ cloud[d].started \in Nat /\ Hooked(d) \in Nat
    BY DEF AnnouncementsAccounted, Hooked, TypeOK, Published
  <1>2. ASSUME NEW c \in Calls, OnCallStarted(c)
        PROVE  registered'[d] = registered[d] + One(c)
    BY <1>1, <1>2 DEF OnCallStarted
  <1>3. ASSUME hook' = hook
        PROVE  Hooked(d)' = Hooked(d)
    BY <1>3 DEF Hooked
  <1>4. ASSUME NEW c \in Calls, Registers(c)
        PROVE  registered'[d] = cloud'[d].started + lookups'[d] + lost'[d] + Hooked(d)'
    <2>1. registered'[d] = registered[d] + One(c) /\ lost' = lost /\ Hooked(d)' = Hooked(d)
      BY <1>2, <1>3, <1>4 DEF Registers
    <2>2. cloud'[d].started + lookups'[d] = cloud[d].started + lookups[d] + One(c)
      <3>1. CASE cloud' = PublishStarted(cloud, c) /\ lookups' = lookups
        <4>1. cloud'[d].started = cloud[d].started + One(c)
          BY <3>1, PublishCounts DEF TypeOK
        <4>2. QED BY <1>1, <3>1, <4>1
      <3>2. CASE cloud' = cloud /\ lookups' = [lookups EXCEPT ![c] = @ + 1]
        BY <1>1, <3>2
      <3>3. QED BY <1>4, <3>1, <3>2 DEF Registers
    <2>3. QED BY <1>1, <2>1, <2>2
  <1>5. ASSUME NEW c \in Calls, Answers(c) \/ Ends(c)
        PROVE  registered'[d] = cloud'[d].started + lookups'[d] + lost'[d] + Hooked(d)'
    <2>1. cloud' = PublishAnswered(cloud, c) \/ cloud' = PublishEnded(cloud, c)
      BY <1>5 DEF Answers, Ends
    <2>2. cloud'[d].started = cloud[d].started
      <3>1. cloud \in [Calls -> Published]
        BY DEF TypeOK
      <3>2. /\ PublishAnswered(cloud, c)[d].started = cloud[d].started
            /\ PublishEnded(cloud, c)[d].started = cloud[d].started
        BY <3>1, PublishCounts, Zenon
      <3>3. QED
        BY <2>1, <3>2
    <2>3. UNCHANGED <<registered, lookups, lost, hook>>
      BY <1>5 DEF Answers, Ends, storeVars, handlerVars
    <2>4. QED BY <1>1, <1>3, <2>2, <2>3
  <1>6. ASSUME NEW c \in Calls, WebhookStart(c)
        PROVE  registered'[d] = cloud'[d].started + lookups'[d] + lost'[d] + Hooked(d)'
    <2>1. registered'[d] = registered[d] + One(c) /\ UNCHANGED <<cloud, lookups, lost>>
      BY <1>2, <1>6 DEF WebhookStart, handlerVars
    <2>2. Hooked(d)' = Hooked(d) + One(c)
      BY <1>6, HookedStep
    <2>3. QED BY <1>1, <2>1, <2>2
  <1>7. ASSUME NEW c \in Calls, WebhookEnd(c)
        PROVE  registered'[d] = cloud'[d].started + lookups'[d] + lost'[d] + Hooked(d)'
    BY <1>1, <1>7, HookedStep DEF WebhookEnd, handlerVars
  <1>8. ASSUME NEW c \in Calls, LookupDone(c)
        PROVE  registered'[d] = cloud'[d].started + lookups'[d] + lost'[d] + Hooked(d)'
    <2>1. cloud'[d].started = cloud[d].started + One(c)
      BY <1>8, PublishCounts DEF LookupDone, TypeOK
    <2>2. lookups'[d] = lookups[d] - One(c) /\ UNCHANGED <<registered, lost>>
      BY <1>1, <1>8 DEF LookupDone, storeVars
    <2>3. Hooked(d)' = Hooked(d)
      BY <1>3, <1>8 DEF LookupDone, asteriskVars
    <2>4. QED BY <1>1, <2>1, <2>2, <2>3
  <1>9. CASE Silent
    BY <1>1, <1>3, <1>9 DEF Silent, storeVars, handlerVars, outVars
  <1>10. CASE Restart
    BY <1>1, <1>3, <1>10 DEF Restart, asteriskVars, outVars
  <1>11. QED
    BY <1>4, <1>5, <1>6, <1>7, <1>8, <1>9, <1>10, StepEffect DEF Effect

(* Each registration is announced once, or still waits, or died.           *)
THEOREM AnnouncementsAlwaysAccounted == Spec => []AnnouncementsAccounted
  <1>1. Init => AnnouncementsAccounted
    BY DEF Init, AnnouncementsAccounted
  <1>2. QED
    BY <1>1, TypeCorrect, AnnouncementsStep, PTL DEF Spec

LEMMA SinksStep ==
  ASSUME TypeOK, SinksAgree, [Next]_vars
  PROVE  SinksAgree'
  <1> DEFINE Agree(d) == /\ sse[d].started = cloud[d].started + Hooked(d)
                         /\ sse[d].ended = cloud[d].ended + (IF hook[d] = "ended" THEN 1 ELSE 0)
  <1> SUFFICES ASSUME NEW d \in Calls
               PROVE  Agree(d)'
    BY DEF SinksAgree, Hooked
  <1>1. /\ Agree(d)
        /\ sse \in [Calls -> Published] /\ cloud \in [Calls -> Published]
        /\ sse[d].started \in Nat /\ sse[d].ended \in Nat
        /\ cloud[d].started \in Nat /\ cloud[d].ended \in Nat /\ Hooked(d) \in Nat
    BY DEF SinksAgree, Hooked, TypeOK, Published
  <1>2. ASSUME hook' = hook
        PROVE  Hooked(d)' = Hooked(d)
    BY <1>2 DEF Hooked
  <1>3. CASE Silent \/ Restart
    BY <1>1, <1>2, <1>3 DEF Silent, Restart, outVars, asteriskVars
  <1>4. ASSUME NEW c \in Calls, Registers(c) \/ Answers(c) \/ Ends(c) \/ LookupDone(c)
        PROVE  Agree(d)'
    <2>1. hook' = hook
      BY <1>4 DEF Registers, Answers, Ends, LookupDone, asteriskVars
    <2>2. \/ sse' = sse /\ cloud' = cloud
          \/ sse' = sse /\ cloud' = PublishAnswered(cloud, c)
          \/ sse' = PublishStarted(sse, c) /\ cloud' = PublishStarted(cloud, c)
          \/ sse' = PublishEnded(sse, c) /\ cloud' = PublishEnded(cloud, c)
      BY <1>4 DEF Registers, Answers, Ends, LookupDone
    <2>3. CASE sse' = sse /\ (cloud' = cloud \/ cloud' = PublishAnswered(cloud, c))
      <3>1. cloud'[d].started = cloud[d].started /\ cloud'[d].ended = cloud[d].ended
        BY <1>1, <2>3, PublishCounts
      <3>2. QED BY <1>1, <1>2, <2>1, <2>3, <3>1
    <2>4. CASE sse' = PublishStarted(sse, c) /\ cloud' = PublishStarted(cloud, c)
      BY <1>1, <1>2, <2>1, <2>4, PublishCounts
    <2>5. CASE sse' = PublishEnded(sse, c) /\ cloud' = PublishEnded(cloud, c)
      BY <1>1, <1>2, <2>1, <2>5, PublishCounts
    <2>6. QED BY <2>2, <2>3, <2>4, <2>5
  <1>5. ASSUME NEW c \in Calls, WebhookStart(c)
        PROVE  Agree(d)'
    <2>1. cloud' = cloud /\ sse' = PublishStarted(sse, c)
      BY <1>5 DEF WebhookStart
    <2>2. QED BY <1>1, <1>5, <2>1, PublishCounts, HookedStep
  <1>6. ASSUME NEW c \in Calls, WebhookEnd(c)
        PROVE  Agree(d)'
    <2>1. cloud' = cloud /\ sse' = PublishEnded(sse, c)
      BY <1>6 DEF WebhookEnd
    <2>2. QED BY <1>1, <1>6, <2>1, PublishCounts, HookedStep
  <1>7. QED
    BY <1>3, <1>4, <1>5, <1>6, StepEffect DEF Effect

(* Browsers and cloud are told the same, up to the legacy webhook.         *)
THEOREM SinksAlwaysAgree == Spec => []SinksAgree
  <1>1. Init => SinksAgree
    BY DEF Init, SinksAgree
  <1>2. QED
    BY <1>1, TypeCorrect, SinksStep, PTL DEF Spec

-----------------------------------------------------------------------------
(* At most one call_ended.  The invariant that carries it: a call_ended    *)
(* comes only once the panel has hung up, and a call in the slot has none. *)

EndedInv ==
  /\ AtMostOneCallEnded
  /\ EndedOnlyAfterPanelHangup
  /\ \A c \in Calls : active = c => cloud[c].ended = 0

LEMMA EndedStep ==
  ASSUME TypeOK, EndedInv, [Next]_vars
  PROVE  EndedInv'
  <1> SUFFICES ASSUME NEW d \in Calls
               PROVE  /\ cloud'[d].ended <= 1
                      /\ cloud'[d].ended > 0 => chan'[d] = "gone"
                      /\ active' = d => cloud'[d].ended = 0
    BY DEF EndedInv, AtMostOneCallEnded, EndedOnlyAfterPanelHangup
  <1>1. /\ cloud[d].ended \in Nat
        /\ cloud[d].ended <= 1
        /\ cloud[d].ended > 0 => chan[d] = "gone" /\ chan'[d] = "gone"
        /\ active = d => cloud[d].ended = 0
    BY GoneStays
    DEF EndedInv, AtMostOneCallEnded, EndedOnlyAfterPanelHangup, TypeOK, Published
  <1>2. CASE cloud'[d].ended = cloud[d].ended /\ (active' = d => active = d)
    BY <1>1, <1>2
  <1>3. ASSUME NEW c \in Calls, Registers(c) \/ WebhookStart(c)
        PROVE  cloud'[d].ended = cloud[d].ended /\ (active' = d => chan[d] # "gone")
    <2>1. active' = d => chan[d] # "gone"
      BY <1>3 DEF Registers, WebhookStart, OnCallStarted, Live
    <2>2. cloud' = cloud \/ cloud' = PublishStarted(cloud, c)
      BY <1>3 DEF Registers, WebhookStart
    <2>3. QED BY <2>1, <2>2, PublishCounts DEF TypeOK
  <1>4. ASSUME NEW c \in Calls, Answers(c) \/ LookupDone(c) \/ WebhookEnd(c)
        PROVE  cloud'[d].ended = cloud[d].ended /\ (active' = d => active = d)
    <2>1. active' = d => active = d
      BY <1>4, CallTrackingAssumption
      DEF Answers, LookupDone, WebhookEnd, OnCallEnded, storeVars
    <2>2. cloud'[d].ended = cloud[d].ended
      BY <1>4, PublishCounts DEF Answers, LookupDone, WebhookEnd, TypeOK
    <2>3. QED BY <2>1, <2>2
  <1>5. ASSUME NEW c \in Calls, Ends(c)
        PROVE  /\ cloud'[d].ended <= 1
               /\ cloud'[d].ended > 0 => chan'[d] = "gone"
               /\ active' = d => cloud'[d].ended = 0
    <2>1. cloud'[d].ended = cloud[d].ended + (IF d = c THEN 1 ELSE 0)
      BY <1>5, PublishCounts DEF Ends, TypeOK
    <2>2. active = c /\ active' # d /\ chan'[c] = "gone"
      BY <1>5, CallTrackingAssumption DEF Ends
    <2>3. QED BY <1>1, <2>1, <2>2
  <1>6. CASE Silent \/ Restart
    BY <1>2, <1>6, CallTrackingAssumption DEF Silent, Restart, storeVars, outVars
  <1>7. QED
    BY <1>1, <1>2, <1>3, <1>4, <1>5, <1>6, StepEffect DEF Effect

LEMMA EndedInvariant == Spec => []EndedInv
  <1>1. Init => EndedInv
    BY CallTrackingAssumption
    DEF Init, EndedInv, AtMostOneCallEnded, EndedOnlyAfterPanelHangup
  <1>2. QED
    BY <1>1, TypeCorrect, EndedStep, PTL DEF Spec

(* One call_ended per call group, at most.                                 *)
THEOREM AtMostOneEnd == Spec => []AtMostOneCallEnded
  <1>1. EndedInv => AtMostOneCallEnded
    BY DEF EndedInv
  <1>2. QED BY <1>1, EndedInvariant, PTL

(* No phantom call_ended while the panel's channel is up.                  *)
THEOREM EndedAfterHangup == Spec => []EndedOnlyAfterPanelHangup
  <1>1. EndedInv => EndedOnlyAfterPanelHangup
    BY DEF EndedInv
  <1>2. QED BY <1>1, EndedInvariant, PTL

(* A call is registered again only if its registration was taken away.     *)
THEOREM RegisteredAgain == Spec => []RegisteredAgainOnlyAfterLoss
  <1>1. TypeOK /\ EndedInv /\ RegistrationsAccounted => RegisteredAgainOnlyAfterLoss
    BY DEF TypeOK, Published, EndedInv, AtMostOneCallEnded, RegistrationsAccounted,
           RegisteredAgainOnlyAfterLoss
  <1>2. QED
    BY <1>1, TypeCorrect, EndedInvariant, RegistrationsAlwaysAccounted, PTL

(* The cloud never hears that a finished call is answered.                 *)
THEOREM NeverAnsweredAfterEnd == Spec => NoAnswerAfterEnd
  <1>1. ASSUME TypeOK, EndedInv, [Next]_vars
        PROVE  [\A c \in Calls : cloud'[c].answered # cloud[c].answered
                                  => cloud[c].ended = 0]_vars
    <2> SUFFICES ASSUME NEW d \in Calls, cloud'[d].answered # cloud[d].answered
                 PROVE  cloud[d].ended = 0
      OBVIOUS
    <2>1. ASSUME NEW c \in Calls, Answers(c)
          PROVE  cloud[d].ended = 0
      <3>1. d = c
        BY <1>1, <2>1, PublishCounts DEF Answers, TypeOK
      <3>2. QED BY <1>1, <2>1, <3>1 DEF Answers, EndedInv
    <2>2. ASSUME NEW c \in Calls, Registers(c) \/ Ends(c) \/ WebhookStart(c)
                                   \/ WebhookEnd(c) \/ LookupDone(c)
          PROVE  cloud'[d].answered = cloud[d].answered
      <3>1. \/ cloud' = cloud
            \/ cloud' = PublishStarted(cloud, c)
            \/ cloud' = PublishEnded(cloud, c)
        BY <2>2 DEF Registers, Ends, WebhookStart, WebhookEnd, LookupDone
      <3>2. cloud \in [Calls -> Published]
        BY <1>1 DEF TypeOK
      <3>3. /\ PublishStarted(cloud, c)[d].answered = cloud[d].answered
            /\ PublishEnded(cloud, c)[d].answered = cloud[d].answered
        BY <3>2, PublishCounts, Zenon
      <3>4. QED BY <3>1, <3>3
    <2>3. CASE Silent \/ Restart
      BY <2>3 DEF Silent, Restart, outVars
    <2>4. QED
      BY <1>1, <2>1, <2>2, <2>3, StepEffect DEF Effect
  <1>2. QED
    BY <1>1, TypeCorrect, EndedInvariant, PTL DEF Spec, NoAnswerAfterEnd

-----------------------------------------------------------------------------
(* CallBridge: the steps of the calls are those of CallTracking.           *)

(* Calls, handlers and the slot do what CallTracking allows, whatever the  *)
(* session, the snapshot and the process do meanwhile: all of the above    *)
(* holds of the calls whose events go through the bridge.                  *)
THEOREM BridgeImplementsTracking == BridgeSpec => Spec
  <1>1. BridgeInit => Init
    BY DEF BridgeInit
  <1>2. [BridgeNext]_bridgeVars => [Next]_vars
    <2>1. CallEvent => Next
      BY DEF CallEvent, Next
    <2>2. BridgeRestart => Next
      BY DEF BridgeRestart, Next
    <2>3. Connect \/ ReadSlot \/ SendActiveCall \/ SessionEnds \/ Expire \/ TakeMessage
            \/ CloudReceives => UNCHANGED vars
      BY DEF Connect, ReadSlot, SendActiveCall, SessionEnds, Expire, TakeMessage, CloudReceives
    <2>4. QED
      BY <2>1, <2>2, <2>3 DEF BridgeNext, bridgeVars
  <1>3. QED
    BY <1>1, <1>2, PTL DEF BridgeSpec, Spec

-----------------------------------------------------------------------------
(* Messages.  What matters of a sequence of them for one call: whether its *)
(* call_ended is in it (EndsIn), and others of it, and in which order.     *)

Message == [kind : Kinds, call : Calls, stale : BOOLEAN]

Ending(m, c) == m.call = c /\ m.kind = "ended"
Other(m, c)  == m.call = c /\ m.kind # "ended"
(* What the send loop does not drop. *)
Lasting(m, c) == m.call = c /\ ~(m.kind = "started" /\ m.stale)

OtherIn(messages, c)   == \E i \in DOMAIN messages : Other(messages[i], c)
LastingIn(messages, c) == \E i \in DOMAIN messages : Lasting(messages[i], c)
EndIsLast(messages, c) ==
  \A i, j \in DOMAIN messages : Ending(messages[i], c) /\ Other(messages[j], c) => j < i

LEMMA EndsInCall ==
  ASSUME NEW messages, NEW c \in Calls
  PROVE  c \in EndsIn(messages) <=> \E i \in DOMAIN messages : Ending(messages[i], c)
  BY DEF EndsIn, Ending

LEMMA EmptyFacts ==
  ASSUME NEW c \in Calls
  PROVE  /\ c \notin EndsIn(<<>>) /\ ~OtherIn(<<>>, c) /\ ~LastingIn(<<>>, c)
         /\ EndIsLast(<<>>, c)
  BY DEF EndsIn, OtherIn, LastingIn, EndIsLast

LEMMA AppendFacts ==
  ASSUME NEW s \in Seq(Message), NEW m \in Message, NEW c \in Calls
  PROVE  /\ c \in EndsIn(Append(s, m)) <=> c \in EndsIn(s) \/ Ending(m, c)
         /\ OtherIn(Append(s, m), c) <=> OtherIn(s, c) \/ Other(m, c)
         /\ LastingIn(Append(s, m), c) <=> LastingIn(s, c) \/ Lasting(m, c)
         /\ EndIsLast(s, c) /\ (c \in EndsIn(s) => ~Other(m, c)) => EndIsLast(Append(s, m), c)
  <1> DEFINE t == Append(s, m)
  <1>1. /\ DOMAIN s = 1 .. Len(s) /\ DOMAIN t = 1 .. Len(s) + 1 /\ Len(s) \in Nat
        /\ \A i \in DOMAIN s : i \in DOMAIN t /\ t[i] = s[i]
        /\ t[Len(s) + 1] = m
        /\ \A i \in DOMAIN t : i \in DOMAIN s \/ i = Len(s) + 1
    OBVIOUS
  <1>2. c \in EndsIn(t) <=> c \in EndsIn(s) \/ Ending(m, c)
    <2>1. /\ c \in EndsIn(s) <=> \E i \in DOMAIN s : Ending(s[i], c)
          /\ c \in EndsIn(t) <=> \E i \in DOMAIN t : Ending(t[i], c)
      BY EndsInCall, Zenon
    <2>2. QED
      BY <1>1, <2>1
  <1>3. OtherIn(t, c) <=> OtherIn(s, c) \/ Other(m, c)
    BY <1>1 DEF OtherIn
  <1>4. LastingIn(t, c) <=> LastingIn(s, c) \/ Lasting(m, c)
    BY <1>1 DEF LastingIn
  <1>5. ASSUME EndIsLast(s, c), c \in EndsIn(s) => ~Other(m, c)
        PROVE  EndIsLast(t, c)
    <2> SUFFICES ASSUME NEW i \in DOMAIN t, NEW j \in DOMAIN t,
                        Ending(t[i], c), Other(t[j], c)
                 PROVE  j < i
      BY DEF EndIsLast
    <2>1. ~(Ending(m, c) /\ Other(m, c))
      BY DEF Ending, Other
    <2>2. CASE i = Len(s) + 1
      BY <1>1, <2>1, <2>2
    <2>3. CASE i \in DOMAIN s
      <3>1. c \in EndsIn(s)
        BY <1>1, <2>3, EndsInCall
      <3>2. j \in DOMAIN s
        BY <1>1, <1>5, <3>1
      <3>3. QED
        BY <1>1, <1>5, <2>3, <3>2 DEF EndIsLast
    <2>4. QED
      BY <1>1, <2>2, <2>3
  <1>6. QED
    BY <1>2, <1>3, <1>4, <1>5

LEMMA TailFacts ==
  ASSUME NEW s \in Seq(Message), s # <<>>, NEW c \in Calls
  PROVE  /\ c \in EndsIn(s) <=> Ending(Head(s), c) \/ c \in EndsIn(Tail(s))
         /\ OtherIn(s, c) <=> Other(Head(s), c) \/ OtherIn(Tail(s), c)
         /\ LastingIn(s, c) <=> Lasting(Head(s), c) \/ LastingIn(Tail(s), c)
         /\ EndIsLast(s, c) => /\ EndIsLast(Tail(s), c)
                               /\ Ending(Head(s), c) => ~OtherIn(Tail(s), c)
  <1> DEFINE t == Tail(s)
  <1>1. /\ DOMAIN s = 1 .. Len(s) /\ DOMAIN t = 1 .. Len(s) - 1 /\ Len(s) \in Nat \ {0}
        /\ 1 \in DOMAIN s /\ Head(s) = s[1]
        /\ \A i \in DOMAIN t : i + 1 \in DOMAIN s /\ t[i] = s[i + 1]
        /\ \A i \in DOMAIN s : i = 1 \/ (i - 1 \in DOMAIN t /\ s[i] = t[i - 1])
    OBVIOUS
  <1>2. c \in EndsIn(s) <=> Ending(Head(s), c) \/ c \in EndsIn(t)
    <2>1. /\ c \in EndsIn(s) <=> \E i \in DOMAIN s : Ending(s[i], c)
          /\ c \in EndsIn(t) <=> \E i \in DOMAIN t : Ending(t[i], c)
      BY EndsInCall, Zenon
    <2>2. QED
      BY <1>1, <2>1
  <1>3. OtherIn(s, c) <=> Other(Head(s), c) \/ OtherIn(t, c)
    BY <1>1 DEF OtherIn
  <1>4. LastingIn(s, c) <=> Lasting(Head(s), c) \/ LastingIn(t, c)
    BY <1>1 DEF LastingIn
  <1>5. ASSUME EndIsLast(s, c)
        PROVE  EndIsLast(t, c) /\ (Ending(Head(s), c) => ~OtherIn(t, c))
    <2>1. EndIsLast(t, c)
      <3> SUFFICES ASSUME NEW i \in DOMAIN t, NEW j \in DOMAIN t,
                          Ending(t[i], c), Other(t[j], c)
                   PROVE  j < i
        BY DEF EndIsLast
      <3>1. j + 1 < i + 1
        BY <1>1, <1>5 DEF EndIsLast
      <3>2. QED
        BY <1>1, <3>1
    <2>2. ASSUME Ending(Head(s), c), NEW j \in DOMAIN t, Other(t[j], c)
          PROVE  FALSE
      <3>1. j + 1 < 1
        BY <1>1, <1>5, <2>2 DEF EndIsLast
      <3>2. QED
        BY <1>1, <3>1
    <2>3. QED
      BY <2>1, <2>2 DEF OtherIn
  <1>6. QED
    BY <1>2, <1>3, <1>4, <1>5

-----------------------------------------------------------------------------
(* Types of the bridge                                                     *)

BridgeTypeOK ==
  /\ session \in {"down", "devices", "lookup", "up"}
  /\ IF session = "lookup" THEN snap \in Calls ELSE snap = NoCall
  /\ queue \in Seq(Message) /\ Len(queue) <= QueueSize
  /\ flight \in Seq(Message)
  /\ heard \in [Calls -> Kinds \cup {"nothing"}]
  /\ ended \in 0 .. MaxEnded
  /\ raced \subseteq Calls /\ endLost \subseteq Calls /\ overflowed \subseteq Calls

NewMessage(kind, c) == [kind |-> kind, call |-> c, stale |-> FALSE]

LEMMA SendFacts ==
  ASSUME BridgeTypeOK, NEW kind \in Kinds, NEW c \in Calls, SendEvent(kind, c)
  PROVE  /\ queue' \in Seq(Message) /\ Len(queue') <= QueueSize
         /\ overflowed \subseteq overflowed' /\ overflowed' \subseteq Calls
         /\ NewMessage(kind, c) \in Message
         /\ \/ queue' = Append(queue, NewMessage(kind, c))
            \/ queue' = queue /\ c \in overflowed'
  <1>1. NewMessage(kind, c) \in Message
    BY DEF NewMessage, Message
  <1>2. CASE Len(queue) < QueueSize
    <2>1. queue' = Append(queue, NewMessage(kind, c)) /\ overflowed' = overflowed
      BY <1>2 DEF SendEvent, NewMessage
    <2>2. queue \in Seq(Message) /\ overflowed \subseteq Calls /\ QueueSize \in Nat
      BY CallBridgeAssumption DEF BridgeTypeOK
    <2>3. queue' \in Seq(Message) /\ Len(queue') = Len(queue) + 1 /\ Len(queue) \in Nat
      BY <1>1, <2>1, <2>2
    <2>4. QED
      BY <1>1, <1>2, <2>1, <2>2, <2>3
  <1>3. CASE ~(Len(queue) < QueueSize)
    BY <1>1, <1>3 DEF SendEvent, BridgeTypeOK
  <1>4. QED
    BY <1>2, <1>3

LEMMA ExpireFacts ==
  ASSUME BridgeTypeOK, Expire
  PROVE  /\ queue' \in Seq(Message) /\ Len(queue') = Len(queue) /\ DOMAIN queue' = DOMAIN queue
         /\ \A i \in DOMAIN queue :
              queue'[i].kind = queue[i].kind /\ queue'[i].call = queue[i].call
  <1>1. PICK k \in DOMAIN queue :
          queue' = [i \in DOMAIN queue |->
                      IF i <= k THEN [queue[i] EXCEPT !.stale = TRUE] ELSE queue[i]]
    BY DEF Expire
  <1>2. /\ queue \in Seq(Message) /\ DOMAIN queue = 1 .. Len(queue) /\ Len(queue) \in Nat
        /\ \A i \in DOMAIN queue : queue[i] \in Message
    BY DEF BridgeTypeOK
  <1>3. \A m \in Message : /\ [m EXCEPT !.stale = TRUE] \in Message
                           /\ [m EXCEPT !.stale = TRUE].kind = m.kind
                           /\ [m EXCEPT !.stale = TRUE].call = m.call
    BY DEF Message
  <1>4. /\ DOMAIN queue' = DOMAIN queue
        /\ \A i \in DOMAIN queue : /\ queue'[i] \in Message
                                   /\ queue'[i].kind = queue[i].kind
                                   /\ queue'[i].call = queue[i].call
    BY <1>1, <1>2, <1>3
  <1>5. queue' \in [1 .. Len(queue) -> Message]
    BY <1>1, <1>2, <1>4
  <1>6. queue' \in Seq(Message) /\ Len(queue') = Len(queue)
    BY <1>2, <1>5
  <1>7. QED
    BY <1>4, <1>6

LEMMA TakeFacts ==
  ASSUME BridgeTypeOK, TakeMessage
  PROVE  /\ queue # <<>> /\ Head(queue) \in Message /\ queue' = Tail(queue)
         /\ queue' \in Seq(Message) /\ Len(queue') <= QueueSize
         /\ flight' \in Seq(Message)
         /\ \/ flight' = Append(flight, Head(queue))
            \/ flight' = flight /\ Head(queue).kind = "started" /\ Head(queue).stale
  <1>1. queue \in Seq(Message) /\ queue # <<>> /\ Len(queue) <= QueueSize /\ QueueSize \in Nat
    BY CallBridgeAssumption DEF TakeMessage, BridgeTypeOK
  <1>2. Head(queue) \in Message /\ Tail(queue) \in Seq(Message) /\ Len(Tail(queue)) <= QueueSize
    BY <1>1
  <1>3. \/ flight' = Append(flight, Head(queue))
        \/ flight' = flight /\ Head(queue).kind = "started" /\ Head(queue).stale
    BY DEF TakeMessage
  <1>4. flight' \in Seq(Message)
    BY <1>2, <1>3 DEF BridgeTypeOK
  <1>5. QED
    BY <1>1, <1>2, <1>3, <1>4 DEF TakeMessage

LEMMA ReceiveFacts ==
  ASSUME BridgeTypeOK, CloudReceives
  PROVE  /\ flight \in Seq(Message) /\ flight # <<>> /\ Head(flight) \in Message
         /\ flight' = Tail(flight) /\ flight' \in Seq(Message)
         /\ heard' \in [Calls -> Kinds \cup {"nothing"}]
         /\ heard' = [heard EXCEPT ![Head(flight).call] = Head(flight).kind]
  <1>1. flight \in Seq(Message) /\ flight # <<>>
    BY DEF CloudReceives, BridgeTypeOK
  <1>2. Head(flight) \in Message /\ Tail(flight) \in Seq(Message)
    BY <1>1
  <1>3. Head(flight).call \in Calls /\ Head(flight).kind \in Kinds
    BY <1>2 DEF Message
  <1>4. QED
    BY <1>1, <1>2, <1>3 DEF CloudReceives, BridgeTypeOK

LEMMA EndsInSubset ==
  ASSUME NEW messages
  PROVE  EndsIn(messages) \subseteq Calls
  BY DEF EndsIn

LEMMA BridgeTypeStep ==
  ASSUME TypeOK, BridgeTypeOK, [BridgeNext]_bridgeVars
  PROVE  BridgeTypeOK'
  <1>1. CASE CallEvent
    <2>1. CASE UNCHANGED <<queue, pastVars>>
      BY <1>1, <2>1 DEF CallEvent, BridgeTypeOK, linkVars, pastVars
    <2>2. CASE \E c \in Calls, kind \in Kinds :
                 SendEvent(kind, c) /\ raced' \in {raced, raced \cup {c}} /\ UNCHANGED endLost
      <3>1. PICK c \in Calls, kind \in Kinds :
              SendEvent(kind, c) /\ raced' \in {raced, raced \cup {c}} /\ UNCHANGED endLost
        BY <2>2
      <3>2. queue' \in Seq(Message) /\ Len(queue') <= QueueSize /\ overflowed' \subseteq Calls
        BY <3>1, SendFacts
      <3>3. QED
        BY <1>1, <3>1, <3>2 DEF CallEvent, BridgeTypeOK, linkVars
    <2>3. QED
      BY <1>1, <2>1, <2>2 DEF CallEvent
  <1>2. CASE Connect
    BY <1>2 DEF Connect, BridgeTypeOK, pathVars, pastVars
  <1>3. CASE ReadSlot
    BY <1>3 DEF ReadSlot, BridgeTypeOK, TypeOK, pathVars, pastVars
  <1>4. CASE SendActiveCall
    <2>1. snap \in Calls /\ "started" \in Kinds
      BY <1>4 DEF SendActiveCall, BridgeTypeOK, Kinds
    <2>2. queue' \in Seq(Message) /\ Len(queue') <= QueueSize /\ overflowed' \subseteq Calls
      BY <1>4, <2>1, SendFacts DEF SendActiveCall
    <2>3. QED
      BY <1>4, <2>2 DEF SendActiveCall, BridgeTypeOK
  <1>5. CASE SessionEnds
    <2>1. flight' \in Seq(Message) /\ endLost' \subseteq Calls
      BY <1>5, EndsInSubset DEF SessionEnds, BridgeTypeOK
    <2>2. ended' \in 0 .. MaxEnded
      BY <1>5, CallBridgeAssumption DEF SessionEnds, BridgeTypeOK
    <2>3. QED
      BY <1>5, <2>1, <2>2 DEF SessionEnds, BridgeTypeOK
  <1>6. CASE BridgeRestart
    <2>1. /\ queue' \in Seq(Message) /\ flight' \in Seq(Message) /\ Len(queue') = 0
          /\ endLost' \subseteq Calls
      BY <1>6, EndsInSubset DEF BridgeRestart, BridgeTypeOK
    <2>2. QED
      BY <1>6, <2>1, CallBridgeAssumption DEF BridgeRestart, BridgeTypeOK
  <1>7. CASE Expire
    BY <1>7, ExpireFacts DEF Expire, BridgeTypeOK, linkVars, pastVars
  <1>8. CASE TakeMessage
    BY <1>8, TakeFacts DEF TakeMessage, BridgeTypeOK, linkVars, pastVars
  <1>9. CASE CloudReceives
    BY <1>9, ReceiveFacts DEF CloudReceives, BridgeTypeOK, linkVars, pastVars
  <1>10. CASE UNCHANGED bridgeVars
    BY <1>10 DEF bridgeVars, BridgeTypeOK, linkVars, pathVars, pastVars
  <1>11. QED
    BY <1>1, <1>2, <1>3, <1>4, <1>5, <1>6, <1>7, <1>8, <1>9, <1>10 DEF BridgeNext

LEMMA BridgeTypeCorrect == BridgeSpec => []BridgeTypeOK
  <1>1. BridgeInit => BridgeTypeOK
    BY CallBridgeAssumption DEF BridgeInit, BridgeTypeOK
  <1>2. QED
    BY <1>1, BridgeImplementsTracking, TypeCorrect, BridgeTypeStep, PTL DEF BridgeSpec

-----------------------------------------------------------------------------
(* The order of what the cloud hears of one call.  The end of a call comes *)
(* last in the path to the cloud, because nothing can be sent of it later: *)
(* no handler and no snapshot looks it up, or the call counts as raced.    *)

EndsKnown(c) ==
  heard[c] = "ended" \/ c \in EndsIn(queue) \/ c \in EndsIn(flight) => cloud[c].ended > 0

NobodyLooksItUp(c) == cloud[c].ended > 0 => lookups[c] = 0 /\ snap # c

EndComesLast(c) ==
  /\ EndIsLast(queue, c)
  /\ EndIsLast(flight, c)
  /\ c \in EndsIn(flight) => ~OtherIn(queue, c)
  /\ heard[c] = "ended" => ~OtherIn(queue, c) /\ ~OtherIn(flight, c)

InOrder(c) ==
  /\ EndsKnown(c)
  /\ c \notin raced => NobodyLooksItUp(c) /\ EndComesLast(c)

OrderInv == \A c \in Calls : InOrder(c)

(* CallTracking's part of what the proofs about the bridge rest on.        *)
TrackingInv == TypeOK /\ EndedInv /\ RegistrationsAccounted /\ AnnouncementsAccounted

LEMMA TrackingInvariant == BridgeSpec => []TrackingInv
  <1>1. Spec => []TrackingInv
    BY TypeCorrect, EndedInvariant, RegistrationsAlwaysAccounted, AnnouncementsAlwaysAccounted,
       PTL DEF TrackingInv
  <1>2. QED
    BY <1>1, BridgeImplementsTracking, PTL

(* Which event a step of the calls hands to the bridge.                    *)
LEMMA WhatIsPushed ==
  ASSUME TypeOK, NEW c \in Calls, NEW d \in Calls, NEW kind \in Kinds
  PROVE  /\ cloud' = PublishStarted(cloud, c) =>
              Pushed("started", c) /\ (Pushed(kind, d) => kind = "started" /\ d = c)
         /\ cloud' = PublishAnswered(cloud, c) =>
              Pushed("answered", c) /\ (Pushed(kind, d) => kind = "answered" /\ d = c)
         /\ cloud' = PublishEnded(cloud, c) =>
              Pushed("ended", c) /\ (Pushed(kind, d) => kind = "ended" /\ d = c)
         /\ cloud' = cloud => ~Pushed(kind, d)
  BY DEF Kinds, Pushed, PublishStarted, PublishAnswered, PublishEnded, Published, TypeOK

(* A step of the calls without an event, seen from call d ...              *)
NoEvent(d) ==
  /\ UNCHANGED <<queue, raced, endLost, overflowed>>
  /\ cloud' = cloud
  /\ lookups'[d] = lookups[d] \/ (lookups'[d] > 0 /\ chan[d] # "gone")
  /\ active' = d => active = d \/ lookups'[d] > 0 \/ d \in Legacy

(* ... and with one.                                                       *)
Event(kind, c, d) ==
  /\ SendEvent(kind, c)
  /\ raced' = IF kind = "ended" /\ (lookups[c] > 0 \/ snap = c) THEN raced \cup {c} ELSE raced
  /\ UNCHANGED endLost
  /\ cloud'[d].ended = cloud[d].ended + (IF kind = "ended" /\ d = c THEN 1 ELSE 0)
  /\ kind # "started" => active = c
  /\ kind = "started" => lookups[c] > 0 \/ chan[c] # "gone"
  /\ registered'[c] > 0
  /\ lookups'[d] = lookups[d]
       \/ (kind = "started" /\ d = c /\ lookups'[d] < lookups[d] /\ lookups'[d] \in Nat)
  /\ active' = d => active = d \/ (d = c /\ kind = "started")

LEMMA EventCases ==
  ASSUME TrackingInv, BridgeTypeOK, CallEvent, NEW d \in Calls
  PROVE  NoEvent(d) \/ \E c \in Calls, kind \in Kinds : Event(kind, c, d)
  <1> DEFINE Hand(kind, c) ==
        /\ SendEvent(kind, c)
        /\ raced' = IF kind = "ended" /\ (lookups[c] > 0 \/ snap = c)
                    THEN raced \cup {c} ELSE raced
        /\ UNCHANGED endLost
  <1>1. /\ TypeOK /\ CallsStep /\ lookups \in [Calls -> Nat] /\ lookups[d] \in Nat
        /\ cloud \in [Calls -> Published] /\ cloud[d].ended \in Nat
        /\ NoCall # d
        /\ \A c \in Calls : active = c \/ lookups[c] > 0 => registered[c] > 0
    <2>1. /\ registered \in [Calls -> Nat] /\ dropped \in [Calls -> Nat]
          /\ lookups \in [Calls -> Nat] /\ lost \in [Calls -> Nat]
          /\ \A c \in Calls : cloud[c].ended \in Nat /\ cloud[c].started \in Nat
      BY DEF TrackingInv, TypeOK, Published
    <2>2. ASSUME NEW c \in Calls, active = c
          PROVE  registered[c] > 0
      BY <2>1, <2>2 DEF TrackingInv, RegistrationsAccounted
    <2>3. ASSUME NEW c \in Calls, lookups[c] > 0
          PROVE  registered[c] > 0
      <3>1. /\ lookups[c] \in Nat /\ lost[c] \in Nat /\ cloud[c].started \in Nat
            /\ Hooked(c) \in Nat
        BY <2>1 DEF Hooked
      <3>2. registered[c] = cloud[c].started + lookups[c] + lost[c] + Hooked(c)
        BY DEF TrackingInv, AnnouncementsAccounted, Hooked
      <3>3. QED
        BY <2>3, <3>1, <3>2
    <2>4. QED
      BY <2>1, <2>2, <2>3, CallTrackingAssumption DEF TrackingInv, TypeOK, CallEvent, CallsStep
  <1>2. \/ cloud' = cloud /\ UNCHANGED <<queue, raced, endLost, overflowed>>
        \/ \E c \in Calls, kind \in Kinds : Pushed(kind, c) /\ Hand(kind, c)
    BY DEF CallEvent, pastVars
  <1>3. ASSUME cloud' = cloud
        PROVE  UNCHANGED <<queue, raced, endLost, overflowed>>
    BY <1>1, <1>2, <1>3, WhatIsPushed
  <1>4. ASSUME NEW c \in Calls, cloud' = PublishStarted(cloud, c)
        PROVE  Hand("started", c) /\ cloud'[d].ended = cloud[d].ended
    <2>1. "started" \in Kinds
      BY DEF Kinds
    <2>2. /\ Pushed("started", c)
          /\ \A e \in Calls, kind \in Kinds : Pushed(kind, e) => kind = "started" /\ e = c
      BY <1>1, <1>4, <2>1, WhatIsPushed
    <2>3. cloud' # cloud
      BY <2>2 DEF Pushed
    <2>4. Hand("started", c)
      BY <1>2, <2>2, <2>3, Zenon
    <2>5. QED
      BY <1>1, <1>4, <2>4, PublishCounts
  <1>5. ASSUME NEW c \in Calls, cloud' = PublishAnswered(cloud, c)
        PROVE  Hand("answered", c) /\ cloud'[d].ended = cloud[d].ended
    <2>1. "answered" \in Kinds
      BY DEF Kinds
    <2>2. /\ Pushed("answered", c)
          /\ \A e \in Calls, kind \in Kinds : Pushed(kind, e) => kind = "answered" /\ e = c
      BY <1>1, <1>5, <2>1, WhatIsPushed
    <2>3. cloud' # cloud
      BY <2>2 DEF Pushed
    <2>4. Hand("answered", c)
      BY <1>2, <2>2, <2>3, Zenon
    <2>5. QED
      BY <1>1, <1>5, <2>4, PublishCounts
  <1>6. ASSUME NEW c \in Calls, cloud' = PublishEnded(cloud, c)
        PROVE  /\ Hand("ended", c)
               /\ cloud'[d].ended = cloud[d].ended + (IF d = c THEN 1 ELSE 0)
    <2>1. "ended" \in Kinds
      BY DEF Kinds
    <2>2. /\ Pushed("ended", c)
          /\ \A e \in Calls, kind \in Kinds : Pushed(kind, e) => kind = "ended" /\ e = c
      BY <1>1, <1>6, <2>1, WhatIsPushed
    <2>3. cloud' # cloud
      BY <2>2 DEF Pushed
    <2>4. Hand("ended", c)
      BY <1>2, <2>2, <2>3, Zenon
    <2>5. QED
      BY <1>1, <1>6, <2>4, PublishCounts
  <1>7. CASE Silent
    BY <1>1, <1>3, <1>7 DEF Silent, NoEvent, storeVars, handlerVars, outVars
  <1>8. ASSUME NEW c \in Calls, Registers(c), cloud' = cloud
        PROVE  NoEvent(d)
    <2>1. lookups' = lookups \/ lookups' = [lookups EXCEPT ![c] = @ + 1]
      BY <1>8 DEF Registers
    <2>2. chan[c] # "gone" /\ active' = c
      BY <1>8 DEF Registers, OnCallStarted
    <2>3. lookups' = [lookups EXCEPT ![c] = @ + 1]
      <3>1. cloud' # PublishStarted(cloud, c)
        <4>1. /\ PublishStarted(cloud, c)[c].started = cloud[c].started + 1
              /\ cloud[c].started \in Nat
          BY <1>1, PublishCounts
        <4>2. QED
          BY <1>8, <4>1
      <3>2. QED
        BY <1>8, <3>1 DEF Registers
    <2>4. /\ lookups'[d] = lookups[d] \/ (lookups'[d] > 0 /\ d = c)
          /\ d = c => lookups'[d] > 0
      BY <1>1, <2>3
    <2>5. QED
      BY <1>3, <1>8, <2>2, <2>4 DEF NoEvent
  <1>9. ASSUME NEW c \in Calls, Registers(c), cloud' # cloud
        PROVE  Event("started", c, d)
    <2>1. cloud' = PublishStarted(cloud, c) /\ lookups' = lookups /\ chan[c] # "gone" /\ active' = c
      BY <1>9 DEF Registers, OnCallStarted
    <2>2. registered'[c] > 0
      BY <1>1, <1>9 DEF Registers, OnCallStarted, TypeOK
    <2>3. QED
      BY <1>1, <1>4, <2>1, <2>2 DEF Event
  <1>10. ASSUME NEW c \in Calls, Answers(c)
         PROVE  Event("answered", c, d)
    BY <1>1, <1>5, <1>10 DEF Answers, Event, storeVars, handlerVars
  <1>11. ASSUME NEW c \in Calls, Ends(c)
         PROVE  Event("ended", c, d)
    BY <1>1, <1>6, <1>11 DEF Ends, Event, handlerVars
  <1>12. ASSUME NEW c \in Calls, WebhookStart(c)
         PROVE  NoEvent(d)
    BY <1>1, <1>3, <1>12 DEF WebhookStart, OnCallStarted, NoEvent, handlerVars
  <1>13. ASSUME NEW c \in Calls, WebhookEnd(c)
         PROVE  NoEvent(d)
    BY <1>1, <1>3, <1>13 DEF WebhookEnd, OnCallEnded, NoEvent, handlerVars
  <1>14. ASSUME NEW c \in Calls, LookupDone(c)
         PROVE  Event("started", c, d)
    <2>1. /\ cloud' = PublishStarted(cloud, c) /\ lookups[c] > 0 /\ active' = active
          /\ lookups' = [lookups EXCEPT ![c] = @ - 1]
      BY <1>14 DEF LookupDone, storeVars
    <2>2. lookups'[d] = lookups[d] \/ (d = c /\ lookups'[d] < lookups[d] /\ lookups'[d] \in Nat)
      BY <1>1, <2>1
    <2>3. registered'[c] > 0
      BY <1>1, <1>14, <2>1 DEF LookupDone, storeVars
    <2>4. QED
      BY <1>1, <1>4, <2>1, <2>2, <2>3 DEF Event
  <1>15. "started" \in Kinds /\ "answered" \in Kinds /\ "ended" \in Kinds
    BY DEF Kinds
  <1>16. QED
    BY <1>1, <1>7, <1>8, <1>9, <1>10, <1>11, <1>12, <1>13, <1>14, <1>15, CallsStepEffect
    DEF Effect

LEMMA NewMessageFacts ==
  ASSUME NEW kind, NEW c \in Calls, NEW d \in Calls
  PROVE  /\ Ending(NewMessage(kind, c), d) <=> d = c /\ kind = "ended"
         /\ Other(NewMessage(kind, c), d) <=> d = c /\ kind # "ended"
         /\ Lasting(NewMessage(kind, c), d) <=> d = c
  BY DEF Ending, Other, Lasting, NewMessage

(* What SendEvent makes of the queue, seen from call d.                    *)
LEMMA QueueAfterSend ==
  ASSUME BridgeTypeOK, NEW kind \in Kinds, NEW c \in Calls, NEW d \in Calls, SendEvent(kind, c)
  PROVE  /\ d \in EndsIn(queue') => d \in EndsIn(queue) \/ (d = c /\ kind = "ended")
         /\ OtherIn(queue', d) => OtherIn(queue, d) \/ (d = c /\ kind # "ended")
         /\ EndIsLast(queue, d) /\ (d = c /\ kind # "ended" => d \notin EndsIn(queue))
              => EndIsLast(queue', d)
         /\ d \in EndsIn(queue) => d \in EndsIn(queue')
         /\ LastingIn(queue, d) => LastingIn(queue', d)
         /\ d \in overflowed => d \in overflowed'
         /\ d = c /\ d \notin overflowed' =>
              LastingIn(queue', d) /\ (kind = "ended" => d \in EndsIn(queue'))
  <1> DEFINE m == NewMessage(kind, c)
  <1>1. /\ queue \in Seq(Message) /\ m \in Message
        /\ overflowed \subseteq overflowed'
        /\ queue' = Append(queue, m) \/ (queue' = queue /\ c \in overflowed')
    BY SendFacts DEF BridgeTypeOK
  <1>2. /\ Ending(m, d) <=> d = c /\ kind = "ended"
        /\ Other(m, d) <=> d = c /\ kind # "ended"
        /\ Lasting(m, d) <=> d = c
    BY NewMessageFacts
  <1>3. CASE queue' = queue /\ c \in overflowed'
    BY <1>1, <1>3
  <1>4. CASE queue' = Append(queue, m)
    <2>1. /\ d \in EndsIn(queue') <=> d \in EndsIn(queue) \/ Ending(m, d)
          /\ OtherIn(queue', d) <=> OtherIn(queue, d) \/ Other(m, d)
          /\ LastingIn(queue', d) <=> LastingIn(queue, d) \/ Lasting(m, d)
          /\ EndIsLast(queue, d) /\ (d \in EndsIn(queue) => ~Other(m, d))
               => EndIsLast(queue', d)
      BY <1>1, <1>4, AppendFacts
    <2>2. QED
      BY <1>1, <1>2, <2>1
  <1>5. QED
    BY <1>1, <1>3, <1>4

(* An expired message stays what it is, but for its lasting.               *)
LEMMA QueueAfterExpire ==
  ASSUME BridgeTypeOK, Expire, NEW d \in Calls
  PROVE  /\ d \in EndsIn(queue') <=> d \in EndsIn(queue)
         /\ OtherIn(queue', d) <=> OtherIn(queue, d)
         /\ EndIsLast(queue', d) <=> EndIsLast(queue, d)
  <1>1. /\ DOMAIN queue' = DOMAIN queue
        /\ \A i \in DOMAIN queue : /\ Ending(queue'[i], d) <=> Ending(queue[i], d)
                                   /\ Other(queue'[i], d) <=> Other(queue[i], d)
    BY ExpireFacts DEF Ending, Other
  <1>2. /\ d \in EndsIn(queue') <=> \E i \in DOMAIN queue' : Ending(queue'[i], d)
        /\ d \in EndsIn(queue) <=> \E i \in DOMAIN queue : Ending(queue[i], d)
    BY EndsInCall, Zenon
  <1>3. QED
    BY <1>1, <1>2 DEF OtherIn, EndIsLast

(* A call in the slot has not ended, and one that has ended has hung up.   *)
LEMMA EndedFacts ==
  ASSUME TrackingInv, NEW d \in Calls
  PROVE  /\ active = d => cloud[d].ended = 0
         /\ cloud[d].ended > 0 => chan[d] = "gone"
         /\ cloud[d].ended \in Nat
         /\ lookups[d] \in Nat
         /\ NoCall # d
  BY CallTrackingAssumption
  DEF TrackingInv, EndedInv, EndedOnlyAfterPanelHangup, TypeOK, Published

(* A message of a call that nobody has raced with its end can only be sent *)
(* while the call has not ended.                                           *)
LEMMA NotEndedYet ==
  ASSUME TrackingInv, NEW d \in Calls, InOrder(d), d \notin raced,
         active = d \/ lookups[d] > 0 \/ chan[d] # "gone" \/ snap = d
  PROVE  /\ cloud[d].ended = 0
         /\ d \notin EndsIn(queue) /\ d \notin EndsIn(flight) /\ heard[d] # "ended"
  <1>1. cloud[d].ended = 0
    BY EndedFacts DEF InOrder, NobodyLooksItUp
  <1>2. QED
    BY <1>1 DEF InOrder, EndsKnown

LEMMA OrderAfterCallEvent ==
  ASSUME TrackingInv, BridgeTypeOK, CallEvent, NEW d \in Calls, InOrder(d)
  PROVE  InOrder(d)'
  <1>1. UNCHANGED <<flight, heard, snap>>
    BY DEF CallEvent, linkVars
  <1>2. CASE NoEvent(d)
    BY <1>1, <1>2, EndedFacts DEF NoEvent, InOrder, EndsKnown, NobodyLooksItUp, EndComesLast
  <1>3. ASSUME NEW c \in Calls, NEW kind \in Kinds, Event(kind, c, d)
        PROVE  InOrder(d)'
    <2>1. SendEvent(kind, c)
      BY <1>3 DEF Event
    <2>2. EndsKnown(d)'
      BY <1>1, <1>3, <2>1, QueueAfterSend, EndedFacts DEF Event, InOrder, EndsKnown
    <2>3. CASE d # c
      <3>1. /\ cloud'[d].ended = cloud[d].ended /\ lookups'[d] = lookups[d]
            /\ d \in raced' <=> d \in raced
        BY <1>3, <2>3, EndedFacts DEF Event
      <3>2. /\ d \in EndsIn(queue') => d \in EndsIn(queue)
            /\ OtherIn(queue', d) => OtherIn(queue, d)
            /\ EndIsLast(queue, d) => EndIsLast(queue', d)
        BY <2>1, <2>3, QueueAfterSend
      <3>3. NobodyLooksItUp(d) => NobodyLooksItUp(d)'
        BY <1>1, <3>1 DEF NobodyLooksItUp
      <3>4. EndComesLast(d) => EndComesLast(d)'
        BY <1>1, <3>2 DEF EndComesLast
      <3>5. QED
        BY <2>2, <3>1, <3>3, <3>4 DEF InOrder
    <2>4. CASE d = c /\ d \notin raced'
      <3>1. d \notin raced
        BY <1>3, <2>4 DEF Event
      <3>2. active = d \/ lookups[d] > 0 \/ chan[d] # "gone"
        BY <1>3, <2>4 DEF Event
      <3>3. /\ cloud[d].ended = 0
            /\ d \notin EndsIn(queue) /\ d \notin EndsIn(flight) /\ heard[d] # "ended"
        BY <3>1, <3>2, NotEndedYet
      <3>4. EndComesLast(d)'
        <4>1. EndComesLast(d)
          BY <3>1 DEF InOrder
        <4>2. EndIsLast(queue', d)
          BY <2>1, <3>3, <4>1, QueueAfterSend DEF EndComesLast
        <4>3. QED
          BY <1>1, <3>3, <4>1, <4>2 DEF EndComesLast
      <3>5. NobodyLooksItUp(d)'
        <4>1. CASE kind = "ended"
          <5>1. lookups[d] = 0 /\ snap # d
            BY <1>3, <2>4, <4>1, EndedFacts DEF Event
          <5>2. QED
            BY <1>1, <1>3, <4>1, <5>1 DEF Event, NobodyLooksItUp
        <4>2. CASE kind # "ended"
          BY <1>3, <3>3, <4>2 DEF Event, NobodyLooksItUp
        <4>3. QED
          BY <4>1, <4>2
      <3>6. QED
        BY <2>2, <3>4, <3>5 DEF InOrder
    <2>5. QED
      BY <2>2, <2>3, <2>4 DEF InOrder
  <1>4. QED
    BY <1>2, <1>3, EventCases

LEMMA OrderAfterSendActiveCall ==
  ASSUME TrackingInv, BridgeTypeOK, SendActiveCall, NEW d \in Calls, InOrder(d)
  PROVE  InOrder(d)'
  <1>1. /\ snap \in Calls /\ SendEvent("started", snap) /\ "started" \in Kinds
        /\ UNCHANGED <<cloud, lookups, flight, heard, raced>>
        /\ snap' = NoCall
    BY DEF SendActiveCall, BridgeTypeOK, Kinds, vars, outVars, handlerVars
  <1>2. /\ d \in EndsIn(queue') => d \in EndsIn(queue)
        /\ OtherIn(queue', d) => OtherIn(queue, d) \/ d = snap
        /\ EndIsLast(queue, d) /\ (d = snap => d \notin EndsIn(queue)) => EndIsLast(queue', d)
    BY <1>1, QueueAfterSend
  <1>3. EndsKnown(d)'
    BY <1>1, <1>2 DEF InOrder, EndsKnown
  <1>4. ASSUME d \notin raced
        PROVE  NobodyLooksItUp(d)' /\ EndComesLast(d)'
    <2>1. NobodyLooksItUp(d) /\ EndComesLast(d)
      BY <1>4 DEF InOrder
    <2>2. NobodyLooksItUp(d)'
      BY <1>1, <2>1, EndedFacts DEF NobodyLooksItUp
    <2>3. d = snap => d \notin EndsIn(queue) /\ d \notin EndsIn(flight) /\ heard[d] # "ended"
      BY <1>4, NotEndedYet
    <2>4. EndComesLast(d)'
      BY <1>1, <1>2, <2>1, <2>3 DEF EndComesLast
    <2>5. QED
      BY <2>2, <2>4
  <1>5. QED
    BY <1>1, <1>3, <1>4 DEF InOrder

LEMMA OrderAfterTakeMessage ==
  ASSUME BridgeTypeOK, TakeMessage, NEW d \in Calls, InOrder(d)
  PROVE  InOrder(d)'
  <1> DEFINE m == Head(queue)
  <1>1. /\ queue # <<>> /\ m \in Message /\ queue' = Tail(queue)
        /\ queue \in Seq(Message) /\ flight \in Seq(Message)
        /\ flight' = Append(flight, m) \/ flight' = flight
        /\ UNCHANGED <<cloud, lookups, heard, raced, snap>>
    BY TakeFacts DEF BridgeTypeOK, TakeMessage, vars, outVars, handlerVars, linkVars, pastVars
  <1>2. /\ d \in EndsIn(queue) <=> Ending(m, d) \/ d \in EndsIn(queue')
        /\ OtherIn(queue, d) <=> Other(m, d) \/ OtherIn(queue', d)
        /\ EndIsLast(queue, d) => EndIsLast(queue', d) /\ (Ending(m, d) => ~OtherIn(queue', d))
    BY <1>1, TailFacts
  <1>3. /\ d \in EndsIn(flight') => d \in EndsIn(flight) \/ Ending(m, d)
        /\ OtherIn(flight', d) => OtherIn(flight, d) \/ Other(m, d)
        /\ EndIsLast(flight, d) /\ (d \in EndsIn(flight) => ~Other(m, d)) => EndIsLast(flight', d)
    <2>1. CASE flight' = Append(flight, m)
      BY <1>1, <2>1, AppendFacts
    <2>2. CASE flight' = flight
      BY <2>2
    <2>3. QED
      BY <1>1, <2>1, <2>2
  <1>4. EndsKnown(d)'
    BY <1>1, <1>2, <1>3 DEF InOrder, EndsKnown
  <1>5. NobodyLooksItUp(d) => NobodyLooksItUp(d)'
    BY <1>1 DEF NobodyLooksItUp
  <1>6. EndComesLast(d) => EndComesLast(d)'
    BY <1>1, <1>2, <1>3 DEF EndComesLast
  <1>7. QED
    BY <1>1, <1>4, <1>5, <1>6 DEF InOrder

LEMMA OrderAfterCloudReceives ==
  ASSUME BridgeTypeOK, CloudReceives, NEW d \in Calls, InOrder(d)
  PROVE  InOrder(d)'
  <1> DEFINE m == Head(flight)
  <1>1. /\ flight # <<>> /\ m \in Message /\ flight \in Seq(Message) /\ flight' = Tail(flight)
        /\ heard' = [heard EXCEPT ![m.call] = m.kind]
        /\ heard \in [Calls -> Kinds \cup {"nothing"}]
        /\ UNCHANGED <<cloud, lookups, queue, raced, snap>>
    BY ReceiveFacts DEF BridgeTypeOK, CloudReceives, vars, outVars, handlerVars, linkVars, pastVars
  <1>2. /\ d \in EndsIn(flight) <=> Ending(m, d) \/ d \in EndsIn(flight')
        /\ OtherIn(flight, d) <=> Other(m, d) \/ OtherIn(flight', d)
        /\ EndIsLast(flight, d) => EndIsLast(flight', d) /\ (Ending(m, d) => ~OtherIn(flight', d))
    BY <1>1, TailFacts
  <1>3. heard'[d] = "ended" => Ending(m, d) \/ heard[d] = "ended"
    BY <1>1 DEF Ending, Message
  <1>4. EndsKnown(d)'
    BY <1>1, <1>2, <1>3 DEF InOrder, EndsKnown
  <1>5. NobodyLooksItUp(d) => NobodyLooksItUp(d)'
    BY <1>1 DEF NobodyLooksItUp
  <1>6. EndComesLast(d) => EndComesLast(d)'
    BY <1>1, <1>2, <1>3 DEF EndComesLast
  <1>7. QED
    BY <1>1, <1>4, <1>5, <1>6 DEF InOrder

LEMMA OrderStep ==
  ASSUME TrackingInv, BridgeTypeOK, OrderInv, [BridgeNext]_bridgeVars
  PROVE  OrderInv'
  <1> SUFFICES ASSUME NEW d \in Calls
               PROVE  InOrder(d)'
    BY DEF OrderInv
  <1>1. InOrder(d)
    BY DEF OrderInv
  <1>2. CASE CallEvent
    BY <1>1, <1>2, OrderAfterCallEvent
  <1>3. CASE Connect \/ UNCHANGED bridgeVars
    BY <1>1, <1>3
    DEF Connect, InOrder, EndsKnown, NobodyLooksItUp, EndComesLast, bridgeVars, vars, outVars,
        handlerVars, linkVars, pathVars, pastVars
  <1>4. CASE ReadSlot
    <2>1. UNCHANGED <<cloud, lookups, queue, flight, heard, raced>> /\ snap' = active
      BY <1>4 DEF ReadSlot, vars, outVars, handlerVars, pathVars, pastVars
    <2>2. QED
      BY <1>1, <2>1, EndedFacts DEF InOrder, EndsKnown, NobodyLooksItUp, EndComesLast
  <1>5. CASE SendActiveCall
    BY <1>1, <1>5, OrderAfterSendActiveCall
  <1>6. CASE SessionEnds
    <2>1. UNCHANGED <<cloud, lookups, queue, heard, raced>> /\ flight' = <<>> /\ snap' = NoCall
      BY <1>6 DEF SessionEnds, vars, outVars, handlerVars
    <2>2. QED
      BY <1>1, <2>1, EndedFacts, EmptyFacts
      DEF InOrder, EndsKnown, NobodyLooksItUp, EndComesLast
  <1>7. CASE BridgeRestart
    <2>1. /\ UNCHANGED <<cloud, heard, raced>>
          /\ flight' = <<>> /\ queue' = <<>> /\ snap' = NoCall /\ lookups'[d] = 0
      BY <1>7 DEF BridgeRestart, Restart, outVars
    <2>2. QED
      BY <1>1, <2>1, EndedFacts, EmptyFacts
      DEF InOrder, EndsKnown, NobodyLooksItUp, EndComesLast
  <1>8. CASE Expire
    <2>1. UNCHANGED <<cloud, lookups, flight, heard, raced, snap>>
      BY <1>8 DEF Expire, vars, outVars, handlerVars, linkVars, pastVars
    <2>2. QED
      BY <1>1, <1>8, <2>1, QueueAfterExpire
      DEF InOrder, EndsKnown, NobodyLooksItUp, EndComesLast
  <1>9. CASE TakeMessage
    BY <1>1, <1>9, OrderAfterTakeMessage
  <1>10. CASE CloudReceives
    BY <1>1, <1>10, OrderAfterCloudReceives
  <1>11. QED
    BY <1>2, <1>3, <1>4, <1>5, <1>6, <1>7, <1>8, <1>9, <1>10 DEF BridgeNext

LEMMA OrderInvariant == BridgeSpec => []OrderInv
  <1>1. BridgeInit => OrderInv
    BY EmptyFacts, CallTrackingAssumption
    DEF BridgeInit, Init, OrderInv, InOrder, EndsKnown, NobodyLooksItUp, EndComesLast
  <1>2. QED
    BY <1>1, TrackingInvariant, BridgeTypeCorrect, OrderStep, PTL DEF BridgeSpec

(* bridge.py: "a reconnect can't replay a call_started for a finished      *)
(* call."  Whatever the sessions, the snapshots and the restarts did, the  *)
(* cloud hears of no call that it begins after it heard of its end, unless *)
(* the call ended while a handler or the snapshot was looking it up.       *)
THEOREM NeverRingsAfterEnd == BridgeSpec => NoRingAfterEnd
  <1>1. ASSUME BridgeTypeOK, OrderInv, [BridgeNext]_bridgeVars
        PROVE  [\A c \in Calls : heard[c] = "ended" /\ heard'[c] = "started"
                                   => c \in raced]_bridgeVars
    <2> SUFFICES ASSUME NEW c \in Calls, heard[c] = "ended", heard'[c] = "started", c \notin raced
                 PROVE  FALSE
      OBVIOUS
    <2>1. CloudReceives
      BY <1>1
      DEF BridgeNext, CallEvent, Connect, ReadSlot, SendActiveCall, SessionEnds, BridgeRestart,
          Expire, TakeMessage, bridgeVars, pathVars
    <2>2. /\ flight \in Seq(Message) /\ flight # <<>> /\ Head(flight) \in Message
          /\ heard' = [heard EXCEPT ![Head(flight).call] = Head(flight).kind]
      BY <1>1, <2>1, ReceiveFacts
    <2>3. Other(Head(flight), c)
      BY <1>1, <2>2 DEF BridgeTypeOK, Message, Other
    <2>4. OtherIn(flight, c)
      BY <2>2, <2>3, TailFacts
    <2>5. QED
      BY <1>1, <2>4 DEF OrderInv, InOrder, EndComesLast
  <1>2. QED
    BY <1>1, BridgeTypeCorrect, OrderInvariant, PTL DEF BridgeSpec, NoRingAfterEnd

-----------------------------------------------------------------------------
(* What the cloud believes when all is delivered.                          *)

(* The call in the slot is announced: the cloud has heard of it, or will,  *)
(* from a message that is not dropped, a handler or the next snapshot.     *)
SlotAnnounced(c) ==
  active = c /\ c \notin Legacy \cup overflowed =>
    \/ heard[c] # "nothing"
    \/ lookups[c] > 0
    \/ session \in {"down", "devices"}
    \/ snap = c
    \/ LastingIn(flight, c)
    \/ LastingIn(queue, c)

(* The end of a call is under way or was the last that the cloud heard.    *)
EndAnnounced(c) ==
  cloud[c].ended > 0 /\ c \notin raced \cup endLost \cup overflowed =>
    heard[c] = "ended" \/ c \in EndsIn(flight) \/ c \in EndsIn(queue)

(* Only calls that were in the slot are spoken of.                         *)
OnlyRegistered(c) ==
  GoesOn(c) \/ OtherIn(flight, c) \/ OtherIn(queue, c) \/ snap = c => registered[c] > 0

Announced(c) == SlotAnnounced(c) /\ EndAnnounced(c) /\ OnlyRegistered(c)
AnnouncedInv == \A c \in Calls : Announced(c)

LEMMA ConcatEnds ==
  ASSUME NEW s \in Seq(Message), NEW t \in Seq(Message), NEW c \in Calls,
         c \in EndsIn(s) \/ c \in EndsIn(t)
  PROVE  c \in EndsIn(s \o t)
  <1>1. /\ Len(s) \in Nat /\ Len(t) \in Nat
        /\ DOMAIN s = 1 .. Len(s) /\ DOMAIN t = 1 .. Len(t)
        /\ DOMAIN (s \o t) = 1 .. Len(s) + Len(t)
        /\ \A i \in DOMAIN s : i \in DOMAIN (s \o t) /\ (s \o t)[i] = s[i]
        /\ \A i \in DOMAIN t : /\ Len(s) + i \in DOMAIN (s \o t)
                               /\ (s \o t)[Len(s) + i] = t[i]
    OBVIOUS
  <1>2. (\E i \in DOMAIN s : Ending(s[i], c)) \/ (\E i \in DOMAIN t : Ending(t[i], c))
    BY EndsInCall, Zenon
  <1>3. \E i \in DOMAIN (s \o t) : Ending((s \o t)[i], c)
    BY <1>1, <1>2, Zenon
  <1>4. QED
    BY <1>3, EndsInCall, Zenon

LEMMA RegisteredGrows ==
  ASSUME TypeOK, [Next]_vars, NEW d \in Calls
  PROVE  registered'[d] >= registered[d]
  <1>1. registered \in [Calls -> Nat] /\ registered[d] \in Nat
    BY DEF TypeOK
  <1>2. registered' = registered \/ \E c \in Calls : OnCallStarted(c)
    BY StepEffect
    DEF Silent, Restart, Effect, Registers, Answers, Ends, WebhookStart, WebhookEnd, LookupDone,
        storeVars
  <1>3. QED
    BY <1>1, <1>2 DEF OnCallStarted

LEMMA AnnouncedAfterCallEvent ==
  ASSUME TrackingInv, BridgeTypeOK, CallEvent, NEW d \in Calls, Announced(d)
  PROVE  Announced(d)'
  <1>1. UNCHANGED <<flight, heard, snap, session>>
    BY DEF CallEvent, linkVars
  <1>2. registered'[d] >= registered[d] /\ registered'[d] \in Nat /\ registered[d] \in Nat
    <2>1. [Next]_vars
      BY DEF CallEvent, Next
    <2>2. TypeOK /\ TypeOK'
      BY <2>1, TypeStep DEF TrackingInv
    <2>3. QED
      BY <2>1, <2>2, RegisteredGrows DEF TypeOK
  <1>3. CASE NoEvent(d)
    BY <1>1, <1>2, <1>3
    DEF NoEvent, Announced, SlotAnnounced, EndAnnounced, OnlyRegistered, GoesOn
  <1>4. ASSUME NEW c \in Calls, NEW kind \in Kinds, Event(kind, c, d)
        PROVE  Announced(d)'
    <2>1. /\ OtherIn(queue', d) => OtherIn(queue, d) \/ d = c
          /\ d \in EndsIn(queue) => d \in EndsIn(queue')
          /\ LastingIn(queue, d) => LastingIn(queue', d)
          /\ d \in overflowed => d \in overflowed'
          /\ d = c /\ d \notin overflowed' =>
               LastingIn(queue', d) /\ (kind = "ended" => d \in EndsIn(queue'))
      BY <1>4, QueueAfterSend DEF Event
    <2>2. SlotAnnounced(d)'
      <3>1. CASE d = c
        BY <2>1, <3>1 DEF SlotAnnounced
      <3>2. CASE d # c
        <4>1. lookups'[d] = lookups[d] /\ (active' = d => active = d)
          BY <1>4, <3>2 DEF Event
        <4>2. QED
          BY <1>1, <2>1, <4>1 DEF Announced, SlotAnnounced
      <3>3. QED
        BY <3>1, <3>2
    <2>3. EndAnnounced(d)'
      <3>1. raced \subseteq raced' /\ endLost' = endLost
        BY <1>4 DEF Event
      <3>2. CASE d = c /\ kind = "ended"
        BY <2>1, <3>2 DEF EndAnnounced
      <3>3. CASE ~(d = c /\ kind = "ended")
        <4>1. cloud'[d].ended = cloud[d].ended
          BY <1>4, <3>3, EndedFacts DEF Event
        <4>2. QED
          BY <1>1, <2>1, <3>1, <4>1 DEF Announced, EndAnnounced
      <3>4. QED
        BY <3>2, <3>3
    <2>4. OnlyRegistered(d)'
      <3>1. d = c => registered'[d] > 0
        BY <1>4 DEF Event
      <3>2. QED
        BY <1>1, <1>2, <2>1, <3>1 DEF Announced, OnlyRegistered, GoesOn
    <2>5. QED
      BY <2>2, <2>3, <2>4 DEF Announced
  <1>5. QED
    BY <1>3, <1>4, EventCases

LEMMA AnnouncedAfterSendActiveCall ==
  ASSUME TrackingInv, BridgeTypeOK, SendActiveCall, NEW d \in Calls, Announced(d)
  PROVE  Announced(d)'
  <1>1. /\ snap \in Calls /\ SendEvent("started", snap) /\ "started" \in Kinds
        /\ UNCHANGED <<active, registered, cloud, lookups, flight, heard, raced, endLost>>
        /\ session = "lookup" /\ snap' = NoCall /\ NoCall # d
    BY EndedFacts
    DEF SendActiveCall, BridgeTypeOK, Kinds, vars, outVars, handlerVars, storeVars
  <1>2. /\ OtherIn(queue', d) => OtherIn(queue, d) \/ d = snap
        /\ d \in EndsIn(queue) => d \in EndsIn(queue')
        /\ LastingIn(queue, d) => LastingIn(queue', d)
        /\ d \in overflowed => d \in overflowed'
        /\ d = snap /\ d \notin overflowed' => LastingIn(queue', d)
    BY <1>1, QueueAfterSend
  <1>3. SlotAnnounced(d)'
    BY <1>1, <1>2 DEF Announced, SlotAnnounced
  <1>4. EndAnnounced(d)'
    BY <1>1, <1>2 DEF Announced, EndAnnounced
  <1>5. OnlyRegistered(d)'
    BY <1>1, <1>2 DEF Announced, OnlyRegistered, GoesOn
  <1>6. QED
    BY <1>3, <1>4, <1>5 DEF Announced

LEMMA AnnouncedAfterTakeMessage ==
  ASSUME BridgeTypeOK, TakeMessage, NEW d \in Calls, Announced(d)
  PROVE  Announced(d)'
  <1> DEFINE m == Head(queue)
  <1>1. /\ queue # <<>> /\ m \in Message /\ queue' = Tail(queue)
        /\ queue \in Seq(Message) /\ flight \in Seq(Message)
        /\ flight' = Append(flight, m) \/ (flight' = flight /\ m.kind = "started" /\ m.stale)
        /\ UNCHANGED <<active, registered, cloud, lookups, heard, raced, endLost, overflowed,
                       snap, session>>
    BY TakeFacts
    DEF BridgeTypeOK, TakeMessage, vars, outVars, handlerVars, storeVars, linkVars, pastVars
  <1>2. /\ d \in EndsIn(queue) <=> Ending(m, d) \/ d \in EndsIn(queue')
        /\ OtherIn(queue, d) <=> Other(m, d) \/ OtherIn(queue', d)
        /\ LastingIn(queue, d) <=> Lasting(m, d) \/ LastingIn(queue', d)
    BY <1>1, TailFacts
  <1>3. /\ d \in EndsIn(flight) \/ Ending(m, d) => d \in EndsIn(flight')
        /\ OtherIn(flight', d) => OtherIn(flight, d) \/ Other(m, d)
        /\ LastingIn(flight, d) \/ Lasting(m, d) => LastingIn(flight', d)
    <2>1. CASE flight' = Append(flight, m)
      BY <1>1, <2>1, AppendFacts
    <2>2. CASE flight' = flight /\ m.kind = "started" /\ m.stale
      BY <2>2 DEF Ending, Lasting
    <2>3. QED
      BY <1>1, <2>1, <2>2
  <1>4. SlotAnnounced(d)'
    BY <1>1, <1>2, <1>3 DEF Announced, SlotAnnounced
  <1>5. EndAnnounced(d)'
    BY <1>1, <1>2, <1>3 DEF Announced, EndAnnounced
  <1>6. OnlyRegistered(d)'
    BY <1>1, <1>2, <1>3 DEF Announced, OnlyRegistered, GoesOn
  <1>7. QED
    BY <1>4, <1>5, <1>6 DEF Announced

LEMMA AnnouncedAfterCloudReceives ==
  ASSUME BridgeTypeOK, CloudReceives, NEW d \in Calls, InOrder(d), Announced(d)
  PROVE  Announced(d)'
  <1> DEFINE m == Head(flight)
  <1>1. /\ flight # <<>> /\ m \in Message /\ flight \in Seq(Message) /\ flight' = Tail(flight)
        /\ heard' = [heard EXCEPT ![m.call] = m.kind]
        /\ heard \in [Calls -> Kinds \cup {"nothing"}]
        /\ UNCHANGED <<active, registered, cloud, lookups, queue, raced, endLost, overflowed,
                       snap, session>>
    BY ReceiveFacts
    DEF BridgeTypeOK, CloudReceives, vars, outVars, handlerVars, storeVars, linkVars, pastVars
  <1>2. /\ d \in EndsIn(flight) <=> Ending(m, d) \/ d \in EndsIn(flight')
        /\ OtherIn(flight, d) <=> Other(m, d) \/ OtherIn(flight', d)
        /\ LastingIn(flight, d) <=> Lasting(m, d) \/ LastingIn(flight', d)
    BY <1>1, TailFacts
  <1>3. /\ Ending(m, d) => heard'[d] = "ended"
        /\ heard'[d] = heard[d] \/ (heard'[d] \in Kinds /\ (Ending(m, d) \/ Other(m, d)))
        /\ Lasting(m, d) => heard'[d] \in Kinds
        /\ heard'[d] \in {"started", "answered"} => GoesOn(d) \/ Other(m, d)
    BY <1>1 DEF Ending, Other, Lasting, Message, GoesOn
  <1>4. "nothing" \notin Kinds
    BY DEF Kinds
  <1>5. SlotAnnounced(d)'
    BY <1>1, <1>2, <1>3, <1>4 DEF Announced, SlotAnnounced
  <1>6. EndAnnounced(d)'
    <2>1. d \notin raced /\ heard[d] = "ended" => ~Other(m, d)
      BY <1>2 DEF InOrder, EndComesLast
    <2>2. d \notin raced /\ heard[d] = "ended" => heard'[d] = "ended"
      BY <1>3, <2>1
    <2>3. QED
      BY <1>1, <1>2, <1>3, <2>2 DEF Announced, EndAnnounced
  <1>7. OnlyRegistered(d)'
    BY <1>1, <1>2, <1>3 DEF Announced, OnlyRegistered, GoesOn
  <1>8. QED
    BY <1>5, <1>6, <1>7 DEF Announced

LEMMA AnnouncedStep ==
  ASSUME TrackingInv, BridgeTypeOK, OrderInv, AnnouncedInv, [BridgeNext]_bridgeVars
  PROVE  AnnouncedInv'
  <1> SUFFICES ASSUME NEW d \in Calls
               PROVE  Announced(d)'
    BY DEF AnnouncedInv
  <1>1. Announced(d) /\ InOrder(d) /\ NoCall # d
    BY EndedFacts DEF AnnouncedInv, OrderInv
  <1>2. CASE CallEvent
    BY <1>1, <1>2, AnnouncedAfterCallEvent
  <1>3. CASE Connect \/ UNCHANGED bridgeVars
    BY <1>1, <1>3
    DEF Connect, Announced, SlotAnnounced, EndAnnounced, OnlyRegistered, GoesOn, bridgeVars,
        vars, outVars, handlerVars, storeVars, linkVars, pathVars, pastVars
  <1>4. CASE ReadSlot
    <2>1. /\ UNCHANGED <<active, registered, cloud, lookups, queue, flight, heard, raced,
                         endLost, overflowed>>
          /\ snap' = active
      BY <1>4 DEF ReadSlot, vars, outVars, handlerVars, storeVars, pathVars, pastVars
    <2>2. active = d => registered[d] > 0
      BY DEF TrackingInv, RegistrationsAccounted, TypeOK, Published
    <2>3. QED
      BY <1>1, <2>1, <2>2 DEF Announced, SlotAnnounced, EndAnnounced, OnlyRegistered, GoesOn
  <1>5. CASE SendActiveCall
    BY <1>1, <1>5, AnnouncedAfterSendActiveCall
  <1>6. CASE SessionEnds
    <2>1. /\ UNCHANGED <<registered, cloud, queue, heard, raced, overflowed>>
          /\ flight' = <<>> /\ snap' = NoCall /\ session' = "down"
          /\ endLost' = endLost \cup EndsIn(flight)
      BY <1>6 DEF SessionEnds, vars, outVars, storeVars
    <2>2. QED
      BY <1>1, <2>1, EmptyFacts
      DEF Announced, SlotAnnounced, EndAnnounced, OnlyRegistered, GoesOn
  <1>7. CASE BridgeRestart
    <2>1. /\ UNCHANGED <<registered, cloud, heard, raced, overflowed>>
          /\ flight' = <<>> /\ queue' = <<>> /\ snap' = NoCall /\ session' = "down"
          /\ endLost' = endLost \cup EndsIn(flight \o queue)
      BY <1>7 DEF BridgeRestart, Restart, outVars
    <2>2. d \in EndsIn(flight) \/ d \in EndsIn(queue) => d \in endLost'
      BY <2>1, ConcatEnds DEF BridgeTypeOK
    <2>3. QED
      BY <1>1, <2>1, <2>2, EmptyFacts
      DEF Announced, SlotAnnounced, EndAnnounced, OnlyRegistered, GoesOn
  <1>8. CASE Expire
    <2>1. /\ UNCHANGED <<active, registered, cloud, flight, heard, raced, endLost, overflowed,
                         snap>>
          /\ session' = "down"
      BY <1>8 DEF Expire, vars, outVars, storeVars, linkVars, pastVars
    <2>2. QED
      BY <1>1, <1>8, <2>1, QueueAfterExpire
      DEF Announced, SlotAnnounced, EndAnnounced, OnlyRegistered, GoesOn
  <1>9. CASE TakeMessage
    BY <1>1, <1>9, AnnouncedAfterTakeMessage
  <1>10. CASE CloudReceives
    BY <1>1, <1>10, AnnouncedAfterCloudReceives
  <1>11. QED
    BY <1>2, <1>3, <1>4, <1>5, <1>6, <1>7, <1>8, <1>9, <1>10 DEF BridgeNext

LEMMA AnnouncedInvariant == BridgeSpec => []AnnouncedInv
  <1>1. BridgeInit => AnnouncedInv
    BY EmptyFacts, CallTrackingAssumption
    DEF BridgeInit, Init, AnnouncedInv, Announced, SlotAnnounced, EndAnnounced, OnlyRegistered,
        GoesOn
  <1>2. QED
    BY <1>1, TrackingInvariant, BridgeTypeCorrect, OrderInvariant, AnnouncedStep, PTL
    DEF BridgeSpec

(* bridge.py: "Also send current call state."  When all is delivered, the  *)
(* cloud knows the call in the slot and believes of no other call that it  *)
(* goes on, up to the calls that CloudAgrees names, however the handlers,  *)
(* the snapshots, the losses of a session and the restarts interleave.     *)
THEOREM CloudAlwaysAgrees == BridgeSpec => []CloudAgrees
  <1>1. ASSUME TrackingInv, BridgeTypeOK, OrderInv, AnnouncedInv
        PROVE  CloudAgrees
    <2> SUFFICES ASSUME Settled, NEW c \in Calls, c \notin overflowed
                 PROVE  /\ active = c => GoesOn(c) \/ c \in Legacy
                        /\ GoesOn(c) => active = c \/ dropped[c] > 0 \/ c \in raced \cup endLost
      BY DEF CloudAgrees
    <2>1. /\ queue = <<>> /\ flight = <<>> /\ lookups[c] = 0 /\ session = "up"
          /\ snap = NoCall /\ NoCall # c
          /\ heard[c] \in {"started", "answered", "ended", "nothing"}
      BY <1>1, EndedFacts DEF Settled, BridgeTypeOK, Kinds
    <2>2. c \notin EndsIn(queue) /\ c \notin EndsIn(flight)
          /\ ~LastingIn(queue, c) /\ ~LastingIn(flight, c)
      BY <2>1, EmptyFacts
    <2>3. Announced(c) /\ InOrder(c)
      BY <1>1 DEF AnnouncedInv, OrderInv
    <2>4. ASSUME active = c, c \notin Legacy
          PROVE  GoesOn(c)
      <3>1. heard[c] # "nothing"
        BY <2>1, <2>2, <2>3, <2>4 DEF Announced, SlotAnnounced
      <3>2. heard[c] # "ended"
        BY <1>1, <2>3, <2>4, EndedFacts DEF InOrder, EndsKnown
      <3>3. QED
        BY <2>1, <3>1, <3>2 DEF GoesOn
    <2>5. ASSUME GoesOn(c), active # c, ~(dropped[c] > 0), c \notin raced \cup endLost
          PROVE  FALSE
      <3>1. registered[c] > 0
        BY <2>3, <2>5 DEF Announced, OnlyRegistered
      <3>2. registered[c] = cloud[c].ended + dropped[c] /\ dropped[c] \in Nat
        BY <1>1, <2>5 DEF TrackingInv, RegistrationsAccounted, TypeOK, Published
      <3>3. cloud[c].ended > 0
        BY <1>1, <2>5, <3>1, <3>2, EndedFacts
      <3>4. heard[c] = "ended"
        BY <2>2, <2>3, <2>5, <3>3 DEF Announced, EndAnnounced
      <3>5. QED
        BY <2>5, <3>4 DEF GoesOn
    <2>6. QED
      BY <2>4, <2>5
  <1>2. QED
    BY <1>1, TrackingInvariant, BridgeTypeCorrect, OrderInvariant, AnnouncedInvariant, PTL

=============================================================================

