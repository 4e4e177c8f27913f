---------------------------- MODULE CallCommands ----------------------------
(***************************************************************************)
(* The commands by which the cloud acts on a call, reject_call,            *)
(* answer_call, re_invite_apartment and unlock_door of cloud/bridge.py,    *)
(* and the unlocking of a door by an operator (api/routes/calls.py).  The  *)
(* receive loop runs one command at a time; each AMI action and each HTTP  *)
(* or database request is an await during which panels hang up, phones     *)
(* come and go, other panels call and the AMI session is lost.             *)
(***************************************************************************)
EXTENDS Naturals, FiniteSets

CONSTANTS
  Calls,
  Phones,
  Devices,     \* door stations
  PanelOf,     \* the door station that each call comes from
  NoCall, NoPhone, NoDevice,
  Panel,       \* the panel's end of a call, beside the phones
  Cloud,       \* the receive loop
  Operator,    \* a request of the admin API
  MaxPolls,    \* polls of re_invite_apartment before its deadline
  MaxMishaps   \* bound: AMI actions that get no answer in 10 s, changes of
               \* devices and of contacts, lost sessions and restarts together

Tasks == {Cloud, Operator}
Ends  == Phones \cup {Panel}

ASSUME CallCommandsAssumption ==
  /\ PanelOf \in [Calls -> Devices]
  /\ NoCall \notin Calls /\ NoPhone \notin Phones /\ NoDevice \notin Devices
  /\ Panel \notin Phones
  /\ Cloud # Operator
  /\ {MaxPolls, MaxMishaps} \subseteq Nat

VARIABLES
  (* Asterisk *)
  chan,      \* chan[c][x]: the channel to end x of call c: "none", "up", "gone"
  invited,   \* channels that re_invite_apartment originated and nobody answered
  contacts,  \* phones that are registered
  (* the backend *)
  ami,       \* "up" while the AMI session is there
  active,    \* the call in CallStore
  unlock,    \* devices: "on", "disabled" (not enabled), "off" (not unlock_enabled)
  task,
  (* counters *)
  commanded, \* tasks that have had their command: a bound
  mishaps,
  switched   \* changes of devices

asteriskVars == <<chan, invited, contacts>>
slotVars     == <<ami, active>>
counterVars  == <<commanded, switched>>
callCommandVars ==
  <<asteriskVars, slotVars, unlock, task, counterVars, mishaps>>

Mishap == mishaps < MaxMishaps /\ mishaps' = mishaps + 1

Idle == [at |-> "idle"]

(* The channels that CoreShowChannels lists with the Linkedid of call c.   *)
Group(c) == {x \in Ends : chan[c][x] = "up"}

Goto(t, place) == task' = [task EXCEPT ![t].at = place]

(* The handler of t has returned ("yes") or raised ("no").                 *)
Reply(t, ok) == task' = [task EXCEPT ![t].at = "done", ![t].ok = ok, ![t].polls = 0]

-----------------------------------------------------------------------------
(* Asterisk, panels and phones *)

(* A panel calls; the call is detected while the AMI session is up.        *)
StartCall(c) ==
  /\ chan[c][Panel] = "none"
  /\ chan' = [chan EXCEPT ![c][Panel] = "up"]
  /\ active' = IF ami = "up" THEN c ELSE active
  /\ UNCHANGED <<invited, contacts, ami, unlock, task, counterVars, mishaps>>

DialLeg(c, x) ==
  /\ chan[c][Panel] = "up"
  /\ x \in contacts
  /\ chan[c][x] = "none"
  /\ chan' = [chan EXCEPT ![c][x] = "up"]
  /\ UNCHANGED <<invited, contacts, slotVars, unlock, task, counterVars, mishaps>>

(* The channel to end x of call c hangs up.  Dial() cancels its other legs *)
(* when the panel goes, "in some early-media / ringing states" it does not.*)
HangUp(c, x) ==
  /\ \E S \in SUBSET (IF x = Panel THEN Group(c) ELSE {}) :
       chan' = [chan EXCEPT ![c] = [y \in Ends |-> IF y \in S \cup {x} THEN "gone" ELSE @[y]]]
  /\ active' = IF x = Panel /\ active = c /\ ami = "up" THEN NoCall ELSE active

EndHangsUp(c, x) ==
  /\ chan[c][x] = "up"
  /\ HangUp(c, x)
  /\ UNCHANGED <<invited, contacts, ami, unlock, task, counterVars, mishaps>>

(* A phone that was invited again answers and is bridged to the panel, or  *)
(* rings until its timeout.                                                *)
InviteEnds ==
  /\ \E i \in invited : invited' = invited \ {i}
  /\ UNCHANGED <<chan, contacts, slotVars, unlock, task, counterVars, mishaps>>

ContactChanges(x) ==
  /\ Mishap
  /\ contacts' = IF x \in contacts THEN contacts \ {x} ELSE contacts \cup {x}
  /\ UNCHANGED <<chan, invited, slotVars, unlock, task, counterVars>>

(* The admin API edits a device.                                           *)
SwitchDevice(d) ==
  /\ Mishap
  /\ switched' = switched + 1
  /\ \E s \in {"on", "disabled", "off"} : s # unlock[d] /\ unlock' = [unlock EXCEPT ![d] = s]
  /\ UNCHANGED <<asteriskVars, slotVars, task, commanded>>

-----------------------------------------------------------------------------
(* AMIClient.send_action: an answer, or None *)

Answers == ami = "up" /\ UNCHANGED mishaps

(* At once without a session, else after 10 s.                             *)
NoAnswer ==
  \/ ami = "down" /\ UNCHANGED mishaps
  \/ ami = "up" /\ Mishap

-----------------------------------------------------------------------------
(* Commands.  A record keeps what its handler knows, and what the          *)
(* properties compare its end with: whether the call had no channel left   *)
(* when the command was read, and the slot of that moment if an unlocking  *)
(* is about the call in it.                                                *)

Issue(t, kind, place, c, x, d) ==
  LET aboutSlot == kind = "unlock" /\ d = NoDevice /\ c \in {NoCall, active}
      gone      == c # NoCall /\ Group(c) = {}
  IN
  /\ task[t] = Idle
  /\ t \notin commanded
  /\ commanded' = commanded \cup {t}
  /\ task' = [task EXCEPT ![t] =
       [kind |-> kind, at |-> place, call |-> c, phone |-> x, device |-> d, ok |-> "no",
        stale |-> IF gone THEN "yes" ELSE "no",
        slot |-> IF aboutSlot THEN active ELSE NoCall, switched |-> switched,
        listed |-> {}, left |-> {}, missed |-> "no", polls |-> 0,
        picked |-> NoCall, door |-> NoDevice, names |-> NoCall, steady |-> "no"]]
  /\ UNCHANGED <<asteriskVars, slotVars, unlock, switched, mishaps>>

(* The cloud commands nothing about a call before it has come.             *)
Came(c) == chan[c][Panel] # "none"

RejectCall == \E c \in Calls : Came(c) /\ Issue(Cloud, "reject", "list", c, NoPhone, NoDevice)

AnswerCall ==
  \E c \in Calls, x \in Phones \cup {NoPhone} :
    Came(c) /\ Issue(Cloud, "answer", "find", c, x, NoDevice)

ReInvite ==
  \E c \in Calls, x \in Phones : Came(c) /\ Issue(Cloud, "reinvite", "find", c, x, NoDevice)

UnlockDoor ==
  \E c \in {d \in Calls : Came(d)} \cup {NoCall}, d \in Devices \cup {NoDevice} :
    Issue(Cloud, "unlock", "pick", c, NoPhone, d)

UnlockDuringCall == Issue(Operator, "unlock", "pick", NoCall, NoPhone, NoDevice)

-----------------------------------------------------------------------------
(* reject_call *)

(* Slip: only the panel's channel, as the code did before.                 *)
RejectListPanel ==
  LET group == Group(task[Cloud].call) IN
  /\ task[Cloud].at = "list"
  /\ \/ /\ Answers
        /\ group # {}
        /\ task' = [task EXCEPT ![Cloud].at = "hang", ![Cloud].listed = group,
                                ![Cloud].left = group \cap {Panel}]
     \/ /\ NoAnswer \/ (Answers /\ group = {})
        /\ Reply(Cloud, "no")
  /\ UNCHANGED <<asteriskVars, slotVars, unlock, counterVars>>

RejectList ==
  LET group == Group(task[Cloud].call) IN
  /\ task[Cloud].at = "list"
  /\ \/ /\ Answers
        /\ group # {}
        /\ task' = [task EXCEPT ![Cloud].at = "hang", ![Cloud].listed = group,
                                ![Cloud].left = group]
     \/ /\ NoAnswer \/ (Answers /\ group = {})
        /\ Reply(Cloud, "no")
  /\ UNCHANGED <<asteriskVars, slotVars, unlock, counterVars>>

(* One Hangup per channel; "accepted" if any was answered with Success.    *)
(* An action without an answer may have reached Asterisk all the same.     *)
RejectHang ==
  LET c == task[Cloud].call IN
  /\ task[Cloud].at = "hang"
  /\ \E x \in task[Cloud].left :
       \/ /\ Answers
          /\ chan[c][x] = "up"
          /\ HangUp(c, x)
          /\ task' = [task EXCEPT ![Cloud].left = @ \ {x}, ![Cloud].ok = "yes"]
       \/ /\ Answers
          /\ chan[c][x] = "gone"
          /\ task' = [task EXCEPT ![Cloud].left = @ \ {x}]
          /\ UNCHANGED <<chan, active>>
       \/ /\ NoAnswer
          /\ \/ ami = "up" /\ chan[c][x] = "up" /\ HangUp(c, x)
             \/ UNCHANGED <<chan, active>>
          /\ task' = [task EXCEPT ![Cloud].left = @ \ {x}, ![Cloud].missed = "yes"]
  /\ UNCHANGED <<invited, contacts, ami, unlock, counterVars>>

RejectEnds ==
  /\ task[Cloud].at = "hang"
  /\ task[Cloud].left = {}
  /\ Reply(Cloud, task[Cloud].ok)
  /\ UNCHANGED <<asteriskVars, slotVars, unlock, counterVars, mishaps>>

-----------------------------------------------------------------------------
(* answer_call and re_invite_apartment *)

(* _find_call_channel: the panel's channel, or else any other channel of   *)
(* the call.                                                               *)
FindChannel ==
  LET r     == task[Cloud]
      found == Group(r.call) # {}
  IN
  /\ r.at = "find"
  /\ \/ Answers /\ found /\ r.kind = "reinvite" /\ Goto(Cloud, "poll")
     \/ Answers /\ found /\ r.kind = "answer" /\ r.phone # NoPhone /\ Goto(Cloud, "leg")
     \/ Answers /\ found /\ r.kind = "answer" /\ r.phone = NoPhone /\ Reply(Cloud, "yes")
     \/ Answers /\ ~found /\ Reply(Cloud, "no")
     \/ NoAnswer /\ Reply(Cloud, "no")
  /\ UNCHANGED <<asteriskVars, slotVars, unlock, counterVars>>

(* Slip: the leg may belong to another call.                               *)
FindLegAnywhere ==
  /\ task[Cloud].at = "leg"
  /\ \/ /\ Answers
        /\ Reply(Cloud, IF \E c \in Calls : task[Cloud].phone \in Group(c) THEN "yes" ELSE "no")
     \/ NoAnswer /\ Reply(Cloud, "no")
  /\ UNCHANGED <<asteriskVars, slotVars, unlock, counterVars>>

(* The leg to the phone that says it has answered.                         *)
FindLeg ==
  LET r == task[Cloud] IN
  /\ r.at = "leg"
  /\ \/ Answers /\ Reply(Cloud, IF r.phone \in Group(r.call) THEN "yes" ELSE "no")
     \/ NoAnswer /\ Reply(Cloud, "no")
  /\ UNCHANGED <<asteriskVars, slotVars, unlock, counterVars>>

(* Every half second until the phone has a contact or the time is over.    *)
Poll ==
  LET r == task[Cloud] IN
  /\ r.at = "poll"
  /\ \/ Answers /\ r.phone \in contacts /\ Goto(Cloud, "originate")
     \/ /\ NoAnswer \/ (Answers /\ r.phone \notin contacts)
        /\ \/ /\ r.polls < MaxPolls
              /\ task' = [task EXCEPT ![Cloud].polls = @ + 1]
           \/ Reply(Cloud, "no")
  /\ UNCHANGED <<asteriskVars, slotVars, unlock, counterVars>>

(* The panel is not looked at again.  A refusal is noticed if the answer   *)
(* is a dict; no answer counts as success.                                 *)
Originate ==
  LET r      == task[Cloud]
      Invite == invited' = invited \cup {<<r.call, r.phone>>}
  IN
  /\ r.at = "originate"
  /\ \/ Answers /\ Invite /\ Reply(Cloud, "yes")
     \/ Answers /\ UNCHANGED invited /\ \E ok \in {"yes", "no"} : Reply(Cloud, ok)
     \/ NoAnswer /\ (UNCHANGED invited \/ (ami = "up" /\ Invite)) /\ Reply(Cloud, "yes")
  /\ UNCHANGED <<chan, contacts, slotVars, unlock, counterVars>>

-----------------------------------------------------------------------------
(* unlock_door, and unlock_during_call of an operator *)

Enabled(t, d) == unlock[d] = "on" \/ (t = Cloud /\ unlock[d] = "disabled")

Picked(t, c, d, place) ==
  task' = [task EXCEPT ![t].at = place, ![t].door = d,
                       ![t].picked = IF t = Operator THEN c ELSE NoCall]

(* The device that is asked for; or the panel of the call in the slot, if  *)
(* that call is meant.  An operator needs a call.                          *)
PickDoorOf(t, meant) ==
  LET r   == task[t]
      own == active # NoCall /\ meant /\ Enabled(t, PanelOf[active])
  IN
  /\ r.at = "pick"
  /\ \/ r.device # NoDevice /\ Enabled(t, r.device) /\ Picked(t, active, r.device, "open")
     \/ r.device # NoDevice /\ ~Enabled(t, r.device) /\ Reply(t, "yes")
     \/ r.device = NoDevice /\ own /\ Picked(t, active, PanelOf[active], "open")
     \/ r.device = NoDevice /\ t = Operator /\ active = NoCall /\ Reply(t, "no")
     \/ /\ r.device = NoDevice /\ ~own
        /\ t = Cloud \/ active # NoCall
        /\ Picked(t, active, NoDevice, "fallback")
  /\ UNCHANGED <<asteriskVars, slotVars, unlock, counterVars, mishaps>>

(* Slip: a command that names no call is not about the one in the slot.    *)
PickDoorIfNamed(t) == task[t].at = "pick" /\ PickDoorOf(t, task[t].call = active)

PickDoor(t) == task[t].at = "pick" /\ PickDoorOf(t, task[t].call \in {NoCall, active})

(* Slip: no check that there is one.                                       *)
PickAnyDoorUnchecked(t) ==
  /\ task[t].at = "fallback"
  /\ \E d \in {e \in Devices : unlock[e] = "on"} \cup {NoDevice} :
       Picked(t, task[t].picked, d, "open")
  /\ UNCHANGED <<asteriskVars, slotVars, unlock, counterVars, mishaps>>

(* Any device that may be unlocked, of whichever panel.                    *)
PickAnyDoor(t) ==
  LET on == {d \in Devices : unlock[d] = "on"} IN
  /\ task[t].at = "fallback"
  /\ \/ \E d \in on : Picked(t, task[t].picked, d, "open")
     \/ on = {} /\ Reply(t, IF t = Cloud THEN "yes" ELSE "no")
  /\ UNCHANGED <<asteriskVars, slotVars, unlock, counterVars, mishaps>>

(* The event names the call that the command names, or the one in the slot *)
(* by then; for an operator the one that was there before.                 *)
EventCall(t) == IF t = Operator THEN task[t].picked
                ELSE IF task[t].call # NoCall THEN task[t].call ELSE active

(* The request to the door station.  The cloud gets an acknowledgement of  *)
(* a failure, the operator an error.                                       *)
OpenDoor(t) ==
  LET steady == /\ active # NoCall /\ task[t].slot = active
                /\ task[t].switched = switched /\ unlock[PanelOf[active]] = "on"
      door   == [task[t] EXCEPT !.at = "done", !.picked = NoCall,
                                   !.steady = IF steady THEN "yes" ELSE "no"]
  IN
  /\ task[t].at = "open"
  /\ \/ task' = [task EXCEPT ![t] = [door EXCEPT !.ok = "yes", !.names = EventCall(t)]]
     \/ task' = [task EXCEPT ![t] = [door EXCEPT !.ok = IF t = Cloud THEN "yes" ELSE "no",
                                                 !.door = NoDevice]]
  /\ UNCHANGED <<asteriskVars, slotVars, unlock, counterVars, mishaps>>

(* The result becomes an acknowledgement, or the response to the operator. *)
Acknowledge(t) ==
  /\ task[t].at = "done"
  /\ task' = [task EXCEPT ![t] = Idle]
  /\ UNCHANGED <<asteriskVars, slotVars, unlock, counterVars, mishaps>>

-----------------------------------------------------------------------------
(* Sessions and the process *)

AmiDown ==
  /\ Mishap
  /\ ami = "up" /\ ami' = "down"
  /\ UNCHANGED <<asteriskVars, active, unlock, task, counterVars>>

AmiConnect ==
  /\ ami = "down" /\ ami' = "up"
  /\ UNCHANGED <<asteriskVars, active, unlock, task, counterVars, mishaps>>

(* The cloud session ends and cancels the command, which gets no reply.    *)
SessionDrops ==
  /\ Mishap
  /\ task[Cloud] # Idle
  /\ task' = [task EXCEPT ![Cloud] = Idle]
  /\ UNCHANGED <<asteriskVars, slotVars, unlock, counterVars>>

CommandsRestart ==
  /\ Mishap
  /\ ami' = "down"
  /\ active' = NoCall
  /\ task' = [t \in Tasks |-> Idle]
  /\ UNCHANGED <<asteriskVars, unlock, counterVars>>

-----------------------------------------------------------------------------
CommandsInit ==
  /\ chan = [c \in Calls |-> [x \in Ends |-> "none"]]
  /\ invited = {}
  /\ contacts \in SUBSET Phones
  /\ ami = "down"
  /\ active = NoCall
  /\ \E s \in {"on", "off"} : unlock = [d \in Devices |-> s]
  /\ task = [t \in Tasks |-> Idle]
  /\ commanded = {}
  /\ mishaps = 0
  /\ switched = 0

Environment ==
  \/ \E c \in Calls : StartCall(c)
  \/ \E c \in Calls, x \in Phones : DialLeg(c, x)
  \/ \E c \in Calls, x \in Ends : EndHangsUp(c, x)
  \/ InviteEnds
  \/ \E x \in Phones : ContactChanges(x)
  \/ \E d \in Devices : SwitchDevice(d)
  \/ AmiDown
  \/ AmiConnect
  \/ SessionDrops
  \/ CommandsRestart

Request == RejectCall \/ AnswerCall \/ ReInvite \/ UnlockDoor \/ UnlockDuringCall

HandlerStep(t) ==
  \/ t = Cloud /\ (RejectList \/ RejectHang \/ RejectEnds)
  \/ t = Cloud /\ (FindChannel \/ FindLeg \/ Poll \/ Originate)
  \/ PickDoor(t)
  \/ PickAnyDoor(t)
  \/ OpenDoor(t)
  \/ Acknowledge(t)

CommandsNext == Environment \/ Request \/ \E t \in Tasks : HandlerStep(t)

CommandsSpec == CommandsInit /\ [][CommandsNext]_callCommandVars

-----------------------------------------------------------------------------
(* Properties *)

Places == {"idle", "list", "hang", "find", "leg", "poll", "originate", "pick", "fallback",
           "open", "done"}

CommandsTypeOK ==
  /\ chan \in [Calls -> [Ends -> {"none", "up", "gone"}]]
  /\ invited \subseteq Calls \X Phones
  /\ contacts \subseteq Phones
  /\ ami \in {"up", "down"}
  /\ active \in Calls \cup {NoCall}
  /\ unlock \in [Devices -> {"on", "disabled", "off"}]
  /\ \A t \in Tasks :
       /\ task[t].at \in Places
       /\ task[t] # Idle => task[t].polls <= MaxPolls /\ task[t].left \subseteq task[t].listed
       /\ task[t].at = "open" => task[t].door \in Devices
  /\ commanded \subseteq Tasks /\ mishaps \in 0 .. MaxMishaps /\ switched \in 0 .. mishaps

(* README.md: reject_call "acks OK but the gate goes on ringing" is what   *)
(* hanging up every leg is for.  When a reject_call is acknowledged, none  *)
(* of the channels that the call had when it was listed is left, whichever *)
(* of them hung up by themselves meanwhile and whatever Dial() did to its  *)
(* legs.  Exempt is an AMI action that got no answer.                      *)
RejectEndsCall ==
  LET r == task[Cloud] IN
  r.at = "done" /\ r.kind = "reject" /\ r.ok = "yes" /\ r.missed = "no"
    => r.listed \cap Group(r.call) = {}

(* answer_call: "Returning success here misleads cloud".  A command about  *)
(* a call that had no channel left when it was read is never acknowledged  *)
(* as done, though other calls go on meanwhile; nor is an answer by a      *)
(* phone to which that very call never had a leg.                          *)
NoFalseSuccess ==
  LET r == task[Cloud] IN
  r.at = "done" /\ r.kind \in {"reject", "answer", "reinvite"} /\ r.ok = "yes" =>
    /\ r.stale = "no"
    /\ r.kind = "answer" /\ r.phone # NoPhone => chan[r.call][r.phone] # "none"

(* unlock_door: "the panel that's currently ringing, which is what the     *)
(* user actually wants to open".  As long as one call keeps the slot, and  *)
(* its panel may be unlocked, from the command to the opening, the door    *)
(* that opens is that of its panel, and the event names that call, for     *)
(* cloud and operator at the same time; unless another call or a device is *)
(* asked for.                                                              *)
CallersDoor ==
  \A t \in Tasks :
    LET r == task[t] IN
    r.at = "done" /\ r.kind = "unlock" /\ r.steady = "yes" /\ r.door # NoDevice
      => r.door = PanelOf[r.slot] /\ r.names = r.slot

=============================================================================
