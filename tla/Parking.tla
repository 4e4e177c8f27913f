------------------------------ MODULE Parking -------------------------------
(***************************************************************************)
(* The parking barrier: plates that cameras recognise, the whitelist, and  *)
(* the relay pulse that opens the barrier.                                 *)
(* Sources: backend/app/services/anpr_service.py (listeners, supervisor,   *)
(* _handle_plate), services/barrier_service.py (open_barrier),             *)
(* cloud/bridge.py (plate_upsert, plate_delete, open_barrier),             *)
(* api/routes/devices.py (open_barrier).                                   *)
(*                                                                         *)
(* Every recognised plate is handled by a task of its own.  A pulse is two *)
(* HTTP requests to the camera with a pause between them: a request may be *)
(* refused, or fail, before the camera has obeyed it or after.             *)
(***************************************************************************)
EXTENDS Integers, FiniteSets

CONSTANTS
  Cameras,
  Plates,
  None,        \* no row of plate_whitelist
  Handlers,    \* recognised plates that can be handled at once
  Admins,      \* requests of the admin API that can be open at once
  Cloud,       \* the receive loop, which runs one command at a time
  MaxPasses,   \* bound: recognised plates and commands to open
  MaxEdits,    \* bound: changes of the whitelist and of the cameras
  MaxFailed,   \* bound: requests that raise
  MaxRefused,  \* bound: requests the camera answers with an error
  MaxDrops,    \* bound: cloud sessions lost
  MaxRestarts  \* bound: restarts of the backend

Tasks == Handlers \cup Admins \cup {Cloud}

Row == [id : Nat \ {0}, enabled : {"yes", "no"}]

ASSUME ParkingAssumption ==
  /\ IsFiniteSet(Handlers)
  /\ Handlers \cap Admins = {}
  /\ Cloud \notin Handlers \cup Admins
  /\ None \notin Row
  /\ {MaxPasses, MaxEdits, MaxFailed, MaxRefused, MaxDrops, MaxRestarts} \subseteq Nat

VARIABLES
  camera,    \* the row of devices: "on", "off" (not anpr_enabled), "gone"
  whitelist, \* the row of each plate: [id, enabled], or None
  supervisor,\* _reconcile, and the cameras it has read
  listening, \* _tasks: cameras with a listener
  seen,      \* _last_seen: pairs of camera and plate within the window
  task,
  relay,     \* AlarmOut[0] of each camera: "released", "closed"
  passes,
  handled,   \* passes whose handling began
  logged,    \* rows of plate_access_log
  unlogged,  \* passes whose handling ended without a row
  edits,
  deletions, \* rows deleted, of either table
  failed,
  refused,   \* requests to release that the camera refused
  refusals,
  drops,     \* commands that a lost session cancelled
  restarts

cameraVars == <<camera, whitelist, supervisor, listening, seen>>
logVars    == <<passes, handled, logged, unlogged>>
faultVars  == <<failed, refused, refusals, drops, restarts>>
vars == <<cameraVars, task, relay, logVars, edits, deletions, faultVars>>

Idle == [at |-> "idle"]
Quiet == \A t \in Tasks : task[t] = Idle
Resting == [at |-> "rest", cameras |-> {}]
On == {d \in Cameras : camera[d] = "on"}

Goto(t, place) == task' = [task EXCEPT ![t].at = place]
Finish(t)      == task' = [task EXCEPT ![t] = Idle]

-----------------------------------------------------------------------------
(* The supervisor                                                          *)

ReconcileRead ==
  /\ supervisor.at = "rest"
  /\ supervisor' = [at |-> "apply", cameras |-> On]
  /\ UNCHANGED <<camera, whitelist, listening, seen, task, relay, logVars, edits, deletions,
                 faultVars>>

ReconcileApply ==
  /\ supervisor.at = "apply"
  /\ listening' = supervisor.cameras
  /\ supervisor' = Resting
  /\ UNCHANGED <<camera, whitelist, seen, task, relay, logVars, edits, deletions, faultVars>>

-----------------------------------------------------------------------------
(* _handle_plate *)

(* The second event of a pass, within the window, changes nothing.         *)
Recognise(t) ==
  /\ t \in Handlers
  /\ task[t] = Idle
  /\ passes < MaxPasses
  /\ passes' = passes + 1
  /\ handled' = handled + 1
  /\ \E d \in listening, p \in Plates :
       /\ <<d, p>> \notin seen
       /\ seen' = seen \cup {<<d, p>>}
       /\ task' = [task EXCEPT ![t] = [at |-> "lookup", camera |-> d, plate |-> p]]
  /\ UNCHANGED <<camera, whitelist, supervisor, listening, relay, logged, unlogged, edits,
                 deletions, faultVars>>

WindowPasses ==
  /\ \E key \in seen : seen' = seen \ {key}
  /\ UNCHANGED <<camera, whitelist, supervisor, listening, task, relay, logVars, edits, deletions,
                 faultVars>>

Lookup(t) ==
  LET d   == task[t].camera
      row == whitelist[task[t].plate]
  IN
  /\ task[t].at = "lookup"
  /\ IF row # None /\ row.enabled = "yes"
     THEN task' = [task EXCEPT ![t] = [at     |-> IF camera[d] = "gone" THEN "log" ELSE "on",
                                       camera |-> d, plate |-> task[t].plate, id |-> row.id]]
     ELSE task' = [task EXCEPT ![t] = [at |-> "log", camera |-> d, plate |-> task[t].plate, id |-> 0]]
  /\ UNCHANGED <<cameraVars, relay, logVars, edits, deletions, faultVars>>

(* A pulse of a handler is followed by the row of the log; id is that of   *)
(* the row of the whitelist, 0 if there is none.                           *)
Pulsed(t) == IF t \in Handlers THEN Goto(t, "log") ELSE Finish(t)

(* Slip: only plates of the whitelist are logged.                          *)
WriteLogMatched(t) ==
  /\ task[t].at = "log"
  /\ IF task[t].id # 0
     THEN logged' = logged + 1 /\ UNCHANGED unlogged
     ELSE unlogged' = unlogged + 1 /\ UNCHANGED logged
  /\ Finish(t)
  /\ UNCHANGED <<cameraVars, relay, passes, handled, edits, deletions, faultVars>>

(* The row refers to the camera and to the row of the whitelist: where one *)
(* of them is gone, the commit raises.                                     *)
WriteLog(t) ==
  LET row == whitelist[task[t].plate]
      valid == /\ camera[task[t].camera] # "gone"
               /\ task[t].id = 0 \/ (row # None /\ row.id = task[t].id)
  IN
  /\ task[t].at = "log"
  /\ IF valid
     THEN logged' = logged + 1 /\ UNCHANGED unlogged
     ELSE unlogged' = unlogged + 1 /\ UNCHANGED logged
  /\ Finish(t)
  /\ UNCHANGED <<cameraVars, relay, passes, handled, edits, deletions, faultVars>>

-----------------------------------------------------------------------------
(* open_barrier *)

(* The command of the cloud, which takes cameras with anpr_enabled only,   *)
(* and the request of the admin API, which takes any.                      *)
OpenBarrier(t) ==
  /\ t \notin Handlers
  /\ task[t] = Idle
  /\ passes < MaxPasses
  /\ passes' = passes + 1
  /\ \E d \in Cameras :
       /\ camera[d] = "on" \/ (camera[d] = "off" /\ t \in Admins)
       /\ task' = [task EXCEPT ![t] = [at |-> "on", camera |-> d]]
  /\ UNCHANGED <<cameraVars, relay, handled, logged, unlogged, edits, deletions, faultVars>>

Set(t, state) == relay' = [relay EXCEPT ![task[t].camera] = state]

Fails   == failed < MaxFailed /\ failed' = failed + 1
Refuses == refusals < MaxRefused /\ refusals' = refusals + 1

RelayOn(t) ==
  /\ task[t].at = "on"
  /\ \/ /\ Set(t, "closed")
        /\ Goto(t, "off")
        /\ UNCHANGED faultVars
     \/ /\ Refuses
        /\ Pulsed(t)
        /\ UNCHANGED <<relay, failed, refused, drops, restarts>>
     \/ /\ Fails
        /\ Set(t, "closed") \/ UNCHANGED relay
        /\ Goto(t, "release")
        /\ UNCHANGED <<refused, refusals, drops, restarts>>
  /\ UNCHANGED <<cameraVars, logVars, edits, deletions>>

(* Slip: an exception ends the pulse.                                      *)
RelayOffOnce(t) ==
  /\ task[t].at = "off"
  /\ \/ Set(t, "released") /\ UNCHANGED failed
     \/ Fails /\ UNCHANGED relay
  /\ Pulsed(t)
  /\ UNCHANGED <<cameraVars, logVars, edits, deletions, refused, refusals, drops, restarts>>

(* The answer to the second request is not looked at.                      *)
RelayOff(t) ==
  /\ task[t].at = "off"
  /\ \/ /\ Set(t, "released")
        /\ Pulsed(t)
        /\ UNCHANGED faultVars
     \/ /\ Refuses
        /\ refused' = refused + 1
        /\ Pulsed(t)
        /\ UNCHANGED <<relay, failed, drops, restarts>>
     \/ /\ Fails
        /\ Set(t, "released") \/ UNCHANGED relay
        /\ Goto(t, "release")
        /\ UNCHANGED <<refused, refusals, drops, restarts>>
  /\ UNCHANGED <<cameraVars, logVars, edits, deletions>>

(* The exception handler tries once more.                                  *)
Release(t) ==
  /\ task[t].at = "release"
  /\ \/ /\ Set(t, "released")
        /\ UNCHANGED faultVars
     \/ /\ Refuses
        /\ refused' = refused + 1
        /\ UNCHANGED <<relay, failed, drops, restarts>>
     \/ /\ Fails
        /\ UNCHANGED <<relay, refused, refusals, drops, restarts>>
  /\ Pulsed(t)
  /\ UNCHANGED <<cameraVars, logVars, edits, deletions>>

-----------------------------------------------------------------------------
(* Edits and faults                                                        *)

MayEdit == edits < MaxEdits /\ edits' = edits + 1

(* Slip: a plate that comes without the field enabled gets NULL.           *)
CmdPlateUpsertBare ==
  /\ MayEdit
  /\ task[Cloud] = Idle
  /\ \E p \in Plates, enabled \in {"yes", "no", None} :
       whitelist' = [whitelist EXCEPT ![p] =
                       [id |-> IF @ = None THEN edits + 1 ELSE @.id, enabled |-> enabled]]
  /\ UNCHANGED <<camera, supervisor, listening, seen, task, relay, logVars, deletions, faultVars>>

CmdPlateUpsert ==
  /\ MayEdit
  /\ task[Cloud] = Idle
  /\ \E p \in Plates, enabled \in {"yes", "no"} :
       whitelist' = [whitelist EXCEPT ![p] =
                       [id |-> IF @ = None THEN edits + 1 ELSE @.id, enabled |-> enabled]]
  /\ UNCHANGED <<camera, supervisor, listening, seen, task, relay, logVars, deletions, faultVars>>

CmdPlateDelete ==
  /\ MayEdit
  /\ task[Cloud] = Idle
  /\ \E p \in Plates :
       /\ whitelist[p] # None
       /\ whitelist' = [whitelist EXCEPT ![p] = None]
  /\ deletions' = deletions + 1
  /\ UNCHANGED <<camera, supervisor, listening, seen, task, relay, logVars, faultVars>>

SwitchCamera ==
  /\ MayEdit
  /\ \E d \in Cameras :
       /\ camera[d] # "gone"
       /\ camera' = [camera EXCEPT ![d] = IF @ = "on" THEN "off" ELSE "on"]
  /\ UNCHANGED <<whitelist, supervisor, listening, seen, task, relay, logVars, deletions, faultVars>>

DeleteCamera ==
  /\ MayEdit
  /\ \E d \in Cameras :
       /\ camera[d] # "gone"
       /\ camera' = [camera EXCEPT ![d] = "gone"]
  /\ deletions' = deletions + 1
  /\ UNCHANGED <<whitelist, supervisor, listening, seen, task, relay, logVars, faultVars>>

(* The cloud session drops and cancels the command: CancelledError is not  *)
(* an Exception, and passes by the exception handler of open_barrier.      *)
SessionDrops ==
  /\ drops < MaxDrops
  /\ drops' = drops + 1
  /\ task[Cloud] # Idle
  /\ Finish(Cloud)
  /\ UNCHANGED <<cameraVars, relay, logVars, edits, deletions, failed, refused, refusals, restarts>>

Restart ==
  /\ restarts < MaxRestarts
  /\ restarts' = restarts + 1
  /\ task' = [t \in Tasks |-> Idle]
  /\ unlogged' = unlogged + Cardinality({t \in Handlers : task[t] # Idle})
  /\ supervisor' = Resting
  /\ listening' = {}
  /\ seen' = {}
  /\ UNCHANGED <<camera, whitelist, relay, passes, handled, logged, edits, deletions, failed,
                 refused, refusals, drops>>

-----------------------------------------------------------------------------
Init ==
  /\ camera = [d \in Cameras |-> "on"]
  /\ whitelist = [p \in Plates |-> None]
  /\ supervisor = Resting
  /\ listening = {}
  /\ seen = {}
  /\ task = [t \in Tasks |-> Idle]
  /\ relay = [d \in Cameras |-> "released"]
  /\ passes = 0
  /\ handled = 0
  /\ logged = 0
  /\ unlogged = 0
  /\ edits = 0
  /\ deletions = 0
  /\ failed = 0
  /\ refused = 0
  /\ refusals = 0
  /\ drops = 0
  /\ restarts = 0

TaskStep(t) ==
  \/ Lookup(t)
  \/ WriteLog(t)
  \/ RelayOn(t)
  \/ RelayOff(t)
  \/ Release(t)

Next ==
  \/ ReconcileRead
  \/ ReconcileApply
  \/ WindowPasses
  \/ \E t \in Tasks : Recognise(t) \/ OpenBarrier(t) \/ TaskStep(t)
  \/ CmdPlateUpsert
  \/ CmdPlateDelete
  \/ SwitchCamera
  \/ DeleteCamera
  \/ SessionDrops
  \/ Restart

Spec == Init /\ [][Next]_vars

-----------------------------------------------------------------------------
(* Properties *)

TypeOK ==
  /\ camera \in [Cameras -> {"on", "off", "gone"}]
  /\ \A p \in Plates : whitelist[p] \in Row \cup {None}
  /\ supervisor \in [at : {"rest", "apply"}, cameras : SUBSET Cameras]
  /\ listening \subseteq Cameras
  /\ seen \subseteq Cameras \X Plates
  /\ \A t \in Tasks : task[t].at \in {"idle", "lookup", "on", "off", "release", "log"}
  /\ relay \in [Cameras -> {"released", "closed"}]
  /\ {passes, handled, logged, unlogged, edits, deletions} \subseteq Nat
  /\ {failed, refused, refusals, drops, restarts} \subseteq Nat

(* The relay does not stay closed because one request fails, even when     *)
(* pulses of several tasks overlap on one camera: it takes a second one, a *)
(* refused release, or a pulse that was cut off.                           *)
RelayReleased ==
  Quiet /\ failed <= 1 /\ refused = 0 /\ drops = 0 /\ restarts = 0
    => \A d \in Cameras : relay[d] = "released"

(* Every pass that was handled is logged or still being handled, unless    *)
(* rows were deleted or the backend restarted.                             *)
PassesAccounted ==
  /\ handled = logged + unlogged + Cardinality({t \in Handlers : task[t] # Idle})
  /\ unlogged > 0 => deletions > 0 \/ restarts > 0

=============================================================================
