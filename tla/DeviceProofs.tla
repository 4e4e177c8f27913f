---------------------------- MODULE DeviceProofs ----------------------------
(***************************************************************************)
(* Theorems about the devices of the site: Parking, the barrier cameras    *)
(* and what is done for a recognised plate, for any number of cameras,     *)
(* plates and tasks and any number of passes, edits and faults; and, in    *)
(* the second half, Devices, what requests, the poll and the handlers of   *)
(* the cloud do to the rows of devices and to pjsip.conf, for any number   *)
(* of requests and troubles.  The two modules share no variable and no     *)
(* constant, and no proof about one uses the other.                        *)
(***************************************************************************)
EXTENDS Parking, Devices, FiniteSetTheorems, TLAPS

(* What a task knows: a handler first the camera and the plate, then also  *)
(* the row of the whitelist; an opening by hand the camera only.           *)
Looking == [at : {"lookup"}, camera : Cameras, plate : Plates]
Handled == [at : {"on", "off", "release", "log"}, camera : Cameras, plate : Plates, id : Nat]
Opening == [at : {"on", "off", "release"}, camera : Cameras]

TaskState(t) == IF t \in Handlers THEN {Idle} \cup Looking \cup Handled ELSE {Idle} \cup Opening

TasksOK == /\ task = [t \in Tasks |-> task[t]]
           /\ \A t \in Tasks : task[t] \in TaskState(t)

(* The tables, the cameras and the counters keep their types.              *)
CamerasOK ==
  /\ camera \in [Cameras -> {"on", "off", "gone"}]
  /\ whitelist \in [Plates -> Row \cup {None}]
  /\ supervisor \in [at : {"rest", "apply"}, cameras : SUBSET Cameras]
  /\ listening \subseteq Cameras
  /\ seen \subseteq Cameras \X Plates
  /\ relay \in [Cameras -> {"released", "closed"}]

CountersOK ==
  /\ passes \in Nat /\ handled \in Nat /\ logged \in Nat /\ unlogged \in Nat
  /\ edits \in Nat /\ deletions \in Nat
  /\ failed \in Nat /\ refused \in Nat /\ refusals \in Nat
  /\ drops \in Nat /\ restarts \in Nat

Types == TasksOK /\ CamerasOK /\ CountersOK

-----------------------------------------------------------------------------
(* Tasks                                                                   *)

(* Where a task is tells what it knows.                                    *)
LEMMA Places ==
  ASSUME TasksOK, NEW t \in Tasks
  PROVE  /\ task[t].at = "idle" <=> task[t] = Idle
         /\ task[t].at = "lookup" => t \in Handlers /\ task[t] \in Looking
         /\ task[t].at = "log" => t \in Handlers /\ task[t] \in Handled
         /\ task[t].at \in {"on", "off", "release"} =>
              IF t \in Handlers THEN task[t] \in Handled ELSE task[t] \in Opening
         /\ task[t].at \in {"idle", "lookup", "on", "off", "release", "log"}
  <1>1. task[t] \in TaskState(t)
    BY DEF TasksOK
  <1>2. CASE t \in Handlers
    BY <1>1, <1>2 DEF TaskState, Idle, Looking, Handled
  <1>3. CASE t \notin Handlers
    BY <1>1, <1>3 DEF TaskState, Idle, Opening
  <1>4. QED
    BY <1>2, <1>3

(* One task moves, the others stay.                                        *)
LEMMA Moved ==
  ASSUME TasksOK, NEW t \in Tasks, NEW s, s \in TaskState(t),
         task' = [task EXCEPT ![t] = s]
  PROVE  /\ TasksOK'
         /\ task'[t] = s
         /\ \A u \in Tasks \ {t} : task'[u] = task[u]
  BY DEF TasksOK, TaskState, Idle, Looking, Handled, Opening

LEMMA GotoEffect ==
  ASSUME TasksOK, NEW t \in Tasks, NEW place \in {"off", "release"},
         task[t].at \in {"on", "off"}, Goto(t, place)
  PROVE  \E s \in TaskState(t) :
           /\ task' = [task EXCEPT ![t] = s]
           /\ s.at = place
           /\ s.camera = task[t].camera
           /\ t \in Handlers => s \in Handled /\ s.plate = task[t].plate /\ s.id = task[t].id
  <1> DEFINE s == [task[t] EXCEPT !.at = place]
  <1>1. task' = [task EXCEPT ![t] = s]
    BY DEF Goto
  <1>2. CASE t \in Handlers
    <2>1. task[t] \in Handled
      BY <1>2, Places
    <2>2. s \in Handled /\ s.at = place /\ s.camera = task[t].camera
          /\ s.plate = task[t].plate /\ s.id = task[t].id
      BY <2>1 DEF Handled
    <2>3. QED
      BY <1>1, <1>2, <2>2 DEF TaskState
  <1>3. CASE t \notin Handlers
    <2>1. task[t] \in Opening
      BY <1>3, Places
    <2>2. s \in Opening /\ s.at = place /\ s.camera = task[t].camera
      BY <2>1 DEF Opening
    <2>3. QED
      BY <1>1, <1>3, <2>2 DEF TaskState
  <1>4. QED
    BY <1>2, <1>3

LEMMA PulsedEffect ==
  ASSUME TasksOK, NEW t \in Tasks, task[t].at \in {"on", "off", "release"}, Pulsed(t)
  PROVE  \E s \in TaskState(t) :
           /\ task' = [task EXCEPT ![t] = s]
           /\ s.at \in {"idle", "log"}
           /\ t \in Handlers => s \in Handled /\ s.plate = task[t].plate /\ s.id = task[t].id
  <1>1. CASE t \in Handlers
    <2> DEFINE s == [task[t] EXCEPT !.at = "log"]
    <2>1. task' = [task EXCEPT ![t] = s]
      BY <1>1 DEF Pulsed, Goto
    <2>2. task[t] \in Handled
      BY <1>1, Places
    <2>3. s \in Handled /\ s.at = "log" /\ s.plate = task[t].plate /\ s.id = task[t].id
      BY <2>2 DEF Handled
    <2>4. QED
      BY <1>1, <2>1, <2>3 DEF TaskState
  <1>2. CASE t \notin Handlers
    <2>1. task' = [task EXCEPT ![t] = Idle]
      BY <1>2 DEF Pulsed, Finish
    <2>2. Idle \in TaskState(t) /\ Idle.at = "idle"
      BY DEF Idle, TaskState
    <2>3. QED
      BY <1>2, <2>1, <2>2
  <1>3. QED
    BY <1>1, <1>2

Pulse(t) == RelayOn(t) \/ RelayOff(t) \/ Release(t)

(* A step of a pulse: the task keeps what it knows, and a handler goes on. *)
LEMMA PulseEffect ==
  ASSUME Types, NEW t \in Tasks, Pulse(t)
  PROVE  /\ UNCHANGED <<cameraVars, logVars, edits, deletions, drops, restarts>>
         /\ relay' \in [Cameras -> {"released", "closed"}]
         /\ failed' \in Nat /\ refused' \in Nat /\ refusals' \in Nat
         /\ task[t] # Idle
         /\ \E s \in TaskState(t) :
              /\ task' = [task EXCEPT ![t] = s]
              /\ t \in Handlers => s \in Handled /\ s.plate = task[t].plate /\ s.id = task[t].id
  <1>1. /\ task[t].at \in {"on", "off", "release"}
        /\ UNCHANGED <<cameraVars, logVars, edits, deletions, drops, restarts>>
        /\ \/ Pulsed(t)
           \/ task[t].at \in {"on", "off"} /\ \E place \in {"off", "release"} : Goto(t, place)
        /\ relay' = relay \/ Set(t, "closed") \/ Set(t, "released")
        /\ failed' = failed \/ failed' = failed + 1
        /\ refused' = refused \/ refused' = refused + 1
        /\ refusals' = refusals \/ refusals' = refusals + 1
    BY DEF Pulse, RelayOn, RelayOff, Release, Fails, Refuses, faultVars
  <1>2. relay' \in [Cameras -> {"released", "closed"}]
    BY <1>1 DEF Set, Types, CamerasOK
  <1>3. failed' \in Nat /\ refused' \in Nat /\ refusals' \in Nat
    BY <1>1 DEF Types, CountersOK
  <1>4. task[t] # Idle
    BY <1>1 DEF Idle
  <1>5. \E s \in TaskState(t) :
          /\ task' = [task EXCEPT ![t] = s]
          /\ t \in Handlers => s \in Handled /\ s.plate = task[t].plate /\ s.id = task[t].id
    BY <1>1, GotoEffect, PulsedEffect DEF Types
  <1>6. QED
    BY <1>1, <1>2, <1>3, <1>4, <1>5

-----------------------------------------------------------------------------
(* Types                                                                   *)

LEMMA TypesInit == Init => Types
  BY DEF Init, Types, TasksOK, CamerasOK, CountersOK, TaskState, Idle, Resting

LEMMA RecogniseEffect ==
  ASSUME Types, NEW t \in Tasks, Recognise(t)
  PROVE  /\ t \in Handlers /\ task[t] = Idle
         /\ \E s \in Looking : task' = [task EXCEPT ![t] = s]
         /\ \E key \in Cameras \X Plates : seen' = seen \cup {key}
         /\ passes' = passes + 1 /\ handled' = handled + 1
         /\ UNCHANGED <<camera, whitelist, supervisor, listening, relay, logged, unlogged,
                        edits, deletions, faultVars>>
  <1>1. PICK d \in listening, p \in Plates :
          /\ seen' = seen \cup {<<d, p>>}
          /\ task' = [task EXCEPT ![t] = [at |-> "lookup", camera |-> d, plate |-> p]]
    BY DEF Recognise
  <1>2. d \in Cameras
    BY DEF Types, CamerasOK
  <1>3. [at |-> "lookup", camera |-> d, plate |-> p] \in Looking
    BY <1>2 DEF Looking
  <1>4. QED
    BY <1>1, <1>2, <1>3 DEF Recognise

LEMMA LookupEffect ==
  ASSUME Types, NEW t \in Tasks, Lookup(t)
  PROVE  /\ UNCHANGED <<cameraVars, relay, logVars, edits, deletions, faultVars>>
         /\ t \in Handlers
         /\ task[t].at = "lookup"
         /\ \E s \in Handled :
              /\ task' = [task EXCEPT ![t] = s]
              /\ s.at \in {"on", "log"}
              /\ \/ s.id = 0
                 \/ whitelist[s.plate] # None /\ whitelist[s.plate].id = s.id
  <1>1. t \in Handlers /\ task[t] \in Looking
    BY Places DEF Lookup, Types
  <1> DEFINE d == task[t].camera
             p == task[t].plate
  <1>2. d \in Cameras /\ p \in Plates
    BY <1>1 DEF Looking
  <1>3. whitelist[p] \in Row \cup {None}
    BY <1>2 DEF Types, CamerasOK
  <1>4. CASE whitelist[p] # None /\ whitelist[p].enabled = "yes"
    <2> DEFINE s == [at     |-> IF camera[d] = "gone" THEN "log" ELSE "on",
                     camera |-> d, plate |-> p, id |-> whitelist[p].id]
    <2>1. task' = [task EXCEPT ![t] = s]
      BY <1>4 DEF Lookup
    <2>2. s \in Handled /\ s.at \in {"on", "log"} /\ s.plate = p /\ s.id = whitelist[p].id
      BY <1>2, <1>3, <1>4 DEF Handled, Row
    <2>3. QED
      BY <1>1, <1>4, <2>1, <2>2 DEF Lookup
  <1>5. CASE ~(whitelist[p] # None /\ whitelist[p].enabled = "yes")
    <2> DEFINE s == [at |-> "log", camera |-> d, plate |-> p, id |-> 0]
    <2>1. task' = [task EXCEPT ![t] = s]
      BY <1>5 DEF Lookup
    <2>2. s \in Handled /\ s.at \in {"on", "log"} /\ s.id = 0
      BY <1>2 DEF Handled
    <2>3. QED
      BY <1>1, <2>1, <2>2 DEF Lookup
  <1>6. QED
    BY <1>4, <1>5

LEMMA WriteLogEffect ==
  ASSUME Types, NEW t \in Tasks, WriteLog(t)
  PROVE  /\ UNCHANGED <<cameraVars, relay, passes, handled, edits, deletions, faultVars>>
         /\ t \in Handlers /\ task[t] \in Handled
         /\ task' = [task EXCEPT ![t] = Idle]
         /\ \/ logged' = logged + 1 /\ unlogged' = unlogged
            \/ /\ unlogged' = unlogged + 1 /\ logged' = logged
               /\ \/ camera[task[t].camera] = "gone"
                  \/ /\ task[t].id # 0
                     /\ \/ whitelist[task[t].plate] = None
                        \/ whitelist[task[t].plate].id # task[t].id
  <1>1. t \in Handlers /\ task[t] \in Handled
    BY Places DEF WriteLog, Types
  <1>2. QED
    BY <1>1 DEF WriteLog, Finish

LEMMA OpenBarrierEffect ==
  ASSUME Types, NEW t \in Tasks, OpenBarrier(t)
  PROVE  /\ t \notin Handlers
         /\ \E s \in Opening : s.at = "on" /\ task' = [task EXCEPT ![t] = s]
         /\ task[t] = Idle
         /\ passes' = passes + 1
         /\ UNCHANGED <<cameraVars, relay, handled, logged, unlogged, edits, deletions, faultVars>>
  <1>1. PICK d \in Cameras : task' = [task EXCEPT ![t] = [at |-> "on", camera |-> d]]
    BY DEF OpenBarrier
  <1>2. [at |-> "on", camera |-> d] \in Opening
    BY DEF Opening
  <1>3. QED
    BY <1>1, <1>2 DEF OpenBarrier

(* An edit: only a deletion takes a row away, or its number.               *)
Edit == CmdPlateUpsert \/ CmdPlateDelete \/ SwitchCamera \/ DeleteCamera

LEMMA EditEffect ==
  ASSUME Types, Edit
  PROVE  /\ UNCHANGED <<supervisor, listening, seen, task, relay, logVars, faultVars>>
         /\ edits' \in Nat
         /\ camera' \in [Cameras -> {"on", "off", "gone"}]
         /\ whitelist' \in [Plates -> Row \cup {None}]
         /\ \/ deletions' = deletions + 1
            \/ /\ deletions' = deletions
               /\ \A d \in Cameras : camera[d] # "gone" => camera'[d] # "gone"
               /\ \A p \in Plates : whitelist[p] # None =>
                    whitelist'[p] # None /\ whitelist'[p].id = whitelist[p].id
  <1>0. /\ edits \in Nat /\ camera \in [Cameras -> {"on", "off", "gone"}]
        /\ whitelist \in [Plates -> Row \cup {None}]
        /\ None \notin Row
    BY ParkingAssumption DEF Types, CamerasOK, CountersOK
  <1>1. CASE CmdPlateUpsert
    <2>1. PICK p \in Plates, enabled \in {"yes", "no"} :
            whitelist' = [whitelist EXCEPT ![p] =
                            [id |-> IF @ = None THEN edits + 1 ELSE @.id, enabled |-> enabled]]
      BY <1>1 DEF CmdPlateUpsert
    <2> DEFINE row == [id |-> IF whitelist[p] = None THEN edits + 1 ELSE whitelist[p].id,
                       enabled |-> enabled]
    <2>2. row \in Row /\ (whitelist[p] # None => row.id = whitelist[p].id)
      BY <1>0 DEF Row
    <2>3. whitelist' = [whitelist EXCEPT ![p] = row]
      BY <2>1
    <2>4. row # None
      BY <1>0, <2>2
    <2> HIDE DEF row
    <2>5. /\ whitelist' \in [Plates -> Row \cup {None}]
          /\ \A q \in Plates : whitelist[q] # None =>
               whitelist'[q] # None /\ whitelist'[q].id = whitelist[q].id
      BY <1>0, <2>2, <2>3, <2>4
    <2>6. QED
      BY <1>0, <1>1, <2>5 DEF CmdPlateUpsert, MayEdit
  <1>2. CASE CmdPlateDelete
    BY <1>0, <1>2 DEF CmdPlateDelete, MayEdit
  <1>3. CASE SwitchCamera
    BY <1>0, <1>3 DEF SwitchCamera, MayEdit
  <1>4. CASE DeleteCamera
    BY <1>0, <1>4 DEF DeleteCamera, MayEdit
  <1>5. QED
    BY <1>1, <1>2, <1>3, <1>4 DEF Edit

Reconcile == ReconcileRead \/ ReconcileApply \/ WindowPasses

LEMMA ReconcileEffect ==
  ASSUME Types, Reconcile
  PROVE  /\ UNCHANGED <<camera, whitelist, task, relay, logVars, edits, deletions, faultVars>>
         /\ supervisor' \in [at : {"rest", "apply"}, cameras : SUBSET Cameras]
         /\ listening' \subseteq Cameras
         /\ seen' \subseteq Cameras \X Plates
  BY DEF Reconcile, ReconcileRead, ReconcileApply, WindowPasses, Types, CamerasOK, On, Resting

LEMMA RestartCount ==
  ASSUME Types, Restart
  PROVE  /\ restarts' = restarts + 1
         /\ unlogged' = unlogged + Cardinality({t \in Handlers : task[t] # Idle})
         /\ Cardinality({t \in Handlers : task[t] # Idle}) \in Nat
  <1>1. IsFiniteSet({t \in Handlers : task[t] # Idle})
    BY ParkingAssumption, FS_Subset
  <1>2. QED
    BY <1>1, FS_CardinalityType DEF Restart

LEMMA NextCases ==
  ASSUME Next
  PROVE  \/ Reconcile \/ Edit \/ SessionDrops \/ Restart
         \/ \E t \in Tasks : \/ Recognise(t) \/ OpenBarrier(t) \/ Lookup(t) \/ WriteLog(t)
                             \/ Pulse(t)
  BY DEF Next, Reconcile, Edit, TaskStep, Pulse

LEMMA TypesStep == Types /\ [Next]_vars => Types'
  <1> SUFFICES ASSUME Types, [Next]_vars PROVE Types'
    OBVIOUS
  <1>0. TasksOK /\ CamerasOK /\ CountersOK
    BY DEF Types
  <1>1. CASE Reconcile
    BY <1>0, <1>1, ReconcileEffect DEF Types, TasksOK, CamerasOK, CountersOK, logVars, faultVars
  <1>2. CASE Edit
    <2>1. deletions' \in Nat
      BY <1>0, <1>2, EditEffect DEF CountersOK
    <2>2. QED
      BY <1>0, <1>2, <2>1, EditEffect DEF Types, TasksOK, CamerasOK, CountersOK, logVars, faultVars
  <1>3. CASE SessionDrops
    <2>1. task' = [task EXCEPT ![Cloud] = Idle] /\ Cloud \in Tasks
      BY <1>3 DEF SessionDrops, Finish, Tasks
    <2>2. TasksOK'
      BY <1>0, <2>1, Moved DEF TaskState
    <2>3. QED
      BY <1>0, <1>3, <2>2
      DEF SessionDrops, Types, CamerasOK, CountersOK, logVars, cameraVars
  <1>4. CASE Restart
    <2>1. TasksOK'
      BY <1>4 DEF Restart, TasksOK, TaskState
    <2>2. CountersOK'
      BY <1>0, <1>4, RestartCount DEF Restart, CountersOK
    <2>3. CamerasOK'
      BY <1>0, <1>4 DEF Restart, CamerasOK, Resting
    <2>4. QED
      BY <2>1, <2>2, <2>3 DEF Types
  <1>5. ASSUME NEW t \in Tasks,
               Recognise(t) \/ OpenBarrier(t) \/ Lookup(t) \/ WriteLog(t) \/ Pulse(t)
        PROVE  Types'
    <2>1. CASE Recognise(t)
      <3>1. TasksOK'
        BY <1>0, <2>1, Moved, RecogniseEffect DEF TaskState
      <3>2. CamerasOK' /\ CountersOK'
        BY <1>0, <2>1, RecogniseEffect DEF CamerasOK, CountersOK, faultVars
      <3>3. QED
        BY <3>1, <3>2 DEF Types
    <2>2. CASE OpenBarrier(t)
      <3>1. TasksOK'
        BY <1>0, <2>2, Moved, OpenBarrierEffect DEF TaskState
      <3>2. CamerasOK' /\ CountersOK'
        BY <1>0, <2>2, OpenBarrierEffect DEF CamerasOK, CountersOK, faultVars, cameraVars
      <3>3. QED
        BY <3>1, <3>2 DEF Types
    <2>3. CASE Lookup(t)
      <3>1. TasksOK'
        BY <1>0, <2>3, Moved, LookupEffect DEF TaskState
      <3>2. CamerasOK' /\ CountersOK'
        BY <1>0, <2>3, LookupEffect DEF CamerasOK, CountersOK, faultVars, cameraVars, logVars
      <3>3. QED
        BY <3>1, <3>2 DEF Types
    <2>4. CASE WriteLog(t)
      <3>1. TasksOK'
        BY <1>0, <2>4, Moved, WriteLogEffect DEF TaskState
      <3>2. CamerasOK' /\ CountersOK'
        BY <1>0, <2>4, WriteLogEffect DEF CamerasOK, CountersOK, faultVars, cameraVars
      <3>3. QED
        BY <3>1, <3>2 DEF Types
    <2>5. CASE Pulse(t)
      <3>1. TasksOK'
        BY <1>0, <2>5, Moved, PulseEffect
      <3>2. CamerasOK' /\ CountersOK'
        BY <1>0, <2>5, PulseEffect DEF CamerasOK, CountersOK, cameraVars, logVars
      <3>3. QED
        BY <3>1, <3>2 DEF Types
    <2>6. QED
      BY <1>5, <2>1, <2>2, <2>3, <2>4, <2>5
  <1>6. CASE UNCHANGED vars
    BY <1>6 DEF vars, cameraVars, logVars, faultVars, Types, TasksOK, CamerasOK, CountersOK
  <1>7. QED
    BY <1>1, <1>2, <1>3, <1>4, <1>5, <1>6, NextCases

LEMMA TypesInvariant == Spec => []Types
  BY TypesInit, TypesStep, PTL DEF Spec

(* The variables of the parking barrier keep their types, for any number   *)
(* of cameras, plates, tasks and faults.                                   *)
THEOREM ParkingTypeCorrect == Spec => []TypeOK
  <1>1. Types => TypeOK
    <2> SUFFICES ASSUME Types PROVE TypeOK
      OBVIOUS
    <2>1. \A t \in Tasks : task[t].at \in {"idle", "lookup", "on", "off", "release", "log"}
      BY Places DEF Types
    <2>2. QED
      BY <2>1 DEF Types, CamerasOK, CountersOK, TypeOK
  <1>2. QED
    BY <1>1, TypesInvariant, PTL

-----------------------------------------------------------------------------
(* The relay                                                               *)

(* A closed relay has a task that will still open it, as long as no more   *)
(* than one request failed; a task on its second attempt has seen one.     *)
Releases(d) == \E t \in Tasks : task[t].at \in {"off", "release"} /\ task[t].camera = d

FewFaults == failed <= 1 /\ refused = 0 /\ drops = 0 /\ restarts = 0

RelayInv ==
  /\ \A t \in Tasks : task[t].at = "release" => failed > 0
  /\ FewFaults => \A d \in Cameras : relay[d] = "closed" => Releases(d)

(* A task that comes to no new second attempt, leaves no relay closed and  *)
(* was not about to release one, disturbs nothing.                         *)
LEMMA RelayUntouched ==
  ASSUME Types, RelayInv, NEW t \in Tasks, NEW s \in TaskState(t),
         task' = [task EXCEPT ![t] = s],
         UNCHANGED <<relay, failed, refused, drops, restarts>>,
         task[t].at \notin {"off", "release"}, s.at # "release"
  PROVE  RelayInv'
  <1>1. task'[t] = s /\ \A u \in Tasks \ {t} : task'[u] = task[u]
    BY Moved DEF Types
  <1>2. \A u \in Tasks : task'[u].at = "release" => failed' > 0
    BY <1>1 DEF RelayInv
  <1>3. \A d \in Cameras : Releases(d) => Releases(d)'
    BY <1>1 DEF Releases
  <1>4. QED
    BY <1>2, <1>3 DEF RelayInv, FewFaults

LEMMA PulseKeepsRelay ==
  ASSUME Types, RelayInv, NEW t \in Tasks, Pulse(t)
  PROVE  RelayInv'
  <1>0. /\ relay \in [Cameras -> {"released", "closed"}]
        /\ failed \in Nat /\ refused \in Nat /\ failed' \in Nat /\ refused' \in Nat
        /\ drops' = drops /\ restarts' = restarts
    BY PulseEffect DEF Types, CamerasOK, CountersOK
  <1>1. /\ task[t].at \in {"on", "off", "release"}
        /\ failed' = failed \/ failed' = failed + 1
        /\ refused' = refused \/ refused' = refused + 1
    BY DEF Pulse, RelayOn, RelayOff, Release, Fails, Refuses, faultVars
  <1>2. PICK e \in Cameras : e = task[t].camera
    BY <1>1, Places DEF Types, Handled, Opening
  <1>3. PICK s \in TaskState(t) : task' = [task EXCEPT ![t] = s]
    BY PulseEffect
  <1>4. task'[t] = s /\ \A u \in Tasks \ {t} : task'[u] = task[u]
    BY <1>3, Moved DEF Types
  <1>5. (* The other tasks still release their cameras. *)
        \A d \in Cameras : Releases(d) /\ d # e => Releases(d)'
    BY <1>2, <1>4 DEF Releases
  <1>6. /\ Pulsed(t) => s.at \notin {"off", "release"}
        /\ \A place \in {"off", "release"} :
             task[t].at \in {"on", "off"} /\ Goto(t, place) =>
               s.at = place /\ s.camera = e
    <2>1. ASSUME Pulsed(t) PROVE s.at \notin {"off", "release"}
      BY <1>1, <1>4, <2>1, PulsedEffect, Moved DEF Types
    <2>2. ASSUME NEW place \in {"off", "release"}, task[t].at \in {"on", "off"}, Goto(t, place)
          PROVE  s.at = place /\ s.camera = e
      BY <1>2, <1>4, <2>2, GotoEffect, Moved DEF Types
    <2>3. QED
      BY <2>1, <2>2
  <1>7. CASE Goto(t, "off") /\ task[t].at = "on" /\ Set(t, "closed") /\ UNCHANGED <<failed, refused>>
    <2>1. s.at = "off" /\ s.camera = e
      BY <1>6, <1>7
    <2>2. Releases(e)'
      BY <1>4, <2>1 DEF Releases
    <2>3. \A d \in Cameras : d # e => relay'[d] = relay[d]
      BY <1>0, <1>2, <1>7 DEF Set
    <2>4. \A u \in Tasks : task'[u].at = "release" => failed' > 0
      BY <1>4, <1>7, <2>1 DEF RelayInv
    <2>5. QED
      BY <1>0, <1>5, <1>7, <2>2, <2>3, <2>4 DEF RelayInv, FewFaults
  <1>8. CASE /\ Goto(t, "release") /\ task[t].at \in {"on", "off"}
             /\ failed' = failed + 1 /\ refused' = refused
             /\ relay' = relay \/ Set(t, "closed") \/ Set(t, "released")
    <2>1. s.at = "release" /\ s.camera = e
      BY <1>6, <1>8
    <2>2. Releases(e)'
      BY <1>4, <2>1 DEF Releases
    <2>3. \A d \in Cameras : d # e => relay'[d] = relay[d]
      BY <1>0, <1>2, <1>8 DEF Set
    <2>4. failed' > 0
      BY <1>0, <1>8
    <2>5. FewFaults' => FewFaults
      BY <1>0, <1>8 DEF FewFaults
    <2>6. QED
      BY <1>5, <2>2, <2>3, <2>4, <2>5 DEF RelayInv
  <1>9. CASE /\ Pulsed(t)
             /\ \/ Set(t, "released") /\ UNCHANGED <<failed, refused>>
                \/ refused' = refused + 1
                \/ task[t].at = "release" /\ failed' = failed + 1
                \/ task[t].at = "on" /\ UNCHANGED <<relay, failed, refused>>
    <2>1. s.at \notin {"off", "release"}
      BY <1>6, <1>9
    <2>2. \A u \in Tasks : task'[u].at = "release" => failed' > 0
      BY <1>0, <1>1, <1>4, <2>1 DEF RelayInv
    <2>3. CASE Set(t, "released") /\ UNCHANGED <<failed, refused>>
      <3>1. /\ relay'[e] = "released"
            /\ \A d \in Cameras : d # e => relay'[d] = relay[d]
        BY <1>0, <1>2, <2>3 DEF Set
      <3>2. QED
        BY <1>0, <1>5, <2>2, <2>3, <3>1 DEF RelayInv, FewFaults
    <2>4. CASE refused' = refused + 1
      BY <1>0, <2>2, <2>4 DEF RelayInv, FewFaults
    <2>5. CASE task[t].at = "release" /\ failed' = failed + 1
      <3>1. failed' > 1
        BY <1>0, <2>5 DEF RelayInv
      <3>2. QED
        BY <1>0, <2>2, <3>1 DEF RelayInv, FewFaults
    <2>6. CASE task[t].at = "on" /\ UNCHANGED <<relay, failed, refused>>
      <3>1. UNCHANGED <<relay, failed, refused, drops, restarts>>
        BY <1>0, <2>6
      <3>2. task[t].at \notin {"off", "release"} /\ s.at # "release"
        BY <2>1, <2>6
      <3>3. QED
        BY <1>3, <3>1, <3>2, RelayUntouched
    <2>7. QED
      BY <1>9, <2>3, <2>4, <2>5, <2>6
  <1>10. QED
    BY <1>7, <1>8, <1>9 DEF Pulse, RelayOn, RelayOff, Release, Fails, Refuses, faultVars

LEMMA RelayStep == Types /\ RelayInv /\ [Next]_vars => RelayInv'
  <1> SUFFICES ASSUME Types, RelayInv, [Next]_vars PROVE RelayInv'
    OBVIOUS
  <1>0. CountersOK /\ TasksOK
    BY DEF Types
  <1>1. CASE UNCHANGED <<task, relay, failed, refused, drops, restarts>>
    BY <1>1 DEF RelayInv, FewFaults, Releases
  <1>2. CASE Reconcile \/ Edit
    BY <1>1, <1>2, ReconcileEffect, EditEffect DEF faultVars
  <1>3. CASE SessionDrops
    <2>1. drops' > 0 /\ failed' = failed
      BY <1>0, <1>3 DEF SessionDrops, CountersOK
    <2>2. task' = [task EXCEPT ![Cloud] = Idle] /\ Cloud \in Tasks
      BY <1>3 DEF SessionDrops, Finish, Tasks
    <2>3. \A u \in Tasks : task'[u] = task[u] \/ task'[u] = Idle
      BY <1>0, <2>2, Moved DEF TaskState
    <2>4. QED
      BY <2>1, <2>3 DEF RelayInv, FewFaults, Idle
  <1>4. CASE Restart
    BY <1>0, <1>4 DEF Restart, RelayInv, FewFaults, CountersOK, Idle
  <1>5. ASSUME NEW t \in Tasks,
               Recognise(t) \/ OpenBarrier(t) \/ Lookup(t) \/ WriteLog(t) \/ Pulse(t)
        PROVE  RelayInv'
    <2>1. CASE Recognise(t)
      <3>1. PICK s \in Looking : task' = [task EXCEPT ![t] = s]
        BY <2>1, RecogniseEffect
      <3>2. t \in Handlers /\ task[t].at = "idle" /\ s.at = "lookup"
        BY <2>1, <3>1, RecogniseEffect DEF Looking, Idle
      <3>3. QED
        BY <2>1, <3>1, <3>2, RelayUntouched, RecogniseEffect DEF TaskState, faultVars
    <2>2. CASE OpenBarrier(t)
      <3>1. PICK s \in Opening : s.at = "on" /\ task' = [task EXCEPT ![t] = s]
        BY <2>2, OpenBarrierEffect
      <3>2. t \notin Handlers /\ task[t].at = "idle"
        BY <2>2, OpenBarrierEffect DEF Idle
      <3>3. QED
        BY <2>2, <3>1, <3>2, RelayUntouched, OpenBarrierEffect DEF TaskState, faultVars
    <2>3. CASE Lookup(t)
      <3>1. PICK s \in Handled : s.at \in {"on", "log"} /\ task' = [task EXCEPT ![t] = s]
        BY <2>3, LookupEffect
      <3>2. QED
        BY <2>3, <3>1, RelayUntouched, LookupEffect DEF TaskState, faultVars
    <2>4. CASE WriteLog(t)
      <3>1. task' = [task EXCEPT ![t] = Idle] /\ Idle \in TaskState(t) /\ Idle.at = "idle"
        BY <2>4, WriteLogEffect DEF TaskState, Idle
      <3>2. task[t].at = "log"
        BY <2>4 DEF WriteLog
      <3>3. QED
        BY <2>4, <3>1, <3>2, RelayUntouched, WriteLogEffect DEF faultVars
    <2>5. CASE Pulse(t)
      BY <2>5, PulseKeepsRelay
    <2>6. QED
      BY <1>5, <2>1, <2>2, <2>3, <2>4, <2>5
  <1>6. QED
    BY <1>1, <1>2, <1>3, <1>4, <1>5, NextCases DEF vars, faultVars

(* No relay stays closed when everything is quiet and at most one request  *)
(* failed, however many pulses overlap on one camera.                      *)
THEOREM RelayAlwaysReleased == Spec => []RelayReleased
  <1>1. Init => RelayInv
    BY DEF Init, RelayInv, Idle
  <1>2. Types /\ RelayInv => RelayReleased
    BY DEF Types, CamerasOK, RelayInv, FewFaults, Releases, RelayReleased, Quiet, Idle
  <1>3. QED
    BY <1>1, <1>2, RelayStep, TypesInvariant, PTL DEF Spec

-----------------------------------------------------------------------------
(* The log                                                                 *)

(* Until a row is deleted, what a handler has read of the tables stands.   *)
Current(t) ==
  task[t] \in Handled =>
    \/ task[t].id = 0
    \/ whitelist[task[t].plate] # None /\ whitelist[task[t].plate].id = task[t].id

RowsInv ==
  deletions = 0 =>
    /\ \A d \in Cameras : camera[d] # "gone"
    /\ \A t \in Handlers : Current(t)

Busy == {t \in Handlers : task[t] # Idle}

(* The rows and the log, seen by a task that moves.                        *)
LEMMA RowsMoved ==
  ASSUME Types, RowsInv, NEW t \in Tasks, NEW s \in TaskState(t),
         task' = [task EXCEPT ![t] = s], UNCHANGED <<camera, whitelist, deletions>>,
         t \in Handlers /\ s \in Handled =>
           \/ s.id = 0
           \/ whitelist[s.plate] # None /\ whitelist[s.plate].id = s.id
           \/ task[t] \in Handled /\ s.plate = task[t].plate /\ s.id = task[t].id
  PROVE  RowsInv'
  <1>1. task'[t] = s /\ \A u \in Tasks \ {t} : task'[u] = task[u]
    BY Moved DEF Types
  <1>2. ASSUME deletions = 0, NEW u \in Handlers PROVE Current(u)'
    <2>1. Current(u) /\ u \in Tasks
      BY <1>2 DEF RowsInv, Tasks
    <2>2. CASE u = t
      BY <1>1, <2>1, <2>2 DEF Current
    <2>3. CASE u # t
      BY <1>1, <2>1, <2>3 DEF Current
    <2>4. QED
      BY <2>2, <2>3
  <1>3. QED
    BY <1>2 DEF RowsInv

LEMMA BusyMoved ==
  ASSUME Types, NEW t \in Tasks, NEW s \in TaskState(t), task' = [task EXCEPT ![t] = s]
  PROVE  /\ Cardinality(Busy) \in Nat
         /\ t \notin Handlers => Busy' = Busy
         /\ task[t] # Idle /\ s # Idle => Busy' = Busy
         /\ t \in Handlers /\ task[t] = Idle /\ s # Idle =>
              Cardinality(Busy') = Cardinality(Busy) + 1
         /\ t \in Handlers /\ task[t] # Idle /\ s = Idle =>
              Cardinality(Busy') = Cardinality(Busy) - 1
  <1>1. task'[t] = s /\ \A u \in Tasks \ {t} : task'[u] = task[u]
    BY Moved DEF Types
  <1>2. IsFiniteSet(Busy) /\ Cardinality(Busy) \in Nat /\ Handlers \subseteq Tasks
    BY ParkingAssumption, FS_Subset, FS_CardinalityType DEF Busy, Tasks
  <1>3. t \notin Handlers => Busy' = Busy
    BY <1>1, <1>2 DEF Busy
  <1>4. task[t] # Idle /\ s # Idle => Busy' = Busy
    BY <1>1, <1>2 DEF Busy
  <1>5. ASSUME t \in Handlers, task[t] = Idle, s # Idle
        PROVE  Cardinality(Busy') = Cardinality(Busy) + 1
    <2>1. Busy' = Busy \cup {t} /\ t \notin Busy
      BY <1>1, <1>2, <1>5 DEF Busy
    <2>2. QED
      BY <1>2, <2>1, FS_AddElement
  <1>6. ASSUME t \in Handlers, task[t] # Idle, s = Idle
        PROVE  Cardinality(Busy') = Cardinality(Busy) - 1
    <2>1. Busy' = Busy \ {t} /\ t \in Busy
      BY <1>1, <1>2, <1>6 DEF Busy
    <2>2. QED
      BY <1>2, <2>1, FS_RemoveElement
  <1>7. QED
    BY <1>2, <1>3, <1>4, <1>5, <1>6

LEMMA IdleStates ==
  /\ \A s \in Looking \cup Handled \cup Opening : s # Idle
  /\ Looking \cap Handled = {}
  /\ Idle \notin Handled
  BY DEF Looking, Handled, Opening, Idle

LEMMA RowsStep == Types /\ RowsInv /\ [Next]_vars => RowsInv'
  <1> SUFFICES ASSUME Types, RowsInv, [Next]_vars PROVE RowsInv'
    OBVIOUS
  <1>0. CountersOK /\ TasksOK
    BY DEF Types
  <1>1. CASE UNCHANGED <<task, camera, whitelist, deletions>>
    BY <1>1 DEF RowsInv, Current
  <1>2. CASE Edit
    <2>1. CASE deletions' = deletions + 1
      BY <1>0, <2>1 DEF RowsInv, CountersOK
    <2>2. CASE deletions' # deletions + 1
      <3>1. /\ task' = task /\ deletions' = deletions
            /\ \A d \in Cameras : camera[d] # "gone" => camera'[d] # "gone"
            /\ \A p \in Plates : whitelist[p] # None =>
                 whitelist'[p] # None /\ whitelist'[p].id = whitelist[p].id
        BY <1>2, <2>2, EditEffect
      <3>2. ASSUME NEW t \in Handlers, Current(t) PROVE Current(t)'
        BY <3>1, <3>2 DEF Current, Handled
      <3>3. QED
        BY <3>1, <3>2 DEF RowsInv
    <2>3. QED
      BY <2>1, <2>2
  <1>3. CASE SessionDrops
    <2>1. /\ task' = [task EXCEPT ![Cloud] = Idle] /\ Cloud \in Tasks /\ Idle \in TaskState(Cloud)
          /\ UNCHANGED <<camera, whitelist, deletions>>
      BY <1>3 DEF SessionDrops, Finish, Tasks, TaskState, cameraVars
    <2>2. QED
      BY <2>1, RowsMoved, IdleStates
  <1>4. CASE Restart
    <2>1. UNCHANGED <<camera, whitelist, deletions>> /\ \A t \in Handlers : task'[t] = Idle
      BY <1>4 DEF Restart, Tasks
    <2>2. QED
      BY <2>1, IdleStates DEF RowsInv, Current
  <1>5. ASSUME NEW t \in Tasks,
               Recognise(t) \/ OpenBarrier(t) \/ Lookup(t) \/ WriteLog(t) \/ Pulse(t)
        PROVE  RowsInv'
    <2>1. CASE Recognise(t)
      <3>1. PICK s \in Looking : task' = [task EXCEPT ![t] = s]
        BY <2>1, RecogniseEffect
      <3>2. t \in Handlers /\ UNCHANGED <<camera, whitelist, deletions>>
        BY <2>1, RecogniseEffect
      <3>3. s \in TaskState(t) /\ s \notin Handled
        BY <3>2, IdleStates DEF TaskState
      <3>4. QED
        BY <3>1, <3>2, <3>3, RowsMoved
    <2>2. CASE OpenBarrier(t)
      <3>1. PICK s \in Opening : task' = [task EXCEPT ![t] = s]
        BY <2>2, OpenBarrierEffect
      <3>2. t \notin Handlers /\ UNCHANGED <<camera, whitelist, deletions>>
        BY <2>2, OpenBarrierEffect DEF cameraVars
      <3>3. s \in TaskState(t)
        BY <3>2 DEF TaskState
      <3>4. QED
        BY <3>1, <3>2, <3>3, RowsMoved
    <2>3. CASE Lookup(t)
      <3>1. PICK s \in Handled :
              /\ task' = [task EXCEPT ![t] = s]
              /\ s.id = 0 \/ (whitelist[s.plate] # None /\ whitelist[s.plate].id = s.id)
        BY <2>3, LookupEffect
      <3>2. t \in Handlers /\ UNCHANGED <<camera, whitelist, deletions>>
        BY <2>3, LookupEffect DEF cameraVars
      <3>3. s \in TaskState(t)
        BY <3>2 DEF TaskState
      <3>4. QED
        BY <3>1, <3>2, <3>3, RowsMoved
    <2>4. CASE WriteLog(t)
      <3>1. task' = [task EXCEPT ![t] = Idle] /\ Idle \in TaskState(t)
            /\ UNCHANGED <<camera, whitelist, deletions>>
        BY <2>4, WriteLogEffect DEF TaskState, cameraVars
      <3>2. QED
        BY <3>1, RowsMoved, IdleStates
    <2>5. CASE Pulse(t)
      <3>1. PICK s \in TaskState(t) :
              /\ task' = [task EXCEPT ![t] = s]
              /\ t \in Handlers => s.plate = task[t].plate /\ s.id = task[t].id
        BY <2>5, PulseEffect
      <3>2. t \in Handlers => task[t] \in Handled
        BY <1>0, <2>5, Places DEF Pulse, RelayOn, RelayOff, Release
      <3>3. UNCHANGED <<camera, whitelist, deletions>>
        BY <2>5, PulseEffect DEF cameraVars
      <3>4. QED
        BY <3>1, <3>2, <3>3, RowsMoved
    <2>6. QED
      BY <1>5, <2>1, <2>2, <2>3, <2>4, <2>5
  <1>6. QED
    BY <1>1, <1>2, <1>3, <1>4, <1>5, NextCases, ReconcileEffect DEF vars, cameraVars

Balance == handled = logged + unlogged + Cardinality(Busy)
Excused == unlogged > 0 => deletions > 0 \/ restarts > 0

LEMMA AccountsStep ==
  Types /\ RowsInv /\ Balance /\ Excused /\ [Next]_vars => Balance' /\ Excused'
  <1> SUFFICES ASSUME Types, RowsInv, Balance, Excused, [Next]_vars PROVE Balance' /\ Excused'
    OBVIOUS
  <1>0. CountersOK /\ TasksOK
    BY DEF Types
  <1>a. Cardinality(Busy) \in Nat
    BY ParkingAssumption, FS_Subset, FS_CardinalityType DEF Busy
  <1>1. CASE UNCHANGED <<task, handled, logged, unlogged, deletions, restarts>>
    BY <1>1 DEF Balance, Excused, Busy
  <1>2. CASE Edit
    <2>1. /\ UNCHANGED <<task, handled, logged, unlogged, restarts>>
          /\ deletions' = deletions \/ deletions' = deletions + 1
      BY <1>2, EditEffect DEF logVars, faultVars
    <2>2. QED
      BY <1>0, <2>1 DEF Balance, Excused, Busy, CountersOK
  <1>3. CASE SessionDrops
    <2>1. /\ task' = [task EXCEPT ![Cloud] = Idle] /\ Cloud \in Tasks /\ Idle \in TaskState(Cloud)
          /\ UNCHANGED <<handled, logged, unlogged, deletions, restarts>>
      BY <1>3 DEF SessionDrops, Finish, Tasks, TaskState, logVars
    <2>2. Busy' = Busy
      BY <2>1, BusyMoved, ParkingAssumption
    <2>3. QED
      BY <2>1, <2>2 DEF Balance, Excused
  <1>4. CASE Restart
    <2>1. /\ restarts' = restarts + 1 /\ unlogged' = unlogged + Cardinality(Busy)
          /\ handled' = handled /\ logged' = logged
      BY <1>4, RestartCount DEF Busy, Restart
    <2>2. Busy' = {}
      BY <1>4 DEF Restart, Busy, Tasks
    <2>3. Cardinality({}) = 0
      BY FS_EmptySet
    <2>4. Balance'
      BY <1>0, <1>a, <2>1, <2>2, <2>3 DEF Balance, CountersOK
    <2>5. Excused'
      BY <1>0, <2>1 DEF Excused, CountersOK
    <2>6. QED
      BY <2>4, <2>5
  <1>5. ASSUME NEW t \in Tasks,
               Recognise(t) \/ OpenBarrier(t) \/ Lookup(t) \/ WriteLog(t) \/ Pulse(t)
        PROVE  Balance' /\ Excused'
    <2>1. CASE Recognise(t)
      <3>1. PICK s \in Looking : task' = [task EXCEPT ![t] = s]
        BY <2>1, RecogniseEffect
      <3>2. /\ t \in Handlers /\ task[t] = Idle /\ s # Idle /\ s \in TaskState(t)
            /\ handled' = handled + 1
            /\ UNCHANGED <<logged, unlogged, deletions, restarts>>
        BY <2>1, RecogniseEffect, IdleStates DEF TaskState, faultVars
      <3>3. Cardinality(Busy') = Cardinality(Busy) + 1
        BY <3>1, <3>2, BusyMoved
      <3>4. QED
        BY <1>0, <1>a, <3>2, <3>3 DEF Balance, Excused, CountersOK
    <2>2. CASE OpenBarrier(t)
      <3>1. PICK s \in Opening : task' = [task EXCEPT ![t] = s]
        BY <2>2, OpenBarrierEffect
      <3>2. /\ t \notin Handlers /\ s \in TaskState(t)
            /\ UNCHANGED <<handled, logged, unlogged, deletions, restarts>>
        BY <2>2, OpenBarrierEffect DEF TaskState, faultVars
      <3>3. Busy' = Busy
        BY <3>1, <3>2, BusyMoved
      <3>4. QED
        BY <3>2, <3>3 DEF Balance, Excused
    <2>3. CASE Lookup(t)
      <3>1. PICK s \in Handled : task' = [task EXCEPT ![t] = s]
        BY <2>3, LookupEffect
      <3>2. /\ t \in Handlers /\ task[t] # Idle /\ s # Idle /\ s \in TaskState(t)
            /\ UNCHANGED <<handled, logged, unlogged, deletions, restarts>>
        BY <2>3, LookupEffect, IdleStates DEF TaskState, faultVars, logVars, Idle
      <3>3. Busy' = Busy
        BY <3>1, <3>2, BusyMoved
      <3>4. QED
        BY <3>2, <3>3 DEF Balance, Excused
    <2>4. CASE WriteLog(t)
      <3>1. /\ task' = [task EXCEPT ![t] = Idle] /\ Idle \in TaskState(t)
            /\ t \in Handlers /\ task[t] \in Handled /\ task[t] # Idle
            /\ UNCHANGED <<handled, deletions, restarts>>
        BY <2>4, WriteLogEffect, IdleStates DEF TaskState, faultVars
      <3>2. Cardinality(Busy') = Cardinality(Busy) - 1
        BY <3>1, BusyMoved
      <3>3. CASE logged' = logged + 1 /\ unlogged' = unlogged
        BY <1>0, <1>a, <3>1, <3>2, <3>3 DEF Balance, Excused, CountersOK
      <3>4. CASE /\ unlogged' = unlogged + 1 /\ logged' = logged
                 /\ \/ camera[task[t].camera] = "gone"
                    \/ /\ task[t].id # 0
                       /\ \/ whitelist[task[t].plate] = None
                          \/ whitelist[task[t].plate].id # task[t].id
        <4>1. Balance'
          BY <1>0, <1>a, <3>1, <3>2, <3>4 DEF Balance, CountersOK
        <4>2. deletions # 0
          BY <3>1, <3>4 DEF RowsInv, Current, Handled
        <4>3. QED
          BY <1>0, <3>1, <4>1, <4>2 DEF Excused, CountersOK
      <3>5. QED
        BY <2>4, <3>3, <3>4, WriteLogEffect
    <2>5. CASE Pulse(t)
      <3>1. PICK s \in TaskState(t) :
              /\ task' = [task EXCEPT ![t] = s]
              /\ t \in Handlers => s \in Handled
        BY <2>5, PulseEffect
      <3>2. /\ task[t] # Idle
            /\ UNCHANGED <<handled, logged, unlogged, deletions, restarts>>
        BY <2>5, PulseEffect DEF logVars
      <3>3. Busy' = Busy
        BY <3>1, <3>2, BusyMoved, IdleStates
      <3>4. QED
        BY <3>2, <3>3 DEF Balance, Excused
    <2>6. QED
      BY <1>5, <2>1, <2>2, <2>3, <2>4, <2>5
  <1>6. QED
    BY <1>1, <1>2, <1>3, <1>4, <1>5, NextCases, ReconcileEffect DEF vars, logVars, faultVars

(* Every pass that was handled is logged or still being handled, unless a  *)
(* row was deleted or the backend restarted while it was on its way.       *)
THEOREM PassesAlwaysAccounted == Spec => []PassesAccounted
  <1>1. Init => RowsInv /\ Balance /\ Excused
    <2> SUFFICES ASSUME Init PROVE RowsInv /\ Balance /\ Excused
      OBVIOUS
    <2>1. Busy = {} /\ \A t \in Handlers : task[t] = Idle
      BY DEF Init, Busy, Tasks
    <2>2. QED
      BY <2>1, FS_EmptySet, IdleStates DEF Init, RowsInv, Current, Balance, Excused
  <1>2. Balance /\ Excused => PassesAccounted
    BY DEF Balance, Excused, PassesAccounted, Busy
  <1>3. QED
    BY <1>1, <1>2, RowsStep, AccountsStep, TypesInvariant, PTL DEF Spec

-----------------------------------------------------------------------------
(* Devices: types.                                                         *)

Kept    == Passwords \cup {NoValue, "yes", "no"}
NewText == [new : [Devs -> Value], pw : Passwords]
Modes   == {"no", "share", "update", "all"}

StepsAt(kind) ==
  CASE kind \in {"create", "update"} -> {"flush", "commit", "emit"}
    [] kind = "delete"               -> {"flush", "commit"}
    [] kind = "test"                 -> {"probe", "flush", "commit"}
    [] kind = "sip"                  -> {"open", "write", "reload", "flush", "commit"}

Request ==
  [at : {"probe", "open", "write", "reload", "flush", "commit", "emit"}, kind : Kinds,
   dev : Devs, val : Kept \cup NewText, read : Kept, held : Modes, alone : BOOLEAN]

Stores(kind) == kind \in {"create", "update", "sip"}

(* What a request holds, at each of its steps.                             *)
RequestOK(q) ==
  /\ q.at \in StepsAt(q.kind)
  /\ q.dev \in used
  /\ IF q.at = "write" THEN q.val \in NewText ELSE q.val \in Kept
  /\ Stores(q.kind) /\ q.at # "write" => q.val \in Passwords \cup {NoValue}
  /\ q.kind = "sip" /\ q.at # "write" => q.val \in Passwords
  /\ q.kind = "test" /\ q.at # "probe" => q.val \in {"yes", "no"}
  /\ q.at # "commit" => q.held = "no"

RequestsOK ==
  /\ req \in [Requests -> Request \cup {NoRequest}]
  /\ \A r \in Requests, q \in Request : req[r] = q => RequestOK(q)

RowsOK ==
  /\ exists \subseteq used /\ used \subseteq Devs
  /\ password \in [Devs -> Passwords \cup {NoValue}]
  /\ online \in [Devs -> {"yes", "no"}]
  /\ file \in [Devs -> Value] /\ loaded \in [Devs -> Value]
  /\ half \in BOOLEAN /\ wiped \in BOOLEAN /\ hung \in BOOLEAN
  /\ told \in [Devs -> Passwords \cup {NoValue}]
  /\ \A d \in Devs \ used : told[d] = NoValue
  /\ reach \subseteq Devs

PollOK ==
  /\ poll = [at |-> poll.at, todo |-> poll.todo, read |-> poll.read, dev |-> poll.dev,
             val |-> poll.val, wrote |-> poll.wrote]
  /\ poll.todo \subseteq used
  /\ poll.at = "flush" => poll.dev \in used /\ poll.val \in {"yes", "no"}
  /\ DOMAIN poll.wrote \subseteq used
  /\ \A d \in DOMAIN poll.wrote : poll.wrote[d].val \in {"yes", "no", NoValue}

HandlerOK ==
  /\ handler = [todo |-> handler.todo, held |-> handler.held, renamed |-> handler.renamed]
  /\ handler.todo \subseteq used /\ handler.held \subseteq used

-----------------------------------------------------------------------------
(* Devices: what an applied password rests on.                             *)

InWork(r)  == req[r] # NoRequest
Editing(r) == InWork(r) /\ EditsPassword(req[r].kind)

(* One sip-apply at a time is in _apply_local.                             *)
OneWriter ==
  \A r, q \in Requests :
    req[r].at \in {"write", "reload"} /\ req[q].at \in {"write", "reload"} => r = q

(* Nobody knows of a device before its row is committed.                   *)
NewAlone ==
  \A r \in Requests :
    InWork(r) /\ req[r].kind = "create" /\ req[r].at \in {"flush", "commit"} =>
      /\ req[r].dev \notin exists
      /\ told[req[r].dev] = NoValue
      /\ \A q \in Requests \ {r} : req[q].dev # req[r].dev

(* A request that is alone is the only one that edits the password of its  *)
(* device, so that the row still has the one it read.                      *)
AloneEdits ==
  \A r \in Requests :
    Editing(r) /\ req[r].alone =>
      /\ \A q \in Requests \ {r} : Editing(q) => req[q].dev # req[r].dev
      /\ req[r].kind = "sip" => req[r].read = password[req[r].dev]

(* The account of d has password w: in the file, or in the text that is    *)
(* about to be written to it; and in Asterisk.                             *)
InText(d, w) ==
  /\ (\A r \in Requests : req[r].at # "write") => file[d] = w
  /\ \A r \in Requests : req[r].at = "write" => req[r].val.new[d] = w

InAsterisk(d, w) == loaded[d] = w \/ half

ToldAgrees ==
  \A d \in Devs, w \in Passwords \ Special : told[d] = w =>
    password[d] = w /\ InText(d, w) /\ InAsterisk(d, w)

(* What a sip-apply has written and loaded so far.                         *)
Progress(q) ==
  /\ q.at = "write" /\ q.val.pw \notin Special => q.val.new[q.dev] = q.val.pw
  /\ q.at = "reload" /\ q.val \notin Special => file[q.dev] = q.val
  /\ q.at \in {"flush", "commit"} /\ q.alone /\ q.val \notin Special =>
       InText(q.dev, q.val) /\ InAsterisk(q.dev, q.val)

ApplyProgress ==
  \A r \in Requests, q \in Request : req[r] = q /\ q.kind = "sip" => Progress(q)

DevicesInv ==
  /\ RowsOK /\ RequestsOK /\ PollOK /\ HandlerOK
  /\ OneWriter /\ NewAlone /\ AloneEdits
  /\ ~wiped => ToldAgrees /\ ApplyProgress

-----------------------------------------------------------------------------
(* Devices: what a step does to the requests.                              *)

(* Request r becomes q, and no other request changes.                      *)
Turns(r, q) ==
  /\ req' \in [Requests -> Request \cup {NoRequest}]
  /\ req'[r] = q
  /\ \A s \in Requests \ {r} : req'[s] = req[s]

(* A request that goes on is about the same thing.                         *)
Same(q, p) ==
  q.kind = p.kind /\ q.dev = p.dev /\ q.read = p.read /\ q.alone = p.alone

LEMMA RequestNotNone ==
  ASSUME NEW q \in Request
  PROVE  /\ q # NoRequest
         /\ q.dev \in Devs /\ q.dev # NoValue /\ q.kind \in Kinds /\ q.at # "idle"
         /\ q.val \in Kept \cup NewText /\ q.read \in Kept /\ q.held \in Modes
         /\ q.alone \in BOOLEAN
  <1>1. /\ q.dev \in Devs /\ q.kind \in Kinds /\ q.at # "idle"
        /\ q.val \in Kept \cup NewText /\ q.read \in Kept /\ q.held \in Modes
        /\ q.alone \in BOOLEAN
    BY DEF Request
  <1>2. q.dev # NoValue
    BY <1>1, DevicesAssumption
  <1>3. q # NoRequest
    BY <1>2 DEF NoRequest
  <1>4. QED
    BY <1>1, <1>2, <1>3

LEMMA BusyRequest ==
  ASSUME RequestsOK, NEW r \in Requests, req[r].at # "idle"
  PROVE  req[r] \in Request /\ RequestOK(req[r])
  <1>1. req[r] \in Request \cup {NoRequest}
    BY DEF RequestsOK
  <1>2. req[r] # NoRequest
    BY DEF NoRequest
  <1>3. QED
    BY <1>1, <1>2 DEF RequestsOK

(* The step after each step of a route.                                    *)
LEMMA AfterFacts ==
  ASSUME NEW r \in Requests, req[r].kind \in Kinds, req[r].at \in StepsAt(req[r].kind)
  PROVE  /\ After(r) \in StepsAt(req[r].kind) \cup {"idle"}
         /\ req[r].at = "probe" => After(r) = "flush"
         /\ req[r].at = "open" => After(r) = "write"
         /\ req[r].at = "write" => After(r) = "reload"
         /\ req[r].at = "reload" => After(r) = "flush"
         /\ req[r].at = "flush" => After(r) = "commit"
         /\ req[r].at = "commit" => After(r) \in {"emit", "idle"}
         /\ req[r].at = "commit" /\ req[r].kind \notin {"create", "update"} => After(r) = "idle"
         /\ req[r].at = "emit" => After(r) = "idle"
  <1> DEFINE s == Steps(req[r].kind)
             i == CHOOSE j \in DOMAIN s : s[j] = req[r].at
  <1>1. CASE req[r].kind \in {"create", "update"}
    <2>1. s = <<"flush", "commit", "emit", "idle">>
      BY <1>1 DEF Steps
    <2>2. req[r].at \in {"flush", "commit", "emit"}
      BY <1>1 DEF StepsAt
    <2>3. i \in DOMAIN s /\ s[i] = req[r].at
      <3>1. \E j \in DOMAIN s : s[j] = req[r].at
        BY <2>1, <2>2
      <3>2. QED
        BY <3>1
    <2>4. i \in 1..4 /\ s[i] = req[r].at /\ After(r) = s[1 + i]
      BY <2>1, <2>3 DEF After
    <2> HIDE DEF i, s
    <2>5. /\ req[r].at = "flush" => i = 1
          /\ req[r].at = "commit" => i = 2
          /\ req[r].at = "emit" => i = 3
      BY <2>1, <2>4
    <2>6. QED
      BY <1>1, <2>1, <2>2, <2>4, <2>5 DEF StepsAt
  <1>2. CASE req[r].kind = "delete"
    <2>1. s = <<"flush", "commit", "idle">>
      BY <1>2 DEF Steps
    <2>2. req[r].at \in {"flush", "commit"}
      BY <1>2 DEF StepsAt
    <2>3. i \in DOMAIN s /\ s[i] = req[r].at
      <3>1. \E j \in DOMAIN s : s[j] = req[r].at
        BY <2>1, <2>2
      <3>2. QED
        BY <3>1
    <2>4. i \in 1..3 /\ s[i] = req[r].at /\ After(r) = s[1 + i]
      BY <2>1, <2>3 DEF After
    <2> HIDE DEF i, s
    <2>5. /\ req[r].at = "flush" => i = 1
          /\ req[r].at = "commit" => i = 2
      BY <2>1, <2>4
    <2>6. QED
      BY <1>2, <2>1, <2>2, <2>4, <2>5 DEF StepsAt
  <1>3. CASE req[r].kind = "test"
    <2>1. s = <<"probe", "flush", "commit", "idle">>
      BY <1>3 DEF Steps
    <2>2. req[r].at \in {"probe", "flush", "commit"}
      BY <1>3 DEF StepsAt
    <2>3. i \in DOMAIN s /\ s[i] = req[r].at
      <3>1. \E j \in DOMAIN s : s[j] = req[r].at
        BY <2>1, <2>2
      <3>2. QED
        BY <3>1
    <2>4. i \in 1..4 /\ s[i] = req[r].at /\ After(r) = s[1 + i]
      BY <2>1, <2>3 DEF After
    <2> HIDE DEF i, s
    <2>5. /\ req[r].at = "probe" => i = 1
          /\ req[r].at = "flush" => i = 2
          /\ req[r].at = "commit" => i = 3
      BY <2>1, <2>4
    <2>6. QED
      BY <1>3, <2>1, <2>2, <2>4, <2>5 DEF StepsAt
  <1>4. CASE req[r].kind = "sip"
    <2>1. s = <<"open", "write", "reload", "flush", "commit", "idle">>
      BY <1>4 DEF Steps
    <2>2. req[r].at \in {"open", "write", "reload", "flush", "commit"}
      BY <1>4 DEF StepsAt
    <2>3. i \in DOMAIN s /\ s[i] = req[r].at
      <3>1. \E j \in DOMAIN s : s[j] = req[r].at
        BY <2>1, <2>2
      <3>2. QED
        BY <3>1
    <2>4. i \in 1..6 /\ s[i] = req[r].at /\ After(r) = s[1 + i]
      BY <2>1, <2>3 DEF After
    <2> HIDE DEF i, s
    <2>5. /\ req[r].at = "open" => i = 1
          /\ req[r].at = "write" => i = 2
          /\ req[r].at = "reload" => i = 3
          /\ req[r].at = "flush" => i = 4
          /\ req[r].at = "commit" => i = 5
      BY <2>1, <2>4
    <2>6. QED
      BY <1>4, <2>1, <2>2, <2>4, <2>5 DEF StepsAt
  <1>5. QED
    BY <1>1, <1>2, <1>3, <1>4 DEF Kinds

LEMMA StepTypes ==
  ASSUME NEW kind \in Kinds
  PROVE  /\ StepsAt(kind) \subseteq {"probe", "open", "write", "reload", "flush", "commit", "emit"}
         /\ "emit" \in StepsAt(kind) => kind \in {"create", "update"}
         /\ "probe" \in StepsAt(kind) => kind = "test"
         /\ "open" \in StepsAt(kind) \/ "write" \in StepsAt(kind) \/ "reload" \in StepsAt(kind)
              => kind = "sip"
         /\ Steps(kind)[1] \in StepsAt(kind) \ {"write", "reload", "commit", "emit"}
         /\ kind = "sip" => Steps(kind)[1] = "open"
         /\ kind = "test" => Steps(kind)[1] = "probe"
  BY DEF StepsAt, Steps, Kinds

(* A step goes on with request r, or ends it.                              *)
LEMMA GoOnFacts ==
  ASSUME RequestsOK, NEW r \in Requests, req[r].at # "idle",
         NEW rec \in Request, Same(rec, req[r]), GoOn(r, rec)
  PROVE  \/ After(r) = "idle" /\ Turns(r, NoRequest)
         \/ \E q \in Request :
              /\ Turns(r, q) /\ Same(q, req[r])
              /\ q.at = After(r) /\ q.val = rec.val /\ q.held = rec.held
  <1>1. req[r] \in Request /\ RequestOK(req[r])
    BY BusyRequest
  <1>2. After(r) \in StepsAt(req[r].kind) \cup {"idle"}
    BY <1>1, AfterFacts, RequestNotNone DEF RequestOK
  <1>3. req \in [Requests -> Request \cup {NoRequest}]
    BY DEF RequestsOK
  <1>4. CASE After(r) = "idle"
    <2>1. req' = [req EXCEPT ![r] = NoRequest]
      BY <1>4 DEF GoOn
    <2>2. QED
      BY <1>3, <1>4, <2>1 DEF Turns
  <1>5. CASE After(r) # "idle"
    <2> DEFINE q == [rec EXCEPT !.at = After(r)]
    <2>1. req' = [req EXCEPT ![r] = q]
      BY <1>5 DEF GoOn
    <2>2. After(r) \in {"probe", "open", "write", "reload", "flush", "commit", "emit"}
      BY <1>1, <1>2, <1>5, StepTypes, RequestNotNone
    <2>3. q \in Request
      BY <2>2 DEF Request
    <2>4. /\ q.at = After(r) /\ q.val = rec.val /\ q.held = rec.held
          /\ q.kind = rec.kind /\ q.dev = rec.dev /\ q.read = rec.read /\ q.alone = rec.alone
      BY DEF Request
    <2>5. Turns(r, q)
      BY <1>3, <2>1, <2>3 DEF Turns
    <2>6. QED
      BY <2>3, <2>4, <2>5 DEF Same
  <1>6. QED
    BY <1>4, <1>5

LEMMA EndsFacts ==
  ASSUME RequestsOK, NEW r \in Requests, Ends(r)
  PROVE  Turns(r, NoRequest)
  BY DEF RequestsOK, Ends, Turns

LEMMA TurnTypes ==
  ASSUME RequestsOK, used \subseteq used', NEW r \in Requests, NEW q, Turns(r, q),
         q \in Request => RequestOK(q)'
  PROVE  RequestsOK'
  <1>1. ASSUME NEW s \in Requests, NEW p \in Request, req'[s] = p
        PROVE  RequestOK(p)'
    <2>1. CASE s = r
      BY <1>1, <2>1 DEF Turns
    <2>2. CASE s # r
      <3>1. RequestOK(p)
        BY <1>1, <2>2 DEF Turns, RequestsOK
      <3>2. QED
        BY <3>1 DEF RequestOK
    <2>3. QED
      BY <2>1, <2>2
  <1>2. QED
    BY <1>1 DEF Turns, RequestsOK

(* What request r turns into: nothing, or itself at a later step.          *)
Advances(r, q) ==
  \/ q = NoRequest
  \/ /\ q \in Request /\ Same(q, req[r]) /\ req[r] \in Request
     /\ q.kind = "create" /\ q.at \in {"flush", "commit"} => req[r].at \in {"flush", "commit"}

LEMMA OneWriterKept ==
  ASSUME OneWriter, NEW r \in Requests, NEW q, Turns(r, q),
         q.at \in {"write", "reload"} => LoopFree \/ req[r].at \in {"write", "reload"}
  PROVE  OneWriter'
  <1>1. SUFFICES ASSUME NEW s \in Requests, NEW t \in Requests,
                        req'[s].at \in {"write", "reload"}, req'[t].at \in {"write", "reload"}
                 PROVE  s = t
    BY DEF OneWriter
  <1>2. \A u \in Requests \ {r} : req'[u] = req[u]
    BY DEF Turns
  <1>3. req'[r] = q
    BY DEF Turns
  <1>4. QED
    BY <1>1, <1>2, <1>3 DEF OneWriter, LoopFree

LEMMA NewAloneKept ==
  ASSUME NewAlone, RequestsOK, NEW r \in Requests, NEW q, Turns(r, q), Advances(r, q),
         \A d \in exists' \ exists : d = req[r].dev /\ q.at = "emit",
         \A d \in Devs : \/ told'[d] \in {told[d], NoValue}
                         \/ d = req[r].dev /\ req[r].kind = "sip"
  PROVE  NewAlone'
  <1>1. SUFFICES ASSUME NEW s \in Requests, req'[s] # NoRequest, req'[s].kind = "create",
                        req'[s].at \in {"flush", "commit"}
                 PROVE  /\ req'[s].dev \notin exists'
                        /\ told'[req'[s].dev] = NoValue
                        /\ \A t \in Requests \ {s} : req'[t].dev # req'[s].dev
    BY DEF NewAlone, InWork
  <1>2. /\ req'[r] = q /\ \A u \in Requests \ {r} : req'[u] = req[u]
        /\ req' \in [Requests -> Request \cup {NoRequest}]
    BY DEF Turns
  <1>3. /\ req[s] # NoRequest /\ req[s].kind = "create" /\ req[s].at \in {"flush", "commit"}
        /\ req'[s].dev = req[s].dev /\ req[s].dev \in Devs
    BY <1>1, <1>2, RequestNotNone DEF Advances, Same
  <1>4. /\ req[s].dev \notin exists
        /\ told[req[s].dev] = NoValue
        /\ \A t \in Requests \ {s} : req[t].dev # req[s].dev
    BY <1>3 DEF NewAlone, InWork
  <1>5. \A t \in Requests \ {s} : req'[t].dev # req'[s].dev
    <2>1. ASSUME NEW t \in Requests \ {s}
          PROVE  req'[t].dev = req[t].dev \/ req'[t].dev = NoValue
      BY <1>2 DEF Advances, Same, NoRequest
    <2>2. QED
      BY <1>3, <1>4, <2>1, DevicesAssumption
  <1>6. s # r => req[r].dev # req[s].dev
    BY <1>4
  <1>7. s = r => req[s].kind # "sip" /\ q.at # "emit"
    BY <1>1, <1>2, <1>3
  <1>8. QED
    BY <1>3, <1>4, <1>5, <1>6, <1>7

LEMMA AloneEditsKept ==
  ASSUME NewAlone, AloneEdits, RequestsOK, NEW r \in Requests, NEW q, Turns(r, q), Advances(r, q),
         \/ password' = password
         \/ /\ \A d \in Devs \ {req[r].dev} : password'[d] = password[d]
            /\ req[r] \in Request /\ req[r].at = "commit" /\ Stores(req[r].kind)
            /\ req[r].kind = "sip" => q = NoRequest
  PROVE  AloneEdits'
  <1>1. /\ req'[r] = q /\ \A u \in Requests \ {r} : req'[u] = req[u]
        /\ req' \in [Requests -> Request \cup {NoRequest}]
    BY DEF Turns
  <1>2. ASSUME NEW s \in Requests, req'[s] # NoRequest
        PROVE  req[s] # NoRequest /\ Same(req'[s], req[s]) /\ req[s].dev \in Devs
    <2>1. CASE s = r
      BY <1>1, <1>2, <2>1, RequestNotNone DEF Advances
    <2>2. CASE s # r
      <3>1. req[s] \in Request
        BY <1>1, <1>2, <2>2 DEF RequestsOK
      <3>2. QED
        BY <1>1, <1>2, <2>2, <3>1, RequestNotNone DEF Same
    <2>3. QED
      BY <2>1, <2>2
  <1>3. SUFFICES ASSUME NEW s \in Requests, Editing(s)', req'[s].alone
                 PROVE  /\ \A t \in Requests \ {s} : Editing(t)' => req'[t].dev # req'[s].dev
                        /\ req'[s].kind = "sip" => req'[s].read = password'[req'[s].dev]
    BY DEF AloneEdits
  <1>4. \A t \in Requests : Editing(t)' => Editing(t) /\ Same(req'[t], req[t])
    BY <1>2 DEF Editing, InWork, EditsPassword, Same
  <1>5. /\ Editing(s) /\ Same(req'[s], req[s]) /\ req[s].alone /\ req[s].dev \in Devs
    BY <1>2, <1>3, <1>4 DEF Same, Editing, InWork
  <1>6. /\ \A t \in Requests \ {s} : Editing(t) => req[t].dev # req[s].dev
        /\ req[s].kind = "sip" => req[s].read = password[req[s].dev]
    BY <1>5 DEF AloneEdits
  <1>7. \A t \in Requests \ {s} : Editing(t)' => req'[t].dev # req'[s].dev
    BY <1>4, <1>5, <1>6 DEF Same
  <1>8. ASSUME req'[s].kind = "sip"
        PROVE  password'[req[s].dev] = password[req[s].dev]
    <2>1. SUFFICES ASSUME req[r] \in Request, req[r].at = "commit", Stores(req[r].kind),
                          req[r].kind = "sip" => q = NoRequest,
                          req[r].dev = req[s].dev
                   PROVE  FALSE
      BY <1>5
    <2>2. s # r
      BY <1>1, <1>3, <1>5, <1>8, <2>1 DEF Same, Editing, InWork
    <2>3. req[r] # NoRequest
      BY <2>1, RequestNotNone
    <2>4. CASE req[r].kind = "create"
      BY <1>5, <2>1, <2>2, <2>3, <2>4 DEF NewAlone, InWork
    <2>5. CASE req[r].kind # "create"
      BY <1>6, <2>1, <2>2, <2>3, <2>5 DEF Editing, InWork, EditsPassword, Stores
    <2>6. QED
      BY <2>4, <2>5
  <1>9. QED
    BY <1>5, <1>6, <1>7, <1>8 DEF Same

-----------------------------------------------------------------------------
(* Devices: steps while nobody writes to pjsip.conf.                       *)

LEMMA ConfStill ==
  ASSUME UNCHANGED <<file, loaded, half>>,
         \A s \in Requests : req[s].at # "write" /\ req'[s].at # "write",
         NEW d, NEW w
  PROVE  (InText(d, w)' <=> InText(d, w)) /\ (InAsterisk(d, w)' <=> InAsterisk(d, w))
  BY DEF InText, InAsterisk

LEMMA ProgressKept ==
  ASSUME ApplyProgress, UNCHANGED <<file, loaded, half>>, LoopFree,
         NEW r \in Requests, NEW q, Turns(r, q), Advances(r, q), q.at \notin {"write", "reload"},
         q \in Request /\ q.kind = "sip" /\ q.at \in {"flush", "commit"} =>
           req[r].at \in {"flush", "commit"} /\ q.val = req[r].val
  PROVE  ApplyProgress'
  <1>1. req'[r] = q /\ \A u \in Requests \ {r} : req'[u] = req[u]
    BY DEF Turns
  <1>2. \A s \in Requests : req[s].at # "write" /\ req'[s].at # "write"
    BY <1>1 DEF LoopFree
  <1>3. SUFFICES ASSUME NEW s \in Requests, NEW p \in Request, req'[s] = p, p.kind = "sip"
                 PROVE  Progress(p)'
    BY DEF ApplyProgress
  <1>4. p.at \notin {"write", "reload"}
    BY <1>1, <1>3 DEF LoopFree
  <1>5. SUFFICES ASSUME p.at \in {"flush", "commit"}, p.alone, p.val \notin Special
                 PROVE  InText(p.dev, p.val)' /\ InAsterisk(p.dev, p.val)'
    BY <1>4 DEF Progress
  <1>6. InText(p.dev, p.val) /\ InAsterisk(p.dev, p.val)
    <2>1. CASE s = r
      <3>1. /\ req[r] \in Request /\ req[r].kind = "sip" /\ req[r].dev = p.dev /\ req[r].alone
            /\ req[r].at \in {"flush", "commit"} /\ req[r].val = p.val
        BY <1>1, <1>3, <1>5, <2>1, RequestNotNone DEF Advances, Same
      <3>2. Progress(req[r])
        BY <3>1 DEF ApplyProgress
      <3>3. QED
        BY <1>5, <3>1, <3>2 DEF Progress
    <2>2. CASE s # r
      <3>1. Progress(p)
        BY <1>1, <1>3, <2>2 DEF ApplyProgress
      <3>2. QED
        BY <1>5, <3>1 DEF Progress
    <2>3. QED
      BY <2>1, <2>2
  <1>7. QED
    BY <1>2, <1>6, ConfStill

(* A step of one request that changes neither rows nor files.              *)
LEMMA StillStep ==
  ASSUME DevicesInv, LoopFree, NEW r \in Requests, NEW q, Turns(r, q), Advances(r, q),
         UNCHANGED <<rowVars, confVars, poll, handler, reach, told>>,
         q \in Request => RequestOK(q),
         q.at \notin {"write", "reload"},
         q \in Request /\ q.kind = "sip" /\ q.at \in {"flush", "commit"} =>
           req[r].at \in {"flush", "commit"} /\ q.val = req[r].val
  PROVE  DevicesInv'
  <1>1. UNCHANGED <<exists, used, password, online, file, loaded, half, wiped, hung, poll, handler,
                    reach, told>>
    BY DEF rowVars, confVars
  <1>2. RowsOK' /\ PollOK' /\ HandlerOK'
    BY <1>1 DEF DevicesInv, RowsOK, PollOK, HandlerOK
  <1>3. RequestsOK'
    BY <1>1, TurnTypes DEF DevicesInv, RequestOK
  <1>4. OneWriter'
    BY OneWriterKept DEF DevicesInv
  <1>5. NewAlone'
    BY <1>1, NewAloneKept DEF DevicesInv
  <1>6. AloneEdits'
    BY <1>1, AloneEditsKept DEF DevicesInv
  <1>7. ASSUME ~wiped
        PROVE  ToldAgrees' /\ ApplyProgress'
    <2>1. ToldAgrees /\ ApplyProgress
      BY <1>7 DEF DevicesInv
    <2>2. ApplyProgress'
      BY <1>1, <2>1, ProgressKept
    <2>3. \A s \in Requests : req[s].at # "write" /\ req'[s].at # "write"
      BY DEF Turns, LoopFree
    <2>4. ToldAgrees'
      BY <1>1, <2>1, <2>3, ConfStill DEF ToldAgrees
    <2>5. QED
      BY <2>2, <2>4
  <1>8. QED
    BY <1>1, <1>2, <1>3, <1>4, <1>5, <1>6, <1>7 DEF DevicesInv

(* A step that is about neither requests nor passwords.                    *)
LEMMA AsideStep ==
  ASSUME DevicesInv, UNCHANGED <<req, exists, used, password, confVars, told>>,
         online' \in [Devs -> {"yes", "no"}], reach' \subseteq Devs, PollOK', HandlerOK'
  PROVE  DevicesInv'
  <1>1. UNCHANGED <<file, loaded, half, wiped, hung>>
    BY DEF confVars
  <1>2. RowsOK' /\ RequestsOK'
    BY <1>1 DEF DevicesInv, RowsOK, RequestsOK, RequestOK
  <1>3. OneWriter' /\ NewAlone' /\ AloneEdits'
    BY DEF DevicesInv, OneWriter, NewAlone, AloneEdits, InWork, Editing
  <1>4. (ToldAgrees => ToldAgrees') /\ (ApplyProgress => ApplyProgress')
    BY <1>1 DEF ToldAgrees, ApplyProgress, Progress, InText, InAsterisk
  <1>5. QED
    BY <1>1, <1>2, <1>3, <1>4 DEF DevicesInv

LEMMA ProbeOK ==
  ASSUME DevicesInv, NEW r \in Requests, Probe(r)
  PROVE  DevicesInv'
  <1>1. LoopFree /\ req[r].at = "probe" /\ req[r].at # "idle" /\ RequestsOK
        /\ UNCHANGED <<rowVars, confVars, poll, handler, reach, told>>
    BY DEF Probe, DevicesInv
  <1>2. req[r] \in Request /\ RequestOK(req[r])
    BY <1>1, BusyRequest
  <1> DEFINE w   == IF req[r].dev \in reach THEN "yes" ELSE "no"
             rec == [req[r] EXCEPT !.val = w]
  <1>3. rec \in Request /\ Same(rec, req[r]) /\ rec.val = w /\ rec.held = req[r].held
    BY <1>2 DEF Request, Same, Kept
  <1>4. req[r].kind = "test" /\ After(r) = "flush"
    BY <1>1, <1>2, AfterFacts, StepTypes, RequestNotNone DEF RequestOK
  <1>5. PICK q \in Request : /\ Turns(r, q) /\ Same(q, req[r])
                             /\ q.at = "flush" /\ q.val = w /\ q.held = req[r].held
    <2>1. GoOn(r, rec) /\ "flush" # "idle"
      BY DEF Probe
    <2> HIDE DEF rec, w
    <2>2. QED
      BY <1>1, <1>3, <1>4, <2>1, GoOnFacts
  <1>6. RequestOK(q)
    BY <1>1, <1>2, <1>4, <1>5 DEF RequestOK, Same, StepsAt, Kept, Stores
  <1>7. Advances(r, q)
    BY <1>2, <1>4, <1>5 DEF Advances, Same
  <1>8. QED
    BY <1>1, <1>4, <1>5, <1>6, <1>7, StillStep DEF Same

LEMMA FlushOK ==
  ASSUME DevicesInv, NEW r \in Requests, Flush(r)
  PROVE  DevicesInv'
  <1>1. LoopFree /\ req[r].at = "flush" /\ req[r].at # "idle" /\ RequestsOK
        /\ UNCHANGED <<rowVars, confVars, poll, handler, reach, told>>
    BY DEF Flush, DevicesInv
  <1>2. req[r] \in Request /\ RequestOK(req[r])
    BY <1>1, BusyRequest
  <1>3. CASE Ends(r)
    <2>1. Turns(r, NoRequest)
      BY <1>1, <1>3, EndsFacts
    <2>2. NoRequest \notin Request /\ NoRequest.at = "idle"
      BY RequestNotNone DEF NoRequest
    <2>3. QED
      BY <1>1, <2>1, <2>2, StillStep DEF Advances
  <1>4. CASE \E m \in Modes : GoOn(r, [req[r] EXCEPT !.held = m])
    <2>1. PICK m \in Modes : GoOn(r, [req[r] EXCEPT !.held = m])
      BY <1>4
    <2> DEFINE rec == [req[r] EXCEPT !.held = m]
    <2>2. rec \in Request /\ Same(rec, req[r]) /\ rec.val = req[r].val /\ rec.held = m
      BY <1>2 DEF Request, Same
    <2>3. After(r) = "commit"
      BY <1>1, <1>2, AfterFacts, RequestNotNone DEF RequestOK
    <2>4. PICK q \in Request : /\ Turns(r, q) /\ Same(q, req[r])
                               /\ q.at = "commit" /\ q.val = req[r].val /\ q.held = m
      <3>1. GoOn(r, rec) /\ "commit" # "idle"
        BY <2>1
      <3> HIDE DEF rec
      <3>2. QED
        BY <1>1, <2>2, <2>3, <3>1, GoOnFacts
    <2>5. "commit" \in StepsAt(req[r].kind)
      BY <1>2, RequestNotNone DEF StepsAt, Kinds
    <2>6. RequestOK(q)
      BY <1>1, <1>2, <2>4, <2>5 DEF RequestOK, Same
    <2>7. Advances(r, q)
      BY <1>1, <1>2, <2>4 DEF Advances
    <2>8. QED
      BY <1>1, <2>4, <2>6, <2>7, StillStep
  <1>5. ModeOf(r) \in Modes
    BY DEF ModeOf, TestMode, Modes
  <1>6. QED
    BY <1>3, <1>4, <1>5 DEF Flush, Modes

LEMMA EmitOK ==
  ASSUME DevicesInv, NEW r \in Requests, Emit(r)
  PROVE  DevicesInv'
  <1>1. LoopFree /\ req[r].at = "emit" /\ req[r].at # "idle" /\ RequestsOK
        /\ GoOn(r, req[r]) /\ UNCHANGED <<rowVars, confVars, poll, handler, reach, told>>
    BY DEF Emit, DevicesInv
  <1>2. req[r] \in Request /\ RequestOK(req[r])
    BY <1>1, BusyRequest
  <1>3. After(r) = "idle"
    BY <1>1, <1>2, AfterFacts, RequestNotNone DEF RequestOK
  <1>4. Turns(r, NoRequest)
    BY <1>1, <1>2, <1>3, GoOnFacts, RequestNotNone DEF Same
  <1>5. NoRequest \notin Request /\ NoRequest.at = "idle"
    BY RequestNotNone DEF NoRequest
  <1>6. QED
    BY <1>1, <1>4, <1>5, StillStep DEF Advances

LEMMA CommitRows ==
  ASSUME DevicesInv, NEW r \in Requests, Commit(r), req[r] \in Request, RequestOK(req[r])
  PROVE  /\ RowsOK'
         /\ \A d \in Devs \ {req[r].dev} : password'[d] = password[d] /\ told'[d] = told[d]
         /\ Stores(req[r].kind) /\ req[r].val # req[r].read =>
              password'[req[r].dev] = req[r].val
         /\ ~Stores(req[r].kind) => password' = password /\ told' = told
         /\ req[r].kind = "sip" /\ req[r].val = req[r].read => password' = password
         /\ req[r].kind = "create" => told' = told
         /\ req[r].kind = "update" \/ (req[r].kind = "sip" /\ ~req[r].alone) =>
              told'[req[r].dev] = NoValue
         /\ req[r].kind = "sip" /\ req[r].alone => told'[req[r].dev] = req[r].val
         /\ \A d \in exists' \ exists : d = req[r].dev /\ req[r].kind = "create"
  <1> DEFINE d == req[r].dev
             w == req[r].val
  <1>1. /\ d \in Devs /\ d \in used /\ req[r].kind \in Kinds /\ req[r].at = "commit"
        /\ UNCHANGED <<used, confVars, reach>>
        /\ Stores(req[r].kind) => w \in Passwords \cup {NoValue}
        /\ req[r].kind = "test" => w \in {"yes", "no"}
    BY RequestNotNone DEF Commit, RequestOK
  <1>2. RowsOK
    BY DEF DevicesInv
  <1>3. exists' = CASE req[r].kind = "create" -> exists \cup {d}
                    [] req[r].kind = "delete" -> exists \ {d}
                    [] OTHER                  -> exists
    BY DEF Commit
  <1>4. exists' \subseteq used /\ \A e \in exists' \ exists : e = d /\ req[r].kind = "create"
    BY <1>1, <1>2, <1>3 DEF RowsOK
  <1>5. \/ password' = password
        \/ Stores(req[r].kind) /\ password' = [password EXCEPT ![d] = w]
    BY DEF Commit, Stores
  <1>6. /\ Stores(req[r].kind) /\ w # req[r].read => password' = [password EXCEPT ![d] = w]
        /\ ~Stores(req[r].kind) => password' = password
        /\ req[r].kind = "sip" /\ w = req[r].read => password' = password
    BY DEF Commit, Stores
  <1>7. online' = online \/ (online' = [online EXCEPT ![d] = w] /\ w \in {"yes", "no"})
    BY <1>1 DEF Commit
  <1>8. told' = IF ~EditsPassword(req[r].kind) THEN told
                ELSE [told EXCEPT ![d] = IF req[r].kind = "sip" /\ req[r].alone
                                         THEN w ELSE NoValue]
    BY DEF Commit
  <1>9. password' \in [Devs -> Passwords \cup {NoValue}]
    BY <1>1, <1>2, <1>5 DEF RowsOK
  <1>10. online' \in [Devs -> {"yes", "no"}]
    BY <1>1, <1>2, <1>7 DEF RowsOK
  <1>11. told' \in [Devs -> Passwords \cup {NoValue}]
    BY <1>1, <1>2, <1>8 DEF RowsOK, Stores, EditsPassword
  <1>12. \A e \in Devs \ {d} : password'[e] = password[e] /\ told'[e] = told[e]
    BY <1>1, <1>2, <1>5, <1>8 DEF RowsOK, EditsPassword
  <1>13. RowsOK'
    <2>1. \A e \in Devs \ used' : told'[e] = NoValue
      BY <1>1, <1>2, <1>12 DEF RowsOK
    <2>2. QED
      BY <1>1, <1>2, <1>4, <1>9, <1>10, <1>11, <2>1 DEF RowsOK, confVars
  <1>14. Stores(req[r].kind) /\ w # req[r].read => password'[d] = w
    BY <1>1, <1>2, <1>6 DEF RowsOK
  <1>15. /\ ~Stores(req[r].kind) => told' = told
         /\ req[r].kind = "create" => told' = told
    BY <1>8 DEF Stores, EditsPassword
  <1>16. /\ req[r].kind = "update" \/ (req[r].kind = "sip" /\ ~req[r].alone) => told'[d] = NoValue
         /\ req[r].kind = "sip" /\ req[r].alone => told'[d] = w
    <2>1. CASE req[r].kind = "sip" /\ req[r].alone
      <3>1. told' = [told EXCEPT ![d] = w]
        BY <1>8, <2>1 DEF EditsPassword
      <3>2. QED
        BY <1>1, <1>2, <2>1, <3>1 DEF RowsOK
    <2>2. CASE req[r].kind \in {"update", "sip"} /\ ~(req[r].kind = "sip" /\ req[r].alone)
      <3>1. told' = [told EXCEPT ![d] = NoValue]
        BY <1>8, <2>2 DEF EditsPassword
      <3>2. QED
        BY <1>1, <1>2, <2>2, <3>1 DEF RowsOK
    <2>3. QED
      BY <2>1, <2>2
  <1>17. QED
    BY <1>4, <1>6, <1>12, <1>13, <1>14, <1>15, <1>16

LEMMA CommitOK ==
  ASSUME DevicesInv, NEW r \in Requests, Commit(r)
  PROVE  DevicesInv'
  <1>1. LoopFree /\ req[r].at = "commit" /\ req[r].at # "idle" /\ RequestsOK
        /\ UNCHANGED <<used, confVars, poll, handler, reach>>
    BY DEF Commit, DevicesInv
  <1>2. req[r] \in Request /\ RequestOK(req[r])
    BY <1>1, BusyRequest
  <1> DEFINE d == req[r].dev
             w == req[r].val
  <1>3. d \in Devs /\ req[r].kind \in Kinds /\ req[r] # NoRequest
    BY <1>2, RequestNotNone
  <1>4. PICK q : /\ Turns(r, q)
                 /\ \/ q = NoRequest
                    \/ /\ q \in Request /\ Same(q, req[r]) /\ req[r].kind \in {"create", "update"}
                       /\ q.at = "emit" /\ q.val = w /\ q.held = "no"
    <2> DEFINE rec == [req[r] EXCEPT !.held = "no"]
    <2>1. rec \in Request /\ Same(rec, req[r]) /\ rec.val = w /\ rec.held = "no"
      BY <1>2 DEF Request, Same, Modes
    <2>2. GoOn(r, rec)
      BY DEF Commit
    <2>3. After(r) \in {"emit", "idle"}
          /\ (req[r].kind \notin {"create", "update"} => After(r) = "idle") /\ "emit" # "idle"
      BY <1>1, <1>2, <1>3, AfterFacts DEF RequestOK
    <2> HIDE DEF rec
    <2>4. CASE After(r) = "idle" /\ Turns(r, NoRequest)
      BY <2>4
    <2>5. CASE \E q \in Request : /\ Turns(r, q) /\ Same(q, req[r])
                                  /\ q.at = After(r) /\ q.val = rec.val /\ q.held = rec.held
      <3>1. PICK q \in Request : /\ Turns(r, q) /\ Same(q, req[r])
                                 /\ q.at = After(r) /\ q.val = rec.val /\ q.held = rec.held
        BY <2>5
      <3>2. q.at = "emit" /\ req[r].kind \in {"create", "update"}
        BY <2>3, <3>1, RequestNotNone
      <3>3. QED
        BY <2>1, <3>1, <3>2
    <2>6. QED
      BY <1>1, <2>1, <2>2, <2>4, <2>5, GoOnFacts
  <1>5. /\ q \in Request => q.at = "emit"
        /\ q.at \notin {"write", "reload", "flush", "commit"}
        /\ Advances(r, q)
        /\ req[r].kind = "create" \/ q = NoRequest \/ req[r].kind = "update"
    BY <1>2, <1>4, RequestNotNone DEF Advances, NoRequest
  <1>6. /\ RowsOK'
        /\ \A e \in Devs \ {d} : password'[e] = password[e] /\ told'[e] = told[e]
        /\ Stores(req[r].kind) /\ w # req[r].read => password'[d] = w
        /\ ~Stores(req[r].kind) => password' = password /\ told' = told
        /\ req[r].kind = "sip" /\ w = req[r].read => password' = password
        /\ req[r].kind = "create" => told' = told
        /\ req[r].kind = "update" \/ (req[r].kind = "sip" /\ ~req[r].alone) => told'[d] = NoValue
        /\ req[r].kind = "sip" /\ req[r].alone => told'[d] = w
        /\ \A e \in exists' \ exists : e = d /\ req[r].kind = "create"
    BY <1>2, CommitRows
  <1>7. q \in Request => RequestOK(q)'
    BY <1>1, <1>2, <1>4, <1>5, RequestNotNone DEF RequestOK, Same, StepsAt, Stores
  <1>8. RequestsOK'
    BY <1>1, <1>4, <1>7, TurnTypes
  <1>9. PollOK' /\ HandlerOK'
    BY <1>1 DEF DevicesInv, PollOK, HandlerOK
  <1>10. OneWriter'
    BY <1>4, <1>5, OneWriterKept DEF DevicesInv
  <1>11. NewAlone'
    <2>1. CASE req[r].kind = "create"
      <3>1. /\ d \notin exists /\ told[d] = NoValue
            /\ \A t \in Requests \ {r} : req[t].dev # d
        BY <1>1, <1>3, <2>1 DEF DevicesInv, NewAlone, InWork
      <3>2. SUFFICES ASSUME NEW s \in Requests, req'[s] # NoRequest, req'[s].kind = "create",
                            req'[s].at \in {"flush", "commit"}
                     PROVE  /\ req'[s].dev \notin exists'
                            /\ told'[req'[s].dev] = NoValue
                            /\ \A t \in Requests \ {s} : req'[t].dev # req'[s].dev
        BY DEF NewAlone, InWork
      <3>3. s # r /\ req'[s] = req[s]
        BY <1>4, <1>5, <3>2 DEF Turns
      <3>4. /\ req[s].dev \notin exists
            /\ told[req[s].dev] = NoValue
            /\ \A t \in Requests \ {s} : req[t].dev # req[s].dev
        BY <3>2, <3>3 DEF DevicesInv, NewAlone, InWork
      <3>5. req[s].dev # d
        BY <3>1, <3>3
      <3>6. req'[r].dev \in {d, NoValue} /\ req[s].dev # NoValue
        BY <1>4, <3>2, <3>3, RequestNotNone DEF Same, NoRequest, Turns, RequestsOK, DevicesInv
      <3>7. \A t \in Requests \ {s} : req'[t].dev # req'[s].dev
        BY <3>3, <3>4, <3>5, <3>6, <1>4 DEF Turns
      <3>8. QED
        BY <1>6, <2>1, <3>3, <3>4, <3>5, <3>7
    <2>2. CASE req[r].kind # "create"
      <3>1. \A e \in Devs : \/ told'[e] \in {told[e], NoValue}
                            \/ e = req[r].dev /\ req[r].kind = "sip"
        BY <1>3, <1>6, <2>2 DEF Kinds, Stores
      <3>2. \A e \in exists' \ exists : e = req[r].dev /\ q.at = "emit"
        BY <1>6, <2>2
      <3>3. QED
        BY <1>1, <1>4, <1>5, <3>1, <3>2, NewAloneKept DEF DevicesInv
    <2>3. QED
      BY <2>1, <2>2
  <1>12. AloneEdits'
    <2>1. \/ password' = password
          \/ /\ \A e \in Devs \ {req[r].dev} : password'[e] = password[e]
             /\ req[r] \in Request /\ req[r].at = "commit" /\ Stores(req[r].kind)
             /\ req[r].kind = "sip" => q = NoRequest
      BY <1>1, <1>2, <1>5, <1>6
    <2>2. QED
      BY <1>1, <1>4, <1>5, <2>1, AloneEditsKept DEF DevicesInv
  <1>13. ASSUME ~wiped
         PROVE  ToldAgrees' /\ ApplyProgress'
    <2>1. ToldAgrees /\ ApplyProgress /\ UNCHANGED <<file, loaded, half>>
      BY <1>1, <1>13 DEF DevicesInv, confVars
    <2>2. ApplyProgress'
      BY <1>1, <1>4, <1>5, <2>1, ProgressKept
    <2>3. \A s \in Requests : req[s].at # "write" /\ req'[s].at # "write"
      BY <1>1, <1>4, <1>5 DEF Turns, LoopFree
    <2>4. SUFFICES ASSUME NEW e \in Devs, NEW v \in Passwords \ Special, told'[e] = v
                   PROVE  password'[e] = v /\ InText(e, v)' /\ InAsterisk(e, v)'
      BY <2>2 DEF ToldAgrees
    <2>5. password'[e] = v /\ InText(e, v) /\ InAsterisk(e, v)
      <3>1. CASE e # d \/ ~Stores(req[r].kind)
        BY <1>6, <2>1, <2>4, <3>1 DEF ToldAgrees
      <3>2. v # NoValue
        BY DevicesAssumption
      <3>3. CASE e = d /\ req[r].kind = "create"
        BY <1>1, <1>3, <1>6, <2>4, <3>2, <3>3 DEF DevicesInv, NewAlone, InWork
      <3>4. CASE e = d /\ req[r].kind = "update"
        BY <1>6, <2>4, <3>2, <3>4
      <3>5. CASE e = d /\ req[r].kind = "sip"
        <4>1. req[r].alone /\ v = w
          BY <1>6, <2>4, <3>2, <3>5
        <4>2. InText(d, w) /\ InAsterisk(d, w)
          BY <1>1, <1>2, <2>1, <3>5, <4>1 DEF ApplyProgress, Progress
        <4>3. req[r].read = password[d]
          BY <1>3, <3>5, <4>1 DEF DevicesInv, AloneEdits, Editing, InWork, EditsPassword
        <4>4. password'[d] = w
          BY <1>6, <3>5, <4>3 DEF Stores
        <4>5. QED
          BY <3>5, <4>1, <4>2, <4>4
      <3>6. QED
        BY <1>3, <3>1, <3>3, <3>4, <3>5 DEF Stores
    <2>6. QED
      BY <2>1, <2>3, <2>5, ConfStill
  <1>14. QED
    BY <1>1, <1>6, <1>8, <1>9, <1>10, <1>11, <1>12, <1>13 DEF DevicesInv, confVars

LEMMA BeginRequests ==
  ASSUME DevicesInv, NEW r \in Requests, NEW kind \in Kinds, NEW d \in Devs,
         NEW w \in Values(kind, d), Begin(r, kind, d, w)
  PROVE  \E p \in Request :
           /\ RequestOK(p)' /\ p.kind = kind /\ p.dev = d /\ p.at = Steps(kind)[1]
           /\ p.read = IF kind = "test" THEN online[d] ELSE password[d]
           /\ req' \in [Requests -> Request \cup {NoRequest}]
           /\ req'[r] = p
           /\ p.alone => \A s \in Requests \ {r} : Editing(s) => req[s].dev # d
           /\ \A s \in Requests \ {r} :
                \/ req'[s] = req[s] /\ (EditsPassword(kind) /\ Editing(s) => req[s].dev # d)
                \/ /\ req[s] \in Request /\ req'[s] \in Request
                   /\ req'[s] = [req[s] EXCEPT !.alone = FALSE]
  <1> DEFINE others == {s \in Requests \ {r} : req[s].dev = d /\ EditsPassword(req[s].kind)}
             p == [at |-> Steps(kind)[1], kind |-> kind, dev |-> d, val |-> w,
                   read |-> IF kind = "test" THEN online[d] ELSE password[d],
                   held |-> "no", alone |-> others = {}]
  <1>1. req' = [s \in Requests |->
                  IF s = r THEN p
                  ELSE IF s \in others /\ EditsPassword(kind) THEN [req[s] EXCEPT !.alone = FALSE]
                  ELSE req[s]]
    BY DEF Begin
  <1>2. req \in [Requests -> Request \cup {NoRequest}] /\ RowsOK
    BY DEF DevicesInv, RequestsOK
  <1>3. /\ w \in Passwords \cup {NoValue}
        /\ kind = "sip" => w \in Passwords
        /\ ~Stores(kind) => w = NoValue
    BY DEF Values, Begin, Stores
  <1>4. (IF kind = "test" THEN online[d] ELSE password[d]) \in Kept
    BY <1>2 DEF RowsOK, Kept
  <1>5. Steps(kind)[1] \in {"flush", "probe", "open"} /\ Steps(kind)[1] \in StepsAt(kind)
    BY StepTypes
  <1> DEFINE a == Steps(kind)[1]
             b == IF kind = "test" THEN online[d] ELSE password[d]
  <1>6. p \in Request
    <2>1. a \in {"flush", "probe", "open"} /\ b \in Kept /\ w \in Kept /\ (others = {}) \in BOOLEAN
      BY <1>3, <1>4, <1>5 DEF Kept
    <2> HIDE DEF a, b, others
    <2>2. [at |-> a, kind |-> kind, dev |-> d, val |-> w, read |-> b, held |-> "no",
           alone |-> others = {}] \in Request
      BY <2>1 DEF Request, Modes
    <2>3. QED
      BY <2>2 DEF a, b
  <1>7. /\ p.kind = kind /\ p.dev = d /\ p.at = a /\ p.read = b /\ p.val = w /\ p.held = "no"
        /\ p.alone <=> others = {}
    OBVIOUS
  <1>8. d \in used'
    BY DEF Begin
  <1>9. PICK q \in Request : q = p
    BY <1>6
  <1>10. \A s \in Requests \ {r} : Editing(s) /\ req[s].dev = d => s \in others
    BY DEF Editing
  <1>11. \A s \in others : req[s] \in Request
    <2>1. SUFFICES ASSUME NEW s \in others
                   PROVE  req[s] # NoRequest
      BY <1>2
    <2>2. QED
      BY DevicesAssumption DEF NoRequest
  <1>12. ASSUME NEW s \in others
         PROVE  [req[s] EXCEPT !.alone = FALSE] \in Request
    BY <1>11, <1>12 DEF Request
  <1>13. req' \in [Requests -> Request \cup {NoRequest}]
    <2> HIDE DEF p, others
    <2>1. QED
      BY <1>1, <1>2, <1>6, <1>12
  <1>14. ASSUME NEW s \in Requests \ {r}
         PROVE  \/ req'[s] = req[s] /\ (EditsPassword(kind) /\ Editing(s) => req[s].dev # d)
                \/ /\ req[s] \in Request /\ req'[s] \in Request
                   /\ req'[s] = [req[s] EXCEPT !.alone = FALSE]
    <2> HIDE DEF p, others
    <2>1. QED
      BY <1>1, <1>10, <1>11, <1>12, <1>14
  <1>15. p.alone => \A s \in Requests \ {r} : Editing(s) => req[s].dev # d
    <2> HIDE DEF p
    <2>1. QED
      BY <1>7, <1>10
  <1>16. req'[r] = p
    <2> HIDE DEF p, others
    <2>1. QED
      BY <1>1
  <1> HIDE DEF p, others
  <1>17. /\ q.kind = kind /\ q.dev = d /\ q.at = a /\ q.read = b /\ q.val = w /\ q.held = "no"
         /\ q.alone => \A s \in Requests \ {r} : Editing(s) => req[s].dev # d
         /\ req'[r] = q
    BY <1>7, <1>9, <1>15, <1>16
  <1>18. RequestOK(q)'
    <2>1. kind = "test" => a = "probe"
      BY StepTypes
    <2> HIDE DEF a, b
    <2>2. a \in {"flush", "probe", "open"} /\ a \in StepsAt(kind)
      BY <1>5 DEF a
    <2>3. QED
      BY <1>3, <1>8, <1>17, <2>1, <2>2 DEF RequestOK, Stores, Kept
  <1>19. QED
    BY <1>13, <1>14, <1>17, <1>18

LEMMA BeginOK ==
  ASSUME DevicesInv, NEW r \in Requests, NEW kind \in Kinds, NEW d \in Devs,
         NEW w \in Values(kind, d), Begin(r, kind, d, w)
  PROVE  DevicesInv'
  <1>1. /\ LoopFree /\ used' = used \cup {d}
        /\ IF kind = "create" THEN d \notin used ELSE d \in exists
        /\ UNCHANGED <<exists, password, online, file, loaded, half, wiped, hung, poll, handler,
                       reach, told>>
    BY DEF Begin, confVars
  <1>2. RowsOK' /\ PollOK' /\ HandlerOK'
    BY <1>1 DEF DevicesInv, RowsOK, PollOK, HandlerOK
  <1>3. PICK p \in Request :
           /\ RequestOK(p)' /\ p.kind = kind /\ p.dev = d /\ p.at = Steps(kind)[1]
           /\ p.read = IF kind = "test" THEN online[d] ELSE password[d]
           /\ req' \in [Requests -> Request \cup {NoRequest}]
           /\ req'[r] = p
           /\ p.alone => \A s \in Requests \ {r} : Editing(s) => req[s].dev # d
           /\ \A s \in Requests \ {r} :
                \/ req'[s] = req[s] /\ (EditsPassword(kind) /\ Editing(s) => req[s].dev # d)
                \/ /\ req[s] \in Request /\ req'[s] \in Request
                   /\ req'[s] = [req[s] EXCEPT !.alone = FALSE]
    BY BeginRequests
  (* Other requests stay, but for "alone".                                 *)
  <1>4. ASSUME NEW s \in Requests \ {r}
        PROVE  /\ req'[s].at = req[s].at /\ req'[s].kind = req[s].kind /\ req'[s].dev = req[s].dev
               /\ req'[s].val = req[s].val /\ req'[s].read = req[s].read
               /\ req'[s].held = req[s].held
               /\ req'[s].alone => req[s].alone
               /\ InWork(s)' <=> InWork(s)
               /\ req'[s] \in Request <=> req[s] \in Request
               /\ EditsPassword(kind) /\ Editing(s)' /\ req'[s].alone => req[s].dev # d
    <2>1. CASE req'[s] = req[s] /\ (EditsPassword(kind) /\ Editing(s) => req[s].dev # d)
      BY <2>1 DEF InWork, Editing
    <2>2. CASE /\ req[s] \in Request /\ req'[s] \in Request
               /\ req'[s] = [req[s] EXCEPT !.alone = FALSE]
      <3>1. /\ req'[s].at = req[s].at /\ req'[s].kind = req[s].kind /\ req'[s].dev = req[s].dev
            /\ req'[s].val = req[s].val /\ req'[s].read = req[s].read
            /\ req'[s].held = req[s].held /\ req'[s].alone = FALSE
        BY <2>2 DEF Request
      <3>2. QED
        BY <2>2, <3>1, RequestNotNone DEF InWork
    <2>3. QED
      BY <1>3, <1>4, <2>1, <2>2
  <1>5. p.at \notin {"write", "reload", "commit", "emit"} /\ (kind = "sip" => p.at = "open")
    BY <1>3, StepTypes
  <1>6. RequestsOK'
    <2>1. ASSUME NEW s \in Requests, NEW q \in Request, req'[s] = q
          PROVE  RequestOK(q)'
      <3>1. CASE s = r
        BY <1>3, <2>1, <3>1
      <3>2. CASE s # r
        <4>1. req[s] \in Request /\ RequestOK(req[s])
          BY <1>4, <2>1, <3>2 DEF DevicesInv, RequestsOK
        <4>2. QED
          BY <1>1, <1>4, <2>1, <3>2, <4>1 DEF RequestOK
      <3>3. QED
        BY <3>1, <3>2
    <2>2. QED
      BY <1>3, <2>1 DEF RequestsOK
  <1>7. OneWriter'
    BY <1>1, <1>3, <1>4, <1>5 DEF OneWriter, LoopFree
  <1>8. \A s \in Requests : InWork(s) => req[s].dev \in used
    BY DEF InWork, DevicesInv, RequestsOK, RequestOK
  <1>9. \A s \in Requests \ {r} : InWork(s) \/ req[s].dev = NoValue
    BY DEF InWork, NoRequest
  <1>10. NewAlone'
    <2>1. SUFFICES ASSUME NEW s \in Requests, InWork(s)', req'[s].kind = "create",
                          req'[s].at \in {"flush", "commit"}
                   PROVE  /\ req'[s].dev \notin exists'
                          /\ told'[req'[s].dev] = NoValue
                          /\ \A t \in Requests \ {s} : req'[t].dev # req'[s].dev
      BY DEF NewAlone
    <2>2. CASE s = r
      <3>1. d \notin used /\ req'[s].dev = d
        BY <1>1, <1>3, <2>1, <2>2
      <3>2. d \notin exists /\ told[d] = NoValue
        BY <3>1 DEF DevicesInv, RowsOK
      <3>3. \A t \in Requests \ {s} : req[t].dev # d
        BY <1>8, <1>9, <2>2, <3>1, DevicesAssumption
      <3>4. QED
        BY <1>1, <1>4, <2>2, <3>1, <3>2, <3>3
    <2>3. CASE s # r
      <3>1. /\ req[s].dev \notin exists
            /\ told[req[s].dev] = NoValue
            /\ \A t \in Requests \ {s} : req[t].dev # req[s].dev
        BY <1>4, <2>1, <2>3 DEF DevicesInv, NewAlone
      <3>2. req[s].dev # d
        BY <1>1, <1>4, <1>8, <2>1, <2>3, <3>1
      <3>3. QED
        BY <1>1, <1>3, <1>4, <2>3, <3>1, <3>2
    <2>4. QED
      BY <2>2, <2>3
  <1>11. AloneEdits'
    <2>1. SUFFICES ASSUME NEW s \in Requests, Editing(s)', req'[s].alone
                   PROVE  /\ \A t \in Requests \ {s} : Editing(t)' => req'[t].dev # req'[s].dev
                          /\ req'[s].kind = "sip" => req'[s].read = password'[req'[s].dev]
      BY DEF AloneEdits
    <2>2. CASE s = r
      <3>1. \A t \in Requests \ {r} : Editing(t)' => Editing(t)
        BY <1>4 DEF Editing
      <3>2. QED
        BY <1>1, <1>3, <1>4, <2>1, <2>2, <3>1
    <2>3. CASE s # r
      <3>1. Editing(s) /\ req[s].alone
        BY <1>4, <2>1, <2>3 DEF Editing
      <3>2. /\ \A t \in Requests \ {s} : Editing(t) => req[t].dev # req[s].dev
            /\ req[s].kind = "sip" => req[s].read = password[req[s].dev]
        BY <3>1 DEF DevicesInv, AloneEdits
      <3>3. ASSUME NEW t \in Requests \ {s}, Editing(t)'
            PROVE  req'[t].dev # req'[s].dev
        <4>1. CASE t = r
          BY <1>3, <1>4, <2>1, <2>3, <3>3, <4>1 DEF Editing
        <4>2. CASE t # r
          <5>1. Editing(t)
            BY <1>4, <3>3, <4>2 DEF Editing
          <5>2. QED
            BY <1>4, <2>3, <3>2, <4>2, <5>1
        <4>3. QED
          BY <4>1, <4>2
      <3>4. QED
        BY <1>1, <1>4, <2>3, <3>2, <3>3
    <2>4. QED
      BY <2>2, <2>3
  <1>12. \A s \in Requests : req[s].at # "write" /\ req'[s].at # "write"
    BY <1>1, <1>3, <1>4, <1>5 DEF LoopFree
  <1>13. ASSUME ~wiped
         PROVE  ToldAgrees' /\ ApplyProgress'
    <2>1. ToldAgrees /\ ApplyProgress
      BY <1>13 DEF DevicesInv
    <2>2. ToldAgrees'
      BY <1>1, <1>12, <2>1, ConfStill DEF ToldAgrees
    <2>3. SUFFICES ASSUME NEW s \in Requests, NEW q \in Request, req'[s] = q, q.kind = "sip",
                          q.at \in {"flush", "commit"}, q.alone, q.val \notin Special
                   PROVE  InText(q.dev, q.val)' /\ InAsterisk(q.dev, q.val)'
      BY <1>1, <1>3, <1>4, <1>5, <2>2 DEF ApplyProgress, Progress, LoopFree
    <2>4. s # r
      BY <1>3, <1>5, <2>3
    <2>5. Progress(req[s]) /\ req[s].kind = "sip"
      BY <1>4, <2>1, <2>3, <2>4 DEF ApplyProgress
    <2>6. InText(q.dev, q.val) /\ InAsterisk(q.dev, q.val)
      BY <1>4, <2>3, <2>4, <2>5 DEF Progress
    <2>7. QED
      BY <1>1, <1>12, <2>6, ConfStill
  <1>14. QED
    BY <1>1, <1>2, <1>6, <1>7, <1>10, <1>11, <1>13 DEF DevicesInv

-----------------------------------------------------------------------------
(* Devices: steps of _apply_local, reloads and restarts.                   *)

(* What one step of a sip-apply leaves as it is.                           *)
LEMMA ApplyStep ==
  ASSUME DevicesInv, NEW r \in Requests, NEW q, Turns(r, q), Advances(r, q),
         UNCHANGED <<rowVars, poll, handler, reach>>,
         req[r].kind = "sip",
         q.at \in {"write", "reload"} => LoopFree \/ req[r].at \in {"write", "reload"},
         \A d \in Devs : told'[d] \in {told[d], NoValue},
         q \in Request => RequestOK(q),
         RowsOK', wiped' = wiped,
         ~wiped => ToldAgrees' /\ ApplyProgress'
  PROVE  DevicesInv'
  <1>1. UNCHANGED <<exists, used, password, poll, handler>>
    BY DEF rowVars
  <1>2. PollOK' /\ HandlerOK'
    BY <1>1 DEF DevicesInv, PollOK, HandlerOK
  <1>3. RequestsOK'
    BY <1>1, TurnTypes DEF DevicesInv, RequestOK
  <1>4. OneWriter'
    BY OneWriterKept DEF DevicesInv
  <1>5. NewAlone'
    BY <1>1, NewAloneKept DEF DevicesInv
  <1>6. AloneEdits'
    BY <1>1, AloneEditsKept DEF DevicesInv
  <1>7. QED
    BY <1>2, <1>3, <1>4, <1>5, <1>6 DEF DevicesInv

LEMMA StoredFacts ==
  ASSUME file \in [Devs -> Value], NEW d \in Devs, NEW w \in Passwords
  PROVE  /\ Stored(file, d, w) \in [Devs -> Value]
         /\ \A e \in Devs \ {d} : Stored(file, d, w)[e] = file[e]
         /\ w \notin Special => Stored(file, d, w)[d] = w
  <1> DEFINE v == IF file[d] # NoValue /\ w \in Special THEN <<"escaped", w>> ELSE w
  <1>1. v \in Value
    BY DEF Value
  <1>2. w \notin Special => v = w
    OBVIOUS
  <1>3. Stored(file, d, w) = [file EXCEPT ![d] = v]
    BY DEF Stored
  <1> HIDE DEF v
  <1>4. QED
    BY <1>1, <1>2, <1>3

LEMMA OpenConfOK ==
  ASSUME DevicesInv, NEW r \in Requests, OpenConf(r)
  PROVE  DevicesInv'
  <1>1. LoopFree /\ req[r].at = "open" /\ req[r].at # "idle" /\ RequestsOK
        /\ UNCHANGED <<rowVars, poll, handler, reach>>
    BY DEF OpenConf, DevicesInv
  <1>2. req[r] \in Request /\ RequestOK(req[r])
    BY <1>1, BusyRequest
  <1> DEFINE d == req[r].dev
             w == req[r].val
  <1>3. d \in Devs /\ req[r].kind = "sip" /\ w \in Passwords /\ d \in used
    BY <1>1, <1>2, StepTypes, RequestNotNone DEF RequestOK
  <1>4. CASE Ends(r) /\ UNCHANGED <<confVars, told>>
    <2>1. Turns(r, NoRequest)
      BY <1>1, <1>4, EndsFacts
    <2>2. NoRequest \notin Request /\ NoRequest.at = "idle"
      BY RequestNotNone DEF NoRequest
    <2>3. QED
      BY <1>1, <1>4, <2>1, <2>2, StillStep DEF Advances
  <1> DEFINE new == Stored(file, d, w)
  <1>5. CASE /\ GoOn(r, [req[r] EXCEPT !.val = [new |-> new, pw |-> w]])
             /\ file' = NoAccounts
             /\ told' = [told EXCEPT ![d] = NoValue]
             /\ UNCHANGED <<loaded, half, wiped, hung>>
    <2> DEFINE rec == [req[r] EXCEPT !.val = [new |-> new, pw |-> w]]
    <2>1. RowsOK
      BY DEF DevicesInv
    <2>2. new \in [Devs -> Value] /\ (\A e \in Devs \ {d} : new[e] = file[e])
          /\ (w \notin Special => new[d] = w)
      BY <1>3, <2>1, StoredFacts DEF RowsOK
    <2>3. [new |-> new, pw |-> w] \in NewText
      BY <1>3, <2>2 DEF NewText
    <2>4. rec \in Request /\ Same(rec, req[r]) /\ rec.val = [new |-> new, pw |-> w]
      <3> HIDE DEF new
      <3>1. QED
        BY <1>2, <2>3 DEF Request, Same
    <2>5. After(r) = "write"
      BY <1>1, <1>2, <1>3, AfterFacts DEF RequestOK, Kinds
    <2>6. PICK q \in Request : /\ Turns(r, q) /\ Same(q, req[r]) /\ q.at = "write"
                               /\ q.val = [new |-> new, pw |-> w] /\ q.held = rec.held
      <3>1. GoOn(r, rec) /\ "write" # "idle"
        BY <1>5
      <3> HIDE DEF rec, new, w
      <3>2. QED
        BY <1>1, <2>4, <2>5, <3>1, GoOnFacts
    <2>7. rec.held = "no" /\ q.dev = d /\ q.kind = "sip" /\ q.val.new = new /\ q.val.pw = w
      BY <1>1, <1>2, <1>3, <2>6 DEF RequestOK, Same, Request
    <2>8. RequestOK(q)
      <3> HIDE DEF new, w, d, rec
      <3>1. "write" \in StepsAt("sip")
        BY DEF StepsAt
      <3>2. q.dev \in used
        BY <1>3, <2>7
      <3>3. QED
        BY <2>3, <2>6, <2>7, <3>1, <3>2 DEF RequestOK, Stores
    <2>9. Advances(r, q)
      BY <1>2, <2>6, <2>7 DEF Advances
    <2>10. RowsOK'
      <3>1. /\ told' \in [Devs -> Passwords \cup {NoValue}]
            /\ \A e \in Devs \ used : told'[e] = NoValue
            /\ file' \in [Devs -> Value]
        BY <1>3, <1>5, <2>1 DEF RowsOK, NoAccounts, Value
      <3>2. QED
        BY <1>1, <1>5, <2>1, <3>1 DEF RowsOK, rowVars
    <2>11. \A e \in Devs : told'[e] = IF e = d THEN NoValue ELSE told[e]
      BY <1>3, <1>5, <2>1 DEF RowsOK
    <2>12. ASSUME NEW e \in Devs \ {d}, NEW v, InText(e, v), InAsterisk(e, v)
           PROVE  InText(e, v)' /\ InAsterisk(e, v)'
      <3>1. file[e] = v
        BY <1>1, <2>12 DEF LoopFree, InText
      <3>2. req'[r].at = "write" /\ req'[r].val.new[e] = v
        BY <2>2, <2>6, <2>7, <2>12, <3>1 DEF Turns
      <3>3. \A s \in Requests \ {r} : req'[s].at # "write"
        BY <1>1, <2>6 DEF Turns, LoopFree
      <3>4. QED
        BY <1>5, <2>12, <3>2, <3>3 DEF InText, InAsterisk
    <2>13. ASSUME ~wiped
           PROVE  ToldAgrees' /\ ApplyProgress'
      <3>1. ToldAgrees /\ ApplyProgress
        BY <2>13 DEF DevicesInv
      <3>2. UNCHANGED password
        BY <1>1 DEF rowVars
      <3>3. ToldAgrees'
        <4>1. SUFFICES ASSUME NEW e \in Devs, NEW v \in Passwords \ Special, told'[e] = v
                       PROVE  password'[e] = v /\ InText(e, v)' /\ InAsterisk(e, v)'
          BY DEF ToldAgrees
        <4>2. e # d /\ told[e] = v
          BY <2>11, <4>1, DevicesAssumption
        <4>3. QED
          BY <2>12, <3>1, <3>2, <4>2 DEF ToldAgrees
      <3>4. ASSUME NEW s \in Requests, NEW p \in Request, req'[s] = p, p.kind = "sip"
            PROVE  Progress(p)'
        <4>1. CASE s = r
          <5>1. p = q
            BY <2>6, <3>4, <4>1 DEF Turns
          <5>2. QED
            BY <2>2, <2>6, <2>7, <5>1 DEF Progress
        <4>2. CASE s # r
          <5>1. req[s] = p /\ p.at \notin {"write", "reload"}
            BY <1>1, <2>6, <3>4, <4>2 DEF Turns, LoopFree
          <5>2. SUFFICES ASSUME p.at \in {"flush", "commit"}, p.alone, p.val \notin Special
                         PROVE  InText(p.dev, p.val)' /\ InAsterisk(p.dev, p.val)'
            BY <5>1 DEF Progress
          <5>3. InText(p.dev, p.val) /\ InAsterisk(p.dev, p.val)
            BY <3>1, <3>4, <5>1, <5>2 DEF ApplyProgress, Progress
          <5>4. Editing(r) /\ Editing(s)
            BY <1>2, <1>3, <3>4, <5>1, RequestNotNone DEF Editing, InWork, EditsPassword
          <5>5. p.dev # d /\ p.dev \in Devs
            BY <4>2, <5>1, <5>2, <5>4, RequestNotNone DEF DevicesInv, AloneEdits
          <5>6. QED
            BY <2>12, <5>3, <5>5
        <4>3. QED
          BY <4>1, <4>2
      <3>5. QED
        BY <3>3, <3>4 DEF ApplyProgress
    <2>14. QED
      BY <1>1, <1>3, <1>5, <2>6, <2>8, <2>9, <2>10, <2>11, <2>13, ApplyStep
  <1>6. QED
    BY <1>4, <1>5 DEF OpenConf

LEMMA WriteConfOK ==
  ASSUME DevicesInv, NEW r \in Requests, WriteConf(r)
  PROVE  DevicesInv'
  <1>1. req[r].at = "write" /\ req[r].at # "idle" /\ RequestsOK /\ RowsOK
        /\ UNCHANGED <<rowVars, loaded, half, wiped, hung, poll, handler, reach, told>>
    BY DEF WriteConf, DevicesInv
  <1>2. req[r] \in Request /\ RequestOK(req[r])
    BY <1>1, BusyRequest
  <1> DEFINE d   == req[r].dev
             w   == req[r].val.pw
             new == req[r].val.new
  <1>3. d \in Devs /\ req[r].kind = "sip" /\ w \in Passwords /\ new \in [Devs -> Value]
        /\ d \in used
    BY <1>1, <1>2, StepTypes, RequestNotNone DEF RequestOK, NewText
  <1>4. After(r) = "reload"
    BY <1>1, <1>2, <1>3, AfterFacts DEF RequestOK, Kinds
  <1>5. PICK q \in Request : /\ Turns(r, q) /\ Same(q, req[r]) /\ q.at = "reload"
                             /\ q.val = w /\ q.held = req[r].held
    <2> DEFINE rec == [req[r] EXCEPT !.val = w]
    <2>1. rec \in Request /\ Same(rec, req[r]) /\ rec.val = w /\ rec.held = req[r].held
      BY <1>2, <1>3 DEF Request, Same, Kept
    <2>2. GoOn(r, rec) /\ "reload" # "idle"
      BY DEF WriteConf
    <2> HIDE DEF rec, w
    <2>3. QED
      BY <1>1, <1>4, <2>1, <2>2, GoOnFacts
  <1>6. q.dev = d /\ q.kind = "sip"
    BY <1>3, <1>5 DEF Same
  <1>7. RequestOK(q)
    BY <1>1, <1>2, <1>3, <1>5, <1>6 DEF RequestOK, StepsAt, Stores, Kept
  <1>8. Advances(r, q)
    BY <1>2, <1>5, <1>6 DEF Advances
  <1>9. file' = new
    BY DEF WriteConf
  <1>10. RowsOK'
    BY <1>1, <1>3, <1>9 DEF RowsOK, rowVars
  <1>11. \A s \in Requests \ {r} : req[s].at \notin {"write", "reload"} /\ req'[s] = req[s]
    BY <1>1, <1>5 DEF DevicesInv, OneWriter, Turns
  <1>12. ASSUME NEW e \in Devs, NEW v, InText(e, v), InAsterisk(e, v)
         PROVE  InText(e, v)' /\ InAsterisk(e, v)'
    <2>1. \A s \in Requests : req'[s].at # "write"
      BY <1>5, <1>11 DEF Turns
    <2>2. QED
      BY <1>1, <1>9, <1>12, <2>1 DEF InText, InAsterisk
  <1>13. ASSUME ~wiped
         PROVE  ToldAgrees' /\ ApplyProgress'
    <2>1. ToldAgrees /\ ApplyProgress /\ UNCHANGED <<password, told>>
      BY <1>1, <1>13 DEF DevicesInv, rowVars
    <2>2. ToldAgrees'
      BY <1>12, <2>1 DEF ToldAgrees
    <2>3. ASSUME NEW s \in Requests, NEW p \in Request, req'[s] = p, p.kind = "sip"
          PROVE  Progress(p)'
      <3>1. CASE s = r
        <4>1. p = q
          BY <1>5, <2>3, <3>1 DEF Turns
        <4>2. Progress(req[r])
          BY <1>2, <1>3, <2>1 DEF ApplyProgress
        <4>3. w \notin Special => new[d] = w
          BY <1>1, <4>2 DEF Progress
        <4>4. QED
          BY <1>5, <1>6, <1>9, <4>1, <4>3 DEF Progress
      <3>2. CASE s # r
        <4>1. req[s] = p /\ p.at \notin {"write", "reload"}
          BY <1>11, <2>3, <3>2
        <4>2. SUFFICES ASSUME p.at \in {"flush", "commit"}, p.alone, p.val \notin Special
                       PROVE  InText(p.dev, p.val)' /\ InAsterisk(p.dev, p.val)'
          BY <4>1 DEF Progress
        <4>3. InText(p.dev, p.val) /\ InAsterisk(p.dev, p.val)
          BY <2>1, <2>3, <4>1, <4>2 DEF ApplyProgress, Progress
        <4>4. QED
          BY <1>12, <4>3, RequestNotNone
      <3>3. QED
        BY <3>1, <3>2
    <2>4. QED
      BY <2>2, <2>3 DEF ApplyProgress
  <1>14. QED
    BY <1>1, <1>3, <1>5, <1>7, <1>8, <1>10, <1>13, ApplyStep

(* A reload loads what the file holds, or may do so when it fails.         *)
LEMMA ReloadConf ==
  ASSUME NEW r \in Requests, Reload(r), half \in BOOLEAN
  PROVE  /\ req[r].at = "reload" /\ req[r].at # "idle"
         /\ UNCHANGED <<rowVars, file, wiped, hung, poll, handler, reach, told>>
         /\ Ends(r) \/ (GoOn(r, req[r]) /\ loaded' = file)
         /\ \/ loaded' = file
            \/ loaded' = loaded /\ half' = half
         /\ half' = half \/ half' = FALSE
  <1>1. /\ req[r].at = "reload"
        /\ UNCHANGED <<rowVars, file, wiped, hung, poll, handler, reach, told>>
    BY Zenon DEF Reload
  <1>2. req[r].at # "idle"
    BY <1>1
  <1>3. \/ loaded' = file /\ half' = FALSE /\ (GoOn(r, req[r]) \/ Ends(r))
        \/ loaded' \in {loaded, file} /\ half' = (half /\ loaded' # file) /\ Ends(r)
    BY Zenon DEF Reload
  <1>4. CASE loaded' = file /\ half' = FALSE /\ (GoOn(r, req[r]) \/ Ends(r))
    BY Zenon, <1>1, <1>2, <1>4
  <1>5. CASE loaded' \in {loaded, file} /\ half' = (half /\ loaded' # file) /\ Ends(r)
    <2>1. CASE loaded' = file
      <3>1. half' = FALSE
        BY Zenon, <1>5, <2>1
      <3>2. QED
        BY Zenon, <1>1, <1>2, <1>5, <2>1, <3>1
    <2>2. CASE loaded' # file
      <3>1. loaded' = loaded
        BY Zenon, <1>5, <2>2
      <3>2. half' = half
        BY Zenon, <1>5, <2>2
      <3>3. QED
        BY Zenon, <1>1, <1>2, <1>5, <3>1, <3>2
    <2>3. QED
      BY Zenon, <2>1, <2>2
  <1>6. QED
    BY Zenon, <1>3, <1>4, <1>5

LEMMA ReloadOK ==
  ASSUME DevicesInv, NEW r \in Requests, Reload(r)
  PROVE  DevicesInv'
  <1>1. RequestsOK /\ RowsOK
    BY DEF DevicesInv
  <1>2. /\ req[r].at = "reload" /\ req[r].at # "idle"
        /\ UNCHANGED <<rowVars, file, wiped, hung, poll, handler, reach, told>>
        /\ Ends(r) \/ (GoOn(r, req[r]) /\ loaded' = file)
        /\ loaded' = file \/ (loaded' = loaded /\ half' = half)
        /\ half' = half \/ half' = FALSE
    BY <1>1, ReloadConf DEF RowsOK
  <1>3. req[r] \in Request /\ RequestOK(req[r])
    BY <1>2, <1>1, BusyRequest
  <1> DEFINE d == req[r].dev
             w == req[r].val
  <1>4. d \in Devs /\ req[r].kind = "sip" /\ w \in Passwords /\ w \in Kept /\ d \in used
    BY <1>2, <1>3, StepTypes, RequestNotNone DEF RequestOK
  <1>5. After(r) = "flush"
    BY <1>2, <1>3, <1>4, AfterFacts DEF RequestOK, Kinds
  <1>6. PICK q : /\ Turns(r, q)
                 /\ \/ q = NoRequest
                    \/ /\ q \in Request /\ Same(q, req[r]) /\ q.at = "flush"
                       /\ q.val = w /\ q.held = req[r].held /\ loaded' = file
    <2>1. CASE Ends(r)
      BY <1>1, <2>1, EndsFacts
    <2>2. CASE GoOn(r, req[r]) /\ loaded' = file
      <3>1. Same(req[r], req[r]) /\ "flush" # "idle"
        BY DEF Same
      <3>2. PICK q \in Request : /\ Turns(r, q) /\ Same(q, req[r]) /\ q.at = After(r)
                                 /\ q.val = req[r].val /\ q.held = req[r].held
        BY <1>2, <1>1, <1>3, <1>5, <2>2, <3>1, GoOnFacts
      <3>3. QED
        BY <1>5, <2>2, <3>2
    <2>3. QED
      BY <1>2, <2>1, <2>2
  <1>7. /\ q \in Request => q.dev = d /\ q.kind = "sip" /\ q.at = "flush"
        /\ q.at \notin {"write", "reload"}
        /\ Advances(r, q)
    BY <1>3, <1>4, <1>6, RequestNotNone DEF Same, Advances, NoRequest
  <1>8. q \in Request => RequestOK(q)
    BY <1>2, <1>3, <1>4, <1>6, <1>7, RequestNotNone DEF RequestOK, StepsAt, Stores
  <1>9. RowsOK'
    BY <1>2, <1>1 DEF RowsOK, rowVars
  <1>10. \A s \in Requests \ {r} : req[s].at \notin {"write", "reload"} /\ req'[s] = req[s]
    BY <1>2, <1>6 DEF DevicesInv, OneWriter, Turns
  <1>11. \A s \in Requests : req[s].at # "write" /\ req'[s].at # "write"
    BY <1>2, <1>6, <1>7, <1>10 DEF Turns
  <1>12. ASSUME NEW e \in Devs, NEW v, InText(e, v)
         PROVE  InText(e, v)' /\ (InAsterisk(e, v) \/ loaded' = file => InAsterisk(e, v)')
    <2>1. file[e] = v /\ InText(e, v)'
      BY <1>2, <1>11, <1>12 DEF InText
    <2>2. QED
      BY <1>2, <2>1 DEF InAsterisk
  <1>13. ASSUME ~wiped
         PROVE  ToldAgrees' /\ ApplyProgress'
    <2>1. ToldAgrees /\ ApplyProgress /\ UNCHANGED <<password, told>>
      BY <1>2, <1>13 DEF DevicesInv, rowVars
    <2>2. ToldAgrees'
      BY <1>12, <2>1 DEF ToldAgrees
    <2>3. SUFFICES ASSUME NEW s \in Requests, NEW p \in Request, req'[s] = p, p.kind = "sip"
                   PROVE  Progress(p)'
      BY <2>2 DEF ApplyProgress
    <2>4. p.at \notin {"write", "reload"}
      BY <1>6, <1>7, <1>10, <2>3 DEF Turns
    <2>5. SUFFICES ASSUME p.at \in {"flush", "commit"}, p.alone, p.val \notin Special
                   PROVE  InText(p.dev, p.val)' /\ InAsterisk(p.dev, p.val)'
      BY <2>4 DEF Progress
    <2>6. CASE s = r
      <3>1. p = q /\ q \in Request /\ p.val = w /\ p.dev = d /\ loaded' = file
        BY <1>6, <1>7, <2>3, <2>6, RequestNotNone DEF Turns
      <3>2. Progress(req[r])
        BY <1>3, <1>4, <2>1 DEF ApplyProgress
      <3>3. file[d] = w
        BY <1>2, <2>5, <3>1, <3>2 DEF Progress
      <3>4. InText(d, w)
        BY <1>11, <3>3 DEF InText
      <3>5. QED
        BY <1>4, <1>12, <3>1, <3>4
    <2>7. CASE s # r
      <3>1. req[s] = p
        BY <1>10, <2>3, <2>7
      <3>2. InText(p.dev, p.val) /\ InAsterisk(p.dev, p.val)
        BY <2>1, <2>3, <2>5, <3>1 DEF ApplyProgress, Progress
      <3>3. QED
        BY <1>12, <3>2, RequestNotNone
    <2>8. QED
      BY <2>6, <2>7
  <1>14. QED
    BY <1>2, <1>4, <1>6, <1>7, <1>8, <1>9, <1>13, ApplyStep

LEMMA OtherReloadOK ==
  ASSUME DevicesInv, OtherReload
  PROVE  DevicesInv'
  <1>1. /\ UNCHANGED <<exists, used, password, online, file, wiped, hung, req, poll, handler, reach, told>>
        /\ loaded' = file
        /\ half' = \E r \in Requests : req[r].at = "write"
    BY DEF OtherReload, rowVars
  <1>2. RowsOK'
    BY <1>1 DEF DevicesInv, RowsOK
  <1>3. RequestsOK' /\ PollOK' /\ HandlerOK'
    BY <1>1 DEF DevicesInv, RequestsOK, RequestOK, PollOK, HandlerOK
  <1>4. OneWriter' /\ NewAlone' /\ AloneEdits'
    BY <1>1 DEF DevicesInv, OneWriter, NewAlone, AloneEdits, InWork, Editing
  <1>5. ASSUME NEW e, NEW v, InText(e, v)
        PROVE  InText(e, v)' /\ InAsterisk(e, v)'
    BY <1>1, <1>5 DEF InText, InAsterisk
  <1>6. (ToldAgrees => ToldAgrees') /\ (ApplyProgress => ApplyProgress')
    BY <1>1, <1>5 DEF ToldAgrees, ApplyProgress, Progress
  <1>7. QED
    BY <1>1, <1>2, <1>3, <1>4, <1>6 DEF DevicesInv

(* A process that hangs does nothing.                                      *)
LEMMA ReloadHangsOK ==
  ASSUME DevicesInv, ReloadHangs
  PROVE  DevicesInv'
  <1>1. /\ UNCHANGED <<exists, used, password, online, file, loaded, half, wiped, req, poll,
                       handler, reach, told>>
        /\ hung' = TRUE
    BY DEF ReloadHangs, rowVars
  <1>2. RowsOK' /\ RequestsOK' /\ PollOK' /\ HandlerOK'
    BY <1>1 DEF DevicesInv, RowsOK, RequestsOK, RequestOK, PollOK, HandlerOK
  <1>3. OneWriter' /\ NewAlone' /\ AloneEdits'
    BY <1>1 DEF DevicesInv, OneWriter, NewAlone, AloneEdits, InWork, Editing
  <1>4. (ToldAgrees => ToldAgrees') /\ (ApplyProgress => ApplyProgress')
    BY <1>1 DEF ToldAgrees, ApplyProgress, Progress, InText, InAsterisk
  <1>5. QED
    BY <1>1, <1>2, <1>3, <1>4 DEF DevicesInv

(* A process that dies while it writes the file leaves it empty.           *)
LEMMA DevicesRestartOK ==
  ASSUME DevicesInv, DevicesRestart
  PROVE  DevicesInv'
  <1>1. /\ UNCHANGED <<exists, used, password, online, file, loaded, half, reach, told>>
        /\ req' = [r \in Requests |-> NoRequest]
        /\ poll' = NoPoll /\ handler' = NoHandler
        /\ wiped' = (wiped \/ \E r \in Requests : req[r].at = "write")
        /\ hung' = FALSE
    BY DEF DevicesRestart, rowVars
  <1>2. RowsOK'
    BY <1>1 DEF DevicesInv, RowsOK
  <1>3. PollOK' /\ HandlerOK'
    BY <1>1 DEF PollOK, HandlerOK, NoPoll, NoHandler
  <1>4. \A r \in Requests : req'[r] = NoRequest /\ req'[r].at = "idle"
    BY <1>1 DEF NoRequest
  <1>5. RequestsOK'
    BY <1>1, <1>4, RequestNotNone DEF RequestsOK
  <1>6. OneWriter' /\ NewAlone' /\ AloneEdits'
    BY <1>4 DEF OneWriter, NewAlone, AloneEdits, InWork, Editing
  <1>7. ASSUME ~wiped'
        PROVE  ToldAgrees' /\ ApplyProgress'
    <2>1. ~wiped /\ ToldAgrees /\ \A r \in Requests : req[r].at # "write"
      BY <1>1, <1>7 DEF DevicesInv
    <2>2. ToldAgrees'
      BY <1>1, <1>4, <2>1 DEF ToldAgrees, InText, InAsterisk
    <2>3. ApplyProgress'
      BY <1>4, RequestNotNone DEF ApplyProgress
    <2>4. QED
      BY <2>2, <2>3
  <1>8. QED
    BY <1>2, <1>3, <1>5, <1>6, <1>7 DEF DevicesInv

-----------------------------------------------------------------------------
(* Devices: the poll, the handlers of the cloud, and the theorems.         *)

LEMMA NoPollOK ==
  ASSUME poll' = NoPoll
  PROVE  PollOK'
  BY DEF PollOK, NoPoll

LEMMA PollStepOK ==
  ASSUME DevicesInv, PollStep
  PROVE  DevicesInv'
  <1>1. /\ UNCHANGED <<exists, used, password, confVars, req, handler, reach, told>>
        /\ online' = online \/ PollCommit
    BY DEF PollStep, PollLoad, PollProbe, PollFlush, PollFails, PollCommit, rowVars
  <1>2. RowsOK /\ PollOK
    BY DEF DevicesInv
  <1>3. HandlerOK'
    BY <1>1 DEF DevicesInv, HandlerOK
  <1>4. CASE PollLoad
    <2>1. poll' = [NoPoll EXCEPT !.at = "probe", !.todo = exists,
                                 !.read = [d \in exists |-> online[d]]]
      BY <1>4 DEF PollLoad
    <2>2. poll' = [at |-> "probe", todo |-> exists, read |-> [d \in exists |-> online[d]],
                   dev |-> NoValue, val |-> NoValue, wrote |-> <<>>]
      BY <2>1 DEF NoPoll
    <2>3. PollOK'
      BY <1>1, <1>2, <2>2 DEF PollOK, RowsOK
    <2>4. QED
      BY <1>1, <1>2, <1>3, <1>4, <2>3, AsideStep DEF PollLoad, RowsOK, rowVars
  <1>5. CASE PollProbe
    <2>1. PICK d \in poll.todo :
            poll' = [poll EXCEPT !.at = "flush", !.todo = @ \ {d}, !.dev = d,
                                 !.val = IF d \in reach THEN "yes" ELSE "no"]
      BY <1>5 DEF PollProbe
    <2>2. PICK v \in {"yes", "no"} :
            poll' = [poll EXCEPT !.at = "flush", !.todo = @ \ {d}, !.dev = d, !.val = v]
      BY <2>1
    <2>3. poll' = [at |-> "flush", todo |-> poll.todo \ {d}, read |-> poll.read,
                   dev |-> d, val |-> v, wrote |-> poll.wrote]
      BY <1>2, <2>2 DEF PollOK
    <2>4. PollOK'
      BY <1>1, <1>2, <2>3 DEF PollOK
    <2>5. QED
      BY <1>1, <1>2, <1>3, <1>5, <2>4, AsideStep DEF PollProbe, RowsOK, rowVars
  <1>6. CASE PollFlush
    <2> DEFINE wrote == [d \in DOMAIN poll.wrote \cup {poll.dev} |->
                    IF d = poll.dev
                    THEN [held |-> PollMode,
                          val  |-> IF poll.val # poll.read[d] THEN poll.val ELSE NoValue]
                    ELSE poll.wrote[d]]
               read == [d \in poll.todo |-> poll.read[d]]
    <2>1. poll.at = "flush"
          /\ poll' = [poll EXCEPT !.at = "probe", !.dev = NoValue, !.val = NoValue,
                                  !.read = read, !.wrote = wrote]
      BY <1>6 DEF PollFlush
    <2>2. poll.dev \in used /\ poll.val \in {"yes", "no"}
      BY <1>2, <2>1 DEF PollOK
    <2>3. DOMAIN wrote \subseteq used
      BY <1>2, <2>2 DEF PollOK
    <2>4. \A d \in DOMAIN wrote : wrote[d].val \in {"yes", "no", NoValue}
      BY <1>2, <2>2 DEF PollOK
    <2> HIDE DEF wrote, read
    <2>5. poll' = [at |-> "probe", todo |-> poll.todo, read |-> read,
                   dev |-> NoValue, val |-> NoValue, wrote |-> wrote]
      BY <1>2, <2>1 DEF PollOK
    <2>6. /\ poll'.at = "probe" /\ poll'.todo = poll.todo /\ poll'.wrote = wrote
          /\ poll' = [at |-> poll'.at, todo |-> poll'.todo, read |-> poll'.read, dev |-> poll'.dev,
                      val |-> poll'.val, wrote |-> poll'.wrote]
      BY <2>5
    <2>7. PollOK'
      BY <1>1, <1>2, <2>3, <2>4, <2>6 DEF PollOK
    <2>8. QED
      BY <1>1, <1>2, <1>3, <1>6, <2>7, AsideStep DEF PollFlush, RowsOK, rowVars
  <1>7. CASE PollFails
    <2>1. PollOK'
      BY <1>7, NoPollOK DEF PollFails
    <2>2. QED
      BY <1>1, <1>2, <1>3, <1>7, <2>1, AsideStep DEF PollFails, RowsOK, rowVars
  <1>8. CASE PollCommit
    <2>1. PollOK'
      BY <1>8, NoPollOK DEF PollCommit
    <2>2. online' \in [Devs -> {"yes", "no"}]
      <3>1. ASSUME NEW d \in Devs
            PROVE  (IF d \in DOMAIN poll.wrote /\ poll.wrote[d].val # NoValue
                    THEN poll.wrote[d].val ELSE online[d]) \in {"yes", "no"}
        BY <1>2, <3>1 DEF PollOK, RowsOK
      <3>2. QED
        BY <1>8, <3>1 DEF PollCommit
    <2>3. QED
      BY <1>1, <1>2, <1>3, <2>1, <2>2, AsideStep DEF RowsOK
  <1>9. QED
    BY <1>4, <1>5, <1>6, <1>7, <1>8 DEF PollStep


LEMMA OthersOK ==
  ASSUME DevicesInv,
         HandlerBegins \/ HandlerStep \/ DeadlockDetected \/ \E d \in Devs : Flip(d)
  PROVE  DevicesInv'
  <1>1. /\ UNCHANGED <<exists, used, password, online, confVars, req, told>>
        /\ poll' = poll \/ poll' = NoPoll
    BY DEF HandlerBegins, HandlerStep, HandlerWrites, HandlerCommits, DeadlockDetected, Flip,
           rowVars
  <1>2. RowsOK /\ PollOK /\ HandlerOK
    BY DEF DevicesInv
  <1>3. PollOK'
    BY <1>1, <1>2, NoPollOK DEF PollOK
  <1>4. reach' \subseteq Devs
    BY <1>2 DEF HandlerBegins, HandlerStep, HandlerWrites, HandlerCommits, DeadlockDetected, Flip,
                RowsOK
  <1>5. HandlerOK'
    <2>1. CASE UNCHANGED handler \/ handler' = NoHandler
      BY <1>1, <1>2, <2>1 DEF HandlerOK, NoHandler
    <2>2. CASE HandlerBegins
      BY <1>1, <1>2, <2>2 DEF HandlerBegins, HandlerOK, RowsOK
    <2>3. CASE HandlerWrites
      BY <1>1, <1>2, <2>1, <2>3 DEF HandlerWrites, HandlerOK, RowsOK
    <2>4. QED
      BY <2>1, <2>2, <2>3 DEF HandlerStep, HandlerCommits, DeadlockDetected, Flip
  <1>6. QED
    BY <1>1, <1>2, <1>3, <1>4, <1>5, AsideStep DEF RowsOK

LEMMA DevicesInvInit ==
  ASSUME DevicesInit
  PROVE  DevicesInv
  <1>1. \A r \in Requests : req[r] = NoRequest /\ req[r].at = "idle"
    BY DEF DevicesInit, NoRequest
  <1>2. RowsOK
    <2>1. (CHOOSE w \in Passwords : TRUE) \in Passwords
      BY DevicesAssumption
    <2>2. exists \subseteq Devs
      BY DEF DevicesInit
    <2>3. password \in [Devs -> Passwords \cup {NoValue}]
      BY <2>1 DEF DevicesInit
    <2>4. QED
      BY <2>2, <2>3 DEF DevicesInit, RowsOK, NoAccounts, Value
  <1>3. RequestsOK
    BY <1>1, RequestNotNone DEF DevicesInit, RequestsOK
  <1>4. PollOK /\ HandlerOK
    BY DEF DevicesInit, PollOK, HandlerOK, NoPoll, NoHandler
  <1>5. OneWriter /\ NewAlone /\ AloneEdits
    BY <1>1 DEF OneWriter, NewAlone, AloneEdits, InWork, Editing
  <1>6. ToldAgrees
    BY DevicesAssumption DEF DevicesInit, NoAccounts, ToldAgrees
  <1>7. ApplyProgress
    BY <1>1, RequestNotNone DEF ApplyProgress
  <1>8. QED
    BY <1>2, <1>3, <1>4, <1>5, <1>6, <1>7 DEF DevicesInv

LEMMA DevicesInvStep ==
  ASSUME DevicesInv, [DevicesNext]_deviceVars
  PROVE  DevicesInv'
  <1>1. CASE UNCHANGED deviceVars
    <2>1. UNCHANGED <<exists, used, password, online, confVars, req, poll, handler, reach, told>>
      BY <1>1 DEF deviceVars, rowVars
    <2>2. QED
      BY <2>1, AsideStep DEF DevicesInv, RowsOK, PollOK, HandlerOK
  <1>2. ASSUME NEW r \in Requests, BeginSome(r)
        PROVE  DevicesInv'
    BY <1>2, BeginOK DEF BeginSome
  <1>3. ASSUME NEW r \in Requests, RequestStep(r)
        PROVE  DevicesInv'
    BY <1>3, ProbeOK, FlushOK, CommitOK, EmitOK, OpenConfOK, WriteConfOK, ReloadOK DEF RequestStep
  <1>4. QED
    BY <1>1, <1>2, <1>3, PollStepOK, OthersOK, OtherReloadOK, ReloadHangsOK, DevicesRestartOK DEF DevicesNext

LEMMA DevicesInvariant == DevicesSpec => []DevicesInv
  BY DevicesInvInit, DevicesInvStep, PTL DEF DevicesSpec

(* The rows and the files keep their types; a request holds a row only     *)
(* between its flush and its commit.                                       *)
THEOREM DevicesTypeCorrect == DevicesSpec => []DevicesTypeOK
  <1>1. DevicesInv => DevicesTypeOK
    <2>1. SUFFICES ASSUME DevicesInv
                   PROVE  DevicesTypeOK
      OBVIOUS
    <2>2. ASSUME NEW r \in Requests
          PROVE  /\ req[r].held \in {"no", "share", "update", "all"}
                 /\ req[r].at # "commit" => req[r].held = "no"
      <3>1. CASE req[r] = NoRequest
        BY <3>1 DEF NoRequest
      <3>2. CASE req[r] # NoRequest
        <4>1. req[r] \in Request /\ RequestOK(req[r])
          BY <2>1, <3>2 DEF DevicesInv, RequestsOK
        <4>2. QED
          BY <4>1, RequestNotNone DEF RequestOK, Modes
      <3>3. QED
        BY <3>1, <3>2
    <2>3. QED
      BY <2>1, <2>2 DEF DevicesTypeOK, DevicesInv, RowsOK, PollOK, HandlerOK
  <1>2. QED
    BY <1>1, DevicesInvariant, PTL

(* After a sip-apply that updated the device, the row, pjsip.conf and      *)
(* Asterisk have the same password until the device gets another one.      *)
THEOREM AppliedEverywhere == DevicesSpec => []AppliedAgrees
  <1>1. DevicesInv => AppliedAgrees
    <2>1. SUFFICES ASSUME DevicesInv, LoopFree, ~wiped, NEW d \in exists,
                          told[d] \notin Special \cup {NoValue}
                   PROVE  /\ password[d] = told[d]
                          /\ file[d] = told[d]
                          /\ loaded[d] = told[d] \/ half
      BY DEF AppliedAgrees
    <2>2. d \in Devs /\ told[d] \in Passwords \ Special
      BY <2>1 DEF DevicesInv, RowsOK
    <2>3. password[d] = told[d] /\ InText(d, told[d]) /\ InAsterisk(d, told[d])
      BY <2>1, <2>2 DEF DevicesInv, ToldAgrees
    <2>4. QED
      BY <2>1, <2>3 DEF InText, InAsterisk, LoopFree
  <1>2. QED
    BY <1>1, DevicesInvariant, PTL
=============================================================================
