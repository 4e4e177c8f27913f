-------------------------- MODULE EndpointsProofs ---------------------------
(***************************************************************************)
(* Theorems about Endpoints, for any number of extensions, passwords and   *)
(* requests, and any number of faults and restarts.                        *)
(***************************************************************************)
EXTENDS Endpoints, TLAPS

(* What a task knows at each place, and which tasks come to it.            *)
Selected     == [at : {"selected", "write"}, ext : Exts, pw : Passwords, old : Passwords \cup {None}]
Revoking     == [at : {"revoking"}, ext : Exts, old : Passwords \cup {None}]
Regenerating(S) == [at : {"regenerate"}, ext : S]
Rewriting(S)    == [at : {"rewrite"}, ext : S, rows : Endpoint]

TaskState(t) ==
  IF t \in Admins THEN {Idle} \cup Selected
  ELSE IF t = Cloud THEN {Idle} \cup Selected \cup Revoking \cup Regenerating(Exts)
                       \cup Rewriting(Exts)
  ELSE {Idle} \cup Regenerating({None}) \cup Rewriting({None})

TasksOK == /\ task = [t \in Tasks |-> task[t]]
           /\ \A t \in Tasks : task[t] \in TaskState(t)

StoresOK ==
  /\ db \in Endpoint /\ file \in Endpoint /\ loaded \in Endpoint
  /\ timer \in 0..1
  /\ requests \in Nat /\ faults \in Nat /\ restarts \in Nat
  /\ overlapped \in {"no", "yes"} /\ unwritten \subseteq Exts

Types == TasksOK /\ StoresOK

-----------------------------------------------------------------------------
(* Tasks                                                                   *)

LEMMA Places ==
  ASSUME TasksOK, NEW t \in Tasks
  PROVE  /\ task[t].at \in {"idle", "selected", "write", "revoking", "regenerate", "rewrite"}
         /\ task[t].at = "idle" <=> task[t] = Idle
         /\ task[t].at \in {"selected", "write"} => task[t] \in Selected /\ t # Startup
         /\ task[t].at = "revoking" => task[t] \in Revoking /\ t = Cloud
         /\ task[t].at = "rewrite" => /\ t \in {Cloud, Startup}
                                      /\ task[t].rows \in Endpoint
         /\ task[t].at = "regenerate" => t \in {Cloud, Startup}
         /\ task[t] # Idle /\ t # Startup => task[t].ext \in Exts
         /\ task[t] # Idle => Unfinished(t) \subseteq Exts
  <1>1. task[t] \in TaskState(t) /\ (t \in Admins \/ t = Cloud \/ t = Startup)
    BY DEF TasksOK, Tasks
  <1>2. Cloud \notin Admins /\ Startup \notin Admins /\ Cloud # Startup
    BY EndpointsAssumption
  <1>3. CASE t \in Admins
    BY <1>1, <1>2, <1>3 DEF TaskState, Idle, Selected, Unfinished
  <1>4. CASE t = Cloud
    BY <1>1, <1>2, <1>4 DEF TaskState, Idle, Selected, Revoking, Regenerating, Rewriting, Unfinished
  <1>5. CASE t = Startup
    BY <1>1, <1>2, <1>5 DEF TaskState, Idle, Regenerating, Rewriting, Unfinished
  <1>6. QED
    BY <1>1, <1>3, <1>4, <1>5

LEMMA Moved ==
  ASSUME TasksOK, NEW t \in Tasks, NEW s \in TaskState(t), task' = [task EXCEPT ![t] = s]
  PROVE  /\ TasksOK'
         /\ task'[t] = s
         /\ \A u \in Tasks \ {t} : task'[u] = task[u]
  BY DEF TasksOK, TaskState, Idle, Selected, Revoking, Regenerating, Rewriting

LEMMA EmptyEndpoint == Empty \in Endpoint
  BY DEF Empty, Endpoint

(* A request begins: it is alone unless that is recorded.                  *)
LEMMA MayStartEffect ==
  ASSUME Types, NEW t \in Tasks, MayStart(t)
  PROVE  /\ task[t] = Idle /\ task[Startup] = Idle
         /\ overlapped' = "yes" \/ (overlapped' = overlapped /\ Quiet)
         /\ overlapped' \in {"no", "yes"} /\ requests' \in Nat
  BY DEF MayStart, Types, StoresOK

LEMMA ProvisionEffect ==
  ASSUME Types, NEW t \in Admins \cup {Cloud}, Provision(t)
  PROVE  \E s \in Selected : /\ task' = [task EXCEPT ![t] = s]
                             /\ s \in TaskState(t)
                             /\ s.at = "selected" /\ s.old = db[s.ext]
  <1>1. PICK e \in Exts, p \in Passwords :
          task' = [task EXCEPT ![t] = [at |-> "selected", ext |-> e, pw |-> p, old |-> db[e]]]
    BY DEF Provision
  <1>2. [at |-> "selected", ext |-> e, pw |-> p, old |-> db[e]] \in Selected
    BY DEF Selected, Types, StoresOK, Endpoint
  <1>3. QED
    BY <1>1, <1>2 DEF TaskState

LEMMA RevokeEffect ==
  ASSUME Types, Revoke
  PROVE  \E s \in Revoking : /\ task' = [task EXCEPT ![Cloud] = s]
                             /\ s \in TaskState(Cloud)
                             /\ s.at = "revoking" /\ s.old = db[s.ext]
  <1>1. PICK e \in Exts :
          task' = [task EXCEPT ![Cloud] = [at |-> "revoking", ext |-> e, old |-> db[e]]]
    BY DEF Revoke
  <1>2. [at |-> "revoking", ext |-> e, old |-> db[e]] \in Revoking
    BY DEF Revoking, Types, StoresOK, Endpoint
  <1>3. QED
    BY <1>1, <1>2, EndpointsAssumption DEF TaskState, Revoking

LEMMA CommitEndpointEffect ==
  ASSUME Types, NEW t \in Tasks, CommitEndpoint(t)
  PROVE  /\ task[t] \in Selected /\ task[t] # Idle /\ task[t].at = "selected" /\ t # Startup
         /\ \/ /\ task' = [task EXCEPT ![t] = Idle]
               /\ (task[t].old = None) # (db[task[t].ext] = None)
               /\ db' = db
            \/ \E s \in TaskState(t) :
                 /\ task' = [task EXCEPT ![t] = s]
                 /\ s.at = "write" /\ s.ext = task[t].ext /\ s.pw = task[t].pw
                 /\ \/ task[t].old = task[t].pw /\ db' = db
                    \/ db' = [db EXCEPT ![task[t].ext] = task[t].pw]
  <1>1. task[t] \in Selected /\ task[t] # Idle /\ task[t].at = "selected" /\ t # Startup
    BY Places DEF CommitEndpoint, Types, Idle
  <1>2. CASE Goto(t, "write")
    <2> DEFINE s == [task[t] EXCEPT !.at = "write"]
    <2>1. task' = [task EXCEPT ![t] = s]
      BY <1>2 DEF Goto
    <2>2. s \in Selected /\ s.at = "write" /\ s.ext = task[t].ext /\ s.pw = task[t].pw
      BY <1>1 DEF Selected
    <2>3. s \in TaskState(t)
      BY <1>1, <2>2 DEF TaskState, Tasks
    <2>4. CASE db' = [db EXCEPT ![task[t].ext] = task[t].pw]
      BY <1>1, <2>1, <2>2, <2>3, <2>4
    <2>5. CASE task[t].old = task[t].pw /\ db' = db
      BY <1>1, <2>1, <2>2, <2>3, <2>5
    <2>6. CASE task' = [task EXCEPT ![t] = Idle]
      <3>1. task'[t] = Idle /\ task'[t] = s
        BY <2>1, <2>6 DEF Types, TasksOK
      <3>2. QED
        BY <2>2, <3>1 DEF Idle
    <2>7. QED
      BY <2>4, <2>5, <2>6 DEF CommitEndpoint, Finish
  <1>3. CASE ~Goto(t, "write")
    BY <1>1, <1>3 DEF CommitEndpoint, Finish
  <1>4. QED
    BY <1>2, <1>3

LEMMA CommitRevokeEffect ==
  ASSUME Types, CommitRevoke
  PROVE  /\ task[Cloud] \in Revoking /\ task[Cloud] # Idle
         /\ \E s \in TaskState(Cloud) : /\ task' = [task EXCEPT ![Cloud] = s]
                                        /\ s.at = "regenerate" /\ s.ext = task[Cloud].ext
         /\ task[Cloud].at = "revoking"
         /\ \A e \in Exts \ {task[Cloud].ext} : db'[e] = db[e]
         /\ db' \in Endpoint
         /\ UNCHANGED <<file, loaded, timer, requests, faults, restarts, overlapped, unwritten>>
  <1>1. task[Cloud] \in Revoking /\ task[Cloud] # Idle
    BY Places DEF CommitRevoke, Types, Idle, Tasks
  <1>2. [at |-> "regenerate", ext |-> task[Cloud].ext] \in TaskState(Cloud)
    BY <1>1, EndpointsAssumption DEF TaskState, Regenerating, Revoking
  <1>3. db' \in Endpoint /\ \A e \in Exts \ {task[Cloud].ext} : db'[e] = db[e]
    BY <1>1 DEF CommitRevoke, Types, StoresOK, Endpoint, Revoking
  <1>4. QED
    BY <1>1, <1>2, <1>3 DEF CommitRevoke

LEMMA RegenerateReadEffect ==
  ASSUME Types, NEW t \in Tasks, RegenerateRead(t)
  PROVE  /\ t \in {Cloud, Startup} /\ task[t] # Idle
         /\ \/ /\ db = Empty /\ task' = [task EXCEPT ![t] = Idle]
               /\ unwritten' = unwritten \cup {e \in Exts : file[e] # None}
            \/ /\ unwritten' = unwritten
               /\ \E s \in TaskState(t) : /\ task' = [task EXCEPT ![t] = s]
                                         /\ s.at = "rewrite" /\ s.ext = task[t].ext
                                         /\ s.rows = db
         /\ UNCHANGED <<db, file, loaded, timer, requests, faults, restarts, overlapped>>
  <1>1. t \in {Cloud, Startup} /\ task[t] # Idle
    BY Places DEF RegenerateRead, Types, Idle
  <1> DEFINE s == [at |-> "rewrite", ext |-> task[t].ext, rows |-> db]
  <1>2. s \in TaskState(t)
    <2>1. task[t] \in TaskState(t) /\ task[t].at = "regenerate" /\ db \in Endpoint
      BY DEF RegenerateRead, Types, TasksOK, StoresOK
    <2>2. CASE t = Cloud
      <3>1. task[t].ext \in Exts
        BY <1>1, <2>2, Places, EndpointsAssumption DEF Types
      <3>2. QED
        BY <2>1, <2>2, <3>1, EndpointsAssumption DEF TaskState, Rewriting
    <2>3. CASE t = Startup
      <3>1. task[t].ext \in {None}
        BY <2>1, <2>3, EndpointsAssumption DEF TaskState, Idle, Regenerating, Rewriting
      <3>2. QED
        BY <2>1, <2>3, <3>1, EndpointsAssumption DEF TaskState, Rewriting
    <2>4. QED
      BY <1>1, <2>2, <2>3
  <1>3. CASE db = Empty
    BY <1>1, <1>3 DEF RegenerateRead, Finish
  <1>4. CASE db # Empty
    <2>1. task' = [task EXCEPT ![t] = s] /\ unwritten' = unwritten
      BY <1>4 DEF RegenerateRead
    <2>2. QED
      BY <1>1, <1>2, <2>1 DEF RegenerateRead
  <1>5. QED
    BY <1>3, <1>4

LEMMA WriteEndpointEffect ==
  ASSUME Types, NEW t \in Tasks, WriteEndpoint(t)
  PROVE  /\ task[t] \in Selected /\ task[t] # Idle
         /\ task' = [task EXCEPT ![t] = Idle]
         /\ file' = [file EXCEPT ![task[t].ext] = task[t].pw]
         /\ file' \in Endpoint
         /\ unwritten' = unwritten \ {task[t].ext}
  <1>1. task[t] \in Selected /\ task[t] # Idle
    BY Places DEF WriteEndpoint, Types, Idle
  <1>2. QED
    BY <1>1 DEF WriteEndpoint, Finish, Types, StoresOK, Endpoint, Selected

LEMMA RegenerateWriteEffect ==
  ASSUME Types, NEW t \in Tasks, RegenerateWrite(t)
  PROVE  /\ task[t].rows \in Endpoint /\ task[t] # Idle
         /\ task' = [task EXCEPT ![t] = Idle]
         /\ file' = task[t].rows /\ file' \in Endpoint
         /\ loaded' \in Endpoint /\ faults' \in Nat
         /\ unwritten' = {}
         /\ UNCHANGED <<db, timer, requests, restarts, overlapped>>
  <1>1. task[t].rows \in Endpoint /\ task[t] # Idle
    BY Places DEF RegenerateWrite, Types, Idle
  <1>2. file' = task[t].rows /\ file' \in Endpoint
    BY <1>1 DEF RegenerateWrite
  <1>3. loaded' \in Endpoint /\ faults' \in Nat
    BY <1>2 DEF RegenerateWrite, Reload, Types, StoresOK
  <1>4. QED
    BY <1>1, <1>2, <1>3 DEF RegenerateWrite, Finish

LEMMA WriteFailsEffect ==
  ASSUME Types, NEW t \in Tasks, WriteFails(t)
  PROVE  /\ task[t] # Idle /\ task' = [task EXCEPT ![t] = Idle]
         /\ file' \in Endpoint /\ faults' \in Nat
         /\ \/ unwritten' = unwritten \cup Unfinished(t) /\ file' = file
            \/ unwritten' = Exts
         /\ unwritten' \subseteq Exts
         /\ UNCHANGED <<db, loaded, timer, requests, restarts, overlapped>>
  <1>1. task[t] # Idle
    BY DEF WriteFails, Idle
  <1>2. Unfinished(t) \subseteq Exts
    BY <1>1, Places DEF Types
  <1>3. file' \in Endpoint /\ faults' \in Nat
    BY EmptyEndpoint DEF WriteFails, Types, StoresOK
  <1>4. QED
    BY <1>1, <1>2, <1>3 DEF WriteFails, Finish, Types, StoresOK

LEMMA SessionEndsEffect ==
  ASSUME Types, SessionEnds
  PROVE  /\ Cloud \in Tasks /\ task[Cloud] # Idle /\ task' = [task EXCEPT ![Cloud] = Idle]
         /\ unwritten' = unwritten \/ unwritten' = unwritten \cup {task[Cloud].ext}
         /\ task[Cloud].at \in {"selected", "revoking"}
              \/ unwritten' = unwritten \cup {task[Cloud].ext}
         /\ unwritten' \subseteq Exts
         /\ UNCHANGED <<db, file, loaded, timer, requests, faults, restarts, overlapped>>
  <1>1. Cloud \in Tasks /\ task[Cloud] # Idle
    BY DEF SessionEnds, Tasks
  <1>2. task[Cloud].ext \in Exts /\ Unfinished(Cloud) = {task[Cloud].ext}
    BY <1>1, Places, EndpointsAssumption DEF Types, Unfinished
  <1>3. QED
    BY <1>1, <1>2 DEF SessionEnds, Finish, Types, StoresOK

-----------------------------------------------------------------------------
(* Types                                                                   *)

LEMMA TypesStep == Types /\ [Next]_vars => Types'
  <1> SUFFICES ASSUME Types, [Next]_vars PROVE Types'
    OBVIOUS
  <1>0. TasksOK /\ StoresOK
    BY DEF Types
  <1>1. ASSUME NEW t \in Admins \cup {Cloud}, Provision(t) PROVE Types'
    <2>1. TasksOK'
      BY <1>0, <1>1, ProvisionEffect, Moved DEF Tasks
    <2>2. overlapped' \in {"no", "yes"} /\ requests' \in Nat
      BY <1>1, MayStartEffect DEF Provision, Tasks
    <2>3. QED
      BY <1>0, <1>1, <2>1, <2>2 DEF Provision, Types, StoresOK
  <1>2. CASE Revoke
    <2>1. TasksOK'
      BY <1>0, <1>2, RevokeEffect, Moved DEF Tasks
    <2>2. overlapped' \in {"no", "yes"} /\ requests' \in Nat
      BY <1>2, MayStartEffect DEF Revoke, Tasks
    <2>3. QED
      BY <1>0, <1>2, <2>1, <2>2 DEF Revoke, Types, StoresOK
  <1>3. CASE CommitRevoke
    <2>1. TasksOK'
      BY <1>0, <1>3, CommitRevokeEffect, Moved DEF Tasks
    <2>2. QED
      BY <1>0, <1>3, <2>1, CommitRevokeEffect DEF Types, StoresOK
  <1>4. ASSUME NEW t \in Tasks, TaskStep(t) \/ WriteFails(t) PROVE Types'
    <2>0. Idle \in TaskState(t)
      BY DEF TaskState
    <2>1. CASE CommitEndpoint(t)
      <3>1. TasksOK'
        BY <1>0, <2>0, <2>1, CommitEndpointEffect, Moved
      <3>2. db' \in Endpoint
        BY <1>0, <2>1, CommitEndpointEffect DEF StoresOK, Endpoint, Selected
      <3>3. QED
        BY <1>0, <2>1, <3>1, <3>2 DEF CommitEndpoint, Types, StoresOK
    <2>2. CASE WriteEndpoint(t)
      <3>1. TasksOK' /\ file' \in Endpoint /\ unwritten' \subseteq Exts
        BY <1>0, <2>0, <2>2, WriteEndpointEffect, Moved DEF StoresOK
      <3>2. QED
        BY <1>0, <2>2, <3>1 DEF WriteEndpoint, Types, StoresOK
    <2>3. CASE RegenerateRead(t)
      <3>1. unwritten' \subseteq Exts
        BY <1>0, <2>3, RegenerateReadEffect DEF StoresOK
      <3>2. TasksOK'
        BY <1>0, <2>0, <2>3, RegenerateReadEffect, Moved
      <3>3. QED
        BY <1>0, <2>3, <3>1, <3>2, RegenerateReadEffect DEF Types, StoresOK
    <2>4. CASE RegenerateWrite(t)
      <3>1. TasksOK'
        BY <1>0, <2>0, <2>4, RegenerateWriteEffect, Moved
      <3>2. QED
        BY <1>0, <2>4, <3>1, RegenerateWriteEffect DEF Types, StoresOK
    <2>5. CASE WriteFails(t)
      <3>1. TasksOK'
        BY <1>0, <2>0, <2>5, WriteFailsEffect, Moved
      <3>2. QED
        BY <1>0, <2>5, <3>1, WriteFailsEffect DEF Types, StoresOK
    <2>6. QED
      BY <1>4, <2>1, <2>2, <2>3, <2>4, <2>5 DEF TaskStep
  <1>5. CASE TimerFires
    BY <1>0, <1>5 DEF TimerFires, Reload, Types, TasksOK, StoresOK
  <1>6. CASE Restart
    <2>1. TasksOK'
      <3>1. AtStart \in TaskState(Startup)
        BY EndpointsAssumption DEF TaskState, Regenerating, AtStart
      <3>2. QED
        BY <1>6, <3>1 DEF Restart, TasksOK, TaskState
    <2>2. file' \in Endpoint
      BY <1>0, <1>6, EmptyEndpoint DEF Restart, StoresOK
    <2>3. QED
      BY <1>0, <1>6, <2>1, <2>2 DEF Restart, Types, StoresOK
  <1>9. CASE SessionEnds
    <2>1. TasksOK'
      <3>1. Idle \in TaskState(Cloud)
        BY DEF TaskState
      <3>2. QED
        BY <1>0, <1>9, <3>1, SessionEndsEffect, Moved
    <2>2. QED
      BY <1>0, <1>9, <2>1, SessionEndsEffect DEF Types, StoresOK
  <1>7. CASE UNCHANGED vars
    BY <1>0, <1>7 DEF vars, Types, TasksOK, StoresOK
  <1>8. QED
    BY <1>1, <1>2, <1>3, <1>4, <1>5, <1>6, <1>7, <1>9 DEF Next

LEMMA TypesInvariant == Spec => []Types
  <1>1. Init => Types
    <2> SUFFICES ASSUME Init PROVE Types
      OBVIOUS
    <2>1. AtStart \in TaskState(Startup)
      BY EndpointsAssumption DEF TaskState, Regenerating, AtStart
    <2>2. TasksOK
      BY <2>1 DEF Init, TasksOK, TaskState
    <2>3. file \in Endpoint
      BY EmptyEndpoint DEF Init, Endpoint
    <2>4. QED
      BY <2>2, <2>3, EmptyEndpoint DEF Init, Types, StoresOK
  <1>2. QED
    BY <1>1, TypesStep, PTL DEF Spec

(* The tables, the file and the tasks of provisioning keep their types.    *)
THEOREM EndpointsTypeCorrect == Spec => []TypeOK
  <1>1. Types => TypeOK
    BY Places DEF Types, StoresOK, TypeOK
  <1>2. QED
    BY <1>1, TypesInvariant, PTL

-----------------------------------------------------------------------------
(* Who runs beside whom                                                    *)

StartsAlone == task[Startup] # Idle => \A t \in Tasks \ {Startup} : task[t] = Idle

(* Rows read for the file are rows of the database: nobody revokes while   *)
(* they wait to be written.                                                *)
RowsCommitted ==
  \A t \in Tasks : task[t].at = "rewrite" =>
    \A e \in Exts : db[e] = None => task[t].rows[e] = None

RewriteInv == StartsAlone /\ RowsCommitted

(* A task other than the start moves while nothing but it may be revoking. *)
LEMMA RewriteMoved ==
  ASSUME Types, RewriteInv, NEW t \in Tasks, NEW s \in TaskState(t),
         task' = [task EXCEPT ![t] = s],
         task[t] # Idle \/ (task[Startup] = Idle /\ t # Startup),
         s.at = "rewrite" => \A e \in Exts : db'[e] = None => s.rows[e] = None,
         \A u \in Tasks \ {t} : task[u].at = "rewrite" =>
           \A e \in Exts : db'[e] = None => db[e] = None
  PROVE  RewriteInv'
  <1>1. task'[t] = s /\ \A u \in Tasks \ {t} : task'[u] = task[u]
    BY Moved DEF Types
  <1>2. StartsAlone'
    BY <1>1 DEF RewriteInv, StartsAlone, Tasks
  <1>3. RowsCommitted'
    BY <1>1 DEF RewriteInv, RowsCommitted
  <1>4. QED
    BY <1>2, <1>3 DEF RewriteInv

LEMMA RewriteStep == Types /\ RewriteInv /\ [Next]_vars => RewriteInv'
  <1> SUFFICES ASSUME Types, RewriteInv, [Next]_vars PROVE RewriteInv'
    OBVIOUS
  <1>0. TasksOK /\ StoresOK /\ Cloud \in Tasks /\ Startup # Cloud /\ Startup \notin Admins
        /\ None \notin Passwords
    BY EndpointsAssumption DEF Types, Tasks
  <1>1. ASSUME NEW t \in Admins \cup {Cloud}, Provision(t) PROVE RewriteInv'
    <2>1. t \in Tasks /\ t # Startup /\ task[Startup] = Idle
      BY <1>0, <1>1, MayStartEffect DEF Provision, Tasks
    <2>2. PICK s \in Selected : task' = [task EXCEPT ![t] = s] /\ s \in TaskState(t)
                                /\ s.at = "selected"
      BY <1>1, ProvisionEffect
    <2>3. db' = db /\ s.at # "rewrite"
      BY <1>1, <2>2 DEF Provision
    <2>4. QED
      BY <2>1, <2>2, <2>3, RewriteMoved
  <1>2. CASE Revoke
    <2>1. task[Startup] = Idle
      BY <1>0, <1>2, MayStartEffect DEF Revoke
    <2>2. PICK s \in Revoking : task' = [task EXCEPT ![Cloud] = s] /\ s \in TaskState(Cloud)
                                /\ s.at = "revoking"
      BY <1>2, RevokeEffect
    <2>3. db' = db /\ s.at # "rewrite"
      BY <1>2, <2>2 DEF Revoke
    <2>4. QED
      BY <1>0, <2>1, <2>2, <2>3, RewriteMoved
  <1>3. CASE CommitRevoke
    <2>1. PICK s \in TaskState(Cloud) : task' = [task EXCEPT ![Cloud] = s] /\ s.at = "regenerate"
      BY <1>3, CommitRevokeEffect
    <2>2. task[Cloud] # Idle /\ s.at # "rewrite"
      BY <1>3, <2>1, CommitRevokeEffect
    <2>3. \A u \in Tasks \ {Cloud} : task[u].at # "rewrite"
      BY <1>0, <2>2, Places DEF RewriteInv, StartsAlone, Idle
    <2>4. QED
      BY <1>0, <2>1, <2>2, <2>3, RewriteMoved
  <1>4. ASSUME NEW t \in Tasks, TaskStep(t) \/ WriteFails(t) PROVE RewriteInv'
    <2>0. Idle \in TaskState(t) /\ Idle.at # "rewrite"
      BY DEF TaskState, Idle
    <2>1. CASE CommitEndpoint(t)
      <3>1. \A e \in Exts : db'[e] = None => db[e] = None
        BY <1>0, <2>1, CommitEndpointEffect DEF StoresOK, Endpoint, Selected
      <3>2. PICK s \in TaskState(t) : task' = [task EXCEPT ![t] = s] /\ s.at # "rewrite"
        BY <2>0, <2>1, CommitEndpointEffect
      <3>3. QED
        BY <2>1, <3>1, <3>2, CommitEndpointEffect, RewriteMoved
    <2>2. CASE WriteEndpoint(t)
      <3>1. task' = [task EXCEPT ![t] = Idle] /\ db' = db /\ task[t] # Idle
        BY <2>2, WriteEndpointEffect DEF WriteEndpoint
      <3>2. QED
        BY <2>0, <3>1, RewriteMoved
    <2>3. CASE RegenerateRead(t)
      <3>2. db' = db /\ task[t] # Idle
        BY <2>3, RegenerateReadEffect
      <3>3. PICK s \in TaskState(t) : task' = [task EXCEPT ![t] = s] /\ (s.at = "rewrite" => s.rows = db)
        BY <2>0, <2>3, RegenerateReadEffect
      <3>4. QED
        BY <3>2, <3>3, RewriteMoved
    <2>4. CASE RegenerateWrite(t)
      <3>1. task' = [task EXCEPT ![t] = Idle] /\ db' = db /\ task[t] # Idle
        BY <2>4, RegenerateWriteEffect
      <3>2. QED
        BY <2>0, <3>1, RewriteMoved
    <2>5. CASE WriteFails(t)
      <3>1. task' = [task EXCEPT ![t] = Idle] /\ db' = db /\ task[t] # Idle
        BY <2>5, WriteFailsEffect
      <3>2. QED
        BY <2>0, <3>1, RewriteMoved
    <2>6. QED
      BY <1>4, <2>1, <2>2, <2>3, <2>4, <2>5 DEF TaskStep
  <1>5. CASE TimerFires
    BY <1>5 DEF TimerFires, RewriteInv, StartsAlone, RowsCommitted
  <1>6. CASE Restart
    BY <1>6 DEF Restart, RewriteInv, StartsAlone, RowsCommitted, Idle, AtStart
  <1>9. CASE SessionEnds
    <2>1. Idle \in TaskState(Cloud) /\ Idle.at # "rewrite"
      BY DEF TaskState, Idle
    <2>2. task' = [task EXCEPT ![Cloud] = Idle] /\ db' = db /\ task[Cloud] # Idle
      BY <1>9, SessionEndsEffect
    <2>3. QED
      BY <1>0, <2>1, <2>2, RewriteMoved
  <1>7. CASE UNCHANGED vars
    BY <1>7 DEF vars, RewriteInv, StartsAlone, RowsCommitted
  <1>8. QED
    BY <1>1, <1>2, <1>3, <1>4, <1>5, <1>6, <1>7, <1>9 DEF Next

LEMMA RewriteInvariant == Spec => [](Types /\ RewriteInv)
  <1>1. Init => RewriteInv
    BY DEF Init, RewriteInv, StartsAlone, RowsCommitted, Idle, AtStart
  <1>2. QED
    BY <1>1, RewriteStep, TypesInvariant, PTL DEF Spec

(* An extension that is not in the database comes back into the file only  *)
(* by a request that had committed it before the revocation.               *)
THEOREM NeverResurrected == Spec => NoResurrection
  <1>1. Types /\ RewriteInv /\ [Next]_vars =>
          [\A e \in Exts :
             db[e] = None /\ file'[e] \notin {file[e], None} =>
               \E t \in Tasks :
                 task[t].at = "write" /\ task[t].ext = e /\ task'[t] = Idle]_vars
    <2> SUFFICES ASSUME Types, RewriteInv, Next, NEW e \in Exts,
                        db[e] = None, file'[e] \notin {file[e], None}
                 PROVE  \E t \in Tasks :
                          task[t].at = "write" /\ task[t].ext = e /\ task'[t] = Idle
      OBVIOUS
    <2>1. ASSUME file' = Empty PROVE FALSE
      BY <2>1 DEF Empty
    <2>2. ASSUME NEW t \in Tasks, RegenerateWrite(t) PROVE FALSE
      <3>1. file'[e] = task[t].rows[e] /\ task[t].at = "rewrite"
        BY <2>2, RegenerateWriteEffect DEF RegenerateWrite
      <3>2. QED
        BY <3>1 DEF RewriteInv, RowsCommitted
    <2>3. ASSUME NEW t \in Tasks, WriteEndpoint(t)
          PROVE  task[t].at = "write" /\ task[t].ext = e /\ task'[t] = Idle
      <3>1. file' = [file EXCEPT ![task[t].ext] = task[t].pw]
            /\ task' = [task EXCEPT ![t] = Idle] /\ file \in Endpoint
        BY <2>3, WriteEndpointEffect DEF Types, StoresOK
      <3>2. task[t].ext = e
        BY <3>1 DEF Endpoint
      <3>3. task'[t] = Idle
        BY <3>1 DEF Types, TasksOK
      <3>4. QED
        BY <2>3, <3>2, <3>3 DEF WriteEndpoint
    <2>4. file' = file \/ file' = Empty
          \/ \E t \in Tasks : RegenerateWrite(t) \/ WriteEndpoint(t)
      BY DEF Next, Provision, Revoke, CommitRevoke, TaskStep, CommitEndpoint, RegenerateRead,
             WriteFails, SessionEnds, TimerFires, Restart
    <2>5. QED
      BY <2>1, <2>2, <2>3, <2>4
  <1>2. QED
    BY <1>1, RewriteInvariant, PTL DEF Spec, NoResurrection

-----------------------------------------------------------------------------
(* The file follows the rows                                               *)

Settled(e) == e \notin unwritten => file[e] = db[e]

SettledBut(t) == \A e \in Exts \ {task[t].ext} : Settled(e)

OneTask == \A t, u \in Tasks : task[t] # Idle /\ task[u] # Idle => t = u

(* What a task that runs alone has done, and left to do.                   *)
Pending(t) ==
  /\ task[t].at \in {"selected", "revoking"} =>
       db[task[t].ext] = task[t].old /\ \A e \in Exts : Settled(e)
  /\ task[t].at = "write" =>
       db[task[t].ext] = task[t].pw /\ SettledBut(t)
  /\ task[t].at = "regenerate" => t = Startup \/ SettledBut(t)
  /\ task[t].at = "rewrite" =>
       task[t].rows = db /\ (t = Startup \/ SettledBut(t))

FollowInv ==
  overlapped = "no" =>
    /\ OneTask
    /\ \A t \in Tasks : Pending(t)
    /\ Quiet => \A e \in Exts : Settled(e)

(* The only task there is moves.                                           *)
LEMMA AloneMoves ==
  ASSUME Types, FollowInv, NEW t \in Tasks, NEW s \in TaskState(t),
         task' = [task EXCEPT ![t] = s],
         overlapped' = "no" => overlapped = "no" /\ (task[t] # Idle \/ Quiet),
         overlapped' = "no" /\ overlapped = "no" =>
           /\ Pending(t)'
           /\ s = Idle => \A e \in Exts : Settled(e)'
  PROVE  FollowInv'
  <1> SUFFICES ASSUME overlapped' = "no"
               PROVE  /\ OneTask'
                      /\ \A u \in Tasks : Pending(u)'
                      /\ Quiet' => \A e \in Exts : Settled(e)'
    BY DEF FollowInv
  <1>1. task'[t] = s /\ \A u \in Tasks \ {t} : task'[u] = task[u]
    BY Moved DEF Types
  <1>2. \A u \in Tasks \ {t} : task'[u] = Idle
    BY <1>1 DEF FollowInv, OneTask, Quiet
  <1>3. OneTask'
    BY <1>2 DEF OneTask
  <1>4. \A u \in Tasks : Pending(u)'
    BY <1>2 DEF Pending, Idle
  <1>5. Quiet' => \A e \in Exts : Settled(e)'
    BY <1>1 DEF Quiet
  <1>6. QED
    BY <1>3, <1>4, <1>5

LEMMA FollowStep == Types /\ FollowInv /\ [Next]_vars => FollowInv'
  <1> SUFFICES ASSUME Types, FollowInv, [Next]_vars PROVE FollowInv'
    OBVIOUS
  <1>0. TasksOK /\ StoresOK /\ Cloud \in Tasks
    BY DEF Types, Tasks
  <1>a. db \in Endpoint /\ file \in Endpoint
    BY DEF Types, StoresOK
  <1>1. ASSUME NEW t \in Admins \cup {Cloud}, Provision(t) PROVE FollowInv'
    <2>1. /\ t \in Tasks
          /\ overlapped' = "no" => overlapped = "no" /\ Quiet
          /\ UNCHANGED <<db, file, unwritten>>
      BY <1>0, <1>1, MayStartEffect DEF Provision, Tasks
    <2>2. PICK s \in Selected : task' = [task EXCEPT ![t] = s] /\ s \in TaskState(t)
                                /\ s.at = "selected" /\ s.old = db[s.ext]
      BY <1>1, ProvisionEffect
    <2>3. task'[t] = s /\ s # Idle
      <3>1. s # Idle
        BY <2>2 DEF Idle
      <3>2. QED
        BY <1>0, <2>1, <2>2, <3>1, Moved
    <2>4. overlapped' = "no" => Pending(t)'
      BY <2>1, <2>2, <2>3 DEF FollowInv, Pending, Settled
    <2>5. QED
      BY <2>1, <2>2, <2>3, <2>4, AloneMoves
  <1>2. CASE Revoke
    <2>1. /\ overlapped' = "no" => overlapped = "no" /\ Quiet
          /\ UNCHANGED <<db, file, unwritten>>
      BY <1>0, <1>2, MayStartEffect DEF Revoke
    <2>2. PICK s \in Revoking : task' = [task EXCEPT ![Cloud] = s] /\ s \in TaskState(Cloud)
                                /\ s.at = "revoking" /\ s.old = db[s.ext]
      BY <1>2, RevokeEffect
    <2>3. task'[Cloud] = s /\ s # Idle
      <3>1. s # Idle
        BY <2>2 DEF Idle
      <3>2. QED
        BY <1>0, <2>2, <3>1, Moved
    <2>4. overlapped' = "no" => Pending(Cloud)'
      BY <2>1, <2>2, <2>3 DEF FollowInv, Pending, Settled
    <2>5. QED
      BY <1>0, <2>1, <2>2, <2>3, <2>4, AloneMoves
  <1>3. CASE CommitRevoke
    <2>1. PICK s \in TaskState(Cloud) : /\ task' = [task EXCEPT ![Cloud] = s]
                                       /\ s.at = "regenerate" /\ s.ext = task[Cloud].ext
      BY <1>3, CommitRevokeEffect
    <2>2. task'[Cloud] = s /\ s # Idle
      <3>1. s # Idle
        BY <2>1 DEF Idle
      <3>2. QED
        BY <1>0, <2>1, <3>1, Moved
    <2>3. /\ task[Cloud] # Idle /\ task[Cloud].at = "revoking"
          /\ \A e \in Exts \ {task[Cloud].ext} : db'[e] = db[e]
          /\ UNCHANGED <<file, overlapped, unwritten>>
      BY <1>3, CommitRevokeEffect
    <2>4. overlapped = "no" => Pending(Cloud)'
      <3>1. overlapped = "no" => \A e \in Exts : Settled(e)
        BY <1>0, <2>3 DEF FollowInv, Pending
      <3>2. QED
        BY <2>1, <2>2, <2>3, <3>1 DEF Pending, Settled, SettledBut
    <2>5. QED
      BY <1>0, <2>1, <2>2, <2>3, <2>4, AloneMoves
  <1>4. ASSUME NEW t \in Tasks, TaskStep(t) \/ WriteFails(t) PROVE FollowInv'
    <2>0. Idle \in TaskState(t) /\ Idle.at = "idle"
      BY DEF TaskState, Idle
    <2>1. CASE CommitEndpoint(t)
      <3>1. /\ task[t] \in Selected /\ task[t] # Idle /\ task[t].at = "selected"
            /\ UNCHANGED <<file, overlapped, unwritten>>
        BY <2>1, CommitEndpointEffect DEF CommitEndpoint
      <3>2. overlapped = "no" => db[task[t].ext] = task[t].old /\ \A e \in Exts : Settled(e)
        BY <3>1 DEF FollowInv, Pending
      <3>3. CASE task' = [task EXCEPT ![t] = Idle] /\ (task[t].old = None) # (db[task[t].ext] = None)
        <4>1. overlapped # "no"
          BY <3>2, <3>3
        <4>2. QED
          BY <2>0, <3>1, <3>3, <4>1, AloneMoves
      <3>4. ASSUME NEW s \in TaskState(t), task' = [task EXCEPT ![t] = s],
                   s.at = "write", s.ext = task[t].ext, s.pw = task[t].pw,
                   \/ task[t].old = task[t].pw /\ db' = db
                   \/ db' = [db EXCEPT ![task[t].ext] = task[t].pw]
            PROVE  FollowInv'
        <4>1. task'[t] = s /\ s # Idle
          <5>1. s # Idle
            BY <3>4 DEF Idle
          <5>2. QED
            BY <1>0, <3>4, <5>1, Moved
        <4>2. task[t].ext \in Exts
          BY <3>1 DEF Selected
        <4>3. \A e \in Exts \ {task[t].ext} : db'[e] = db[e]
          BY <1>a, <3>4, <4>2 DEF Endpoint
        <4>4. overlapped = "no" => db'[task[t].ext] = task[t].pw
          BY <1>a, <3>2, <3>4, <4>2 DEF Endpoint
        <4>5. overlapped = "no" => Pending(t)'
          BY <3>1, <3>2, <3>4, <4>1, <4>3, <4>4 DEF Pending, Settled, SettledBut
        <4>6. QED
          BY <3>1, <3>4, <4>1, <4>5, AloneMoves
      <3>5. QED
        BY <2>1, <3>3, <3>4, CommitEndpointEffect
    <2>2. CASE WriteEndpoint(t)
      <3>1. /\ task[t] \in Selected /\ task[t] # Idle /\ task[t].at = "write"
            /\ task' = [task EXCEPT ![t] = Idle]
            /\ file' = [file EXCEPT ![task[t].ext] = task[t].pw]
            /\ unwritten' = unwritten \ {task[t].ext}
            /\ UNCHANGED <<db, overlapped>>
        BY <2>2, WriteEndpointEffect DEF WriteEndpoint
      <3>2. overlapped = "no" =>
              db[task[t].ext] = task[t].pw /\ \A e \in Exts \ {task[t].ext} : Settled(e)
        BY <3>1 DEF FollowInv, Pending, SettledBut
      <3>3. /\ file'[task[t].ext] = task[t].pw
            /\ \A e \in Exts \ {task[t].ext} : file'[e] = file[e]
        BY <1>a, <3>1 DEF Endpoint, Selected
      <3>4. overlapped = "no" => \A e \in Exts : Settled(e)'
        BY <3>1, <3>2, <3>3 DEF Settled
      <3>5. task'[t] = Idle
        BY <1>0, <2>0, <3>1, Moved
      <3>6. QED
        BY <2>0, <3>1, <3>4, <3>5, AloneMoves DEF Pending
    <2>3. CASE RegenerateRead(t)
      <3>1. task[t] # Idle /\ task[t].at = "regenerate" /\ UNCHANGED <<db, file, overlapped>>
        BY <2>3, RegenerateReadEffect DEF RegenerateRead
      <3>2. CASE /\ db = Empty /\ task' = [task EXCEPT ![t] = Idle]
                 /\ unwritten' = unwritten \cup {e \in Exts : file[e] # None}
        <4>1. \A e \in Exts : Settled(e)'
          BY <3>1, <3>2 DEF Settled, Empty
        <4>2. task'[t] = Idle
          BY <1>0, <2>0, <3>2, Moved
        <4>3. QED
          BY <2>0, <3>1, <3>2, <4>1, <4>2, AloneMoves DEF Pending
      <3>3. ASSUME NEW s \in TaskState(t), task' = [task EXCEPT ![t] = s],
                   s.at = "rewrite", s.ext = task[t].ext, s.rows = db, unwritten' = unwritten
            PROVE  FollowInv'
        <4>1. task'[t] = s /\ s # Idle
          <5>1. s # Idle
            BY <3>3 DEF Idle
          <5>2. QED
            BY <1>0, <3>3, <5>1, Moved
        <4>2. overlapped = "no" => t = Startup \/ SettledBut(t)
          BY <3>1 DEF FollowInv, Pending
        <4>3. overlapped = "no" => Pending(t)'
          BY <3>1, <3>3, <4>1, <4>2 DEF Pending, Settled, SettledBut
        <4>4. QED
          BY <3>1, <3>3, <4>1, <4>3, AloneMoves
      <3>4. QED
        BY <2>3, <3>2, <3>3, RegenerateReadEffect
    <2>4. CASE RegenerateWrite(t)
      <3>1. /\ task[t] # Idle /\ task[t].at = "rewrite" /\ task' = [task EXCEPT ![t] = Idle]
            /\ file' = task[t].rows /\ UNCHANGED <<db, overlapped>>
        BY <2>4, RegenerateWriteEffect DEF RegenerateWrite
      <3>2. overlapped = "no" => \A e \in Exts : Settled(e)'
        BY <3>1 DEF FollowInv, Pending, Settled
      <3>3. task'[t] = Idle
        BY <1>0, <2>0, <3>1, Moved
      <3>4. QED
        BY <2>0, <3>1, <3>2, <3>3, AloneMoves DEF Pending
    <2>5. CASE WriteFails(t)
      <3>1. /\ task[t] # Idle /\ task[t].at \in {"write", "rewrite"}
            /\ task' = [task EXCEPT ![t] = Idle] /\ UNCHANGED <<db, overlapped>>
            /\ \/ unwritten' = unwritten \cup Unfinished(t) /\ file' = file
               \/ unwritten' = Exts
        BY <2>5, WriteFailsEffect DEF WriteFails
      <3>2. overlapped = "no" => t = Startup \/ SettledBut(t)
        BY <3>1 DEF FollowInv, Pending
      <3>3. overlapped = "no" => \A e \in Exts : Settled(e)'
        BY <3>1, <3>2 DEF Settled, SettledBut, Unfinished
      <3>4. task'[t] = Idle
        BY <1>0, <2>0, <3>1, Moved
      <3>5. QED
        BY <2>0, <3>1, <3>3, <3>4, AloneMoves DEF Pending
    <2>6. QED
      BY <1>4, <2>1, <2>2, <2>3, <2>4, <2>5 DEF TaskStep
  <1>5. CASE UNCHANGED <<db, file, task, overlapped, unwritten>>
    BY <1>5 DEF FollowInv, OneTask, Pending, Quiet, Settled, SettledBut
  <1>6. CASE Restart
    <2>1. \A t \in Tasks : task'[t] = IF t = Startup THEN AtStart ELSE Idle
      BY <1>6 DEF Restart
    <2>2. task'[Startup] # Idle /\ Startup \in Tasks
      BY <2>1 DEF Idle, AtStart, Tasks
    <2>3. QED
      BY <2>1, <2>2 DEF FollowInv, OneTask, Pending, Quiet, Idle, AtStart
  <1>7. CASE SessionEnds
    <2>1. /\ task[Cloud] # Idle /\ task' = [task EXCEPT ![Cloud] = Idle]
          /\ task[Cloud].at \in {"selected", "revoking"}
               \/ unwritten' = unwritten \cup {task[Cloud].ext}
          /\ unwritten \subseteq unwritten' /\ UNCHANGED <<db, file, overlapped>>
      BY <1>7, SessionEndsEffect
    <2>2. task[Cloud].at \in {"selected", "revoking", "write", "regenerate", "rewrite"}
          /\ Cloud # Startup
      BY <1>0, <2>1, Places, EndpointsAssumption
    <2>3. overlapped = "no" => \A e \in Exts : Settled(e)'
      BY <1>0, <2>1, <2>2 DEF FollowInv, Pending, Settled, SettledBut
    <2>4. Idle \in TaskState(Cloud) /\ Idle.at = "idle" /\ task'[Cloud] = Idle
      <3>1. Idle \in TaskState(Cloud) /\ Idle.at = "idle"
        BY DEF TaskState, Idle
      <3>2. QED
        BY <1>0, <2>1, <3>1, Moved
    <2>5. Pending(Cloud)'
      BY <2>4 DEF Pending
    <2>6. QED
      BY <1>0, <2>1, <2>3, <2>4, <2>5, AloneMoves
  <1>8. QED
    BY <1>1, <1>2, <1>3, <1>4, <1>5, <1>6, <1>7 DEF Next, TimerFires, vars

(* Whenever no request is running, the file holds the rows of the          *)
(* database but for what no write followed, unless two requests overlapped *)
(* since the start.                                                        *)
THEOREM FileAlwaysFollowsRows == Spec => []FileFollowsRows
  <1>1. Init => FollowInv
    <2> SUFFICES ASSUME Init PROVE FollowInv
      OBVIOUS
    <2>1. \A t \in Tasks : task[t] = IF t = Startup THEN AtStart ELSE Idle
      BY DEF Init
    <2>2. task[Startup] # Idle /\ Startup \in Tasks
      BY <2>1 DEF Idle, AtStart, Tasks
    <2>3. QED
      BY <2>1, <2>2 DEF FollowInv, OneTask, Pending, Quiet, Idle, AtStart
  <1>2. FollowInv => FileFollowsRows
    BY DEF FollowInv, Settled, FileFollowsRows
  <1>3. QED
    BY <1>1, <1>2, FollowStep, TypesInvariant, PTL DEF Spec
=============================================================================
