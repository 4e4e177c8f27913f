----------------------------- MODULE Endpoints ------------------------------
(***************************************************************************)
(* Provisioning of WebRTC endpoints: the table webrtc_endpoints, the file  *)
(* pjsip_webrtc.conf that is made from it, and what Asterisk has loaded.   *)
(* Sources: backend/app/services/sip_service.py (upsert_webrtc_conf,       *)
(* regenerate_webrtc_conf_from_db, the debounced reload),                  *)
(* backend/app/api/routes/sip.py, cloud/bridge.py (provision and revoke),  *)
(* main.py (regeneration at every start).                                  *)
(*                                                                         *)
(* The functions on the file run on the event loop without suspension; the *)
(* database statements before them suspend, and there the end of a session *)
(* may cancel the receive loop.  A set of endpoints is the function from   *)
(* extensions to passwords, None where there is no endpoint.               *)
(***************************************************************************)
EXTENDS Integers, FiniteSets

CONSTANTS
  Exts,        \* extensions
  Passwords,
  None,
  Admins,      \* requests of the admin API that can be open at once
  Cloud,       \* the receive loop, which runs one command at a time
  Startup,     \* the lifespan function, before it lets requests in
  MaxRequests, \* bound: requests and commands
  MaxFaults,   \* bound: failing writes and reloads
  MaxRestarts  \* bound: restarts of the backend

Tasks == Admins \cup {Cloud, Startup}

ASSUME EndpointsAssumption ==
  /\ None \notin Passwords
  /\ Cloud \notin Admins
  /\ Startup \notin Admins
  /\ Cloud # Startup
  /\ MaxRequests \in Nat
  /\ MaxFaults \in Nat
  /\ MaxRestarts \in Nat

Endpoint == [Exts -> Passwords \cup {None}]
Empty == [e \in Exts |-> None]

VARIABLES
  db,        \* webrtc_endpoints
  file,      \* pjsip_webrtc.conf
  loaded,    \* what Asterisk has read from it
  timer,     \* _debounced_pjsip_reload tasks that sleep
  task,
  requests,
  faults,
  restarts,
  overlapped, \* history: "yes" since two requests ran at the same time
  unwritten  \* history: extensions whose committed rows did not reach the file

vars == <<db, file, loaded, timer, task, requests, faults, restarts, overlapped, unwritten>>

Idle == [at |-> "idle"]
Quiet == \A t \in Tasks : task[t] = Idle

(* The lifespan function serves no extension, but begins like a revocation.*)
AtStart == [at |-> "regenerate", ext |-> None]

Goto(t, place) == task' = [task EXCEPT ![t].at = place]
Finish(t)      == task' = [task EXCEPT ![t] = Idle]

-----------------------------------------------------------------------------
(* Requests are let in when the start is over.                             *)
MayStart(t) ==
  /\ task[t] = Idle
  /\ task[Startup] = Idle
  /\ overlapped' = IF Quiet THEN overlapped ELSE "yes"
  /\ requests < MaxRequests
  /\ requests' = requests + 1

(* POST /sip/webrtc-endpoint, provision_webrtc_endpoint: select, ...       *)
Provision(t) ==
  /\ MayStart(t)
  /\ \E e \in Exts, p \in Passwords :
       task' = [task EXCEPT ![t] = [at |-> "selected", ext |-> e, pw |-> p, old |-> db[e]]]
  /\ UNCHANGED <<db, file, loaded, timer, faults, restarts, unwritten>>

(* ... then update or insert, and commit.  Updating a row that was revoked *)
(* meanwhile, and inserting one that is there meanwhile, raise; a password *)
(* that is the old one is not written.                                     *)
CommitEndpoint(t) ==
  LET e == task[t].ext
      p == task[t].pw
      o == task[t].old
  IN
  /\ task[t].at = "selected"
  /\ \/ /\ o = p
        /\ Goto(t, "write")
        /\ UNCHANGED db
     \/ /\ o # p
        /\ (o = None) = (db[e] = None)
        /\ db' = [db EXCEPT ![e] = p]
        /\ Goto(t, "write")
     \/ /\ o # p
        /\ (o = None) # (db[e] = None)
        /\ Finish(t)
        /\ UNCHANGED db
  /\ UNCHANGED <<file, loaded, timer, requests, faults, restarts, overlapped, unwritten>>

(* Slips: a new endpoint does not schedule a reload; the reload that is    *)
(* already waiting is not cancelled.                                       *)
WriteEndpointQuietly(t) ==
  /\ task[t].at = "write"
  /\ file' = [file EXCEPT ![task[t].ext] = task[t].pw]
  /\ timer' = IF file[task[t].ext] = None THEN timer ELSE 1
  /\ Finish(t)
  /\ unwritten' = unwritten \ {task[t].ext}
  /\ UNCHANGED <<db, loaded, requests, faults, restarts, overlapped>>

WriteEndpointKeepsTimer(t) ==
  /\ task[t].at = "write"
  /\ file' = [file EXCEPT ![task[t].ext] = task[t].pw]
  /\ timer' = timer + 1
  /\ Finish(t)
  /\ unwritten' = unwritten \ {task[t].ext}
  /\ UNCHANGED <<db, loaded, requests, faults, restarts, overlapped>>

(* upsert_webrtc_conf: replace or append one block, and schedule a reload  *)
(* in place of the one that is waiting.                                    *)
WriteEndpoint(t) ==
  /\ task[t].at = "write"
  /\ file' = [file EXCEPT ![task[t].ext] = task[t].pw]
  /\ timer' = 1
  /\ Finish(t)
  /\ unwritten' = unwritten \ {task[t].ext}
  /\ UNCHANGED <<db, loaded, requests, faults, restarts, overlapped>>

(* What a task that stops after its commit leaves unwritten.               *)
Unfinished(t) == IF t = Startup THEN Exts ELSE {task[t].ext}

(* The file cannot be read or written: an error for the caller, and the    *)
(* database keeps the row.  What fails after the truncation leaves nothing.*)
WriteFails(t) ==
  /\ task[t].at \in {"write", "rewrite"}
  /\ faults < MaxFaults
  /\ faults' = faults + 1
  /\ \/ unwritten' = unwritten \cup Unfinished(t) /\ UNCHANGED file
     \/ unwritten' = Exts /\ file' = Empty
  /\ Finish(t)
  /\ UNCHANGED <<db, loaded, timer, requests, restarts, overlapped>>

(* _run_session: the session ends, and the receive loop is cancelled at    *)
(* whatever its command awaits, also after the commit.                     *)
SessionEnds ==
  /\ task[Cloud] # Idle
  /\ unwritten' = IF task[Cloud].at \in {"selected", "revoking"}
                  THEN unwritten ELSE unwritten \cup Unfinished(Cloud)
  /\ Finish(Cloud)
  /\ UNCHANGED <<db, file, loaded, timer, requests, faults, restarts, overlapped>>

-----------------------------------------------------------------------------
(* revoke_webrtc_endpoint *)
Revoke ==
  /\ MayStart(Cloud)
  /\ \E e \in Exts :
       task' = [task EXCEPT ![Cloud] = [at |-> "revoking", ext |-> e, old |-> db[e]]]
  /\ UNCHANGED <<db, file, loaded, timer, faults, restarts, unwritten>>

(* Slip: the rows for the file are read before the commit.                 *)
CommitRevokeReadsFirst ==
  /\ task[Cloud].at = "revoking"
  /\ db' = IF task[Cloud].old = None THEN db ELSE [db EXCEPT ![task[Cloud].ext] = None]
  /\ task' = [task EXCEPT ![Cloud] =
                IF db = Empty THEN Idle
                ELSE [at |-> "rewrite", ext |-> task[Cloud].ext, rows |-> db]]
  /\ UNCHANGED <<file, loaded, timer, requests, faults, restarts, overlapped, unwritten>>

CommitRevoke ==
  /\ task[Cloud].at = "revoking"
  /\ db' = IF task[Cloud].old = None THEN db ELSE [db EXCEPT ![task[Cloud].ext] = None]
  /\ task' = [task EXCEPT ![Cloud] = [at |-> "regenerate", ext |-> task[Cloud].ext]]
  /\ UNCHANGED <<file, loaded, timer, requests, faults, restarts, overlapped, unwritten>>

-----------------------------------------------------------------------------
(* regenerate_webrtc_conf_from_db: select all rows; nothing happens if     *)
(* there are none, and a file with endpoints keeps them.                   *)
RegenerateRead(t) ==
  /\ task[t].at = "regenerate"
  /\ \/ /\ db = Empty
        /\ Finish(t)
        /\ unwritten' = unwritten \cup {e \in Exts : file[e] # None}
     \/ /\ db # Empty
        /\ task' = [task EXCEPT ![t] = [at |-> "rewrite", ext |-> @.ext, rows |-> db]]
        /\ UNCHANGED unwritten
  /\ UNCHANGED <<db, file, loaded, timer, requests, faults, restarts, overlapped>>

(* A reload that fails is logged, and not tried again.  One that never     *)
(* returns is one that fails and after which nothing happens.              *)
Reload(content) ==
  \/ loaded' = content /\ UNCHANGED faults
  \/ faults < MaxFaults /\ faults' = faults + 1 /\ UNCHANGED loaded

RegenerateWrite(t) ==
  /\ task[t].at = "rewrite"
  /\ file' = task[t].rows
  /\ Reload(file')
  /\ Finish(t)
  /\ unwritten' = {}
  /\ UNCHANGED <<db, timer, requests, restarts, overlapped>>

(* _debounced_pjsip_reload, 1.5 s after the last write.                    *)
TimerFires ==
  /\ timer > 0
  /\ timer' = timer - 1
  /\ Reload(file)
  /\ UNCHANGED <<db, file, task, requests, restarts, overlapped, unwritten>>

(* Slip: the lifespan function does not regenerate the file.               *)
RestartTrustsFile ==
  /\ restarts < MaxRestarts
  /\ restarts' = restarts + 1
  /\ \/ UNCHANGED file
     \/ (\E t \in Tasks : task[t].at \in {"write", "rewrite"}) /\ file' = Empty
  /\ timer' = 0
  /\ task' = [t \in Tasks |-> Idle]
  /\ overlapped' = "no"
  /\ UNCHANGED <<db, loaded, requests, faults, unwritten>>

(* The file is truncated before it is written (it is a bind mount, which   *)
(* cannot be replaced), so a crash during a write leaves it empty.         *)
Restart ==
  /\ restarts < MaxRestarts
  /\ restarts' = restarts + 1
  /\ \/ UNCHANGED file
     \/ (\E t \in Tasks : task[t].at \in {"write", "rewrite"}) /\ file' = Empty
  /\ timer' = 0
  /\ task' = [t \in Tasks |-> IF t = Startup THEN AtStart ELSE Idle]
  /\ overlapped' = "no"
  /\ UNCHANGED <<db, loaded, requests, faults, unwritten>>

-----------------------------------------------------------------------------
(* A new database is empty; the repository ships a file with an endpoint.  *)
Init ==
  /\ db = Empty
  /\ \E e \in Exts, p \in Passwords : file \in {Empty, [Empty EXCEPT ![e] = p]}
  /\ loaded = file
  /\ timer = 0
  /\ task = [t \in Tasks |-> IF t = Startup THEN AtStart ELSE Idle]
  /\ requests = 0
  /\ faults = 0
  /\ restarts = 0
  /\ overlapped = "no"
  /\ unwritten = {}

TaskStep(t) ==
  \/ CommitEndpoint(t)
  \/ WriteEndpoint(t)
  \/ RegenerateRead(t)
  \/ RegenerateWrite(t)

Next ==
  \/ \E t \in Admins \cup {Cloud} : Provision(t)
  \/ Revoke
  \/ CommitRevoke
  \/ \E t \in Tasks : TaskStep(t) \/ WriteFails(t)
  \/ SessionEnds
  \/ TimerFires
  \/ Restart

Spec == Init /\ [][Next]_vars

(* Tasks run on, and timers fire.                                          *)
FairSpec ==
  /\ Spec
  /\ \A t \in Tasks : WF_vars(TaskStep(t))
  /\ WF_vars(CommitRevoke)
  /\ WF_vars(TimerFires)

-----------------------------------------------------------------------------
(* Properties *)

TypeOK ==
  /\ db \in Endpoint
  /\ file \in Endpoint
  /\ loaded \in Endpoint
  /\ timer \in 0..1
  /\ \A t \in Tasks : task[t].at \in
       {"idle", "selected", "write", "revoking", "regenerate", "rewrite"}
  /\ requests \in Nat
  /\ faults \in Nat
  /\ restarts \in Nat
  /\ overlapped \in {"no", "yes"}
  /\ unwritten \subseteq Exts

(* routes/sip.py: "Always idempotent - safe to call again on password      *)
(* rotation"; bridge.py on revoke: "Rewrite pjsip_webrtc.conf without this *)
(* extension".  Whenever no request is running, the file holds the rows of *)
(* the database, although the backend may crash between the commit and the *)
(* write or while it writes: the regeneration at the start repairs that,   *)
(* and whatever overlapping requests, a failed write or a cancelled command*)
(* did before.  Exempt until the next start is the time after two requests *)
(* overlapped; and until it is written again, an extension whose committed *)
(* change no write followed: the write failed, the end of the session      *)
(* cancelled the command, or there was no row left to regenerate from.     *)
FileFollowsRows ==
  Quiet /\ overlapped = "no" => \A e \in Exts \ unwritten : file[e] = db[e]

(* The debounced reload is neither lost to a newer write nor to a restart: *)
(* a password that stays in the database and in the file, written there    *)
(* and not just left from an earlier life of the row, is loaded, unless a  *)
(* reload fails.                                                           *)
FileGetsLoaded ==
  \A e \in Exts, p \in Passwords :
    (db[e] = p /\ file[e] = p /\ e \notin unwritten)
      ~> (loaded[e] = p \/ db[e] # p \/ file[e] # p \/ faults > 0)

(* bridge.py on revoke: an extension that is not in the database does not  *)
(* come back into the file, also when requests overlap, writes fail and    *)
(* the backend restarts, other than by a provisioning request that had     *)
(* committed before the revocation and writes its own block after it.  The *)
(* regeneration reads its rows after the commit, and only the receive loop *)
(* revokes.                                                                *)
NoResurrection ==
  [][\A e \in Exts :
       db[e] = None /\ file'[e] \notin {file[e], None}
         => \E t \in Tasks :
              task[t].at = "write" /\ task[t].ext = e /\ task'[t] = Idle]_vars

=============================================================================
