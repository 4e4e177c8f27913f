------------------------------ MODULE Dialplan ------------------------------
(***************************************************************************)
(* Who rings when a code is dialled: the apartments and their monitors in  *)
(* the database, the file extensions_apartments.conf made from them, and   *)
(* the dialplan Asterisk has loaded.                                       *)
(* Sources: backend/app/api/routes/apartments.py, routing_rules.py,        *)
(* cloud/bridge.py (the apartment commands), services/sip_service.py       *)
(* (write_apartments_dialplan, _atomic_write).                             *)
(*                                                                         *)
(* A request commits, then reads all apartments, then has a thread of the  *)
(* executor write the file and reload: each of these is a step.  Codes are *)
(* taken to be unique.  A row of apartment_monitors is a pair of extension *)
(* and number of the request that inserted it.  A rebuilt dialplan is a    *)
(* function from codes to the extensions they ring.                        *)
(***************************************************************************)
EXTENDS Integers, FiniteSets

CONSTANTS
  Codes,       \* call codes
  Exts,        \* SIP extensions
  Targets,     \* the rules there may be: pairs of code and extension
  None,        \* no apartment
  NoExten,     \* the code is not in the dialplan
  Torn,        \* the file while it is truncated and not yet written
  Admins,      \* requests of the admin API that can be open at once
  Cloud,       \* the receive loop, which runs one command at a time
  MaxRequests, \* bound: requests and commands
  MaxFaults    \* bound: failing writes and reloads, lost sessions, restarts

Tasks == Admins \cup {Cloud}

Content == [Codes -> (SUBSET Exts) \cup {NoExten}]

ASSUME DialplanAssumption ==
  /\ Targets \subseteq Codes \X Exts
  /\ Torn \notin Content
  /\ Cloud \notin Admins
  /\ MaxRequests \in Nat
  /\ MaxFaults \in Nat

VARIABLES
  db,          \* apartments: [enabled, rows], or None
  rules,       \* routing_rules
  provisioned, \* extensions in webrtc_endpoints
  file,
  loaded,
  task,
  requests,
  faults,
  stale,       \* history: "yes" since a fault cut a rebuild short
  overlapped,  \* history: "yes" since a request started while another one ran,
               \* "alone" while one that started alone after that rebuilds
  written      \* history: what the file was made from last

dbVars   == <<db, rules, provisioned>>
fileVars == <<file, loaded, stale, written>>
vars     == <<dbVars, fileVars, task, requests, faults, overlapped>>

Idle == [at |-> "idle"]
Quiet == \A t \in Tasks : task[t] = Idle

Finish(t)      == task' = [task EXCEPT ![t] = Idle]
Rebuild(t, of) == task' = [task EXCEPT ![t] = [at |-> "rebuild", of |-> of]]

Apartment(enabled, rows) == [enabled |-> enabled, rows |-> rows]
Rows(exts)  == exts \X {requests}
Rung(apt)   == {row[1] : row \in apt.rows}
Present(c)  == db[c] # None
RowsOf(c)   == IF Present(c) THEN db[c].rows ELSE {}

MayStart(t) ==
  /\ task[t] = Idle
  /\ overlapped' = IF ~Quiet THEN "yes"
                   ELSE IF overlapped = "yes" THEN "alone" ELSE overlapped
  /\ requests < MaxRequests
  /\ requests' = requests + 1

-----------------------------------------------------------------------------
(* The admin API                                                           *)

CreateApartment(t) ==
  /\ MayStart(t)
  /\ \E c \in Codes, enabled \in {"yes", "no"}, exts \in SUBSET Exts :
       /\ ~Present(c)
       /\ db' = [db EXCEPT ![c] = Apartment(enabled, Rows(exts))]
  /\ Rebuild(t, "apartments")
  /\ UNCHANGED <<rules, provisioned, fileVars, faults>>

(* The DELETE of the old monitors sees the rows committed before it: the   *)
(* session of a request that runs at the same time may add others.         *)
Replace(t, c, to, enabled, exts) ==
  task' = [task EXCEPT ![t] = [at |-> "replace", code |-> c, to |-> to, enabled |-> enabled,
                               exts |-> exts, rows |-> Rows(exts),
                               seen |-> RowsOf(c), create |-> ~Present(c)]]

UpdateApartment(t) ==
  /\ MayStart(t)
  /\ \E c, to \in Codes, enabled \in {"yes", "no"}, exts \in SUBSET Exts :
       /\ Present(c)
       /\ to = c \/ ~Present(to)
       /\ Replace(t, c, to, enabled, exts)
  /\ UNCHANGED <<dbVars, fileVars, faults>>

(* An update without monitors touches no row of apartment_monitors.        *)
EditApartment(t) ==
  /\ MayStart(t)
  /\ \E c, to \in Codes, enabled \in {"yes", "no"} :
       /\ Present(c)
       /\ to = c \/ ~Present(to)
       /\ db' = [db EXCEPT ![c] = None, ![to] = Apartment(enabled, db[c].rows)]
  /\ Rebuild(t, "apartments")
  /\ UNCHANGED <<rules, provisioned, fileVars, faults>>

(* set_apartment_monitors: every extension must be provisioned.            *)
SetMonitors(t) ==
  /\ MayStart(t)
  /\ \E c \in Codes, exts \in SUBSET provisioned :
       /\ Present(c)
       /\ Replace(t, c, c, db[c].enabled, exts)
  /\ UNCHANGED <<dbVars, fileVars, faults>>

(* An apartment deleted or renamed meanwhile: the insert fails.  (So does  *)
(* here what would give a code to two apartments.)                         *)
CommitReplace(t) ==
  LET r == task[t]
      possible == /\ Present(r.code) = ~r.create
                  /\ r.to = r.code \/ ~Present(r.to)
  IN
  /\ r.at = "replace"
  /\ \/ /\ possible
        /\ db' = [db EXCEPT ![r.code] = None,
                            ![r.to]   = Apartment(r.enabled, (RowsOf(r.code) \ r.seen) \cup r.rows)]
        /\ Rebuild(t, "apartments")
     \/ /\ ~possible
        /\ Finish(t)
        /\ UNCHANGED db
  /\ UNCHANGED <<rules, provisioned, fileVars, requests, faults, overlapped>>

DeleteApartment(t) ==
  /\ MayStart(t)
  /\ \E c \in Codes :
       /\ Present(c)
       /\ db' = [db EXCEPT ![c] = None]
  /\ Rebuild(t, "apartments")
  /\ UNCHANGED <<rules, provisioned, fileVars, faults>>

(* POST /apartments/sync-dialplan *)
SyncDialplan(t) ==
  /\ MayStart(t)
  /\ Rebuild(t, "apartments")
  /\ UNCHANGED <<dbVars, fileVars, faults>>

(* routing_rules.py: create, update and delete of a rule.                  *)
EditRules(t) ==
  /\ MayStart(t)
  /\ \E rule \in Targets :
       rules' = IF rule \in rules THEN rules \ {rule} ELSE rules \cup {rule}
  /\ Rebuild(t, "rules")
  /\ UNCHANGED <<db, provisioned, fileVars, faults>>

-----------------------------------------------------------------------------
(* Commands of the cloud                                                   *)

(* Slip: the column enabled is left without a value.                       *)
CmdCreateBare ==
  /\ MayStart(Cloud)
  /\ \E c \in Codes :
       /\ ~Present(c)
       /\ db' = [db EXCEPT ![c] = Apartment(None, {})]
  /\ UNCHANGED <<rules, provisioned, fileVars, task, faults>>

(* _cmd_create_apartment does not rebuild: there is no one to ring yet.    *)
CmdCreate ==
  /\ MayStart(Cloud)
  /\ \E c \in Codes :
       /\ ~Present(c)
       /\ db' = [db EXCEPT ![c] = Apartment("yes", {})]
  /\ UNCHANGED <<rules, provisioned, fileVars, task, faults>>

CmdRename ==
  /\ MayStart(Cloud)
  /\ \E c, to \in Codes :
       /\ Present(c)
       /\ ~Present(to)
       /\ db' = [db EXCEPT ![c] = None, ![to] = db[c]]
  /\ Rebuild(Cloud, "apartments")
  /\ UNCHANGED <<rules, provisioned, fileVars, faults>>

(* Slip: the command that deletes an apartment leaves the dialplan alone.  *)
CmdDeleteOnly ==
  /\ MayStart(Cloud)
  /\ \E c \in Codes :
       /\ Present(c)
       /\ db' = [db EXCEPT ![c] = None]
  /\ UNCHANGED <<rules, provisioned, fileVars, task, faults>>

CmdDelete == DeleteApartment(Cloud)

(* _cmd_set_monitors creates the apartment it does not find.               *)
CmdSetMonitors ==
  /\ MayStart(Cloud)
  /\ \E c \in Codes, exts \in SUBSET Exts :
       Replace(Cloud, c, c, IF Present(c) THEN db[c].enabled ELSE "yes", exts)
  /\ UNCHANGED <<dbVars, fileVars, faults>>

(* _cmd_provision_endpoint, _add_monitor_to_apartment *)
CmdProvision ==
  /\ MayStart(Cloud)
  /\ \E c \in Codes, e \in Exts :
       /\ provisioned' = provisioned \cup {e}
       /\ task' = [task EXCEPT ![Cloud] = [at |-> "add", code |-> c, row |-> <<e, requests>>]]
  /\ UNCHANGED <<db, rules, fileVars, faults>>

AddMonitor ==
  LET c == task[Cloud].code
      row == task[Cloud].row
  IN
  /\ task[Cloud].at = "add"
  /\ \/ /\ ~Present(c)
        /\ Finish(Cloud)
        /\ UNCHANGED db
     \/ /\ Present(c)
        /\ db' = IF row[1] \in Rung(db[c]) THEN db ELSE [db EXCEPT ![c].rows = @ \cup {row}]
        /\ Rebuild(Cloud, "apartments")
  /\ UNCHANGED <<rules, provisioned, fileVars, requests, faults, overlapped>>

(* _cmd_revoke_endpoint *)
CmdRevoke ==
  /\ MayStart(Cloud)
  /\ \E e \in Exts :
       /\ provisioned' = provisioned \ {e}
       /\ db' = [c \in Codes |->
                   IF Present(c) THEN [db[c] EXCEPT !.rows = {row \in @ : row[1] # e}] ELSE None]
  /\ Rebuild(Cloud, "apartments")
  /\ UNCHANGED <<rules, fileVars, faults>>

-----------------------------------------------------------------------------
(* Rebuilding: both _rebuild_dialplan and _rebuild_all_dialplan read, ...  *)

Image ==
  [c \in Codes |-> IF Present(c) /\ db[c].enabled = "yes" THEN Rung(db[c]) ELSE NoExten]

RulesImage ==
  [c \in Codes |-> LET exts == {e \in Exts : <<c, e>> \in rules}
                   IN  IF exts = {} THEN NoExten ELSE exts]

Read(t) ==
  /\ task[t].at = "rebuild"
  /\ LET content == IF task[t].of = "rules" THEN RulesImage ELSE Image
     IN  task' = [task EXCEPT ![t] = [at |-> "write", of |-> task[t].of, content |-> content]]
  /\ UNCHANGED <<dbVars, fileVars, requests, faults, overlapped>>

(* ... and a thread writes.  The file is a bind mount (docker-compose.yml),*)
(* so os.replace fails with EBUSY, and _atomic_write opens the file for    *)
(* writing, which truncates it.                                            *)
Truncate(t) ==
  /\ task[t].at = "write"
  /\ file' = Torn
  /\ task' = [task EXCEPT ![t].at = "fill"]
  /\ UNCHANGED <<dbVars, loaded, stale, written, requests, faults, overlapped>>

(* Slip: the reload comes before the file has been written.                *)
FillAfterReload(t) ==
  /\ task[t].at = "fill"
  /\ loaded' = file
  /\ file' = task[t].content
  /\ written' = task[t].of
  /\ Finish(t)
  /\ UNCHANGED <<dbVars, stale, requests, faults, overlapped>>

Fill(t) ==
  /\ task[t].at = "fill"
  /\ file' = task[t].content
  /\ written' = task[t].of
  /\ task' = [task EXCEPT ![t] = [at |-> "reload"]]
  /\ UNCHANGED <<dbVars, loaded, stale, requests, faults, overlapped>>

(* _reload_via_docker_exec_dialplan *)
Reload(t) ==
  /\ task[t].at = "reload"
  /\ loaded' = file
  /\ stale' = "no"
  /\ overlapped' = IF overlapped = "alone" THEN "no" ELSE overlapped
  /\ Finish(t)
  /\ UNCHANGED <<dbVars, file, written, requests, faults>>

-----------------------------------------------------------------------------
(* Faults *)

Fault == faults < MaxFaults /\ faults' = faults + 1

(* The result of write_apartments_dialplan is not looked at.               *)
WriteOrReloadFails(t) ==
  /\ Fault
  /\ task[t].at \in {"write", "reload"}
  /\ stale' = "yes"
  /\ Finish(t)
  /\ UNCHANGED <<dbVars, file, loaded, written, requests, overlapped>>

(* The cloud session drops and cancels the command; a thread runs on.      *)
SessionDrops ==
  /\ Fault
  /\ task[Cloud].at \in {"replace", "add", "rebuild"}
  /\ stale' = IF task[Cloud].at = "rebuild" THEN "yes" ELSE stale
  /\ Finish(Cloud)
  /\ UNCHANGED <<dbVars, file, loaded, written, requests, overlapped>>

(* The backend restarts.  Its start does not rebuild the dialplan.         *)
Restart ==
  /\ Fault
  /\ stale' = IF \E t \in Tasks : task[t].at \in {"rebuild", "write", "fill", "reload"}
              THEN "yes" ELSE stale
  /\ task' = [t \in Tasks |-> Idle]
  /\ UNCHANGED <<dbVars, file, loaded, written, requests, overlapped>>

AsteriskRestart ==
  /\ Fault
  /\ loaded' = file
  /\ UNCHANGED <<dbVars, file, stale, written, task, requests, overlapped>>

-----------------------------------------------------------------------------
(* A new database is empty; the repository ships a file with extensions.   *)
Init ==
  /\ db = [c \in Codes |-> None]
  /\ rules = {}
  /\ provisioned = {}
  /\ \E exten \in {NoExten, Exts} : file = [c \in Codes |-> exten]
  /\ loaded = file
  /\ task = [t \in Tasks |-> Idle]
  /\ requests = 0
  /\ faults = 0
  /\ stale = "no"
  /\ overlapped = "no"
  /\ written = "shipped"

AdminRequest(t) ==
  \/ CreateApartment(t)
  \/ UpdateApartment(t)
  \/ EditApartment(t)
  \/ SetMonitors(t)
  \/ DeleteApartment(t)
  \/ SyncDialplan(t)
  \/ EditRules(t)

CloudCommand ==
  \/ CmdCreate
  \/ CmdRename
  \/ CmdDelete
  \/ CmdSetMonitors
  \/ CmdProvision
  \/ AddMonitor
  \/ CmdRevoke

TaskStep(t) ==
  \/ CommitReplace(t)
  \/ Read(t)
  \/ Truncate(t)
  \/ Fill(t)
  \/ Reload(t)
  \/ WriteOrReloadFails(t)

Next ==
  \/ \E t \in Admins : AdminRequest(t)
  \/ CloudCommand
  \/ \E t \in Tasks : TaskStep(t)
  \/ SessionDrops
  \/ Restart
  \/ AsteriskRestart

Spec == Init /\ [][Next]_vars

-----------------------------------------------------------------------------
(* Properties *)

TypeOK ==
  /\ \A c \in Codes : Present(c) =>
       /\ db[c].enabled \in {"yes", "no"}
       /\ db[c].rows \subseteq Exts \X Nat
  /\ rules \subseteq Targets
  /\ provisioned \subseteq Exts
  /\ file \in Content \cup {Torn}
  /\ loaded \in Content \cup {Torn}
  /\ \A t \in Tasks : task[t].at \in
       {"idle", "replace", "add", "rebuild", "write", "fill", "reload"}
  /\ requests \in Nat
  /\ faults \in Nat
  /\ stale \in {"yes", "no"}
  /\ overlapped \in {"yes", "no", "alone"}
  /\ written \in {"apartments", "rules", "shipped"}

Rings(content, c) ==
  IF content = Torn \/ content[c] = NoExten THEN {} ELSE content[c]

(* Requests that ran at the same time, and wrote the file in turns, still  *)
(* leave Asterisk with what is in the file, unless a fault cut one short   *)
(* and no later rebuild went through.  A truncated file that one request   *)
(* made Asterisk read while another was writing does not stay loaded.      *)
LoadedIsFile == Quiet /\ stale = "no" => loaded = file

(* apartments.py: "Regenerates extensions_apartments.conf and reloads      *)
(* dialplan."  Requests that run one after the other leave every code      *)
(* ringing the monitors of its apartment and no other extension, whichever *)
(* way the apartment was edited, and whatever faults or overlapping        *)
(* requests left behind before.  Exempt is the time from requests that     *)
(* overlapped, as the older reading of the database may be written last,   *)
(* to the next rebuild of one that runs alone; a file that                 *)
(* routing_rules.py made, which has none of the monitors; and the file that*)
(* a new system starts with, as the start does not rebuild it.             *)
RingsMonitors ==
  Quiet /\ stale = "no" /\ overlapped = "no" /\ written = "apartments" =>
    \A c \in Codes : Rings(loaded, c) = Rings(Image, c)

=============================================================================
