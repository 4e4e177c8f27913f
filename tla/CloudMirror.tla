---------------------------- MODULE CloudMirror -----------------------------
(***************************************************************************)
(* The mirror of the local apartments and devices in the cloud: an admin   *)
(* edit is committed, the dialplan (or go2rtc) is rebuilt, and then        *)
(* emit_apartment_upserted or emit_device_upserted reads the row again,    *)
(* marks it as not synced, and queues the upsert; the acknowledgement of   *)
(* the cloud marks it as synced; after a restart resync_pending emits what *)
(* is not synced.                                                          *)
(* Sources: backend/app/cloud/bridge.py, api/routes/apartments.py,         *)
(* api/routes/devices.py, main.py.                                         *)
(*                                                                         *)
(* Every database statement and every commit suspends its task, so a step  *)
(* of a task reaches from one suspension to the next.  The ORM writes only *)
(* the columns that differ from what it had loaded.  A row's content is    *)
(* its version; a code stands for the pair (entrance, call_code) by which  *)
(* the cloud and the acknowledgement name an apartment.                    *)
(***************************************************************************)
EXTENDS Integers, Sequences, Functions

CONSTANTS
  Apartments,
  Devices,
  Codes,
  Admins,         \* requests of the admin API that can be open at once
  Resync,         \* the task that main.py starts after every restart
  NoRow,
  MaxVersion,     \* bound: edits of one row
  MaxEdits,       \* bound: edits of all rows
  MaxTroubles     \* bound: upserts lost on the way to the cloud, new sessions of the cloud
                  \* link and restarts of the backend, together

Rows  == Apartments \cup Devices
Tasks == Admins \cup {Resync}

ASSUME CloudMirrorAssumption ==
  /\ Apartments \cap Devices = {}
  /\ NoRow \notin Rows
  /\ Codes # {}
  /\ Resync \notin Admins
  /\ {MaxVersion, MaxEdits} \subseteq Nat
  /\ MaxTroubles \in Nat

VARIABLES
  (* the database *)
  exists,      \* rows that are there
  version,     \* version[r]: how often row r was edited
  code,        \* code[r] of an apartment
  placed,      \* rows with an entrance
  synced,      \* rows whose cloud_synced is true
  failed,      \* rows whose last_cloud_sync_error is set
  (* the backend *)
  task,        \* the requests and the resync task
  phase,       \* of resync_pending: "collect", "run"
  pending,     \* the rows that it has yet to emit
  handler,     \* the receive loop's handler, between reading and committing
  (* the link and the cloud *)
  up,          \* upserts on their way to the cloud
  down,        \* what the cloud has sent and the receive loop has not read
  cloudVer,    \* the version of a row that the cloud applied last
  troubles,
  (* history *)
  sentVer,     \* the newest version handed to send_event
  ackedVer,    \* the newest version whose acknowledgement was committed
  dropped,     \* rows with an upsert lost since the last restart
  orphaned,    \* rows whose last edit was committed and not emitted, as its request died
               \* before, emits nothing, or may have read the row before a snapshot placed it
  overacked,   \* rows marked as synced by the acknowledgement of an older version or of
               \* another row, or by a bootstrap_snapshot before the cloud has them
  misordered   \* rows of which an older version was queued after a newer one, until the cloud
               \* has applied the newest, with no older one behind it

dbVars      == <<exists, version, code, placed, synced, failed>>
taskVars    == <<task, phase, pending>>
linkVars    == <<up, down, handler, cloudVer, troubles>>
overlapVars == <<overacked, misordered>>
historyVars == <<sentVer, ackedVer, dropped, orphaned, overlapVars>>
vars == <<dbVars, taskVars, linkVars, historyVars>>

Upsert == [row : Rows, ver : Nat, code : Codes]

Idle == [at |-> "idle", row |-> NoRow]

NoHandler == [at |-> "idle"]

Goto(t, place) == task' = [task EXCEPT ![t].at = place]
Finish(t)      == task' = [task EXCEPT ![t] = Idle]

-----------------------------------------------------------------------------
(* The admin API *)

MayEdit(r) ==
  /\ version[r] < MaxVersion
  /\ FoldFunction(+, 0, version) < MaxEdits

(* Request t has committed an edit of row r.                               *)
Committed(t, r, c) ==
  /\ version' = [version EXCEPT ![r] = @ + 1]
  /\ code' = [code EXCEPT ![r] = c]
  /\ task' = [task EXCEPT ![t] = [at |-> "read", row |-> r]]
  /\ orphaned' = orphaned \ {r}

Create(t, r) ==
  /\ task[t] = Idle
  /\ r \notin exists
  /\ version[r] = 0
  /\ MayEdit(r)
  /\ exists' = exists \cup {r}
  /\ \E c \in Codes : Committed(t, r, c)
  /\ placed' \in {placed, placed \cup {r}}
  /\ UNCHANGED <<synced, failed, phase, pending, linkVars, sentVer, ackedVer, dropped, overlapVars>>

(* The entrance of a device can be removed, that of an apartment cannot.   *)
Update(t, r) ==
  /\ task[t] = Idle
  /\ r \in exists
  /\ MayEdit(r)
  /\ \E c \in Codes : Committed(t, r, c)
  /\ \/ placed' \in {placed, placed \cup {r}}
     \/ r \in Devices /\ placed' = placed \ {r}
  /\ UNCHANGED <<exists, synced, failed, phase, pending, linkVars, sentVer, ackedVer, dropped, overlapVars>>

(* The cloud is not told.  Ids are not used again: the history of the row  *)
(* is of no more interest.                                                 *)
Delete(r) ==
  /\ r \in exists
  /\ exists' = exists \ {r}
  /\ placed' = placed \ {r}
  /\ synced' = synced \ {r}
  /\ failed' = failed \ {r}
  /\ sentVer' = [sentVer EXCEPT ![r] = 0]
  /\ ackedVer' = [ackedVer EXCEPT ![r] = 0]
  /\ dropped' = dropped \ {r}
  /\ orphaned' = orphaned \ {r}
  /\ overacked' = overacked \ {r}
  /\ misordered' = misordered \ {r}
  /\ UNCHANGED <<version, code, taskVars, linkVars>>

(* POST /apartments/{call_code}/monitors and POST /devices/{id}/sip-apply: *)
(* the upsert of an apartment holds its monitors and that of a device its  *)
(* SIP account, but these requests emit none.                              *)
EditSilently(r) ==
  /\ r \in exists
  /\ MayEdit(r)
  /\ version' = [version EXCEPT ![r] = @ + 1]
  /\ orphaned' = orphaned \cup {r}
  /\ UNCHANGED <<exists, code, placed, synced, failed, taskVars, linkVars>>
  /\ UNCHANGED <<sentVer, ackedVer, dropped, overlapVars>>

(* Before the row is read for the cloud, the dialplan or go2rtc is rebuilt.*)
(* The former may raise: the request fails after its commit.               *)
RebuildFails(t) ==
  /\ t \in Admins
  /\ task[t].at = "read"
  /\ task[t].row \in Apartments
  /\ Finish(t)
  /\ orphaned' = orphaned \cup {task[t].row}
  /\ UNCHANGED <<dbVars, phase, pending, linkVars, sentVer, ackedVer, dropped, overlapVars>>

-----------------------------------------------------------------------------
(* emit_apartment_upserted, emit_device_upserted *)

EmitRead(t) ==
  LET r == task[t].row IN
  /\ task[t].at = "read"
  /\ task' = [task EXCEPT ![t] =
       IF r \notin exists THEN Idle
       ELSE [at     |-> IF r \in placed THEN "dirty" ELSE "unplaced",
             row    |-> r,
             loaded |-> r \in synced,
             msg    |-> [row |-> r, ver |-> version[r], code |-> code[r]]]]
  /\ UNCHANGED <<dbVars, phase, pending, linkVars, historyVars>>

(* Only a row that was loaded as synced is written.                        *)
ClearSynced(t) == synced' = IF task[t].loaded THEN synced \ {task[t].row} ELSE synced

(* Slips: the row keeps its mark; the error is stored without looking      *)
(* whether the row is there.                                               *)
MarkUnplacedForgotten(t) ==
  /\ task[t].at = "unplaced"
  /\ failed' = IF task[t].row \in exists THEN failed \cup {task[t].row} ELSE failed
  /\ Finish(t)
  /\ UNCHANGED <<exists, version, code, placed, synced, phase, pending, linkVars, historyVars>>

MarkUnplacedBlindly(t) ==
  /\ task[t].at = "unplaced"
  /\ ClearSynced(t)
  /\ failed' = failed \cup {task[t].row}
  /\ Finish(t)
  /\ UNCHANGED <<exists, version, code, placed, phase, pending, linkVars, historyVars>>

(* Without an entrance there is nothing that the cloud could file it under.*)
MarkUnplaced(t) ==
  /\ task[t].at = "unplaced"
  /\ IF task[t].row \in exists
     THEN ClearSynced(t) /\ failed' = failed \cup {task[t].row}
     ELSE UNCHANGED <<synced, failed>>
  /\ Finish(t)
  /\ UNCHANGED <<exists, version, code, placed, phase, pending, linkVars, historyVars>>

(* Slip: the row is not marked.                                            *)
MarkDirtyForgotten(t) ==
  /\ task[t].at = "dirty"
  /\ Goto(t, "send")
  /\ UNCHANGED <<dbVars, phase, pending, linkVars, historyVars>>

(* Writing to a row that was deleted meanwhile raises.                     *)
MarkDirty(t) ==
  /\ task[t].at = "dirty"
  /\ ClearSynced(t)
  /\ IF task[t].loaded /\ task[t].row \notin exists THEN Finish(t) ELSE Goto(t, "send")
  /\ overacked' = IF task[t].loaded THEN overacked \ {task[t].row} ELSE overacked
  /\ UNCHANGED <<exists, version, code, placed, failed, phase, pending, linkVars>>
  /\ UNCHANGED <<sentVer, ackedVer, dropped, orphaned, misordered>>

Trouble == troubles < MaxTroubles /\ troubles' = troubles + 1

Lost(r) ==
  /\ Trouble
  /\ dropped' = dropped \cup {r}

(* send_event: the queue takes the upsert, or is full and drops it.        *)
Send(t) ==
  LET m == task[t].msg IN
  /\ task[t].at = "send"
  /\ Finish(t)
  /\ sentVer' = [sentVer EXCEPT ![m.row] = IF @ < m.ver THEN m.ver ELSE @]
  /\ misordered' = IF m.ver < sentVer[m.row] THEN misordered \cup {m.row} ELSE misordered
  /\ \/ /\ up' = Append(up, m)
        /\ UNCHANGED <<troubles, dropped>>
     \/ /\ Lost(m.row)
        /\ UNCHANGED up
  /\ UNCHANGED <<dbVars, phase, pending, down, handler, cloudVer>>
  /\ UNCHANGED <<ackedVer, orphaned, overacked>>

-----------------------------------------------------------------------------
(* resync_pending *)

(* Slip: only the rows with an error are emitted again.                    *)
ResyncCollectFailed ==
  /\ phase = "collect"
  /\ phase' = "run"
  /\ pending' = exists \cap placed \cap failed
  /\ UNCHANGED <<dbVars, task, linkVars, historyVars>>

ResyncCollect ==
  /\ phase = "collect"
  /\ phase' = "run"
  /\ pending' = (exists \cap placed) \ synced
  /\ UNCHANGED <<dbVars, task, linkVars, historyVars>>

ResyncNext(r) ==
  /\ task[Resync] = Idle
  /\ r \in pending
  /\ pending' = pending \ {r}
  /\ task' = [task EXCEPT ![Resync] = [at |-> "read", row |-> r]]
  /\ UNCHANGED <<dbVars, phase, linkVars, historyVars>>

-----------------------------------------------------------------------------
(* The link and the cloud *)

(* A session breaks while it carries an upsert.                            *)
LoseUpsert ==
  /\ \E i \in DOMAIN up :
       /\ Lost(up[i].row)
       /\ up' = SubSeq(up, 1, i - 1) \o SubSeq(up, i + 1, Len(up))
  /\ UNCHANGED <<dbVars, taskVars, down, handler, cloudVer>>
  /\ UNCHANGED <<sentVer, ackedVer, orphaned, overlapVars>>

OlderBehind(m) == \E i \in DOMAIN Tail(up) : Tail(up)[i].row = m.row /\ Tail(up)[i].ver < m.ver

CloudApplies ==
  /\ up # <<>>
  /\ LET m == Head(up) IN
       /\ cloudVer' = [cloudVer EXCEPT ![m.row] = m.ver]
       /\ down' = Append(down, [kind |-> "ack", row |-> m.row, ver |-> m.ver, code |-> m.code])
       /\ misordered' = IF m.ver = sentVer[m.row] /\ ~OlderBehind(m) THEN misordered \ {m.row}
                                                                    ELSE misordered
  /\ up' = Tail(up)
  /\ UNCHANGED <<dbVars, taskVars, handler, troubles>>
  /\ UNCHANGED <<sentVer, ackedVer, dropped, orphaned, overacked>>

(* A new session: what the old one had not read is gone, and the cloud     *)
(* sends its view of devices and entrances.                                *)
Reconnect ==
  /\ Trouble
  /\ down' = <<[kind |-> "boot"]>>
  /\ handler' = NoHandler
  /\ UNCHANGED <<dbVars, taskVars, up, cloudVer, historyVars>>

Restart ==
  /\ Trouble
  /\ up' = <<>>
  /\ down' = <<>>
  /\ handler' = NoHandler
  /\ task' = [t \in Tasks |-> Idle]
  /\ phase' = "collect"
  /\ pending' = {}
  /\ dropped' = {}
  /\ orphaned' = orphaned \cup {task[t].row : t \in {a \in Admins :
                                  task[a].at \in {"read", "dirty", "unplaced"}}}
  /\ UNCHANGED <<dbVars, cloudVer, sentVer, ackedVer, overlapVars>>

-----------------------------------------------------------------------------
(* The receive loop: apartment_upserted_ack, device_upserted_ack and       *)
(* bootstrap_snapshot.  Each reads, decides, and commits.                  *)

(* A device is found by its local_id, an apartment by the code it has now: *)
(* the first one in the database, as codes need not be unique and the      *)
(* acknowledgement need not name the entrance.                             *)
Matches(ack) ==
  IF ack.row \in Devices
  THEN {ack.row} \cap exists
  ELSE {a \in exists \cap Apartments : code[a] = ack.code}

AckRead ==
  /\ handler = NoHandler
  /\ down # <<>>
  /\ Head(down).kind = "ack"
  /\ LET ack == Head(down) IN
       \/ /\ Matches(ack) = {}
          /\ UNCHANGED handler
       \/ \E r \in Matches(ack) :
            handler' = [at |-> "commit", ack |-> ack, rows |-> {r},
                        mark |-> {r} \ synced, clear |-> {r} \cap failed,
                        swept |-> {}, given |-> {}]
  /\ down' = Tail(down)
  /\ UNCHANGED <<dbVars, taskVars, up, cloudVer, troubles, historyVars>>

(* The cloud may know any device, from upserts or device snapshots, and    *)
(* may have deleted any entrance.  The entrance that it knows for a device *)
(* replaces the local one.                                                 *)
BootRead ==
  /\ handler = NoHandler
  /\ down # <<>>
  /\ Head(down).kind = "boot"
  /\ \E D \in SUBSET (Devices \cap exists) :
       \E G \in SUBSET D : \E S \in SUBSET (placed \ G) :
         handler' = [at |-> "commit", ack |-> Head(down), rows |-> D,
                     mark |-> D \ synced, clear |-> D \cap failed,
                     swept |-> S, given |-> G]
  /\ down' = Tail(down)
  /\ UNCHANGED <<dbVars, taskVars, up, cloudVer, troubles, historyVars>>

(* What is acknowledged is not what row r holds.  A bootstrap_snapshot is  *)
(* taken for the acknowledgement of all devices that it lists, whatever    *)
(* version of them the cloud has.                                          *)
Outdated(r) ==
  IF handler.ack.kind = "ack"
  THEN handler.ack.row # r \/ handler.ack.ver < version[r]
  ELSE ackedVer[r] < version[r] \/ cloudVer[r] # version[r]

(* The commit is rolled back if a row that it writes was deleted meanwhile.*)
HandlerCommits ==
  /\ handler.at = "commit"
  /\ handler' = NoHandler
  /\ IF handler.mark \cup handler.clear \cup handler.given \subseteq exists
     THEN /\ synced' = synced \cup handler.mark
          /\ failed' = failed \ handler.clear
          /\ placed' = ((placed \ handler.swept) \cup handler.given) \cap exists
          /\ ackedVer' =
               IF handler.ack.kind = "ack"
               THEN [ackedVer EXCEPT ![handler.ack.row] =
                       IF @ < handler.ack.ver THEN handler.ack.ver ELSE @]
               ELSE ackedVer
          /\ overacked' = overacked \cup {r \in handler.mark : Outdated(r)}
          /\ orphaned' = orphaned \cup {r \in handler.given : sentVer[r] < version[r]}
     ELSE UNCHANGED <<synced, failed, placed, ackedVer, overacked, orphaned>>
  /\ UNCHANGED <<exists, version, code, taskVars, up, down, cloudVer, troubles>>
  /\ UNCHANGED <<sentVer, dropped, misordered>>

-----------------------------------------------------------------------------
Init ==
  /\ exists = {}
  /\ version = [r \in Rows |-> 0]
  /\ code \in [Rows -> {CHOOSE c \in Codes : TRUE}]
  /\ placed = {}
  /\ synced = {}
  /\ failed = {}
  /\ task = [t \in Tasks |-> Idle]
  /\ phase = "collect"
  /\ pending = {}
  /\ handler = NoHandler
  /\ up = <<>>
  /\ down = <<>>
  /\ cloudVer = [r \in Rows |-> 0]
  /\ troubles = 0
  /\ sentVer = [r \in Rows |-> 0]
  /\ ackedVer = [r \in Rows |-> 0]
  /\ dropped = {}
  /\ orphaned = {}
  /\ overacked = {}
  /\ misordered = {}

Edit ==
  \/ \E t \in Admins, r \in Rows : Create(t, r) \/ Update(t, r)
  \/ \E r \in Rows : Delete(r) \/ EditSilently(r)

(* A task that was started runs on.                                        *)
TaskStep(t) ==
  \/ EmitRead(t)
  \/ MarkUnplaced(t)
  \/ MarkDirty(t)
  \/ Send(t)

ResyncStep == ResyncCollect \/ \E r \in Rows : ResyncNext(r)

Environment ==
  \/ LoseUpsert
  \/ CloudApplies
  \/ Reconnect
  \/ Restart

ReceiveStep == AckRead \/ BootRead \/ HandlerCommits

Next ==
  \/ Edit
  \/ \E t \in Tasks : TaskStep(t) \/ RebuildFails(t)
  \/ ResyncStep
  \/ Environment
  \/ ReceiveStep

Spec == Init /\ [][Next]_vars

(* Tasks run on; the link delivers, apart from the bounded losses.         *)
FairSpec ==
  /\ Spec
  /\ \A t \in Tasks : WF_vars(TaskStep(t))
  /\ WF_vars(ResyncStep)
  /\ WF_vars(CloudApplies)

-----------------------------------------------------------------------------
(* Properties *)

TypeOK ==
  /\ exists \subseteq Rows
  /\ version \in [Rows -> Nat]
  /\ code \in [Rows -> Codes]
  /\ placed \subseteq exists
  /\ synced \subseteq exists
  /\ failed \subseteq exists
  /\ phase \in {"collect", "run"}
  /\ pending \subseteq Rows
  /\ up \in Seq(Upsert)
  /\ cloudVer \in [Rows -> Nat]
  /\ \A t \in Tasks : task[t].at \in {"idle", "read", "dirty", "unplaced", "send"}
  /\ handler.at \in {"idle", "commit"}

(* bridge.py on emit_apartment_upserted: "flip back to true only when the  *)
(* ack actually arrives.  If we crash before ack, startup resync will      *)
(* re-fire": while the newest upsert of a row is not acknowledged, the row *)
(* is among those that resync_pending selects, however edits, emissions,   *)
(* the resync and acknowledgements overlap - but for rows that the         *)
(* acknowledgement of an older version marked.                             *)
UnackedStaysDirty ==
  \A r \in exists \ overacked :
    sentVer[r] > ackedVer[r] => r \notin synced

(* The database says "synced" only of rows whose last edit the cloud has,  *)
(* or whose request is still running, died between its commit and the mark,*)
(* or emits nothing.  Exempt are rows marked by an outdated acknowledgement*)
(* and, until the newest content has followed it, rows of which the older  *)
(* content was queued last.                                                *)
SyncedMeansMirrored ==
  \A r \in synced :
    \/ cloudVer[r] = version[r]
    \/ r \in orphaned \cup overacked \cup misordered
    \/ \E t \in Admins : task[t].row = r /\ task[t].at \in {"read", "dirty", "unplaced"}

(* The last committed version of a row with an entrance reaches the cloud, *)
(* in spite of crashes before, while and after it is emitted, unless an    *)
(* upsert of the row was lost since the last restart, or its request died  *)
(* before it marked the row, or emits nothing, or overlapping requests     *)
(* queued the older content last, or an outdated acknowledgement hid the   *)
(* row from the resync.                                                    *)
EditReachesCloud ==
  \A r \in Rows :
    r \in exists \cap placed
      ~> \/ cloudVer[r] = version[r]
         \/ r \notin exists \cap placed
         \/ r \in dropped \cup orphaned \cup overacked \cup misordered

=============================================================================
