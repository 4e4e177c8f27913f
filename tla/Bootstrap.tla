------------------------------ MODULE Bootstrap ------------------------------
(***************************************************************************)
(* What the cloud tells the bridge of its own: the entrances, where the    *)
(* devices are, and the whitelist of plates.  A bootstrap_snapshot opens   *)
(* every session and follows every round of provisioning; plate_upsert and *)
(* plate_delete change the whitelist in between.                           *)
(* Source: backend/app/cloud/bridge.py (_cmd_bootstrap_snapshot,           *)
(* _cmd_plate_upsert, _cmd_plate_delete), with the admin requests that     *)
(* edit the same rows meanwhile.                                           *)
(*                                                                         *)
(* The receive loop runs one handler at a time and is the only writer of   *)
(* entrances and plates.  The session flushes only when it commits: what   *)
(* a handler adds is not in what the same handler selects afterwards.      *)
(* The database is PostgreSQL, with its foreign keys.  The links of plates *)
(* to apartments are left out: they resolve like those to entrances.       *)
(***************************************************************************)
EXTENDS Integers, Sequences

CONSTANTS
  Entrances,
  Devices,
  Apartments,
  Plates,        \* as normalize_plate leaves them; the cloud has each of them once
  None,
  Absent,
  MaxCloudEdits, \* bound: changes that the cloud makes
  MaxMoves,      \* bound: rows that an admin places
  MaxTroubles    \* bound: new sessions and emissions lost on the way to the cloud, together

Rows  == Devices \cup Apartments
Links == Entrances \cup {None}

ASSUME BootstrapAssumption ==
  /\ Devices \cap Apartments = {}
  /\ None \notin Entrances
  /\ Absent \notin Links
  /\ {MaxCloudEdits, MaxMoves, MaxTroubles} \subseteq Nat

VARIABLES
  (* the database of the bridge *)
  entrances,
  rows,          \* the devices and apartments that are there
  entrance_id,   \* of every row
  whitelist,     \* whitelist[p]: the entrance of plate p, or Absent
  (* the receive loop and the link *)
  handler,       \* the snapshot between its SELECTs and its commit
  down,          \* what the cloud sent and the loop has not taken
  told,          \* told[d]: a placement of d on its way to the cloud, or Absent
  (* the cloud *)
  cEntrances, cPlace, cWhitelist,
  gone,          \* entrances that the cloud has deleted; ids are not used again
  pushed,        \* the cloud has changed no entrance and no place since its last snapshot
  (* bounds and history *)
  edits, moves, troubles,
  fresh,         \* entrances that the last snapshot added
  failed,        \* the last snapshot was rolled back
  crossed        \* devices that an admin placed while a snapshot with another placement was
                 \* on its way, or whose placement the cloud never got

localVars == <<entrances, rows, entrance_id, whitelist>>
cloudVars == <<cEntrances, cPlace, cWhitelist, gone, pushed>>
histVars  == <<fresh, failed, crossed>>
vars == <<localVars, handler, down, told, cloudVars, edits, moves, troubles, histVars>>

Idle == [at |-> "idle"]

Snapshot == [kind |-> "snapshot", entrances |-> cEntrances, place |-> cPlace,
             whitelist |-> cWhitelist]

(* The commands of s, in their order.                                      *)
Resent(s) ==
  LET commands == {i \in DOMAIN s : s[i].kind # "snapshot"} IN
  {[i \in DOMAIN at |-> s[at[i]]] :
     at \in {f \in UNION {[1..n -> commands] : n \in 0..Len(s)} :
              /\ \A i, j \in DOMAIN f : i < j => f[i] < f[j]
              /\ \A c \in commands : \E i \in DOMAIN f : f[i] = c}}

SnapshotUnderWay ==
  \/ handler # Idle
  \/ \E i \in DOMAIN down : down[i].kind = "snapshot"

-----------------------------------------------------------------------------
(* The cloud *)

CloudEdits == edits < MaxCloudEdits /\ edits' = edits + 1

CloudAddsEntrance(e) ==
  /\ CloudEdits
  /\ e \notin cEntrances \cup gone
  /\ cEntrances' = cEntrances \cup {e}
  /\ pushed' = FALSE
  /\ UNCHANGED <<localVars, handler, down, told, cPlace, cWhitelist, gone, moves, troubles, histVars>>

CloudDropsEntrance(e) ==
  /\ CloudEdits
  /\ e \in cEntrances
  /\ cEntrances' = cEntrances \ {e}
  /\ gone' = gone \cup {e}
  /\ cPlace' = [d \in Devices |-> IF cPlace[d] = e THEN None ELSE cPlace[d]]
  /\ cWhitelist' = [p \in Plates |-> IF cWhitelist[p] = e THEN None ELSE cWhitelist[p]]
  /\ pushed' = FALSE
  /\ UNCHANGED <<localVars, handler, down, told, moves, troubles, histVars>>

CloudPlaces(d, e) ==
  /\ CloudEdits
  /\ e \in cEntrances
  /\ cPlace' = [cPlace EXCEPT ![d] = e]
  /\ pushed' = FALSE
  /\ UNCHANGED <<localVars, handler, down, told, cEntrances, cWhitelist, gone>>
  /\ UNCHANGED <<moves, troubles, histVars>>

CloudUpsertsPlate(p, link) ==
  /\ CloudEdits
  /\ link \in cEntrances \cup {None}
  /\ cWhitelist' = [cWhitelist EXCEPT ![p] = link]
  /\ down' = Append(down, [kind |-> "upsert", plate |-> p, link |-> link])
  /\ UNCHANGED <<localVars, handler, told, cEntrances, cPlace, gone, pushed>>
  /\ UNCHANGED <<moves, troubles, histVars>>

CloudDeletesPlate(p) ==
  /\ CloudEdits
  /\ cWhitelist[p] # Absent
  /\ cWhitelist' = [cWhitelist EXCEPT ![p] = Absent]
  /\ down' = Append(down, [kind |-> "delete", plate |-> p])
  /\ UNCHANGED <<localVars, handler, told, cEntrances, cPlace, gone, pushed>>
  /\ UNCHANGED <<moves, troubles, histVars>>

(* A round of provisioning ends with a snapshot.                           *)
CloudPushes ==
  /\ ~pushed
  /\ pushed' = TRUE
  /\ down' = Append(down, Snapshot)
  /\ crossed' = crossed \cup {d \in Devices : told[d] # Absent}
  /\ UNCHANGED <<localVars, handler, told, cEntrances, cPlace, cWhitelist, gone>>
  /\ UNCHANGED <<edits, moves, troubles, fresh, failed>>

(* A new session begins with a snapshot; then the cloud sends again the    *)
(* commands that were not acknowledged, or trusts the snapshot.            *)
NewSession ==
  /\ troubles < MaxTroubles
  /\ troubles' = troubles + 1
  /\ handler' = Idle
  /\ down' = <<Snapshot>> \/ (\E again \in Resent(down) : down' = <<Snapshot>> \o again)
  /\ pushed' = TRUE
  /\ crossed' = {d \in Devices : told[d] # Absent}
  /\ UNCHANGED <<localVars, told, cEntrances, cPlace, cWhitelist, gone>>
  /\ UNCHANGED <<edits, moves, fresh, failed>>

(* device_upserted arrives: the cloud files the device under an entrance   *)
(* that it still has.                                                      *)
CloudHears(d) ==
  /\ told[d] # Absent
  /\ told' = [told EXCEPT ![d] = Absent]
  /\ IF told[d] \in cEntrances
     THEN cPlace' = [cPlace EXCEPT ![d] = told[d]] /\ UNCHANGED crossed
     ELSE crossed' = crossed \cup {d} /\ UNCHANGED cPlace
  /\ UNCHANGED <<localVars, handler, down, cEntrances, cWhitelist, gone, pushed>>
  /\ UNCHANGED <<edits, moves, troubles, fresh, failed>>

UpsertLost(d) ==
  /\ told[d] # Absent
  /\ troubles < MaxTroubles
  /\ troubles' = troubles + 1
  /\ told' = [told EXCEPT ![d] = Absent]
  /\ crossed' = crossed \cup {d}
  /\ UNCHANGED <<localVars, handler, down, cloudVars, edits, moves, fresh, failed>>

-----------------------------------------------------------------------------
(* The admin API *)

(* PUT /devices/{id} or /apartments/{id} with an entrance, which must be   *)
(* there, or for a device with null, which is not sent to the cloud.       *)
Move(r, e) ==
  /\ moves < MaxMoves
  /\ moves' = moves + 1
  /\ r \in rows
  /\ e \in entrances \/ (e = None /\ r \in Devices)
  /\ entrance_id' = [entrance_id EXCEPT ![r] = e]
  /\ told' = IF r \in Devices /\ e # None THEN [told EXCEPT ![r] = e] ELSE told
  /\ crossed' = IF r \in Devices /\ (SnapshotUnderWay \/ e = None)
                THEN crossed \cup {r} ELSE crossed
  /\ UNCHANGED <<entrances, rows, whitelist, handler, down, cloudVars>>
  /\ UNCHANGED <<edits, troubles, fresh, failed>>

(* DELETE /devices/{id}, /apartments/{id}.  The cloud is not told.         *)
Remove(r) ==
  /\ r \in rows
  /\ rows' = rows \ {r}
  /\ entrance_id' = [entrance_id EXCEPT ![r] = None]
  /\ UNCHANGED <<entrances, whitelist, handler, down, told, cloudVars>>
  /\ UNCHANGED <<edits, moves, troubles, histVars>>

-----------------------------------------------------------------------------
(* _cmd_bootstrap_snapshot *)

(* Slip: only a device without an entrance is given the cloud's.           *)
SnapshotReadsBackfill ==
  /\ handler = Idle
  /\ down # <<>>
  /\ Head(down).kind = "snapshot"
  /\ LET s == Head(down)
         placed == {d \in Devices \cap rows :
                      s.place[d] \in entrances /\ entrance_id[d] = None}
     IN \E touched \in SUBSET (Devices \cap rows) :
          handler' = [at |-> "commit", snapshot |-> s, placed |-> placed,
                      writes |-> placed \cup touched]
  /\ down' = Tail(down)
  /\ UNCHANGED <<localVars, told, cloudVars, edits, moves, troubles, histVars>>

(* The devices that the cloud lists are loaded, and those it has elsewhere *)
(* are placed; any of them may get a cloud_id, a mac_address or its        *)
(* cloud_synced.  An entrance that this snapshot adds is not yet found.    *)
SnapshotReads ==
  /\ handler = Idle
  /\ down # <<>>
  /\ Head(down).kind = "snapshot"
  /\ LET s == Head(down)
         placed == {d \in Devices \cap rows :
                      s.place[d] \in entrances /\ entrance_id[d] # s.place[d]}
     IN \E touched \in SUBSET (Devices \cap rows) :
          handler' = [at |-> "commit", snapshot |-> s, placed |-> placed,
                      writes |-> placed \cup touched]
  /\ down' = Tail(down)
  /\ UNCHANGED <<localVars, told, cloudVars, edits, moves, troubles, histVars>>

(* Without any entrance in the snapshot none is removed.                   *)
Kept(s) == IF s.entrances = {} THEN entrances ELSE s.entrances

(* ON DELETE SET NULL *)
InKept(s, link) == IF link \in Kept(s) THEN link ELSE None

(* What a plate is linked to: an entrance of before this snapshot.         *)
Resolved(link) == IF link \in entrances THEN link ELSE None

(* Slip: no plate is removed if the snapshot lists none.                   *)
SweptCautiously(s) ==
  [p \in Plates |->
     IF s.whitelist[p] # Absent THEN InKept(s, Resolved(s.whitelist[p]))
     ELSE IF \A q \in Plates : s.whitelist[q] = Absent THEN whitelist[p]
     ELSE Absent]

(* Plates are those of the snapshot.                                       *)
Swept(s) ==
  [p \in Plates |-> IF s.whitelist[p] = Absent THEN Absent
                    ELSE InKept(s, Resolved(s.whitelist[p]))]

(* Slip: entrances are removed with no regard to what refers to them.      *)
UnlinkedForgotten(s, placed) ==
  [r \in Rows |-> IF r \in placed THEN s.place[r] ELSE entrance_id[r]]

(* The rows after the commit: no reference to a removed entrance is left.  *)
Unlinked(s, placed) ==
  [r \in Rows |-> InKept(s, IF r \in placed THEN s.place[r] ELSE entrance_id[r])]

(* All or nothing: a row deleted meanwhile that is to be written raises.   *)
SnapshotCommits ==
  /\ handler.at = "commit"
  /\ handler' = Idle
  /\ LET s == handler.snapshot IN
       IF handler.writes \subseteq rows
       THEN /\ entrances' = s.entrances \cup Kept(s)
            /\ fresh' = s.entrances \ entrances
            /\ entrance_id' = Unlinked(s, handler.placed)
            /\ whitelist' = Swept(s)
            /\ failed' = FALSE
       ELSE /\ failed' = TRUE
            /\ UNCHANGED <<entrances, fresh, entrance_id, whitelist>>
  /\ UNCHANGED <<rows, down, told, cloudVars, edits, moves, troubles, crossed>>

-----------------------------------------------------------------------------
(* _cmd_plate_upsert, _cmd_plate_delete: no other task writes plates, so   *)
(* that a handler which is not cancelled is one step.                      *)

PlateUpsert ==
  /\ handler = Idle
  /\ down # <<>>
  /\ Head(down).kind = "upsert"
  /\ whitelist' = [whitelist EXCEPT ![Head(down).plate] = Resolved(Head(down).link)]
  /\ down' = Tail(down)
  /\ UNCHANGED <<entrances, rows, entrance_id, handler, told, cloudVars>>
  /\ UNCHANGED <<edits, moves, troubles, histVars>>

PlateDelete ==
  /\ handler = Idle
  /\ down # <<>>
  /\ Head(down).kind = "delete"
  /\ whitelist' = [whitelist EXCEPT ![Head(down).plate] = Absent]
  /\ down' = Tail(down)
  /\ UNCHANGED <<entrances, rows, entrance_id, handler, told, cloudVars>>
  /\ UNCHANGED <<edits, moves, troubles, histVars>>

-----------------------------------------------------------------------------
(* A bridge with its rows and no entrance yet, before its first session.   *)
Init ==
  /\ entrances = {}
  /\ rows = Rows
  /\ entrance_id = [r \in Rows |-> None]
  /\ whitelist = [p \in Plates |-> Absent]
  /\ handler = Idle
  /\ down = <<>>
  /\ told = [d \in Devices |-> Absent]
  /\ cEntrances \in (SUBSET Entrances) \ {{}}
  /\ cPlace \in [Devices -> cEntrances \cup {None}]
  /\ cWhitelist = [p \in Plates |-> Absent]
  /\ gone = {}
  /\ pushed = FALSE
  /\ edits = 0
  /\ moves = 0
  /\ troubles = 0
  /\ fresh = {}
  /\ failed = FALSE
  /\ crossed = {}

Cloud ==
  \/ \E e \in Entrances : CloudAddsEntrance(e) \/ CloudDropsEntrance(e)
  \/ \E d \in Devices, e \in Entrances : CloudPlaces(d, e)
  \/ \E p \in Plates, link \in Links : CloudUpsertsPlate(p, link)
  \/ \E p \in Plates : CloudDeletesPlate(p)
  \/ CloudPushes
  \/ \E d \in Devices : CloudHears(d)

Trouble == NewSession \/ \E d \in Devices : UpsertLost(d)

Admin ==
  \/ \E r \in Rows, e \in Links : Move(r, e)
  \/ \E r \in Rows : Remove(r)

ReceiveLoop == SnapshotReads \/ SnapshotCommits \/ PlateUpsert \/ PlateDelete

Next == Cloud \/ Trouble \/ Admin \/ ReceiveLoop

Spec == Init /\ [][Next]_vars

-----------------------------------------------------------------------------
(* Properties *)

(* No row and no plate refers to an entrance that is not there: "deliver   *)
(* SET NULL semantics on every backend" (bridge.py).                       *)
TypeOK ==
  /\ entrances \subseteq Entrances
  /\ rows \subseteq Rows
  /\ entrance_id \in [Rows -> entrances \cup {None}]
  /\ whitelist \in [Plates -> entrances \cup {None, Absent}]
  /\ handler.at \in {"idle", "commit"}
  /\ told \in [Devices -> Entrances \cup {Absent}]
  /\ crossed \subseteq Devices

(* Nothing is on its way to the bridge.                                    *)
AtRest == down = <<>> /\ handler = Idle /\ pushed /\ ~failed

(* "The snapshot is a full per-bridge view", "Cloud is sole writer": when  *)
(* the receive loop has taken all that the cloud sent, over whatever       *)
(* sessions, the bridge has the entrances and plates of the cloud, with    *)
(* their links - except links to an entrance that the last snapshot added, *)
(* and until the next snapshot if the last one was rolled back.  A cloud   *)
(* without entrances is not followed: nothing is swept then.               *)
CloudOwnedFollows ==
  AtRest /\ cEntrances # {} =>
    /\ entrances = cEntrances
    /\ \A p \in Plates :
         \/ whitelist[p] = cWhitelist[p]
         \/ whitelist[p] = None /\ cWhitelist[p] \in fresh

(* When nothing is on its way either way, a device is where the cloud has  *)
(* it, unless an admin placed it while a snapshot was on its way or the    *)
(* cloud did not get the placement - the next session repairs that, to the *)
(* cloud's view - or the last snapshot added the entrance itself.          *)
PlacementsAgree ==
  AtRest =>
    \A d \in (Devices \cap rows) \ crossed :
      told[d] = Absent /\ cPlace[d] \in cEntrances \ fresh
        => entrance_id[d] = cPlace[d]

=============================================================================
