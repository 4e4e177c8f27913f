------------------------------- MODULE Devices -------------------------------
(***************************************************************************)
(* The devices of an installation: the requests of the admin API that edit,*)
(* test and delete them or give them a SIP account, and the poll that      *)
(* stores which of them can be reached.                                    *)
(* Sources: backend/app/api/routes/devices.py, services/device_service.py, *)
(* services/polling_service.py, services/connectivity_service.py,          *)
(* services/sip_service.py (apply_credentials), db/session.py, and the     *)
(* handlers of cloud/bridge.py that write devices.                         *)
(*                                                                         *)
(* Every task has a database session of its own.  A flush writes to the    *)
(* row and locks it until the session commits or is rolled back; others    *)
(* that want the row wait.  A poll cycle is one transaction: the rows of   *)
(* the devices it has probed stay locked while it probes the others.  A    *)
(* read never waits and sees what is committed.  The ORM writes only what  *)
(* differs from the value it had read.                                     *)
(*                                                                         *)
(* sip-apply edits pjsip.conf in place and reloads Asterisk without giving *)
(* up the event loop: meanwhile only threads and other processes go on,    *)
(* and nothing else does any more if the reload never returns.             *)
(***************************************************************************)
EXTENDS Integers

CONSTANTS
  Devs,           \* ids of devices
  Panels,         \* devices that are given SIP accounts
  Passwords,      \* of SIP accounts
  Special,        \* passwords with characters that re.escape escapes
  NoValue,        \* no password, no value
  MaxRequests,    \* bound: requests
  MaxTrouble      \* bound: changes of what is reachable, commands of the cloud that
                  \* write devices, failing, hanging or other reloads, and restarts
                  \* of a process that does not hang, together

ASSUME DevicesAssumption ==
  /\ Devs \subseteq Nat
  /\ Panels \subseteq Devs
  /\ Special \subseteq Passwords
  /\ Passwords # {}
  /\ NoValue \notin Devs /\ NoValue \notin Passwords \cup {"yes", "no"}
  /\ {MaxRequests, MaxTrouble} \subseteq Nat

(* Requests of the admin API, in the order in which they arrive.           *)
Requests == 1..MaxRequests

VARIABLES
  (* the table of devices, as committed *)
  exists, used,    \* rows that are there; ids that were given out
  password,        \* sip_password of each row
  online,          \* is_online of each row: "yes" or "no"
  (* pjsip.conf *)
  file, loaded,    \* password of each account in the file and in Asterisk
  half,            \* Asterisk has loaded a file that was being written
  wiped,           \* the process died while the file was being written
  hung,            \* the event loop is in a reload that never returns
  (* tasks *)
  req,             \* the requests
  poll,            \* the polling task
  handler,         \* the receive loop's handler, if it writes devices
  (* the rest *)
  reach,           \* devices that answer on the network
  told,            \* password that the last sip-apply of a device reported as applied
  requests,        \* requests that have arrived so far
  trouble          \* of MaxTrouble, so far

rowVars  == <<exists, used, password, online>>
confVars == <<file, loaded, half, wiped, hung>>
deviceVars == <<rowVars, confVars, req, poll, handler, reach, told, requests, trouble>>

Kinds == {"create", "update", "delete", "test", "sip"}

(* How a session holds a row: for the foreign key of a log entry that it   *)
(* has inserted, for an UPDATE, or for a DELETE or an UPDATE of a column   *)
(* that is unique, which rules out the others.                             *)
Conflict(m, n) ==
  /\ "no" \notin {m, n}
  /\ {m, n} = {"update"} \/ "all" \in {m, n}

HeldByRequest(r, d) == IF req[r].dev = d THEN req[r].held ELSE "no"
HeldByPoll(d)       == IF d \in DOMAIN poll.wrote THEN poll.wrote[d].held ELSE "no"

(* The handler sets another cloud_id, which is unique, in some of its rows.*)
HandlerMode(d)   == IF d \in handler.renamed THEN "all" ELSE "update"
HeldByHandler(d) == IF d \in handler.held THEN HandlerMode(d) ELSE "no"

FreeForRequest(r, d, m) ==
  /\ \A q \in Requests \ {r} : ~Conflict(HeldByRequest(q, d), m)
  /\ ~Conflict(HeldByPoll(d), m)
  /\ ~Conflict(HeldByHandler(d), m)

FreeForPoll(d, m) ==
  /\ \A q \in Requests : ~Conflict(HeldByRequest(q, d), m)
  /\ ~Conflict(HeldByHandler(d), m)

FreeForHandler(d) ==
  /\ \A q \in Requests : ~Conflict(HeldByRequest(q, d), HandlerMode(d))
  /\ ~Conflict(HeldByPoll(d), HandlerMode(d))

(* The event loop is not inside _apply_local and the like.                 *)
LoopFree == ~hung /\ \A r \in Requests : req[r].at \notin {"write", "reload"}

Trouble == trouble < MaxTrouble /\ trouble' = trouble + 1

-----------------------------------------------------------------------------
(* Requests *)

NoRequest == [at |-> "idle", kind |-> NoValue, dev |-> NoValue, val |-> NoValue,
              read |-> NoValue, held |-> "no", alone |-> TRUE]

(* Slip: create and update call emit_device_upserted before they commit.   *)
StepsEmitFirst(kind) ==
  CASE kind \in {"create", "update"} -> <<"flush", "emit", "commit", "idle">>
    [] kind = "delete"               -> <<"flush", "commit", "idle">>
    [] kind = "test"                 -> <<"probe", "flush", "commit", "idle">>
    [] kind = "sip"                  -> <<"open", "write", "reload", "flush", "commit", "idle">>

(* The steps of each route, one per suspension and one per access to the   *)
(* file: create and update commit before they mirror the device, in a      *)
(* session of its own; the others leave the commit to get_db.              *)
Steps(kind) ==
  CASE kind \in {"create", "update"} -> <<"flush", "commit", "emit", "idle">>
    [] kind = "delete"               -> <<"flush", "commit", "idle">>
    [] kind = "test"                 -> <<"probe", "flush", "commit", "idle">>
    [] kind = "sip"                  -> <<"open", "write", "reload", "flush", "commit", "idle">>

After(r) ==
  LET s == Steps(req[r].kind) IN
    s[1 + CHOOSE i \in DOMAIN s : s[i] = req[r].at]

(* Request r goes on to its next step, with the given change.              *)
GoOn(r, rec) ==
  req' = [req EXCEPT ![r] = IF After(r) = "idle" THEN NoRequest ELSE [rec EXCEPT !.at = After(r)]]

(* An error rolls the session back; a request that is answered is gone.    *)
Ends(r) == req' = [req EXCEPT ![r] = NoRequest]

EditsPassword(kind) == kind \in {"update", "sip"}

(* What a request stores: a password if it is about a panel.               *)
Values(kind, d) ==
  IF d \in Panels /\ kind \in {"create", "update", "sip"} THEN Passwords ELSE {NoValue}

(* get_device: the request reads the row, or answers 404.                  *)
Begin(r, kind, d, w) ==
  LET others == {q \in Requests \ {r} : req[q].dev = d /\ EditsPassword(req[q].kind)} IN
  /\ LoopFree
  /\ requests = r - 1
  /\ requests' = r
  /\ IF kind = "create" THEN d \notin used ELSE d \in exists
  /\ kind = "sip" => d \in Panels
  /\ used' = used \cup {d}
  /\ req' = [q \in Requests |->
       IF q = r THEN [at |-> Steps(kind)[1], kind |-> kind, dev |-> d,
                      val |-> w,
                      read |-> IF kind = "test" THEN online[d] ELSE password[d],
                      held |-> "no", alone |-> others = {}]
       ELSE IF q \in others /\ EditsPassword(kind) THEN [req[q] EXCEPT !.alone = FALSE]
       ELSE req[q]]
  /\ UNCHANGED <<exists, password, online, confVars, poll, handler, reach, told, trouble>>

(* connectivity_service.test_connection before it writes.                  *)
Probe(r) ==
  /\ LoopFree
  /\ req[r].at = "probe"
  /\ GoOn(r, [req[r] EXCEPT !.val = IF req[r].dev \in reach THEN "yes" ELSE "no"])
  /\ UNCHANGED <<rowVars, confVars, poll, handler, reach, told, requests, trouble>>

(* A device that answers gets a new last_seen; one that does not is only   *)
(* written if it was on line.  The log entry refers to the row in any case.*)
TestMode(val, read) == IF val = "yes" \/ val # read THEN "update" ELSE "share"

ModeOf(r) ==
  CASE req[r].kind = "delete" -> "all"
    [] req[r].kind = "test"   -> TestMode(req[r].val, req[r].read)
    [] OTHER                  -> IF req[r].dev \notin Panels \/ req[r].val # req[r].read
                                 THEN "update" ELSE "share"

Flush(r) ==
  /\ LoopFree
  /\ req[r].at = "flush"
  /\ IF req[r].kind = "create"
     THEN GoOn(r, [req[r] EXCEPT !.held = "all"])
     ELSE /\ FreeForRequest(r, req[r].dev, ModeOf(r))
          /\ IF req[r].dev \in exists
             THEN GoOn(r, [req[r] EXCEPT !.held = ModeOf(r)])
             ELSE Ends(r)
  /\ UNCHANGED <<rowVars, confVars, poll, handler, reach, told, requests, trouble>>

(* What is committed replaces the row's columns that were written.         *)
Commit(r) ==
  LET d == req[r].dev
      w == req[r].val
      wrote == req[r].kind = "create" \/ w # req[r].read
  IN
  /\ LoopFree
  /\ req[r].at = "commit"
  /\ GoOn(r, [req[r] EXCEPT !.held = "no"])
  /\ exists' = CASE req[r].kind = "create" -> exists \cup {d}
                 [] req[r].kind = "delete" -> exists \ {d}
                 [] OTHER                  -> exists
  /\ password' = IF req[r].kind \in {"create", "update", "sip"} /\ wrote
                 THEN [password EXCEPT ![d] = w] ELSE password
  /\ online' = IF req[r].kind = "test" /\ wrote
               THEN [online EXCEPT ![d] = w] ELSE online
  /\ told' = IF ~EditsPassword(req[r].kind) THEN told
             ELSE [told EXCEPT ![d] = IF req[r].kind = "sip" /\ req[r].alone THEN w ELSE NoValue]
  /\ UNCHANGED <<used, confVars, poll, handler, reach, requests, trouble>>

(* emit_device_upserted, in a session of its own: it writes cloud_synced   *)
(* only if the device counted as synced.                                   *)
Emit(r) ==
  /\ LoopFree
  /\ req[r].at = "emit"
  /\ FreeForRequest(r, req[r].dev, "update") /\ ~Conflict(req[r].held, "update")
  /\ GoOn(r, req[r])
  /\ UNCHANGED <<rowVars, confVars, poll, handler, reach, told, requests, trouble>>

-----------------------------------------------------------------------------
(* sip_service.apply_credentials *)

NoAccounts == [d \in Devs |-> NoValue]

(* What _apply_to_text makes of the file: a new block holds the password;  *)
(* in an existing one it is replaced by what re.escape makes of it.        *)
Stored(text, d, w) ==
  [text EXCEPT ![d] = IF @ # NoValue /\ w \in Special THEN <<"escaped", w>> ELSE w]

(* The file cannot be read or opened, or it is read, and truncated.        *)
OpenConf(r) ==
  /\ req[r].at = "open"
  /\ LoopFree
  /\ \/ /\ Ends(r)
        /\ UNCHANGED <<confVars, told>>
     \/ /\ GoOn(r, [req[r] EXCEPT !.val = [new |-> Stored(file, req[r].dev, @), pw |-> @]])
        /\ file' = NoAccounts
        /\ told' = [told EXCEPT ![req[r].dev] = NoValue]
        /\ UNCHANGED <<loaded, half, wiped, hung>>
  /\ UNCHANGED <<rowVars, poll, handler, reach, requests, trouble>>

WriteConf(r) ==
  /\ req[r].at = "write"
  /\ GoOn(r, [req[r] EXCEPT !.val = req[r].val.pw])
  /\ file' = req[r].val.new
  /\ UNCHANGED <<rowVars, loaded, half, wiped, hung, poll, handler, reach, told, requests, trouble>>

(* Slip: the outcome of the reload is not looked at.                       *)
ReloadUnchecked(r) ==
  /\ ~hung
  /\ req[r].at = "reload"
  /\ loaded' \in {loaded, file}
  /\ half' = (half /\ loaded' # file)
  /\ GoOn(r, req[r])
  /\ UNCHANGED <<rowVars, file, wiped, hung, poll, handler, reach, told, requests, trouble>>

(* reload_cmd or AMI, then docker exec.  Only if one of them succeeds, and *)
(* update_device was asked for, the row is updated.  A reload that is      *)
(* reported as failed may have taken place.                                *)
Reload(r) ==
  /\ ~hung
  /\ req[r].at = "reload"
  /\ \/ /\ loaded' = file
        /\ half' = FALSE
        /\ GoOn(r, req[r]) \/ Ends(r)
        /\ UNCHANGED trouble
     \/ /\ Trouble
        /\ loaded' \in {loaded, file}
        /\ half' = (half /\ loaded' # file)
        /\ Ends(r)
  /\ UNCHANGED <<rowVars, file, wiped, hung, poll, handler, reach, told, requests>>

(* _reload_via_ami on the event loop, for sip-apply or for the debounced   *)
(* reload of the webrtc endpoints: if Asterisk closes the connection before*)
(* it has sent its banner, recv returns nothing for ever, which is neither *)
(* an error nor a timeout, and the loop that waits for the banner goes on. *)
ReloadHangs ==
  /\ Trouble
  /\ ~hung
  /\ \A r \in Requests : req[r].at # "write"
  /\ hung' = TRUE
  /\ UNCHANGED <<rowVars, file, loaded, half, wiped, req, poll, handler, reach, told, requests>>

(* A reload of another thread (webrtc endpoints, the dialplan), or Asterisk*)
(* restarts: whatever the file holds.                                      *)
OtherReload ==
  /\ Trouble
  /\ loaded # file
  /\ loaded' = file
  /\ half' = \E r \in Requests : req[r].at = "write"
  /\ UNCHANGED <<rowVars, file, wiped, hung, req, poll, handler, reach, told, requests>>

-----------------------------------------------------------------------------
(* polling_service *)

NoPoll == [at |-> "idle", todo |-> {}, read |-> <<>>, dev |-> NoValue, val |-> NoValue,
           wrote |-> <<>>]

PollLoad ==
  /\ LoopFree
  /\ poll.at = "idle"
  /\ exists # {}
  /\ poll' = [NoPoll EXCEPT !.at = "probe", !.todo = exists,
                            !.read = [d \in exists |-> online[d]]]
  /\ UNCHANGED <<rowVars, confVars, req, handler, reach, told, requests, trouble>>

PollProbe ==
  /\ LoopFree
  /\ poll.at = "probe"
  /\ \E d \in poll.todo :
       poll' = [poll EXCEPT !.at = "flush", !.todo = @ \ {d}, !.dev = d,
                            !.val = IF d \in reach THEN "yes" ELSE "no"]
  /\ UNCHANGED <<rowVars, confVars, req, handler, reach, told, requests, trouble>>

PollMode == TestMode(poll.val, poll.read[poll.dev])

PollWaits == poll.at = "flush" /\ ~FreeForPoll(poll.dev, PollMode)

PollFlush ==
  /\ LoopFree
  /\ poll.at = "flush"
  /\ FreeForPoll(poll.dev, PollMode)
  /\ poll.dev \in exists
  /\ poll' = [poll EXCEPT !.at = "probe", !.dev = NoValue, !.val = NoValue,
       !.read = [d \in poll.todo |-> @[d]],
       !.wrote = [d \in DOMAIN @ \cup {poll.dev} |->
                    IF d = poll.dev
                    THEN [held |-> PollMode,
                          val  |-> IF poll.val # poll.read[d] THEN poll.val ELSE NoValue]
                    ELSE @[d]]]
  /\ UNCHANGED <<rowVars, confVars, req, handler, reach, told, requests, trouble>>

(* Slip: the session of a failed flush is kept and used for ever.          *)
PollFailsForGood ==
  /\ LoopFree
  /\ poll.at = "flush"
  /\ FreeForPoll(poll.dev, PollMode)
  /\ poll.dev \notin exists
  /\ poll' = [NoPoll EXCEPT !.at = "broken"]
  /\ UNCHANGED <<rowVars, confVars, req, handler, reach, told, requests, trouble>>

(* A device was deleted since the cycle began: its flush fails and leaves  *)
(* the session unusable, so that the handling of the error fails as well:  *)
(* the cycle ends, and nothing of it is committed.                         *)
PollFails ==
  /\ LoopFree
  /\ poll.at = "flush"
  /\ FreeForPoll(poll.dev, PollMode)
  /\ poll.dev \notin exists
  /\ poll' = NoPoll
  /\ UNCHANGED <<rowVars, confVars, req, handler, reach, told, requests, trouble>>

(* Only what differs from the value that was read is written.              *)
PollCommit ==
  /\ LoopFree
  /\ poll.at = "probe"
  /\ poll.todo = {}
  /\ online' = [d \in Devs |->
       IF d \in DOMAIN poll.wrote /\ poll.wrote[d].val # NoValue
       THEN poll.wrote[d].val ELSE online[d]]
  /\ poll' = NoPoll
  /\ UNCHANGED <<exists, used, password, confVars, req, handler, reach, told, requests, trouble>>

-----------------------------------------------------------------------------
(* bootstrap_snapshot and device_upserted_ack of the cloud: one transaction*)
(* that writes cloud_synced, cloud_id and the entrance of some devices, in *)
(* the order of their ids.                                                 *)

NoHandler == [todo |-> {}, held |-> {}, renamed |-> {}]

HandlerBegins ==
  /\ LoopFree
  /\ handler = NoHandler
  /\ Trouble
  /\ \E D \in SUBSET exists \ {{}} : \E new \in SUBSET D :
       handler' = [todo |-> D, held |-> {}, renamed |-> new]
  /\ UNCHANGED <<rowVars, confVars, req, poll, reach, told, requests>>

NextRow == CHOOSE d \in handler.todo : \A e \in handler.todo : d <= e

HandlerWrites ==
  /\ LoopFree
  /\ handler.todo # {}
  /\ FreeForHandler(NextRow)
  /\ handler' = IF NextRow \in exists
                THEN [handler EXCEPT !.todo = @ \ {NextRow}, !.held = @ \cup {NextRow}]
                ELSE NoHandler
  /\ UNCHANGED <<rowVars, confVars, req, poll, reach, told, requests, trouble>>

HandlerCommits ==
  /\ LoopFree
  /\ handler.held # {}
  /\ handler.todo = {}
  /\ handler' = NoHandler
  /\ UNCHANGED <<rowVars, confVars, req, poll, reach, told, requests, trouble>>

HandlerWaits == handler.todo # {} /\ ~FreeForHandler(NextRow)

(* The database finds the poll and the handler waiting for each other and  *)
(* makes the statement of one of them fail.                                *)
DeadlockDetected ==
  /\ PollWaits /\ HandlerWaits
  /\ poll.dev \in handler.held
  /\ NextRow \in DOMAIN poll.wrote
  /\ \/ poll' = NoPoll /\ UNCHANGED handler
     \/ handler' = NoHandler /\ UNCHANGED poll
  /\ UNCHANGED <<rowVars, confVars, req, reach, told, requests, trouble>>

-----------------------------------------------------------------------------
(* The network and the process *)

Flip(d) ==
  /\ Trouble
  /\ reach' = IF d \in reach THEN reach \ {d} ELSE reach \cup {d}
  /\ UNCHANGED <<rowVars, confVars, req, poll, handler, told, requests>>

(* Whoever finds the process hanging restarts it.                          *)
DevicesRestart ==
  /\ IF hung THEN UNCHANGED trouble ELSE Trouble
  /\ hung' = FALSE
  /\ req' = [r \in Requests |-> NoRequest]
  /\ poll' = NoPoll
  /\ handler' = NoHandler
  /\ wiped' = (wiped \/ \E r \in Requests : req[r].at = "write")
  /\ UNCHANGED <<rowVars, file, loaded, half, reach, told, requests>>

DevicesInit ==
  /\ exists \in {{d \in Devs : d <= n} : n \in Devs}
  /\ used = exists
  /\ password = [d \in Devs |->
                  IF d \in Panels THEN CHOOSE w \in Passwords : TRUE ELSE NoValue]
  /\ online = [d \in Devs |-> "no"]
  /\ file = NoAccounts
  /\ loaded = NoAccounts
  /\ half = FALSE
  /\ wiped = FALSE
  /\ hung = FALSE
  /\ req = [r \in Requests |-> NoRequest]
  /\ poll = NoPoll
  /\ handler = NoHandler
  /\ reach = Devs
  /\ told = NoAccounts
  /\ requests = 0
  /\ trouble = 0

BeginSome(r) ==
  \E kind \in Kinds, d \in Devs : \E w \in Values(kind, d) : Begin(r, kind, d, w)

RequestStep(r) ==
  \/ Probe(r)
  \/ Flush(r)
  \/ Commit(r)
  \/ Emit(r)
  \/ OpenConf(r)
  \/ WriteConf(r)
  \/ Reload(r)

PollStep == PollLoad \/ PollProbe \/ PollFlush \/ PollFails \/ PollCommit

HandlerStep == HandlerWrites \/ HandlerCommits

DevicesNext ==
  \/ \E r \in Requests : BeginSome(r) \/ RequestStep(r)
  \/ PollStep
  \/ HandlerBegins
  \/ HandlerStep
  \/ DeadlockDetected
  \/ ReloadHangs
  \/ OtherReload
  \/ \E d \in Devs : Flip(d)
  \/ DevicesRestart

DevicesSpec == DevicesInit /\ [][DevicesNext]_deviceVars

(* Tasks run on unless the event loop hangs, which nobody is sure to end by*)
(* a restart.  Probes and other reloads time out, and the database grants  *)
(* a row to those who wait in their order (strong fairness).               *)
DevicesFairSpec ==
  /\ DevicesSpec
  /\ \A r \in Requests : SF_deviceVars(RequestStep(r))
  /\ WF_deviceVars(PollStep)
  /\ SF_deviceVars(HandlerStep)
  /\ WF_deviceVars(DeadlockDetected)

-----------------------------------------------------------------------------
(* Properties *)

Value == Passwords \cup {NoValue} \cup {<<"escaped", w>> : w \in Special}

DevicesTypeOK ==
  /\ exists \subseteq used
  /\ used \subseteq Devs
  /\ password \in [Devs -> Passwords \cup {NoValue}]
  /\ online \in [Devs -> {"yes", "no"}]
  /\ file \in [Devs -> Value]
  /\ loaded \in [Devs -> Value]
  /\ told \in [Devs -> Passwords \cup {NoValue}]
  /\ \A r \in Requests : req[r].held \in {"no", "share", "update", "all"}
  /\ \A r \in Requests : req[r].at # "commit" => req[r].held = "no"
  /\ DOMAIN poll.wrote \cup handler.held \cup handler.todo \subseteq used
  /\ hung \in BOOLEAN
  /\ reach \subseteq Devs

(* create_device: "if the request transaction is still open it holds a row *)
(* lock on this device and the two sessions self-deadlock."  Every request *)
(* ends, however many rows the poll and the handlers of the cloud hold,    *)
(* unless the whole backend hangs in a reload.                             *)
RequestsEnd == \A r \in Requests : []<>(req[r].at = "idle" \/ hung)

(* The poll stores in the end whether each device answers, although a      *)
(* cycle works on rows that it has read minutes before, loses all it has   *)
(* found when one of them is deleted, and may meet the handlers of the     *)
(* cloud in a deadlock.  It stops only where the event loop hangs, and     *)
(* goes on after the restart.                                              *)
StatusConverges ==
  \A d \in Devs : <>[](d \in exists /\ ~hung => (online[d] = "yes") = (d \in reach))

(* After a sip-apply that updated the device, the row, pjsip.conf and      *)
(* Asterisk have the same password, whatever else goes on, until the       *)
(* device gets another one.  Exempt are requests that give one device a    *)
(* password at the same time, passwords that re.escape changes, a process  *)
(* that died while it wrote the file, and Asterisk having loaded the file  *)
(* just then.                                                              *)
AppliedAgrees ==
  LoopFree /\ ~wiped =>
    \A d \in exists :
      told[d] \notin Special \cup {NoValue} =>
        /\ password[d] = told[d]
        /\ file[d] = told[d]
        /\ loaded[d] = told[d] \/ half

=============================================================================
