------------------------------ MODULE CloudLink ------------------------------
(***************************************************************************)
(* The persistent WebSocket link to the cloud, backend/app/cloud/bridge.py:*)
(* the reconnect loop, the handshake and the snapshot that follows it, the *)
(* bounded send queue that outlives the sessions, the send loop, and the   *)
(* receive loop that runs one cloud command at a time and acknowledges it. *)
(*                                                                         *)
(* Messages are numbered in the order in which the backend creates them.   *)
(* What the WebSocket library and the network hold is modelled by the two  *)
(* sequences wire and inbox; both vanish with the session.  A session may  *)
(* be dead for a while before anybody notices (ping timeout): nothing      *)
(* forces the wire to move before SessionEnds.                             *)
(*                                                                         *)
(* Commands carry a cmd_id.  The mirror state that the cloud sends without *)
(* one, and that gets no reply, is in CloudMirror and Bootstrap.           *)
(***************************************************************************)
EXTENDS Integers, Sequences, FiniteSets

CONSTANTS
  Commands,     \* numbers of the cloud's commands, in the order it sends them
  NoCommand,    \* numbered before all commands, as the token of the environment is
  Unknown,      \* commands whose type the dispatcher does not know
  Rotations,    \* update_bridge_token: the new token has the number of the command
  QueueSize,    \* maxsize of the send queue
  MaxBackoff,   \* the longest delay between two attempts, in seconds
  MaxEvents,    \* bound: events raised by the rest of the backend
  MaxTroubles   \* bound: attempts that fail, sessions and processes that end, together

ASSUME CloudLinkAssumption ==
  /\ Commands \subseteq Nat
  /\ NoCommand \in Nat
  /\ \A c \in Commands : NoCommand < c
  /\ Unknown \subseteq Commands
  /\ Rotations \subseteq Commands
  /\ QueueSize \in Nat \ {0}
  /\ MaxBackoff \in Nat \ {0}
  /\ {MaxEvents, MaxTroubles} \subseteq Nat

VARIABLES
  session,   \* "wait", "dial", "snapshot", "callstate", "up"
  backoff,   \* the variable of _reconnect_loop
  troubles,  \* attempts that failed, sessions and processes that ended
  queue,     \* _send_queue
  sender,    \* what the send loop has taken from the queue and not yet sent
  wire,      \* sent on this session, not yet received by the cloud
  received,  \* what the cloud has received, over all sessions
  raised,    \* events raised so far
  created,   \* messages created so far
  expired,   \* the messages up to this one are older than the TTL of a ring
  lost,      \* messages that were queued and never reached the cloud
  doomed,    \* rings that became too old while they were in the queue
  inbox,     \* commands sent by the cloud on this session
  issued,    \* commands the cloud has sent so far
  running,   \* the command whose handler runs
  done,      \* commands whose handler has had its effect
  token,     \* settings.cloud_bridge_token, presented by each attempt to connect
  stored,    \* the token in the file; the one of the environment if there is none
  unread     \* history: the last start could not read the file, and no token came since

linkVars    == <<session, backoff, troubles>>
queueVars   == <<queue, sender, created, lost>>
wireVars    == <<wire, received>>
commandVars == <<inbox, issued, running, done>>
agedVars    == <<expired, doomed>>
tokenVars   == <<token, stored, unread>>
vars == <<linkVars, queueVars, wireVars, raised, agedVars, commandVars, tokenVars>>

Kinds == {"ring", "event", "snapshot", "ack", "nack"}

Message == [id : Nat, kind : Kinds, cmd : Commands \cup {NoCommand}]

Elements(s) == {s[i] : i \in DOMAIN s}

(* The messages on their way to the cloud, the oldest first.               *)
Outgoing == wire \o sender \o queue

-----------------------------------------------------------------------------
(* Slip: a queue without a limit.                                          *)
EnqueueUnbounded(kind, cmd) ==
  /\ created' = created + 1
  /\ queue' = Append(queue, [id |-> created + 1, kind |-> kind, cmd |-> cmd])
  /\ UNCHANGED <<sender, lost>>

(* send_event and send_ack: never wait; a message that finds the queue     *)
(* full is dropped.                                                        *)
Enqueue(kind, cmd) ==
  /\ created' = created + 1
  /\ queue' = IF Len(queue) < QueueSize
              THEN Append(queue, [id |-> created + 1, kind |-> kind, cmd |-> cmd])
              ELSE queue
  /\ UNCHANGED <<sender, lost>>

(* Any other part of the backend raises an event; health and media         *)
(* configuration are raised by loops of the session.                       *)
RaiseEvent ==
  /\ raised < MaxEvents
  /\ raised' = raised + 1
  /\ \E kind \in {"ring", "event"} : Enqueue(kind, NoCommand)
  /\ UNCHANGED <<linkVars, wireVars, agedVars, commandVars, tokenVars>>

(* A ring that waits in the queue becomes older than 60 s, and with it all *)
(* that was created before it.                                             *)
TimePasses ==
  /\ \E k \in DOMAIN queue :
       /\ queue[k].kind = "ring"
       /\ queue[k].id > expired
       /\ expired' = queue[k].id
       /\ doomed' = doomed \cup {queue[i].id : i \in {j \in 1..k : queue[j].kind = "ring"}}
  /\ UNCHANGED <<linkVars, queueVars, wireVars, raised, commandVars, tokenVars>>

-----------------------------------------------------------------------------
(* _reconnect_loop *)

Doubled(b) == IF b * 2 < MaxBackoff THEN b * 2 ELSE MaxBackoff

(* _run_session returned: the backoff restarts at one second.              *)
AfterReturn == backoff' = Doubled(1)

(* _run_session raised: the loop sleeps for the current backoff.           *)
AfterException == backoff' = Doubled(backoff)

Dial ==
  /\ session = "wait"
  /\ session' = "dial"
  /\ UNCHANGED <<backoff, troubles>>
  /\ UNCHANGED <<queueVars, wireVars, raised, agedVars, commandVars, tokenVars>>

(* No connection, no hello_ack within 15 s, or the connection breaks.      *)
DialFails ==
  /\ session = "dial"
  /\ troubles < MaxTroubles
  /\ session' = "wait"
  /\ AfterException
  /\ troubles' = troubles + 1
  /\ UNCHANGED <<queueVars, wireVars, raised, agedVars, commandVars, tokenVars>>

(* The cloud answers hello with something else: _run_session returns.      *)
HandshakeRefused ==
  /\ session = "dial"
  /\ troubles < MaxTroubles
  /\ session' = "wait"
  /\ AfterReturn
  /\ troubles' = troubles + 1
  /\ UNCHANGED <<queueVars, wireVars, raised, agedVars, commandVars, tokenVars>>

HandshakeOk ==
  /\ session = "dial"
  /\ session' = "snapshot"
  /\ UNCHANGED <<backoff, troubles>>
  /\ UNCHANGED <<queueVars, wireVars, raised, agedVars, commandVars, tokenVars>>

(* _send_full_snapshot: the devices, then the active call if there is one; *)
(* both are queued before the send loop of this session starts.            *)
SendSnapshot ==
  /\ session = "snapshot"
  /\ session' = "callstate"
  /\ Enqueue("snapshot", NoCommand)
  /\ UNCHANGED <<backoff, troubles>>
  /\ UNCHANGED <<wireVars, raised, agedVars, commandVars, tokenVars>>

SendActiveCall ==
  /\ session = "callstate"
  /\ session' = "up"
  /\ Enqueue("ring", NoCommand) \/ UNCHANGED queueVars
  /\ UNCHANGED <<backoff, troubles>>
  /\ UNCHANGED <<wireVars, raised, agedVars, commandVars, tokenVars>>

(* The first task of the session that ends takes the others with it: what  *)
(* the send loop holds, what is on the wire, the command that is running   *)
(* and those not yet read are gone.  A normal close makes _run_session     *)
(* return, anything else makes it raise.                                   *)
SessionEnds ==
  /\ session \in {"snapshot", "callstate", "up"}
  /\ troubles < MaxTroubles
  /\ troubles' = troubles + 1
  /\ session' = "wait"
  /\ \/ session = "up" /\ AfterReturn
     \/ AfterException
  /\ lost' = lost \cup Elements(wire \o sender)
  /\ wire' = <<>>
  /\ sender' = <<>>
  /\ inbox' = <<>>
  /\ running' = NoCommand
  /\ UNCHANGED <<queue, received, raised, created, agedVars, issued, done,
                 tokenVars>>

(* apply_persisted_token_override: the start presents the token of the     *)
(* file, where the one that was just being stored may be already; if the   *)
(* file cannot be read, or is empty, the token of the environment.         *)
LoadToken ==
  /\ stored' \in {stored} \cup (Rotations \cap {running})
  /\ \/ token' = stored' /\ unread' = FALSE
     \/ token' = NoCommand /\ unread' = TRUE

(* The queue lives in memory only; a command may have had its effect, and  *)
(* its reply is gone.                                                      *)
Restart ==
  /\ troubles < MaxTroubles
  /\ troubles' = troubles + 1
  /\ session' = "wait"
  /\ backoff' = 1
  /\ lost' = lost \cup Elements(Outgoing)
  /\ wire' = <<>>
  /\ sender' = <<>>
  /\ queue' = <<>>
  /\ inbox' = <<>>
  /\ running' = NoCommand
  /\ LoadToken
  /\ UNCHANGED <<received, raised, created, agedVars, issued, done>>

-----------------------------------------------------------------------------
(* _send_loop *)

IsStaleRing(m) == m.kind = "ring" /\ m.id <= expired

(* Slips: the message stays in the queue; the check for stale rings is     *)
(* gone; it drops every old message.                                       *)
TakeMessagePeeks ==
  /\ session = "up"
  /\ sender = <<>>
  /\ queue # <<>>
  /\ sender' = IF IsStaleRing(Head(queue)) THEN <<>> ELSE <<Head(queue)>>
  /\ UNCHANGED <<queue, created, lost, linkVars, wireVars, raised, agedVars, commandVars, tokenVars>>

TakeMessageUnchecked ==
  /\ session = "up"
  /\ sender = <<>>
  /\ queue # <<>>
  /\ queue' = Tail(queue)
  /\ sender' = <<Head(queue)>>
  /\ UNCHANGED <<created, lost, linkVars, wireVars, raised, agedVars, commandVars, tokenVars>>

TakeMessageDropsOld ==
  /\ session = "up"
  /\ sender = <<>>
  /\ queue # <<>>
  /\ queue' = Tail(queue)
  /\ sender' = IF Head(queue).id <= expired THEN <<>> ELSE <<Head(queue)>>
  /\ UNCHANGED <<created, lost, linkVars, wireVars, raised, agedVars, commandVars, tokenVars>>

TakeMessage ==
  /\ session = "up"
  /\ sender = <<>>
  /\ queue # <<>>
  /\ queue' = Tail(queue)
  /\ sender' = IF IsStaleRing(Head(queue)) THEN <<>> ELSE <<Head(queue)>>
  /\ UNCHANGED <<created, lost, linkVars, wireVars, raised, agedVars, commandVars, tokenVars>>

SendMessage ==
  /\ session = "up"
  /\ sender # <<>>
  /\ wire' = Append(wire, Head(sender))
  /\ sender' = <<>>
  /\ UNCHANGED <<queue, created, lost, received, linkVars, raised, agedVars, commandVars, tokenVars>>

CloudReceives ==
  /\ wire # <<>>
  /\ received' = Append(received, Head(wire))
  /\ wire' = Tail(wire)
  /\ UNCHANGED <<linkVars, queueVars, raised, agedVars, commandVars, tokenVars>>

-----------------------------------------------------------------------------
(* _recv_loop and _dispatch_command *)

CloudSendsCommand ==
  /\ session \in {"snapshot", "callstate", "up"}
  /\ \E c \in Commands :
       /\ c = issued + 1
       /\ issued' = c
       /\ inbox' = Append(inbox, c)
  /\ UNCHANGED <<linkVars, queueVars, wireVars, raised, agedVars, running, done, tokenVars>>

(* One command at a time: the next one is read when its predecessor has    *)
(* been dispatched.                                                        *)
ReadCommand ==
  /\ session = "up"
  /\ running = NoCommand
  /\ inbox # <<>>
  /\ Head(inbox) \notin Unknown
  /\ running' = Head(inbox)
  /\ inbox' = Tail(inbox)
  /\ UNCHANGED <<linkVars, queueVars, wireVars, raised, agedVars, issued, done, tokenVars>>

(* Slip: a command is refused while the handler of another one runs.       *)
RefuseUnknownAtOnce ==
  /\ session = "up"
  /\ inbox # <<>>
  /\ Head(inbox) \in Unknown
  /\ inbox' = Tail(inbox)
  /\ Enqueue("nack", Head(inbox))
  /\ UNCHANGED <<linkVars, wireVars, raised, agedVars, issued, running, done, tokenVars>>

RefuseUnknown ==
  /\ session = "up"
  /\ running = NoCommand
  /\ inbox # <<>>
  /\ Head(inbox) \in Unknown
  /\ inbox' = Tail(inbox)
  /\ Enqueue("nack", Head(inbox))
  /\ UNCHANGED <<linkVars, wireVars, raised, agedVars, issued, running, done, tokenVars>>

(* Slip: the new token is used before it is stored, which may fail.        *)
HandlerActsFirst ==
  /\ running # NoCommand
  /\ running \notin done
  /\ \/ done' = done \cup {running}
        /\ stored' = IF running \in Rotations THEN running ELSE stored
     \/ UNCHANGED <<done, stored>>
  /\ token' = IF running \in Rotations THEN running ELSE token
  /\ unread' = (unread /\ running \notin Rotations)
  /\ UNCHANGED <<linkVars, queueVars, wireVars, raised, agedVars, inbox, issued, running>>

(* _cmd_update_bridge_token: the token is stored, then used.               *)
Rotate(c) ==
  /\ stored' = IF c \in Rotations THEN c ELSE stored
  /\ token' = IF c \in Rotations THEN c ELSE token
  /\ unread' = (unread /\ c \notin Rotations)

(* The handler commits, opens the door, rings the phone, ...               *)
HandlerActs ==
  /\ running # NoCommand
  /\ running \notin done
  /\ done' = done \cup {running}
  /\ Rotate(running)
  /\ UNCHANGED <<linkVars, queueVars, wireVars, raised, agedVars, inbox, issued, running>>

(* The handler returns: after its effect.                                  *)
HandlerReturns ==
  /\ running # NoCommand
  /\ running \in done
  /\ Enqueue("ack", running)
  /\ running' = NoCommand
  /\ UNCHANGED <<linkVars, wireVars, raised, agedVars, inbox, issued, done, tokenVars>>

(* The handler raises: before its effect, or after it.                     *)
HandlerRaises ==
  /\ running # NoCommand
  /\ Enqueue("nack", running)
  /\ running' = NoCommand
  /\ UNCHANGED <<linkVars, wireVars, raised, agedVars, inbox, issued, done, tokenVars>>

-----------------------------------------------------------------------------
Init ==
  /\ session = "wait"
  /\ backoff = 1
  /\ troubles = 0
  /\ queue = <<>>
  /\ sender = <<>>
  /\ wire = <<>>
  /\ received = <<>>
  /\ raised = 0
  /\ created = 0
  /\ expired = 0
  /\ lost = {}
  /\ doomed = {}
  /\ inbox = <<>>
  /\ issued = 0
  /\ running = NoCommand
  /\ done = {}
  /\ token = NoCommand
  /\ stored = NoCommand
  /\ unread = FALSE

LinkStep ==
  \/ Dial
  \/ DialFails
  \/ HandshakeRefused
  \/ HandshakeOk
  \/ SendSnapshot
  \/ SendActiveCall
  \/ SessionEnds
  \/ Restart

MessageStep ==
  \/ RaiseEvent
  \/ TimePasses
  \/ TakeMessage
  \/ SendMessage
  \/ CloudReceives

CommandStep ==
  \/ CloudSendsCommand
  \/ ReadCommand
  \/ RefuseUnknown
  \/ HandlerActs
  \/ HandlerReturns
  \/ HandlerRaises

Next == LinkStep \/ MessageStep \/ CommandStep

Spec == Init /\ [][Next]_vars

(* The loops of the backend keep running, the network delivers what is on  *)
(* a live session, and an attempt is not refused for ever.                 *)
FairSpec ==
  /\ Spec
  /\ WF_vars(Dial)
  /\ WF_vars(HandshakeOk)
  /\ WF_vars(SendSnapshot)
  /\ WF_vars(SendActiveCall)
  /\ WF_vars(TakeMessage)
  /\ WF_vars(SendMessage)
  /\ WF_vars(CloudReceives)

-----------------------------------------------------------------------------
(* Properties *)

TypeOK ==
  /\ session \in {"wait", "dial", "snapshot", "callstate", "up"}
  /\ backoff \in 1..MaxBackoff
  /\ troubles \in Nat
  /\ raised \in Nat
  /\ created \in Nat
  /\ expired \in Nat
  /\ issued \in Nat
  /\ queue \in Seq(Message)
  /\ Len(queue) <= QueueSize
  /\ sender \in Seq(Message)
  /\ Len(sender) <= 1
  /\ wire \in Seq(Message)
  /\ received \in Seq(Message)
  /\ lost \subseteq Message
  /\ doomed \subseteq 1..created
  /\ inbox \in Seq(Commands)
  /\ running \in Commands \cup {NoCommand}
  /\ done \subseteq Commands
  /\ {token, stored} \subseteq Rotations \cup {NoCommand}
  /\ unread \in BOOLEAN

(* No more messages than that are created within the bounds.               *)
MaxCreated == MaxEvents + Cardinality(Commands) + 2 * (MaxTroubles + 1)

History == received \o Outgoing

(* The promise of LossyFifo: over all sessions, restarts, full queues and  *)
(* stale rings, no message reaches the cloud twice or out of order.        *)
Fifo ==
  INSTANCE LossyFifo WITH
    Msg <- Nat,
    pending <- [i \in DOMAIN Outgoing |-> Outgoing[i].id],
    delivered <- [i \in DOMAIN received |-> received[i].id]

FifoSpec == Fifo!Spec

(* update_bridge_token: "persist the new token to disk (so the next process*)
(* start picks it up)".  Attempts to connect never go back to an older     *)
(* token, whenever the handler fails, its session ends or the process dies,*)
(* but by a start that cannot read the file.                               *)
NeverOlderToken == [][token' >= token \/ (unread' /\ ~unread)]_vars

(* The receive loop runs commands one by one: the cloud gets at most one   *)
(* reply per command, and the replies in the order of the commands.        *)
IsReply(m) == m.kind \in {"ack", "nack"}

RepliesInOrder ==
  \A i, j \in DOMAIN History :
    i < j /\ IsReply(History[i]) /\ IsReply(History[j])
      => History[i].cmd < History[j].cmd

(* bridge.py on the send loop: a call_started that is older than the TTL   *)
(* while it still waits in the queue never reaches the cloud, whatever     *)
(* happens to the session later.                                           *)
Delivered(i) == \E k \in DOMAIN received : received[k].id = i

StaleRingNeverDelivered == \A i \in doomed : ~Delivered(i)

(* _push_cloud: "an event raised during a momentary WS blip is delivered   *)
(* once the session is back".  A message that is in the queue and is not a *)
(* ring reaches the cloud, however old it is, unless a session dies after  *)
(* the send loop took it, or the process dies.                             *)
QueuedIsDelivered ==
  \A i \in 1..MaxCreated :
    (\E k \in DOMAIN queue : queue[k].id = i /\ queue[k].kind # "ring")
      ~> (Delivered(i) \/ \E m \in lost : m.id = i)

=============================================================================
