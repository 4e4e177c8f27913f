------------------------- MODULE CloudMirrorProofs --------------------------
(***************************************************************************)
(* Theorems about CloudMirror, for any number of rows, requests, edits,    *)
(* lost upserts, sessions and restarts.                                    *)
(***************************************************************************)
EXTENDS CloudMirror, SequenceTheorems, TLAPS

(* The places of a task, what the cloud sends, and the handler.            *)
Reading  == [at : {"read"}, row : Rows]
Emitting == [at : {"dirty", "unplaced", "send"}, row : Rows, loaded : BOOLEAN, msg : Upsert]
Acks     == [kind : {"ack"}, row : Rows, ver : Nat, code : Codes]
Boots    == [kind : {"boot"}]
Handling == [at : {"commit"}, ack : Acks \cup Boots, rows : SUBSET Rows, mark : SUBSET Rows,
             clear : SUBSET Rows, swept : SUBSET Rows, given : SUBSET Rows]

DbOK ==
  /\ exists \subseteq Rows
  /\ version \in [Rows -> Nat]
  /\ code \in [Rows -> Codes]
  /\ placed \subseteq exists /\ synced \subseteq exists /\ failed \subseteq exists

TaskOK ==
  /\ task \in [Tasks -> {Idle} \cup Reading \cup Emitting]
  /\ \A t \in Tasks : task[t] \in Emitting => task[t].msg.row = task[t].row
  /\ phase \in {"collect", "run"} /\ pending \subseteq Rows

LinkOK ==
  /\ up \in Seq(Upsert)
  /\ down \in Seq(Acks \cup Boots)
  /\ handler \in {NoHandler} \cup Handling
  /\ cloudVer \in [Rows -> Nat]

HistoryOK == sentVer \in [Rows -> Nat] /\ ackedVer \in [Rows -> Nat]

Types == DbOK /\ TaskOK /\ LinkOK /\ HistoryOK

-----------------------------------------------------------------------------
(* Sequences of messages                                                   *)

(* u is q without some of its messages.                                    *)
Within(u, q) ==
  \E f \in [DOMAIN u -> DOMAIN q] :
    /\ \A i \in DOMAIN u : u[i] = q[f[i]]
    /\ \A i, j \in DOMAIN u : i < j => f[i] < f[j]

LEMMA AppendWithin ==
  ASSUME NEW M, NEW q \in Seq(M), NEW m \in M
  PROVE  /\ Append(q, m) \in Seq(M) /\ Range(Append(q, m)) = Range(q) \cup {m}
         /\ \A i \in DOMAIN Append(q, m) :
              \/ i \in DOMAIN q /\ Append(q, m)[i] = q[i]
              \/ i = Len(q) + 1 /\ Append(q, m)[i] = m
         /\ \A i \in DOMAIN q : i < Len(q) + 1
  <1>1. Len(q) \in Nat /\ DOMAIN q = 1..Len(q)
    BY LenProperties
  <1>2. /\ Append(q, m) \in Seq(M) /\ DOMAIN Append(q, m) = 1..(Len(q) + 1)
        /\ Append(q, m)[Len(q) + 1] = m
        /\ \A i \in 1..Len(q) : Append(q, m)[i] = q[i]
    BY AppendProperties, LenProperties
  <1> DEFINE u == Append(q, m)
  <1> HIDE DEF u
  <1>3. /\ u \in Seq(M) /\ DOMAIN u = 1..(Len(q) + 1) /\ u[Len(q) + 1] = m
        /\ \A i \in 1..Len(q) : u[i] = q[i]
    BY <1>2 DEF u
  <1>4. \A i \in DOMAIN u : (i \in DOMAIN q /\ u[i] = q[i]) \/ (i = Len(q) + 1 /\ u[i] = m)
    BY <1>1, <1>3
  <1>5. \A i \in DOMAIN q : i \in DOMAIN u /\ u[i] = q[i] /\ i < Len(q) + 1
    BY <1>1, <1>3
  <1>6. Len(q) + 1 \in DOMAIN u
    BY <1>1, <1>3
  <1>7. Range(u) = Range(q) \cup {m}
    BY <1>3, <1>4, <1>5, <1>6 DEF Range
  <1>8. QED
    BY <1>3, <1>4, <1>5, <1>7 DEF u

LEMMA TailWithin ==
  ASSUME NEW M, NEW q \in Seq(M), q # <<>>
  PROVE  /\ Tail(q) \in Seq(M) /\ Head(q) \in M /\ Head(q) \in Range(q)
         /\ Within(Tail(q), q)
         /\ 1 \in DOMAIN q /\ q[1] = Head(q)
         /\ \A i \in DOMAIN Tail(q) : 1 < i + 1 /\ i + 1 \in DOMAIN q /\ Tail(q)[i] = q[i + 1]
  <1>1. Len(q) \in Nat /\ Len(q) # 0 /\ DOMAIN q = 1..Len(q)
    BY EmptySeq, LenProperties
  <1>2. /\ Tail(q) \in Seq(M) /\ DOMAIN Tail(q) = 1..(Len(q) - 1)
        /\ \A i \in 1..(Len(q) - 1) : Tail(q)[i] = q[i + 1]
    BY HeadTailProperties, LenProperties
  <1> DEFINE u == Tail(q)
             f == [i \in DOMAIN u |-> i + 1]
  <1> HIDE DEF u
  <1>3. /\ u \in Seq(M) /\ DOMAIN u = 1..(Len(q) - 1)
        /\ \A i \in 1..(Len(q) - 1) : u[i] = q[i + 1]
    BY <1>2 DEF u
  <1>4. \A i \in DOMAIN u : i \in Nat /\ 1 < i + 1 /\ i + 1 \in DOMAIN q /\ u[i] = q[i + 1]
    BY <1>1, <1>3
  <1>5. Within(u, q)
    <2>1. f \in [DOMAIN u -> DOMAIN q]
      BY <1>4
    <2>2. \A i \in DOMAIN u : u[i] = q[f[i]]
      BY <1>4
    <2>3. \A i, j \in DOMAIN u : i < j => f[i] < f[j]
      BY <1>4
    <2>4. QED
      BY <2>1, <2>2, <2>3 DEF Within
  <1>6. Head(q) = q[1] /\ 1 \in DOMAIN q /\ Head(q) \in M
    BY <1>1
  <1>7. Head(q) \in Range(q)
    BY <1>6 DEF Range
  <1>8. QED
    BY <1>3, <1>4, <1>5, <1>6, <1>7 DEF u

LEMMA DropWithin ==
  ASSUME NEW M, NEW q \in Seq(M), NEW k \in DOMAIN q
  PROVE  LET u == SubSeq(q, 1, k - 1) \o SubSeq(q, k + 1, Len(q))
         IN  u \in Seq(M) /\ Within(u, q)
  <1>1. Len(q) \in Nat /\ DOMAIN q = 1..Len(q) /\ k \in Nat /\ k >= 1 /\ k <= Len(q)
        /\ \A i \in 1..Len(q) : q[i] \in M
    BY LenProperties, ElementOfSeq
  <1> DEFINE a == SubSeq(q, 1, k - 1)
             b == SubSeq(q, k + 1, Len(q))
             u == a \o b
             f == [i \in DOMAIN u |-> IF i < k THEN i ELSE i + 1]
  <1>2. a \in Seq(M) /\ Len(a) = k - 1 /\ \A i \in 1..(k - 1) : a[i] = q[i]
    <2>1. 1 \in Int /\ k - 1 \in Int /\ \A i \in 1..(k - 1) : q[i] \in M
      BY <1>1
    <2>2. /\ a \in Seq(M) /\ Len(a) = IF 1 <= k - 1 THEN (k - 1) - 1 + 1 ELSE 0
          /\ \A i \in 1..((k - 1) - 1 + 1) : a[i] = q[1 + i - 1]
      BY <2>1, SubSeqProperties
    <2> HIDE DEF a
    <2>3. QED
      BY <1>1, <2>2
  <1>3. b \in Seq(M) /\ Len(b) = Len(q) - k /\ \A i \in 1..(Len(q) - k) : b[i] = q[k + i]
    <2>1. k + 1 \in Int /\ Len(q) \in Int /\ \A i \in (k + 1)..Len(q) : q[i] \in M
      BY <1>1
    <2>2. /\ b \in Seq(M) /\ Len(b) = IF k + 1 <= Len(q) THEN Len(q) - (k + 1) + 1 ELSE 0
          /\ \A i \in 1..(Len(q) - (k + 1) + 1) : b[i] = q[(k + 1) + i - 1]
      BY <2>1, SubSeqProperties
    <2> HIDE DEF b
    <2>3. Len(b) = Len(q) - k /\ (Len(q) - (k + 1)) + 1 = Len(q) - k
      BY <1>1, <2>2
    <2>4. ASSUME NEW i \in 1..(Len(q) - k) PROVE b[i] = q[k + i]
      <3>1. (k + 1) + i - 1 = k + i
        BY <1>1
      <3>2. QED
        BY <2>2, <2>3, <3>1
    <2>5. QED
      BY <2>2, <2>3, <2>4
  <1> HIDE DEF a, b
  <1>4. /\ u \in Seq(M) /\ Len(u) = Len(a) + Len(b)
        /\ \A i \in 1..(Len(a) + Len(b)) : u[i] = IF i <= Len(a) THEN a[i] ELSE b[i - Len(a)]
    BY <1>2, <1>3, ConcatProperties
  <1> HIDE DEF u
  <1>5. DOMAIN u = 1..(Len(q) - 1)
    BY <1>1, <1>2, <1>3, <1>4, LenProperties
  <1>6. \A i \in DOMAIN u : /\ f[i] \in DOMAIN q /\ f[i] = IF i < k THEN i ELSE i + 1
                            /\ i \in Nat
    BY <1>1, <1>5
  <1>7. ASSUME NEW i \in DOMAIN u PROVE u[i] = q[f[i]]
    <2>1. CASE i < k
      <3>1. i \in 1..(k - 1) /\ i <= Len(a) /\ i \in 1..(Len(a) + Len(b))
        BY <1>1, <1>2, <1>3, <1>5, <2>1
      <3>2. QED
        BY <1>2, <1>4, <1>6, <2>1, <3>1
    <2>2. CASE ~(i < k)
      <3>1. /\ ~(i <= Len(a)) /\ i \in 1..(Len(a) + Len(b)) /\ i - Len(a) \in 1..(Len(q) - k)
            /\ k + (i - Len(a)) = i + 1
        BY <1>1, <1>2, <1>3, <1>5, <2>2
      <3>2. b[i - Len(a)] = q[i + 1]
        BY <1>3, <3>1
      <3>3. QED
        BY <1>4, <1>6, <2>2, <3>1, <3>2
    <2>3. QED
      BY <2>1, <2>2
  <1>8. Within(u, q)
    <2>1. f \in [DOMAIN u -> DOMAIN q]
      BY <1>6
    <2>2. \A i, j \in DOMAIN u : i < j => f[i] < f[j]
      BY <1>1, <1>6
    <2>3. QED
      BY <1>7, <2>1, <2>2 DEF Within
  <1>9. QED
    BY <1>4, <1>8 DEF u, a, b

LEMMA WithinRange ==
  ASSUME NEW u, NEW q, Within(u, q)
  PROVE  Range(u) \subseteq Range(q)
  BY DEF Within, Range

-----------------------------------------------------------------------------
(* Types                                                                   *)

LEMMA TaskKinds ==
  ASSUME TaskOK, NEW t \in Tasks
  PROVE  /\ task[t].at = "idle" => task[t] = Idle
         /\ task[t].at = "read" => task[t] \in Reading /\ task[t].row \in Rows
         /\ task[t].at \in {"dirty", "unplaced", "send"} =>
              /\ task[t] \in Emitting /\ task[t].row \in Rows /\ task[t].loaded \in BOOLEAN
              /\ task[t].msg \in Upsert /\ task[t].msg.row = task[t].row
         /\ task[t].at \in {"idle", "read", "dirty", "unplaced", "send"}
  BY DEF TaskOK, Idle, Reading, Emitting

LEMMA EditType ==
  ASSUME Types, NEW t \in Tasks, NEW r \in Rows, Create(t, r) \/ Update(t, r)
  PROVE  /\ version' = [version EXCEPT ![r] = version[r] + 1]
         /\ task' = [task EXCEPT ![t] = [at |-> "read", row |-> r]] /\ task[t] = Idle
         /\ UNCHANGED <<synced, failed, phase, pending, linkVars, sentVer, ackedVer, dropped,
                        overlapVars>>
         /\ \/ Create(t, r) /\ r \notin exists /\ version[r] = 0 /\ exists' = exists \cup {r}
            \/ Update(t, r) /\ r \in exists /\ exists' = exists
         /\ orphaned' = orphaned \ {r}
         /\ DbOK' /\ TaskOK'
  <1>1. PICK c \in Codes : Committed(t, r, c)
    BY DEF Create, Update
  <1>2. /\ version' = [version EXCEPT ![r] = version[r] + 1]
        /\ code' = [code EXCEPT ![r] = c]
        /\ task' = [task EXCEPT ![t] = [at |-> "read", row |-> r]]
        /\ orphaned' = orphaned \ {r}
    BY <1>1 DEF Committed
  <1>3. /\ UNCHANGED <<synced, failed, phase, pending, linkVars, sentVer, ackedVer, dropped,
                        overlapVars>>
        /\ task[t] = Idle
        /\ \/ Create(t, r) /\ r \notin exists /\ version[r] = 0 /\ exists' = exists \cup {r}
           \/ Update(t, r) /\ r \in exists /\ exists' = exists
    BY DEF Create, Update
  <1>4. DbOK'
    <2>1. version' \in [Rows -> Nat] /\ code' \in [Rows -> Codes]
      BY <1>2 DEF Types, DbOK
    <2>2. placed' \subseteq exists'
      BY DEF Create, Update, Types, DbOK
    <2>3. QED
      BY <1>3, <2>1, <2>2 DEF Types, DbOK
  <1>5. TaskOK'
    <2>1. [at |-> "read", row |-> r] \in Reading
      BY DEF Reading
    <2>2. task' \in [Tasks -> {Idle} \cup Reading \cup Emitting]
      BY <1>2, <2>1 DEF Types, TaskOK
    <2>3. \A s \in Tasks : task'[s] \in Emitting => task'[s].msg.row = task'[s].row
      BY <1>2 DEF Types, TaskOK, Emitting
    <2>4. QED
      BY <1>3, <2>2, <2>3 DEF Types, TaskOK
  <1>6. QED
    BY <1>2, <1>3, <1>4, <1>5

LEMMA FinishType ==
  ASSUME TaskOK, NEW t \in Tasks, Finish(t), UNCHANGED <<phase, pending>>
  PROVE  TaskOK' /\ task' = [task EXCEPT ![t] = Idle]
  <1>1. task' = [task EXCEPT ![t] = Idle]
    BY DEF Finish
  <1>2. task' \in [Tasks -> {Idle} \cup Reading \cup Emitting]
    BY <1>1 DEF TaskOK
  <1>3. \A s \in Tasks : task'[s] \in Emitting => task'[s].msg.row = task'[s].row
    BY <1>1 DEF TaskOK, Emitting, Idle
  <1>4. QED
    BY <1>1, <1>2, <1>3 DEF TaskOK

LEMMA EmitReadType ==
  ASSUME Types, NEW t \in Tasks, EmitRead(t)
  PROVE  /\ task[t].at = "read" /\ task[t].row \in Rows
         /\ UNCHANGED <<dbVars, phase, pending, linkVars, historyVars>>
         /\ task[t].row \notin exists => task' = [task EXCEPT ![t] = Idle]
         /\ task[t].row \in exists => \E e \in Emitting :
              /\ task' = [task EXCEPT ![t] = e]
              /\ e.at \in {"dirty", "unplaced"} /\ e.row = task[t].row
              /\ e.loaded = (task[t].row \in synced)
              /\ e.msg.row = task[t].row /\ e.msg.ver = version[task[t].row]
         /\ TaskOK'
  <1> DEFINE r == task[t].row
             e == [at     |-> IF r \in placed THEN "dirty" ELSE "unplaced",
                   row    |-> r,
                   loaded |-> r \in synced,
                   msg    |-> [row |-> r, ver |-> version[r], code |-> code[r]]]
  <1>1. task[t].at = "read" /\ r \in Rows
    BY TaskKinds DEF EmitRead, Types
  <1>2. UNCHANGED <<dbVars, phase, pending, linkVars, historyVars>>
    BY DEF EmitRead
  <1>3. r \notin exists => task' = [task EXCEPT ![t] = Idle]
    BY DEF EmitRead
  <1>4. r \in exists => task' = [task EXCEPT ![t] = e]
    BY DEF EmitRead
  <1>5. e \in Emitting
    <2>1. [row |-> r, ver |-> version[r], code |-> code[r]] \in Upsert
      BY <1>1 DEF Types, DbOK, Upsert
    <2>2. (r \in synced) \in BOOLEAN
      OBVIOUS
    <2>3. QED
      BY <1>1, <2>1, <2>2 DEF Emitting
  <1>6. /\ e.at \in {"dirty", "unplaced"} /\ e.row = r /\ e.loaded = (r \in synced)
        /\ e.msg.row = r /\ e.msg.ver = version[r]
    OBVIOUS
  <1> HIDE DEF e
  <1>7. TaskOK'
    <2>1. \E x \in {e, Idle} : task' = [task EXCEPT ![t] = x]
      BY <1>3, <1>4
    <2>2. task' \in [Tasks -> {Idle} \cup Reading \cup Emitting]
      BY <1>5, <2>1 DEF Types, TaskOK
    <2>3. \A s \in Tasks : task'[s] \in Emitting => task'[s].msg.row = task'[s].row
      BY <1>6, <2>1 DEF Types, TaskOK, Emitting, Idle
    <2>4. QED
      BY <1>2, <2>2, <2>3 DEF Types, TaskOK
  <1>8. QED
    BY <1>1, <1>2, <1>3, <1>4, <1>5, <1>6, <1>7

LEMMA MarkType ==
  ASSUME Types, NEW t \in Tasks, MarkUnplaced(t) \/ MarkDirty(t)
  PROVE  /\ task[t].at \in {"unplaced", "dirty"} /\ task[t] \in Emitting
         /\ task[t].row \in Rows /\ task[t].msg.row = task[t].row
         /\ UNCHANGED <<exists, version, code, placed, phase, pending, linkVars, sentVer, ackedVer,
                        dropped, orphaned, misordered>>
         /\ synced' = synced \/ synced' = synced \ {task[t].row}
         /\ task[t].loaded /\ task[t].row \in exists => synced' = synced \ {task[t].row}
         /\ overacked' = overacked \/ (overacked' = overacked \ {task[t].row}
                                       /\ synced' = synced \ {task[t].row})
         /\ \/ task' = [task EXCEPT ![t] = Idle]
            \/ /\ task[t].at = "dirty"
               /\ task' = [task EXCEPT ![t].at = "send"] /\ task'[t] \in Emitting
               /\ task'[t].at = "send" /\ task'[t].row = task[t].row
               /\ task'[t].msg = task[t].msg
         /\ DbOK' /\ TaskOK'
  <1>0. /\ task[t].at \in {"unplaced", "dirty"} /\ task[t] \in Emitting
        /\ task[t].row \in Rows /\ task[t].msg.row = task[t].row /\ task[t].loaded \in BOOLEAN
    BY TaskKinds DEF Types, MarkUnplaced, MarkDirty
  <1>1. /\ UNCHANGED <<exists, version, code, placed, phase, pending, linkVars, sentVer, ackedVer,
                        dropped, orphaned, misordered>>
        /\ synced' = synced \/ synced' = synced \ {task[t].row}
        /\ task[t].loaded /\ task[t].row \in exists => synced' = synced \ {task[t].row}
        /\ overacked' = overacked \/ (overacked' = overacked \ {task[t].row}
                                       /\ synced' = synced \ {task[t].row})
    BY <1>0 DEF MarkUnplaced, MarkDirty, ClearSynced, historyVars, overlapVars
  <1>2. DbOK'
    BY <1>1 DEF Types, DbOK, MarkUnplaced, MarkDirty
  <1>3. CASE task' = [task EXCEPT ![t] = Idle]
    <2>1. TaskOK'
      BY <1>1, <1>3, FinishType DEF Finish, Types
    <2>2. QED
      BY <1>0, <1>1, <1>2, <1>3, <2>1
  <1>4. CASE task[t].at = "dirty" /\ task' = [task EXCEPT ![t].at = "send"]
    <2>1. /\ task'[t] \in Emitting /\ task'[t].at = "send" /\ task'[t].row = task[t].row
          /\ task'[t].msg = task[t].msg
          /\ \A s \in Tasks : s # t => task'[s] = task[s]
      BY <1>0, <1>4 DEF Types, TaskOK, Emitting
    <2>2. TaskOK'
      <3>1. task' \in [Tasks -> {Idle} \cup Reading \cup Emitting]
        <4>1. DOMAIN task' = Tasks /\ task' = [s \in Tasks |-> task'[s]]
          BY <1>4 DEF Types, TaskOK
        <4>2. QED
          BY <2>1, <4>1 DEF Types, TaskOK
      <3>2. \A s \in Tasks : task'[s] \in Emitting => task'[s].msg.row = task'[s].row
        BY <1>0, <2>1 DEF Types, TaskOK
      <3>3. QED
        BY <1>1, <3>1, <3>2 DEF Types, TaskOK
    <2>3. QED
      BY <1>0, <1>1, <1>2, <1>4, <2>1, <2>2
  <1>5. QED
    BY <1>3, <1>4 DEF MarkUnplaced, MarkDirty, Finish, Goto

LEMMA SendType ==
  ASSUME Types, NEW t \in Tasks, Send(t)
  PROVE  LET m == task[t].msg IN
         /\ task[t].at = "send" /\ task[t] \in Emitting /\ m \in Upsert /\ m.row = task[t].row
         /\ task' = [task EXCEPT ![t] = Idle]
         /\ sentVer' = [sentVer EXCEPT ![m.row] = IF sentVer[m.row] < m.ver THEN m.ver
                                                  ELSE sentVer[m.row]]
         /\ misordered' = IF m.ver < sentVer[m.row] THEN misordered \cup {m.row} ELSE misordered
         /\ up' = up \/ up' = Append(up, m)
         /\ UNCHANGED <<dbVars, phase, pending, down, handler, cloudVer, ackedVer, orphaned,
                        overacked>>
         /\ TaskOK' /\ up' \in Seq(Upsert) /\ HistoryOK'
  <1> DEFINE m == task[t].msg
  <1>1. task[t].at = "send" /\ task[t] \in Emitting /\ m \in Upsert /\ m.row = task[t].row
        /\ m.row \in Rows /\ m.ver \in Nat
    BY TaskKinds DEF Types, Send, Upsert
  <1>2. /\ Finish(t)
        /\ sentVer' = [sentVer EXCEPT ![m.row] = IF sentVer[m.row] < m.ver THEN m.ver
                                                 ELSE sentVer[m.row]]
        /\ misordered' = IF m.ver < sentVer[m.row] THEN misordered \cup {m.row} ELSE misordered
        /\ up' = up \/ up' = Append(up, m)
        /\ UNCHANGED <<dbVars, phase, pending, down, handler, cloudVer, ackedVer, orphaned,
                       overacked>>
    BY DEF Send
  <1>3. TaskOK' /\ task' = [task EXCEPT ![t] = Idle]
    BY <1>2, FinishType DEF Types
  <1>4. up' \in Seq(Upsert)
    <2>1. up \in Seq(Upsert)
      BY DEF Types, LinkOK
    <2> HIDE DEF m
    <2>2. Append(up, m) \in Seq(Upsert)
      BY <1>1, <2>1, AppendWithin
    <2>3. QED
      BY <1>2, <2>1, <2>2
  <1>5. HistoryOK'
    BY <1>1, <1>2 DEF Types, HistoryOK
  <1> HIDE DEF m
  <1>6. QED
    BY <1>1, <1>2, <1>3, <1>4, <1>5 DEF m

LEMMA AppliesType ==
  ASSUME Types, CloudApplies
  PROVE  LET m == Head(up) IN
         /\ up # <<>> /\ m \in Upsert /\ m \in Range(up) /\ m.row \in Rows /\ m.ver \in Nat
         /\ cloudVer' = [cloudVer EXCEPT ![m.row] = m.ver]
         /\ down' = Append(down, [kind |-> "ack", row |-> m.row, ver |-> m.ver, code |-> m.code])
         /\ [kind |-> "ack", row |-> m.row, ver |-> m.ver, code |-> m.code] \in Acks
         /\ misordered' = IF m.ver = sentVer[m.row] /\ ~OlderBehind(m) THEN misordered \ {m.row}
                          ELSE misordered
         /\ up' = Tail(up)
         /\ UNCHANGED <<dbVars, taskVars, handler, sentVer, ackedVer, orphaned, overacked>>
         /\ LinkOK'
  <1> DEFINE m == Head(up)
  <1>1. /\ up # <<>> /\ m \in Upsert /\ m \in Range(up) /\ Tail(up) \in Seq(Upsert)
        /\ m.row \in Rows /\ m.ver \in Nat
    <2>1. up # <<>> /\ up \in Seq(Upsert)
      BY DEF CloudApplies, Types, LinkOK
    <2>2. m \in Upsert /\ m \in Range(up) /\ Tail(up) \in Seq(Upsert)
      BY <2>1, TailWithin
    <2>3. QED
      BY <2>1, <2>2 DEF Upsert
  <1>2. [kind |-> "ack", row |-> m.row, ver |-> m.ver, code |-> m.code] \in Acks
    BY <1>1 DEF Upsert, Acks
  <1>3. /\ cloudVer' = [cloudVer EXCEPT ![m.row] = m.ver]
        /\ down' = Append(down, [kind |-> "ack", row |-> m.row, ver |-> m.ver, code |-> m.code])
        /\ misordered' = IF m.ver = sentVer[m.row] /\ ~OlderBehind(m) THEN misordered \ {m.row}
                         ELSE misordered
        /\ up' = Tail(up)
        /\ UNCHANGED <<dbVars, taskVars, handler, sentVer, ackedVer, orphaned, overacked>>
    BY DEF CloudApplies
  <1>4. LinkOK'
    <2>1. down' \in Seq(Acks \cup Boots)
      BY <1>2, <1>3, AppendWithin DEF Types, LinkOK
    <2>2. cloudVer' \in [Rows -> Nat]
      BY <1>1, <1>3 DEF Types, LinkOK
    <2>3. QED
      BY <1>1, <1>3, <2>1, <2>2 DEF Types, LinkOK
  <1> HIDE DEF m
  <1>5. QED
    BY <1>1, <1>2, <1>3, <1>4 DEF m

(* Both handlers that read: the message is the one to be committed.        *)
LEMMA HandlerReadType ==
  ASSUME Types, AckRead \/ BootRead
  PROVE  /\ handler = NoHandler /\ down # <<>> /\ Head(down) \in Range(down)
         /\ down' = Tail(down) /\ Within(down', down)
         /\ UNCHANGED <<dbVars, taskVars, up, cloudVer, troubles, historyVars>>
         /\ handler' = NoHandler \/ (handler' \in Handling /\ handler'.ack = Head(down))
         /\ LinkOK'
  <1>1. /\ handler = NoHandler /\ down # <<>> /\ down' = Tail(down)
        /\ UNCHANGED <<dbVars, taskVars, up, cloudVer, troubles, historyVars>>
    BY DEF AckRead, BootRead
  <1>2. /\ Head(down) \in Acks \cup Boots /\ Head(down) \in Range(down)
        /\ down' \in Seq(Acks \cup Boots) /\ Within(down', down)
    BY <1>1, TailWithin DEF Types, LinkOK
  <1>3. handler' = NoHandler \/ (handler' \in Handling /\ handler'.ack = Head(down))
    <2>1. CASE AckRead
      <3>1. CASE handler' = handler
        BY <1>1, <3>1
      <3>2. CASE handler' # handler
        <4>1. PICK r \in Matches(Head(down)) :
                handler' = [at |-> "commit", ack |-> Head(down), rows |-> {r},
                            mark |-> {r} \ synced, clear |-> {r} \cap failed,
                            swept |-> {}, given |-> {}]
          BY <2>1, <3>2 DEF AckRead
        <4>2. r \in Rows
          BY DEF Matches, Types, DbOK
        <4>3. QED
          BY <1>2, <4>1, <4>2 DEF Handling
      <3>3. QED
        BY <3>1, <3>2
    <2>2. CASE BootRead
      <3>1. PICK D \in SUBSET (Devices \cap exists) :
              \E G \in SUBSET D : \E S \in SUBSET (placed \ G) :
                handler' = [at |-> "commit", ack |-> Head(down), rows |-> D,
                            mark |-> D \ synced, clear |-> D \cap failed,
                            swept |-> S, given |-> G]
        BY <2>2 DEF BootRead
      <3>2. PICK G \in SUBSET D, S \in SUBSET Rows :
                handler' = [at |-> "commit", ack |-> Head(down), rows |-> D,
                            mark |-> D \ synced, clear |-> D \cap failed,
                            swept |-> S, given |-> G]
        BY <3>1 DEF Types, DbOK
      <3>3. D \subseteq Rows
        BY DEF Types, DbOK
      <3>4. QED
        BY <1>2, <3>2, <3>3 DEF Handling
    <2>3. QED
      BY <2>1, <2>2
  <1>4. LinkOK'
    BY <1>1, <1>2, <1>3 DEF Types, LinkOK
  <1>5. QED
    BY <1>1, <1>2, <1>3, <1>4

LEMMA CommitsType ==
  ASSUME Types, HandlerCommits
  PROVE  /\ handler \in Handling /\ handler' = NoHandler
         /\ UNCHANGED <<exists, version, code, taskVars, up, down, cloudVer, sentVer, dropped,
                        misordered>>
         /\ \/ UNCHANGED <<synced, failed, placed, ackedVer, overacked, orphaned>>
            \/ /\ synced' = synced \cup handler.mark
               /\ handler.ack.kind = "ack" =>
                    /\ handler.ack \in Acks
                    /\ ackedVer' = [ackedVer EXCEPT ![handler.ack.row] =
                                      IF ackedVer[handler.ack.row] < handler.ack.ver
                                      THEN handler.ack.ver ELSE ackedVer[handler.ack.row]]
               /\ handler.ack.kind # "ack" => ackedVer' = ackedVer
               /\ overacked' = overacked \cup {r \in handler.mark : Outdated(r)}
               /\ orphaned \subseteq orphaned'
         /\ DbOK' /\ HistoryOK'
  <1>1. handler \in Handling
    BY DEF HandlerCommits, Types, LinkOK, NoHandler
  <1>2. /\ handler.mark \subseteq Rows
        /\ handler.ack.kind = "ack" => handler.ack \in Acks
    BY <1>1 DEF Handling, Acks, Boots
  <1>3. /\ handler' = NoHandler
        /\ UNCHANGED <<exists, version, code, taskVars, up, down, cloudVer, sentVer, dropped,
                       misordered>>
    BY DEF HandlerCommits
  <1>4. CASE handler.mark \cup handler.clear \cup handler.given \subseteq exists
    <2>1. /\ synced' = synced \cup handler.mark
          /\ failed' = failed \ handler.clear
          /\ placed' = ((placed \ handler.swept) \cup handler.given) \cap exists
          /\ handler.ack.kind = "ack" =>
               ackedVer' = [ackedVer EXCEPT ![handler.ack.row] =
                              IF ackedVer[handler.ack.row] < handler.ack.ver
                              THEN handler.ack.ver ELSE ackedVer[handler.ack.row]]
          /\ handler.ack.kind # "ack" => ackedVer' = ackedVer
          /\ overacked' = overacked \cup {r \in handler.mark : Outdated(r)}
          /\ orphaned \subseteq orphaned'
      BY <1>4 DEF HandlerCommits
    <2>2. DbOK'
      BY <1>3, <1>4, <2>1 DEF Types, DbOK
    <2>3. HistoryOK'
      BY <1>2, <1>3, <2>1 DEF Types, HistoryOK, Acks
    <2>4. QED
      BY <1>1, <1>2, <1>3, <2>1, <2>2, <2>3
  <1>5. CASE ~(handler.mark \cup handler.clear \cup handler.given \subseteq exists)
    <2>1. UNCHANGED <<synced, failed, placed, ackedVer, overacked, orphaned>>
      BY <1>5 DEF HandlerCommits
    <2>2. QED
      BY <1>1, <1>3, <2>1 DEF Types, DbOK, HistoryOK
  <1>6. QED
    BY <1>4, <1>5

(* Sessions and restarts leave the tables alone.                           *)
LEMMA TroubleType ==
  ASSUME Types, LoseUpsert \/ Reconnect \/ Restart
  PROVE  /\ UNCHANGED <<dbVars, cloudVer, sentVer, ackedVer, overacked, misordered>>
         /\ \/ UNCHANGED taskVars /\ orphaned' = orphaned
            \/ /\ task' = [t \in Tasks |-> Idle]
               /\ orphaned' = orphaned \cup {task[t].row : t \in {a \in Admins :
                                             task[a].at \in {"read", "dirty", "unplaced"}}}
         /\ up' = <<>> \/ Within(up', up)
         /\ down' = down \/ down' = <<>> \/ down' = <<[kind |-> "boot"]>>
         /\ handler' = handler \/ handler' = NoHandler
         /\ TaskOK' /\ LinkOK'
  <1>1. CASE LoseUpsert
    <2>1. up' \in Seq(Upsert) /\ Within(up', up)
      BY <1>1, DropWithin DEF LoseUpsert, Types, LinkOK
    <2>2. QED
      BY <1>1, <2>1
      DEF LoseUpsert, Lost, Types, TaskOK, LinkOK, taskVars, overlapVars
  <1>2. ASSUME Reconnect \/ Restart
        PROVE  /\ up' \in {up, <<>>} /\ down' \in {<<>>, <<[kind |-> "boot"]>>}
               /\ handler' = NoHandler /\ cloudVer' = cloudVer
    BY <1>2 DEF Reconnect, Restart
  <1>3. ASSUME Reconnect \/ Restart PROVE LinkOK' /\ (up' = <<>> \/ Within(up', up))
    <2>1. up' \in Seq(Upsert)
      BY <1>2, <1>3, EmptySeq DEF Types, LinkOK
    <2>2. down' \in Seq(Acks \cup Boots)
      <3>1. [kind |-> "boot"] \in Acks \cup Boots
        BY DEF Boots
      <3>2. <<[kind |-> "boot"]>> \in Seq(Acks \cup Boots) /\ <<>> \in Seq(Acks \cup Boots)
        BY <3>1
      <3>3. QED
        BY <1>2, <1>3, <3>2, Zenon
    <2>3. Within(up, up)
      <3>1. Len(up) \in Nat /\ DOMAIN up = 1..Len(up)
        BY LenProperties DEF Types, LinkOK
      <3> DEFINE f == [i \in DOMAIN up |-> i]
      <3>2. f \in [DOMAIN up -> DOMAIN up]
        OBVIOUS
      <3>3. QED
        BY <3>2 DEF Within
    <2>4. QED
      BY <1>2, <1>3, <2>1, <2>2, <2>3 DEF Types, LinkOK
  <1>4. CASE Reconnect
    BY <1>2, <1>3, <1>4 DEF Reconnect, Types, TaskOK, taskVars, historyVars, overlapVars
  <1>5. CASE Restart
    <2>1. TaskOK'
      BY <1>5 DEF Restart, TaskOK, Idle, Emitting
    <2>2. QED
      BY <1>2, <1>3, <1>5, <2>1 DEF Restart, overlapVars
  <1>6. QED
    BY <1>1, <1>4, <1>5

LEMMA TypesStep == Types /\ [Next]_vars => Types'
  <1> SUFFICES ASSUME Types, [Next]_vars PROVE Types'
    OBVIOUS
  <1>0. DbOK /\ TaskOK /\ LinkOK /\ HistoryOK
    BY DEF Types
  <1>a. dbVars' = dbVars => DbOK'
    BY <1>0 DEF dbVars, DbOK
  <1>b. taskVars' = taskVars => TaskOK'
    BY <1>0 DEF taskVars, TaskOK
  <1>c. UNCHANGED <<up, down, handler, cloudVer>> => LinkOK'
    BY <1>0 DEF LinkOK
  <1>d. UNCHANGED <<sentVer, ackedVer>> => HistoryOK'
    BY <1>0 DEF HistoryOK
  <1>1. ASSUME NEW t \in Admins, NEW r \in Rows, Create(t, r) \/ Update(t, r) PROVE Types'
    BY <1>1, <1>c, <1>d, EditType DEF Types, linkVars, Tasks
  <1>2. ASSUME NEW r \in Rows, Delete(r) PROVE Types'
    <2>1. DbOK' /\ HistoryOK'
      BY <1>0, <1>2 DEF Delete, DbOK, HistoryOK
    <2>2. QED
      BY <1>2, <1>b, <1>c, <2>1 DEF Delete, Types, linkVars
  <1>3. ASSUME NEW r \in Rows, EditSilently(r) PROVE Types'
    <2>1. DbOK'
      BY <1>0, <1>3 DEF EditSilently, DbOK
    <2>2. QED
      BY <1>3, <1>b, <1>c, <1>d, <2>1 DEF EditSilently, Types, linkVars
  <1>4. ASSUME NEW t \in Tasks, EmitRead(t) PROVE Types'
    BY <1>4, <1>a, <1>c, <1>d, EmitReadType DEF Types, linkVars, historyVars
  <1>5. ASSUME NEW t \in Tasks, MarkUnplaced(t) \/ MarkDirty(t) PROVE Types'
    BY <1>5, <1>c, <1>d, MarkType DEF Types, linkVars
  <1>6. ASSUME NEW t \in Tasks, Send(t) PROVE Types'
    BY <1>0, <1>6, <1>a, SendType DEF Types, LinkOK
  <1>7. ASSUME NEW t \in Tasks, RebuildFails(t) PROVE Types'
    BY <1>0, <1>7, <1>a, <1>c, <1>d, FinishType DEF RebuildFails, Types, linkVars
  <1>8. CASE ResyncStep
    <2>1. TaskOK'
      <3>1. CASE ResyncCollect
        BY <1>0, <3>1 DEF ResyncCollect, TaskOK, DbOK
      <3>2. ASSUME NEW r \in Rows, ResyncNext(r) PROVE TaskOK'
        <4>1. task' = [task EXCEPT ![Resync] = [at |-> "read", row |-> r]]
              /\ [at |-> "read", row |-> r] \in Reading
          BY <3>2 DEF ResyncNext, Reading
        <4>2. task' \in [Tasks -> {Idle} \cup Reading \cup Emitting]
          BY <1>0, <4>1 DEF TaskOK
        <4>3. \A s \in Tasks : task'[s] \in Emitting => task'[s].msg.row = task'[s].row
          BY <1>0, <4>1 DEF TaskOK, Emitting
        <4>4. QED
          BY <1>0, <3>2, <4>2, <4>3 DEF ResyncNext, TaskOK
      <3>3. QED
        BY <1>8, <3>1, <3>2 DEF ResyncStep
    <2>2. QED
      BY <1>8, <1>a, <1>c, <1>d, <2>1
      DEF ResyncStep, ResyncCollect, ResyncNext, Types, linkVars, historyVars
  <1>9. CASE CloudApplies
    BY <1>9, <1>a, <1>b, <1>d, AppliesType DEF Types
  <1>10. CASE LoseUpsert \/ Reconnect \/ Restart
    BY <1>10, <1>a, <1>d, TroubleType DEF Types
  <1>11. CASE AckRead \/ BootRead
    BY <1>11, <1>a, <1>b, <1>d, HandlerReadType DEF Types, historyVars
  <1>12. CASE HandlerCommits
    <2>1. LinkOK'
      BY <1>0, <1>12, CommitsType DEF LinkOK
    <2>2. QED
      BY <1>12, <1>b, <2>1, CommitsType DEF Types
  <1>13. CASE UNCHANGED vars
    BY <1>13, <1>a, <1>b, <1>c, <1>d DEF vars, Types, linkVars, historyVars
  <1>14. QED
    BY <1>1, <1>2, <1>3, <1>4, <1>5, <1>6, <1>7, <1>8, <1>9, <1>10, <1>11, <1>12, <1>13
    DEF Next, Edit, TaskStep, Environment, ReceiveStep

LEMMA InitTypes == Init => Types
  <1> SUFFICES ASSUME Init PROVE Types
    OBVIOUS
  <1>1. DbOK
    BY CloudMirrorAssumption DEF Init, DbOK
  <1>2. TaskOK
    BY DEF Init, TaskOK, Idle, Emitting
  <1>3. LinkOK
    BY EmptySeq DEF Init, LinkOK
  <1>4. QED
    BY <1>1, <1>2, <1>3 DEF Init, Types, HistoryOK

LEMMA TypesInvariant == Spec => []Types
  BY InitTypes, TypesStep, PTL DEF Spec

(* What is marked, placed or in error is a row that is there, whatever is  *)
(* deleted while it is emitted or acknowledged.                            *)
THEOREM MirrorTypeCorrect == Spec => []TypeOK
  <1>1. Types => TypeOK
    <2> SUFFICES ASSUME Types PROVE TypeOK
      OBVIOUS
    <2>1. \A t \in Tasks : task[t].at \in {"idle", "read", "dirty", "unplaced", "send"}
      BY TaskKinds DEF Types
    <2>2. handler.at \in {"idle", "commit"}
      BY DEF Types, LinkOK, NoHandler, Handling
    <2>3. QED
      BY <2>1, <2>2 DEF Types, DbOK, TaskOK, LinkOK, TypeOK
  <1>2. QED
    BY <1>1, TypesInvariant, PTL

-----------------------------------------------------------------------------
(* Versions                                                                *)

(* Nothing that the link, the cloud or an acknowledgement has of row r is  *)
(* newer than version v.                                                   *)
Known(r, v) ==
  /\ cloudVer[r] <= v /\ ackedVer[r] <= v
  /\ \A m \in Range(up) : m.row = r => m.ver <= v
  /\ \A a \in Range(down) : a.kind = "ack" /\ a.row = r => a.ver <= v
  /\ handler # NoHandler /\ handler.ack.kind = "ack" /\ handler.ack.row = r =>
       handler.ack.ver <= v

Versions ==
  /\ \A r \in Rows : sentVer[r] <= version[r] /\ Known(r, version[r])
  /\ \A r \in exists : Known(r, sentVer[r])
  /\ \A t \in Tasks : task[t] \in Emitting => task[t].msg.ver <= version[task[t].row]

LEMMA RangeOfBoot ==
  /\ Range(<<>>) = {}
  /\ \A a \in Range(<<[kind |-> "boot"]>>) : a.kind # "ack"
  <1>1. \A i \in DOMAIN <<[kind |-> "boot"]>> : (<<[kind |-> "boot"]>>)[i].kind = "boot"
    OBVIOUS
  <1>2. DOMAIN <<>> = {}
    OBVIOUS
  <1>3. QED
    BY <1>1, <1>2 DEF Range

LEMMA KnownKept ==
  ASSUME Types, [Next]_vars, NEW r \in Rows, NEW v \in Nat, Known(r, v),
         \A t \in Tasks : Send(t) /\ task[t].row = r => task[t].msg.ver <= v
  PROVE  Known(r, v)'
  <1>1. ASSUME UNCHANGED <<up, down, handler, cloudVer>>, ackedVer'[r] <= v PROVE Known(r, v)'
    BY <1>1 DEF Known
  <1>2. ASSUME UNCHANGED <<up, down, handler, cloudVer, ackedVer>> PROVE Known(r, v)'
    BY <1>2 DEF Known
  <1>3. ASSUME NEW s \in Rows, Delete(s) PROVE Known(r, v)'
    <2>1. ackedVer'[r] = ackedVer[r] \/ ackedVer'[r] = 0
      BY <1>3 DEF Delete, Types, HistoryOK
    <2>2. QED
      BY <1>1, <1>3, <2>1 DEF Delete, linkVars, Known
  <1>4. CASE \/ Edit /\ ~ \E s \in Rows : Delete(s)
             \/ \E t \in Tasks : EmitRead(t) \/ MarkUnplaced(t) \/ MarkDirty(t) \/ RebuildFails(t)
             \/ ResyncStep
             \/ UNCHANGED vars
    BY <1>2, <1>4
    DEF Edit, Create, Update, EditSilently, EmitRead, MarkUnplaced, MarkDirty, RebuildFails,
        ResyncStep, ResyncCollect, ResyncNext, vars, linkVars, historyVars
  <1>5. ASSUME NEW t \in Tasks, Send(t) PROVE Known(r, v)'
    <2> DEFINE m == task[t].msg
    <2>1. /\ m \in Upsert /\ m.row = task[t].row
          /\ up' = up \/ up' = Append(up, m)
          /\ UNCHANGED <<down, handler, cloudVer, ackedVer>>
      BY <1>5, SendType
    <2>2. Range(up') \subseteq Range(up) \cup {m}
      <3>0. up \in Seq(Upsert)
        BY DEF Types, LinkOK
      <3> HIDE DEF m
      <3>1. Range(Append(up, m)) = Range(up) \cup {m}
        BY <2>1, <3>0, AppendWithin
      <3>2. QED
        BY <2>1, <3>1
    <2>3. m.row = r => m.ver <= v
      <3>1. task[t].row = r => task[t].msg.ver <= v
        BY <1>5, Zenon
      <3>2. QED
        BY <2>1, <3>1
    <2>4. QED
      BY <2>1, <2>2, <2>3 DEF Known
  <1>6. CASE CloudApplies
    <2> DEFINE m == Head(up)
               a == [kind |-> "ack", row |-> m.row, ver |-> m.ver, code |-> m.code]
    <2>1. /\ up # <<>> /\ m \in Range(up) /\ m.row \in Rows /\ a \in Acks
          /\ cloudVer' = [cloudVer EXCEPT ![m.row] = m.ver]
          /\ down' = Append(down, a) /\ up' = Tail(up) /\ UNCHANGED <<handler, ackedVer>>
      BY <1>6, AppliesType
    <2>2. a.row = m.row /\ a.ver = m.ver
      OBVIOUS
    <2>3. Range(down') = Range(down) \cup {a}
      <3> HIDE DEF a
      <3>1. down \in Seq(Acks \cup Boots)
        BY DEF Types, LinkOK
      <3>2. QED
        BY <2>1, <3>1, AppendWithin
    <2>4. Range(up') \subseteq Range(up)
      BY <2>1, TailWithin, WithinRange DEF Types, LinkOK
    <2> HIDE DEF m, a
    <2>5. m.row = r => m.ver <= v
      BY <2>1 DEF Known
    <2>6. cloudVer'[r] <= v
      BY <2>1, <2>5 DEF Known, Types, LinkOK
    <2>7. QED
      BY <2>1, <2>2, <2>3, <2>4, <2>5, <2>6 DEF Known
  <1>7. CASE LoseUpsert \/ Reconnect \/ Restart
    <2>1. /\ up' = <<>> \/ Within(up', up)
          /\ down' = down \/ down' = <<>> \/ down' = <<[kind |-> "boot"]>>
          /\ handler' = handler \/ handler' = NoHandler
          /\ cloudVer' = cloudVer /\ ackedVer' = ackedVer
      BY <1>7, TroubleType
    <2>2. Range(up') \subseteq Range(up)
      BY <2>1, WithinRange, RangeOfBoot
    <2>3. \A a \in Range(down') : a.kind = "ack" => a \in Range(down)
      BY <2>1, RangeOfBoot, Zenon
    <2>4. QED
      BY <2>1, <2>2, <2>3 DEF Known
  <1>8. CASE AckRead \/ BootRead
    <2>1. /\ Head(down) \in Range(down) /\ Within(down', down)
          /\ UNCHANGED <<up, cloudVer, ackedVer>>
          /\ handler' = NoHandler \/ handler'.ack = Head(down)
      BY <1>8, HandlerReadType DEF historyVars
    <2>2. Range(down') \subseteq Range(down)
      BY <2>1, WithinRange
    <2>3. QED
      BY <2>1, <2>2 DEF Known
  <1>9. CASE HandlerCommits
    <2>1. /\ handler \in Handling /\ handler # NoHandler /\ handler' = NoHandler
          /\ UNCHANGED <<up, down, cloudVer>>
      BY <1>9, CommitsType DEF Handling, NoHandler
    <2>2. ackedVer'[r] <= v
      <3>1. ackedVer' = ackedVer \/
              /\ handler.ack.kind = "ack" /\ handler.ack \in Acks
              /\ ackedVer' = [ackedVer EXCEPT ![handler.ack.row] =
                                IF ackedVer[handler.ack.row] < handler.ack.ver
                                THEN handler.ack.ver ELSE ackedVer[handler.ack.row]]
        BY <1>9, CommitsType
      <3>2. QED
        BY <2>1, <3>1 DEF Known, Types, HistoryOK
    <2>3. QED
      BY <2>1, <2>2 DEF Known
  <1>10. QED
    BY <1>3, <1>4, <1>5, <1>6, <1>7, <1>8, <1>9
    DEF Next, Edit, TaskStep, Environment, ReceiveStep

LEMMA KnownNewer ==
  ASSUME Types, NEW r \in Rows, NEW v \in Nat, NEW w \in Nat, v <= w, Known(r, v)
  PROVE  Known(r, w)
  <1>1. cloudVer[r] <= w /\ ackedVer[r] <= w
    BY DEF Known, Types, LinkOK, HistoryOK
  <1>2. \A m \in Range(up) : m \in Upsert
    BY DEF Types, LinkOK, Range
  <1>3. \A a \in Range(down) : a.kind = "ack" => a.ver \in Nat
    BY DEF Types, LinkOK, Range, Acks, Boots
  <1>4. handler # NoHandler /\ handler.ack.kind = "ack" => handler.ack.ver \in Nat
    BY DEF Types, LinkOK, Handling, Acks, Boots
  <1>5. QED
    BY <1>1, <1>2, <1>3, <1>4 DEF Known, Upsert

(* What a step does to a task that emits.                                  *)
LEMMA EmittingStep ==
  ASSUME Types, [Next]_vars, NEW t \in Tasks, task'[t] \in Emitting
  PROVE  \/ task'[t] = task[t]
         \/ /\ MarkDirty(t) /\ task[t] \in Emitting /\ task[t].at = "dirty"
            /\ task'[t].at = "send" /\ task'[t].row = task[t].row /\ task'[t].msg = task[t].msg
         \/ /\ EmitRead(t) /\ task'[t].at \in {"dirty", "unplaced"}
            /\ task'[t].row = task[t].row /\ task[t].row \in exists
            /\ task'[t].loaded = (task[t].row \in synced)
            /\ task'[t].msg.ver = version[task[t].row]
  <1>0. task \in [Tasks -> {Idle} \cup Reading \cup Emitting] /\ Idle \notin Emitting
        /\ \A r \in Rows : [at |-> "read", row |-> r] \notin Emitting
    BY DEF Types, TaskOK, Idle, Emitting
  <1>1. ASSUME NEW s \in Tasks, task' = [task EXCEPT ![s] = Idle] PROVE task'[t] = task[t]
    BY <1>0, <1>1
  <1>2. ASSUME NEW s \in Tasks, NEW r \in Rows,
               task' = [task EXCEPT ![s] = [at |-> "read", row |-> r]]
        PROVE  task'[t] = task[t]
    BY <1>0, <1>2
  <1>3. ASSUME NEW s \in Admins, NEW r \in Rows, Create(s, r) \/ Update(s, r)
        PROVE  task'[t] = task[t]
    <2>1. s \in Tasks
      BY DEF Tasks
    <2>2. task' = [task EXCEPT ![s] = [at |-> "read", row |-> r]]
      BY <1>3, <2>1, EditType
    <2>3. QED
      BY <1>2, <2>1, <2>2
  <1>4. ASSUME NEW s \in Tasks, EmitRead(s), s = t \/ task'[t] # task[t] PROVE
            /\ EmitRead(t) /\ task'[t].at \in {"dirty", "unplaced"}
            /\ task'[t].row = task[t].row /\ task[t].row \in exists
            /\ task'[t].loaded = (task[t].row \in synced)
            /\ task'[t].msg.ver = version[task[t].row]
    <2>1. s = t
      BY <1>0, <1>4, EmitReadType
    <2>2. task[t].row \in exists
      BY <1>0, <1>4, <2>1, EmitReadType
    <2>3. QED
      BY <1>0, <1>4, <2>1, <2>2, EmitReadType
  <1>5. ASSUME NEW s \in Tasks, MarkUnplaced(s) \/ MarkDirty(s), task'[t] # task[t] PROVE
            /\ MarkDirty(t) /\ task[t] \in Emitting /\ task[t].at = "dirty"
            /\ task'[t].at = "send" /\ task'[t].row = task[t].row /\ task'[t].msg = task[t].msg
    <2>1. /\ task[s].at = "dirty" /\ task' = [task EXCEPT ![s].at = "send"]
          /\ task[s] \in Emitting /\ task'[s].at = "send" /\ task'[s].row = task[s].row
          /\ task'[s].msg = task[s].msg
      BY <1>1, <1>5, MarkType
    <2>2. s = t
      BY <1>0, <1>5, <2>1
    <2>3. MarkDirty(t)
      BY <1>5, <2>1, <2>2 DEF MarkUnplaced
    <2>4. QED
      BY <2>1, <2>2, <2>3
  <1>6. ASSUME NEW s \in Tasks, Send(s) PROVE task'[t] = task[t]
    BY <1>1, <1>6, SendType
  <1>7. ASSUME NEW s \in Tasks, RebuildFails(s) PROVE task'[t] = task[t]
    BY <1>1, <1>7 DEF RebuildFails, Finish
  <1>8. ASSUME ResyncStep PROVE task'[t] = task[t]
    BY <1>2, <1>8 DEF ResyncStep, ResyncCollect, ResyncNext, Tasks
  <1>9. ASSUME LoseUpsert \/ Reconnect \/ Restart PROVE task'[t] = task[t]
    BY <1>0, <1>9, TroubleType DEF taskVars
  <1>10. ASSUME CloudApplies \/ ReceiveStep \/ UNCHANGED vars
                \/ \E r \in Rows : Delete(r) \/ EditSilently(r)
         PROVE  task'[t] = task[t]
    BY <1>10
    DEF CloudApplies, ReceiveStep, AckRead, BootRead, HandlerCommits, Delete, EditSilently, vars,
        taskVars
  <1>11. QED
    BY <1>3, <1>4, <1>5, <1>6, <1>7, <1>8, <1>9, <1>10 DEF Next, Edit, TaskStep, Environment

(* What a step does to the versions of a row.                              *)
LEMMA VersionStep ==
  ASSUME Types, [Next]_vars, NEW r \in Rows
  PROVE  /\ version'[r] = version[r] \/ version'[r] = version[r] + 1
         /\ r \in exists /\ r \in exists' => sentVer[r] <= sentVer'[r]
         /\ r \notin exists /\ r \in exists' => version[r] = 0 /\ version'[r] = 1
         /\ sentVer'[r] \in {0, sentVer[r]}
              \/ \E t \in Tasks : Send(t) /\ task[t].row = r /\ sentVer'[r] = task[t].msg.ver
         /\ \A t \in Tasks : Send(t) /\ task[t].row = r =>
              task[t].msg.ver <= sentVer'[r] /\ exists' = exists /\ version' = version
  <1>0. version \in [Rows -> Nat] /\ sentVer \in [Rows -> Nat]
    BY DEF Types, DbOK, HistoryOK
  <1>1. ASSUME NEW t \in Tasks, Send(t)
        PROVE  /\ UNCHANGED <<exists, version>>
               /\ sentVer[r] <= sentVer'[r]
               /\ task[t].row = r => task[t].msg.ver <= sentVer'[r]
               /\ sentVer'[r] = sentVer[r] \/ (task[t].row = r /\ sentVer'[r] = task[t].msg.ver)
    <2>1. /\ UNCHANGED <<exists, version>>
          /\ task[t].msg \in Upsert /\ task[t].msg.row = task[t].row
          /\ sentVer' = [sentVer EXCEPT ![task[t].msg.row] =
                           IF sentVer[task[t].msg.row] < task[t].msg.ver THEN task[t].msg.ver
                           ELSE sentVer[task[t].msg.row]]
      BY <1>1, SendType DEF dbVars
    <2>2. task[t].msg.ver \in Nat
      BY <2>1 DEF Upsert
    <2>3. QED
      BY <1>0, <2>1, <2>2
  <1>2. ASSUME NEW t \in Admins, NEW s \in Rows, Create(t, s) \/ Update(t, s)
        PROVE  /\ version'[r] = version[r] \/ version'[r] = version[r] + 1
               /\ r \notin exists /\ r \in exists' => version[r] = 0 /\ version'[r] = 1
               /\ sentVer' = sentVer
    BY <1>0, <1>2, EditType DEF Tasks
  <1>3. ASSUME NEW s \in Rows, Delete(s) \/ EditSilently(s)
        PROVE  /\ version'[r] = version[r] \/ version'[r] = version[r] + 1
               /\ exists' \subseteq exists
               /\ sentVer'[r] \in {0, sentVer[r]} /\ (r \in exists' => sentVer'[r] = sentVer[r])
    BY <1>0, <1>3 DEF Delete, EditSilently
  <1>4. ASSUME NEW t \in Tasks, EmitRead(t) \/ MarkUnplaced(t) \/ MarkDirty(t) \/ RebuildFails(t)
        PROVE  UNCHANGED <<exists, version, sentVer>>
    BY <1>4 DEF EmitRead, MarkUnplaced, MarkDirty, RebuildFails, dbVars, historyVars
  <1>5. ASSUME ResyncStep \/ Environment \/ ReceiveStep \/ UNCHANGED vars
        PROVE  UNCHANGED <<exists, version, sentVer>>
    BY <1>5 DEF ResyncStep, ResyncCollect, ResyncNext, Environment, LoseUpsert, CloudApplies,
                Reconnect, Restart, ReceiveStep, AckRead, BootRead, HandlerCommits, vars, dbVars,
                historyVars
  <1>6. /\ version'[r] = version[r] \/ version'[r] = version[r] + 1
        /\ r \in exists /\ r \in exists' => sentVer[r] <= sentVer'[r]
        /\ r \notin exists /\ r \in exists' => version[r] = 0 /\ version'[r] = 1
        /\ sentVer'[r] \in {0, sentVer[r]}
             \/ \E t \in Tasks : Send(t) /\ task[t].row = r /\ sentVer'[r] = task[t].msg.ver
    BY <1>0, <1>1, <1>2, <1>3, <1>4, <1>5 DEF Next, Edit, TaskStep
  <1>7. QED
    BY <1>1, <1>6

LEMMA VersionsStep == Types /\ Versions /\ [Next]_vars => Versions'
  <1> SUFFICES ASSUME Types, Versions, [Next]_vars PROVE Versions'
    OBVIOUS
  <1>0. /\ version \in [Rows -> Nat] /\ sentVer \in [Rows -> Nat]
        /\ version' \in [Rows -> Nat] /\ sentVer' \in [Rows -> Nat]
    BY TypesStep DEF Types, DbOK, HistoryOK
  <1>1. ASSUME NEW r \in Rows PROVE version[r] <= version'[r]
    BY <1>0, VersionStep
  <1>2. ASSUME NEW t \in Tasks, Send(t)
        PROVE  task[t].row \in Rows /\ task[t].msg.ver \in Nat
               /\ task[t].msg.ver <= version[task[t].row]
    <2>1. task[t] \in Emitting
      BY <1>2, SendType
    <2>2. QED
      BY <2>1 DEF Versions, Emitting, Upsert
  <1>3. ASSUME NEW r \in Rows PROVE sentVer'[r] <= version'[r] /\ Known(r, version[r])'
    <2>1. sentVer'[r] <= version'[r]
      <3>1. sentVer[r] <= version[r]
        BY DEF Versions
      <3>2. QED
        BY <1>0, <1>1, <1>2, <3>1, VersionStep
    <2>2. PICK w \in Nat : w = version'[r]
      BY <1>0
    <2>3. PICK v \in Nat : v = version[r]
      BY <1>0
    <2>4. Known(r, v)
      BY <2>3 DEF Versions
    <2>5. Known(r, w)
      BY <1>1, <2>2, <2>3, <2>4, KnownNewer
    <2>6. \A t \in Tasks : Send(t) /\ task[t].row = r => task[t].msg.ver <= w
      BY <1>0, <1>1, <1>2, <2>2
    <2>7. Known(r, w)'
      BY <2>5, <2>6, KnownKept
    <2>8. QED
      BY <2>1, <2>2, <2>7 DEF Known
  <1>4. ASSUME NEW r \in Rows, r \in exists' PROVE Known(r, sentVer[r])'
    <2>1. PICK w \in Nat : w = sentVer'[r]
      BY <1>0
    <2>2. Known(r, w)
      <3>1. PICK v \in Nat : v = IF r \in exists THEN sentVer[r] ELSE version[r]
        BY <1>0
      <3>2. Known(r, v)
        BY <3>1 DEF Versions
      <3>3. v <= w
        BY <1>0, <1>4, <2>1, <3>1, VersionStep
      <3>4. QED
        BY <3>2, <3>3, KnownNewer
    <2>3. \A t \in Tasks : Send(t) /\ task[t].row = r => task[t].msg.ver <= w
      BY <2>1, VersionStep
    <2>4. Known(r, w)'
      BY <2>2, <2>3, KnownKept
    <2>5. QED
      BY <2>1, <2>4 DEF Known
  <1>5. ASSUME NEW t \in Tasks, task'[t] \in Emitting
        PROVE  task'[t].msg.ver <= version'[task'[t].row]
    <2>1. /\ task'[t].row \in Rows /\ task'[t].msg.ver \in Nat
      BY <1>5 DEF Emitting, Upsert
    <2>2. task'[t].msg.ver <= version[task'[t].row]
      <3>1. \/ task[t] \in Emitting /\ task'[t].row = task[t].row /\ task'[t].msg = task[t].msg
            \/ task'[t].row = task[t].row /\ task'[t].msg.ver = version[task[t].row]
        BY <1>5, EmittingStep
      <3>2. QED
        BY <1>0, <2>1, <3>1 DEF Versions
    <2>3. QED
      BY <1>0, <1>1, <2>1, <2>2
  <1>6. exists' \subseteq Rows
    BY TypesStep DEF Types, DbOK
  <1>7. QED
    BY <1>3, <1>4, <1>5, <1>6 DEF Versions

LEMMA InitVersions == Init => Versions
  <1> SUFFICES ASSUME Init PROVE Versions
    OBVIOUS
  <1>1. \A r \in Rows : Known(r, 0)
    <2>1. Range(up) = {} /\ Range(down) = {}
      BY RangeOfBoot DEF Init
    <2>2. QED
      BY <2>1 DEF Init, Known
  <1>2. \A t \in Tasks : task[t] \notin Emitting
    BY DEF Init, Idle, Emitting
  <1>3. \A r \in Rows : version[r] = 0 /\ sentVer[r] = 0
    BY DEF Init
  <1>4. QED
    BY <1>1, <1>2, <1>3 DEF Init, Versions

-----------------------------------------------------------------------------
(* Rows that wait for an acknowledgement                                   *)

(* While version v of row r is not acknowledged, r is among those that     *)
(* resync_pending selects.                                                 *)
Fresh(r, v) == r \in exists \ overacked /\ v > ackedVer[r] => r \notin synced

(* This holds of what was sent and, from the mark on, of what is to be.    *)
Unmarked ==
  /\ \A r \in Rows : Fresh(r, sentVer[r])
  /\ \A t \in Tasks :
       /\ task[t] \in Emitting
       /\ task[t].at = "send" \/ (task[t].at = "dirty" /\ ~task[t].loaded)
       => Fresh(task[t].row, task[t].msg.ver)

(* A row is marked as synced by a commit of the receive loop only.         *)
LEMMA SyncedStep ==
  ASSUME Types, [Next]_vars, NEW r \in Rows, r \in synced'
  PROVE  /\ r \in exists
         /\ \/ /\ HandlerCommits /\ r \in handler.mark
               /\ r \in overacked' \/ ~Outdated(r)
            \/ /\ r \in synced /\ ackedVer[r] <= ackedVer'[r]
               /\ r \in overacked => r \in overacked'
  <1>0. synced \subseteq exists /\ ackedVer \in [Rows -> Nat] /\ r \in exists'
    BY TypesStep DEF Types, DbOK, HistoryOK
  <1>1. ASSUME r \in synced, ackedVer' = ackedVer, overacked' = overacked
        PROVE  /\ r \in exists /\ r \in synced /\ ackedVer[r] <= ackedVer'[r]
               /\ r \in overacked => r \in overacked'
    BY <1>0, <1>1
  <1>2. ASSUME NEW t \in Admins, NEW s \in Rows, Create(t, s) \/ Update(t, s)
        PROVE  r \in synced /\ ackedVer' = ackedVer /\ overacked' = overacked
    BY <1>2 DEF Create, Update, overlapVars
  <1>3. ASSUME NEW s \in Rows, Delete(s)
        PROVE  /\ r \in synced /\ ackedVer[r] <= ackedVer'[r]
               /\ r \in overacked => r \in overacked'
    BY <1>0, <1>3 DEF Delete
  <1>4. ASSUME NEW s \in Rows, EditSilently(s)
        PROVE  r \in synced /\ ackedVer' = ackedVer /\ overacked' = overacked
    BY <1>4 DEF EditSilently, overlapVars
  <1>5. ASSUME NEW t \in Tasks, MarkUnplaced(t) \/ MarkDirty(t)
        PROVE  /\ r \in synced /\ ackedVer[r] <= ackedVer'[r]
               /\ r \in overacked => r \in overacked'
    <2>1. /\ synced' = synced \/ synced' = synced \ {task[t].row}
          /\ overacked' = overacked \/ (overacked' = overacked \ {task[t].row}
                                        /\ synced' = synced \ {task[t].row})
          /\ ackedVer' = ackedVer
      BY <1>5, MarkType
    <2>2. QED
      BY <1>0, <2>1
  <1>6. ASSUME NEW t \in Tasks, EmitRead(t) \/ Send(t) \/ RebuildFails(t)
        PROVE  r \in synced /\ ackedVer' = ackedVer /\ overacked' = overacked
    BY <1>6 DEF EmitRead, Send, RebuildFails, dbVars, historyVars, overlapVars
  <1>7. ASSUME ResyncStep \/ Environment \/ AckRead \/ BootRead \/ UNCHANGED vars
        PROVE  r \in synced /\ ackedVer' = ackedVer /\ overacked' = overacked
    BY <1>7 DEF ResyncStep, ResyncCollect, ResyncNext, Environment, LoseUpsert, CloudApplies,
                Reconnect, Restart, AckRead, BootRead, vars, dbVars, historyVars, overlapVars
  <1>8. ASSUME HandlerCommits
        PROVE  /\ r \in exists
               /\ \/ /\ HandlerCommits /\ r \in handler.mark
                     /\ r \in overacked' \/ ~Outdated(r)
                  \/ /\ r \in synced /\ ackedVer[r] <= ackedVer'[r]
                     /\ r \in overacked => r \in overacked'
    <2>1. exists' = exists
      BY <1>8, CommitsType
    <2>2. CASE UNCHANGED <<synced, failed, placed, ackedVer, overacked, orphaned>>
      BY <1>0, <2>2
    <2>3. CASE /\ synced' = synced \cup handler.mark
               /\ handler.ack.kind = "ack" =>
                    /\ handler.ack \in Acks
                    /\ ackedVer' = [ackedVer EXCEPT ![handler.ack.row] =
                                      IF ackedVer[handler.ack.row] < handler.ack.ver
                                      THEN handler.ack.ver ELSE ackedVer[handler.ack.row]]
               /\ handler.ack.kind # "ack" => ackedVer' = ackedVer
               /\ overacked' = overacked \cup {q \in handler.mark : Outdated(q)}
      <3>1. CASE r \in handler.mark
        BY <1>0, <1>8, <2>1, <2>3, <3>1
      <3>2. CASE r \notin handler.mark
        <4>1. handler.ack.kind = "ack" => handler.ack.row \in Rows /\ handler.ack.ver \in Nat
          BY <2>3 DEF Acks
        <4>2. ackedVer[r] <= ackedVer'[r]
          BY <1>0, <2>3, <4>1
        <4>3. QED
          BY <1>0, <2>1, <2>3, <3>2, <4>2
      <3>3. QED
        BY <3>1, <3>2
    <2>4. QED
      BY <1>8, <2>2, <2>3, CommitsType
  <1>9. CASE HandlerCommits
    BY <1>8, <1>9
  <1>10. CASE ~HandlerCommits
    <2>1. /\ r \in synced /\ ackedVer[r] <= ackedVer'[r]
          /\ r \in overacked => r \in overacked'
      BY <1>1, <1>2, <1>3, <1>4, <1>5, <1>6, <1>7, <1>10 DEF Next, Edit, TaskStep, ReceiveStep
    <2>2. QED
      BY <1>0, <2>1
  <1>11. QED
    BY <1>9, <1>10

LEMMA FreshKept ==
  ASSUME Types, [Next]_vars, NEW r \in Rows, NEW v \in Nat, v <= version[r], Fresh(r, v)
  PROVE  Fresh(r, v)'
  <1>0. /\ ackedVer \in [Rows -> Nat] /\ ackedVer' \in [Rows -> Nat] /\ version \in [Rows -> Nat]
    BY TypesStep DEF Types, DbOK, HistoryOK
  <1> SUFFICES ASSUME r \in synced', r \notin overacked' PROVE ~(v > ackedVer'[r])
    BY DEF Fresh
  <1>1. CASE /\ HandlerCommits /\ r \in handler.mark /\ ~Outdated(r)
             /\ ackedVer'[r] = ackedVer[r] /\ handler.ack.kind # "ack"
    BY <1>0, <1>1 DEF Outdated
  <1>2. CASE HandlerCommits /\ r \in handler.mark /\ ~Outdated(r)
    <2>1. CASE UNCHANGED <<synced, failed, placed, ackedVer, overacked, orphaned>>
      <3>1. r \in exists
        BY SyncedStep
      <3>2. QED
        BY <1>0, <2>1, <3>1 DEF Fresh
    <2>2. CASE /\ handler.ack.kind = "ack"
               /\ handler.ack \in Acks
               /\ ackedVer' = [ackedVer EXCEPT ![handler.ack.row] =
                                 IF ackedVer[handler.ack.row] < handler.ack.ver
                                 THEN handler.ack.ver ELSE ackedVer[handler.ack.row]]
      <3>1. handler.ack.row = r /\ handler.ack.ver \in Nat /\ version[r] <= handler.ack.ver
        BY <1>0, <1>2, <2>2 DEF Outdated, Acks
      <3>2. QED
        BY <1>0, <2>2, <3>1
    <2>3. CASE handler.ack.kind # "ack" /\ ackedVer' = ackedVer
      BY <1>1, <1>2, <2>3
    <2>4. QED
      BY <1>2, <2>1, <2>2, <2>3, CommitsType
  <1>3. CASE /\ r \in synced /\ ackedVer[r] <= ackedVer'[r]
             /\ r \in overacked => r \in overacked'
    <2>1. r \in exists
      BY SyncedStep
    <2>2. QED
      BY <1>0, <1>3, <2>1 DEF Fresh
  <1>4. QED
    BY <1>2, <1>3, SyncedStep

LEMMA UnmarkedStep == Types /\ Versions /\ Unmarked /\ [Next]_vars => Unmarked'
  <1> SUFFICES ASSUME Types, Versions, Unmarked, [Next]_vars PROVE Unmarked'
    OBVIOUS
  <1>0. /\ version \in [Rows -> Nat] /\ sentVer \in [Rows -> Nat] /\ ackedVer \in [Rows -> Nat]
        /\ sentVer' \in [Rows -> Nat]
    BY TypesStep DEF Types, DbOK, HistoryOK
  <1>1. ASSUME NEW t \in Tasks, NEW r \in Rows, NEW v \in Nat, task[t] \in Emitting,
               task[t].row = r, task[t].msg.ver = v,
               task[t].at = "send" \/ (task[t].at = "dirty" /\ ~task[t].loaded)
        PROVE  Fresh(r, v)'
    <2>1. Fresh(r, v)
      BY <1>1 DEF Unmarked
    <2>2. v <= version[r]
      BY <1>1 DEF Versions
    <2>3. QED
      BY <2>1, <2>2, FreshKept
  <1>2. ASSUME NEW r \in Rows PROVE Fresh(r, sentVer[r])'
    <2>1. PICK v \in Nat : v = sentVer'[r]
      BY <1>0
    <2>2. Fresh(r, v)'
      <3>1. CASE v = 0
        <4>1. Fresh(r, v) /\ v <= version[r]
          BY <1>0, <3>1 DEF Fresh
        <4>2. QED
          BY <4>1, FreshKept
      <3>2. CASE v = sentVer[r]
        <4>1. Fresh(r, v) /\ v <= version[r]
          BY <3>2 DEF Unmarked, Versions
        <4>2. QED
          BY <4>1, FreshKept
      <3>3. CASE \E t \in Tasks : Send(t) /\ task[t].row = r /\ v = task[t].msg.ver
        <4>1. PICK t \in Tasks : Send(t) /\ task[t].row = r /\ v = task[t].msg.ver
          BY <3>3
        <4>2. task[t] \in Emitting /\ task[t].at = "send"
          BY <4>1, SendType
        <4>3. QED
          BY <1>1, <4>1, <4>2
      <3>4. QED
        BY <2>1, <3>1, <3>2, <3>3, VersionStep
    <2>3. QED
      BY <2>1, <2>2 DEF Fresh
  <1>3. ASSUME NEW t \in Tasks, task'[t] \in Emitting,
               task'[t].at = "send" \/ (task'[t].at = "dirty" /\ ~task'[t].loaded)
        PROVE  Fresh(task[t].row, task[t].msg.ver)'
    <2>1. PICK r \in Rows, v \in Nat : r = task'[t].row /\ v = task'[t].msg.ver
      BY <1>3 DEF Emitting, Upsert
    <2>2. Fresh(r, v)'
      <3>1. CASE task'[t] = task[t]
        BY <1>1, <1>3, <2>1, <3>1
      <3>2. CASE /\ MarkDirty(t) /\ task[t] \in Emitting /\ task[t].at = "dirty"
                 /\ task'[t].row = task[t].row /\ task'[t].msg = task[t].msg
        <4>1. CASE ~task[t].loaded
          BY <1>1, <2>1, <3>2, <4>1
        <4>2. CASE task[t].loaded
          <5>1. r \notin synced'
            BY <2>1, <3>2, <4>2 DEF MarkDirty, ClearSynced
          <5>2. QED
            BY <5>1 DEF Fresh
        <4>3. QED
          BY <4>1, <4>2
      <3>3. CASE /\ EmitRead(t) /\ task'[t].at \in {"dirty", "unplaced"}
                 /\ task'[t].row = task[t].row /\ task'[t].loaded = (task[t].row \in synced)
        <4>1. r \notin synced'
          BY <1>3, <2>1, <3>3, EmitReadType DEF dbVars
        <4>2. QED
          BY <4>1 DEF Fresh
      <3>4. QED
        BY <1>3, <3>1, <3>2, <3>3, EmittingStep
    <2>3. QED
      BY <2>1, <2>2 DEF Fresh
  <1>4. QED
    BY <1>2, <1>3 DEF Unmarked

(* Every upsert that was sent is acknowledged or sent again after a        *)
(* restart, unless an outdated acknowledgement marked its row.             *)
THEOREM UnackedAlwaysDirty == Spec => []UnackedStaysDirty
  <1>1. Init => Unmarked
    BY DEF Init, Unmarked, Fresh, Idle, Emitting
  <1>2. Unmarked /\ Types => UnackedStaysDirty
    BY DEF Unmarked, UnackedStaysDirty, Fresh, Types, DbOK
  <1>3. QED
    BY <1>1, <1>2, InitTypes, TypesStep, InitVersions, VersionsStep, UnmarkedStep, PTL DEF Spec

-----------------------------------------------------------------------------
(* Rows that are marked as synced                                          *)

(* A request that will remove the mark of row r.                           *)
Clearing(r) ==
  \E t \in Admins :
    /\ task[t].row = r
    /\ task[t].at = "read" \/ (task[t].at \in {"dirty", "unplaced"} /\ task[t].loaded)

Excused(r) == r \in orphaned \cup overacked \/ Clearing(r)

(* What waits in queue q follows the newest version v of row r, of which   *)
(* the cloud has version c.                                                *)
Orderly(q, c, r, v) ==
  /\ c = v => \A i \in DOMAIN q : q[i].row = r => q[i].ver = v
  /\ \A i, j \in DOMAIN q :
       i < j /\ q[i].row = r /\ q[j].row = r /\ q[i].ver = v => q[j].ver = v

(* Version v of row r is acknowledged, in d or by handler h, only while    *)
(* the cloud has it.                                                       *)
Attested(d, h, c, r, v) ==
  c # v =>
    /\ \A a \in Range(d) : a.kind = "ack" /\ a.row = r => a.ver # v
    /\ h # NoHandler /\ h.ack.kind = "ack" /\ h.ack.row = r => h.ack.ver # v

Unsent == \A r \in synced : sentVer[r] < version[r] => Excused(r)

Ordered ==
  \A r \in exists \ misordered :
    /\ Orderly(up, cloudVer[r], r, version[r])
    /\ Attested(down, handler, cloudVer[r], r, version[r])

Mirrored == \A r \in synced : cloudVer[r] = version[r] \/ r \in misordered \/ Excused(r)

LEMMA OrderlyWithin ==
  ASSUME NEW q, NEW u, NEW c, NEW r, NEW v, Within(u, q), Orderly(q, c, r, v)
  PROVE  Orderly(u, c, r, v)
  BY DEF Within, Orderly

LEMMA OrderlyAppend ==
  ASSUME NEW q \in Seq(Upsert), NEW m \in Upsert, NEW c, NEW r, NEW v, Orderly(q, c, r, v),
         m.row = r /\ (c = v \/ \E k \in Range(q) : k.row = r /\ k.ver = v) => m.ver = v
  PROVE  Orderly(Append(q, m), c, r, v)
  <1> DEFINE u == Append(q, m)
  <1> HIDE DEF u
  <1>1. \A i \in DOMAIN u : \/ i \in DOMAIN q /\ u[i] = q[i]
                            \/ i = Len(q) + 1 /\ u[i] = m
    BY AppendWithin DEF u
  <1>2. \A i \in DOMAIN q : i < Len(q) + 1 /\ q[i] \in Range(q) /\ i \in Nat
    BY AppendWithin, LenProperties DEF Range
  <1>3. Len(q) \in Nat
    BY LenProperties
  <1>4. ASSUME c = v, NEW i \in DOMAIN u, u[i].row = r PROVE u[i].ver = v
    BY <1>1, <1>4 DEF Orderly
  <1>5. ASSUME NEW i \in DOMAIN u, NEW j \in DOMAIN u, i < j, u[i].row = r, u[j].row = r,
               u[i].ver = v
        PROVE  u[j].ver = v
    <2>1. i \in DOMAIN q /\ u[i] = q[i]
      BY <1>1, <1>2, <1>3, <1>5
    <2>2. CASE j \in DOMAIN q /\ u[j] = q[j]
      BY <1>5, <2>1, <2>2 DEF Orderly
    <2>3. CASE u[j] = m
      BY <1>2, <1>5, <2>1, <2>3
    <2>4. QED
      BY <1>1, <2>2, <2>3
  <1>6. Orderly(u, c, r, v)
    BY <1>4, <1>5 DEF Orderly
  <1>7. QED
    BY <1>6 DEF u

LEMMA OrderlyTail ==
  ASSUME NEW q \in Seq(Upsert), q # <<>>, NEW c, NEW r, NEW v, Orderly(q, c, r, v),
         Head(q).row = r
  PROVE  Orderly(Tail(q), Head(q).ver, r, v) /\ (c = v => Head(q).ver = v)
  <1> DEFINE u == Tail(q)
  <1>1. /\ 1 \in DOMAIN q /\ q[1] = Head(q)
        /\ \A i \in DOMAIN u : 1 < i + 1 /\ i + 1 \in DOMAIN q /\ u[i] = q[i + 1]
        /\ Within(u, q)
    BY TailWithin
  <1> HIDE DEF u
  <1>2. Head(q).ver = v => \A i \in DOMAIN u : u[i].row = r => u[i].ver = v
    BY <1>1 DEF Orderly
  <1>3. Orderly(u, c, r, v)
    BY <1>1, OrderlyWithin
  <1>4. Orderly(u, Head(q).ver, r, v)
    BY <1>2, <1>3 DEF Orderly
  <1>5. c = v => Head(q).ver = v
    BY <1>1 DEF Orderly
  <1>6. QED
    BY <1>4, <1>5 DEF u

(* A version that nobody has yet is in order.                              *)
LEMMA NewestOrderly ==
  ASSUME Types, NEW r \in Rows, NEW w \in Nat, NEW v \in Nat, w < v, Known(r, w)
  PROVE  /\ Orderly(up, cloudVer[r], r, v)
         /\ Attested(down, handler, cloudVer[r], r, v)
  <1>1. cloudVer[r] # v
    BY DEF Known
  <1>2. \A i \in DOMAIN up : up[i].row = r => up[i].ver # v
    BY DEF Known, Range
  <1>3. /\ \A a \in Range(down) : a.kind = "ack" /\ a.row = r => a.ver # v
        /\ handler # NoHandler /\ handler.ack.kind = "ack" /\ handler.ack.row = r =>
             handler.ack.ver # v
    BY DEF Known
  <1>4. QED
    BY <1>1, <1>2, <1>3 DEF Orderly, Attested

LEMMA ExcusedKept ==
  ASSUME Types, [Next]_vars, NEW r \in Rows, r \in synced, r \in synced',
         Excused(r) \/ version'[r] # version[r]
  PROVE  Excused(r)'
  <1>0. /\ r \in exists /\ r \in exists' /\ Admins \subseteq Tasks /\ Resync \notin Admins
        /\ version \in [Rows -> Nat] /\ task \in [Tasks -> {Idle} \cup Reading \cup Emitting]
    BY TypesStep, CloudMirrorAssumption DEF Types, DbOK, TaskOK, Tasks
  <1>1. ASSUME version' = version, r \in orphaned => r \in orphaned',
               r \in overacked => r \in overacked', Clearing(r) => Excused(r)'
        PROVE  Excused(r)'
    BY <1>1 DEF Excused
  <1>2. ASSUME task' = task, Clearing(r) PROVE Excused(r)'
    BY <1>2 DEF Clearing, Excused
  <1>3. ASSUME NEW t \in Tasks, NEW u \in Admins, u # t, NEW e, task' = [task EXCEPT ![t] = e],
               task[u].row = r,
               task[u].at = "read" \/ (task[u].at \in {"dirty", "unplaced"} /\ task[u].loaded)
        PROVE  Excused(r)'
    <2>1. task'[u] = task[u]
      BY <1>0, <1>3
    <2>2. QED
      BY <1>3, <2>1 DEF Clearing, Excused
  <1>4. ASSUME NEW t \in Admins, NEW s \in Rows, Create(t, s) \/ Update(t, s) PROVE Excused(r)'
    <2>1. /\ version' = [version EXCEPT ![s] = version[s] + 1]
          /\ task' = [task EXCEPT ![t] = [at |-> "read", row |-> s]] /\ task[t] = Idle
          /\ orphaned' = orphaned \ {s} /\ overacked' = overacked
      BY <1>0, <1>4, EditType DEF overlapVars
    <2>2. CASE s = r
      <3>1. task'[t].at = "read" /\ task'[t].row = r
        BY <1>0, <2>1, <2>2
      <3>2. QED
        BY <3>1 DEF Clearing, Excused
    <2>3. CASE s # r
      <3>1. version'[r] = version[r]
        BY <1>0, <2>1, <2>3
      <3>2. Clearing(r) => Excused(r)'
        <4>1. ASSUME NEW u \in Admins, task[u].row = r,
                     task[u].at = "read" \/ (task[u].at \in {"dirty", "unplaced"} /\ task[u].loaded)
              PROVE  Excused(r)'
          <5>1. u # t
            BY <2>1, <4>1 DEF Idle
          <5>2. QED
            BY <1>0, <1>3, <2>1, <4>1, <5>1
        <4>2. QED
          BY <4>1 DEF Clearing
      <3>3. Excused(r)
        BY <3>1
      <3>4. QED
        BY <2>1, <2>3, <3>2, <3>3 DEF Excused
    <2>4. QED
      BY <2>2, <2>3
  <1>5. ASSUME NEW s \in Rows, Delete(s) PROVE Excused(r)'
    <2>1. s # r /\ version' = version /\ task' = task
      BY <1>0, <1>5 DEF Delete, taskVars
    <2>2. QED
      BY <1>1, <1>2, <1>5, <2>1 DEF Delete
  <1>6. ASSUME NEW s \in Rows, EditSilently(s) PROVE Excused(r)'
    <2>1. /\ version' = [version EXCEPT ![s] = version[s] + 1] /\ task' = task
          /\ orphaned' = orphaned \cup {s} /\ overacked' = overacked
      BY <1>6 DEF EditSilently, taskVars, overlapVars
    <2>2. version'[r] # version[r] => s = r
      BY <1>0, <2>1
    <2>3. QED
      BY <1>2, <2>1, <2>2 DEF Excused
  <1>7. ASSUME NEW t \in Tasks, EmitRead(t) PROVE Excused(r)'
    <2>1. version' = version /\ orphaned' = orphaned /\ overacked' = overacked
      BY <1>7 DEF EmitRead, dbVars, historyVars, overlapVars
    <2>2. ASSUME NEW u \in Admins, task[u].row = r,
                 task[u].at = "read" \/ (task[u].at \in {"dirty", "unplaced"} /\ task[u].loaded)
          PROVE  Excused(r)'
      <3>1. CASE u = t
        <4>1. PICK e \in Emitting :
                /\ task' = [task EXCEPT ![t] = e]
                /\ e.at \in {"dirty", "unplaced"} /\ e.row = r /\ e.loaded = (r \in synced)
          BY <1>0, <1>7, <2>2, <3>1, EmitReadType
        <4>2. task'[t] = e
          BY <1>0, <4>1
        <4>3. QED
          BY <2>2, <3>1, <4>1, <4>2 DEF Clearing, Excused
      <3>2. CASE u # t
        <4>1. \E e : task' = [task EXCEPT ![t] = e]
          BY <1>7 DEF EmitRead
        <4>2. QED
          BY <1>3, <2>2, <3>2, <4>1
      <3>3. QED
        BY <3>1, <3>2
    <2>3. QED
      BY <1>1, <2>1, <2>2 DEF Clearing
  <1>8. ASSUME NEW t \in Tasks, MarkUnplaced(t) \/ MarkDirty(t) PROVE Excused(r)'
    <2>1. /\ version' = version /\ orphaned' = orphaned
          /\ r \in overacked => r \in overacked'
          /\ task[t].loaded => task[t].row # r
      BY <1>0, <1>8, MarkType
    <2>2. ASSUME NEW u \in Admins, task[u].row = r,
                 task[u].at = "read" \/ (task[u].at \in {"dirty", "unplaced"} /\ task[u].loaded)
          PROVE  Excused(r)'
      <3>1. u # t
        BY <1>8, <2>1, <2>2, MarkType
      <3>2. task'[u] = task[u]
        BY <1>0, <1>8, <3>1, MarkType
      <3>3. QED
        BY <2>2, <3>2 DEF Clearing, Excused
    <2>3. QED
      BY <1>1, <2>1, <2>2 DEF Clearing
  <1>9. ASSUME NEW t \in Tasks, Send(t) PROVE Excused(r)'
    <2>1. /\ version' = version /\ orphaned' = orphaned /\ overacked' = overacked
          /\ task[t].at = "send" /\ task' = [task EXCEPT ![t] = Idle]
      BY <1>9, SendType DEF dbVars
    <2>2. Clearing(r) => Excused(r)'
      BY <1>3, <2>1 DEF Clearing
    <2>3. QED
      BY <1>1, <2>1, <2>2
  <1>10. ASSUME NEW t \in Tasks, RebuildFails(t) PROVE Excused(r)'
    <2>1. /\ version' = version /\ orphaned' = orphaned \cup {task[t].row}
          /\ overacked' = overacked /\ task' = [task EXCEPT ![t] = Idle]
      BY <1>10 DEF RebuildFails, Finish, dbVars, overlapVars
    <2>2. ASSUME NEW u \in Admins, task[u].row = r,
                 task[u].at = "read" \/ (task[u].at \in {"dirty", "unplaced"} /\ task[u].loaded)
          PROVE  Excused(r)'
      <3>1. CASE u = t
        BY <2>1, <2>2, <3>1 DEF Excused
      <3>2. CASE u # t
        BY <1>3, <2>1, <2>2, <3>2
      <3>3. QED
        BY <3>1, <3>2
    <2>3. QED
      BY <1>1, <2>1, <2>2 DEF Clearing
  <1>11. ASSUME ResyncStep PROVE Excused(r)'
    <2>1. version' = version /\ orphaned' = orphaned /\ overacked' = overacked
      BY <1>11 DEF ResyncStep, ResyncCollect, ResyncNext, dbVars, historyVars, overlapVars
    <2>2. task' = task \/ \E e : task' = [task EXCEPT ![Resync] = e]
      BY <1>11 DEF ResyncStep, ResyncCollect, ResyncNext
    <2>3. Clearing(r) => Excused(r)'
      <3>1. Resync \in Tasks
        BY DEF Tasks
      <3>2. CASE task' = task
        BY <1>2, <3>2
      <3>3. CASE \E e : task' = [task EXCEPT ![Resync] = e]
        <4>1. PICK e : task' = [task EXCEPT ![Resync] = e]
          BY <3>3
        <4>2. ASSUME NEW u \in Admins, task[u].row = r,
                     task[u].at = "read" \/ (task[u].at \in {"dirty", "unplaced"} /\ task[u].loaded)
              PROVE  Excused(r)'
          BY <1>0, <1>3, <3>1, <4>1, <4>2
        <4>3. QED
          BY <4>2 DEF Clearing
      <3>4. QED
        BY <2>2, <3>2, <3>3
    <2>4. QED
      BY <1>1, <2>1, <2>3
  <1>12. ASSUME LoseUpsert \/ Reconnect \/ Restart PROVE Excused(r)'
    <2>1. /\ version' = version /\ overacked' = overacked
          /\ \/ task' = task /\ orphaned' = orphaned
             \/ orphaned' = orphaned \cup {task[t].row : t \in {a \in Admins :
                                           task[a].at \in {"read", "dirty", "unplaced"}}}
      BY <1>12, TroubleType DEF dbVars, taskVars
    <2>2. Clearing(r) => Excused(r)'
      <3>1. CASE task' = task
        BY <1>2, <3>1
      <3>2. CASE orphaned' = orphaned \cup {task[t].row : t \in {a \in Admins :
                                           task[a].at \in {"read", "dirty", "unplaced"}}}
        BY <3>2 DEF Clearing, Excused
      <3>3. QED
        BY <2>1, <3>1, <3>2
    <2>3. QED
      BY <1>1, <2>1, <2>2
  <1>13. ASSUME CloudApplies \/ ReceiveStep \/ UNCHANGED vars PROVE Excused(r)'
    <2>1. /\ version' = version /\ task' = task
          /\ orphaned \subseteq orphaned' /\ overacked \subseteq overacked'
      <3>1. CASE CloudApplies \/ AckRead \/ BootRead \/ UNCHANGED vars
        BY <3>1 DEF CloudApplies, AckRead, BootRead, vars, dbVars, taskVars, historyVars, overlapVars
      <3>2. CASE HandlerCommits
        BY <3>2 DEF HandlerCommits, taskVars
      <3>3. QED
        BY <1>13, <3>1, <3>2 DEF ReceiveStep
    <2>2. QED
      BY <1>1, <1>2, <2>1
  <1>14. QED
    BY <1>4, <1>5, <1>6, <1>7, <1>8, <1>9, <1>10, <1>11, <1>12, <1>13
    DEF Next, Edit, TaskStep, Environment

LEMMA UnsentStep == Types /\ Versions /\ Unsent /\ [Next]_vars => Unsent'
  <1> SUFFICES ASSUME Types, Versions, Unsent, [Next]_vars, NEW r \in synced',
                      sentVer'[r] < version'[r]
               PROVE  Excused(r)'
    BY DEF Unsent
  <1>0. /\ r \in Rows /\ version \in [Rows -> Nat] /\ sentVer \in [Rows -> Nat]
        /\ ackedVer \in [Rows -> Nat] /\ r \in exists' /\ synced \subseteq exists
        /\ version' \in [Rows -> Nat] /\ sentVer' \in [Rows -> Nat]
    BY TypesStep DEF Types, DbOK, HistoryOK
  <1>1. r \in exists /\ Known(r, sentVer[r])
    BY <1>0, SyncedStep DEF Versions
  <1>2. CASE r \in synced
    <2>1. sentVer[r] <= sentVer'[r]
      BY <1>0, <1>1, VersionStep
    <2>2. sentVer[r] < version[r] \/ version'[r] # version[r]
      BY <1>0, <2>1
    <2>3. Excused(r) \/ version'[r] # version[r]
      BY <1>2, <2>2 DEF Unsent
    <2>4. QED
      BY <1>0, <1>2, <2>3, ExcusedKept
  <1>3. CASE HandlerCommits /\ r \in handler.mark /\ r \in overacked'
    BY <1>3 DEF Excused
  <1>4. CASE HandlerCommits /\ r \in handler.mark /\ ~Outdated(r)
    <2>1. handler \in Handling /\ handler # NoHandler /\ version' = version /\ sentVer' = sentVer
      BY <1>4, CommitsType DEF Handling, NoHandler
    <2>2. ~(sentVer[r] < version[r])
      <3>1. CASE handler.ack.kind = "ack"
        <4>1. handler.ack.ver \in Nat
          BY <2>1, <3>1 DEF Handling, Acks, Boots
        <4>2. handler.ack.row = r /\ version[r] <= handler.ack.ver
          BY <1>0, <1>4, <3>1, <4>1 DEF Outdated
        <4>3. handler.ack.ver <= sentVer[r]
          BY <1>1, <2>1, <3>1, <4>2 DEF Known
        <4>4. QED
          BY <1>0, <4>1, <4>2, <4>3
      <3>2. CASE handler.ack.kind # "ack"
        BY <1>0, <1>1, <1>4, <3>2 DEF Outdated, Known
      <3>3. QED
        BY <3>1, <3>2
    <2>3. QED
      BY <2>1, <2>2
  <1>5. QED
    BY <1>0, <1>2, <1>3, <1>4, SyncedStep

(* What a step does to the messages about a row whose versions are in      *)
(* order, and to the row's version in the cloud.                           *)
LEMMA OrderlyKept ==
  ASSUME Types, Versions, [Next]_vars, NEW r \in Rows, r \in exists', r \notin misordered',
         version'[r] = version[r],
         NEW v \in Nat, v = version[r], r \in exists,
         Orderly(up, cloudVer[r], r, v), Attested(down, handler, cloudVer[r], r, v)
  PROVE  Orderly(up', cloudVer'[r], r, v) /\ Attested(down', handler', cloudVer'[r], r, v)
  <1>0. /\ up \in Seq(Upsert) /\ down \in Seq(Acks \cup Boots) /\ cloudVer \in [Rows -> Nat]
        /\ Known(r, sentVer[r]) /\ sentVer[r] \in Nat
    BY DEF Types, LinkOK, HistoryOK, Versions
  <1>1. ASSUME UNCHANGED <<up, down, handler, cloudVer>>
        PROVE  Orderly(up', cloudVer'[r], r, v) /\ Attested(down', handler', cloudVer'[r], r, v)
    BY <1>1, Zenon
  <1>2. CASE \/ Edit
             \/ \E t \in Tasks : EmitRead(t) \/ MarkUnplaced(t) \/ MarkDirty(t) \/ RebuildFails(t)
             \/ ResyncStep
             \/ UNCHANGED vars
    BY <1>1, <1>2
    DEF Edit, Create, Update, Delete, EditSilently, EmitRead, MarkUnplaced, MarkDirty,
        RebuildFails, ResyncStep, ResyncCollect, ResyncNext, vars, linkVars
  <1>3. ASSUME NEW t \in Tasks, Send(t)
        PROVE  Orderly(up', cloudVer'[r], r, v) /\ Attested(down', handler', cloudVer'[r], r, v)
    <2>1. PICK m \in Upsert :
            /\ m = task[t].msg /\ m.row = task[t].row
            /\ up' = up \/ up' = Append(up, m)
            /\ misordered' = IF m.ver < sentVer[m.row] THEN misordered \cup {m.row}
                             ELSE misordered
            /\ UNCHANGED <<down, handler, cloudVer>>
      BY <1>3, SendType
    <2>2. m.row = r => sentVer[r] <= m.ver /\ m.ver <= v
      <3>1. task[t] \in Emitting
        BY <1>3, SendType
      <3>2. m.ver \in Nat /\ m.ver <= version[m.row]
        BY <2>1, <3>1 DEF Versions, Upsert
      <3>3. m.row = r => ~(m.ver < sentVer[r])
        BY <2>1
      <3>4. QED
        BY <1>0, <3>2, <3>3
    <2>3. ASSUME m.row = r, cloudVer[r] = v \/ \E k \in Range(up) : k.row = r /\ k.ver = v
          PROVE  m.ver = v
      <3>1. v <= sentVer[r]
        BY <1>0, <2>3 DEF Known
      <3>2. m.ver \in Nat
        BY DEF Upsert
      <3>3. QED
        BY <1>0, <2>2, <2>3, <3>1, <3>2
    <2>4. Orderly(Append(up, m), cloudVer[r], r, v)
      BY <1>0, <2>3, OrderlyAppend
    <2>5. Orderly(up', cloudVer[r], r, v)
      BY <2>1, <2>4, Zenon
    <2>6. QED
      BY <2>1, <2>5, Zenon
  <1>4. CASE CloudApplies
    <2>1. PICK m \in Upsert :
            /\ m = Head(up) /\ up # <<>> /\ m.row \in Rows
            /\ cloudVer' = [cloudVer EXCEPT ![m.row] = m.ver]
            /\ up' = Tail(up) /\ handler' = handler
            /\ down' = Append(down, [kind |-> "ack", row |-> m.row, ver |-> m.ver,
                                     code |-> m.code])
            /\ [kind |-> "ack", row |-> m.row, ver |-> m.ver, code |-> m.code] \in Acks
      BY <1>4, AppliesType
    <2>2. PICK a \in Acks : /\ a.row = m.row /\ a.ver = m.ver
                            /\ down' = Append(down, a)
      BY <2>1
    <2>3. Range(down') = Range(down) \cup {a}
      BY <1>0, <2>2, AppendWithin
    <2>4. CASE m.row = r
      <3>1. cloudVer'[r] = m.ver
        BY <1>0, <2>1, <2>4
      <3>2. Orderly(Tail(up), m.ver, r, v) /\ (cloudVer[r] = v => m.ver = v)
        <4>1. up \in Seq(Upsert) /\ up # <<>> /\ Head(up).row = r
          BY <1>0, <2>1, <2>4
        <4>2. Orderly(Tail(up), Head(up).ver, r, v) /\ (cloudVer[r] = v => Head(up).ver = v)
          BY <4>1, OrderlyTail, Zenon
        <4>3. QED
          BY <2>1, <4>2
      <3>3. Attested(down', handler', m.ver, r, v)
        BY <2>1, <2>2, <2>3, <3>2 DEF Attested
      <3>4. QED
        BY <2>1, <3>1, <3>2, <3>3, Zenon
    <2>5. CASE m.row # r
      <3>1. cloudVer'[r] = cloudVer[r]
        BY <1>0, <2>1, <2>5
      <3>2. Orderly(Tail(up), cloudVer[r], r, v)
        <4>1. Within(Tail(up), up)
          BY <1>0, <2>1, TailWithin
        <4>2. QED
          BY <4>1, OrderlyWithin
      <3>3. Attested(down', handler', cloudVer[r], r, v)
        BY <2>1, <2>2, <2>3, <2>5 DEF Attested
      <3>4. QED
        BY <2>1, <3>1, <3>2, <3>3, Zenon
    <2>6. QED
      BY <2>4, <2>5
  <1>5. CASE LoseUpsert \/ Reconnect \/ Restart
    <2>1. /\ up' = <<>> \/ Within(up', up)
          /\ down' = down \/ down' = <<>> \/ down' = <<[kind |-> "boot"]>>
          /\ handler' = handler \/ handler' = NoHandler
          /\ cloudVer' = cloudVer
      BY <1>5, TroubleType
    <2>2. Orderly(<<>>, cloudVer[r], r, v)
      BY DEF Orderly
    <2>3. Orderly(up', cloudVer[r], r, v)
      <3>1. CASE up' = <<>>
        BY <2>2, <3>1, Zenon
      <3>2. CASE Within(up', up)
        BY <3>2, OrderlyWithin
      <3>3. QED
        BY <2>1, <3>1, <3>2
    <2>4. \A a \in Range(down') : a.kind = "ack" => a \in Range(down)
      BY <2>1, RangeOfBoot, Zenon
    <2>5. Attested(down', handler', cloudVer[r], r, v)
      BY <2>1, <2>4 DEF Attested
    <2>6. QED
      BY <2>1, <2>3, <2>5, Zenon
  <1>6. CASE AckRead \/ BootRead
    <2>1. /\ Head(down) \in Range(down) /\ Within(down', down)
          /\ UNCHANGED <<up, cloudVer>>
          /\ handler' = NoHandler \/ handler'.ack = Head(down)
      BY <1>6, HandlerReadType
    <2>2. Range(down') \subseteq Range(down)
      BY <2>1, WithinRange
    <2>3. Attested(down', handler', cloudVer[r], r, v)
      BY <2>1, <2>2 DEF Attested
    <2>4. QED
      BY <2>1, <2>3, Zenon
  <1>7. CASE HandlerCommits
    <2>1. handler' = NoHandler /\ UNCHANGED <<up, down, cloudVer>>
      BY <1>7, CommitsType
    <2>2. Attested(down, NoHandler, cloudVer[r], r, v)
      BY DEF Attested
    <2>3. QED
      BY <2>1, <2>2, Zenon
  <1>8. QED
    BY <1>2, <1>3, <1>4, <1>5, <1>6, <1>7 DEF Next, TaskStep, Environment, ReceiveStep

(* Only the cloud puts the versions of a row in order again.               *)
LEMMA MisorderedStep ==
  ASSUME Types, [Next]_vars, NEW r \in misordered, r \notin misordered', r \in exists'
  PROVE  /\ CloudApplies /\ Head(up).row = r
         /\ Head(up).ver = sentVer[r] /\ ~OlderBehind(Head(up))
  <1>1. ASSUME NEW s \in Rows, Delete(s) PROVE FALSE
    BY <1>1 DEF Delete
  <1>2. ASSUME NEW t \in Tasks, Send(t) PROVE FALSE
    <2>1. misordered \subseteq misordered'
      BY <1>2, SendType
    <2>2. QED
      BY <2>1
  <1>3. ASSUME \/ \E t \in Admins, s \in Rows : Create(t, s) \/ Update(t, s)
               \/ \E s \in Rows : EditSilently(s)
               \/ \E t \in Tasks : EmitRead(t) \/ MarkUnplaced(t) \/ MarkDirty(t) \/ RebuildFails(t)
               \/ ResyncStep
               \/ LoseUpsert \/ Reconnect \/ Restart
               \/ ReceiveStep
               \/ UNCHANGED vars
        PROVE  FALSE
    <2>1. misordered' = misordered
      BY <1>3
      DEF Create, Update, EditSilently, EmitRead, MarkUnplaced, MarkDirty, RebuildFails,
          ResyncStep, ResyncCollect, ResyncNext, LoseUpsert, Reconnect, Restart, ReceiveStep,
          AckRead, BootRead, HandlerCommits, vars, historyVars, overlapVars
    <2>2. QED
      BY <2>1
  <1>4. CloudApplies
    BY <1>1, <1>2, <1>3 DEF Next, Edit, TaskStep, Environment
  <1>5. PICK m \in Upsert :
          /\ m = Head(up)
          /\ misordered' = IF m.ver = sentVer[m.row] /\ ~OlderBehind(m) THEN misordered \ {m.row}
                           ELSE misordered
    BY <1>4, AppliesType
  <1>6. m.row = r /\ m.ver = sentVer[r] /\ ~OlderBehind(m)
    BY <1>5
  <1>7. QED
    BY <1>4, <1>5, <1>6, Zenon

LEMMA OrderedStep == Types /\ Versions /\ Ordered /\ [Next]_vars => Ordered'
  <1> SUFFICES ASSUME Types, Versions, Ordered, [Next]_vars,
                      NEW r \in exists', r \notin misordered'
               PROVE  /\ Orderly(up', cloudVer'[r], r, version'[r])
                      /\ Attested(down', handler', cloudVer'[r], r, version'[r])
    BY DEF Ordered
  <1>0. /\ r \in Rows /\ version \in [Rows -> Nat] /\ sentVer \in [Rows -> Nat]
        /\ version' \in [Rows -> Nat] /\ cloudVer \in [Rows -> Nat] /\ up \in Seq(Upsert)
    BY TypesStep DEF Types, DbOK, HistoryOK, LinkOK
  <1>1. PICK v \in Nat, w \in Nat : v = version'[r] /\ w = version[r]
    BY <1>0
  <1>2. CASE v # w
    <2>1. w < v /\ Known(r, w)
      BY <1>0, <1>1, <1>2, VersionStep DEF Versions
    <2>2. UNCHANGED <<up, down, handler, cloudVer>>
      <3>1. version' # version
        BY <1>1, <1>2
      <3>2. Edit
        BY <3>1 DEF Next, TaskStep, EmitRead, MarkUnplaced, MarkDirty, Send, RebuildFails,
                    ResyncStep, ResyncCollect, ResyncNext, Environment, LoseUpsert, CloudApplies,
                    Reconnect, Restart, ReceiveStep, AckRead, BootRead, HandlerCommits, vars, dbVars
      <3>3. QED
        BY <3>2 DEF Edit, Create, Update, Delete, EditSilently, linkVars
    <2>3. Orderly(up, cloudVer[r], r, v) /\ Attested(down, handler, cloudVer[r], r, v)
      BY <1>0, <2>1, NewestOrderly
    <2>4. QED
      BY <1>1, <2>2, <2>3, Zenon
  <1>3. CASE v = w
    <2>1. r \in exists /\ version'[r] = version[r]
      <3>1. version'[r] = version[r]
        BY <1>1, <1>3, Zenon
      <3>2. r \notin exists => version[r] = 0 /\ version'[r] = 1
        BY <1>0, VersionStep
      <3>3. QED
        BY <3>1, <3>2
    <2>2. ASSUME Orderly(up, cloudVer[r], r, v), Attested(down, handler, cloudVer[r], r, v)
          PROVE  Orderly(up', cloudVer'[r], r, v) /\ Attested(down', handler', cloudVer'[r], r, v)
      BY <1>0, <1>1, <1>3, <2>1, <2>2, OrderlyKept
    <2>3. CASE r \notin misordered
      <3>1. Orderly(up, cloudVer[r], r, v) /\ Attested(down, handler, cloudVer[r], r, v)
        BY <1>1, <1>3, <2>1, <2>3 DEF Ordered
      <3>2. QED
        BY <1>1, <2>2, <3>1, Zenon
    <2>4. CASE r \in misordered /\ sentVer[r] < v
      <3>1. PICK u \in Nat : u = sentVer[r]
        BY <1>0
      <3>2. Known(r, u)
        BY <2>1, <3>1 DEF Versions
      <3>3. Orderly(up, cloudVer[r], r, v) /\ Attested(down, handler, cloudVer[r], r, v)
        BY <1>0, <2>4, <3>1, <3>2, NewestOrderly
      <3>4. QED
        BY <1>1, <2>2, <3>3, Zenon
    <2>5. CASE r \in misordered /\ ~(sentVer[r] < v)
      <3>1. sentVer[r] = v /\ Known(r, v)
        <4>1. sentVer[r] <= version[r]
          BY <1>0 DEF Versions
        <4>2. Known(r, version[r])
          BY <1>0 DEF Versions
        <4>3. QED
          BY <1>0, <1>1, <1>3, <2>5, <4>1, <4>2
      <3>2. /\ CloudApplies /\ Head(up).row = r
            /\ Head(up).ver = v /\ ~OlderBehind(Head(up))
        BY <2>5, <3>1, MisorderedStep
      <3>3. up # <<>> /\ up' = Tail(up) /\ cloudVer'[r] = v
        BY <1>0, <3>2, AppliesType
      <3>4. ASSUME NEW i \in DOMAIN Tail(up), Tail(up)[i].row = r PROVE Tail(up)[i].ver = v
        <4>1. Tail(up)[i] \in Range(up) /\ Tail(up)[i] \in Upsert
          <5>1. i + 1 \in DOMAIN up /\ Tail(up)[i] = up[i + 1]
            BY <1>0, <3>3, TailWithin
          <5>2. up[i + 1] \in Upsert
            BY <1>0, <5>1, ElementOfSeq, LenProperties
          <5>3. QED
            BY <5>1, <5>2 DEF Range
        <4>2. Tail(up)[i].ver <= v /\ Tail(up)[i].ver \in Nat
          BY <3>1, <3>4, <4>1 DEF Known, Upsert
        <4>3. ~(Tail(up)[i].ver < v)
          BY <3>2, <3>4 DEF OlderBehind
        <4>4. QED
          BY <4>2, <4>3
      <3>5. Orderly(Tail(up), v, r, v) /\ Attested(down', handler', v, r, v)
        BY <3>4 DEF Orderly, Attested
      <3>6. QED
        BY <1>1, <3>3, <3>5, Zenon
    <2>6. QED
      BY <2>3, <2>4, <2>5
  <1>4. QED
    BY <1>2, <1>3

LEMMA MirroredStep ==
  Types /\ Versions /\ Unsent /\ Ordered /\ Mirrored /\ [Next]_vars => Mirrored'
  <1> SUFFICES ASSUME Types, Versions, Unsent, Ordered, Mirrored, [Next]_vars,
                      NEW r \in synced', r \notin misordered', ~Excused(r)'
               PROVE  cloudVer'[r] = version'[r]
    BY DEF Mirrored
  <1>0. /\ r \in Rows /\ version \in [Rows -> Nat] /\ sentVer \in [Rows -> Nat]
        /\ cloudVer \in [Rows -> Nat] /\ up \in Seq(Upsert)
        /\ r \in exists' /\ synced \subseteq exists
    BY TypesStep DEF Types, DbOK, HistoryOK, LinkOK
  <1>1. r \in exists
    BY <1>0, SyncedStep
  <1>2. CASE r \in synced
    <2>1. ~Excused(r) /\ version'[r] = version[r]
      BY <1>0, <1>2, ExcusedKept
    <2>2. sentVer[r] = version[r]
      <3>1. sentVer[r] <= version[r] /\ ~(sentVer[r] < version[r])
        BY <1>0, <1>2, <2>1 DEF Versions, Unsent
      <3>2. QED
        BY <1>0, <3>1
    <2>3. CASE r \in misordered
      <3>1. CloudApplies /\ Head(up).row = r /\ Head(up).ver = version[r]
        BY <1>0, <2>2, <2>3, MisorderedStep
      <3>2. QED
        BY <1>0, <2>1, <3>1, AppliesType
    <2>4. CASE r \notin misordered
      <3>1. cloudVer[r] = version[r]
        BY <1>2, <2>1, <2>4 DEF Mirrored
      <3>2. CASE CloudApplies
        <4>1. Head(up).row = r => Head(up).ver = version[r]
          <5>1. Orderly(up, cloudVer[r], r, version[r])
            BY <1>1, <2>4 DEF Ordered
          <5>2. up # <<>> /\ 1 \in DOMAIN up /\ up[1] = Head(up)
            BY <1>0, <3>2, AppliesType, TailWithin
          <5>3. QED
            BY <3>1, <5>1, <5>2 DEF Orderly
        <4>2. cloudVer' = [cloudVer EXCEPT ![Head(up).row] = Head(up).ver]
          BY <3>2, AppliesType
        <4>3. QED
          BY <1>0, <2>1, <3>1, <4>1, <4>2
      <3>3. CASE ~CloudApplies
        <4>1. cloudVer' = cloudVer
          BY <3>3
          DEF Next, Edit, Create, Update, Delete, EditSilently, TaskStep, EmitRead, MarkUnplaced,
              MarkDirty, Send, RebuildFails, ResyncStep, ResyncCollect, ResyncNext, Environment,
              LoseUpsert, Reconnect, Restart, ReceiveStep, AckRead, BootRead, HandlerCommits, vars,
              linkVars
        <4>2. QED
          BY <2>1, <3>1, <4>1
      <3>4. QED
        BY <3>2, <3>3
    <2>5. QED
      BY <2>3, <2>4
  <1>3. CASE HandlerCommits /\ r \in handler.mark /\ r \in overacked'
    BY <1>3 DEF Excused
  <1>4. CASE HandlerCommits /\ r \in handler.mark /\ ~Outdated(r)
    <2>1. /\ handler \in Handling /\ handler # NoHandler
          /\ version' = version /\ cloudVer' = cloudVer /\ misordered' = misordered
      BY <1>4, CommitsType DEF Handling, NoHandler
    <2>2. cloudVer[r] = version[r]
      <3>1. CASE handler.ack.kind = "ack"
        <4>1. handler.ack.ver \in Nat
          BY <2>1, <3>1 DEF Handling, Acks, Boots
        <4>2. handler.ack.row = r /\ version[r] <= handler.ack.ver
          BY <1>0, <1>4, <3>1, <4>1 DEF Outdated
        <4>3. handler.ack.ver <= version[r]
          BY <1>0, <2>1, <3>1, <4>2 DEF Versions, Known
        <4>4. handler.ack.ver = version[r]
          BY <1>0, <4>1, <4>2, <4>3
        <4>5. Attested(down, handler, cloudVer[r], r, version[r])
          BY <1>1, <2>1 DEF Ordered
        <4>6. QED
          BY <2>1, <3>1, <4>2, <4>4, <4>5 DEF Attested
      <3>2. CASE handler.ack.kind # "ack"
        BY <1>4, <3>2 DEF Outdated
      <3>3. QED
        BY <3>1, <3>2
    <2>3. QED
      BY <2>1, <2>2
  <1>5. QED
    BY <1>0, <1>2, <1>3, <1>4, SyncedStep

(* Of every row that the database calls synced the cloud has the last      *)
(* edit, or a request that will take the mark away is still running, or    *)
(* one of the overlaps that the property names took place.                 *)
THEOREM SyncedAlwaysMirrored == Spec => []SyncedMeansMirrored
  <1>1. Init => Unsent /\ Ordered /\ Mirrored
    BY DEF Init, Unsent, Ordered, Mirrored
  <1>2. Mirrored => SyncedMeansMirrored
    BY DEF Mirrored, SyncedMeansMirrored, Excused, Clearing
  <1>3. QED
    BY <1>1, <1>2, InitTypes, TypesStep, InitVersions, VersionsStep, UnsentStep, OrderedStep,
       MirroredStep, PTL DEF Spec

=============================================================================
