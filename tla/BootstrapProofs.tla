--------------------------- MODULE BootstrapProofs --------------------------
(***************************************************************************)
(* Theorems about Bootstrap, for any number of entrances, rows and plates, *)
(* and any number of edits, sessions and lost messages.                    *)
(***************************************************************************)
EXTENDS Bootstrap, SequenceTheorems, TLAPS

(* Messages, and the handler of a snapshot.                                *)
Snapshots == [kind : {"snapshot"}, entrances : SUBSET Entrances, place : [Devices -> Links],
              whitelist : [Plates -> Links \cup {Absent}]]
Upserts   == [kind : {"upsert"}, plate : Plates, link : Links]
Deletes   == [kind : {"delete"}, plate : Plates]
Message   == Snapshots \cup Upserts \cup Deletes
Handling  == [at : {"commit"}, snapshot : Snapshots, placed : SUBSET Devices, writes : SUBSET Devices]

(* The tables of the bridge, with their references; what is on its way;    *)
(* the tables of the cloud.                                                *)
BridgeOK ==
  /\ entrances \subseteq Entrances
  /\ rows \subseteq Rows
  /\ entrance_id \in [Rows -> entrances \cup {None}]
  /\ whitelist \in [Plates -> entrances \cup {None, Absent}]

LinkOK ==
  /\ handler \in {Idle} \cup Handling
  /\ down \in Seq(Message)
  /\ told \in [Devices -> Entrances \cup {Absent}]

CloudOK ==
  /\ cEntrances \subseteq Entrances
  /\ cPlace \in [Devices -> cEntrances \cup {None}]
  /\ cWhitelist \in [Plates -> cEntrances \cup {None, Absent}]
  /\ gone \subseteq Entrances /\ gone \cap cEntrances = {}
  /\ pushed \in BOOLEAN

HistoryOK == failed \in BOOLEAN /\ fresh \subseteq Entrances /\ crossed \subseteq Devices

Types == BridgeOK /\ LinkOK /\ CloudOK /\ HistoryOK

-----------------------------------------------------------------------------
(* Sequences of messages                                                   *)

LEMMA TailAt ==
  ASSUME NEW M, NEW s \in Seq(M), s # <<>>
  PROVE  /\ Tail(s) \in Seq(M) /\ Head(s) = s[1] /\ 1 \in DOMAIN s
         /\ Head(s) \in M
         /\ \A i \in DOMAIN Tail(s) : i \in Nat /\ i >= 1 /\ i + 1 \in DOMAIN s /\ Tail(s)[i] = s[i + 1]
         /\ \A i \in DOMAIN s : i \in Nat /\ (i = 1 \/ (i - 1 \in DOMAIN Tail(s) /\ Tail(s)[i - 1] = s[i]))
  <1>1. Len(s) \in Nat /\ Len(s) # 0 /\ DOMAIN s = 1..Len(s)
    BY EmptySeq, LenProperties
  <1>2. Tail(s) \in Seq(M) /\ Len(Tail(s)) = Len(s) - 1 /\ DOMAIN Tail(s) = 1..(Len(s) - 1)
        /\ \A i \in 1..(Len(s) - 1) : Tail(s)[i] = s[i + 1]
    BY HeadTailProperties, LenProperties
  <1>3. Head(s) = s[1] /\ 1 \in DOMAIN s /\ Head(s) \in M
    BY <1>1
  <1>4. \A i \in DOMAIN Tail(s) : i \in Nat /\ i >= 1 /\ i + 1 \in DOMAIN s /\ Tail(s)[i] = s[i + 1]
    BY <1>1, <1>2
  <1>5. \A i \in DOMAIN s : i \in Nat /\ (i = 1 \/ i - 1 \in DOMAIN Tail(s))
    BY <1>1, <1>2
  <1>6. \A i \in DOMAIN s : i - 1 \in DOMAIN Tail(s) => Tail(s)[i - 1] = s[i]
    <2> SUFFICES ASSUME NEW i \in DOMAIN s, i - 1 \in DOMAIN Tail(s)
                 PROVE  Tail(s)[i - 1] = s[i]
      OBVIOUS
    <2>1. Tail(s)[i - 1] = s[(i - 1) + 1] /\ i \in Nat
      BY <1>4, <1>5
    <2>2. (i - 1) + 1 = i
      BY <2>1
    <2>3. QED
      BY <2>1, <2>2
  <1>7. QED
    BY <1>2, <1>3, <1>4, <1>5, <1>6

LEMMA AppendAt ==
  ASSUME NEW M, NEW s \in Seq(M), NEW m \in M
  PROVE  /\ Append(s, m) \in Seq(M) /\ Append(s, m) # <<>>
         /\ Len(s) \in Nat
         /\ Append(s, m)[Len(s) + 1] = m /\ Len(s) + 1 \in DOMAIN Append(s, m)
         /\ \A i \in DOMAIN s : /\ i \in DOMAIN Append(s, m) /\ Append(s, m)[i] = s[i]
                                /\ i \in Nat /\ i < Len(s) + 1
         /\ \A i \in DOMAIN Append(s, m) : i \in DOMAIN s \/ i = Len(s) + 1
  <1>1. Len(s) \in Nat /\ DOMAIN s = 1..Len(s)
    BY LenProperties
  <1>2. Append(s, m) \in Seq(M) /\ DOMAIN Append(s, m) = 1..(Len(s) + 1)
        /\ Append(s, m) # <<>>
        /\ Append(s, m)[Len(s) + 1] = m
        /\ \A i \in 1..Len(s) : Append(s, m)[i] = s[i]
    BY AppendProperties, LenProperties
  <1>3. QED
    BY <1>1, <1>2

(* u is x followed by again, the commands of s in their order: at[i] is    *)
(* the place that the i-th of them has in s.                               *)
Renews(u, x, again, s) ==
  /\ 1 \in DOMAIN u /\ u[1] = x
  /\ \E at \in [DOMAIN again -> DOMAIN s] :
       /\ \A i \in DOMAIN u :
            /\ i \in Nat
            /\ i # 1 => /\ i - 1 \in DOMAIN again
                        /\ u[i] = s[at[i - 1]]
                        /\ s[at[i - 1]].kind # "snapshot"
       /\ \A i, j \in DOMAIN again : i < j <=> at[i] < at[j]
       /\ \A c \in DOMAIN s : s[c].kind # "snapshot" =>
            \E i \in DOMAIN u : i # 1 /\ at[i - 1] = c

(* Commands that are sent again come in their order, behind the snapshot.  *)
LEMMA ResentAt ==
  ASSUME NEW M, NEW s \in Seq(M), NEW x \in M, NEW again \in Resent(s)
  PROVE  <<x>> \o again \in Seq(M) /\ Renews(<<x>> \o again, x, again, s)
  <1> DEFINE commands == {i \in DOMAIN s : s[i].kind # "snapshot"}
  <1>0. PICK n \in 0..Len(s) :
          \E at \in [1..n -> commands] :
            /\ again = [i \in 1..n |-> s[at[i]]]
            /\ \A i, j \in 1..n : i < j => at[i] < at[j]
            /\ \A c \in commands : \E i \in 1..n : at[i] = c
    BY DEF Resent
  <1>1. PICK at \in [1..n -> commands] :
          /\ again = [i \in 1..n |-> s[at[i]]]
          /\ \A i, j \in 1..n : i < j => at[i] < at[j]
          /\ \A c \in commands : \E i \in 1..n : at[i] = c
    BY <1>0
  <1>2. Len(s) \in Nat /\ n \in Nat /\ DOMAIN s = 1..Len(s) /\ \A i \in DOMAIN s : s[i] \in M
    BY LenProperties, ElementOfSeq
  <1>3. again \in Seq(M) /\ Len(again) = n /\ DOMAIN again = 1..n
    <2>1. again \in [1..n -> M]
      BY <1>1, <1>2
    <2>2. QED
      BY <1>2, <2>1, LenProperties, SeqDef
  <1>4. /\ <<x>> \o again \in Seq(M) /\ Len(<<x>> \o again) = n + 1
        /\ DOMAIN (<<x>> \o again) = 1..(n + 1)
        /\ (<<x>> \o again)[1] = x
        /\ \A i \in 1..(n + 1) : i # 1 => (<<x>> \o again)[i] = again[i - 1]
    <2>1. <<x>> \in Seq(M) /\ Len(<<x>>) = 1 /\ (<<x>>)[1] = x
      OBVIOUS
    <2> DEFINE t == <<x>>
    <2> HIDE DEF t
    <2>2. t \in Seq(M) /\ Len(t) = 1 /\ t[1] = x
      BY <2>1 DEF t
    <2>a. /\ t \o again \in Seq(M) /\ Len(t \o again) = Len(t) + Len(again)
          /\ \A i \in 1..(Len(t) + Len(again)) :
               (t \o again)[i] = IF i <= Len(t) THEN t[i] ELSE again[i - Len(t)]
      BY <1>3, <2>2, ConcatProperties
    <2>b. Len(t) + Len(again) = n + 1
      BY <1>2, <1>3, <2>2
    <2>3. /\ t \o again \in Seq(M) /\ Len(t \o again) = n + 1
          /\ \A i \in 1..(n + 1) : (t \o again)[i] = IF i <= 1 THEN t[i] ELSE again[i - 1]
      BY <2>2, <2>a, <2>b, Zenon
    <2>4. DOMAIN (t \o again) = 1..(n + 1)
      BY <2>3, LenProperties
    <2>5. (t \o again)[1] = x /\ \A i \in 1..(n + 1) : i # 1 => (t \o again)[i] = again[i - 1]
      <3>1. 1 \in 1..(n + 1) /\ \A i \in 1..(n + 1) : i <= 1 <=> i = 1
        BY <1>2
      <3>2. QED
        BY <2>2, <2>3, <3>1, Zenon
    <2>6. QED
      BY <2>3, <2>4, <2>5 DEF t
  <1> DEFINE u == <<x>> \o again
  <1> HIDE DEF u
  <1>5. /\ u \in Seq(M) /\ DOMAIN u = 1..(n + 1) /\ u[1] = x
        /\ \A i \in 1..(n + 1) : i # 1 => u[i] = again[i - 1]
    BY <1>4 DEF u
  <1>6. at \in [DOMAIN again -> DOMAIN s]
    BY <1>1, <1>3
  <1>7. \A i \in DOMAIN u :
          /\ i \in Nat
          /\ i # 1 => i - 1 \in DOMAIN again /\ u[i] = s[at[i - 1]] /\ s[at[i - 1]].kind # "snapshot"
    <2> SUFFICES ASSUME NEW i \in 1..(n + 1)
                 PROVE  /\ i \in Nat
                        /\ i # 1 => i - 1 \in 1..n /\ u[i] = s[at[i - 1]]
                                    /\ s[at[i - 1]].kind # "snapshot"
      BY <1>3, <1>5
    <2>1. i # 1 => i - 1 \in 1..n
      BY <1>2
    <2>2. i # 1 => u[i] = s[at[i - 1]] /\ s[at[i - 1]].kind # "snapshot"
      BY <1>1, <1>5, <2>1
    <2>3. QED
      BY <1>2, <2>1, <2>2
  <1>8. \A i, j \in DOMAIN again : i < j <=> at[i] < at[j]
    <2> SUFFICES ASSUME NEW i \in 1..n, NEW j \in 1..n
                 PROVE  i < j <=> at[i] < at[j]
      BY <1>3
    <2>1. at[i] \in Nat /\ at[j] \in Nat /\ i \in Nat /\ j \in Nat
      BY <1>1, <1>2
    <2>2. i < j \/ i = j \/ j < i
      BY <2>1
    <2>3. QED
      BY <1>1, <2>1, <2>2
  <1>9. \A c \in DOMAIN s : s[c].kind # "snapshot" => \E i \in DOMAIN u : i # 1 /\ at[i - 1] = c
    <2> SUFFICES ASSUME NEW c \in commands PROVE \E i \in DOMAIN u : i # 1 /\ at[i - 1] = c
      OBVIOUS
    <2>1. PICK k \in 1..n : at[k] = c
      BY <1>1
    <2>2. k + 1 \in DOMAIN u /\ k + 1 # 1 /\ (k + 1) - 1 = k
      BY <1>2, <1>5
    <2>3. QED
      BY <2>1, <2>2
  <1>10. 1 \in DOMAIN u
    BY <1>2, <1>5
  <1>11. QED
    BY <1>5, <1>6, <1>7, <1>8, <1>9, <1>10 DEF u, Renews

-----------------------------------------------------------------------------
(* Types                                                                   *)

LEMMA Kinds ==
  ASSUME NEW m \in Message
  PROVE  /\ m.kind \in {"snapshot", "upsert", "delete"}
         /\ m.kind = "snapshot" => m \in Snapshots
         /\ m.kind = "upsert" => m \in Upserts
         /\ m.kind = "delete" => m \in Deletes
  BY DEF Message, Snapshots, Upserts, Deletes

LEMMA SnapshotType ==
  ASSUME CloudOK
  PROVE  Snapshot \in Snapshots /\ Snapshot \in Message /\ Snapshot.kind = "snapshot"
  <1>1. /\ cEntrances \in SUBSET Entrances
        /\ cPlace \in [Devices -> Links]
        /\ cWhitelist \in [Plates -> Links \cup {Absent}]
    BY DEF CloudOK, Links
  <1>2. Snapshot \in Snapshots
    BY <1>1 DEF Snapshot, Snapshots
  <1>3. QED
    BY <1>2 DEF Message, Snapshot

LEMMA HandlerType ==
  ASSUME LinkOK, handler # Idle
  PROVE  handler \in Handling /\ handler.snapshot \in Snapshots /\ handler.placed \subseteq Devices
         /\ handler.at = "commit"
  BY DEF LinkOK, Handling

(* Each step of the cloud, in the terms of the proofs.                     *)
LEMMA CloudStepType ==
  ASSUME Types, Cloud
  PROVE  /\ UNCHANGED <<localVars, handler, moves, troubles, fresh, failed>>
         /\ CloudOK' /\ down' \in Seq(Message) /\ crossed' \subseteq Devices
         /\ told' \in [Devices -> Entrances \cup {Absent}]
  <1>0. CloudOK /\ down \in Seq(Message) /\ crossed \subseteq Devices
        /\ told \in [Devices -> Entrances \cup {Absent}]
    BY DEF Types, LinkOK, HistoryOK
  <1>a. None \notin Entrances /\ Absent \notin Entrances /\ Absent # None
    BY BootstrapAssumption DEF Links
  <1>1. ASSUME NEW e \in Entrances, CloudAddsEntrance(e) PROVE CloudOK'
    BY <1>0, <1>1 DEF CloudAddsEntrance, CloudOK
  <1>2. ASSUME NEW e \in Entrances, CloudDropsEntrance(e) PROVE CloudOK'
    <2>1. cPlace' \in [Devices -> (cEntrances \ {e}) \cup {None}]
      BY <1>0, <1>2 DEF CloudDropsEntrance, CloudOK
    <2>2. cWhitelist' \in [Plates -> (cEntrances \ {e}) \cup {None, Absent}]
      BY <1>0, <1>2 DEF CloudDropsEntrance, CloudOK
    <2>3. cEntrances' = cEntrances \ {e} /\ gone' = gone \cup {e} /\ pushed' = FALSE
      BY <1>2 DEF CloudDropsEntrance
    <2>4. QED
      BY <1>0, <2>1, <2>2, <2>3 DEF CloudOK
  <1>3. ASSUME NEW d \in Devices, NEW e \in Entrances, CloudPlaces(d, e) PROVE CloudOK'
    BY <1>0, <1>3 DEF CloudPlaces, CloudOK
  <1>4. ASSUME NEW p \in Plates, NEW link \in Links, CloudUpsertsPlate(p, link)
        PROVE  CloudOK' /\ down' \in Seq(Message)
    <2>1. [kind |-> "upsert", plate |-> p, link |-> link] \in Message
      BY DEF Message, Upserts
    <2>2. down' \in Seq(Message)
      BY <1>0, <1>4, <2>1, AppendAt DEF CloudUpsertsPlate
    <2>3. CloudOK'
      BY <1>0, <1>4 DEF CloudUpsertsPlate, CloudOK
    <2>4. QED
      BY <2>2, <2>3
  <1>5. ASSUME NEW p \in Plates, CloudDeletesPlate(p) PROVE CloudOK' /\ down' \in Seq(Message)
    <2>1. [kind |-> "delete", plate |-> p] \in Message
      BY DEF Message, Deletes
    <2>2. down' \in Seq(Message)
      BY <1>0, <1>5, <2>1, AppendAt DEF CloudDeletesPlate
    <2>3. CloudOK'
      BY <1>0, <1>5 DEF CloudDeletesPlate, CloudOK
    <2>4. QED
      BY <2>2, <2>3
  <1>6. ASSUME CloudPushes PROVE CloudOK' /\ down' \in Seq(Message) /\ crossed' \subseteq Devices
    <2>1. down' \in Seq(Message)
      BY <1>0, <1>6, SnapshotType, AppendAt DEF CloudPushes
    <2>2. QED
      BY <1>0, <1>6, <2>1 DEF CloudPushes, CloudOK
  <1>7. ASSUME NEW d \in Devices, CloudHears(d)
        PROVE  CloudOK' /\ crossed' \subseteq Devices /\ told' \in [Devices -> Entrances \cup {Absent}]
    BY <1>0, <1>7 DEF CloudHears, CloudOK
  <1>8. UNCHANGED <<localVars, handler, moves, troubles, fresh, failed>>
    BY DEF Cloud, CloudAddsEntrance, CloudDropsEntrance, CloudPlaces, CloudUpsertsPlate,
           CloudDeletesPlate, CloudPushes, CloudHears, histVars
  <1>9. \/ \E e \in Entrances : CloudAddsEntrance(e) \/ CloudDropsEntrance(e)
        \/ \E d \in Devices, e \in Entrances : CloudPlaces(d, e)
        \/ \E p \in Plates, link \in Links : CloudUpsertsPlate(p, link)
        \/ \E p \in Plates : CloudDeletesPlate(p)
        \/ CloudPushes
        \/ \E d \in Devices : CloudHears(d)
    BY DEF Cloud
  <1>10. \/ down' = down /\ CloudOK'
         \/ CloudOK' /\ down' \in Seq(Message)
    BY <1>1, <1>2, <1>3, <1>4, <1>5, <1>6, <1>7, <1>9
    DEF CloudAddsEntrance, CloudDropsEntrance, CloudPlaces, CloudHears
  <1>11. crossed' \subseteq Devices /\ told' \in [Devices -> Entrances \cup {Absent}]
    BY <1>0, <1>6, <1>7, <1>9
    DEF CloudAddsEntrance, CloudDropsEntrance, CloudPlaces, CloudUpsertsPlate,
        CloudDeletesPlate, CloudPushes, histVars
  <1>12. QED
    BY <1>0, <1>8, <1>10, <1>11

LEMMA NewSessionType ==
  ASSUME Types, NewSession
  PROVE  /\ UNCHANGED <<localVars, told, cEntrances, cPlace, cWhitelist, gone, fresh, failed>>
         /\ handler' = Idle /\ pushed' = TRUE
         /\ down' \in Seq(Message)
         /\ crossed' = {d \in Devices : told[d] # Absent}
  <1>1. Snapshot \in Message /\ down \in Seq(Message)
    BY SnapshotType DEF Types, LinkOK
  <1>2. <<Snapshot>> \in Seq(Message)
    BY <1>1
  <1>3. \A again \in Resent(down) : <<Snapshot>> \o again \in Seq(Message)
    BY <1>1, ResentAt
  <1>4. down' \in Seq(Message)
    BY <1>2, <1>3 DEF NewSession
  <1>5. QED
    BY <1>4 DEF NewSession

LEMMA SnapshotReadsType ==
  ASSUME Types, SnapshotReads
  PROVE  /\ UNCHANGED <<localVars, told, cloudVars, fresh, failed, crossed>>
         /\ handler = Idle /\ down # <<>> /\ Head(down) \in Snapshots
         /\ handler' \in Handling /\ handler'.snapshot = Head(down)
         /\ handler'.placed = {d \in Devices \cap rows :
                                 /\ Head(down).place[d] \in entrances
                                 /\ entrance_id[d] # Head(down).place[d]}
         /\ down' = Tail(down)
  <1>1. Head(down) \in Snapshots
    BY TailAt, Kinds DEF SnapshotReads, Types, LinkOK
  <1> DEFINE s == Head(down)
             placed == {d \in Devices \cap rows :
                          s.place[d] \in entrances /\ entrance_id[d] # s.place[d]}
  <1>2. PICK touched \in SUBSET (Devices \cap rows) :
          handler' = [at |-> "commit", snapshot |-> s, placed |-> placed,
                      writes |-> placed \cup touched]
    BY DEF SnapshotReads
  <1>3. placed \subseteq Devices /\ placed \cup touched \subseteq Devices
    OBVIOUS
  <1>4. handler' \in Handling /\ handler'.snapshot = s /\ handler'.placed = placed
    BY <1>1, <1>2, <1>3 DEF Handling
  <1>5. QED
    BY <1>1, <1>4 DEF SnapshotReads, histVars

(* A commit, or a rollback.                                                *)
LEMMA SnapshotCommitsType ==
  ASSUME Types, SnapshotCommits
  PROVE  /\ handler \in Handling /\ handler' = Idle
         /\ UNCHANGED <<rows, down, told, cloudVars, crossed>>
         /\ failed' \in BOOLEAN
         /\ ~failed' =>
              LET s == handler.snapshot IN
              /\ entrances' = s.entrances \cup Kept(s)
              /\ fresh' = s.entrances \ entrances
              /\ entrance_id' = Unlinked(s, handler.placed)
              /\ whitelist' = Swept(s)
         /\ failed' => UNCHANGED <<entrances, fresh, entrance_id, whitelist>>
         /\ BridgeOK' /\ fresh' \subseteq Entrances
  <1>1. handler \in Handling
    BY DEF SnapshotCommits, Types, LinkOK, Idle
  <1> DEFINE s == handler.snapshot
  <1>2. s \in Snapshots
    BY <1>1 DEF Handling
  <1>3. Kept(s) \subseteq Entrances /\ s.entrances \subseteq Entrances
    BY <1>2 DEF Kept, Types, BridgeOK, Snapshots
  <1>4. Unlinked(s, handler.placed) \in [Rows -> Kept(s) \cup {None}]
    BY DEF Unlinked, InKept
  <1>5. Swept(s) \in [Plates -> Kept(s) \cup {None, Absent}]
    BY DEF Swept, InKept
  <1> HIDE DEF s
  <1>6. CASE handler.writes \subseteq rows
    <2>1. /\ entrances' = s.entrances \cup Kept(s)
          /\ fresh' = s.entrances \ entrances
          /\ entrance_id' = Unlinked(s, handler.placed)
          /\ whitelist' = Swept(s)
          /\ failed' = FALSE
      BY <1>6 DEF SnapshotCommits, s
    <2>2. BridgeOK'
      <3>1. entrances' \subseteq Entrances /\ Kept(s) \subseteq entrances'
        BY <1>3, <2>1
      <3>2. rows' \subseteq Rows
        BY DEF SnapshotCommits, Types, BridgeOK
      <3>3. QED
        BY <1>4, <1>5, <2>1, <3>1, <3>2 DEF BridgeOK
    <2>3. QED
      BY <1>1, <1>3, <2>1, <2>2 DEF SnapshotCommits, s
  <1>7. CASE ~(handler.writes \subseteq rows)
    BY <1>1, <1>7 DEF SnapshotCommits, Types, BridgeOK, HistoryOK
  <1>8. QED
    BY <1>6, <1>7

LEMMA PlateStepType ==
  ASSUME Types, PlateUpsert \/ PlateDelete
  PROVE  /\ handler = Idle /\ down # <<>> /\ down' = Tail(down)
         /\ UNCHANGED <<entrances, rows, entrance_id, handler, told, cloudVars, fresh, failed,
                        crossed>>
         /\ Head(down) \in Message /\ Head(down).kind # "snapshot" /\ Head(down).plate \in Plates
         /\ whitelist' = [whitelist EXCEPT ![Head(down).plate] =
                            IF Head(down).kind = "upsert" THEN Resolved(Head(down).link)
                            ELSE Absent]
         /\ whitelist' \in [Plates -> entrances \cup {None, Absent}]
  <1>1. handler = Idle /\ down # <<>> /\ down' = Tail(down)
    BY DEF PlateUpsert, PlateDelete
  <1>2. Head(down) \in Message
    BY <1>1, TailAt DEF Types, LinkOK
  <1>3. /\ Head(down).kind # "snapshot" /\ Head(down).plate \in Plates
        /\ Head(down).kind = "delete" => PlateDelete
        /\ Head(down).kind = "upsert" => PlateUpsert
    BY <1>2, Kinds DEF PlateUpsert, PlateDelete, Upserts, Deletes
  <1>4. whitelist' = [whitelist EXCEPT ![Head(down).plate] =
                        IF Head(down).kind = "upsert" THEN Resolved(Head(down).link)
                        ELSE Absent]
    BY <1>2, <1>3, Kinds DEF PlateUpsert, PlateDelete
  <1>5. Resolved(Head(down).link) \in entrances \cup {None, Absent}
    BY DEF Resolved
  <1>6. whitelist' \in [Plates -> entrances \cup {None, Absent}]
    BY <1>4, <1>5 DEF Types, BridgeOK
  <1>7. QED
    BY <1>1, <1>2, <1>3, <1>4, <1>6 DEF PlateUpsert, PlateDelete, histVars

LEMMA TypesStep == Types /\ [Next]_vars => Types'
  <1> SUFFICES ASSUME Types, [Next]_vars PROVE Types'
    OBVIOUS
  <1>0. BridgeOK /\ LinkOK /\ CloudOK /\ HistoryOK
    BY DEF Types
  <1>1. CASE Cloud
    BY <1>0, <1>1, CloudStepType DEF Types, BridgeOK, LinkOK, HistoryOK, localVars
  <1>2. CASE NewSession
    BY <1>0, <1>2, NewSessionType DEF Types, BridgeOK, LinkOK, CloudOK, HistoryOK, localVars
  <1>3. ASSUME NEW d \in Devices, UpsertLost(d) PROVE Types'
    BY <1>0, <1>3 DEF UpsertLost, Types, BridgeOK, LinkOK, CloudOK, HistoryOK, localVars, cloudVars
  <1>4. ASSUME NEW r \in Rows, NEW e \in Links, Move(r, e) PROVE Types'
    <2>1. e \in entrances \cup {None}
      BY <1>4 DEF Move
    <2>2. entrance_id' \in [Rows -> entrances \cup {None}]
      BY <1>0, <1>4, <2>1 DEF Move, BridgeOK
    <2>3. told' \in [Devices -> Entrances \cup {Absent}]
      BY <1>0, <1>4, <2>1 DEF Move, LinkOK, BridgeOK
    <2>4. crossed' \subseteq Devices
      BY <1>0, <1>4 DEF Move, HistoryOK
    <2>5. QED
      BY <1>0, <1>4, <2>2, <2>3, <2>4
      DEF Move, Types, BridgeOK, LinkOK, CloudOK, HistoryOK, cloudVars
  <1>5. ASSUME NEW r \in Rows, Remove(r) PROVE Types'
    BY <1>0, <1>5 DEF Remove, Types, BridgeOK, LinkOK, CloudOK, HistoryOK, cloudVars, histVars
  <1>6. CASE SnapshotReads
    <2>1. down' \in Seq(Message) /\ handler' \in Handling
      BY <1>0, <1>6, SnapshotReadsType, TailAt DEF LinkOK
    <2>2. QED
      BY <1>0, <1>6, <2>1, SnapshotReadsType
      DEF Types, BridgeOK, LinkOK, CloudOK, HistoryOK, localVars, cloudVars
  <1>7. CASE SnapshotCommits
    BY <1>0, <1>7, SnapshotCommitsType DEF Types, LinkOK, CloudOK, HistoryOK, cloudVars
  <1>8. CASE PlateUpsert \/ PlateDelete
    <2>1. down' \in Seq(Message)
      BY <1>0, <1>8, PlateStepType, TailAt DEF LinkOK
    <2>2. QED
      BY <1>0, <1>8, <2>1, PlateStepType
      DEF Types, BridgeOK, LinkOK, CloudOK, HistoryOK, cloudVars
  <1>9. CASE UNCHANGED vars
    BY <1>0, <1>9
    DEF vars, Types, BridgeOK, LinkOK, CloudOK, HistoryOK, localVars, cloudVars, histVars
  <1>10. QED
    BY <1>1, <1>2, <1>3, <1>4, <1>5, <1>6, <1>7, <1>8, <1>9 DEF Next, Trouble, Admin, ReceiveLoop

LEMMA TypesInvariant == Spec => []Types
  <1>1. Init => Types
    BY EmptySeq DEF Init, Types, BridgeOK, LinkOK, CloudOK, HistoryOK
  <1>2. QED
    BY <1>1, TypesStep, PTL DEF Spec

(* No row and no plate refers to an entrance that is not there, whatever   *)
(* is edited while snapshots are committed or rolled back.                 *)
THEOREM ReferencesHold == Spec => []TypeOK
  <1>1. Types => TypeOK
    BY DEF Types, BridgeOK, LinkOK, HistoryOK, TypeOK, Handling, Idle
  <1>2. QED
    BY <1>1, TypesInvariant, PTL

-----------------------------------------------------------------------------
(* What is said of a plate.  q stands for the messages on their way, h for *)
(* the handler, w and g for the whitelist and the gone entrances of the    *)
(* cloud.                                                                  *)

IsSnapshot(m)   == m.kind = "snapshot"
IsCommand(m, p) == m.kind # "snapshot" /\ m.plate = p

Says(m, p) ==
  IF m.kind = "snapshot" THEN m.whitelist[p]
  ELSE IF m.kind = "upsert" THEN m.link ELSE Absent

(* x is what the cloud has of p, or had until it deleted the entrance.     *)
Agrees(w, g, x, p) == x = w[p] \/ (x \in g /\ w[p] = None)

NoCommand(q, p) == \A j \in DOMAIN q : ~IsCommand(q[j], p)

(* The last word on p among those of q from i on.                          *)
LastOn(q, i, p) ==
  /\ IsSnapshot(q[i]) \/ IsCommand(q[i], p)
  /\ \A j \in DOMAIN q : i < j => ~IsCommand(q[j], p)

Said(q, h, w, g) ==
  \A p \in Plates :
    /\ \A i \in DOMAIN q : LastOn(q, i, p) => Agrees(w, g, Says(q[i], p), p)
    /\ h # Idle /\ NoCommand(q, p) => Agrees(w, g, h.snapshot.whitelist[p], p)

(* A message on p that no command on p follows says what the cloud has:    *)
(* also when older commands are sent again behind a newer snapshot.        *)
PlatesSaid == Said(down, handler, cWhitelist, gone)

LEMMA SaidKept ==
  ASSUME NEW q, NEW h, NEW w, NEW g, NEW w2, NEW g2, Said(q, h, w, g),
         \A p \in Plates : \A x : Agrees(w, g, x, p) => Agrees(w2, g2, x, p)
  PROVE  Said(q, h, w2, g2)
  BY DEF Said

(* A message is appended: a snapshot, or a command that says what the      *)
(* cloud has from now on.                                                  *)
LEMMA AppendSaid ==
  ASSUME NEW q \in Seq(Message), NEW h, NEW w, NEW g, NEW w2, NEW m \in Message,
         Said(q, h, w, g),
         \A p \in Plates : IsSnapshot(m) \/ IsCommand(m, p) => Says(m, p) = w2[p],
         \A p \in Plates : ~IsCommand(m, p) => w2[p] = w[p]
  PROVE  Said(Append(q, m), h, w2, g)
  <1> DEFINE r == Append(q, m)
             n == Len(q) + 1
  <1>1. /\ r[n] = m /\ n \in DOMAIN r
        /\ \A i \in DOMAIN q : i \in DOMAIN r /\ r[i] = q[i] /\ i < n
        /\ \A i \in DOMAIN r : i \in DOMAIN q \/ i = n
    BY AppendAt
  <1> HIDE DEF r, n
  <1>2. ASSUME NEW p \in Plates, NEW i \in DOMAIN r, LastOn(r, i, p)
        PROVE  Agrees(w2, g, Says(r[i], p), p)
    <2>1. CASE i = n
      BY <1>1, <1>2, <2>1 DEF Agrees, LastOn
    <2>2. CASE i \in DOMAIN q
      <3>1. ~IsCommand(m, p)
        BY <1>1, <1>2, <2>2 DEF LastOn
      <3>2. LastOn(q, i, p)
        BY <1>1, <1>2, <2>2 DEF LastOn
      <3>3. Agrees(w, g, Says(q[i], p), p)
        BY <2>2, <3>2 DEF Said
      <3>4. QED
        BY <1>1, <2>2, <3>1, <3>3 DEF Agrees
    <2>3. QED
      BY <1>1, <2>1, <2>2
  <1>3. ASSUME NEW p \in Plates, h # Idle, NoCommand(r, p)
        PROVE  Agrees(w2, g, h.snapshot.whitelist[p], p)
    <2>1. NoCommand(q, p) /\ ~IsCommand(m, p)
      BY <1>1, <1>3 DEF NoCommand
    <2>2. QED
      BY <1>3, <2>1 DEF Said, Agrees
  <1>4. Said(r, h, w2, g)
    BY <1>2, <1>3 DEF Said
  <1>5. QED
    BY <1>4 DEF r

(* The receive loop takes the first message; if it is a snapshot, it       *)
(* becomes the one that is handled.                                        *)
LEMMA TailSaid ==
  ASSUME NEW q \in Seq(Message), q # <<>>, NEW w, NEW g, NEW h, NEW h2, Said(q, h, w, g),
         h2 # Idle => IsSnapshot(Head(q)) /\ h2.snapshot = Head(q)
  PROVE  /\ Said(Tail(q), h2, w, g)
         /\ \A p \in Plates :
              /\ NoCommand(Tail(q), p)
              /\ IsSnapshot(Head(q)) \/ IsCommand(Head(q), p)
              => Agrees(w, g, Says(Head(q), p), p)
  <1> DEFINE r == Tail(q)
             m == Head(q)
  <1>1. /\ m = q[1] /\ 1 \in DOMAIN q
        /\ \A i \in DOMAIN r : i \in Nat /\ i >= 1 /\ i + 1 \in DOMAIN q /\ r[i] = q[i + 1]
        /\ \A i \in DOMAIN q : i \in Nat /\ (i = 1 \/ (i - 1 \in DOMAIN r /\ r[i - 1] = q[i]))
    BY TailAt
  <1>a. h2 # Idle => IsSnapshot(m) /\ h2.snapshot = m
    OBVIOUS
  <1> HIDE DEF r, m
  <1>2. ASSUME NEW p \in Plates, NEW i \in DOMAIN r, LastOn(r, i, p)
        PROVE  Agrees(w, g, Says(r[i], p), p)
    <2>1. ASSUME NEW j \in DOMAIN q, i + 1 < j PROVE ~IsCommand(q[j], p)
      <3>1. i \in Nat /\ j \in Nat /\ j # 1 /\ i < j - 1
        BY <1>1, <2>1
      <3>2. j - 1 \in DOMAIN r /\ r[j - 1] = q[j]
        BY <1>1, <3>1
      <3>3. QED
        BY <1>2, <3>1, <3>2 DEF LastOn
    <2>2. i + 1 \in DOMAIN q /\ r[i] = q[i + 1]
      BY <1>1
    <2>3. LastOn(q, i + 1, p)
      BY <1>2, <2>1, <2>2 DEF LastOn
    <2>4. QED
      BY <2>2, <2>3 DEF Said
  <1>3. ASSUME NEW p \in Plates, NoCommand(r, p), IsSnapshot(m) \/ IsCommand(m, p)
        PROVE  Agrees(w, g, Says(m, p), p)
    <2>1. ASSUME NEW j \in DOMAIN q, 1 < j PROVE ~IsCommand(q[j], p)
      <3>1. j - 1 \in DOMAIN r /\ r[j - 1] = q[j]
        BY <1>1, <2>1
      <3>2. QED
        BY <1>3, <3>1 DEF NoCommand
    <2>2. LastOn(q, 1, p)
      BY <1>1, <1>3, <2>1 DEF LastOn
    <2>3. QED
      BY <1>1, <2>2 DEF Said
  <1>4. ASSUME NEW p \in Plates, h2 # Idle, NoCommand(r, p)
        PROVE  Agrees(w, g, h2.snapshot.whitelist[p], p)
    <2>1. Agrees(w, g, Says(m, p), p)
      BY <1>3, <1>4, <1>a
    <2>2. Says(m, p) = h2.snapshot.whitelist[p]
      BY <1>4, <1>a DEF Says, IsSnapshot
    <2>3. QED
      BY <2>1, <2>2
  <1>5. Said(r, h2, w, g)
    BY <1>2, <1>4 DEF Said
  <1>6. QED
    BY <1>3, <1>5 DEF r, m

(* A snapshot, and behind it the commands that are sent again.             *)
LEMMA ResentSaid ==
  ASSUME NEW q \in Seq(Message), NEW h, NEW w, NEW g, Said(q, h, w, g),
         NEW m \in Message, IsSnapshot(m), \A p \in Plates : Says(m, p) = w[p],
         NEW again \in Resent(q)
  PROVE  Said(<<m>> \o again, Idle, w, g)
  <1> DEFINE r == <<m>> \o again
  <1>0. Renews(r, m, again, q)
    BY ResentAt
  <1> HIDE DEF r
  <1>1. 1 \in DOMAIN r /\ r[1] = m
    BY <1>0 DEF Renews
  <1>2. PICK at \in [DOMAIN again -> DOMAIN q] :
          /\ \A i \in DOMAIN r :
               /\ i \in Nat
               /\ i # 1 => /\ i - 1 \in DOMAIN again
                           /\ r[i] = q[at[i - 1]]
                           /\ q[at[i - 1]].kind # "snapshot"
          /\ \A i, j \in DOMAIN again : i < j <=> at[i] < at[j]
          /\ \A c \in DOMAIN q : q[c].kind # "snapshot" =>
               \E i \in DOMAIN r : i # 1 /\ at[i - 1] = c
    BY <1>0 DEF Renews
  <1>3. ASSUME NEW p \in Plates, NEW i \in DOMAIN r, LastOn(r, i, p)
        PROVE  Agrees(w, g, Says(r[i], p), p)
    <2>1. CASE i = 1
      BY <1>1, <2>1 DEF Agrees
    <2>2. CASE i # 1
      <3>1. PICK k \in DOMAIN q : k = at[i - 1] /\ r[i] = q[k] /\ i - 1 \in DOMAIN again
        BY <1>2, <2>2
      <3>2. IsCommand(q[k], p)
        BY <1>2, <1>3, <2>2, <3>1 DEF LastOn, IsSnapshot
      <3>3. ASSUME NEW c \in DOMAIN q, k < c PROVE ~IsCommand(q[c], p)
        <4>1. SUFFICES ASSUME q[c].kind # "snapshot" PROVE ~IsCommand(q[c], p)
          BY DEF IsCommand
        <4>2. PICK j \in DOMAIN r : j # 1 /\ at[j - 1] = c
          BY <1>2, <4>1
        <4>3. j - 1 \in DOMAIN again /\ r[j] = q[c]
          BY <1>2, <4>2
        <4>4. i - 1 < j - 1
          BY <1>2, <3>1, <3>3, <4>2, <4>3
        <4>5. i < j
          BY <1>2, <4>4
        <4>6. QED
          BY <1>3, <4>3, <4>5 DEF LastOn
      <3>4. LastOn(q, k, p)
        BY <3>2, <3>3 DEF LastOn
      <3>5. QED
        BY <3>1, <3>4 DEF Said
    <2>3. QED
      BY <2>1, <2>2
  <1>4. Said(r, Idle, w, g)
    BY <1>3 DEF Said
  <1>5. QED
    BY <1>4 DEF r

LEMMA PlatesSaidStep == Types /\ PlatesSaid /\ [Next]_vars => PlatesSaid'
  <1> SUFFICES ASSUME Types, PlatesSaid, [Next]_vars PROVE PlatesSaid'
    OBVIOUS
  <1>0. CloudOK /\ LinkOK /\ down \in Seq(Message) /\ Said(down, handler, cWhitelist, gone)
    BY DEF Types, LinkOK, PlatesSaid
  <1>1. ASSUME UNCHANGED <<down, handler, cWhitelist, gone>> PROVE PlatesSaid'
    BY <1>0, <1>1 DEF PlatesSaid
  <1>2. ASSUME NEW e \in Entrances, CloudDropsEntrance(e) PROVE PlatesSaid'
    <2>1. e # None /\ gone' = gone \cup {e}
          /\ \A p \in Plates : cWhitelist'[p] = IF cWhitelist[p] = e THEN None ELSE cWhitelist[p]
      BY <1>2, BootstrapAssumption DEF CloudDropsEntrance
    <2>2. \A p \in Plates : \A x : Agrees(cWhitelist, gone, x, p) => Agrees(cWhitelist', gone', x, p)
      BY <2>1 DEF Agrees
    <2>3. Said(down, handler, cWhitelist', gone')
      BY <1>0, <2>2, SaidKept
    <2>4. QED
      BY <1>2, <2>3 DEF CloudDropsEntrance, PlatesSaid
  <1>3. ASSUME NEW p \in Plates, NEW link \in Links, CloudUpsertsPlate(p, link) PROVE PlatesSaid'
    <2> DEFINE m == [kind |-> "upsert", plate |-> p, link |-> link]
    <2>1. m \in Message /\ ~IsSnapshot(m) /\ Says(m, p) = link /\ \A q \in Plates : IsCommand(m, q) <=> q = p
      BY DEF Message, Upserts, IsSnapshot, IsCommand, Says
    <2>2. cWhitelist'[p] = link /\ \A q \in Plates : q # p => cWhitelist'[q] = cWhitelist[q]
      BY <1>0, <1>3 DEF CloudUpsertsPlate, CloudOK
    <2> HIDE DEF m
    <2>3. Said(Append(down, m), handler, cWhitelist', gone)
      BY <1>0, <2>1, <2>2, AppendSaid
    <2>4. QED
      BY <1>3, <2>3 DEF CloudUpsertsPlate, PlatesSaid, m
  <1>4. ASSUME NEW p \in Plates, CloudDeletesPlate(p) PROVE PlatesSaid'
    <2> DEFINE m == [kind |-> "delete", plate |-> p]
    <2>1. m \in Message /\ ~IsSnapshot(m) /\ Says(m, p) = Absent /\ \A q \in Plates : IsCommand(m, q) <=> q = p
      BY DEF Message, Deletes, IsSnapshot, IsCommand, Says
    <2>2. cWhitelist'[p] = Absent /\ \A q \in Plates : q # p => cWhitelist'[q] = cWhitelist[q]
      BY <1>0, <1>4 DEF CloudDeletesPlate, CloudOK
    <2> HIDE DEF m
    <2>3. Said(Append(down, m), handler, cWhitelist', gone)
      BY <1>0, <2>1, <2>2, AppendSaid
    <2>4. QED
      BY <1>4, <2>3 DEF CloudDeletesPlate, PlatesSaid, m
  <1>5. CASE CloudPushes
    <2>1. PICK m \in Message : m = Snapshot
      BY <1>0, SnapshotType
    <2>2. IsSnapshot(m) /\ \A p \in Plates : Says(m, p) = cWhitelist[p] /\ ~IsCommand(m, p)
      BY <2>1 DEF Snapshot, IsSnapshot, IsCommand, Says
    <2>3. Said(Append(down, m), handler, cWhitelist, gone)
      BY <1>0, <2>2, AppendSaid
    <2>4. QED
      BY <1>5, <2>1, <2>3 DEF CloudPushes, PlatesSaid
  <1>6. CASE NewSession
    <2>1. PICK m \in Message : m = Snapshot
      BY <1>0, SnapshotType
    <2>2. IsSnapshot(m) /\ \A p \in Plates : Says(m, p) = cWhitelist[p] /\ ~IsCommand(m, p)
      BY <2>1 DEF Snapshot, IsSnapshot, IsCommand, Says
    <2>3. Said(<<m>>, Idle, cWhitelist, gone)
      <3>1. \A i \in DOMAIN <<m>> : (<<m>>)[i] = m
        OBVIOUS
      <3>2. QED
        BY <2>2, <3>1 DEF Said, Agrees
    <2>4. \A again \in Resent(down) : Said(<<m>> \o again, Idle, cWhitelist, gone)
      BY <1>0, <2>2, ResentSaid
    <2>5. handler' = Idle /\ cWhitelist' = cWhitelist /\ gone' = gone
      BY <1>6 DEF NewSession
    <2>6. down' = <<m>> \/ \E again \in Resent(down) : down' = <<m>> \o again
      BY <1>6, <2>1, Zenon DEF NewSession
    <2>7. Said(down', Idle, cWhitelist, gone)
      BY <2>3, <2>4, <2>6, Zenon
    <2>8. QED
      BY <2>5, <2>7 DEF PlatesSaid
  <1>7. CASE SnapshotReads
    <2>1. /\ IsSnapshot(Head(down)) /\ handler'.snapshot = Head(down) /\ down # <<>>
          /\ down' = Tail(down) /\ cWhitelist' = cWhitelist /\ gone' = gone
      BY <1>7, SnapshotReadsType DEF cloudVars, Snapshots, IsSnapshot
    <2>2. Said(Tail(down), handler', cWhitelist, gone)
      BY <1>0, <2>1, TailSaid
    <2>3. QED
      BY <2>1, <2>2 DEF PlatesSaid
  <1>8. CASE SnapshotCommits
    <2>1. handler' = Idle /\ UNCHANGED <<down, cWhitelist, gone>>
      BY <1>8 DEF SnapshotCommits, cloudVars
    <2>2. QED
      BY <1>0, <2>1 DEF PlatesSaid, Said
  <1>9. CASE PlateUpsert \/ PlateDelete
    <2>1. /\ handler' = Idle /\ down # <<>> /\ down' = Tail(down)
          /\ cWhitelist' = cWhitelist /\ gone' = gone
      BY <1>9 DEF PlateUpsert, PlateDelete, cloudVars
    <2>2. Said(Tail(down), handler', cWhitelist, gone)
      BY <1>0, <2>1, TailSaid
    <2>3. QED
      BY <2>1, <2>2 DEF PlatesSaid
  <1>10. ASSUME NEW e \in Entrances, CloudAddsEntrance(e) PROVE PlatesSaid'
    BY <1>1, <1>10 DEF CloudAddsEntrance
  <1>11. ASSUME NEW d \in Devices, NEW e \in Entrances, CloudPlaces(d, e) PROVE PlatesSaid'
    BY <1>1, <1>11 DEF CloudPlaces
  <1>12. ASSUME NEW d \in Devices, CloudHears(d) PROVE PlatesSaid'
    BY <1>1, <1>12 DEF CloudHears
  <1>13. CASE Admin
    BY <1>1, <1>13 DEF Admin, Move, Remove, cloudVars
  <1>14. ASSUME NEW d \in Devices, UpsertLost(d) PROVE PlatesSaid'
    BY <1>1, <1>14 DEF UpsertLost, cloudVars
  <1>15. CASE UNCHANGED vars
    BY <1>1, <1>15 DEF vars, cloudVars
  <1>16. QED
    BY <1>2, <1>3, <1>4, <1>5, <1>6, <1>7, <1>8, <1>9, <1>10, <1>11, <1>12, <1>13, <1>14, <1>15
    DEF Next, Cloud, Trouble, ReceiveLoop

-----------------------------------------------------------------------------
(* The newest snapshot.  q stands for the messages on their way, h for the *)
(* handler, ce and cp for the entrances and places of the cloud, x for the *)
(* crossed devices.                                                        *)

NoSnapshot(q) == \A j \in DOMAIN q : ~IsSnapshot(q[j])

LastSnapshot(q, i) ==
  IsSnapshot(q[i]) /\ \A j \in DOMAIN q : i < j => ~IsSnapshot(q[j])

Current(s, ce, cp, x) == s.entrances = ce /\ \A d \in Devices \ x : s.place[d] = cp[d]

Latest(q, h, ce, cp, x) ==
  /\ \A i \in DOMAIN q : LastSnapshot(q, i) => Current(q[i], ce, cp, x)
  /\ h # Idle /\ NoSnapshot(q) => Current(h.snapshot, ce, cp, x)

(* Once the cloud has pushed, the newest snapshot under way is its view.   *)
LatestCurrent == pushed => Latest(down, handler, cEntrances, cPlace, crossed)

LEMMA LatestKept ==
  ASSUME NEW q, NEW h, NEW ce, NEW cp, NEW x, NEW cp2, NEW x2, Latest(q, h, ce, cp, x),
         \A d \in Devices \ x2 : d \notin x /\ cp2[d] = cp[d]
  PROVE  Latest(q, h, ce, cp2, x2)
  <1>1. \A s : Current(s, ce, cp, x) => Current(s, ce, cp2, x2)
    BY DEF Current
  <1>2. QED
    BY <1>1 DEF Latest

LEMMA NoneLatest ==
  ASSUME NEW q, NoSnapshot(q), NEW ce, NEW cp, NEW x
  PROVE  Latest(q, Idle, ce, cp, x)
  BY DEF Latest, LastSnapshot, NoSnapshot

LEMMA AppendLatest ==
  ASSUME NEW q \in Seq(Message), NEW h, NEW ce, NEW cp, NEW x, NEW m \in Message,
         \/ IsSnapshot(m) /\ Current(m, ce, cp, x)
         \/ ~IsSnapshot(m) /\ Latest(q, h, ce, cp, x)
  PROVE  Latest(Append(q, m), h, ce, cp, x) /\ (NoSnapshot(Append(q, m)) => NoSnapshot(q))
  <1> DEFINE r == Append(q, m)
             n == Len(q) + 1
  <1>1. /\ r[n] = m /\ n \in DOMAIN r
        /\ \A i \in DOMAIN q : i \in DOMAIN r /\ r[i] = q[i] /\ i < n
        /\ \A i \in DOMAIN r : i \in DOMAIN q \/ i = n
    BY AppendAt
  <1> HIDE DEF r, n
  <1>2. ASSUME NEW i \in DOMAIN r, LastSnapshot(r, i) PROVE Current(r[i], ce, cp, x)
    <2>1. CASE IsSnapshot(m)
      <3>1. i = n
        BY <1>1, <1>2, <2>1 DEF LastSnapshot
      <3>2. QED
        BY <1>1, <2>1, <3>1
    <2>2. CASE ~IsSnapshot(m)
      <3>1. i \in DOMAIN q /\ LastSnapshot(q, i)
        BY <1>1, <1>2, <2>2 DEF LastSnapshot
      <3>2. QED
        BY <1>1, <2>2, <3>1 DEF Latest
    <2>3. QED
      BY <2>1, <2>2
  <1>3. NoSnapshot(r) => NoSnapshot(q) /\ ~IsSnapshot(m)
    BY <1>1 DEF NoSnapshot
  <1>4. Latest(r, h, ce, cp, x)
    BY <1>2, <1>3 DEF Latest
  <1>5. QED
    BY <1>3, <1>4 DEF r

LEMMA TailLatest ==
  ASSUME NEW q \in Seq(Message), q # <<>>, NEW h, NEW h2, NEW ce, NEW cp, NEW x,
         Latest(q, h, ce, cp, x),
         h2 # Idle => IsSnapshot(Head(q)) /\ h2.snapshot = Head(q)
  PROVE  Latest(Tail(q), h2, ce, cp, x)
  <1> DEFINE r == Tail(q)
             m == Head(q)
  <1>1. /\ m = q[1] /\ 1 \in DOMAIN q
        /\ \A i \in DOMAIN r : i \in Nat /\ i >= 1 /\ i + 1 \in DOMAIN q /\ r[i] = q[i + 1]
        /\ \A i \in DOMAIN q : i \in Nat /\ (i = 1 \/ (i - 1 \in DOMAIN r /\ r[i - 1] = q[i]))
    BY TailAt
  <1>a. h2 # Idle => IsSnapshot(m) /\ h2.snapshot = m
    OBVIOUS
  <1> HIDE DEF r, m
  <1>2. ASSUME NEW i \in DOMAIN r, LastSnapshot(r, i) PROVE Current(r[i], ce, cp, x)
    <2>1. ASSUME NEW j \in DOMAIN q, i + 1 < j PROVE ~IsSnapshot(q[j])
      <3>1. i \in Nat /\ j \in Nat /\ j # 1 /\ i < j - 1
        BY <1>1, <2>1
      <3>2. j - 1 \in DOMAIN r /\ r[j - 1] = q[j]
        BY <1>1, <3>1
      <3>3. QED
        BY <1>2, <3>1, <3>2 DEF LastSnapshot
    <2>2. i + 1 \in DOMAIN q /\ r[i] = q[i + 1]
      BY <1>1
    <2>3. LastSnapshot(q, i + 1)
      BY <1>2, <2>1, <2>2 DEF LastSnapshot
    <2>4. QED
      BY <2>2, <2>3 DEF Latest
  <1>3. ASSUME h2 # Idle, NoSnapshot(r) PROVE Current(h2.snapshot, ce, cp, x)
    <2>1. ASSUME NEW j \in DOMAIN q, 1 < j PROVE ~IsSnapshot(q[j])
      <3>1. j - 1 \in DOMAIN r /\ r[j - 1] = q[j]
        BY <1>1, <2>1
      <3>2. QED
        BY <1>3, <3>1 DEF NoSnapshot
    <2>2. LastSnapshot(q, 1)
      BY <1>1, <1>3, <1>a, <2>1 DEF LastSnapshot
    <2>3. QED
      BY <1>1, <1>3, <1>a, <2>2 DEF Latest
  <1>4. Latest(r, h2, ce, cp, x)
    BY <1>2, <1>3 DEF Latest
  <1>5. QED
    BY <1>4 DEF r

LEMMA ResentLatest ==
  ASSUME NEW q \in Seq(Message), NEW m \in Message, NEW again \in Resent(q),
         NEW ce, NEW cp, NEW x, Current(m, ce, cp, x)
  PROVE  Latest(<<m>> \o again, Idle, ce, cp, x)
  <1> DEFINE r == <<m>> \o again
  <1>1. Renews(r, m, again, q)
    BY ResentAt
  <1> HIDE DEF r
  <1>2. r[1] = m /\ \A i \in DOMAIN r : i # 1 => r[i].kind # "snapshot"
    BY <1>1 DEF Renews
  <1>3. Latest(r, Idle, ce, cp, x)
    BY <1>2 DEF Latest, LastSnapshot, IsSnapshot
  <1>4. QED
    BY <1>3 DEF r

LEMMA UnderWay ==
  /\ ~SnapshotUnderWay <=> handler = Idle /\ NoSnapshot(down)
  /\ ~SnapshotUnderWay' <=> handler' = Idle /\ NoSnapshot(down')
  BY DEF SnapshotUnderWay, NoSnapshot, IsSnapshot

-----------------------------------------------------------------------------
(* Placements, and what holds when no snapshot is under way                *)

(* A pass of the handler has put on its list what the cloud has elsewhere. *)
PlacedStands ==
  handler # Idle =>
    \A d \in (Devices \cap rows) \ crossed :
      d \in handler.placed <=>
        /\ handler.snapshot.place[d] \in entrances
        /\ entrance_id[d] # handler.snapshot.place[d]

(* A placement on its way to the cloud has met no snapshot, and is the     *)
(* latest of its device.                                                   *)
ToldStands ==
  \A d \in Devices \ crossed :
    told[d] # Absent => ~SnapshotUnderWay /\ (d \in rows => entrance_id[d] = told[d])

PlateFollows(p) ==
  \/ whitelist[p] = cWhitelist[p]
  \/ whitelist[p] = None /\ cWhitelist[p] \in fresh

(* With no snapshot under way the bridge has what the last one told it,    *)
(* and of a plate that no command is under way for, what the cloud has.    *)
Rested ==
  pushed /\ ~failed /\ ~SnapshotUnderWay =>
    /\ cEntrances # {} =>
         entrances = cEntrances /\ \A p \in Plates : NoCommand(down, p) => PlateFollows(p)
    /\ \A d \in (Devices \cap rows) \ crossed :
         told[d] = Absent /\ cPlace[d] \in cEntrances \ fresh => entrance_id[d] = cPlace[d]

LEMMA LatestStep == Types /\ LatestCurrent /\ ToldStands /\ [Next]_vars => LatestCurrent'
  <1> SUFFICES ASSUME Types, LatestCurrent, ToldStands, [Next]_vars, pushed'
               PROVE  Latest(down', handler', cEntrances', cPlace', crossed')
    BY DEF LatestCurrent
  <1>0. CloudOK /\ LinkOK /\ down \in Seq(Message) /\ crossed \subseteq Devices
    BY DEF Types, LinkOK, HistoryOK
  <1> DEFINE Goal == Latest(down', handler', cEntrances', cPlace', crossed')
  <1>1. ASSUME UNCHANGED <<down, handler, cEntrances, cPlace, pushed>>, crossed \subseteq crossed'
        PROVE  Goal
    <2>1. Latest(down, handler, cEntrances, cPlace, crossed)
      BY <1>1 DEF LatestCurrent
    <2>2. Latest(down, handler, cEntrances, cPlace, crossed')
      BY <1>1, <2>1, LatestKept
    <2>3. QED
      BY <1>1, <2>2
  <1>2. ASSUME NEW e \in Entrances, CloudAddsEntrance(e) \/ CloudDropsEntrance(e) PROVE Goal
    BY <1>2 DEF CloudAddsEntrance, CloudDropsEntrance
  <1>3. ASSUME NEW d \in Devices, NEW e \in Entrances, CloudPlaces(d, e) PROVE Goal
    BY <1>3 DEF CloudPlaces
  <1>4. ASSUME NEW m \in Message, ~IsSnapshot(m), down' = Append(down, m),
               UNCHANGED <<handler, cEntrances, cPlace, crossed, pushed>>
        PROVE  Goal
    <2>1. Latest(down, handler, cEntrances, cPlace, crossed)
      BY <1>4 DEF LatestCurrent
    <2>2. Latest(Append(down, m), handler, cEntrances, cPlace, crossed)
      BY <1>0, <1>4, <2>1, AppendLatest
    <2>3. QED
      BY <1>4, <2>2
  <1>5. ASSUME NEW p \in Plates, NEW link \in Links, CloudUpsertsPlate(p, link) PROVE Goal
    <2> DEFINE m == [kind |-> "upsert", plate |-> p, link |-> link]
    <2>1. m \in Message /\ ~IsSnapshot(m)
      BY DEF Message, Upserts, IsSnapshot
    <2>2. down' = Append(down, m) /\ UNCHANGED <<handler, cEntrances, cPlace, crossed, pushed>>
      BY <1>5 DEF CloudUpsertsPlate, histVars
    <2> HIDE DEF m
    <2>3. QED
      BY <1>4, <2>1, <2>2
  <1>6. ASSUME NEW p \in Plates, CloudDeletesPlate(p) PROVE Goal
    <2> DEFINE m == [kind |-> "delete", plate |-> p]
    <2>1. m \in Message /\ ~IsSnapshot(m)
      BY DEF Message, Deletes, IsSnapshot
    <2>2. down' = Append(down, m) /\ UNCHANGED <<handler, cEntrances, cPlace, crossed, pushed>>
      BY <1>6 DEF CloudDeletesPlate, histVars
    <2> HIDE DEF m
    <2>3. QED
      BY <1>4, <2>1, <2>2
  <1>7. PICK s \in Message : s = Snapshot /\ \A x : Current(s, cEntrances, cPlace, x)
    BY <1>0, SnapshotType DEF Snapshot, Current
  <1>8. CASE CloudPushes
    <2>1. IsSnapshot(s) /\ Current(s, cEntrances, cPlace, crossed')
      BY <1>7 DEF IsSnapshot, Snapshot
    <2>2. Latest(Append(down, s), handler, cEntrances, cPlace, crossed')
      BY <1>0, <2>1, AppendLatest
    <2>3. QED
      BY <1>7, <1>8, <2>2 DEF CloudPushes
  <1>9. CASE NewSession
    <2>1. Latest(<<s>>, Idle, cEntrances, cPlace, crossed')
      <3>1. \A i \in DOMAIN <<s>> : (<<s>>)[i] = s
        OBVIOUS
      <3>2. QED
        BY <1>7, <3>1 DEF Latest
    <2>2. \A again \in Resent(down) : Latest(<<s>> \o again, Idle, cEntrances, cPlace, crossed')
      BY <1>0, <1>7, ResentLatest
    <2>3. down' = <<s>> \/ \E again \in Resent(down) : down' = <<s>> \o again
      BY <1>7, <1>9, Zenon DEF NewSession
    <2>4. Latest(down', Idle, cEntrances, cPlace, crossed')
      BY <2>1, <2>2, <2>3, Zenon
    <2>5. QED
      BY <1>9, <2>4 DEF NewSession
  <1>10. ASSUME NEW d \in Devices, CloudHears(d) PROVE Goal
    <2>1. UNCHANGED <<down, handler, cEntrances, pushed>> /\ told[d] # Absent
      BY <1>10 DEF CloudHears
    <2>2. CASE told[d] \in cEntrances /\ d \notin crossed
      <3>1. handler = Idle /\ NoSnapshot(down)
        BY <2>1, <2>2, UnderWay DEF ToldStands
      <3>2. QED
        BY <2>1, <3>1, NoneLatest
    <2>3. CASE told[d] \in cEntrances /\ d \in crossed
      <3>1. crossed' = crossed /\ \A c \in Devices \ crossed : cPlace'[c] = cPlace[c]
        BY <1>0, <1>10, <2>3 DEF CloudHears, CloudOK
      <3>2. Latest(down, handler, cEntrances, cPlace, crossed)
        BY <2>1 DEF LatestCurrent
      <3>3. Latest(down, handler, cEntrances, cPlace', crossed')
        BY <3>1, <3>2, LatestKept
      <3>4. QED
        BY <2>1, <3>3
    <2>4. CASE told[d] \notin cEntrances
      BY <1>1, <1>10, <2>4 DEF CloudHears
    <2>5. QED
      BY <2>2, <2>3, <2>4
  <1>11. ASSUME NEW d \in Devices, UpsertLost(d) PROVE Goal
    BY <1>1, <1>11 DEF UpsertLost, cloudVars
  <1>12. CASE Admin
    BY <1>1, <1>12 DEF Admin, Move, Remove, cloudVars, histVars
  <1>13. ASSUME down # <<>>, down' = Tail(down), UNCHANGED <<cEntrances, cPlace, crossed, pushed>>,
                handler' # Idle => IsSnapshot(Head(down)) /\ handler'.snapshot = Head(down)
         PROVE  Goal
    <2>1. Latest(down, handler, cEntrances, cPlace, crossed)
      BY <1>13 DEF LatestCurrent
    <2>2. Latest(Tail(down), handler', cEntrances, cPlace, crossed)
      BY <1>0, <1>13, <2>1, TailLatest
    <2>3. QED
      BY <1>13, <2>2
  <1>14. CASE SnapshotReads
    BY <1>13, <1>14, SnapshotReadsType DEF cloudVars, Snapshots, IsSnapshot
  <1>15. CASE PlateUpsert \/ PlateDelete
    BY <1>13, <1>15, PlateStepType DEF cloudVars
  <1>16. CASE SnapshotCommits
    <2>1. handler' = Idle /\ UNCHANGED <<down, cEntrances, cPlace, crossed, pushed>>
      BY <1>16 DEF SnapshotCommits, cloudVars
    <2>2. QED
      BY <2>1 DEF LatestCurrent, Latest
  <1>17. CASE UNCHANGED vars
    BY <1>1, <1>17 DEF vars, cloudVars, histVars
  <1>18. QED
    BY <1>2, <1>3, <1>5, <1>6, <1>8, <1>9, <1>10, <1>11, <1>12, <1>14, <1>15, <1>16, <1>17
    DEF Next, Cloud, Trouble, ReceiveLoop

LEMMA PlacedStep == Types /\ PlacedStands /\ [Next]_vars => PlacedStands'
  <1> SUFFICES ASSUME Types, PlacedStands, [Next]_vars PROVE PlacedStands'
    OBVIOUS
  <1>1. ASSUME UNCHANGED <<handler, entrances>>, rows' \subseteq rows, crossed \subseteq crossed',
               \A d \in (Devices \cap rows') \ crossed' : entrance_id'[d] = entrance_id[d]
        PROVE  PlacedStands'
    BY <1>1 DEF PlacedStands
  <1>2. CASE Cloud
    <2>1. UNCHANGED <<entrances, rows, entrance_id, handler>>
      BY <1>2, CloudStepType DEF localVars
    <2>2. crossed \subseteq crossed'
      BY <1>2 DEF Cloud, CloudAddsEntrance, CloudDropsEntrance, CloudPlaces, CloudUpsertsPlate,
                  CloudDeletesPlate, CloudPushes, CloudHears, histVars
    <2>3. QED
      BY <1>1, <2>1, <2>2
  <1>3. CASE NewSession \/ SnapshotCommits
    BY <1>3 DEF NewSession, SnapshotCommits, PlacedStands
  <1>4. ASSUME NEW d \in Devices, UpsertLost(d) PROVE PlacedStands'
    BY <1>1, <1>4 DEF UpsertLost, localVars
  <1>5. ASSUME NEW r \in Rows, NEW e \in Links, Move(r, e) PROVE PlacedStands'
    <2>1. CASE handler = Idle
      BY <1>5, <2>1 DEF Move, PlacedStands
    <2>2. CASE handler # Idle
      <3>1. r \in Devices => r \in crossed'
        BY <1>5, <2>2 DEF Move, SnapshotUnderWay
      <3>2. \A d \in (Devices \cap rows') \ crossed' : entrance_id'[d] = entrance_id[d]
        BY <1>5, <3>1 DEF Move, Types, BridgeOK, Rows
      <3>3. QED
        BY <1>1, <1>5, <3>2 DEF Move
    <2>3. QED
      BY <2>1, <2>2
  <1>6. ASSUME NEW r \in Rows, Remove(r) PROVE PlacedStands'
    BY <1>1, <1>6 DEF Remove, Types, BridgeOK, Rows, histVars
  <1>7. CASE SnapshotReads
    <2>1. /\ handler'.snapshot = Head(down) /\ UNCHANGED <<entrances, rows, entrance_id, crossed>>
          /\ handler'.placed = {d \in Devices \cap rows :
                                  /\ Head(down).place[d] \in entrances
                                  /\ entrance_id[d] # Head(down).place[d]}
      BY <1>7, SnapshotReadsType DEF localVars
    <2>2. QED
      BY <2>1 DEF PlacedStands
  <1>8. CASE PlateUpsert \/ PlateDelete \/ UNCHANGED vars
    BY <1>1, <1>8 DEF PlateUpsert, PlateDelete, vars, localVars, histVars
  <1>9. QED
    BY <1>2, <1>3, <1>4, <1>5, <1>6, <1>7, <1>8 DEF Next, Trouble, Admin, ReceiveLoop

LEMMA TailNoSnapshot ==
  ASSUME NEW q \in Seq(Message), q # <<>>
  PROVE  /\ NoSnapshot(q) <=> ~IsSnapshot(Head(q)) /\ NoSnapshot(Tail(q))
         /\ \A p : NoCommand(q, p) <=> ~IsCommand(Head(q), p) /\ NoCommand(Tail(q), p)
  <1> DEFINE r == Tail(q)
             m == Head(q)
  <1>1. /\ m = q[1] /\ 1 \in DOMAIN q
        /\ \A i \in DOMAIN r : i \in Nat /\ i >= 1 /\ i + 1 \in DOMAIN q /\ r[i] = q[i + 1]
        /\ \A i \in DOMAIN q : i \in Nat /\ (i = 1 \/ (i - 1 \in DOMAIN r /\ r[i - 1] = q[i]))
    BY TailAt
  <1> HIDE DEF r, m
  <1>2. NoSnapshot(q) <=> ~IsSnapshot(m) /\ NoSnapshot(r)
    BY <1>1 DEF NoSnapshot
  <1>3. \A p : NoCommand(q, p) <=> ~IsCommand(m, p) /\ NoCommand(r, p)
    BY <1>1 DEF NoCommand
  <1>4. QED
    BY <1>2, <1>3 DEF r, m

LEMMA ToldStep == Types /\ ToldStands /\ [Next]_vars => ToldStands'
  <1> SUFFICES ASSUME Types, ToldStands, [Next]_vars PROVE ToldStands'
    OBVIOUS
  <1>0. CloudOK /\ LinkOK /\ down \in Seq(Message) /\ told \in [Devices -> Entrances \cup {Absent}]
    BY DEF Types, LinkOK
  <1>1. ASSUME rows' \subseteq rows, crossed \subseteq crossed',
               ~SnapshotUnderWay => ~SnapshotUnderWay',
               \A d \in Devices \ crossed' : told'[d] \in {told[d], Absent},
               \A d \in (Devices \cap rows') \ crossed' : entrance_id'[d] = entrance_id[d]
        PROVE  ToldStands'
    BY <1>1 DEF ToldStands
  <1>2. ASSUME UNCHANGED <<handler, down>> PROVE ~SnapshotUnderWay => ~SnapshotUnderWay'
    BY <1>2 DEF SnapshotUnderWay
  <1>3. ASSUME NEW m \in Message, ~IsSnapshot(m), down' = Append(down, m), handler' = handler
        PROVE  ~SnapshotUnderWay => ~SnapshotUnderWay'
    <2>1. NoSnapshot(down) => NoSnapshot(Append(down, m))
      <3> DEFINE r == Append(down, m)
      <3>1. /\ r[Len(down) + 1] = m
            /\ \A i \in DOMAIN r : (i \in DOMAIN down /\ r[i] = down[i]) \/ i = Len(down) + 1
        BY <1>0, AppendAt
      <3> HIDE DEF r
      <3>2. NoSnapshot(down) => NoSnapshot(r)
        BY <1>3, <3>1 DEF NoSnapshot
      <3>3. QED
        BY <3>2 DEF r
    <2>2. QED
      BY <1>3, <2>1, UnderWay
  <1>4. ASSUME NEW e \in Entrances, CloudAddsEntrance(e) \/ CloudDropsEntrance(e) PROVE ToldStands'
    BY <1>1, <1>2, <1>4 DEF CloudAddsEntrance, CloudDropsEntrance, localVars, histVars
  <1>5. ASSUME NEW d \in Devices, NEW e \in Entrances, CloudPlaces(d, e) PROVE ToldStands'
    BY <1>1, <1>2, <1>5 DEF CloudPlaces, localVars, histVars
  <1>6. ASSUME NEW p \in Plates, NEW link \in Links, CloudUpsertsPlate(p, link) PROVE ToldStands'
    <2> DEFINE m == [kind |-> "upsert", plate |-> p, link |-> link]
    <2>1. m \in Message /\ ~IsSnapshot(m)
      BY DEF Message, Upserts, IsSnapshot
    <2>2. down' = Append(down, m) /\ handler' = handler
      BY <1>6 DEF CloudUpsertsPlate
    <2> HIDE DEF m
    <2>3. ~SnapshotUnderWay => ~SnapshotUnderWay'
      BY <1>3, <2>1, <2>2
    <2>4. QED
      BY <1>1, <1>6, <2>3 DEF CloudUpsertsPlate, localVars, histVars
  <1>7. ASSUME NEW p \in Plates, CloudDeletesPlate(p) PROVE ToldStands'
    <2> DEFINE m == [kind |-> "delete", plate |-> p]
    <2>1. m \in Message /\ ~IsSnapshot(m)
      BY DEF Message, Deletes, IsSnapshot
    <2>2. down' = Append(down, m) /\ handler' = handler
      BY <1>7 DEF CloudDeletesPlate
    <2> HIDE DEF m
    <2>3. ~SnapshotUnderWay => ~SnapshotUnderWay'
      BY <1>3, <2>1, <2>2
    <2>4. QED
      BY <1>1, <1>7, <2>3 DEF CloudDeletesPlate, localVars, histVars
  <1>8. CASE CloudPushes \/ NewSession
    <2>1. told' = told /\ \A d \in Devices : told[d] # Absent => d \in crossed'
      BY <1>8 DEF CloudPushes, NewSession
    <2>2. QED
      BY <2>1 DEF ToldStands
  <1>9. ASSUME NEW d \in Devices, CloudHears(d) \/ UpsertLost(d) PROVE ToldStands'
    <2>1. \A c \in Devices : told'[c] \in {told[c], Absent}
      BY <1>0, <1>9 DEF CloudHears, UpsertLost
    <2>2. QED
      BY <1>1, <1>2, <1>9, <2>1 DEF CloudHears, UpsertLost, localVars
  <1>10. ASSUME NEW r \in Rows, NEW e \in Links, Move(r, e) PROVE ToldStands'
    <2>1. /\ rows' = rows /\ crossed \subseteq crossed' /\ UNCHANGED <<handler, down>>
          /\ \A d \in Devices : d # r => told'[d] = told[d]
          /\ \A d \in Devices \cap rows : d # r => entrance_id'[d] = entrance_id[d]
      BY <1>0, <1>10 DEF Move, Types, BridgeOK, Rows
    <2>2. CASE r \in Devices \ crossed'
      <3>1. ~SnapshotUnderWay /\ e # None
        BY <1>10, <2>2 DEF Move
      <3>2. told'[r] = e /\ entrance_id'[r] = e
        BY <1>0, <1>10, <2>2, <3>1 DEF Move, Types, BridgeOK
      <3>3. QED
        BY <1>2, <2>1, <3>1, <3>2 DEF ToldStands
    <2>3. CASE r \notin Devices \ crossed'
      BY <1>1, <1>2, <2>1, <2>3
    <2>4. QED
      BY <2>2, <2>3
  <1>11. ASSUME NEW r \in Rows, Remove(r) PROVE ToldStands'
    BY <1>1, <1>2, <1>11 DEF Remove, Types, BridgeOK, Rows, histVars
  <1>12. CASE SnapshotReads
    <2>1. SnapshotUnderWay /\ told' = told /\ crossed' = crossed
      <3>1. IsSnapshot(Head(down)) /\ down # <<>>
        BY <1>12, SnapshotReadsType DEF Snapshots, IsSnapshot
      <3>2. ~NoSnapshot(down)
        BY <1>0, <3>1, TailNoSnapshot
      <3>3. QED
        BY <1>12, <3>2, UnderWay DEF SnapshotReads, histVars
    <2>2. QED
      BY <2>1 DEF ToldStands
  <1>13. CASE SnapshotCommits
    <2>1. SnapshotUnderWay /\ told' = told /\ crossed' = crossed
      BY <1>13 DEF SnapshotCommits, SnapshotUnderWay, Idle
    <2>2. QED
      BY <2>1 DEF ToldStands
  <1>14. CASE PlateUpsert \/ PlateDelete
    <2>1. ~SnapshotUnderWay => ~SnapshotUnderWay'
      BY <1>0, <1>14, PlateStepType, TailNoSnapshot, UnderWay
    <2>2. QED
      BY <1>1, <1>14, <2>1, PlateStepType
  <1>15. CASE UNCHANGED vars
    BY <1>1, <1>2, <1>15 DEF vars, localVars, histVars
  <1>16. QED
    BY <1>4, <1>5, <1>6, <1>7, <1>8, <1>9, <1>10, <1>11, <1>12, <1>13, <1>14, <1>15
    DEF Next, Cloud, Trouble, Admin, ReceiveLoop

(* A snapshot that is the view of the cloud brings it into the tables.     *)
LEMMA CommitRests ==
  ASSUME Types, SnapshotCommits, PlatesSaid, LatestCurrent, PlacedStands,
         pushed, ~failed', NoSnapshot(down)
  PROVE  /\ cEntrances # {} =>
              /\ entrances' = cEntrances
              /\ \A p \in Plates : NoCommand(down, p) => PlateFollows(p)'
         /\ \A d \in (Devices \cap rows) \ crossed :
              cPlace[d] \in cEntrances \ fresh' => entrance_id'[d] = cPlace[d]
  <1>0. handler \in Handling /\ handler # Idle
    BY SnapshotCommitsType DEF Handling, Idle
  <1> DEFINE s == handler.snapshot
  <1>1. s \in Snapshots /\ CloudOK /\ entrances \subseteq Entrances /\ None \notin Entrances
        /\ Absent \notin Entrances /\ Absent # None
    BY <1>0, BootstrapAssumption DEF Handling, Types, BridgeOK, Links
  <1>2. /\ entrances' = s.entrances \cup Kept(s)
        /\ fresh' = s.entrances \ entrances
        /\ entrance_id' = Unlinked(s, handler.placed)
        /\ whitelist' = Swept(s)
        /\ UNCHANGED <<cEntrances, cPlace, cWhitelist>>
    BY SnapshotCommitsType DEF cloudVars
  <1>3. Current(s, cEntrances, cPlace, crossed)
    BY <1>0 DEF LatestCurrent, Latest
  <1>4. \A p \in Plates : NoCommand(down, p) => Agrees(cWhitelist, gone, s.whitelist[p], p)
    BY <1>0 DEF PlatesSaid, Said
  <1>5. \A d \in (Devices \cap rows) \ crossed :
          d \in handler.placed <=> s.place[d] \in entrances /\ entrance_id[d] # s.place[d]
    BY <1>0 DEF PlacedStands
  <1> HIDE DEF s
  <1>6. ASSUME cEntrances # {}
        PROVE  Kept(s) = cEntrances /\ entrances' = cEntrances /\ s.entrances = cEntrances
    BY <1>2, <1>3, <1>6 DEF Current, Kept
  <1>7. ASSUME cEntrances # {}, NEW p \in Plates, NoCommand(down, p) PROVE PlateFollows(p)'
    <2>1. s.entrances = cEntrances /\ Kept(s) = cEntrances
      BY <1>6, <1>7
    <2>2. Agrees(cWhitelist, gone, s.whitelist[p], p)
      BY <1>4, <1>7
    <2>3. /\ cWhitelist[p] \in cEntrances \cup {None, Absent} /\ cEntrances \subseteq Entrances
          /\ gone \subseteq Entrances /\ gone \cap cEntrances = {}
      BY <1>1 DEF CloudOK
    <2>4. whitelist'[p] = IF s.whitelist[p] = Absent THEN Absent
                          ELSE InKept(s, Resolved(s.whitelist[p]))
      BY <1>2 DEF Swept
    <2>5. \/ whitelist'[p] = cWhitelist[p]
          \/ whitelist'[p] = None /\ cWhitelist[p] \in fresh'
      BY <1>1, <1>2, <2>1, <2>2, <2>3, <2>4 DEF Agrees, InKept, Resolved
    <2>6. QED
      BY <1>2, <2>5 DEF PlateFollows
  <1>8. ASSUME NEW d \in (Devices \cap rows) \ crossed, cPlace[d] \in cEntrances \ fresh'
        PROVE  entrance_id'[d] = cPlace[d]
    <2>1. s.place[d] = cPlace[d] /\ s.entrances = cEntrances /\ Kept(s) = cEntrances
      BY <1>3, <1>6, <1>8 DEF Current
    <2>2. s.place[d] \in entrances
      BY <1>2, <1>8, <2>1
    <2>3. entrance_id'[d] = InKept(s, IF d \in handler.placed THEN s.place[d] ELSE entrance_id[d])
      BY <1>2, <1>8 DEF Unlinked, Rows
    <2>4. QED
      BY <1>5, <1>8, <2>1, <2>2, <2>3 DEF InKept
  <1>9. QED
    BY <1>6, <1>7, <1>8

(* The loop takes a command: what it says is what the cloud has, unless    *)
(* another one on the same plate is under way.                             *)
LEMMA PlateRests ==
  ASSUME Types, PlateUpsert \/ PlateDelete, PlatesSaid, Rested,
         pushed, ~failed, cEntrances # {}, ~SnapshotUnderWay,
         NEW p \in Plates, NoCommand(down', p)
  PROVE  PlateFollows(p)'
  <1> DEFINE m == Head(down)
  <1>1. /\ handler = Idle /\ down # <<>> /\ down \in Seq(Message) /\ down' = Tail(down)
        /\ m \in Message /\ m.kind # "snapshot" /\ m.plate \in Plates
        /\ whitelist' = [whitelist EXCEPT ![m.plate] = IF m.kind = "upsert" THEN Resolved(m.link)
                                                      ELSE Absent]
        /\ UNCHANGED <<cWhitelist, gone, fresh>>
    BY PlateStepType DEF Types, LinkOK, cloudVars
  <1>2. IsCommand(m, p) => Agrees(cWhitelist, gone, Says(m, p), p)
    <2>1. Said(down, Idle, cWhitelist, gone)
      BY <1>1 DEF PlatesSaid
    <2>2. QED
      BY <1>1, <2>1, TailSaid
  <1>3. NoCommand(down, p) <=> ~IsCommand(m, p)
    BY <1>1, TailNoSnapshot
  <1>4. entrances = cEntrances /\ (NoCommand(down, p) => PlateFollows(p))
    BY DEF Rested
  <1>5. m.kind = "upsert" => m.link \in Links
    BY <1>1, Kinds DEF Upserts
  <1> HIDE DEF m
  <1>6. CASE IsCommand(m, p)
    <2>1. m.plate = p /\ whitelist'[p] = IF m.kind = "upsert" THEN Resolved(m.link) ELSE Absent
      BY <1>1, <1>6 DEF IsCommand, Types, BridgeOK
    <2>2. Agrees(cWhitelist, gone, IF m.kind = "upsert" THEN m.link ELSE Absent, p)
      BY <1>1, <1>2, <1>6 DEF Says
    <2>3. /\ cWhitelist[p] \in cEntrances \cup {None, Absent} /\ cEntrances \subseteq Entrances
          /\ gone \subseteq Entrances /\ gone \cap cEntrances = {}
          /\ None \notin Entrances /\ Absent \notin Links
      BY BootstrapAssumption DEF Types, CloudOK
    <2>4. whitelist'[p] = cWhitelist[p]
      BY <1>4, <1>5, <2>1, <2>2, <2>3 DEF Agrees, Resolved, Links
    <2>5. QED
      BY <1>1, <2>4 DEF PlateFollows
  <1>7. CASE ~IsCommand(m, p)
    <2>1. m.plate # p
      BY <1>1, <1>7 DEF IsCommand
    <2>2. whitelist'[p] = whitelist[p] /\ PlateFollows(p)
      BY <1>1, <1>3, <1>4, <1>7, <2>1 DEF Types, BridgeOK
    <2>3. QED
      BY <1>1, <2>2 DEF PlateFollows
  <1>8. QED
    BY <1>6, <1>7

LEMMA RestedStep ==
  /\ Types /\ PlatesSaid /\ LatestCurrent /\ PlacedStands /\ ToldStands /\ Rested
  /\ [Next]_vars
  => Rested'
  <1> SUFFICES ASSUME Types, PlatesSaid, LatestCurrent, PlacedStands, ToldStands, Rested,
                      [Next]_vars, pushed', ~failed', ~SnapshotUnderWay'
               PROVE  /\ cEntrances' # {} =>
                           /\ entrances' = cEntrances'
                           /\ \A p \in Plates : NoCommand(down', p) => PlateFollows(p)'
                      /\ \A d \in (Devices \cap rows') \ crossed' :
                           /\ told'[d] = Absent
                           /\ cPlace'[d] \in cEntrances' \ fresh'
                           => entrance_id'[d] = cPlace'[d]
    BY DEF Rested
  <1> DEFINE Tables == cEntrances' # {} =>
                         /\ entrances' = cEntrances'
                         /\ \A p \in Plates : NoCommand(down', p) => PlateFollows(p)'
             Places == \A d \in (Devices \cap rows') \ crossed' :
                         /\ told'[d] = Absent
                         /\ cPlace'[d] \in cEntrances' \ fresh'
                         => entrance_id'[d] = cPlace'[d]
  <1>0. CloudOK /\ LinkOK /\ BridgeOK /\ down \in Seq(Message)
        /\ told \in [Devices -> Entrances \cup {Absent}]
    BY DEF Types, LinkOK
  <1>u. handler' = Idle /\ NoSnapshot(down')
    BY UnderWay
  (* What leaves the tables as they are, and what leaves the placements.   *)
  <1>1. ASSUME UNCHANGED <<pushed, failed, cEntrances, entrances, fresh, whitelist>>,
               ~SnapshotUnderWay,
               \A p \in Plates : NoCommand(down', p) =>
                                   NoCommand(down, p) /\ cWhitelist'[p] = cWhitelist[p]
        PROVE  Tables
    BY <1>1 DEF Rested, PlateFollows
  <1>2. ASSUME UNCHANGED <<pushed, failed, cEntrances, fresh>>, ~SnapshotUnderWay,
               rows' \subseteq rows, crossed \subseteq crossed',
               \A d \in (Devices \cap rows') \ crossed' : told'[d] = Absent =>
                 told[d] = Absent /\ cPlace'[d] = cPlace[d] /\ entrance_id'[d] = entrance_id[d]
        PROVE  Places
    BY <1>2 DEF Rested
  <1>3. ASSUME UNCHANGED <<handler, down>> PROVE ~SnapshotUnderWay
    BY <1>3 DEF SnapshotUnderWay
  <1>4. ASSUME NEW e \in Entrances, CloudAddsEntrance(e) \/ CloudDropsEntrance(e)
        PROVE  Tables /\ Places
    BY <1>4 DEF CloudAddsEntrance, CloudDropsEntrance
  <1>5. ASSUME NEW d \in Devices, NEW e \in Entrances, CloudPlaces(d, e) PROVE Tables /\ Places
    BY <1>5 DEF CloudPlaces
  <1>6. ASSUME NEW m \in Message, ~IsSnapshot(m), down' = Append(down, m), m.plate \in Plates,
               \A p \in Plates : p # m.plate => cWhitelist'[p] = cWhitelist[p],
               UNCHANGED <<localVars, handler, told, cEntrances, cPlace, pushed, histVars>>
        PROVE  Tables /\ Places
    <2>1. /\ NoSnapshot(down') => NoSnapshot(down)
          /\ \A p \in Plates : NoCommand(down', p) => NoCommand(down, p) /\ ~IsCommand(m, p)
      <3> DEFINE r == Append(down, m)
      <3>1. /\ r[Len(down) + 1] = m /\ Len(down) + 1 \in DOMAIN r
            /\ \A i \in DOMAIN down : i \in DOMAIN r /\ r[i] = down[i]
        BY <1>0, AppendAt
      <3> HIDE DEF r
      <3>2. /\ NoSnapshot(r) => NoSnapshot(down)
            /\ \A p \in Plates : NoCommand(r, p) => NoCommand(down, p) /\ ~IsCommand(m, p)
        BY <3>1 DEF NoSnapshot, NoCommand
      <3>3. QED
        BY <1>6, <3>2 DEF r
    <2>2. ~SnapshotUnderWay
      BY <1>6, <1>u, <2>1, UnderWay
    <2>3. \A p \in Plates : NoCommand(down', p) =>
            NoCommand(down, p) /\ cWhitelist'[p] = cWhitelist[p]
      BY <1>6, <2>1 DEF IsCommand, IsSnapshot
    <2>4. QED
      BY <1>1, <1>2, <1>6, <2>2, <2>3 DEF localVars, histVars
  <1>7. ASSUME NEW p \in Plates, NEW link \in Links, CloudUpsertsPlate(p, link)
        PROVE  Tables /\ Places
    <2> DEFINE m == [kind |-> "upsert", plate |-> p, link |-> link]
    <2>1. m \in Message /\ ~IsSnapshot(m) /\ m.plate = p
      BY DEF Message, Upserts, IsSnapshot
    <2>2. /\ down' = Append(down, m)
          /\ UNCHANGED <<localVars, handler, told, cEntrances, cPlace, pushed, histVars>>
          /\ \A q \in Plates : q # p => cWhitelist'[q] = cWhitelist[q]
      BY <1>0, <1>7 DEF CloudUpsertsPlate, CloudOK
    <2> HIDE DEF m, Tables, Places
    <2>3. QED
      BY <1>6, <2>1, <2>2
  <1>8. ASSUME NEW p \in Plates, CloudDeletesPlate(p) PROVE Tables /\ Places
    <2> DEFINE m == [kind |-> "delete", plate |-> p]
    <2>1. m \in Message /\ ~IsSnapshot(m) /\ m.plate = p
      BY DEF Message, Deletes, IsSnapshot
    <2>2. /\ down' = Append(down, m)
          /\ UNCHANGED <<localVars, handler, told, cEntrances, cPlace, pushed, histVars>>
          /\ \A q \in Plates : q # p => cWhitelist'[q] = cWhitelist[q]
      BY <1>0, <1>8 DEF CloudDeletesPlate, CloudOK
    <2> HIDE DEF m, Tables, Places
    <2>3. QED
      BY <1>6, <2>1, <2>2
  <1>9. CASE CloudPushes
    <2>1. PICK m \in Message : m = Snapshot /\ IsSnapshot(m)
      BY <1>0, SnapshotType DEF IsSnapshot
    <2>2. ~NoSnapshot(Append(down, m))
      <3> DEFINE r == Append(down, m)
      <3>1. r[Len(down) + 1] = m /\ Len(down) + 1 \in DOMAIN r
        BY <1>0, AppendAt
      <3> HIDE DEF r
      <3>2. ~NoSnapshot(r)
        BY <2>1, <3>1 DEF NoSnapshot
      <3>3. QED
        BY <3>2 DEF r
    <2>3. QED
      BY <1>9, <1>u, <2>1, <2>2 DEF CloudPushes
  <1>10. CASE NewSession
    <2>1. PICK m \in Message : m = Snapshot /\ IsSnapshot(m)
      BY <1>0, SnapshotType DEF IsSnapshot
    <2>2. ~NoSnapshot(<<m>>)
      BY <2>1 DEF NoSnapshot
    <2>3. \A again \in Resent(down) : ~NoSnapshot(<<m>> \o again)
      <3> SUFFICES ASSUME NEW again \in Resent(down) PROVE ~NoSnapshot(<<m>> \o again)
        OBVIOUS
      <3> DEFINE r == <<m>> \o again
      <3>1. Renews(r, m, again, down)
        BY <1>0, ResentAt
      <3> HIDE DEF r
      <3>2. ~NoSnapshot(r)
        BY <2>1, <3>1 DEF Renews, NoSnapshot
      <3>3. QED
        BY <3>2 DEF r
    <2>4. down' = <<m>> \/ \E again \in Resent(down) : down' = <<m>> \o again
      BY <1>10, <2>1, Zenon DEF NewSession
    <2>5. ~NoSnapshot(down')
      BY <2>2, <2>3, <2>4, Zenon
    <2>6. QED
      BY <1>u, <2>5
  <1>11. ASSUME NEW d \in Devices, CloudHears(d) PROVE Tables /\ Places
    <2>1. /\ UNCHANGED <<localVars, handler, down, cEntrances, cWhitelist, pushed, fresh, failed>>
          /\ told[d] # Absent /\ crossed \subseteq crossed'
          /\ d \notin crossed' => cPlace'[d] = told[d]
          /\ \A c \in Devices : c # d => told'[c] = told[c] /\ cPlace'[c] = cPlace[c]
      BY <1>0, <1>11 DEF CloudHears, CloudOK
    <2>2. ~SnapshotUnderWay
      BY <1>3, <2>1
    <2>3. Tables
      BY <1>1, <2>1, <2>2 DEF localVars
    <2>4. Places
      BY <2>1, <2>2 DEF Rested, ToldStands, localVars
    <2>5. QED
      BY <2>3, <2>4
  <1>12. ASSUME NEW d \in Devices, UpsertLost(d) PROVE Tables /\ Places
    <2>1. /\ UNCHANGED <<localVars, handler, down, cloudVars, fresh, failed>>
          /\ crossed' = crossed \cup {d}
          /\ \A c \in Devices : c # d => told'[c] = told[c]
      BY <1>0, <1>12 DEF UpsertLost
    <2>2. ~SnapshotUnderWay
      BY <1>3, <2>1
    <2>3. QED
      BY <1>1, <1>2, <2>1, <2>2 DEF localVars, cloudVars
  <1>13. ASSUME NEW r \in Rows, NEW e \in Links, Move(r, e) PROVE Tables /\ Places
    <2>1. /\ UNCHANGED <<entrances, rows, whitelist, handler, down, cloudVars, fresh, failed>>
          /\ crossed \subseteq crossed'
          /\ \A d \in Devices : d # r => told'[d] = told[d] /\ entrance_id'[d] = entrance_id[d]
      BY <1>0, <1>13 DEF Move, BridgeOK, Rows
    <2>2. ~SnapshotUnderWay
      BY <1>3, <2>1
    <2>3. r \in Devices \ crossed' => told'[r] # Absent
      <3>1. e = None \/ e # Absent
        BY BootstrapAssumption
      <3>2. QED
        BY <1>0, <1>13, <3>1 DEF Move
    <2>4. QED
      BY <1>1, <1>2, <2>1, <2>2, <2>3 DEF cloudVars
  <1>14. ASSUME NEW r \in Rows, Remove(r) PROVE Tables /\ Places
    <2>1. /\ UNCHANGED <<entrances, whitelist, handler, down, told, cloudVars, histVars>>
          /\ rows' = rows \ {r}
          /\ \A d \in Devices : d # r => entrance_id'[d] = entrance_id[d]
      BY <1>0, <1>14 DEF Remove, BridgeOK, Rows
    <2>2. ~SnapshotUnderWay
      BY <1>3, <2>1
    <2>3. QED
      BY <1>1, <1>2, <2>1, <2>2 DEF cloudVars, histVars
  <1>15. CASE SnapshotReads
    BY <1>15, <1>u, SnapshotReadsType DEF Handling, Idle
  <1>16. CASE SnapshotCommits
    <2>1. UNCHANGED <<rows, down, told, cloudVars, crossed>>
      BY <1>16 DEF SnapshotCommits
    <2>2. QED
      BY <1>16, <1>u, <2>1, CommitRests DEF cloudVars
  <1>17. CASE PlateUpsert \/ PlateDelete
    <2>1. /\ UNCHANGED <<entrances, rows, entrance_id, handler, told, cloudVars, fresh, failed,
                         crossed>>
          /\ down # <<>> /\ down' = Tail(down) /\ ~IsSnapshot(Head(down))
      BY <1>17, PlateStepType DEF IsSnapshot
    <2>2. ~SnapshotUnderWay
      BY <1>0, <1>u, <2>1, TailNoSnapshot, UnderWay
    <2>3. cEntrances # {} => entrances' = cEntrances'
      BY <2>1, <2>2 DEF Rested, cloudVars
    <2>4. Tables
      BY <1>17, <2>1, <2>2, <2>3, PlateRests DEF cloudVars
    <2>5. Places
      BY <1>2, <2>1, <2>2 DEF cloudVars
    <2>6. QED
      BY <2>4, <2>5
  <1>18. CASE UNCHANGED vars
    <2>1. ~SnapshotUnderWay
      BY <1>3, <1>18 DEF vars
    <2>2. QED
      BY <1>1, <1>2, <1>18, <2>1 DEF vars, localVars, cloudVars, histVars
  <1>19. QED
    BY <1>4, <1>5, <1>7, <1>8, <1>9, <1>10, <1>11, <1>12, <1>13, <1>14, <1>15, <1>16, <1>17, <1>18
    DEF Next, Cloud, Trouble, Admin, ReceiveLoop

-----------------------------------------------------------------------------
Followed == Types /\ PlatesSaid /\ LatestCurrent /\ PlacedStands /\ ToldStands /\ Rested

LEMMA FollowedInvariant == Spec => []Followed
  <1>1. Init => Followed
    <2> SUFFICES ASSUME Init PROVE Followed
      OBVIOUS
    <2>1. Types
      BY EmptySeq DEF Init, Types, BridgeOK, LinkOK, CloudOK, HistoryOK
    <2>2. PlatesSaid /\ LatestCurrent
      BY DEF Init, PlatesSaid, Said, LatestCurrent
    <2>3. PlacedStands /\ ToldStands /\ Rested
      BY DEF Init, PlacedStands, ToldStands, Rested
    <2>4. QED
      BY <2>1, <2>2, <2>3 DEF Followed
  <1>2. Followed /\ [Next]_vars => Followed'
    BY TypesStep, PlatesSaidStep, LatestStep, PlacedStep, ToldStep, RestedStep DEF Followed
  <1>3. QED
    BY <1>1, <1>2, PTL DEF Spec

LEMMA RestIsQuiet == AtRest => ~SnapshotUnderWay /\ \A p \in Plates : NoCommand(down, p)
  BY DEF AtRest, SnapshotUnderWay, NoCommand

(* When the receive loop has taken all that the cloud sent, the bridge has *)
(* its entrances and plates: after any number of edits, sessions and       *)
(* resent commands.                                                        *)
THEOREM CloudOwnedAlwaysFollows == Spec => []CloudOwnedFollows
  <1>1. Followed => CloudOwnedFollows
    BY RestIsQuiet DEF Followed, Rested, PlateFollows, CloudOwnedFollows, AtRest
  <1>2. QED
    BY <1>1, FollowedInvariant, PTL

(* And the devices are where the cloud has them, but for those that        *)
(* crossed a snapshot and for entrances that the last one added.           *)
THEOREM PlacementsAlwaysAgree == Spec => []PlacementsAgree
  <1>1. Followed => PlacementsAgree
    BY RestIsQuiet DEF Followed, Rested, PlacementsAgree, AtRest
  <1>2. QED
    BY <1>1, FollowedInvariant, PTL

=============================================================================
