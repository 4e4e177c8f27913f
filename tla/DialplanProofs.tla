--------------------------- MODULE DialplanProofs ---------------------------
(***************************************************************************)
(* Theorems about Dialplan, for any number of codes, extensions, requests, *)
(* commands, faults and restarts.                                          *)
(***************************************************************************)
EXTENDS Dialplan, TLAPS

(* A monitor, an apartment, and the places of a request.                   *)
Monitors   == Exts \X Nat
Apartments == [enabled : {"yes", "no"}, rows : SUBSET Monitors]
Kinds      == {"apartments", "rules"}
Replacing  == [at : {"replace"}, code : Codes, to : Codes, enabled : {"yes", "no"},
               exts : SUBSET Exts, rows : SUBSET Monitors, seen : SUBSET Monitors,
               create : BOOLEAN]
Adding     == [at : {"add"}, code : Codes, row : Monitors]
Rebuilding == [at : {"rebuild"}, of : Kinds]
Writing    == [at : {"write", "fill"}, of : Kinds, content : Content]
Reloading  == [at : {"reload"}]
Editing    == Replacing \cup Adding
Places     == {Idle} \cup Editing \cup Rebuilding \cup Writing \cup Reloading

DbOK ==
  /\ db \in [Codes -> {None} \cup Apartments]
  /\ rules \subseteq Targets
  /\ provisioned \subseteq Exts

FilesOK ==
  /\ file \in Content \cup {Torn} /\ loaded \in Content \cup {Torn}
  /\ stale \in {"yes", "no"} /\ written \in {"apartments", "rules", "shipped"}

CountsOK == requests \in Nat /\ faults \in Nat /\ overlapped \in {"yes", "no", "alone"}

Types == DbOK /\ FilesOK /\ CountsOK /\ task \in [Tasks -> Places]

-----------------------------------------------------------------------------
(* Types                                                                   *)

LEMMA PlaceKinds ==
  ASSUME NEW e \in Places
  PROVE  /\ e.at = "idle" => e = Idle
         /\ e.at = "replace" => e \in Replacing
         /\ e.at = "add" => e \in Adding
         /\ e.at = "rebuild" => e \in Rebuilding
         /\ e.at \in {"write", "fill"} => e \in Writing
         /\ e.at = "reload" => e \in Reloading
         /\ e.at \in {"idle", "replace", "add", "rebuild", "write", "fill", "reload"}
  BY DEF Places, Editing, Idle, Replacing, Adding, Rebuilding, Writing, Reloading

LEMMA PlaceNames ==
  /\ Idle.at = "idle"
  /\ \A e \in Editing : e.at \in {"replace", "add"}
  /\ \A e \in Rebuilding : e.at = "rebuild"
  /\ \A e \in Writing : e.at \in {"write", "fill"}
  /\ \A e \in Reloading : e.at = "reload"
  BY DEF Editing, Idle, Replacing, Adding, Rebuilding, Writing, Reloading

LEMMA ApartmentType ==
  ASSUME Types
  PROVE  /\ \A c \in Codes : Present(c) =>
              /\ db[c] \in Apartments /\ db[c].enabled \in {"yes", "no"}
              /\ db[c].rows \subseteq Monitors
         /\ \A c \in Codes : RowsOf(c) \subseteq Monitors
         /\ \A exts \in SUBSET Exts : Rows(exts) \subseteq Monitors
         /\ \A enabled \in {"yes", "no"}, rows \in SUBSET Monitors :
              Apartment(enabled, rows) \in Apartments
  BY DEF Types, DbOK, CountsOK, Present, Apartments, RowsOf, Rows, Monitors, Apartment

LEMMA ImageType ==
  ASSUME Types
  PROVE  Image \in Content /\ RulesImage \in Content
  <1>1. \A c \in Codes : Present(c) => Rung(db[c]) \subseteq Exts
    <2>1. \A row \in Monitors : row[1] \in Exts
      BY DEF Monitors
    <2>2. QED
      BY <2>1, ApartmentType DEF Rung
  <1>2. QED
    BY <1>1 DEF Image, RulesImage, Content

LEMMA ReplaceType ==
  ASSUME Types, NEW t \in Tasks, NEW c \in Codes, NEW to \in Codes,
         NEW enabled \in {"yes", "no"}, NEW exts \in SUBSET Exts, Replace(t, c, to, enabled, exts)
  PROVE  \E e \in Editing : task' = [task EXCEPT ![t] = e]
  <1> DEFINE e == [at |-> "replace", code |-> c, to |-> to, enabled |-> enabled,
                   exts |-> exts, rows |-> Rows(exts),
                   seen |-> RowsOf(c), create |-> ~Present(c)]
  <1>1. e \in Replacing
    BY ApartmentType DEF Replacing
  <1>2. task' = [task EXCEPT ![t] = e]
    BY DEF Replace
  <1>3. QED
    BY <1>1, <1>2 DEF Editing

LEMMA RebuildType ==
  ASSUME NEW t \in Tasks, NEW of \in Kinds, Rebuild(t, of)
  PROVE  \E e \in Rebuilding : task' = [task EXCEPT ![t] = e]
  BY DEF Rebuild, Rebuilding

(* A request or command starts: it looks at the database, or changes it    *)
(* and will rebuild.                                                       *)
LEMMA RequestType ==
  ASSUME Types, NEW t \in Tasks,
         \/ AdminRequest(t)
         \/ t = Cloud /\ (CmdRename \/ CmdDelete \/ CmdSetMonitors \/ CmdProvision \/ CmdRevoke)
  PROVE  /\ MayStart(t) /\ UNCHANGED <<fileVars, faults>>
         /\ DbOK'
         /\ \/ \E e \in Rebuilding : task' = [task EXCEPT ![t] = e]
            \/ db' = db /\ \E e \in Editing : task' = [task EXCEPT ![t] = e]
  <1>0. "apartments" \in Kinds /\ "rules" \in Kinds
    BY DEF Kinds
  <1>1. CASE CreateApartment(t)
    <2>1. PICK c \in Codes, enabled \in {"yes", "no"}, exts \in SUBSET Exts :
            db' = [db EXCEPT ![c] = Apartment(enabled, Rows(exts))]
      BY <1>1 DEF CreateApartment
    <2>2. Apartment(enabled, Rows(exts)) \in Apartments
      BY ApartmentType
    <2>3. DbOK'
      BY <1>1, <2>1, <2>2 DEF CreateApartment, Types, DbOK
    <2>4. QED
      BY <1>0, <1>1, <2>3, RebuildType DEF CreateApartment
  <1>2. CASE UpdateApartment(t)
    <2>1. \E e \in Editing : task' = [task EXCEPT ![t] = e]
      BY <1>2, ReplaceType DEF UpdateApartment
    <2>2. QED
      BY <1>2, <2>1 DEF UpdateApartment, Types, DbOK, dbVars
  <1>3. CASE EditApartment(t)
    <2>1. PICK c \in Codes, to \in Codes, enabled \in {"yes", "no"} :
            /\ Present(c)
            /\ db' = [db EXCEPT ![c] = None, ![to] = Apartment(enabled, db[c].rows)]
      BY <1>3 DEF EditApartment
    <2>2. Apartment(enabled, db[c].rows) \in Apartments
      BY <2>1, ApartmentType
    <2>3. DbOK'
      BY <1>3, <2>1, <2>2 DEF EditApartment, Types, DbOK
    <2>4. QED
      BY <1>0, <1>3, <2>3, RebuildType DEF EditApartment
  <1>4. CASE SetMonitors(t)
    <2>1. PICK c \in Codes, exts \in SUBSET provisioned :
            Present(c) /\ Replace(t, c, c, db[c].enabled, exts)
      BY <1>4 DEF SetMonitors
    <2>2. db[c].enabled \in {"yes", "no"} /\ exts \in SUBSET Exts
      BY <2>1, ApartmentType DEF Types, DbOK
    <2>3. \E e \in Editing : task' = [task EXCEPT ![t] = e]
      BY <2>1, <2>2, ReplaceType
    <2>4. QED
      BY <1>4, <2>3 DEF SetMonitors, Types, DbOK, dbVars
  <1>5. CASE DeleteApartment(t)
    <2>1. DbOK'
      BY <1>5 DEF DeleteApartment, Types, DbOK
    <2>2. QED
      BY <1>0, <1>5, <2>1, RebuildType DEF DeleteApartment
  <1>6. CASE SyncDialplan(t)
    BY <1>0, <1>6, RebuildType DEF SyncDialplan, Types, DbOK, dbVars
  <1>7. CASE EditRules(t)
    <2>1. DbOK'
      BY <1>7 DEF EditRules, Types, DbOK
    <2>2. QED
      BY <1>0, <1>7, <2>1, RebuildType DEF EditRules
  <1>8. CASE t = Cloud /\ CmdRename
    <2>1. DbOK'
      BY <1>8 DEF CmdRename, Types, DbOK
    <2>2. QED
      BY <1>0, <1>8, <2>1, RebuildType DEF CmdRename
  <1>9. CASE t = Cloud /\ CmdDelete
    BY <1>5, <1>9 DEF CmdDelete
  <1>10. CASE t = Cloud /\ CmdSetMonitors
    <2>1. PICK c \in Codes, exts \in SUBSET Exts :
            Replace(t, c, c, IF Present(c) THEN db[c].enabled ELSE "yes", exts)
      BY <1>10 DEF CmdSetMonitors
    <2>2. (IF Present(c) THEN db[c].enabled ELSE "yes") \in {"yes", "no"}
      BY ApartmentType
    <2>3. \E e \in Editing : task' = [task EXCEPT ![t] = e]
      BY <2>1, <2>2, ReplaceType
    <2>4. QED
      BY <1>10, <2>3 DEF CmdSetMonitors, Types, DbOK, dbVars
  <1>11. CASE t = Cloud /\ CmdProvision
    <2>1. PICK c \in Codes, x \in Exts :
            /\ provisioned' = provisioned \cup {x}
            /\ task' = [task EXCEPT ![t] = [at |-> "add", code |-> c, row |-> <<x, requests>>]]
      BY <1>11 DEF CmdProvision
    <2>2. [at |-> "add", code |-> c, row |-> <<x, requests>>] \in Editing
      BY DEF Types, CountsOK, Editing, Adding, Monitors
    <2>3. QED
      BY <1>11, <2>1, <2>2 DEF CmdProvision, Types, DbOK
  <1>12. CASE t = Cloud /\ CmdRevoke
    <2>1. PICK x \in Exts :
            /\ provisioned' = provisioned \ {x}
            /\ db' = [c \in Codes |->
                        IF Present(c) THEN [db[c] EXCEPT !.rows = {row \in @ : row[1] # x}]
                        ELSE None]
      BY <1>12 DEF CmdRevoke
    <2>2. \A c \in Codes : Present(c) =>
            [db[c] EXCEPT !.rows = {row \in @ : row[1] # x}] \in Apartments
      BY ApartmentType DEF Apartments
    <2>3. DbOK'
      BY <1>12, <2>1, <2>2 DEF CmdRevoke, Types, DbOK
    <2>4. QED
      BY <1>0, <1>12, <2>3, RebuildType DEF CmdRevoke
  <1>13. QED
    BY <1>1, <1>2, <1>3, <1>4, <1>5, <1>6, <1>7, <1>8, <1>9, <1>10, <1>11, <1>12
    DEF AdminRequest

(* A request that looked at the database changes it and will rebuild, or   *)
(* fails.                                                                  *)
LEMMA EditType ==
  ASSUME Types, NEW t \in Tasks, CommitReplace(t) \/ (t = Cloud /\ AddMonitor)
  PROVE  /\ task[t] \in Editing
         /\ UNCHANGED <<rules, provisioned, fileVars, requests, faults, overlapped>>
         /\ DbOK'
         /\ \/ \E e \in Rebuilding : task' = [task EXCEPT ![t] = e]
            \/ db' = db /\ task' = [task EXCEPT ![t] = Idle]
  <1>0. "apartments" \in Kinds /\ task[t] \in Places
    BY DEF Kinds, Types
  <1>1. CASE CommitReplace(t)
    <2>1. task[t] \in Replacing
      BY <1>0, <1>1, PlaceKinds DEF CommitReplace
    <2>2. CASE db' = db /\ Finish(t)
      BY <1>1, <2>1, <2>2 DEF CommitReplace, Editing, Types, DbOK, Finish
    <2>3. CASE /\ db' = [db EXCEPT ![task[t].code] = None,
                                   ![task[t].to]   = Apartment(task[t].enabled,
                                     (RowsOf(task[t].code) \ task[t].seen) \cup task[t].rows)]
               /\ Rebuild(t, "apartments")
      <3>1. /\ task[t].code \in Codes /\ task[t].to \in Codes /\ task[t].enabled \in {"yes", "no"}
            /\ task[t].rows \subseteq Monitors
        BY <2>1 DEF Replacing
      <3>2. Apartment(task[t].enabled,
                      (RowsOf(task[t].code) \ task[t].seen) \cup task[t].rows) \in Apartments
        BY <3>1, ApartmentType
      <3>3. DbOK'
        BY <1>1, <2>3, <3>1, <3>2 DEF CommitReplace, Types, DbOK
      <3>4. QED
        BY <1>0, <1>1, <2>1, <2>3, <3>3, RebuildType DEF CommitReplace, Editing
    <2>4. QED
      BY <1>1, <2>2, <2>3 DEF CommitReplace
  <1>2. CASE t = Cloud /\ AddMonitor
    <2>1. task[t] \in Adding
      BY <1>0, <1>2, PlaceKinds DEF AddMonitor
    <2>2. CASE db' = db /\ Finish(t)
      BY <1>2, <2>1, <2>2 DEF AddMonitor, Editing, Types, DbOK, Finish
    <2>3. CASE /\ Present(task[t].code)
               /\ \/ db' = db
                  \/ db' = [db EXCEPT ![task[t].code].rows = @ \cup {task[t].row}]
               /\ Rebuild(t, "apartments")
      <3>1. task[t].code \in Codes /\ task[t].row \in Monitors
        BY <2>1 DEF Adding
      <3>2. [db[task[t].code] EXCEPT !.rows = @ \cup {task[t].row}] \in Apartments
        BY <2>3, <3>1, ApartmentType DEF Apartments
      <3>3. DbOK'
        BY <1>2, <2>3, <3>1, <3>2 DEF AddMonitor, Types, DbOK
      <3>4. QED
        BY <1>0, <1>2, <2>1, <2>3, <3>3, RebuildType DEF AddMonitor, Editing
    <2>4. QED
      BY <1>2, <2>2, <2>3 DEF AddMonitor
  <1>3. QED
    BY <1>1, <1>2

LEMMA StartType ==
  ASSUME Types, NEW t \in Tasks, MayStart(t)
  PROVE  /\ task[t] = Idle /\ requests' \in Nat /\ overlapped' \in {"yes", "no", "alone"}
         /\ overlapped' # "yes" => Quiet
         /\ overlapped' = "no" => overlapped = "no"
  BY DEF Types, CountsOK, MayStart

(* The three steps of the thread that writes, and its failure.             *)
LEMMA WriteType ==
  ASSUME Types, NEW t \in Tasks
  PROVE  /\ Read(t) =>
              /\ task[t] \in Rebuilding
              /\ UNCHANGED <<dbVars, fileVars, requests, faults, overlapped>>
              /\ \E e \in Writing :
                   /\ task' = [task EXCEPT ![t] = e]
                   /\ e.of = "apartments" => e.content = Image
         /\ Truncate(t) =>
              /\ task[t] \in Writing
              /\ UNCHANGED <<dbVars, loaded, stale, written, requests, faults, overlapped>>
              /\ \E e \in Writing :
                   /\ task' = [task EXCEPT ![t] = e] /\ e.at = "fill"
                   /\ e.of = task[t].of /\ e.content = task[t].content
              /\ FilesOK'
         /\ Fill(t) =>
              /\ task[t] \in Writing /\ task[t].at = "fill"
              /\ file' = task[t].content /\ written' = task[t].of
              /\ UNCHANGED <<dbVars, loaded, stale, requests, faults, overlapped>>
              /\ \E e \in Reloading : task' = [task EXCEPT ![t] = e] /\ e.at = "reload"
              /\ FilesOK'
         /\ Reload(t) =>
              /\ task[t] \in Reloading /\ task[t].at = "reload"
              /\ task' = [task EXCEPT ![t] = Idle]
              /\ loaded' = file /\ UNCHANGED <<dbVars, file, written, requests, faults>>
              /\ FilesOK'
  <1>0. task[t] \in Places
    BY DEF Types
  <1>1. ASSUME Read(t)
        PROVE  /\ task[t] \in Rebuilding
               /\ UNCHANGED <<dbVars, fileVars, requests, faults, overlapped>>
               /\ \E e \in Writing :
                    /\ task' = [task EXCEPT ![t] = e]
                    /\ e.of = "apartments" => e.content = Image
    <2>1. task[t] \in Rebuilding
      BY <1>0, <1>1, PlaceKinds DEF Read
    <2> DEFINE e == [at |-> "write", of |-> task[t].of,
                     content |-> IF task[t].of = "rules" THEN RulesImage ELSE Image]
    <2>2. e \in Writing
      BY <2>1, ImageType DEF Rebuilding, Writing
    <2>3. task' = [task EXCEPT ![t] = e]
      BY <1>1 DEF Read
    <2>4. e.of = "apartments" => e.content = Image
      OBVIOUS
    <2> HIDE DEF e
    <2>5. UNCHANGED <<dbVars, fileVars, requests, faults, overlapped>>
      BY <1>1 DEF Read
    <2>6. QED
      BY <2>1, <2>2, <2>3, <2>4, <2>5
  <1>2. ASSUME Truncate(t)
        PROVE  /\ task[t] \in Writing
               /\ UNCHANGED <<dbVars, loaded, stale, written, requests, faults, overlapped>>
               /\ \E e \in Writing :
                    /\ task' = [task EXCEPT ![t] = e] /\ e.at = "fill"
                    /\ e.of = task[t].of /\ e.content = task[t].content
               /\ FilesOK'
    <2>1. task[t] \in Writing
      BY <1>0, <1>2, PlaceKinds DEF Truncate
    <2> DEFINE e == [task[t] EXCEPT !.at = "fill"]
    <2>2. e \in Writing /\ e.at = "fill" /\ e.of = task[t].of /\ e.content = task[t].content
      BY <2>1 DEF Writing
    <2>3. task' = [task EXCEPT ![t] = e]
      BY <1>2 DEF Truncate
    <2> HIDE DEF e
    <2>4. UNCHANGED <<dbVars, loaded, stale, written, requests, faults, overlapped>> /\ file' = Torn
      BY <1>2 DEF Truncate
    <2>5. FilesOK'
      BY <2>4 DEF Types, FilesOK
    <2>6. QED
      BY <2>1, <2>2, <2>3, <2>4, <2>5
  <1>3. ASSUME Fill(t)
        PROVE  /\ task[t] \in Writing /\ task[t].at = "fill"
               /\ file' = task[t].content /\ written' = task[t].of
               /\ UNCHANGED <<dbVars, loaded, stale, requests, faults, overlapped>>
               /\ \E e \in Reloading : task' = [task EXCEPT ![t] = e] /\ e.at = "reload"
               /\ FilesOK'
    <2>1. task[t] \in Writing
      BY <1>0, <1>3, PlaceKinds DEF Fill
    <2>2. task[t].at = "fill" /\ file' = task[t].content /\ written' = task[t].of
          /\ UNCHANGED <<dbVars, loaded, stale, requests, faults, overlapped>>
      BY <1>3 DEF Fill
    <2>3. \E e \in Reloading : task' = [task EXCEPT ![t] = e] /\ e.at = "reload"
      <3>1. task' = [task EXCEPT ![t] = [at |-> "reload"]] /\ [at |-> "reload"] \in Reloading
        BY <1>3 DEF Fill, Reloading
      <3>2. QED
        BY <3>1
    <2>4. FilesOK'
      BY <2>1, <2>2 DEF Types, FilesOK, Writing, Kinds
    <2>5. QED
      BY <2>1, <2>2, <2>3, <2>4
  <1>4. ASSUME Reload(t)
        PROVE  /\ task[t] \in Reloading /\ task[t].at = "reload"
               /\ task' = [task EXCEPT ![t] = Idle]
               /\ loaded' = file /\ UNCHANGED <<dbVars, file, written, requests, faults>>
               /\ FilesOK'
    <2>1. task[t] \in Reloading
      BY <1>0, <1>4, PlaceKinds DEF Reload
    <2>2. /\ task[t].at = "reload" /\ task' = [task EXCEPT ![t] = Idle]
          /\ loaded' = file /\ stale' = "no" /\ UNCHANGED <<dbVars, file, written, requests, faults>>
      BY <1>4 DEF Reload, Finish
    <2>3. FilesOK'
      BY <2>2 DEF Types, FilesOK
    <2>4. QED
      BY <2>1, <2>2, <2>3
  <1>5. QED
    BY <1>1, <1>2, <1>3, <1>4

LEMMA FaultType ==
  ASSUME Types, \/ \E t \in Tasks : WriteOrReloadFails(t)
                \/ SessionDrops \/ Restart \/ AsteriskRestart
  PROVE  FilesOK' /\ faults' \in Nat /\ UNCHANGED <<dbVars, requests, overlapped, file, written>>
  BY DEF Types, FilesOK, CountsOK, WriteOrReloadFails, SessionDrops, Restart, AsteriskRestart, Fault

LEMMA TypesStep == Types /\ [Next]_vars => Types'
  <1> SUFFICES ASSUME Types, [Next]_vars PROVE Types'
    OBVIOUS
  <1>0. DbOK /\ FilesOK /\ CountsOK /\ task \in [Tasks -> Places] /\ Idle \in Places
        /\ Editing \cup Rebuilding \cup Writing \cup Reloading \subseteq Places
    BY DEF Types, Places
  <1>a. dbVars' = dbVars => DbOK'
    BY <1>0 DEF dbVars, DbOK
  <1>b. fileVars' = fileVars => FilesOK'
    BY <1>0 DEF fileVars, FilesOK
  <1>c. ASSUME NEW t \in Tasks, NEW e \in Places, task' = [task EXCEPT ![t] = e]
        PROVE  task' \in [Tasks -> Places]
    BY <1>0, <1>c
  <1>d. ASSUME NEW t \in Tasks, UNCHANGED <<fileVars, faults>>, MayStart(t), DbOK',
               \E e \in Editing \cup Rebuilding : task' = [task EXCEPT ![t] = e]
        PROVE  Types'
    <2>1. task' \in [Tasks -> Places]
      BY <1>0, <1>c, <1>d
    <2>2. QED
      BY <1>0, <1>b, <1>d, <2>1, StartType DEF Types, CountsOK
  <1>1. ASSUME NEW t \in Tasks,
               \/ AdminRequest(t)
               \/ t = Cloud /\ (CmdRename \/ CmdDelete \/ CmdSetMonitors \/ CmdProvision \/ CmdRevoke)
        PROVE  Types'
    BY <1>d, <1>1, RequestType
  <1>2. CASE CmdCreate
    <2>1. DbOK'
      <3>1. PICK c \in Codes : db' = [db EXCEPT ![c] = Apartment("yes", {})]
        BY <1>2 DEF CmdCreate
      <3>2. Apartment("yes", {}) \in Apartments
        BY DEF Apartment, Apartments
      <3>3. QED
        BY <1>0, <1>2, <3>1, <3>2 DEF CmdCreate, DbOK
    <2>2. Cloud \in Tasks
      BY DEF Tasks
    <2>3. CountsOK'
      BY <1>0, <1>2, <2>2, StartType DEF CmdCreate, CountsOK
    <2>4. QED
      BY <1>0, <1>2, <1>b, <2>1, <2>3 DEF CmdCreate, Types
  <1>3. ASSUME NEW t \in Tasks, CommitReplace(t) \/ (t = Cloud /\ AddMonitor) PROVE Types'
    <2>1. task' \in [Tasks -> Places]
      BY <1>0, <1>c, <1>3, EditType
    <2>2. QED
      BY <1>0, <1>3, <1>b, <2>1, EditType DEF Types, CountsOK
  <1>4. ASSUME NEW t \in Tasks, Read(t) \/ Truncate(t) \/ Fill(t) \/ Reload(t) PROVE Types'
    <2>1. task' \in [Tasks -> Places]
      <3>1. CASE Reload(t)
        BY <1>0, <1>c, <3>1, WriteType
      <3>2. CASE Read(t) \/ Truncate(t) \/ Fill(t)
        <4>1. \E e \in Writing \cup Reloading : task' = [task EXCEPT ![t] = e]
          BY <3>2, WriteType
        <4>2. QED
          BY <1>0, <1>c, <4>1
      <3>3. QED
        BY <1>4, <3>1, <3>2
    <2>2. DbOK' /\ FilesOK'
      BY <1>4, <1>a, <1>b, WriteType
    <2>3. CountsOK'
      BY <1>0, <1>4 DEF Read, Truncate, Fill, Reload, CountsOK
    <2>4. QED
      BY <2>1, <2>2, <2>3 DEF Types
  <1>5. CASE \/ \E t \in Tasks : WriteOrReloadFails(t)
             \/ SessionDrops \/ Restart \/ AsteriskRestart
    <2>1. task' \in [Tasks -> Places]
      <3>1. ASSUME NEW t \in Tasks, WriteOrReloadFails(t) PROVE task' \in [Tasks -> Places]
        BY <1>0, <1>c, <3>1 DEF WriteOrReloadFails, Finish
      <3>2. CASE SessionDrops
        BY <1>0, <1>c, <3>2 DEF SessionDrops, Finish, Tasks
      <3>3. CASE Restart
        BY <1>0, <3>3 DEF Restart
      <3>4. CASE AsteriskRestart
        BY <1>0, <3>4 DEF AsteriskRestart
      <3>5. QED
        BY <1>5, <3>1, <3>2, <3>3, <3>4
    <2>2. FilesOK' /\ faults' \in Nat /\ UNCHANGED <<dbVars, requests, overlapped>>
      BY <1>5, FaultType
    <2>3. QED
      BY <1>0, <1>a, <2>1, <2>2 DEF Types, CountsOK
  <1>6. CASE UNCHANGED vars
    BY <1>0, <1>6, <1>a, <1>b DEF vars, Types, CountsOK
  <1>7. Cloud \in Tasks /\ Admins \subseteq Tasks
    BY DEF Tasks
  <1>8. QED
    BY <1>1, <1>2, <1>3, <1>4, <1>5, <1>6, <1>7 DEF Next, CloudCommand, TaskStep

LEMMA InitTypes == Init => Types
  <1> SUFFICES ASSUME Init PROVE Types
    OBVIOUS
  <1>1. file \in Content
    <2>1. PICK exten \in {NoExten, Exts} : file = [c \in Codes |-> exten]
      BY DEF Init
    <2>2. QED
      BY <2>1 DEF Content
  <1>2. QED
    BY <1>1 DEF Init, Types, DbOK, FilesOK, CountsOK, Places

LEMMA TypesInvariant == Spec => []Types
  BY InitTypes, TypesStep, PTL DEF Spec

(* Whatever requests, commands and faults do to it, the dialplan rings     *)
(* extensions that there are, or is torn; no apartment has a monitor that  *)
(* is none.                                                                *)
THEOREM DialplanTypeCorrect == Spec => []TypeOK
  <1>1. Types => TypeOK
    <2> SUFFICES ASSUME Types PROVE TypeOK
      OBVIOUS
    <2>1. \A c \in Codes : Present(c) =>
            db[c].enabled \in {"yes", "no"} /\ db[c].rows \subseteq Exts \X Nat
      BY ApartmentType DEF Monitors
    <2>2. \A t \in Tasks : task[t].at \in
            {"idle", "replace", "add", "rebuild", "write", "fill", "reload"}
      BY PlaceKinds DEF Types
    <2>3. QED
      BY <2>1, <2>2 DEF Types, DbOK, FilesOK, CountsOK, TypeOK
  <1>2. QED
    BY <1>1, TypesInvariant, PTL

-----------------------------------------------------------------------------
(* What is loaded and the file                                             *)

(* While what is loaded differs from the file, somebody is about to reload *)
(* it.                                                                     *)
WillReload == \E t \in Tasks : task[t].at \in {"fill", "reload"}

FollowsFile == stale = "no" => loaded = file \/ WillReload

LEMMA FollowsFileStep == Types /\ FollowsFile /\ [Next]_vars => FollowsFile'
  <1> SUFFICES ASSUME Types, FollowsFile, [Next]_vars PROVE FollowsFile'
    OBVIOUS
  <1>0. /\ task \in [Tasks -> Places] /\ Cloud \in Tasks /\ Admins \subseteq Tasks
        /\ Idle.at = "idle"
    BY DEF Types, Tasks, Idle
  <1>1. ASSUME NEW t \in Tasks, NEW e, task' = [task EXCEPT ![t] = e],
               task[t].at \notin {"fill", "reload"}, UNCHANGED fileVars
        PROVE  FollowsFile'
    <2>1. \A s \in Tasks : task[s].at \in {"fill", "reload"} => task'[s] = task[s]
      BY <1>0, <1>1
    <2>2. WillReload => WillReload'
      BY <2>1 DEF WillReload
    <2>3. QED
      BY <1>1, <2>2 DEF FollowsFile, fileVars
  <1>2. ASSUME NEW t \in Tasks,
               \/ AdminRequest(t)
               \/ t = Cloud /\ (CmdRename \/ CmdDelete \/ CmdSetMonitors \/ CmdProvision \/ CmdRevoke)
        PROVE  FollowsFile'
    <2>1. task[t].at \notin {"fill", "reload"}
      BY <1>0, <1>2, RequestType, StartType
    <2>2. QED
      BY <1>1, <1>2, <2>1, RequestType
  <1>3. CASE CmdCreate \/ UNCHANGED vars
    <2>1. task' = task /\ UNCHANGED fileVars
      BY <1>3 DEF CmdCreate, vars
    <2>2. QED
      BY <2>1 DEF FollowsFile, WillReload, fileVars
  <1>4. ASSUME NEW t \in Tasks, CommitReplace(t) \/ (t = Cloud /\ AddMonitor) PROVE FollowsFile'
    <2>1. task[t].at \notin {"fill", "reload"}
      BY <1>4, EditType, PlaceNames
    <2>2. QED
      BY <1>1, <1>4, <2>1, EditType
  <1>5. ASSUME NEW t \in Tasks, Read(t) PROVE FollowsFile'
    <2>1. task[t].at \notin {"fill", "reload"}
      BY <1>5, WriteType, PlaceNames
    <2>2. QED
      BY <1>1, <1>5, <2>1, WriteType
  <1>6. ASSUME NEW t \in Tasks, Truncate(t) \/ Fill(t) PROVE FollowsFile'
    <2>1. \E e : task' = [task EXCEPT ![t] = e] /\ e.at \in {"fill", "reload"}
      BY <1>6, WriteType
    <2>2. task'[t].at \in {"fill", "reload"}
      BY <1>0, <2>1
    <2>3. QED
      BY <2>2 DEF FollowsFile, WillReload
  <1>7. ASSUME NEW t \in Tasks, Reload(t) PROVE FollowsFile'
    BY <1>7 DEF Reload, FollowsFile
  <1>8. ASSUME NEW t \in Tasks, WriteOrReloadFails(t) PROVE FollowsFile'
    BY <1>8 DEF WriteOrReloadFails, FollowsFile
  <1>9. CASE SessionDrops
    <2>1. stale' \in {"yes", stale} /\ UNCHANGED <<file, loaded>>
      BY <1>9 DEF SessionDrops
    <2>2. \A s \in Tasks : task[s].at \in {"fill", "reload"} => task'[s] = task[s]
      BY <1>0, <1>9 DEF SessionDrops, Finish
    <2>3. WillReload => WillReload'
      BY <2>2 DEF WillReload
    <2>4. QED
      BY <2>1, <2>3 DEF FollowsFile
  <1>10. CASE Restart
    BY <1>10 DEF Restart, FollowsFile, WillReload
  <1>11. CASE AsteriskRestart
    BY <1>11 DEF AsteriskRestart, FollowsFile
  <1>12. QED
    BY <1>0, <1>2, <1>3, <1>4, <1>5, <1>6, <1>7, <1>8, <1>9, <1>10, <1>11
    DEF Next, CloudCommand, TaskStep

(* Requests that wrote the file in turns leave what is in the file loaded. *)
THEOREM LoadedAlwaysFile == Spec => []LoadedIsFile
  <1>1. Init => FollowsFile
    BY DEF Init, FollowsFile
  <1>2. FollowsFile => LoadedIsFile
    BY DEF FollowsFile, WillReload, LoadedIsFile, Quiet, Idle
  <1>3. QED
    BY <1>1, <1>2, InitTypes, TypesStep, FollowsFileStep, PTL DEF Spec

-----------------------------------------------------------------------------
(* The file and the database                                               *)

Fits(content) == \A c \in Codes : Rings(content, c) = Rings(Image, c)

Only(t) == \A s \in Tasks : s # t => task[s] = Idle

(* Until a request starts while another one runs, there is at most one.    *)
OneTask ==
  overlapped # "yes" => \A s, t \in Tasks : task[s] # Idle /\ task[t] # Idle => s = t

(* It writes what is in the database.                                      *)
UpToDate ==
  overlapped # "yes" =>
    \A t \in Tasks :
      /\ task[t] \in Writing /\ task[t].of = "apartments" => task[t].content = Image
      /\ task[t] \in Reloading /\ written = "apartments" => file = Image

(* Before it changes the database, the file fits what is there.            *)
Steady ==
  /\ overlapped = "no" /\ stale = "no" /\ written = "apartments"
  /\ \A t \in Tasks : task[t] \in {Idle} \cup Editing
  => Fits(file)

InTurn == OneTask /\ UpToDate /\ Steady

LEMMA OnlyStep ==
  ASSUME Types, NEW t \in Tasks, NEW e, task' = [task EXCEPT ![t] = e],
         Only(t)
  PROVE  task'[t] = e /\ \A s \in Tasks : s # t => task'[s] = Idle
  BY DEF Types, Only

LEMMA OnlyRunning ==
  ASSUME OneTask, NEW t \in Tasks, overlapped # "yes", task[t] # Idle
  PROVE  Only(t)
  BY DEF OneTask, Only

LEMMA InTurnStep == Types /\ InTurn /\ [Next]_vars => InTurn'
  <1> SUFFICES ASSUME Types, OneTask, UpToDate, Steady, [Next]_vars, overlapped' # "yes"
               PROVE  InTurn'
    BY DEF InTurn, OneTask, UpToDate, Steady
  <1>0. /\ task \in [Tasks -> Places] /\ Cloud \in Tasks /\ Admins \subseteq Tasks
    BY DEF Types, Tasks
  <1>a. db' = db => Image' = Image
    BY DEF Image, Present
  <1>b. ASSUME db' = db, Fits(file), file' = file PROVE Fits(file)'
    <2>1. Image' = Image
      BY <1>a, <1>b
    <2>2. QED
      BY <1>b, <2>1 DEF Fits, Rings
  <1>c. ASSUME NEW t \in Tasks, Only(t), NEW e, task' = [task EXCEPT ![t] = e],
               e \in Writing /\ e.of = "apartments" => e.content = Image',
               e \in Reloading /\ written' = "apartments" => file' = Image',
               /\ overlapped' = "no" /\ stale' = "no" /\ written' = "apartments"
               /\ e \in {Idle} \cup Editing
               => Fits(file)'
        PROVE  InTurn'
    <2>1. task'[t] = e /\ \A s \in Tasks : s # t => task'[s] = Idle
      BY <1>c, OnlyStep
    <2>2. OneTask'
      BY <2>1 DEF OneTask
    <2>3. UpToDate'
      <3>1. Idle \notin Writing /\ Idle \notin Reloading
        BY PlaceNames
      <3>2. QED
        BY <1>c, <2>1, <3>1 DEF UpToDate
    <2>4. Steady'
      BY <1>c, <2>1 DEF Steady
    <2>5. QED
      BY <2>2, <2>3, <2>4 DEF InTurn
  <1>d. /\ \A e \in {Idle} \cup Editing \cup Rebuilding : e \notin Writing /\ e \notin Reloading
        /\ \A e \in Rebuilding \cup Writing \cup Reloading : e \notin {Idle} \cup Editing
        /\ \A e \in Writing : e \notin Reloading
        /\ \A e \in Reloading : e \notin Writing
    BY PlaceNames
  <1>1. ASSUME NEW t \in Tasks,
               \/ AdminRequest(t)
               \/ t = Cloud /\ (CmdRename \/ CmdDelete \/ CmdSetMonitors \/ CmdProvision \/ CmdRevoke)
        PROVE  InTurn'
    <2>1. Quiet /\ (overlapped' = "no" => overlapped = "no") /\ UNCHANGED fileVars
      BY <1>1, RequestType, StartType
    <2>2. Only(t)
      BY <2>1 DEF Quiet, Only
    <2>3. CASE \E e \in Rebuilding : task' = [task EXCEPT ![t] = e]
      BY <1>c, <1>d, <2>2, <2>3
    <2>4. CASE db' = db /\ \E e \in Editing : task' = [task EXCEPT ![t] = e]
      <3>1. PICK e \in Editing : task' = [task EXCEPT ![t] = e]
        BY <2>4
      <3>2. ASSUME overlapped' = "no", stale' = "no", written' = "apartments"
            PROVE  Fits(file)'
        <4>1. overlapped = "no" /\ stale = "no" /\ written = "apartments" /\ file' = file
          BY <2>1, <3>2 DEF fileVars
        <4>2. Fits(file)
          BY <2>1, <4>1 DEF Quiet, Steady
        <4>3. QED
          BY <1>b, <2>4, <4>1, <4>2
      <3>3. e \notin Writing /\ e \notin Reloading
        BY <1>d
      <3>4. QED
        BY <1>c, <2>2, <3>1, <3>2, <3>3
    <2>5. QED
      BY <1>1, <2>3, <2>4, RequestType
  <1>2. CASE CmdCreate
    <2>1. MayStart(Cloud) /\ task' = task /\ UNCHANGED fileVars
      BY <1>2 DEF CmdCreate
    <2>2. Quiet /\ (overlapped' = "no" => overlapped = "no")
      BY <1>0, <2>1, StartType
    <2>3. OneTask'
      BY <2>1, <2>2 DEF OneTask, Quiet
    <2>4. UpToDate'
      BY <1>d, <2>1, <2>2 DEF UpToDate, Quiet
    <2>5. \A c \in Codes : Rings(Image', c) = Rings(Image, c)
      <3>1. PICK x \in Codes : ~Present(x) /\ db' = [db EXCEPT ![x] = Apartment("yes", {})]
        BY <1>2 DEF CmdCreate
      <3>2. Image \in Content
        BY ImageType
      <3>3. \A c \in Codes : c # x => db'[c] = db[c]
        BY <3>1 DEF Types, DbOK
      <3>4. \A c \in Codes : c # x => Image'[c] = Image[c]
        BY <3>3 DEF Image, Present
      <3>5. Image[x] = NoExten
        BY <3>1 DEF Image
      <3>6. Image'[x] = NoExten \/ Image'[x] = {}
        <4>1. db'[x] = Apartment("yes", {})
          BY <3>1 DEF Types, DbOK
        <4>2. Rung(Apartment("yes", {})) = {}
          BY DEF Rung, Apartment
        <4>3. QED
          BY <4>1, <4>2 DEF Image
      <3>7. Image # Torn /\ Image' # Torn
        <4>1. \A c \in Codes : Image'[c] \in (SUBSET Exts) \cup {NoExten}
          BY <3>2, <3>4, <3>6 DEF Content
        <4>2. Image' = [c \in Codes |-> Image'[c]]
          BY DEF Image
        <4>3. Image' \in Content
          BY <4>1, <4>2 DEF Content
        <4>4. QED
          BY <3>2, <4>3, DialplanAssumption
      <3>8. QED
        BY <3>4, <3>5, <3>6, <3>7 DEF Rings
    <2>6. Steady'
      <3>1. SUFFICES ASSUME overlapped' = "no", stale' = "no", written' = "apartments"
                     PROVE  Fits(file)'
        BY DEF Steady
      <3>2. Fits(file) /\ file' = file
        BY <2>1, <2>2, <3>1 DEF Steady, Quiet, fileVars
      <3>3. \A c \in Codes : Rings(file, c) = Rings(Image', c)
        BY <2>5, <3>2 DEF Fits
      <3>4. QED
        BY <3>2, <3>3 DEF Fits, Rings
    <2>7. QED
      BY <2>3, <2>4, <2>6 DEF InTurn
  <1>3. ASSUME NEW t \in Tasks, CommitReplace(t) \/ (t = Cloud /\ AddMonitor) PROVE InTurn'
    <2>1. task[t] \in Editing /\ overlapped' = overlapped /\ UNCHANGED fileVars
      BY <1>3, EditType
    <2>2. Only(t)
      BY <1>d, <2>1, OnlyRunning, PlaceNames
    <2>3. CASE \E e \in Rebuilding : task' = [task EXCEPT ![t] = e]
      BY <1>c, <1>d, <2>2, <2>3
    <2>4. CASE db' = db /\ task' = [task EXCEPT ![t] = Idle]
      <3>1. ASSUME overlapped' = "no", stale' = "no", written' = "apartments"
            PROVE  Fits(file)'
        <4>1. overlapped = "no" /\ stale = "no" /\ written = "apartments" /\ file' = file
          BY <2>1, <3>1 DEF fileVars
        <4>2. Fits(file)
          BY <2>1, <2>2, <4>1 DEF Only, Steady
        <4>3. QED
          BY <1>b, <2>4, <4>1, <4>2
      <3>2. Idle \notin Writing /\ Idle \notin Reloading
        BY <1>d
      <3>3. QED
        BY <1>c, <2>2, <2>4, <3>1, <3>2
    <2>5. QED
      BY <1>3, <2>3, <2>4, EditType
  <1>4. ASSUME NEW t \in Tasks, Read(t) \/ Truncate(t) \/ Fill(t) \/ Reload(t) PROVE InTurn'
    <2>1. Image' = Image
      <3>1. db' = db
        BY <1>4, WriteType DEF dbVars
      <3>2. QED
        BY <1>a, <3>1
    <2>2. overlapped # "yes"
      BY <1>4 DEF Read, Truncate, Fill, Reload
    <2>3. task[t] \in Rebuilding \cup Writing \cup Reloading
      BY <1>4, WriteType
    <2>4. Only(t)
      BY <1>d, <2>2, <2>3, OnlyRunning
    <2>5. CASE Read(t)
      <3>1. PICK e \in Writing :
              /\ task' = [task EXCEPT ![t] = e]
              /\ e.of = "apartments" => e.content = Image
        BY <2>5, WriteType
      <3>2. e \notin Reloading /\ e \notin {Idle} \cup Editing
        BY <1>d
      <3>3. QED
        BY <1>c, <2>1, <2>4, <3>1, <3>2
    <2>6. CASE Truncate(t)
      <3>1. PICK e \in Writing :
              /\ task' = [task EXCEPT ![t] = e]
              /\ e.of = task[t].of /\ e.content = task[t].content
        BY <2>6, WriteType
      <3>2. e.of = "apartments" => e.content = Image
        BY <2>2, <2>6, <3>1, WriteType DEF UpToDate
      <3>3. e \notin Reloading /\ e \notin {Idle} \cup Editing
        BY <1>d
      <3>4. QED
        BY <1>c, <2>1, <2>4, <3>1, <3>2, <3>3
    <2>7. CASE Fill(t)
      <3>1. PICK e \in Reloading : task' = [task EXCEPT ![t] = e]
        BY <2>7, WriteType
      <3>2. written' = "apartments" => file' = Image
        BY <2>2, <2>7, WriteType DEF UpToDate
      <3>3. e \notin Writing /\ e \notin {Idle} \cup Editing
        BY <1>d
      <3>4. QED
        BY <1>c, <2>1, <2>4, <3>1, <3>2, <3>3
    <2>8. CASE Reload(t)
      <3>1. /\ task[t] \in Reloading /\ task' = [task EXCEPT ![t] = Idle]
            /\ written' = written /\ file' = file
        BY <2>8, WriteType
      <3>2. written' = "apartments" => file' = Image'
        BY <2>1, <2>2, <3>1 DEF UpToDate
      <3>3. written' = "apartments" => Fits(file)'
        BY <3>2 DEF Fits, Rings
      <3>4. Idle \notin Writing /\ Idle \notin Reloading
        BY <1>d
      <3>5. QED
        BY <1>c, <2>4, <3>1, <3>3, <3>4
    <2>9. QED
      BY <1>4, <2>5, <2>6, <2>7, <2>8
  <1>5. ASSUME NEW t \in Tasks, WriteOrReloadFails(t) PROVE InTurn'
    <2>1. /\ stale' = "yes" /\ task[t].at \in {"write", "reload"}
          /\ task' = [task EXCEPT ![t] = Idle] /\ overlapped' = overlapped
      BY <1>5 DEF WriteOrReloadFails, Finish
    <2>2. Only(t)
      BY <2>1, OnlyRunning, PlaceNames
    <2>3. Idle \notin Writing /\ Idle \notin Reloading
      BY <1>d
    <2>4. QED
      BY <1>c, <2>1, <2>2, <2>3
  <1>6. CASE SessionDrops
    <2>1. /\ task[Cloud].at \in {"replace", "add", "rebuild"}
          /\ stale' = IF task[Cloud].at = "rebuild" THEN "yes" ELSE stale
          /\ task' = [task EXCEPT ![Cloud] = Idle]
          /\ UNCHANGED <<db, file, written, overlapped>>
      BY <1>6 DEF SessionDrops, Finish, dbVars
    <2>2. Only(Cloud)
      BY <1>0, <2>1, OnlyRunning, PlaceNames
    <2>3. ASSUME overlapped' = "no", stale' = "no", written' = "apartments"
          PROVE  Fits(file)'
      <3>1. task[Cloud] \in Editing
        BY <1>0, <2>1, <2>3, PlaceKinds DEF Editing
      <3>2. overlapped = "no" /\ stale = "no" /\ written = "apartments"
        BY <2>1, <2>3
      <3>3. Fits(file)
        BY <2>2, <3>1, <3>2 DEF Only, Steady
      <3>4. QED
        BY <1>b, <2>1, <3>3
    <2>4. Idle \notin Writing /\ Idle \notin Reloading
      BY <1>d
    <2>5. QED
      BY <1>0, <1>c, <2>1, <2>2, <2>3, <2>4
  <1>7. CASE Restart
    <2>1. /\ stale' = IF \E t \in Tasks : task[t].at \in {"rebuild", "write", "fill", "reload"}
                      THEN "yes" ELSE stale
          /\ \A t \in Tasks : task'[t] = Idle
          /\ UNCHANGED <<db, file, written, overlapped>>
      BY <1>7 DEF Restart, dbVars
    <2>2. OneTask'
      BY <2>1 DEF OneTask
    <2>3. UpToDate'
      BY <1>d, <2>1 DEF UpToDate
    <2>4. Steady'
      <3>1. SUFFICES ASSUME overlapped' = "no", stale' = "no", written' = "apartments"
                     PROVE  Fits(file)'
        BY DEF Steady
      <3>2. \A t \in Tasks : task[t] \in {Idle} \cup Editing
        <4>1. \A t \in Tasks : task[t].at \notin {"rebuild", "write", "fill", "reload"}
          BY <2>1, <3>1
        <4>2. QED
          BY <1>0, <4>1, PlaceNames DEF Places
      <3>3. overlapped = "no" /\ stale = "no" /\ written = "apartments"
        BY <2>1, <3>1
      <3>4. Fits(file)
        BY <3>2, <3>3 DEF Steady
      <3>5. QED
        BY <1>b, <2>1, <3>4
    <2>5. QED
      BY <2>2, <2>3, <2>4 DEF InTurn
  <1>8. CASE AsteriskRestart \/ UNCHANGED vars
    <2>1. UNCHANGED <<db, task, file, written, stale, overlapped>>
      BY <1>8 DEF AsteriskRestart, vars, dbVars, fileVars
    <2>2. Image' = Image
      BY <1>a, <2>1
    <2>3. OneTask' /\ UpToDate'
      BY <2>1, <2>2 DEF OneTask, UpToDate
    <2>4. Steady'
      BY <1>b, <2>1 DEF Steady
    <2>5. QED
      BY <2>3, <2>4 DEF InTurn
  <1>9. QED
    BY <1>0, <1>1, <1>2, <1>3, <1>4, <1>5, <1>6, <1>7, <1>8 DEF Next, CloudCommand, TaskStep

(* Requests one after the other leave every code ringing the monitors of   *)
(* its apartment and no other extension.                                   *)
THEOREM AlwaysRingsMonitors == Spec => []RingsMonitors
  <1>1. Init => InTurn /\ FollowsFile
    BY PlaceNames DEF Init, InTurn, OneTask, UpToDate, Steady, FollowsFile
  <1>2. InTurn /\ FollowsFile => RingsMonitors
    <2> SUFFICES ASSUME InTurn, FollowsFile, Quiet, stale = "no", overlapped = "no",
                        written = "apartments"
                 PROVE  \A c \in Codes : Rings(loaded, c) = Rings(Image, c)
      BY DEF RingsMonitors
    <2>1. loaded = file
      BY DEF FollowsFile, WillReload, Quiet, Idle
    <2>2. Fits(file)
      BY DEF InTurn, Steady, Quiet
    <2>3. QED
      BY <2>1, <2>2 DEF Fits
  <1>3. QED
    BY <1>1, <1>2, InitTypes, TypesStep, FollowsFileStep, InTurnStep, PTL DEF Spec

=============================================================================
