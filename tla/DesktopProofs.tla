---------------------------- MODULE DesktopProofs ----------------------------
(***************************************************************************)
(* Proofs about the desktop worker manager, for any number of              *)
(* configurations, processes, requests and restarts: its type invariant,   *)
(* with the bound on relaunches, and that two connected children never     *)
(* trade with one configuration unless a start raced with a relaunch.      *)
(***************************************************************************)
EXTENDS DesktopManager, FiniteSetTheorems, SequenceTheorems, TLAPS

-----------------------------------------------------------------------------
(* The inductive invariant.                                                *)

\* The types, with the bound on the table, and what makes a child's row exist.
Types ==
    /\ TypeOK
    /\ Len(db) <= MaxConfigs
    /\ \A r \in starting : r.config \in DOMAIN db
    /\ \A p \in Procs : proc[p].state # "free" => record[p].config \in DOMAIN db

\* A relaunch is due only for a child that has ended and has attempts left.
RelaunchOK(p) ==
    record[p].relaunch => proc[p].state = "reaped" /\ record[p].restartAttempts < MaxRestarts

\* A child with an open channel is not reaped; one that is not running has none, and
\* nothing is left to run or connected while the server is down.
ChannelOK(p) ==
    /\ proc[p].connected => proc[p].state \notin {"free", "reaped"}
    /\ host = "down" => ~proc[p].connected /\ ~record[p].relaunch

\* The manager's map holds whatever can still trade, now or after its relaunch, unless a
\* start has raced with a relaunch of that configuration.
TrackedOK(p) ==
    proc[p].connected \/ record[p].relaunch =>
        records[record[p].config] = p \/ record[p].config \in raced

MapOK == \A c \in Configs : records[c] # 0 => record[records[c]].config = c

Tracking ==
    /\ MapOK
    /\ \A p \in Procs : RelaunchOK(p) /\ ChannelOK(p) /\ TrackedOK(p)

DInv == Types /\ Tracking

-----------------------------------------------------------------------------
(* Lemmas about the operators of the model.                                *)

LEMMA Bounds ==
    MaxRestarts \in Nat /\ MaxConfigs \in Nat /\ MaxProcs \in Nat /\ MaxCalls \in Nat
<1>1. \A x \in {MaxRestarts, MaxConfigs, MaxProcs, MaxCalls} : x \in Nat
  BY DesktopAssumption
<1>. QED
  BY <1>1

\* The statements of ConfigRepository keep the table's type, and no row disappears.
LEMMA RowWrite ==
    ASSUME db \in Seq(Row), NEW c \in DOMAIN db, NEW row \in Row, db' = [db EXCEPT ![c] = row]
    PROVE  db' \in Seq(Row) /\ Len(db') = Len(db) /\ DOMAIN db' = DOMAIN db
BY ExceptSeq

LEMMA FlagWrite ==
    ASSUME db \in Seq(Row), NEW c \in DOMAIN db,
           \/ enableEmergencyStop(c) \/ enableStopTrading(c) \/ disableAutoStartTrading(c)
    PROVE  db' \in Seq(Row) /\ Len(db') = Len(db) /\ DOMAIN db' = DOMAIN db
<1>1. db[c] \in Row
  OBVIOUS
<1>2. /\ [db[c] EXCEPT !.emergency = TRUE] \in Row
      /\ [db[c] EXCEPT !.stopTrading = TRUE] \in Row
      /\ [db[c] EXCEPT !.autoStart = FALSE] \in Row
  BY <1>1 DEF Row
<1>3. \E row \in Row : db' = [db EXCEPT ![c] = row]
  BY <1>2 DEF enableEmergencyStop, enableStopTrading, disableAutoStartTrading
<1>. QED
  BY <1>3, RowWrite

LEMMA FlagsCleared ==
    ASSUME db \in Seq(Row), disableEmergencyStop
    PROVE  db' \in Seq(Row) /\ Len(db') = Len(db) /\ DOMAIN db' = DOMAIN db
<1>1. \A c \in 1..Len(db) : [db[c] EXCEPT !.emergency = FALSE] \in Row
  <2>1. \A c \in 1..Len(db) : db[c] \in Row
    OBVIOUS
  <2>2. \A row \in Row : [row EXCEPT !.emergency = FALSE] \in Row
    BY DEF Row
  <2>. QED
    BY <2>1, <2>2
<1>2. db' = [c \in 1..Len(db) |-> [db[c] EXCEPT !.emergency = FALSE]]
  BY DEF disableEmergencyStop
<1>3. db' \in [1..Len(db) -> Row]
  BY <1>1, <1>2
<1>. QED
  BY <1>3

LEMMA RowAdded ==
    ASSUME db \in Seq(Row), NEW row \in Row, createConfig(row)
    PROVE  db' \in Seq(Row) /\ Len(db') = Len(db) + 1 /\ DOMAIN db \subseteq DOMAIN db'
BY DEF createConfig

\* The configurations started at boot get different numbers, right after those in use.
LEMMA BootNumbers ==
    ASSUME db \in Seq(Row), launched \in Nat
    PROVE  /\ Cardinality(AutoStarted) \in Nat
           /\ \A c \in AutoStarted : NumberOf(c) \in (launched + 1)..(launched + Cardinality(AutoStarted))
           /\ \A c, d \in AutoStarted : NumberOf(c) = NumberOf(d) => c = d
<1>. DEFINE Upto(c) == {d \in AutoStarted : d <= c}
<1>1. IsFiniteSet(AutoStarted) /\ AutoStarted \subseteq Nat
  <2>1. DOMAIN db = 1..Len(db) /\ Len(db) \in Nat
    OBVIOUS
  <2>2. AutoStarted \subseteq 1..Len(db)
    BY <2>1 DEF AutoStarted
  <2>3. IsFiniteSet(1..Len(db))
    BY <2>1, FS_Interval
  <2>4. IsFiniteSet(AutoStarted)
    BY <2>2, <2>3, FS_Subset
  <2>. QED
    BY <2>1, <2>2, <2>4
<1>2. \A c \in AutoStarted : /\ IsFiniteSet(Upto(c)) /\ Cardinality(Upto(c)) <= Cardinality(AutoStarted)
                      /\ Cardinality(Upto(c)) \in Nat /\ Upto(c) # {}
  <2>1. \A c \in AutoStarted : Upto(c) \subseteq AutoStarted /\ c \in Upto(c)
    BY <1>1
  <2>2. \A c \in AutoStarted : IsFiniteSet(Upto(c)) /\ Cardinality(Upto(c)) <= Cardinality(AutoStarted)
    BY <1>1, <2>1, FS_Subset
  <2>. QED
    BY <2>1, <2>2, FS_CardinalityType
<1>3. \A c \in AutoStarted : Cardinality(Upto(c)) # 0
  BY <1>2, FS_EmptySet
<1>4. ASSUME NEW c \in AutoStarted, NEW d \in AutoStarted, c < d PROVE Cardinality(Upto(c)) < Cardinality(Upto(d))
  <2>1. Upto(c) \subseteq Upto(d)
    <3>1. ASSUME NEW x \in AutoStarted, x <= c PROVE x <= d
      <4>1. x \in Nat /\ c \in Nat /\ d \in Nat
        BY <1>1
      <4>. QED
        BY <1>4, <3>1, <4>1
    <3>. QED
      BY <3>1
  <2>2. d \in Upto(d) /\ d \notin Upto(c)
    BY <1>1, <1>4
  <2>3. IsFiniteSet(Upto(d)) /\ Cardinality(Upto(c)) \in Nat /\ Cardinality(Upto(d)) \in Nat
    BY <1>2
  <2>. HIDE DEF Upto
  <2>4. /\ Cardinality(Upto(c)) <= Cardinality(Upto(d))
        /\ Cardinality(Upto(d)) = Cardinality(Upto(c)) => Upto(d) = Upto(c)
    BY <2>1, <2>3, FS_Subset
  <2>. QED
    BY <2>2, <2>3, <2>4
<1>5. Cardinality(AutoStarted) \in Nat
  BY <1>1, FS_CardinalityType
<1>. HIDE DEF Upto
<1>6. \A c \in AutoStarted : NumberOf(c) = launched + Cardinality(Upto(c))
  BY DEF NumberOf, Upto
<1>7. \A c \in AutoStarted : NumberOf(c) \in (launched + 1)..(launched + Cardinality(AutoStarted))
  BY <1>2, <1>3, <1>5, <1>6
<1>8. ASSUME NEW c \in AutoStarted, NEW d \in AutoStarted, NumberOf(c) = NumberOf(d) PROVE c = d
  <2>1. Cardinality(Upto(c)) = Cardinality(Upto(d))
    BY <1>2, <1>6, <1>8
  <2>2. c \in Nat /\ d \in Nat /\ ~(c < d) /\ ~(d < c)
    BY <1>1, <1>2, <1>4, <2>1
  <2>. QED
    BY <2>2
<1>. QED
  BY <1>5, <1>7, <1>8

-----------------------------------------------------------------------------
(* Types.                                                                  *)

\* A launch fills the next free number with a record and a process of the right shape.
LEMMA LaunchTypes ==
    ASSUME Types, NEW c \in DOMAIN db, NEW row \in Row, NEW attempts \in 0..MaxRestarts
    PROVE  Launched(c, row, attempts) \in WorkerRecord /\ Forked \in Child /\ c \in Configs
<1>1. c \in Configs
  BY Bounds DEF Types, TypeOK, Configs
<1>2. Forked \in Child
  BY DEF Forked, NoChild, Child
<1>3. Launched(c, row, attempts) \in WorkerRecord
  BY <1>1 DEF Launched, WorkerRecord
<1>. QED
  BY <1>1, <1>2, <1>3

LEMMA StopTypes ==
    ASSUME Types, NEW S, stop(S)
    PROVE  /\ record' \in [Procs -> WorkerRecord] /\ proc' \in [Procs -> Child]
           /\ \A p \in Procs : proc'[p].state = proc[p].state /\ record'[p].config = record[p].config
<1>1. \A p \in Procs : record[p] \in WorkerRecord /\ proc[p] \in Child
  BY DEF Types, TypeOK
<1>2. \A r \in WorkerRecord : /\ [r EXCEPT !.desiredRunning = FALSE, !.kill = TRUE] \in WorkerRecord
                              /\ [r EXCEPT !.desiredRunning = FALSE, !.kill = TRUE].config = r.config
  BY DEF WorkerRecord
<1>3. \A x \in Child : [x EXCEPT !.asked = TRUE] \in Child /\ [x EXCEPT !.asked = TRUE].state = x.state
  BY DEF Child
<1>. QED
  BY <1>1, <1>2, <1>3 DEF stop

\* One field of a process or of a record is overwritten.
LEMMA FieldTypes ==
    ASSUME Types, NEW p \in Procs
    PROVE  /\ proc[p] \in Child /\ record[p] \in WorkerRecord
           /\ \A s \in {"starting", "running", "stopping"} :
                [proc[p] EXCEPT !.state = s] \in Child /\ [proc[p] EXCEPT !.state = s].state = s
           /\ \A code \in {"zero", "failure", "signal"} :
                /\ [proc[p] EXCEPT !.state = "exited", !.code = code] \in Child
                /\ [proc[p] EXCEPT !.state = "exited", !.code = code].state = "exited"
           /\ [proc[p] EXCEPT !.state = "reaped", !.connected = FALSE] \in Child
           /\ \A b \in BOOLEAN : /\ [proc[p] EXCEPT !.isEmergencyStop = b] \in Child
                                 /\ [proc[p] EXCEPT !.isEmergencyStop = b].state = proc[p].state
                                 /\ [record[p] EXCEPT !.relaunch = b] \in WorkerRecord
                                 /\ [record[p] EXCEPT !.kill = b] \in WorkerRecord
           /\ [proc[p] EXCEPT !.sigterm = TRUE] \in Child
           /\ [proc[p] EXCEPT !.sigterm = TRUE].state = proc[p].state
<1>1. proc[p] \in Child /\ record[p] \in WorkerRecord
  BY DEF Types, TypeOK
<1>. QED
  BY <1>1 DEF Child, WorkerRecord

\* A step that changes one child and perhaps a row keeps the types.
LEMMA ChildStepTypes ==
    ASSUME Types, NEW p \in Procs, NEW x \in Child, proc[p].state # "free", x.state # "free",
           proc' = [proc EXCEPT ![p] = x], calls' \in 0..MaxCalls,
           db' \in Seq(Row) /\ Len(db') = Len(db) /\ DOMAIN db' = DOMAIN db,
           UNCHANGED <<host, records, record, starting, launched, raced>>
    PROVE  Types'
<1>1. proc' \in [Procs -> Child]
  BY DEF Types, TypeOK
<1>2. TypeOK'
  BY <1>1 DEF Types, TypeOK
<1>3. \A q \in Procs : proc'[q].state # "free" => record'[q].config \in DOMAIN db'
  BY DEF Types, TypeOK
<1>. QED
  BY <1>2, <1>3 DEF Types

\* A launch, whatever else happens to the record it replaces.
LEMMA LaunchStepTypes ==
    ASSUME Types, NEW c \in DOMAIN db, NEW row \in Row, NEW attempts \in 0..MaxRestarts,
           NEW old \in [Procs -> WorkerRecord], \A q \in Procs : old[q].config = record[q].config,
           launched < MaxProcs, launched' = launched + 1,
           record' = [old EXCEPT ![launched + 1] = Launched(c, row, attempts)],
           proc' = [proc EXCEPT ![launched + 1] = Forked],
           records' = [records EXCEPT ![c] = launched + 1],
           starting' \subseteq starting, raced' \subseteq Configs,
           UNCHANGED <<host, db, calls>>
    PROVE  Types'
<1>1. Launched(c, row, attempts) \in WorkerRecord /\ Forked \in Child /\ c \in Configs
  BY LaunchTypes
<1>2. launched \in Nat /\ launched + 1 \in Procs /\ launched' \in 0..MaxProcs
  BY Bounds DEF Types, TypeOK, Procs
<1>3. record' \in [Procs -> WorkerRecord] /\ proc' \in [Procs -> Child]
  BY <1>1, <1>2 DEF Types, TypeOK
<1>4. records' \in [Configs -> 0..launched']
  BY <1>1, <1>2 DEF Types, TypeOK
<1>5. TypeOK'
  BY <1>2, <1>3, <1>4 DEF Types, TypeOK
<1>6. Launched(c, row, attempts).config = c
  BY DEF Launched
<1>7. \A q \in Procs : proc'[q].state # "free" => record'[q].config \in DOMAIN db'
  BY <1>2, <1>6 DEF Types, TypeOK
<1>. QED
  BY <1>5, <1>7 DEF Types

\* The types are inductive: a relaunch is only due while attempts are left, and a child's
\* configuration has a row to overwrite.
LEMMA TypesStep ==
    ASSUME Types, \A p \in Procs : RelaunchOK(p), Next
    PROVE  Types'
<1>. USE Bounds
<1>a. db \in Seq(Row) /\ (\A c \in DOMAIN db : db[c] \in Row /\ c \in Configs)
  BY DEF Types, TypeOK, Configs
<1>b. ASSUME Counted PROVE calls' \in 0..MaxCalls
  BY <1>b DEF Counted, Types, TypeOK
<1>1. ASSUME Boot PROVE Types'
  <2>1. launched \in Nat
    BY DEF Types, TypeOK
  <2>2. /\ Cardinality(AutoStarted) \in Nat
        /\ \A c \in AutoStarted : NumberOf(c) \in (launched + 1)..(launched + Cardinality(AutoStarted))
        /\ \A c, d \in AutoStarted : NumberOf(c) = NumberOf(d) => c = d
    BY <1>a, <2>1, BootNumbers
  <2>3. AutoStarted \subseteq DOMAIN db
    BY DEF AutoStarted
  <2>4. launched' \in 0..MaxProcs
    BY <1>1, <2>1, <2>2 DEF Boot
  <2>5. records' \in [Configs -> 0..launched']
    BY <1>1, <2>1, <2>2 DEF Boot
  <2>6. \A c \in AutoStarted : Launched(c, db[c], 0) \in WorkerRecord /\ Launched(c, db[c], 0).config = c
    BY <1>a, <2>3, LaunchTypes DEF Launched
  <2>7. Forked \in Child
    BY DEF Forked, NoChild, Child
  <2>8. \A p \in Procs : IF \E c \in AutoStarted : NumberOf(c) = p
                         THEN /\ proc'[p] = Forked
                              /\ \E c \in AutoStarted : record'[p] = Launched(c, db[c], 0)
                         ELSE proc'[p] = proc[p] /\ record'[p] = record[p]
    BY <1>1 DEF Boot, getConfig
  <2>9. record' \in [Procs -> WorkerRecord] /\ proc' \in [Procs -> Child]
    <3>1. \A p \in Procs : record'[p] \in WorkerRecord /\ proc'[p] \in Child
      BY <2>6, <2>7, <2>8 DEF Types, TypeOK
    <3>2. record' = [p \in Procs |-> record'[p]] /\ proc' = [p \in Procs |-> proc'[p]]
      BY <1>1 DEF Boot
    <3>. QED
      BY <3>1, <3>2
  <2>10. TypeOK'
    BY <1>1, <1>b, <2>4, <2>5, <2>9 DEF Boot, Types, TypeOK
  <2>11. \A p \in Procs : proc'[p].state # "free" => record'[p].config \in DOMAIN db
    BY <2>3, <2>6, <2>8 DEF Types
  <2>. QED
    BY <1>1, <2>10, <2>11 DEF Boot, Types
<1>2. ASSUME NEW S, stop(S), db' \in Seq(Row) /\ Len(db') = Len(db) /\ DOMAIN db' = DOMAIN db,
             host' \in {"down", "up", "stopping"}, calls' \in 0..MaxCalls,
             UNCHANGED <<records, starting, launched, raced>>
      PROVE  Types'
  BY <1>2, StopTypes DEF Types, TypeOK
<1>3. ASSUME Shutdown PROVE Types'
  BY <1>2, <1>3, <1>a, <1>b DEF Shutdown
<1>4. ASSUME Gone, calls' \in 0..MaxCalls, proc' \in [Procs -> Child],
             \A p \in Procs : proc'[p].state = proc[p].state
      PROVE  Types'
  <2>1. \A r \in WorkerRecord : /\ [r EXCEPT !.relaunch = FALSE, !.kill = FALSE] \in WorkerRecord
                                /\ [r EXCEPT !.relaunch = FALSE, !.kill = FALSE].config = r.config
    BY DEF WorkerRecord
  <2>2. record' \in [Procs -> WorkerRecord] /\ \A p \in Procs : record'[p].config = record[p].config
    BY <1>4, <2>1 DEF Gone, Types, TypeOK
  <2>3. records' \in [Configs -> 0..launched'] /\ starting' = {}
    <3>1. 0 \in 0..launched
      BY DEF Types, TypeOK
    <3>. QED
      BY <1>4, <3>1 DEF Gone
  <2>4. TypeOK'
    BY <1>4, <2>2, <2>3 DEF Gone, Types, TypeOK
  <2>. QED
    BY <1>4, <2>2, <2>3, <2>4 DEF Gone, Types
<1>5. ASSUME HostExit PROVE Types'
  <2>1. \A x \in Child : [x EXCEPT !.connected = FALSE] \in Child /\ [x EXCEPT !.connected = FALSE].state = x.state
    BY DEF Child
  <2>2. proc' \in [Procs -> Child] /\ \A p \in Procs : proc'[p].state = proc[p].state
    BY <1>5, <2>1 DEF HostExit, Types, TypeOK
  <2>. QED
    BY <1>4, <1>5, <2>2 DEF HostExit, Types, TypeOK
<1>6. ASSUME HostCrash PROVE Types'
  <2>1. \A x \in Child, b \in BOOLEAN : /\ [x EXCEPT !.connected = FALSE, !.asked = b] \in Child
                                        /\ [x EXCEPT !.connected = FALSE, !.asked = b].state = x.state
    BY DEF Child
  <2>2. PICK told \in SUBSET Tracked :
           proc' = [p \in Procs |-> [proc[p] EXCEPT !.connected = FALSE,
                                                    !.asked = @ \/ (p \in told /\ proc[p].connected)]]
    BY <1>6 DEF HostCrash
  <2>3. \A p \in Procs : (proc[p].asked \/ (p \in told /\ proc[p].connected)) \in BOOLEAN /\ proc[p] \in Child
    BY DEF Types, TypeOK, Child
  <2>4. proc' \in [Procs -> Child] /\ \A p \in Procs : proc'[p].state = proc[p].state
    BY <2>1, <2>2, <2>3
  <2>. QED
    BY <1>4, <1>6, <1>b, <2>4 DEF HostCrash
<1>7. ASSUME NEW auto \in BOOLEAN, CreateConfig(auto) PROVE Types'
  <2>1. [NewRow EXCEPT !.autoStart = auto] \in Row
    BY DEF NewRow, Row
  <2>2. db' \in Seq(Row) /\ Len(db') = Len(db) + 1 /\ DOMAIN db \subseteq DOMAIN db'
    BY <1>7, <1>a, <2>1, RowAdded DEF CreateConfig
  <2>3. Len(db') <= MaxConfigs
    BY <1>7, <1>a, <2>2 DEF CreateConfig
  <2>4. TypeOK'
    BY <1>7, <1>b, <2>2 DEF CreateConfig, Types, TypeOK
  <2>. QED
    BY <1>7, <2>2, <2>3, <2>4 DEF CreateConfig, Types
<1>8. ASSUME NEW c \in DOMAIN db, StartTrading(c) PROVE Types'
  <2>1. [config |-> c, snapshot |-> db[c]] \in [config : Configs, snapshot : Row]
    BY <1>a
  <2>2. starting' \subseteq [config : Configs, snapshot : Row] /\ \A r \in starting' : r.config \in DOMAIN db
    BY <1>8, <2>1 DEF StartTrading, getConfig, Types, TypeOK
  <2>. QED
    BY <1>8, <1>b, <2>2 DEF StartTrading, Types, TypeOK
<1>9. ASSUME NEW c \in DOMAIN db, StopTrading(c) PROVE Types'
  BY <1>2, <1>9, <1>a, <1>b, FlagWrite DEF StopTrading, Types, TypeOK
<1>10. ASSUME db' \in Seq(Row) /\ Len(db') = Len(db) /\ DOMAIN db' = DOMAIN db, calls' \in 0..MaxCalls,
              UNCHANGED <<host, records, record, proc, starting, launched, raced>>
       PROVE  Types'
  BY <1>10 DEF Types, TypeOK
<1>11. ASSUME NEW c \in DOMAIN db, EmergencyStop(c) \/ DisableAutostart(c) PROVE Types'
  BY <1>10, <1>11, <1>a, <1>b, FlagWrite DEF EmergencyStop, DisableAutostart
<1>12. ASSUME NEW c \in DOMAIN db, NEW auto \in BOOLEAN, UpdateConfig(c, auto) PROVE Types'
  <2>1. \A row \in Row : [row EXCEPT !.settings = row.settings + 1, !.autoStart = auto] \in Row
    <3>1. \A row \in Row, n \in Nat : [row EXCEPT !.settings = n, !.autoStart = auto] \in Row
      BY DEF Row
    <3>2. \A row \in Row : row.settings + 1 \in Nat
      BY DEF Row
    <3>. QED
      BY <3>1, <3>2
  <2>2. db' = [db EXCEPT ![c] = [db[c] EXCEPT !.settings = db[c].settings + 1, !.autoStart = auto]]
    BY <1>12 DEF UpdateConfig, updateConfig
  <2>3. db' \in Seq(Row) /\ Len(db') = Len(db) /\ DOMAIN db' = DOMAIN db
    BY <1>a, <2>1, <2>2, RowWrite
  <2>. QED
    BY <1>10, <1>12, <1>b, <2>3 DEF UpdateConfig
<1>13. ASSUME NEW r \in starting, StartTradingResumes(r) PROVE Types'
  <2>1. r.config \in DOMAIN db /\ r.snapshot \in Row /\ 0 \in 0..MaxRestarts
    BY DEF Types, TypeOK
  <2>2. CASE UNCHANGED <<records, record, proc, launched, raced>>
    BY <1>13, <2>2 DEF StartTradingResumes, Types, TypeOK
  <2>3. CASE /\ launch(r.config, r.snapshot, 0)
             /\ raced' = raced \cup (IF RelaunchDue(r.config) THEN {r.config} ELSE {})
    <3>1. starting' \subseteq starting /\ raced' \subseteq Configs /\ UNCHANGED <<host, db, calls>>
      BY <1>13, <1>a, <2>1, <2>3 DEF StartTradingResumes, Types, TypeOK
    <3>2. record \in [Procs -> WorkerRecord]
      BY DEF Types, TypeOK
    <3>. QED
      BY <2>1, <2>3, <3>1, <3>2, LaunchStepTypes DEF launch
  <2>. QED
    BY <1>13, <2>2, <2>3 DEF StartTradingResumes, start
<1>14. ASSUME NEW p \in Procs, ExitEvent(p) PROVE Types'
  <2>. DEFINE tracked == records[record[p].config] = p
              again == record[p].desiredRunning /\ proc[p].code # "zero" /\ record[p].restartAttempts < MaxRestarts
  <2>1. /\ proc' = [proc EXCEPT ![p] = [proc[p] EXCEPT !.state = "reaped", !.connected = FALSE]]
        /\ record' = [record EXCEPT ![p] = [record[p] EXCEPT !.relaunch = tracked /\ again]]
        /\ records' = IF tracked /\ ~again THEN [records EXCEPT ![record[p].config] = 0] ELSE records
        /\ proc[p].state # "free"
        /\ UNCHANGED <<host, db, starting, launched, calls, raced>>
    BY <1>14 DEF ExitEvent, Types, TypeOK
  <2>2. (tracked /\ again) \in BOOLEAN
    OBVIOUS
  <2>. HIDE DEF tracked, again
  <2>3. record' \in [Procs -> WorkerRecord] /\ proc' \in [Procs -> Child]
    BY <2>1, <2>2, FieldTypes DEF Types, TypeOK
  <2>4. records' \in [Configs -> 0..launched]
    <3>1. records \in [Configs -> 0..launched] /\ 0 \in 0..launched
      BY DEF Types, TypeOK
    <3>. QED
      BY <2>1, <3>1
  <2>5. \A b \in BOOLEAN : [record[p] EXCEPT !.relaunch = b].config = record[p].config
    BY DEF Types, TypeOK, WorkerRecord
  <2>6. \A q \in Procs : record'[q].config = record[q].config /\ (proc'[q].state # "free" => proc[q].state # "free")
    BY <2>1, <2>2, <2>5 DEF Types, TypeOK
  <2>. QED
    BY <2>1, <2>3, <2>4, <2>6 DEF Types, TypeOK
<1>15. ASSUME NEW p \in Procs, RelaunchTimer(p) PROVE Types'
  <2>1. /\ record[p].config \in DOMAIN db /\ record[p].snapshot \in Row
        /\ record[p].restartAttempts + 1 \in 0..MaxRestarts
    BY <1>15 DEF RelaunchTimer, RelaunchOK, Types, TypeOK, WorkerRecord
  <2>2. \A b \in BOOLEAN : [record[p] EXCEPT !.relaunch = b].config = record[p].config
    BY DEF Types, TypeOK, WorkerRecord
  <2>. DEFINE old == [record EXCEPT ![p] = [record[p] EXCEPT !.relaunch = FALSE]]
  <2>3. old \in [Procs -> WorkerRecord] /\ \A q \in Procs : old[q].config = record[q].config
    BY <2>2, FieldTypes DEF Types, TypeOK
  <2>4. CASE ~record[p].desiredRunning
    <3>1. record' = old
      BY <1>15, <2>4 DEF RelaunchTimer, Types, TypeOK
    <3>. QED
      BY <1>15, <2>3, <2>4, <3>1 DEF RelaunchTimer, Types, TypeOK
  <2>5. CASE record[p].desiredRunning
    <3>1. /\ launched < MaxProcs /\ launched' = launched + 1
          /\ record' = [old EXCEPT ![launched + 1] =
                          Launched(record[p].config, record[p].snapshot, record[p].restartAttempts + 1)]
          /\ proc' = [proc EXCEPT ![launched + 1] = Forked]
          /\ records' = [records EXCEPT ![record[p].config] = launched + 1]
          /\ UNCHANGED <<host, db, starting, calls, raced>>
      BY <1>15, <2>5 DEF RelaunchTimer
    <3>2. starting' \subseteq starting /\ raced' \subseteq Configs
      BY <3>1 DEF Types, TypeOK
    <3>. HIDE DEF old
    <3>. QED
      BY <2>1, <2>3, <3>1, <3>2, LaunchStepTypes
  <2>. QED
    BY <2>4, <2>5
<1>16. ASSUME NEW p \in Procs, KillTimer(p) PROVE Types'
  <2>1. \A b \in BOOLEAN : [record[p] EXCEPT !.kill = b].config = record[p].config
    BY DEF Types, TypeOK, WorkerRecord
  <2>2. record' = [record EXCEPT ![p] = [record[p] EXCEPT !.kill = FALSE]]
    BY <1>16 DEF KillTimer
  <2>3. record' \in [Procs -> WorkerRecord] /\ \A q \in Procs : record'[q].config = record[q].config
    BY <2>1, <2>2, FieldTypes DEF Types, TypeOK
  <2>4. [proc[p] EXCEPT !.sigterm = TRUE].state = proc[p].state
    BY FieldTypes
  <2>5. proc' = proc \/ proc' = [proc EXCEPT ![p] = [proc[p] EXCEPT !.sigterm = TRUE]]
    BY <1>16 DEF KillTimer
  <2>6. proc' \in [Procs -> Child] /\ \A q \in Procs : proc'[q].state = proc[q].state
    BY <2>4, <2>5, FieldTypes DEF Types, TypeOK
  <2>. QED
    BY <1>16, <2>3, <2>6 DEF KillTimer, Types, TypeOK
<1>17. ASSUME NEW p \in Procs, SyncRuntimeConfig(p) PROVE Types'
  <2>1. proc[p].state = "starting" /\ record[p].config \in DOMAIN db /\ record[p].snapshot \in Row
    BY <1>17 DEF SyncRuntimeConfig, Types, TypeOK, WorkerRecord
  <2>2. db' \in Seq(Row) /\ Len(db') = Len(db) /\ DOMAIN db' = DOMAIN db
    BY <1>17, <1>a, <2>1, RowWrite DEF SyncRuntimeConfig, updateConfig
  <2>3. [proc[p] EXCEPT !.state = "running"] \in Child /\ [proc[p] EXCEPT !.state = "running"].state = "running"
    BY FieldTypes
  <2>4. calls' \in 0..MaxCalls
    BY <1>17 DEF SyncRuntimeConfig, Types, TypeOK
  <2>. QED
    BY <1>17, <2>1, <2>2, <2>3, <2>4, ChildStepTypes DEF SyncRuntimeConfig
<1>18. ASSUME NEW p \in Procs, NEW x \in Child, proc[p].state # "free", x.state # "free",
              proc' = [proc EXCEPT ![p] = x], calls' \in 0..MaxCalls,
              UNCHANGED <<host, db, records, record, starting, launched, raced>>
       PROVE  Types'
  BY <1>18, <1>a, ChildStepTypes
<1>19. ASSUME NEW p \in Procs, ReloadConfig(p) PROVE Types'
  <2>1. record[p].config \in DOMAIN db
    BY <1>19 DEF ReloadConfig, Types
  <2>2. db[record[p].config].emergency \in BOOLEAN
    BY <1>a, <2>1 DEF Row
  <2>3. \A b \in BOOLEAN : [proc[p] EXCEPT !.isEmergencyStop = b].state = proc[p].state
    BY FieldTypes
  <2>. QED
    BY <1>18, <1>19, <2>2, <2>3, FieldTypes DEF ReloadConfig, getConfigById, Types, TypeOK
<1>20. ASSUME NEW p \in Procs, DisableEmergencyStop(p) PROVE Types'
  <2>1. db' \in Seq(Row) /\ Len(db') = Len(db) /\ DOMAIN db' = DOMAIN db
    BY <1>20, <1>a, FlagsCleared DEF DisableEmergencyStop
  <2>2. [proc[p] EXCEPT !.isEmergencyStop = FALSE] \in Child
        /\ [proc[p] EXCEPT !.isEmergencyStop = FALSE].state = proc[p].state
    BY FieldTypes
  <2>3. calls' \in 0..MaxCalls
    BY <1>20 DEF DisableEmergencyStop, Types, TypeOK
  <2>. QED
    BY <1>20, <2>1, <2>2, <2>3, ChildStepTypes DEF DisableEmergencyStop
<1>21. ASSUME NEW p \in Procs, StopWorker(p) PROVE Types'
  <2>1. [proc[p] EXCEPT !.state = "stopping"] \in Child /\ [proc[p] EXCEPT !.state = "stopping"].state = "stopping"
    BY FieldTypes
  <2>. QED
    BY <1>18, <1>21, <2>1 DEF StopWorker, Types, TypeOK
<1>22. ASSUME NEW p \in Procs, NEW code \in {"zero", "failure", "signal"}, calls' \in 0..MaxCalls,
              proc[p].state # "free", proc' = [proc EXCEPT ![p].state = "exited", ![p].code = code],
              UNCHANGED <<host, db, records, record, starting, launched, raced>>
       PROVE  Types'
  <2>. DEFINE x == [proc[p] EXCEPT !.state = "exited", !.code = code]
  <2>1. x \in Child /\ x.state = "exited"
    BY FieldTypes
  <2>2. proc' = [proc EXCEPT ![p] = x]
    BY <1>22 DEF Types, TypeOK
  <2>. HIDE DEF x
  <2>. QED
    BY <1>18, <1>22, <2>1, <2>2
<1>23. ASSUME NEW p \in Procs, WorkerExits(p) PROVE Types'
  BY <1>22, <1>23 DEF WorkerExits, Types, TypeOK
<1>24. ASSUME NEW p \in Procs, WorkerFails(p) PROVE Types'
  BY <1>22, <1>24, <1>b DEF WorkerFails, Alive
<1>. QED
  BY <1>1, <1>3, <1>5, <1>6, <1>7, <1>8, <1>9, <1>11, <1>12, <1>13, <1>14, <1>15, <1>16, <1>17, <1>19, <1>20,
     <1>21, <1>23, <1>24 DEF Next

-----------------------------------------------------------------------------
(* What the manager keeps track of.                                        *)

\* A step that moves no process in or out of the manager's sight.
Unnoticed ==
    /\ UNCHANGED <<host, records, launched, raced>>
    /\ \A p \in Procs : /\ record'[p].config = record[p].config
                        /\ record'[p].relaunch = record[p].relaunch
                        /\ record'[p].restartAttempts = record[p].restartAttempts
                        /\ proc'[p].connected = proc[p].connected
                        /\ proc'[p].state \in {"free", "reaped"} <=> proc[p].state \in {"free", "reaped"}
                        /\ proc[p].state = "reaped" => proc'[p].state = "reaped"

LEMMA UnnoticedStep ==
    ASSUME Types, Tracking, Unnoticed
    PROVE  Tracking'
<1>1. \A c \in Configs : records[c] # 0 => records[c] \in Procs
  BY Bounds DEF Types, TypeOK, Procs
<1>2. MapOK'
  BY <1>1 DEF Unnoticed, Tracking, MapOK
<1>3. \A p \in Procs : RelaunchOK(p)' /\ ChannelOK(p)' /\ TrackedOK(p)'
  BY DEF Unnoticed, Tracking, RelaunchOK, ChannelOK, TrackedOK
<1>. QED
  BY <1>2, <1>3 DEF Tracking

\* A launch for configuration c: nothing of that configuration is connected or due any
\* more, or the race is on record.
LEMMA LaunchTracked ==
    ASSUME Types, Tracking, host # "down", NEW c \in DOMAIN db, NEW row, NEW attempts,
           NEW old \in [Procs -> WorkerRecord],
           \A q \in Procs : /\ old[q].config = record[q].config /\ old[q].restartAttempts = record[q].restartAttempts
                            /\ old[q].relaunch => record[q].relaunch,
           \A q \in Procs : record[q].config = c /\ (proc[q].connected \/ old[q].relaunch) => c \in raced',
           launched < MaxProcs, launched' = launched + 1,
           record' = [old EXCEPT ![launched + 1] = Launched(c, row, attempts)],
           proc' = [proc EXCEPT ![launched + 1] = Forked],
           records' = [records EXCEPT ![c] = launched + 1],
           raced \subseteq raced', UNCHANGED host
    PROVE  Tracking'
<1>. DEFINE n == launched + 1
<1>1. n \in Procs /\ n # 0 /\ c \in Configs /\ (\A d \in Configs : records[d] # n /\ (records[d] # 0 => records[d] \in Procs))
  BY Bounds DEF Types, TypeOK, Procs, Configs
<1>2. /\ record'[n].config = c /\ ~record'[n].relaunch
      /\ proc'[n].state = "starting" /\ proc'[n].connected
  BY <1>1 DEF Types, TypeOK, Launched, Forked, NoChild
<1>3. \A q \in Procs : q # n => record'[q] = old[q] /\ proc'[q] = proc[q]
  BY <1>1 DEF Types, TypeOK
<1>4. records'[c] = n /\ \A d \in Configs : d # c => records'[d] = records[d]
  BY <1>1 DEF Types, TypeOK
<1>. HIDE DEF n
<1>5. MapOK'
  <2>1. ASSUME NEW d \in Configs, records'[d] # 0 PROVE record'[records'[d]].config = d
    <3>1. CASE d = c
      BY <1>2, <1>4, <3>1
    <3>2. CASE d # c
      BY <1>1, <1>3, <1>4, <2>1, <3>2 DEF Tracking, MapOK
    <3>. QED
      BY <3>1, <3>2
  <2>. QED
    BY <2>1 DEF MapOK
<1>6. ASSUME NEW p \in Procs PROVE RelaunchOK(p)' /\ ChannelOK(p)' /\ TrackedOK(p)'
  <2>1. CASE p = n
    BY <1>2, <1>4, <2>1 DEF RelaunchOK, ChannelOK, TrackedOK
  <2>2. CASE p # n
    <3>1. /\ record'[p].config = record[p].config /\ record'[p].restartAttempts = record[p].restartAttempts
          /\ record'[p].relaunch = old[p].relaunch /\ proc'[p] = proc[p]
          /\ old[p].relaunch => record[p].relaunch
      BY <1>3, <2>2
    <3>2. RelaunchOK(p)' /\ ChannelOK(p)'
      BY <3>1 DEF Tracking, RelaunchOK, ChannelOK
    <3>3. CASE record[p].config = c
      BY <3>1, <3>2, <3>3 DEF TrackedOK
    <3>4. CASE record[p].config # c
      <4>1. ASSUME proc[p].connected \/ record[p].relaunch PROVE record[p].config \in Configs
        <5>1. proc[p].state # "free"
          BY <4>1 DEF Tracking, ChannelOK, RelaunchOK
        <5>. QED
          BY <5>1, Bounds DEF Types, TypeOK, Configs
      <4>. QED
        BY <1>4, <3>1, <3>2, <3>4, <4>1 DEF Tracking, TrackedOK
    <3>. QED
      BY <3>2, <3>3, <3>4
  <2>. QED
    BY <2>1, <2>2
<1>. QED
  BY <1>5, <1>6 DEF Tracking

LEMMA TrackingStep ==
    ASSUME Types, Tracking, Next
    PROVE  Tracking'
<1>. USE Bounds
<1>a. \A p \in Procs : record[p] \in WorkerRecord /\ proc[p] \in Child
  BY DEF Types, TypeOK
<1>b. \A c \in Configs : records[c] # 0 => records[c] \in Procs
  BY DEF Types, TypeOK, Procs
<1>1. ASSUME Boot PROVE Tracking'
  <2>1. /\ \A c \in AutoStarted : NumberOf(c) \in (launched + 1)..(launched + Cardinality(AutoStarted))
        /\ \A c, d \in AutoStarted : NumberOf(c) = NumberOf(d) => c = d
        /\ Cardinality(AutoStarted) \in Nat /\ launched \in Nat
    BY BootNumbers DEF Types, TypeOK
  <2>2. AutoStarted \subseteq Configs
    BY DEF AutoStarted, Types, TypeOK, Configs
  <2>3. \A c \in AutoStarted : NumberOf(c) \in Procs /\ NumberOf(c) # 0
    BY <1>1, <2>1 DEF Boot, Procs
  <2>4. \A p \in Procs : ~proc[p].connected /\ ~record[p].relaunch
    BY <1>1 DEF Boot, Tracking, ChannelOK
  <2>5. ASSUME NEW p \in Procs, NEW c \in AutoStarted, NumberOf(c) = p
        PROVE  proc'[p] = Forked /\ record'[p] = Launched(c, db[c], 0)
    <3>1. (CHOOSE d \in AutoStarted : NumberOf(d) = p) = c
      BY <2>1, <2>5
    <3>. QED
      BY <1>1, <2>5, <3>1 DEF Boot, getConfig
  <2>6. ASSUME NEW p \in Procs, \A c \in AutoStarted : NumberOf(c) # p
        PROVE  proc'[p] = proc[p] /\ record'[p] = record[p]
    BY <1>1, <2>6 DEF Boot
  <2>7. \A c \in Configs : records'[c] = IF c \in AutoStarted THEN NumberOf(c) ELSE 0
    BY <1>1 DEF Boot
  <2>8. \A c : Launched(c, db[c], 0).config = c /\ ~Launched(c, db[c], 0).relaunch
    BY DEF Launched
  <2>9. Forked.state = "starting" /\ Forked.connected
    BY DEF Forked, NoChild
  <2>10. MapOK'
    BY <2>3, <2>5, <2>7, <2>8 DEF MapOK
  <2>11. host' = "up"
    BY <1>1 DEF Boot
  <2>12. ASSUME NEW p \in Procs PROVE RelaunchOK(p)' /\ ChannelOK(p)' /\ TrackedOK(p)'
    <3>1. CASE \E c \in AutoStarted : NumberOf(c) = p
      <4>1. PICK c \in AutoStarted : NumberOf(c) = p
        BY <3>1
      <4>2. proc'[p] = Forked /\ record'[p].config = c /\ ~record'[p].relaunch /\ records'[c] = p
        BY <2>2, <2>5, <2>7, <2>8, <4>1
      <4>. QED
        BY <2>9, <2>11, <4>2 DEF RelaunchOK, ChannelOK, TrackedOK
    <3>2. CASE \A c \in AutoStarted : NumberOf(c) # p
      BY <2>4, <2>6, <2>11, <3>2 DEF RelaunchOK, ChannelOK, TrackedOK
    <3>. QED
      BY <3>1, <3>2
  <2>. QED
    BY <2>10, <2>12 DEF Tracking
<1>2. ASSUME NEW S, stop(S), UNCHANGED <<records, launched, raced>>, host # "down", host' # "down" PROVE Tracking'
  <2>1. \A r \in WorkerRecord : LET s == [r EXCEPT !.desiredRunning = FALSE, !.kill = TRUE]
                                IN s.config = r.config /\ s.relaunch = r.relaunch /\ s.restartAttempts = r.restartAttempts
    BY DEF WorkerRecord
  <2>2. \A x \in Child : LET y == [x EXCEPT !.asked = TRUE] IN y.connected = x.connected /\ y.state = x.state
    BY DEF Child
  <2>3. \A p \in Procs : /\ record'[p].config = record[p].config /\ record'[p].relaunch = record[p].relaunch
                         /\ record'[p].restartAttempts = record[p].restartAttempts
                         /\ proc'[p].connected = proc[p].connected /\ proc'[p].state = proc[p].state
    BY <1>2, <1>a, <2>1, <2>2 DEF stop
  <2>4. MapOK'
    BY <1>2, <1>b, <2>3 DEF Tracking, MapOK
  <2>5. \A p \in Procs : RelaunchOK(p)' /\ ChannelOK(p)' /\ TrackedOK(p)'
    BY <1>2, <2>3 DEF Tracking, RelaunchOK, ChannelOK, TrackedOK
  <2>. QED
    BY <2>4, <2>5 DEF Tracking
<1>3. ASSUME Shutdown \/ \E c \in DOMAIN db : StopTrading(c) PROVE Tracking'
  BY <1>2, <1>3 DEF Shutdown, StopTrading
<1>4. ASSUME HostExit \/ HostCrash PROVE Tracking'
  <2>1. \A x \in Child : \A b : ~[x EXCEPT !.connected = FALSE].connected /\ ~[x EXCEPT !.connected = FALSE, !.asked = b].connected
    BY DEF Child
  <2>2. \A p \in Procs : ~proc'[p].connected
    BY <1>4, <1>a, <2>1 DEF HostExit, HostCrash
  <2>3. \A r \in WorkerRecord : ~[r EXCEPT !.relaunch = FALSE, !.kill = FALSE].relaunch
    BY DEF WorkerRecord
  <2>4. \A p \in Procs : ~record'[p].relaunch
    BY <1>4, <1>a, <2>3 DEF HostExit, HostCrash, Gone
  <2>5. MapOK'
    BY <1>4 DEF HostExit, HostCrash, Gone, MapOK
  <2>. QED
    BY <2>2, <2>4, <2>5 DEF Tracking, RelaunchOK, ChannelOK, TrackedOK
<1>5. ASSUME UNCHANGED <<host, records, record, proc, launched, raced>> PROVE Tracking'
  BY <1>5 DEF Tracking, MapOK, RelaunchOK, ChannelOK, TrackedOK
<1>6. CASE \/ \E auto \in BOOLEAN : CreateConfig(auto)
           \/ \E c \in DOMAIN db : \/ StartTrading(c) \/ EmergencyStop(c) \/ DisableAutostart(c)
                                   \/ \E auto \in BOOLEAN : UpdateConfig(c, auto)
  BY <1>5, <1>6 DEF CreateConfig, StartTrading, EmergencyStop, DisableAutostart, UpdateConfig
<1>7. ASSUME NEW r \in starting, StartTradingResumes(r) PROVE Tracking'
  <2>. DEFINE c == r.config
  <2>1. c \in DOMAIN db /\ c \in Configs
    BY DEF Types, TypeOK
  <2>2. CASE UNCHANGED <<records, record, proc, launched, raced>>
    BY <1>5, <1>7, <2>2 DEF StartTradingResumes
  <2>3. CASE /\ ~(records[c] # 0 /\ ExitCodeNull(records[c]))
             /\ launch(c, r.snapshot, 0)
             /\ raced' = raced \cup (IF RelaunchDue(c) THEN {c} ELSE {})
    <3>1. raced \subseteq raced' /\ (RelaunchDue(c) => c \in raced') /\ UNCHANGED host /\ host # "down"
      BY <1>7, <2>3 DEF StartTradingResumes
    <3>2. ASSUME NEW q \in Procs, record[q].config = c, proc[q].connected PROVE c \in raced
      <4>1. proc[q].state # "reaped" /\ (records[c] = q \/ c \in raced)
        BY <3>2 DEF Tracking, ChannelOK, TrackedOK
      <4>. QED
        BY <2>3, <4>1 DEF ExitCodeNull, Procs
    <3>3. \A q \in Procs : record[q].config = c /\ (proc[q].connected \/ record[q].relaunch) => c \in raced'
      BY <3>1, <3>2 DEF RelaunchDue
    <3>4. record \in [Procs -> WorkerRecord]
      BY DEF Types, TypeOK
    <3>. HIDE DEF c
    <3>. QED
      BY <2>1, <2>3, <3>1, <3>3, <3>4, LaunchTracked DEF launch
  <2>. QED
    BY <1>7, <2>2, <2>3 DEF StartTradingResumes, start
<1>8. ASSUME NEW p \in Procs, ExitEvent(p) PROVE Tracking'
  <2>. DEFINE c == record[p].config
              tracked == records[c] = p
              again == record[p].desiredRunning /\ proc[p].code # "zero" /\ record[p].restartAttempts < MaxRestarts
  <2>1. c \in Configs /\ ~record[p].relaunch
    BY <1>8 DEF ExitEvent, Types, TypeOK, Configs, Tracking, RelaunchOK
  <2>2. /\ proc'[p].state = "reaped" /\ ~proc'[p].connected
        /\ record'[p].config = c /\ record'[p].restartAttempts = record[p].restartAttempts
        /\ record'[p].relaunch <=> tracked /\ again
        /\ \A q \in Procs : q # p => record'[q] = record[q] /\ proc'[q] = proc[q]
    BY <1>8, <1>a DEF ExitEvent, Types, TypeOK, WorkerRecord, Child
  <2>3. records' = IF tracked /\ ~again THEN [records EXCEPT ![c] = 0] ELSE records
    BY <1>8 DEF ExitEvent
  <2>4. UNCHANGED <<host, raced>> /\ host # "down" /\ (again => record[p].restartAttempts < MaxRestarts)
    BY <1>8 DEF ExitEvent
  <2>. HIDE DEF c, again
  <2>5. \A d \in Configs : \/ records'[d] = records[d]
                           \/ d = c /\ records[d] = p /\ records'[d] = 0 /\ ~again
    BY <2>3 DEF Types, TypeOK
  <2>6. tracked /\ again => records' = records
    BY <2>3
  <2>7. MapOK'
    <3>1. ASSUME NEW d \in Configs, records'[d] # 0 PROVE record'[records'[d]].config = d
      <4>1. records'[d] = records[d] /\ records[d] \in Procs /\ record[records[d]].config = d
        BY <1>b, <2>5, <3>1 DEF Tracking, MapOK
      <4>. QED
        BY <2>2, <4>1 DEF c
    <3>. QED
      BY <3>1 DEF MapOK
  <2>8. RelaunchOK(p)' /\ ChannelOK(p)' /\ TrackedOK(p)'
    BY <2>1, <2>2, <2>4, <2>6 DEF RelaunchOK, ChannelOK, TrackedOK
  <2>9. ASSUME NEW q \in Procs, q # p PROVE RelaunchOK(q)' /\ ChannelOK(q)' /\ TrackedOK(q)'
    <3>1. record'[q] = record[q] /\ proc'[q] = proc[q]
      BY <2>2, <2>9
    <3>2. RelaunchOK(q)' /\ ChannelOK(q)'
      BY <2>4, <3>1 DEF Tracking, RelaunchOK, ChannelOK
    <3>3. ASSUME proc[q].connected \/ record[q].relaunch PROVE records'[record[q].config] = q \/ record[q].config \in raced
      <4>1. record[q].config \in Configs
        <5>1. proc[q].state # "free"
          BY <3>3 DEF Tracking, ChannelOK, RelaunchOK
        <5>. QED
          BY <5>1 DEF Types, TypeOK, Configs
      <4>2. records[record[q].config] = q \/ record[q].config \in raced
        BY <3>3 DEF Tracking, TrackedOK
      <4>. QED
        BY <2>5, <2>9, <4>1, <4>2
    <3>. QED
      BY <2>4, <3>1, <3>2, <3>3 DEF TrackedOK
  <2>. QED
    BY <2>7, <2>8, <2>9 DEF Tracking
<1>9. ASSUME NEW p \in Procs, RelaunchTimer(p) PROVE Tracking'
  <2>. DEFINE c == record[p].config
              old == [record EXCEPT ![p] = [record[p] EXCEPT !.relaunch = FALSE]]
  <2>1. /\ record[p].relaunch /\ proc[p].state = "reaped" /\ ~proc[p].connected
        /\ host # "down" /\ c \in DOMAIN db
    BY <1>9 DEF RelaunchTimer, Tracking, RelaunchOK, ChannelOK, Types
  <2>2. /\ [record[p] EXCEPT !.relaunch = FALSE] \in WorkerRecord
        /\ [record[p] EXCEPT !.relaunch = FALSE].config = c /\ ~[record[p] EXCEPT !.relaunch = FALSE].relaunch
        /\ [record[p] EXCEPT !.relaunch = FALSE].restartAttempts = record[p].restartAttempts
    BY <1>a DEF WorkerRecord
  <2>3. /\ old \in [Procs -> WorkerRecord] /\ old[p].config = c /\ ~old[p].relaunch
        /\ old[p].restartAttempts = record[p].restartAttempts
        /\ \A q \in Procs : q # p => old[q] = record[q]
    BY <2>2 DEF Types, TypeOK
  <2>4. /\ UNCHANGED <<host, raced>>
        /\ \/ record' = old /\ UNCHANGED <<records, proc, launched>>
           \/ /\ launched < MaxProcs /\ launched' = launched + 1
              /\ record' = [old EXCEPT ![launched + 1] = Launched(c, record[p].snapshot, record[p].restartAttempts + 1)]
              /\ proc' = [proc EXCEPT ![launched + 1] = Forked]
              /\ records' = [records EXCEPT ![c] = launched + 1]
    BY <1>9 DEF RelaunchTimer
  <2>. HIDE DEF old
  <2>5. ASSUME NEW q \in Procs, record[q].config = c, proc[q].connected \/ old[q].relaunch PROVE c \in raced
    <3>1. q # p /\ old[q] = record[q]
      BY <2>1, <2>3, <2>5
    <3>2. records[c] = q \/ c \in raced
      BY <2>5, <3>1 DEF Tracking, TrackedOK
    <3>3. records[c] = p \/ c \in raced
      BY <2>1 DEF Tracking, TrackedOK
    <3>. QED
      BY <3>1, <3>2, <3>3
  <2>6. CASE record' = old /\ UNCHANGED <<records, proc, launched>>
    <3>1. MapOK'
      BY <1>b, <2>3, <2>6 DEF Tracking, MapOK
    <3>2. \A q \in Procs : RelaunchOK(q)' /\ ChannelOK(q)' /\ TrackedOK(q)'
      BY <2>1, <2>3, <2>4, <2>6 DEF Tracking, RelaunchOK, ChannelOK, TrackedOK
    <3>. QED
      BY <3>1, <3>2 DEF Tracking
  <2>7. CASE /\ launched < MaxProcs /\ launched' = launched + 1
             /\ record' = [old EXCEPT ![launched + 1] = Launched(c, record[p].snapshot, record[p].restartAttempts + 1)]
             /\ proc' = [proc EXCEPT ![launched + 1] = Forked]
             /\ records' = [records EXCEPT ![c] = launched + 1]
    <3>1. \A q \in Procs : /\ old[q].config = record[q].config /\ old[q].restartAttempts = record[q].restartAttempts
                           /\ old[q].relaunch => record[q].relaunch
      BY <2>3
    <3>2. \A q \in Procs : record[q].config = c /\ (proc[q].connected \/ old[q].relaunch) => c \in raced'
      BY <2>4, <2>5
    <3>3. raced \subseteq raced' /\ UNCHANGED host /\ old \in [Procs -> WorkerRecord]
      BY <2>3, <2>4
    <3>4. \E row, attempts : record' = [old EXCEPT ![launched + 1] = Launched(c, row, attempts)]
      BY <2>7
    <3>. HIDE DEF c
    <3>. QED
      BY <2>1, <2>7, <3>1, <3>2, <3>3, <3>4, LaunchTracked
  <2>. QED
    BY <2>4, <2>6, <2>7
<1>10. ASSUME NEW p \in Procs, KillTimer(p) PROVE Tracking'
  <2>1. /\ record'[p].config = record[p].config /\ record'[p].relaunch = record[p].relaunch
        /\ record'[p].restartAttempts = record[p].restartAttempts
        /\ \A q \in Procs : q # p => record'[q] = record[q] /\ proc'[q] = proc[q]
    BY <1>10, <1>a DEF KillTimer, Types, TypeOK, WorkerRecord
  <2>2. proc'[p].connected = proc[p].connected /\ proc'[p].state = proc[p].state
    BY <1>10, <1>a DEF KillTimer, Types, TypeOK, Child
  <2>3. Unnoticed
    BY <1>10, <2>1, <2>2 DEF KillTimer, Unnoticed
  <2>. QED
    BY <2>3, UnnoticedStep
<1>11. ASSUME NEW p \in Procs,
              \/ SyncRuntimeConfig(p) \/ ReloadConfig(p) \/ DisableEmergencyStop(p)
              \/ StopWorker(p) \/ WorkerExits(p) \/ WorkerFails(p)
       PROVE Tracking'
  <2>1. \A q \in Procs : q # p => proc'[q] = proc[q]
    BY <1>11 DEF SyncRuntimeConfig, ReloadConfig, DisableEmergencyStop, StopWorker, WorkerExits, WorkerFails, Types, TypeOK
  <2>2. proc'[p].connected = proc[p].connected
    BY <1>11, <1>a DEF SyncRuntimeConfig, ReloadConfig, DisableEmergencyStop, StopWorker, WorkerExits, WorkerFails,
                       Types, TypeOK, Child
  <2>3. proc[p].state \notin {"free", "reaped"} /\ proc'[p].state \notin {"free", "reaped"}
    BY <1>11, <1>a DEF SyncRuntimeConfig, ReloadConfig, DisableEmergencyStop, StopWorker, WorkerExits, WorkerFails,
                       Alive, Types, TypeOK, Child
  <2>4. UNCHANGED <<host, records, record, launched, raced>>
    BY <1>11 DEF SyncRuntimeConfig, ReloadConfig, DisableEmergencyStop, StopWorker, WorkerExits, WorkerFails
  <2>5. Unnoticed
    BY <2>1, <2>2, <2>3, <2>4 DEF Unnoticed
  <2>. QED
    BY <2>5, UnnoticedStep
<1>. QED
  BY <1>1, <1>3, <1>4, <1>6, <1>7, <1>8, <1>9, <1>10, <1>11 DEF Next

-----------------------------------------------------------------------------
(* The theorems.                                                           *)

LEMMA DInvInit == Init => DInv
<1>. SUFFICES ASSUME Init PROVE DInv
  OBVIOUS
<1>1. db \in Seq(Row) /\ Len(db) <= MaxConfigs
  <2>1. PICK n \in 0..MaxConfigs : db \in [1..n -> {[NewRow EXCEPT !.autoStart = auto] : auto \in BOOLEAN}]
    BY DEF Init
  <2>2. \A auto \in BOOLEAN : [NewRow EXCEPT !.autoStart = auto] \in Row
    BY DEF NewRow, Row
  <2>3. db \in [1..n -> Row] /\ n \in Nat
    BY <2>1, <2>2, Bounds
  <2>4. db \in Seq(Row) /\ Len(db) = n
    BY <2>3
  <2>. QED
    BY <2>1, <2>4, Bounds
<1>2. NewRow \in Row
  BY DEF NewRow, Row
<1>3. NoRecord \in WorkerRecord /\ ~NoRecord.relaunch
  BY <1>2, Bounds DEF NoRecord, WorkerRecord
<1>4. NoChild \in Child /\ NoChild.state = "free" /\ ~NoChild.connected
  BY DEF NoChild, Child
<1>5. Types
  BY <1>1, <1>3, <1>4, Bounds DEF Init, Types, TypeOK
<1>6. Tracking
  BY <1>3, <1>4 DEF Init, Tracking, MapOK, RelaunchOK, ChannelOK, TrackedOK
<1>. QED
  BY <1>5, <1>6 DEF DInv

LEMMA DInvStep == DInv /\ [Next]_vars => DInv'
<1>. SUFFICES ASSUME DInv, [Next]_vars PROVE DInv'
  OBVIOUS
<1>1. CASE UNCHANGED vars
  BY <1>1 DEF vars, DInv, Types, TypeOK, Tracking, MapOK, RelaunchOK, ChannelOK, TrackedOK
<1>2. CASE Next
  BY <1>2, TypesStep, TrackingStep DEF DInv, Tracking
<1>. QED
  BY <1>1, <1>2

\* Every variable keeps its type: no record counts more than MAX_RESTART_ATTEMPTS
\* relaunches, and every number in the manager's map is that of a launched process.
THEOREM DesktopTypes == Spec => []TypeOK
<1>1. DInv => TypeOK
  BY DEF DInv, Types
<1>. QED
  BY <1>1, DInvInit, DInvStep, PTL DEF Spec

\* Two children with an open channel never trade with one configuration, unless a start
\* fell into the delay before a relaunch of that configuration.
THEOREM OneTraderPerConfig == Spec => []LoneTrader
<1>1. DInv => LoneTrader
  BY DEF DInv, Tracking, TrackedOK, LoneTrader
<1>. QED
  BY <1>1, DInvInit, DInvStep, PTL DEF Spec

=============================================================================
