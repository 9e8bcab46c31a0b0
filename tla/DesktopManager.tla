--------------------------- MODULE DesktopManager ---------------------------
(***************************************************************************)
(* The desktop server: TradingWorkerManager forks one trading process per  *)
(* configuration, relaunches it when it fails and stops it; the routes of  *)
(* index.ts and config.router.ts; the trade_config table all processes     *)
(* share; and how a child process reacts.  What a child does to orders is  *)
(* TradeSession.                                                           *)
(*                                                                         *)
(* A launch creates a process and its WorkerRecord together, so a record   *)
(* has the number of its process.  Timers belong to the record they close  *)
(* over.  The operating system is external: it ends processes and delivers *)
(* the exit event later.                                                   *)
(***************************************************************************)
EXTENDS Naturals, Sequences, FiniteSets

CONSTANTS
    MaxRestarts,  \* MAX_RESTART_ATTEMPTS
    MaxConfigs, MaxProcs, MaxCalls  \* bounds: configurations, processes, requests

ASSUME DesktopAssumption ==
    {MaxRestarts, MaxConfigs, MaxProcs, MaxCalls} \subseteq Nat

VARIABLES
    host,      \* the server process
    db,        \* trade_config: the rows by id, which AUTOINCREMENT hands out
    records,   \* the manager's map: configuration -> number of its record, or 0
    record,    \* every WorkerRecord that was created, with its timers
    proc,      \* every child process
    starting,  \* requests of /startTrading between getConfig and start
    launched,  \* number of processes so far
    calls,     \* how many requests, failures and restarts of the server there were
    raced      \* history: configurations started while a relaunch was due

vars == <<host, db, records, record, proc, starting, launched, calls, raced>>

Procs == 1..MaxProcs
Configs == 1..MaxConfigs
Row == [emergency : BOOLEAN, autoStart : BOOLEAN, stopTrading : BOOLEAN, settings : Nat]
WorkerRecord == [config : Configs \cup {0}, snapshot : Row, desiredRunning : BOOLEAN,
                 restartAttempts : 0..MaxRestarts, relaunch : BOOLEAN, kill : BOOLEAN]
\* asked: the stop message is on its way; connected: the IPC channel is open;
\* isEmergencyStop: the flag in the configuration the child has loaded.
Child == [state : {"free", "starting", "running", "stopping", "exited", "reaped"},
          code : {"none", "zero", "failure", "signal"}, asked : BOOLEAN, sigterm : BOOLEAN,
          connected : BOOLEAN, isEmergencyStop : BOOLEAN]

NewRow == [emergency |-> FALSE, autoStart |-> FALSE, stopTrading |-> FALSE, settings |-> 0]
NoRecord == [config |-> 0, snapshot |-> NewRow, desiredRunning |-> FALSE, restartAttempts |-> 0,
             relaunch |-> FALSE, kill |-> FALSE]
NoChild == [state |-> "free", code |-> "none", asked |-> FALSE, sigterm |-> FALSE,
            connected |-> FALSE, isEmergencyStop |-> FALSE]
Forked == [NoChild EXCEPT !.state = "starting", !.connected = TRUE]

Counted == calls < MaxCalls /\ calls' = calls + 1
Alive(p) == proc[p].state \in {"starting", "running", "stopping"}
\* child.exitCode === null: it runs, its exit is not known yet, or a signal ended it.
ExitCodeNull(p) == proc[p].state # "reaped" \/ proc[p].code = "signal"

-----------------------------------------------------------------------------
(* ConfigRepository: one statement each.                                   *)

getConfig(c) == db[c]
getConfigById(c) == db[c]
createConfig(row) == db' = Append(db, row)
updateConfig(c, row) == db' = [db EXCEPT ![c] = row]
enableEmergencyStop(c) == db' = [db EXCEPT ![c].emergency = TRUE]
\* Without a configuration id: every row that has the flag loses it.
disableEmergencyStop == db' = [c \in DOMAIN db |-> [db[c] EXCEPT !.emergency = FALSE]]
enableStopTrading(c) == db' = [db EXCEPT ![c].stopTrading = TRUE]
disableAutoStartTrading(c) == db' = [db EXCEPT ![c].autoStart = FALSE]

-----------------------------------------------------------------------------
(* TradingWorkerManager.                                                   *)

\* launch: the next process, for configuration c.
Launched(c, row, attempts) ==
    [config |-> c, snapshot |-> row, desiredRunning |-> TRUE, restartAttempts |-> attempts,
     relaunch |-> FALSE, kill |-> FALSE]
launch(c, row, attempts) ==
    /\ launched < MaxProcs
    /\ launched' = launched + 1
    /\ record' = [record EXCEPT ![launched + 1] = Launched(c, row, attempts)]
    /\ proc' = [proc EXCEPT ![launched + 1] = Forked]
    /\ records' = [records EXCEPT ![c] = launched + 1]

RelaunchDue(c) == \E p \in Procs : record[p].config = c /\ record[p].relaunch

startMutant(c, row) ==
    /\ launch(c, row, 0)
    /\ raced' = raced \cup (IF RelaunchDue(c) THEN {c} ELSE {})
start(c, row) ==
    IF records[c] # 0 /\ ExitCodeNull(records[c])
    THEN UNCHANGED <<records, record, proc, launched, raced>>
    ELSE /\ launch(c, row, 0)
         /\ raced' = raced \cup (IF RelaunchDue(c) THEN {c} ELSE {})

\* stop, for every record of S: the message goes out, SIGTERM follows five seconds later.
stop(S) ==
    /\ record' = [p \in Procs |-> IF p \in S THEN [record[p] EXCEPT !.desiredRunning = FALSE, !.kill = TRUE]
                                  ELSE record[p]]
    /\ proc' = [p \in Procs |-> IF p \in S /\ proc[p].connected THEN [proc[p] EXCEPT !.asked = TRUE]
                                ELSE proc[p]]

Tracked == {records[c] : c \in Configs} \ {0}

KillTimer(p) ==
    /\ record[p].kill
    /\ record' = [record EXCEPT ![p].kill = FALSE]
    /\ proc' = IF Alive(p) THEN [proc EXCEPT ![p].sigterm = TRUE] ELSE proc
    /\ UNCHANGED <<host, db, records, starting, launched, calls, raced>>

\* The exit listener.  A record that was replaced in the map is ignored.
ExitEventMutant(p) ==
    /\ host # "down"
    /\ proc[p].state = "exited" /\ proc[p].connected
    /\ proc' = [proc EXCEPT ![p].state = "reaped", ![p].connected = FALSE]
    /\ LET again == record[p].desiredRunning /\ proc[p].code # "zero" /\ record[p].restartAttempts <= MaxRestarts
       IN /\ record' = [record EXCEPT ![p].relaunch = again]
          /\ records' = [c \in Configs |-> IF records[c] = p /\ ~again THEN 0 ELSE records[c]]
    /\ UNCHANGED <<host, db, starting, launched, calls, raced>>
ExitEvent(p) ==
    /\ host # "down"
    /\ proc[p].state = "exited" /\ proc[p].connected
    /\ proc' = [proc EXCEPT ![p].state = "reaped", ![p].connected = FALSE]
    /\ LET tracked == records[record[p].config] = p
           again   == /\ record[p].desiredRunning /\ proc[p].code # "zero"
                      /\ record[p].restartAttempts < MaxRestarts
       IN /\ record' = [record EXCEPT ![p].relaunch = tracked /\ again]
          /\ records' = IF tracked /\ ~again THEN [records EXCEPT ![record[p].config] = 0] ELSE records
    /\ UNCHANGED <<host, db, starting, launched, calls, raced>>

\* The relaunch uses the configuration of the record, as it was when start was called.
RelaunchTimer(p) ==
    /\ record[p].relaunch
    /\ \/ /\ record[p].desiredRunning
          /\ launched < MaxProcs
          /\ launched' = launched + 1
          /\ LET c == record[p].config
             IN /\ record' = [record EXCEPT ![p].relaunch = FALSE,
                                            ![launched + 1] = Launched(c, record[p].snapshot, record[p].restartAttempts + 1)]
                /\ records' = [records EXCEPT ![c] = launched + 1]
          /\ proc' = [proc EXCEPT ![launched + 1] = Forked]
       \/ /\ ~record[p].desiredRunning
          /\ record' = [record EXCEPT ![p].relaunch = FALSE]
          /\ UNCHANGED <<records, proc, launched>>
    /\ UNCHANGED <<host, db, starting, calls, raced>>

-----------------------------------------------------------------------------
(* The server and its routes.                                              *)

\* main: configurations marked for it are started before the server listens.
AutoStarted == {c \in DOMAIN db : db[c].autoStart}
NumberOf(c) == launched + Cardinality({d \in AutoStarted : d <= c})
Boot ==
    /\ Counted
    /\ host = "down"
    /\ launched + Cardinality(AutoStarted) <= MaxProcs
    /\ host' = "up"
    /\ launched' = launched + Cardinality(AutoStarted)
    /\ records' = [c \in Configs |-> IF c \in AutoStarted THEN NumberOf(c) ELSE 0]
    /\ record' = [p \in Procs |-> IF \E c \in AutoStarted : NumberOf(c) = p
                                  THEN LET c == CHOOSE d \in AutoStarted : NumberOf(d) = p IN Launched(c, getConfig(c), 0)
                                  ELSE record[p]]
    /\ proc' = [p \in Procs |-> IF \E c \in AutoStarted : NumberOf(c) = p THEN Forked ELSE proc[p]]
    /\ UNCHANGED <<db, starting, raced>>

\* /startTrading reads the configuration, then starts with what it has read.
StartTrading(c) ==
    /\ Counted
    /\ host = "up"
    /\ \A r \in starting : r.config # c
    /\ starting' = starting \cup {[config |-> c, snapshot |-> getConfig(c)]}
    /\ UNCHANGED <<host, db, records, record, proc, launched, raced>>

StartTradingResumes(r) ==
    /\ host # "down"
    /\ starting' = starting \ {r}
    /\ start(r.config, r.snapshot)
    /\ UNCHANGED <<host, db, calls>>

StopTrading(c) ==
    /\ Counted
    /\ host = "up"
    /\ enableStopTrading(c)
    /\ stop({records[c]} \ {0})
    /\ UNCHANGED <<host, records, starting, launched, raced>>

EmergencyStop(c) ==
    /\ Counted
    /\ host = "up"
    /\ enableEmergencyStop(c)
    /\ UNCHANGED <<host, records, record, proc, starting, launched, raced>>

DisableAutostart(c) ==
    /\ Counted
    /\ host = "up" /\ db[c].autoStart
    /\ disableAutoStartTrading(c)
    /\ UNCHANGED <<host, records, record, proc, starting, launched, raced>>

CreateConfig(auto) ==
    /\ Counted
    /\ host = "up"
    /\ Len(db) < MaxConfigs
    /\ createConfig([NewRow EXCEPT !.autoStart = auto])
    /\ UNCHANGED <<host, records, record, proc, starting, launched, raced>>

\* New settings, the autostart flag among them.
UpdateConfig(c, auto) ==
    /\ Counted
    /\ host = "up"
    /\ updateConfig(c, [db[c] EXCEPT !.settings = @ + 1, !.autoStart = auto])
    /\ UNCHANGED <<host, records, record, proc, starting, launched, raced>>

\* SIGTERM or SIGINT.
Shutdown ==
    /\ Counted
    /\ host = "up"
    /\ host' = "stopping"
    /\ stop(Tracked)
    /\ UNCHANGED <<db, records, starting, launched, raced>>

\* Every timer, record and pending request goes with the server; the channels close.
Gone ==
    /\ host' = "down"
    /\ records' = [c \in Configs |-> 0]
    /\ record' = [p \in Procs |-> [record[p] EXCEPT !.relaunch = FALSE, !.kill = FALSE]]
    /\ starting' = {}
    /\ UNCHANGED <<db, launched, raced>>

\* process.exit after the connections are closed, or after seven seconds.
HostExit ==
    /\ host = "stopping"
    /\ Gone
    /\ proc' = [p \in Procs |-> [proc[p] EXCEPT !.connected = FALSE]]
    /\ UNCHANGED calls

\* An uncaught exception or rejection: shutdown() and exit at once, so that a stop message
\* may be lost; or the process is killed.
HostCrash ==
    /\ Counted
    /\ host # "down"
    /\ Gone
    /\ \E told \in SUBSET Tracked :
         proc' = [p \in Procs |-> [proc[p] EXCEPT !.connected = FALSE,
                                                  !.asked = @ \/ (p \in told /\ proc[p].connected)]]

-----------------------------------------------------------------------------
(* The child.                                                              *)

\* syncRuntimeConfig: the row exists, and is overwritten with what the child was given.
SyncRuntimeConfig(p) ==
    /\ proc[p].state = "starting"
    /\ updateConfig(record[p].config, record[p].snapshot)
    /\ proc' = [proc EXCEPT ![p].state = "running"]
    /\ UNCHANGED <<host, records, record, starting, launched, calls, raced>>

ReloadConfig(p) ==
    /\ proc[p].state = "running"
    /\ proc[p].isEmergencyStop # getConfigById(record[p].config).emergency
    /\ proc' = [proc EXCEPT ![p].isEmergencyStop = getConfigById(record[p].config).emergency]
    /\ UNCHANGED <<host, db, records, record, starting, launched, calls, raced>>

\* The loop honours the flag: it is cleared, then the position is closed.
DisableEmergencyStop(p) ==
    /\ proc[p].state = "running" /\ proc[p].isEmergencyStop
    /\ disableEmergencyStop
    /\ proc' = [proc EXCEPT ![p].isEmergencyStop = FALSE]
    /\ UNCHANGED <<host, records, record, starting, launched, calls, raced>>

\* stopWorker: on the stop message, SIGTERM or the end of the channel, once.
StopWorkerMutant(p) ==
    /\ proc[p].state \in {"starting", "running"}
    /\ proc[p].asked \/ proc[p].sigterm
    /\ proc' = [proc EXCEPT ![p].state = "stopping"]
    /\ UNCHANGED <<host, db, records, record, starting, launched, calls, raced>>
StopWorker(p) ==
    /\ proc[p].state \in {"starting", "running"}
    /\ proc[p].asked \/ proc[p].sigterm \/ ~proc[p].connected
    /\ proc' = [proc EXCEPT ![p].state = "stopping"]
    /\ UNCHANGED <<host, db, records, record, starting, launched, calls, raced>>

\* process.exit after closing and dispose, or after one of them has failed.
WorkerExits(p) ==
    /\ proc[p].state = "stopping"
    /\ \E code \in {"zero", "failure"} : proc' = [proc EXCEPT ![p].state = "exited", ![p].code = code]
    /\ UNCHANGED <<host, db, records, record, starting, launched, calls, raced>>

\* An error in the start or the loop, or a signal nobody handles.
WorkerFails(p) ==
    /\ Counted
    /\ \/ proc[p].state \in {"starting", "running"}
          /\ proc' = [proc EXCEPT ![p].state = "exited", ![p].code = "failure"]
       \/ Alive(p) /\ proc' = [proc EXCEPT ![p].state = "exited", ![p].code = "signal"]
    /\ UNCHANGED <<host, db, records, record, starting, launched, raced>>

-----------------------------------------------------------------------------
\* The server is about to start, with configurations of earlier runs.
Init ==
    /\ host = "down"
    /\ \E n \in 0..MaxConfigs : db \in [1..n -> {[NewRow EXCEPT !.autoStart = auto] : auto \in BOOLEAN}]
    /\ records = [c \in Configs |-> 0]
    /\ record = [p \in Procs |-> NoRecord]
    /\ proc = [p \in Procs |-> NoChild]
    /\ starting = {}
    /\ launched = 0
    /\ calls = 0
    /\ raced = {}

Next ==
    \/ Boot \/ Shutdown \/ HostExit \/ HostCrash
    \/ \E auto \in BOOLEAN : CreateConfig(auto)
    \/ \E c \in DOMAIN db : \/ StartTrading(c) \/ StopTrading(c) \/ EmergencyStop(c) \/ DisableAutostart(c)
                            \/ \E auto \in BOOLEAN : UpdateConfig(c, auto)
    \/ \E r \in starting : StartTradingResumes(r)
    \/ \E p \in Procs : \/ ExitEvent(p) \/ RelaunchTimer(p) \/ KillTimer(p)
                        \/ SyncRuntimeConfig(p) \/ ReloadConfig(p) \/ DisableEmergencyStop(p)
                        \/ StopWorker(p) \/ WorkerExits(p) \/ WorkerFails(p)

Spec == Init /\ [][Next]_vars

\* A child handles the events it gets, and its calls to the exchange end.
FairSpec == Spec /\ \A p \in Procs : WF_vars(StopWorker(p)) /\ WF_vars(WorkerExits(p))

-----------------------------------------------------------------------------
\* Every variable keeps its type; in particular a process is relaunched at most
\* MAX_RESTART_ATTEMPTS times in a row.
TypeOK ==
    /\ host \in {"down", "up", "stopping"}
    /\ db \in Seq(Row)
    /\ records \in [Configs -> 0..launched]
    /\ record \in [Procs -> WorkerRecord]
    /\ proc \in [Procs -> Child]
    /\ starting \subseteq [config : Configs, snapshot : Row]
    /\ launched \in 0..MaxProcs /\ calls \in 0..MaxCalls
    /\ raced \subseteq Configs

\* Two processes of one server never trade with the same configuration, through any order of
\* starts, stops, failures, exit events and relaunches: but for a start that falls into the
\* delay before a relaunch, after which both launch.
LoneTrader ==
    \A p, q \in Procs :
        /\ p # q
        /\ Alive(p) /\ proc[p].connected /\ Alive(q) /\ proc[q].connected
        /\ record[p].config = record[q].config
        => record[p].config \in raced

\* No trading process outlives its server for long: a child whose channel has closed ends,
\* one the manager has lost track of as well.
DiesWithHost == \A p \in Procs : (Alive(p) /\ ~proc[p].connected) ~> ~Alive(p)
=============================================================================
