--------------------------- MODULE BotSupervisor ---------------------------
(***************************************************************************)
(* The SaaS trading supervisor: worker replicas compete for a PostgreSQL   *)
(* advisory lock; the leader claims the commands the HTTP API queued,      *)
(* forks one trading process per bot, restarts the ones that fail, and     *)
(* suspends all of them when it is shut down.                              *)
(*                                                                         *)
(* Grain of atomicity.  A step is one awaited operation (a database        *)
(* transaction, a process event, a timer) together with the synchronous    *)
(* code that follows it up to the next await, since Node.js runs that code *)
(* without interruption.  A startBot that a restart timer began therefore  *)
(* interleaves with the leader's loop at every await.                      *)
(*                                                                         *)
(* Each element of Workers is one process incarnation: instanceId is a     *)
(* fresh random UUID at every start, so a replica that comes back is       *)
(* another element.                                                        *)
(***************************************************************************)
EXTENDS Naturals, Sequences, FiniteSets

CONSTANTS
    Workers,       \* worker replica incarnations (instanceId)
    Bots,          \* rows of trading_bots the API may create commands for
    Children,      \* operating system processes (reused like pids)
    Timers,        \* slots for outstanding restart timers of a worker (bound)
    Kinds,         \* the command kinds the API is asked for
    Faults,        \* the environment events that may happen
    MaxCommands,   \* bound: commands ever inserted in bot_commands
    RestartLimit,  \* automatic restarts in a row (3 in the code)
    Main,          \* the leader loop, as a caller of startBot
    None

CommandKinds == {"START", "STOP", "RESTART", "EMERGENCY_STOP", "DELETE"}
FaultKinds == {"childFailure", "stopTimeout", "crash", "shutdown", "lockLoss",
               "dbError", "disable", "trade"}

ASSUME ConstantsAssumption ==
    /\ Kinds \subseteq CommandKinds
    /\ Faults \subseteq FaultKinds
    /\ MaxCommands \in Nat
    /\ RestartLimit \in Nat
    /\ None \notin Workers \cup Bots \cup Children
    /\ Main \notin Timers

VARIABLES
    \* PostgreSQL
    bots,       \* trading_bots rows, with the enabled flag of their connection
    commands,   \* bot_commands in created_at order
    registry,   \* bot_sqlite_databases: "absent", "active", "deleted"
    lock,       \* session holding the leader advisory lock
    \* memory of each worker process
    pc,         \* where its main() is
    cur,        \* index of the command handleCommand works on, 0 if none
    waiting,    \* child whose exit stopBot awaits
    todo,       \* bots reconcile has still to start
    drain,      \* (bot, child) pairs suspendBot has not finished with
    stopping,   \* the stopping flag
    processes,  \* the processes map
    attempts,   \* restartAttempts, saturating at RestartLimit + 1
    resetTimer, \* restartResetTimers: the child whose stability it times
    tasks,      \* startBot activations: of the loop and of restart timers
    writes,     \* un-awaited UPDATEs in flight: (state, bot)
    \* operating system and exchange
    child,      \* trading processes
    dataDir,    \* directories of a bot under SAAS_BOT_DATA_DIR: its own, the one
                \* being deleted, one a failed delete left under its random name
    position    \* whether the bot holds a filled position on the exchange

dbVars == <<bots, commands, registry, lock>>
loopVars == <<pc, cur, waiting, todo, drain>>
memVars == <<stopping, processes, attempts, resetTimer, tasks, writes>>
osVars == <<child, dataDir, position>>
vars == <<dbVars, loopVars, memVars, osVars>>

(***************************************************************************)
(* Types.                                                                  *)
(***************************************************************************)
Tasks == Timers \cup {Main}
States == {"STARTING", "RUNNING", "STOPPING", "STOPPED", "FAILED"}
BotRow == [exists: BOOLEAN, enabled: BOOLEAN, desired: {"RUNNING", "STOPPED"},
           actual: States, owner: Workers \cup {None}]
Status == {"PENDING", "PROCESSING", "SUCCEEDED", "FAILED", "GONE"}
CommandRow == [bot: Bots, kind: CommandKinds, status: Status]
Locations == {"elect", "reconcile", "select", "restore", "poll", "begin",
              "stopWait", "unclean", "stopped", "starting", "deleting",
              "deleteRow", "deleteRm", "settle", "catch", "catchFail", "drain",
              "exited", "failed", "down"}
Task == [at: {"idle", "timer", "load", "register", "insert", "fork", "mark"}, bot: Bots \cup {None},
         child: Children \cup {None}]
Process == [st: {"unused", "booting", "running", "stopping", "dead"},
            owner: Workers \cup {None}, bot: Bots \cup {None},
            asked: SUBSET {"stop", "suspend"}, closing: BOOLEAN,
            code: {"none", "zero", "one", "signal"}, listening: BOOLEAN,
            reaped: BOOLEAN, msgs: SUBSET {"started", "error"}, knows: BOOLEAN]

NoTask == [at |-> "idle", bot |-> None, child |-> None]
NoProcess == [st |-> "unused", owner |-> None, bot |-> None, asked |-> {},
              closing |-> FALSE, code |-> "none", listening |-> FALSE,
              reaped |-> FALSE, msgs |-> {}, knows |-> FALSE]

TypeOK ==
    /\ bots \in [Bots -> BotRow]
    /\ commands \in Seq(CommandRow)
    /\ registry \in [Bots -> {"absent", "active", "deleted"}]
    /\ lock \in Workers \cup {None}
    /\ pc \in [Workers -> Locations]
    /\ cur \in [Workers -> Nat]
    /\ waiting \in [Workers -> Children \cup {None}]
    /\ todo \in [Workers -> SUBSET Bots]
    /\ drain \in [Workers -> SUBSET (Bots \X Children)]
    /\ stopping \in [Workers -> BOOLEAN]
    /\ processes \in [Workers -> [Bots -> Children \cup {None}]]
    /\ attempts \in [Workers -> [Bots -> Nat]]
    /\ resetTimer \in [Workers -> [Bots -> Children \cup {None}]]
    /\ tasks \in [Workers -> [Tasks -> Task]]
    /\ writes \in [Workers -> SUBSET ({"RUNNING", "FAILED"} \X Bots)]
    /\ child \in [Children -> Process]
    /\ dataDir \in [Bots -> SUBSET {"live", "staged", "orphan"}]
    /\ position \in [Bots -> BOOLEAN]

\* A fresh database and freshly started replicas: bots created by the API are
\* STOPPED, and every replica is about to try the advisory lock.
Init ==
    /\ bots = [b \in Bots |-> [exists |-> TRUE, enabled |-> TRUE,
                               desired |-> "STOPPED", actual |-> "STOPPED",
                               owner |-> None]]
    /\ commands = <<>>
    /\ registry = [b \in Bots |-> "absent"]
    /\ lock = None
    /\ pc = [w \in Workers |-> "elect"]
    /\ cur = [w \in Workers |-> 0]
    /\ waiting = [w \in Workers |-> None]
    /\ todo = [w \in Workers |-> {}]
    /\ drain = [w \in Workers |-> {}]
    /\ stopping = [w \in Workers |-> FALSE]
    /\ processes = [w \in Workers |-> [b \in Bots |-> None]]
    /\ attempts = [w \in Workers |-> [b \in Bots |-> 0]]
    /\ resetTimer = [w \in Workers |-> [b \in Bots |-> None]]
    /\ tasks = [w \in Workers |-> [t \in Tasks |-> NoTask]]
    /\ writes = [w \in Workers |-> {}]
    /\ child = [c \in Children |-> NoProcess]
    /\ dataDir = [b \in Bots |-> {}]
    /\ position = [b \in Bots |-> FALSE]

-----------------------------------------------------------------------------
(***************************************************************************)
(* Helpers.                                                                *)
(***************************************************************************)
Gone == {"exited", "failed", "down"}
Leading(w) == pc[w] \notin Gone \cup {"elect"}

\* One replica stays up and is not being shut down: the orchestrator replaces
\* replicas one at a time, and without a survivor nothing can be promised.
Survivor(w) == \E v \in Workers \ {w} : pc[v] \notin Gone /\ ~stopping[v]

\* child.exitCode === null: not reaped yet, or ended by a signal.
ExitCodeNull(c) == ~(child[c].reaped /\ child[c].code \in {"zero", "one"})

AlreadyRunningMutant(w, b) == FALSE
AlreadyRunning(w, b) == processes[w][b] # None /\ ExitCodeNull(processes[w][b])

StopLikeMutant(kind) == kind \in {"STOP", "DELETE"}
StopLike(kind) == kind \in {"STOP", "EMERGENCY_STOP", "DELETE"}
DesiredOfMutant(kind) == IF StopLike(kind) THEN "STOPPING" ELSE "STARTING"
DesiredOf(kind) == IF StopLike(kind) THEN "STOPPED" ELSE "RUNNING"
RequestedState(kind) == IF StopLike(kind) THEN "STOPPING" ELSE "STARTING"

StopMessageMutant(close) == "stop"
StopMessage(close) == IF close THEN "stop" ELSE "suspend"

Command(w) == commands[cur[w]]
CurBot(w) == Command(w).bot

\* UPDATE ... WHERE id=$1: nothing happens to a row that is gone.
SetRow(b, row) == [bots EXCEPT ![b] = IF @.exists THEN row ELSE @]

\* failBot: only the row this worker instance owns becomes FAILED.
FailRow(w, b) ==
    IF bots[b].owner = w THEN SetRow(b, [bots[b] EXCEPT !.actual = "FAILED"])
    ELSE bots

\* failBot catches its own database error, and after main ended the pool is
\* closed to it.
FailBot(w, b) ==
    \/ pc[w] # "exited" /\ bots' = FailRow(w, b)
    \/ ("dbError" \in Faults \/ pc[w] = "exited") /\ UNCHANGED bots

SetStatusMutant(i, s) ==
    [commands EXCEPT ![i].status = IF s = "FAILED" THEN "PENDING" ELSE s]
SetStatus(i, s) ==
    [commands EXCEPT ![i].status = IF @ = "GONE" THEN @ ELSE s]

\* registerSqliteDatabase: INSERT ... SELECT ... FROM trading_bots WHERE id=$1, seen
\* by the statement's snapshot.  The leader loop's own two calls are one step (only a
\* second leader could delete the row meanwhile); startBot's takes two.
Registered(b) == IF bots[b].exists THEN "active" ELSE registry[b]

At(w, loc) == pc' = [pc EXCEPT ![w] = loc]

\* A process just forked; one that got a request to end; one that ended, the
\* messages it managed to send still in the channel.
Forked(w, b) == [NoProcess EXCEPT !.st = "booting", !.owner = w, !.bot = b]
Asked(p, request) == [p EXCEPT !.asked = @ \cup {request}]
Ended(p, code, sent) == [p EXCEPT !.st = "dead", !.code = code, !.msgs = @ \cup sent]

\* A process this operating system may fork as c: an unused pid, or the pid of
\* a finished process nobody refers to any more.
Reusable(c) ==
    \/ child[c].st = "unused"
    \/ /\ child[c].st = "dead"
       /\ LET w == child[c].owner IN
          \/ pc[w] = "down"
          \/ /\ child[c].reaped /\ child[c].msgs = {}
             /\ waiting[w] # c
             /\ \A b \in Bots : /\ processes[w][b] # c /\ resetTimer[w][b] # c
                                /\ <<b, c>> \notin drain[w]
             /\ \A t \in Tasks : tasks[w][t].child # c

-----------------------------------------------------------------------------
(***************************************************************************)
(* The HTTP API (bots.router.ts).  Each request is one transaction that    *)
(* holds the row lock of the bot.  A replayed idempotency key inserts      *)
(* nothing and changes nothing, so it is a stuttering step.                *)
(***************************************************************************)
Enqueue(b, kind) ==
    /\ Len(commands) < MaxCommands
    /\ commands' = Append(commands, [bot |-> b, kind |-> kind, status |-> "PENDING"])
    /\ bots' = [bots EXCEPT ![b] = [@ EXCEPT !.desired = DesiredOf(kind),
                                             !.actual = RequestedState(kind)]]
    /\ UNCHANGED <<registry, lock, loopVars, memVars, osVars>>

PostCommand(b, kind) == kind # "DELETE" /\ bots[b].exists /\ Enqueue(b, kind)

\* DELETE /:id needs a stopped bot whose filled orders net to zero (the orders
\* table is taken to mirror the exchange here).
PostDelete(b) ==
    /\ "DELETE" \in Kinds
    /\ bots[b].exists
    /\ bots[b].actual \in {"STOPPED", "FAILED"}
    /\ ~position[b]
    /\ Enqueue(b, "DELETE")

\* PATCH of the exchange connection: no check that a bot is using it.
ToggleConnection(b) ==
    /\ "disable" \in Faults
    /\ bots' = [bots EXCEPT ![b] = [@ EXCEPT !.enabled = ~bots[b].enabled]]
    /\ UNCHANGED <<commands, registry, lock, loopVars, memVars, osVars>>

-----------------------------------------------------------------------------
(***************************************************************************)
(* startBot, called by the leader loop (task Main) and by restart timers.  *)
(***************************************************************************)
AfterStart(w) == IF cur[w] = 0 THEN "restore" ELSE "settle"

\* The loop calls startBot: it returns at once when a tracked process has no
\* exit code, else it awaits loadBot.
LoopStartsBot(w, b) ==
    IF AlreadyRunning(w, b)
    THEN At(w, AfterStart(w)) /\ UNCHANGED tasks
    ELSE /\ At(w, "starting")
         /\ tasks' = [tasks EXCEPT ![w][Main] = [at |-> "load", bot |-> b, child |-> None]]

\* startBot rejects.  The loop's caller catches: reconcile calls failBot and
\* goes on, handleCommand marks the command FAILED.  A timer calls failBot.
StartThrows(w, t) ==
    /\ tasks' = [tasks EXCEPT ![w][t] = NoTask]
    /\ IF t = Main /\ cur[w] # 0
       THEN At(w, "catch") /\ UNCHANGED bots
       ELSE /\ FailBot(w, tasks[w][t].bot)
            /\ pc' = IF t = Main THEN [pc EXCEPT ![w] = "restore"] ELSE pc

\* loadBot throws when the row is gone or the connection disabled.
Loadable(b) == bots[b].exists /\ bots[b].enabled

\* loadBot answers; then mkdir and writeFile prepare the data directory.
StartLoad(w, t) ==
    /\ tasks[w][t].at = "load"
    /\ LET b == tasks[w][t].bot IN
       IF Loadable(b)
       THEN /\ tasks' = [tasks EXCEPT ![w][t] = [@ EXCEPT !.at = "register"]]
            /\ dataDir' = [dataDir EXCEPT ![b] = @ \cup {"live"}]
            /\ UNCHANGED <<bots, pc>>
       ELSE StartThrows(w, t) /\ UNCHANGED dataDir
    /\ UNCHANGED <<commands, registry, lock, cur, waiting, todo, drain, stopping,
                   processes, attempts, resetTimer, writes, child, position>>

\* registerSqliteDatabase of startBot takes its snapshot: whether the SELECT finds the
\* row.  A deleteBot that has updated the registry entry and not committed yet is not
\* seen; the INSERT waits for that entry and then makes it active whatever became of
\* the row (READ COMMITTED, ON CONFLICT DO UPDATE, no foreign key).
StartRegister(w, t) ==
    /\ tasks[w][t].at = "register"
    /\ tasks' = [tasks EXCEPT ![w][t] =
                    [@ EXCEPT !.at = IF bots[tasks[w][t].bot].exists THEN "insert" ELSE "fork"]]
    /\ UNCHANGED <<dbVars, loopVars, stopping, processes, attempts, resetTimer, writes,
                   osVars>>

\* registerSqliteDatabase answers; fork, processes.set and the start message.
StartFork(w, t) ==
    /\ tasks[w][t].at \in {"insert", "fork"}
    /\ LET b == tasks[w][t].bot IN
       \E c \in Children :
         /\ Reusable(c)
         /\ child' = [child EXCEPT ![c] = Forked(w, b)]
         /\ processes' = [processes EXCEPT ![w][b] = c]
         /\ registry' = [registry EXCEPT ![b] = IF tasks[w][t].at = "insert" THEN "active" ELSE @]
         /\ tasks' = [tasks EXCEPT ![w][t] = [@ EXCEPT !.at = "mark", !.child = c]]
    /\ UNCHANGED <<bots, commands, lock, loopVars, stopping, attempts, resetTimer,
                   writes, dataDir, position>>

\* The row becomes STARTING and owned by this instance; only then are the
\* message and exit listeners attached.
StartMark(w, t) ==
    /\ tasks[w][t].at = "mark"
    /\ LET b == tasks[w][t].bot IN
       /\ bots' = SetRow(b, [bots[b] EXCEPT !.actual = "STARTING", !.owner = w])
       /\ child' = [child EXCEPT ![tasks[w][t].child] = [@ EXCEPT !.listening = TRUE]]
       /\ tasks' = [tasks EXCEPT ![w][t] = NoTask]
       /\ pc' = IF t = Main THEN [pc EXCEPT ![w] = AfterStart(w)] ELSE pc
    /\ UNCHANGED <<commands, registry, lock, cur, waiting, todo, drain, stopping,
                   processes, attempts, resetTimer, writes, dataDir, position>>

\* One of startBot's database calls fails, as each one made after main closed
\* the pool does.
StartError(w, t) ==
    /\ "dbError" \in Faults \/ pc[w] = "exited"
    /\ tasks[w][t].at \in {"load", "register", "insert", "fork", "mark"}
    /\ StartThrows(w, t)
    /\ UNCHANGED <<commands, registry, lock, cur, waiting, todo, drain, stopping,
                   processes, attempts, resetTimer, writes, osVars>>

\* A restart timer fires and reads desired_state; nothing ever cancels it.
TimerFires(w, t) ==
    /\ tasks[w][t].at = "timer"
    /\ LET b == tasks[w][t].bot IN
       tasks' = [tasks EXCEPT ![w][t] =
                   IF /\ ~stopping[w] /\ bots[b].exists /\ bots[b].desired = "RUNNING"
                      /\ ~AlreadyRunning(w, b)
                   THEN [@ EXCEPT !.at = "load"] ELSE NoTask]
    /\ UNCHANGED <<dbVars, loopVars, stopping, processes, attempts, resetTimer,
                   writes, osVars>>

-----------------------------------------------------------------------------
(***************************************************************************)
(* Leader election and reconciliation.                                     *)
(***************************************************************************)
LockFreeMutant == TRUE
LockFree == lock = None

\* pg_try_advisory_lock; a replica that does not get it tries again later.
Elect(w) ==
    /\ pc[w] = "elect" /\ ~stopping[w]
    /\ LockFree
    /\ lock' = w
    /\ At(w, "reconcile")
    /\ UNCHANGED <<bots, commands, registry, cur, waiting, todo, drain, memVars, osVars>>

\* registerExistingSqliteDatabases: the directories named after a bot.
RegisterExisting == [b \in Bots |-> IF "live" \in dataDir[b] THEN Registered(b)
                                    ELSE registry[b]]

\* registerExistingSqliteDatabases, then the UPDATE of reconcile.
Reconcile(w) ==
    /\ pc[w] = "reconcile"
    /\ registry' = RegisterExisting
    /\ bots' = [b \in Bots |->
                  IF bots[b].exists /\ bots[b].desired = "STOPPED"
                  THEN [bots[b] EXCEPT !.actual = "STOPPED", !.owner = None]
                  ELSE bots[b]]
    /\ At(w, "select")
    /\ UNCHANGED <<commands, lock, cur, waiting, todo, drain, memVars, osVars>>

\* The SELECT of reconcile: the bots to restore.
ToRestoreMutant == {b \in Bots : bots[b].exists /\ bots[b].actual = "STARTING"}
ToRestore == {b \in Bots : bots[b].exists /\ bots[b].desired = "RUNNING"}

SelectDesired(w) ==
    /\ pc[w] = "select"
    /\ todo' = [todo EXCEPT ![w] = ToRestore]
    /\ At(w, "restore")
    /\ UNCHANGED <<dbVars, cur, waiting, drain, memVars, osVars>>

\* One turn of reconcile's loop, or its end.
Restore(w) ==
    /\ pc[w] = "restore"
    /\ \/ /\ todo[w] = {}
          /\ At(w, "poll")
          /\ UNCHANGED <<todo, tasks>>
       \/ \E b \in todo[w] :
            /\ todo' = [todo EXCEPT ![w] = @ \ {b}]
            /\ IF processes[w][b] # None
               THEN UNCHANGED <<pc, tasks>>
               ELSE LoopStartsBot(w, b)
    /\ UNCHANGED <<dbVars, cur, waiting, drain, stopping, processes, attempts,
                   resetTimer, writes, osVars>>

-----------------------------------------------------------------------------
(***************************************************************************)
(* Commands: claimCommand and handleCommand.                               *)
(***************************************************************************)
Oldest(i) == /\ commands[i].status = "PENDING"
             /\ \A j \in 1..(i - 1) : commands[j].status # "PENDING"

MarkClaimedMutant(i) == commands
MarkClaimed(i) == SetStatus(i, "PROCESSING")

Claim(w) ==
    /\ pc[w] = "poll" /\ ~stopping[w]
    /\ \E i \in DOMAIN commands :
         /\ Oldest(i)
         /\ commands' = MarkClaimed(i)
         /\ cur' = [cur EXCEPT ![w] = i]
    /\ At(w, "begin")
    /\ UNCHANGED <<bots, registry, lock, waiting, todo, drain, memVars, osVars>>

\* Nothing to claim: the loop sleeps for a poll interval.
PollIdle(w) ==
    /\ pc[w] = "poll" /\ ~stopping[w]
    /\ \A i \in DOMAIN commands : commands[i].status # "PENDING"
    /\ UNCHANGED vars

\* The synchronous part of stopBot: forget the process and its restart
\* bookkeeping, ask it to end, and wait for its exit if it has no exit code.
UntrackMutant(w, b) == processes
Untrack(w, b) == [processes EXCEPT ![w][b] = None]

StopsBot(w, b, close) ==
    LET c == processes[w][b] IN
    /\ processes' = Untrack(w, b)
    /\ attempts' = [attempts EXCEPT ![w][b] = 0]
    /\ resetTimer' = [resetTimer EXCEPT ![w][b] = None]
    /\ IF AlreadyRunning(w, b)
       THEN /\ child' = [child EXCEPT ![c] = Asked(@, StopMessage(close))]
            /\ waiting' = [waiting EXCEPT ![w] = c]
            /\ At(w, "stopWait")
       ELSE At(w, "stopped") /\ UNCHANGED <<child, waiting>>

\* handleCommand writes desired_state and calls the operation.
Begin(w) ==
    /\ pc[w] = "begin"
    /\ LET b == CurBot(w)
           kind == Command(w).kind IN
       /\ bots' = SetRow(b, [bots[b] EXCEPT !.desired = DesiredOf(kind)])
       /\ \/ /\ kind \in {"STOP", "EMERGENCY_STOP", "RESTART"}
             /\ StopsBot(w, b, kind = "EMERGENCY_STOP")
             /\ UNCHANGED tasks
          \/ /\ kind = "DELETE" /\ AlreadyRunning(w, b)
             /\ StopsBot(w, b, FALSE)
             /\ UNCHANGED tasks
          \/ /\ kind = "DELETE" /\ ~AlreadyRunning(w, b)
             /\ At(w, "deleting")
             /\ UNCHANGED <<processes, attempts, resetTimer, child, waiting, tasks>>
          \/ /\ kind = "START"
             /\ LoopStartsBot(w, b)
             /\ UNCHANGED <<processes, attempts, resetTimer, child, waiting>>
    /\ UNCHANGED <<commands, registry, lock, cur, todo, drain, stopping, writes,
                   dataDir, position>>

\* stopBot's timer: SIGTERM, and the stop counts as unclean.  A process that
\* already ended by a signal has no exit event left to wait for.
StopTimeout(w) ==
    /\ pc[w] = "stopWait"
    /\ "stopTimeout" \in Faults \/ child[waiting[w]].reaped
    /\ child' = [child EXCEPT ![waiting[w]] = Asked(@, "suspend")]
    /\ waiting' = [waiting EXCEPT ![w] = None]
    /\ At(w, "unclean")
    /\ UNCHANGED <<dbVars, cur, todo, drain, memVars, dataDir, position>>

\* The unclean end of stopBot: failBot, then throw.
StopUnclean(w) ==
    /\ pc[w] = "unclean"
    /\ FailBot(w, CurBot(w))
    /\ At(w, "catch")
    /\ UNCHANGED <<commands, registry, lock, cur, waiting, todo, drain, memVars, osVars>>

\* The clean end of stopBot, and what the command does next.
StopClean(w) ==
    /\ pc[w] = "stopped"
    /\ LET b == CurBot(w) IN
       /\ bots' = SetRow(b, [bots[b] EXCEPT !.actual = "STOPPED", !.owner = None])
       /\ \/ Command(w).kind = "RESTART" /\ LoopStartsBot(w, b)
          \/ Command(w).kind = "DELETE" /\ At(w, "deleting") /\ UNCHANGED tasks
          \/ /\ Command(w).kind \in {"STOP", "EMERGENCY_STOP"}
             /\ At(w, "settle") /\ UNCHANGED tasks
    /\ UNCHANGED <<commands, registry, lock, cur, waiting, todo, drain, stopping,
                   processes, attempts, resetTimer, writes, osVars>>

\* rename of the bot's directory; ENOENT is fine.
StagedMutant(dirs) == dirs
Staged(dirs) == IF "live" \in dirs THEN (dirs \ {"live"}) \cup {"staged"} ELSE dirs

\* The rename back, which fails when the bot has a directory again.
Orphaned(dirs) ==
    IF "staged" \in dirs THEN (dirs \ {"staged"}) \cup {"orphan"} ELSE dirs
Unstaged(dirs) ==
    IF "live" \in dirs THEN Orphaned(dirs)
    ELSE IF "staged" \in dirs THEN (dirs \ {"staged"}) \cup {"live"} ELSE dirs

\* deleteBot, first half: register an existing database, stage the directory.
DeleteStage(w) ==
    /\ pc[w] = "deleting"
    /\ LET b == CurBot(w) IN
       /\ registry' = [registry EXCEPT ![b] = IF "live" \in dataDir[b]
                                              THEN Registered(b) ELSE @]
       /\ dataDir' = [dataDir EXCEPT ![b] = Staged(@)]
    /\ At(w, "deleteRow")
    /\ UNCHANGED <<bots, commands, lock, cur, waiting, todo, drain, memVars, child, position>>

\* UPDATE bot_sqlite_databases SET is_delete=1, and the same forgotten.
MarkedDeletedMutant(b) == registry[b]
MarkedDeleted(b) == IF registry[b] = "active" THEN "deleted" ELSE registry[b]

\* deleteBot, second half: the transaction (its commands go by cascade).
DeleteRow(w) ==
    /\ pc[w] = "deleteRow"
    /\ LET b == CurBot(w) IN
       /\ registry' = [registry EXCEPT ![b] = MarkedDeleted(b)]
       /\ bots' = [bots EXCEPT ![b] = [@ EXCEPT !.exists = FALSE, !.owner = None]]
       /\ commands' = [i \in DOMAIN commands |->
                         IF commands[i].bot = b THEN [commands[i] EXCEPT !.status = "GONE"]
                         ELSE commands[i]]
    /\ At(w, "deleteRm")
    /\ UNCHANGED <<lock, cur, waiting, todo, drain, memVars, osVars>>

\* rm of the staged directory.  Its failure is only logged, and then the data stays
\* under the random name.
DeleteRm(w) ==
    /\ pc[w] = "deleteRm"
    /\ LET b == CurBot(w) IN
       \/ dataDir' = [dataDir EXCEPT ![b] = @ \ {"staged"}]
       \/ dataDir' = [dataDir EXCEPT ![b] = Orphaned(@)]
    /\ At(w, "settle")
    /\ UNCHANGED <<dbVars, cur, waiting, todo, drain, memVars, child, position>>

Settle(w) ==
    /\ pc[w] = "settle"
    /\ commands' = SetStatus(cur[w], "SUCCEEDED")
    /\ cur' = [cur EXCEPT ![w] = 0]
    /\ At(w, "poll")
    /\ UNCHANGED <<bots, registry, lock, waiting, todo, drain, memVars, osVars>>

\* handleCommand's catch block: the command FAILED, then failBot.
CatchError(w) ==
    /\ pc[w] = "catch"
    /\ commands' = SetStatus(cur[w], "FAILED")
    /\ At(w, "catchFail")
    /\ UNCHANGED <<bots, registry, lock, cur, waiting, todo, drain, memVars, osVars>>

CatchFail(w) ==
    /\ pc[w] = "catchFail"
    /\ FailBot(w, CurBot(w))
    /\ cur' = [cur EXCEPT ![w] = 0]
    /\ At(w, "poll")
    /\ UNCHANGED <<commands, registry, lock, waiting, todo, drain, memVars, osVars>>

-----------------------------------------------------------------------------
(***************************************************************************)
(* Shutdown: the end of runLeader and of main.                             *)
(***************************************************************************)
\* SIGTERM or SIGINT sets the stopping flag.
Shutdown(w) ==
    /\ "shutdown" \in Faults
    /\ pc[w] \notin Gone /\ ~stopping[w]
    /\ Survivor(w)
    /\ stopping' = [stopping EXCEPT ![w] = TRUE]
    /\ UNCHANGED <<dbVars, loopVars, processes, attempts, resetTimer, tasks, writes, osVars>>

\* A replica that never led leaves main's loop.
ExitStandby(w) ==
    /\ pc[w] = "elect" /\ stopping[w]
    /\ At(w, "exited")
    /\ UNCHANGED <<dbVars, cur, waiting, todo, drain, memVars, osVars>>

Tracked(w) == {b \in Bots : processes[w][b] # None}

\* suspendBot's message to every tracked process that has no exit code.
SuspendAllMutant(w) == child
SuspendAll(w) ==
    [c \in Children |->
       IF \E b \in Tracked(w) : processes[w][b] = c /\ ExitCodeNull(c)
       THEN Asked(child[c], "suspend") ELSE child[c]]

\* The loop ended: suspendBot is called for every tracked bot at once.
DrainStart(w) ==
    /\ pc[w] = "poll" /\ stopping[w]
    /\ drain' = [drain EXCEPT ![w] = {<<b, processes[w][b]>> : b \in Tracked(w)}]
    /\ child' = SuspendAll(w)
    /\ processes' = [processes EXCEPT ![w] = [b \in Bots |-> None]]
    /\ At(w, "drain")
    /\ UNCHANGED <<dbVars, cur, waiting, todo, stopping, attempts, resetTimer, tasks,
                   writes, dataDir, position>>

\* suspendBot ends for one bot: its process exited, or the timeout killed it.
\* A bot that should run is left STARTING for the next leader.  The others go
\* on when one of them rejected and main with it.
DrainBot(w) ==
    /\ pc[w] \in {"drain", "failed"}
    /\ \E p \in drain[w] :
         LET b == p[1]
             c == p[2] IN
         /\ \/ child[c].reaped /\ UNCHANGED child
            \/ /\ ~child[c].reaped /\ "stopTimeout" \in Faults
               /\ child' = IF child[c].st = "dead" THEN child
                           ELSE [child EXCEPT ![c] = Ended(@, "signal", {})]
         /\ drain' = [drain EXCEPT ![w] = @ \ {p}]
         /\ bots' = IF bots[b].desired = "RUNNING"
                    THEN SetRow(b, [bots[b] EXCEPT !.actual = "STARTING", !.owner = None])
                    ELSE bots
    /\ UNCHANGED <<commands, registry, lock, pc, cur, waiting, todo, memVars, dataDir, position>>

\* The UPDATE of one suspendBot fails: Promise.all rejects, main ends.
DrainError(w) ==
    /\ "dbError" \in Faults
    /\ pc[w] = "drain" /\ Survivor(w)
    /\ \E p \in drain[w] : child[p[2]].reaped /\ drain' = [drain EXCEPT ![w] = @ \ {p}]
    /\ At(w, "failed")
    /\ UNCHANGED <<dbVars, cur, waiting, todo, memVars, osVars>>

\* pg_advisory_unlock on the leader's session, and the end of main.  The query
\* fails when that session is gone.
UnlockMutant(w) == lock
Unlock(w) == IF lock = w THEN None ELSE lock

Relinquish(w) ==
    /\ pc[w] = "drain" /\ drain[w] = {}
    /\ lock' = Unlock(w)
    /\ At(w, IF lock = w THEN "exited" ELSE "failed")
    /\ UNCHANGED <<bots, commands, registry, cur, waiting, todo, drain, memVars, osVars>>

-----------------------------------------------------------------------------
(***************************************************************************)
(* Faults of a worker and of its database sessions.                        *)
(***************************************************************************)
\* The worker process ends: its memory and its sessions are gone, and its
\* children will see their IPC channel close.
Dies(w) ==
    /\ lock' = IF lock = w THEN None ELSE lock
    /\ At(w, "down")
    /\ cur' = [cur EXCEPT ![w] = 0]
    /\ waiting' = [waiting EXCEPT ![w] = None]
    /\ todo' = [todo EXCEPT ![w] = {}]
    /\ drain' = [drain EXCEPT ![w] = {}]
    /\ processes' = [processes EXCEPT ![w] = [b \in Bots |-> None]]
    /\ attempts' = [attempts EXCEPT ![w] = [b \in Bots |-> 0]]
    /\ resetTimer' = [resetTimer EXCEPT ![w] = [b \in Bots |-> None]]
    /\ tasks' = [tasks EXCEPT ![w] = [t \in Tasks |-> NoTask]]
    /\ writes' = [writes EXCEPT ![w] = {}]
    /\ child' = [c \in Children |->
                   IF child[c].owner = w THEN Asked(child[c], "suspend")
                   ELSE child[c]]
    /\ dataDir' = IF pc[w] \in {"deleteRow", "deleteRm"}
                  THEN [dataDir EXCEPT ![CurBot(w)] = Orphaned(@)] ELSE dataDir
    /\ UNCHANGED <<commands, registry, stopping, position>>

\* The host or the orchestrator kills the process.
Crash(w) ==
    /\ "crash" \in Faults
    /\ pc[w] # "down"
    /\ pc[w] \in Gone \/ Survivor(w)
    /\ Dies(w) /\ UNCHANGED bots

\* The un-awaited RUNNING update has no catch: when it fails, the unhandled
\* rejection ends the process.
RejectionKills(w) ==
    /\ "dbError" \in Faults \/ pc[w] = "exited"
    /\ pc[w] \in Gone \/ Survivor(w)
    /\ \E b \in Bots : <<"RUNNING", b>> \in writes[w]
    /\ Dies(w) /\ UNCHANGED bots

\* stopBot sends to a process that has ended but has no exit code yet.  Once
\* its channel is closed the send emits an error event nobody listens to, and
\* the uncaught error ends the worker.
SendKills(w) ==
    /\ pc[w] = "begin"
    /\ LET b == CurBot(w) IN
       /\ Command(w).kind # "START" /\ AlreadyRunning(w, b)
       /\ child[processes[w][b]].st = "dead"
       /\ bots' = SetRow(b, [bots[b] EXCEPT !.desired = DesiredOf(Command(w).kind)])
    /\ Dies(w)

\* The session holding the advisory lock breaks.  PostgreSQL releases the lock;
\* the worker only logs the error.
LockLoss(w) ==
    /\ "lockLoss" \in Faults
    /\ lock = w
    /\ lock' = None
    /\ UNCHANGED <<bots, commands, registry, loopVars, memVars, osVars>>

\* An awaited database call of the loop fails: handleCommand catches it, and
\* anywhere else it ends main while the process and its children live on.
CaughtLocations == {"begin", "stopped", "deleting", "deleteRow", "settle"}
FatalLocations == {"elect", "reconcile", "select", "poll", "catch", "drain"}

DbError(w) ==
    /\ "dbError" \in Faults
    /\ \/ pc[w] \in CaughtLocations /\ At(w, "catch")
       \/ pc[w] \in FatalLocations /\ drain[w] = {} /\ Survivor(w) /\ At(w, "failed")
    /\ dataDir' = IF pc[w] = "deleteRow"
                  THEN [dataDir EXCEPT ![CurBot(w)] = Unstaged(@)] ELSE dataDir
    /\ UNCHANGED <<dbVars, cur, waiting, todo, drain, memVars, child, position>>

\* The released client idles out of the pool, and its session's lock with it: after
\* DATABASE_IDLE_TIMEOUT_MS in which no other call took it from the pool.  The orders
\* and logs of trading processes, restart timers and updates in flight may take it.
PoolInUse(w) ==
    \/ \E c \in Children : child[c].owner = w /\ child[c].st \in {"booting", "running", "stopping"}
    \/ \E t \in Tasks : tasks[w][t].at # "idle"
    \/ writes[w] # {}

IdleRelease(w) ==
    /\ pc[w] = "failed" /\ lock = w
    /\ lock' = None
    /\ UNCHANGED <<bots, commands, registry, loopVars, memVars, osVars>>

-----------------------------------------------------------------------------
(***************************************************************************)
(* Events of a child as the worker sees them.                              *)
(***************************************************************************)
Reap(c) == child' = [child EXCEPT ![c] = [@ EXCEPT !.reaped = TRUE]]
Exited(c) == /\ child[c].st = "dead" /\ ~child[c].reaped
             /\ pc[child[c].owner] # "down"

\* exit of the process stopBot waits for: clean iff the exit code is 0.
ExitAwaited(c) ==
    LET w == child[c].owner IN
    /\ Exited(c) /\ waiting[w] = c
    /\ Reap(c)
    /\ waiting' = [waiting EXCEPT ![w] = None]
    /\ At(w, IF child[c].code = "zero" THEN "stopped" ELSE "unclean")
    /\ UNCHANGED <<dbVars, cur, todo, drain, memVars, dataDir, position>>

\* scheduleRestart: give up after RestartLimit attempts in a row.
ScheduleRestart(w, b) ==
    /\ attempts' = [attempts EXCEPT ![w][b] = IF @ > RestartLimit THEN @ ELSE @ + 1]
    /\ IF attempts[w][b] < RestartLimit
       THEN \E t \in Timers :
              /\ tasks[w][t].at = "idle"
              /\ tasks' = [tasks EXCEPT ![w][t] = [at |-> "timer", bot |-> b, child |-> None]]
       ELSE UNCHANGED tasks

\* exit of a tracked process whose listeners are attached.
ExitTracked(c) ==
    LET w == child[c].owner
        b == child[c].bot IN
    /\ Exited(c) /\ child[c].listening /\ processes[w][b] = c
    /\ Reap(c)
    /\ processes' = [processes EXCEPT ![w][b] = None]
    /\ resetTimer' = [resetTimer EXCEPT ![w][b] = None]
    /\ IF stopping[w] THEN UNCHANGED <<writes, attempts, tasks>>
       ELSE /\ writes' = [writes EXCEPT ![w] = @ \cup {<<"FAILED", b>>}]
            /\ ScheduleRestart(w, b)
    /\ UNCHANGED <<dbVars, loopVars, stopping, dataDir, position>>

\* exit nobody acts on: the process is not tracked any more, is being
\* suspended, or its listener is not attached yet.
ExitIgnored(c) ==
    LET w == child[c].owner IN
    /\ Exited(c) /\ waiting[w] # c
    /\ ~child[c].listening \/ processes[w][child[c].bot] # c
    /\ Reap(c)
    /\ UNCHANGED <<dbVars, loopVars, memVars, dataDir, position>>

\* A started or error message reaches the listener of startBot.
OnMessage(c, m) ==
    LET w == child[c].owner
        b == child[c].bot IN
    /\ m \in child[c].msgs /\ child[c].listening /\ pc[w] # "down"
    /\ child' = [child EXCEPT ![c] = [@ EXCEPT !.msgs = child[c].msgs \ {m}]]
    /\ writes' = [writes EXCEPT ![w] =
                    @ \cup {<<IF m = "started" THEN "RUNNING" ELSE "FAILED", b>>}]
    /\ resetTimer' = IF m = "started" THEN [resetTimer EXCEPT ![w][b] = c] ELSE resetTimer
    /\ UNCHANGED <<dbVars, loopVars, stopping, processes, attempts, tasks, dataDir, position>>

\* 60 seconds after started: a tracked, living process clears the attempts.
ResetFires(w, b) ==
    /\ resetTimer[w][b] # None
    /\ attempts' = IF processes[w][b] = resetTimer[w][b] /\ AlreadyRunning(w, b)
                   THEN [attempts EXCEPT ![w][b] = 0] ELSE attempts
    /\ resetTimer' = [resetTimer EXCEPT ![w][b] = None]
    /\ UNCHANGED <<dbVars, loopVars, stopping, processes, tasks, writes, osVars>>

\* An un-awaited UPDATE takes effect, in no particular order with others; the
\* FAILED one (failBot) may fail unnoticed.
ApplyWrite(w) ==
    \E p \in writes[w] :
      /\ \/ bots' = IF bots[p[2]].owner = w
                    THEN SetRow(p[2], [bots[p[2]] EXCEPT !.actual = p[1]]) ELSE bots
         \/ /\ p[1] = "FAILED" /\ ("dbError" \in Faults \/ pc[w] = "exited")
            /\ UNCHANGED bots
      /\ writes' = [writes EXCEPT ![w] = @ \ {p}]
      /\ UNCHANGED <<commands, registry, lock, loopVars, stopping, processes, attempts,
                     resetTimer, tasks, osVars>>

-----------------------------------------------------------------------------
(***************************************************************************)
(* The trading process (src/worker.ts).                                    *)
(***************************************************************************)
ChildOnly == UNCHANGED <<dbVars, loopVars, memVars, dataDir>>

\* initialize succeeded: the process reports started and begins trading.
ChildStarted(c) ==
    /\ child[c].st = "booting"
    /\ child' = [child EXCEPT ![c] = [@ EXCEPT !.st = "running",
                                            !.msgs = child[c].msgs \cup {"started"}]]
    /\ UNCHANGED position /\ ChildOnly

\* The algorithm opens a position, restores the orders of an open one from
\* SQLite, or closes the one it knows; it keeps running until exit.
ChildTrades(c) ==
    /\ "trade" \in Faults
    /\ child[c].st \in {"running", "stopping"}
    /\ child' = [child EXCEPT ![c] = [@ EXCEPT !.knows = ~child[c].knows]]
    /\ position' = IF child[c].knows THEN [position EXCEPT ![child[c].bot] = FALSE]
                   ELSE [position EXCEPT ![child[c].bot] = TRUE]
    /\ ChildOnly

\* stopWorker: the first stop request wins.  suspend, SIGTERM, SIGINT and
\* disconnect do not close the position.
ChildAsked(c, request) ==
    /\ child[c].st \in {"booting", "running"} /\ request \in child[c].asked
    /\ child' = [child EXCEPT ![c] = [@ EXCEPT !.st = "stopping",
                                            !.closing = (request = "stop")]]
    /\ UNCHANGED position /\ ChildOnly

\* endAlgorithms (if closing) and dispose succeeded: exit(0).  endAlgorithms
\* closes the orders in memory, and nothing if they were not restored yet.
ChildExits(c) ==
    /\ child[c].st = "stopping"
    /\ child' = [child EXCEPT ![c] = Ended(@, "zero", {})]
    /\ position' = IF child[c].closing /\ child[c].knows
                   THEN [position EXCEPT ![child[c].bot] = FALSE] ELSE position
    /\ ChildOnly

\* The algorithm or the stop throws: exit(1), with or without its error
\* message getting out; or a signal ends the process.
ChildFails(c) ==
    /\ "childFailure" \in Faults
    /\ child[c].st \in {"booting", "running", "stopping"}
    /\ \/ \E sent \in {{}, {"error"}} :
            child' = [child EXCEPT ![c] = Ended(@, "one", sent)]
       \/ child' = [child EXCEPT ![c] = Ended(@, "signal", {})]
    /\ UNCHANGED position /\ ChildOnly

-----------------------------------------------------------------------------
Loop(w) ==
    \/ Elect(w) \/ Reconcile(w) \/ SelectDesired(w) \/ Restore(w)
    \/ Claim(w) \/ PollIdle(w) \/ Begin(w) \/ StopUnclean(w) \/ StopClean(w)
    \/ DeleteStage(w) \/ DeleteRow(w) \/ DeleteRm(w) \/ Settle(w)
    \/ CatchError(w) \/ CatchFail(w)
    \/ ExitStandby(w) \/ DrainStart(w) \/ DrainBot(w) \/ Relinquish(w)

Start(w, t) == StartLoad(w, t) \/ StartRegister(w, t) \/ StartFork(w, t) \/ StartMark(w, t)

ChildLife(c) ==
    \/ ChildStarted(c) \/ ChildExits(c)
    \/ \E r \in {"stop", "suspend"} : ChildAsked(c, r)

ChildEvent(c) ==
    \/ ExitAwaited(c) \/ ExitTracked(c) \/ ExitIgnored(c)
    \/ \E m \in {"started", "error"} : OnMessage(c, m)

Api(b) ==
    \/ \E kind \in Kinds : PostCommand(b, kind)
    \/ PostDelete(b) \/ ToggleConnection(b)

Fault(w) ==
    \/ Shutdown(w) \/ Crash(w) \/ LockLoss(w) \/ DbError(w) \/ DrainError(w)
    \/ RejectionKills(w) \/ SendKills(w)

Next ==
    \/ \E b \in Bots : Api(b)
    \/ \E w \in Workers : Loop(w) \/ StopTimeout(w) \/ Fault(w) \/ IdleRelease(w)
                          \/ ApplyWrite(w)
    \/ \E w \in Workers, t \in Tasks : Start(w, t) \/ StartError(w, t) \/ TimerFires(w, t)
    \/ \E w \in Workers, b \in Bots : ResetFires(w, b)
    \/ \E c \in Children : ChildLife(c) \/ ChildEvent(c) \/ ChildTrades(c) \/ ChildFails(c)

Spec == Init /\ [][Next]_vars

\* Fairness: awaited database calls answer, the event loop delivers exit events
\* and runs due timers, and a trading process handles what it was asked (every
\* exchange call of its stop path is bounded by retries).  Nothing is assumed
\* of API requests, trades or faults.  A session falls idle for certain only when
\* nothing of its process uses the pool any more.
Fairness ==
    /\ \A w \in Workers : WF_vars(Loop(w)) /\ WF_vars(StopTimeout(w))
                          /\ WF_vars(ApplyWrite(w))
                          /\ WF_vars(~PoolInUse(w) /\ IdleRelease(w))
    /\ \A w \in Workers : \A t \in Tasks : WF_vars(Start(w, t)) /\ WF_vars(TimerFires(w, t))
    /\ \A w \in Workers : \A b \in Bots : WF_vars(ResetFires(w, b))
    /\ \A c \in Children : WF_vars(ChildLife(c)) /\ WF_vars(ChildEvent(c))

FairSpec == Spec /\ Fairness

-----------------------------------------------------------------------------
(***************************************************************************)
(* Properties.                                                             *)
(***************************************************************************)
\* A process that trades for b and that nothing has told to end: neither a
\* message of its supervisor, nor a signal, nor the loss of its IPC channel.
Trading(c, b) ==
    /\ child[c].bot = b
    /\ child[c].st \in {"booting", "running"}
    /\ child[c].asked = {}

\* Only one worker replica is leader (main and runLeader), and it holds the
\* advisory lock.  It depends on the lock's session outliving the leader's loop.
OnlyOneLeader ==
    \A v, w \in Workers : Leading(v) /\ Leading(w) => v = w

\* A command is handled by one worker at a time and once claimed it is never
\* handled again (claimCommand), whatever happens to leaders and the lock.
ClaimedOnce ==
    /\ \A w \in Workers : cur[w] # 0 =>
         cur[w] \in DOMAIN commands /\ commands[cur[w]].status # "PENDING"
    /\ \A v, w \in Workers : v # w /\ cur[v] # 0 => cur[v] # cur[w]

\* The processes map and the stop requests never disagree: a tracked child was
\* forked by this worker for this bot and nobody has asked it to end (startBot,
\* stopBot, suspendBot).  So no stop is ever sent to the wrong process.
TrackedIsUnasked ==
    \A w \in Workers, b \in Bots, c \in Children :
      processes[w][b] = c => /\ child[c].owner = w /\ child[c].bot = b
                             /\ child[c].st # "unused" /\ child[c].asked = {}

\* Infrastructure events never close a position: a trading process closes one
\* only after an EMERGENCY_STOP command for its bot was claimed (stopBot,
\* suspendBot, and stopWorker in src/worker.ts).
OnlyEmergencyCloses ==
    \A c \in Children :
      child[c].st # "unused" /\ (child[c].closing \/ "stop" \in child[c].asked) =>
        \E i \in DOMAIN commands :
          /\ commands[i].bot = child[c].bot /\ commands[i].kind = "EMERGENCY_STOP"
          /\ commands[i].status # "PENDING"

\* The SQLite registry agrees with the bot rows: what is active belongs to a bot, and
\* what a deleted bot had is marked deleted (registerSqliteDatabase, deleteBot).  It
\* needs a start and a delete of a bot never to overlap, which the leader loop alone
\* guarantees over crashes and takeovers, and a restart timer does not.
RegistryFollowsRow ==
    \A b \in Bots : /\ registry[b] = "active" => bots[b].exists
                    /\ registry[b] = "deleted" => ~bots[b].exists

\* No two processes trade for the same bot (startBot's check, stopBot,
\* suspendBot, disconnect).
AtMostOneTrading ==
    \A b \in Bots : \A c, d \in Children : Trading(c, b) /\ Trading(d, b) => c = d

\* A deleted bot leaves no trading process and no directory under its own name, and
\* the renamed one is there only while deleteBot removes it.  What may stay for good is
\* a renamed directory whose removal failed or was cut off by a crash (deleteBot).
DeletedIsGone ==
    \A b \in Bots : ~bots[b].exists =>
        /\ "live" \notin dataDir[b]
        /\ "staged" \in dataDir[b] =>
             \E w \in Workers : pc[w] = "deleteRm" /\ cur[w] # 0 /\ CurBot(w) = b
        /\ \A c \in Children : ~Trading(c, b)

\* Once the latest command of a bot is a STOP or EMERGENCY_STOP that SUCCEEDED,
\* no process trades for it (stopBot, and restarts that were under way).
StopIsSafe ==
    \A b \in Bots, i \in DOMAIN commands :
      /\ commands[i].bot = b /\ commands[i].status = "SUCCEEDED"
      /\ commands[i].kind \in {"STOP", "EMERGENCY_STOP"}
      /\ \A j \in DOMAIN commands : j > i => commands[j].bot # b
      => \A c \in Children : ~Trading(c, b)

\* An EMERGENCY_STOP that ends SUCCEEDED has closed the bot's position
\* (handleCommand, stopBot(botId, true)).
EmergencyStopCloses ==
    [][\A i \in DOMAIN commands :
         /\ commands[i].kind = "EMERGENCY_STOP"
         /\ commands[i].status # "SUCCEEDED" /\ commands'[i].status = "SUCCEEDED"
         => ~position'[commands[i].bot]]_vars

\* A settled command is never reopened, and a claimed one never returns to the
\* queue (claimCommand, handleCommand).
StatusMovesForward ==
    [][\A i \in DOMAIN commands :
         /\ commands[i].status # "PENDING" => commands'[i].status # "PENDING"
         /\ commands[i].status \in {"SUCCEEDED", "FAILED"} =>
              commands'[i].status \in {commands[i].status, "GONE"}]_vars

Queued(i) == i \in DOMAIN commands /\ commands[i].status = "PENDING"

\* Every queued command is eventually taken from the queue, although leaders
\* crash or are shut down (claimCommand after failover).
CommandsAreClaimed == \A i \in 1..MaxCommands : Queued(i) ~> ~Queued(i)

\* A shutdown always completes: the leader suspends its bots, releases the lock
\* and leaves main (runLeader).
ShutdownCompletes ==
    \A w \in Workers : stopping[w] ~> pc[w] \in Gone

\* A bot whose desired state stays RUNNING ends up with a trading process that
\* stays, over crashes and shutdowns of leaders (reconcile).
RunningIsRestored ==
    \A b \in Bots :
      <>[](bots[b].exists /\ bots[b].desired = "RUNNING")
        => <>[](\E c \in Children : Trading(c, b))

====
