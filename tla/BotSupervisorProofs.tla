------------------------ MODULE BotSupervisorProofs ------------------------
(***************************************************************************)
(* Proofs about BotSupervisor for every number of replicas, bots, commands *)
(* and processes.  TypeOK is not inductive by itself: an action that       *)
(* follows cur[w] or child[c].bot keeps its type only because those point  *)
(* somewhere.  Shape says where, and TypeOK /\ Shape is inductive.         *)
(* Tracking adds which process a worker may track, wait for or drain.      *)
(* The module has three parts: types and tracking; leadership, the command *)
(* queue and the registry; failover.                                       *)
(***************************************************************************)
EXTENDS BotSupervisor, SequenceTheorems, TLAPS

\* Locations of main at which handleCommand is at work on a command.
CommandLocations == {"begin", "stopWait", "unclean", "stopped", "deleting",
                     "deleteRow", "deleteRm", "settle", "catch", "catchFail"}

\* The pointers of a worker's memory point somewhere.
CurShape ==
    \A w \in Workers : /\ cur[w] # 0 => cur[w] \in DOMAIN commands
                       /\ pc[w] \in CommandLocations => cur[w] # 0
WaitShape ==
    \A w \in Workers : /\ waiting[w] # None => pc[w] = "stopWait"
                       /\ tasks[w][Main].at # "idle" => pc[w] = "starting"
TaskShape ==
    \A w \in Workers, t \in Tasks :
      /\ tasks[w][t].at # "idle" => tasks[w][t].bot \in Bots
      /\ tasks[w][t].at = "mark" => tasks[w][t].child \in Children
ChildShape ==
    \A c \in Children : child[c].st # "unused" \/ child[c].msgs # {} =>
      child[c].owner \in Workers /\ child[c].bot \in Bots

Shape == CurShape /\ WaitShape /\ TaskShape /\ ChildShape

IInv == TypeOK /\ Shape

\* What makes TrackedIsUnasked inductive: a process stopBot waits for is tracked
\* by nobody, a dead worker tracks nothing and starts nothing.
WaitOwn ==
    \A w \in Workers : waiting[w] # None =>
      /\ child[waiting[w]].owner = w /\ child[waiting[w]].st # "unused"
      /\ \A b \in Bots : processes[w][b] # waiting[w]
DownIsEmpty ==
    \A w \in Workers : pc[w] = "down" =>
      /\ \A b \in Bots : processes[w][b] = None
      /\ \A t \in Tasks : tasks[w][t].at = "idle"
DrainUsed == \A w \in Workers : \A p \in drain[w] : child[p[2]].st # "unused"

Tracking == TrackedIsUnasked /\ WaitOwn /\ DownIsEmpty /\ DrainUsed

-----------------------------------------------------------------------------
(***************************************************************************)
(* Lemmas about rows, records and the command queue.                       *)
(***************************************************************************)
\* Updating the fields of a trading_bots row gives a row.
LEMMA RowType ==
    ASSUME NEW r \in BotRow
    PROVE  /\ \A d \in {"RUNNING", "STOPPED"}, a \in States :
                [r EXCEPT !.desired = d, !.actual = a] \in BotRow
           /\ \A d \in {"RUNNING", "STOPPED"} : [r EXCEPT !.desired = d] \in BotRow
           /\ \A a \in States : [r EXCEPT !.actual = a] \in BotRow
           /\ \A a \in States, o \in Workers \cup {None} :
                [r EXCEPT !.actual = a, !.owner = o] \in BotRow
           /\ [r EXCEPT !.exists = FALSE, !.owner = None] \in BotRow
           /\ [r EXCEPT !.enabled = ~r.enabled] \in BotRow
  BY DEF BotRow

\* Updating a function at one point.
LEMMA ExceptType ==
    ASSUME NEW D, NEW R, NEW f \in [D -> R], NEW x, NEW v, x \in D => v \in R
    PROVE  [f EXCEPT ![x] = v] \in [D -> R]
  OBVIOUS

\* SetRow (UPDATE ... WHERE id=$1) keeps the type of the table.
LEMMA SetRowType ==
    ASSUME bots \in [Bots -> BotRow], NEW b, NEW row, b \in Bots => row \in BotRow
    PROVE  SetRow(b, row) \in [Bots -> BotRow]
  BY DEF SetRow

\* failBot keeps the type of the table.
LEMMA FailBotType ==
    ASSUME bots \in [Bots -> BotRow], NEW w, NEW b, FailBot(w, b)
    PROVE  bots' \in [Bots -> BotRow]
  <1>1. b \in Bots => [bots[b] EXCEPT !.actual = "FAILED"] \in BotRow
    BY RowType DEF States
  <1>2. SetRow(b, [bots[b] EXCEPT !.actual = "FAILED"]) \in [Bots -> BotRow]
    BY <1>1, SetRowType
  <1>3. QED
    BY <1>2 DEF FailBot, FailRow

\* What a process record keeps when something happens to the process.
LEMMA ProcessType ==
    ASSUME NEW p \in Process
    PROVE  /\ \A r \in {"stop", "suspend"} : Asked(p, r) \in Process
           /\ \A code \in {"zero", "one", "signal"}, sent \in {{}, {"error"}} :
                Ended(p, code, sent) \in Process
           /\ [p EXCEPT !.listening = TRUE] \in Process
           /\ [p EXCEPT !.reaped = TRUE] \in Process
           /\ \A m \in {"started", "error"} : [p EXCEPT !.msgs = p.msgs \ {m}] \in Process
           /\ [p EXCEPT !.st = "running", !.msgs = p.msgs \cup {"started"}] \in Process
           /\ [p EXCEPT !.knows = ~p.knows] \in Process
           /\ \A x \in BOOLEAN : [p EXCEPT !.st = "stopping", !.closing = x] \in Process
  <1>1. \A r \in {"stop", "suspend"} : Asked(p, r) \in Process
    BY DEF Process, Asked
  <1>2. \A code \in {"zero", "one", "signal"}, sent \in {{}, {"error"}} :
                Ended(p, code, sent) \in Process
    BY DEF Process, Ended
  <1>3. /\ [p EXCEPT !.listening = TRUE] \in Process
        /\ [p EXCEPT !.reaped = TRUE] \in Process
        /\ \A m \in {"started", "error"} : [p EXCEPT !.msgs = p.msgs \ {m}] \in Process
        /\ [p EXCEPT !.st = "running", !.msgs = p.msgs \cup {"started"}] \in Process
    BY DEF Process
  <1>4. /\ [p EXCEPT !.knows = ~p.knows] \in Process
        /\ \A x \in BOOLEAN : [p EXCEPT !.st = "stopping", !.closing = x] \in Process
    BY DEF Process
  <1>5. QED
    BY <1>1, <1>2, <1>3, <1>4

\* A process keeps its supervisor and its bot as long as it is not reused.
LEMMA ProcessKeeps ==
    ASSUME NEW p \in Process
    PROVE  /\ \A r : /\ Asked(p, r).owner = p.owner /\ Asked(p, r).bot = p.bot
                     /\ Asked(p, r).st = p.st /\ Asked(p, r).msgs = p.msgs
           /\ \A code, sent : /\ Ended(p, code, sent).owner = p.owner
                              /\ Ended(p, code, sent).bot = p.bot
                              /\ Ended(p, code, sent).st = "dead"
                              /\ Ended(p, code, sent).asked = p.asked
  BY DEF Process, Asked, Ended

\* Tasks keep their type.
LEMMA TaskType ==
    ASSUME NEW t \in Task
    PROVE  /\ [t EXCEPT !.at = "fork"] \in Task /\ [t EXCEPT !.at = "load"] \in Task
           /\ [t EXCEPT !.at = "register"] \in Task /\ [t EXCEPT !.at = "insert"] \in Task
           /\ \A c \in Children : [t EXCEPT !.at = "mark", !.child = c] \in Task
           /\ \A b \in Bots, a \in {"timer", "load"} :
                 [at |-> a, bot |-> b, child |-> None] \in Task
           /\ NoTask \in Task
  BY DEF Task, NoTask

\* A function over the positions of the queue whose values are commands is a queue.
LEMMA SeqOfRows ==
    ASSUME NEW s \in Seq(CommandRow), NEW f,
           f = [i \in DOMAIN s |-> f[i]],
           \A i \in DOMAIN s : f[i] \in CommandRow
    PROVE  f \in Seq(CommandRow) /\ DOMAIN f = DOMAIN s
  <1>1. DOMAIN s = 1..Len(s) /\ Len(s) \in Nat
    BY LenProperties
  <1>2. f \in [1..Len(s) -> CommandRow]
    BY <1>1
  <1>3. QED
    BY <1>1, <1>2, SeqDef

\* Positions of the queue hold commands, and are positive.
LEMMA QueueRows ==
    ASSUME NEW s \in Seq(CommandRow)
    PROVE  /\ \A i \in DOMAIN s : s[i] \in CommandRow /\ i \in Nat /\ i # 0
           /\ \A i \in DOMAIN s : s[i].bot \in Bots /\ s[i].kind \in CommandKinds
                                  /\ s[i].status \in Status
  <1>1. \A i \in DOMAIN s : s[i] \in CommandRow /\ i \in Nat /\ i # 0
    BY ElementOfSeq, LenProperties
  <1>2. QED
    BY <1>1 DEF CommandRow

\* SetStatus updates the status of one command that is not gone.
LEMMA SetStatusType ==
    ASSUME commands \in Seq(CommandRow), NEW i, NEW s \in Status
    PROVE  /\ SetStatus(i, s) \in Seq(CommandRow)
           /\ DOMAIN SetStatus(i, s) = DOMAIN commands
           /\ \A j \in DOMAIN commands :
                /\ SetStatus(i, s)[j].status = IF j = i /\ commands[j].status # "GONE"
                                               THEN s ELSE commands[j].status
                /\ SetStatus(i, s)[j].bot = commands[j].bot
                /\ SetStatus(i, s)[j].kind = commands[j].kind
  <1> DEFINE f == SetStatus(i, s)
  <1>1. \A j \in DOMAIN commands : commands[j] \in CommandRow
    BY QueueRows
  <1>2. f = [j \in DOMAIN commands |-> f[j]]
    BY DEF SetStatus
  <1>3. \A j \in DOMAIN commands :
                f[j] = IF j = i /\ commands[j].status # "GONE"
                                     THEN [commands[j] EXCEPT !.status = s]
                                     ELSE commands[j]
    BY <1>1 DEF SetStatus, CommandRow
  <1>4. \A j \in DOMAIN commands :
          /\ f[j] \in CommandRow
          /\ f[j].status = IF j = i /\ commands[j].status # "GONE"
                           THEN s ELSE commands[j].status
          /\ f[j].bot = commands[j].bot
          /\ f[j].kind = commands[j].kind
    BY <1>1, <1>3 DEF CommandRow
  <1>5. QED
    BY <1>2, <1>4, SeqOfRows

\* The cascade of deleteBot marks the commands of one bot and keeps the others.
LEMMA DeleteKeeps ==
    ASSUME commands \in Seq(CommandRow), NEW w, DeleteRow(w)
    PROVE  /\ commands' \in Seq(CommandRow)
           /\ DOMAIN commands' = DOMAIN commands
           /\ \A i \in DOMAIN commands :
                /\ commands'[i].status = IF commands[i].bot = CurBot(w) THEN "GONE"
                                         ELSE commands[i].status
                /\ commands'[i].bot = commands[i].bot
                /\ commands'[i].kind = commands[i].kind
  <1>1. commands' = [i \in DOMAIN commands |->
                       IF commands[i].bot = CurBot(w)
                       THEN [commands[i] EXCEPT !.status = "GONE"] ELSE commands[i]]
    BY DEF DeleteRow
  <1>2. \A i \in DOMAIN commands : commands[i] \in CommandRow
    BY QueueRows
  <1>3. \A r \in CommandRow : /\ [r EXCEPT !.status = "GONE"] \in CommandRow
                              /\ [r EXCEPT !.status = "GONE"].status = "GONE"
                              /\ [r EXCEPT !.status = "GONE"].bot = r.bot
                              /\ [r EXCEPT !.status = "GONE"].kind = r.kind
    BY DEF CommandRow, Status
  <1>4. \A i \in DOMAIN commands :
           /\ commands'[i] \in CommandRow
           /\ commands'[i].status = IF commands[i].bot = CurBot(w) THEN "GONE"
                                    ELSE commands[i].status
           /\ commands'[i].bot = commands[i].bot
           /\ commands'[i].kind = commands[i].kind
    BY <1>1, <1>2, <1>3
  <1>5. commands' = [i \in DOMAIN commands |-> commands'[i]]
    BY <1>1
  <1>6. QED
    BY <1>4, <1>5, SeqOfRows

\* Appending a command keeps the ones before it.
LEMMA EnqueueKeeps ==
    ASSUME commands \in Seq(CommandRow), NEW b \in Bots, NEW kind \in CommandKinds,
           Enqueue(b, kind)
    PROVE  /\ commands' \in Seq(CommandRow)
           /\ DOMAIN commands \subseteq DOMAIN commands'
           /\ \A i \in DOMAIN commands : commands'[i] = commands[i]
           /\ \A i \in DOMAIN commands' : i \notin DOMAIN commands =>
                commands'[i] = [bot |-> b, kind |-> kind, status |-> "PENDING"]
  <1> DEFINE e == [bot |-> b, kind |-> kind, status |-> "PENDING"]
  <1>1. e \in CommandRow
    BY DEF CommandRow, Status
  <1>2. commands' = Append(commands, e)
    BY DEF Enqueue
  <1>3. DOMAIN commands = 1..Len(commands) /\ Len(commands) \in Nat
    BY LenProperties
  <1>4. /\ commands' \in Seq(CommandRow)
        /\ Len(commands') = Len(commands) + 1
        /\ \A i \in 1..Len(commands) : commands'[i] = commands[i]
        /\ commands'[Len(commands) + 1] = e
    BY <1>1, <1>2, AppendProperties
  <1>5. DOMAIN commands' = 1..(Len(commands) + 1)
    BY <1>4, LenProperties
  <1>6. QED
    BY <1>3, <1>4, <1>5

-----------------------------------------------------------------------------
(***************************************************************************)
(* Type correctness.                                                       *)
(***************************************************************************)
\* The initial state is well typed and its pointers are all unset.
LEMMA InitInv == Init => IInv
  <1> SUFFICES ASSUME Init PROVE IInv
    OBVIOUS
  <1>1. NoTask \in Task /\ NoProcess \in Process
    BY DEF Task, NoTask, Process, NoProcess
  <1>2. TypeOK
    BY <1>1, EmptySeq DEF Init, TypeOK, BotRow, States, Locations
  <1>3. Shape
    BY ConstantsAssumption DEF Init, Shape, CurShape, WaitShape, TaskShape, ChildShape, CommandLocations,
                               Tasks, NoTask, NoProcess
  <1>4. QED
    BY <1>2, <1>3 DEF IInv

\* The HTTP API.
LEMMA ApiInv ==
    ASSUME IInv, NEW b \in Bots, Api(b)
    PROVE  IInv'
  <1> USE ConstantsAssumption DEF IInv, TypeOK, Shape, loopVars, memVars, osVars
  <1>1. ASSUME NEW kind \in CommandKinds, Enqueue(b, kind)
        PROVE  IInv'
    <2>1. /\ commands' \in Seq(CommandRow)
          /\ DOMAIN commands \subseteq DOMAIN commands'
      BY <1>1, EnqueueKeeps
    <2>2. bots' \in [Bots -> BotRow]
      BY <1>1, RowType DEF Enqueue, States, DesiredOf, RequestedState
    <2>3. TypeOK'
      BY <1>1, <2>1, <2>2 DEF Enqueue
    <2>4. Shape'
      BY <1>1, <2>1 DEF Enqueue, CurShape, WaitShape, TaskShape, ChildShape
    <2>5. QED
      BY <2>3, <2>4
  <1>2. ASSUME NEW kind \in Kinds, PostCommand(b, kind)
        PROVE  IInv'
    BY <1>1, <1>2 DEF PostCommand
  <1>3. CASE PostDelete(b)
    BY <1>1, <1>3 DEF PostDelete, CommandKinds
  <1>4. CASE ToggleConnection(b)
    <2>1. bots' \in [Bots -> BotRow]
      BY <1>4, RowType DEF ToggleConnection
    <2>2. TypeOK'
      BY <1>4, <2>1 DEF ToggleConnection
    <2>3. Shape'
      BY <1>4 DEF ToggleConnection, CurShape, WaitShape, TaskShape, ChildShape
    <2>4. QED
      BY <2>2, <2>3
  <1>5. QED
    BY <1>2, <1>3, <1>4 DEF Api

\* The loop calls startBot, if its caller leaves the rest of the state well typed.
LEMMA LoopStartsBotInv ==
    ASSUME IInv, NEW w \in Workers, NEW b \in Bots, LoopStartsBot(w, b),
           waiting[w] = None, pc[w] # "starting"
    PROVE  /\ pc' \in [Workers -> Locations]
           /\ tasks' \in [Workers -> [Tasks -> Task]]
           /\ TaskShape'
           /\ \A v \in Workers : v # w => pc'[v] = pc[v] /\ tasks'[v] = tasks[v]
           /\ pc'[w] \in CommandLocations => cur[w] # 0
           /\ tasks'[w][Main].at # "idle" => pc'[w] = "starting"
  <1> USE DEF IInv, TypeOK, Shape
  <1>1. [at |-> "load", bot |-> b, child |-> None] \in Task /\ Main \in Tasks
    BY DEF Task, Tasks
  <1>2. AfterStart(w) \in Locations /\ (AfterStart(w) \in CommandLocations => cur[w] # 0)
    BY DEF AfterStart, Locations, CommandLocations
  <1>3. CASE AlreadyRunning(w, b)
    <2>1. pc' = [pc EXCEPT ![w] = AfterStart(w)] /\ tasks' = tasks
      BY <1>3 DEF LoopStartsBot, At
    <2>2. TaskShape'
      BY <2>1 DEF TaskShape
    <2>3. tasks[w][Main].at = "idle"
      BY DEF WaitShape
    <2>4. QED
      BY <1>2, <2>1, <2>2, <2>3
  <1>4. CASE ~AlreadyRunning(w, b)
    <2> DEFINE k == [at |-> "load", bot |-> b, child |-> None]
    <2>1. /\ pc' = [pc EXCEPT ![w] = "starting"]
          /\ tasks' = [tasks EXCEPT ![w][Main] = k]
      BY <1>4 DEF LoopStartsBot, At
    <2>2. k.at = "load" /\ k.bot = b
      OBVIOUS
    <2> HIDE DEF k
    <2>3. TaskShape'
      BY <1>1, <2>1, <2>2 DEF TaskShape
    <2>4. tasks' \in [Workers -> [Tasks -> Task]]
      BY <1>1, <2>1 DEF k
    <2>5. pc' \in [Workers -> Locations] /\ "starting" \notin CommandLocations
      BY <2>1 DEF Locations, CommandLocations
    <2>6. QED
      BY <2>1, <2>3, <2>4, <2>5
  <1>5. QED
    BY <1>3, <1>4

\* startBot rejects.
LEMMA StartThrowsInv ==
    ASSUME IInv, NEW w \in Workers, NEW t \in Tasks, tasks[w][t].at # "idle",
           StartThrows(w, t)
    PROVE  /\ bots' \in [Bots -> BotRow]
           /\ pc' \in [Workers -> Locations]
           /\ tasks' \in [Workers -> [Tasks -> Task]]
           /\ TaskShape'
           /\ \A v \in Workers : pc'[v] \in CommandLocations => cur[v] # 0
           /\ \A v \in Workers : waiting[v] # None => pc'[v] = "stopWait"
           /\ \A v \in Workers : tasks'[v][Main].at # "idle" => pc'[v] = "starting"
  <1> USE DEF IInv, TypeOK, Shape
  <1>1. NoTask \in Task /\ NoTask.at = "idle" /\ Main \in Tasks
    BY DEF Task, Tasks, NoTask
  <1>2. bots' \in [Bots -> BotRow]
    BY FailBotType DEF StartThrows
  <1>3. tasks' = [tasks EXCEPT ![w][t] = NoTask]
    BY DEF StartThrows
  <1>4. tasks' \in [Workers -> [Tasks -> Task]] /\ TaskShape'
    BY <1>1, <1>3 DEF TaskShape
  <1>5. CASE t = Main
    <2>1. pc' = [pc EXCEPT ![w] = IF cur[w] # 0 THEN "catch" ELSE "restore"]
      BY <1>5 DEF StartThrows, At
    <2>2. pc[w] = "starting"
      BY <1>5 DEF WaitShape
    <2>3. QED
      BY <1>1, <1>2, <1>3, <1>4, <1>5, <2>1, <2>2
         DEF CurShape, WaitShape, CommandLocations, Locations
  <1>6. CASE t # Main
    <2>1. pc' = pc
      BY <1>6 DEF StartThrows
    <2>2. QED
      BY <1>1, <1>2, <1>3, <1>4, <1>6, <2>1 DEF CurShape, WaitShape
  <1>7. QED
    BY <1>5, <1>6

\* startBot.
LEMMA StartInv ==
    ASSUME IInv, NEW w \in Workers, NEW t \in Tasks,
           Start(w, t) \/ StartError(w, t) \/ TimerFires(w, t)
    PROVE  IInv'
  <1> USE ConstantsAssumption DEF IInv, TypeOK, Shape, dbVars, loopVars, osVars
  <1>t. NoTask \in Task /\ NoTask.at = "idle" /\ Main \in Tasks
    BY DEF Task, Tasks, NoTask
  <1>k. tasks[w][t] \in Task
    OBVIOUS
  <1>1. CASE StartLoad(w, t)
    <2> DEFINE b == tasks[w][t].bot
    <2>1. b \in Bots
      BY <1>1 DEF StartLoad, TaskShape
    <2>2. CASE Loadable(b)
      <3>1. [tasks[w][t] EXCEPT !.at = "register"] \in Task
        BY <1>k, TaskType
      <3>2. /\ [tasks[w][t] EXCEPT !.at = "register"].at = "register"
            /\ [tasks[w][t] EXCEPT !.at = "register"].bot = b
        BY DEF Task
      <3>3. tasks' = [tasks EXCEPT ![w][t] = [tasks[w][t] EXCEPT !.at = "register"]]
        BY <1>1, <2>2 DEF StartLoad
      <3>4. dataDir' \in [Bots -> SUBSET {"live", "staged", "orphan"}]
        <4>1. dataDir' = [dataDir EXCEPT ![b] = dataDir[b] \cup {"live"}]
          BY <1>1, <2>2 DEF StartLoad
        <4>2. dataDir[b] \cup {"live"} \in SUBSET {"live", "staged", "orphan"}
          BY <2>1
        <4>3. QED
          BY <4>1, <4>2
      <3>7. tasks' \in [Workers -> [Tasks -> Task]]
        BY <3>1, <3>3
      <3>8. TypeOK'
        BY <1>1, <2>2, <3>4, <3>7 DEF StartLoad
      <3>5. Shape'
        BY <1>1, <2>1, <2>2, <3>2, <3>3 DEF StartLoad, CurShape, WaitShape, TaskShape, ChildShape
      <3>6. QED
        BY <3>8, <3>5
    <2>3. CASE ~Loadable(b)
      <3>1. StartThrows(w, t) /\ tasks[w][t].at # "idle"
        BY <1>1, <2>3 DEF StartLoad
      <3>2. TypeOK'
        BY <1>1, <2>3, <3>1, StartThrowsInv DEF StartLoad
      <3>3. Shape'
        BY <1>1, <2>3, <3>1, StartThrowsInv DEF StartLoad, CurShape, WaitShape, ChildShape
      <3>4. QED
        BY <3>2, <3>3
    <2>4. QED
      BY <2>2, <2>3
  <1>2. CASE StartFork(w, t)
    <2> DEFINE b == tasks[w][t].bot
    <2>1. b \in Bots
      BY <1>2 DEF StartFork, TaskShape
    <2>2. PICK c \in Children :
            /\ child' = [child EXCEPT ![c] = Forked(w, b)]
            /\ processes' = [processes EXCEPT ![w][b] = c]
            /\ tasks' = [tasks EXCEPT ![w][t] =
                           [tasks[w][t] EXCEPT !.at = "mark", !.child = c]]
            /\ registry' = [registry EXCEPT ![b] =
                              IF tasks[w][t].at = "insert" THEN "active" ELSE @]
      BY <1>2 DEF StartFork
    <2>3. /\ Forked(w, b) \in Process
          /\ Forked(w, b).owner = w /\ Forked(w, b).bot = b
      BY <2>1 DEF Forked, NoProcess, Process
    <2> DEFINE k == [tasks[w][t] EXCEPT !.at = "mark", !.child = c]
    <2>4. k \in Task
      BY <1>k, TaskType
    <2>5. k.at = "mark" /\ k.bot = b /\ k.child = c
      BY DEF Task
    <2>7. tasks' \in [Workers -> [Tasks -> Task]] /\ child' \in [Children -> Process]
      BY <2>2, <2>3, <2>4
    <2>8. processes' \in [Workers -> [Bots -> Children \cup {None}]]
          /\ registry' \in [Bots -> {"absent", "active", "deleted"}]
      BY <2>1, <2>2
    <2>9. TypeOK'
      BY <1>2, <2>7, <2>8 DEF StartFork
    <2>10. TaskShape'
      BY <2>1, <2>2, <2>5 DEF TaskShape
    <2>11. ChildShape'
      BY <2>1, <2>2, <2>3 DEF ChildShape
    <2>12. CurShape' /\ WaitShape'
      BY <1>2, <2>2, <2>5 DEF StartFork, CurShape, WaitShape
    <2>13. QED
      BY <2>9, <2>10, <2>11, <2>12
  <1>3. CASE StartMark(w, t)
    <2> DEFINE b == tasks[w][t].bot
               c == tasks[w][t].child
    <2>1. b \in Bots /\ c \in Children
      BY <1>3 DEF StartMark, TaskShape
    <2>2. /\ bots' = SetRow(b, [bots[b] EXCEPT !.actual = "STARTING", !.owner = w])
          /\ child' = [child EXCEPT ![c] = [child[c] EXCEPT !.listening = TRUE]]
          /\ tasks' = [tasks EXCEPT ![w][t] = NoTask]
          /\ pc' = IF t = Main THEN [pc EXCEPT ![w] = AfterStart(w)] ELSE pc
      BY <1>3 DEF StartMark
    <2>3. bots' \in [Bots -> BotRow]
      BY <2>1, <2>2, RowType, SetRowType DEF States
    <2>4. child' \in [Children -> Process] /\ tasks' \in [Workers -> [Tasks -> Task]]
      BY <1>t, <2>1, <2>2, ProcessType
    <2>5. AfterStart(w) \in Locations /\ (AfterStart(w) \in CommandLocations => cur[w] # 0)
      BY DEF AfterStart, Locations, CommandLocations
    <2>6. TypeOK'
      BY <1>3, <2>2, <2>3, <2>4, <2>5 DEF StartMark
    <2>7. TaskShape'
      BY <1>t, <2>2 DEF TaskShape
    <2>8. [child[c] EXCEPT !.listening = TRUE].owner = child[c].owner
          /\ [child[c] EXCEPT !.listening = TRUE].bot = child[c].bot
          /\ [child[c] EXCEPT !.listening = TRUE].st = child[c].st
          /\ [child[c] EXCEPT !.listening = TRUE].msgs = child[c].msgs
      BY <2>1 DEF Process
    <2>9. ChildShape'
      BY <2>1, <2>2, <2>8 DEF ChildShape
    <2>10. CurShape' /\ WaitShape'
      BY <1>t, <1>3, <2>2, <2>5 DEF StartMark, CurShape, WaitShape
    <2>11. QED
      BY <2>6, <2>7, <2>9, <2>10
  <1>4. CASE StartError(w, t)
    <2>1. StartThrows(w, t) /\ tasks[w][t].at # "idle"
      BY <1>4 DEF StartError
    <2>2. TypeOK'
      BY <1>4, <2>1, StartThrowsInv DEF StartError
    <2>3. Shape'
      BY <1>4, <2>1, StartThrowsInv DEF StartError, CurShape, WaitShape, ChildShape
    <2>4. QED
      BY <2>2, <2>3
  <1>5. CASE TimerFires(w, t)
    <2> DEFINE k == [tasks[w][t] EXCEPT !.at = "load"]
    <2>1. k \in Task
      BY <1>k, TaskType
    <2>2. k.at = "load" /\ k.bot = tasks[w][t].bot
      BY DEF Task
    <2>3. PICK x \in {k, NoTask} : tasks' = [tasks EXCEPT ![w][t] = x]
      BY <1>5 DEF TimerFires
    <2>4. TypeOK'
      BY <1>5, <1>t, <2>1, <2>3 DEF TimerFires
    <2>5. Shape'
      <3>1. CurShape' /\ ChildShape'
        BY <1>5 DEF TimerFires, CurShape, ChildShape
      <3>2. tasks[w][t].at = "timer" /\ UNCHANGED <<pc, waiting>>
        BY <1>5 DEF TimerFires
      <3>6. x.at \in {"load", "idle"} /\ (x.at = "load" => x.bot = tasks[w][t].bot)
        <4> HIDE DEF k
        <4> QED
          BY <1>t, <2>2, <2>3
      <3>3. TaskShape'
        BY <1>t, <2>3, <3>2, <3>6 DEF TaskShape
      <3>4. WaitShape'
        BY <1>t, <2>3, <3>2, <3>6 DEF WaitShape
      <3>5. QED
        BY <3>1, <3>3, <3>4
    <2>6. QED
      BY <2>4, <2>5
  <1>6. CASE StartRegister(w, t)
    <2>1. PICK a \in {"insert", "fork"} :
            tasks' = [tasks EXCEPT ![w][t] = [tasks[w][t] EXCEPT !.at = a]]
      BY <1>6 DEF StartRegister
    <2> DEFINE k == [tasks[w][t] EXCEPT !.at = a]
    <2>2. k \in Task /\ k.at = a /\ k.bot = tasks[w][t].bot
      BY <1>k, TaskType DEF Task
    <2>3. tasks[w][t].at = "register" /\ UNCHANGED <<pc, waiting>>
      BY <1>6 DEF StartRegister
    <2>4. tasks' = [tasks EXCEPT ![w][t] = k]
      BY <2>1
    <2> HIDE DEF k
    <2>4a. tasks' \in [Workers -> [Tasks -> Task]]
      BY <2>2, <2>4
    <2>4b. UNCHANGED <<bots, commands, registry, lock, pc, cur, waiting, todo, drain, stopping,
                       processes, attempts, resetTimer, writes, child, dataDir, position>>
      BY <1>6 DEF StartRegister
    <2>5. TypeOK'
      BY <2>4a, <2>4b
    <2>6. CurShape' /\ ChildShape'
      BY <1>6 DEF StartRegister, CurShape, ChildShape
    <2>7. TaskShape'
      BY <2>2, <2>3, <2>4 DEF TaskShape
    <2>8. WaitShape'
      BY <2>2, <2>3, <2>4 DEF WaitShape
    <2>9. QED
      BY <2>5, <2>6, <2>7, <2>8
  <1>7. QED
    BY <1>1, <1>2, <1>3, <1>4, <1>5, <1>6 DEF Start

\* Election, reconciliation and the poll of the queue.
LEMMA PollInv ==
    ASSUME IInv, NEW w \in Workers,
           \/ Elect(w) \/ Reconcile(w) \/ SelectDesired(w) \/ Restore(w)
           \/ Claim(w) \/ PollIdle(w)
    PROVE  IInv'
  <1> USE ConstantsAssumption DEF IInv, TypeOK, Shape, dbVars, loopVars, memVars, osVars, At
  <1>1. CASE Elect(w)
    BY <1>1 DEF Elect, Locations, CurShape, WaitShape, TaskShape, ChildShape, CommandLocations
  <1>2. CASE Reconcile(w)
    <2>1. \A b \in Bots : [bots[b] EXCEPT !.actual = "STOPPED", !.owner = None] \in BotRow
      BY RowType DEF States
    <2>2. bots' \in [Bots -> BotRow]
      BY <1>2, <2>1 DEF Reconcile
    <2>3. \A b \in Bots : Registered(b) \in {"absent", "active", "deleted"}
      BY DEF Registered
    <2>4. registry' \in [Bots -> {"absent", "active", "deleted"}]
      BY <1>2, <2>3 DEF Reconcile, RegisterExisting
    <2>5. TypeOK'
      BY <1>2, <2>2, <2>4 DEF Reconcile, Locations
    <2>6. Shape'
      BY <1>2 DEF Reconcile, CurShape, WaitShape, TaskShape, ChildShape, CommandLocations
    <2>7. QED
      BY <2>5, <2>6
  <1>3. CASE SelectDesired(w)
    <2>1. ToRestore \in SUBSET Bots
      BY DEF ToRestore
    <2>2. TypeOK'
      BY <1>3, <2>1 DEF SelectDesired, Locations
    <2>3. Shape'
      BY <1>3 DEF SelectDesired, CurShape, WaitShape, TaskShape, ChildShape, CommandLocations
    <2>4. QED
      BY <2>2, <2>3
  <1>4. CASE Restore(w)
    <2>1. pc[w] = "restore" /\ waiting[w] = None
      BY <1>4 DEF Restore, WaitShape
    <2>2. CASE UNCHANGED tasks /\ pc' \in {pc, [pc EXCEPT ![w] = "poll"]}
      <3>1. todo' \in [Workers -> SUBSET Bots]
        <4>1. todo' = todo \/ \E b \in todo[w] : todo' = [todo EXCEPT ![w] = todo[w] \ {b}]
          BY <1>4 DEF Restore
        <4>2. CASE todo' = todo
          BY <4>2
        <4>3. ASSUME NEW b \in todo[w], todo' = [todo EXCEPT ![w] = todo[w] \ {b}]
              PROVE  todo' \in [Workers -> SUBSET Bots]
          <5>1. todo[w] \ {b} \in SUBSET Bots
            OBVIOUS
          <5>2. QED
            BY <4>3, <5>1
        <4>4. QED
          BY <4>1, <4>2, <4>3
      <3>2. TypeOK'
        BY <1>4, <2>2, <3>1 DEF Restore, Locations
      <3>3. Shape'
        BY <1>4, <2>1, <2>2 DEF Restore, CurShape, WaitShape, TaskShape, ChildShape,
                                CommandLocations
      <3>4. QED
        BY <3>2, <3>3
    <2>3. ASSUME NEW b \in todo[w], todo' = [todo EXCEPT ![w] = @ \ {b}],
                 LoopStartsBot(w, b)
          PROVE  IInv'
      <3>1. b \in Bots /\ todo' \in [Workers -> SUBSET Bots]
        BY <2>3
      <3>2. /\ pc' \in [Workers -> Locations]
            /\ tasks' \in [Workers -> [Tasks -> Task]]
            /\ TaskShape'
            /\ \A v \in Workers : v # w => pc'[v] = pc[v] /\ tasks'[v] = tasks[v]
            /\ pc'[w] \in CommandLocations => cur[w] # 0
            /\ tasks'[w][Main].at # "idle" => pc'[w] = "starting"
        BY <2>1, <2>3, <3>1, LoopStartsBotInv
      <3>3. TypeOK'
        BY <1>4, <3>1, <3>2 DEF Restore
      <3>u. UNCHANGED <<commands, cur, waiting, child>>
        BY <1>4 DEF Restore
      <3>4. CurShape' /\ ChildShape'
        BY <3>u, <3>2 DEF CurShape, ChildShape
      <3>5. WaitShape'
        BY <3>u, <2>1, <3>2 DEF WaitShape
      <3>6. QED
        BY <3>2, <3>3, <3>4, <3>5
    <2>4. QED
      BY <1>4, <2>2, <2>3 DEF Restore
  <1>5. CASE Claim(w)
    <2>1. PICK i \in DOMAIN commands :
            commands' = SetStatus(i, "PROCESSING") /\ cur' = [cur EXCEPT ![w] = i]
      BY <1>5 DEF Claim, MarkClaimed
    <2>2. commands' \in Seq(CommandRow) /\ DOMAIN commands' = DOMAIN commands
      BY <2>1, SetStatusType DEF Status
    <2>3. i \in Nat /\ i # 0
      BY QueueRows
    <2>4. TypeOK'
      BY <1>5, <2>1, <2>2, <2>3 DEF Claim, Locations
    <2>5. CurShape'
      BY <1>5, <2>1, <2>2, <2>3 DEF Claim, CurShape
    <2>6. WaitShape' /\ TaskShape' /\ ChildShape'
      BY <1>5 DEF Claim, WaitShape, TaskShape, ChildShape
    <2>7. QED
      BY <2>4, <2>5, <2>6
  <1>6. CASE PollIdle(w)
    BY <1>6 DEF PollIdle, vars, CurShape, WaitShape, TaskShape, ChildShape
  <1>7. QED
    BY <1>1, <1>2, <1>3, <1>4, <1>5, <1>6

\* The command a worker is at exists, and so does its bot.
LEMMA CurrentCommand ==
    ASSUME IInv, NEW w \in Workers, pc[w] \in CommandLocations
    PROVE  /\ cur[w] \in DOMAIN commands /\ cur[w] # 0
           /\ CurBot(w) \in Bots /\ Command(w).kind \in CommandKinds
  BY QueueRows DEF IInv, TypeOK, Shape, CurShape, CurBot, Command

\* stopBot's synchronous part.
LEMMA StopsBotInv ==
    ASSUME IInv, NEW w \in Workers, NEW b \in Bots, NEW close, StopsBot(w, b, close),
           pc[w] = "begin"
    PROVE  /\ processes' \in [Workers -> [Bots -> Children \cup {None}]]
           /\ attempts' \in [Workers -> [Bots -> Nat]]
           /\ resetTimer' \in [Workers -> [Bots -> Children \cup {None}]]
           /\ child' \in [Children -> Process]
           /\ waiting' \in [Workers -> Children \cup {None}]
           /\ pc' \in [Workers -> Locations]
           /\ ChildShape'
           /\ \A v \in Workers : v # w => pc'[v] = pc[v] /\ waiting'[v] = waiting[v]
           /\ waiting'[w] # None => pc'[w] = "stopWait"
  <1> USE ConstantsAssumption DEF IInv, TypeOK, Shape
  <1> DEFINE c == processes[w][b]
  <1>1. processes' \in [Workers -> [Bots -> Children \cup {None}]]
    BY DEF StopsBot, Untrack
  <1>2. /\ attempts' \in [Workers -> [Bots -> Nat]]
        /\ resetTimer' \in [Workers -> [Bots -> Children \cup {None}]]
    BY DEF StopsBot
  <1>3. waiting[w] = None
    BY DEF WaitShape
  <1>4. CASE AlreadyRunning(w, b)
    <2>1. c \in Children
      BY <1>4 DEF AlreadyRunning
    <2>2. StopMessage(close) \in {"stop", "suspend"}
      BY DEF StopMessage
    <2>3. /\ child' = [child EXCEPT ![c] = Asked(child[c], StopMessage(close))]
          /\ waiting' = [waiting EXCEPT ![w] = c]
          /\ pc' = [pc EXCEPT ![w] = "stopWait"]
      BY <1>4 DEF StopsBot, At
    <2>4. child' \in [Children -> Process]
      BY <2>1, <2>2, <2>3, ProcessType
    <2>5. ChildShape'
      BY <2>1, <2>3, ProcessKeeps DEF ChildShape
    <2>6. QED
      BY <1>1, <1>2, <2>1, <2>3, <2>4, <2>5 DEF Locations
  <1>5. CASE ~AlreadyRunning(w, b)
    <2>1. pc' = [pc EXCEPT ![w] = "stopped"] /\ UNCHANGED <<child, waiting>>
      BY <1>5 DEF StopsBot, At
    <2>2. ChildShape'
      BY <2>1 DEF ChildShape
    <2>3. QED
      BY <1>1, <1>2, <1>3, <2>1, <2>2 DEF Locations
  <1>6. QED
    BY <1>4, <1>5

\* handleCommand from its first write to its last.
LEMMA CommandInv ==
    ASSUME IInv, NEW w \in Workers,
           \/ Begin(w) \/ StopTimeout(w) \/ StopUnclean(w) \/ StopClean(w)
           \/ DeleteStage(w) \/ DeleteRow(w) \/ DeleteRm(w) \/ Settle(w) \/ CatchError(w)
           \/ CatchFail(w)
    PROVE  IInv'
  <1> USE ConstantsAssumption DEF IInv, TypeOK, Shape, dbVars, loopVars, memVars, osVars, At
  <1> DEFINE b == CurBot(w)
  <1>c. pc[w] \in CommandLocations
    BY DEF Begin, StopTimeout, StopUnclean, StopClean, DeleteStage, DeleteRow, DeleteRm, Settle,
           CatchError, CatchFail, CommandLocations
  <1>b. /\ cur[w] \in DOMAIN commands /\ cur[w] # 0
        /\ b \in Bots /\ Command(w).kind \in CommandKinds
    BY <1>c, CurrentCommand
  <1>m. tasks[w][Main].at = "idle"
    BY <1>c DEF WaitShape, CommandLocations
  <1>r. /\ \A k \in CommandKinds : [bots[b] EXCEPT !.desired = DesiredOf(k)] \in BotRow
        /\ [bots[b] EXCEPT !.actual = "STOPPED", !.owner = None] \in BotRow
        /\ [bots[b] EXCEPT !.exists = FALSE, !.owner = None] \in BotRow
    <2>1. \A k : DesiredOf(k) \in {"RUNNING", "STOPPED"}
      BY DEF DesiredOf
    <2>2. bots[b] \in BotRow
      BY <1>b
    <2>3. QED
      BY <2>1, <2>2, RowType DEF States
  <1> HIDE DEF b
  <1>1. CASE Begin(w)
    <2>0. waiting[w] = None
      BY <1>1 DEF Begin, WaitShape
    <2>1. bots' \in [Bots -> BotRow]
      <3>1. bots' = SetRow(b, [bots[b] EXCEPT !.desired = DesiredOf(Command(w).kind)])
        BY <1>1 DEF Begin, b
      <3>2. QED
        BY <3>1, <1>b, <1>r, SetRowType
    <2>u. UNCHANGED <<commands, registry, lock, cur, todo, drain, stopping, writes,
                      dataDir, position>>
      BY <1>1 DEF Begin
    <2>2. ASSUME NEW close, StopsBot(w, b, close), UNCHANGED tasks
          PROVE  IInv'
      <3>1. /\ processes' \in [Workers -> [Bots -> Children \cup {None}]]
            /\ attempts' \in [Workers -> [Bots -> Nat]]
            /\ resetTimer' \in [Workers -> [Bots -> Children \cup {None}]]
            /\ child' \in [Children -> Process]
            /\ waiting' \in [Workers -> Children \cup {None}]
            /\ pc' \in [Workers -> Locations]
            /\ ChildShape'
            /\ \A v \in Workers : v # w => pc'[v] = pc[v] /\ waiting'[v] = waiting[v]
            /\ waiting'[w] # None => pc'[w] = "stopWait"
        BY <1>1, <1>b, <2>2, StopsBotInv DEF Begin
      <3>2. TypeOK'
        BY <2>1, <2>u, <2>2, <3>1
      <3>3. CurShape'
        BY <1>b, <2>u, <3>1 DEF CurShape
      <3>4. WaitShape'
        BY <1>m, <2>2, <3>1 DEF WaitShape
      <3>5. TaskShape'
        BY <2>2 DEF TaskShape
      <3>6. QED
        BY <3>1, <3>2, <3>3, <3>4, <3>5
    <2>3. ASSUME pc' = [pc EXCEPT ![w] = "deleting"],
                 UNCHANGED <<processes, attempts, resetTimer, child, waiting, tasks>>
          PROVE  IInv'
      <3>1. TypeOK'
        BY <2>1, <2>u, <2>3 DEF Locations
      <3>2. CurShape'
        BY <1>b, <2>u, <2>3 DEF CurShape
      <3>3. WaitShape' /\ TaskShape' /\ ChildShape'
        BY <1>m, <2>0, <2>3 DEF WaitShape, TaskShape, ChildShape
      <3>4. QED
        BY <3>1, <3>2, <3>3
    <2>4. ASSUME LoopStartsBot(w, b),
                 UNCHANGED <<processes, attempts, resetTimer, child, waiting>>
          PROVE  IInv'
      <3>1. /\ pc' \in [Workers -> Locations]
            /\ tasks' \in [Workers -> [Tasks -> Task]]
            /\ TaskShape'
            /\ \A v \in Workers : v # w => pc'[v] = pc[v] /\ tasks'[v] = tasks[v]
            /\ tasks'[w][Main].at # "idle" => pc'[w] = "starting"
        BY <1>1, <1>b, <2>0, <2>4, LoopStartsBotInv DEF Begin
      <3>2. TypeOK'
        BY <2>1, <2>u, <2>4, <3>1
      <3>3. CurShape' /\ ChildShape'
        BY <1>b, <2>u, <2>4, <3>1 DEF CurShape, ChildShape
      <3>4. WaitShape'
        BY <2>0, <2>4, <3>1 DEF WaitShape
      <3>5. QED
        BY <3>1, <3>2, <3>3, <3>4
    <2>5. QED
      BY <1>1, <2>2, <2>3, <2>4 DEF Begin, b
  <1>2. CASE StopTimeout(w)
    <2>1. /\ child' = [child EXCEPT ![waiting[w]] = Asked(child[waiting[w]], "suspend")]
          /\ waiting' = [waiting EXCEPT ![w] = None]
          /\ pc' = [pc EXCEPT ![w] = "unclean"]
      BY <1>2 DEF StopTimeout
    <2>2. child' \in [Children -> Process]
      BY <2>1, ProcessType
    <2>3. TypeOK'
      BY <1>2, <2>1, <2>2 DEF StopTimeout, Locations
    <2>4. ChildShape'
      BY <2>1, ProcessKeeps DEF ChildShape
    <2>5. CurShape' /\ TaskShape'
      BY <1>2, <1>b, <2>1 DEF StopTimeout, CurShape, TaskShape
    <2>6. WaitShape'
      BY <1>2, <1>m, <2>1 DEF StopTimeout, WaitShape
    <2>7. QED
      BY <2>3, <2>4, <2>5, <2>6
  <1>3. CASE StopUnclean(w)
    <2>0. waiting[w] = None
      BY <1>3 DEF StopUnclean, WaitShape
    <2>1. bots' \in [Bots -> BotRow]
      BY <1>3, FailBotType DEF StopUnclean
    <2>2. TypeOK'
      BY <1>3, <2>1 DEF StopUnclean, Locations
    <2>3. Shape'
      BY <1>3, <1>b, <1>m, <2>0
         DEF StopUnclean, CurShape, WaitShape, TaskShape, ChildShape
    <2>4. QED
      BY <2>2, <2>3
  <1>4. CASE StopClean(w)
    <2>0. waiting[w] = None
      BY <1>4 DEF StopClean, WaitShape
    <2>1. bots' \in [Bots -> BotRow]
      <3>1. bots' = SetRow(b, [bots[b] EXCEPT !.actual = "STOPPED", !.owner = None])
        BY <1>4 DEF StopClean, b
      <3>2. QED
        BY <3>1, <1>b, <1>r, SetRowType
    <2>u. UNCHANGED <<commands, registry, lock, cur, waiting, todo, drain, stopping,
                      processes, attempts, resetTimer, writes, child, dataDir, position>>
      BY <1>4 DEF StopClean
    <2>2. CASE LoopStartsBot(w, b)
      <3>1. /\ pc' \in [Workers -> Locations]
            /\ tasks' \in [Workers -> [Tasks -> Task]]
            /\ TaskShape'
            /\ \A v \in Workers : v # w => pc'[v] = pc[v] /\ tasks'[v] = tasks[v]
            /\ tasks'[w][Main].at # "idle" => pc'[w] = "starting"
        BY <1>4, <1>b, <2>0, <2>2, LoopStartsBotInv DEF StopClean
      <3>2. TypeOK'
        BY <2>1, <2>u, <3>1
      <3>3. CurShape' /\ ChildShape'
        BY <1>b, <2>u, <3>1 DEF CurShape, ChildShape
      <3>4. WaitShape'
        BY <2>0, <2>u, <3>1 DEF WaitShape
      <3>5. QED
        BY <3>1, <3>2, <3>3, <3>4
    <2>3. ASSUME NEW loc \in {"deleting", "settle"}, pc' = [pc EXCEPT ![w] = loc],
                 UNCHANGED tasks
          PROVE  IInv'
      <3>1. TypeOK'
        BY <2>1, <2>u, <2>3 DEF Locations
      <3>2. CurShape' /\ TaskShape' /\ ChildShape'
        BY <1>b, <2>u, <2>3 DEF CurShape, TaskShape, ChildShape
      <3>3. WaitShape'
        BY <1>m, <2>0, <2>u, <2>3 DEF WaitShape
      <3>4. QED
        BY <3>1, <3>2, <3>3
    <2>4. QED
      BY <1>4, <2>2, <2>3 DEF StopClean, b
  <1>5. CASE DeleteStage(w)
    <2>0. waiting[w] = None
      BY <1>5 DEF DeleteStage, WaitShape
    <2>1. /\ registry' = [registry EXCEPT ![b] = IF "live" \in dataDir[b]
                                                 THEN Registered(b) ELSE registry[b]]
          /\ dataDir' = [dataDir EXCEPT ![b] = Staged(dataDir[b])]
          /\ pc' = [pc EXCEPT ![w] = "deleteRow"]
      BY <1>5 DEF DeleteStage, b
    <2>2. Registered(b) \in {"absent", "active", "deleted"}
      BY <1>b DEF Registered
    <2>3. Staged(dataDir[b]) \in SUBSET {"live", "staged", "orphan"}
      BY <1>b DEF Staged
    <2>4. TypeOK'
      <3>1. dataDir' \in [Bots -> SUBSET {"live", "staged", "orphan"}]
        BY <2>1, <2>3
      <3>2. registry' \in [Bots -> {"absent", "active", "deleted"}]
        BY <1>b, <2>1, <2>2
      <3>3. QED
        BY <1>5, <2>1, <3>1, <3>2 DEF DeleteStage, Locations
    <2>5. CurShape' /\ TaskShape' /\ ChildShape'
      BY <1>5, <1>b, <2>1 DEF DeleteStage, CurShape, TaskShape, ChildShape
    <2>6. WaitShape'
      BY <1>5, <1>m, <2>0, <2>1 DEF DeleteStage, WaitShape
    <2>7. QED
      BY <2>4, <2>5, <2>6
  <1>6. CASE DeleteRow(w)
    <2>0. waiting[w] = None
      BY <1>6 DEF DeleteRow, WaitShape
    <2>1. /\ registry' = [registry EXCEPT ![b] = IF registry[b] = "active" THEN "deleted"
                                                 ELSE registry[b]]
          /\ bots' = [bots EXCEPT ![b] = [bots[b] EXCEPT !.exists = FALSE, !.owner = None]]
          /\ pc' = [pc EXCEPT ![w] = "deleteRm"]
      BY <1>6 DEF DeleteRow, MarkedDeleted, b
    <2>2. commands' \in Seq(CommandRow) /\ DOMAIN commands' = DOMAIN commands
      BY <1>6, DeleteKeeps
    <2>4. bots' \in [Bots -> BotRow]
      BY <1>r, <2>1
    <2>3. registry' \in [Bots -> {"absent", "active", "deleted"}]
      BY <1>b, <2>1
    <2>5. TypeOK'
      BY <1>6, <1>b, <2>1, <2>2, <2>3, <2>4 DEF DeleteRow, Locations
    <2>6. CurShape' /\ TaskShape' /\ ChildShape'
      BY <1>6, <1>b, <2>1, <2>2 DEF DeleteRow, CurShape, TaskShape, ChildShape
    <2>7. WaitShape'
      BY <1>6, <1>m, <2>0, <2>1 DEF DeleteRow, WaitShape
    <2>8. QED
      BY <2>5, <2>6, <2>7
  <1>7. CASE Settle(w)
    <2>0. waiting[w] = None
      BY <1>7 DEF Settle, WaitShape
    <2>1. commands' \in Seq(CommandRow) /\ DOMAIN commands' = DOMAIN commands
      BY <1>7, SetStatusType DEF Settle, Status
    <2>2. TypeOK'
      BY <1>7, <2>1 DEF Settle, Locations
    <2>3. CurShape' /\ TaskShape' /\ ChildShape'
      BY <1>7, <2>1 DEF Settle, CurShape, TaskShape, ChildShape, CommandLocations
    <2>4. WaitShape'
      BY <1>7, <1>m, <2>0 DEF Settle, WaitShape
    <2>5. QED
      BY <2>2, <2>3, <2>4
  <1>8. CASE CatchError(w)
    <2>0. waiting[w] = None
      BY <1>8 DEF CatchError, WaitShape
    <2>1. commands' \in Seq(CommandRow) /\ DOMAIN commands' = DOMAIN commands
      BY <1>8, SetStatusType DEF CatchError, Status
    <2>2. TypeOK'
      BY <1>8, <2>1 DEF CatchError, Locations
    <2>3. CurShape' /\ TaskShape' /\ ChildShape'
      BY <1>8, <1>b, <2>1 DEF CatchError, CurShape, TaskShape, ChildShape
    <2>4. WaitShape'
      BY <1>8, <1>m, <2>0 DEF CatchError, WaitShape
    <2>5. QED
      BY <2>2, <2>3, <2>4
  <1>9. CASE CatchFail(w)
    <2>0. waiting[w] = None
      BY <1>9 DEF CatchFail, WaitShape
    <2>1. bots' \in [Bots -> BotRow]
      BY <1>9, FailBotType DEF CatchFail
    <2>2. TypeOK'
      BY <1>9, <2>1 DEF CatchFail, Locations
    <2>3. CurShape' /\ TaskShape' /\ ChildShape'
      BY <1>9 DEF CatchFail, CurShape, TaskShape, ChildShape, CommandLocations
    <2>4. WaitShape'
      BY <1>9, <1>m, <2>0 DEF CatchFail, WaitShape
    <2>5. QED
      BY <2>2, <2>3, <2>4
  <1>10. CASE DeleteRm(w)
    <2>0. waiting[w] = None
      BY <1>10 DEF DeleteRm, WaitShape
    <2>1. \A d \in SUBSET {"live", "staged", "orphan"} :
             {d \ {"staged"}, Orphaned(d)} \subseteq SUBSET {"live", "staged", "orphan"}
      BY DEF Orphaned
    <2>2. PICK d \in SUBSET {"live", "staged", "orphan"} : dataDir' = [dataDir EXCEPT ![b] = d]
      <3>1. \/ dataDir' = [dataDir EXCEPT ![b] = dataDir[b] \ {"staged"}]
            \/ dataDir' = [dataDir EXCEPT ![b] = Orphaned(dataDir[b])]
        BY <1>10 DEF DeleteRm, b
      <3>2. dataDir[b] \in SUBSET {"live", "staged", "orphan"}
        BY <1>b
      <3>3. /\ dataDir[b] \ {"staged"} \in SUBSET {"live", "staged", "orphan"}
            /\ Orphaned(dataDir[b]) \in SUBSET {"live", "staged", "orphan"}
        BY <2>1, <3>2
      <3>4. QED
        BY <3>1, <3>3
    <2>3. dataDir' \in [Bots -> SUBSET {"live", "staged", "orphan"}]
      BY <2>2
    <2>4. TypeOK'
      BY <1>10, <2>3 DEF DeleteRm, Locations
    <2>5. CurShape' /\ TaskShape' /\ ChildShape'
      BY <1>10, <1>b DEF DeleteRm, CurShape, TaskShape, ChildShape
    <2>6. WaitShape'
      BY <1>10, <1>m, <2>0 DEF DeleteRm, WaitShape
    <2>7. QED
      BY <2>4, <2>5, <2>6
  <1>11. QED
    BY <1>1, <1>2, <1>3, <1>4, <1>5, <1>6, <1>7, <1>8, <1>9, <1>10

\* Shutdown, and the end of runLeader and main.
LEMMA DrainInv ==
    ASSUME IInv, Tracking, NEW w \in Workers,
           \/ Shutdown(w) \/ ExitStandby(w) \/ DrainStart(w) \/ DrainBot(w)
           \/ DrainError(w) \/ Relinquish(w)
    PROVE  IInv'
  <1> USE ConstantsAssumption DEF IInv, TypeOK, Shape, dbVars, loopVars, memVars, osVars, At
  <1>1. CASE Shutdown(w)
    BY <1>1 DEF Shutdown, CurShape, WaitShape, TaskShape, ChildShape
  <1>2. CASE ExitStandby(w)
    BY <1>2 DEF ExitStandby, Locations, CurShape, WaitShape, TaskShape, ChildShape,
                CommandLocations
  <1>3. CASE DrainStart(w)
    <2>1. {<<b, processes[w][b]>> : b \in Tracked(w)} \in SUBSET (Bots \X Children)
      BY DEF Tracked
    <2>2. drain' \in [Workers -> SUBSET (Bots \X Children)]
      BY <1>3, <2>1 DEF DrainStart
    <2>3. \A c \in Children : /\ Asked(child[c], "suspend") \in Process
                              /\ child'[c] \in {child[c], Asked(child[c], "suspend")}
      BY <1>3, ProcessType DEF DrainStart, SuspendAll
    <2>4. child' \in [Children -> Process]
      BY <1>3, <2>3 DEF DrainStart, SuspendAll
    <2>5. processes' \in [Workers -> [Bots -> Children \cup {None}]]
      BY <1>3 DEF DrainStart
    <2>6. TypeOK'
      BY <1>3, <2>2, <2>4, <2>5 DEF DrainStart, Locations
    <2>7. ChildShape'
      <3>1. \A c \in Children : /\ Asked(child[c], "suspend").owner = child[c].owner
                                /\ Asked(child[c], "suspend").bot = child[c].bot
                                /\ Asked(child[c], "suspend").st = child[c].st
                                /\ Asked(child[c], "suspend").msgs = child[c].msgs
        BY ProcessKeeps
      <3>2. QED
        BY <2>3, <3>1 DEF ChildShape
    <2>8. CurShape' /\ WaitShape' /\ TaskShape'
      BY <1>3 DEF DrainStart, CurShape, WaitShape, TaskShape, CommandLocations
    <2>9. QED
      BY <2>6, <2>7, <2>8
  <1>4. CASE DrainBot(w)
    <2>1. PICK p \in drain[w] :
            /\ child' \in {child, [child EXCEPT ![p[2]] = Ended(child[p[2]], "signal", {})]}
            /\ drain' = [drain EXCEPT ![w] = drain[w] \ {p}]
            /\ bots' \in {bots, SetRow(p[1], [bots[p[1]] EXCEPT !.actual = "STARTING",
                                                                !.owner = None])}
      BY <1>4 DEF DrainBot
    <2>2. p[1] \in Bots /\ p[2] \in Children
      OBVIOUS
    <2>3. bots' \in [Bots -> BotRow]
      <3>1. [bots[p[1]] EXCEPT !.actual = "STARTING", !.owner = None] \in BotRow
        BY <2>2, RowType DEF States
      <3>2. QED
        BY <2>1, <3>1, SetRowType
    <2>4. drain' \in [Workers -> SUBSET (Bots \X Children)]
      <3>1. drain[w] \ {p} \in SUBSET (Bots \X Children)
        OBVIOUS
      <3>2. QED
        BY <2>1, <3>1
    <2>5. child' \in [Children -> Process]
      <3>1. Ended(child[p[2]], "signal", {}) \in Process
        BY <2>2, ProcessType
      <3>2. QED
        BY <2>1, <3>1
    <2>6. TypeOK'
      BY <1>4, <2>3, <2>4, <2>5 DEF DrainBot
    <2>7. ChildShape'
      <3>1. \A c \in Children : child[c].st # "unused" =>
              child[c].owner \in Workers /\ child[c].bot \in Bots
        BY DEF ChildShape
      <3>2. child[p[2]].st # "unused"
        BY DEF Tracking, DrainUsed
      <3>3. /\ Ended(child[p[2]], "signal", {}).owner = child[p[2]].owner
            /\ Ended(child[p[2]], "signal", {}).bot = child[p[2]].bot
        BY <2>2, ProcessKeeps
      <3>4. QED
        BY <2>1, <2>2, <3>1, <3>2, <3>3, ZenonT(30) DEF ChildShape
    <2>9. CurShape' /\ WaitShape' /\ TaskShape'
      BY <1>4 DEF DrainBot, CurShape, WaitShape, TaskShape
    <2>10. QED
      BY <2>6, <2>7, <2>9
  <1>5. CASE DrainError(w)
    <2>1. PICK p \in drain[w] : drain' = [drain EXCEPT ![w] = drain[w] \ {p}]
      BY <1>5 DEF DrainError
    <2>2. drain[w] \ {p} \in SUBSET (Bots \X Children)
      OBVIOUS
    <2>3. drain' \in [Workers -> SUBSET (Bots \X Children)]
      BY <2>1, <2>2
    <2>4. TypeOK'
      BY <1>5, <2>3 DEF DrainError, Locations
    <2>5. Shape'
      BY <1>5 DEF DrainError, CurShape, WaitShape, TaskShape, ChildShape, CommandLocations
    <2>6. QED
      BY <2>4, <2>5
  <1>6. CASE Relinquish(w)
    BY <1>6 DEF Relinquish, Unlock, Locations, CurShape, WaitShape, TaskShape, ChildShape,
                CommandLocations
  <1>7. QED
    BY <1>1, <1>2, <1>3, <1>4, <1>5, <1>6

\* The end of a worker process.
LEMMA DiesInv ==
    ASSUME IInv, NEW w \in Workers, Dies(w), bots' \in [Bots -> BotRow]
    PROVE  IInv'
  <1> USE ConstantsAssumption DEF IInv, TypeOK, Shape, At
  <1>1. NoTask \in Task /\ NoTask.at = "idle"
    BY DEF Task, NoTask
  <1>2. /\ tasks' \in [Workers -> [Tasks -> Task]]
        /\ \A t \in Tasks : tasks'[w][t] = NoTask
        /\ \A v \in Workers : v # w => tasks'[v] = tasks[v]
    BY <1>1 DEF Dies
  <1>3. \A c \in Children : /\ Asked(child[c], "suspend") \in Process
                            /\ child'[c] \in {child[c], Asked(child[c], "suspend")}
    BY ProcessType DEF Dies
  <1>4. child' \in [Children -> Process]
    BY <1>3 DEF Dies
  <1>5. dataDir' \in [Bots -> SUBSET {"live", "staged", "orphan"}]
    <2>1. \A x \in Bots : Orphaned(dataDir[x]) \in SUBSET {"live", "staged", "orphan"}
      BY DEF Orphaned
    <2>2. \/ dataDir' = dataDir
          \/ dataDir' = [dataDir EXCEPT ![CurBot(w)] = Orphaned(dataDir[CurBot(w)])]
      BY DEF Dies
    <2>3. QED
      BY <2>1, <2>2, ExceptType
  <1>6. /\ processes' \in [Workers -> [Bots -> Children \cup {None}]]
        /\ attempts' \in [Workers -> [Bots -> Nat]]
        /\ resetTimer' \in [Workers -> [Bots -> Children \cup {None}]]
    BY DEF Dies
  <1>7. /\ cur' \in [Workers -> Nat] /\ waiting' \in [Workers -> Children \cup {None}]
        /\ todo' \in [Workers -> SUBSET Bots]
        /\ drain' \in [Workers -> SUBSET (Bots \X Children)]
        /\ writes' \in [Workers -> SUBSET ({"RUNNING", "FAILED"} \X Bots)]
    BY DEF Dies
  <1>8. TypeOK'
    BY <1>2, <1>4, <1>5, <1>6, <1>7 DEF Dies, Locations
  <1>9. ChildShape'
    <2>1. \A c \in Children : /\ Asked(child[c], "suspend").owner = child[c].owner
                              /\ Asked(child[c], "suspend").bot = child[c].bot
                              /\ Asked(child[c], "suspend").st = child[c].st
                              /\ Asked(child[c], "suspend").msgs = child[c].msgs
      BY ProcessKeeps
    <2>2. QED
      BY <1>3, <2>1 DEF ChildShape
  <1>10. TaskShape'
    BY <1>1, <1>2 DEF TaskShape
  <1>11. CurShape'
    BY DEF Dies, CurShape, CommandLocations
  <1>12. WaitShape'
    BY <1>1, <1>2 DEF Dies, WaitShape, Tasks
  <1>13. QED
    BY <1>8, <1>9, <1>10, <1>11, <1>12

\* Faults of a worker and of its database sessions.
LEMMA FaultInv ==
    ASSUME IInv, NEW w \in Workers,
           \/ Crash(w) \/ RejectionKills(w) \/ SendKills(w)
           \/ LockLoss(w) \/ DbError(w) \/ IdleRelease(w)
    PROVE  IInv'
  <1> USE ConstantsAssumption DEF IInv, TypeOK, Shape, dbVars, loopVars, memVars, osVars, At
  <1>1. CASE Crash(w) \/ RejectionKills(w)
    BY <1>1, DiesInv DEF Crash, RejectionKills
  <1>2. CASE SendKills(w)
    <2> DEFINE b == CurBot(w)
    <2>1. b \in Bots
      BY <1>2, CurrentCommand DEF SendKills, CommandLocations
    <2>2. [bots[b] EXCEPT !.desired = DesiredOf(Command(w).kind)] \in BotRow
      BY <2>1, RowType DEF DesiredOf
    <2>3. bots' \in [Bots -> BotRow]
      BY <1>2, <2>2, SetRowType DEF SendKills
    <2>4. QED
      BY <1>2, <2>3, DiesInv DEF SendKills
  <1>3. CASE LockLoss(w)
    BY <1>3 DEF LockLoss, CurShape, WaitShape, TaskShape, ChildShape
  <1>4. CASE IdleRelease(w)
    BY <1>4 DEF IdleRelease, CurShape, WaitShape, TaskShape, ChildShape
  <1>5. CASE DbError(w)
    <2>1. PICK loc \in {"catch", "failed"} :
            /\ pc' = [pc EXCEPT ![w] = loc]
            /\ loc = "catch" => pc[w] \in CaughtLocations
            /\ pc[w] \in CaughtLocations \cup FatalLocations
      BY <1>5 DEF DbError
    <2>2. /\ pc[w] # "stopWait" /\ pc[w] # "starting"
          /\ CaughtLocations \subseteq CommandLocations
      BY <2>1 DEF CaughtLocations, FatalLocations, CommandLocations
    <2>3. dataDir' \in [Bots -> SUBSET {"live", "staged", "orphan"}]
      <3>1. \A x \in Bots : Unstaged(dataDir[x]) \in SUBSET {"live", "staged", "orphan"}
        BY DEF Unstaged, Orphaned
      <3>2. \/ dataDir' = dataDir
            \/ dataDir' = [dataDir EXCEPT ![CurBot(w)] = Unstaged(dataDir[CurBot(w)])]
        BY <1>5 DEF DbError
      <3>3. QED
        BY <3>1, <3>2, ExceptType
    <2>4. TypeOK'
      BY <1>5, <2>1, <2>3 DEF DbError, Locations
    <2>5. CurShape' /\ TaskShape' /\ ChildShape'
      BY <1>5, <2>1, <2>2 DEF DbError, CurShape, TaskShape, ChildShape, CommandLocations
    <2>6. WaitShape'
      BY <1>5, <2>1, <2>2 DEF DbError, WaitShape
    <2>7. QED
      BY <2>4, <2>5, <2>6
  <1>6. QED
    BY <1>1, <1>2, <1>3, <1>4, <1>5

\* Events of a process as its worker sees them.
LEMMA EventInv ==
    ASSUME IInv, NEW c \in Children, ChildEvent(c)
    PROVE  IInv'
  <1> USE ConstantsAssumption DEF IInv, TypeOK, Shape, dbVars, loopVars, memVars, osVars, At
  <1> DEFINE w == child[c].owner
             b == child[c].bot
             q == [child[c] EXCEPT !.reaped = TRUE]
  <1>p. child[c] \in Process
    OBVIOUS
  <1>q. /\ q \in Process /\ q.owner = w /\ q.bot = b /\ q.st = child[c].st
        /\ q.msgs = child[c].msgs
    BY <1>p DEF Process
  <1>r. ASSUME Reap(c)
        PROVE  child' \in [Children -> Process] /\ ChildShape'
    BY <1>q, <1>r DEF Reap, ChildShape
  <1>1. CASE ExitAwaited(c)
    <2>1. w \in Workers
      BY <1>1 DEF ExitAwaited, Exited, ChildShape
    <2>2. pc[w] = "stopWait"
      BY <1>1, <2>1 DEF ExitAwaited, WaitShape
    <2>3. PICK loc \in {"stopped", "unclean"} :
            pc' = [pc EXCEPT ![w] = loc] /\ waiting' = [waiting EXCEPT ![w] = None]
      BY <1>1 DEF ExitAwaited
    <2>4. Reap(c)
      BY <1>1 DEF ExitAwaited
    <2>5. TypeOK'
      BY <1>1, <1>r, <2>3, <2>4 DEF ExitAwaited, Locations
    <2>6. CurShape' /\ TaskShape' /\ ChildShape'
      BY <1>1, <1>r, <2>1, <2>2, <2>3, <2>4 DEF ExitAwaited, CurShape, TaskShape, CommandLocations
    <2>7. WaitShape'
      BY <1>1, <2>1, <2>2, <2>3 DEF ExitAwaited, WaitShape
    <2>8. QED
      BY <2>5, <2>6, <2>7
  <1>2. CASE ExitTracked(c)
    <2>1. w \in Workers /\ b \in Bots
      BY <1>2 DEF ExitTracked, Exited, ChildShape
    <2>2. Reap(c)
      BY <1>2 DEF ExitTracked
    <2>3. /\ processes' = [processes EXCEPT ![w][b] = None]
          /\ resetTimer' = [resetTimer EXCEPT ![w][b] = None]
      BY <1>2 DEF ExitTracked
    <2>4. /\ writes' \in [Workers -> SUBSET ({"RUNNING", "FAILED"} \X Bots)]
          /\ attempts' \in [Workers -> [Bots -> Nat]]
          /\ tasks' \in [Workers -> [Tasks -> Task]]
          /\ TaskShape'
          /\ \A v \in Workers : tasks'[v][Main] = tasks[v][Main]
      <3>1. CASE stopping[w]
        BY <1>2, <3>1 DEF ExitTracked, TaskShape
      <3>2. CASE ~stopping[w]
        <4>1. /\ writes' = [writes EXCEPT ![w] = writes[w] \cup {<<"FAILED", b>>}]
              /\ ScheduleRestart(w, b)
          BY <1>2, <3>2 DEF ExitTracked
        <4>2. writes[w] \cup {<<"FAILED", b>>} \in SUBSET ({"RUNNING", "FAILED"} \X Bots)
          BY <2>1
        <4>3. writes' \in [Workers -> SUBSET ({"RUNNING", "FAILED"} \X Bots)]
          BY <4>1, <4>2, ExceptType
        <4>4. attempts' \in [Workers -> [Bots -> Nat]]
          BY <2>1, <4>1 DEF ScheduleRestart
        <4> DEFINE k == [at |-> "timer", bot |-> b, child |-> None]
        <4>5. k \in Task /\ k.bot = b /\ k.at = "timer"
          BY <2>1 DEF Task
        <4>6. \/ tasks' = tasks
              \/ \E t \in Timers : tasks' = [tasks EXCEPT ![w][t] = k]
          BY <4>1 DEF ScheduleRestart
        <4> HIDE DEF k
        <4>7. CASE tasks' = tasks
          BY <4>3, <4>4, <4>7 DEF TaskShape
        <4>8. ASSUME NEW t \in Timers, tasks' = [tasks EXCEPT ![w][t] = k]
              PROVE  /\ tasks' \in [Workers -> [Tasks -> Task]]
                     /\ TaskShape'
                     /\ \A v \in Workers : tasks'[v][Main] = tasks[v][Main]
          <5>1. t \in Tasks /\ t # Main /\ Main \in Tasks
            BY DEF Tasks
          <5>2. tasks' \in [Workers -> [Tasks -> Task]]
            BY <2>1, <4>5, <4>8, <5>1
          <5>3. \A v \in Workers : tasks'[v][Main] = tasks[v][Main]
            BY <2>1, <4>8, <5>1
          <5>4. \A v \in Workers, u \in Tasks :
                  tasks'[v][u] = IF v = w /\ u = t THEN k ELSE tasks[v][u]
            BY <2>1, <4>8, <5>1
          <5>5. ASSUME NEW v \in Workers, NEW u \in Tasks
                PROVE  /\ tasks'[v][u].at # "idle" => tasks'[v][u].bot \in Bots
                       /\ tasks'[v][u].at = "mark" => tasks'[v][u].child \in Children
            <6>1. CASE tasks'[v][u] = k
              BY <2>1, <4>5, <6>1
            <6>2. CASE tasks'[v][u] = tasks[v][u]
              BY <6>2 DEF TaskShape
            <6>3. QED
              BY <5>4, <6>1, <6>2
          <5>6. QED
            BY <5>2, <5>3, <5>5 DEF TaskShape
        <4>9. QED
          BY <4>3, <4>4, <4>6, <4>7, <4>8
      <3>3. QED
        BY <3>1, <3>2
    <2>5. /\ processes' \in [Workers -> [Bots -> Children \cup {None}]]
          /\ resetTimer' \in [Workers -> [Bots -> Children \cup {None}]]
      BY <2>1, <2>3
    <2>6. TypeOK'
      BY <1>2, <1>r, <2>2, <2>4, <2>5 DEF ExitTracked
    <2>7. CurShape' /\ WaitShape'
      BY <1>2, <2>4 DEF ExitTracked, CurShape, WaitShape
    <2>8. QED
      BY <1>r, <2>2, <2>4, <2>6, <2>7
  <1>3. CASE ExitIgnored(c)
    <2>1. Reap(c)
      BY <1>3 DEF ExitIgnored
    <2>2. TypeOK'
      BY <1>3, <1>r, <2>1 DEF ExitIgnored
    <2>3. CurShape' /\ WaitShape' /\ TaskShape' /\ ChildShape'
      BY <1>3, <1>r, <2>1 DEF ExitIgnored, CurShape, WaitShape, TaskShape
    <2>4. QED
      BY <2>2, <2>3
  <1>4. ASSUME NEW m \in {"started", "error"}, OnMessage(c, m)
        PROVE  IInv'
    <2> DEFINE r == [child[c] EXCEPT !.msgs = child[c].msgs \ {m}]
    <2>1. r \in Process
      BY <1>p, ProcessType
    <2>2. r.owner = w /\ r.bot = b /\ r.st = child[c].st /\ (r.msgs # {} => child[c].msgs # {})
      BY <1>p DEF Process
    <2>3. child' = [child EXCEPT ![c] = r]
      BY <1>4 DEF OnMessage
    <2>4. child' \in [Children -> Process] /\ ChildShape'
      BY <2>1, <2>2, <2>3 DEF ChildShape
    <2>5. b \in Bots
      BY <1>4 DEF OnMessage, ChildShape
    <2>6. writes' \in [Workers -> SUBSET ({"RUNNING", "FAILED"} \X Bots)]
      <3>1. PICK x \in {"RUNNING", "FAILED"} :
              writes' = [writes EXCEPT ![w] = writes[w] \cup {<<x, b>>}]
        BY <1>4 DEF OnMessage
      <3>2. w \in Workers => writes[w] \cup {<<x, b>>} \in SUBSET ({"RUNNING", "FAILED"} \X Bots)
        BY <2>5
      <3>3. QED
        BY <3>1, <3>2, ExceptType
    <2>7. resetTimer' \in [Workers -> [Bots -> Children \cup {None}]]
      BY <1>4 DEF OnMessage
    <2>8. TypeOK'
      BY <1>4, <2>4, <2>6, <2>7 DEF OnMessage
    <2>9. CurShape' /\ WaitShape' /\ TaskShape'
      BY <1>4 DEF OnMessage, CurShape, WaitShape, TaskShape
    <2>10. QED
      BY <2>4, <2>8, <2>9
  <1>5. QED
    BY <1>1, <1>2, <1>3, <1>4 DEF ChildEvent

\* The timers and un-awaited writes of a worker.
LEMMA WriteInv ==
    ASSUME IInv, NEW w \in Workers,
           ApplyWrite(w) \/ \E b \in Bots : ResetFires(w, b)
    PROVE  IInv'
  <1> USE ConstantsAssumption DEF IInv, TypeOK, Shape, dbVars, loopVars, memVars, osVars
  <1>1. CASE ApplyWrite(w)
    <2>1. PICK p \in writes[w] :
            /\ bots' \in {bots, SetRow(p[2], [bots[p[2]] EXCEPT !.actual = p[1]])}
            /\ writes' = [writes EXCEPT ![w] = writes[w] \ {p}]
      BY <1>1 DEF ApplyWrite
    <2>2. p[1] \in {"RUNNING", "FAILED"} /\ p[2] \in Bots
      OBVIOUS
    <2>3. [bots[p[2]] EXCEPT !.actual = p[1]] \in BotRow
      BY <2>2, RowType DEF States
    <2>4. bots' \in [Bots -> BotRow]
      BY <2>1, <2>3, SetRowType
    <2>5. writes[w] \ {p} \in SUBSET ({"RUNNING", "FAILED"} \X Bots)
      OBVIOUS
    <2>6. writes' \in [Workers -> SUBSET ({"RUNNING", "FAILED"} \X Bots)]
      BY <2>1, <2>5, ExceptType
    <2>u. UNCHANGED <<commands, registry, lock, pc, cur, waiting, todo, drain, stopping,
                      processes, attempts, resetTimer, tasks, child, dataDir, position>>
      BY <1>1 DEF ApplyWrite
    <2>7. TypeOK'
      BY <2>4, <2>6, <2>u
    <2>8. Shape'
      BY <1>1 DEF ApplyWrite, CurShape, WaitShape, TaskShape, ChildShape
    <2>9. QED
      BY <2>7, <2>8
  <1>2. ASSUME NEW b \in Bots, ResetFires(w, b)
        PROVE  IInv'
    <2>1. /\ attempts' \in [Workers -> [Bots -> Nat]]
          /\ resetTimer' \in [Workers -> [Bots -> Children \cup {None}]]
      BY <1>2 DEF ResetFires
    <2>2. TypeOK'
      BY <1>2, <2>1 DEF ResetFires
    <2>3. Shape'
      BY <1>2 DEF ResetFires, CurShape, WaitShape, TaskShape, ChildShape
    <2>4. QED
      BY <2>2, <2>3
  <1>3. QED
    BY <1>1, <1>2

\* What a trading process does by itself, and that it keeps its supervisor, its
\* bot and the requests it got.
LEMMA ChildStep ==
    ASSUME IInv, NEW c \in Children,
           ChildLife(c) \/ ChildTrades(c) \/ ChildFails(c)
    PROVE  /\ child[c].st # "unused"
           /\ \E q \in Process :
                /\ child' = [child EXCEPT ![c] = q]
                /\ q.owner = child[c].owner /\ q.bot = child[c].bot
                /\ q.asked = child[c].asked /\ q.st # "unused"
                /\ q.closing => child[c].closing \/ "stop" \in child[c].asked
           /\ position' \in [Bots -> BOOLEAN]
           /\ UNCHANGED <<dbVars, loopVars, memVars, dataDir>>
  <1> USE ConstantsAssumption DEF IInv, TypeOK, ChildOnly
  <1>p. child[c] \in Process
    OBVIOUS
  <1>e. \A code \in {"zero", "one", "signal"}, sent \in {{}, {"error"}} :
          /\ Ended(child[c], code, sent) \in Process
          /\ Ended(child[c], code, sent).owner = child[c].owner
          /\ Ended(child[c], code, sent).bot = child[c].bot
          /\ Ended(child[c], code, sent).asked = child[c].asked
          /\ Ended(child[c], code, sent).st # "unused"
          /\ Ended(child[c], code, sent).closing = child[c].closing
    BY <1>p DEF Process, Ended
  <1>1. CASE ChildStarted(c)
    <2> DEFINE q == [child[c] EXCEPT !.st = "running", !.msgs = child[c].msgs \cup {"started"}]
    <2>1. q \in Process
      BY <1>p, ProcessType
    <2>2. /\ q.owner = child[c].owner /\ q.bot = child[c].bot
          /\ q.asked = child[c].asked /\ q.st # "unused" /\ q.closing = child[c].closing
      BY <1>p DEF Process
    <2>3. child' = [child EXCEPT ![c] = q]
      BY <1>1 DEF ChildStarted
    <2> HIDE DEF q
    <2>4. QED
      BY <1>1, <2>1, <2>2, <2>3 DEF ChildStarted
  <1>2. CASE ChildTrades(c)
    <2> DEFINE q == [child[c] EXCEPT !.knows = ~child[c].knows]
    <2>1. q \in Process
      BY <1>p, ProcessType
    <2>2. /\ q.owner = child[c].owner /\ q.bot = child[c].bot
          /\ q.asked = child[c].asked /\ q.st = child[c].st /\ q.closing = child[c].closing
      BY <1>p DEF Process
    <2>3. child' = [child EXCEPT ![c] = q]
      BY <1>2 DEF ChildTrades
    <2>4. child[c].st \in {"running", "stopping"}
      BY <1>2 DEF ChildTrades
    <2> HIDE DEF q
    <2>5. position' \in [Bots -> BOOLEAN]
      BY <1>2, ExceptType DEF ChildTrades
    <2>6. QED
      BY <1>2, <2>1, <2>2, <2>3, <2>4, <2>5 DEF ChildTrades
  <1>3. ASSUME NEW r \in {"stop", "suspend"}, ChildAsked(c, r)
        PROVE  /\ child[c].st # "unused"
               /\ \E q \in Process :
                    /\ child' = [child EXCEPT ![c] = q]
                    /\ q.owner = child[c].owner /\ q.bot = child[c].bot
                    /\ q.asked = child[c].asked /\ q.st # "unused"
                    /\ q.closing => child[c].closing \/ "stop" \in child[c].asked
               /\ position' \in [Bots -> BOOLEAN]
               /\ UNCHANGED <<dbVars, loopVars, memVars, dataDir>>
    <2> DEFINE q == [child[c] EXCEPT !.st = "stopping", !.closing = (r = "stop")]
    <2>1. q \in Process
      BY <1>p, ProcessType
    <2>2. /\ q.owner = child[c].owner /\ q.bot = child[c].bot
          /\ q.asked = child[c].asked /\ q.st # "unused" /\ q.closing = (r = "stop")
      BY <1>p DEF Process
    <2>3. child' = [child EXCEPT ![c] = q] /\ r \in child[c].asked
      BY <1>3 DEF ChildAsked
    <2> HIDE DEF q
    <2>4. QED
      BY <1>3, <2>1, <2>2, <2>3 DEF ChildAsked
  <1>4. CASE ChildExits(c)
    <2>1. child' = [child EXCEPT ![c] = Ended(child[c], "zero", {})]
      BY <1>4 DEF ChildExits
    <2>2. position' \in [Bots -> BOOLEAN]
      BY <1>4, ExceptType DEF ChildExits
    <2>3. QED
      BY <1>4, <1>e, <2>1, <2>2 DEF ChildExits
  <1>5. CASE ChildFails(c)
    <2>1. PICK code \in {"one", "signal"}, sent \in {{}, {"error"}} :
            child' = [child EXCEPT ![c] = Ended(child[c], code, sent)]
      BY <1>5 DEF ChildFails
    <2>2. QED
      BY <1>5, <1>e, <2>1 DEF ChildFails
  <1>6. QED
    BY <1>1, <1>2, <1>3, <1>4, <1>5 DEF ChildLife

\* A step of a trading process keeps the types.
LEMMA ChildInv ==
    ASSUME IInv, NEW c \in Children,
           ChildLife(c) \/ ChildTrades(c) \/ ChildFails(c)
    PROVE  IInv'
  <1> USE DEF IInv, TypeOK, Shape, dbVars, loopVars, memVars
  <1>1. PICK q \in Process :
          /\ child' = [child EXCEPT ![c] = q]
          /\ q.owner = child[c].owner /\ q.bot = child[c].bot
    BY ChildStep
  <1>2. /\ child[c].st # "unused" /\ position' \in [Bots -> BOOLEAN]
        /\ UNCHANGED <<dbVars, loopVars, memVars, dataDir>>
    BY ChildStep
  <1>3. TypeOK'
    BY <1>1, <1>2
  <1>4. ChildShape'
    BY <1>1, <1>2 DEF ChildShape
  <1>5. CurShape' /\ WaitShape' /\ TaskShape'
    BY <1>2 DEF CurShape, WaitShape, TaskShape
  <1>6. QED
    BY <1>3, <1>4, <1>5
-----------------------------------------------------------------------------
(***************************************************************************)
(* The processes map and the stop requests agree (TrackedIsUnasked), for   *)
(* every number of replicas, bots and processes.  Tracking is the          *)
(* strengthening that is inductive together with IInv.                     *)
(***************************************************************************)
Inv == IInv /\ Tracking

\* What all actions but three do to tracking: a worker may forget processes but
\* not take up new ones, and only processes it forgets get a request.
Keeps ==
    /\ \A w \in Workers, b \in Bots :
         /\ processes'[w][b] \in {processes[w][b], None}
         /\ processes'[w][b] # None =>
              child'[processes[w][b]].asked = child[processes[w][b]].asked
    /\ \A w \in Workers : waiting'[w] \in {waiting[w], None} /\ drain'[w] \subseteq drain[w]
    /\ \A c \in Children : child[c].st # "unused" =>
         /\ child'[c].owner = child[c].owner /\ child'[c].bot = child[c].bot
         /\ child'[c].st # "unused"
    /\ \A w \in Workers : pc'[w] = "down" =>
         /\ \A b \in Bots : processes'[w][b] = None
         /\ \A t \in Tasks : tasks'[w][t].at = "idle"

\* Such a step keeps the invariant.
LEMMA KeepsTracking ==
    ASSUME IInv, Tracking, Keeps
    PROVE  Tracking'
  <1>c. /\ processes \in [Workers -> [Bots -> Children \cup {None}]]
        /\ waiting \in [Workers -> Children \cup {None}]
        /\ drain \in [Workers -> SUBSET (Bots \X Children)]
        /\ None \notin Children
    BY ConstantsAssumption DEF IInv, TypeOK
  <1>t. TrackedIsUnasked /\ WaitOwn /\ DownIsEmpty /\ DrainUsed
    BY DEF Tracking
  <1>1. TrackedIsUnasked'
    <2> SUFFICES ASSUME NEW w \in Workers, NEW b \in Bots, NEW c \in Children,
                        processes'[w][b] = c
                 PROVE  /\ child'[c].owner = w /\ child'[c].bot = b
                        /\ child'[c].st # "unused" /\ child'[c].asked = {}
      BY DEF TrackedIsUnasked
    <2>1. processes[w][b] = c /\ c # None
      BY <1>c DEF Keeps
    <2>2. /\ child[c].owner = w /\ child[c].bot = b
          /\ child[c].st # "unused" /\ child[c].asked = {}
      BY <1>t, <2>1 DEF TrackedIsUnasked
    <2>3. child'[c].asked = child[c].asked
      BY <2>1 DEF Keeps
    <2>4. QED
      BY <2>2, <2>3 DEF Keeps
  <1>2. WaitOwn'
    <2> SUFFICES ASSUME NEW w \in Workers, waiting'[w] # None
                 PROVE  /\ child'[waiting'[w]].owner = w /\ child'[waiting'[w]].st # "unused"
                        /\ \A b \in Bots : processes'[w][b] # waiting'[w]
      BY DEF WaitOwn
    <2>1. waiting'[w] = waiting[w] /\ waiting[w] \in Children
      BY <1>c DEF Keeps
    <2>2. QED
      BY <1>c, <1>t, <2>1 DEF Keeps, WaitOwn
  <1>3. DownIsEmpty'
    BY <1>t DEF Keeps, DownIsEmpty
  <1>4. DrainUsed'
    <2> SUFFICES ASSUME NEW w \in Workers, NEW p \in drain'[w]
                 PROVE  child'[p[2]].st # "unused"
      BY DEF DrainUsed
    <2>1. p \in drain[w]
      BY DEF Keeps
    <2>2. p[2] \in Children
      BY <1>c, <2>1
    <2>3. QED
      BY <1>t, <2>1, <2>2 DEF Keeps, DrainUsed
  <1>5. QED
    BY <1>1, <1>2, <1>3, <1>4 DEF Tracking

\* A step that leaves the processes and the memory about them alone, and takes
\* no worker down.
LEMMA QuietKeeps ==
    ASSUME IInv, Tracking, UNCHANGED <<processes, waiting, drain, child, tasks>>,
           \A w \in Workers : pc'[w] = "down" => pc[w] = "down"
    PROVE  Tracking'
  <1>1. Keeps
    BY DEF Keeps, Tracking, DownIsEmpty
  <1>2. QED
    BY <1>1, KeepsTracking

\* A worker changes its own tasks while it is up.
LEMMA TaskKeeps ==
    ASSUME IInv, Tracking, UNCHANGED <<processes, waiting, drain, child>>,
           NEW w \in Workers, pc[w] # "down",
           \A v \in Workers : pc'[v] = "down" => pc[v] = "down",
           \A v \in Workers : v # w => tasks'[v] = tasks[v]
    PROVE  Tracking'
  <1>1. Keeps
    BY DEF Keeps, Tracking, DownIsEmpty
  <1>2. QED
    BY <1>1, KeepsTracking

\* Something happens to one used process that is not a request.
LEMMA ChildKeeps ==
    ASSUME IInv, Tracking, NEW c \in Children, NEW q,
           child' = [child EXCEPT ![c] = q], child[c].st # "unused",
           q.owner = child[c].owner, q.bot = child[c].bot, q.asked = child[c].asked,
           q.st # "unused",
           \A w \in Workers, b \in Bots : processes'[w][b] \in {processes[w][b], None},
           \A w \in Workers : waiting'[w] \in {waiting[w], None},
           \A w \in Workers : drain'[w] \subseteq drain[w],
           \A w \in Workers : pc'[w] = "down" =>
              pc[w] = "down" /\ \A t \in Tasks : tasks'[w][t].at = "idle"
    PROVE  Tracking'
  <1> USE ConstantsAssumption DEF IInv, TypeOK
  <1>1. \A d \in Children : /\ child'[d].owner = child[d].owner
                            /\ child'[d].bot = child[d].bot
                            /\ child'[d].asked = child[d].asked
                            /\ child[d].st # "unused" => child'[d].st # "unused"
    OBVIOUS
  <1>2. \A w \in Workers, b \in Bots : processes'[w][b] # None =>
          child'[processes[w][b]].asked = child[processes[w][b]].asked
    BY <1>1
  <1>3. \A w \in Workers : pc'[w] = "down" => \A b \in Bots : processes'[w][b] = None
    BY DEF Tracking, DownIsEmpty
  <1>4. Keeps
    BY <1>1, <1>2, <1>3 DEF Keeps
  <1>5. QED
    BY <1>4, KeepsTracking

-----------------------------------------------------------------------------
(***************************************************************************)
(* Each action keeps the invariant.                                        *)
(***************************************************************************)
\* The HTTP API knows nothing of processes.
LEMMA ApiTracking ==
    ASSUME IInv, Tracking, NEW b \in Bots, Api(b)
    PROVE  Tracking'
  <1>1. UNCHANGED <<processes, waiting, drain, child, tasks, pc>>
    BY DEF Api, PostCommand, PostDelete, ToggleConnection, Enqueue, loopVars, memVars, osVars
  <1>2. QED
    BY <1>1, QuietKeeps

\* Actions that touch neither processes nor the memory about them.
LEMMA QuietTracking ==
    ASSUME IInv, Tracking, NEW w \in Workers,
           \/ Elect(w) \/ Reconcile(w) \/ SelectDesired(w) \/ Claim(w)
           \/ PollIdle(w) \/ StopUnclean(w) \/ DeleteStage(w) \/ DeleteRow(w)
           \/ DeleteRm(w) \/ Settle(w) \/ CatchError(w) \/ CatchFail(w) \/ Shutdown(w)
           \/ ExitStandby(w) \/ Relinquish(w) \/ LockLoss(w) \/ IdleRelease(w)
           \/ DbError(w) \/ ApplyWrite(w) \/ \E b \in Bots : ResetFires(w, b)
    PROVE  Tracking'
  <1> USE DEF dbVars, loopVars, memVars, osVars, At
  <1>1. pc \in [Workers -> Locations]
    BY DEF IInv, TypeOK
  <1>3. CASE \/ Elect(w) \/ Reconcile(w) \/ SelectDesired(w) \/ Claim(w)
             \/ StopUnclean(w) \/ DeleteStage(w) \/ DeleteRow(w)
             \/ DeleteRm(w) \/ Settle(w) \/ CatchError(w) \/ CatchFail(w)
    <2>1. UNCHANGED <<processes, waiting, drain, child, tasks>>
      BY <1>3 DEF Elect, Reconcile, SelectDesired, Claim, StopUnclean, DeleteStage,
                  DeleteRow, DeleteRm, Settle, CatchError, CatchFail
    <2>2. \E loc \in Locations : loc # "down" /\ pc' = [pc EXCEPT ![w] = loc]
      BY <1>3 DEF Elect, Reconcile, SelectDesired, Claim, StopUnclean, DeleteStage,
                  DeleteRow, DeleteRm, Settle, CatchError, CatchFail, Locations
    <2>3. \A v \in Workers : pc'[v] = "down" => pc[v] = "down"
      BY <1>1, <2>2
    <2>4. QED
      BY <2>1, <2>3, QuietKeeps
  <1>4. CASE \/ PollIdle(w) \/ Shutdown(w) \/ LockLoss(w) \/ IdleRelease(w)
             \/ ApplyWrite(w) \/ \E b \in Bots : ResetFires(w, b)
    <2>1. UNCHANGED <<processes, waiting, drain, child, tasks, pc>>
      BY <1>4 DEF PollIdle, Shutdown, LockLoss, IdleRelease, ApplyWrite, ResetFires, vars
    <2>2. QED
      BY <2>1, QuietKeeps
  <1>5. CASE ExitStandby(w) \/ Relinquish(w) \/ DbError(w)
    <2>1. UNCHANGED <<processes, waiting, drain, child, tasks>>
      BY <1>5 DEF ExitStandby, Relinquish, DbError
    <2>2. \E loc \in Locations : loc # "down" /\ pc' = [pc EXCEPT ![w] = loc]
      BY <1>5 DEF ExitStandby, Relinquish, DbError, Locations
    <2>3. \A v \in Workers : pc'[v] = "down" => pc[v] = "down"
      BY <1>1, <2>2
    <2>4. QED
      BY <2>1, <2>3, QuietKeeps
  <1>6. QED
    BY <1>3, <1>4, <1>5

\* The loop calls startBot.
LEMMA LoopStartTracking ==
    ASSUME IInv, Tracking, NEW w \in Workers, NEW b, LoopStartsBot(w, b),
           pc[w] # "down", UNCHANGED <<processes, waiting, drain, child>>
    PROVE  Tracking'
  <1>1. /\ pc \in [Workers -> Locations] /\ AfterStart(w) # "down"
        /\ tasks \in [Workers -> [Tasks -> Task]]
    BY DEF IInv, TypeOK, AfterStart
  <1>2. \E loc : loc # "down" /\ pc' = [pc EXCEPT ![w] = loc]
    BY <1>1 DEF LoopStartsBot, At
  <1>3. \A v \in Workers : v # w => tasks'[v] = tasks[v]
    BY <1>1 DEF LoopStartsBot
  <1>4. QED
    BY <1>1, <1>2, <1>3, TaskKeeps

\* Loop steps that may call startBot.
LEMMA RestoreTracking ==
    ASSUME IInv, Tracking, NEW w \in Workers, Restore(w) \/ StopClean(w)
    PROVE  Tracking'
  <1> USE DEF dbVars, loopVars, memVars, osVars
  <1>1. /\ pc[w] # "down" /\ UNCHANGED <<processes, waiting, drain, child>>
        /\ pc \in [Workers -> Locations]
    BY DEF Restore, StopClean, IInv, TypeOK
  <1>2. \/ \E b : LoopStartsBot(w, b)
        \/ tasks' = tasks /\ \E loc : loc # "down" /\ pc' = [pc EXCEPT ![w] = loc]
        \/ tasks' = tasks /\ pc' = pc
    BY DEF Restore, StopClean, At
  <1>3. CASE tasks' = tasks
    BY <1>1, <1>2, <1>3, QuietKeeps, LoopStartTracking
  <1>4. QED
    BY <1>1, <1>2, <1>3, LoopStartTracking

\* startBot, but for the fork, and the restart timers.
LEMMA StartTracking ==
    ASSUME IInv, Tracking, NEW w \in Workers, NEW t \in Tasks,
           \/ StartLoad(w, t) \/ StartRegister(w, t) \/ StartMark(w, t)
           \/ StartError(w, t) \/ TimerFires(w, t)
    PROVE  Tracking'
  <1> USE DEF dbVars, loopVars, memVars, osVars
  <1>1. /\ pc \in [Workers -> Locations] /\ AfterStart(w) # "down"
        /\ tasks \in [Workers -> [Tasks -> Task]]
        /\ child \in [Children -> Process]
    BY DEF IInv, TypeOK, AfterStart
  <1>2. tasks[w][t].at # "idle" /\ pc[w] # "down"
    BY DEF StartLoad, StartRegister, StartMark, StartError, TimerFires, Tracking, DownIsEmpty
  <1>3. UNCHANGED <<processes, waiting, drain>>
    BY DEF StartLoad, StartRegister, StartMark, StartError, TimerFires
  <1>4. pc' = pc \/ \E loc : loc # "down" /\ pc' = [pc EXCEPT ![w] = loc]
    BY <1>1 DEF StartLoad, StartRegister, StartMark, StartError, TimerFires, StartThrows, At
  <1>5. \A v \in Workers : pc'[v] = "down" => pc[v] = "down"
    BY <1>1, <1>4
  <1>6. \E k : tasks' = [tasks EXCEPT ![w][t] = k]
    BY DEF StartLoad, StartRegister, StartMark, StartError, TimerFires, StartThrows
  <1>7. \A v \in Workers : v # w => tasks'[v] = tasks[v]
    BY <1>1, <1>6
  <1>8. CASE child' = child
    BY <1>2, <1>3, <1>5, <1>7, <1>8, TaskKeeps
  <1>9. CASE StartMark(w, t)
    <2> DEFINE c == tasks[w][t].child
               q == [child[c] EXCEPT !.listening = TRUE]
    <2>1. c \in Children /\ child' = [child EXCEPT ![c] = q]
      BY <1>9 DEF StartMark, IInv, Shape, TaskShape
    <2>2. child[c] \in Process
      BY <1>1, <2>1
    <2>3. /\ q.owner = child[c].owner /\ q.bot = child[c].bot
          /\ q.asked = child[c].asked /\ q.st = child[c].st
      BY <2>2 DEF Process
    <2> HIDE DEF q, c
    <2>4. Keeps
      <3>1. \A d \in Children : /\ child'[d].owner = child[d].owner
                                /\ child'[d].bot = child[d].bot
                                /\ child'[d].asked = child[d].asked
                                /\ child'[d].st = child[d].st
        BY <1>1, <2>1, <2>3
      <3>2. \A v \in Workers : pc'[v] = "down" =>
              /\ \A b \in Bots : processes'[v][b] = None
              /\ \A u \in Tasks : tasks'[v][u].at = "idle"
        BY <1>2, <1>3, <1>5, <1>7 DEF Tracking, DownIsEmpty
      <3>3. /\ processes \in [Workers -> [Bots -> Children \cup {None}]]
            /\ None \notin Children
        BY ConstantsAssumption DEF IInv, TypeOK
      <3>4. QED
        BY <1>3, <3>1, <3>2, <3>3 DEF Keeps
    <2>5. QED
      BY <2>4, KeepsTracking
  <1>10. QED
    BY <1>8, <1>9 DEF StartLoad, StartRegister, StartError, TimerFires

\* The process startBot forks is one nobody tracks or waits for, so tracking it
\* from now on takes no process from anybody.
LEMMA ForkTracking ==
    ASSUME IInv, Tracking, NEW w \in Workers, NEW t \in Tasks, StartFork(w, t)
    PROVE  Tracking'
  <1> DEFINE b == tasks[w][t].bot
  <1>1. PICK c \in Children :
          /\ Reusable(c)
          /\ child' = [child EXCEPT ![c] = Forked(w, b)]
          /\ processes' = [processes EXCEPT ![w][b] = c]
    BY DEF StartFork
  <1>2. /\ UNCHANGED <<waiting, drain, pc>> /\ b \in Bots /\ pc[w] # "down"
        /\ c # None /\ None \notin Children
    BY ConstantsAssumption DEF StartFork, loopVars, IInv, Shape, TaskShape, Tracking, DownIsEmpty
  <1>3. \A v \in Workers : v # w => tasks'[v] = tasks[v]
    BY DEF StartFork, IInv, TypeOK
  <1>4. /\ Forked(w, b).owner = w /\ Forked(w, b).bot = b
        /\ Forked(w, b).st = "booting" /\ Forked(w, b).asked = {}
    BY DEF Forked, NoProcess
  <1>5. ASSUME NEW v \in Workers, NEW x \in Bots PROVE processes[v][x] # c
    <2>1. processes[v][x] = c => child[c].owner = v /\ child[c].st # "unused"
      BY DEF Tracking, TrackedIsUnasked
    <2>2. pc[v] = "down" => processes[v][x] # c
      BY <1>2 DEF Tracking, DownIsEmpty
    <2>3. QED
      BY <1>1, <2>1, <2>2 DEF Reusable
  <1>6. ASSUME NEW v \in Workers PROVE waiting[v] # c
    <2>1. waiting[v] = c => child[c].owner = v /\ child[c].st # "unused"
      BY <1>2 DEF Tracking, WaitOwn
    <2>2. pc[v] = "down" => waiting[v] # c
      BY <1>2 DEF IInv, Shape, WaitShape
    <2>3. QED
      BY <1>1, <2>1, <2>2 DEF Reusable
  <1>7. \A v \in Workers, x \in Bots :
          processes'[v][x] = IF v = w /\ x = b THEN c ELSE processes[v][x]
    BY <1>1, <1>2 DEF IInv, TypeOK
  <1>8. /\ \A d \in Children : d # c => child'[d] = child[d]
        /\ child'[c].owner = w /\ child'[c].bot = b
        /\ child'[c].st = "booting" /\ child'[c].asked = {}
    BY <1>1, <1>4 DEF IInv, TypeOK
  <1>9. TrackedIsUnasked'
    <2> SUFFICES ASSUME NEW v \in Workers, NEW x \in Bots, NEW d \in Children,
                        processes'[v][x] = d
                 PROVE  /\ child'[d].owner = v /\ child'[d].bot = x
                        /\ child'[d].st # "unused" /\ child'[d].asked = {}
      BY DEF TrackedIsUnasked
    <2>1. CASE v = w /\ x = b
      BY <1>7, <1>8, <2>1
    <2>2. CASE ~(v = w /\ x = b)
      BY <1>5, <1>7, <1>8, <2>2 DEF Tracking, TrackedIsUnasked
    <2>3. QED
      BY <2>1, <2>2
  <1>10. WaitOwn'
    <2> SUFFICES ASSUME NEW v \in Workers, waiting'[v] # None
                 PROVE  /\ child'[waiting'[v]].owner = v /\ child'[waiting'[v]].st # "unused"
                        /\ \A x \in Bots : processes'[v][x] # waiting'[v]
      BY DEF WaitOwn
    <2>1. waiting'[v] = waiting[v] /\ waiting[v] \in Children
      BY <1>2 DEF IInv, TypeOK
    <2>2. QED
      BY <1>6, <1>7, <1>8, <2>1 DEF Tracking, WaitOwn
  <1>11. DownIsEmpty'
    BY <1>2, <1>3, <1>7 DEF Tracking, DownIsEmpty
  <1>12. DrainUsed'
    <2> SUFFICES ASSUME NEW v \in Workers, NEW p \in drain[v]
                 PROVE  child'[p[2]].st # "unused"
      BY <1>2 DEF DrainUsed
    <2>1. p[2] \in Children
      BY DEF IInv, TypeOK
    <2>2. QED
      BY <1>8, <2>1 DEF Tracking, DrainUsed
  <1>13. QED
    BY <1>9, <1>10, <1>11, <1>12 DEF Tracking

\* stopBot forgets the process before it asks it to end.
LEMMA StopTracking ==
    ASSUME IInv, Tracking, NEW w \in Workers, NEW b \in Bots, NEW close,
           StopsBot(w, b, close), pc[w] = "begin", UNCHANGED <<drain, tasks>>
    PROVE  Tracking'
  <1> DEFINE c == processes[w][b]
             q == Asked(child[c], StopMessage(close))
  <1>1. /\ pc \in [Workers -> Locations] /\ waiting \in [Workers -> Children \cup {None}]
        /\ processes \in [Workers -> [Bots -> Children \cup {None}]]
        /\ child \in [Children -> Process]
        /\ None \notin Children /\ drain \in [Workers -> SUBSET (Bots \X Children)]
    BY ConstantsAssumption DEF IInv, TypeOK
  <1>2. processes' = [processes EXCEPT ![w][b] = None]
    BY DEF StopsBot, Untrack
  <1>3. \A v \in Workers, x \in Bots :
          processes'[v][x] = IF v = w /\ x = b THEN None ELSE processes[v][x]
    BY <1>1, <1>2
  <1>4. \E loc : loc # "down" /\ pc' = [pc EXCEPT ![w] = loc]
    BY DEF StopsBot, At
  <1>5. \A v \in Workers : pc'[v] = "down" => pc[v] = "down"
    BY <1>1, <1>4
  <1>6. DownIsEmpty'
    BY <1>3, <1>5 DEF Tracking, DownIsEmpty
  <1>7. CASE ~AlreadyRunning(w, b)
    <2>1. UNCHANGED <<child, waiting>>
      BY <1>7 DEF StopsBot
    <2>2. Keeps
      BY <1>3, <1>6, <2>1 DEF Keeps, DownIsEmpty
    <2>3. QED
      BY <2>2, KeepsTracking
  <1>8. CASE AlreadyRunning(w, b)
    <2>1. /\ c \in Children /\ child' = [child EXCEPT ![c] = q]
          /\ waiting' = [waiting EXCEPT ![w] = c]
      BY <1>1, <1>8 DEF StopsBot, AlreadyRunning
    <2>2. child[c] \in Process
      BY <1>1, <2>1
    <2>3. q.owner = child[c].owner /\ q.bot = child[c].bot /\ q.st = child[c].st
      BY <2>2, ProcessKeeps
    <2>4. child[c].owner = w /\ child[c].bot = b /\ child[c].st # "unused"
      BY <2>1 DEF Tracking, TrackedIsUnasked
    <2>5. \A v \in Workers, x \in Bots : processes[v][x] = c => v = w /\ x = b
      BY <2>1, <2>4 DEF Tracking, TrackedIsUnasked
    <2> HIDE DEF q
    <2>6. /\ \A d \in Children : d # c => child'[d] = child[d]
          /\ \A d \in Children : /\ child'[d].owner = child[d].owner
                                 /\ child'[d].st = child[d].st
      BY <1>1, <2>1, <2>3
    <2>7. TrackedIsUnasked'
      <3> SUFFICES ASSUME NEW v \in Workers, NEW x \in Bots, NEW d \in Children,
                          processes'[v][x] = d
                   PROVE  /\ child'[d].owner = v /\ child'[d].bot = x
                          /\ child'[d].st # "unused" /\ child'[d].asked = {}
        BY DEF TrackedIsUnasked
      <3>1. processes[v][x] = d /\ ~(v = w /\ x = b)
        BY <1>1, <1>3
      <3>2. d # c
        BY <2>5, <3>1
      <3>3. QED
        BY <2>6, <3>1, <3>2, SMTT(30) DEF Tracking, TrackedIsUnasked
    <2>8. WaitOwn'
      <3> SUFFICES ASSUME NEW v \in Workers, waiting'[v] # None
                   PROVE  /\ child'[waiting'[v]].owner = v
                          /\ child'[waiting'[v]].st # "unused"
                          /\ \A x \in Bots : processes'[v][x] # waiting'[v]
        BY DEF WaitOwn
      <3>1. CASE v = w
        <4>1. waiting'[v] = c
          BY <1>1, <2>1, <3>1
        <4>2. \A x \in Bots : processes'[v][x] # c
          BY <1>1, <1>3, <2>1, <2>5, <3>1
        <4>3. QED
          BY <2>1, <2>4, <2>6, <3>1, <4>1, <4>2
      <3>2. CASE v # w
        <4>1. waiting'[v] = waiting[v] /\ waiting[v] \in Children
          BY <1>1, <2>1, <3>2
        <4>2. QED
          BY <1>1, <1>3, <2>6, <3>2, <4>1, SMTT(30) DEF Tracking, WaitOwn
      <3>3. QED
        BY <3>1, <3>2
    <2>9. DrainUsed'
      <3> SUFFICES ASSUME NEW v \in Workers, NEW p \in drain[v]
                   PROVE  child'[p[2]].st # "unused"
        BY DEF DrainUsed
      <3>1. p[2] \in Children
        BY <1>1
      <3>2. QED
        BY <2>6, <3>1 DEF Tracking, DrainUsed
    <2>10. QED
      BY <1>6, <2>7, <2>8, <2>9 DEF Tracking
  <1>9. QED
    BY <1>7, <1>8

\* handleCommand starts on a command.
LEMMA BeginTracking ==
    ASSUME IInv, Tracking, NEW w \in Workers, Begin(w)
    PROVE  Tracking'
  <1>1. pc[w] = "begin" /\ CurBot(w) \in Bots /\ UNCHANGED drain
    BY CurrentCommand DEF Begin, CommandLocations
  <1>2. \/ UNCHANGED tasks /\ \E close : StopsBot(w, CurBot(w), close)
        \/ At(w, "deleting") /\ UNCHANGED <<processes, child, waiting, tasks>>
        \/ LoopStartsBot(w, CurBot(w)) /\ UNCHANGED <<processes, child, waiting>>
    BY DEF Begin
  <1>3. At(w, "deleting") => \A v \in Workers : pc'[v] = "down" => pc[v] = "down"
    BY DEF At, IInv, TypeOK
  <1>4. QED
    BY <1>1, <1>2, <1>3, StopTracking, QuietKeeps, LoopStartTracking

\* stopBot's timeout asks a process nobody tracks.
LEMMA TimeoutTracking ==
    ASSUME IInv, Tracking, NEW w \in Workers, StopTimeout(w)
    PROVE  Tracking'
  <1> DEFINE c == waiting[w]
             q == Asked(child[c], "suspend")
  <1>1. /\ pc \in [Workers -> Locations] /\ waiting \in [Workers -> Children \cup {None}]
        /\ processes \in [Workers -> [Bots -> Children \cup {None}]]
        /\ child \in [Children -> Process] /\ None \notin Children
    BY ConstantsAssumption DEF IInv, TypeOK
  <1>2. /\ child' = [child EXCEPT ![c] = q] /\ waiting' = [waiting EXCEPT ![w] = None]
        /\ pc' = [pc EXCEPT ![w] = "unclean"] /\ UNCHANGED <<processes, drain, tasks>>
    BY DEF StopTimeout, At, memVars
  <1>3. \A d \in Children : /\ child'[d].owner = child[d].owner
                            /\ child'[d].bot = child[d].bot
                            /\ child'[d].st = child[d].st
    <2>1. c \in Children => child[c] \in Process
      BY <1>1
    <2>2. c \in Children => /\ q.owner = child[c].owner /\ q.bot = child[c].bot
                            /\ q.st = child[c].st
      BY <2>1, ProcessKeeps
    <2> HIDE DEF q, c
    <2>3. QED
      BY <1>1, <1>2, <2>2
  <1>4. ASSUME NEW v \in Workers, NEW b \in Bots, processes[v][b] # None
        PROVE  processes[v][b] # c
    <2>1. processes[v][b] \in Children /\ child[processes[v][b]].owner = v
      BY <1>1, <1>4 DEF Tracking, TrackedIsUnasked
    <2>2. c # None => child[c].owner = w /\ \A x \in Bots : processes[w][x] # c
      BY DEF Tracking, WaitOwn
    <2>3. QED
      BY <1>4, <2>1, <2>2
  <1>5. \A v \in Workers, b \in Bots : processes[v][b] # None =>
          child'[processes[v][b]].asked = child[processes[v][b]].asked
    <2> HIDE DEF q, c
    <2>1. QED
      BY <1>1, <1>2, <1>4
  <1>6. Keeps
    BY <1>1, <1>2, <1>3, <1>5 DEF Keeps, Tracking, DownIsEmpty
  <1>7. QED
    BY <1>6, KeepsTracking

\* suspendBot forgets every process before it asks them to end.
LEMMA DrainStartTracking ==
    ASSUME IInv, Tracking, NEW w \in Workers, DrainStart(w)
    PROVE  Tracking'
  <1>1. /\ pc \in [Workers -> Locations] /\ drain \in [Workers -> SUBSET (Bots \X Children)]
        /\ processes \in [Workers -> [Bots -> Children \cup {None}]]
        /\ child \in [Children -> Process] /\ None \notin Children
        /\ waiting \in [Workers -> Children \cup {None}]
    BY ConstantsAssumption DEF IInv, TypeOK
  <1>2. /\ drain' = [drain EXCEPT ![w] = {<<b, processes[w][b]>> : b \in Tracked(w)}]
        /\ child' = SuspendAll(w)
        /\ processes' = [processes EXCEPT ![w] = [b \in Bots |-> None]]
        /\ pc' = [pc EXCEPT ![w] = "drain"] /\ UNCHANGED <<waiting, tasks>>
    BY DEF DrainStart, At
  <1>3. \A d \in Children : /\ child'[d].owner = child[d].owner
                            /\ child'[d].bot = child[d].bot
                            /\ child'[d].st = child[d].st
    <2>1. \A d \in Children : child'[d] \in {child[d], Asked(child[d], "suspend")}
      BY <1>2 DEF SuspendAll
    <2>2. QED
      BY <1>1, <2>1, ProcessKeeps
  <1>4. \A v \in Workers, b \in Bots :
          processes'[v][b] = IF v = w THEN None ELSE processes[v][b]
    BY <1>1, <1>2
  <1>5. ASSUME NEW v \in Workers, NEW x \in Bots, NEW d \in Children,
               v # w, processes[v][x] = d
        PROVE  child'[d] = child[d]
    <2>1. child[d].owner = v
      BY <1>5 DEF Tracking, TrackedIsUnasked
    <2>2. \A b \in Bots : processes[w][b] # d
      BY <1>5, <2>1 DEF Tracking, TrackedIsUnasked
    <2>3. QED
      BY <1>2, <2>2 DEF SuspendAll, Tracked
  <1>6. TrackedIsUnasked'
    <2> SUFFICES ASSUME NEW v \in Workers, NEW x \in Bots, NEW d \in Children,
                        processes'[v][x] = d
                 PROVE  /\ child'[d].owner = v /\ child'[d].bot = x
                        /\ child'[d].st # "unused" /\ child'[d].asked = {}
      BY DEF TrackedIsUnasked
    <2>1. v # w /\ processes[v][x] = d
      BY <1>1, <1>4
    <2>2. QED
      BY <1>5, <2>1 DEF Tracking, TrackedIsUnasked
  <1>7. WaitOwn'
    <2> SUFFICES ASSUME NEW v \in Workers, waiting'[v] # None
                 PROVE  /\ child'[waiting'[v]].owner = v /\ child'[waiting'[v]].st # "unused"
                        /\ \A x \in Bots : processes'[v][x] # waiting'[v]
      BY DEF WaitOwn
    <2>1. waiting'[v] = waiting[v] /\ waiting[v] \in Children
      BY <1>1, <1>2
    <2>2. QED
      BY <1>1, <1>3, <1>4, <2>1 DEF Tracking, WaitOwn
  <1>8. DownIsEmpty'
    BY <1>1, <1>2, <1>4 DEF Tracking, DownIsEmpty
  <1>9. DrainUsed'
    <2> SUFFICES ASSUME NEW v \in Workers, NEW p \in drain'[v]
                 PROVE  child'[p[2]].st # "unused"
      BY DEF DrainUsed
    <2>1. CASE v # w
      <3>1. p \in drain[v] /\ p[2] \in Children
        BY <1>1, <1>2, <2>1
      <3>2. QED
        BY <1>3, <3>1 DEF Tracking, DrainUsed
    <2>2. CASE v = w
      <3>1. PICK b \in Tracked(w) : p = <<b, processes[w][b]>>
        BY <1>1, <1>2, <2>2
      <3>2. p[2] = processes[w][b] /\ processes[w][b] \in Children /\ b \in Bots
        BY <1>1, <3>1 DEF Tracked
      <3>3. QED
        BY <1>3, <3>2 DEF Tracking, TrackedIsUnasked
    <2>3. QED
      BY <2>1, <2>2
  <1>10. QED
    BY <1>6, <1>7, <1>8, <1>9 DEF Tracking

\* The end of suspendBot.
LEMMA DrainTracking ==
    ASSUME IInv, Tracking, NEW w \in Workers, DrainBot(w) \/ DrainError(w)
    PROVE  Tracking'
  <1>1. /\ pc \in [Workers -> Locations] /\ drain \in [Workers -> SUBSET (Bots \X Children)]
        /\ child \in [Children -> Process]
    BY DEF IInv, TypeOK
  <1>2. UNCHANGED <<processes, waiting, tasks>>
    BY DEF DrainBot, DrainError, memVars
  <1>3. pc' = pc \/ pc' = [pc EXCEPT ![w] = "failed"]
    BY DEF DrainBot, DrainError, At
  <1>4. \A v \in Workers : pc'[v] = "down" =>
          pc[v] = "down" /\ \A t \in Tasks : tasks'[v][t].at = "idle"
    BY <1>1, <1>2, <1>3 DEF Tracking, DownIsEmpty
  <1>5. PICK p \in drain[w] :
          /\ drain' = [drain EXCEPT ![w] = drain[w] \ {p}]
          /\ \/ child' = child
             \/ child' = [child EXCEPT ![p[2]] = Ended(child[p[2]], "signal", {})]
    BY DEF DrainBot, DrainError, osVars
  <1>6. \A v \in Workers : drain'[v] \subseteq drain[v]
    BY <1>1, <1>5
  <1>7. CASE child' = child
    <2>1. Keeps
      BY <1>2, <1>4, <1>6, <1>7 DEF Keeps, Tracking, DownIsEmpty
    <2>2. QED
      BY <2>1, KeepsTracking
  <1>8. CASE child' = [child EXCEPT ![p[2]] = Ended(child[p[2]], "signal", {})]
    <2> DEFINE q == Ended(child[p[2]], "signal", {})
    <2>1. p[2] \in Children /\ child[p[2]] \in Process /\ child[p[2]].st # "unused"
      BY <1>1 DEF Tracking, DrainUsed
    <2>2. /\ q.owner = child[p[2]].owner /\ q.bot = child[p[2]].bot
          /\ q.asked = child[p[2]].asked /\ q.st # "unused"
      BY <2>1, ProcessKeeps
    <2> HIDE DEF q
    <2>3. child' = [child EXCEPT ![p[2]] = q]
      BY <1>8 DEF q
    <2>4. QED
      BY <1>2, <1>4, <1>6, <2>1, <2>2, <2>3, ChildKeeps
  <1>9. QED
    BY <1>5, <1>7, <1>8

\* A worker dies: it tracks nothing any more, and only its own processes hear
\* of it.
LEMMA DiesTracking ==
    ASSUME IInv, Tracking, NEW w \in Workers, Dies(w)
    PROVE  Tracking'
  <1>1. /\ pc \in [Workers -> Locations] /\ drain \in [Workers -> SUBSET (Bots \X Children)]
        /\ processes \in [Workers -> [Bots -> Children \cup {None}]]
        /\ child \in [Children -> Process] /\ None \notin Children
        /\ waiting \in [Workers -> Children \cup {None}]
        /\ tasks \in [Workers -> [Tasks -> Task]]
    BY ConstantsAssumption DEF IInv, TypeOK
  <1>2. \A d \in Children : /\ child'[d].owner = child[d].owner
                            /\ child'[d].bot = child[d].bot
                            /\ child'[d].st = child[d].st
                            /\ child[d].owner # w => child'[d] = child[d]
    <2>1. \A d \in Children : child'[d] = IF child[d].owner = w
                                          THEN Asked(child[d], "suspend") ELSE child[d]
      BY DEF Dies
    <2>2. QED
      BY <1>1, <2>1, ProcessKeeps
  <1>3. \A v \in Workers, b \in Bots :
          processes'[v][b] = IF v = w THEN None ELSE processes[v][b]
    BY <1>1 DEF Dies
  <1>4. \A v \in Workers, b \in Bots : processes'[v][b] # None =>
          child'[processes[v][b]].asked = child[processes[v][b]].asked
    BY <1>1, <1>2, <1>3 DEF Tracking, TrackedIsUnasked
  <1>5. \A v \in Workers : waiting'[v] \in {waiting[v], None} /\ drain'[v] \subseteq drain[v]
    BY <1>1 DEF Dies
  <1>6. \A v \in Workers : pc'[v] = "down" =>
          /\ \A b \in Bots : processes'[v][b] = None
          /\ \A t \in Tasks : tasks'[v][t].at = "idle"
    <2>1. \A v \in Workers : v # w => pc'[v] = pc[v] /\ tasks'[v] = tasks[v]
      BY <1>1 DEF Dies, At
    <2>2. \A t \in Tasks : tasks'[w][t].at = "idle"
      BY <1>1 DEF Dies, NoTask
    <2>3. QED
      BY <1>3, <2>1, <2>2 DEF Tracking, DownIsEmpty
  <1>7. Keeps
    BY <1>2, <1>3, <1>4, <1>5, <1>6 DEF Keeps
  <1>8. QED
    BY <1>7, KeepsTracking

\* Events of a process as its worker sees them.
LEMMA EventTracking ==
    ASSUME IInv, Tracking, NEW c \in Children, ChildEvent(c)
    PROVE  Tracking'
  <1> USE DEF dbVars, loopVars, memVars
  <1>1. /\ pc \in [Workers -> Locations] /\ child \in [Children -> Process]
        /\ processes \in [Workers -> [Bots -> Children \cup {None}]]
        /\ waiting \in [Workers -> Children \cup {None}]
        /\ tasks \in [Workers -> [Tasks -> Task]]
    BY DEF IInv, TypeOK
  <1>2. child[c] \in Process
    BY <1>1
  <1> DEFINE w == child[c].owner
             q == [child[c] EXCEPT !.reaped = TRUE]
  <1>3. q.owner = w /\ q.bot = child[c].bot /\ q.asked = child[c].asked /\ q.st = child[c].st
    BY <1>2 DEF Process
  <1>4. CASE ExitAwaited(c) \/ ExitTracked(c) \/ ExitIgnored(c)
    <2>1. child' = [child EXCEPT ![c] = q] /\ child[c].st # "unused" /\ pc[w] # "down"
      BY <1>4 DEF ExitAwaited, ExitTracked, ExitIgnored, Reap, Exited
    <2>2. \A v \in Workers, b \in Bots : processes'[v][b] \in {processes[v][b], None}
      BY <1>1, <1>4, SMTT(30) DEF ExitAwaited, ExitTracked, ExitIgnored
    <2>3. \A v \in Workers : waiting'[v] \in {waiting[v], None} /\ drain'[v] \subseteq drain[v]
      BY <1>1, <1>4 DEF ExitAwaited, ExitTracked, ExitIgnored
    <2>4. \A v \in Workers : pc'[v] = "down" => pc[v] = "down"
      BY <1>1, <1>4 DEF ExitAwaited, ExitTracked, ExitIgnored, At
    <2>5. \A v \in Workers : v # w => tasks'[v] = tasks[v]
      BY <1>1, <1>4 DEF ExitAwaited, ExitTracked, ExitIgnored, ScheduleRestart
    <2>6. w \in Workers => pc'[w] # "down"
      BY <1>1, <2>1, <2>4
    <2>7. \A v \in Workers : pc'[v] = "down" =>
            pc[v] = "down" /\ \A t \in Tasks : tasks'[v][t].at = "idle"
      BY <2>4, <2>5, <2>6 DEF Tracking, DownIsEmpty
    <2> HIDE DEF q, w
    <2>8. QED
      BY <1>3, <2>1, <2>2, <2>3, <2>7, ChildKeeps DEF w
  <1>5. ASSUME NEW m \in {"started", "error"}, OnMessage(c, m)
        PROVE  Tracking'
    <2> DEFINE r == [child[c] EXCEPT !.msgs = child[c].msgs \ {m}]
    <2>1. r.owner = w /\ r.bot = child[c].bot /\ r.asked = child[c].asked /\ r.st = child[c].st
      BY <1>2 DEF Process
    <2>2. child' = [child EXCEPT ![c] = r] /\ UNCHANGED <<processes, waiting, drain, pc, tasks>>
      BY <1>5 DEF OnMessage
    <2> HIDE DEF r
    <2>3. \A d \in Children : /\ child'[d].owner = child[d].owner
                              /\ child'[d].bot = child[d].bot
                              /\ child'[d].asked = child[d].asked
                              /\ child'[d].st = child[d].st
      BY <1>1, <2>1, <2>2
    <2>4. \A v \in Workers, b \in Bots : processes'[v][b] # None =>
            child'[processes[v][b]].asked = child[processes[v][b]].asked
      BY <1>1, <2>2, <2>3
    <2>5. Keeps
      BY <2>2, <2>3, <2>4 DEF Keeps, Tracking, DownIsEmpty
    <2>6. QED
      BY <2>5, KeepsTracking
  <1>6. QED
    BY <1>4, <1>5 DEF ChildEvent

\* What a trading process does by itself.
LEMMA ChildTracking ==
    ASSUME IInv, Tracking, NEW c \in Children,
           ChildLife(c) \/ ChildTrades(c) \/ ChildFails(c)
    PROVE  Tracking'
  <1>1. PICK q \in Process :
          /\ child' = [child EXCEPT ![c] = q]
          /\ q.owner = child[c].owner /\ q.bot = child[c].bot
          /\ q.asked = child[c].asked /\ q.st # "unused"
    BY ChildStep
  <1>2. child[c].st # "unused" /\ UNCHANGED <<processes, waiting, drain, pc, tasks>>
    BY ChildStep DEF loopVars, memVars
  <1>3. \A w \in Workers : pc'[w] = "down" =>
          pc[w] = "down" /\ \A t \in Tasks : tasks'[w][t].at = "idle"
    BY <1>2 DEF Tracking, DownIsEmpty
  <1>4. QED
    BY <1>1, <1>2, <1>3, ChildKeeps

-----------------------------------------------------------------------------
\* Nothing is tracked, awaited or drained at the start.
LEMMA InitTracking == Init => Tracking
  <1> SUFFICES ASSUME Init PROVE Tracking
    OBVIOUS
  <1>1. TrackedIsUnasked
    BY ConstantsAssumption DEF Init, TrackedIsUnasked
  <1>2. WaitOwn /\ DrainUsed
    BY DEF Init, WaitOwn, DrainUsed
  <1>3. DownIsEmpty
    BY DEF Init, DownIsEmpty
  <1>4. QED
    BY <1>1, <1>2, <1>3 DEF Tracking

\* A step of the leader's loop or of a fault keeps both parts.
LEMMA WorkerStep ==
    ASSUME Inv, NEW w \in Workers,
           Loop(w) \/ StopTimeout(w) \/ Fault(w) \/ IdleRelease(w) \/ ApplyWrite(w)
    PROVE  Inv'
  <1> USE DEF Inv
  <1>1. CASE \/ Elect(w) \/ Reconcile(w) \/ SelectDesired(w) \/ Restore(w)
             \/ Claim(w) \/ PollIdle(w)
    BY <1>1, PollInv, QuietTracking, RestoreTracking
  <1>2. CASE \/ Begin(w) \/ StopTimeout(w) \/ StopUnclean(w) \/ StopClean(w)
             \/ DeleteStage(w) \/ DeleteRow(w) \/ DeleteRm(w) \/ Settle(w)
             \/ CatchError(w) \/ CatchFail(w)
    BY <1>2, CommandInv, QuietTracking, RestoreTracking, BeginTracking, TimeoutTracking
  <1>3. CASE \/ Shutdown(w) \/ ExitStandby(w) \/ DrainStart(w) \/ DrainBot(w)
             \/ DrainError(w) \/ Relinquish(w)
    BY <1>3, DrainInv, QuietTracking, DrainStartTracking, DrainTracking
  <1>4. CASE Crash(w) \/ RejectionKills(w) \/ SendKills(w)
    <2>1. Dies(w)
      BY <1>4 DEF Crash, RejectionKills, SendKills
    <2>2. QED
      BY <1>4, <2>1, FaultInv, DiesTracking
  <1>5. CASE LockLoss(w) \/ DbError(w) \/ IdleRelease(w)
    BY <1>5, FaultInv, QuietTracking
  <1>6. CASE ApplyWrite(w)
    BY <1>6, WriteInv, QuietTracking
  <1>7. QED
    BY <1>1, <1>2, <1>3, <1>4, <1>5, <1>6 DEF Loop, Fault

\* Every step keeps the inductive invariant.
LEMMA NextInv == Inv /\ [Next]_vars => Inv'
  <1> SUFFICES ASSUME Inv, [Next]_vars PROVE Inv'
    OBVIOUS
  <1>1. ASSUME NEW b \in Bots, Api(b) PROVE Inv'
    BY <1>1, ApiInv, ApiTracking DEF Inv
  <1>2. ASSUME NEW w \in Workers,
               Loop(w) \/ StopTimeout(w) \/ Fault(w) \/ IdleRelease(w) \/ ApplyWrite(w)
        PROVE  Inv'
    BY <1>2, WorkerStep
  <1>3. ASSUME NEW w \in Workers, NEW t \in Tasks,
               Start(w, t) \/ StartError(w, t) \/ TimerFires(w, t)
        PROVE  Inv'
    BY <1>3, StartInv, StartTracking, ForkTracking DEF Inv, Start
  <1>4. ASSUME NEW w \in Workers, NEW b \in Bots, ResetFires(w, b) PROVE Inv'
    BY <1>4, WriteInv, QuietTracking DEF Inv
  <1>5. ASSUME NEW c \in Children,
               ChildLife(c) \/ ChildEvent(c) \/ ChildTrades(c) \/ ChildFails(c)
        PROVE  Inv'
    BY <1>5, EventInv, EventTracking, ChildInv, ChildTracking DEF Inv
  <1>6. CASE UNCHANGED vars
    <2>1. UNCHANGED <<dbVars, loopVars, memVars, osVars>>
      BY <1>6 DEF vars
    <2>2. IInv'
      BY <2>1 DEF Inv, IInv, TypeOK, Shape, CurShape, WaitShape, TaskShape, ChildShape,
                  dbVars, loopVars, memVars, osVars
    <2>3. Tracking'
      BY <2>1 DEF Inv, Tracking, TrackedIsUnasked, WaitOwn, DownIsEmpty, DrainUsed,
                  dbVars, loopVars, memVars, osVars
    <2>4. QED
      BY <2>2, <2>3 DEF Inv
  <1>7. QED
    BY <1>1, <1>2, <1>3, <1>4, <1>5, <1>6 DEF Next

\* The inductive invariant holds in every reachable state.
THEOREM Invariance == Spec => []Inv
  <1>1. Init => Inv
    BY InitInv, InitTracking DEF Inv
  <1>2. QED
    BY <1>1, NextInv, PTL DEF Spec

\* Every row, command, task and process keeps its type: an UPDATE of startBot,
\* stopBot, suspendBot or handleCommand never writes a state that the table does
\* not have, and no handler follows a pointer that points nowhere.
THEOREM TypeCorrect == Spec => []TypeOK
  <1>1. Inv => TypeOK
    BY DEF Inv, IInv
  <1>2. QED
    BY <1>1, Invariance, PTL

\* The processes map and the stop requests agree, whatever crashes, timeouts and
\* concurrent restarts do (startBot, stopBot, suspendBot).
THEOREM TrackedStaysUnasked == Spec => []TrackedIsUnasked
  <1>1. Inv => TrackedIsUnasked
    BY DEF Inv, Tracking
  <1>2. QED
    BY <1>1, Invariance, PTL

----------------------------------------------------------------------------
(***************************************************************************)
(* Leadership, the command queue and what hangs on it: the leader holds    *)
(* the advisory lock as long as sessions are not lost, a command is        *)
(* handled once and a settled one stays settled even when several leaders  *)
(* are at work, the registry follows the bot rows, and no process closes a *)
(* position without an EMERGENCY_STOP.                                     *)
(***************************************************************************)
\* What makes OnlyOneLeader inductive.
LeaderLock == \A w \in Workers : Leading(w) => lock = w

\* What makes StatusMovesForward hold: the command a worker is about to settle
\* is one that nobody has settled.
InProgress ==
    \A w \in Workers : cur[w] # 0 /\ pc[w] \notin {"catchFail", "failed"} =>
      commands[cur[w]].status \in {"PROCESSING", "GONE"}

\* A step that leaves the queue alone and elects nobody.
Steady ==
    /\ UNCHANGED commands
    /\ \A v \in Workers :
         /\ cur'[v] \in {cur[v], 0}
         /\ pc'[v] \notin Gone \cup {"elect"} => pc[v] \notin Gone \cup {"elect"}
         /\ cur'[v] # 0 /\ pc'[v] \notin {"catchFail", "failed"} =>
              pc[v] \notin {"catchFail", "failed"}
    /\ \/ lock' = lock
       \/ lock' = None /\ \A v \in Workers : lock = v => pc'[v] \in Gone

\* The worker's main moves on, or does not.
LEMMA MoveSteady ==
    ASSUME IInv, NEW w \in Workers, UNCHANGED <<commands, cur, lock>>,
           \/ pc' = pc
           \/ /\ pc[w] \notin {"catchFail", "failed"}
              /\ \E loc : /\ pc' = [pc EXCEPT ![w] = loc]
                          /\ pc[w] \in Gone \cup {"elect"} => loc \in Gone
    PROVE  Steady
  <1>1. pc \in [Workers -> Locations]
    BY DEF IInv, TypeOK
  <1>2. QED
    BY <1>1 DEF Steady

\* The loop calls startBot.
LEMMA LoopStartSteady ==
    ASSUME IInv, NEW w \in Workers, NEW b, LoopStartsBot(w, b),
           pc[w] \notin Gone \cup {"elect", "catchFail"}, UNCHANGED <<commands, cur, lock>>
    PROVE  Steady
  <1>1. \E loc : pc' = [pc EXCEPT ![w] = loc]
    BY DEF LoopStartsBot, At
  <1>2. QED
    BY <1>1, MoveSteady DEF Gone

\* Steps of the leader's loop that leave the queue alone.
LEMMA LoopSteady ==
    ASSUME IInv, NEW w \in Workers,
           \/ Reconcile(w) \/ SelectDesired(w) \/ Restore(w) \/ PollIdle(w) \/ Begin(w)
           \/ StopTimeout(w) \/ StopUnclean(w) \/ StopClean(w) \/ DeleteStage(w)
           \/ DeleteRm(w) \/ CatchFail(w) \/ ExitStandby(w) \/ DrainStart(w) \/ DrainBot(w) \/ Relinquish(w)
    PROVE  Steady
  <1> USE DEF dbVars, At
  <1>1. CASE \/ Reconcile(w) \/ SelectDesired(w) \/ StopTimeout(w) \/ StopUnclean(w)
             \/ DeleteStage(w) \/ DeleteRm(w) \/ DrainStart(w)
    <2>1. /\ UNCHANGED <<commands, cur, lock>> /\ \E loc : pc' = [pc EXCEPT ![w] = loc]
          /\ pc[w] \notin Gone \cup {"elect", "catchFail"}
      BY <1>1 DEF Reconcile, SelectDesired, StopTimeout, StopUnclean, DeleteStage,
                  DeleteRm, DrainStart, Gone
    <2>2. QED
      BY <2>1, MoveSteady DEF Gone
  <1>2. CASE Restore(w) \/ StopClean(w)
    <2>1. UNCHANGED <<commands, cur, lock>> /\ pc[w] \notin Gone \cup {"elect", "catchFail"}
      BY <1>2 DEF Restore, StopClean, Gone
    <2>2. \/ \E b : LoopStartsBot(w, b)
          \/ \E loc : pc' = [pc EXCEPT ![w] = loc]
          \/ pc' = pc
      BY <1>2 DEF Restore, StopClean
    <2>3. QED
      BY <2>1, <2>2, MoveSteady, LoopStartSteady DEF Gone
  <1>3. CASE Begin(w)
    <2>1. UNCHANGED <<commands, cur, lock>> /\ pc[w] \notin Gone \cup {"elect", "catchFail"}
      BY <1>3 DEF Begin, Gone
    <2>2. \E loc : pc' = [pc EXCEPT ![w] = loc]
      BY <1>3 DEF Begin, StopsBot, LoopStartsBot
    <2>3. QED
      BY <2>1, <2>2, MoveSteady DEF Gone
  <1>4. CASE PollIdle(w) \/ DrainBot(w)
    <2>1. UNCHANGED <<commands, cur, lock, pc>>
      BY <1>4 DEF PollIdle, DrainBot, vars, loopVars
    <2>2. QED
      BY <2>1, MoveSteady
  <1>5. CASE ExitStandby(w)
    <2>1. /\ UNCHANGED <<commands, cur, lock>> /\ pc[w] = "elect"
          /\ pc' = [pc EXCEPT ![w] = "exited"]
      BY <1>5 DEF ExitStandby
    <2>2. QED
      BY <2>1, MoveSteady DEF Gone
  <1>6. CASE CatchFail(w)
    BY <1>6 DEF CatchFail, Steady, IInv, TypeOK, Gone
  <1>7. CASE Relinquish(w)
    <2>1. /\ UNCHANGED <<commands, cur>> /\ pc[w] = "drain"
          /\ lock' = IF lock = w THEN None ELSE lock
          /\ \E loc \in Gone : pc' = [pc EXCEPT ![w] = loc]
      BY <1>7 DEF Relinquish, Unlock, Gone
    <2>2. pc \in [Workers -> Locations]
      BY DEF IInv, TypeOK
    <2>3. QED
      BY <2>1, <2>2 DEF Steady, Gone
  <1>8. QED
    BY <1>1, <1>2, <1>3, <1>4, <1>5, <1>6, <1>7

\* Faults other than the loss of the lock.
LEMMA FaultSteady ==
    ASSUME IInv, NEW w \in Workers,
           \/ Shutdown(w) \/ Crash(w) \/ RejectionKills(w) \/ SendKills(w)
           \/ DbError(w) \/ DrainError(w) \/ IdleRelease(w) \/ ApplyWrite(w)
           \/ \E b \in Bots : ResetFires(w, b)
    PROVE  Steady
  <1> USE DEF dbVars, loopVars, At
  <1>1. CASE Shutdown(w) \/ ApplyWrite(w) \/ \E b \in Bots : ResetFires(w, b)
    <2>1. UNCHANGED <<commands, cur, lock, pc>>
      BY <1>1 DEF Shutdown, ApplyWrite, ResetFires
    <2>2. QED
      BY <2>1, MoveSteady
  <1>2. CASE Crash(w) \/ RejectionKills(w) \/ SendKills(w)
    <2>1. Dies(w)
      BY <1>2 DEF Crash, RejectionKills, SendKills
    <2>2. QED
      BY <2>1 DEF Dies, Steady, Gone, IInv, TypeOK
  <1>3. CASE DbError(w)
    <2>1. /\ UNCHANGED <<commands, cur, lock>> /\ pc[w] \notin {"catchFail", "failed"}
          /\ \E loc : /\ pc' = [pc EXCEPT ![w] = loc]
                      /\ pc[w] \in Gone \cup {"elect"} => loc \in Gone
      BY <1>3 DEF DbError, Gone, CaughtLocations, FatalLocations
    <2>2. QED
      BY <2>1, MoveSteady
  <1>4. CASE DrainError(w)
    <2>1. /\ UNCHANGED <<commands, cur, lock>> /\ pc[w] = "drain"
          /\ pc' = [pc EXCEPT ![w] = "failed"]
      BY <1>4 DEF DrainError
    <2>2. QED
      BY <2>1, MoveSteady DEF Gone
  <1>5. CASE IdleRelease(w)
    BY <1>5 DEF IdleRelease, Steady, Gone, IInv, TypeOK
  <1>6. QED
    BY <1>1, <1>2, <1>3, <1>4, <1>5

\* startBot and the restart timers.
LEMMA StartSteady ==
    ASSUME IInv, NEW w \in Workers, NEW t \in Tasks,
           Start(w, t) \/ StartError(w, t) \/ TimerFires(w, t)
    PROVE  Steady
  <1> USE DEF dbVars, loopVars, At
  <1>1. UNCHANGED <<commands, cur, lock>> /\ tasks[w][t].at # "idle"
    BY DEF Start, StartLoad, StartRegister, StartFork, StartMark, StartError, TimerFires
  <1>2. \/ pc' = pc
        \/ t = Main /\ \E loc : pc' = [pc EXCEPT ![w] = loc]
    BY DEF Start, StartLoad, StartRegister, StartFork, StartMark, StartError, TimerFires, StartThrows
  <1>3. t = Main => pc[w] = "starting"
    BY <1>1 DEF IInv, Shape, WaitShape
  <1>4. CASE pc' = pc
    BY <1>1, <1>4, MoveSteady
  <1>5. CASE pc[w] = "starting" /\ \E loc : pc' = [pc EXCEPT ![w] = loc]
    BY <1>1, <1>5, MoveSteady DEF Gone
  <1>6. QED
    BY <1>2, <1>3, <1>4, <1>5

\* Processes and their events.
LEMMA ChildSteady ==
    ASSUME IInv, NEW c \in Children,
           ChildLife(c) \/ ChildEvent(c) \/ ChildTrades(c) \/ ChildFails(c)
    PROVE  Steady
  <1> USE DEF dbVars, loopVars, memVars
  <1>1. CASE ChildLife(c) \/ ChildTrades(c) \/ ChildFails(c)
    BY <1>1, ChildStep DEF Steady
  <1>2. CASE ExitAwaited(c)
    <2> DEFINE w == child[c].owner
    <2>1. w \in Workers /\ waiting[w] = c /\ c # None
      BY <1>2, ConstantsAssumption DEF ExitAwaited, Exited, IInv, Shape, ChildShape
    <2>2. pc[w] = "stopWait"
      BY <2>1 DEF IInv, Shape, WaitShape
    <2>3. UNCHANGED <<commands, cur, lock>> /\ \E loc : pc' = [pc EXCEPT ![w] = loc]
      BY <1>2 DEF ExitAwaited, At
    <2> HIDE DEF w
    <2>4. QED
      BY <2>1, <2>2, <2>3, MoveSteady DEF Gone
  <1>3. CASE ExitTracked(c) \/ ExitIgnored(c) \/ \E m \in {"started", "error"} : OnMessage(c, m)
    BY <1>3 DEF ExitTracked, ExitIgnored, OnMessage, Steady
  <1>4. QED
    BY <1>1, <1>2, <1>3 DEF ChildEvent

\* The steps that are not steady, one by one.
LEMMA StepKinds ==
    ASSUME IInv, [Next]_vars
    PROVE  \/ Steady
           \/ \E w \in Workers : \/ Elect(w) \/ Claim(w) \/ Settle(w) \/ CatchError(w)
                                 \/ DeleteRow(w) \/ LockLoss(w)
           \/ \E b \in Bots, kind \in CommandKinds : Enqueue(b, kind)
  <1>1. ASSUME NEW b \in Bots, Api(b)
        PROVE  Steady \/ \E kind \in CommandKinds : Enqueue(b, kind)
    <2>1. CASE ToggleConnection(b)
      BY <2>1 DEF ToggleConnection, Steady, loopVars
    <2>2. QED
      BY <1>1, <2>1, ConstantsAssumption DEF Api, PostCommand, PostDelete, CommandKinds
  <1>2. CASE UNCHANGED vars
    BY <1>2 DEF vars, dbVars, loopVars, Steady
  <1>3. QED
    BY <1>1, <1>2, LoopSteady, FaultSteady, StartSteady, ChildSteady
       DEF Next, Loop, Fault

-----------------------------------------------------------------------------
(***************************************************************************)
(* Leadership.                                                             *)
(***************************************************************************)
\* A leader holds the lock from Elect to the end of its loop.
LEMMA LeaderStep ==
    ASSUME IInv, LeaderLock, [Next]_vars, "lockLoss" \notin Faults
    PROVE  LeaderLock'
  <1> USE DEF LeaderLock, Leading
  <1>1. pc \in [Workers -> Locations] /\ None \notin Workers
    BY ConstantsAssumption DEF IInv, TypeOK
  <1>2. CASE Steady
    BY <1>2 DEF Steady, Gone
  <1>3. ASSUME NEW w \in Workers, Elect(w) PROVE LeaderLock'
    BY <1>1, <1>3 DEF Elect, LockFree, At
  <1>4. ASSUME NEW w \in Workers,
               Claim(w) \/ Settle(w) \/ CatchError(w) \/ DeleteRow(w)
        PROVE  LeaderLock'
    <2>1. /\ lock' = lock /\ \E loc : pc' = [pc EXCEPT ![w] = loc]
          /\ pc[w] \in {"poll", "settle", "catch", "deleteRow"}
      BY <1>4 DEF Claim, Settle, CatchError, DeleteRow, At
    <2>2. QED
      BY <1>1, <2>1 DEF Gone
  <1>5. ASSUME NEW b \in Bots, NEW kind \in CommandKinds, Enqueue(b, kind)
        PROVE  LeaderLock'
    BY <1>5 DEF Enqueue, loopVars
  <1>6. QED
    BY <1>2, <1>3, <1>4, <1>5, StepKinds DEF LockLoss

\* Only one worker replica is leader, if no session is lost while its process
\* lives (pg_try_advisory_lock in main).  SupervisorLockLoss shows that the
\* hypothesis cannot be dropped.
THEOREM SingleLeader ==
    ASSUME "lockLoss" \notin Faults
    PROVE  Spec => []OnlyOneLeader
  <1>1. Init => LeaderLock
    BY DEF Init, LeaderLock, Leading
  <1>2. Inv /\ LeaderLock /\ [Next]_vars => LeaderLock'
    BY LeaderStep DEF Inv
  <1>3. LeaderLock => OnlyOneLeader
    BY DEF LeaderLock, OnlyOneLeader
  <1>4. QED
    BY <1>1, <1>2, <1>3, Invariance, PTL DEF Spec

-----------------------------------------------------------------------------
(***************************************************************************)
(* The command queue.                                                      *)
(***************************************************************************)
QueueInv == ClaimedOnce /\ InProgress

\* What a step may do to the commands that are in the queue already.
Forward ==
    /\ DOMAIN commands \subseteq DOMAIN commands'
    /\ \A i \in DOMAIN commands :
         /\ commands'[i].bot = commands[i].bot /\ commands'[i].kind = commands[i].kind
         /\ commands[i].status # "PENDING" => commands'[i].status # "PENDING"
         /\ commands[i].status \in {"SUCCEEDED", "FAILED"} =>
              commands'[i].status \in {commands[i].status, "GONE"}

\* No worker changes, and the queue may only move towards GONE.
LEMMA QueueKeeps ==
    ASSUME IInv, QueueInv, DOMAIN commands \subseteq DOMAIN commands',
           \A i \in DOMAIN commands :
             commands'[i].status \in {commands[i].status, "GONE"},
           \A v \in Workers :
             /\ cur'[v] \in {cur[v], 0}
             /\ cur'[v] # 0 /\ pc'[v] \notin {"catchFail", "failed"} =>
                  pc[v] \notin {"catchFail", "failed"}
    PROVE  QueueInv'
  <1>1. \A v \in Workers : cur[v] # 0 => cur[v] \in DOMAIN commands
    BY DEF IInv, Shape, CurShape
  <1>2. ClaimedOnce'
    BY <1>1 DEF QueueInv, ClaimedOnce
  <1>3. InProgress'
    BY <1>1 DEF QueueInv, InProgress
  <1>4. QED
    BY <1>2, <1>3 DEF QueueInv

\* Claim takes a command nobody handles, and marks it.
LEMMA ClaimStep ==
    ASSUME IInv, QueueInv, NEW w \in Workers, Claim(w)
    PROVE  QueueInv' /\ Forward
  <1>1. /\ cur \in [Workers -> Nat] /\ pc \in [Workers -> Locations]
        /\ commands \in Seq(CommandRow)
    BY DEF IInv, TypeOK
  <1>2. PICK i \in DOMAIN commands :
          /\ commands[i].status = "PENDING" /\ commands' = SetStatus(i, "PROCESSING")
          /\ cur' = [cur EXCEPT ![w] = i] /\ pc' = [pc EXCEPT ![w] = "begin"]
    BY DEF Claim, Oldest, MarkClaimed, At
  <1>3. /\ DOMAIN commands' = DOMAIN commands
        /\ \A j \in DOMAIN commands :
             /\ commands'[j].status = IF j = i THEN "PROCESSING" ELSE commands[j].status
             /\ commands'[j].bot = commands[j].bot /\ commands'[j].kind = commands[j].kind
    BY <1>1, <1>2, SetStatusType DEF Status
  <1>4. \A v \in Workers : cur[v] # 0 => cur[v] \in DOMAIN commands /\ cur[v] # i
    BY <1>2 DEF QueueInv, ClaimedOnce
  <1>5. \A v \in Workers : cur'[v] = (IF v = w THEN i ELSE cur[v])
    BY <1>1, <1>2
  <1>6. i # 0
    BY <1>1, QueueRows
  <1>7. ClaimedOnce'
    <2>1. \A v \in Workers : cur'[v] # 0 =>
            cur'[v] \in DOMAIN commands' /\ commands'[cur'[v]].status # "PENDING"
      BY <1>3, <1>4, <1>5 DEF QueueInv, ClaimedOnce
    <2>2. \A u, v \in Workers : u # v /\ cur'[u] # 0 => cur'[u] # cur'[v]
      BY <1>4, <1>5, <1>6 DEF QueueInv, ClaimedOnce
    <2>3. QED
      BY <2>1, <2>2 DEF ClaimedOnce
  <1>8. InProgress'
    <2> SUFFICES ASSUME NEW v \in Workers, cur'[v] # 0,
                        pc'[v] \notin {"catchFail", "failed"}
                 PROVE  commands'[cur'[v]].status \in {"PROCESSING", "GONE"}
      BY DEF InProgress
    <2>1. CASE v = w
      BY <1>3, <1>5, <2>1
    <2>2. CASE v # w
      <3>1. cur'[v] = cur[v] /\ pc'[v] = pc[v]
        BY <1>1, <1>2, <1>5, <2>2
      <3>2. QED
        BY <1>3, <1>4, <3>1 DEF QueueInv, InProgress
    <2>3. QED
      BY <2>1, <2>2
  <1>9. QED
    BY <1>2, <1>3, <1>7, <1>8 DEF QueueInv, Forward

\* Settle and CatchError write the status of a command that is still in
\* progress, and that no other worker handles.
LEMMA SettleStep ==
    ASSUME IInv, QueueInv, NEW w \in Workers, Settle(w) \/ CatchError(w)
    PROVE  QueueInv' /\ Forward
  <1>1. /\ cur \in [Workers -> Nat] /\ pc \in [Workers -> Locations]
        /\ commands \in Seq(CommandRow)
    BY DEF IInv, TypeOK
  <1>2. PICK s \in {"SUCCEEDED", "FAILED"} : commands' = SetStatus(cur[w], s)
    BY DEF Settle, CatchError
  <1>3. /\ DOMAIN commands' = DOMAIN commands
        /\ \A j \in DOMAIN commands :
             /\ commands'[j].status = IF j = cur[w] /\ commands[j].status # "GONE"
                                      THEN s ELSE commands[j].status
             /\ commands'[j].bot = commands[j].bot /\ commands'[j].kind = commands[j].kind
    BY <1>1, <1>2, SetStatusType DEF Status
  <1>4. cur[w] # 0 /\ cur[w] \in DOMAIN commands /\ pc[w] \in {"settle", "catch"}
    BY CurrentCommand DEF Settle, CatchError, CommandLocations
  <1>5. commands[cur[w]].status \in {"PROCESSING", "GONE"}
    BY <1>4 DEF QueueInv, InProgress
  <1>6. \A v \in Workers :
          /\ v # w => cur'[v] = cur[v] /\ pc'[v] = pc[v]
          /\ cur'[v] \in {cur[v], 0}
          /\ v = w => cur'[v] = 0 \/ pc'[v] = "catchFail"
    BY <1>1 DEF Settle, CatchError, At
  <1>7. Forward
    BY <1>3, <1>5 DEF Forward
  <1>8. ClaimedOnce'
    <2>1. \A v \in Workers : cur'[v] # 0 =>
            cur'[v] \in DOMAIN commands' /\ commands'[cur'[v]].status # "PENDING"
      BY <1>3, <1>6, <1>7 DEF QueueInv, ClaimedOnce, Forward
    <2>2. \A u, v \in Workers : u # v /\ cur'[u] # 0 => cur'[u] # cur'[v]
      BY <1>6 DEF QueueInv, ClaimedOnce
    <2>3. QED
      BY <2>1, <2>2 DEF ClaimedOnce
  <1>9. InProgress'
    <2> SUFFICES ASSUME NEW v \in Workers, cur'[v] # 0,
                        pc'[v] \notin {"catchFail", "failed"}
                 PROVE  commands'[cur'[v]].status \in {"PROCESSING", "GONE"}
      BY DEF InProgress
    <2>1. v # w /\ cur'[v] = cur[v] /\ pc'[v] = pc[v]
      BY <1>6
    <2>2. cur[v] \in DOMAIN commands /\ cur[v] # cur[w]
      BY <1>4, <2>1 DEF QueueInv, ClaimedOnce
    <2>3. QED
      BY <1>3, <2>1, <2>2 DEF QueueInv, InProgress
  <1>10. QED
    BY <1>7, <1>8, <1>9 DEF QueueInv

\* Every step keeps the queue invariant and moves statuses forward.
LEMMA QueueStep ==
    ASSUME IInv, QueueInv, [Next]_vars
    PROVE  QueueInv' /\ Forward
  <1>1. /\ cur \in [Workers -> Nat] /\ pc \in [Workers -> Locations]
        /\ commands \in Seq(CommandRow)
    BY DEF IInv, TypeOK
  <1>2. CASE Steady
    <2>1. QueueInv'
      BY <1>2, QueueKeeps DEF Steady
    <2>2. QED
      BY <1>2, <2>1 DEF Steady, Forward
  <1>3. ASSUME NEW w \in Workers, Elect(w) \/ LockLoss(w) PROVE QueueInv' /\ Forward
    <2>1. /\ UNCHANGED <<commands, cur>>
          /\ \/ pc' = pc
             \/ pc[w] = "elect" /\ pc' = [pc EXCEPT ![w] = "reconcile"]
      BY <1>3 DEF Elect, LockLoss, At, loopVars
    <2>2. QueueInv'
      BY <1>1, <2>1, QueueKeeps
    <2>3. QED
      BY <2>1, <2>2 DEF Forward
  <1>4. ASSUME NEW w \in Workers, DeleteRow(w) PROVE QueueInv' /\ Forward
    <2>1. cur' = cur /\ pc[w] = "deleteRow" /\ pc' = [pc EXCEPT ![w] = "deleteRm"]
      BY <1>4 DEF DeleteRow, At
    <2>2. /\ DOMAIN commands' = DOMAIN commands
          /\ \A i \in DOMAIN commands :
               /\ commands'[i].status \in {commands[i].status, "GONE"}
               /\ commands'[i].bot = commands[i].bot
               /\ commands'[i].kind = commands[i].kind
      BY <1>1, <1>4, DeleteKeeps
    <2>3. QueueInv'
      BY <1>1, <2>1, <2>2, QueueKeeps
    <2>4. QED
      BY <2>2, <2>3 DEF Forward
  <1>5. ASSUME NEW b \in Bots, NEW kind \in CommandKinds, Enqueue(b, kind)
        PROVE  QueueInv' /\ Forward
    <2>1. /\ DOMAIN commands \subseteq DOMAIN commands'
          /\ \A i \in DOMAIN commands : commands'[i] = commands[i]
      BY <1>1, <1>5, EnqueueKeeps
    <2>2. UNCHANGED <<cur, pc>>
      BY <1>5 DEF Enqueue, loopVars
    <2>3. QueueInv'
      BY <2>1, <2>2, QueueKeeps
    <2>4. QED
      BY <2>1, <2>3 DEF Forward
  <1>6. QED
    BY <1>2, <1>3, <1>4, <1>5, ClaimStep, SettleStep, StepKinds

\* The queue invariant holds in every reachable state, also with two leaders.
THEOREM QueueInvariance == Spec => []QueueInv
  <1>1. Init => QueueInv
    BY DEF Init, QueueInv, ClaimedOnce, InProgress
  <1>2. Inv /\ QueueInv /\ [Next]_vars => QueueInv'
    BY QueueStep DEF Inv
  <1>3. QED
    BY <1>1, <1>2, Invariance, PTL DEF Spec

\* A command is handled by one worker at a time and never twice (claimCommand
\* with FOR UPDATE SKIP LOCKED), even when the lock is lost.
THEOREM CommandsClaimedOnce == Spec => []ClaimedOnce
  <1>1. QueueInv => ClaimedOnce
    BY DEF QueueInv
  <1>2. QED
    BY <1>1, QueueInvariance, PTL

\* A settled command is never reopened and a claimed one never queued again.
THEOREM StatusesMoveForward == Spec => StatusMovesForward
  <1>1. Inv /\ QueueInv /\ [Next]_vars =>
          [\A i \in DOMAIN commands :
             /\ commands[i].status # "PENDING" => commands'[i].status # "PENDING"
             /\ commands[i].status \in {"SUCCEEDED", "FAILED"} =>
                  commands'[i].status \in {commands[i].status, "GONE"}]_vars
    BY QueueStep DEF Inv, Forward
  <1>2. QED
    BY <1>1, Invariance, QueueInvariance, PTL DEF Spec, StatusMovesForward

-----------------------------------------------------------------------------
(***************************************************************************)
(* The registry.                                                           *)
(***************************************************************************)
\* No row of trading_bots appears or disappears.
SameRows == \A x \in Bots : bots'[x].exists = bots[x].exists

\* No desired_state changes.
SameWishes == \A x \in Bots : bots'[x].desired = bots[x].desired

\* An UPDATE of other columns.
LEMMA SetRowStays ==
    ASSUME IInv, NEW b, NEW row, b \in Bots => row.exists = bots[b].exists,
           bots' = SetRow(b, row)
    PROVE  SameRows /\ ((b \in Bots => row.desired = bots[b].desired) => SameWishes)
  BY DEF SetRow, SameRows, SameWishes, IInv, TypeOK

\* failBot is one.
LEMMA FailBotStays ==
    ASSUME IInv, NEW w, NEW b, FailBot(w, b)
    PROVE  SameRows /\ SameWishes
  <1>1. CASE bots' = SetRow(b, [bots[b] EXCEPT !.actual = "FAILED"])
    <2>1. b \in Bots => /\ [bots[b] EXCEPT !.actual = "FAILED"].exists = bots[b].exists
                       /\ [bots[b] EXCEPT !.actual = "FAILED"].desired = bots[b].desired
      BY DEF IInv, TypeOK, BotRow
    <2>2. QED
      BY <1>1, <2>1, SetRowStays
  <1>2. CASE bots' = bots
    BY <1>2 DEF SameRows, SameWishes
  <1>3. QED
    BY <1>1, <1>2 DEF FailBot, FailRow

\* Every step but the transaction of deleteBot leaves the rows where they are.
LEMMA LoopStays ==
    ASSUME IInv, NEW w \in Workers, Loop(w), ~DeleteRow(w)
    PROVE  SameRows /\ (SameWishes \/ Begin(w))
  <1>r. \A x \in Bots : bots[x] \in BotRow
    BY DEF IInv, TypeOK
  <1>1. CASE Reconcile(w)
    BY <1>r, <1>1 DEF Reconcile, SameRows, SameWishes, BotRow
  <1>2. CASE Begin(w)
    <2> DEFINE b == CurBot(w)
               row == [bots[b] EXCEPT !.desired = DesiredOf(Command(w).kind)]
    <2>1. bots' = SetRow(b, row)
      BY <1>2 DEF Begin
    <2>2. b \in Bots => row.exists = bots[b].exists
      BY <1>r DEF BotRow
    <2> HIDE DEF b, row
    <2>3. QED
      BY <1>2, <2>1, <2>2, SetRowStays
  <1>3. CASE StopUnclean(w) \/ CatchFail(w)
    BY <1>3, FailBotStays DEF StopUnclean, CatchFail
  <1>4. CASE StopClean(w)
    <2> DEFINE b == CurBot(w)
               row == [bots[b] EXCEPT !.actual = "STOPPED", !.owner = None]
    <2>1. bots' = SetRow(b, row)
      BY <1>4 DEF StopClean
    <2>2. b \in Bots => row.exists = bots[b].exists /\ row.desired = bots[b].desired
      BY <1>r DEF BotRow
    <2> HIDE DEF b, row
    <2>3. QED
      BY <2>1, <2>2, SetRowStays
  <1>5. CASE DrainBot(w)
    <2>1. \/ bots' = bots
          \/ \E b : bots' = SetRow(b, [bots[b] EXCEPT !.actual = "STARTING", !.owner = None])
      BY <1>5 DEF DrainBot
    <2>2. ASSUME NEW b,
                 bots' = SetRow(b, [bots[b] EXCEPT !.actual = "STARTING", !.owner = None])
          PROVE  SameRows /\ SameWishes
      <3> DEFINE row == [bots[b] EXCEPT !.actual = "STARTING", !.owner = None]
      <3>1. b \in Bots => row.exists = bots[b].exists /\ row.desired = bots[b].desired
        BY <1>r DEF BotRow
      <3>2. bots' = SetRow(b, row)
        BY <2>2
      <3> HIDE DEF row
      <3>3. QED
        BY <3>1, <3>2, SetRowStays
    <2>3. QED
      BY <2>1, <2>2 DEF SameRows, SameWishes
  <1>6. CASE \/ Elect(w) \/ SelectDesired(w) \/ Restore(w) \/ Claim(w) \/ PollIdle(w)
             \/ DeleteStage(w) \/ DeleteRm(w) \/ Settle(w) \/ CatchError(w) \/ ExitStandby(w)
             \/ DrainStart(w) \/ Relinquish(w)
    <2>1. bots' = bots
      BY <1>6 DEF Elect, SelectDesired, Restore, Claim, PollIdle, DeleteStage, DeleteRm, Settle,
                  CatchError, ExitStandby, DrainStart, Relinquish, dbVars, vars
    <2>2. QED
      BY <2>1 DEF SameRows, SameWishes
  <1>7. QED
    BY <1>1, <1>2, <1>3, <1>4, <1>5, <1>6 DEF Loop

\* startBot and the restart timers.
LEMMA StartStays ==
    ASSUME IInv, NEW w \in Workers, NEW t \in Tasks,
           Start(w, t) \/ StartError(w, t) \/ TimerFires(w, t)
    PROVE  SameRows /\ SameWishes
  <1>r. \A x \in Bots : bots[x] \in BotRow
    BY DEF IInv, TypeOK
  <1>1. CASE StartMark(w, t)
    <2> DEFINE b == tasks[w][t].bot
               row == [bots[b] EXCEPT !.actual = "STARTING", !.owner = w]
    <2>1. bots' = SetRow(b, row)
      BY <1>1 DEF StartMark
    <2>2. b \in Bots => row.exists = bots[b].exists /\ row.desired = bots[b].desired
      BY <1>r DEF BotRow
    <2> HIDE DEF b, row
    <2>3. QED
      BY <2>1, <2>2, SetRowStays
  <1>2. CASE StartThrows(w, t)
    BY <1>2, FailBotStays DEF StartThrows, SameRows, SameWishes
  <1>3. CASE bots' = bots
    BY <1>3 DEF SameRows, SameWishes
  <1>4. StartMark(w, t) \/ StartThrows(w, t) \/ bots' = bots
    BY DEF Start, StartLoad, StartRegister, StartFork, StartError, TimerFires, dbVars
  <1>5. QED
    BY <1>1, <1>2, <1>3, <1>4

\* Faults, late writes and the stop timer.
LEMMA FaultStays ==
    ASSUME IInv, NEW w \in Workers,
           StopTimeout(w) \/ Fault(w) \/ IdleRelease(w) \/ ApplyWrite(w)
    PROVE  SameRows /\ (SameWishes \/ SendKills(w))
  <1>r. \A x \in Bots : bots[x] \in BotRow
    BY DEF IInv, TypeOK
  <1>1. CASE SendKills(w)
    <2> DEFINE b == CurBot(w)
               row == [bots[b] EXCEPT !.desired = DesiredOf(Command(w).kind)]
    <2>1. bots' = SetRow(b, row)
      BY <1>1 DEF SendKills
    <2>2. b \in Bots => row.exists = bots[b].exists
      BY <1>r DEF BotRow
    <2> HIDE DEF b, row
    <2>3. QED
      BY <1>1, <2>1, <2>2, SetRowStays
  <1>2. CASE ApplyWrite(w)
    <2>1. \/ bots' = bots
          \/ \E p : bots' = SetRow(p[2], [bots[p[2]] EXCEPT !.actual = p[1]])
      BY <1>2 DEF ApplyWrite
    <2>2. ASSUME NEW p, bots' = SetRow(p[2], [bots[p[2]] EXCEPT !.actual = p[1]])
          PROVE  SameRows /\ SameWishes
      <3> DEFINE b == p[2]
                 row == [bots[b] EXCEPT !.actual = p[1]]
      <3>1. b \in Bots => row.exists = bots[b].exists /\ row.desired = bots[b].desired
        BY <1>r DEF BotRow
      <3>2. bots' = SetRow(b, row)
        BY <2>2
      <3> HIDE DEF b, row
      <3>3. QED
        BY <3>1, <3>2, SetRowStays
    <2>3. QED
      BY <2>1, <2>2 DEF SameRows, SameWishes
  <1>3. CASE \/ StopTimeout(w) \/ Shutdown(w) \/ Crash(w) \/ LockLoss(w) \/ DbError(w)
             \/ DrainError(w) \/ RejectionKills(w) \/ IdleRelease(w)
    <2>1. bots' = bots
      BY <1>3 DEF StopTimeout, Shutdown, Crash, LockLoss, DbError, DrainError,
                  RejectionKills, IdleRelease, dbVars
    <2>2. QED
      BY <2>1 DEF SameRows, SameWishes
  <1>4. QED
    BY <1>1, <1>2, <1>3 DEF Fault

\* The HTTP API.
LEMMA ApiStays ==
    ASSUME IInv, NEW b \in Bots, Api(b)
    PROVE  SameRows /\ (SameWishes \/ \E kind \in Kinds \cup {"DELETE"} : Enqueue(b, kind))
  <1>r. \A x \in Bots : bots[x] \in BotRow
    BY DEF IInv, TypeOK
  <1>1. ASSUME NEW kind, Enqueue(b, kind) PROVE SameRows
    BY <1>r, <1>1 DEF Enqueue, SameRows, BotRow, IInv, TypeOK
  <1>2. CASE ToggleConnection(b)
    BY <1>r, <1>2 DEF ToggleConnection, SameRows, SameWishes, BotRow, IInv, TypeOK
  <1>3. QED
    BY <1>1, <1>2 DEF Api, PostCommand, PostDelete

LEMMA RowsStay ==
    ASSUME IInv, [Next]_vars
    PROVE  SameRows \/ \E w \in Workers : DeleteRow(w)
  <1>1. ASSUME NEW c \in Children,
               ChildLife(c) \/ ChildEvent(c) \/ ChildTrades(c) \/ ChildFails(c)
        PROVE  SameRows
    <2>1. CASE ChildEvent(c)
      BY <2>1 DEF ChildEvent, ExitAwaited, ExitTracked, ExitIgnored, OnMessage, dbVars, SameRows
    <2>2. QED
      BY <1>1, <2>1, ChildStep DEF dbVars, SameRows
  <1>2. ASSUME NEW w \in Workers, NEW b \in Bots, ResetFires(w, b) PROVE SameRows
    BY <1>2 DEF ResetFires, dbVars, SameRows
  <1>3. CASE UNCHANGED vars
    BY <1>3 DEF vars, dbVars, SameRows
  <1>4. QED
    BY <1>1, <1>2, <1>3, LoopStays, StartStays, FaultStays, ApiStays DEF Next

\* An entry stays as it is or is written from the row the bot has now.
Recorded == \A x \in Bots : registry'[x] \in {registry[x], Registered(x)}

\* startBot inserts for a row its snapshot found.
InsertsFor(b) == \E w \in Workers, t \in Tasks :
                   tasks[w][t].at = "insert" /\ tasks[w][t].bot = b
Inserted == \E b \in Bots : InsertsFor(b) /\ registry' = [registry EXCEPT ![b] = "active"]
                           /\ UNCHANGED bots

\* Every step but the transaction of deleteBot and the INSERT of startBot does that.
LEMMA RegistryStep ==
    ASSUME IInv, [Next]_vars
    PROVE  Recorded \/ Inserted \/ \E w \in Workers : DeleteRow(w)
  <1>t. registry \in [Bots -> {"absent", "active", "deleted"}]
    BY DEF IInv, TypeOK
  <1>0. registry' = registry => Recorded
    BY DEF Recorded
  <1>1. ASSUME NEW w \in Workers, Loop(w), ~DeleteRow(w) PROVE Recorded
    <2>1. CASE Reconcile(w)
      BY <2>1 DEF Reconcile, RegisterExisting, Recorded
    <2>2. CASE DeleteStage(w)
      <3> DEFINE b == CurBot(w)
                 entry == IF "live" \in dataDir[b] THEN Registered(b) ELSE registry[b]
      <3>1. registry' = [registry EXCEPT ![b] = entry]
        BY <2>2 DEF DeleteStage
      <3>2. entry \in {registry[b], Registered(b)}
        OBVIOUS
      <3> HIDE DEF b, entry
      <3>3. QED
        BY <1>t, <3>1, <3>2 DEF Recorded
    <2>3. CASE ~Reconcile(w) /\ ~DeleteStage(w)
      <3>1. registry' = registry
        BY <1>1, <2>3 DEF Loop, Elect, SelectDesired, Restore, Claim, PollIdle, Begin,
                  StopUnclean, StopClean, Settle, DeleteRm, CatchError, CatchFail, ExitStandby,
                  DrainStart, DrainBot, Relinquish, dbVars, vars
      <3>2. QED
        BY <1>0, <3>1
    <2>4. QED
      BY <2>1, <2>2, <2>3
  <1>2. ASSUME NEW w \in Workers,
               StopTimeout(w) \/ Fault(w) \/ IdleRelease(w) \/ ApplyWrite(w)
        PROVE  Recorded
    <2>1. registry' = registry
      BY <1>2 DEF StopTimeout, Fault, Shutdown, Crash, LockLoss, DbError, DrainError,
                  RejectionKills, SendKills, Dies, IdleRelease, ApplyWrite, dbVars
    <2>2. QED
      BY <1>0, <2>1
  <1>3. ASSUME NEW w \in Workers, NEW t \in Tasks,
               Start(w, t) \/ StartError(w, t) \/ TimerFires(w, t)
        PROVE  Recorded \/ Inserted
    <2>1. CASE StartFork(w, t)
      <3>1. CASE tasks[w][t].at = "insert"
        <4>1. tasks[w][t].bot \in Bots
          BY <3>1 DEF IInv, Shape, TaskShape
        <4>2. registry' = [registry EXCEPT ![tasks[w][t].bot] = "active"] /\ UNCHANGED bots
          BY <2>1, <3>1 DEF StartFork
        <4>3. QED
          BY <3>1, <4>1, <4>2 DEF Inserted, InsertsFor
      <3>2. CASE tasks[w][t].at # "insert"
        <4>1. registry' = registry
          BY <1>t, <2>1, <3>2 DEF StartFork
        <4>2. QED
          BY <1>0, <4>1
      <3>3. QED
        BY <3>1, <3>2
    <2>2. CASE ~StartFork(w, t)
      <3>1. registry' = registry
        BY <1>3, <2>2 DEF Start, StartLoad, StartRegister, StartMark, StartError, TimerFires, dbVars
      <3>2. QED
        BY <1>0, <3>1
    <2>3. QED
      BY <2>1, <2>2
  <1>4. ASSUME NEW b \in Bots, Api(b) PROVE Recorded
    <2>1. registry' = registry
      BY <1>4 DEF Api, PostCommand, PostDelete, Enqueue, ToggleConnection
    <2>2. QED
      BY <1>0, <2>1
  <1>5. ASSUME NEW c \in Children,
               ChildLife(c) \/ ChildEvent(c) \/ ChildTrades(c) \/ ChildFails(c)
        PROVE  Recorded
    <2>1. CASE ChildEvent(c)
      BY <1>0, <2>1 DEF ChildEvent, ExitAwaited, ExitTracked, ExitIgnored, OnMessage, dbVars
    <2>2. QED
      BY <1>0, <1>5, <2>1, ChildStep DEF dbVars
  <1>6. ASSUME NEW w \in Workers, NEW b \in Bots, ResetFires(w, b) PROVE Recorded
    BY <1>0, <1>6 DEF ResetFires, dbVars
  <1>7. CASE UNCHANGED vars
    BY <1>0, <1>7 DEF vars, dbVars
  <1>8. QED
    BY <1>1, <1>2, <1>3, <1>4, <1>5, <1>6, <1>7 DEF Next

\* deleteBot leaves no active entry, and an INSERT for a row that is there revives none.
LEMMA RegistryKept ==
    ASSUME IInv, RegistryFollowsRow, [Next]_vars,
           \A b \in Bots : InsertsFor(b) => bots[b].exists
    PROVE  RegistryFollowsRow'
  <1>t. /\ registry \in [Bots -> {"absent", "active", "deleted"}]
        /\ bots \in [Bots -> BotRow]
    BY DEF IInv, TypeOK
  <1>1. ASSUME NEW w \in Workers, DeleteRow(w) PROVE RegistryFollowsRow'
    <2> DEFINE b == CurBot(w)
               row == [bots[b] EXCEPT !.exists = FALSE, !.owner = None]
    <2>1. /\ registry' = [registry EXCEPT ![b] = IF registry[b] = "active" THEN "deleted"
                                                 ELSE registry[b]]
          /\ bots' = [bots EXCEPT ![b] = row]
      BY <1>1 DEF DeleteRow, MarkedDeleted
    <2>2. b \in Bots => row.exists = FALSE
      BY <1>t DEF BotRow
    <2> HIDE DEF b, row
    <2>3. QED
      BY <1>t, <2>1, <2>2 DEF RegistryFollowsRow
  <1>2. CASE SameRows /\ Recorded
    BY <1>2 DEF SameRows, Recorded, RegistryFollowsRow, Registered
  <1>3. CASE Inserted
    BY <1>t, <1>3 DEF Inserted, RegistryFollowsRow
  <1>4. QED
    BY <1>1, <1>2, <1>3, RowsStay, RegistryStep

-----------------------------------------------------------------------------
(***************************************************************************)
(* Closing a position.                                                     *)
(***************************************************************************)
\* The process closes its position when it stops, or has been asked to.
Closes(p) == p.st # "unused" /\ (p.closing \/ "stop" \in p.asked)

\* p becomes q without a reason to close that p did not have.
NoNewReason(p, q) == Closes(q) => Closes(p) /\ q.bot = p.bot
NobodyTold == \A c \in Children : NoNewReason(child[c], child'[c])

\* What may happen to a process and is no stop request.
LEMMA ReasonKept ==
    ASSUME NEW p \in Process
    PROVE  /\ NoNewReason(p, p) /\ NoNewReason(p, Asked(p, "suspend"))
           /\ NoNewReason(p, [p EXCEPT !.listening = TRUE])
           /\ NoNewReason(p, [p EXCEPT !.reaped = TRUE])
           /\ \A m : NoNewReason(p, [p EXCEPT !.msgs = p.msgs \ {m}])
           /\ p.st # "unused" => NoNewReason(p, Ended(p, "signal", {}))
           /\ \A w, b : NoNewReason(p, Forked(w, b))
  <1>1. NoNewReason(p, p) /\ NoNewReason(p, Asked(p, "suspend"))
    BY DEF NoNewReason, Closes, Asked, Process
  <1>2. /\ NoNewReason(p, [p EXCEPT !.listening = TRUE])
        /\ NoNewReason(p, [p EXCEPT !.reaped = TRUE])
    BY DEF NoNewReason, Closes, Process
  <1>3. \A m : NoNewReason(p, [p EXCEPT !.msgs = p.msgs \ {m}])
    BY DEF NoNewReason, Closes, Process
  <1>4. p.st # "unused" => NoNewReason(p, Ended(p, "signal", {}))
    BY DEF NoNewReason, Closes, Ended, Process
  <1>5. \A w, b : NoNewReason(p, Forked(w, b))
    BY DEF NoNewReason, Closes, Forked, NoProcess
  <1>6. QED
    BY <1>1, <1>2, <1>3, <1>4, <1>5

\* Something happens to one process.
LEMMA OneTold ==
    ASSUME IInv, NEW c, NEW q, child' = [child EXCEPT ![c] = q],
           c \in Children => NoNewReason(child[c], q)
    PROVE  NobodyTold
  <1>1. \A d \in Children : child[d] \in Process
    BY DEF IInv, TypeOK
  <1>2. \A d \in Children : child'[d] = IF d = c THEN q ELSE child[d]
    BY DEF IInv, TypeOK
  <1>3. QED
    BY <1>1, <1>2, ReasonKept DEF NobodyTold

\* Nothing happens to any.
LEMMA NoneTold ==
    ASSUME IInv, child' = child
    PROVE  NobodyTold
  BY ReasonKept DEF NobodyTold, IInv, TypeOK

\* The end of a worker asks its processes to suspend.
LEMMA DiesTells ==
    ASSUME IInv, NEW w \in Workers, Dies(w)
    PROVE  NobodyTold
  BY ReasonKept DEF Dies, NobodyTold, IInv, TypeOK

\* Steps of the leader's loop other than the start of a command.
LEMMA LoopTells ==
    ASSUME IInv, Tracking, NEW w \in Workers, Loop(w), ~Begin(w)
    PROVE  NobodyTold
  <1>1. \A d \in Children : child[d] \in Process
    BY DEF IInv, TypeOK
  <1>2. CASE DrainStart(w)
    BY <1>1, <1>2, ReasonKept DEF DrainStart, SuspendAll, NobodyTold
  <1>3. CASE DrainBot(w)
    <2>1. \/ child' = child
          \/ \E p \in drain[w] : child' = [child EXCEPT ![p[2]] = Ended(child[p[2]], "signal", {})]
      BY <1>3 DEF DrainBot
    <2>2. ASSUME NEW p \in drain[w],
                 child' = [child EXCEPT ![p[2]] = Ended(child[p[2]], "signal", {})]
          PROVE  NobodyTold
      <3>1. child[p[2]].st # "unused"
        BY DEF Tracking, DrainUsed
      <3>2. p[2] \in Children => NoNewReason(child[p[2]], Ended(child[p[2]], "signal", {}))
        BY <1>1, <3>1, ReasonKept
      <3>3. QED
        BY <2>2, <3>2, OneTold
    <2>3. QED
      BY <2>1, <2>2, NoneTold
  <1>4. CASE ~DrainStart(w) /\ ~DrainBot(w)
    <2>1. child' = child
      BY <1>4 DEF Loop, Elect, Reconcile, SelectDesired, Restore, Claim, PollIdle, StopUnclean,
                  StopClean, DeleteStage, DeleteRow, DeleteRm, Settle, CatchError, CatchFail,
                  ExitStandby, Relinquish, osVars, vars
    <2>2. QED
      BY <2>1, NoneTold
  <1>5. QED
    BY <1>2, <1>3, <1>4

\* Only an EMERGENCY_STOP tells a process to close, and it tells the tracked
\* process of its own bot.
LEMMA BeginTells ==
    ASSUME IInv, Tracking, NEW w \in Workers, Begin(w)
    PROVE  \/ NobodyTold
           \/ /\ Command(w).kind = "EMERGENCY_STOP"
              /\ \A c \in Children : \/ NoNewReason(child[c], child'[c])
                                     \/ child'[c].bot = CurBot(w)
  <1> DEFINE b == CurBot(w)
             kind == Command(w).kind
             c == processes[w][b]
  <1>1. b \in Bots /\ child \in [Children -> Process]
        /\ processes \in [Workers -> [Bots -> Children \cup {None}]]
    BY CurrentCommand DEF Begin, CommandLocations, IInv, TypeOK
  <1>2. \/ child' = child
        \/ /\ AlreadyRunning(w, b)
           /\ child' = [child EXCEPT ![c] = Asked(child[c], StopMessage(kind = "EMERGENCY_STOP"))]
    BY DEF Begin, StopsBot
  <1>3. CASE child' = child
    BY <1>3, NoneTold
  <1>4. CASE /\ AlreadyRunning(w, b)
             /\ child' = [child EXCEPT ![c] = Asked(child[c], StopMessage(kind = "EMERGENCY_STOP"))]
    <2>1. c \in Children /\ child[c].bot = b
      BY <1>1, <1>4 DEF AlreadyRunning, Tracking, TrackedIsUnasked
    <2>2. CASE kind = "EMERGENCY_STOP"
      <3>1. child'[c].bot = b
        BY <1>1, <1>4, <2>1, ProcessKeeps
      <3>2. \A d \in Children : d # c => child'[d] = child[d]
        BY <1>1, <1>4
      <3> HIDE DEF c
      <3>3. QED
        BY <1>1, <2>2, <3>1, <3>2, ReasonKept
    <2>3. CASE kind # "EMERGENCY_STOP"
      <3>1. child' = [child EXCEPT ![c] = Asked(child[c], "suspend")]
        BY <1>4, <2>3 DEF StopMessage
      <3>2. NoNewReason(child[c], Asked(child[c], "suspend"))
        BY <1>1, <2>1, ReasonKept
      <3> HIDE DEF c
      <3>3. QED
        BY <3>1, <3>2, OneTold
    <2>4. QED
      BY <2>2, <2>3
  <1>5. QED
    BY <1>2, <1>3, <1>4

\* startBot forks processes nobody has told anything.
LEMMA StartTells ==
    ASSUME IInv, NEW w \in Workers, NEW t \in Tasks,
           Start(w, t) \/ StartError(w, t) \/ TimerFires(w, t)
    PROVE  NobodyTold
  <1>1. \A d \in Children : child[d] \in Process
    BY DEF IInv, TypeOK
  <1>2. CASE StartFork(w, t)
    <2>1. \E c \in Children : child' = [child EXCEPT ![c] = Forked(w, tasks[w][t].bot)]
      BY <1>2 DEF StartFork
    <2>2. QED
      BY <1>1, <2>1, OneTold, ReasonKept
  <1>3. CASE StartMark(w, t)
    <2> DEFINE c == tasks[w][t].child
    <2>1. child' = [child EXCEPT ![c] = [child[c] EXCEPT !.listening = TRUE]]
      BY <1>3 DEF StartMark
    <2> HIDE DEF c
    <2>2. c \in Children => NoNewReason(child[c], [child[c] EXCEPT !.listening = TRUE])
      BY <1>1, ReasonKept
    <2>3. QED
      BY <2>1, <2>2, OneTold
  <1>4. CASE ~StartFork(w, t) /\ ~StartMark(w, t)
    <2>1. child' = child
      BY <1>4 DEF Start, StartLoad, StartRegister, StartError, TimerFires, osVars
    <2>2. QED
      BY <2>1, NoneTold
  <1>5. QED
    BY <1>2, <1>3, <1>4

\* Faults, late writes and the stop timer, which sends SIGTERM.
LEMMA FaultTells ==
    ASSUME IInv, NEW w \in Workers,
           StopTimeout(w) \/ Fault(w) \/ IdleRelease(w) \/ ApplyWrite(w)
    PROVE  NobodyTold
  <1>1. \A d \in Children : child[d] \in Process
    BY DEF IInv, TypeOK
  <1>2. CASE StopTimeout(w)
    <2> DEFINE c == waiting[w]
    <2>1. child' = [child EXCEPT ![c] = Asked(child[c], "suspend")]
      BY <1>2 DEF StopTimeout
    <2> HIDE DEF c
    <2>2. c \in Children => NoNewReason(child[c], Asked(child[c], "suspend"))
      BY <1>1, ReasonKept
    <2>3. QED
      BY <2>1, <2>2, OneTold
  <1>3. CASE Crash(w) \/ RejectionKills(w) \/ SendKills(w)
    BY <1>3, DiesTells DEF Crash, RejectionKills, SendKills
  <1>4. CASE \/ Shutdown(w) \/ LockLoss(w) \/ DbError(w) \/ DrainError(w)
             \/ IdleRelease(w) \/ ApplyWrite(w)
    <2>1. child' = child
      BY <1>4 DEF Shutdown, LockLoss, DbError, DrainError, IdleRelease, ApplyWrite, osVars
    <2>2. QED
      BY <2>1, NoneTold
  <1>5. QED
    BY <1>2, <1>3, <1>4 DEF Fault

\* A process, and its supervisor's reaction to its events.
LEMMA ChildTells ==
    ASSUME IInv, NEW c \in Children,
           ChildLife(c) \/ ChildEvent(c) \/ ChildTrades(c) \/ ChildFails(c)
    PROVE  NobodyTold
  <1>1. child[c] \in Process
    BY DEF IInv, TypeOK
  <1>2. CASE ChildEvent(c)
    <2>1. \E q : /\ child' = [child EXCEPT ![c] = q]
                 /\ \/ q = [child[c] EXCEPT !.reaped = TRUE]
                    \/ \E m : q = [child[c] EXCEPT !.msgs = child[c].msgs \ {m}]
      BY <1>2 DEF ChildEvent, ExitAwaited, ExitTracked, ExitIgnored, OnMessage, Reap
    <2>2. QED
      BY <1>1, <2>1, ReasonKept, OneTold
  <1>3. CASE ChildLife(c) \/ ChildTrades(c) \/ ChildFails(c)
    <2>1. child[c].st # "unused"
      BY <1>3, ChildStep
    <2>2. PICK q \in Process :
            /\ child' = [child EXCEPT ![c] = q]
            /\ q.bot = child[c].bot /\ q.asked = child[c].asked
            /\ q.closing => child[c].closing \/ "stop" \in child[c].asked
      BY <1>3, ChildStep
    <2>3. NoNewReason(child[c], q)
      BY <2>1, <2>2 DEF NoNewReason, Closes
    <2>4. QED
      BY <2>2, <2>3, OneTold
  <1>4. QED
    BY <1>2, <1>3

LEMMA StepTells ==
    ASSUME Inv, [Next]_vars
    PROVE  \/ NobodyTold
           \/ \E w \in Workers :
                /\ Begin(w) /\ Command(w).kind = "EMERGENCY_STOP"
                /\ \A c \in Children : \/ NoNewReason(child[c], child'[c])
                                       \/ child'[c].bot = CurBot(w)
  <1> USE DEF Inv
  <1>1. ASSUME NEW b \in Bots, Api(b) PROVE NobodyTold
    <2>1. child' = child
      BY <1>1 DEF Api, PostCommand, PostDelete, ToggleConnection, Enqueue, osVars
    <2>2. QED
      BY <2>1, NoneTold
  <1>2. ASSUME NEW w \in Workers, NEW b \in Bots, ResetFires(w, b) PROVE NobodyTold
    BY <1>2, NoneTold DEF ResetFires, osVars
  <1>3. CASE UNCHANGED vars
    BY <1>3, NoneTold DEF vars, osVars
  <1>4. QED
    BY <1>1, <1>2, <1>3, LoopTells, BeginTells, StartTells, FaultTells, ChildTells DEF Next

\* A process that may close its position keeps the command that caused it, which
\* no later step takes out of the queue or puts back.
LEMMA CauseKept ==
    ASSUME Inv, QueueInv, OnlyEmergencyCloses, [Next]_vars
    PROVE  OnlyEmergencyCloses'
  <1>f. Forward
    BY QueueStep DEF Inv
  <1> SUFFICES ASSUME NEW c \in Children, Closes(child'[c])
               PROVE  \E i \in DOMAIN commands' :
                        /\ commands'[i].bot = child'[c].bot
                        /\ commands'[i].kind = "EMERGENCY_STOP"
                        /\ commands'[i].status # "PENDING"
    BY DEF OnlyEmergencyCloses, Closes
  <1>1. CASE NoNewReason(child[c], child'[c])
    <2>1. Closes(child[c]) /\ child'[c].bot = child[c].bot
      BY <1>1 DEF NoNewReason
    <2>2. PICK i \in DOMAIN commands :
            /\ commands[i].bot = child[c].bot /\ commands[i].kind = "EMERGENCY_STOP"
            /\ commands[i].status # "PENDING"
      BY <2>1 DEF OnlyEmergencyCloses, Closes
    <2>3. QED
      BY <1>f, <2>1, <2>2 DEF Forward
  <1>2. ASSUME NEW w \in Workers, Begin(w), Command(w).kind = "EMERGENCY_STOP",
               child'[c].bot = CurBot(w)
        PROVE  \E i \in DOMAIN commands' :
                 /\ commands'[i].bot = child'[c].bot
                 /\ commands'[i].kind = "EMERGENCY_STOP"
                 /\ commands'[i].status # "PENDING"
    <2>1. cur[w] \in DOMAIN commands /\ cur[w] # 0
      BY <1>2, CurrentCommand DEF Begin, CommandLocations, Inv
    <2>2. commands[cur[w]].status # "PENDING"
      BY <2>1 DEF QueueInv, ClaimedOnce
    <2>3. QED
      BY <1>f, <1>2, <2>1, <2>2 DEF Forward, Command, CurBot
  <1>3. QED
    BY <1>1, <1>2, StepTells DEF NobodyTold

\* No crash, shutdown, timeout, signal or lost channel closes a position: in
\* every reachable state a process that closes one, or is told to, answers to an
\* EMERGENCY_STOP of its own bot that was claimed (stopBot, suspendBot,
\* stopWorker).
THEOREM EmergencyOnly == Spec => []OnlyEmergencyCloses
  <1>1. Init => OnlyEmergencyCloses
    BY DEF Init, OnlyEmergencyCloses, NoProcess
  <1>2. Inv /\ QueueInv /\ OnlyEmergencyCloses /\ [Next]_vars => OnlyEmergencyCloses'
    BY CauseKept
  <1>3. QED
    BY <1>1, <1>2, Invariance, QueueInvariance, PTL DEF Spec

----------------------------------------------------------------------------
(***************************************************************************)
(* Failover.  Leaders may crash at any step, be shut down and replaced,    *)
(* and stops may time out; as long as the lock's session, the database and *)
(* the trading processes themselves do not fail (Reliable), a bot has one  *)
(* trading process, a STOP that succeeded is final and a deleted bot is    *)
(* gone, for every number of replicas, bots, commands and processes.       *)
(***************************************************************************)
Reliable == Faults \cap {"lockLoss", "dbError", "childFailure"} = {}

\* The process runs, and nothing has told it to end.
Runs(p) == p.st \in {"booting", "running"} /\ p.code = "none"
Untold(p) == p.st \in {"booting", "running"} /\ p.asked = {}

\* Where main has no bots to supervise: not leader yet, or done with them.
Away == Gone \cup {"elect", "drain"}

\* A tracked process runs, and a process nothing told to end is tracked by the
\* worker that forked it.
TrackedRuns == \A w \in Workers, b \in Bots, c \in Children :
                 processes[w][b] = c => Runs(child[c])
UntoldTracked == \A c \in Children :
                   Untold(child[c]) => processes[child[c].owner][child[c].bot] = c

\* Only a leader tracks, and the processes it suspends have been asked to.
LeaderTracks == \A w \in Workers : pc[w] \in Away => \A b \in Bots : processes[w][b] = None
DrainAsked == \A w \in Workers : \A p \in drain[w] :
                /\ pc[w] = "drain"
                /\ child[p[2]].asked # {} /\ child[p[2]].owner = w

\* No restart timer runs, and the loop starts only what it does not track.
NoTimers == \A w \in Workers : /\ \A t \in Timers : tasks[w][t].at = "idle"
                               /\ tasks[w][Main].at # "timer"
Preparing == {"load", "register", "insert", "fork"}
StartsUntracked == \A w \in Workers :
                     tasks[w][Main].at \in Preparing =>
                       processes[w][tasks[w][Main].bot] = None

Sole == /\ TrackedRuns /\ UntoldTracked /\ LeaderTracks
        /\ DrainAsked /\ NoTimers /\ StartsUntracked

Leaders == Inv /\ LeaderLock /\ Sole /\ Reliable

-----------------------------------------------------------------------------
(***************************************************************************)
(* One trading process per bot.                                            *)
(***************************************************************************)
\* Main moves without leaving the leader's loop, unless it has no bots.
Moves == \A v \in Workers : /\ pc'[v] \in Away => pc[v] \in Away
                            /\ pc[v] = "drain" => pc'[v] = "drain" \/ drain[v] = {}

\* The types these proofs use most.
LEMMA FailoverTypes ==
    ASSUME Leaders
    PROVE  /\ child \in [Children -> Process]
           /\ processes \in [Workers -> [Bots -> Children \cup {None}]]
           /\ tasks \in [Workers -> [Tasks -> Task]] /\ pc \in [Workers -> Locations]
           /\ drain \in [Workers -> SUBSET (Bots \X Children)]
           /\ None \notin Children /\ Main \notin Timers /\ Tasks = Timers \cup {Main}
           /\ "lockLoss" \notin Faults /\ "dbError" \notin Faults
           /\ "childFailure" \notin Faults
  BY ConstantsAssumption DEF Leaders, Reliable, Inv, IInv, TypeOK, Tasks

\* A tracked process.
LEMMA Tracks ==
    ASSUME Leaders, NEW w \in Workers, NEW b \in Bots, processes[w][b] # None
    PROVE  /\ processes[w][b] \in Children
           /\ child[processes[w][b]].owner = w /\ child[processes[w][b]].bot = b
           /\ child[processes[w][b]].asked = {} /\ Runs(child[processes[w][b]])
  <1>1. processes[w][b] \in Children
    BY FailoverTypes
  <1>2. TrackedIsUnasked /\ TrackedRuns
    BY DEF Leaders, Inv, Tracking, Sole
  <1>3. QED
    BY <1>1, <1>2 DEF TrackedIsUnasked, TrackedRuns

\* startBot finds a tracked process always running.
LEMMA TrackedIsRunning ==
    ASSUME Leaders, NEW w \in Workers, NEW b \in Bots
    PROVE  AlreadyRunning(w, b) <=> processes[w][b] # None
  BY FailoverTypes DEF AlreadyRunning, ExitCodeNull, Leaders, Sole, TrackedRuns, Runs

\* Nothing happens to processes and to what is known of them.
LEMMA UntouchedSole ==
    ASSUME Leaders, UNCHANGED <<child, processes, drain, tasks>>, Moves
    PROVE  Sole'
  BY DEF Leaders, Sole, TrackedRuns, UntoldTracked, LeaderTracks, DrainAsked, NoTimers,
         StartsUntracked, Moves

\* The loop's task moves.
LEMMA TaskSole ==
    ASSUME Leaders, UNCHANGED <<child, processes, drain>>, Moves,
           NEW w \in Workers, NEW k, tasks' = [tasks EXCEPT ![w][Main] = k],
           k.at # "timer", k.at \in Preparing => processes[w][k.bot] = None
    PROVE  Sole'
  <1>1. /\ TrackedRuns' /\ UntoldTracked' /\ LeaderTracks' /\ DrainAsked'
    BY DEF Leaders, Sole, TrackedRuns, UntoldTracked, LeaderTracks, DrainAsked, Moves
  <1>2. \A v \in Workers, t \in Tasks :
          tasks'[v][t] = IF v = w /\ t = Main THEN k ELSE tasks[v][t]
    BY FailoverTypes
  <1>3. NoTimers'
    BY <1>2, FailoverTypes DEF Leaders, Sole, NoTimers
  <1>4. StartsUntracked'
    BY <1>2, FailoverTypes DEF Leaders, Sole, StartsUntracked
  <1>5. QED
    BY <1>1, <1>3, <1>4 DEF Sole

\* Something happens to one process.
LEMMA ProcessSole ==
    ASSUME Leaders, UNCHANGED <<processes, tasks>>, Moves,
           \A v \in Workers : drain'[v] \subseteq drain[v],
           NEW c, NEW q, child' = [child EXCEPT ![c] = q],
           c \in Children =>
             /\ q.owner = child[c].owner /\ q.bot = child[c].bot
             /\ child[c].asked \subseteq q.asked
             /\ Untold(q) => Untold(child[c])
             /\ (\E v \in Workers, x \in Bots : processes[v][x] = c) => Runs(q)
    PROVE  Sole'
  <1>1. /\ \A d \in Children : child'[d] = IF d = c THEN q ELSE child[d]
        /\ \A v \in Workers : \A p \in drain[v] : p[2] \in Children
    BY FailoverTypes
  <1>2. TrackedRuns'
    BY <1>1 DEF Leaders, Sole, TrackedRuns
  <1>3. UntoldTracked'
    BY <1>1 DEF Leaders, Sole, UntoldTracked
  <1>4. LeaderTracks' /\ NoTimers' /\ StartsUntracked'
    BY DEF Leaders, Sole, LeaderTracks, NoTimers, StartsUntracked, Moves
  <1>5. DrainAsked'
    <2> SUFFICES ASSUME NEW v \in Workers, NEW p \in drain'[v]
                 PROVE  /\ pc'[v] = "drain"
                        /\ child'[p[2]].asked # {} /\ child'[p[2]].owner = v
      BY DEF DrainAsked
    <2>1. /\ p \in drain[v] /\ p[2] \in Children
          /\ pc[v] = "drain" /\ child[p[2]].asked # {} /\ child[p[2]].owner = v
      BY <1>1 DEF Leaders, Sole, DrainAsked
    <2>2. QED
      BY <1>1, <2>1 DEF Moves
  <1>6. QED
    BY <1>2, <1>3, <1>4, <1>5 DEF Sole

\* Main of one worker moves.
LEMMA MoveOne ==
    ASSUME Leaders, NEW w \in Workers, NEW loc, pc' = [pc EXCEPT ![w] = loc],
           loc \in Away => pc[w] \in Away,
           pc[w] = "drain" => loc = "drain" \/ drain[w] = {}
    PROVE  Moves
  BY FailoverTypes DEF Moves

\* Steps that leave the processes and the loop's task alone.
LEMMA LoopSole ==
    ASSUME Leaders, NEW w \in Workers,
           \/ Elect(w) \/ Reconcile(w) \/ SelectDesired(w) \/ Claim(w) \/ PollIdle(w)
           \/ StopUnclean(w) \/ DeleteStage(w) \/ DeleteRow(w) \/ DeleteRm(w) \/ Settle(w)
           \/ CatchError(w) \/ CatchFail(w) \/ ExitStandby(w) \/ Relinquish(w) \/ Shutdown(w) \/ IdleRelease(w)
           \/ ApplyWrite(w) \/ \E b \in Bots : ResetFires(w, b)
    PROVE  Sole'
  <1> USE DEF At
  <1>1. CASE \/ Elect(w) \/ Reconcile(w) \/ SelectDesired(w) \/ Claim(w) \/ StopUnclean(w)
             \/ DeleteStage(w) \/ DeleteRow(w) \/ DeleteRm(w) \/ Settle(w) \/ CatchError(w)
             \/ CatchFail(w)
    <2>1. UNCHANGED <<child, processes, drain, tasks>>
      BY <1>1 DEF Elect, Reconcile, SelectDesired, Claim, StopUnclean, DeleteStage, DeleteRow,
                  DeleteRm, Settle, CatchError, CatchFail, memVars, osVars
    <2>2. \E loc : pc' = [pc EXCEPT ![w] = loc] /\ loc \notin Away /\ pc[w] # "drain"
      BY <1>1 DEF Elect, Reconcile, SelectDesired, Claim, StopUnclean, DeleteStage, DeleteRow,
                  DeleteRm, Settle, CatchError, CatchFail, Away, Gone
    <2>3. QED
      BY <2>1, <2>2, MoveOne, UntouchedSole
  <1>2. CASE \/ PollIdle(w) \/ Shutdown(w) \/ IdleRelease(w) \/ ApplyWrite(w)
             \/ \E b \in Bots : ResetFires(w, b)
    <2>1. UNCHANGED <<child, processes, drain, tasks, pc>>
      BY <1>2 DEF PollIdle, Shutdown, IdleRelease, ApplyWrite, ResetFires, vars, loopVars,
                  memVars, osVars
    <2>2. QED
      BY <2>1, UntouchedSole DEF Moves
  <1>3. CASE ExitStandby(w) \/ Relinquish(w)
    <2>1. UNCHANGED <<child, processes, drain, tasks>>
      BY <1>3 DEF ExitStandby, Relinquish, memVars, osVars
    <2>2. /\ \E loc : pc' = [pc EXCEPT ![w] = loc]
          /\ pc[w] \in Away /\ (pc[w] = "drain" => drain[w] = {})
      BY <1>3 DEF ExitStandby, Relinquish, Away
    <2>3. QED
      BY <2>1, <2>2, MoveOne, UntouchedSole
  <1>4. QED
    BY <1>1, <1>2, <1>3

\* The loop calls startBot.
LEMMA LoopStartSole ==
    ASSUME Leaders, NEW w \in Workers, NEW b \in Bots, LoopStartsBot(w, b),
           pc[w] # "drain", UNCHANGED <<child, processes, drain>>
    PROVE  Sole'
  <1>1. Moves
    <2>1. \E loc : pc' = [pc EXCEPT ![w] = loc] /\ loc \notin Away
      BY DEF LoopStartsBot, At, AfterStart, Away, Gone
    <2>2. QED
      BY <2>1, MoveOne
  <1>2. CASE tasks' = tasks
    BY <1>1, <1>2, UntouchedSole
  <1>3. CASE ~AlreadyRunning(w, b)
    <2>1. processes[w][b] = None
      BY <1>3, TrackedIsRunning
    <2> DEFINE k == [at |-> "load", bot |-> b, child |-> None]
    <2>2. tasks' = [tasks EXCEPT ![w][Main] = k] /\ k.at = "load" /\ k.bot = b
      BY <1>3 DEF LoopStartsBot
    <2> HIDE DEF k
    <2>3. QED
      BY <1>1, <2>1, <2>2, TaskSole DEF Preparing
  <1>4. QED
    BY <1>2, <1>3 DEF LoopStartsBot

\* The loop of reconcile, and the clean end of stopBot.
LEMMA RestoreSole ==
    ASSUME Leaders, NEW w \in Workers, Restore(w) \/ StopClean(w)
    PROVE  Sole'
  <1>1. pc[w] \notin Away /\ UNCHANGED <<child, processes, drain>>
    BY DEF Restore, StopClean, osVars, Away, Gone
  <1>2. pc[w] = "stopped" => CurBot(w) \in Bots
    BY CurrentCommand DEF CommandLocations, Leaders, Inv
  <1>3. \/ \E b \in Bots : LoopStartsBot(w, b)
        \/ tasks' = tasks /\ \E loc : pc' = [pc EXCEPT ![w] = loc] /\ loc \notin Away
        \/ tasks' = tasks /\ pc' = pc
    <2>1. CASE Restore(w)
      <3>1. todo[w] \subseteq Bots
        BY DEF Leaders, Inv, IInv, TypeOK
      <3>2. QED
        BY <2>1, <3>1 DEF Restore, At, Away, Gone
    <2>2. CASE StopClean(w)
      BY <1>2, <2>2 DEF StopClean, At, Away, Gone
    <2>3. QED
      BY <2>1, <2>2
  <1>4. CASE \E b \in Bots : LoopStartsBot(w, b)
    BY <1>1, <1>4, LoopStartSole DEF Away
  <1>5. CASE tasks' = tasks /\ \E loc : pc' = [pc EXCEPT ![w] = loc] /\ loc \notin Away
    <2>1. Moves
      BY <1>1, <1>5, MoveOne DEF Away
    <2>2. QED
      BY <1>1, <1>5, <2>1, UntouchedSole
  <1>6. CASE tasks' = tasks /\ pc' = pc
    BY <1>1, <1>6, UntouchedSole DEF Moves
  <1>7. QED
    BY <1>3, <1>4, <1>5, <1>6

\* Only the loop starts bots here, and it does so at "starting".
LEMMA MainStarts ==
    ASSUME Leaders, NEW w \in Workers, NEW t \in Tasks, tasks[w][t].at # "idle"
    PROVE  t = Main /\ pc[w] = "starting" /\ tasks[w][t].bot \in Bots
  <1>1. t = Main
    BY FailoverTypes DEF Leaders, Sole, NoTimers
  <1>2. QED
    BY <1>1 DEF Leaders, Inv, IInv, Shape, WaitShape, TaskShape

\* So no timer fires, and startBot meets no error.
LEMMA NoStartError ==
    ASSUME Leaders, NEW w \in Workers, NEW t \in Tasks
    PROVE  ~StartError(w, t) /\ ~TimerFires(w, t)
  <1>1. ~StartError(w, t)
    BY MainStarts, FailoverTypes DEF StartError
  <1>2. ~TimerFires(w, t)
    <2>1. NoTimers
      BY DEF Leaders, Sole
    <2>2. tasks[w][t].at # "timer"
      BY <2>1, FailoverTypes DEF NoTimers
    <2>3. QED
      BY <2>2 DEF TimerFires
  <1>3. QED
    BY <1>1, <1>2

\* startBot loads the bot and, at the end, attaches its listeners.
LEMMA LoadSole ==
    ASSUME Leaders, NEW w \in Workers, NEW t \in Tasks,
           StartLoad(w, t) \/ StartRegister(w, t) \/ StartMark(w, t)
    PROVE  Sole'
  <1>1. tasks[w][t].at # "idle"
    BY DEF StartLoad, StartRegister, StartMark
  <1>2. t = Main /\ pc[w] = "starting" /\ tasks[w][t].bot \in Bots
    BY <1>1, MainStarts
  <1>3. Moves
    <2>1. pc' = pc \/ \E loc : pc' = [pc EXCEPT ![w] = loc] /\ loc \notin Away
      BY DEF StartLoad, StartRegister, loopVars, StartMark, StartThrows, At, AfterStart, Away, Gone
    <2>2. QED
      BY <1>2, <2>1, MoveOne DEF Moves
  <1>4. CASE StartLoad(w, t) \/ StartRegister(w, t)
    <2>1. /\ UNCHANGED <<child, processes, drain>> /\ tasks[w][Main].at \in {"load", "register"}
          /\ \/ \E a \in {"register", "insert", "fork"} :
                  tasks' = [tasks EXCEPT ![w][Main] = [tasks[w][Main] EXCEPT !.at = a]]
             \/ tasks' = [tasks EXCEPT ![w][Main] = NoTask]
      BY <1>2, <1>4 DEF StartLoad, StartRegister, StartThrows, loopVars, osVars
    <2>2. processes[w][tasks[w][Main].bot] = None
      BY <2>1 DEF Leaders, Sole, StartsUntracked, Preparing
    <2>3. CASE tasks' = [tasks EXCEPT ![w][Main] = NoTask]
      <3>1. NoTask.at = "idle"
        BY DEF NoTask
      <3>2. QED
        BY <1>3, <2>1, <2>3, <3>1, TaskSole DEF Preparing
    <2>4. ASSUME NEW a \in {"register", "insert", "fork"},
                 tasks' = [tasks EXCEPT ![w][Main] = [tasks[w][Main] EXCEPT !.at = a]]
          PROVE  Sole'
      <3> DEFINE k == [tasks[w][Main] EXCEPT !.at = a]
      <3>1. tasks[w][Main] \in Task
        BY FailoverTypes
      <3>2. k.bot = tasks[w][Main].bot /\ k.at = a
        BY <3>1 DEF Task
      <3>3. tasks' = [tasks EXCEPT ![w][Main] = k]
        BY <2>4
      <3> HIDE DEF k
      <3>4. QED
        BY <1>3, <2>1, <2>2, <3>2, <3>3, TaskSole
    <2>5. QED
      BY <2>1, <2>3, <2>4
  <1>5. CASE StartMark(w, t)
    <2> DEFINE c == tasks[w][Main].child
               q == [child[c] EXCEPT !.listening = TRUE]
    <2>1. /\ UNCHANGED <<processes, drain>> /\ child' = [child EXCEPT ![c] = q]
          /\ tasks' = [tasks EXCEPT ![w][Main] = NoTask]
      BY <1>2, <1>5 DEF StartMark
    <2>2. \A v \in Workers, u \in Tasks :
            tasks'[v][u] = IF v = w /\ u = Main THEN NoTask ELSE tasks[v][u]
      BY <2>1, FailoverTypes
    <2>3. \A d \in Children :
            /\ child'[d].owner = child[d].owner /\ child'[d].bot = child[d].bot
            /\ child'[d].st = child[d].st /\ child'[d].code = child[d].code
            /\ child'[d].asked = child[d].asked
      BY <2>1, FailoverTypes DEF Process
    <2>4. TrackedRuns' /\ UntoldTracked' /\ LeaderTracks'
      <3>1. \A d \in Children : /\ Runs(child'[d]) <=> Runs(child[d])
                                /\ Untold(child'[d]) <=> Untold(child[d])
        BY <2>3 DEF Runs, Untold
      <3>2. TrackedRuns'
        BY <2>1, <3>1 DEF Leaders, Sole, TrackedRuns
      <3>3. UntoldTracked'
        BY <2>1, <2>3, <3>1 DEF Leaders, Sole, UntoldTracked
      <3>4. LeaderTracks'
        BY <1>3, <2>1 DEF Leaders, Sole, LeaderTracks, Moves
      <3>5. QED
        BY <3>2, <3>3, <3>4
    <2>5. DrainAsked'
      <3>1. \A v \in Workers : \A p \in drain[v] : p[2] \in Children
        BY FailoverTypes
      <3>2. QED
        BY <1>3, <2>1, <2>3, <3>1 DEF Leaders, Sole, DrainAsked, Moves
    <2>6. NoTimers' /\ StartsUntracked'
      BY <2>1, <2>2, FailoverTypes DEF Leaders, Sole, NoTimers, StartsUntracked, Preparing, NoTask
    <2>7. QED
      BY <2>4, <2>5, <2>6 DEF Sole
  <1>6. QED
    BY <1>4, <1>5

\* startBot forks: the bot has no other process, and the new one is nobody's.
LEMMA ForkSole ==
    ASSUME Leaders, NEW w \in Workers, NEW t \in Tasks, StartFork(w, t)
    PROVE  Sole'
  <1> DEFINE b == tasks[w][t].bot
  <1>1. PICK c \in Children :
          /\ Reusable(c)
          /\ child' = [child EXCEPT ![c] = Forked(w, b)]
          /\ processes' = [processes EXCEPT ![w][b] = c]
          /\ tasks' = [tasks EXCEPT ![w][t] = [tasks[w][t] EXCEPT !.at = "mark", !.child = c]]
    BY DEF StartFork
  <1>2. t = Main /\ pc[w] = "starting" /\ b \in Bots /\ UNCHANGED <<drain, pc>>
    BY MainStarts DEF StartFork, loopVars
  <1>3. processes[w][b] = None
    BY <1>2 DEF StartFork, Leaders, Sole, StartsUntracked, Preparing
  <1>4. /\ Forked(w, b).owner = w /\ Forked(w, b).bot = b /\ Forked(w, b).asked = {}
        /\ Runs(Forked(w, b))
    BY DEF Forked, NoProcess, Runs
  <1>5. \A d \in Children : child'[d] = IF d = c THEN Forked(w, b) ELSE child[d]
    BY <1>1, FailoverTypes
  <1>6. \A v \in Workers, x \in Bots :
          processes'[v][x] = IF v = w /\ x = b THEN c ELSE processes[v][x]
    BY <1>1, <1>2, FailoverTypes
  <1>7. \A v \in Workers, u \in Tasks :
          /\ u # Main => tasks'[v][u] = tasks[v][u]
          /\ v # w => tasks'[v][u] = tasks[v][u]
          /\ tasks'[w][Main].at = "mark"
    <2>1. tasks[w][t] \in Task
      BY FailoverTypes
    <2>2. [tasks[w][t] EXCEPT !.at = "mark", !.child = c].at = "mark"
      BY <2>1 DEF Task
    <2>3. QED
      BY <1>1, <1>2, <2>2, FailoverTypes
  <1>8. \A v \in Workers : \A p \in drain[v] : p[2] # c
    <2> SUFFICES ASSUME NEW v \in Workers, NEW p \in drain[v], p[2] = c PROVE FALSE
      OBVIOUS
    <2>1. pc[v] = "drain" /\ child[c].owner = v
      BY DEF Leaders, Sole, DrainAsked
    <2>2. child[c].st # "unused"
      BY DEF Leaders, Inv, Tracking, DrainUsed
    <2>3. p[1] \in Bots /\ p = <<p[1], c>>
      BY FailoverTypes
    <2>4. QED
      BY <1>1, <2>1, <2>2, <2>3 DEF Reusable
  <1> HIDE DEF b
  <1>9. TrackedRuns'
    BY <1>4, <1>5, <1>6 DEF Leaders, Sole, TrackedRuns
  <1>10. UntoldTracked'
    <2> SUFFICES ASSUME NEW d \in Children, Untold(child'[d])
                 PROVE  processes'[child'[d].owner][child'[d].bot] = d
      BY DEF UntoldTracked
    <2>1. CASE d = c
      BY <1>2, <1>4, <1>5, <1>6, <2>1
    <2>2. CASE d # c
      <3>1. child'[d] = child[d] /\ processes[child[d].owner][child[d].bot] = d
        BY <1>5, <2>2 DEF Leaders, Sole, UntoldTracked
      <3>2. child[d].owner \in Workers /\ child[d].bot \in Bots
        BY <2>2, <3>1 DEF Untold, Leaders, Inv, IInv, Shape, ChildShape
      <3>3. ~(child[d].owner = w /\ child[d].bot = b)
        BY <1>3, <3>1, FailoverTypes
      <3>4. QED
        BY <1>6, <3>1, <3>2, <3>3
    <2>3. QED
      BY <2>1, <2>2
  <1>11. LeaderTracks'
    BY <1>2, <1>6 DEF Leaders, Sole, LeaderTracks, Away, Gone
  <1>12. DrainAsked'
    <2>1. \A v \in Workers : \A p \in drain[v] : p[2] \in Children
      BY FailoverTypes
    <2>2. QED
      BY <1>2, <1>5, <1>8, <2>1 DEF Leaders, Sole, DrainAsked
  <1>13. NoTimers' /\ StartsUntracked'
    <2>1. NoTimers'
      BY <1>7, FailoverTypes DEF Leaders, Sole, NoTimers
    <2>2. ASSUME NEW v \in Workers, tasks'[v][Main].at \in Preparing
          PROVE  processes'[v][tasks'[v][Main].bot] = None
      <3>1. v # w /\ tasks'[v][Main] = tasks[v][Main]
        BY <1>7, <2>2, FailoverTypes DEF Preparing
      <3>2. tasks[v][Main].bot \in Bots /\ processes[v][tasks[v][Main].bot] = None
        BY <2>2, <3>1, MainStarts, FailoverTypes DEF Leaders, Sole, StartsUntracked, Preparing
      <3>3. QED
        BY <1>6, <3>1, <3>2
    <2>3. QED
      BY <2>1, <2>2 DEF StartsUntracked
  <1>14. QED
    BY <1>9, <1>10, <1>11, <1>12, <1>13 DEF Sole

\* Requests and ends, as processes see them.
LEMMA ProcessChanges ==
    ASSUME NEW p \in Process
    PROVE  /\ \A r : /\ Asked(p, r).owner = p.owner /\ Asked(p, r).bot = p.bot
                     /\ Asked(p, r).asked = p.asked \cup {r} /\ Asked(p, r).st = p.st
                     /\ Asked(p, r).code = p.code /\ ~Untold(Asked(p, r))
           /\ /\ Ended(p, "signal", {}).owner = p.owner /\ Ended(p, "signal", {}).bot = p.bot
              /\ Ended(p, "signal", {}).asked = p.asked /\ ~Untold(Ended(p, "signal", {}))
  <1>1. \A r : /\ Asked(p, r).owner = p.owner /\ Asked(p, r).bot = p.bot
               /\ Asked(p, r).asked = p.asked \cup {r} /\ Asked(p, r).st = p.st
               /\ Asked(p, r).code = p.code
    BY DEF Process, Asked
  <1>2. \A r : ~Untold(Asked(p, r))
    BY <1>1 DEF Untold
  <1>3. /\ Ended(p, "signal", {}).owner = p.owner /\ Ended(p, "signal", {}).bot = p.bot
        /\ Ended(p, "signal", {}).asked = p.asked /\ Ended(p, "signal", {}).st = "dead"
    BY DEF Process, Ended
  <1>4. QED
    BY <1>1, <1>2, <1>3 DEF Untold

\* stopBot: the tracked process is told to end and tracked no longer.
LEMMA StopsBotSole ==
    ASSUME Leaders, NEW w \in Workers, NEW b \in Bots, NEW close, StopsBot(w, b, close),
           pc[w] \notin Away, UNCHANGED <<drain, tasks>>
    PROVE  Sole'
  <1> DEFINE c == processes[w][b]
  <1>1. \A v \in Workers, x \in Bots :
          processes'[v][x] = IF v = w /\ x = b THEN None ELSE processes[v][x]
    BY FailoverTypes DEF StopsBot, Untrack
  <1>2. Moves
    <2>1. \E loc : pc' = [pc EXCEPT ![w] = loc] /\ loc \notin Away
      BY DEF StopsBot, At, Away, Gone
    <2>2. QED
      BY <2>1, MoveOne DEF Away
  <1>3. \A d \in Children : /\ child'[d].owner = child[d].owner /\ child'[d].bot = child[d].bot
                            /\ child'[d].st = child[d].st /\ child'[d].code = child[d].code
                            /\ child[d].asked \subseteq child'[d].asked
                            /\ d = c => ~Untold(child'[d])
    <2>1. CASE processes[w][b] = None
      <3>1. child' = child
        BY <2>1, TrackedIsRunning DEF StopsBot
      <3>2. QED
        BY <2>1, <3>1, FailoverTypes
    <2>2. CASE processes[w][b] # None
      <3>1. \E r : child' = [child EXCEPT ![c] = Asked(child[c], r)]
        BY <2>2, TrackedIsRunning DEF StopsBot
      <3>2. PICK r : \A d \in Children :
                       child'[d] = IF d = c THEN Asked(child[d], r) ELSE child[d]
        BY <3>1, FailoverTypes
      <3> HIDE DEF c
      <3>3. QED
        BY <3>2, ProcessChanges, FailoverTypes
    <2>3. QED
      BY <2>1, <2>2
  <1>4. TrackedRuns'
    <2> SUFFICES ASSUME NEW v \in Workers, NEW x \in Bots, NEW d \in Children,
                        processes'[v][x] = d
                 PROVE  Runs(child'[d])
      BY DEF TrackedRuns
    <2>1. processes[v][x] = d /\ d # None
      BY <1>1, FailoverTypes
    <2>2. Runs(child[d])
      BY <2>1, Tracks
    <2>3. QED
      BY <1>3, <2>2 DEF Runs
  <1>5. UntoldTracked'
    <2> SUFFICES ASSUME NEW d \in Children, Untold(child'[d])
                 PROVE  processes'[child'[d].owner][child'[d].bot] = d
      BY DEF UntoldTracked
    <2>1. d # c /\ child[d].asked \subseteq {}
      BY <1>3 DEF Untold
    <2>2. Untold(child[d])
      BY <1>3, <2>1 DEF Untold
    <2>3. /\ processes[child[d].owner][child[d].bot] = d
          /\ child[d].owner \in Workers /\ child[d].bot \in Bots
      BY <2>2 DEF Untold, Leaders, Sole, UntoldTracked, Inv, IInv, Shape, ChildShape
    <2>4. ~(child[d].owner = w /\ child[d].bot = b)
      BY <2>1, <2>3
    <2> HIDE DEF c
    <2>5. QED
      BY <1>1, <1>3, <2>3, <2>4
  <1>6. LeaderTracks'
    BY <1>1, <1>2 DEF Leaders, Sole, LeaderTracks, Moves
  <1>7. DrainAsked'
    <2>1. \A v \in Workers : \A p \in drain[v] : p[2] \in Children
      BY FailoverTypes
    <2> HIDE DEF c
    <2>2. QED
      BY <1>2, <1>3, <2>1 DEF Leaders, Sole, DrainAsked, Moves
  <1>8. NoTimers'
    BY DEF Leaders, Sole, NoTimers
  <1>9. StartsUntracked'
    <2> SUFFICES ASSUME NEW v \in Workers, tasks[v][Main].at \in Preparing
                 PROVE  processes'[v][tasks[v][Main].bot] = None
      BY DEF StartsUntracked
    <2>1. tasks[v][Main].bot \in Bots /\ processes[v][tasks[v][Main].bot] = None
      BY MainStarts, FailoverTypes DEF Leaders, Sole, StartsUntracked, Preparing
    <2>2. QED
      BY <1>1, <2>1
  <1>10. QED
    BY <1>4, <1>5, <1>6, <1>7, <1>8, <1>9 DEF Sole

\* handleCommand calls the operation.
LEMMA BeginSole ==
    ASSUME Leaders, NEW w \in Workers, Begin(w)
    PROVE  Sole'
  <1> DEFINE b == CurBot(w)
  <1>1. b \in Bots /\ pc[w] = "begin" /\ drain' = drain
    BY CurrentCommand DEF Begin, CommandLocations, Leaders, Inv
  <1>2. \/ tasks' = tasks /\ \E close : StopsBot(w, b, close)
        \/ UNCHANGED <<processes, child, tasks>> /\ pc' = [pc EXCEPT ![w] = "deleting"]
        \/ UNCHANGED <<processes, child>> /\ LoopStartsBot(w, b)
    BY DEF Begin, At
  <1> HIDE DEF b
  <1>3. CASE tasks' = tasks /\ \E close : StopsBot(w, b, close)
    BY <1>1, <1>3, StopsBotSole DEF Away, Gone
  <1>4. CASE UNCHANGED <<processes, child, tasks>> /\ pc' = [pc EXCEPT ![w] = "deleting"]
    <2>1. Moves
      BY <1>1, <1>4, MoveOne DEF Away, Gone
    <2>2. QED
      BY <1>1, <1>4, <2>1, UntouchedSole
  <1>5. CASE UNCHANGED <<processes, child>> /\ LoopStartsBot(w, b)
    BY <1>1, <1>5, LoopStartSole
  <1>6. QED
    BY <1>2, <1>3, <1>4, <1>5

\* The timeout of stopBot: SIGTERM for a process nobody tracks.
LEMMA TimeoutSole ==
    ASSUME Leaders, NEW w \in Workers, StopTimeout(w)
    PROVE  Sole'
  <1> DEFINE c == waiting[w]
             q == Asked(child[c], "suspend")
  <1>1. /\ child' = [child EXCEPT ![c] = q] /\ UNCHANGED <<processes, tasks, drain>>
        /\ pc[w] = "stopWait" /\ pc' = [pc EXCEPT ![w] = "unclean"]
    BY DEF StopTimeout, At, memVars
  <1>2. Moves
    BY <1>1, MoveOne DEF Away, Gone
  <1>3. c \in Children => child[c].owner = w /\ \A x \in Bots : processes[w][x] # c
    BY FailoverTypes DEF Leaders, Inv, Tracking, WaitOwn
  <1>4. c \in Children => \A v \in Workers, x \in Bots : processes[v][x] # c
    BY <1>3 DEF Leaders, Inv, Tracking, TrackedIsUnasked
  <1>5. c \in Children => /\ q.owner = child[c].owner /\ q.bot = child[c].bot
                          /\ child[c].asked \subseteq q.asked /\ ~Untold(q)
    BY ProcessChanges, FailoverTypes
  <1> HIDE DEF c, q
  <1>6. QED
    BY <1>1, <1>2, <1>4, <1>5, ProcessSole

\* A worker forgets all its processes and asks them to end: a shutdown that
\* drains, or a crash that closes their channels.
LEMMA ForgetSole ==
    ASSUME Leaders, NEW w \in Workers,
           \A v \in Workers, x \in Bots :
             processes'[v][x] = IF v = w THEN None ELSE processes[v][x],
           \A c \in Children : child'[c] \in {child[c], Asked(child[c], "suspend")},
           \A x \in Bots : processes[w][x] # None =>
             child'[processes[w][x]] = Asked(child[processes[w][x]], "suspend"),
           \A v \in Workers : v # w => drain'[v] = drain[v] /\ pc'[v] = pc[v],
           \A v \in Workers : tasks'[v] = tasks[v] \/ \A t \in Tasks : tasks'[v][t] = NoTask
    PROVE  TrackedRuns' /\ UntoldTracked' /\ LeaderTracks' /\ NoTimers' /\ StartsUntracked'
  <1>1. \A d \in Children : /\ child'[d].owner = child[d].owner /\ child'[d].bot = child[d].bot
                            /\ child'[d].st = child[d].st /\ child'[d].code = child[d].code
                            /\ Untold(child'[d]) => child'[d] = child[d]
    BY ProcessChanges, FailoverTypes
  <1>2. TrackedRuns'
    <2> SUFFICES ASSUME NEW v \in Workers, NEW x \in Bots, NEW d \in Children,
                        processes'[v][x] = d
                 PROVE  Runs(child'[d])
      BY DEF TrackedRuns
    <2>1. processes[v][x] = d /\ d # None
      BY FailoverTypes
    <2>2. Runs(child[d])
      BY <2>1, Tracks
    <2>3. QED
      BY <1>1, <2>2 DEF Runs
  <1>3. UntoldTracked'
    <2> SUFFICES ASSUME NEW d \in Children, Untold(child'[d])
                 PROVE  processes'[child'[d].owner][child'[d].bot] = d
      BY DEF UntoldTracked
    <2>1. child'[d] = child[d]
      BY <1>1
    <2>2. /\ processes[child[d].owner][child[d].bot] = d
          /\ child[d].owner \in Workers /\ child[d].bot \in Bots
      BY <2>1 DEF Untold, Leaders, Sole, UntoldTracked, Inv, IInv, Shape, ChildShape
    <2>3. child[d].owner # w
      <3>1. ~Untold(Asked(child[d], "suspend"))
        BY ProcessChanges, FailoverTypes
      <3>2. child[d].owner = w => child'[d] = Asked(child[d], "suspend")
        BY <2>2, FailoverTypes
      <3>3. QED
        BY <2>1, <3>1, <3>2
    <2>4. QED
      BY <2>1, <2>2, <2>3
  <1>4. LeaderTracks'
    BY DEF Leaders, Sole, LeaderTracks
  <1>5. NoTimers'
    <2>1. NoTask.at = "idle"
      BY DEF NoTask
    <2>2. \A v \in Workers, t \in Tasks : tasks'[v][t].at \in {tasks[v][t].at, "idle"}
      BY <2>1
    <2>3. NoTimers
      BY DEF Leaders, Sole
    <2>4. Timers \subseteq Tasks /\ Main \in Tasks
      BY FailoverTypes
    <2>5. ASSUME NEW v \in Workers
          PROVE  /\ \A t \in Timers : tasks'[v][t].at = "idle"
                 /\ tasks'[v][Main].at # "timer"
      <3>1. \A t \in Timers : tasks'[v][t].at = "idle"
        BY <2>2, <2>3, <2>4 DEF NoTimers
      <3>2. tasks'[v][Main].at # "timer"
        BY <2>2, <2>3, <2>4 DEF NoTimers
      <3>3. QED
        BY <3>1, <3>2
    <2>6. QED
      BY <2>5 DEF NoTimers
  <1>6. StartsUntracked'
    <2> SUFFICES ASSUME NEW v \in Workers, tasks'[v][Main].at \in Preparing
                 PROVE  processes'[v][tasks'[v][Main].bot] = None
      BY DEF StartsUntracked
    <2>0. NoTask.at \notin Preparing
      BY DEF NoTask, Preparing
    <2>1. tasks'[v] = tasks[v]
      BY <2>0, FailoverTypes
    <2>2. tasks[v][Main].bot \in Bots /\ processes[v][tasks[v][Main].bot] = None
      BY <2>1, MainStarts, FailoverTypes DEF Leaders, Sole, StartsUntracked, Preparing
    <2>3. QED
      BY <2>1, <2>2
  <1>7. QED
    BY <1>2, <1>3, <1>4, <1>5, <1>6

\* The leader is shut down: suspendBot for every tracked bot.
LEMMA DrainStartSole ==
    ASSUME Leaders, NEW w \in Workers, DrainStart(w)
    PROVE  Sole'
  <1>1. /\ pc[w] = "poll" /\ pc' = [pc EXCEPT ![w] = "drain"] /\ tasks' = tasks
        /\ drain' = [drain EXCEPT ![w] = {<<b, processes[w][b]>> : b \in Tracked(w)}]
        /\ processes' = [processes EXCEPT ![w] = [b \in Bots |-> None]]
        /\ child' = SuspendAll(w)
    BY DEF DrainStart, At
  <1>2. \A v \in Workers, x \in Bots :
          processes'[v][x] = IF v = w THEN None ELSE processes[v][x]
    BY <1>1, FailoverTypes
  <1>3. \A c \in Children : child'[c] \in {child[c], Asked(child[c], "suspend")}
    BY <1>1 DEF SuspendAll
  <1>4. ASSUME NEW x \in Bots, processes[w][x] # None
        PROVE  child'[processes[w][x]] = Asked(child[processes[w][x]], "suspend")
    <2>1. ExitCodeNull(processes[w][x]) /\ processes[w][x] \in Children /\ x \in Tracked(w)
      BY <1>4, TrackedIsRunning, FailoverTypes DEF AlreadyRunning, Tracked
    <2>2. QED
      BY <1>1, <2>1 DEF SuspendAll
  <1>5. \A v \in Workers : v # w => drain'[v] = drain[v] /\ pc'[v] = pc[v]
    BY <1>1, FailoverTypes
  <1>6. TrackedRuns' /\ UntoldTracked' /\ LeaderTracks' /\ NoTimers' /\ StartsUntracked'
    BY <1>1, <1>2, <1>3, <1>4, <1>5, ForgetSole
  <1>7. DrainAsked'
    <2> SUFFICES ASSUME NEW v \in Workers, NEW p \in drain'[v]
                 PROVE  /\ pc'[v] = "drain"
                        /\ child'[p[2]].asked # {} /\ child'[p[2]].owner = v
      BY DEF DrainAsked
    <2>1. CASE v = w
      <3>1. PICK x \in Tracked(w) : p = <<x, processes[w][x]>>
        BY <1>1, <2>1, FailoverTypes
      <3>2. /\ x \in Bots /\ processes[w][x] \in Children /\ p[2] = processes[w][x]
            /\ processes[w][x] # None
        BY <3>1, FailoverTypes DEF Tracked
      <3>3. child[p[2]].owner = w
        BY <3>2 DEF Leaders, Inv, Tracking, TrackedIsUnasked
      <3>4. child'[p[2]] = Asked(child[p[2]], "suspend")
        BY <1>4, <3>2
      <3>5. child'[p[2]].owner = w /\ child'[p[2]].asked = child[p[2]].asked \cup {"suspend"}
        BY <3>2, <3>3, <3>4, ProcessChanges, FailoverTypes
      <3>6. pc'[v] = "drain"
        BY <1>1, <2>1, FailoverTypes
      <3>7. QED
        BY <2>1, <3>5, <3>6
    <2>2. CASE v # w
      <3>1. p \in drain[v] /\ p[2] \in Children /\ pc'[v] = pc[v]
        BY <1>5, <2>2, FailoverTypes
      <3>2. pc[v] = "drain" /\ child[p[2]].asked # {} /\ child[p[2]].owner = v
        BY <3>1 DEF Leaders, Sole, DrainAsked
      <3>3. child'[p[2]] \in {child[p[2]], Asked(child[p[2]], "suspend")}
        BY <1>3, <3>1
      <3>4. child[p[2]] \in Process
        BY <3>1, FailoverTypes
      <3>5. child'[p[2]].owner = v /\ child[p[2]].asked \subseteq child'[p[2]].asked
        BY <3>2, <3>3, <3>4, ProcessChanges
      <3>6. QED
        BY <3>1, <3>2, <3>5
    <2>3. QED
      BY <2>1, <2>2
  <1>8. QED
    BY <1>6, <1>7 DEF Sole

\* A worker process ends.
LEMMA DiesSole ==
    ASSUME Leaders, NEW w \in Workers, Dies(w)
    PROVE  Sole'
  <1>1. /\ pc' = [pc EXCEPT ![w] = "down"] /\ drain' = [drain EXCEPT ![w] = {}]
        /\ processes' = [processes EXCEPT ![w] = [b \in Bots |-> None]]
        /\ tasks' = [tasks EXCEPT ![w] = [t \in Tasks |-> NoTask]]
        /\ child' = [c \in Children |-> IF child[c].owner = w THEN Asked(child[c], "suspend")
                                        ELSE child[c]]
    BY DEF Dies, At
  <1>2. \A v \in Workers, x \in Bots :
          processes'[v][x] = IF v = w THEN None ELSE processes[v][x]
    BY <1>1, FailoverTypes
  <1>3. \A c \in Children : child'[c] \in {child[c], Asked(child[c], "suspend")}
    BY <1>1
  <1>4. ASSUME NEW x \in Bots, processes[w][x] # None
        PROVE  child'[processes[w][x]] = Asked(child[processes[w][x]], "suspend")
    <2>1. processes[w][x] \in Children /\ child[processes[w][x]].owner = w
      BY <1>4, Tracks
    <2>2. QED
      BY <1>1, <2>1
  <1>5. /\ \A v \in Workers : v # w => drain'[v] = drain[v] /\ pc'[v] = pc[v]
        /\ drain'[w] = {}
        /\ \A v \in Workers : tasks'[v] = tasks[v] \/ \A t \in Tasks : tasks'[v][t] = NoTask
    BY <1>1, FailoverTypes
  <1>6. TrackedRuns' /\ UntoldTracked' /\ LeaderTracks' /\ NoTimers' /\ StartsUntracked'
    BY <1>2, <1>3, <1>4, <1>5, ForgetSole
  <1>7. DrainAsked'
    <2> SUFFICES ASSUME NEW v \in Workers, NEW p \in drain'[v]
                 PROVE  /\ pc'[v] = "drain"
                        /\ child'[p[2]].asked # {} /\ child'[p[2]].owner = v
      BY DEF DrainAsked
    <2>1. v # w /\ p \in drain[v] /\ p[2] \in Children /\ pc'[v] = pc[v]
      BY <1>5, FailoverTypes
    <2>2. pc[v] = "drain" /\ child[p[2]].asked # {} /\ child[p[2]].owner = v
      BY <2>1 DEF Leaders, Sole, DrainAsked
    <2> DEFINE c == p[2]
    <2>3. child[c] \in Process /\ child'[c] \in {child[c], Asked(child[c], "suspend")}
      BY <1>3, <2>1, FailoverTypes
    <2>4. child'[c].owner = child[c].owner /\ child[c].asked \subseteq child'[c].asked
      <3> HIDE DEF c
      <3>1. QED
        BY <2>3, ProcessChanges
    <2>5. QED
      BY <2>1, <2>2, <2>4
  <1>8. QED
    BY <1>6, <1>7 DEF Sole

\* suspendBot ends for one bot; its timeout kills a process nobody tracks.
LEMMA DrainSole ==
    ASSUME Leaders, NEW w \in Workers, DrainBot(w)
    PROVE  Sole'
  <1>1. /\ UNCHANGED <<processes, tasks, pc>> /\ \A v \in Workers : drain'[v] \subseteq drain[v]
        /\ Moves
    BY FailoverTypes DEF DrainBot, memVars, Moves
  <1>2. \/ child' = child
        \/ \E p \in drain[w] : child' = [child EXCEPT ![p[2]] = Ended(child[p[2]], "signal", {})]
    BY DEF DrainBot
  <1>3. CASE child' = child
    BY <1>1, <1>3 DEF Leaders, Sole, TrackedRuns, UntoldTracked, LeaderTracks, DrainAsked,
                      NoTimers, StartsUntracked
  <1>4. ASSUME NEW p \in drain[w],
               child' = [child EXCEPT ![p[2]] = Ended(child[p[2]], "signal", {})]
        PROVE  Sole'
    <2> DEFINE c == p[2]
               q == Ended(child[c], "signal", {})
    <2>1. c \in Children /\ child[c].asked # {}
      <3>1. p \in Bots \X Children
        BY FailoverTypes
      <3>2. child[p[2]].asked # {}
        BY DEF Leaders, Sole, DrainAsked
      <3>3. QED
        BY <3>1, <3>2
    <2>2. \A v \in Workers, x \in Bots : processes[v][x] # c
      BY <2>1 DEF Leaders, Inv, Tracking, TrackedIsUnasked
    <2>3. /\ q.owner = child[c].owner /\ q.bot = child[c].bot
          /\ child[c].asked \subseteq q.asked /\ ~Untold(q)
      <3>1. child[c] \in Process
        BY <2>1, FailoverTypes
      <3> HIDE DEF c
      <3>2. /\ q.owner = child[c].owner /\ q.bot = child[c].bot
            /\ q.asked = child[c].asked /\ ~Untold(q)
        BY <3>1, ProcessChanges
      <3>3. QED
        BY <3>2
    <2>4. child' = [child EXCEPT ![c] = q]
      BY <1>4
    <2> HIDE DEF c, q
    <2>5. QED
      BY <1>1, <2>2, <2>3, <2>4, ProcessSole
  <1>5. QED
    BY <1>2, <1>3, <1>4

\* What a supervisor notes about a process changes nothing of the process.
LEMMA NotedSole ==
    ASSUME Leaders, UNCHANGED <<processes, tasks, drain>>, Moves,
           NEW c \in Children, NEW q, child' = [child EXCEPT ![c] = q],
           q.owner = child[c].owner, q.bot = child[c].bot, q.st = child[c].st,
           q.asked = child[c].asked, q.code = child[c].code
    PROVE  Sole'
  <1>1. Untold(q) => Untold(child[c])
    BY DEF Untold
  <1>2. ASSUME NEW v \in Workers, NEW x \in Bots, processes[v][x] = c
        PROVE  Runs(q)
    <2>1. Runs(child[c])
      BY <1>2, Tracks, FailoverTypes
    <2>2. QED
      BY <2>1 DEF Runs
  <1>3. QED
    BY <1>1, <1>2, ProcessSole

\* A tracked process runs, so none exits and no restart is scheduled.
LEMMA NothingTrackedExits ==
    ASSUME Leaders, NEW c \in Children
    PROVE  ~ExitTracked(c)
  <1> SUFFICES ASSUME ExitTracked(c) PROVE FALSE
    OBVIOUS
  <1> DEFINE w == child[c].owner
             b == child[c].bot
  <1>1. child[c].st = "dead" /\ processes[w][b] = c
    BY DEF ExitTracked, Exited
  <1>2. w \in Workers /\ b \in Bots
    BY <1>1 DEF Leaders, Inv, IInv, Shape, ChildShape
  <1>3. processes[w][b] # None
    BY <1>1, FailoverTypes
  <1> HIDE DEF w, b
  <1>4. Runs(child[c])
    BY <1>1, <1>2, <1>3, Tracks
  <1>5. QED
    BY <1>1, <1>4 DEF Runs

\* Exit events and messages.
LEMMA EventSole ==
    ASSUME Leaders, NEW c \in Children, ChildEvent(c)
    PROVE  Sole'
  <1>c. child[c] \in Process
    BY FailoverTypes
  <1>r. LET q == [child[c] EXCEPT !.reaped = TRUE] IN
        /\ q.owner = child[c].owner /\ q.bot = child[c].bot /\ q.st = child[c].st
        /\ q.asked = child[c].asked /\ q.code = child[c].code
    BY <1>c DEF Process
  <1>1. CASE ExitAwaited(c)
    <2> DEFINE w == child[c].owner
    <2>1. /\ UNCHANGED <<processes, tasks, drain>> /\ waiting[w] = c
          /\ child' = [child EXCEPT ![c] = [child[c] EXCEPT !.reaped = TRUE]]
          /\ pc' = [pc EXCEPT ![w] = IF child[c].code = "zero" THEN "stopped" ELSE "unclean"]
          /\ child[c].st # "unused"
      BY <1>1 DEF ExitAwaited, Exited, Reap, At, memVars
    <2>2. w \in Workers
      BY <2>1 DEF Leaders, Inv, IInv, Shape, ChildShape
    <2>3. pc[w] = "stopWait"
      BY <2>1, <2>2, FailoverTypes DEF Leaders, Inv, IInv, Shape, WaitShape
    <2>4. Moves
      <3> DEFINE loc == IF child[c].code = "zero" THEN "stopped" ELSE "unclean"
      <3>1. loc \notin Away /\ pc' = [pc EXCEPT ![w] = loc]
        BY <2>1 DEF Away, Gone
      <3> HIDE DEF loc, w
      <3>2. QED
        BY <2>2, <2>3, <3>1, MoveOne
    <2>5. QED
      BY <1>r, <2>1, <2>4, NotedSole
  <1>2. ~ExitTracked(c)
    BY NothingTrackedExits
  <1>3. CASE ExitIgnored(c)
    <2>1. /\ UNCHANGED <<processes, tasks, drain, pc>>
          /\ child' = [child EXCEPT ![c] = [child[c] EXCEPT !.reaped = TRUE]]
      BY <1>3 DEF ExitIgnored, Reap, memVars, loopVars
    <2>2. QED
      BY <1>r, <2>1, NotedSole DEF Moves
  <1>4. CASE \E m \in {"started", "error"} : OnMessage(c, m)
    <2>1. PICK m : child' = [child EXCEPT ![c] = [child[c] EXCEPT !.msgs = child[c].msgs \ {m}]]
      BY <1>4 DEF OnMessage
    <2>2. UNCHANGED <<processes, tasks, drain, pc>>
      BY <1>4 DEF OnMessage, loopVars
    <2> DEFINE q == [child[c] EXCEPT !.msgs = child[c].msgs \ {m}]
    <2>3. /\ q.owner = child[c].owner /\ q.bot = child[c].bot /\ q.st = child[c].st
          /\ q.asked = child[c].asked /\ q.code = child[c].code
      BY <1>c DEF Process
    <2>4. child' = [child EXCEPT ![c] = q]
      BY <2>1
    <2> HIDE DEF q
    <2>5. QED
      BY <2>2, <2>3, <2>4, NotedSole DEF Moves
  <1>5. QED
    BY <1>1, <1>2, <1>3, <1>4 DEF ChildEvent

\* The life of a process that does not fail: it stops only when told to.
LEMMA LifeSole ==
    ASSUME Leaders, NEW c \in Children, ChildLife(c) \/ ChildTrades(c) \/ ChildFails(c)
    PROVE  Sole'
  <1>c. child[c] \in Process
    BY FailoverTypes
  <1>u. UNCHANGED <<processes, tasks, drain, pc>> /\ Moves
    <2>1. UNCHANGED <<dbVars, loopVars, memVars, dataDir>>
      BY DEF ChildLife, ChildStarted, ChildExits, ChildAsked, ChildTrades, ChildFails, ChildOnly
    <2>2. QED
      BY <2>1 DEF memVars, loopVars, Moves
  <1>t. ASSUME NEW v \in Workers, NEW x \in Bots, processes[v][x] = c
        PROVE  Runs(child[c]) /\ child[c].asked = {}
    BY <1>t, Tracks, FailoverTypes
  <1>1. PICK q : /\ child' = [child EXCEPT ![c] = q]
                 /\ q.owner = child[c].owner /\ q.bot = child[c].bot
                 /\ q.asked = child[c].asked
                 /\ Untold(q) => Untold(child[c])
                 /\ Runs(child[c]) /\ child[c].asked = {} => Runs(q)
    <2>1. CASE ChildStarted(c)
      <3> DEFINE q == [child[c] EXCEPT !.st = "running", !.msgs = child[c].msgs \cup {"started"}]
      <3>1. child' = [child EXCEPT ![c] = q] /\ child[c].st = "booting"
        BY <2>1 DEF ChildStarted
      <3>2. /\ q.owner = child[c].owner /\ q.bot = child[c].bot /\ q.asked = child[c].asked
            /\ q.st = "running" /\ q.code = child[c].code
        BY <1>c DEF Process
      <3> HIDE DEF q
      <3>3. QED
        BY <3>1, <3>2 DEF Untold, Runs
    <2>2. CASE ChildTrades(c)
      <3> DEFINE q == [child[c] EXCEPT !.knows = ~child[c].knows]
      <3>1. child' = [child EXCEPT ![c] = q]
        BY <2>2 DEF ChildTrades
      <3>2. /\ q.owner = child[c].owner /\ q.bot = child[c].bot /\ q.asked = child[c].asked
            /\ q.st = child[c].st /\ q.code = child[c].code
        BY <1>c DEF Process
      <3> HIDE DEF q
      <3>3. QED
        BY <3>1, <3>2 DEF Untold, Runs
    <2>3. ASSUME NEW r, ChildAsked(c, r)
          PROVE  \E q : /\ child' = [child EXCEPT ![c] = q]
                        /\ q.owner = child[c].owner /\ q.bot = child[c].bot
                        /\ q.asked = child[c].asked
                        /\ Untold(q) => Untold(child[c])
                        /\ Runs(child[c]) /\ child[c].asked = {} => Runs(q)
      <3> DEFINE q == [child[c] EXCEPT !.st = "stopping", !.closing = (r = "stop")]
      <3>1. child' = [child EXCEPT ![c] = q] /\ child[c].asked # {}
        BY <2>3 DEF ChildAsked
      <3>2. /\ q.owner = child[c].owner /\ q.bot = child[c].bot /\ q.asked = child[c].asked
            /\ q.st = "stopping"
        BY <1>c DEF Process
      <3> HIDE DEF q
      <3>3. QED
        BY <3>1, <3>2 DEF Untold
    <2>4. CASE ChildExits(c)
      <3> DEFINE q == Ended(child[c], "zero", {})
      <3>1. child' = [child EXCEPT ![c] = q] /\ child[c].st = "stopping"
        BY <2>4 DEF ChildExits
      <3>2. /\ q.owner = child[c].owner /\ q.bot = child[c].bot /\ q.asked = child[c].asked
            /\ q.st = "dead"
        BY <1>c DEF Process, Ended
      <3> HIDE DEF q
      <3>3. QED
        BY <3>1, <3>2 DEF Untold, Runs
    <2>5. ~ChildFails(c)
      BY FailoverTypes DEF ChildFails
    <2>6. QED
      BY <2>1, <2>2, <2>3, <2>4, <2>5 DEF ChildLife
  <1>2. QED
    BY <1>u, <1>t, <1>1, ProcessSole

\* Every step keeps who tracks what: Sole is inductive under Leaders.
LEMMA SoleStep ==
    ASSUME Leaders, [Next]_vars
    PROVE  Sole'
  <1>1. ASSUME NEW b \in Bots, Api(b) PROVE Sole'
    <2>1. UNCHANGED <<child, processes, drain, tasks, pc>>
      BY <1>1 DEF Api, PostCommand, PostDelete, ToggleConnection, Enqueue, loopVars, memVars,
                  osVars
    <2>2. QED
      BY <2>1, UntouchedSole DEF Moves
  <1>2. ASSUME NEW w \in Workers, Loop(w) \/ StopTimeout(w) \/ IdleRelease(w) \/ ApplyWrite(w)
        PROVE  Sole'
    BY <1>2, LoopSole, RestoreSole, BeginSole, TimeoutSole, DrainStartSole, DrainSole DEF Loop
  <1>3. ASSUME NEW w \in Workers, Fault(w) PROVE Sole'
    <2>1. ~LockLoss(w) /\ ~DbError(w) /\ ~DrainError(w)
      BY FailoverTypes DEF LockLoss, DbError, DrainError
    <2>2. CASE Crash(w) \/ RejectionKills(w) \/ SendKills(w)
      BY <2>2, DiesSole DEF Crash, RejectionKills, SendKills
    <2>3. QED
      BY <1>3, <2>1, <2>2, LoopSole DEF Fault
  <1>4. ASSUME NEW w \in Workers, NEW t \in Tasks,
               Start(w, t) \/ StartError(w, t) \/ TimerFires(w, t)
        PROVE  Sole'
    BY <1>4, LoadSole, ForkSole, NoStartError DEF Start
  <1>5. ASSUME NEW w \in Workers, NEW b \in Bots, ResetFires(w, b) PROVE Sole'
    BY <1>5, LoopSole
  <1>6. ASSUME NEW c \in Children,
               ChildLife(c) \/ ChildEvent(c) \/ ChildTrades(c) \/ ChildFails(c)
        PROVE  Sole'
    BY <1>6, EventSole, LifeSole
  <1>7. CASE UNCHANGED vars
    BY <1>7, UntouchedSole DEF vars, loopVars, memVars, osVars, Moves
  <1>8. QED
    BY <1>1, <1>2, <1>3, <1>4, <1>5, <1>6, <1>7 DEF Next

\* What leaders know of processes is right in every reachable state.
THEOREM LeadersInvariance ==
    ASSUME Reliable
    PROVE  Spec => []Leaders
  <1>1. Init => LeaderLock
    BY DEF Init, LeaderLock, Leading
  <1>2. Init => Sole
    BY ConstantsAssumption
       DEF Init, Sole, TrackedRuns, UntoldTracked, LeaderTracks, DrainAsked, NoTimers,
           StartsUntracked, Preparing, Untold, NoProcess, NoTask, Tasks
  <1>3. Leaders /\ [Next]_vars => Sole'
    BY SoleStep
  <1>4. Leaders /\ [Next]_vars => LeaderLock'
    BY LeaderStep DEF Leaders, Reliable, Inv
  <1>5. Inv /\ LeaderLock /\ Sole <=> Leaders
    BY DEF Leaders
  <1>6. QED
    BY <1>1, <1>2, <1>3, <1>4, <1>5, Invariance, PTL DEF Spec

\* A bot has one trading process at most, however leaders crash, are shut down
\* and replaced and stops time out (runLeader, reconcile, startBot, stopBot,
\* suspendBot).  With the faults of Reliable it may have two.
THEOREM OneTrader ==
    ASSUME Reliable
    PROVE  Spec => []AtMostOneTrading
  <1>1. ASSUME Leaders PROVE AtMostOneTrading
    <2> SUFFICES ASSUME NEW b \in Bots, NEW c \in Children, NEW d \in Children,
                        Trading(c, b), Trading(d, b)
                 PROVE  c = d
      BY DEF AtMostOneTrading
    <2>1. /\ processes[child[c].owner][b] = c /\ child[c].owner \in Workers
          /\ processes[child[d].owner][b] = d /\ child[d].owner \in Workers
      BY <1>1 DEF Trading, Untold, Leaders, Sole, UntoldTracked, Inv, IInv, Shape, ChildShape
    <2>2. Leading(child[c].owner) /\ Leading(child[d].owner)
      BY <1>1, <2>1, FailoverTypes DEF Leading, Leaders, Sole, LeaderTracks, Away
    <2>3. child[c].owner = child[d].owner
      BY <1>1, <2>1, <2>2 DEF Leaders, LeaderLock
    <2>4. QED
      BY <2>1, <2>3
  <1>2. QED
    BY <1>1, LeadersInvariance, PTL

-----------------------------------------------------------------------------
(***************************************************************************)
(* Where main is, and in which order it handles commands.                  *)
(***************************************************************************)
\* What main may do with a command at hand, with bots to restore, and while
\* startBot runs.
WhereAt(w) ==
    /\ cur[w] # 0 => pc[w] \in CommandLocations \cup {"starting"}
    /\ todo[w] # {} => cur[w] = 0 /\ pc[w] \in {"restore", "starting"}
    /\ cur[w] # 0 /\ pc[w] = "starting" => Command(w).kind \in {"START", "RESTART"}
Where == \A w \in Workers : WhereAt(w)

\* The moves of main that leave cur and todo alone: before and after the loop
\* over commands, along a command, and out of startBot.
Straight == {<<"elect", "reconcile">>, <<"reconcile", "select">>, <<"elect", "exited">>,
             <<"poll", "drain">>, <<"drain", "exited">>, <<"drain", "failed">>,
             <<"stopWait", "unclean">>, <<"stopWait", "stopped">>, <<"unclean", "catch">>,
             <<"deleting", "deleteRow">>, <<"deleteRow", "deleteRm">>, <<"deleteRm", "settle">>,
             <<"catch", "catchFail">>}
GoesStraight(w) == /\ UNCHANGED <<cur, todo>> /\ <<pc[w], pc'[w]>> \in Straight
                   /\ pc'[w] = "deleteRow" => DeleteStage(w)
                   /\ pc[w] = "deleteRm" => DeleteRm(w)
StartEnds(w) == /\ UNCHANGED <<cur, todo>> /\ pc[w] = "starting"
                /\ pc'[w] \in IF cur[w] = 0 THEN {"restore"} ELSE {"settle", "catch"}
Hop(w) ==
    /\ \A v \in Workers : v # w => pc'[v] = pc[v] /\ cur'[v] = cur[v] /\ todo'[v] = todo[v]
    /\ \/ GoesStraight(w) \/ StartEnds(w)
       \/ SelectDesired(w) \/ Restore(w) \/ Claim(w) \/ Begin(w) \/ StopClean(w)
       \/ Settle(w) \/ CatchFail(w) \/ Dies(w)

\* More types.
LEMMA LoopTypes ==
    ASSUME Leaders
    PROVE  /\ pc \in [Workers -> Locations] /\ cur \in [Workers -> Nat]
           /\ todo \in [Workers -> SUBSET Bots] /\ commands \in Seq(CommandRow)
           /\ bots \in [Bots -> BotRow]
           /\ dataDir \in [Bots -> SUBSET {"live", "staged", "orphan"}]
  BY DEF Leaders, Inv, IInv, TypeOK

\* Main of one worker goes straight.
LEMMA GoStraight ==
    ASSUME Leaders, NEW w \in Workers, NEW loc, pc' = [pc EXCEPT ![w] = loc],
           UNCHANGED <<cur, todo>>, <<pc[w], loc>> \in Straight,
           loc = "deleteRow" => DeleteStage(w), pc[w] = "deleteRm" => DeleteRm(w)
    PROVE  Hop(w)
  BY LoopTypes DEF Hop, GoesStraight

\* The loop's steps as hops.
LEMMA LoopHops ==
    ASSUME Leaders, NEW w \in Workers, Loop(w) \/ StopTimeout(w)
    PROVE  UNCHANGED <<pc, cur, todo>> \/ Hop(w)
  <1> USE DEF At
  <1>t. pc \in [Workers -> Locations]
    BY LoopTypes
  <1>1. CASE \/ Elect(w) \/ Reconcile(w) \/ ExitStandby(w) \/ DrainStart(w) \/ StopTimeout(w)
             \/ StopUnclean(w) \/ DeleteStage(w) \/ DeleteRow(w) \/ DeleteRm(w)
             \/ CatchError(w)
    <2>1. UNCHANGED <<cur, todo>>
      BY <1>1 DEF Elect, Reconcile, ExitStandby, DrainStart, StopTimeout, StopUnclean,
                  DeleteStage, DeleteRow, DeleteRm, CatchError
    <2>2. \E loc : /\ pc' = [pc EXCEPT ![w] = loc]
                  /\ \/ pc[w] = "elect" /\ loc \in {"reconcile", "exited"}
                     \/ pc[w] = "reconcile" /\ loc = "select"
                     \/ pc[w] = "poll" /\ loc = "drain"
                     \/ pc[w] = "stopWait" /\ loc = "unclean"
                     \/ pc[w] = "unclean" /\ loc = "catch"
                     \/ DeleteStage(w) /\ pc[w] = "deleting" /\ loc = "deleteRow"
                     \/ pc[w] = "deleteRow" /\ loc = "deleteRm"
                     \/ DeleteRm(w) /\ pc[w] = "deleteRm" /\ loc = "settle"
                     \/ pc[w] = "catch" /\ loc = "catchFail"
      BY <1>1 DEF Elect, Reconcile, ExitStandby, DrainStart, StopTimeout, StopUnclean,
                  DeleteStage, DeleteRow, DeleteRm, CatchError
    <2>3. QED
      BY <2>1, <2>2, GoStraight DEF Straight
  <1>2. CASE Relinquish(w)
    <2>1. /\ UNCHANGED <<cur, todo>> /\ pc[w] = "drain"
          /\ \E loc \in {"exited", "failed"} : pc' = [pc EXCEPT ![w] = loc]
      BY <1>2 DEF Relinquish
    <2>2. QED
      BY <2>1, GoStraight DEF Straight
  <1>3. CASE PollIdle(w) \/ DrainBot(w)
    BY <1>3 DEF PollIdle, DrainBot, vars, loopVars
  <1>4. CASE SelectDesired(w)
    BY <1>4, LoopTypes DEF SelectDesired, Hop
  <1>5. CASE Restore(w)
    <2>1. /\ cur' = cur /\ (pc' = pc \/ \E loc : pc' = [pc EXCEPT ![w] = loc])
          /\ todo' = todo \/ \E set : todo' = [todo EXCEPT ![w] = set]
      BY <1>5 DEF Restore, LoopStartsBot
    <2>2. QED
      BY <1>5, <2>1, LoopTypes DEF Hop
  <1>6. CASE Claim(w) \/ Settle(w) \/ CatchFail(w)
    <2>1. /\ todo' = todo /\ (\E loc : pc' = [pc EXCEPT ![w] = loc])
          /\ \E i : cur' = [cur EXCEPT ![w] = i]
      BY <1>6 DEF Claim, Settle, CatchFail
    <2>2. QED
      BY <1>6, <2>1, LoopTypes DEF Hop
  <1>7. CASE Begin(w) \/ StopClean(w)
    <2>1. UNCHANGED <<cur, todo>> /\ \E loc : pc' = [pc EXCEPT ![w] = loc]
      BY <1>7 DEF Begin, StopClean, StopsBot, LoopStartsBot
    <2>2. QED
      BY <1>7, <2>1, LoopTypes DEF Hop
  <1>8. QED
    BY <1>1, <1>2, <1>3, <1>4, <1>5, <1>6, <1>7 DEF Loop

\* A step of startBot moves main by a hop, or not at all.
LEMMA StartHops ==
    ASSUME Leaders, NEW w \in Workers, NEW t \in Tasks, Start(w, t)
    PROVE  UNCHANGED <<pc, cur, todo>> \/ Hop(w)
  <1>1. t = Main /\ pc[w] = "starting"
    BY MainStarts DEF Start, StartLoad, StartRegister, StartFork, StartMark
  <1>2. UNCHANGED <<cur, todo>>
    BY DEF Start, StartLoad, StartRegister, StartFork, StartMark, loopVars
  <1>3. \/ pc' = pc
        \/ \E loc : /\ pc' = [pc EXCEPT ![w] = loc]
                    /\ loc \in IF cur[w] = 0 THEN {"restore"} ELSE {"settle", "catch"}
    BY <1>1 DEF Start, StartLoad, StartRegister, StartFork, StartMark, StartThrows, At, AfterStart, loopVars
  <1>4. QED
    BY <1>1, <1>2, <1>3, LoopTypes DEF Hop, StartEnds

\* Every step leaves main of every worker where it is, or hops.
LEMMA Hops ==
    ASSUME Leaders, [Next]_vars
    PROVE  UNCHANGED <<pc, cur, todo>> \/ \E w \in Workers : Hop(w)
  <1>1. ASSUME NEW w \in Workers, Fault(w)
        PROVE  UNCHANGED <<pc, cur, todo>> \/ Hop(w)
    <2>1. ~LockLoss(w) /\ ~DbError(w) /\ ~DrainError(w)
      BY FailoverTypes DEF LockLoss, DbError, DrainError
    <2>2. CASE Dies(w)
      BY <2>2, LoopTypes DEF Dies, At, Hop
    <2>3. CASE Shutdown(w)
      BY <2>3 DEF Shutdown, loopVars
    <2>4. QED
      BY <1>1, <2>1, <2>2, <2>3 DEF Fault, Crash, RejectionKills, SendKills
  <1>2. ASSUME NEW w \in Workers,
               IdleRelease(w) \/ ApplyWrite(w) \/ \E b \in Bots : ResetFires(w, b)
        PROVE  UNCHANGED <<pc, cur, todo>>
    BY <1>2 DEF IdleRelease, ApplyWrite, ResetFires, loopVars
  <1>3. ASSUME NEW b \in Bots, Api(b) PROVE UNCHANGED <<pc, cur, todo>>
    BY <1>3 DEF Api, PostCommand, PostDelete, ToggleConnection, Enqueue, loopVars
  <1>4. ASSUME NEW c \in Children, ExitAwaited(c)
        PROVE  \E w \in Workers : Hop(w)
    <2> DEFINE w == child[c].owner
    <2>1. w \in Workers /\ waiting[w] = c /\ c # None
      BY <1>4, FailoverTypes DEF ExitAwaited, Exited, Leaders, Inv, IInv, Shape, ChildShape
    <2>2. pc[w] = "stopWait"
      BY <2>1 DEF Leaders, Inv, IInv, Shape, WaitShape
    <2>3. UNCHANGED <<cur, todo>>
          /\ \E loc \in {"stopped", "unclean"} : pc' = [pc EXCEPT ![w] = loc]
      BY <1>4 DEF ExitAwaited, At
    <2> HIDE DEF w
    <2>4. QED
      BY <2>1, <2>2, <2>3, GoStraight DEF Straight
  <1>5. ASSUME NEW c \in Children,
               ChildLife(c) \/ ChildEvent(c) \/ ChildTrades(c) \/ ChildFails(c),
               ~ExitAwaited(c)
        PROVE  UNCHANGED <<pc, cur, todo>>
    <2>1. CASE ChildEvent(c)
      BY <1>5, <2>1 DEF ChildEvent, ExitTracked, ExitIgnored, OnMessage, loopVars
    <2>2. QED
      BY <1>5, <2>1, ChildStep DEF loopVars, Leaders, Inv
  <1>6. CASE UNCHANGED vars
    BY <1>6 DEF vars, loopVars
  <1>7. QED
    BY <1>1, <1>2, <1>3, <1>4, <1>5, <1>6, LoopHops, StartHops, NoStartError DEF Next

\* A worker whose main did not hop handles the command it handled.
LEMMA SameCommand ==
    ASSUME Leaders, Forward, NEW v \in Workers, cur'[v] = cur[v], cur[v] # 0
    PROVE  /\ cur[v] \in DOMAIN commands
           /\ Command(v)'.kind = Command(v).kind /\ Command(v)'.bot = Command(v).bot
  <1>1. cur[v] \in DOMAIN commands
    BY DEF Leaders, Inv, IInv, Shape, CurShape
  <1>2. QED
    BY <1>1 DEF Forward, Command

\* One worker hops.
LEMMA WhereOne ==
    ASSUME Leaders, Where, Forward, NEW w \in Workers, WhereAt(w)',
           \A v \in Workers : v # w => pc'[v] = pc[v] /\ cur'[v] = cur[v] /\ todo'[v] = todo[v]
    PROVE  Where'
  <1> SUFFICES ASSUME NEW v \in Workers, v # w PROVE WhereAt(v)'
    BY DEF Where
  <1>1. WhereAt(v) /\ pc'[v] = pc[v] /\ cur'[v] = cur[v] /\ todo'[v] = todo[v]
    BY DEF Where
  <1>2. cur[v] # 0 => Command(v)'.kind = Command(v).kind
    BY <1>1, SameCommand
  <1>3. QED
    BY <1>1, <1>2 DEF WhereAt

\* startBot is called for a START or RESTART, or while no command is at hand.
LEMMA LoopStartWhere ==
    ASSUME Leaders, Where, Forward, NEW w \in Workers, NEW b, LoopStartsBot(w, b), cur' = cur,
           \A v \in Workers : v # w => todo'[v] = todo[v],
           \/ cur[w] # 0 /\ Command(w).kind \in {"START", "RESTART"} /\ todo'[w] = {}
           \/ cur[w] = 0
    PROVE  Where'
  <1>1. /\ \A v \in Workers : v # w => pc'[v] = pc[v]
        /\ pc'[w] \in {"starting", AfterStart(w)}
    BY LoopTypes DEF LoopStartsBot, At
  <1>2. cur[w] # 0 => Command(w)'.kind = Command(w).kind
    BY SameCommand
  <1>3. WhereAt(w)'
    BY <1>1, <1>2 DEF WhereAt, AfterStart, CommandLocations
  <1>4. QED
    BY <1>1, <1>3, WhereOne

\* The steps of the loop that choose what to do next.
LEMMA ChoiceWhere ==
    ASSUME Leaders, Where, Forward, NEW w \in Workers, Hop(w),
           SelectDesired(w) \/ Restore(w) \/ Begin(w) \/ StopClean(w)
    PROVE  Where'
  <1> USE DEF At
  <1>w. WhereAt(w)
    BY DEF Where
  <1>o. \A v \in Workers : v # w => pc'[v] = pc[v] /\ cur'[v] = cur[v] /\ todo'[v] = todo[v]
    BY DEF Hop
  <1>1. CASE SelectDesired(w)
    <2>1. cur' = cur /\ pc[w] = "select" /\ pc' = [pc EXCEPT ![w] = "restore"]
      BY <1>1 DEF SelectDesired
    <2>2. WhereAt(w)'
      BY <1>w, <2>1, LoopTypes DEF WhereAt, CommandLocations
    <2>3. QED
      BY <1>o, <2>2, WhereOne
  <1>2. CASE Restore(w)
    <2>1. cur' = cur /\ cur[w] = 0 /\ pc[w] = "restore"
      BY <1>2, <1>w DEF Restore, WhereAt, CommandLocations
    <2>2. \/ \E b : LoopStartsBot(w, b)
          \/ pc' = pc
          \/ todo' = todo /\ todo[w] = {} /\ pc' = [pc EXCEPT ![w] = "poll"]
      BY <1>2 DEF Restore
    <2>3. CASE pc' = pc
      <3>1. WhereAt(w)'
        BY <2>1, <2>3 DEF WhereAt
      <3>2. QED
        BY <1>o, <3>1, WhereOne
    <2>4. CASE todo' = todo /\ todo[w] = {} /\ pc' = [pc EXCEPT ![w] = "poll"]
      <3>1. WhereAt(w)'
        BY <2>1, <2>4 DEF WhereAt
      <3>2. QED
        BY <1>o, <3>1, WhereOne
    <2>5. QED
      BY <1>o, <2>1, <2>2, <2>3, <2>4, LoopStartWhere
  <1>3. CASE Begin(w) \/ StopClean(w)
    <2>1. /\ UNCHANGED <<cur, todo>> /\ pc[w] \in {"begin", "stopped"}
          /\ cur[w] # 0 /\ todo[w] = {}
      BY <1>3, <1>w, CurrentCommand
         DEF Begin, StopClean, WhereAt, CommandLocations, Leaders, Inv
    <2>2. \/ Command(w).kind \in {"START", "RESTART"} /\ \E b : LoopStartsBot(w, b)
          \/ \E loc \in CommandLocations : pc' = [pc EXCEPT ![w] = loc]
      BY <1>3 DEF Begin, StopClean, StopsBot, CommandLocations
    <2>3. CASE Command(w).kind \in {"START", "RESTART"} /\ \E b : LoopStartsBot(w, b)
      BY <2>1, <2>3, <1>o, LoopStartWhere
    <2>4. CASE \E loc \in CommandLocations : pc' = [pc EXCEPT ![w] = loc]
      <3>1. WhereAt(w)'
        BY <2>1, <2>4, LoopTypes DEF WhereAt, CommandLocations
      <3>2. QED
        BY <1>o, <3>1, WhereOne
    <2>5. QED
      BY <2>2, <2>3, <2>4
  <1>4. QED
    BY <1>1, <1>2, <1>3

\* Where is inductive.
LEMMA WhereStep ==
    ASSUME Leaders, QueueInv, Where, [Next]_vars
    PROVE  Where'
  <1>f. Forward
    BY QueueStep DEF Leaders, Inv
  <1>1. CASE UNCHANGED <<pc, cur, todo>>
    <2> SUFFICES ASSUME NEW w \in Workers PROVE WhereAt(w)'
      BY DEF Where
    <2>1. cur[w] # 0 => Command(w)'.kind = Command(w).kind
      BY <1>f, <1>1, SameCommand
    <2>2. QED
      BY <1>1, <2>1 DEF Where, WhereAt
  <1>2. ASSUME NEW w \in Workers, Hop(w) PROVE Where'
    <2>w. WhereAt(w)
      BY DEF Where
    <2>o. \A v \in Workers : v # w => pc'[v] = pc[v] /\ cur'[v] = cur[v] /\ todo'[v] = todo[v]
      BY <1>2 DEF Hop
    <2>c. pc[w] \in CommandLocations => cur[w] # 0
      BY DEF Leaders, Inv, IInv, Shape, CurShape
    <2>1. CASE GoesStraight(w) \/ StartEnds(w)
      <3>1. WhereAt(w)'
        BY <2>w, <2>c, <2>1 DEF WhereAt, GoesStraight, StartEnds, Straight, CommandLocations
      <3>2. QED
        BY <1>f, <2>o, <3>1, WhereOne
    <2>2. CASE Claim(w)
      <3>1. pc[w] = "poll" /\ pc'[w] = "begin" /\ todo' = todo
        BY <2>2, LoopTypes DEF Claim, At
      <3>2. WhereAt(w)'
        BY <2>w, <3>1 DEF WhereAt, CommandLocations
      <3>3. QED
        BY <1>f, <2>o, <3>2, WhereOne
    <2>3. CASE Settle(w) \/ CatchFail(w)
      <3>1. cur'[w] = 0 /\ todo' = todo /\ pc[w] \in CommandLocations
        BY <2>3, LoopTypes DEF Settle, CatchFail, CommandLocations
      <3>2. WhereAt(w)'
        BY <2>w, <2>c, <3>1 DEF WhereAt
      <3>3. QED
        BY <1>f, <2>o, <3>2, WhereOne
    <2>4. CASE Dies(w)
      <3>1. cur'[w] = 0 /\ todo'[w] = {}
        BY <2>4, LoopTypes DEF Dies
      <3>2. WhereAt(w)'
        BY <3>1 DEF WhereAt
      <3>3. QED
        BY <1>f, <2>o, <3>2, WhereOne
    <2>5. QED
      BY <1>f, <1>2, <2>1, <2>2, <2>3, <2>4, ChoiceWhere DEF Hop
  <1>3. QED
    BY <1>1, <1>2, Hops

\* The queue is handled in the order of created_at: behind a queued command, and
\* behind the one at hand, all are queued (or gone with their bot).
InOrder ==
    /\ \A i, k \in DOMAIN commands : i < k /\ commands[i].status = "PENDING" =>
         commands[k].status \in {"PENDING", "GONE"}
    /\ \A w \in Workers : cur[w] # 0 => \A k \in DOMAIN commands : k > cur[w] =>
         commands[k].status \in {"PENDING", "GONE"}

\* Commands stay in order: Claim takes the oldest, and new ones go to the end.
LEMMA OrderStep ==
    ASSUME Leaders, QueueInv, Where, InOrder, [Next]_vars
    PROVE  InOrder'
  <1>t. commands \in Seq(CommandRow) /\ cur \in [Workers -> Nat]
    BY LoopTypes
  <1>d. \A i \in DOMAIN commands : i \in Nat
    BY <1>t, QueueRows
  <1>1. CASE Steady
    BY <1>1 DEF Steady, InOrder
  <1>2. ASSUME NEW w \in Workers, Elect(w) \/ LockLoss(w) PROVE InOrder'
    BY <1>2 DEF Elect, LockLoss, loopVars, InOrder
  <1>3. ASSUME NEW w \in Workers, Claim(w) PROVE InOrder'
    <2>1. PICK i \in DOMAIN commands :
            /\ Oldest(i) /\ commands' = SetStatus(i, "PROCESSING")
            /\ cur' = [cur EXCEPT ![w] = i]
      BY <1>3 DEF Claim, MarkClaimed
    <2>2. /\ DOMAIN commands' = DOMAIN commands
          /\ \A j \in DOMAIN commands :
               commands'[j].status = IF j = i THEN "PROCESSING" ELSE commands[j].status
      BY <1>t, <2>1, SetStatusType DEF Status, Oldest
    <2>3. \A v \in Workers : cur'[v] = IF v = w THEN i ELSE cur[v]
      BY <1>t, <2>1
    <2>4. /\ commands[i].status = "PENDING"
          /\ \A j \in DOMAIN commands : j < i => commands[j].status # "PENDING"
      BY <1>d, <1>t, <2>1, QueueRows DEF Oldest
    <2>5. \A v \in Workers : cur[v] # 0 =>
            cur[v] \in DOMAIN commands /\ commands[cur[v]].status # "PENDING"
      BY DEF QueueInv, ClaimedOnce
    <2>6. ASSUME NEW v \in Workers, cur[v] # 0 PROVE v = w
      <3>1. Leading(v) /\ Leading(w)
        BY <1>3, <2>6 DEF Where, WhereAt, Claim, Leading, CommandLocations, Gone
      <3>2. QED
        BY <3>1 DEF Leaders, LeaderLock
    <2>7. QED
      BY <1>d, <2>2, <2>3, <2>4, <2>6 DEF InOrder
  <1>4. ASSUME NEW w \in Workers, Settle(w) \/ CatchError(w) PROVE InOrder'
    <2>1. PICK s \in {"SUCCEEDED", "FAILED"} : commands' = SetStatus(cur[w], s)
      BY <1>4 DEF Settle, CatchError
    <2>2. /\ DOMAIN commands' = DOMAIN commands
          /\ \A j \in DOMAIN commands :
               commands'[j].status = IF j = cur[w] /\ commands[j].status # "GONE"
                                     THEN s ELSE commands[j].status
      BY <1>t, <2>1, SetStatusType DEF Status
    <2>3. cur[w] # 0 /\ cur[w] \in DOMAIN commands /\ commands[cur[w]].status # "PENDING"
      BY <1>4, CurrentCommand
         DEF Settle, CatchError, CommandLocations, Leaders, Inv, QueueInv, ClaimedOnce
    <2>4. \A v \in Workers : cur'[v] \in {cur[v], 0}
      BY <1>4, <1>t DEF Settle, CatchError
    <2>5. ASSUME NEW v \in Workers, cur[v] # 0 PROVE v = w
      <3>1. Leading(v) /\ Leading(w)
        BY <1>4, <2>5 DEF Where, WhereAt, Settle, CatchError, Leading, CommandLocations, Gone
      <3>2. QED
        BY <3>1 DEF Leaders, LeaderLock
    <2>6. QED
      BY <1>d, <1>t, <2>2, <2>3, <2>4, <2>5 DEF InOrder
  <1>5. ASSUME NEW w \in Workers, DeleteRow(w) PROVE InOrder'
    <2>1. /\ DOMAIN commands' = DOMAIN commands /\ cur' = cur
          /\ \A j \in DOMAIN commands : commands'[j].status \in {commands[j].status, "GONE"}
      BY <1>t, <1>5, DeleteKeeps DEF DeleteRow
    <2>2. QED
      BY <2>1 DEF InOrder
  <1>6. ASSUME NEW b \in Bots, NEW kind \in CommandKinds, Enqueue(b, kind) PROVE InOrder'
    <2>1. /\ DOMAIN commands \subseteq DOMAIN commands' /\ cur' = cur
          /\ \A j \in DOMAIN commands' :
               \/ j \in DOMAIN commands /\ commands'[j] = commands[j]
               \/ j \notin DOMAIN commands /\ commands'[j].status = "PENDING"
      <3>1. cur' = cur
        BY <1>6 DEF Enqueue, loopVars
      <3>2. [bot |-> b, kind |-> kind, status |-> "PENDING"].status = "PENDING"
        OBVIOUS
      <3>3. QED
        BY <1>t, <1>6, <3>1, <3>2, EnqueueKeeps
    <2>2. \A i \in DOMAIN commands', k \in DOMAIN commands :
            i \notin DOMAIN commands => ~(i < k)
      <3>1. /\ commands' \in Seq(CommandRow) /\ DOMAIN commands' = 1..Len(commands')
            /\ DOMAIN commands = 1..Len(commands) /\ Len(commands) \in Nat
            /\ Len(commands') \in Nat
        BY <1>t, <1>6, EnqueueKeeps, LenProperties
      <3>2. QED
        BY <3>1
    <2>3. QED
      BY <2>1, <2>2 DEF InOrder
  <1>7. QED
    BY <1>1, <1>2, <1>3, <1>4, <1>5, <1>6, StepKinds DEF Leaders, Inv

-----------------------------------------------------------------------------
(***************************************************************************)
(* What a step may do to what is tracked, under way, wanted and on disk.   *)
(***************************************************************************)
\* Only startBot tracks a process.
LEMMA ProcessStep ==
    ASSUME Leaders, [Next]_vars, NEW v \in Workers, NEW x \in Bots
    PROVE  \/ processes'[v][x] \in {processes[v][x], None}
           \/ StartFork(v, Main) /\ tasks[v][Main].bot = x
  <1>t. processes \in [Workers -> [Bots -> Children \cup {None}]]
    BY FailoverTypes
  <1>0. processes' = processes => processes'[v][x] \in {processes[v][x], None}
    OBVIOUS
  <1>1. ASSUME NEW w \in Workers, Loop(w)
        PROVE  processes'[v][x] \in {processes[v][x], None}
    <2>1. \/ processes' = processes
          \/ \E b : processes' = [processes EXCEPT ![w][b] = None]
          \/ processes' = [processes EXCEPT ![w] = [b \in Bots |-> None]]
      <3>1. CASE Begin(w)
        BY <3>1 DEF Begin, StopsBot, Untrack
      <3>2. CASE DrainStart(w)
        BY <3>2 DEF DrainStart
      <3>3. CASE ~Begin(w) /\ ~DrainStart(w)
        BY <1>1, <3>3 DEF Loop, Elect, Reconcile, SelectDesired, Restore, Claim, PollIdle,
           StopUnclean, StopClean, DeleteStage, DeleteRow, DeleteRm, Settle, CatchError, CatchFail,
           ExitStandby, DrainBot, Relinquish, memVars, vars
      <3>4. QED
        BY <3>1, <3>2, <3>3
    <2>2. QED
      BY <1>t, <2>1
  <1>2. ASSUME NEW w \in Workers,
               \/ StopTimeout(w) \/ Fault(w) \/ IdleRelease(w) \/ ApplyWrite(w)
               \/ \E b \in Bots : ResetFires(w, b)
        PROVE  processes'[v][x] \in {processes[v][x], None}
    <2>1. CASE Dies(w)
      <3>1. processes' = [processes EXCEPT ![w] = [b \in Bots |-> None]]
        BY <2>1 DEF Dies
      <3>2. QED
        BY <1>t, <3>1
    <2>2. CASE ~Dies(w)
      BY <1>0, <1>2, <2>2 DEF StopTimeout, Fault, Shutdown, Crash, LockLoss, DbError, DrainError,
         RejectionKills, SendKills, IdleRelease, ApplyWrite, ResetFires, memVars
    <2>3. QED
      BY <2>1, <2>2
  <1>3. ASSUME NEW w \in Workers, NEW t \in Tasks, Start(w, t)
        PROVE  \/ processes'[v][x] \in {processes[v][x], None}
               \/ StartFork(v, Main) /\ tasks[v][Main].bot = x
    <2>1. CASE StartFork(w, t)
      <3>1. t = Main
        BY <2>1, MainStarts DEF StartFork
      <3>2. \E c : processes' = [processes EXCEPT ![w][tasks[w][t].bot] = c]
        BY <2>1 DEF StartFork
      <3>3. QED
        BY <1>t, <2>1, <3>1, <3>2
    <2>2. CASE ~StartFork(w, t)
      BY <1>0, <1>3, <2>2 DEF Start, StartLoad, StartRegister, StartMark, memVars
    <2>3. QED
      BY <2>1, <2>2
  <1>4. ASSUME NEW b \in Bots, Api(b) PROVE processes' = processes
    BY <1>4 DEF Api, PostCommand, PostDelete, ToggleConnection, Enqueue, memVars
  <1>5. ASSUME NEW c \in Children,
               ChildLife(c) \/ ChildEvent(c) \/ ChildTrades(c) \/ ChildFails(c)
        PROVE  processes'[v][x] \in {processes[v][x], None}
    <2>1. CASE ExitTracked(c)
      <3>1. \E w, b : processes' = [processes EXCEPT ![w][b] = None]
        BY <2>1 DEF ExitTracked
      <3>2. QED
        BY <1>t, <3>1
    <2>2. CASE ChildEvent(c) /\ ~ExitTracked(c)
      BY <1>0, <2>2 DEF ChildEvent, ExitAwaited, ExitIgnored, OnMessage, memVars
    <2>3. QED
      BY <1>0, <1>5, <2>1, <2>2, ChildStep DEF memVars, Leaders, Inv
  <1>6. CASE UNCHANGED vars
    BY <1>0, <1>6 DEF vars, memVars
  <1>7. QED
    BY <1>0, <1>1, <1>2, <1>3, <1>4, <1>5, <1>6, NoStartError DEF Next

\* The loop's startBot begins for a bot that the loop wants, and goes on beyond loadBot
\* and to the INSERT of registerSqliteDatabase for a bot that exists.
Begins(v, b) == \/ Restore(v) /\ b \in todo[v]
                \/ Begin(v) /\ Command(v).kind = "START" /\ b = CurBot(v)
                \/ StopClean(v) /\ Command(v).kind = "RESTART" /\ b = CurBot(v)
TaskMoves(v, k, q) ==
    \/ q = k
    \/ q.at = "idle"
    \/ k.at # "idle" /\ q.bot = k.bot /\ bots[k.bot].exists
    \/ k.at \in {"register", "insert", "fork"} /\ q.bot = k.bot /\ q.at # "insert"
    \/ q.at = "load" /\ Begins(v, q.bot)

\* startBot called from the loop only puts the loop's own task to load.
LEMMA LoopTask ==
    ASSUME Leaders, NEW w \in Workers, NEW b, LoopStartsBot(w, b)
    PROVE  /\ \A v \in Workers : v # w => tasks'[v][Main] = tasks[v][Main]
           /\ \/ tasks'[w][Main] = tasks[w][Main]
              \/ tasks'[w][Main].at = "load" /\ tasks'[w][Main].bot = b
  <1> DEFINE k == [at |-> "load", bot |-> b, child |-> None]
  <1>1. tasks' = tasks \/ tasks' = [tasks EXCEPT ![w][Main] = k]
    BY DEF LoopStartsBot
  <1>2. k.at = "load" /\ k.bot = b
    OBVIOUS
  <1> HIDE DEF k
  <1>3. QED
    BY <1>1, <1>2, FailoverTypes

\* What any step may do to the task of main, for every worker.
LEMMA TaskStep ==
    ASSUME Leaders, [Next]_vars, NEW v \in Workers
    PROVE  TaskMoves(v, tasks[v][Main], tasks'[v][Main])
  <1>t. tasks \in [Workers -> [Tasks -> Task]] /\ Main \in Tasks
    BY FailoverTypes
  <1>0. tasks' = tasks => TaskMoves(v, tasks[v][Main], tasks'[v][Main])
    BY DEF TaskMoves
  <1>1. ASSUME NEW w \in Workers, Loop(w)
        PROVE  TaskMoves(v, tasks[v][Main], tasks'[v][Main])
    <2>1. CASE tasks' = tasks
      BY <1>0, <2>1
    <2>2. ASSUME NEW b, LoopStartsBot(w, b), Begins(w, b)
          PROVE  TaskMoves(v, tasks[v][Main], tasks'[v][Main])
      BY <2>2, LoopTask DEF TaskMoves
    <2>3. CASE Restore(w)
      BY <2>1, <2>2, <2>3 DEF Restore, Begins
    <2>4. CASE Begin(w)
      BY <2>1, <2>2, <2>4 DEF Begin, Begins
    <2>5. CASE StopClean(w)
      BY <2>1, <2>2, <2>5 DEF StopClean, Begins
    <2>6. CASE ~Restore(w) /\ ~Begin(w) /\ ~StopClean(w)
      <3>1. tasks' = tasks
        BY <1>1, <2>6 DEF Loop, Elect, Reconcile, SelectDesired, Claim, PollIdle,
           StopUnclean, DeleteStage, DeleteRow, DeleteRm, Settle, CatchError, CatchFail,
           ExitStandby, DrainStart, DrainBot, Relinquish, memVars, vars
      <3>2. QED
        BY <2>1, <3>1
    <2>7. QED
      BY <2>3, <2>4, <2>5, <2>6
  <1>2. ASSUME NEW w \in Workers,
               \/ StopTimeout(w) \/ Fault(w) \/ IdleRelease(w) \/ ApplyWrite(w)
               \/ \E b \in Bots : ResetFires(w, b)
        PROVE  TaskMoves(v, tasks[v][Main], tasks'[v][Main])
    <2>1. CASE Dies(w)
      <3>1. tasks' = [tasks EXCEPT ![w] = [t \in Tasks |-> NoTask]]
        BY <2>1 DEF Dies
      <3>2. tasks'[v][Main] \in {tasks[v][Main], NoTask}
        BY <1>t, <3>1
      <3>3. QED
        BY <3>2 DEF TaskMoves, NoTask
    <2>2. CASE ~Dies(w)
      BY <1>0, <1>2, <2>2 DEF StopTimeout, Fault, Shutdown, Crash, LockLoss, DbError, DrainError,
         RejectionKills, SendKills, IdleRelease, ApplyWrite, ResetFires, memVars
    <2>3. QED
      BY <2>1, <2>2
  <1>3. ASSUME NEW w \in Workers, NEW t \in Tasks, Start(w, t)
        PROVE  TaskMoves(v, tasks[v][Main], tasks'[v][Main])
    <2> DEFINE k == tasks[w][Main]
    <2>k. k \in Task
      BY <1>t
    <2>1. t = Main /\ k.at # "idle"
      BY <1>3, MainStarts DEF Start, StartLoad, StartRegister, StartFork, StartMark
    <2>2. PICK q : /\ tasks' = [tasks EXCEPT ![w][Main] = q]
                   /\ TaskMoves(w, k, q)
      <3>1. CASE StartMark(w, t) \/ StartThrows(w, t)
        BY <2>1, <3>1 DEF StartMark, StartThrows, TaskMoves, NoTask
      <3>2. CASE StartLoad(w, t) /\ ~StartThrows(w, t)
        <4>1. /\ tasks' = [tasks EXCEPT ![w][Main] = [k EXCEPT !.at = "register"]]
              /\ bots[k.bot].exists
          BY <2>1, <3>2 DEF StartLoad, Loadable
        <4>2. [k EXCEPT !.at = "register"].bot = k.bot
          BY <2>k DEF Task
        <4>3. QED
          BY <2>1, <4>1, <4>2 DEF TaskMoves
      <3>3. CASE StartFork(w, t)
        <4>1. k.at \in {"insert", "fork"}
          BY <2>1, <3>3 DEF StartFork
        <4>2. PICK c : tasks' = [tasks EXCEPT ![w][Main] = [k EXCEPT !.at = "mark", !.child = c]]
          BY <2>1, <3>3 DEF StartFork
        <4>3. /\ [k EXCEPT !.at = "mark", !.child = c].bot = k.bot
              /\ [k EXCEPT !.at = "mark", !.child = c].at = "mark"
          BY <2>k DEF Task
        <4>4. TaskMoves(w, k, [k EXCEPT !.at = "mark", !.child = c])
          BY <4>1, <4>3 DEF TaskMoves
        <4>5. QED
          BY <4>2, <4>4
      <3>4. CASE StartRegister(w, t)
        <4>1. PICK a \in {"insert", "fork"} :
                /\ tasks' = [tasks EXCEPT ![w][Main] = [k EXCEPT !.at = a]]
                /\ a = "insert" => bots[k.bot].exists
          BY <2>1, <3>4 DEF StartRegister
        <4>2. [k EXCEPT !.at = a].bot = k.bot /\ [k EXCEPT !.at = a].at = a
          BY <2>k DEF Task
        <4>3. k.at = "register"
          BY <2>1, <3>4 DEF StartRegister
        <4>4. QED
          BY <4>1, <4>2, <4>3 DEF TaskMoves
      <3>5. QED
        BY <1>3, <3>1, <3>2, <3>3, <3>4 DEF Start
    <2> HIDE DEF k
    <2>3. CASE v = w
      BY <1>t, <2>2, <2>3 DEF k
    <2>4. CASE v # w
      <3>1. tasks'[v][Main] = tasks[v][Main]
        BY <1>t, <2>2, <2>4
      <3>2. QED
        BY <3>1 DEF TaskMoves
    <2>5. QED
      BY <2>3, <2>4
  <1>4. ASSUME NEW b \in Bots, Api(b) PROVE tasks' = tasks
    BY <1>4 DEF Api, PostCommand, PostDelete, ToggleConnection, Enqueue, memVars
  <1>5. ASSUME NEW c \in Children,
               ChildLife(c) \/ ChildEvent(c) \/ ChildTrades(c) \/ ChildFails(c)
        PROVE  tasks' = tasks
    <2>1. CASE ChildEvent(c)
      <3>1. ~ExitTracked(c)
        BY NothingTrackedExits
      <3>2. QED
        BY <2>1, <3>1 DEF ChildEvent, ExitAwaited, ExitIgnored, OnMessage, memVars
    <2>2. QED
      BY <1>5, <2>1, ChildStep DEF memVars, Leaders, Inv
  <1>6. CASE UNCHANGED vars
    BY <1>0, <1>6 DEF vars, memVars
  <1>7. QED
    BY <1>0, <1>1, <1>2, <1>3, <1>4, <1>5, <1>6, NoStartError DEF Next

\* startBot's mkdir for a bot that loadBot found.
Prepares(w, b) == /\ pc[w] = "starting" /\ tasks[w][Main].bot = b
                  /\ tasks[w][Main].at # "idle" /\ bots[b].exists
                  /\ dataDir'[b] \subseteq dataDir[b] \cup {"live"}
                  /\ UNCHANGED <<pc, cur, commands>>

\* A bot is on disk again only when startBot prepares its directory, and other
\* than that directories move towards orphans.
LEMMA DirStep ==
    ASSUME Leaders, [Next]_vars, NEW x \in Bots
    PROVE  \/ dataDir'[x] \in {dataDir[x], Staged(dataDir[x]), Orphaned(dataDir[x]),
                              dataDir[x] \ {"staged"}}
           \/ \E w \in Workers : Prepares(w, x)
  <1>t. dataDir \in [Bots -> SUBSET {"live", "staged", "orphan"}]
    BY LoopTypes
  <1> DEFINE Moved == \/ dataDir'[x] \in {dataDir[x], Staged(dataDir[x]), Orphaned(dataDir[x]),
                                          dataDir[x] \ {"staged"}}
  <1>0. dataDir' = dataDir => Moved
    OBVIOUS
  <1>1. ASSUME NEW w \in Workers, Loop(w) PROVE Moved
    <2>1. CASE DeleteStage(w)
      <3>1. \E b : dataDir' = [dataDir EXCEPT ![b] = Staged(dataDir[b])]
        BY <2>1 DEF DeleteStage
      <3>2. QED
        BY <1>t, <3>1
    <2>2. CASE DeleteRm(w)
      <3>1. \E b : \/ dataDir' = [dataDir EXCEPT ![b] = dataDir[b] \ {"staged"}]
                   \/ dataDir' = [dataDir EXCEPT ![b] = Orphaned(dataDir[b])]
        BY <2>2 DEF DeleteRm
      <3>2. QED
        BY <1>t, <3>1
    <2>3. CASE ~DeleteStage(w) /\ ~DeleteRm(w)
      BY <1>0, <1>1, <2>3 DEF Loop, Elect, Reconcile, SelectDesired, Restore, Claim, PollIdle,
         Begin, StopUnclean, StopClean, DeleteRow, Settle, CatchError, CatchFail, ExitStandby,
         DrainStart, DrainBot, Relinquish, osVars, vars
    <2>4. QED
      BY <2>1, <2>2, <2>3
  <1>2. ASSUME NEW w \in Workers,
               \/ StopTimeout(w) \/ Fault(w) \/ IdleRelease(w) \/ ApplyWrite(w)
               \/ \E b \in Bots : ResetFires(w, b)
        PROVE  Moved
    <2>1. CASE Dies(w)
      <3>1. \/ dataDir' = dataDir
            \/ \E b : dataDir' = [dataDir EXCEPT ![b] = Orphaned(dataDir[b])]
        BY <2>1 DEF Dies
      <3>2. QED
        BY <1>t, <3>1
    <2>2. CASE ~Dies(w)
      <3>1. ~DbError(w)
        BY FailoverTypes DEF DbError
      <3>2. QED
        BY <1>0, <1>2, <2>2, <3>1 DEF StopTimeout, Fault, Shutdown, Crash, LockLoss, DrainError,
           RejectionKills, SendKills, IdleRelease, ApplyWrite, ResetFires, osVars
    <2>3. QED
      BY <2>1, <2>2
  <1>3. ASSUME NEW w \in Workers, NEW t \in Tasks, Start(w, t)
        PROVE  \/ Moved
               \/ Prepares(w, x)
    <2>1. t = Main /\ pc[w] = "starting" /\ tasks[w][Main].at # "idle"
      BY <1>3, MainStarts DEF Start, StartLoad, StartRegister, StartFork, StartMark
    <2>2. CASE StartLoad(w, t) /\ dataDir' # dataDir
      <3> DEFINE b == tasks[w][Main].bot
      <3>1. /\ dataDir' = [dataDir EXCEPT ![b] = dataDir[b] \cup {"live"}]
            /\ bots[b].exists /\ UNCHANGED <<pc, cur, commands>>
        BY <2>1, <2>2 DEF StartLoad, Loadable
      <3>2. CASE x = b
        BY <1>t, <2>1, <3>1, <3>2 DEF Prepares
      <3>3. CASE x # b
        BY <1>t, <3>1, <3>3
      <3>4. QED
        BY <3>2, <3>3
    <2>3. CASE dataDir' = dataDir
      BY <1>0, <2>3
    <2>4. QED
      BY <1>3, <2>2, <2>3 DEF Start, StartRegister, StartFork, StartMark, osVars
  <1>4. ASSUME NEW b \in Bots, Api(b) PROVE dataDir' = dataDir
    BY <1>4 DEF Api, PostCommand, PostDelete, ToggleConnection, Enqueue, osVars
  <1>5. ASSUME NEW c \in Children,
               ChildLife(c) \/ ChildEvent(c) \/ ChildTrades(c) \/ ChildFails(c)
        PROVE  dataDir' = dataDir
    <2>1. CASE ChildEvent(c)
      BY <2>1 DEF ChildEvent, ExitAwaited, ExitTracked, ExitIgnored, OnMessage
    <2>2. QED
      BY <1>5, <2>1, ChildStep DEF Leaders, Inv
  <1>6. UNCHANGED vars => dataDir' = dataDir
    BY DEF vars, osVars
  <1> HIDE DEF Moved
  <1>7. Moved \/ \E w \in Workers : Prepares(w, x)
    <2>1. ASSUME NEW w \in Workers, NEW t \in Tasks,
                 Start(w, t) \/ StartError(w, t) \/ TimerFires(w, t)
          PROVE  Moved \/ Prepares(w, x)
      BY <1>3, <2>1, NoStartError
    <2>2. CASE UNCHANGED dataDir
      BY <1>0, <2>2
    <2>3. QED
      BY <1>1, <1>2, <1>4, <1>5, <1>6, <2>1, <2>2 DEF Next
  <1>8. QED
    BY <1>7 DEF Moved

\* The row exists and reconcile or a restart timer would start the bot.
Wanted(b) == bots[b].exists /\ bots[b].desired = "RUNNING"

\* A supervisor's send to a process that ended: never, as a tracked one runs.
LEMMA NothingTrackedIsDead ==
    ASSUME Leaders, NEW w \in Workers
    PROVE  ~SendKills(w)
  <1> SUFFICES ASSUME SendKills(w) PROVE FALSE
    OBVIOUS
  <1> DEFINE b == CurBot(w)
  <1>1. pc[w] = "begin" /\ AlreadyRunning(w, b) /\ child[processes[w][b]].st = "dead"
    BY DEF SendKills
  <1>2. b \in Bots
    BY <1>1, CurrentCommand DEF CommandLocations, Leaders, Inv
  <1> HIDE DEF b
  <1>3. QED
    BY <1>1, <1>2, TrackedIsRunning, Tracks DEF Runs

\* Only a command, when it is queued and when it is handled, makes a bot wanted.
LEMMA WantedStep ==
    ASSUME Leaders, [Next]_vars, NEW b \in Bots, Wanted(b)'
    PROVE  \/ Wanted(b)
           \/ \E kind \in CommandKinds : Enqueue(b, kind)
           \/ \E w \in Workers : /\ Begin(w) /\ CurBot(w) = b
                                 /\ Command(w).kind \in {"START", "RESTART"}
  <1>t. IInv /\ bots \in [Bots -> BotRow]
    BY LoopTypes DEF Leaders, Inv
  <1>0. SameRows /\ SameWishes => Wanted(b)
    BY DEF SameRows, SameWishes, Wanted
  <1>1. ASSUME NEW w \in Workers, DeleteRow(w) PROVE Wanted(b)
    <2> DEFINE x == CurBot(w)
               row == [bots[x] EXCEPT !.exists = FALSE, !.owner = None]
    <2>1. bots' = [bots EXCEPT ![x] = row]
      BY <1>1 DEF DeleteRow
    <2>2. x \in Bots => row.exists = FALSE
      BY <1>t DEF BotRow
    <2> HIDE DEF x, row
    <2>3. QED
      BY <1>t, <2>1, <2>2 DEF Wanted
  <1>2. ASSUME NEW w \in Workers, Begin(w)
        PROVE  Wanted(b) \/ (CurBot(w) = b /\ Command(w).kind \in {"START", "RESTART"})
    <2> DEFINE x == CurBot(w)
               row == [bots[x] EXCEPT !.desired = DesiredOf(Command(w).kind)]
    <2>1. bots' = SetRow(x, row) /\ pc[w] = "begin"
      BY <1>2 DEF Begin
    <2>2. x \in Bots /\ Command(w).kind \in CommandKinds
      BY <1>t, <2>1, CurrentCommand DEF CommandLocations
    <2>3. row.desired = DesiredOf(Command(w).kind)
      BY <1>t, <2>2 DEF BotRow
    <2> HIDE DEF row
    <2>4. x = b => bots'[b] = bots[b] \/ bots'[b] = row
      BY <1>t, <2>1, <2>2 DEF SetRow
    <2>5. x # b => bots'[b] = bots[b]
      BY <1>t, <2>1, <2>2 DEF SetRow
    <2>6. CASE bots'[b] = bots[b]
      BY <2>6 DEF Wanted
    <2>7. CASE x = b /\ bots'[b] = row
      <3>1. DesiredOf(Command(w).kind) = "RUNNING"
        BY <2>3, <2>7 DEF Wanted
      <3>2. QED
        BY <2>2, <2>7, <3>1 DEF DesiredOf, StopLike, CommandKinds
    <2>8. QED
      BY <2>4, <2>5, <2>6, <2>7
  <1>3. ASSUME NEW w \in Workers, Loop(w), ~DeleteRow(w), ~Begin(w) PROVE Wanted(b)
    BY <1>t, <1>0, <1>3, LoopStays
  <1>4. ASSUME NEW w \in Workers,
               StopTimeout(w) \/ Fault(w) \/ IdleRelease(w) \/ ApplyWrite(w)
        PROVE  Wanted(b)
    BY <1>t, <1>0, <1>4, FaultStays, NothingTrackedIsDead
  <1>5. ASSUME NEW w \in Workers, NEW t \in Tasks,
               Start(w, t) \/ StartError(w, t) \/ TimerFires(w, t)
        PROVE  Wanted(b)
    BY <1>t, <1>0, <1>5, StartStays
  <1>6. ASSUME NEW x \in Bots, Api(x)
        PROVE  Wanted(b) \/ \E kind \in CommandKinds : Enqueue(b, kind)
    <2>1. CASE SameWishes
      BY <1>t, <1>0, <1>6, <2>1, ApiStays
    <2>2. ASSUME NEW kind \in Kinds \cup {"DELETE"}, Enqueue(x, kind), x # b
          PROVE  Wanted(b)
      BY <1>t, <2>2 DEF Enqueue, Wanted
    <2>3. Kinds \cup {"DELETE"} \subseteq CommandKinds
      BY ConstantsAssumption DEF CommandKinds
    <2>4. QED
      BY <1>t, <1>6, <2>1, <2>2, <2>3, ApiStays
  <1>7. ASSUME NEW c \in Children,
               ChildLife(c) \/ ChildEvent(c) \/ ChildTrades(c) \/ ChildFails(c)
        PROVE  bots' = bots
    <2>1. CASE ChildEvent(c)
      BY <2>1 DEF ChildEvent, ExitAwaited, ExitTracked, ExitIgnored, OnMessage, dbVars
    <2>2. QED
      BY <1>t, <1>7, <2>1, ChildStep DEF dbVars
  <1>8. ASSUME NEW w \in Workers, NEW x \in Bots, ResetFires(w, x) PROVE bots' = bots
    BY <1>8 DEF ResetFires, dbVars
  <1>9. CASE UNCHANGED vars
    BY <1>9 DEF vars, dbVars, Wanted
  <1>10. bots' = bots => Wanted(b)
    BY DEF Wanted
  <1>11. QED
    BY <1>1, <1>2, <1>3, <1>4, <1>5, <1>6, <1>7, <1>8, <1>9, <1>10 DEF Next

-----------------------------------------------------------------------------
(***************************************************************************)
(* Commands that stop a bot.                                               *)
(***************************************************************************)
StopKinds == {"STOP", "EMERGENCY_STOP"}
Stops(i) == commands[i].kind \in StopKinds
Latest(i) == \A j \in DOMAIN commands : j > i => commands[j].bot # commands[i].bot

\* Once stopBot was called its bot is not tracked, until a RESTART forks again,
\* deleteRow finds its directory staged, and after the latest command of the
\* bot nobody wants it.
StopPath == {"stopWait", "stopped", "deleting", "deleteRow", "deleteRm", "settle"}
StoppingAt(w) ==
    pc[w] \in StopPath =>
      /\ pc[w] # "settle" \/ Stops(cur[w]) => processes[w][CurBot(w)] = None
      /\ pc[w] = "deleteRow" => "live" \notin dataDir[CurBot(w)]
      /\ Stops(cur[w]) /\ Latest(cur[w]) => ~Wanted(CurBot(w))
Stopping == \A w \in Workers : StoppingAt(w)

\* Nobody runs the bot, starts it or has it on a list of bots to start.
Quiet(b) == \A w \in Workers : /\ processes[w][b] = None /\ b \notin todo[w]
                               /\ tasks[w][Main].at # "idle" => tasks[w][Main].bot # b

\* A STOP that succeeded last, and a DELETE, leave nothing.
StoppedQuiet == \A i \in DOMAIN commands :
    commands[i].status = "SUCCEEDED" /\ Stops(i) /\ Latest(i) =>
      Quiet(commands[i].bot) /\ ~Wanted(commands[i].bot)
Removing(b) == \E w \in Workers : pc[w] = "deleteRm" /\ cur[w] # 0 /\ CurBot(w) = b
DeletedQuiet == \A b \in Bots : ~bots[b].exists =>
    /\ "live" \notin dataDir[b]
    /\ "staged" \in dataDir[b] => Removing(b)
    /\ \A w \in Workers : /\ processes[w][b] = None
                          /\ tasks[w][Main].bot = b => tasks[w][Main].at \in {"idle", "load"}

\* There is one leader, and nothing happens at the other workers.
LEMMA Alone ==
    ASSUME Leaders, Where, NEW w \in Workers, Leading(w), NEW v \in Workers, v # w
    PROVE  /\ pc[v] \in Gone \cup {"elect"} /\ todo[v] = {} /\ tasks[v][Main].at = "idle"
           /\ \A x \in Bots : processes[v][x] = None
  <1>1. ~Leading(v)
    BY DEF Leaders, LeaderLock
  <1>2. pc[v] \in Gone \cup {"elect"}
    BY <1>1 DEF Leading
  <1>3. todo[v] = {}
    BY <1>2 DEF Where, WhereAt, Gone
  <1>4. tasks[v][Main].at = "idle"
    BY <1>2, MainStarts, FailoverTypes DEF Gone
  <1>5. \A x \in Bots : processes[v][x] = None
    BY <1>2 DEF Leaders, Sole, LeaderTracks, Away
  <1>6. QED
    BY <1>2, <1>3, <1>4, <1>5

\* Main gets to the end of a stop by Begin and stays on the way; startBot gets
\* to "settle" for a START or RESTART.
LEMMA StopFlow ==
    ASSUME Leaders, Where, [Next]_vars, NEW w \in Workers, pc'[w] \in StopPath
    PROVE  /\ cur'[w] = cur[w] /\ cur[w] # 0
           /\ \/ pc[w] \in StopPath /\ (pc'[w] # "settle" => pc[w] # "settle")
              \/ Begin(w)
              \/ pc'[w] = "settle" /\ pc[w] = "starting"
           /\ pc'[w] = "deleteRow" => pc[w] = "deleteRow" \/ DeleteStage(w)
  <1>c. pc[w] \in CommandLocations => cur[w] # 0
    BY DEF Leaders, Inv, IInv, Shape, CurShape
  <1>1. CASE pc'[w] = pc[w] /\ cur'[w] = cur[w]
    BY <1>c, <1>1 DEF StopPath, CommandLocations
  <1>2. CASE Hop(w)
    <2>1. CASE GoesStraight(w)
      BY <1>c, <2>1 DEF GoesStraight, Straight, StopPath, CommandLocations
    <2>2. CASE StartEnds(w)
      BY <2>2 DEF StartEnds, StopPath
    <2>3. CASE Begin(w)
      <3>1. cur' = cur /\ pc[w] = "begin" /\ pc'[w] # "deleteRow"
        BY <2>3, LoopTypes DEF Begin, StopsBot, LoopStartsBot, At, AfterStart
      <3>2. QED
        BY <1>c, <2>3, <3>1 DEF CommandLocations
    <2>4. CASE StopClean(w)
      <3>1. /\ cur' = cur /\ pc[w] = "stopped"
            /\ pc'[w] \in {"starting", "restore", "settle", "deleting"}
        BY <2>4, LoopTypes DEF StopClean, LoopStartsBot, At, AfterStart
      <3>2. QED
        BY <1>c, <3>1 DEF StopPath, CommandLocations
    <2>5. CASE SelectDesired(w) \/ Claim(w) \/ Settle(w) \/ CatchFail(w) \/ Dies(w)
      <3>1. pc'[w] \in {"restore", "begin", "poll", "down"}
        BY <2>5, LoopTypes DEF SelectDesired, Claim, Settle, CatchFail, Dies, At
      <3>2. QED
        BY <3>1 DEF StopPath
    <2>6. CASE Restore(w)
      <3>1. pc[w] = "restore" /\ cur[w] = 0
        BY <2>6 DEF Restore, Where, WhereAt, CommandLocations
      <3>2. pc'[w] \in {"restore", "poll", "starting"}
        BY <2>6, <3>1, LoopTypes DEF Restore, LoopStartsBot, At, AfterStart
      <3>3. QED
        BY <3>2 DEF StopPath
    <2>7. QED
      BY <1>2, <2>1, <2>2, <2>3, <2>4, <2>5, <2>6 DEF Hop
  <1>3. QED
    BY <1>1, <1>2, Hops DEF Hop

\* What stays true of the queue behind a command.
LEMMA LatestKept ==
    ASSUME Leaders, Forward, NEW i \in DOMAIN commands, Latest(i)'
    PROVE  /\ Latest(i) /\ Stops(i)' = Stops(i)
           /\ \A kind \in CommandKinds : ~Enqueue(commands[i].bot, kind)
  <1>1. Latest(i)
    BY DEF Forward, Latest
  <1>2. Stops(i)' = Stops(i)
    BY DEF Forward, Stops
  <1>3. ASSUME NEW kind \in CommandKinds, Enqueue(commands[i].bot, kind) PROVE FALSE
    <2> DEFINE e == [bot |-> commands[i].bot, kind |-> kind, status |-> "PENDING"]
               n == Len(commands) + 1
    <2>1. /\ commands \in Seq(CommandRow) /\ commands[i].bot \in Bots
          /\ DOMAIN commands = 1..Len(commands) /\ Len(commands) \in Nat
      BY LoopTypes, QueueRows, LenProperties
    <2>2. e \in CommandRow /\ e.bot = commands[i].bot
      BY <2>1 DEF CommandRow, Status
    <2>3. commands' = Append(commands, e)
      BY <1>3 DEF Enqueue
    <2> HIDE DEF e
    <2>4. /\ commands' \in Seq(CommandRow) /\ Len(commands') = n
          /\ commands'[n] = e /\ commands'[i] = commands[i]
      BY <2>1, <2>2, <2>3, AppendProperties
    <2>5. n \in DOMAIN commands' /\ n > i
      BY <2>1, <2>4, LenProperties
    <2>6. QED
      BY <2>2, <2>4, <2>5 DEF Latest
  <1>4. QED
    BY <1>1, <1>2, <1>3

\* stopBot forgets the process, and handleCommand no longer wants the bot.
LEMMA BeginStops ==
    ASSUME Leaders, NEW w \in Workers, Begin(w), pc'[w] \in StopPath
    PROVE  /\ pc'[w] # "settle" \/ Stops(cur[w]) => processes'[w][CurBot(w)] = None
           /\ Stops(cur[w]) => ~(bots'[CurBot(w)].exists /\ bots'[CurBot(w)].desired = "RUNNING")
           /\ pc'[w] # "deleteRow"
  <1> DEFINE b == CurBot(w)
             kind == Command(w).kind
             row == [bots[b] EXCEPT !.desired = DesiredOf(kind)]
  <1>1. /\ b \in Bots /\ kind \in CommandKinds /\ bots[b] \in BotRow
        /\ pc[w] = "begin"
    BY CurrentCommand, LoopTypes DEF Begin, CommandLocations, Leaders, Inv
  <1>2. \/ processes' = Untrack(w, b) /\ pc'[w] \in {"stopWait", "stopped"}
        \/ processes' = processes /\ ~AlreadyRunning(w, b) /\ pc'[w] = "deleting"
        \/ kind = "START" /\ pc'[w] \in {"starting", "restore", "settle"}
    BY LoopTypes DEF Begin, StopsBot, LoopStartsBot, At, AfterStart
  <1>3. bots' = SetRow(b, row)
    BY DEF Begin
  <1>4. row.desired = DesiredOf(kind)
    BY <1>1 DEF BotRow
  <1>5. Stops(cur[w]) => kind \in {"STOP", "EMERGENCY_STOP"} /\ DesiredOf(kind) = "STOPPED"
    BY DEF Stops, StopKinds, Command, DesiredOf, StopLike
  <1>6. Untrack(w, b)[w][b] = None
    BY <1>1, FailoverTypes DEF Untrack
  <1>7. ~AlreadyRunning(w, b) => processes[w][b] = None
    BY <1>1, TrackedIsRunning
  <1> HIDE DEF b, kind, row
  <1>8. \/ ~bots[b].exists /\ bots'[b] = bots[b]
        \/ bots'[b] = row
    BY <1>1, <1>3, LoopTypes DEF SetRow
  <1>9. Stops(cur[w]) => ~(bots'[b].exists /\ bots'[b].desired = "RUNNING")
    BY <1>4, <1>5, <1>8
  <1>10. pc'[w] # "settle" \/ Stops(cur[w]) => processes'[w][b] = None
    BY <1>2, <1>5, <1>6, <1>7 DEF StopPath
  <1>11. QED
    BY <1>2, <1>9, <1>10 DEF b

\* Stopping is inductive.
LEMMA StoppingStep ==
    ASSUME Leaders, QueueInv, Where, Stopping, [Next]_vars
    PROVE  Stopping'
  <1> SUFFICES ASSUME NEW w \in Workers, pc'[w] \in StopPath
               PROVE  StoppingAt(w)'
    BY DEF Stopping, StoppingAt
  <1>f. Forward
    BY QueueStep DEF Leaders, Inv
  <1>0. cur[w] # 0 /\ cur'[w] = cur[w] /\ cur[w] \in DOMAIN commands
    <2>1. cur'[w] = cur[w] /\ cur[w] # 0
      BY StopFlow
    <2>2. QED
      BY <1>f, <2>1, SameCommand
  <1>i. PICK i \in DOMAIN commands : i = cur[w]
    BY <1>0
  <1>b. PICK b \in Bots : b = commands[i].bot
    BY LoopTypes, QueueRows
  <1>1. b = CurBot(w) /\ CurBot(w)' = b /\ cur'[w] = i
    BY <1>f, <1>0, <1>i, <1>b DEF Forward, CurBot, Command
  <1>2. (Stops(i)' <=> Stops(i)) /\ (Latest(i)' => Latest(i))
    BY <1>f DEF Forward, Stops, Latest
  <1>3. Stops(cur[w])' = Stops(i)' /\ Latest(cur[w])' = Latest(i)'
    BY <1>1
  <1>6. Leading(w) /\ pc[w] \in StopPath \cup {"begin", "starting"}
    BY StopFlow DEF Leading, StopPath, Gone, Begin
  <1>7. CASE Begin(w)
    <2>1. /\ pc'[w] # "settle" \/ Stops(i) => processes'[w][b] = None
          /\ Stops(i) => ~Wanted(b)'
          /\ pc'[w] # "deleteRow"
      BY <1>7, <1>i, <1>1, BeginStops DEF Wanted
    <2>2. Stops(i) => ~Wanted(CurBot(w))'
      BY <1>1, <2>1 DEF Wanted
    <2>3. QED
      BY <1>1, <1>2, <1>3, <2>1, <2>2 DEF StoppingAt
  <1>8. CASE pc'[w] = "settle" /\ pc[w] = "starting"
    <2>1. ~Stops(i)
      BY <1>0, <1>i, <1>8 DEF Where, WhereAt, Stops, StopKinds, Command
    <2>2. QED
      BY <1>2, <1>3, <1>8, <2>1 DEF StoppingAt
  <1>9. CASE pc[w] \in StopPath /\ (pc'[w] # "settle" => pc[w] # "settle")
    <2>0. StoppingAt(w)
      BY DEF Stopping
    <2>1. pc'[w] # "settle" \/ Stops(i) => processes'[w][b] = None
      <3>1. pc'[w] # "settle" \/ Stops(i) => processes[w][b] = None
        BY <1>i, <1>1, <1>9, <2>0 DEF StoppingAt
      <3>2. ~StartFork(w, Main)
        BY <1>9, MainStarts, FailoverTypes DEF StartFork, StopPath
      <3>3. QED
        BY <3>1, <3>2, ProcessStep
    <2>2. ASSUME Stops(i), Latest(i)' PROVE ~Wanted(b)'
      <3>1. ~Wanted(b)
        BY <1>i, <1>1, <1>2, <1>9, <2>0, <2>2 DEF StoppingAt
      <3>2. \A kind \in CommandKinds : ~Enqueue(b, kind)
        BY <1>b, <1>f, <2>2, LatestKept
      <3>3. ASSUME NEW v \in Workers, Begin(v) PROVE FALSE
        <4>1. pc[v] = "begin"
          BY <3>3 DEF Begin
        <4>2. v # w
          BY <1>9, <4>1 DEF StopPath
        <4>3. QED
          BY <1>6, <4>1, <4>2, Alone DEF Gone
      <3>4. QED
        BY <3>1, <3>2, <3>3, WantedStep
    <2>3. ASSUME pc'[w] = "deleteRow" PROVE "live" \notin dataDir'[b]
      <3>1. CASE DeleteStage(w)
        <4>1. dataDir'[b] = Staged(dataDir[b])
          BY <1>1, <3>1, LoopTypes DEF DeleteStage
        <4>2. QED
          BY <4>1 DEF Staged
      <3>2. CASE pc[w] = "deleteRow"
        <4>1. "live" \notin dataDir[b]
          BY <1>1, <2>0, <3>2 DEF StoppingAt, StopPath
        <4>2. \A v \in Workers : ~Prepares(v, b)
          <5> SUFFICES ASSUME NEW v \in Workers, Prepares(v, b) PROVE FALSE
            OBVIOUS
          <5>1. v # w /\ pc[v] = "starting"
            BY <3>2 DEF Prepares
          <5>2. QED
            BY <1>6, <5>1, Alone DEF Gone
        <4>3. dataDir'[b] \in {dataDir[b], Staged(dataDir[b]), Orphaned(dataDir[b]),
                               dataDir[b] \ {"staged"}}
          BY <4>2, DirStep
        <4>4. QED
          BY <4>1, <4>3 DEF Staged, Orphaned
      <3>3. QED
        BY <2>3, <3>1, <3>2, StopFlow
    <2>4. QED
      BY <1>1, <1>2, <1>3, <2>1, <2>2, <2>3 DEF StoppingAt
  <1>10. QED
    BY <1>7, <1>8, <1>9, StopFlow

-----------------------------------------------------------------------------
(***************************************************************************)
(* What stops and deletions leave.                                         *)
(***************************************************************************)
\* The transaction of deleteBot removes one row.
LEMMA DeletesOne ==
    ASSUME Leaders, NEW w \in Workers, DeleteRow(w), NEW b \in Bots,
           bots[b].exists, ~bots'[b].exists
    PROVE  /\ b = CurBot(w) /\ pc[w] = "deleteRow"
           /\ pc'[w] = "deleteRm" /\ cur'[w] = cur[w] /\ cur[w] # 0
           /\ UNCHANGED <<processes, tasks, dataDir>>
  <1>1. /\ pc[w] = "deleteRow" /\ pc'[w] = "deleteRm" /\ cur'[w] = cur[w]
        /\ UNCHANGED <<processes, tasks, dataDir>>
    BY LoopTypes DEF DeleteRow, At, memVars, osVars
  <1>2. \E row : bots' = [bots EXCEPT ![CurBot(w)] = row]
    BY DEF DeleteRow
  <1>3. b = CurBot(w)
    BY <1>2, LoopTypes
  <1>4. cur[w] # 0
    BY <1>1 DEF Leaders, Inv, IInv, Shape, CurShape, CommandLocations
  <1>5. QED
    BY <1>1, <1>3, <1>4

\* deleteBot is at its rm until the renamed directory is gone, or lost under its
\* random name.
LEMMA RemovingStep ==
    ASSUME Leaders, Forward, [Next]_vars, NEW b \in Bots, Removing(b)
    PROVE  Removing(b)' \/ "staged" \notin dataDir'[b]
  <1>1. PICK w \in Workers : pc[w] = "deleteRm" /\ cur[w] # 0 /\ CurBot(w) = b
    BY DEF Removing
  <1>2. CASE pc'[w] = pc[w] /\ cur'[w] = cur[w]
    <2>1. CurBot(w)' = b
      BY <1>1, <1>2, SameCommand DEF CurBot
    <2>2. QED
      BY <1>1, <1>2, <2>1 DEF Removing
  <1>3. CASE DeleteRm(w)
    <2>1. dataDir'[b] \in {dataDir[b] \ {"staged"}, Orphaned(dataDir[b])}
      BY <1>1, <1>3, LoopTypes DEF DeleteRm
    <2>2. QED
      BY <2>1 DEF Orphaned
  <1>4. CASE Dies(w)
    <2>1. dataDir'[b] = Orphaned(dataDir[b])
      BY <1>1, <1>4, LoopTypes DEF Dies
    <2>2. QED
      BY <2>1 DEF Orphaned
  <1>5. Hop(w) => DeleteRm(w) \/ Dies(w)
    BY <1>1 DEF Hop, GoesStraight, StartEnds, SelectDesired, Restore, Claim, Begin, StopClean,
                Settle, CatchFail
  <1>6. QED
    BY <1>2, <1>3, <1>4, <1>5, Hops DEF Hop

\* DeletedQuiet is inductive: the row goes when the process is gone and the
\* directory staged, and without the row startBot ends at loadBot.
LEMMA DeletedStep ==
    ASSUME Leaders, QueueInv, Where, Stopping, DeletedQuiet, [Next]_vars
    PROVE  DeletedQuiet'
  <1>f. Forward
    BY QueueStep DEF Leaders, Inv
  <1> SUFFICES ASSUME NEW b \in Bots, ~bots'[b].exists
               PROVE  /\ "live" \notin dataDir'[b]
                      /\ "staged" \in dataDir'[b] => Removing(b)'
                      /\ \A w \in Workers :
                           /\ processes'[w][b] = None
                           /\ tasks'[w][Main].bot = b => tasks'[w][Main].at \in {"idle", "load"}
    BY DEF DeletedQuiet
  <1>1. CASE bots[b].exists
    <2>1. PICK w \in Workers : DeleteRow(w)
      BY <1>1, RowsStay DEF SameRows, Leaders, Inv
    <2>2. /\ b = CurBot(w) /\ pc[w] = "deleteRow" /\ UNCHANGED <<processes, tasks, dataDir>>
          /\ pc'[w] = "deleteRm" /\ cur'[w] = cur[w] /\ cur[w] # 0
      BY <1>1, <2>1, DeletesOne
    <2>3. processes[w][b] = None /\ "live" \notin dataDir[b]
      BY <2>2 DEF Stopping, StoppingAt, StopPath
    <2>4. Removing(b)'
      <3>1. CurBot(w)' = b
        BY <1>f, <2>2, SameCommand DEF CurBot
      <3>2. QED
        BY <2>2, <3>1 DEF Removing
    <2>5. tasks[w][Main].at = "idle"
      BY <2>2, MainStarts, FailoverTypes
    <2>6. Leading(w)
      BY <2>2 DEF Leading, Gone
    <2>7. QED
      BY <2>2, <2>3, <2>4, <2>5, <2>6, Alone
  <1>2. CASE ~bots[b].exists
    <2>1. /\ "live" \notin dataDir[b] /\ ("staged" \in dataDir[b] => Removing(b))
          /\ \A w \in Workers :
               /\ processes[w][b] = None
               /\ tasks[w][Main].bot = b => tasks[w][Main].at \in {"idle", "load"}
      BY <1>2 DEF DeletedQuiet
    <2>2. "live" \notin dataDir'[b] /\ ("staged" \in dataDir'[b] => "staged" \in dataDir[b])
      <3>1. dataDir'[b] \in {dataDir[b], Staged(dataDir[b]), Orphaned(dataDir[b]),
                             dataDir[b] \ {"staged"}}
        BY <1>2, DirStep DEF Prepares
      <3>2. QED
        BY <2>1, <3>1 DEF Staged, Orphaned
    <2>3. ASSUME NEW w \in Workers PROVE processes'[w][b] = None
      <3>1. ~(StartFork(w, Main) /\ tasks[w][Main].bot = b)
        BY <2>1 DEF StartFork
      <3>2. QED
        BY <2>1, <3>1, ProcessStep
    <2>4. ASSUME NEW w \in Workers, tasks'[w][Main].bot = b
          PROVE  tasks'[w][Main].at \in {"idle", "load"}
      BY <1>2, <2>1, <2>4, TaskStep DEF TaskMoves
    <2>5. QED
      BY <1>f, <2>1, <2>2, <2>3, <2>4, RemovingStep
  <1>3. QED
    BY <1>1, <1>2

\* A command becomes SUCCEEDED when it is settled.
LEMMA Succeeds ==
    ASSUME Leaders, [Next]_vars, NEW i \in DOMAIN commands', commands'[i].status = "SUCCEEDED"
    PROVE  /\ i \in DOMAIN commands
           /\ \/ commands[i].status = "SUCCEEDED"
              \/ \E w \in Workers : Settle(w) /\ cur[w] = i
  <1>t. commands \in Seq(CommandRow)
    BY LoopTypes
  <1>1. CASE commands' = commands
    BY <1>1
  <1>2. ASSUME NEW w \in Workers, NEW k, NEW s \in Status, commands' = SetStatus(k, s),
               s = "SUCCEEDED" => Settle(w) /\ k = cur[w]
        PROVE  /\ i \in DOMAIN commands
               /\ commands[i].status = "SUCCEEDED" \/ (Settle(w) /\ cur[w] = i)
    BY <1>t, <1>2, SetStatusType
  <1>3. ASSUME NEW w \in Workers, Claim(w) \/ Settle(w) \/ CatchError(w)
        PROVE  /\ i \in DOMAIN commands
               /\ commands[i].status = "SUCCEEDED" \/ (Settle(w) /\ cur[w] = i)
    <2>1. CASE Claim(w)
      <3>1. PICK k : commands' = SetStatus(k, "PROCESSING")
        BY <2>1 DEF Claim, MarkClaimed
      <3>2. QED
        BY <1>2, <3>1 DEF Status
    <2>2. CASE Settle(w)
      <3>1. commands' = SetStatus(cur[w], "SUCCEEDED")
        BY <2>2 DEF Settle
      <3>2. QED
        BY <1>2, <2>2, <3>1 DEF Status
    <2>3. CASE CatchError(w)
      <3>1. commands' = SetStatus(cur[w], "FAILED")
        BY <2>3 DEF CatchError
      <3>2. QED
        BY <1>2, <3>1 DEF Status
    <2>4. QED
      BY <1>3, <2>1, <2>2, <2>3
  <1>4. ASSUME NEW w \in Workers, DeleteRow(w)
        PROVE  i \in DOMAIN commands /\ commands[i].status = "SUCCEEDED"
    BY <1>t, <1>4, DeleteKeeps
  <1>5. ASSUME NEW b \in Bots, NEW kind \in CommandKinds, Enqueue(b, kind)
        PROVE  i \in DOMAIN commands /\ commands[i].status = "SUCCEEDED"
    <2>1. [bot |-> b, kind |-> kind, status |-> "PENDING"].status = "PENDING"
      OBVIOUS
    <2>2. QED
      BY <1>t, <1>5, <2>1, EnqueueKeeps
  <1>6. ASSUME NEW w \in Workers, Elect(w) \/ LockLoss(w) PROVE commands' = commands
    BY <1>6 DEF Elect, LockLoss
  <1>7. Steady => commands' = commands
    BY DEF Steady
  <1>8. QED
    BY <1>1, <1>2, <1>3, <1>4, <1>5, <1>6, <1>7, StepKinds DEF Leaders, Inv

\* A quiet bot that nobody wants stays quiet, unless a command starts it.
LEMMA QuietStep ==
    ASSUME Leaders, Where, [Next]_vars, NEW b \in Bots, Quiet(b), ~Wanted(b),
           \A w \in Workers : Begin(w) \/ StopClean(w) =>
             CurBot(w) # b \/ Command(w).kind \notin {"START", "RESTART"}
    PROVE  Quiet(b)'
  <1> SUFFICES ASSUME NEW w \in Workers
               PROVE  /\ processes'[w][b] = None /\ b \notin todo'[w]
                      /\ tasks'[w][Main].at # "idle" => tasks'[w][Main].bot # b
    BY DEF Quiet
  <1>1. /\ processes[w][b] = None /\ b \notin todo[w]
        /\ tasks[w][Main].at # "idle" => tasks[w][Main].bot # b
    BY DEF Quiet
  <1>2. processes'[w][b] = None
    <2>1. ~(StartFork(w, Main) /\ tasks[w][Main].bot = b)
      BY <1>1 DEF StartFork
    <2>2. QED
      BY <1>1, <2>1, ProcessStep
  <1>3. b \notin todo'[w]
    <2>1. CASE todo'[w] = todo[w]
      BY <1>1, <2>1
    <2>2. CASE Hop(w)
      <3>1. CASE SelectDesired(w)
        <4>1. todo'[w] = ToRestore
          BY <3>1, LoopTypes DEF SelectDesired
        <4>2. QED
          BY <4>1 DEF ToRestore, Wanted
      <3>2. CASE Restore(w)
        <4>1. todo'[w] \subseteq todo[w]
          BY <3>2, LoopTypes DEF Restore
        <4>2. QED
          BY <1>1, <4>1
      <3>3. CASE Dies(w)
        BY <3>3, LoopTypes DEF Dies
      <3>4. CASE \/ GoesStraight(w) \/ StartEnds(w) \/ Claim(w) \/ Begin(w) \/ StopClean(w)
                 \/ Settle(w) \/ CatchFail(w)
        BY <2>1, <3>4 DEF GoesStraight, StartEnds, Claim, Begin, StopClean, Settle, CatchFail
      <3>5. QED
        BY <2>2, <3>1, <3>2, <3>3, <3>4 DEF Hop
    <2>3. QED
      BY <2>1, <2>2, Hops DEF Hop
  <1>4. ASSUME tasks'[w][Main].at # "idle", tasks'[w][Main].bot = b PROVE FALSE
    <2>1. ~Begins(w, b)
      BY <1>1 DEF Begins
    <2>2. QED
      BY <1>1, <1>4, <2>1, TaskStep DEF TaskMoves
  <1>5. QED
    BY <1>2, <1>3, <1>4

\* StoppedQuiet is inductive: commands are handled in order, so behind a latest
\* STOP that succeeded no START or RESTART of the bot is left.
LEMMA StoppedStep ==
    ASSUME Leaders, QueueInv, Where, InOrder, Stopping, StoppedQuiet, [Next]_vars
    PROVE  StoppedQuiet'
  <1>f. Forward
    BY QueueStep DEF Leaders, Inv
  <1> SUFFICES ASSUME NEW i \in DOMAIN commands', commands'[i].status = "SUCCEEDED",
                      Stops(i)', Latest(i)'
               PROVE  (Quiet(commands[i].bot) /\ ~Wanted(commands[i].bot))'
    BY DEF StoppedQuiet
  <1>1. /\ i \in DOMAIN commands
        /\ \/ commands[i].status = "SUCCEEDED"
           \/ \E w \in Workers : Settle(w) /\ cur[w] = i
    BY Succeeds
  <1>2. /\ Stops(i) /\ Latest(i)
        /\ \A kind \in CommandKinds : ~Enqueue(commands[i].bot, kind)
    BY <1>f, <1>1, LatestKept
  <1>b. PICK b \in Bots : b = commands[i].bot
    BY <1>1, LoopTypes, QueueRows
  <1>3. commands'[i].bot = b
    BY <1>f, <1>1, <1>b DEF Forward
  <1>4. CASE commands[i].status = "SUCCEEDED"
    <2>1. Quiet(b) /\ ~Wanted(b)
      BY <1>1, <1>2, <1>b, <1>4 DEF StoppedQuiet
    <2>2. ASSUME NEW w \in Workers, Begin(w) \/ StopClean(w), CurBot(w) = b,
                 Command(w).kind \in {"START", "RESTART"}
          PROVE  FALSE
      <3>1. /\ cur[w] # 0 /\ cur[w] \in DOMAIN commands /\ commands[cur[w]].bot = b
        BY <2>2, CurrentCommand
           DEF Begin, StopClean, CommandLocations, Leaders, Inv, CurBot, Command
      <3>2. cur[w] # i
        BY <1>2, <2>2 DEF Stops, StopKinds, Command
      <3>3. ~(cur[w] > i)
        BY <1>2, <1>b, <3>1 DEF Latest
      <3>4. i \in Nat /\ cur[w] \in Nat
        BY <1>1, <3>1, LoopTypes, QueueRows
      <3>5. i > cur[w]
        BY <3>2, <3>3, <3>4
      <3>6. QED
        BY <1>1, <1>4, <3>1, <3>5 DEF InOrder
    <2>3. ~Wanted(b)'
      BY <1>2, <1>b, <2>1, <2>2, WantedStep
    <2>4. Quiet(b)'
      BY <2>1, <2>2, QuietStep
    <2>5. QED
      BY <1>3, <2>3, <2>4 DEF Quiet, Wanted
  <1>5. ASSUME NEW w \in Workers, Settle(w), cur[w] = i
        PROVE  (Quiet(commands[i].bot) /\ ~Wanted(commands[i].bot))'
    <2>1. pc[w] = "settle" /\ UNCHANGED <<bots, todo, processes, tasks>>
      BY <1>5 DEF Settle, memVars
    <2>2. cur[w] # 0 /\ CurBot(w) = b /\ Leading(w)
      BY <1>b, <1>5, <2>1, CurrentCommand
         DEF CommandLocations, Leaders, Inv, CurBot, Command, Leading, Gone
    <2>3. processes[w][b] = None /\ ~Wanted(b)
      BY <1>2, <1>5, <2>1, <2>2 DEF Stopping, StoppingAt, StopPath
    <2>4. todo[w] = {}
      BY <2>2 DEF Where, WhereAt
    <2>5. tasks[w][Main].at = "idle"
      BY <2>1, MainStarts, FailoverTypes
    <2>6. Quiet(b)
      BY <2>2, <2>3, <2>4, <2>5, Alone DEF Quiet
    <2>7. QED
      BY <1>3, <2>1, <2>3, <2>6 DEF Quiet, Wanted
  <1>6. QED
    BY <1>1, <1>4, <1>5

-----------------------------------------------------------------------------
Settled == /\ Leaders /\ QueueInv /\ Where /\ InOrder /\ Stopping
           /\ StoppedQuiet /\ DeletedQuiet

\* The order of commands and what they leave is as stated in every reachable
\* state.
THEOREM SettledInvariance ==
    ASSUME Reliable
    PROVE  Spec => []Settled
  <1>1. Init => Where /\ InOrder /\ Stopping /\ StoppedQuiet /\ DeletedQuiet
    BY DEF Init, Where, WhereAt, InOrder, Stopping, StoppingAt, StopPath, StoppedQuiet,
           DeletedQuiet
  <1>2. /\ Leaders /\ QueueInv /\ Where /\ InOrder /\ Stopping /\ StoppedQuiet /\ DeletedQuiet
        /\ [Next]_vars
        => Where' /\ InOrder' /\ Stopping' /\ StoppedQuiet' /\ DeletedQuiet'
    BY WhereStep, OrderStep, StoppingStep, StoppedStep, DeletedStep
  <1>3. Settled <=> /\ Leaders /\ QueueInv /\ Where /\ InOrder /\ Stopping
                    /\ StoppedQuiet /\ DeletedQuiet
    BY DEF Settled
  <1>4. QED
    BY <1>1, <1>2, <1>3, LeadersInvariance, QueueInvariance, PTL DEF Spec

\* A process that trades is tracked by a worker.
LEMMA TradingIsTracked ==
    ASSUME Leaders, NEW b \in Bots, NEW c \in Children, Trading(c, b)
    PROVE  \E w \in Workers : processes[w][b] # None
  <1>1. Untold(child[c]) /\ child[c].bot = b
    BY DEF Trading, Untold
  <1>2. processes[child[c].owner][b] = c /\ child[c].owner \in Workers
    BY <1>1 DEF Untold, Leaders, Sole, UntoldTracked, Inv, IInv, Shape, ChildShape
  <1>3. QED
    BY <1>2, FailoverTypes

\* A STOP or EMERGENCY_STOP that SUCCEEDED is final until the next command of the
\* bot: no takeover, reconcile or startBot under way leaves a trading process
\* (stopBot, reconcile, claimCommand).
THEOREM StopIsFinal ==
    ASSUME Reliable
    PROVE  Spec => []StopIsSafe
  <1>1. ASSUME Settled PROVE StopIsSafe
    BY <1>1, TradingIsTracked DEF StopIsSafe, Settled, StoppedQuiet, Quiet, Stops, StopKinds,
                                  Latest
  <1>2. QED
    BY <1>1, SettledInvariance, PTL

\* A deleted bot has no trading process and no directory of its own, whichever
\* leader deleted it and wherever the earlier ones crashed; the renamed directory is
\* there only while deleteBot is at its rm (deleteBot).
THEOREM DeletedForGood ==
    ASSUME Reliable
    PROVE  Spec => []DeletedIsGone
  <1>1. ASSUME Settled PROVE DeletedIsGone
    BY <1>1, TradingIsTracked DEF DeletedIsGone, Settled, DeletedQuiet, Removing
  <1>2. QED
    BY <1>1, SettledInvariance, PTL

\* startBot inserts for a bot that is still there: nobody deletes while it runs.
InsertsLive == \A v \in Workers : tasks[v][Main].at = "insert" =>
                 bots[tasks[v][Main].bot].exists

\* The leader loop starts or deletes, never both, and there is one leader.
LEMMA InsertsStep ==
    ASSUME Settled, InsertsLive, [Next]_vars
    PROVE  InsertsLive'
  <1> SUFFICES ASSUME NEW v \in Workers, tasks'[v][Main].at = "insert"
               PROVE  bots'[tasks'[v][Main].bot].exists
    BY DEF InsertsLive
  <1> DEFINE k == tasks[v][Main]
             q == tasks'[v][Main]
  <1>1. k.at # "idle" /\ q.bot = k.bot /\ bots[k.bot].exists
    BY TaskStep DEF TaskMoves, InsertsLive, Settled
  <1>2. pc[v] = "starting" /\ k.bot \in Bots
    BY <1>1, MainStarts, FailoverTypes DEF Settled
  <1>3. ASSUME NEW w \in Workers, DeleteRow(w) PROVE FALSE
    <2>1. pc[w] = "deleteRow"
      BY <1>3 DEF DeleteRow
    <2>2. QED
      BY <1>2, <2>1, Alone DEF Leading, Gone, Settled
  <1>4. SameRows
    BY <1>3, RowsStay DEF Settled, Leaders, Inv
  <1>5. QED
    BY <1>1, <1>2, <1>4 DEF SameRows

\* The registry of SQLite databases agrees with trading_bots, whichever leader
\* registered, deleted or crashed in between: a start and a delete of a bot never
\* overlap (startBot, registerSqliteDatabase, deleteBot).  With a restart timer they
\* may, and a start then revives the entry of a bot that is gone.
THEOREM RegistryAgrees ==
    ASSUME Reliable
    PROVE  Spec => []RegistryFollowsRow
  <1>1. Init => RegistryFollowsRow /\ InsertsLive
    BY DEF Init, RegistryFollowsRow, InsertsLive, NoTask, Tasks
  <1>2. Settled /\ InsertsLive /\ [Next]_vars => InsertsLive'
    BY InsertsStep
  <1>3. Settled /\ InsertsLive /\ RegistryFollowsRow /\ [Next]_vars => RegistryFollowsRow'
    <2> SUFFICES ASSUME Settled, InsertsLive, RegistryFollowsRow, [Next]_vars
                 PROVE  RegistryFollowsRow'
      OBVIOUS
    <2>1. ASSUME NEW b \in Bots, InsertsFor(b) PROVE bots[b].exists
      <3>1. PICK w \in Workers, t \in Tasks : tasks[w][t].at = "insert" /\ tasks[w][t].bot = b
        BY <2>1 DEF InsertsFor
      <3>2. t = Main
        BY <3>1, MainStarts DEF Settled
      <3>3. QED
        BY <3>1, <3>2 DEF InsertsLive
    <2>2. QED
      BY <2>1, RegistryKept DEF Settled, Leaders, Inv
  <1>4. QED
    BY <1>1, <1>2, <1>3, SettledInvariance, PTL DEF Spec
============================================================================
