------------------------- MODULE TradeSessionLedger -------------------------
(***************************************************************************)
(* The list in memory, the ledger in SQLite and what the exchange holds,   *)
(* for any number of orders, sessions, starts and faults: MemoryIsLedger,  *)
(* NeverOverClosed and EndedIsFlatOrPartial.                               *)
(*                                                                         *)
(* SInv says what is saved; Mirror says what the list has at every         *)
(* position of the loop, from the entry to the end of the session, as long *)
(* as no order was hidden and the two threads did not work at a time.  It  *)
(* ends where the stop request puts its own closing order on the list: the *)
(* index it booked that order under is the one the request found when it   *)
(* arrived, and a new session may have begun in between.                   *)
(*                                                                         *)
(* EInv adds the exchange's side, as long as no order was hidden and the   *)
(* two threads did not work at a time: the net of a session never goes     *)
(* against its entry, the order a thread waits for adds to the position or *)
(* closes what is left of it exactly, the part of the list a close has     *)
(* still to count makes up the difference to the net, a session ends only  *)
(* when its position is covered or its closing order was cut short, and    *)
(* the list is empty between two sessions.  The last part needs Standing:  *)
(* as long as nobody asked the process to stop, the session it watches     *)
(* holds a position, so the stop-loss never leaves the loop, with a full   *)
(* list, because there was nothing to close.                               *)
(***************************************************************************)
EXTENDS TradeSessionProofs, SumTheorems

Ids(q) == {q[i].id : i \in DOMAIN q}
Distinct(q) == \A i, j \in DOMAIN q : q[i].id = q[j].id => i = j
Loop == {"enter", "watch", "tracking"} \cup Closer \cup Placed
Open == Loop \cup {"resume", "end", "ending"}
Settled == Undisturbed /\ th["stop"].pc \notin {"push", "dispose"}

\* The list has the ledger of the session, but for the order that is saved and not
\* yet on the list.
Mirrored ==
    /\ th["main"].pc = "push" =>
          /\ Ids(RowsOf(sess)) = Ids(mem) \cup {th["main"].ord}
          /\ th["main"].ord \notin Ids(mem)
    /\ th["main"].pc # "push" => Ids(RowsOf(sess)) = Ids(mem)
    /\ Distinct(mem)

Mirror ==
    /\ ~alive => mem = <<>>
    /\ th["main"].why = "track" => th["main"].pc \in Closer \cup Placed
    /\ th["main"].pc \in Open => sess \in ActiveSessions
    /\ th["main"].pc \in Closer \cup Placed => th["main"].idx = sess
    /\ Settled /\ th["main"].pc \in Loop => Mirrored

\* What EInv says of the list when a session begins.
EmptyBetween == Undisturbed /\ th["main"].pc \in {"sleep", "begin"} => mem = <<>>

-----------------------------------------------------------------------------
(* Steps that write neither the list nor SQLite.                           *)

\* The empty list has no entries, and a list that mirrors a session's ledger is as
\* long as it: a ledger without rows means an empty list.
LEMMA EmptyIds ==
  ASSUME Types
  PROVE  /\ Ids(<<>>) = {} /\ Distinct(<<>>)
         /\ Ids(mem) = {} => mem = <<>>
         /\ \A s \in DOMAIN rows : RowsOf(s) = <<>> => Ids(RowsOf(s)) = {}
<1>1. Ids(<<>>) = {} /\ Distinct(<<>>)
  BY DEF Ids, Distinct
<1>2. mem \in Seq(Held)
  BY DEF Types, TypeOK
<1>3. Ids(mem) = {} => mem = <<>>
  <2>1. SUFFICES ASSUME mem # <<>>
                 PROVE  Ids(mem) # {}
    OBVIOUS
  <2>2. 1 \in DOMAIN mem
    BY <1>2, <2>1
  <2> QED
    BY <2>2 DEF Ids
<1>4. \A s \in DOMAIN rows : RowsOf(s) = <<>> => Ids(RowsOf(s)) = {}
  BY <1>1
<1> QED
  BY <1>1, <1>3, <1>4

\* The loop goes on, moves between positions that expect the same list, or leaves
\* the session.
LEMMA MirrorStays ==
  ASSUME SInv, Mirror,
         UNCHANGED <<sessions, rows, mem, sess, alive>>, lost \subseteq lost', overlap => overlap',
         th["stop"].pc \in {"push", "dispose"} => th'["stop"].pc \in {"push", "dispose"},
         \/ /\ th'["main"].pc = th["main"].pc /\ th'["main"].ord = th["main"].ord
            /\ th'["main"].idx = th["main"].idx /\ th'["main"].why = th["main"].why
         \/ /\ th["main"].pc \in Loop \ {"push"}
            /\ \/ th'["main"].pc \in Loop \ {"push"}
               \/ th'["main"].pc \in {"done", "sleep", "end"}
            /\ th'["main"].pc \in Closer \cup Placed => th'["main"].idx = sess
            /\ th'["main"].why = "track" => th'["main"].pc \in Closer \cup Placed
         \/ /\ th["main"].pc = "end" /\ th'["main"].pc = "ending"
            /\ th'["main"].why = th["main"].why /\ th'["main"].idx = th["main"].idx
  PROVE  Mirror'
<1>1. Settled' => Settled
  BY DEF Settled, Undisturbed
<1>2. ActiveSessions' = ActiveSessions /\ RowsOf(sess)' = RowsOf(sess)
  BY DEF ActiveSessions, RowsOf
<1>3. {"end", "ending", "done", "sleep", "begin", "resume"} \cap Loop = {}
  BY DEF Loop, Closer, Placed
<1>4. CASE /\ th'["main"].pc = th["main"].pc /\ th'["main"].ord = th["main"].ord
           /\ th'["main"].idx = th["main"].idx /\ th'["main"].why = th["main"].why
  BY <1>1, <1>2, <1>4 DEF Mirror, Mirrored
<1>5. CASE /\ th["main"].pc \in Loop \ {"push"}
           /\ \/ th'["main"].pc \in Loop \ {"push"}
              \/ th'["main"].pc \in {"done", "sleep", "end"}
           /\ th'["main"].pc \in Closer \cup Placed => th'["main"].idx = sess
           /\ th'["main"].why = "track" => th'["main"].pc \in Closer \cup Placed
  <2>1. th["main"].pc \in Open /\ sess \in ActiveSessions
    BY <1>5 DEF Mirror, Open
  <2>2. Settled' => Mirrored
    BY <1>1, <1>5 DEF Mirror
  <2>3. Settled' /\ th'["main"].pc \in Loop => Mirrored'
    BY <1>2, <1>3, <1>5, <2>2 DEF Mirrored
  <2> QED
    BY <1>2, <1>5, <2>1, <2>3 DEF Mirror
<1>6. CASE /\ th["main"].pc = "end" /\ th'["main"].pc = "ending"
           /\ th'["main"].why = th["main"].why /\ th'["main"].idx = th["main"].idx
  <2>1. th["main"].pc \in Open /\ th["main"].pc \notin Closer \cup Placed
    BY <1>6 DEF Open, Closer, Placed
  <2>2. th'["main"].pc \notin Loop /\ th'["main"].pc \notin Closer \cup Placed
    BY <1>3, <1>6 DEF Loop
  <2> QED
    BY <1>2, <1>6, <2>1, <2>2 DEF Mirror
<1> QED
  BY <1>4, <1>5, <1>6

\* Nothing is left to mirror when the process has ended.
LEMMA MirrorEnds ==
  ASSUME NEW L, Exit(L)
  PROVE  Mirror'
<1>1. th' = [t \in Threads |-> Idle] /\ mem' = <<>> /\ "main" \in Threads
  BY DEF Exit, Threads
<1>2. "idle" \in Steps
  BY DEF Steps
<1>3. At("idle") = Idle
  BY DEF At, Idle
<1>4. th'["main"].pc = "idle" /\ th'["main"].why = "none"
  BY <1>1, <1>2, <1>3, AtFacts
<1>5. "idle" \notin Open \cup Closer \cup Placed \cup Loop
  BY DEF Open, Loop, Closer, Placed
<1> QED
  BY <1>1, <1>4, <1>5 DEF Mirror

\* A failure ends the process, or takes the loop back to watching.
LEMMA ThrowMirror ==
  ASSUME SInv, Mirror, NEW t \in Threads, NEW L, Throw(t, L), UNCHANGED sqlite,
         overlap => overlap', th[t].pc # "push"
  PROVE  Mirror'
<1>1. CASE th[t].why = "track"
  <2>1. /\ th' = [th EXCEPT ![t] = At("watch")] /\ lost' = lost \cup L
        /\ UNCHANGED <<alive, mem, stopping, sess, sessions, rows>>
    BY <1>1 DEF Throw, sqlite
  <2>2. t = "main"
    BY <1>1 DEF SInv, Control, AtClose, Threads
  <2>3. "watch" \in Steps
    BY DEF Steps
  <2>4. At("watch") \in Thread /\ At("watch").pc = "watch" /\ At("watch").why = "none"
    BY <2>3, AtFacts
  <2>5. th'["main"] = At("watch") /\ th'["stop"] = th["stop"]
    BY <2>1, <2>2, <2>4, ThreadUpdate DEF SInv, Types, TypeOK, Threads
  <2>6. th["main"].pc \in Loop \ {"push"}
    BY <1>1, <2>2 DEF Mirror, Loop
  <2>7. "watch" \in Loop \ {"push"} /\ "watch" \notin Closer \cup Placed
    BY DEF Loop, Closer, Placed
  <2> QED
    BY <2>1, <2>4, <2>5, <2>6, <2>7, MirrorStays
<1>2. CASE th[t].why # "track"
  BY <1>2, MirrorEnds DEF Throw
<1> QED
  BY <1>1, <1>2

\* The other steps of the exchange, the requests and the stop thread: the loop stays
\* where it is.
LEMMA LoopStays ==
  ASSUME SInv, Mirror, UNCHANGED <<sessions, rows, mem, sess, alive>>, lost \subseteq lost',
         overlap => overlap', th["stop"].pc \in {"push", "dispose"} => th'["stop"].pc \in {"push", "dispose"},
         th'["main"] = th["main"]
  PROVE  Mirror'
  BY MirrorStays

\* One thread moves.
LEMMA ThreadMoves ==
  ASSUME SInv, NEW t \in Threads, NEW h \in Thread, th' = [th EXCEPT ![t] = h]
  PROVE  /\ t = "main" => th'["main"] = h /\ th'["stop"] = th["stop"]
         /\ t = "stop" => th'["stop"] = h /\ th'["main"] = th["main"]
  BY ThreadUpdate DEF SInv, Types, TypeOK, Threads

\* The stop request arrives, or the exchange moves.
LEMMA RequestMirror ==
  ASSUME SInv, Mirror,
         \/ StopWorker
         \/ \E o \in DOMAIN book : Drop(o) \/ \E q \in 1..book[o].amount : Fill(o, q)
  PROVE  Mirror'
<1>1. UNCHANGED <<sessions, rows, mem, sess, alive, lost>>
  BY DEF StopWorker, Drop, Fill, sqlite
<1>o. UNCHANGED overlap
  BY ZenonT(60) DEF StopWorker, Drop, Fill
<1>2. CASE StopWorker
  <2>1. th["stop"].pc = "idle" /\ "stop" \in Threads
    BY <1>2 DEF StopWorker, SInv, Control, Threads
  <2>2. Closing("stop") \in Thread
    BY QuietClosing DEF SInv
  <2>3. th'["main"] = th["main"]
    BY <1>2, <2>1, <2>2, ThreadMoves DEF StopWorker
  <2> QED
    BY <1>1, <1>o, <2>1, <2>3, LoopStays
<1>3. CASE \E o \in DOMAIN book : Drop(o) \/ \E q \in 1..book[o].amount : Fill(o, q)
  <2>1. th' = th
    BY <1>3 DEF Drop, Fill
  <2> QED
    BY <1>1, <1>o, <2>1, LoopStays
<1> QED
  BY <1>2, <1>3

\* A process starts with an empty list.
LEMMA StartMirror ==
  ASSUME SInv, Mirror, Start
  PROVE  Mirror'
<1>1. /\ mem' = <<>> /\ alive' = TRUE
  BY DEF Start, Mirror
<1>2. "sleep" \in Steps /\ "main" \in Threads
  BY DEF Steps, Threads
<1>3. At("sleep") \in Thread /\ At("sleep").pc = "sleep" /\ At("sleep").why = "none"
  BY <1>2, AtFacts
<1>4. th'["main"] = At("sleep")
  BY <1>2, <1>3, ThreadMoves DEF Start
<1>5. "sleep" \notin Open \cup Closer \cup Placed \cup Loop
  BY DEF Open, Loop, Closer, Placed
<1> QED
  BY <1>1, <1>3, <1>4, <1>5 DEF Mirror

\* Failed reads, and the end of the process.
LEMMA FailsMirror ==
  ASSUME SInv, Mirror,
         \/ Kill \/ Dispose \/ SessionReadFails \/ EntryReadFails \/ WatchReadFails
         \/ \E t \in Threads : ExecutionFails(t) \/ CancelAllFails(t)
  PROVE  Mirror'
<1>1. CASE Kill \/ Dispose
  BY <1>1, MirrorEnds DEF Kill, Dispose
<1>2. CASE SessionReadFails \/ EntryReadFails \/ WatchReadFails
  <2>1. /\ "main" \in Threads /\ Throw("main", {}) /\ UNCHANGED <<sqlite, overlap>>
        /\ th["main"].pc # "push"
    BY <1>2 DEF SessionReadFails, EntryReadFails, WatchReadFails, Threads
  <2> QED
    BY <2>1, ThrowMirror
<1>3. CASE \E t \in Threads : ExecutionFails(t) \/ CancelAllFails(t)
  <2>1. PICK t \in Threads : ExecutionFails(t) \/ CancelAllFails(t)
    BY <1>3
  <2>2. /\ Throw(t, {th[t].ord}) \/ Throw(t, {})
        /\ UNCHANGED <<sqlite, overlap>> /\ th[t].pc # "push"
    BY <2>1 DEF ExecutionFails, CancelAllFails
  <2> QED
    BY <2>2, ThrowMirror
<1> QED
  BY <1>1, <1>2, <1>3

\* The loop turns to something else without touching the list.
LEMMA WatchMirror ==
  ASSUME SInv, Mirror, WatchStopLoss \/ WatchTakeProfit \/ OnPriceTracker \/ TrackerReadFails
  PROVE  Mirror'
<1>1. /\ th["main"].pc \in {"watch", "tracking"}
      /\ UNCHANGED <<sessions, rows, mem, sess, alive, lost, overlap>>
      /\ \E h \in {Closing("loss"), Closing("profit"), Closing("track"), At("tracking"), At("watch")} :
            th' = [th EXCEPT !["main"] = h]
  BY DEF WatchStopLoss, WatchTakeProfit, OnPriceTracker, TrackerReadFails, sqlite
<1>2. PICK h \in {Closing("loss"), Closing("profit"), Closing("track"), At("tracking"), At("watch")} :
         th' = [th EXCEPT !["main"] = h]
  BY <1>1
<1>3. \A w \in {"loss", "profit", "track"} :
         Closing(w) \in Thread /\ Closing(w).pc = "cancel" /\ Closing(w).idx = sess
  BY ClosingFacts DEF SInv, Types, TypeOK
<1>4. {"watch", "tracking"} \subseteq Steps
  BY DEF Steps
<1>5. \A p \in {"watch", "tracking"} : At(p) \in Thread /\ At(p).pc = p /\ At(p).why = "none"
  BY <1>4, AtFacts
<1>6. /\ h \in Thread
      /\ (h.pc = "cancel" /\ h.idx = sess) \/ (h.pc \in {"watch", "tracking"} /\ h.why = "none")
  <2>1. CASE h \in {Closing("loss"), Closing("profit"), Closing("track")}
    BY <1>3, <2>1
  <2>2. CASE h \in {At("tracking"), At("watch")}
    BY <1>5, <2>2
  <2> QED
    BY <2>1, <2>2
<1>7. th'["main"] = h /\ th'["stop"] = th["stop"]
  BY <1>2, <1>6, ThreadMoves DEF Threads
<1>8. /\ {"watch", "tracking", "cancel"} \subseteq Loop \ {"push"}
      /\ "cancel" \in Closer /\ {"watch", "tracking"} \cap (Closer \cup Placed) = {}
  BY DEF Loop, Closer, Placed
<1> QED
  BY <1>1, <1>6, <1>7, <1>8, MirrorStays

\* calculateProfitSession.
LEMMA ProfitMirror ==
  ASSUME SInv, Mirror, CalculateProfitSession
  PROVE  Mirror'
<1> DEFINE h == [th["main"] EXCEPT !.pc = "ending"]
<1>1. CASE th' = [th EXCEPT !["main"] = h] /\ UNCHANGED <<alive, mem, stopping, sess, lost>>
  <2>1. th["main"] \in Thread /\ "ending" \in Steps /\ "main" \in Threads
    BY DEF SInv, Types, TypeOK, Threads, Steps
  <2>2. h \in Thread /\ h.pc = "ending" /\ h.why = th["main"].why /\ h.idx = th["main"].idx
    BY <2>1, PcFacts
  <2>3. th'["main"] = h /\ th'["stop"] = th["stop"]
    BY <1>1, <2>1, <2>2, ThreadMoves
  <2>4. UNCHANGED <<sessions, rows, overlap>> /\ th["main"].pc = "end"
    BY DEF CalculateProfitSession, sqlite
  <2> QED
    BY <1>1, <2>2, <2>3, <2>4, MirrorStays
<1>2. CASE Throw("main", {})
  BY <1>2, ThrowMirror DEF CalculateProfitSession, Threads
<1> QED
  BY <1>1, <1>2 DEF CalculateProfitSession

\* Polling, closing and the order that is sent: the list is not touched.
LEMMA WorkMirror ==
  ASSUME SInv, Mirror, NEW t \in Threads, NEW h \in Thread, th' = [th EXCEPT ![t] = h],
         UNCHANGED <<sessions, rows, mem, sess, alive>>, lost \subseteq lost', overlap => overlap',
         th[t].pc \in Loop \ {"push"}, h.pc \in Loop \ {"push"},
         t = "main" => h.idx = sess /\ h.pc \in Closer \cup Placed
  PROVE  Mirror'
<1>1. CASE t = "main"
  <2>1. th'["main"] = h /\ th'["stop"] = th["stop"]
    BY <1>1, ThreadMoves
  <2> QED
    BY <1>1, <2>1, MirrorStays
<1>2. CASE t = "stop"
  <2>1. th'["main"] = th["main"] /\ th["stop"].pc \notin {"push", "dispose"}
    BY <1>2, ThreadMoves DEF Loop, Closer, Placed
  <2> QED
    BY <2>1, LoopStays
<1> QED
  BY <1>1, <1>2 DEF Threads

\* A thread that keeps its session's index while it works on orders.
LEMMA KeepsIndex ==
  ASSUME SInv, Mirror, NEW t \in Threads, th[t].pc \in Closer \cup Placed
  PROVE  /\ th[t] \in Thread /\ th \in [Threads -> Thread]
         /\ t = "main" => th[t].idx = sess
         /\ Closer \cup Placed \subseteq Steps /\ Closer \cup Placed \subseteq Loop
  BY DEF SInv, Types, TypeOK, Mirror, Loop, Closer, Placed, Steps, Working

\* A polled order is settled, or its time is up.
LEMMA PollMirror ==
  ASSUME SInv, Mirror, NEW t \in Threads, PollSettles(t) \/ RecheckAfterCancel(t) \/ PollTimesOut(t)
  PROVE  Mirror'
<1>1. /\ th[t].pc \in {"wait", "recheck"} /\ UNCHANGED <<sqlite, overlap>>
      /\ \/ /\ \E p \in {"save", "recheck"} : th' = [th EXCEPT ![t].pc = p]
            /\ UNCHANGED <<alive, mem, sess, lost>>
         \/ Throw(t, {})
  BY DEF PollSettles, RecheckAfterCancel, PollTimesOut
<1>2. CASE /\ \E p \in {"save", "recheck"} : th' = [th EXCEPT ![t].pc = p]
           /\ UNCHANGED <<alive, mem, sess, lost>>
  <2>1. PICK p \in {"save", "recheck"} : th' = [th EXCEPT ![t].pc = p]
    BY <1>2
  <2>2. th[t].pc \in Placed /\ p \in Placed /\ p # "push" /\ th[t].pc # "push"
    BY <1>1 DEF Placed
  <2>3. /\ th[t] \in Thread /\ th \in [Threads -> Thread] /\ (t = "main" => th[t].idx = sess)
        /\ Closer \cup Placed \subseteq Steps /\ Closer \cup Placed \subseteq Loop
    BY <2>2, KeepsIndex
  <2> DEFINE h == [th[t] EXCEPT !.pc = p]
  <2>4. h \in Thread /\ h.pc = p /\ h.idx = th[t].idx
    BY <2>2, <2>3, PcFacts
  <2>5. th' = [th EXCEPT ![t] = h]
    BY <2>1, <2>3
  <2>6. UNCHANGED <<sessions, rows, mem, sess, alive, overlap>> /\ lost \subseteq lost'
    BY <1>1, <1>2 DEF sqlite
  <2> HIDE DEF h
  <2> QED
    BY <2>2, <2>3, <2>4, <2>5, <2>6, WorkMirror
<1>3. CASE Throw(t, {})
  BY <1>1, <1>3, ThrowMirror
<1> QED
  BY <1>1, <1>2, <1>3

\* A close begins.
LEMMA CancelMirror ==
  ASSUME SInv, Mirror, NEW t \in Threads, CancelAllOrders(t)
  PROVE  Mirror'
<1>1. /\ th[t].pc = "cancel" /\ UNCHANGED <<sessions, rows, alive, mem, sess, lost>>
      /\ "cancel" \in Closer /\ (overlap => overlap')
  BY DEF CancelAllOrders, sqlite, Closer
<1>2. /\ th[t] \in Thread /\ th \in [Threads -> Thread] /\ (t = "main" => th[t].idx = sess)
      /\ Closer \cup Placed \subseteq Steps /\ Closer \cup Placed \subseteq Loop
  BY <1>1, KeepsIndex
<1>3. CASE mem = <<>> /\ th' = [th EXCEPT ![t] = Resumed(t, FALSE)]
  <2>1. t = "stop"
    BY <1>1, <1>3 DEF SInv, Control, Threads
  <2>2. Resumed(t, FALSE) = At("dispose")
    BY <2>1, ResumedFacts
  <2>3. "dispose" \in Steps
    BY DEF Steps
  <2>4. At("dispose") \in Thread
    BY <2>3, AtFacts
  <2>5. th'["main"] = th["main"]
    BY <1>3, <2>1, <2>2, <2>4, ThreadMoves
  <2> QED
    BY <1>1, <2>1, <2>5, LoopStays
<1>4. CASE mem # <<>> /\ th' = [th EXCEPT ![t].pc = "fetch", ![t].rest = mem, ![t].live = TRUE]
  <2> DEFINE h == [th[t] EXCEPT !.pc = "fetch", !.rest = mem, !.live = TRUE]
  <2>1. th' = [th EXCEPT ![t] = h]
    BY <1>2, <1>4
  <2>2. "fetch" \in Steps /\ mem \in Seq(Held)
    BY DEF Steps, Working, SInv, Types, TypeOK
  <2>3. h \in Thread
    BY <1>2, <2>2 DEF Thread
  <2>4. h.pc = "fetch" /\ h.idx = th[t].idx
    BY <1>2 DEF Thread
  <2>5. "fetch" \in Closer /\ "fetch" \in Loop \ {"push"} /\ "cancel" \in Loop \ {"push"}
    BY DEF Closer, Loop
  <2> HIDE DEF h
  <2> QED
    BY <1>1, <1>2, <2>1, <2>3, <2>4, <2>5, WorkMirror
<1> QED
  BY <1>3, <1>4 DEF CancelAllOrders

\* A close counts one order.
LEMMA FetchMirror ==
  ASSUME SInv, Mirror, NEW t \in Threads, FetchStatus(t)
  PROVE  Mirror'
<1>1. /\ th[t].pc = "fetch" /\ UNCHANGED <<sessions, rows, alive, mem, sess, overlap>>
      /\ "fetch" \in Closer
  BY DEF FetchStatus, sqlite, Closer
<1>2. /\ th[t] \in Thread /\ th \in [Threads -> Thread] /\ (t = "main" => th[t].idx = sess)
      /\ Closer \cup Placed \subseteq Steps /\ Closer \cup Placed \subseteq Loop
  BY <1>1, KeepsIndex
<1> DEFINE p == IF Len(th[t].rest) > 1 THEN "fetch" ELSE "price"
<1>p. p \in {"fetch", "price"}
  OBVIOUS
<1>3. \E n : th' = [th EXCEPT ![t].rest = Tail(@), ![t].net = n, ![t].pc = p]
  BY DEF FetchStatus
<1> HIDE DEF p
<1>n. PICK n : th' = [th EXCEPT ![t].rest = Tail(@), ![t].net = n, ![t].pc = p]
  BY <1>3
<1>4. lost \subseteq lost'
  BY DEF FetchStatus
<1>5. th'[t] = [th[t] EXCEPT !.rest = Tail(th[t].rest), !.net = n, !.pc = p]
      /\ \A u \in Threads : u # t => th'[u] = th[u]
  BY <1>2, <1>n
<1>6. th'[t].pc = p /\ th'[t].idx = th[t].idx /\ th'[t].why = th[t].why
  BY <1>2, <1>5 DEF Thread
<1>7. {"fetch", "price"} \subseteq Closer /\ {"fetch", "price"} \subseteq Loop \ {"push"}
  BY DEF Closer, Loop
<1>8. CASE t = "main"
  <2>1. th'["stop"] = th["stop"]
    BY <1>5, <1>8 DEF Threads
  <2> QED
    BY <1>1, <1>2, <1>4, <1>6, <1>7, <1>8, <1>p, <2>1, MirrorStays
<1>9. CASE t = "stop"
  <2>1. th'["main"] = th["main"]
    BY <1>5, <1>9 DEF Threads
  <2> QED
    BY <1>1, <1>4, <1>9, <2>1, LoopStays
<1> QED
  BY <1>8, <1>9 DEF Threads

\* A close finds something to close, or nothing.
LEMMA ExposureMirror ==
  ASSUME SInv, Mirror, NEW t \in Threads, CalculateClosingOrderExposure(t)
  PROVE  Mirror'
<1>1. /\ th[t].pc = "price" /\ UNCHANGED <<sqlite, sessions, rows, overlap>> /\ "price" \in Closer
      /\ "price" \in Loop \ {"push"}
  BY DEF CalculateClosingOrderExposure, sqlite, Closer, Loop
<1>2. /\ th[t] \in Thread /\ th \in [Threads -> Thread] /\ (t = "main" => th[t].idx = sess)
      /\ Closer \cup Placed \subseteq Steps /\ Closer \cup Placed \subseteq Loop
  BY <1>1, KeepsIndex
<1>3. CASE th' = [th EXCEPT ![t] = Resumed(t, FALSE)] /\ UNCHANGED <<alive, mem, stopping, sess, lost, faults>>
  <2>1. PICK p \in {"dispose", "watch", "end", "done", "sleep"} :
           /\ Resumed(t, FALSE) = At(p)
           /\ t = "stop" => p = "dispose"
           /\ t = "main" => p # "dispose"
    BY ResumedFacts
  <2>2. p \in Steps
    BY <2>1 DEF Steps
  <2>3. At(p) \in Thread /\ At(p).pc = p /\ At(p).why = "none"
    BY <2>2, AtFacts
  <2>4. CASE t = "main"
    <3>1. th'["main"] = At(p) /\ th'["stop"] = th["stop"]
      BY <1>3, <2>1, <2>3, <2>4, ThreadMoves
    <3>2. p \notin Closer \cup Placed /\ p \in {"watch", "end", "done", "sleep"} /\ "watch" \in Loop \ {"push"}
      BY <2>1, <2>4 DEF Closer, Placed, Loop
    <3> QED
      BY <1>1, <1>3, <2>3, <2>4, <3>1, <3>2, MirrorStays
  <2>5. CASE t = "stop"
    <3>1. th'["main"] = th["main"]
      BY <1>3, <2>1, <2>3, <2>5, ThreadMoves
    <3> QED
      BY <1>1, <1>3, <2>5, <3>1, LoopStays
  <2> QED
    BY <2>4, <2>5 DEF Threads
<1>4. CASE th' = [th EXCEPT ![t].pc = "submit"] /\ UNCHANGED <<alive, mem, stopping, sess, lost, faults>>
  <2> DEFINE h == [th[t] EXCEPT !.pc = "submit"]
  <2>1. "submit" \in Closer /\ "submit" \in Loop \ {"push"}
    BY DEF Closer, Loop
  <2>2. h \in Thread /\ h.pc = "submit" /\ h.idx = th[t].idx
    BY <1>2, <2>1, PcFacts
  <2>3. th' = [th EXCEPT ![t] = h]
    BY <1>2, <1>4
  <2> HIDE DEF h
  <2> QED
    BY <1>1, <1>2, <1>4, <2>1, <2>2, <2>3, WorkMirror
<1>5. CASE Throw(t, {})
  BY <1>1, <1>5, ThrowMirror
<1> QED
  BY <1>3, <1>4, <1>5 DEF CalculateClosingOrderExposure

Sent(n, idx, why) == [At("wait") EXCEPT !.ord = n, !.idx = idx, !.why = why]

\* A thread that waits for the order it has placed.
LEMMA SentFacts ==
  ASSUME NEW n, NEW idx, NEW why
  PROVE  /\ Sent(n, idx, why).pc = "wait" /\ Sent(n, idx, why).ord = n
         /\ Sent(n, idx, why).idx = idx /\ Sent(n, idx, why).why = why
<1>1. "wait" \in Steps
  BY DEF Steps, Working
<1>2. At("wait") \in Thread /\ At("wait").pc = "wait"
  BY <1>1, AtFacts
<1> DEFINE Put(g) == [g EXCEPT !.ord = n, !.idx = idx, !.why = why]
<1>3. \A g \in Thread : /\ Put(g).pc = g.pc /\ Put(g).ord = n
                        /\ Put(g).idx = idx /\ Put(g).why = why
  BY DEF Thread
<1>4. Sent(n, idx, why) = Put(At("wait"))
  BY DEF Sent
<1> HIDE DEF Put
<1> QED
  BY <1>2, <1>3, <1>4

\* The order that is sent is booked under the session's index.
LEMMA CreateMirror ==
  ASSUME SInv, Mirror, NEW t \in Threads, NEW side, NEW amount, NEW idx \in Nat,
         CreateOrder(t, side, amount, idx), UNCHANGED sqlite, overlap => overlap',
         th[t].pc \in Loop \ {"push"},
         t = "main" => idx = sess
  PROVE  Mirror'
<1> DEFINE w == IF th[t].why = "none" THEN "entry" ELSE th[t].why
           h == Sent(Len(book) + 1, idx, w)
<1>1. CASE /\ th' = [th EXCEPT ![t] = h]
           /\ UNCHANGED <<alive, mem, stopping, sess, lost, faults>>
  <2>1. h.pc = "wait" /\ h.idx = idx
    BY SentFacts
  <2> HIDE DEF h
  <2>2. th'[t] = h /\ \A u \in Threads : u # t => th'[u] = th[u]
    BY <1>1 DEF SInv, Types, TypeOK
  <2>3. /\ "wait" \in Placed /\ "wait" \in Loop \ {"push"} /\ "dispose" \notin Loop
        /\ UNCHANGED <<sessions, rows>>
    BY DEF Placed, Closer, Loop, sqlite
  <2>4. CASE t = "main"
    <3>1. th'["main"] = h /\ th'["stop"] = th["stop"]
      BY <2>2, <2>4 DEF Threads
    <3> QED
      BY <1>1, <2>1, <2>3, <2>4, <3>1, MirrorStays
  <2>5. CASE t = "stop"
    <3>1. th'["main"] = th["main"]
      BY <2>2, <2>5 DEF Threads
    <3> QED
      BY <1>1, <2>3, <2>5, <3>1, LoopStays
  <2> QED
    BY <2>4, <2>5 DEF Threads
<1>2. CASE \E L : Throw(t, L)
  BY <1>2, ThrowMirror
<1> QED
  BY <1>1, <1>2 DEF CreateOrder, Sent

\* An order is sent.
LEMMA PlaceMirror ==
  ASSUME SInv, Mirror, OpenFirstPosition \/ WatchBuyBack \/ \E t \in Threads : SubmitClosingOrder(t)
  PROVE  Mirror'
<1>1. "main" \in Threads /\ sess \in Nat /\ {"enter", "watch", "submit"} \subseteq Loop \ {"push"}
  BY DEF Threads, SInv, Types, TypeOK, Loop, Closer
<1>2. CASE OpenFirstPosition \/ WatchBuyBack
  <2>1. /\ \E side : CreateOrder("main", side, Size, sess)
        /\ th["main"].pc \in {"enter", "watch"} /\ UNCHANGED sqlite /\ (overlap => overlap')
    BY <1>2 DEF OpenFirstPosition, WatchBuyBack, Overlaps
  <2> QED
    BY <1>1, <2>1, CreateMirror
<1>3. CASE \E t \in Threads : SubmitClosingOrder(t)
  <2>1. PICK t \in Threads : SubmitClosingOrder(t)
    BY <1>3
  <2>2. /\ \E side, amount : CreateOrder(t, side, amount, th[t].idx)
        /\ th[t].pc = "submit" /\ UNCHANGED <<sqlite, overlap>> /\ "submit" \in Closer
    BY <2>1 DEF SubmitClosingOrder, Closer
  <2>3. th[t] \in Thread /\ (t = "main" => th[t].idx = sess)
    BY <2>2, KeepsIndex
  <2>4. th[t].idx \in Nat
    BY <2>3 DEF Thread
  <2> QED
    BY <1>1, <2>2, <2>3, <2>4, CreateMirror
<1> QED
  BY <1>2, <1>3

-----------------------------------------------------------------------------
(* Steps that open and end a session.                                      *)

\* The loop arrives at a position that is none of a close's or an order's.
LEMMA ArriveMirror ==
  ASSUME th'["main"].pc \notin Closer \cup Placed, th'["main"].why # "track",
         alive' \/ mem' = <<>>,
         th'["main"].pc \in Open => sess' \in ActiveSessions',
         Settled' /\ th'["main"].pc \in Loop => Mirrored'
  PROVE  Mirror'
  BY DEF Mirror

\* Where the loop arrives when a session begins or ends.
LEMMA ArriveSteps ==
  /\ {"begin", "resume", "watch", "clear", "sleep", "done", "enter"} \cap (Closer \cup Placed) = {}
  /\ {"begin", "clear", "sleep", "done"} \cap Open = {}
  /\ {"begin", "clear", "sleep", "done", "resume"} \cap Loop = {}
  /\ "resume" \in Open /\ "ending" \in Open
  BY DEF Closer, Placed, Open, Loop

\* The stop request is where it was.
LEMMA SettledStays ==
  ASSUME lost' = lost, overlap => overlap', th'["stop"].pc = th["stop"].pc
  PROVE  Settled' => Settled
  BY DEF Settled, Undisturbed

\* initTradeSession.
LEMMA InitMirror ==
  ASSUME SInv, Mirror, InitTradeSession
  PROVE  Mirror'
<1> DEFINE m == Min(ActiveSessions)
<1>1. /\ th["main"].pc = "sleep" /\ alive
      /\ UNCHANGED <<rows, alive, lost>>
  BY DEF InitTradeSession, SInv, Control
<1>2. CASE th' = [th EXCEPT !["main"] = At("begin")]
  <2>1. th'["main"].pc = "begin" /\ th'["main"].why = "none"
    BY <1>2, ArriveFacts, SessionSteps DEF SInv
  <2> QED
    BY <1>1, <2>1, ArriveSteps, ArriveMirror
<1>3. CASE /\ ActiveSessions # {} /\ sess' = m /\ UNCHANGED sessions
           /\ th' = [th EXCEPT !["main"] = At("resume")]
  <2>1. /\ th'["main"].pc = "resume" /\ th'["main"].why = "none"
    BY <1>3, ArriveFacts, SessionSteps DEF SInv
  <2>2. ActiveSessions = {m}
    BY <1>3, MinActive DEF SInv
  <2>3. sess' \in ActiveSessions'
    BY <1>3, <2>2 DEF ActiveSessions
  <2> QED
    BY <1>1, <2>1, <2>3, ArriveSteps, ArriveMirror
<1> QED
  BY <1>2, <1>3 DEF InitTradeSession, CheckingIfClosingOrderHasBeenCreated

\* A session begins with an empty ledger and an empty list.
LEMMA StartSessionMirror ==
  ASSUME SInv, Mirror, EmptyBetween, StartSession
  PROVE  Mirror'
<1>1. /\ th["main"].pc = "begin" /\ alive
      /\ sessions' = Append(sessions, "active") /\ rows' = Append(rows, <<>>)
      /\ sess' = Len(sessions) + 1 /\ th' = [th EXCEPT !["main"] = At("enter")]
      /\ UNCHANGED <<alive, mem, lost, overlap>>
  BY DEF StartSession, SInv, Control
<1>2. "enter" \in Steps /\ "main" \in Threads
  BY DEF Steps, Threads
<1>3. At("enter") \in Thread /\ At("enter").pc = "enter" /\ At("enter").why = "none"
  BY <1>2, AtFacts
<1>4. th'["main"] = At("enter") /\ th'["stop"] = th["stop"]
  BY <1>1, <1>2, <1>3, ThreadMoves
<1>5. sess' \in ActiveSessions'
  <2>1. sessions \in Seq({"active", "ended"})
    BY DEF SInv, Types, TypeOK
  <2>2. Len(sessions) + 1 \in DOMAIN sessions' /\ sessions'[Len(sessions) + 1] = "active"
    BY <1>1, <2>1
  <2> QED
    BY <1>1, <2>2 DEF ActiveSessions
<1>6. Settled' => Mirrored'
  <2>1. Settled' => mem' = <<>>
    BY <1>1, <1>4, SettledStays DEF EmptyBetween, Settled
  <2>2. rows \in Seq(Seq(Row)) /\ Len(rows) = Len(sessions)
    BY DEF SInv, Types, TypeOK
  <2>3. RowsOf(sess)' = <<>>
    BY <1>1, <2>2 DEF RowsOf
  <2> QED
    BY <1>3, <1>4, <2>1, <2>3, EmptyIds DEF Mirrored, SInv
<1> QED
  BY <1>1, <1>3, <1>4, <1>5, <1>6, ArriveSteps, ArriveMirror

\* The list read back is the ledger, no order twice because the ledger has none twice.
LEMMA RestoreMirror ==
  ASSUME SInv, Mirror, CheckingExistingOrders
  PROVE  Mirror'
<1>1. /\ th["main"].pc = "resume" /\ alive
      /\ UNCHANGED <<sessions, rows, alive, sess, lost>>
      /\ mem' = Restored(sess) /\ th' = [Detached EXCEPT !["main"] = At("watch")]
  BY DEF CheckingExistingOrders, SInv, Control, sqlite
<1>2. th'["main"].pc = "watch" /\ th'["main"].why = "none"
  BY <1>1, ArriveFacts, SessionSteps DEF SInv
<1>3. sess \in ActiveSessions /\ sess \in DOMAIN rows
  BY <1>1, ArriveSteps DEF Mirror, SInv, Control
<1>4. /\ DOMAIN Restored(sess) = DOMAIN rows[sess]
      /\ \A i \in DOMAIN rows[sess] : Restored(sess)[i].id = rows[sess][i].id
  BY <1>3, RestoredFacts DEF SInv, Orders
<1>5. Ids(rows[sess]) = Ids(Restored(sess))
  BY <1>4 DEF Ids
<1>6. Distinct(Restored(sess))
  BY <1>3, <1>4 DEF Distinct, SInv, Orders, SavedIsFinal
<1>7. Mirrored'
  BY <1>1, <1>2, <1>5, <1>6 DEF Mirrored, RowsOf
<1>8. sess' \in ActiveSessions'
  BY <1>1, <1>3 DEF ActiveSessions
<1> QED
  BY <1>1, <1>2, <1>7, <1>8, ArriveSteps, ArriveMirror

\* The session is over, and then its list is.
LEMMA EndMirror ==
  ASSUME SInv, Mirror, EndTradeSession \/ ClearingOrderList
  PROVE  Mirror'
<1>1. CASE EndTradeSession
  <2> DEFINE h == [th["main"] EXCEPT !.pc = "clear"]
  <2>1. /\ th["main"].pc = "ending" /\ alive /\ UNCHANGED <<alive, mem>>
        /\ th' = [th EXCEPT !["main"] = h]
    BY <1>1 DEF EndTradeSession, SInv, Control
  <2>2. th["main"] \in Thread /\ "clear" \in Steps /\ "main" \in Threads
    BY DEF SInv, Types, TypeOK, Threads, Steps
  <2>3. h \in Thread /\ h.pc = "clear" /\ h.why = th["main"].why
    BY <2>2, PcFacts
  <2>4. th'["main"] = h
    BY <2>1, <2>2, <2>3, ThreadMoves
  <2>5. th["main"].why # "track"
    BY <2>1 DEF Mirror, Closer, Placed
  <2> HIDE DEF h
  <2> QED
    BY <2>1, <2>3, <2>4, <2>5, ArriveSteps, ArriveMirror
<1>2. CASE ClearingOrderList
  <2>1. mem' = <<>>
    BY <1>2 DEF ClearingOrderList
  <2>2. PICK p \in {"sleep", "done"} : th' = [Detached EXCEPT !["main"] = At(p)]
    BY <1>2 DEF ClearingOrderList
  <2>3. th'["main"].pc = p /\ th'["main"].why = "none"
    BY <2>2, ArriveFacts, SessionSteps DEF SInv
  <2> QED
    BY <2>1, <2>3, ArriveSteps, ArriveMirror
<1> QED
  BY <1>1, <1>2

-----------------------------------------------------------------------------
(* Steps that write the ledger and the list.                               *)

\* One order more on a list.
LEMMA AppendedIds ==
  ASSUME NEW S, NEW q \in Seq(S), NEW x \in S
  PROVE  /\ Ids(Append(q, x)) = Ids(q) \cup {x.id}
         /\ Distinct(q) /\ x.id \notin Ids(q) => Distinct(Append(q, x))
<1>1. /\ DOMAIN Append(q, x) = DOMAIN q \cup {Len(q) + 1}
      /\ \A i \in DOMAIN q : Append(q, x)[i] = q[i]
      /\ Append(q, x)[Len(q) + 1] = x
  BY AppendFacts
<1> DEFINE a == Append(q, x)
           n == Len(q) + 1
<1>2. DOMAIN a = DOMAIN q \cup {n} /\ (\A i \in DOMAIN q : a[i] = q[i]) /\ a[n] = x
  BY <1>1
<1> HIDE DEF a, n
<1>3. Ids(a) = Ids(q) \cup {x.id}
  BY <1>2 DEF Ids
<1>4. Distinct(q) /\ x.id \notin Ids(q) => Distinct(a)
  BY <1>2 DEF Ids, Distinct
<1> QED
  BY <1>3, <1>4 DEF a

\* The loop has saved an order and not listed it yet: the ledger is one order ahead of
\* the list.  Once an order is hidden, or the stop request has an order to list, nothing
\* is promised any more.
LEMMA SaveMirror ==
  ASSUME SInv, Mirror, NEW t \in Threads, SaveActivatedOrder(t)
  PROVE  Mirror'
<1> DEFINE h == [th[t] EXCEPT !.pc = "push"]
           o == th[t].ord
<1>1. /\ th[t].pc = "save" /\ th' = [th EXCEPT ![t].pc = "push"]
      /\ UNCHANGED <<book, sessions, alive, mem, sess, overlap>>
  BY DEF SaveActivatedOrder
<1>2. /\ th[t] \in Thread /\ th \in [Threads -> Thread] /\ "push" \in Steps
      /\ "save" \in Placed /\ "push" \in Placed /\ "save" \in Loop /\ "push" \in Loop
  BY DEF SInv, Types, TypeOK, Steps, Working, Placed, Loop
<1>3. h \in Thread /\ h.pc = "push" /\ h.why = th[t].why /\ h.ord = o /\ h.idx = th[t].idx
  BY <1>2, PcFacts
<1>4. th' = [th EXCEPT ![t] = h]
  BY <1>1, <1>2
<1> HIDE DEF h
<1>5. ActiveSessions' = ActiveSessions
  BY <1>1 DEF ActiveSessions
<1>6. CASE t = "stop"
  <2>1. th'["stop"].pc = "push" /\ th'["main"] = th["main"]
    BY <1>3, <1>4, <1>6, ThreadMoves
  <2>2. ~Settled'
    BY <2>1 DEF Settled
  <2> QED
    BY <1>1, <1>5, <2>1, <2>2 DEF Mirror
<1>7. CASE t = "main"
  <2>1. th'["main"] = h /\ th'["stop"] = th["stop"]
    BY <1>3, <1>4, <1>7, ThreadMoves
  <2>2. th["main"].pc \in Open /\ sess \in ActiveSessions /\ th[t].idx = sess
    BY <1>1, <1>2, <1>7 DEF Mirror, Open
  <2>3. h.pc \notin {"sleep", "begin"}
    BY <1>3
  <2>4. Settled' => Mirrored'
    <3>1. CASE lost' = lost \cup {o}
      BY <3>1 DEF Settled, Undisturbed
    <3>2. CASE /\ th[t].idx # 0 /\ lost' = lost
               /\ rows' = [rows EXCEPT ![th[t].idx] = Append(@, CreateOrderRow(o))]
      <4> SUFFICES ASSUME Settled'
                   PROVE  Mirrored'
        OBVIOUS
      <4>1. Mirrored
        BY <1>1, <1>2, <1>7, <2>1, <3>2, SettledStays DEF Mirror
      <4>2. Ids(rows[sess]) = Ids(mem) /\ Distinct(mem)
        BY <1>1, <1>7, <4>1 DEF Mirrored, RowsOf
      <4>3. sess \in DOMAIN rows
        BY <2>2 DEF SInv, Types, TypeOK, ActiveSessions
      <4>4. o \notin Ids(rows[sess])
        <5>1. ~IsSaved(o)
          BY <1>1 DEF SInv, Orders, Responsible, Pending
        <5> QED
          BY <4>3, <5>1, SavedMeans DEF Ids
      <4>5. rows[sess] \in Seq(Row) /\ CreateOrderRow(o) \in Row /\ CreateOrderRow(o).id = o
        <5>1. o \in DOMAIN book
          BY <1>1 DEF SInv, Orders, Responsible, Placed
        <5>2. book[o] \in Order /\ o \in Nat \ {0}
          BY <5>1 DEF SInv, Types, TypeOK
        <5>3. book[o].side \in {"buy", "sell"} /\ book[o].filled \in Nat
          BY <5>2 DEF Order
        <5>4. rows[sess] \in Seq(Row)
          BY <4>3 DEF SInv, Types, TypeOK
        <5> QED
          BY <5>2, <5>3, <5>4 DEF CreateOrderRow, Row
      <4>6. rows'[sess] = Append(rows[sess], CreateOrderRow(o))
        BY <2>2, <3>2, <4>3
      <4>7. Ids(rows'[sess]) = Ids(mem) \cup {o}
        BY <4>2, <4>5, <4>6, AppendedIds
      <4> QED
        BY <1>1, <1>3, <2>1, <4>2, <4>4, <4>7 DEF Mirrored, RowsOf
    <3> QED
      BY <3>1, <3>2 DEF SaveActivatedOrder
  <2> QED
    BY <1>1, <1>2, <1>3, <1>5, <1>7, <2>1, <2>2, <2>3, <2>4 DEF Mirror
<1> QED
  BY <1>6, <1>7 DEF Threads

\* When the process is down no stop request is in progress.
Down == ~alive => ~stopping

\* The loop lists the order it has saved: list and ledger agree again.
LEMMA PushMirror ==
  ASSUME SInv, Mirror, Down, NEW t \in Threads, PushOrder(t)
  PROVE  Mirror'
<1> DEFINE m == [id |-> th[t].ord, restored |-> FALSE]
           u == Other(t)
           R == Resumed(t, TRUE)
           q == IF th[u].pc = "fetch" /\ th[u].live THEN Append(th[u].rest, m) ELSE th[u].rest
           g == [th[u] EXCEPT !.rest = q]
<1>1. /\ th[t].pc = "push" /\ mem' = Append(mem, m)
      /\ th' = [th EXCEPT ![t] = R,
                          ![u].rest = IF th[u].pc = "fetch" /\ th[u].live THEN Append(@, m) ELSE @]
      /\ UNCHANGED <<sessions, rows, alive, sess, lost, overlap>>
  BY DEF PushOrder, sqlite
<1>2. /\ u \in Threads /\ u # t
      /\ th \in [Threads -> Thread] /\ th[t] \in Thread /\ th[u] \in Thread /\ mem \in Seq(Held)
  BY TwoThreads DEF SInv, Types, TypeOK
<1>3. alive
  BY <1>1 DEF Down, SInv, Control, Threads
<1>4. m \in Held /\ m.id = th[t].ord
  <2>1. th[t].ord \in DOMAIN book
    BY <1>1 DEF SInv, Orders, Responsible, Placed
  <2>2. th[t].ord \in Nat \ {0}
    BY <2>1 DEF SInv, Types, TypeOK
  <2> QED
    BY <2>2 DEF Held
<1>5. PICK p \in {"dispose", "watch", "end", "done", "sleep"} :
         /\ R = At(p)
         /\ t = "stop" => p = "dispose"
         /\ t = "main" => p \in {"watch", "end"}
  BY ResumedFacts
<1>6. p \in Steps
  BY <1>5 DEF Steps
<1>7. R.pc = p /\ R.why = "none"
  BY <1>5, <1>6, AtFacts
<1> HIDE DEF m, R
<1>8. g.pc = th[u].pc /\ g.why = th[u].why /\ g.ord = th[u].ord /\ g.idx = th[u].idx
  <2>1. \A x \in Thread : \A r :
           /\ [x EXCEPT !.rest = r].pc = x.pc /\ [x EXCEPT !.rest = r].why = x.why
           /\ [x EXCEPT !.rest = r].ord = x.ord /\ [x EXCEPT !.rest = r].idx = x.idx
    BY DEF Thread
  <2> HIDE DEF q, u
  <2> QED
    BY <1>2, <2>1
<1>9. th'[t] = R /\ th'[u] = g
  <2>1. th' = [th EXCEPT ![t] = R, ![u] = g]
    BY <1>1, <1>2
  <2> HIDE DEF g, u
  <2> QED
    BY <1>2, <2>1
<1>10. t = "main" => u = "stop"
  BY DEF Other
<1>11. t = "stop" => u = "main"
  BY DEF Other
<1> HIDE DEF g, u
<1>12. ActiveSessions' = ActiveSessions /\ RowsOf(sess)' = RowsOf(sess)
  BY <1>1 DEF ActiveSessions, RowsOf
<1>13. CASE t = "stop"
  <2>1. th'["stop"].pc = "dispose"
    BY <1>5, <1>7, <1>9, <1>13
  <2>2. ~Settled'
    BY <2>1 DEF Settled
  <2>3. /\ th'["main"].pc = th["main"].pc /\ th'["main"].why = th["main"].why
        /\ th'["main"].idx = th["main"].idx
    BY <1>8, <1>9, <1>11, <1>13
  <2> QED
    BY <1>1, <1>3, <1>12, <2>2, <2>3 DEF Mirror
<1>14. CASE t = "main"
  <2>1. /\ th'["main"].pc \in {"watch", "end"} /\ th'["main"].why = "none"
        /\ th'["stop"].pc = th["stop"].pc
    BY <1>5, <1>7, <1>8, <1>9, <1>10, <1>14
  <2>2. "push" \in Placed /\ "push" \in Loop /\ "push" \in Open
    BY DEF Placed, Loop, Open
  <2>3. sess \in ActiveSessions
    BY <1>1, <1>14, <2>2 DEF Mirror
  <2>4. Settled' => Mirrored'
    <3> SUFFICES ASSUME Settled'
                 PROVE  Mirrored'
      OBVIOUS
    <3>1. Mirrored
      BY <1>1, <1>14, <2>1, <2>2, SettledStays DEF Mirror
    <3>2. /\ Ids(RowsOf(sess)) = Ids(mem) \cup {m.id} /\ m.id \notin Ids(mem) /\ Distinct(mem)
      BY <1>1, <1>4, <1>14, <3>1 DEF Mirrored
    <3>3. Ids(mem') = Ids(mem) \cup {m.id} /\ Distinct(mem')
      BY <1>1, <1>2, <1>4, <3>2, AppendedIds
    <3>4. Ids(mem)' = Ids(mem') /\ Distinct(mem)' <=> Distinct(mem')
      BY DEF Ids, Distinct
    <3>5. Ids(RowsOf(sess))' = Ids(RowsOf(sess))
      BY <1>12 DEF Ids
    <3> QED
      BY <2>1, <3>2, <3>3, <3>4, <3>5 DEF Mirrored
  <2>5. {"watch", "end"} \cap (Closer \cup Placed) = {}
    BY DEF Closer, Placed
  <2> QED
    BY <1>1, <1>3, <1>12, <2>1, <2>3, <2>4, <2>5, ArriveMirror
<1> QED
  BY <1>13, <1>14 DEF Threads

-----------------------------------------------------------------------------
(* The specification.                                                      *)

\* Without a process no stop request is left.
LEMMA DownStep ==
  ASSUME Down, [Next]_vars
  PROVE  Down'
<1>1. CASE UNCHANGED vars
  BY <1>1 DEF vars, Down
<1>2. ASSUME NEW t, NEW L, Throw(t, L)
      PROVE  Down'
  BY <1>2 DEF Throw, Exit, Down
<1>3. CASE Start \/ Kill \/ StopWorker \/ Dispose
  BY <1>3 DEF Start, Kill, StopWorker, Dispose, Exit, Down
<1>4. CASE SessionReadFails \/ EntryReadFails \/ WatchReadFails \/ TrackerReadFails
  BY <1>2, <1>4 DEF SessionReadFails, EntryReadFails, WatchReadFails, TrackerReadFails, Down
<1>5. ASSUME NEW t, NEW side, NEW amount, NEW idx, CreateOrder(t, side, amount, idx)
      PROVE  Down'
  <2>1. UNCHANGED <<alive, stopping>> \/ \E L : Throw(t, L)
    BY <1>5 DEF CreateOrder
  <2> QED
    BY <1>2, <2>1 DEF Down
<1>6. CASE MainStep
  <2>1. \/ UNCHANGED <<alive, stopping>>
        \/ OpenFirstPosition \/ WatchBuyBack \/ Throw("main", {})
    BY <1>6 DEF MainStep, InitTradeSession, StartSession, CheckingExistingOrders, EndTradeSession,
       ClearingOrderList, CalculateProfitSession, WatchStopLoss, WatchTakeProfit, OnPriceTracker
  <2>2. CASE OpenFirstPosition \/ WatchBuyBack
    BY <1>5, <2>2 DEF OpenFirstPosition, WatchBuyBack
  <2> QED
    BY <1>2, <2>1, <2>2 DEF Down
<1>7. CASE \E t \in Threads : OrderStep(t) \/ ExecutionFails(t) \/ CancelAllFails(t)
  <2>1. PICK t \in Threads : OrderStep(t) \/ ExecutionFails(t) \/ CancelAllFails(t)
    BY <1>7
  <2>2. \/ UNCHANGED <<alive, stopping>>
        \/ SubmitClosingOrder(t) \/ \E L : Throw(t, L)
    BY <2>1 DEF OrderStep, PollSettles, PollTimesOut, RecheckAfterCancel, SaveActivatedOrder, PushOrder,
       CancelAllOrders, FetchStatus, CalculateClosingOrderExposure, ExecutionFails, CancelAllFails
  <2>3. CASE SubmitClosingOrder(t)
    BY <1>5, <2>3 DEF SubmitClosingOrder
  <2> QED
    BY <1>2, <2>2, <2>3 DEF Down
<1>8. CASE \E o \in DOMAIN book : Drop(o) \/ \E q \in 1..book[o].amount : Fill(o, q)
  <2>1. UNCHANGED <<alive, stopping>>
    BY <1>8 DEF Drop, Fill
  <2> QED
    BY <2>1 DEF Down
<1> QED
  BY <1>1, <1>3, <1>4, <1>6, <1>7, <1>8 DEF Next

\* The invariant at first, and after every step.
LEMMA MirrorInit ==
  ASSUME Init
  PROVE  Mirror /\ Down
<1>1. "idle" \in Steps
  BY DEF Steps
<1>2. At("idle") = Idle
  BY DEF At, Idle
<1>3. Idle.pc = "idle" /\ Idle.why = "none"
  BY <1>1, <1>2, AtFacts
<1>4. th["main"] = Idle /\ mem = <<>> /\ ~stopping
  BY DEF Init, Threads
<1>5. "idle" \notin Open \cup Loop \cup Closer \cup Placed
  BY DEF Open, Loop, Closer, Placed
<1> QED
  BY <1>3, <1>4, <1>5 DEF Mirror, Down

\* After every step.
LEMMA MirrorStep ==
  ASSUME SInv, Mirror, Down, EmptyBetween, [Next]_vars
  PROVE  Mirror'
<1>1. CASE UNCHANGED vars
  BY <1>1, LoopStays DEF vars
<1>2. CASE Start \/ Kill \/ StopWorker \/ Dispose
  BY <1>2, StartMirror, FailsMirror, RequestMirror
<1>3. CASE SessionReadFails \/ EntryReadFails \/ WatchReadFails \/ TrackerReadFails
  BY <1>3, FailsMirror, WatchMirror
<1>4. CASE MainStep
  BY <1>4, InitMirror, StartSessionMirror, RestoreMirror, PlaceMirror, ProfitMirror, EndMirror,
     WatchMirror DEF MainStep
<1>5. CASE \E t \in Threads : OrderStep(t) \/ ExecutionFails(t) \/ CancelAllFails(t)
  <2>1. PICK t \in Threads : OrderStep(t) \/ ExecutionFails(t) \/ CancelAllFails(t)
    BY <1>5
  <2> QED
    BY <2>1, PollMirror, SaveMirror, PushMirror, CancelMirror, FetchMirror, ExposureMirror,
       PlaceMirror, FailsMirror DEF OrderStep
<1>6. CASE \E o \in DOMAIN book : Drop(o) \/ \E q \in 1..book[o].amount : Fill(o, q)
  BY <1>6, RequestMirror
<1> QED
  BY <1>1, <1>2, <1>3, <1>4, <1>5, <1>6 DEF Next

-----------------------------------------------------------------------------
(***************************************************************************)
(* Exposure: what the exchange holds for a session.                        *)
(***************************************************************************)
\* What each order of book b counts for session s, and their sum.
ShareOf(o, s) == IF o.sess = s THEN Signed(o.side, o.filled) ELSE 0
SharesIn(b, s) == [o \in DOMAIN b |-> ShareOf(b[o], s)]
NetIn(b, s) ==
    FoldSeq(LAMBDA o, n : n + (IF o.sess = s THEN Signed(o.side, o.filled) ELSE 0), 0, b)
Amounts(q) == [i \in DOMAIN q |-> Signed(q[i].side, q[i].amount)]

\* A fold over a sequence takes any element of what is left.
AnyOf(S) == CHOOSE x \in S : TRUE
AnyFirst(q) == [S \in SUBSET DOMAIN q |-> AnyOf(S)]

\* Shares are integers.
LEMMA ShareTypes ==
  ASSUME NEW b \in Seq(Order), NEW s
  PROVE  DOMAIN SharesIn(b, s) = DOMAIN b /\ Weights(SharesIn(b, s))
<1>1. \A o \in DOMAIN b : b[o] \in Order
  OBVIOUS
<1>2. \A o \in DOMAIN b : b[o].filled \in Nat /\ Signed(b[o].side, b[o].filled) \in Int
  BY <1>1 DEF Order, Signed
<1>3. IsFiniteSet(DOMAIN b)
  BY FS_Interval
<1> QED
  BY <1>2, <1>3 DEF SharesIn, ShareOf, Weights

\* The fold over the book is the sum of the shares.
LEMMA NetInIsTotal ==
  ASSUME NEW b \in Seq(Order), NEW s
  PROVE  NetIn(b, s) = Total(SharesIn(b, s))
<1> DEFINE w == SharesIn(b, s)
           F(g) == [S \in SUBSET DOMAIN b |->
                      IF S = {} THEN 0
                      ELSE g[S \ {AnyOf(S)}] + ShareOf(b[AnyOf(S)], s)]
           pick == AnyFirst(b)
           H(g) == [S \in SUBSET DOMAIN w |->
                      IF S = {} THEN 0 ELSE g[S \ {pick[S]}] + w[pick[S]]]
<1>1. DOMAIN w = DOMAIN b /\ Weights(w)
  BY ShareTypes
<1>2. \A S \in SUBSET DOMAIN b : S # {} => pick[S] = AnyOf(S) /\ AnyOf(S) \in S
  BY DEF AnyFirst, AnyOf
<1> HIDE DEF pick
<1>3. \A g : F(g) = H(g)
  BY <1>1, <1>2 DEF SharesIn
<1> HIDE DEF w
<1>4. SumOf(w) = H(SumOf(w)) /\ \A g : g = H(g) => g[DOMAIN w] = Total(w)
  <2>1. \A S \in SUBSET DOMAIN w : S # {} => pick[S] \in S
    BY <1>1, <1>2
  <2> QED
    BY <1>1, <2>1, RecursiveSum
<1> HIDE DEF H
<1>5. \E g : g = F(g)
  <2> HIDE DEF F
  <2> QED
    BY <1>3, <1>4
<1>6. \A g : g = F(g) => g[DOMAIN b] = Total(w)
  <2> HIDE DEF F
  <2> QED
    BY <1>1, <1>3, <1>4
<1>7. NetIn(b, s) = Total(w)
  BY <1>5, <1>6 DEF AnyOf, NetIn, ShareOf, FoldSeq, FoldFunction, FoldFunctionOnSet, MapThenFoldSet
<1> QED
  BY <1>7 DEF w

\* A session's net is that fold, now and after a step.
LEMMA NetIsNetIn ==
  ASSUME NEW s
  PROVE  SessionNet(s) = NetIn(book, s) /\ SessionNet(s)' = NetIn(book', s)
<1>1. SessionNet(s) = NetIn(book, s)
  BY DEF SessionNet, NetIn, FoldSeq, FoldFunction, FoldFunctionOnSet, MapThenFoldSet
<1>2. SessionNet(s)' = NetIn(book', s)
  BY DEF SessionNet, NetIn, FoldSeq, FoldFunction, FoldFunctionOnSet, MapThenFoldSet
<1> QED
  BY <1>1, <1>2

\* The fold over the rows of a session.
LEMMA NetOfIsTotal ==
  ASSUME NEW q \in Seq(Row)
  PROVE  Weights(Amounts(q)) /\ DOMAIN Amounts(q) = DOMAIN q /\ NetOf(q) = Total(Amounts(q))
<1> DEFINE w == Amounts(q)
           F(g) == [S \in SUBSET DOMAIN q |->
                      IF S = {} THEN 0
                      ELSE g[S \ {AnyOf(S)}]
                           + Signed(q[AnyOf(S)].side, q[AnyOf(S)].amount)]
           pick == AnyFirst(q)
           H(g) == [S \in SUBSET DOMAIN w |->
                      IF S = {} THEN 0 ELSE g[S \ {pick[S]}] + w[pick[S]]]
<1>1. DOMAIN w = DOMAIN q /\ Weights(w)
  <2>1. \A i \in DOMAIN q : q[i] \in Row
    OBVIOUS
  <2>2. \A i \in DOMAIN q : Signed(q[i].side, q[i].amount) \in Int
    BY <2>1 DEF Row, Signed
  <2>3. IsFiniteSet(DOMAIN q)
    BY FS_Interval
  <2> QED
    BY <2>2, <2>3 DEF Amounts, Weights
<1>2. \A S \in SUBSET DOMAIN q : S # {} => pick[S] = AnyOf(S) /\ AnyOf(S) \in S
  BY DEF AnyFirst, AnyOf
<1> HIDE DEF pick
<1>3. \A g : F(g) = H(g)
  BY <1>1, <1>2 DEF Amounts
<1> HIDE DEF w
<1>4. SumOf(w) = H(SumOf(w)) /\ \A g : g = H(g) => g[DOMAIN w] = Total(w)
  <2>1. \A S \in SUBSET DOMAIN w : S # {} => pick[S] \in S
    BY <1>1, <1>2
  <2> QED
    BY <1>1, <2>1, RecursiveSum
<1> HIDE DEF H
<1>5. \E g : g = F(g)
  <2> HIDE DEF F
  <2> QED
    BY <1>3, <1>4
<1>6. \A g : g = F(g) => g[DOMAIN q] = Total(w)
  <2> HIDE DEF F
  <2> QED
    BY <1>1, <1>3, <1>4
<1>7. NetOf(q) = Total(w)
  BY <1>5, <1>6 DEF AnyOf, NetOf, FoldSeq, FoldFunction, FoldFunctionOnSet, MapThenFoldSet
<1> QED
  BY <1>1, <1>7 DEF w

\* The net is an integer, and zero when the book has no order of the session.
LEMMA NetTypes ==
  ASSUME NEW b \in Seq(Order), NEW s
  PROVE  /\ NetIn(b, s) \in Int
         /\ (\A o \in DOMAIN b : b[o].sess # s) => NetIn(b, s) = 0
<1> DEFINE w == SharesIn(b, s)
<1>1. DOMAIN w = DOMAIN b /\ Weights(w) /\ NetIn(b, s) = Total(w)
  BY ShareTypes, NetInIsTotal
<1>2. (\A o \in DOMAIN b : b[o].sess # s) => \A o \in DOMAIN w : w[o] = 0
  BY <1>1 DEF SharesIn, ShareOf
<1> HIDE DEF w
<1>3. SumOf(w)[{}] = 0 /\ Total(w) \in Int
  BY <1>1, SumFacts
<1>4. (\A o \in DOMAIN w : w[o] = 0) => SumOf(w)[DOMAIN w] = SumOf(w)[{}]
  BY <1>1, SumSupport
<1> QED
  BY <1>1, <1>2, <1>3, <1>4 DEF Total

\* It depends on the sides, the executed amounts and the sessions only.
LEMMA NetSame ==
  ASSUME NEW b, NEW c, DOMAIN c = DOMAIN b,
         \A o \in DOMAIN b : c[o].sess = b[o].sess /\ c[o].side = b[o].side /\ c[o].filled = b[o].filled,
         b \in Seq(Order), c \in Seq(Order), NEW s
  PROVE  NetIn(c, s) = NetIn(b, s)
<1>1. SharesIn(c, s) = SharesIn(b, s)
  BY DEF SharesIn, ShareOf
<1> QED
  BY <1>1, NetInIsTotal

\* An order that has just been accepted adds nothing.
LEMMA NetAccepted ==
  ASSUME NEW b \in Seq(Order), NEW x \in Order, x.filled = 0, NEW s
  PROVE  NetIn(Append(b, x), s) = NetIn(b, s)
<1> DEFINE c == Append(b, x)
           n == Len(b) + 1
           v == SharesIn(c, s)
           w == SharesIn(b, s)
<1>1. /\ c \in Seq(Order) /\ DOMAIN c = DOMAIN b \cup {n} /\ n \notin DOMAIN b
      /\ \A o \in DOMAIN b : c[o] = b[o]
      /\ c[n] = x
  BY AppendFacts
<1> HIDE DEF c, n
<1>2. DOMAIN v = DOMAIN c /\ Weights(v) /\ NetIn(c, s) = Total(v)
  BY <1>1, ShareTypes, NetInIsTotal
<1>3. DOMAIN w = DOMAIN b /\ Weights(w) /\ NetIn(b, s) = Total(w)
  BY ShareTypes, NetInIsTotal
<1>4. v[n] = 0 /\ \A o \in DOMAIN b : v[o] = w[o]
  BY <1>1 DEF SharesIn, ShareOf, Signed
<1> HIDE DEF v, w
<1>5. Total(v) = Total(w) + v[n] /\ Total(w) \in Int
  BY <1>1, <1>2, <1>3, <1>4, SumAdd
<1> QED
  BY <1>2, <1>3, <1>4, <1>5 DEF c

\* An order that executes moves its session's net, and no other.
LEMMA NetFilled ==
  ASSUME NEW b \in Seq(Order), NEW c \in Seq(Order), NEW k \in DOMAIN b, NEW q \in Nat,
         DOMAIN c = DOMAIN b, \A o \in DOMAIN b : o # k => c[o] = b[o],
         c[k].sess = b[k].sess, c[k].side = b[k].side, c[k].filled = b[k].filled + q, NEW s
  PROVE  NetIn(c, s) = NetIn(b, s) + (IF s = b[k].sess THEN Signed(b[k].side, q) ELSE 0)
<1>0. b[k] \in Order
  OBVIOUS
<1> DEFINE v == SharesIn(c, s)
           w == SharesIn(b, s)
<1>1. DOMAIN v = DOMAIN b /\ Weights(v) /\ NetIn(c, s) = Total(v)
  BY ShareTypes, NetInIsTotal
<1>2. DOMAIN w = DOMAIN b /\ Weights(w) /\ NetIn(b, s) = Total(w)
  BY ShareTypes, NetInIsTotal
<1>3. \A o \in DOMAIN b : o # k => v[o] = w[o]
  BY DEF SharesIn
<1>4. v[k] = ShareOf(c[k], s) /\ w[k] = ShareOf(b[k], s)
  BY DEF SharesIn
<1>5. v[k] - w[k] = (IF s = b[k].sess THEN Signed(b[k].side, q) ELSE 0)
  <2>1. b[k].filled \in Nat
    BY <1>0 DEF Order
  <2> QED
    BY <1>4, <2>1 DEF ShareOf, Signed
<1> HIDE DEF v, w
<1>6. Total(v) = Total(w) + (v[k] - w[k])
  BY <1>1, <1>2, <1>3, SumChange
<1> QED
  BY <1>1, <1>2, <1>5, <1>6

\* What the orders on a list have executed, in all.
SharesOf(b, q) == [i \in DOMAIN q |-> Signed(b[q[i].id].side, b[q[i].id].filled)]
Carried(b, q) == Total(SharesOf(b, q))

\* Each entry of a list counts an integer, and so do all of them.
LEMMA CarriedTypes ==
  ASSUME NEW b \in Seq(Order), NEW S, NEW q \in Seq(S), \A i \in DOMAIN q : q[i].id \in DOMAIN b
  PROVE  /\ DOMAIN SharesOf(b, q) = DOMAIN q /\ Weights(SharesOf(b, q))
         /\ Carried(b, q) \in Int
<1>1. \A o \in DOMAIN b : b[o] \in Order
  OBVIOUS
<1>2. \A i \in DOMAIN q : Signed(b[q[i].id].side, b[q[i].id].filled) \in Int
  BY <1>1 DEF Order, Signed
<1>3. IsFiniteSet(DOMAIN q)
  BY FS_Interval
<1>4. DOMAIN SharesOf(b, q) = DOMAIN q /\ Weights(SharesOf(b, q))
  BY <1>2, <1>3 DEF SharesOf, Weights
<1> QED
  BY <1>4, SumFacts DEF Carried

\* It depends on the sides and the executed amounts only.
LEMMA CarriedSame ==
  ASSUME NEW b, NEW c, NEW q,
         \A i \in DOMAIN q : c[q[i].id].side = b[q[i].id].side /\ c[q[i].id].filled = b[q[i].id].filled
  PROVE  Carried(c, q) = Carried(b, q)
BY DEF Carried, SharesOf

\* The first entry of a list counts once.
LEMMA CarriedHead ==
  ASSUME NEW b \in Seq(Order), NEW S, NEW q \in Seq(S), \A i \in DOMAIN q : q[i].id \in DOMAIN b, q # <<>>
  PROVE  /\ Head(q).id \in DOMAIN b
         /\ Carried(b, q) = Signed(b[Head(q).id].side, b[Head(q).id].filled) + Carried(b, Tail(q))
         /\ Carried(b, Tail(q)) \in Int
         /\ Len(q) = 1 => Carried(b, Tail(q)) = 0
<1> DEFINE n == Len(q)
           r == Tail(q)
           w == SharesOf(b, q)
           v == SharesOf(b, r)
           f == [i \in 1..(n - 1) |-> i + 1]
<1>1. /\ n \in Nat \ {0} /\ DOMAIN q = 1..n /\ 1 \in DOMAIN q /\ Head(q) = q[1]
      /\ r \in Seq(S) /\ DOMAIN r = 1..(n - 1)
      /\ \A i \in 1..(n - 1) : i + 1 \in DOMAIN q /\ r[i] = q[i + 1]
  OBVIOUS
<1> HIDE DEF n, r
<1>2. DOMAIN w = DOMAIN q /\ Weights(w)
  BY CarriedTypes
<1>3. DOMAIN v = DOMAIN r /\ Weights(v) /\ Carried(b, r) \in Int
  BY <1>1, CarriedTypes
<1>4. w[1] = Signed(b[q[1].id].side, b[q[1].id].filled) /\ \A i \in DOMAIN v : v[i] = w[f[i]]
  BY <1>1, <1>2, <1>3 DEF SharesOf
<1> HIDE DEF w, v
<1>5. Total(v) = SumOf(w)[DOMAIN w \ {1}]
  <2> DEFINE T == DOMAIN w \ {1}
  <2>1. \A i \in DOMAIN v : f[i] \in T /\ v[i] = w[f[i]]
    BY <1>1, <1>2, <1>3, <1>4
  <2>2. \A x \in T : \E i \in DOMAIN v : f[i] = x
    <3>1. \A x \in T : x - 1 \in DOMAIN v /\ f[x - 1] = x
      BY <1>1, <1>2, <1>3
    <3> QED
      BY <3>1
  <2>3. \A i, j \in DOMAIN v : f[i] = f[j] => i = j
    BY <1>1, <1>3
  <2>4. Weights(v) /\ Weights(w) /\ T \in SUBSET DOMAIN w
    BY <1>2, <1>3
  <2> HIDE DEF f, T
  <2>5. Names(f, v, w, T)
    BY <2>1, <2>2, <2>3 DEF Names
  <2>6. Total(v) = SumOf(w)[T]
    BY <2>4, <2>5, SumRename
  <2> QED
    BY <2>6 DEF T
<1> HIDE DEF f
<1>7. SumOf(w)[DOMAIN w] = SumOf(w)[DOMAIN w \ {1}] + w[1] /\ w[1] \in Int
  <2>1. DOMAIN w \in SUBSET DOMAIN w /\ 1 \in DOMAIN w /\ Weights(w)
    BY <1>1, <1>2
  <2> QED
    BY <2>1, SumFacts
<1>8. n = 1 => Total(v) = 0
  <2>1. n = 1 => DOMAIN v = {}
    BY <1>1, <1>3
  <2> QED
    BY <1>3, <2>1, SumFacts DEF Total
<1>9. Carried(b, q) = SumOf(w)[DOMAIN w] /\ Carried(b, r) = Total(v)
  BY DEF Carried, Total, w, v
<1>10. /\ Carried(b, q) = w[1] + Carried(b, r) /\ (n = 1 => Carried(b, r) = 0)
  BY <1>3, <1>5, <1>7, <1>8, <1>9 DEF Total
<1> QED
  BY <1>1, <1>3, <1>4, <1>10 DEF n, r

\* A list that has every executed order of a session, each once, and nothing else, adds
\* up to the session's net.
LEMMA ListIsNet ==
  ASSUME NEW b \in Seq(Order), NEW S, NEW q \in Seq(S), NEW s,
         \A i \in DOMAIN q : q[i].id \in DOMAIN b /\ b[q[i].id].sess = s,
         Distinct(q),
         \A o \in DOMAIN b : b[o].sess = s /\ b[o].filled > 0 => o \in Ids(q)
  PROVE  Carried(b, q) = NetIn(b, s)
<1>0. \A o \in DOMAIN b : b[o] \in Order
  OBVIOUS
<1> DEFINE v == SharesOf(b, q)
           w == SharesIn(b, s)
           f == [i \in DOMAIN q |-> q[i].id]
           T == Ids(q)
<1>1. DOMAIN v = DOMAIN q /\ Weights(v)
  BY CarriedTypes
<1>2. DOMAIN w = DOMAIN b /\ Weights(w) /\ NetIn(b, s) = Total(w)
  BY ShareTypes, NetInIsTotal
<1>3. \A i \in DOMAIN v : v[i] = w[f[i]]
  BY <1>1, <1>2 DEF SharesOf, SharesIn, ShareOf
<1>4. /\ T \in SUBSET DOMAIN w
      /\ \A i \in DOMAIN v : f[i] \in T
      /\ \A x \in T : \E i \in DOMAIN v : f[i] = x
  BY <1>1, <1>2 DEF Ids
<1>5. \A i, j \in DOMAIN v : f[i] = f[j] => i = j
  BY <1>1 DEF Distinct
<1>6. \A o \in DOMAIN w \ T : w[o] = 0
  <2>2. \A o \in DOMAIN b : b[o].filled \in Nat
    BY <1>0 DEF Order
  <2>3. \A o \in DOMAIN w \ T : ShareOf(b[o], s) = 0
    BY <1>2, <2>2 DEF ShareOf, Signed
  <2> QED
    BY <1>2, <2>3 DEF SharesIn
<1> HIDE DEF v, w, f, T
<1>7. Total(v) = SumOf(w)[T]
  <2>1. Weights(v) /\ Weights(w) /\ T \in SUBSET DOMAIN w
    BY <1>1, <1>2, <1>4
  <2>2. \A i \in DOMAIN v : f[i] \in T /\ v[i] = w[f[i]]
    BY <1>3, <1>4
  <2>3. \A x \in T : \E i \in DOMAIN v : f[i] = x
    BY <1>4
  <2>4. Names(f, v, w, T)
    BY <1>5, <2>2, <2>3 DEF Names
  <2> QED
    BY <2>1, <2>4, SumRename
<1>8. SumOf(w)[DOMAIN w] = SumOf(w)[T]
  BY <1>2, <1>4, <1>6, SumSupport
<1> QED
  BY <1>2, <1>7, <1>8 DEF Carried, Total, v

-----------------------------------------------------------------------------
(***************************************************************************)
(* The invariant.                                                          *)
(***************************************************************************)
Own(s) == {o \in DOMAIN book : book[o].sess = s}
Outside == {"sleep", "begin", "enter", "resume"}
Listing == (Open \ {"resume"}) \cup {"clear"}

\* The closing order of s was canceled after it had executed in part.
Partial(s) ==
    \E o \in DOMAIN book : /\ book[o].sess = s
                           /\ book[o].status = "canceled"
                           /\ book[o].filled \in 1..(book[o].amount - 1)
                           /\ Signed(book[o].side, 1) # EntrySign(s)
FlatOrPartial(s) == SessionNet(s) = 0 \/ Partial(s)

\* What the exchange says of one order.
Counts ==
    \A o \in DOMAIN book :
        /\ book[o].sess <= Len(sessions)
        /\ book[o].filled <= book[o].amount
        /\ book[o].status = "closed" <=> book[o].filled = book[o].amount

\* What SQLite says of the exchange.
Ledger ==
    /\ \A s \in DOMAIN rows : \A i \in DOMAIN rows[s] : rows[s][i].side = book[rows[s][i].id].side
    /\ \A s \in DOMAIN rows : rows[s] # <<>> => Signed(book[rows[s][1].id].side, 1) = EntrySign(s)
    /\ \A s \in DOMAIN sessions : SessionNet(s) * EntrySign(s) >= 0
    /\ \A s \in DOMAIN sessions : sessions[s] = "ended" => FlatOrPartial(s)

\* The order thread t has placed for s: it adds to the position, or it closes what is
\* left of it exactly.
Directed(t, s) ==
    LET o == book[th[t].ord]
    IN IF t = "main" /\ th[t].why = "entry"
       THEN Signed(o.side, 1) = EntrySign(s)
       ELSE /\ Signed(o.side, 1) # EntrySign(s)
            /\ SessionNet(s) + Signed(o.side, o.amount - o.filled) = 0

\* What thread t knows of the session it works on.
WorksOn(t, s) ==
    /\ th[t].pc \in Placed => Directed(t, s)
    /\ th[t].pc = "fetch" => th[t].net + Carried(book, th[t].rest) = SessionNet(s)
    /\ th[t].pc \in {"price", "submit"} => th[t].net = SessionNet(s)
    /\ th[t].pc \in Pending /\ rows[s] = <<>> => Own(s) = {th[t].ord}
    /\ th[t].pc \in {"fetch", "price", "submit", "push"} => rows[s] # <<>>

Works(t) ==
    /\ \A s \in DOMAIN sessions : th[t].idx = s => WorksOn(t, s)
    /\ th[t].pc \in {"save", "push"} => book[th[t].ord].status # "open" /\ book[th[t].ord].filled > 0
    /\ th[t].pc = "push" => th[t].idx # 0
    /\ th[t].pc = "cancel" => th[t].net = 0

\* The list has the ledger of s, but for the order a thread is about to list.
ToList == {th[t].ord : t \in {u \in Threads : th[u].pc = "push"}}
HasLedger(s) ==
    /\ Ids(rows[s]) = Ids(mem) \cup ToList
    /\ Ids(mem) \cap ToList = {}
    /\ Distinct(mem)
    /\ mem # <<>> => Signed(book[mem[1].id].side, 1) = EntrySign(s)

\* What the loop's position says of the session it has.
LoopAt(s) ==
    /\ th["main"].pc \in Listing => HasLedger(s)
    /\ th["main"].pc = "done" /\ th["stop"].pc \in {"idle", "cancel"} /\ mem # <<>> => HasLedger(s)
    /\ th["main"].pc = "enter" => Own(s) = {} /\ rows[s] = <<>>
    /\ th["main"].pc \in {"end", "ending"} => FlatOrPartial(s)

Scene ==
    /\ ~(th["main"].pc \in Working /\ th["stop"].pc \in Working)
    /\ th["main"].pc \in {"watch", "enter"} => th["main"].why = "none"
    /\ th["main"].pc = "idle" => ~alive
    /\ th["main"].pc # "dispose"
    /\ th["main"].pc \in Outside => mem = <<>>
    /\ mem # <<>> => sess # 0
    /\ \A s \in DOMAIN rows : sess = s => LoopAt(s)

\* The stop request works for the session the loop has, never between two sessions.
StopAt ==
    /\ th["stop"].pc \in Working => th["main"].pc \notin Outside
    /\ th["stop"].pc \in Working => th["stop"].idx \in {0, sess}

Exposure == Ledger /\ (\A t \in Threads : Works(t)) /\ Scene /\ StopAt
EInv == Counts /\ (Undisturbed => Exposure)

\* As long as nobody asked the process to stop, the session the loop has holds a
\* position, from its first order to the one that closes it: the loop would go back to
\* sleep with its list still full if a stop-loss found nothing to close.
Holding ==
    \/ th["main"].pc \in (Loop \ {"push"}) \cup {"resume"}
    \/ th["main"].pc = "push" /\ th["main"].why = "entry"
Entering == th["main"].pc \in Pending /\ th["main"].why = "entry"
Standing ==
    Undisturbed =>
       /\ \A s \in DOMAIN rows : \A i \in DOMAIN rows[s] : rows[s][i].amount > 0
       /\ ~stopping /\ Holding => rows[sess] = <<>> \/ NetOf(rows[sess]) # 0
       /\ ~stopping /\ Entering => NetOf(rows[sess]) * Signed(book[th["main"].ord].side, 1) >= 0

-----------------------------------------------------------------------------
(***************************************************************************)
(* Steps of the exchange and what they change of a session's exposure.     *)
(***************************************************************************)
\* A set of natural numbers has a least element.
LEMMA MinFacts ==
  ASSUME NEW S \in SUBSET Nat, S # {}
  PROVE  Min(S) \in S /\ \A y \in S : Min(S) <= y
<1> DEFINE R == OpToRel(<, Nat)
<1>1. \E x \in S : \A y \in S : ~ (<<y, x>> \in R)
  <2>1. IsWellFoundedOn(R, Nat)
    BY NatLessThanWellFounded
  <2> HIDE DEF R
  <2> QED
    BY <2>1, WFMin
<1>2. \A x, y \in Nat : x < y => <<x, y>> \in R
  BY DEF OpToRel
<1> HIDE DEF R
<1>3. \E x \in S : \A y \in S : x <= y
  <2>1. PICK x \in S : \A y \in S : ~ (<<y, x>> \in R)
    BY <1>1
  <2>2. ASSUME NEW y \in S PROVE x <= y
    <3>1. x \in Nat /\ y \in Nat /\ ~ (y < x)
      BY <1>2, <2>1
    <3> QED
      BY <3>1
  <2> QED
    BY <2>2
<1> QED
  BY <1>3 DEF Min

\* Session s's orders in book b, and the direction of the first of them.
OwnIn(b, s) == {o \in DOMAIN b : b[o].sess = s}
SignIn(b, s) == IF OwnIn(b, s) = {} THEN 0 ELSE Signed(b[Min(OwnIn(b, s))].side, 1)

\* Orders and direction of a session are those of the book, before and after a step.
LEMMA OwnAndSign ==
  ASSUME NEW s
  PROVE  /\ Own(s) = OwnIn(book, s) /\ Own(s)' = OwnIn(book', s)
         /\ EntrySign(s) = SignIn(book, s) /\ EntrySign(s)' = SignIn(book', s)
<1>1. Own(s) = OwnIn(book, s) /\ Own(s)' = OwnIn(book', s)
  BY DEF Own, OwnIn
<1>2. EntrySign(s) = SignIn(book, s)
  BY DEF EntrySign, SignIn, OwnIn
<1>3. EntrySign(s)' = SignIn(book', s)
  BY DEF EntrySign, SignIn, OwnIn
<1> QED
  BY <1>1, <1>2, <1>3

\* The direction is one of buying and selling, or none when there is no order.
LEMMA SignTypes ==
  ASSUME NEW b \in Seq(Order), NEW s
  PROVE  /\ SignIn(b, s) \in {-1, 0, 1}
         /\ SignIn(b, s) = 0 <=> OwnIn(b, s) = {}
         /\ OwnIn(b, s) \in SUBSET Nat
<1>1. OwnIn(b, s) \in SUBSET Nat /\ OwnIn(b, s) \subseteq DOMAIN b
  BY DEF OwnIn
<1>2. OwnIn(b, s) # {} => SignIn(b, s) \in {-1, 1}
  <2>1. OwnIn(b, s) # {} => Min(OwnIn(b, s)) \in DOMAIN b
    BY <1>1, MinFacts
  <2> QED
    BY <2>1 DEF SignIn, Signed
<1> QED
  BY <1>1, <1>2 DEF SignIn

\* Later orders do not change it.
LEMMA SignStays ==
  ASSUME NEW b \in Seq(Order), NEW c \in Seq(Order), NEW s, OwnIn(b, s) # {},
         \A o \in OwnIn(b, s) : o \in OwnIn(c, s) /\ c[o].side = b[o].side,
         \A o \in OwnIn(c, s) : o \in OwnIn(b, s) \/ \A p \in OwnIn(b, s) : p < o
  PROVE  SignIn(c, s) = SignIn(b, s)
<1> DEFINE B == OwnIn(b, s)
           C == OwnIn(c, s)
<1>1. B \in SUBSET Nat /\ C \in SUBSET Nat /\ B # {} /\ C # {}
  BY SignTypes
<1>2. Min(B) \in B /\ (\A y \in B : Min(B) <= y) /\ Min(C) \in C /\ \A y \in C : Min(C) <= y
  <2> HIDE DEF B, C
  <2> QED
    BY <1>1, MinFacts
<1>3. Min(B) \in C /\ c[Min(B)].side = b[Min(B)].side
  BY <1>2
<1>4. Min(C) \in B
  BY <1>1, <1>2, <1>3
<1> HIDE DEF B, C
<1>5. Min(C) = Min(B)
  <2>1. \A x, y \in Nat : x <= y /\ y <= x => x = y
    OBVIOUS
  <2> QED
    BY <1>1, <1>2, <1>3, <1>4, <2>1
<1> QED
  BY <1>1, <1>3, <1>5 DEF SignIn, B, C

\* Nets are integers, directions are signs, and both are zero without orders.
LEMMA ExposureTypes ==
  ASSUME Types, NEW s
  PROVE  /\ SessionNet(s) \in Int /\ EntrySign(s) \in {-1, 0, 1}
         /\ EntrySign(s) = 0 <=> Own(s) = {}
         /\ Own(s) = {} => SessionNet(s) = 0
<1>1. book \in Seq(Order)
  BY DEF Types, TypeOK
<1>2. Own(s) = {} => \A o \in DOMAIN book : book[o].sess # s
  BY DEF Own
<1> QED
  BY <1>1, <1>2, NetTypes, NetIsNetIn, OwnAndSign, SignTypes

\* A step in which no order executes: exposures, and the directions of sessions that
\* have one, stay as they are.
Calm ==
    /\ \A o \in DOMAIN book :
          /\ o \in DOMAIN book'
          /\ book'[o].side = book[o].side /\ book'[o].amount = book[o].amount
          /\ book'[o].filled = book[o].filled /\ book'[o].sess = book[o].sess
          /\ book'[o].status = book[o].status \/ (book[o].status = "open" /\ book'[o].status = "canceled")
    /\ \A s : SessionNet(s)' = SessionNet(s)
    /\ \A s : Own(s) # {} => EntrySign(s)' = EntrySign(s)
    /\ \A s : Own(s) \subseteq Own(s)'
    /\ \A s : FlatOrPartial(s) => FlatOrPartial(s)'

SameOrders == DOMAIN book' = DOMAIN book /\ \A s : Own(s)' = Own(s) /\ EntrySign(s)' = EntrySign(s)

\* Orders of the book that are canceled, or none.
LEMMA CalmFacts ==
  ASSUME Types, book' \in Seq(Order), \A s : SessionNet(s)' = SessionNet(s),
         \A o \in DOMAIN book :
          /\ o \in DOMAIN book'
          /\ book'[o].side = book[o].side /\ book'[o].amount = book[o].amount
          /\ book'[o].filled = book[o].filled /\ book'[o].sess = book[o].sess
          /\ book'[o].status = book[o].status \/ (book[o].status = "open" /\ book'[o].status = "canceled"),
         \A o \in DOMAIN book' : o \in DOMAIN book \/ \A p \in DOMAIN book : p < o
  PROVE  Calm
<1>1. book \in Seq(Order)
  BY DEF Types, TypeOK
<1>2. ASSUME NEW s PROVE Own(s) \subseteq Own(s)'
  BY DEF Own
<1>3. ASSUME NEW s, Own(s) # {} PROVE EntrySign(s)' = EntrySign(s)
  <2>1. \A o \in OwnIn(book, s) : o \in OwnIn(book', s) /\ book'[o].side = book[o].side
    BY DEF OwnIn
  <2>2. \A o \in OwnIn(book', s) : o \in OwnIn(book, s) \/ \A p \in OwnIn(book, s) : p < o
    BY DEF OwnIn
  <2>3. OwnIn(book, s) # {} /\ EntrySign(s) = SignIn(book, s) /\ EntrySign(s)' = SignIn(book', s)
    BY <1>3, OwnAndSign
  <2> QED
    BY <1>1, <2>1, <2>2, <2>3, SignStays
<1>4. ASSUME NEW s, FlatOrPartial(s) PROVE FlatOrPartial(s)'
  <2>1. CASE SessionNet(s) = 0
    BY <2>1 DEF FlatOrPartial
  <2>2. CASE Partial(s)
    <3>1. PICK o \in DOMAIN book : /\ book[o].sess = s /\ book[o].status = "canceled"
                                   /\ book[o].filled \in 1..(book[o].amount - 1)
                                   /\ Signed(book[o].side, 1) # EntrySign(s)
      BY <2>2 DEF Partial
    <3>2. EntrySign(s)' = EntrySign(s)
      BY <1>3, <3>1 DEF Own
    <3>3. /\ o \in DOMAIN book' /\ book'[o].sess = s /\ book'[o].status = "canceled"
          /\ book'[o].filled \in 1..(book'[o].amount - 1)
          /\ Signed(book'[o].side, 1) # EntrySign(s)'
      BY <3>1, <3>2
    <3> QED
      BY <3>3 DEF FlatOrPartial, Partial
  <2> QED
    BY <1>4, <2>1, <2>2 DEF FlatOrPartial
<1> QED
  BY <1>2, <1>3, <1>4 DEF Calm

\* No order changes.
LEMMA CalmSame ==
  ASSUME Types, book' = book
  PROVE  Calm /\ SameOrders
<1>1. book \in Seq(Order)
  BY DEF Types, TypeOK
<1>2. \A s : SessionNet(s)' = SessionNet(s)
  BY NetIsNetIn
<1>3. Calm
  BY <1>1, <1>2, CalmFacts
<1>4. \A s : Own(s)' = Own(s) /\ EntrySign(s)' = EntrySign(s)
  BY OwnAndSign
<1> QED
  BY <1>3, <1>4 DEF SameOrders

\* Open orders are canceled.
LEMMA CalmCanceled ==
  ASSUME Types, NEW S \in SUBSET OpenOrders, book' = Canceled(S)
  PROVE  Calm /\ SameOrders
<1>1. book \in Seq(Order) /\ book' \in Seq(Order) /\ DOMAIN book' = DOMAIN book
  BY CanceledFacts DEF Types, TypeOK
<1>2. \A o \in DOMAIN book :
          /\ book'[o].side = book[o].side /\ book'[o].amount = book[o].amount
          /\ book'[o].filled = book[o].filled /\ book'[o].sess = book[o].sess
          /\ book'[o].status = book[o].status \/ (book[o].status = "open" /\ book'[o].status = "canceled")
  <2>1. \A o \in DOMAIN book : book[o] \in Order
    BY <1>1
  <2> QED
    BY <2>1 DEF Canceled, OpenOrders, Order
<1>3. \A s : SessionNet(s)' = SessionNet(s)
  BY <1>1, <1>2, NetSame, NetIsNetIn
<1>4. Calm
  BY <1>1, <1>2, <1>3, CalmFacts
<1>5. \A s : Own(s)' = Own(s)
  BY <1>1, <1>2 DEF Own
<1>6. ASSUME NEW s PROVE EntrySign(s)' = EntrySign(s)
  <2>1. CASE Own(s) = {}
    BY <1>5, <2>1, OwnAndSign DEF SignIn
  <2>2. CASE Own(s) # {}
    BY <1>4, <2>2 DEF Calm
  <2> QED
    BY <2>1, <2>2
<1> QED
  BY <1>1, <1>4, <1>5, <1>6 DEF SameOrders

\* An order is accepted for session idx.
LEMMA CalmAccepted ==
  ASSUME Types, NEW side \in {"buy", "sell"}, NEW amount \in Nat \ {0}, NEW idx \in Nat,
         book' = Append(book, [side |-> side, amount |-> amount, filled |-> 0,
                               status |-> "open", sess |-> idx])
  PROVE  /\ Calm
         /\ DOMAIN book' = DOMAIN book \cup {Len(book) + 1} /\ Len(book) + 1 \notin DOMAIN book
         /\ book'[Len(book) + 1] = [side |-> side, amount |-> amount, filled |-> 0,
                                    status |-> "open", sess |-> idx]
         /\ \A s : s # idx => Own(s)' = Own(s) /\ EntrySign(s)' = EntrySign(s)
         /\ Own(idx)' = Own(idx) \cup {Len(book) + 1}
         /\ Own(idx) = {} => EntrySign(idx)' = Signed(side, 1)
<1> DEFINE x == [side |-> side, amount |-> amount, filled |-> 0, status |-> "open", sess |-> idx]
           n == Len(book) + 1
<1>1. book \in Seq(Order) /\ x \in Order
  BY DEF Types, TypeOK, Order
<1>2. /\ book' \in Seq(Order) /\ DOMAIN book' = DOMAIN book \cup {n} /\ n \notin DOMAIN book
      /\ \A o \in DOMAIN book : book'[o] = book[o] /\ o < n
      /\ book'[n] = x
  BY <1>1, AppendFacts
<1>3. x.sess = idx /\ x.side = side /\ x.filled = 0
  OBVIOUS
<1> HIDE DEF x, n
<1>4. \A s : SessionNet(s)' = SessionNet(s)
  BY <1>1, <1>3, NetAccepted, NetIsNetIn DEF x
<1>5. Calm
  BY <1>2, <1>4, CalmFacts
<1>6. \A s : s # idx => Own(s)' = Own(s)
  BY <1>2, <1>3 DEF Own
<1>7. Own(idx)' = Own(idx) \cup {n}
  BY <1>2, <1>3 DEF Own
<1>8. ASSUME NEW s, s # idx PROVE EntrySign(s)' = EntrySign(s)
  <2>1. CASE Own(s) = {}
    BY <1>6, <1>8, <2>1, OwnAndSign DEF SignIn
  <2>2. CASE Own(s) # {}
    BY <1>5, <2>2 DEF Calm
  <2> QED
    BY <2>1, <2>2
<1>9. Own(idx) = {} => EntrySign(idx)' = Signed(side, 1)
  <2>1. ASSUME Own(idx) = {} PROVE OwnIn(book', idx) = {n}
    BY <1>7, <2>1, OwnAndSign
  <2>2. n \in Nat
    BY <1>1 DEF n
  <2>3. Min({n}) = n
    BY <2>2 DEF Min
  <2>4. OwnIn(book', idx) = {n} => SignIn(book', idx) = Signed(book'[n].side, 1)
    BY <2>3 DEF SignIn
  <2> QED
    BY <1>2, <1>3, <2>1, <2>4, OwnAndSign
<1> QED
  BY <1>2, <1>5, <1>6, <1>7, <1>8, <1>9 DEF n, x

-----------------------------------------------------------------------------
(***************************************************************************)
(* What a step that executes no order leaves as it is.                     *)
(***************************************************************************)
\* The orders of the ledger are the session's own.
LEMMA RowsAreOwn ==
  ASSUME Types, SavedIsFinal, NEW s \in DOMAIN rows
  PROVE  /\ \A i \in DOMAIN rows[s] : rows[s][i].id \in Own(s)
         /\ Ids(rows[s]) \subseteq Own(s)
         /\ rows[s] # <<>> => Own(s) # {} /\ 1 \in DOMAIN rows[s]
         /\ rows[s] \in Seq(Row)
<1>1. \A i \in DOMAIN rows[s] : rows[s][i].id \in Own(s)
  BY DEF SavedIsFinal, Own
<1>2. rows[s] \in Seq(Row)
  BY DEF Types, TypeOK
<1>3. rows[s] # <<>> => 1 \in DOMAIN rows[s]
  BY <1>2
<1> QED
  BY <1>1, <1>2, <1>3 DEF Ids

\* What the exchange says of its orders, when none executes.
LEMMA CountsCalm ==
  ASSUME Types, Counts, Calm, DOMAIN book' = DOMAIN book, Types', Len(sessions) <= Len(sessions')
  PROVE  Counts'
<1>1. \A o \in DOMAIN book : book[o] \in Order /\ book'[o] \in Order
  BY DEF Types, TypeOK
<1>2. Len(sessions) \in Nat /\ Len(sessions') \in Nat
  BY DEF Types, TypeOK
<1> QED
  BY <1>1, <1>2 DEF Counts, Calm, Order

\* A session may be ended when it is flat, or when its closing order was cut short.
LEMMA LedgerCalm ==
  ASSUME Types, SavedIsFinal, Ledger, Calm, Types', rows' = rows, DOMAIN sessions' = DOMAIN sessions,
         \A s \in DOMAIN sessions : sessions'[s] = "ended" => sessions[s] = "ended" \/ FlatOrPartial(s)
  PROVE  Ledger'
<1>1. \A s \in DOMAIN rows : \A i \in DOMAIN rows[s] : rows[s][i].id \in DOMAIN book
  BY DEF SavedIsFinal
<1>2. \A s \in DOMAIN rows : rows[s] # <<>> => Own(s) # {} /\ rows[s][1].id \in DOMAIN book
  BY <1>1, RowsAreOwn
<1>3. ASSUME NEW s \in DOMAIN sessions PROVE SessionNet(s)' * EntrySign(s)' >= 0
  <2>1. CASE Own(s) = {}
    <3>1. SessionNet(s)' = 0
      BY <2>1, ExposureTypes DEF Calm
    <3>2. EntrySign(s)' \in Int
      <4>1. book' \in Seq(Order)
        BY DEF Types, TypeOK
      <4> QED
        BY <4>1, SignTypes, OwnAndSign
    <3> QED
      BY <3>1, <3>2
  <2>2. CASE Own(s) # {}
    BY <2>2 DEF Calm, Ledger
  <2> QED
    BY <2>1, <2>2
<1>4. \A s \in DOMAIN rows : \A i \in DOMAIN rows[s] : rows[s][i].side = book'[rows[s][i].id].side
  BY <1>1 DEF Ledger, Calm
<1>5. \A s \in DOMAIN rows : rows[s] # <<>> => Signed(book'[rows[s][1].id].side, 1) = EntrySign(s)'
  BY <1>2 DEF Ledger, Calm
<1>6. \A s \in DOMAIN sessions : sessions'[s] = "ended" => FlatOrPartial(s)'
  BY DEF Ledger, Calm
<1> QED
  BY <1>3, <1>4, <1>5, <1>6 DEF Ledger

\* A thread that goes on with its work.
LEMMA WorksCalm ==
  ASSUME Types, Orders, NEW t \in Threads, Works(t), Calm,
         SameWork(t), th'[t].why = th[t].why,
         DOMAIN sessions \subseteq DOMAIN sessions', Types',
         \A s \in DOMAIN sessions : rows'[s] = rows[s] /\ Own(s)' = Own(s)
  PROVE  Works(t)'
<1> DEFINE h == th[t]
<1>1. Responsible(h) /\ h \in Thread
  BY DEF Orders, Types, TypeOK
<1>2. h.idx \in Nat /\ h.idx <= Len(sessions) /\ Known(h.rest) /\ h.rest \in Seq(Held)
  BY <1>1 DEF Responsible, Thread
<1>3. h.pc \in Placed => h.ord \in DOMAIN book /\ book[h.ord].sess = h.idx
  BY <1>1 DEF Responsible
<1>4. Carried(book', h.rest) = Carried(book, h.rest)
  <2>1. \A i \in DOMAIN h.rest : h.rest[i].id \in DOMAIN book
    BY <1>2 DEF Known
  <2>2. \A i \in DOMAIN h.rest : /\ book'[h.rest[i].id].side = book[h.rest[i].id].side
                                 /\ book'[h.rest[i].id].filled = book[h.rest[i].id].filled
    BY <2>1 DEF Calm
  <2> HIDE DEF h
  <2> QED
    BY <2>2, CarriedSame
<1>5. /\ th'[t].pc = h.pc /\ th'[t].ord = h.ord /\ th'[t].idx = h.idx
      /\ th'[t].rest = h.rest /\ th'[t].net = h.net /\ th'[t].why = h.why
  BY DEF SameWork
<1>6. ASSUME NEW s \in DOMAIN sessions', h.idx = s PROVE WorksOn(t, s)'
  <2>1. s \in DOMAIN sessions
    <3>1. /\ DOMAIN sessions = 1..Len(sessions) /\ Len(sessions) \in Nat
          /\ DOMAIN sessions' = 1..Len(sessions') /\ Len(sessions') \in Nat
      BY DEF Types, TypeOK
    <3> HIDE DEF h
    <3> QED
      BY <1>2, <1>6, <3>1
  <2>2. WorksOn(t, s)
    BY <1>6, <2>1 DEF Works
  <2>3. h.pc \in Placed => Directed(t, s)'
    <3>1. SUFFICES ASSUME h.pc \in Placed PROVE Directed(t, s)'
      OBVIOUS
    <3>2. h.ord \in DOMAIN book /\ Own(s) # {}
      BY <1>3, <1>6, <3>1 DEF Own
    <3>3. EntrySign(s)' = EntrySign(s) /\ SessionNet(s)' = SessionNet(s)
      BY <3>2 DEF Calm
    <3>4. /\ book'[h.ord].side = book[h.ord].side /\ book'[h.ord].amount = book[h.ord].amount
          /\ book'[h.ord].filled = book[h.ord].filled
      BY <3>2 DEF Calm
    <3>5. Directed(t, s)
      BY <2>2, <3>1 DEF WorksOn
    <3> QED
      BY <1>5, <3>3, <3>4, <3>5 DEF Directed
  <2>4. rows'[s] = rows[s] /\ Own(s)' = Own(s) /\ SessionNet(s)' = SessionNet(s)
    BY <2>1 DEF Calm
  <2> QED
    BY <1>4, <1>5, <2>2, <2>3, <2>4 DEF WorksOn
<1>7. \A s \in DOMAIN sessions' : th'[t].idx = s => WorksOn(t, s)'
  BY <1>5, <1>6
<1>8. h.pc \in {"save", "push"} => book'[h.ord].status # "open" /\ book'[h.ord].filled > 0
  <2>1. h.pc \in {"save", "push"} => h.ord \in DOMAIN book
    BY <1>3 DEF Placed
  <2> QED
    BY <2>1 DEF Calm, Works
<1> QED
  BY <1>5, <1>7, <1>8 DEF Works

\* A thread that works on no order.
LEMMA WorksQuiet ==
  ASSUME NEW t \in Threads, th'[t].pc \notin Working, th'[t].pc = "cancel" => th'[t].net = 0
  PROVE  Works(t)'
BY DEF Works, WorksOn, Working, Placed, Pending

\* Nobody starts or ends listing an order.
LEMMA ToListSame ==
  ASSUME \A u \in Threads : /\ th'[u].pc = "push" <=> th[u].pc = "push"
                            /\ th[u].pc = "push" => th'[u].ord = th[u].ord
  PROVE  ToList' = ToList
BY DEF ToList

\* The list has the ledger still, when neither changes.
LEMMA HasLedgerStays ==
  ASSUME Types, SavedIsFinal, Calm, NEW s \in DOMAIN rows, HasLedger(s),
         rows'[s] = rows[s], mem' = mem, ToList' = ToList
  PROVE  HasLedger(s)'
<1>1. Ids(rows[s])' = Ids(rows[s]) /\ Ids(mem)' = Ids(mem) /\ (Distinct(mem) => Distinct(mem)')
  BY DEF Ids, Distinct
<1>2. mem # <<>> => mem[1].id \in Own(s)
  <2>1. mem \in Seq(Held)
    BY DEF Types, TypeOK
  <2>2. mem # <<>> => mem[1].id \in Ids(mem)
    BY <2>1 DEF Ids
  <2> QED
    BY <2>2, RowsAreOwn DEF HasLedger
<1>3. mem # <<>> => Signed(book'[mem[1].id].side, 1) = EntrySign(s)'
  BY <1>2 DEF HasLedger, Calm, Own
<1> QED
  BY <1>1, <1>3 DEF HasLedger

-----------------------------------------------------------------------------
(***************************************************************************)
(* Threads that move while the list and the ledger stay.                   *)
(***************************************************************************)
EHyp == SInv /\ Mirror /\ Down /\ EInv /\ Standing /\ SInv'

\* Hidden orders and overlaps are never forgotten.
LEMMA UndisturbedBefore ==
  ASSUME EInv, lost \subseteq lost', overlap => overlap', Undisturbed'
  PROVE  Undisturbed /\ Exposure
BY DEF EInv, Undisturbed

\* Everything but the two threads is as it was for the list.
ListStays == Calm /\ SameOrders /\ UNCHANGED <<sessions, rows, mem, sess>>

\* What the loop knows of its session, when neither the list nor the books change.
LEMMA LoopAtStays ==
  ASSUME EHyp, Exposure, ListStays, NEW s \in DOMAIN rows, sess = s, ToList' = ToList,
         th'["main"].pc \in Listing => th["main"].pc \in Listing,
         th'["main"].pc = "done" /\ th'["stop"].pc \in {"idle", "cancel"} =>
            th["main"].pc = "done" /\ th["stop"].pc \in {"idle", "cancel"},
         th'["main"].pc = "enter" => th["main"].pc = "enter",
         th'["main"].pc \in {"end", "ending"} => th["main"].pc \in {"end", "ending"}
  PROVE  LoopAt(s)'
<1>1. LoopAt(s)
  BY DEF Exposure, Scene
<1>2. HasLedger(s) => HasLedger(s)'
  BY HasLedgerStays DEF EHyp, SInv, Orders, ListStays
<1>3. /\ SessionNet(s)' = SessionNet(s) /\ Own(s)' = Own(s)
      /\ FlatOrPartial(s) => FlatOrPartial(s)'
      /\ rows'[s] = rows[s] /\ sessions' = sessions /\ mem' = mem
  BY DEF ListStays, Calm, SameOrders
<1> QED
  BY <1>1, <1>2, <1>3 DEF LoopAt

\* The loop goes on within a session.
LEMMA MainMoves ==
  ASSUME EHyp, Exposure, ListStays, alive' = alive, NEW h \in Thread, th' = [th EXCEPT !["main"] = h],
         th["main"].pc \in (Loop \ {"push", "enter"}) \cup {"end", "ending"},
         h.pc \in (Loop \ {"push", "enter"}) \cup {"ending", "clear"},
         h.pc = "ending" => th["main"].pc = "end",
         h.pc \in Working => th["main"].pc \in Working \/ th["stop"].pc \notin Working,
         h.pc = "watch" => h.why = "none"
  PROVE  Scene' /\ StopAt' /\ Works("stop")'
<1>0. SInv /\ "main" \in Threads
  BY DEF EHyp, Threads
<1>1. /\ th'["main"] = h /\ th'["stop"] = th["stop"]
  BY <1>0, ThreadMoves
<1>2. ToList' = ToList
  <2>1. \A u \in Threads : /\ th'[u].pc = "push" <=> th[u].pc = "push"
                           /\ th[u].pc = "push" => th'[u].ord = th[u].ord
    BY <1>1 DEF Threads
  <2> QED
    BY <2>1, ToListSame
<1>3. /\ h.pc \notin {"sleep", "done", "enter", "end", "idle", "dispose", "begin", "resume"}
      /\ th["main"].pc \in Listing /\ th["main"].pc \notin Outside
  BY DEF Loop, Open, Listing, Closer, Placed, Outside
<1>4. ASSUME NEW s \in DOMAIN rows, sess = s PROVE LoopAt(s)'
  BY <1>1, <1>2, <1>3, <1>4, LoopAtStays
<1>5. rows' = rows /\ sess' = sess /\ mem' = mem /\ sessions' = sessions
  BY DEF ListStays
<1>6. Scene'
  BY <1>1, <1>3, <1>4, <1>5 DEF Scene, Exposure, Outside
<1>7. StopAt'
  BY <1>1, <1>3, <1>5 DEF StopAt, Exposure, Outside, Working
<1>8. Works("stop")'
  <2>1. SameWork("stop") /\ th'["stop"].why = th["stop"].why
    BY <1>1 DEF SameWork
  <2>2. Types /\ Orders /\ Types' /\ Works("stop") /\ Calm /\ "stop" \in Threads
    BY DEF EHyp, SInv, Exposure, ListStays, Threads
  <2>3. \A s \in DOMAIN sessions : rows'[s] = rows[s] /\ Own(s)' = Own(s)
    BY <1>5 DEF ListStays, SameOrders
  <2> QED
    BY <1>5, <2>1, <2>2, <2>3, WorksCalm
<1> QED
  BY <1>6, <1>7, <1>8

\* The stop request goes on.
LEMMA StopMoves ==
  ASSUME EHyp, Exposure, ListStays, alive' = alive, NEW h \in Thread, th' = [th EXCEPT !["stop"] = h],
         th["stop"].pc # "push", h.pc # "push",
         h.pc \in {"idle", "cancel"} => th["stop"].pc \in {"idle", "cancel"},
         h.pc \in Working => th["main"].pc \notin Working \/ th["stop"].pc \in Working
  PROVE  Scene' /\ Works("main")' /\ th'["stop"] = h /\ th'["main"] = th["main"]
<1>0. SInv /\ "stop" \in Threads
  BY DEF EHyp, Threads
<1>1. /\ th'["stop"] = h /\ th'["main"] = th["main"]
  BY <1>0, ThreadMoves
<1>2. ToList' = ToList
  <2>1. \A u \in Threads : /\ th'[u].pc = "push" <=> th[u].pc = "push"
                           /\ th[u].pc = "push" => th'[u].ord = th[u].ord
    BY <1>1 DEF Threads
  <2> QED
    BY <2>1, ToListSame
<1>4. ASSUME NEW s \in DOMAIN rows, sess = s PROVE LoopAt(s)'
  BY <1>1, <1>2, <1>4, LoopAtStays
<1>5. rows' = rows /\ sess' = sess /\ mem' = mem /\ sessions' = sessions
  BY DEF ListStays
<1>6. Scene'
  BY <1>1, <1>4, <1>5 DEF Scene, Exposure
<1>8. Works("main")'
  <2>1. SameWork("main") /\ th'["main"].why = th["main"].why
    BY <1>1 DEF SameWork
  <2>2. Types /\ Orders /\ Types' /\ Works("main") /\ Calm /\ "main" \in Threads
    BY DEF EHyp, SInv, Exposure, ListStays, Threads
  <2>3. \A s \in DOMAIN sessions : rows'[s] = rows[s] /\ Own(s)' = Own(s)
    BY <1>5 DEF ListStays, SameOrders
  <2> QED
    BY <1>5, <2>1, <2>2, <2>3, WorksCalm
<1> QED
  BY <1>1, <1>6, <1>8

\* The exchange, SQLite and the counts, when the list stays.
LEMMA BooksStay ==
  ASSUME EHyp, ListStays
  PROVE  Counts' /\ (Exposure => Ledger')
<1>1. Types /\ SavedIsFinal /\ Types' /\ Calm /\ DOMAIN book' = DOMAIN book /\ Counts
  BY DEF EHyp, SInv, Orders, ListStays, SameOrders, EInv
<1>2. rows' = rows /\ sessions' = sessions
  BY DEF ListStays
<1>3. Counts'
  <2>1. Len(sessions) <= Len(sessions')
    BY <1>1, <1>2 DEF Types, TypeOK
  <2> QED
    BY <1>1, <2>1, CountsCalm
<1>4. Exposure => Ledger'
  BY <1>1, <1>2, LedgerCalm DEF Exposure
<1> QED
  BY <1>3, <1>4

\* A thread goes on with the order or the close it is at.
LEMMA WorkMoves ==
  ASSUME EHyp, ListStays, alive' = alive, lost \subseteq lost', overlap => overlap',
         NEW t \in Threads, NEW h \in Thread, th' = [th EXCEPT ![t] = h],
         th[t].pc \in Working \ {"push"}, h.pc \in Working \ {"push"}, h.idx = th[t].idx,
         Undisturbed' /\ Exposure => Works(t)'
  PROVE  EInv'
<1>1. SUFFICES ASSUME Undisturbed' PROVE Exposure'
  BY BooksStay DEF EInv
<1>2. Exposure
  BY <1>1, UndisturbedBefore DEF EHyp
<1>3. Ledger' /\ Works(t)'
  BY <1>1, <1>2, BooksStay
<1>4. h.pc \notin {"idle", "cancel", "watch", "ending", "clear"} /\ Working \ {"push"} \subseteq Loop \ {"push", "enter"}
  BY DEF Working, Loop, Closer, Placed
<1>5. CASE t = "main"
  <2>1. Scene' /\ StopAt' /\ Works("stop")'
    BY <1>2, <1>4, <1>5, MainMoves
  <2> QED
    BY <1>3, <1>5, <2>1 DEF Exposure, Threads
<1>6. CASE t = "stop"
  <2>1. /\ Scene' /\ Works("main")' /\ th'["stop"] = h /\ th'["main"] = th["main"]
    BY <1>2, <1>4, <1>6, StopMoves
  <2>2. StopAt'
    <3>1. sess' = sess /\ StopAt
      BY <1>2 DEF ListStays, Exposure
    <3> QED
      BY <1>2, <1>6, <2>1, <3>1 DEF StopAt
  <2> QED
    BY <1>3, <1>6, <2>1, <2>2 DEF Exposure, Threads
<1> QED
  BY <1>5, <1>6 DEF Threads

-----------------------------------------------------------------------------
(***************************************************************************)
(* Steps that fail, end the process or only move the loop.                 *)
(***************************************************************************)
\* When no order is in flight nor hidden, the ledger of a session has what executed.
LEMMA AllSaved ==
  ASSUME SInv, lost = {}, \A t \in Threads : th[t].pc \notin Pending, NEW s \in DOMAIN rows,
         NEW o \in DOMAIN book, book[o].sess = s, book[o].filled > 0
  PROVE  o \in Ids(rows[s])
<1>1. IsSaved(o)
  BY DEF SInv, Orders, Accounted, InFlight, Pending
<1>2. PICK u \in DOMAIN rows : \E i \in DOMAIN rows[u] : rows[u][i].id = o
  BY <1>1, SavedMeans
<1>3. u = s
  BY <1>2 DEF SInv, Orders, SavedIsFinal
<1> QED
  BY <1>2, <1>3 DEF Ids

\* A list that has the ledger of a session adds up to its exposure.
LEMMA ListIsPosition ==
  ASSUME SInv, lost = {}, \A t \in Threads : th[t].pc \notin Pending, ToList = {},
         NEW s \in DOMAIN rows, HasLedger(s)
  PROVE  Carried(book, mem) = SessionNet(s)
<1>1. book \in Seq(Order) /\ mem \in Seq(Held)
  BY DEF SInv, Types, TypeOK
<1>2. Ids(mem) = Ids(rows[s]) /\ Distinct(mem)
  BY DEF HasLedger
<1>3. Ids(rows[s]) \subseteq Own(s)
  BY RowsAreOwn DEF SInv, Orders
<1>4. \A i \in DOMAIN mem : mem[i].id \in DOMAIN book /\ book[mem[i].id].sess = s
  BY <1>2, <1>3 DEF Ids, Own
<1>5. \A o \in DOMAIN book : book[o].sess = s /\ book[o].filled > 0 => o \in Ids(mem)
  BY <1>2, AllSaved
<1> QED
  BY <1>1, <1>2, <1>4, <1>5, ListIsNet, NetIsNetIn

\* So do the rows that a restart finds.
LEMMA RowsArePosition ==
  ASSUME SInv, Ledger, lost = {}, \A t \in Threads : th[t].pc \notin Pending, NEW s \in DOMAIN rows
  PROVE  NetOf(rows[s]) = SessionNet(s)
<1> DEFINE q == rows[s]
<1>1. book \in Seq(Order) /\ q \in Seq(Row)
  BY DEF SInv, Types, TypeOK
<1>2. /\ \A i \in DOMAIN q : q[i].id \in DOMAIN book /\ book[q[i].id].sess = s
      /\ \A i \in DOMAIN q : q[i].amount = book[q[i].id].filled /\ q[i].side = book[q[i].id].side
      /\ Distinct(q)
  BY DEF SInv, Orders, SavedIsFinal, Ledger, Distinct
<1>3. \A o \in DOMAIN book : book[o].sess = s /\ book[o].filled > 0 => o \in Ids(q)
  BY AllSaved
<1>4. Amounts(q) = SharesOf(book, q)
  BY <1>2 DEF Amounts, SharesOf
<1> HIDE DEF q
<1>5. Carried(book, q) = NetIn(book, s)
  BY <1>1, <1>2, <1>3, ListIsNet
<1>6. NetOf(q) = Total(Amounts(q))
  BY <1>1, NetOfIsTotal
<1> QED
  BY <1>4, <1>5, <1>6, NetIsNetIn DEF Carried, q

\* The process is gone: what is left is the exchange and SQLite.
LEMMA GoneExposure ==
  ASSUME EHyp, Calm, SameOrders, UNCHANGED sqlite, lost \subseteq lost', overlap' = overlap,
         \A u \in Threads : th'[u] = At("idle"), alive' = FALSE, mem' = <<>>, sess' = 0
  PROVE  EInv'
<1>1. Types /\ SavedIsFinal /\ Types' /\ Counts /\ DOMAIN book' = DOMAIN book
      /\ rows' = rows /\ sessions' = sessions
  BY DEF EHyp, SInv, Orders, EInv, SameOrders, sqlite
<1>2. Counts'
  <2>1. Len(sessions) <= Len(sessions')
    BY <1>1 DEF Types, TypeOK
  <2> QED
    BY <1>1, <2>1, CountsCalm
<1>3. SUFFICES ASSUME Undisturbed' PROVE Exposure'
  BY <1>2 DEF EInv
<1>4. Exposure
  BY <1>3, UndisturbedBefore DEF EHyp
<1>5. Ledger'
  BY <1>1, <1>4, LedgerCalm DEF Exposure
<1>6. \A u \in Threads : th'[u].pc = "idle"
  <2>1. "idle" \in Steps
    BY DEF Steps
  <2> QED
    BY <2>1, AtFacts
<1>7. \A u \in Threads : Works(u)'
  <2>1. ASSUME NEW u \in Threads PROVE Works(u)'
    <3>1. th'[u].pc \notin Working /\ th'[u].pc # "cancel"
      BY <1>6 DEF Working
    <3> QED
      BY <3>1, WorksQuiet
  <2> QED
    BY <2>1
<1>8. Scene'
  <2>1. 0 \notin DOMAIN rows'
    BY <1>1 DEF Types, TypeOK
  <2> QED
    BY <1>6, <2>1 DEF Scene, Threads, Working
<1>9. StopAt'
  BY <1>6 DEF StopAt, Threads, Outside, Working
<1> QED
  BY <1>5, <1>7, <1>8, <1>9 DEF Exposure

\* The loop goes on within a session.
LEMMA MainGoes ==
  ASSUME EHyp, ListStays, alive' = alive, lost \subseteq lost', overlap => overlap',
         NEW h \in Thread, th' = [th EXCEPT !["main"] = h],
         th["main"].pc \in (Loop \ {"push", "enter"}) \cup {"end", "ending"},
         h.pc \in (Loop \ {"push", "enter"}) \cup {"ending", "clear"},
         h.pc = "ending" => th["main"].pc = "end",
         h.pc \notin Working, h.pc = "cancel" => h.net = 0,
         h.pc = "watch" => h.why = "none"
  PROVE  EInv'
<1>1. SUFFICES ASSUME Undisturbed' PROVE Exposure'
  BY BooksStay DEF EInv
<1>2. Exposure
  BY <1>1, UndisturbedBefore DEF EHyp
<1>3. Ledger'
  BY <1>1, <1>2, BooksStay
<1>4. Scene' /\ StopAt' /\ Works("stop")'
  BY <1>2, MainMoves
<1>5. Works("main")'
  <2>1. SInv /\ "main" \in Threads
    BY DEF EHyp, Threads
  <2>2. th'["main"] = h
    BY <2>1, ThreadMoves
  <2> QED
    BY <2>1, <2>2, WorksQuiet
<1> QED
  BY <1>3, <1>4, <1>5 DEF Exposure, Threads

\* A failure ends the process, or takes the tracker's close back to watching.
LEMMA ThrowExposure ==
  ASSUME EHyp, NEW t \in Threads, NEW L, Throw(t, L), Calm, SameOrders, UNCHANGED sqlite,
         overlap' = overlap, th[t].pc # "push"
  PROVE  EInv'
<1>1. CASE th[t].why # "track"
  <2>1. Exit(L \cup InFlight(Other(t)))
    BY <1>1 DEF Throw
  <2>2. /\ \A u \in Threads : th'[u] = At("idle")
        /\ alive' = FALSE /\ mem' = <<>> /\ sess' = 0
        /\ lost' = lost \cup (L \cup InFlight(Other(t)))
    BY <2>1, ExitFacts DEF EHyp, SInv
  <2>3. lost \subseteq lost'
    BY <2>2
  <2> QED
    BY <2>2, <2>3, GoneExposure
<1>2. CASE th[t].why = "track"
  <2>1. t = "main"
    BY <1>2 DEF EHyp, SInv, Control, Threads, AtClose
  <2>2. th["main"].pc \in Closer \cup Placed
    BY <1>2, <2>1 DEF EHyp, Mirror
  <2>3. "watch" \in Steps
    BY DEF Steps
  <2>4. At("watch") \in Thread /\ At("watch").pc = "watch" /\ At("watch").why = "none"
    BY <2>3, AtFacts
  <2>5. /\ th' = [th EXCEPT !["main"] = At("watch")]
        /\ lost \subseteq lost' /\ UNCHANGED <<alive, mem, stopping, sess>>
    BY <1>2, <2>1 DEF Throw
  <2>6. th["main"].pc \in Loop \ {"push", "enter"}
    BY <2>1, <2>2 DEF Loop, Closer, Placed
  <2>7. ListStays
    BY <2>5 DEF ListStays, sqlite
  <2>8. "watch" \in Loop \ {"push", "enter"} /\ "watch" \notin Working
    BY DEF Loop, Working
  <2> QED
    BY <2>4, <2>5, <2>6, <2>7, <2>8, MainGoes
<1> QED
  BY <1>1, <1>2

\* The end of the process.
LEMMA EndsExposure ==
  ASSUME EHyp, Kill \/ Dispose
  PROVE  EInv'
<1>1. PICK L : Exit(L) /\ book' = book /\ UNCHANGED sqlite /\ overlap' = overlap
  BY DEF Kill, Dispose
<1>2. /\ \A u \in Threads : th'[u] = At("idle")
      /\ alive' = FALSE /\ mem' = <<>> /\ sess' = 0 /\ lost' = lost \cup L
  BY <1>1, ExitFacts DEF EHyp, SInv
<1>3. Calm /\ SameOrders /\ lost \subseteq lost'
  BY <1>1, <1>2, CalmSame DEF EHyp, SInv
<1> QED
  BY <1>1, <1>2, <1>3, GoneExposure

\* Failed reads and cancellations.
LEMMA FailsExposure ==
  ASSUME EHyp, \/ SessionReadFails \/ EntryReadFails \/ WatchReadFails
               \/ \E t \in Threads : ExecutionFails(t) \/ CancelAllFails(t)
  PROVE  EInv'
<1>1. CASE SessionReadFails \/ EntryReadFails \/ WatchReadFails
  <2>1. /\ Throw("main", {}) /\ book' = book /\ UNCHANGED sqlite /\ overlap' = overlap
        /\ th["main"].pc # "push" /\ "main" \in Threads
    BY <1>1 DEF SessionReadFails, EntryReadFails, WatchReadFails, Threads
  <2>2. Calm /\ SameOrders
    BY <2>1, CalmSame DEF EHyp, SInv
  <2> QED
    BY <2>1, <2>2, ThrowExposure
<1>2. ASSUME NEW t \in Threads, ExecutionFails(t) PROVE EInv'
  <2>1. /\ Throw(t, {th[t].ord}) /\ book' = book /\ UNCHANGED sqlite /\ overlap' = overlap
        /\ th[t].pc # "push"
    BY <1>2 DEF ExecutionFails
  <2>2. Calm /\ SameOrders
    BY <2>1, CalmSame DEF EHyp, SInv
  <2> QED
    BY <2>1, <2>2, ThrowExposure
<1>3. ASSUME NEW t \in Threads, CancelAllFails(t) PROVE EInv'
  <2>1. /\ Throw(t, {}) /\ UNCHANGED sqlite /\ overlap' = overlap
        /\ th[t].pc # "push" /\ \E S \in SUBSET OpenOrders : book' = Canceled(S)
    BY <1>3 DEF CancelAllFails
  <2>2. Calm /\ SameOrders
    BY <2>1, CalmCanceled DEF EHyp, SInv
  <2> QED
    BY <2>1, <2>2, ThrowExposure
<1> QED
  BY <1>1, <1>2, <1>3

\* A close begins with nothing added up.
LEMMA NothingAdded ==
  /\ \A p \in Steps : At(p).net = 0
  /\ \A w \in {"loss", "profit", "track", "stop"} : Closing(w).net = 0
<1>1. \A p \in Steps : At(p).net = 0
  BY DEF At, Idle
<1>2. ASSUME NEW w \in {"loss", "profit", "track", "stop"} PROVE Closing(w).net = 0
  <2>1. At("cancel").net = 0 /\ At("cancel") \in [pc : {"cancel"}, why : {"none"}, ord : {0}, idx : {0},
                                                rest : {<<>>}, live : {FALSE}, net : {0}]
    BY DEF At, Idle
  <2> DEFINE h == At("cancel")
  <2>2. h \in [pc : {"cancel"}, why : {"none"}, ord : {0}, idx : {0}, rest : {<<>>}, live : {FALSE}, net : {0}]
    BY <2>1
  <2> HIDE DEF h
  <2>3. [h EXCEPT !.why = w, !.idx = sess].net = h.net
    BY <2>2
  <2> QED
    BY <2>1, <2>3 DEF Closing, h
<1> QED
  BY <1>1, <1>2

\* An iteration of the watching loop that places no order.
LEMMA WatchExposure ==
  ASSUME EHyp, WatchStopLoss \/ WatchTakeProfit \/ OnPriceTracker \/ TrackerReadFails
  PROVE  EInv'
<1>1. /\ th["main"].pc \in {"watch", "tracking"}
      /\ UNCHANGED <<book, sessions, rows, mem, sess, alive, lost, overlap>>
      /\ \E h \in {Closing("loss"), Closing("profit"), Closing("track"), At("tracking"), At("watch")} :
            th' = [th EXCEPT !["main"] = h]
  BY DEF WatchStopLoss, WatchTakeProfit, OnPriceTracker, TrackerReadFails, sqlite
<1>2. PICK h \in {Closing("loss"), Closing("profit"), Closing("track"), At("tracking"), At("watch")} :
         th' = [th EXCEPT !["main"] = h]
  BY <1>1
<1>3. \A w \in {"loss", "profit", "track"} :
         Closing(w) \in Thread /\ Closing(w).pc = "cancel" /\ Closing(w).net = 0
  BY ClosingFacts, NothingAdded DEF EHyp, SInv, Types, TypeOK
<1>4. "tracking" \in Steps /\ "watch" \in Steps
  BY DEF Steps
<1>5. /\ At("tracking") \in Thread /\ At("tracking").pc = "tracking"
      /\ At("watch") \in Thread /\ At("watch").pc = "watch" /\ At("watch").why = "none"
  BY <1>4, AtFacts
<1>6. /\ h \in Thread /\ h.pc \in {"cancel", "tracking", "watch"}
      /\ h.pc = "cancel" => h.net = 0
      /\ h.pc = "watch" => h.why = "none"
  BY <1>3, <1>5
<1>7. Calm /\ SameOrders
  BY <1>1, CalmSame DEF EHyp, SInv
<1>8. ListStays
  BY <1>1, <1>7 DEF ListStays
<1>9. {"cancel", "tracking", "watch"} \subseteq (Loop \ {"push", "enter"}) \ Working
  BY DEF Loop, Closer, Working
<1> QED
  BY <1>1, <1>2, <1>6, <1>8, <1>9, MainGoes

\* The threads stay where they are.
LEMMA RestExposure ==
  ASSUME EHyp, ListStays, UNCHANGED <<alive, th, lost, overlap>>
  PROVE  EInv'
<1>1. SUFFICES ASSUME Undisturbed' PROVE Exposure'
  BY BooksStay DEF EInv
<1>2. Exposure
  BY <1>1, UndisturbedBefore DEF EHyp
<1>3. Ledger'
  BY <1>2, BooksStay
<1>4. /\ Calm /\ SameOrders /\ UNCHANGED <<sessions, rows, mem, sess>>
  BY DEF ListStays
<1>5. \A t \in Threads : Works(t)'
  <2>1. ASSUME NEW t \in Threads PROVE Works(t)'
    <3>1. SameWork(t) /\ th'[t].why = th[t].why
      BY DEF SameWork
    <3>2. Types /\ Orders /\ Types' /\ Works(t)
      BY <1>2 DEF EHyp, SInv, Exposure
    <3>3. \A s \in DOMAIN sessions : rows'[s] = rows[s] /\ Own(s)' = Own(s)
      BY <1>4 DEF SameOrders
    <3> QED
      BY <1>4, <3>1, <3>2, <3>3, WorksCalm
  <2> QED
    BY <2>1
<1>6. ToList' = ToList
  BY DEF ToList
<1>7. Scene'
  <2>1. ASSUME NEW s \in DOMAIN rows, sess = s PROVE LoopAt(s)'
    BY <1>2, <1>6, <2>1, LoopAtStays
  <2> QED
    BY <1>2, <1>4, <2>1 DEF Scene, Exposure
<1>8. StopAt'
  BY <1>2, <1>4 DEF StopAt, Exposure, Calm
<1> QED
  BY <1>3, <1>5, <1>7, <1>8 DEF Exposure

\* The exchange ends an order by itself.
LEMMA DropExposure ==
  ASSUME EHyp, NEW o \in DOMAIN book, Drop(o)
  PROVE  EInv'
<1>1. /\ o \in OpenOrders /\ book' = [book EXCEPT ![o].status = "canceled"]
      /\ UNCHANGED <<sessions, rows, alive, mem, sess, th, lost, overlap>>
  BY DEF Drop, sqlite
<1>2. book' = Canceled({o})
  <2>1. book \in [DOMAIN book -> Order]
    BY DEF EHyp, SInv, Types, TypeOK
  <2> QED
    BY <1>1, <2>1 DEF Canceled
<1>3. Calm /\ SameOrders
  <2>1. {o} \in SUBSET OpenOrders
    BY <1>1
  <2> QED
    BY <1>2, <2>1, CalmCanceled DEF EHyp, SInv
<1>4. ListStays
  BY <1>1, <1>3 DEF ListStays
<1> QED
  BY <1>1, <1>4, RestExposure

\* The process starts.
LEMMA StartExposure ==
  ASSUME EHyp, Start
  PROVE  EInv'
<1>1. /\ ~alive /\ th' = [th EXCEPT !["main"] = At("sleep")]
      /\ UNCHANGED <<book, sessions, rows, stopping, mem, sess, lost, overlap>>
  BY DEF Start, sqlite
<1>2. Calm /\ SameOrders
  BY <1>1, CalmSame DEF EHyp, SInv
<1>3. ListStays
  BY <1>1, <1>2 DEF ListStays
<1>4. SUFFICES ASSUME Undisturbed' PROVE Exposure'
  BY <1>3, BooksStay DEF EInv
<1>5. Exposure
  BY <1>1, <1>4, UndisturbedBefore DEF EHyp
<1>6. mem = <<>> /\ th["stop"].pc = "idle"
  BY <1>1 DEF EHyp, Mirror, Down, SInv, Control
<1>7. "sleep" \in Steps /\ "main" \in Threads
  BY DEF Steps, Threads
<1>8. At("sleep") \in Thread /\ At("sleep").pc = "sleep"
  BY <1>7, AtFacts
<1>9. th'["main"].pc = "sleep" /\ th'["stop"].pc = "idle"
  BY <1>1, <1>6, <1>7, <1>8, ThreadMoves DEF EHyp
<1>10. \A t \in Threads : Works(t)'
  <2>1. ASSUME NEW t \in Threads PROVE Works(t)'
    <3>1. th'[t].pc \notin Working /\ th'[t].pc # "cancel"
      BY <1>9 DEF Working, Threads
    <3> QED
      BY <3>1, WorksQuiet
  <2> QED
    BY <2>1
<1>11. Scene'
  <2>1. mem' = <<>>
    BY <1>1, <1>6
  <2> QED
    BY <1>9, <2>1 DEF Scene, LoopAt, Listing, Open, Loop, Closer, Placed, Working, Outside
<1>12. StopAt'
  BY <1>9 DEF StopAt, Working
<1> QED
  BY <1>3, <1>5, <1>10, <1>11, <1>12, BooksStay DEF Exposure

\* The stop request arrives.
LEMMA RequestExposure ==
  ASSUME EHyp, StopWorker
  PROVE  EInv'
<1>1. /\ alive /\ ~stopping /\ th' = [th EXCEPT !["stop"] = Closing("stop")]
      /\ UNCHANGED <<book, sessions, rows, alive, mem, sess, lost, overlap>>
  BY DEF StopWorker, sqlite
<1>2. Calm /\ SameOrders
  BY <1>1, CalmSame DEF EHyp, SInv
<1>3. ListStays
  BY <1>1, <1>2 DEF ListStays
<1>4. SUFFICES ASSUME Undisturbed' PROVE Exposure'
  BY <1>3, BooksStay DEF EInv
<1>5. Exposure
  BY <1>1, <1>4, UndisturbedBefore DEF EHyp
<1>6. th["stop"].pc = "idle" /\ "stop" \in Threads
  BY <1>1 DEF EHyp, SInv, Control, Threads
<1>7. /\ Closing("stop") \in Thread /\ Closing("stop").pc = "cancel"
      /\ Closing("stop").idx = sess /\ Closing("stop").net = 0
  BY ClosingFacts, NothingAdded DEF EHyp, SInv, Types, TypeOK
<1>8. "cancel" \notin Working
  BY DEF Working
<1>9. Scene' /\ Works("main")' /\ th'["stop"] = Closing("stop") /\ th'["main"] = th["main"]
  BY <1>1, <1>3, <1>5, <1>6, <1>7, <1>8, StopMoves
<1>10. Works("stop")'
  BY <1>6, <1>7, <1>8, <1>9, WorksQuiet
<1>11. StopAt'
  BY <1>1, <1>7, <1>8, <1>9 DEF StopAt, Working
<1> QED
  BY <1>3, <1>5, <1>9, <1>10, <1>11, BooksStay DEF Exposure, Threads

-----------------------------------------------------------------------------
(***************************************************************************)
(* Polling an order, and adding up the list.                               *)
(***************************************************************************)
\* A polled order is settled: the thread goes on with it.
LEMMA SettleExposure ==
  ASSUME EHyp, NEW t \in Threads, NEW p \in {"recheck", "save"},
         th' = [th EXCEPT ![t].pc = p], th[t].pc \in {"wait", "recheck"}, Calm, SameOrders,
         UNCHANGED <<sqlite, alive, mem, sess, lost, overlap>>,
         p = "save" => book' = book /\ book[th[t].ord].status # "open" /\ book[th[t].ord].filled > 0
  PROVE  EInv'
<1> DEFINE h == [th[t] EXCEPT !.pc = p]
<1>1. th[t] \in Thread /\ th \in [Threads -> Thread] /\ Responsible(th[t])
  BY DEF EHyp, SInv, Types, TypeOK, Orders
<1>2. /\ h \in Thread /\ h.pc = p /\ h.why = th[t].why /\ h.ord = th[t].ord
      /\ h.idx = th[t].idx /\ h.rest = th[t].rest /\ h.net = th[t].net
  <2>1. p \in Steps
    BY DEF Steps, Working
  <2> QED
    BY <1>1, <2>1, PcFacts
<1>3. th' = [th EXCEPT ![t] = h]
  BY <1>1
<1> HIDE DEF h
<1>4. th'[t] = h
  BY <1>1, <1>2, <1>3
<1>5. rows' = rows /\ sessions' = sessions /\ ListStays
  BY DEF ListStays, sqlite
<1>6. ASSUME Exposure PROVE Works(t)'
  <2>1. ASSUME NEW s \in DOMAIN sessions', th'[t].idx = s PROVE WorksOn(t, s)'
    <3>1. s \in DOMAIN sessions /\ th[t].idx = s /\ WorksOn(t, s)
      BY <1>2, <1>4, <1>5, <1>6, <2>1 DEF Exposure, Works
    <3>2. Directed(t, s) /\ (rows[s] = <<>> => Own(s) = {th[t].ord})
      BY <3>1 DEF WorksOn, Placed, Pending
    <3>3. th[t].ord \in DOMAIN book /\ SessionNet(s)' = SessionNet(s) /\ EntrySign(s)' = EntrySign(s) /\ Own(s)' = Own(s)
      BY <1>1 DEF Responsible, Placed, Calm, SameOrders
    <3>4. /\ book'[th[t].ord].side = book[th[t].ord].side /\ book'[th[t].ord].amount = book[th[t].ord].amount
          /\ book'[th[t].ord].filled = book[th[t].ord].filled
      BY <3>3 DEF Calm
    <3>5. Directed(t, s)'
      BY <1>2, <1>4, <3>2, <3>3, <3>4 DEF Directed
    <3> QED
      BY <1>2, <1>4, <1>5, <3>2, <3>3, <3>5 DEF WorksOn
  <2>2. th'[t].pc \in {"save", "push"} => book'[th'[t].ord].status # "open" /\ book'[th'[t].ord].filled > 0
    BY <1>2, <1>4
  <2>3. th'[t].pc \notin {"push", "cancel"}
    BY <1>2, <1>4
  <2> QED
    BY <2>1, <2>2, <2>3 DEF Works
<1>8. th[t].pc \in Working \ {"push"} /\ h.pc \in Working \ {"push"}
  BY <1>2 DEF Working
<1> QED
  BY <1>2, <1>3, <1>5, <1>6, <1>8, WorkMoves

\* A poll that settles the order, or the last look after the cancellation.
LEMMA PollExposure ==
  ASSUME EHyp, NEW t \in Threads, PollSettles(t) \/ RecheckAfterCancel(t)
  PROVE  EInv'
<1>1. /\ th[t].pc \in {"wait", "recheck"} /\ book' = book /\ UNCHANGED sqlite /\ overlap' = overlap
      /\ \/ /\ book[th[t].ord].filled > 0 /\ th' = [th EXCEPT ![t].pc = "save"]
            /\ UNCHANGED <<alive, mem, sess, lost>>
         \/ Throw(t, {})
  BY DEF PollSettles, RecheckAfterCancel
<1>2. book[th[t].ord].status # "open"
  BY DEF PollSettles, RecheckAfterCancel, EHyp, SInv, Orders, Responsible
<1>3. Calm /\ SameOrders
  BY <1>1, CalmSame DEF EHyp, SInv
<1>4. CASE Throw(t, {})
  BY <1>1, <1>3, <1>4, ThrowExposure
<1>5. CASE /\ book[th[t].ord].filled > 0 /\ th' = [th EXCEPT ![t].pc = "save"]
           /\ UNCHANGED <<alive, mem, sess, lost>>
  BY <1>1, <1>2, <1>3, <1>5, SettleExposure
<1> QED
  BY <1>1, <1>4, <1>5

\* Sixty polls are over.
LEMMA TimeOutExposure ==
  ASSUME EHyp, NEW t \in Threads, PollTimesOut(t)
  PROVE  EInv'
<1>1. /\ th[t].pc = "wait" /\ book' = Canceled(OpenOrders) /\ th' = [th EXCEPT ![t].pc = "recheck"]
      /\ UNCHANGED <<sqlite, alive, mem, sess, lost, overlap>>
  BY DEF PollTimesOut
<1>2. Calm /\ SameOrders
  BY <1>1, CalmCanceled DEF EHyp, SInv
<1> QED
  BY <1>1, <1>2, SettleExposure

\* What a list entry counts is what the exchange executed of its order, unless the
\* failed fetch of an order that is not in SQLite hid it.
LEMMA CountsExecuted ==
  ASSUME SInv, NEW m \in Held, m.restored => IsSaved(m.id), NEW fetched \in BOOLEAN,
         fetched \/ m.restored
  PROVE  ResolveExecutedAmount(m, fetched) = book[m.id].filled
<1>1. CASE fetched
  BY <1>1 DEF ResolveExecutedAmount
<1>2. CASE ~fetched
  <2>1. m.restored /\ \E r \in SavedRows : r.id = m.id
    BY <1>2 DEF IsSaved
  <2> DEFINE r == CHOOSE r \in SavedRows : r.id = m.id
  <2>2. r \in SavedRows /\ r.id = m.id
    BY <2>1
  <2> HIDE DEF r
  <2>3. PICK s \in DOMAIN rows : r \in Range(RowsOf(s))
    BY <2>2 DEF SavedRows
  <2>4. PICK i \in DOMAIN rows[s] : rows[s][i] = r
    BY <2>3 DEF Range, RowsOf
  <2>5. r.amount = book[m.id].filled
    BY <2>2, <2>4 DEF SInv, Orders, SavedIsFinal
  <2> QED
    BY <1>2, <2>1, <2>5 DEF ResolveExecutedAmount, r
<1> QED
  BY <1>1, <1>2

\* A close counts one order.
LEMMA FetchExposure ==
  ASSUME EHyp, NEW t \in Threads, FetchStatus(t)
  PROVE  EInv'
<1> DEFINE m == Head(th[t].rest)
<1>1. /\ th[t].pc = "fetch"
      /\ UNCHANGED <<book, sqlite, alive, mem, sess, overlap>>
  BY DEF FetchStatus
<1>2. PICK fetched \in BOOLEAN :
         LET n == th[t].net + Signed(book[m.id].side, ResolveExecutedAmount(m, fetched))
         IN /\ th' = [th EXCEPT ![t].rest = Tail(@), ![t].net = n,
                                ![t].pc = IF Len(th[t].rest) > 1 THEN "fetch" ELSE "price"]
            /\ lost' = IF fetched \/ m.restored THEN lost ELSE lost \cup {m.id}
  BY DEF FetchStatus
<1>3. /\ th[t] \in Thread /\ th \in [Threads -> Thread] /\ Responsible(th[t])
      /\ th'[t] \in Thread /\ book \in Seq(Order)
  BY DEF EHyp, SInv, Types, TypeOK, Orders
<1>4. th[t].rest \in Seq(Held) /\ th[t].net \in Int /\ th[t].rest # <<>> /\ Known(th[t].rest)
  BY <1>1, <1>3 DEF Thread, Responsible
<1>5. m \in Held /\ m.id \in DOMAIN book /\ (m.restored => IsSaved(m.id))
  <2>1. m = th[t].rest[1] /\ 1 \in DOMAIN th[t].rest /\ m \in Held
    BY <1>4
  <2> QED
    BY <1>4, <2>1 DEF Known
<1> DEFINE n == th[t].net + Signed(book[m.id].side, ResolveExecutedAmount(m, fetched))
           p == IF Len(th[t].rest) > 1 THEN "fetch" ELSE "price"
           h == [th[t] EXCEPT !.rest = Tail(th[t].rest), !.net = n, !.pc = p]
<1>6. th' = [th EXCEPT ![t] = h]
  BY <1>2, <1>3
<1>7. th'[t] = h
  BY <1>3, <1>6
<1>8. /\ h \in Thread /\ h.pc = p /\ h.why = th[t].why /\ h.idx = th[t].idx
      /\ h.rest = Tail(th[t].rest) /\ h.net = n
  <2> HIDE DEF n, p
  <2>1. h.pc = p /\ h.why = th[t].why /\ h.idx = th[t].idx /\ h.rest = Tail(th[t].rest) /\ h.net = n
    BY <1>3 DEF Thread
  <2> QED
    BY <1>3, <1>7, <2>1
<1> HIDE DEF h
<1>9. /\ Carried(book, th[t].rest) = Signed(book[m.id].side, book[m.id].filled) + Carried(book, Tail(th[t].rest))
      /\ Carried(book, Tail(th[t].rest)) \in Int
      /\ Len(th[t].rest) = 1 => Carried(book, Tail(th[t].rest)) = 0
  BY <1>3, <1>4, CarriedHead DEF Known
<1>10. Len(th[t].rest) \in Nat \ {0}
  BY <1>4
<1>11. ListStays /\ lost \subseteq lost' /\ rows' = rows /\ sessions' = sessions
  BY <1>1, <1>2, CalmSame DEF ListStays, sqlite, EHyp, SInv
<1>12. ASSUME Undisturbed', Exposure PROVE Works(t)'
  <2>1. fetched \/ m.restored
    BY <1>2, <1>12 DEF Undisturbed
  <2>2. n = th[t].net + Signed(book[m.id].side, book[m.id].filled)
    BY <1>5, <2>1, CountsExecuted DEF EHyp
  <2>3. Signed(book[m.id].side, book[m.id].filled) \in Int
    <3>1. book[m.id] \in Order
      BY <1>3, <1>5
    <3> QED
      BY <3>1 DEF Order, Signed
  <2>4. ASSUME NEW s \in DOMAIN sessions', th'[t].idx = s PROVE WorksOn(t, s)'
    <3>1. s \in DOMAIN sessions /\ WorksOn(t, s)
      BY <1>7, <1>8, <1>11, <1>12, <2>4 DEF Exposure, Works
    <3>2. th[t].net + Carried(book, th[t].rest) = SessionNet(s) /\ rows[s] # <<>>
      BY <1>1, <3>1 DEF WorksOn
    <3>3. SessionNet(s)' = SessionNet(s)
      BY <1>11 DEF ListStays, Calm
    <3>4. n + Carried(book, Tail(th[t].rest)) = SessionNet(s)
      <4> HIDE DEF m
      <4> QED
        BY <1>4, <1>9, <2>2, <2>3, <3>2
    <3>5. p = "price" => n = SessionNet(s)
      <4>1. p = "price" => Len(th[t].rest) = 1
        <5>1. p = "price" => ~(Len(th[t].rest) > 1)
          OBVIOUS
        <5>2. \A k \in Nat \ {0} : ~(k > 1) => k = 1
          OBVIOUS
        <5> HIDE DEF p
        <5> QED
          BY <1>10, <5>1, <5>2
      <4>2. n \in Int
        BY <1>4, <2>2, <2>3
      <4> HIDE DEF n, p
      <4> QED
        BY <1>9, <3>4, <4>1, <4>2
    <3>6. p \in {"fetch", "price"}
      OBVIOUS
    <3> HIDE DEF n, p
    <3> QED
      BY <1>1, <1>7, <1>8, <1>11, <3>2, <3>3, <3>4, <3>5, <3>6 DEF WorksOn, Placed, Pending
  <2>5. th'[t].pc \notin {"save", "push", "cancel"}
    BY <1>7, <1>8
  <2> QED
    BY <2>4, <2>5 DEF Works
<1>13. th[t].pc \in Working \ {"push"} /\ h.pc \in Working \ {"push"} /\ h.pc \in {"fetch", "price"}
  BY <1>1, <1>8 DEF Working
<1>14. alive' = alive /\ (overlap => overlap')
  BY <1>1
<1>15. h.idx = th[t].idx /\ h \in Thread
  BY <1>8
<1>17. ListStays /\ lost \subseteq lost'
  BY <1>11
<1>18. Undisturbed' /\ Exposure => Works(t)'
  BY <1>12
<1> HIDE DEF n, p, m
<1> QED
  BY <1>6, <1>13, <1>14, <1>15, <1>17, <1>18, WorkMoves

-----------------------------------------------------------------------------
(***************************************************************************)
(* A close that finds nothing to do, and one that begins.                  *)
(***************************************************************************)
\* The stop request is through.
LEMMA StopGoes ==
  ASSUME EHyp, ListStays, alive' = alive, lost \subseteq lost', overlap => overlap',
         th["stop"].pc # "push", th' = [th EXCEPT !["stop"] = At("dispose")]
  PROVE  EInv'
<1>1. SUFFICES ASSUME Undisturbed' PROVE Exposure'
  BY BooksStay DEF EInv
<1>2. Exposure
  BY <1>1, UndisturbedBefore DEF EHyp
<1>3. Ledger'
  BY <1>1, <1>2, BooksStay
<1>4. "dispose" \in Steps /\ "dispose" \notin Working
  BY DEF Steps, Working
<1>5. At("dispose") \in Thread /\ At("dispose").pc = "dispose"
  BY <1>4, AtFacts
<1>6. Scene' /\ Works("main")' /\ th'["stop"] = At("dispose") /\ th'["main"] = th["main"]
  BY <1>2, <1>4, <1>5, StopMoves
<1>7. Works("stop")'
  BY <1>4, <1>5, <1>6, WorksQuiet DEF Threads
<1>8. StopAt'
  BY <1>4, <1>5, <1>6 DEF StopAt, Working
<1> QED
  BY <1>3, <1>6, <1>7, <1>8 DEF Exposure, Threads

\* A stop-loss finds something to close as long as nobody asked the process to stop.
LEMMA StillExposed ==
  ASSUME EHyp, Undisturbed, Exposure, ~stopping, th["main"].pc = "price"
  PROVE  th["main"].net # 0
<1>1. SInv /\ Types /\ lost = {} /\ "main" \in Threads
  BY DEF EHyp, SInv, Undisturbed, Threads
<1>2. th["main"].idx = sess /\ sess \in ActiveSessions
  BY DEF EHyp, Mirror, Open, Loop, Closer
<1>3. PICK s \in DOMAIN rows : s = sess /\ s \in DOMAIN sessions
  BY <1>1, <1>2 DEF ActiveSessions, Types, TypeOK
<1>4. th["main"].net = SessionNet(s) /\ rows[s] # <<>>
  BY <1>1, <1>2, <1>3 DEF Exposure, Works, WorksOn
<1>5. th["stop"].pc = "idle"
  BY <1>1 DEF SInv, Control
<1>6. \A t \in Threads : th[t].pc \notin Pending
  BY <1>5 DEF Threads, Pending
<1>7. NetOf(rows[s]) = SessionNet(s)
  BY <1>1, <1>3, <1>6, RowsArePosition DEF Exposure
<1>8. Holding
  BY DEF Holding, Loop, Closer
<1>9. NetOf(rows[s]) # 0
  BY <1>3, <1>4, <1>8 DEF EHyp, Standing
<1> QED
  BY <1>4, <1>7, <1>9

\* The position is covered and the process was asked to stop: the loop is done.
LEMMA LoopLeaves ==
  ASSUME EHyp, ListStays, alive' = alive, lost' = lost, overlap' = overlap,
         th["main"].pc = "price", th["main"].net = 0, NEW p \in {"done", "sleep"},
         p = "sleep" => ~stopping, th' = [th EXCEPT !["main"] = At(p)]
  PROVE  EInv'
<1>1. SUFFICES ASSUME Undisturbed' PROVE Exposure'
  BY BooksStay DEF EInv
<1>2. Exposure /\ Undisturbed
  BY <1>1, UndisturbedBefore DEF EHyp
<1>3. Ledger'
  BY <1>1, <1>2, BooksStay
<1>d. p = "done"
  BY <1>2, StillExposed
<1>4. p \in Steps /\ p \notin Working
  BY DEF Steps, Working
<1>5. At(p) \in Thread /\ At(p).pc = p /\ SInv /\ "main" \in Threads
  BY <1>4, AtFacts DEF EHyp, Threads
<1>6. th'["main"] = At(p) /\ th'["stop"] = th["stop"]
  BY <1>5, ThreadMoves
<1>7. th["stop"].pc \notin Working
  BY <1>2 DEF Exposure, Scene, Working
<1>8. \A t \in Threads : Works(t)'
  <2>1. th["main"].pc \notin Working \/ th'["main"].pc # "cancel"
    BY <1>5, <1>6
  <2>2. Works("main")'
    BY <1>4, <1>5, <1>6, WorksQuiet
  <2>3. Works("stop")'
    <3>1. th["stop"].pc = "cancel" => th["stop"].net = 0
      BY <1>2 DEF Exposure, Works, Threads
    <3> QED
      BY <1>6, <1>7, <3>1, WorksQuiet DEF Threads
  <2> QED
    BY <2>2, <2>3 DEF Threads
<1>9. ToList' = ToList
  <2>1. \A u \in Threads : /\ th'[u].pc = "push" <=> th[u].pc = "push"
                           /\ th[u].pc = "push" => th'[u].ord = th[u].ord
    BY <1>5, <1>6 DEF Threads
  <2> QED
    BY <2>1, ToListSame
<1>10. UNCHANGED <<sessions, rows, mem, sess>> /\ Calm
  BY DEF ListStays
<1>11. ASSUME NEW s \in DOMAIN rows, sess = s PROVE LoopAt(s)'
  <2>1. LoopAt(s) /\ HasLedger(s)
    BY <1>2, <1>11 DEF Exposure, Scene, LoopAt, Listing, Open, Loop, Closer
  <2>2. HasLedger(s)'
    BY <1>9, <1>10, <2>1, HasLedgerStays DEF EHyp, SInv, Orders
  <2>3. th'["main"].pc = "done"
    BY <1>d, <1>5, <1>6
  <2> QED
    BY <2>2, <2>3 DEF LoopAt
<1>12. Scene'
  BY <1>d, <1>2, <1>4, <1>5, <1>6, <1>10, <1>11 DEF Scene, Exposure, Outside
<1>13. StopAt'
  BY <1>5, <1>6, <1>7 DEF StopAt, Working
<1> QED
  BY <1>3, <1>8, <1>12, <1>13 DEF Exposure

\* calculateClosingOrderExposure: there is something to close, or nothing.
LEMMA CoverExposure ==
  ASSUME EHyp, NEW t \in Threads, CalculateClosingOrderExposure(t)
  PROVE  EInv'
<1>1. /\ th[t].pc = "price" /\ book' = book /\ UNCHANGED sqlite /\ overlap' = overlap
      /\ \/ /\ th[t].net = 0 /\ th' = [th EXCEPT ![t] = Resumed(t, FALSE)]
            /\ UNCHANGED <<alive, mem, stopping, sess, lost>>
         \/ /\ th[t].net # 0 /\ th' = [th EXCEPT ![t].pc = "submit"]
            /\ UNCHANGED <<alive, mem, stopping, sess, lost>>
         \/ Throw(t, {})
  BY DEF CalculateClosingOrderExposure
<1>2. Calm /\ SameOrders
  BY <1>1, CalmSame DEF EHyp, SInv
<1>3. CASE Throw(t, {})
  BY <1>1, <1>2, <1>3, ThrowExposure
<1>4. CASE /\ th[t].net # 0 /\ th' = [th EXCEPT ![t].pc = "submit"]
           /\ UNCHANGED <<alive, mem, stopping, sess, lost>>
  <2> DEFINE h == [th[t] EXCEPT !.pc = "submit"]
  <2>1. th[t] \in Thread /\ th \in [Threads -> Thread] /\ Responsible(th[t])
    BY DEF EHyp, SInv, Types, TypeOK, Orders
  <2>2. /\ h \in Thread /\ h.pc = "submit" /\ h.why = th[t].why /\ h.ord = th[t].ord
        /\ h.idx = th[t].idx /\ h.rest = th[t].rest /\ h.net = th[t].net
    <3>1. "submit" \in Steps
      BY DEF Steps, Working
    <3> QED
      BY <2>1, <3>1, PcFacts
  <2>3. th' = [th EXCEPT ![t] = h]
    BY <1>4, <2>1
  <2> HIDE DEF h
  <2>4. th'[t] = h
    BY <2>1, <2>2, <2>3
  <2>5. ListStays /\ rows' = rows /\ sessions' = sessions /\ lost \subseteq lost'
    BY <1>1, <1>2, <1>4 DEF ListStays, sqlite
  <2>6. ASSUME Exposure PROVE Works(t)'
    <3>1. ASSUME NEW s \in DOMAIN sessions', th'[t].idx = s PROVE WorksOn(t, s)'
      <4>1. s \in DOMAIN sessions /\ WorksOn(t, s)
        BY <2>2, <2>4, <2>5, <2>6, <3>1 DEF Exposure, Works
      <4>2. th[t].net = SessionNet(s) /\ rows[s] # <<>> /\ SessionNet(s)' = SessionNet(s)
        BY <1>1, <1>2, <4>1 DEF WorksOn, Calm
      <4> QED
        BY <2>2, <2>4, <2>5, <4>2 DEF WorksOn, Placed, Pending
    <3>2. th'[t].pc \notin {"save", "push", "cancel"}
      BY <2>2, <2>4
    <3> QED
      BY <3>1, <3>2 DEF Works
  <2>8. th[t].pc \in Working \ {"push"} /\ h.pc \in Working \ {"push"}
    BY <1>1, <2>2 DEF Working
  <2> QED
    BY <1>1, <1>4, <2>2, <2>3, <2>5, <2>6, <2>8, WorkMoves
<1>5. CASE /\ th[t].net = 0 /\ th' = [th EXCEPT ![t] = Resumed(t, FALSE)]
           /\ UNCHANGED <<alive, mem, stopping, sess, lost>>
  <2>1. ListStays /\ lost \subseteq lost'
    BY <1>1, <1>2, <1>5 DEF ListStays, sqlite
  <2>2. CASE t = "stop"
    <3>1. Resumed("stop", FALSE) = At("dispose")
      BY DEF Resumed
    <3> QED
      BY <1>1, <1>5, <2>1, <2>2, <3>1, StopGoes
  <2>3. CASE t = "main"
    <3>1. th["main"].why \in AtClose
      BY <1>1, <2>3 DEF EHyp, SInv, Control, Closer
    <3>2. CASE th["main"].why = "loss"
      <4>1. Resumed("main", FALSE) = At(IF stopping THEN "done" ELSE "sleep")
        BY <3>2 DEF Resumed
      <4> DEFINE p == IF stopping THEN "done" ELSE "sleep"
      <4>2. p \in {"done", "sleep"} /\ (p = "sleep" => ~stopping)
        OBVIOUS
      <4>3. th' = [th EXCEPT !["main"] = At(p)]
        BY <1>5, <2>3, <4>1
      <4> HIDE DEF p
      <4> QED
        BY <1>1, <1>5, <2>1, <2>3, <4>2, <4>3, LoopLeaves
    <3>3. CASE th["main"].why # "loss"
      <4>1. Resumed("main", FALSE) = At("watch")
        BY <3>1, <3>3 DEF Resumed, AtClose
      <4>2. "watch" \in Steps
        BY DEF Steps
      <4>3. At("watch") \in Thread /\ At("watch").pc = "watch" /\ At("watch").why = "none"
        BY <4>2, AtFacts
      <4>4. "watch" \in Loop \ {"push", "enter"} /\ "price" \in Loop \ {"push", "enter"} /\ "watch" \notin Working
        BY DEF Loop, Working, Closer
      <4>5. th' = [th EXCEPT !["main"] = At("watch")]
        BY <1>5, <2>3, <4>1
      <4>6. th["main"].pc = "price"
        BY <1>1, <2>3
      <4> QED
        BY <1>1, <1>5, <2>1, <4>3, <4>4, <4>5, <4>6, MainGoes
    <3> QED
      BY <3>2, <3>3
  <2> QED
    BY <2>2, <2>3 DEF Threads
<1> QED
  BY <1>1, <1>3, <1>4, <1>5

\* When the loop and the stop request share a list, it has the session's ledger.
LEMMA ListAtHand ==
  ASSUME EHyp, Exposure, mem # <<>>, NEW s \in DOMAIN rows, sess = s,
         th["main"].pc \notin Working,
         th["main"].pc \in Open \/ th["stop"].pc = "cancel"
  PROVE  HasLedger(s)
<1>1. LoopAt(s)
  BY DEF Exposure, Scene
<1>2. th["main"].pc \notin {"idle", "dispose"} \cup Outside
  BY DEF Exposure, Scene, EHyp, Mirror
<1>3. th["main"].pc \in Steps
  BY DEF EHyp, SInv, Types, TypeOK, Thread, Threads
<1>4. th["main"].pc \in Listing \cup {"done"}
  BY <1>2, <1>3 DEF Steps, Listing, Open, Loop, Closer, Outside
<1>5. CASE th["main"].pc \in Listing
  BY <1>1, <1>5 DEF LoopAt
<1>6. CASE th["main"].pc \notin Listing
  <2>1. th["stop"].pc = "cancel"
    BY <1>4, <1>6 DEF Open, Loop, Closer, Placed
  <2> QED
    BY <1>1, <1>4, <1>6, <2>1 DEF LoopAt
<1> QED
  BY <1>5, <1>6

\* A close begins: cancelAllOrders, and the list it goes over.
LEMMA CancelExposure ==
  ASSUME EHyp, NEW t \in Threads, CancelAllOrders(t)
  PROVE  EInv'
<1>1. /\ th[t].pc = "cancel" /\ book' = Canceled(OpenOrders)
      /\ UNCHANGED <<sessions, rows, alive, stopping, mem, sess, lost>>
  BY DEF CancelAllOrders, sqlite
<1>2. Calm /\ SameOrders
  BY <1>1, CalmCanceled DEF EHyp, SInv
<1>3. ListStays /\ lost \subseteq lost'
  BY <1>1, <1>2 DEF ListStays
<1>4. CASE mem = <<>>
  <2>1. th' = [th EXCEPT ![t] = Resumed(t, FALSE)] /\ overlap' = overlap
    BY <1>4 DEF CancelAllOrders
  <2>2. t = "stop"
    BY <1>1, <1>4 DEF EHyp, SInv, Control, Closer, Threads
  <2>3. Resumed("stop", FALSE) = At("dispose")
    BY DEF Resumed
  <2> QED
    BY <1>1, <1>3, <2>1, <2>2, <2>3, StopGoes
<1>5. CASE mem # <<>>
  <2>1. /\ th' = [th EXCEPT ![t].pc = "fetch", ![t].rest = mem, ![t].live = TRUE]
        /\ overlap' = (overlap \/ th[Other(t)].pc \in Working \/ th[t].idx \notin {0, sess})
    BY <1>5 DEF CancelAllOrders
  <2> DEFINE h == [th[t] EXCEPT !.pc = "fetch", !.rest = mem, !.live = TRUE]
  <2>2. th[t] \in Thread /\ th \in [Threads -> Thread] /\ th'[t] \in Thread /\ SInv
    BY DEF EHyp, SInv, Types, TypeOK, Orders
  <2>3. th' = [th EXCEPT ![t] = h]
    BY <2>1, <2>2
  <2>4. th'[t] = h
    BY <2>2, <2>3
  <2>5. /\ h.pc = "fetch" /\ h.why = th[t].why /\ h.idx = th[t].idx /\ h.rest = mem
        /\ h.net = th[t].net
    BY <2>2 DEF Thread
  <2> HIDE DEF h
  <2>6. h \in Thread
    BY <2>2, <2>4
  <2>7. SUFFICES ASSUME Undisturbed' PROVE Exposure'
    BY <1>3, BooksStay DEF EInv
  <2>8. overlap => overlap'
    BY <2>1
  <2>9. Exposure /\ Undisturbed
    BY <1>3, <2>7, <2>8, UndisturbedBefore DEF EHyp
  <2>10. th[Other(t)].pc \notin Working /\ th[t].idx \in {0, sess}
    BY <2>1, <2>7 DEF Undisturbed
  <2>11. th[t].net = 0
    BY <1>1, <2>9 DEF Exposure, Works
  <2>12. "fetch" \in Working /\ "cancel" \notin Working /\ "push" \in Working /\ Pending \subseteq Working
    BY DEF Working, Pending
  <2>13. \A u \in Threads : th[u].pc \notin Working
    <3>1. \A u \in Threads : u = t \/ u = Other(t)
      BY TwoThreads
    <3> QED
      BY <1>1, <2>10, <2>12, <3>1
  <2>14. ToList = {} /\ \A u \in Threads : th[u].pc \notin Pending
    BY <2>12, <2>13 DEF ToList
  <2>15. ASSUME NEW s \in DOMAIN sessions, th[t].idx = s
         PROVE  sess = s /\ s \in DOMAIN rows /\ rows[s] # <<>> /\ Carried(book, mem) = SessionNet(s)
    <3>1. s # 0 /\ DOMAIN rows = DOMAIN sessions
      BY <2>2 DEF SInv, Types, TypeOK
    <3>2. sess = s /\ s \in DOMAIN rows
      BY <2>10, <2>15, <3>1
    <3>3. HasLedger(s)
      <4>1. th["main"].pc \notin Working
        BY <2>13 DEF Threads
      <4>2. th["main"].pc \in Open \/ th["stop"].pc = "cancel"
        BY <1>1 DEF Threads, Open, Loop, Closer
      <4> QED
        BY <1>5, <2>9, <3>2, <4>1, <4>2, ListAtHand
    <3>4. Carried(book, mem) = SessionNet(s)
      BY <2>2, <2>9, <2>14, <3>2, <3>3, ListIsPosition DEF Undisturbed
    <3>5. rows[s] # <<>>
      BY <1>5, <2>2, <2>14, <3>2, <3>3, EmptyIds DEF HasLedger, SInv, RowsOf
    <3> QED
      BY <3>2, <3>4, <3>5
  <2>16. Works(t)'
    <3>1. ASSUME NEW s \in DOMAIN sessions', th'[t].idx = s PROVE WorksOn(t, s)'
      <4>1. s \in DOMAIN sessions /\ th[t].idx = s
        BY <1>1, <2>4, <2>5, <3>1
      <4>2. rows[s] # <<>> /\ Carried(book, mem) = SessionNet(s)
        BY <2>15, <4>1
      <4>3. SessionNet(s)' = SessionNet(s)
        BY <1>2 DEF Calm
      <4>4. Carried(book', mem) = Carried(book, mem)
        <5>1. \A i \in DOMAIN mem : mem[i].id \in DOMAIN book
          BY <2>2 DEF SInv, Orders, Known
        <5>2. \A i \in DOMAIN mem : /\ book'[mem[i].id].side = book[mem[i].id].side
                                    /\ book'[mem[i].id].filled = book[mem[i].id].filled
          BY <1>2, <5>1 DEF Calm
        <5> QED
          BY <5>2, CarriedSame
      <4>5. Carried(book, mem) \in Int
        <5>1. SessionNet(s) \in Int
          BY <2>2, ExposureTypes DEF SInv
        <5> QED
          BY <4>2, <5>1
      <4>6. th'[t].net + Carried(book', th'[t].rest) = SessionNet(s)'
        BY <2>4, <2>5, <2>11, <4>2, <4>3, <4>4, <4>5
      <4>7. th'[t].pc = "fetch" /\ rows'[s] # <<>>
        BY <1>1, <2>4, <2>5, <4>2
      <4> QED
        BY <4>6, <4>7 DEF WorksOn, Placed, Pending
    <3>2. th'[t].pc \notin {"save", "push", "cancel"}
      BY <2>4, <2>5
    <3> QED
      BY <3>1, <3>2 DEF Works
  <2>17. Ledger'
    BY <1>3, <2>9, BooksStay
  <2>18. CASE t = "main"
    <3>1. th["main"].pc \in Loop \ {"push", "enter"} /\ h.pc \in Loop \ {"push", "enter"}
      BY <1>1, <2>5, <2>18 DEF Loop, Closer
    <3>2. th["stop"].pc \notin Working
      BY <2>13 DEF Threads
    <3>3. Scene' /\ StopAt' /\ Works("stop")'
      BY <1>1, <1>3, <2>3, <2>5, <2>6, <2>9, <2>18, <3>1, <3>2, MainMoves
    <3> QED
      BY <2>16, <2>17, <2>18, <3>3 DEF Exposure, Threads
  <2>19. CASE t = "stop"
    <3>1. th["main"].pc \notin Working
      BY <2>13 DEF Threads
    <3>2. Scene' /\ Works("main")' /\ th'["stop"] = h /\ th'["main"] = th["main"]
      BY <1>1, <1>3, <2>3, <2>5, <2>6, <2>9, <2>19, <3>1, StopMoves
    <3>3. th["main"].pc \notin Outside
      BY <1>5, <2>9 DEF Exposure, Scene
    <3>6. StopAt'
      BY <1>1, <2>5, <2>10, <2>19, <3>2, <3>3 DEF StopAt
    <3> QED
      BY <2>16, <2>17, <2>19, <3>2, <3>6 DEF Exposure, Threads
  <2> QED
    BY <2>18, <2>19 DEF Threads
<1> QED
  BY <1>4, <1>5

-----------------------------------------------------------------------------
(***************************************************************************)
(* Placing an order.                                                       *)
(***************************************************************************)
NewOrder(side, amount, idx) ==
    [side |-> side, amount |-> amount, filled |-> 0, status |-> "open", sess |-> idx]
\* The exchange counts a new order.
LEMMA CountsAccepted ==
  ASSUME EHyp, NEW side \in {"buy", "sell"}, NEW amount \in Nat \ {0}, NEW idx \in Nat,
         idx <= Len(sessions), sessions' = sessions, book' = Append(book, NewOrder(side, amount, idx))
  PROVE  Counts'
<1>1. /\ Calm /\ DOMAIN book' = DOMAIN book \cup {Len(book) + 1}
      /\ book'[Len(book) + 1] = NewOrder(side, amount, idx)
  BY CalmAccepted DEF NewOrder, EHyp, SInv
<1>2. Counts /\ \A o \in DOMAIN book : book[o] \in Order /\ book'[o] \in Order
  <2>1. Counts /\ book \in Seq(Order) /\ book' \in Seq(Order)
    BY DEF EHyp, EInv, SInv, Types, TypeOK
  <2> QED
    BY <1>1, <2>1
<1>3. ASSUME NEW o \in DOMAIN book
      PROVE  /\ book'[o].sess <= Len(sessions')
             /\ book'[o].filled <= book'[o].amount
             /\ book'[o].status = "closed" <=> book'[o].filled = book'[o].amount
  BY <1>1, <1>2 DEF Calm, Counts, Order
<1>4. /\ NewOrder(side, amount, idx).sess <= Len(sessions')
      /\ NewOrder(side, amount, idx).filled <= NewOrder(side, amount, idx).amount
      /\ NewOrder(side, amount, idx).status # "closed"
      /\ NewOrder(side, amount, idx).filled # NewOrder(side, amount, idx).amount
  BY DEF NewOrder
<1> QED
  BY <1>1, <1>3, <1>4 DEF Counts

\* The exchange has accepted it, and thread t waits for it.
Accepted(t, side, amount, idx, why) ==
    /\ book' = Append(book, NewOrder(side, amount, idx))
    /\ th' = [th EXCEPT ![t] = Sent(Len(book) + 1, idx, why)]
    /\ UNCHANGED <<sessions, rows, alive, mem, sess, lost>>

\* What a thread must know to place an order for session s.
Fits(t, s, side, amount, why) ==
    /\ rows[s] = <<>> => Own(s) = {}
    /\ IF t = "main" /\ why = "entry"
       THEN Own(s) = {} \/ Signed(side, 1) = EntrySign(s)
       ELSE /\ Own(s) # {} /\ Signed(side, 1) # EntrySign(s)
            /\ SessionNet(s) + Signed(side, amount) = 0

\* The exchange accepts an order that fits the position.
LEMMA AcceptExposure ==
  ASSUME EHyp, NEW t \in Threads, NEW side \in {"buy", "sell"}, NEW amount \in Nat \ {0},
         NEW idx \in Nat, idx <= Len(sessions), NEW why,
         th[t].pc \in {"enter", "watch", "submit"}, t = "stop" => th[t].pc = "submit" /\ idx = th[t].idx,
         Accepted(t, side, amount, idx, why), overlap => overlap',
         Undisturbed' /\ Exposure =>
            /\ th[Other(t)].pc \notin Working
            /\ \A s \in DOMAIN sessions : idx = s => Fits(t, s, side, amount, why)
  PROVE  EInv'
<1> DEFINE n == Len(book) + 1
           h == Sent(Len(book) + 1, idx, why)
<1>0. /\ book' = Append(book, NewOrder(side, amount, idx)) /\ th' = [th EXCEPT ![t] = h]
      /\ UNCHANGED <<sessions, rows, alive, mem, sess, lost>>
  BY DEF Accepted
<1>1. /\ Calm
      /\ DOMAIN book' = DOMAIN book \cup {n} /\ n \notin DOMAIN book
      /\ book'[n] = NewOrder(side, amount, idx)
      /\ \A s : s # idx => Own(s)' = Own(s) /\ EntrySign(s)' = EntrySign(s)
      /\ Own(idx)' = Own(idx) \cup {n}
      /\ Own(idx) = {} => EntrySign(idx)' = Signed(side, 1)
  BY <1>0, CalmAccepted DEF NewOrder, EHyp, SInv
<1>2. h.pc = "wait" /\ h.ord = n /\ h.idx = idx /\ h.why = why
  BY SentFacts
<1>3. /\ th \in [Threads -> Thread] /\ Types /\ Types' /\ SavedIsFinal
      /\ SInv /\ Other(t) \in Threads /\ Other(t) # t /\ \A u \in Threads : u = t \/ u = Other(t)
  BY TwoThreads DEF EHyp, SInv, Types, TypeOK, Orders
<1>4. th'[t] = h /\ th'[Other(t)] = th[Other(t)]
  BY <1>0, <1>3
<1>5. SUFFICES ASSUME Undisturbed' PROVE Exposure'
  BY <1>0, CountsAccepted DEF EInv
<1>6. Exposure
  BY <1>0, <1>5, UndisturbedBefore DEF EHyp
<1>7. /\ th[Other(t)].pc \notin Working
      /\ \A s \in DOMAIN sessions : idx = s => Fits(t, s, side, amount, why)
  BY <1>5, <1>6
<1> HIDE DEF h, n
<1>8. Ledger'
  BY <1>0, <1>1, <1>3, <1>6, LedgerCalm DEF Exposure
<1>9. NewOrder(side, amount, idx) = [side |-> side, amount |-> amount, filled |-> 0,
                                     status |-> "open", sess |-> idx]
  BY DEF NewOrder
<1>10. Works(t)'
  <2>1. ASSUME NEW s \in DOMAIN sessions', th'[t].idx = s PROVE WorksOn(t, s)'
    <3>1. s \in DOMAIN sessions /\ idx = s /\ Fits(t, s, side, amount, why)
      BY <1>0, <1>2, <1>4, <1>7, <2>1
    <3>2. book'[n].side = side /\ book'[n].amount = amount /\ book'[n].filled = 0
      BY <1>1, <1>9
    <3>3. SessionNet(s)' = SessionNet(s) /\ (Own(s) # {} => EntrySign(s)' = EntrySign(s))
      BY <1>1 DEF Calm
    <3>4. Directed(t, s)'
      <4>1. amount - 0 = amount
        OBVIOUS
      <4>2. CASE t = "main" /\ why = "entry"
        <5>1. EntrySign(s)' = Signed(side, 1)
          BY <1>1, <3>1, <3>3, <4>2 DEF Fits
        <5> QED
          BY <1>2, <1>4, <3>2, <4>2, <5>1 DEF Directed
      <4>3. CASE ~(t = "main" /\ why = "entry")
        <5>1. Signed(side, 1) # EntrySign(s)' /\ SessionNet(s)' + Signed(side, amount) = 0
          BY <3>1, <3>3, <4>3 DEF Fits
        <5> QED
          BY <1>2, <1>4, <3>2, <4>1, <4>3, <5>1 DEF Directed
      <4> QED
        BY <4>2, <4>3
    <3>5. rows'[s] = <<>> => Own(s)' = {n}
      BY <1>0, <1>1, <3>1 DEF Fits
    <3> QED
      BY <1>0, <1>2, <1>4, <3>4, <3>5 DEF WorksOn
  <2>2. th'[t].pc \notin {"save", "push", "cancel"}
    BY <1>2, <1>4
  <2> QED
    BY <2>1, <2>2 DEF Works
<1>11. Works(Other(t))'
  <2>1. th[Other(t)].pc = "cancel" => th[Other(t)].net = 0
    BY <1>3, <1>6 DEF Exposure, Works
  <2> QED
    BY <1>3, <1>4, <1>7, <2>1, WorksQuiet
<1>12. \A u \in Threads : Works(u)'
  <2>1. ASSUME NEW u \in Threads PROVE Works(u)'
    <3>1. u = t \/ u = Other(t)
      BY <1>3
    <3> QED
      BY <1>10, <1>11, <3>1
  <2> QED
    BY <2>1
<1>13. t = "stop" => th["main"].pc \notin Outside
  BY <1>6 DEF Exposure, StopAt, Working
<1>14. /\ t = "main" => th'["main"] = h /\ th'["stop"] = th["stop"] /\ th["stop"].pc \notin Working
       /\ t = "stop" => th'["stop"] = h /\ th'["main"] = th["main"] /\ th["main"].pc \notin Working
  BY <1>4, <1>7 DEF Other
<1>15. "wait" \in Working /\ "push" \in Working /\ "wait" \in Listing /\ {"enter", "watch", "submit"} \subseteq Listing
  BY DEF Working, Listing, Open, Loop, Closer, Placed
<1>16. ToList' = ToList
  <2>1. \A u \in Threads : /\ th'[u].pc = "push" <=> th[u].pc = "push"
                           /\ th[u].pc = "push" => th'[u].ord = th[u].ord
    BY <1>2, <1>3, <1>4
  <2> QED
    BY <2>1, ToListSame
<1>17. ASSUME NEW s \in DOMAIN rows, sess = s PROVE LoopAt(s)'
  <2>1. LoopAt(s)
    BY <1>6, <1>17 DEF Exposure, Scene
  <2>2. HasLedger(s) => HasLedger(s)'
    BY <1>0, <1>1, <1>3, <1>16, HasLedgerStays
  <2>3. FlatOrPartial(s) => FlatOrPartial(s)'
    BY <1>1 DEF Calm
  <2>4. CASE t = "main"
    <3>1. th'["main"].pc = "wait" /\ HasLedger(s)'
      BY <1>0, <1>2, <1>14, <1>15, <2>1, <2>2, <2>4 DEF LoopAt
    <3> QED
      BY <3>1 DEF LoopAt
  <2>5. CASE t = "stop"
    <3>1. th'["main"] = th["main"] /\ th'["stop"].pc = "wait" /\ th["main"].pc \notin {"sleep", "enter"}
      BY <1>2, <1>13, <1>14, <2>5 DEF Outside
    <3> QED
      BY <1>0, <2>1, <2>2, <2>3, <3>1 DEF LoopAt
  <2> QED
    BY <2>4, <2>5 DEF Threads
<1>18. Scene'
  <2>1. CASE t = "main"
    <3>1. th'["main"].pc = "wait" /\ th'["stop"].pc \notin Working
      BY <1>2, <1>14, <2>1
    <3> QED
      BY <1>0, <1>6, <1>17, <3>1 DEF Scene, Exposure, Outside
  <2>2. CASE t = "stop"
    <3>1. th'["main"] = th["main"] /\ th["main"].pc \notin Working
      BY <1>14, <2>2
    <3> QED
      BY <1>0, <1>6, <1>17, <3>1 DEF Scene, Exposure
  <2> QED
    BY <2>1, <2>2 DEF Threads
<1>19. StopAt'
  <2>1. CASE t = "main"
    <3>1. th'["main"].pc = "wait" /\ th'["stop"].pc \notin Working
      BY <1>2, <1>14, <2>1
    <3> QED
      BY <3>1 DEF StopAt, Working, Outside
  <2>2. CASE t = "stop"
    <3>1. /\ th'["main"] = th["main"] /\ th'["stop"].pc = "wait" /\ th'["stop"].idx = th["stop"].idx
          /\ th["stop"].pc = "submit" /\ th["main"].pc \notin Outside
      BY <1>2, <1>13, <1>14, <2>2
    <3> QED
      BY <1>0, <1>6, <3>1 DEF StopAt, Exposure, Working, Outside
  <2> QED
    BY <2>1, <2>2 DEF Threads
<1> QED
  BY <1>8, <1>12, <1>18, <1>19 DEF Exposure

\* createOrder: accepted, accepted with the answer lost, refused.
LEMMA CreateExposure ==
  ASSUME EHyp, NEW t \in Threads, NEW side \in {"buy", "sell"}, NEW amount \in Nat \ {0},
         NEW idx \in Nat, idx <= Len(sessions), CreateOrder(t, side, amount, idx),
         th[t].pc \in {"enter", "watch", "submit"}, t = "stop" => th[t].pc = "submit" /\ idx = th[t].idx,
         UNCHANGED sqlite, overlap' \in {overlap, TRUE},
         Undisturbed' /\ Exposure =>
            /\ th[Other(t)].pc \notin Working
            /\ \A s \in DOMAIN sessions :
                  idx = s => Fits(t, s, side, amount, IF th[t].why = "none" THEN "entry" ELSE th[t].why)
  PROVE  EInv'
<1> DEFINE why == IF th[t].why = "none" THEN "entry" ELSE th[t].why
<1>1. CASE /\ book' = Append(book, NewOrder(side, amount, idx))
           /\ th' = [th EXCEPT ![t] = Sent(Len(book) + 1, idx, why)]
           /\ UNCHANGED <<alive, mem, sess, lost>>
  <2>1. UNCHANGED <<sessions, rows, alive, mem, sess, lost>>
    BY <1>1 DEF sqlite
  <2>2. overlap => overlap'
    BY DEF EHyp, SInv, Types, TypeOK
  <2>3. PICK w : w = why
    OBVIOUS
  <2>4. Undisturbed' /\ Exposure =>
            /\ th[Other(t)].pc \notin Working
            /\ \A s \in DOMAIN sessions : idx = s => Fits(t, s, side, amount, w)
    BY <2>3
  <2>5. Accepted(t, side, amount, idx, w)
    BY <1>1, <2>1, <2>3 DEF Accepted
  <2> HIDE DEF why
  <2> QED
    BY <2>2, <2>4, <2>5, AcceptExposure
<1>2. CASE /\ book' = Append(book, NewOrder(side, amount, idx)) /\ Throw(t, {Len(book) + 1})
  <2>1. lost' # {}
    BY <1>2 DEF Throw, Exit
  <2>2. Counts'
    BY <1>2, CountsAccepted DEF sqlite
  <2> QED
    BY <2>1, <2>2 DEF EInv, Undisturbed
<1>3. CASE Throw(t, {}) /\ book' = book
  <2>1. Calm /\ SameOrders
    BY <1>3, CalmSame DEF EHyp, SInv
  <2>2. CASE overlap' = overlap
    BY <1>3, <2>1, <2>2, ThrowExposure
  <2>3. CASE overlap' = TRUE
    <3>1. Counts'
      <4>1. Types /\ Counts /\ Types' /\ DOMAIN book' = DOMAIN book /\ sessions' = sessions
        BY <2>1 DEF EHyp, SInv, EInv, SameOrders, sqlite
      <4>2. Len(sessions) <= Len(sessions')
        BY <4>1 DEF Types, TypeOK
      <4> QED
        BY <2>1, <4>1, <4>2, CountsCalm
    <3> QED
      BY <2>3, <3>1 DEF EInv, Undisturbed
  <2> QED
    BY <2>2, <2>3
<1> QED
  BY <1>1, <1>2, <1>3 DEF CreateOrder, NewOrder, Sent

\* A list with an entry has a ledger with a row, and a session with an order.
LEMMA ListedFacts ==
  ASSUME SInv, NEW s \in DOMAIN rows, HasLedger(s), mem # <<>>
  PROVE  rows[s] # <<>> /\ Own(s) # {} /\ EntrySign(s) # 0
<1>1. Types /\ SavedIsFinal
  BY DEF SInv, Orders
<1>2. rows[s] # <<>>
  BY <1>1, EmptyIds DEF HasLedger, RowsOf
<1>3. Own(s) # {}
  BY <1>1, <1>2, RowsAreOwn
<1> QED
  BY <1>1, <1>2, <1>3, ExposureTypes

\* _openFirstPosition.
LEMMA EntryExposure ==
  ASSUME EHyp, OpenFirstPosition
  PROVE  EInv'
<1>1. PICK side \in {EntrySide(i) : i \in PriceInfo} : CreateOrder("main", side, Size, sess)
  BY DEF OpenFirstPosition
<1>2. side \in {"buy", "sell"}
  BY DEF EntrySide
<1>3. /\ th["main"].pc = "enter" /\ UNCHANGED sqlite
      /\ overlap' = (overlap \/ th["stop"].pc \in Working)
  BY DEF OpenFirstPosition, Overlaps, Other
<1>4. /\ sess \in Nat /\ sess <= Len(sessions) /\ Size \in Nat \ {0} /\ "main" \in Threads
      /\ overlap \in BOOLEAN /\ DOMAIN rows = DOMAIN sessions
  BY SizeAssumption DEF EHyp, SInv, Types, TypeOK, Threads
<1>5. overlap' \in {overlap, TRUE}
  BY <1>3, <1>4
<1>6. ASSUME Undisturbed', Exposure
      PROVE  /\ th[Other("main")].pc \notin Working
             /\ \A s \in DOMAIN sessions : sess = s =>
                   Fits("main", s, side, Size, IF th["main"].why = "none" THEN "entry" ELSE th["main"].why)
  <2>1. th[Other("main")].pc \notin Working
    BY <1>3, <1>6 DEF Undisturbed, Other
  <2>2. th["main"].why = "none"
    BY <1>3, <1>6 DEF Exposure, Scene
  <2>3. ASSUME NEW s \in DOMAIN sessions, sess = s PROVE Fits("main", s, side, Size, "entry")
    <3>1. LoopAt(s)
      BY <1>4, <1>6, <2>3 DEF Exposure, Scene
    <3>2. Own(s) = {}
      BY <1>3, <3>1 DEF LoopAt
    <3> QED
      BY <3>2 DEF Fits
  <2> QED
    BY <2>1, <2>2, <2>3
<1>7. Undisturbed' /\ Exposure =>
         /\ th[Other("main")].pc \notin Working
         /\ \A s \in DOMAIN sessions : sess = s =>
               Fits("main", s, side, Size, IF th["main"].why = "none" THEN "entry" ELSE th["main"].why)
  BY <1>6
<1> QED
  BY <1>1, <1>2, <1>3, <1>4, <1>5, <1>7, CreateExposure

\* A buy-back goes the way of the list's first order.
LEMMA BuyBackExposure ==
  ASSUME EHyp, WatchBuyBack
  PROVE  EInv'
<1> DEFINE side == book[mem[1].id].side
<1>1. CreateOrder("main", side, Size, sess) /\ th["main"].pc = "watch" /\ UNCHANGED sqlite
  BY DEF WatchBuyBack
<1>2. mem # <<>> /\ SInv
  BY <1>1 DEF EHyp, SInv, Control
<1>3. side \in {"buy", "sell"}
  <2>1. 1 \in DOMAIN mem
    BY <1>2 DEF SInv, Types, TypeOK
  <2>2. book[mem[1].id] \in Order
    BY <1>2, <2>1 DEF SInv, Orders, Known, Types, TypeOK
  <2> QED
    BY <2>2 DEF Order
<1>4. overlap' = (overlap \/ th["stop"].pc \in Working)
  BY DEF WatchBuyBack, Overlaps, Other
<1>5. /\ sess \in Nat /\ sess <= Len(sessions) /\ Size \in Nat \ {0} /\ "main" \in Threads
      /\ overlap \in BOOLEAN /\ DOMAIN rows = DOMAIN sessions
  BY SizeAssumption DEF EHyp, SInv, Types, TypeOK, Threads
<1>6. overlap' \in {overlap, TRUE}
  BY <1>4, <1>5
<1>7. ASSUME Undisturbed', Exposure
      PROVE  /\ th[Other("main")].pc \notin Working
             /\ \A s \in DOMAIN sessions : sess = s =>
                   Fits("main", s, side, Size, IF th["main"].why = "none" THEN "entry" ELSE th["main"].why)
  <2>1. th[Other("main")].pc \notin Working
    BY <1>4, <1>7 DEF Undisturbed, Other
  <2>2. th["main"].why = "none"
    BY <1>1, <1>7 DEF Exposure, Scene
  <2>3. ASSUME NEW s \in DOMAIN sessions, sess = s PROVE Fits("main", s, side, Size, "entry")
    <3>1. LoopAt(s) /\ s \in DOMAIN rows
      BY <1>5, <1>7, <2>3 DEF Exposure, Scene
    <3>2. HasLedger(s)
      BY <1>1, <3>1 DEF LoopAt, Listing, Open, Loop
    <3>3. Signed(side, 1) = EntrySign(s) /\ rows[s] # <<>>
      BY <1>2, <3>1, <3>2, ListedFacts DEF HasLedger
    <3> QED
      BY <3>3 DEF Fits
  <2> QED
    BY <2>1, <2>2, <2>3
<1>8. Undisturbed' /\ Exposure =>
         /\ th[Other("main")].pc \notin Working
         /\ \A s \in DOMAIN sessions : sess = s =>
               Fits("main", s, side, Size, IF th["main"].why = "none" THEN "entry" ELSE th["main"].why)
  BY <1>7
<1> HIDE DEF side
<1> QED
  BY <1>1, <1>3, <1>5, <1>6, <1>8, CreateExposure

\* The closing order is the exposure, turned round.
LEMMA TurnedRound ==
  ASSUME NEW net \in Int, net # 0, NEW e \in {-1, 0, 1}, e # 0, net * e >= 0
  PROVE  LET side == IF net > 0 THEN "sell" ELSE "buy"
             amount == IF net > 0 THEN net ELSE -net
         IN /\ side \in {"buy", "sell"} /\ amount \in Nat \ {0}
            /\ Signed(side, 1) # e
            /\ net + Signed(side, amount) = 0
<1>1. CASE net > 0
  <2>1. e = 1
    BY <1>1
  <2> QED
    BY <1>1, <2>1 DEF Signed
<1>2. CASE ~(net > 0)
  <2>1. e = -1
    <3>1. net < 0
      BY <1>2
    <3> QED
      BY <3>1
  <2> QED
    BY <1>2, <2>1 DEF Signed
<1> QED
  BY <1>1, <1>2

\* The closing order is sent.
LEMMA SubmitExposure ==
  ASSUME EHyp, NEW t \in Threads, SubmitClosingOrder(t)
  PROVE  EInv'
<1> DEFINE net == th[t].net
           side == IF net > 0 THEN "sell" ELSE "buy"
           amount == IF net > 0 THEN net ELSE -net
           idx == th[t].idx
           why == IF th[t].why = "none" THEN "entry" ELSE th[t].why
<1>1. th[t].pc = "submit" /\ CreateOrder(t, side, amount, idx) /\ UNCHANGED sqlite /\ overlap' = overlap
  BY DEF SubmitClosingOrder
<1>2. th[t] \in Thread /\ Responsible(th[t]) /\ Types /\ SInv /\ DOMAIN rows = DOMAIN sessions
  <2>1. SInv /\ Types /\ Responsible(th[t])
    BY DEF EHyp, SInv, Orders
  <2> QED
    BY <2>1 DEF Types, TypeOK
<1>3. net \in Int /\ net # 0 /\ idx \in Nat /\ idx <= Len(sessions)
  BY <1>1, <1>2 DEF Thread, Responsible
<1>4. side \in {"buy", "sell"} /\ amount \in Nat \ {0}
  <2> HIDE DEF net
  <2> QED
    BY <1>3
<1>5. ASSUME Exposure
      PROVE  /\ th[Other(t)].pc \notin Working
             /\ \A s \in DOMAIN sessions : idx = s => Fits(t, s, side, amount, why)
  <2>1. th[Other(t)].pc \notin Working
    BY <1>1, <1>5 DEF Exposure, Scene, Working, Other, Threads
  <2>2. ~(t = "main" /\ why = "entry")
    BY <1>1 DEF EHyp, SInv, Control, Closer, AtClose
  <2>3. ASSUME NEW s \in DOMAIN sessions, idx = s PROVE Fits(t, s, side, amount, why)
    <3>1. WorksOn(t, s)
      BY <1>5, <2>3 DEF Exposure, Works
    <3>2. net = SessionNet(s) /\ rows[s] # <<>>
      BY <1>1, <3>1 DEF WorksOn
    <3>3. SessionNet(s) * EntrySign(s) >= 0
      BY <1>5 DEF Exposure, Ledger
    <3>4. Own(s) # {}
      BY <1>2, <3>2, RowsAreOwn DEF SInv, Orders
    <3>5. EntrySign(s) \in {-1, 0, 1} /\ EntrySign(s) # 0
      BY <1>2, <3>4, ExposureTypes
    <3>6. Signed(side, 1) # EntrySign(s) /\ net + Signed(side, amount) = 0
      <4> DEFINE e == EntrySign(s)
      <4>1. e \in {-1, 0, 1} /\ e # 0 /\ net * e >= 0
        BY <3>2, <3>3, <3>5
      <4> HIDE DEF e, net
      <4> QED
        BY <1>3, <4>1, TurnedRound DEF e
    <3> HIDE DEF net, side, amount, why
    <3> QED
      BY <2>2, <3>2, <3>4, <3>6 DEF Fits
  <2> QED
    BY <2>1, <2>3
<1>6. Undisturbed' /\ Exposure =>
         /\ th[Other(t)].pc \notin Working
         /\ \A s \in DOMAIN sessions : idx = s =>
               Fits(t, s, side, amount, IF th[t].why = "none" THEN "entry" ELSE th[t].why)
  BY <1>5
<1>7. overlap' \in {overlap, TRUE} /\ th[t].pc \in {"enter", "watch", "submit"} /\ (t = "stop" => th[t].pc = "submit" /\ idx = th[t].idx)
  BY <1>1
<1> HIDE DEF net, side, amount, idx
<1> QED
  BY <1>1, <1>3, <1>4, <1>6, <1>7, CreateExposure

-----------------------------------------------------------------------------
(***************************************************************************)
(* Saving an executed order, and putting it on the list.                   *)
(***************************************************************************)
\* A thread saves and lists for the session the process has.
LEMMA AtHome ==
  ASSUME EHyp, Exposure, NEW t \in Threads, th[t].pc \in {"save", "push"}, th[t].idx # 0
  PROVE  /\ th[t].idx = sess /\ sess \in DOMAIN rows /\ sess \in DOMAIN sessions
         /\ th[Other(t)].pc \notin Working
         /\ t = "stop" => th["main"].pc \notin Outside
         /\ WorksOn(t, sess)
         /\ Works(Other(t))
<1>1. th[t] \in Thread /\ Responsible(th[t]) /\ DOMAIN rows = DOMAIN sessions
  BY DEF EHyp, SInv, Types, TypeOK, Orders
<1>2. th[t].idx = sess
  <2>1. CASE t = "main"
    BY <2>1 DEF EHyp, Mirror, Placed
  <2>2. CASE t = "stop"
    BY <2>2 DEF Exposure, StopAt, Working, Outside, Working
  <2> QED
    BY <2>1, <2>2 DEF Threads
<1>3. sess \in DOMAIN sessions
  <2>1. sess \in Nat /\ sess <= Len(sessions) /\ DOMAIN sessions = 1..Len(sessions) /\ Len(sessions) \in Nat
    BY DEF EHyp, SInv, Types, TypeOK
  <2>2. sess # 0
    BY <1>2
  <2> QED
    BY <2>1, <2>2
<1>4. th[Other(t)].pc \notin Working
  BY DEF Exposure, Scene, Working, Other, Threads
<1>5. t = "stop" => th["main"].pc \notin Outside
  BY DEF Exposure, StopAt, Working
<1>6. WorksOn(t, sess) /\ Works(Other(t))
  BY <1>2, <1>3, TwoThreads DEF Exposure, Works
<1> QED
  BY <1>1, <1>2, <1>3, <1>4, <1>5, <1>6

\* The first of one element.
LEMMA OnlyOwn ==
  ASSUME Types, NEW s, NEW o \in DOMAIN book, Own(s) = {o}
  PROVE  EntrySign(s) = Signed(book[o].side, 1)
<1>1. o \in Nat
  BY DEF Types, TypeOK
<1>2. Min({o}) = o
  BY <1>1 DEF Min
<1>3. OwnIn(book, s) = {o}
  BY OwnAndSign
<1> QED
  BY <1>2, <1>3, OwnAndSign DEF SignIn

\* _saveActivatedOrder.
LEMMA SaveExposure ==
  ASSUME EHyp, NEW t \in Threads, SaveActivatedOrder(t)
  PROVE  EInv'
<1> DEFINE o == th[t].ord
           r == CreateOrderRow(o)
           h == [th[t] EXCEPT !.pc = "push"]
<1>1. /\ th[t].pc = "save" /\ th' = [th EXCEPT ![t].pc = "push"]
      /\ UNCHANGED <<book, sessions, alive, mem, sess, overlap>>
      /\ \/ /\ th[t].idx # 0 /\ lost' = lost
            /\ rows' = [rows EXCEPT ![th[t].idx] = Append(@, r)]
         \/ lost' = lost \cup {o}
  BY DEF SaveActivatedOrder
<1>2. Calm /\ SameOrders
  BY <1>1, CalmSame DEF EHyp, SInv
<1>3. Counts'
  <2>1. Types /\ Counts /\ Types' /\ DOMAIN book' = DOMAIN book
    BY <1>2 DEF EHyp, SInv, EInv, SameOrders
  <2>2. Len(sessions) <= Len(sessions')
    BY <1>1, <2>1 DEF Types, TypeOK
  <2> QED
    BY <1>2, <2>1, <2>2, CountsCalm
<1>4. SUFFICES ASSUME Undisturbed' PROVE Exposure'
  BY <1>3 DEF EInv
<1>5. th[t].idx # 0 /\ lost' = lost /\ rows' = [rows EXCEPT ![th[t].idx] = Append(@, r)]
  BY <1>1, <1>4 DEF Undisturbed
<1>6. Exposure
  BY <1>1, <1>4, <1>5, UndisturbedBefore DEF EHyp
<1>7. /\ th[t].idx = sess /\ sess \in DOMAIN rows /\ sess \in DOMAIN sessions
      /\ th[Other(t)].pc \notin Working
      /\ t = "stop" => th["main"].pc \notin Outside
      /\ WorksOn(t, sess)
      /\ Works(Other(t))
  BY <1>1, <1>5, <1>6, AtHome
<1>8. /\ th[t] \in Thread /\ th \in [Threads -> Thread] /\ Responsible(th[t])
      /\ Types /\ Types' /\ SavedIsFinal /\ SavedIsFinal' /\ SInv
      /\ Other(t) \in Threads /\ Other(t) # t /\ \A u \in Threads : u = t \/ u = Other(t)
  BY TwoThreads DEF EHyp, SInv, Types, TypeOK, Orders
<1>9. /\ h \in Thread /\ h.pc = "push" /\ h.why = th[t].why /\ h.ord = o
      /\ h.idx = th[t].idx
  <2>1. "push" \in Steps
    BY DEF Steps, Working
  <2> QED
    BY <1>8, <2>1, PcFacts
<1>10. th'[t] = h /\ th'[Other(t)] = th[Other(t)]
  BY <1>1, <1>8
<1> HIDE DEF h
<1>11. /\ o \in DOMAIN book /\ o \notin Ids(rows[sess]) /\ r.id = o /\ r.side = book[o].side
  <2>1. o \in DOMAIN book /\ ~IsSaved(o)
    BY <1>1, <1>8 DEF Responsible, Placed, Pending
  <2>2. o \notin Ids(rows[sess])
    BY <1>7, <2>1, SavedMeans DEF Ids
  <2> QED
    BY <2>1, <2>2 DEF CreateOrderRow
<1>12. r \in Row
  <2>1. book \in Seq(Order) /\ o \in DOMAIN book
    BY <1>8, <1>11 DEF Types, TypeOK
  <2> HIDE DEF o
  <2>2. book[o] \in Order /\ o \in Nat \ {0}
    BY <2>1
  <2> QED
    BY <2>2 DEF CreateOrderRow, Row, Order
<1> DEFINE q == rows[sess]
<1> HIDE DEF r, o
<1>13. /\ q \in Seq(Row) /\ rows'[sess] = Append(q, r) /\ \A s \in DOMAIN rows : s # sess => rows'[s] = rows[s]
       /\ DOMAIN rows' = DOMAIN rows
  BY <1>5, <1>7, <1>8 DEF Types, TypeOK
<1> HIDE DEF q
<1>14. /\ DOMAIN Append(q, r) = DOMAIN q \cup {Len(q) + 1}
       /\ \A i \in DOMAIN q : Append(q, r)[i] = q[i]
       /\ Append(q, r)[Len(q) + 1] = r
       /\ Append(q, r) # <<>>
  BY <1>12, <1>13, AppendFacts
<1>15. q # <<>> => 1 \in DOMAIN q /\ Append(q, r)[1] = q[1]
  BY <1>13, <1>14
<1>16. q = <<>> => Append(q, r)[1] = r /\ Own(sess) = {o}
  <2>1. q = <<>> => Len(q) = 0
    OBVIOUS
  <2>2. q = <<>> => Own(sess) = {o}
    BY <1>1, <1>7 DEF WorksOn, Pending, q, o
  <2> QED
    BY <1>14, <2>1, <2>2
<1>17. \A s : SessionNet(s)' = SessionNet(s) /\ EntrySign(s)' = EntrySign(s) /\ Own(s)' = Own(s)
             /\ (FlatOrPartial(s) => FlatOrPartial(s)')
  BY <1>2 DEF Calm, SameOrders
<1>18. Ledger'
  <2>1. ASSUME NEW s \in DOMAIN rows', NEW i \in DOMAIN rows'[s]
        PROVE  rows'[s][i].side = book'[rows'[s][i].id].side
    <3>1. CASE s = sess
      <4>1. CASE i \in DOMAIN q
        BY <1>1, <1>6, <1>7, <1>13, <1>14, <3>1, <4>1 DEF Exposure, Ledger, q
      <4>2. CASE i = Len(q) + 1
        BY <1>1, <1>11, <1>13, <1>14, <3>1, <4>2
      <4> QED
        BY <1>13, <1>14, <2>1, <3>1, <4>1, <4>2
    <3>2. CASE s # sess
      BY <1>1, <1>6, <1>13, <2>1, <3>2 DEF Exposure, Ledger
    <3> QED
      BY <3>1, <3>2
  <2>2. ASSUME NEW s \in DOMAIN rows', rows'[s] # <<>>
        PROVE  Signed(book'[rows'[s][1].id].side, 1) = EntrySign(s)'
    <3>1. CASE s = sess
      <4>1. CASE q = <<>>
        BY <1>1, <1>8, <1>11, <1>13, <1>16, <1>17, <3>1, <4>1, OnlyOwn
      <4>2. CASE q # <<>>
        BY <1>1, <1>6, <1>7, <1>13, <1>15, <1>17, <3>1, <4>2 DEF Exposure, Ledger, q
      <4> QED
        BY <4>1, <4>2
    <3>2. CASE s # sess
      BY <1>1, <1>6, <1>13, <1>17, <2>2, <3>2 DEF Exposure, Ledger
    <3> QED
      BY <3>1, <3>2
  <2>3. /\ \A s \in DOMAIN sessions' : SessionNet(s)' * EntrySign(s)' >= 0
        /\ \A s \in DOMAIN sessions' : sessions'[s] = "ended" => FlatOrPartial(s)'
    BY <1>1, <1>6, <1>17 DEF Exposure, Ledger
  <2> QED
    BY <2>1, <2>2, <2>3 DEF Ledger
<1>19. Works(t)'
  <2>1. ASSUME NEW s \in DOMAIN sessions', th'[t].idx = s PROVE WorksOn(t, s)'
    <3>1. s = sess
      BY <1>7, <1>9, <1>10, <2>1
    <3>2. Directed(t, s)
      BY <1>1, <1>7, <3>1 DEF WorksOn, Placed
    <3>3. Directed(t, s)'
      BY <1>1, <1>9, <1>10, <1>17, <3>2 DEF Directed, o
    <3>4. rows'[s] # <<>>
      BY <1>13, <1>14, <3>1
    <3> QED
      BY <1>9, <1>10, <3>3, <3>4 DEF WorksOn, Pending
  <2>2. book[o].status # "open" /\ book[o].filled > 0
    BY <1>1, <1>6 DEF Exposure, Works, o
  <2>3. th'[t].pc = "push" /\ th'[t].idx # 0 /\ th'[t].ord = o
    BY <1>5, <1>9, <1>10
  <2> QED
    BY <1>1, <2>1, <2>2, <2>3 DEF Works
<1>20. \A u \in Threads : Works(u)'
  <2>1. Works(Other(t))'
    <3>1. th[Other(t)].pc = "cancel" => th[Other(t)].net = 0
      BY <1>7 DEF Works
    <3> QED
      BY <1>7, <1>8, <1>10, <3>1, WorksQuiet
  <2>2. ASSUME NEW u \in Threads PROVE Works(u)'
    <3>1. u = t \/ u = Other(t)
      BY <1>8
    <3> QED
      BY <1>19, <2>1, <3>1
  <2> QED
    BY <2>2
<1>21. ToList = {} /\ ToList' = {o}
  <2>1. \A u \in Threads : th[u].pc # "push" /\ (th'[u].pc = "push" <=> u = t)
    BY <1>1, <1>7, <1>8, <1>9, <1>10 DEF Working
  <2> QED
    BY <1>9, <1>10, <2>1 DEF ToList
<1>22. ASSUME NEW s, sess = s, HasLedger(s) PROVE HasLedger(s)'
  <2>1. Ids(rows'[s]) = Ids(q) \cup {o}
    <3>1. Ids(Append(q, r)) = Ids(q) \cup {r.id}
      BY <1>12, <1>13, AppendedIds
    <3>2. rows'[s] = Append(q, r)
      BY <1>13, <1>22
    <3> QED
      BY <1>11, <3>1, <3>2
  <2>2. Ids(q) = Ids(mem) /\ Distinct(mem)
    BY <1>21, <1>22 DEF HasLedger, q
  <2>3. o \notin Ids(mem)
    BY <1>11, <2>2 DEF q
  <2>4. mem # <<>> => Signed(book'[mem[1].id].side, 1) = EntrySign(s)'
    BY <1>1, <1>17, <1>22 DEF HasLedger
  <2>5. Ids(rows[s])' = Ids(rows'[s]) /\ Ids(mem)' = Ids(mem) /\ (Distinct(mem) => Distinct(mem)') /\ mem' = mem
    BY <1>1 DEF Ids, Distinct
  <2> QED
    BY <1>21, <2>1, <2>2, <2>3, <2>4, <2>5 DEF HasLedger
<1>23. /\ t = "main" => th'["main"].pc = "push" /\ th'["stop"] = th["stop"] /\ th["stop"].pc \notin Working
       /\ t = "stop" => /\ th'["stop"].pc = "push" /\ th'["stop"].idx = th["stop"].idx
                        /\ th'["main"] = th["main"] /\ th["main"].pc \notin Working
  BY <1>7, <1>9, <1>10 DEF Other
<1>24. ASSUME NEW s \in DOMAIN rows', sess' = s PROVE LoopAt(s)'
  <2>1. LoopAt(s)
    BY <1>1, <1>6, <1>13, <1>24 DEF Exposure, Scene
  <2>2. CASE t = "main"
    <3>1. HasLedger(s)'
      BY <1>1, <1>22, <1>24, <2>1, <2>2 DEF LoopAt, Listing, Open, Loop, Placed
    <3> QED
      BY <1>23, <2>2, <3>1 DEF LoopAt
  <2>3. CASE t = "stop"
    <3>1. th["main"].pc \notin Outside
      BY <1>7, <2>3
    <3>2. th["main"].pc \in Listing => HasLedger(s)'
      BY <1>1, <1>22, <1>24, <2>1 DEF LoopAt
    <3>3. th["main"].pc \in {"end", "ending"} => FlatOrPartial(s)'
      BY <1>17, <2>1 DEF LoopAt
    <3> QED
      BY <1>23, <2>3, <3>1, <3>2, <3>3 DEF LoopAt, Outside
  <2> QED
    BY <2>2, <2>3 DEF Threads
<1>25. Scene'
  <2>1. CASE t = "main"
    BY <1>1, <1>6, <1>23, <1>24, <2>1 DEF Scene, Exposure, Outside
  <2>2. CASE t = "stop"
    BY <1>1, <1>6, <1>23, <1>24, <2>2 DEF Scene, Exposure
  <2> QED
    BY <2>1, <2>2 DEF Threads
<1>26. StopAt'
  <2>1. CASE t = "main"
    BY <1>23, <2>1 DEF StopAt, Working, Outside
  <2>2. CASE t = "stop"
    <3>1. th'["main"].pc \notin Outside /\ th'["stop"].idx = sess'
      BY <1>1, <1>7, <1>23, <2>2
    <3> QED
      BY <1>23, <2>2, <3>1 DEF StopAt, Outside
  <2> QED
    BY <2>1, <2>2 DEF Threads
<1> QED
  BY <1>18, <1>20, <1>25, <1>26 DEF Exposure

\* A closing order that is done leaves the session flat, or was cut short.
LEMMA ClosedOut ==
  ASSUME Types, Counts, NEW t \in Threads, NEW s, Directed(t, s), ~(t = "main" /\ th[t].why = "entry"),
         th[t].ord \in DOMAIN book, book[th[t].ord].sess = s,
         book[th[t].ord].status # "open", book[th[t].ord].filled > 0
  PROVE  FlatOrPartial(s)
<1> DEFINE o == th[t].ord
<1>1. book[o] \in Order /\ SessionNet(s) \in Int
  BY ExposureTypes DEF Types, TypeOK
<1>2. Signed(book[o].side, 1) # EntrySign(s) /\ SessionNet(s) + Signed(book[o].side, book[o].amount - book[o].filled) = 0
  BY DEF Directed
<1>3. book[o].filled <= book[o].amount /\ (book[o].status = "closed" <=> book[o].filled = book[o].amount)
  BY DEF Counts
<1>4. CASE book[o].filled = book[o].amount
  <2>1. Signed(book[o].side, book[o].amount - book[o].filled) = 0
    BY <1>1, <1>4 DEF Order, Signed
  <2> QED
    BY <1>1, <1>2, <2>1 DEF FlatOrPartial
<1>5. CASE book[o].filled # book[o].amount
  <2>1. book[o].status = "canceled" /\ book[o].filled \in 1..(book[o].amount - 1)
    BY <1>1, <1>3, <1>5 DEF Order
  <2> QED
    BY <1>2, <2>1 DEF FlatOrPartial, Partial
<1> QED
  BY <1>4, <1>5

\* addOrder: the saved order goes on the list.
LEMMA PushExposure ==
  ASSUME EHyp, NEW t \in Threads, PushOrder(t)
  PROVE  EInv'
<1> DEFINE m == [id |-> th[t].ord, restored |-> FALSE]
           u == Other(t)
           R == Resumed(t, TRUE)
           q == IF th[u].pc = "fetch" /\ th[u].live THEN Append(th[u].rest, m) ELSE th[u].rest
           g == [th[u] EXCEPT !.rest = q]
           o == th[t].ord
<1>1. /\ th[t].pc = "push" /\ mem' = Append(mem, m)
      /\ th' = [th EXCEPT ![t] = R,
                          ![u].rest = IF th[u].pc = "fetch" /\ th[u].live THEN Append(@, m) ELSE @]
      /\ UNCHANGED <<book, sessions, rows, alive, sess, lost, overlap>>
  BY DEF PushOrder, sqlite
<1>2. /\ u \in Threads /\ u # t /\ (\A x \in Threads : x = t \/ x = u)
      /\ th \in [Threads -> Thread] /\ th[t] \in Thread /\ th[u] \in Thread /\ mem \in Seq(Held)
      /\ Types /\ Types' /\ SavedIsFinal /\ SInv /\ Responsible(th[t]) /\ Counts
  BY TwoThreads DEF EHyp, SInv, Types, TypeOK, Orders, EInv
<1>3. Calm /\ SameOrders
  BY <1>1, <1>2, CalmSame
<1>4. SUFFICES ASSUME Undisturbed' PROVE Exposure'
  <2>1. Len(sessions) <= Len(sessions')
    BY <1>1, <1>2 DEF Types, TypeOK
  <2>2. Counts'
    BY <1>2, <1>3, <2>1, CountsCalm DEF SameOrders
  <2> QED
    BY <2>2 DEF EInv
<1>5. Exposure
  BY <1>1, <1>4, UndisturbedBefore DEF EHyp
<1>6. m \in Held /\ m.id = o /\ o \in DOMAIN book /\ book[o].sess = th[t].idx
  <2>1. o \in DOMAIN book /\ book[o].sess = th[t].idx
    BY <1>1, <1>2 DEF Responsible, Placed
  <2>2. o \in Nat \ {0}
    BY <1>2, <2>1 DEF Types, TypeOK
  <2> QED
    BY <2>1, <2>2 DEF Held
<1>7. PICK p \in {"dispose", "watch", "end", "done", "sleep"} :
         /\ R = At(p)
         /\ t = "stop" => p = "dispose"
         /\ t = "main" => p \in {"watch", "end"}
  BY ResumedFacts
<1>8. p \in Steps
  BY <1>7 DEF Steps
<1>9. R.pc = p /\ R.why = "none"
  BY <1>7, <1>8, AtFacts
<1>10. t = "main" /\ p = "end" => th[t].why # "entry"
  <2>1. SUFFICES ASSUME t = "main", p = "end", th[t].why = "entry" PROVE FALSE
    OBVIOUS
  <2>2. R = At("watch")
    BY <2>1 DEF Resumed
  <2>3. "watch" \in Steps
    BY DEF Steps
  <2>4. R.pc = "watch"
    BY <2>2, <2>3, AtFacts
  <2> HIDE DEF R
  <2> QED
    BY <1>9, <2>1, <2>4
<1> HIDE DEF m, R
<1>11. g.pc = th[u].pc /\ g.why = th[u].why /\ g.net = th[u].net
  <2>1. \A x \in Thread : \A r :
           /\ [x EXCEPT !.rest = r].pc = x.pc /\ [x EXCEPT !.rest = r].why = x.why
           /\ [x EXCEPT !.rest = r].net = x.net
    BY DEF Thread
  <2> HIDE DEF q, u
  <2> QED
    BY <1>2, <2>1
<1>12. th'[t] = R /\ th'[u] = g
  <2>1. th' = [th EXCEPT ![t] = R, ![u] = g]
    BY <1>1, <1>2
  <2> HIDE DEF g, u
  <2> QED
    BY <1>2, <2>1
<1>13. t = "main" => u = "stop"
  BY DEF Other
<1>14. t = "stop" => u = "main"
  BY DEF Other
<1>15. th[t].idx # 0
  BY <1>1, <1>5 DEF Exposure, Works
<1>16. /\ th[t].idx = sess /\ sess \in DOMAIN rows /\ sess \in DOMAIN sessions
       /\ th[u].pc \notin Working
       /\ t = "stop" => th["main"].pc \notin Outside
       /\ WorksOn(t, sess)
       /\ Works(u)
  BY <1>1, <1>5, <1>15, AtHome
<1> HIDE DEF g, u
<1>17. p \notin Working /\ "push" \in Working
  BY DEF Working
<1>18. /\ t = "main" => /\ th'["main"].pc \in {"watch", "end"} /\ th'["main"].why = "none"
                        /\ th'["stop"].pc = th["stop"].pc /\ th["stop"].pc \notin Working
       /\ t = "stop" => /\ th'["stop"].pc = "dispose" /\ th'["main"].pc = th["main"].pc
                        /\ th'["main"].why = th["main"].why /\ th["main"].pc \notin Working
  BY <1>7, <1>9, <1>11, <1>12, <1>13, <1>14, <1>16
<1>19. ToList = {o} /\ ToList' = {}
  <2>1. \A x \in Threads : (th[x].pc = "push" <=> x = t) /\ th'[x].pc # "push"
    <3>1. th[u].pc # "push" /\ th'[t].pc # "push" /\ th'[u].pc # "push"
      BY <1>9, <1>11, <1>12, <1>16, <1>17
    <3> QED
      BY <1>1, <1>2, <3>1
  <2> QED
    BY <2>1 DEF ToList
<1>20. Ledger'
  BY <1>1, <1>2, <1>3, <1>5, LedgerCalm DEF Exposure
<1>21. \A x \in Threads : Works(x)'
  <2>1. Works(t)'
    BY <1>7, <1>9, <1>12, <1>17, WorksQuiet
  <2>2. Works(u)'
    <3>1. th[u].pc = "cancel" => th[u].net = 0
      BY <1>16 DEF Works
    <3> QED
      BY <1>2, <1>11, <1>12, <1>16, <3>1, WorksQuiet
  <2>3. ASSUME NEW x \in Threads PROVE Works(x)'
    <3>1. x = t \/ x = u
      BY <1>2
    <3> QED
      BY <2>1, <2>2, <3>1
  <2> QED
    BY <2>3
<1>22. mem' # <<>> /\ (mem = <<>> => mem'[1] = m) /\ (mem # <<>> => mem'[1] = mem[1])
  <2>1. /\ DOMAIN Append(mem, m) = DOMAIN mem \cup {Len(mem) + 1}
        /\ \A i \in DOMAIN mem : Append(mem, m)[i] = mem[i]
        /\ Append(mem, m)[Len(mem) + 1] = m /\ Append(mem, m) # <<>>
    BY <1>2, <1>6, AppendFacts
  <2>2. mem = <<>> => Len(mem) = 0
    OBVIOUS
  <2>3. mem # <<>> => 1 \in DOMAIN mem
    BY <1>2
  <2> QED
    BY <1>1, <2>1, <2>2, <2>3
<1>23. ASSUME NEW s, sess = s, HasLedger(s) PROVE HasLedger(s)'
  <2>1. Ids(rows[s]) = Ids(mem) \cup {o} /\ o \notin Ids(mem) /\ Distinct(mem)
    BY <1>19, <1>23 DEF HasLedger
  <2>2. Ids(mem') = Ids(mem) \cup {o} /\ Distinct(mem')
    <3>1. Ids(Append(mem, m)) = Ids(mem) \cup {m.id} /\ (Distinct(mem) /\ m.id \notin Ids(mem) => Distinct(Append(mem, m)))
      BY <1>2, <1>6, AppendedIds
    <3> QED
      BY <1>1, <1>6, <2>1, <3>1
  <2>3. Ids(mem)' = Ids(mem') /\ (Distinct(mem') => Distinct(mem)') /\ Ids(rows[s])' = Ids(rows[s])
    BY <1>1 DEF Ids, Distinct
  <2>4. EntrySign(s)' = EntrySign(s) /\ book' = book /\ rows' = rows
    BY <1>1, <1>3 DEF SameOrders
  <2>5. Signed(book[mem'[1].id].side, 1) = EntrySign(s)
    <3>1. CASE mem # <<>>
      BY <1>22, <1>23, <3>1 DEF HasLedger
    <3>2. CASE mem = <<>>
      <4>1. Ids(mem) = {}
        BY <1>2, <3>2, EmptyIds
      <4>2. rows[s] # <<>> /\ s \in DOMAIN rows
        BY <1>1, <1>16, <1>23 DEF WorksOn
      <4>3. 1 \in DOMAIN rows[s] /\ Signed(book[rows[s][1].id].side, 1) = EntrySign(s)
        BY <1>2, <1>5, <4>2, RowsAreOwn DEF Exposure, Ledger
      <4>4. rows[s][1].id \in Ids(rows[s])
        BY <4>3 DEF Ids
      <4>5. rows[s][1].id = o
        BY <2>1, <4>1, <4>4
      <4> QED
        BY <1>6, <1>22, <3>2, <4>3, <4>5
    <3> QED
      BY <3>1, <3>2
  <2> HIDE DEF o
  <2> QED
    BY <1>19, <2>1, <2>2, <2>3, <2>4, <2>5 DEF HasLedger
<1>24. ASSUME NEW s \in DOMAIN rows', sess' = s PROVE LoopAt(s)'
  <2>1. LoopAt(s) /\ sess = s
    BY <1>1, <1>5, <1>24 DEF Exposure, Scene
  <2>2. FlatOrPartial(s) => FlatOrPartial(s)'
    BY <1>3 DEF Calm
  <2>3. CASE t = "main"
    <3>1. HasLedger(s)'
      BY <1>1, <1>23, <2>1, <2>3 DEF LoopAt, Listing, Open, Loop, Placed
    <3>2. p = "end" => FlatOrPartial(s)
      <4>1. Directed(t, s) /\ book[o].sess = s
        BY <1>1, <1>6, <1>16, <2>1 DEF WorksOn, Placed
      <4>2. book[o].status # "open" /\ book[o].filled > 0
        BY <1>1, <1>5 DEF Exposure, Works
      <4> QED
        BY <1>2, <1>6, <1>10, <2>3, <4>1, <4>2, ClosedOut
    <3>3. th'["main"].pc \in {"watch", "end"} /\ (th'["main"].pc = "end" => p = "end")
      BY <1>9, <1>12, <1>18, <2>3
    <3> QED
      BY <2>2, <3>1, <3>2, <3>3 DEF LoopAt
  <2>4. CASE t = "stop"
    <3>1. th["main"].pc \notin Outside
      BY <1>16, <2>4
    <3>2. th["main"].pc \in Listing => HasLedger(s)'
      BY <1>23, <2>1 DEF LoopAt
    <3>3. th["main"].pc \in {"end", "ending"} => FlatOrPartial(s)'
      BY <2>1, <2>2 DEF LoopAt
    <3> QED
      BY <1>18, <2>4, <3>1, <3>2, <3>3 DEF LoopAt, Outside
  <2> QED
    BY <2>3, <2>4 DEF Threads
<1>25. Scene'
  <2>1. sess' # 0
    BY <1>1, <1>15, <1>16
  <2>2. CASE t = "main"
    BY <1>17, <1>18, <1>24, <2>1, <2>2 DEF Scene, Working, Outside
  <2>3. CASE t = "stop"
    BY <1>1, <1>5, <1>16, <1>18, <1>24, <2>1, <2>3 DEF Scene, Exposure, Outside
  <2> QED
    BY <2>2, <2>3 DEF Threads
<1>26. StopAt'
  BY <1>18 DEF StopAt, Working, Outside, Threads
<1> QED
  BY <1>20, <1>21, <1>25, <1>26 DEF Exposure

-----------------------------------------------------------------------------
(***************************************************************************)
(* Sessions that begin, are restored and end.                              *)
(***************************************************************************)
\* The loop is between two orders, and the stop request where it was.
LoopOnly ==
    /\ th'["main"].pc \notin Working \cup {"cancel"}
    /\ SameWork("stop") /\ th'["stop"].why = th["stop"].why

\* What the threads know of their orders, when the loop is at none.
LEMMA BothWork ==
  ASSUME EHyp, Exposure, LoopOnly, book' = book, DOMAIN sessions \subseteq DOMAIN sessions',
         \A s \in DOMAIN sessions : rows'[s] = rows[s]
  PROVE  \A t \in Threads : Works(t)'
<1>1. Works("main")'
  BY WorksQuiet DEF LoopOnly, Threads
<1>2. Works("stop")'
  <2>1. Types /\ Orders /\ Types' /\ Works("stop") /\ "stop" \in Threads
    BY DEF EHyp, SInv, Exposure, Threads
  <2>2. Calm /\ \A s \in DOMAIN sessions : rows'[s] = rows[s] /\ Own(s)' = Own(s)
    BY <2>1, CalmSame DEF SameOrders
  <2> QED
    BY <2>1, <2>2, WorksCalm DEF LoopOnly
<1> QED
  BY <1>1, <1>2 DEF Threads

\* Nothing is accepted or saved, and a session that ends is flat or was cut short.
LEMMA BooksEnd ==
  ASSUME EHyp, book' = book, rows' = rows, DOMAIN sessions' = DOMAIN sessions,
         Len(sessions') = Len(sessions),
         Exposure => \A s \in DOMAIN sessions :
                        sessions'[s] = "ended" => sessions[s] = "ended" \/ FlatOrPartial(s)
  PROVE  Counts' /\ (Exposure => Ledger')
<1>1. Types /\ SavedIsFinal /\ Types' /\ Counts
  BY DEF EHyp, SInv, Orders, EInv
<1>2. Calm /\ DOMAIN book' = DOMAIN book
  BY <1>1, CalmSame DEF SameOrders
<1>3. Counts'
  <2>1. Len(sessions) <= Len(sessions')
    BY <1>1 DEF Types, TypeOK
  <2> QED
    BY <1>1, <1>2, <2>1, CountsCalm
<1>4. Exposure => Ledger'
  BY <1>1, <1>2, LedgerCalm DEF Exposure
<1> QED
  BY <1>3, <1>4

\* The loop finds no session to go on with, or one whose orders it has still to read.
LEMMA BeginExposure ==
  ASSUME EHyp, th["main"].pc = "sleep", th'["main"].pc \in {"begin", "resume"}, LoopOnly,
         UNCHANGED <<book, rows, mem, lost, overlap>>, DOMAIN sessions' = DOMAIN sessions,
         Len(sessions') = Len(sessions),
         Undisturbed /\ Exposure =>
            \A s \in DOMAIN sessions :
               sessions'[s] = "ended" => sessions[s] = "ended" \/ FlatOrPartial(s)
  PROVE  EInv'
<1>1. Types /\ SavedIsFinal /\ Types' /\ Counts
  BY DEF EHyp, SInv, Orders, EInv
<1>2. Calm /\ DOMAIN book' = DOMAIN book
  BY <1>1, CalmSame DEF SameOrders
<1>3. Counts'
  <2>1. Len(sessions) <= Len(sessions')
    BY <1>1 DEF Types, TypeOK
  <2> QED
    BY <1>1, <1>2, <2>1, CountsCalm
<1>4. SUFFICES ASSUME Undisturbed' PROVE Exposure'
  BY <1>3 DEF EInv
<1>5. Exposure /\ Undisturbed
  BY <1>4, UndisturbedBefore DEF EHyp
<1>6. Ledger'
  BY <1>1, <1>2, <1>5, LedgerCalm DEF Exposure
<1>7. \A t \in Threads : Works(t)'
  <2>1. DOMAIN sessions \subseteq DOMAIN sessions' /\ \A s \in DOMAIN sessions : rows'[s] = rows[s]
    OBVIOUS
  <2> QED
    BY <1>5, <2>1, BothWork
<1>8. th'["stop"].pc = th["stop"].pc /\ th["stop"].pc \notin Working /\ mem = <<>>
  BY <1>5 DEF LoopOnly, SameWork, Exposure, StopAt, Scene, Outside
<1>9. Scene'
  <2>1. th'["main"].pc \notin Listing \cup {"sleep", "done", "enter", "end", "ending", "watch", "idle", "dispose"}
    BY DEF Listing, Open, Loop, Closer, Placed
  <2>2. \A s : LoopAt(s)'
    BY <2>1 DEF LoopAt
  <2> QED
    BY <1>8, <2>1, <2>2 DEF Scene
<1>10. StopAt'
  BY <1>8 DEF StopAt
<1> QED
  BY <1>6, <1>7, <1>9, <1>10 DEF Exposure

\* Between two sessions no order is in flight.
LEMMA NothingPending ==
  ASSUME Exposure, th["main"].pc = "sleep"
  PROVE  \A t \in Threads : th[t].pc \notin Pending
BY DEF Exposure, StopAt, Outside, Threads, Pending, Working

\* A ledger without rows has no exposure.
LEMMA NothingNetted == NetOf(<<>>) = 0
<1> DEFINE w == Amounts(<<>>)
<1>1. <<>> \in Seq(Row) /\ DOMAIN <<>> = {}
  OBVIOUS
<1>2. Weights(w) /\ DOMAIN w = {} /\ NetOf(<<>>) = Total(w)
  BY <1>1, NetOfIsTotal
<1> HIDE DEF w
<1>3. SumOf(w)[{}] = 0
  BY <1>2, SumFacts
<1> QED
  BY <1>2, <1>3 DEF Total

\* The list is read back from SQLite.
LEMMA RestoredExposure ==
  ASSUME EHyp, th["main"].pc = "resume", th'["main"].pc = "watch",
         th'["main"].why = "none", LoopOnly, UNCHANGED <<book, sessions, rows, lost>>,
         Overlaps("main"), NEW s \in DOMAIN rows, rows[s] # <<>>, mem' = Restored(s), sess' = s
  PROVE  EInv'
<1>1. Types /\ SavedIsFinal /\ overlap \in BOOLEAN
  BY DEF EHyp, SInv, Orders, Types, TypeOK
<1>2. Counts' /\ (Exposure => Ledger')
  BY BooksEnd
<1>3. SUFFICES ASSUME Undisturbed' PROVE Exposure'
  BY <1>2 DEF EInv
<1>4. overlap' = (overlap \/ th["stop"].pc \in Working)
  BY DEF Overlaps, Other
<1>5. Exposure
  BY <1>1, <1>3, <1>4, UndisturbedBefore DEF EHyp
<1>6. th["stop"].pc \notin Working /\ th'["stop"].pc = th["stop"].pc
  BY <1>3, <1>4 DEF Undisturbed, LoopOnly, SameWork
<1>7. \A t \in Threads : Works(t)'
  <2>1. DOMAIN sessions \subseteq DOMAIN sessions' /\ \A u \in DOMAIN sessions : rows'[u] = rows[u]
    OBVIOUS
  <2> QED
    BY <1>5, <2>1, BothWork
<1>8. /\ mem' \in Seq(Held) /\ DOMAIN mem' = DOMAIN rows[s] /\ mem' # <<>>
      /\ \A i \in DOMAIN rows[s] : mem'[i].id = rows[s][i].id
  BY <1>1, RestoredFacts DEF RowsOf
<1>9. ToList' = {}
  BY <1>6 DEF ToList, Threads, Working
<1>10. HasLedger(s)'
  <2>1. Ids(mem)' = Ids(rows[s])'
    BY <1>8 DEF Ids
  <2>2. Distinct(mem)'
    BY <1>1, <1>8 DEF Distinct, SavedIsFinal
  <2>3. 1 \in DOMAIN rows[s]
    BY <1>1, RowsAreOwn
  <2>4. Signed(book[rows[s][1].id].side, 1) = EntrySign(s) /\ EntrySign(s)' = EntrySign(s)
    BY <1>1, <1>5, CalmSame DEF Exposure, Ledger, SameOrders
  <2>5. Signed(book'[mem'[1].id].side, 1) = EntrySign(s)'
    BY <1>8, <2>3, <2>4
  <2> QED
    BY <1>9, <2>1, <2>2, <2>5 DEF HasLedger
<1>11. Scene'
  <2>1. s # 0
    BY <1>1 DEF Types, TypeOK
  <2>2. LoopAt(s)'
    BY <1>10 DEF LoopAt
  <2> QED
    BY <1>5, <1>6, <2>1, <2>2 DEF Scene, Outside
<1>12. StopAt'
  BY <1>6 DEF StopAt, Outside, Working
<1> QED
  BY <1>2, <1>5, <1>7, <1>11, <1>12 DEF Exposure

\* initTradeSession.
LEMMA InitExposure ==
  ASSUME EHyp, InitTradeSession
  PROVE  EInv'
<1> DEFINE m == Min(ActiveSessions)
<1>1. /\ th["main"].pc = "sleep" /\ SInv /\ Types /\ OneActiveSession
      /\ UNCHANGED <<book, rows, alive, stopping, mem, lost, overlap>>
  BY DEF InitTradeSession, EHyp, SInv
<1>2. ActiveSessions # {} => m \in DOMAIN sessions /\ ActiveSessions = {m} /\ m \in DOMAIN rows /\ m \in Nat
  <2>1. ActiveSessions # {} => m \in DOMAIN sessions /\ ActiveSessions = {m}
    BY <1>1, MinActive
  <2> QED
    BY <1>1, <2>1 DEF Types, TypeOK
<1>3. "begin" \notin Working \cup {"cancel"} /\ "resume" \notin Working \cup {"cancel"}
  BY DEF Working
<1>4. CASE UNCHANGED sessions /\ \E p \in {"begin", "resume"} : th' = [th EXCEPT !["main"] = At(p)]
  <2>1. th'["main"].pc \in {"begin", "resume"} /\ LoopOnly
    BY <1>1, <1>3, <1>4, ArriveFacts, SessionSteps DEF LoopOnly
  <2> QED
    BY <1>1, <1>4, <2>1, BeginExposure
<1>5. ASSUME ActiveSessions # {}, sessions' = EndedSession(m), NetOf(rows[m]) = 0,
             th' = [th EXCEPT !["main"] = At("begin")]
      PROVE  EInv'
  <2>1. th'["main"].pc = "begin" /\ LoopOnly
    BY <1>1, <1>3, <1>5, ArriveFacts, SessionSteps DEF LoopOnly
  <2>2. /\ DOMAIN sessions' = DOMAIN sessions /\ Len(sessions') = Len(sessions)
        /\ \A u \in DOMAIN sessions : sessions'[u] = IF u = m THEN "ended" ELSE sessions[u]
    BY <1>1, <1>2, <1>5, EndedFacts
  <2>3. ASSUME Undisturbed, Exposure PROVE FlatOrPartial(m)
    <3>1. PICK s \in DOMAIN rows : s = m
      BY <1>2, <1>5
    <3>2. lost = {} /\ Ledger
      BY <2>3 DEF Undisturbed, Exposure
    <3>3. NetOf(rows[s]) = SessionNet(s)
      BY <1>1, <2>3, <3>2, NothingPending, RowsArePosition
    <3> QED
      BY <1>5, <3>1, <3>3 DEF FlatOrPartial
  <2>4. Undisturbed /\ Exposure =>
            \A s \in DOMAIN sessions :
               sessions'[s] = "ended" => sessions[s] = "ended" \/ FlatOrPartial(s)
    BY <2>2, <2>3
  <2> QED
    BY <1>1, <2>1, <2>2, <2>4, BeginExposure
<1>6. CASE /\ ActiveSessions # {} /\ RowsOf(m) = <<>> /\ sessions' = EndedSession(m)
           /\ th' = [th EXCEPT !["main"] = At("begin")]
  BY <1>5, <1>6, NothingNetted DEF RowsOf
<1>7. CASE ActiveSessions # {} /\ CheckingIfClosingOrderHasBeenCreated(m)
  BY <1>5, <1>7 DEF CheckingIfClosingOrderHasBeenCreated, IsSessionExposureClosed, RowsOf
<1> QED
  BY <1>4, <1>6, <1>7 DEF InitTradeSession

\* checkingExistingOrders.
LEMMA ResumeExposure ==
  ASSUME EHyp, CheckingExistingOrders
  PROVE  EInv'
<1>1. /\ th["main"].pc = "resume" /\ UNCHANGED <<book, sessions, rows, sess, lost>>
      /\ mem' = Restored(sess) /\ th' = [Detached EXCEPT !["main"] = At("watch")]
      /\ Overlaps("main") /\ Types
  BY DEF CheckingExistingOrders, sqlite, EHyp, SInv
<1>2. "watch" \notin Working \cup {"cancel"}
  BY DEF Working
<1>3. th'["main"].pc = "watch" /\ th'["main"].why = "none" /\ LoopOnly
  BY <1>1, <1>2, ArriveFacts, SessionSteps DEF LoopOnly
<1>4. PICK s \in DOMAIN rows : s = sess /\ rows[s] # <<>>
  BY <1>1 DEF EHyp, SInv, Control, RowsOf
<1> QED
  BY <1>1, <1>3, <1>4, RestoredExposure

\* A session begins: it has no orders yet.
LEMMA BeganExposure ==
  ASSUME EHyp, StartSession
  PROVE  EInv'
<1>0. PICK n : n = Len(sessions) + 1
  OBVIOUS
<1>1. /\ th["main"].pc = "begin" /\ th' = [th EXCEPT !["main"] = At("enter")] /\ SInv /\ Types /\ SavedIsFinal
      /\ sessions' = Append(sessions, "active") /\ rows' = Append(rows, <<>>) /\ sess' = n
      /\ UNCHANGED <<book, mem, lost, overlap>>
  BY <1>0 DEF StartSession, EHyp, SInv, Orders
<1>2. /\ sessions \in Seq({"active", "ended"}) /\ rows \in Seq(Seq(Row)) /\ DOMAIN rows = DOMAIN sessions
      /\ Len(rows) = Len(sessions) /\ Len(sessions) \in Nat
  BY <1>1 DEF Types, TypeOK
<1>3. /\ DOMAIN sessions' = DOMAIN sessions \cup {n} /\ n \notin DOMAIN sessions /\ Len(sessions') = n
      /\ \A s \in DOMAIN sessions : sessions'[s] = sessions[s]
      /\ sessions'[n] = "active"
  BY <1>0, <1>1, <1>2
<1>4. /\ DOMAIN rows' = DOMAIN rows \cup {n} /\ rows'[n] = <<>>
      /\ \A s \in DOMAIN rows : rows'[s] = rows[s]
  BY <1>0, <1>1, <1>2
<1>5. Calm /\ SameOrders
  BY <1>1, CalmSame
<1>6. "enter" \in Steps \ (Placed \cup {"fetch", "submit"}) /\ "enter" \notin Working \cup {"cancel"}
  BY DEF Steps, Placed, Working
<1>7. th'["main"].pc = "enter" /\ th'["main"].why = "none" /\ LoopOnly
  BY <1>1, <1>6, ArriveFacts DEF LoopOnly
<1>8. Own(n) = {} /\ SessionNet(n)' = 0 /\ Own(n)' = {}
  <2>1. Own(n) = {}
    <3>1. \A o \in DOMAIN book : book[o] \in Order
      BY <1>1 DEF Types, TypeOK
    <3>2. \A o \in DOMAIN book : book[o].sess \in Nat /\ book[o].sess <= Len(sessions)
      BY <3>1 DEF EHyp, EInv, Counts, Order
    <3> QED
      BY <1>0, <1>2, <3>2 DEF Own
  <2>2. SessionNet(n) = 0
    BY <1>1, <2>1, ExposureTypes
  <2> QED
    BY <1>5, <2>1, <2>2 DEF Calm, SameOrders
<1>9. Types' /\ Len(sessions) <= Len(sessions')
  BY <1>0, <1>2, <1>3 DEF EHyp, SInv
<1>10. Counts'
  <2>1. Counts /\ DOMAIN book' = DOMAIN book
    BY <1>5 DEF EHyp, EInv, SameOrders
  <2> QED
    BY <1>1, <1>5, <1>9, <2>1, CountsCalm
<1>11. SUFFICES ASSUME Undisturbed' PROVE Exposure'
  BY <1>10 DEF EInv
<1>12. Exposure
  BY <1>1, <1>11, UndisturbedBefore DEF EHyp
<1>13. Ledger'
  <2>1. \A s \in DOMAIN sessions : SessionNet(s)' = SessionNet(s) /\ EntrySign(s)' = EntrySign(s)
    BY <1>5 DEF Calm, SameOrders
  <2>2. ASSUME NEW s \in DOMAIN rows'
        PROVE  /\ \A i \in DOMAIN rows'[s] : rows'[s][i].side = book'[rows'[s][i].id].side
               /\ rows'[s] # <<>> => Signed(book'[rows'[s][1].id].side, 1) = EntrySign(s)'
    <3>1. CASE s = n
      BY <1>4, <3>1
    <3>2. CASE s # n
      BY <1>1, <1>2, <1>4, <1>12, <2>1, <2>2, <3>2 DEF Exposure, Ledger
    <3> QED
      BY <3>1, <3>2
  <2>3. ASSUME NEW s \in DOMAIN sessions'
        PROVE  /\ SessionNet(s)' * EntrySign(s)' >= 0
               /\ sessions'[s] = "ended" => FlatOrPartial(s)'
    <3>1. CASE s = n
      <4>1. book' \in Seq(Order)
        BY <1>9 DEF Types, TypeOK
      <4>2. EntrySign(n)' \in Int
        BY <4>1, SignTypes, OwnAndSign
      <4> QED
        BY <1>3, <1>8, <3>1, <4>2
    <3>2. CASE s # n
      BY <1>3, <1>5, <1>12, <2>1, <2>3, <3>2 DEF Exposure, Ledger, Calm
    <3> QED
      BY <3>1, <3>2
  <2> QED
    BY <2>2, <2>3 DEF Ledger
<1>14. \A t \in Threads : Works(t)'
  <2>1. DOMAIN sessions \subseteq DOMAIN sessions' /\ \A s \in DOMAIN sessions : rows'[s] = rows[s]
    BY <1>2, <1>3, <1>4
  <2> QED
    BY <1>1, <1>7, <1>12, <2>1, BothWork
<1>15. /\ th'["stop"].pc = th["stop"].pc /\ th'["stop"].idx = th["stop"].idx
       /\ th["stop"].pc \notin Working /\ mem = <<>>
  BY <1>1, <1>7, <1>12 DEF LoopOnly, SameWork, Exposure, StopAt, Scene, Outside
<1>16. Scene'
  <2>1. HasLedger(n)'
    <3>1. ToList' = {}
      BY <1>7, <1>15 DEF ToList, Threads, Working
    <3>2. Ids(rows[n])' = {} /\ Ids(mem)' = {} /\ Distinct(mem)' /\ mem' = <<>>
      BY <1>1, <1>4, <1>15 DEF Ids, Distinct
    <3> QED
      BY <3>1, <3>2 DEF HasLedger
  <2>2. LoopAt(n)'
    BY <1>4, <1>7, <1>8, <2>1 DEF LoopAt
  <2> QED
    BY <1>1, <1>7, <1>15, <2>2 DEF Scene, Working
<1>17. StopAt'
  BY <1>15 DEF StopAt
<1> QED
  BY <1>13, <1>14, <1>16, <1>17 DEF Exposure

\* calculateProfitSession.
LEMMA ProfitExposure ==
  ASSUME EHyp, CalculateProfitSession
  PROVE  EInv'
<1> DEFINE h == [th["main"] EXCEPT !.pc = "ending"]
<1>1. /\ th["main"].pc = "end" /\ book' = book /\ UNCHANGED sqlite /\ overlap' = overlap
      /\ "main" \in Threads
      /\ \/ th' = [th EXCEPT !["main"] = h] /\ UNCHANGED <<alive, mem, stopping, sess, lost>>
         \/ Throw("main", {})
  BY DEF CalculateProfitSession, Threads
<1>2. Calm /\ SameOrders
  BY <1>1, CalmSame DEF EHyp, SInv
<1>3. CASE Throw("main", {})
  BY <1>1, <1>2, <1>3, ThrowExposure
<1>4. CASE th' = [th EXCEPT !["main"] = h] /\ UNCHANGED <<alive, mem, stopping, sess, lost>>
  <2>1. th["main"] \in Thread /\ "ending" \in Steps
    BY DEF EHyp, SInv, Types, TypeOK, Threads, Steps
  <2>2. h \in Thread /\ h.pc = "ending"
    BY <2>1, PcFacts
  <2>3. "ending" \notin Working
    BY DEF Working
  <2>4. ListStays
    BY <1>1, <1>2, <1>4 DEF ListStays, sqlite
  <2> HIDE DEF h
  <2> QED
    BY <1>1, <1>4, <2>2, <2>3, <2>4, MainGoes
<1> QED
  BY <1>1, <1>3, <1>4

\* endTradeSession: the session is flat, or its closing order was cut short.
LEMMA EndExposure ==
  ASSUME EHyp, EndTradeSession
  PROVE  EInv'
<1> DEFINE h == [th["main"] EXCEPT !.pc = "clear"]
<1>1. /\ th["main"].pc = "ending" /\ th' = [th EXCEPT !["main"] = h] /\ sessions' = EndedSession(sess)
      /\ UNCHANGED <<book, rows, mem, sess, lost, overlap>>
      /\ SInv /\ Types /\ SavedIsFinal /\ "main" \in Threads
  BY DEF EndTradeSession, EHyp, SInv, Orders, Threads
<1>2. th["main"] \in Thread /\ "clear" \in Steps /\ sess \in Nat
  BY <1>1 DEF Types, TypeOK, Steps
<1>3. h \in Thread /\ h.pc = "clear"
  BY <1>2, PcFacts
<1> HIDE DEF h
<1>4. th'["main"] = h /\ th'["stop"] = th["stop"]
  BY <1>1, <1>3, ThreadMoves
<1>5. LoopOnly
  BY <1>3, <1>4 DEF LoopOnly, SameWork, Working
<1>6. /\ DOMAIN sessions' = DOMAIN sessions /\ Len(sessions') = Len(sessions)
      /\ \A u \in DOMAIN sessions : sessions'[u] = IF u = sess THEN "ended" ELSE sessions[u]
  BY <1>1, <1>2, EndedFacts
<1>7. DOMAIN rows = DOMAIN sessions
  BY <1>1 DEF Types, TypeOK
<1>8. ASSUME Exposure, NEW s \in DOMAIN rows, sess = s PROVE HasLedger(s) /\ FlatOrPartial(s)
  BY <1>1, <1>8 DEF Exposure, Scene, LoopAt, Listing, Open
<1>9. Counts' /\ (Exposure => Ledger')
  <2>1. Exposure => \A s \in DOMAIN sessions :
                        sessions'[s] = "ended" => sessions[s] = "ended" \/ FlatOrPartial(s)
    BY <1>6, <1>7, <1>8
  <2> QED
    BY <1>1, <1>6, <2>1, BooksEnd
<1>10. SUFFICES ASSUME Undisturbed' PROVE Exposure'
  BY <1>9 DEF EInv
<1>11. Exposure
  BY <1>1, <1>10, UndisturbedBefore DEF EHyp
<1>12. \A t \in Threads : Works(t)'
  BY <1>1, <1>5, <1>6, <1>11, BothWork
<1>13. Calm
  BY <1>1, CalmSame
<1>14. ToList' = ToList
  <2>1. \A u \in Threads : /\ th'[u].pc = "push" <=> th[u].pc = "push"
                           /\ th[u].pc = "push" => th'[u].ord = th[u].ord
    BY <1>1, <1>3, <1>4 DEF Threads
  <2> QED
    BY <2>1, ToListSame
<1>15. Scene'
  <2>1. ASSUME NEW s \in DOMAIN rows, sess = s PROVE LoopAt(s)'
    <3>1. HasLedger(s)'
      BY <1>1, <1>8, <1>11, <1>13, <1>14, <2>1, HasLedgerStays
    <3> QED
      BY <1>3, <1>4, <3>1 DEF LoopAt
  <2> QED
    BY <1>1, <1>3, <1>4, <1>11, <2>1 DEF Scene, Exposure, Working, Outside
<1>16. StopAt'
  BY <1>1, <1>3, <1>4, <1>11 DEF StopAt, Exposure, Outside
<1> QED
  BY <1>9, <1>11, <1>12, <1>15, <1>16 DEF Exposure

\* clearOrdersList.
LEMMA ClearExposure ==
  ASSUME EHyp, ClearingOrderList
  PROVE  EInv'
<1>1. /\ th["main"].pc = "clear" /\ mem' = <<>> /\ UNCHANGED <<book, sessions, rows, stopping, sess, lost, overlap>>
      /\ SInv /\ Types
  BY DEF ClearingOrderList, EHyp, SInv, sqlite
<1>2. PICK p \in {"sleep", "done"} : /\ th' = [Detached EXCEPT !["main"] = At(p)]
                                     /\ p = "sleep" => ~stopping
  BY DEF ClearingOrderList
<1>3. p \notin Working \cup {"cancel"}
  BY DEF Working
<1>4. th'["main"].pc = p /\ th'["main"].why = "none" /\ LoopOnly
  BY <1>1, <1>2, <1>3, ArriveFacts, SessionSteps DEF LoopOnly
<1>5. /\ th'["stop"].pc = th["stop"].pc /\ th'["stop"].idx = th["stop"].idx
      /\ p = "sleep" => th["stop"].pc = "idle"
  BY <1>1, <1>2, <1>4 DEF LoopOnly, SameWork, SInv, Control
<1>6. Counts' /\ (Exposure => Ledger')
  BY <1>1, BooksEnd
<1>7. SUFFICES ASSUME Undisturbed' PROVE Exposure'
  BY <1>6 DEF EInv
<1>8. Exposure
  BY <1>1, <1>7, UndisturbedBefore DEF EHyp
<1>9. \A t \in Threads : Works(t)'
  <2>1. DOMAIN sessions \subseteq DOMAIN sessions' /\ \A u \in DOMAIN sessions : rows'[u] = rows[u]
    BY <1>1
  <2> QED
    BY <1>1, <1>4, <1>8, <2>1, BothWork
<1>10. Scene'
  BY <1>1, <1>3, <1>4 DEF Scene, LoopAt, Listing, Open, Loop, Closer, Placed
<1>11. StopAt'
  <2>1. CASE p = "sleep"
    BY <1>5, <2>1 DEF StopAt, Working
  <2>2. CASE p = "done"
    BY <1>1, <1>4, <1>5, <1>8, <2>2 DEF StopAt, Outside, Exposure
  <2> QED
    BY <2>1, <2>2
<1> QED
  BY <1>6, <1>8, <1>9, <1>10, <1>11 DEF Exposure

-----------------------------------------------------------------------------
(***************************************************************************)
(* The exchange executes an order.                                         *)
(***************************************************************************)
\* What an execution changes on the exchange.
Filled(o, q) ==
    /\ book' \in Seq(Order) /\ DOMAIN book' = DOMAIN book
    /\ \A p \in DOMAIN book : p # o => book'[p] = book[p]
    /\ \A p \in DOMAIN book : /\ book'[p].side = book[p].side /\ book'[p].sess = book[p].sess
                              /\ book'[p].amount = book[p].amount
    /\ book'[o].filled = book[o].filled + q
    /\ book'[o].status = IF book[o].filled + q = book[o].amount THEN "closed" ELSE "open"

\* Fill is such an execution.
LEMMA FilledFacts ==
  ASSUME EHyp, NEW o \in DOMAIN book, NEW q \in 1..book[o].amount, Fill(o, q)
  PROVE  Filled(o, q)
<1>1. /\ book \in Seq(Order) /\ book' \in Seq(Order) /\ book[o] \in Order
      /\ book' = [book EXCEPT ![o].filled = @ + q,
                              ![o].status = IF book[o].filled + q = book[o].amount THEN "closed" ELSE "open"]
  BY DEF EHyp, SInv, Types, TypeOK, Fill
<1>2. DOMAIN book' = DOMAIN book /\ \A p \in DOMAIN book : p # o => book'[p] = book[p]
  BY <1>1
<1>3. \E y \in {"closed", "open"} :
         /\ book' = [book EXCEPT ![o] = [book[o] EXCEPT !.filled = book[o].filled + q, !.status = y]]
         /\ y = IF book[o].filled + q = book[o].amount THEN "closed" ELSE "open"
  BY <1>1
<1>4. PICK y \in {"closed", "open"} :
         /\ book' = [book EXCEPT ![o] = [book[o] EXCEPT !.filled = book[o].filled + q, !.status = y]]
         /\ y = IF book[o].filled + q = book[o].amount THEN "closed" ELSE "open"
  BY <1>3
<1>5. book'[o] = [book[o] EXCEPT !.filled = book[o].filled + q, !.status = y]
  BY <1>4
<1>6. /\ book'[o].side = book[o].side /\ book'[o].sess = book[o].sess
      /\ book'[o].amount = book[o].amount /\ book'[o].filled = book[o].filled + q
      /\ book'[o].status = y
  BY <1>1, <1>5 DEF Order
<1> QED
  BY <1>1, <1>2, <1>4, <1>6 DEF Filled

\* Its session's exposure moves by what was executed; directions and other sessions stay.
LEMMA FilledMoves ==
  ASSUME EHyp, NEW o \in DOMAIN book, NEW q \in Nat, Filled(o, q), NEW s
  PROVE  /\ Own(s)' = Own(s) /\ EntrySign(s)' = EntrySign(s)
         /\ SessionNet(s)' = SessionNet(s) + (IF s = book[o].sess THEN Signed(book[o].side, q) ELSE 0)
         /\ SessionNet(s) \in Int /\ EntrySign(s) \in {-1, 0, 1}
         /\ Own(s) # {} => EntrySign(s) # 0
<1>1. Types /\ book \in Seq(Order) /\ book' \in Seq(Order)
  BY DEF EHyp, SInv, Types, TypeOK
<1>2. Own(s)' = Own(s)
  BY DEF Filled, Own
<1>3. EntrySign(s)' = EntrySign(s)
  <2>1. EntrySign(s) = SignIn(book, s) /\ EntrySign(s)' = SignIn(book', s) /\ OwnIn(book', s) = OwnIn(book, s)
    BY <1>2, OwnAndSign
  <2>2. CASE OwnIn(book, s) = {}
    BY <2>1, <2>2 DEF SignIn
  <2>3. CASE OwnIn(book, s) # {}
    <3>1. /\ \A p \in OwnIn(book, s) : p \in OwnIn(book', s) /\ book'[p].side = book[p].side
          /\ \A p \in OwnIn(book', s) : p \in OwnIn(book, s) \/ \A r \in OwnIn(book, s) : r < p
      BY <2>1 DEF Filled, OwnIn
    <3> QED
      BY <1>1, <2>1, <2>3, <3>1, SignStays
  <2> QED
    BY <2>2, <2>3
<1>4. SessionNet(s)' = SessionNet(s) + (IF s = book[o].sess THEN Signed(book[o].side, q) ELSE 0)
  <2>1. NetIn(book', s) = NetIn(book, s) + (IF s = book[o].sess THEN Signed(book[o].side, q) ELSE 0)
    <3>1. /\ DOMAIN book' = DOMAIN book /\ \A p \in DOMAIN book : p # o => book'[p] = book[p]
          /\ book'[o].sess = book[o].sess /\ book'[o].side = book[o].side
          /\ book'[o].filled = book[o].filled + q
      BY DEF Filled
    <3> QED
      BY <1>1, <3>1, NetFilled
  <2> QED
    BY <2>1, NetIsNetIn
<1> QED
  BY <1>1, <1>2, <1>3, <1>4, ExposureTypes

\* An open order is one that some thread waits for.
LEMMA SomebodyWaits ==
  ASSUME SInv, lost = {}, NEW o \in OpenOrders
  PROVE  \E t \in Threads : th[t].pc = "wait" /\ th[t].ord = o /\ th[t].idx = book[o].sess
<1>1. o \in DOMAIN book /\ book[o].status = "open"
  BY DEF OpenOrders
<1>2. ~IsSaved(o)
  <2>1. ASSUME IsSaved(o) PROVE FALSE
    <3>1. PICK u \in DOMAIN rows : \E i \in DOMAIN rows[u] : rows[u][i].id = o
      BY <2>1, SavedMeans
    <3> QED
      BY <1>1, <3>1 DEF SInv, Orders, SavedIsFinal
  <2> QED
    BY <2>1
<1>3. PICK t \in Threads : o \in InFlight(t)
  BY <1>1, <1>2 DEF SInv, Orders, Accounted
<1>4. th[t].pc \in Pending /\ th[t].ord = o
  BY <1>3 DEF InFlight, Pending
<1>5. th[t].pc = "wait" /\ th[t].idx = book[o].sess
  BY <1>1, <1>4 DEF SInv, Orders, Responsible, Pending, Placed
<1> QED
  BY <1>4, <1>5

\* Net net after q more of an order with side side was executed, filled before: an entry
\* adds to the position, a close takes from it, and not more than there is.
Moved(net, e, side, amount, filled, q) ==
    /\ Signed(side, 1) = e => (net + Signed(side, q)) * e >= 0
    /\ Signed(side, 1) # e /\ net + Signed(side, amount - filled) = 0 =>
          /\ (net + Signed(side, q)) * e >= 0
          /\ net + Signed(side, q) + Signed(side, amount - (filled + q)) = 0
          /\ net # 0

\* That is so for all amounts.
LEMMA FilledSigns ==
  ASSUME NEW net \in Int, NEW e \in {-1, 0, 1}, e # 0, NEW side \in {"buy", "sell"},
         NEW amount \in Nat, NEW filled \in Nat, NEW q \in Nat, q > 0, filled + q <= amount,
         net * e >= 0
  PROVE  Moved(net, e, side, amount, filled, q)
<1>1. CASE e = 1
  BY <1>1 DEF Signed, Moved
<1>2. CASE e = -1
  BY <1>2 DEF Signed, Moved
<1> QED
  BY <1>1, <1>2

\* The session of the executed order, if it has one, goes on as its thread knows it.
LEMMA FilledSession ==
  ASSUME EHyp, Exposure, NEW o \in DOMAIN book, NEW q \in 1..book[o].amount, Filled(o, q),
         book[o].status = "open", book[o].filled + q <= book[o].amount, th' = th,
         NEW t \in Threads, th[t].pc = "wait", th[t].ord = o, th[t].idx = book[o].sess,
         NEW s \in DOMAIN sessions, s = book[o].sess
  PROVE  /\ SessionNet(s)' * EntrySign(s)' >= 0 /\ Directed(t, s)'
         /\ SessionNet(s) # 0 \/ (t = "main" /\ sessions[s] = "active")
<1> DEFINE b == book[o]
           e == EntrySign(s)
           net == SessionNet(s)
<1>1. b \in Order /\ b.side \in {"buy", "sell"} /\ b.amount \in Nat /\ b.filled \in Nat /\ q \in Nat /\ q > 0
  <2>1. b \in Order
    BY SMTT(30) DEF EHyp, SInv, Types, TypeOK
  <2> QED
    BY <2>1 DEF Order
<1>2. Own(s) # {}
  BY DEF Own
<1>3. /\ EntrySign(s)' = e /\ e \in {-1, 0, 1} /\ e # 0 /\ net \in Int
      /\ SessionNet(s)' = net + Signed(b.side, q)
  BY <1>1, <1>2, FilledMoves
<1>4. net * e >= 0 /\ Directed(t, s)
  BY DEF Exposure, Ledger, Works, WorksOn, Placed
<1>5. /\ book'[o].side = b.side /\ book'[o].amount = b.amount /\ book'[o].filled = b.filled + q
  BY DEF Filled
<1>6. b.filled + q <= b.amount
  OBVIOUS
<1> HIDE DEF b, e, net
<1>7. Moved(net, e, b.side, b.amount, b.filled, q)
  BY <1>1, <1>3, <1>4, <1>6, FilledSigns
<1>8. CASE t = "main" /\ th["main"].why = "entry"
  <2>1. Signed(b.side, 1) = e
    BY <1>4, <1>8 DEF Directed, b, e
  <2>2. Directed(t, s)'
    BY <1>3, <1>5, <1>8, <2>1 DEF Directed
  <2>3. sessions[s] = "active"
    BY <1>8 DEF EHyp, Mirror, Placed, Open, Loop, ActiveSessions
  <2> QED
    BY <1>3, <1>7, <1>8, <2>1, <2>2, <2>3 DEF Moved
<1>9. CASE ~(t = "main" /\ th["main"].why = "entry")
  <2>1. Signed(b.side, 1) # e /\ net + Signed(b.side, b.amount - b.filled) = 0
    BY <1>4, <1>9 DEF Directed, b, e, net
  <2>2. Directed(t, s)'
    BY <1>3, <1>5, <1>7, <1>9, <2>1 DEF Directed, Moved
  <2> QED
    BY <1>3, <1>7, <2>1, <2>2 DEF Moved, net
<1> QED
  BY <1>8, <1>9

\* A closing order that was cut short stays so.
LEMMA PartialStays ==
  ASSUME EHyp, NEW o \in DOMAIN book, NEW q \in Nat, Filled(o, q), book[o].status = "open",
         NEW s, Partial(s)
  PROVE  Partial(s)'
<1>1. PICK w \in DOMAIN book : /\ book[w].sess = s /\ book[w].status = "canceled"
                               /\ book[w].filled \in 1..(book[w].amount - 1)
                               /\ Signed(book[w].side, 1) # EntrySign(s)
  BY DEF Partial
<1>2. w # o /\ book'[w] = book[w] /\ w \in DOMAIN book'
  BY <1>1 DEF Filled
<1>3. EntrySign(s)' = EntrySign(s)
  BY FilledMoves
<1> QED
  BY <1>1, <1>2, <1>3 DEF Partial

\* The exchange executes an order, wholly or in part.
LEMMA FillExposure ==
  ASSUME EHyp, NEW o \in DOMAIN book, NEW q \in 1..book[o].amount, Fill(o, q)
  PROVE  EInv'
<1>1. /\ o \in OpenOrders /\ book[o].status = "open" /\ q <= book[o].amount - book[o].filled
      /\ UNCHANGED <<sessions, rows, mem, sess, th, lost, overlap, alive>>
  BY DEF Fill, sqlite, OpenOrders
<1>2. /\ Filled(o, q) /\ SInv /\ Types /\ Counts /\ book[o] \in Order /\ q \in Nat /\ q > 0
      /\ SavedIsFinal /\ Types' /\ DOMAIN rows = DOMAIN sessions
  <2>1. SInv /\ Types /\ Counts /\ SavedIsFinal /\ Types'
    BY DEF EHyp, EInv, SInv, Orders
  <2>2. book[o] \in Order /\ DOMAIN rows = DOMAIN sessions
    BY <2>1 DEF Types, TypeOK
  <2>3. q \in Nat /\ q > 0
    BY <2>2 DEF Order
  <2> QED
    BY <2>1, <2>2, <2>3, FilledFacts
<1>3. book[o].filled + q <= book[o].amount /\ book[o].filled \in Nat /\ book[o].amount \in Nat
  BY <1>1, <1>2 DEF Order
<1>4. Counts'
  <2>1. ASSUME NEW p \in DOMAIN book'
        PROVE  /\ book'[p].sess <= Len(sessions') /\ book'[p].filled <= book'[p].amount
               /\ book'[p].status = "closed" <=> book'[p].filled = book'[p].amount
    <3>1. p \in DOMAIN book
      BY <1>2 DEF Filled
    <3>2. CASE p = o
      BY <1>1, <1>2, <1>3, <3>1, <3>2 DEF Filled, Counts
    <3>3. CASE p # o
      BY <1>1, <1>2, <3>1, <3>3 DEF Filled, Counts
    <3> QED
      BY <3>2, <3>3
  <2> QED
    BY <2>1 DEF Counts
<1>5. SUFFICES ASSUME Undisturbed' PROVE Exposure'
  BY <1>4 DEF EInv
<1>6. Exposure /\ lost = {}
  BY <1>1, <1>5, UndisturbedBefore DEF EHyp, Undisturbed
<1>7. PICK t \in Threads : th[t].pc = "wait" /\ th[t].ord = o /\ th[t].idx = book[o].sess
  BY <1>1, <1>2, <1>6, SomebodyWaits
<1>8. \A s : /\ Own(s)' = Own(s) /\ EntrySign(s)' = EntrySign(s)
             /\ s # book[o].sess => SessionNet(s)' = SessionNet(s)
  <2>1. ASSUME NEW s
        PROVE  /\ Own(s)' = Own(s) /\ EntrySign(s)' = EntrySign(s)
               /\ s # book[o].sess => SessionNet(s)' = SessionNet(s)
    <3>1. /\ Own(s)' = Own(s) /\ EntrySign(s)' = EntrySign(s) /\ SessionNet(s) \in Int
          /\ SessionNet(s)' = SessionNet(s) + (IF s = book[o].sess THEN Signed(book[o].side, q) ELSE 0)
      BY <1>2, FilledMoves
    <3> QED
      BY <3>1
  <2> QED
    BY <2>1
<1>9. ASSUME NEW s \in DOMAIN sessions, s = book[o].sess
      PROVE  /\ SessionNet(s)' * EntrySign(s)' >= 0 /\ Directed(t, s)'
             /\ SessionNet(s) # 0 \/ (t = "main" /\ sessions[s] = "active")
  BY <1>1, <1>2, <1>3, <1>6, <1>7, <1>9, FilledSession
<1>10. ASSUME NEW s \in DOMAIN sessions, FlatOrPartial(s), t = "main" => sessions[s] = "ended" \/ s # book[o].sess
       PROVE  FlatOrPartial(s)'
  <2>1. CASE Partial(s)
    BY <1>1, <1>2, <2>1, PartialStays DEF FlatOrPartial
  <2>2. CASE SessionNet(s) = 0
    BY <1>8, <1>9, <1>10, <2>2 DEF FlatOrPartial
  <2> QED
    BY <1>10, <2>1, <2>2 DEF FlatOrPartial
<1>11. Ledger'
  <2>1. \A s \in DOMAIN rows' : \A i \in DOMAIN rows'[s] : rows'[s][i].side = book'[rows'[s][i].id].side
    <3>1. \A s \in DOMAIN rows : \A i \in DOMAIN rows[s] : rows[s][i].id \in DOMAIN book
      BY <1>2 DEF SavedIsFinal
    <3> QED
      BY <1>1, <1>2, <1>6, <3>1 DEF Filled, Exposure, Ledger
  <2>2. \A s \in DOMAIN rows' : rows'[s] # <<>> => Signed(book'[rows'[s][1].id].side, 1) = EntrySign(s)'
    <3>1. \A s \in DOMAIN rows : rows[s] # <<>> => rows[s][1].id \in DOMAIN book
      BY <1>2, RowsAreOwn DEF Own
    <3> QED
      BY <1>1, <1>2, <1>6, <1>8, <3>1 DEF Filled, Exposure, Ledger
  <2>3. ASSUME NEW s \in DOMAIN sessions'
        PROVE  SessionNet(s)' * EntrySign(s)' >= 0
    BY <1>1, <1>6, <1>8, <1>9 DEF Exposure, Ledger
  <2>4. ASSUME NEW s \in DOMAIN sessions', sessions'[s] = "ended"
        PROVE  FlatOrPartial(s)'
    BY <1>1, <1>6, <1>10, <2>4 DEF Exposure, Ledger
  <2> QED
    BY <2>1, <2>2, <2>3, <2>4 DEF Ledger
<1>12. \A u \in Threads : u # t => th[u].pc \notin Working
  BY <1>6, <1>7 DEF Exposure, Scene, Threads, Working
<1>13. \A u \in Threads : Works(u)'
  <2>1. ASSUME NEW u \in Threads, u # t PROVE Works(u)'
    <3>1. th'[u].pc \notin Working /\ (th'[u].pc = "cancel" => th'[u].net = 0)
      BY <1>1, <1>6, <1>12, <2>1 DEF Exposure, Works
    <3> QED
      BY <3>1, WorksQuiet
  <2>2. Works(t)'
    <3>1. ASSUME NEW s \in DOMAIN sessions', th'[t].idx = s PROVE WorksOn(t, s)'
      <4>1. s \in DOMAIN sessions /\ s = book[o].sess /\ WorksOn(t, s)
        BY <1>1, <1>6, <1>7, <3>1 DEF Exposure, Works
      <4>2. Directed(t, s)' /\ Own(s)' = Own(s)
        BY <1>8, <1>9, <4>1
      <4> QED
        BY <1>1, <1>7, <4>1, <4>2 DEF WorksOn
    <3> QED
      BY <1>1, <1>7, <3>1 DEF Works
  <2> QED
    BY <2>1, <2>2
<1>14. Scene'
  <2>1. ASSUME NEW s \in DOMAIN rows, sess = s PROVE LoopAt(s)'
    <3>1. LoopAt(s) /\ s \in DOMAIN sessions
      BY <1>2, <1>6, <2>1 DEF Exposure, Scene
    <3>2. HasLedger(s) => HasLedger(s)'
      <4>1. Ids(rows[s])' = Ids(rows[s]) /\ Ids(mem)' = Ids(mem) /\ Distinct(mem)' = Distinct(mem) /\ ToList' = ToList
        BY <1>1 DEF Ids, Distinct, ToList
      <4>2. mem # <<>> => mem[1].id \in DOMAIN book
        <5>1. mem \in Seq(Held) /\ Known(mem)
          BY <1>2 DEF SInv, Orders, Types, TypeOK
        <5> QED
          BY <5>1 DEF Known
      <4>3. mem # <<>> => book'[mem[1].id].side = book[mem[1].id].side
        BY <1>2, <4>2 DEF Filled
      <4> QED
        BY <1>1, <1>8, <4>1, <4>3 DEF HasLedger
    <3>3. th["main"].pc # "sleep"
      BY <1>6, <1>7 DEF Exposure, StopAt, Outside, Working, Threads
    <3>4. th["main"].pc \in {"end", "ending"} => FlatOrPartial(s)'
      <4>1. th["main"].pc \in {"end", "ending"} => t # "main"
        BY <1>7
      <4> QED
        BY <1>10, <3>1, <4>1 DEF LoopAt
    <3> QED
      BY <1>1, <1>8, <3>1, <3>2, <3>3, <3>4 DEF LoopAt
  <2> QED
    BY <1>1, <1>6, <2>1 DEF Scene, Exposure
<1>15. StopAt'
  <2>1. ~(th["stop"].pc \in {"fetch", "price"} /\ th["main"].pc \in Outside)
    BY <1>7 DEF Threads, Outside
  <2> QED
    BY <1>1, <1>6, <2>1 DEF StopAt, Exposure
<1> QED
  BY <1>11, <1>13, <1>14, <1>15 DEF Exposure

-----------------------------------------------------------------------------
(***************************************************************************)
(* The session the loop has holds a position.                              *)
(***************************************************************************)
\* No order of the book changes its side, or disappears.
SidesStay == \A o \in DOMAIN book : o \in DOMAIN book' /\ book'[o].side = book[o].side
\* What a fault hid, and what two threads did at a time, is remembered.
Remembered == lost \subseteq lost' /\ (overlap => overlap')

\* Cancellations change no side.
LEMMA CanceledSides ==
  ASSUME Types, NEW S \in SUBSET OpenOrders, book' = Canceled(S)
  PROVE  SidesStay
  BY DEF Types, TypeOK, Canceled, SidesStay, Order

\* Neither does an order that is added.
LEMMA AddedSides ==
  ASSUME Types, NEW x \in Order, book' = Append(book, x)
  PROVE  SidesStay
<1>1. book \in Seq(Order)
  BY DEF Types, TypeOK
<1> QED
  BY <1>1, AppendFacts DEF SidesStay

\* A failure hides orders, and none comes back.
LEMMA ThrowRemembers ==
  ASSUME NEW t, NEW L, Throw(t, L)
  PROVE  lost \subseteq lost'
  BY DEF Throw, Exit

\* Placing an order: the order is added, or nothing is.
LEMMA CreateRemembers ==
  ASSUME Types, NEW t, NEW side \in {"buy", "sell"}, NEW amount \in Nat \ {0}, NEW idx \in Nat,
         CreateOrder(t, side, amount, idx)
  PROVE  SidesStay /\ lost \subseteq lost'
<1> DEFINE x == [side |-> side, amount |-> amount, filled |-> 0, status |-> "open", sess |-> idx]
<1>1. x \in Order
  BY DEF Order
<1>2. /\ book' = Append(book, x) \/ book' = book
      /\ lost' = lost \/ \E L : Throw(t, L)
  BY DEF CreateOrder
<1>3. SidesStay
  BY <1>1, <1>2, AddedSides DEF SidesStay
<1> QED
  BY <1>2, <1>3, ThrowRemembers

\* An order executes.
LEMMA FillSides ==
  ASSUME Types, NEW o \in DOMAIN book, NEW q \in 1..book[o].amount, Fill(o, q)
  PROVE  SidesStay /\ Remembered
<1>1. book \in Seq(Order) /\ book[o] \in Order
  BY DEF Types, TypeOK
<1>2. \E y \in {"closed", "open"} :
         book' = [book EXCEPT ![o] = [book[o] EXCEPT !.filled = book[o].filled + q, !.status = y]]
  BY <1>1 DEF Fill
<1>3. PICK y \in {"closed", "open"} :
         book' = [book EXCEPT ![o] = [book[o] EXCEPT !.filled = book[o].filled + q, !.status = y]]
  BY <1>2
<1>4. book'[o] = [book[o] EXCEPT !.filled = book[o].filled + q, !.status = y]
  BY <1>1, <1>3
<1>5. book'[o].side = book[o].side
  BY <1>1, <1>4 DEF Order
<1>6. \A p \in DOMAIN book : p \in DOMAIN book' /\ (p # o => book'[p] = book[p])
  BY <1>1, <1>3
<1>7. UNCHANGED <<lost, overlap>>
  BY DEF Fill
<1> QED
  BY <1>5, <1>6, <1>7 DEF SidesStay, Remembered

\* The exchange ends one.
LEMMA DropSides ==
  ASSUME Types, NEW o \in DOMAIN book, Drop(o)
  PROVE  SidesStay /\ Remembered
<1>1. book \in Seq(Order) /\ book[o] \in Order
  BY DEF Types, TypeOK
<1> QED
  BY <1>1 DEF Drop, SidesStay, Remembered, Order

\* What an order's thread does to the book and to the history.
LEMMA OrderRemembers ==
  ASSUME SInv, NEW t \in Threads, OrderStep(t)
  PROVE  SidesStay /\ Remembered
<1>1. Types /\ overlap \in BOOLEAN
  BY DEF SInv, Types, TypeOK
<1>2. CASE PollSettles(t) \/ RecheckAfterCancel(t)
  <2>1. book' = book /\ overlap' = overlap /\ (lost' = lost \/ Throw(t, {}))
    BY <1>2 DEF PollSettles, RecheckAfterCancel
  <2> QED
    BY <2>1, ThrowRemembers DEF SidesStay, Remembered
<1>3. CASE PollTimesOut(t)
  <2>1. SidesStay
    BY <1>1, <1>3, CanceledSides DEF PollTimesOut
  <2> QED
    BY <1>3, <2>1 DEF PollTimesOut, Remembered
<1>4. CASE SaveActivatedOrder(t) \/ PushOrder(t) \/ FetchStatus(t)
  <2>1. book' = book /\ overlap' = overlap
    <3>1. CASE SaveActivatedOrder(t)
      BY <3>1 DEF SaveActivatedOrder
    <3>2. CASE PushOrder(t)
      BY <3>2 DEF PushOrder
    <3>3. CASE FetchStatus(t)
      BY <3>3 DEF FetchStatus
    <3> QED
      BY <1>4, <3>1, <3>2, <3>3
  <2>2. lost \subseteq lost'
    <3>1. CASE FetchStatus(t)
      <4>1. PICK fetched \in BOOLEAN :
               lost' = IF fetched \/ Head(th[t].rest).restored THEN lost ELSE lost \cup {Head(th[t].rest).id}
        BY <3>1 DEF FetchStatus
      <4> QED
        BY <4>1
    <3> QED
      BY <1>4, <3>1 DEF SaveActivatedOrder, PushOrder
  <2> QED
    BY <2>1, <2>2 DEF SidesStay, Remembered
<1>5. CASE CancelAllOrders(t)
  <2>1. SidesStay
    BY <1>1, <1>5, CanceledSides DEF CancelAllOrders
  <2> QED
    BY <1>5, <2>1 DEF CancelAllOrders, Remembered
<1>6. CASE CalculateClosingOrderExposure(t)
  <2>1. book' = book /\ overlap' = overlap /\ (lost' = lost \/ Throw(t, {}))
    BY <1>6 DEF CalculateClosingOrderExposure
  <2> QED
    BY <2>1, ThrowRemembers DEF SidesStay, Remembered
<1>7. CASE SubmitClosingOrder(t)
  <2> DEFINE n == th[t].net
             side == IF n > 0 THEN "sell" ELSE "buy"
             amount == IF n > 0 THEN n ELSE -n
  <2>1. n \in Int /\ th[t].idx \in Nat /\ n # 0
    <3>1. th[t] \in Thread /\ Responsible(th[t]) /\ th[t].pc = "submit"
      BY <1>7 DEF SubmitClosingOrder, SInv, Types, TypeOK, Orders
    <3> QED
      BY <3>1 DEF Thread, Responsible
  <2>2. CreateOrder(t, side, amount, th[t].idx) /\ overlap' = overlap
    BY <1>7 DEF SubmitClosingOrder
  <2>3. side \in {"buy", "sell"} /\ amount \in Nat \ {0}
    BY <2>1
  <2> HIDE DEF side, amount
  <2> QED
    BY <1>1, <2>1, <2>2, <2>3, CreateRemembers DEF Remembered
<1> QED
  BY <1>2, <1>3, <1>4, <1>5, <1>6, <1>7 DEF OrderStep

\* Every step keeps the sides of the orders and the history.
LEMMA StepRemembers ==
  ASSUME SInv, [Next]_vars
  PROVE  SidesStay /\ Remembered
<1>1. Types /\ overlap \in BOOLEAN /\ sess \in Nat
  BY DEF SInv, Types, TypeOK
<1>2. CASE UNCHANGED vars
  BY <1>2 DEF vars, SidesStay, Remembered
<1>3. CASE Start \/ StopWorker
  BY <1>3 DEF Start, StopWorker, SidesStay, Remembered
<1>4. CASE Kill \/ Dispose
  BY <1>4 DEF Kill, Dispose, Exit, SidesStay, Remembered
<1>5. CASE SessionReadFails \/ EntryReadFails \/ WatchReadFails \/ TrackerReadFails
  <2>1. book' = book /\ overlap' = overlap /\ (lost' = lost \/ Throw("main", {}))
    BY <1>5 DEF SessionReadFails, EntryReadFails, WatchReadFails, TrackerReadFails
  <2> QED
    BY <2>1, ThrowRemembers DEF SidesStay, Remembered
<1>6. CASE OpenFirstPosition \/ WatchBuyBack
  <2>1. overlap => overlap'
    BY <1>6 DEF OpenFirstPosition, WatchBuyBack, Overlaps
  <2>2. PICK side \in {"buy", "sell"} : CreateOrder("main", side, Size, sess)
    <3>1. CASE OpenFirstPosition
      BY <3>1 DEF OpenFirstPosition, EntrySide
    <3>2. CASE WatchBuyBack
      <4>1. book[mem[1].id].side \in {"buy", "sell"}
        <5>1. mem # <<>> /\ mem \in Seq(Held) /\ book \in Seq(Order)
          BY <3>2 DEF WatchBuyBack, SInv, Control, Types, TypeOK
        <5>2. 1 \in DOMAIN mem
          BY <5>1
        <5>3. mem[1].id \in DOMAIN book
          BY <5>2 DEF SInv, Orders, Known
        <5>4. book[mem[1].id] \in Order
          BY <5>1, <5>3
        <5> QED
          BY <5>4 DEF Order
      <4> QED
        BY <3>2, <4>1 DEF WatchBuyBack
    <3> QED
      BY <1>6, <3>1, <3>2
  <2> QED
    BY <1>1, <2>1, <2>2, CreateRemembers, SizeAssumption DEF Remembered
<1>7. CASE MainStep /\ ~OpenFirstPosition /\ ~WatchBuyBack
  <2>1. book' = book /\ (overlap => overlap') /\ (lost' = lost \/ Throw("main", {}))
    <3>0. CASE InitTradeSession
      <4>1. UNCHANGED <<book, lost, overlap>>
        BY <3>0 DEF InitTradeSession
      <4> QED
        BY <4>1
    <3>1. CASE StartSession \/ EndTradeSession
      BY <3>1 DEF StartSession, EndTradeSession
    <3>2. CASE CheckingExistingOrders \/ ClearingOrderList
      <4>1. CASE CheckingExistingOrders
        <5>1. book' = book /\ lost' = lost /\ overlap' = (overlap \/ th[Other("main")].pc \in Working)
          BY <4>1 DEF CheckingExistingOrders, Overlaps
        <5> QED
          BY <5>1
      <4>2. CASE ClearingOrderList
        <5>1. UNCHANGED <<book, lost, overlap>>
          BY <4>2 DEF ClearingOrderList
        <5> QED
          BY <5>1
      <4> QED
        BY <3>2, <4>1, <4>2
    <3>3. CASE CalculateProfitSession
      BY <3>3 DEF CalculateProfitSession
    <3>4. CASE WatchStopLoss
      BY <3>4 DEF WatchStopLoss
    <3>5. CASE WatchTakeProfit
      BY <3>5 DEF WatchTakeProfit
    <3>6. CASE OnPriceTracker
      BY <3>6 DEF OnPriceTracker
    <3> QED
      BY <1>7, <3>0, <3>1, <3>2, <3>3, <3>4, <3>5, <3>6 DEF MainStep
  <2> QED
    BY <2>1, ThrowRemembers DEF SidesStay, Remembered
<1>8. ASSUME NEW t \in Threads, OrderStep(t) \/ ExecutionFails(t) \/ CancelAllFails(t)
      PROVE  SidesStay /\ Remembered
  <2>1. CASE ExecutionFails(t)
    BY <2>1, ThrowRemembers DEF ExecutionFails, SidesStay, Remembered
  <2>2. CASE CancelAllFails(t)
    <3>1. SidesStay
      BY <1>1, <2>2, CanceledSides DEF CancelAllFails
    <3> QED
      BY <2>2, <3>1, ThrowRemembers DEF CancelAllFails, Remembered
  <2> QED
    BY <1>8, <2>1, <2>2, OrderRemembers
<1>9. ASSUME NEW o \in DOMAIN book, Drop(o) \/ \E q \in 1..book[o].amount : Fill(o, q)
      PROVE  SidesStay /\ Remembered
  BY <1>1, <1>9, DropSides, FillSides
<1> QED
  BY <1>2, <1>3, <1>4, <1>5, <1>6, <1>7, <1>8, <1>9 DEF Next, MainStep

\* What a step did not write stays, as long as the loop does not come to hold a session
\* it did not hold, nor to wait for another entry.
LEMMA StandingKeeps ==
  ASSUME EHyp, SidesStay, Remembered, rows' = rows,
         ~stopping' /\ Holding' => ~stopping /\ Holding /\ sess' = sess,
         ~stopping' /\ Entering' =>
            ~stopping /\ Entering /\ sess' = sess /\ th'["main"].ord = th["main"].ord
  PROVE  Standing'
<1>1. Undisturbed' => Undisturbed
  BY UndisturbedBefore DEF EHyp, Remembered
<1>2. Entering => th["main"].ord \in DOMAIN book
  BY DEF EHyp, SInv, Orders, Responsible, Entering, Pending, Placed, Threads
<1>3. ~stopping' /\ Holding' /\ Undisturbed' => rows'[sess'] = <<>> \/ NetOf(rows'[sess']) # 0
  BY <1>1 DEF EHyp, Standing
<1>4. ~stopping' /\ Entering' /\ Undisturbed' =>
         NetOf(rows'[sess']) * Signed(book'[th'["main"].ord].side, 1) >= 0
  <2>1. SUFFICES ASSUME ~stopping', Entering', Undisturbed'
                 PROVE  NetOf(rows'[sess']) * Signed(book'[th'["main"].ord].side, 1) >= 0
    OBVIOUS
  <2>2. book'[th'["main"].ord].side = book[th["main"].ord].side /\ sess' = sess
    BY <1>2, <2>1 DEF SidesStay
  <2>3. NetOf(rows[sess]) * Signed(book[th["main"].ord].side, 1) >= 0
    BY <1>1, <2>1 DEF EHyp, Standing
  <2> QED
    BY <2>2, <2>3
<1>5. Undisturbed' => \A s \in DOMAIN rows' : \A i \in DOMAIN rows'[s] : rows'[s][i].amount > 0
  BY <1>1 DEF EHyp, Standing
<1> QED
  BY <1>3, <1>4, <1>5 DEF Standing

\* The process is gone.
LEMMA StandingGone ==
  ASSUME EHyp, SidesStay, Remembered, rows' = rows, \A u \in Threads : th'[u] = At("idle")
  PROVE  Standing'
<1>1. "idle" \in Steps /\ "main" \in Threads
  BY DEF Steps, Threads
<1>2. th'["main"].pc = "idle"
  BY <1>1, AtFacts
<1>3. ~Holding' /\ ~Entering'
  BY <1>2 DEF Holding, Entering, Loop, Closer, Placed, Pending
<1> QED
  BY <1>3, StandingKeeps

\* The process was asked to stop.
LEMMA StandingStops ==
  ASSUME EHyp, SidesStay, Remembered, rows' = rows, stopping'
  PROVE  Standing'
  BY StandingKeeps

\* The loop moves, and holds what it held.
LEMMA StandingMoves ==
  ASSUME EHyp, SidesStay, Remembered, rows' = rows, sess' = sess, stopping' = stopping,
         NEW h \in Thread, th' = [th EXCEPT !["main"] = h],
         h.pc \in (Loop \ {"push"}) \cup {"resume"} => Holding,
         h.pc # "push",
         h.pc \in Pending /\ h.why = "entry" => Entering /\ h.ord = th["main"].ord
  PROVE  Standing'
<1>1. SInv /\ "main" \in Threads
  BY DEF EHyp, Threads
<1>2. th'["main"] = h
  BY <1>1, ThreadMoves
<1>3. Holding' => Holding
  BY <1>2 DEF Holding
<1>4. Entering' => Entering /\ th'["main"].ord = th["main"].ord
  BY <1>2 DEF Entering
<1> QED
  BY <1>3, <1>4, StandingKeeps

\* The loop arrives somewhere, with no order.
LEMMA StandingArrives ==
  ASSUME EHyp, SidesStay, Remembered, rows' = rows, sess' = sess, stopping' = stopping,
         NEW p \in Steps \ Placed, th' = [th EXCEPT !["main"] = At(p)],
         p \in Loop \cup {"resume"} => Holding
  PROVE  Standing'
<1>1. At(p) \in Thread /\ At(p).pc = p
  BY AtFacts
<1>2. p # "push" /\ p \notin Pending
  BY DEF Placed, Pending
<1> QED
  BY <1>1, <1>2, StandingMoves

\* A failure ends the process, or takes the tracker's close back to watching.
LEMMA StandingThrown ==
  ASSUME EHyp, SidesStay, Remembered, rows' = rows, NEW t \in Threads, NEW L, Throw(t, L), th[t].pc # "push"
  PROVE  Standing'
<1>1. CASE th[t].why # "track"
  <2>1. \A u \in Threads : th'[u] = At("idle")
    BY <1>1, ExitFacts DEF Throw, EHyp, SInv
  <2> QED
    BY <2>1, StandingGone
<1>2. CASE th[t].why = "track"
  <2>1. t = "main"
    BY <1>2 DEF EHyp, SInv, Control, Threads, AtClose
  <2>2. Holding
    BY <1>2, <2>1 DEF EHyp, Mirror, Holding, Loop
  <2>3. "watch" \in Steps \ Placed
    BY DEF Steps, Placed
  <2>4. th' = [th EXCEPT !["main"] = At("watch")] /\ sess' = sess /\ stopping' = stopping
    BY <1>2, <2>1 DEF Throw
  <2> QED
    BY <2>2, <2>3, <2>4, StandingArrives
<1> QED
  BY <1>1, <1>2

\* An entry or a buy-back goes the way of the position.
LEMMA StandingPlaced ==
  ASSUME EHyp, SidesStay, Remembered, rows' = rows, th["main"].pc \in {"enter", "watch"},
         NEW side \in {"buy", "sell"}, CreateOrder("main", side, Size, sess),
         Undisturbed /\ Exposure /\ ~stopping => NetOf(rows[sess]) * Signed(side, 1) >= 0
  PROVE  Standing'
<1> DEFINE x == [side |-> side, amount |-> Size, filled |-> 0, status |-> "open", sess |-> sess]
           n == Len(book) + 1
<1>1. "main" \in Threads /\ SInv /\ Types /\ book \in Seq(Order) /\ sess \in Nat
  BY DEF EHyp, SInv, Types, TypeOK, Threads
<1>2. CASE \E L : Throw("main", L)
  BY <1>1, <1>2, StandingThrown
<1>3. ASSUME NEW w, th' = [th EXCEPT !["main"] = Sent(n, sess, w)], book' = Append(book, x),
             UNCHANGED <<stopping, sess>>
      PROVE  Standing'
  <2>1. x \in Order
    BY <1>1, SizeAssumption DEF Order
  <2>2. book'[n].side = side
    <3> HIDE DEF x
    <3>1. book'[n] = x
      BY <1>1, <1>3, <2>1, AppendFacts
    <3> QED
      BY <3>1 DEF x
  <2>3. th'["main"].pc = "wait" /\ th'["main"].ord = n
    <3> HIDE DEF n
    <3>1. th'["main"] = Sent(n, sess, w)
      BY <1>1, <1>3 DEF Types, TypeOK
    <3> QED
      BY <3>1, SentFacts
  <2>4. Holding
    BY DEF Holding, Loop
  <2>5. SUFFICES ASSUME Undisturbed'
                 PROVE  /\ \A s \in DOMAIN rows' : \A i \in DOMAIN rows'[s] : rows'[s][i].amount > 0
                        /\ ~stopping' => rows'[sess'] = <<>> \/ NetOf(rows'[sess']) # 0
                        /\ ~stopping' => NetOf(rows'[sess']) * Signed(book'[th'["main"].ord].side, 1) >= 0
    BY DEF Standing
  <2>6. Undisturbed /\ Exposure
    BY <2>5, UndisturbedBefore DEF EHyp, Remembered
  <2> HIDE DEF n, x
  <2> QED
    BY <1>3, <2>2, <2>3, <2>4, <2>6 DEF EHyp, Standing
<1> DEFINE why == IF th["main"].why = "none" THEN "entry" ELSE th["main"].why
<1>4. \/ /\ book' = Append(book, x) /\ UNCHANGED <<stopping, sess>>
         /\ th' = [th EXCEPT !["main"] = Sent(n, sess, why)]
      \/ Throw("main", {n})
      \/ Throw("main", {})
  BY DEF CreateOrder, Sent
<1> HIDE DEF n, x
<1> QED
  BY <1>2, <1>3, <1>4

\* Weights of one sign add up to something of that sign.
LEMMA OneSided ==
  ASSUME NEW w, Weights(w), DOMAIN w # {}, NEW e \in {-1, 1}, \A x \in DOMAIN w : w[x] * e > 0
  PROVE  Total(w) # 0
<1> DEFINE G == {S \in SUBSET DOMAIN w : S = {} \/ SumOf(w)[S] * e > 0}
<1>1. {} \in G
  OBVIOUS
<1>2. ASSUME NEW S \in SUBSET DOMAIN w, NEW x \in S, S \ {x} \in G PROVE S \in G
  <2>1. /\ w[x] \in Int /\ w[x] * e > 0 /\ SumOf(w)[S] = SumOf(w)[S \ {x}] + w[x]
        /\ SumOf(w)[S \ {x}] \in Int /\ SumOf(w)[{}] = 0
    BY SumFacts
  <2>2. S \ {x} = {} \/ SumOf(w)[S \ {x}] * e > 0
    BY <1>2
  <2>3. SumOf(w)[S] * e > 0
    <3>1. \A a, b \in Int : \A s \in {-1, 1} : b * s > 0 /\ (a = 0 \/ a * s > 0) => (a + b) * s > 0
      OBVIOUS
    <3>2. SumOf(w)[S \ {x}] = 0 \/ SumOf(w)[S \ {x}] * e > 0
      BY <2>1, <2>2
    <3> QED
      BY <2>1, <3>1, <3>2
  <2> QED
    BY <2>3
<1>3. SUBSET DOMAIN w \subseteq G
  <2> HIDE DEF G
  <2> DEFINE D == DOMAIN w
  <2>1. IsFiniteSet(D) /\ \A S \in SUBSET D : \A x \in S : S \ {x} \in G => S \in G
    BY <1>2 DEF Weights
  <2> HIDE DEF D
  <2>2. SUBSET D \subseteq G
    BY <1>1, <2>1, ElementInduction
  <2> QED
    BY <2>2 DEF D
<1>4. SumOf(w)[DOMAIN w] * e > 0
  BY <1>3
<1>5. SumOf(w)[DOMAIN w] \in Int
  BY SumFacts
<1>6. SumOf(w)[DOMAIN w] # 0
  BY <1>4, <1>5
<1> QED
  BY <1>6 DEF Total

\* Orders of one side leave an exposure.
LEMMA OpenNet ==
  ASSUME NEW q \in Seq(Row), q # <<>>, \A i \in DOMAIN q : q[i].amount > 0,
         ~IsSessionExposureClosed(q)
  PROVE  NetOf(q) # 0
<1> DEFINE w == Amounts(q)
<1>1. Weights(w) /\ DOMAIN w = DOMAIN q /\ NetOf(q) = Total(w)
  BY NetOfIsTotal
<1>2. 1 \in DOMAIN q /\ \A i \in DOMAIN q : q[i] \in Row
  OBVIOUS
<1>3. SUFFICES ASSUME \A i, j \in DOMAIN q : q[i].side = q[j].side PROVE NetOf(q) # 0
  BY DEF IsSessionExposureClosed
<1>4. PICK e \in {-1, 1} : \A i \in DOMAIN q : q[i].side = "buy" <=> e = 1
  <2>1. CASE q[1].side = "buy"
    <3>1. \A i \in DOMAIN q : q[i].side = "buy" <=> 1 = 1
      BY <1>2, <1>3, <2>1
    <3> QED
      BY <3>1
  <2>2. CASE q[1].side # "buy"
    <3>1. \A i \in DOMAIN q : q[i].side = "buy" <=> -1 = 1
      BY <1>2, <1>3, <2>2
    <3> QED
      BY <3>1
  <2> QED
    BY <2>1, <2>2
<1>5. \A i \in DOMAIN w : w[i] * e > 0
  <2>1. ASSUME NEW i \in DOMAIN q PROVE Signed(q[i].side, q[i].amount) * e > 0
    <3>1. q[i].amount \in Nat /\ q[i].amount > 0
      BY <1>2 DEF Row
    <3>2. CASE e = 1
      BY <1>4, <3>1, <3>2 DEF Signed
    <3>3. CASE e = -1
      BY <1>4, <3>1, <3>3 DEF Signed
    <3> QED
      BY <3>2, <3>3
  <2> QED
    BY <1>1, <2>1 DEF Amounts
<1>6. DOMAIN w # {}
  BY <1>1, <1>2
<1> HIDE DEF w
<1> QED
  BY <1>1, <1>5, <1>6, OneSided

\* A row that is added counts with its side and amount.
LEMMA NetGrows ==
  ASSUME NEW q \in Seq(Row), NEW r \in Row
  PROVE  /\ NetOf(Append(q, r)) = NetOf(q) + Signed(r.side, r.amount)
         /\ NetOf(q) \in Int
<1> DEFINE c == Append(q, r)
           n == Len(q) + 1
           v == Amounts(c)
           w == Amounts(q)
<1>1. /\ c \in Seq(Row) /\ DOMAIN c = DOMAIN q \cup {n} /\ n \notin DOMAIN q
      /\ \A i \in DOMAIN q : c[i] = q[i]
      /\ c[n] = r
  BY AppendFacts
<1> HIDE DEF c, n
<1>2. Weights(v) /\ DOMAIN v = DOMAIN c /\ NetOf(c) = Total(v)
  BY <1>1, NetOfIsTotal
<1>3. Weights(w) /\ DOMAIN w = DOMAIN q /\ NetOf(q) = Total(w)
  BY NetOfIsTotal
<1>4. v[n] = Signed(r.side, r.amount) /\ \A i \in DOMAIN q : v[i] = w[i]
  BY <1>1 DEF Amounts
<1> HIDE DEF v, w
<1>5. Total(v) = Total(w) + v[n] /\ Total(w) \in Int
  BY <1>1, <1>2, <1>3, <1>4, SumAdd
<1> QED
  BY <1>2, <1>3, <1>4, <1>5 DEF c

\* An entry that is saved makes the position larger, and never covers it.
LEMMA StandingSaved ==
  ASSUME EHyp, SidesStay, Remembered, NEW t \in Threads, SaveActivatedOrder(t)
  PROVE  Standing'
<1> DEFINE o == th[t].ord
           r == CreateOrderRow(o)
<1>1. /\ th[t].pc = "save" /\ th' = [th EXCEPT ![t].pc = "push"]
      /\ UNCHANGED <<book, sess, stopping>>
      /\ \/ /\ th[t].idx # 0 /\ lost' = lost
            /\ rows' = [rows EXCEPT ![th[t].idx] = Append(@, r)]
         \/ lost' = lost \cup {o}
  BY DEF SaveActivatedOrder
<1>2. SUFFICES ASSUME Undisturbed'
               PROVE  /\ \A s \in DOMAIN rows' : \A i \in DOMAIN rows'[s] : rows'[s][i].amount > 0
                      /\ ~stopping' /\ Holding' => rows'[sess'] = <<>> \/ NetOf(rows'[sess']) # 0
                      /\ ~stopping' /\ Entering' =>
                            NetOf(rows'[sess']) * Signed(book'[th'["main"].ord].side, 1) >= 0
  BY DEF Standing
<1>3. th[t].idx # 0 /\ rows' = [rows EXCEPT ![th[t].idx] = Append(@, r)]
  BY <1>1, <1>2 DEF Undisturbed
<1>4. Undisturbed /\ Exposure
  BY <1>2, UndisturbedBefore DEF EHyp, Remembered
<1>5. th[t].idx = sess /\ sess \in DOMAIN rows
  BY <1>1, <1>3, <1>4, AtHome
<1>6. /\ SInv /\ Types /\ th[t] \in Thread /\ th \in [Threads -> Thread]
      /\ book \in Seq(Order) /\ rows \in Seq(Seq(Row)) /\ o \in DOMAIN book
  BY <1>1 DEF EHyp, SInv, Types, TypeOK, Orders, Responsible, Placed
<1>7. r \in Row /\ r.side = book[o].side /\ r.amount > 0
  <2>1. book[o].filled > 0
    BY <1>1, <1>4 DEF Exposure, Works
  <2>2. book[o] \in Order /\ o \in Nat \ {0}
    <3> HIDE DEF o
    <3> QED
      BY <1>6
  <2> HIDE DEF o
  <2> QED
    BY <2>1, <2>2 DEF CreateOrderRow, Row, Order
<1> DEFINE q == rows[sess]
<1>8. /\ q \in Seq(Row) /\ rows'[sess] = Append(q, r) /\ \A s \in DOMAIN rows : s # sess => rows'[s] = rows[s]
      /\ DOMAIN rows' = DOMAIN rows
  BY <1>3, <1>5, <1>6
<1>9. \A s \in DOMAIN rows : \A i \in DOMAIN rows[s] : rows[s][i].amount > 0
  BY <1>4 DEF EHyp, Standing
<1>10. \A i \in DOMAIN q : q[i].amount > 0
  BY <1>5, <1>9
<1> HIDE DEF r, q
<1>11. \A i \in DOMAIN Append(q, r) : Append(q, r)[i].amount > 0
  <2>1. /\ DOMAIN Append(q, r) = DOMAIN q \cup {Len(q) + 1}
        /\ \A i \in DOMAIN q : Append(q, r)[i] = q[i]
        /\ Append(q, r)[Len(q) + 1] = r
    BY <1>7, <1>8, AppendFacts
  <2> QED
    BY <1>7, <1>10, <2>1
<1>12. \A s \in DOMAIN rows' : \A i \in DOMAIN rows'[s] : rows'[s][i].amount > 0
  BY <1>5, <1>8, <1>9, <1>11
<1>13. CASE t = "stop"
  <2>1. stopping'
    BY <1>1, <1>6, <1>13 DEF SInv, Control
  <2> QED
    BY <1>12, <2>1
<1>14. CASE t = "main"
  <2>1. th'["main"].pc = "push" /\ th'["main"].why = th["main"].why
    <3>1. "push" \in Steps
      BY DEF Steps, Working
    <3> QED
      BY <1>1, <1>6, <1>14, <3>1, PcFacts
  <2>2. ASSUME ~stopping', Holding' PROVE NetOf(rows'[sess']) # 0
    <3>1. th["main"].why = "entry"
      BY <2>1, <2>2 DEF Holding, Loop
    <3>2. Entering
      BY <1>1, <1>14, <3>1 DEF Entering, Pending
    <3>3. NetOf(q) * Signed(r.side, 1) >= 0
      BY <1>1, <1>4, <1>7, <1>14, <2>2, <3>2 DEF EHyp, Standing, q
    <3>4. NetOf(Append(q, r)) = NetOf(q) + Signed(r.side, r.amount) /\ NetOf(q) \in Int
      BY <1>7, <1>8, NetGrows
    <3>5. r.side \in {"buy", "sell"} /\ r.amount \in Nat
      BY <1>7 DEF Row
    <3>6. NetOf(q) + Signed(r.side, r.amount) # 0
      <4> DEFINE n == NetOf(q)
                 a == r.amount
      <4>1. n \in Int /\ a \in Nat /\ a > 0
        BY <1>7, <3>4, <3>5
      <4>2. CASE r.side = "buy"
        <5>1. n >= 0
          <6>1. n * 1 >= 0
            BY <3>3, <4>2 DEF Signed
          <6> HIDE DEF n
          <6> QED
            BY <4>1, <6>1
        <5>2. Signed(r.side, r.amount) = a
          BY <4>2 DEF Signed
        <5> HIDE DEF n, a
        <5>3. n + a # 0
          BY <4>1, <5>1
        <5> QED
          BY <5>2, <5>3 DEF n
      <4>3. CASE r.side = "sell"
        <5>1. n <= 0
          <6>1. n * (-1) >= 0
            BY <3>3, <4>3 DEF Signed
          <6> HIDE DEF n
          <6> QED
            BY <4>1, <6>1
        <5>2. Signed(r.side, r.amount) = -a
          BY <4>3 DEF Signed
        <5> HIDE DEF n, a
        <5>3. n + (-a) # 0
          BY <4>1, <5>1
        <5> QED
          BY <5>2, <5>3 DEF n
      <4> QED
        BY <3>5, <4>2, <4>3
    <3> QED
      BY <1>1, <1>8, <3>4, <3>6
  <2>3. ~Entering'
    BY <2>1 DEF Entering, Pending
  <2> QED
    BY <1>12, <2>2, <2>3
<1> QED
  BY <1>13, <1>14 DEF Threads

\* A session that goes on after a restart is one whose orders leave an exposure.
LEMMA StandingInit ==
  ASSUME EHyp, SidesStay, Remembered, InitTradeSession
  PROVE  Standing'
<1> DEFINE m == Min(ActiveSessions)
<1>1. /\ th["main"].pc = "sleep" /\ Types /\ OneActiveSession
      /\ UNCHANGED <<rows, stopping, lost, overlap>>
  BY DEF InitTradeSession, EHyp, SInv
<1>2. CASE th' = [th EXCEPT !["main"] = At("begin")]
  <2>1. "begin" \in Steps \ Placed /\ "begin" \notin Loop \cup {"resume"}
    BY DEF Steps, Placed, Loop, Closer
  <2>2. CASE sess' = sess
    BY <1>1, <1>2, <2>1, <2>2, StandingArrives
  <2>3. CASE sess' # sess
    <3>1. th'["main"].pc = "resume"
      <4>1. th' = [th EXCEPT !["main"] = At("resume")]
        BY <2>3 DEF InitTradeSession, CheckingIfClosingOrderHasBeenCreated
      <4>2. "resume" \in Steps \ (Placed \cup {"fetch", "submit"})
        BY DEF Steps, Placed
      <4> QED
        BY <1>1, <4>1, <4>2, ArriveFacts
    <3>2. th'["main"].pc = "begin"
      <4>1. "begin" \in Steps \ (Placed \cup {"fetch", "submit"})
        BY DEF Steps, Placed
      <4> QED
        BY <1>1, <1>2, <4>1, ArriveFacts
    <3> QED
      BY <3>1, <3>2
  <2> QED
    BY <2>2, <2>3
<1>3. CASE /\ ActiveSessions # {} /\ RowsOf(m) # <<>> /\ ~IsSessionExposureClosed(RowsOf(m))
           /\ sess' = m /\ th' = [th EXCEPT !["main"] = At("resume")]
  <2>1. m \in DOMAIN rows /\ rows[m] \in Seq(Row)
    <3>1. m \in DOMAIN sessions
      BY <1>1, <1>3, MinActive
    <3> QED
      BY <1>1, <3>1 DEF Types, TypeOK
  <2>2. "resume" \in Steps \ (Placed \cup {"fetch", "submit"})
    BY DEF Steps, Placed
  <2>3. th'["main"].pc = "resume"
    BY <1>1, <1>3, <2>2, ArriveFacts
  <2>4. ~Entering'
    BY <2>3 DEF Entering, Pending
  <2>5. SUFFICES ASSUME Undisturbed'
                 PROVE  /\ \A s \in DOMAIN rows : \A i \in DOMAIN rows[s] : rows[s][i].amount > 0
                        /\ NetOf(rows[m]) # 0
    BY <1>1, <1>3, <2>4 DEF Standing
  <2>6. \A s \in DOMAIN rows : \A i \in DOMAIN rows[s] : rows[s][i].amount > 0
    BY <2>5, UndisturbedBefore DEF EHyp, Remembered, Standing
  <2> HIDE DEF m
  <2>7. NetOf(rows[m]) # 0
    BY <1>3, <2>1, <2>6, OpenNet DEF RowsOf
  <2> QED
    BY <2>6, <2>7
<1> QED
  BY <1>2, <1>3 DEF InitTradeSession, CheckingIfClosingOrderHasBeenCreated

\* A session that begins has no rows.
LEMMA StandingBegun ==
  ASSUME EHyp, SidesStay, Remembered, StartSession
  PROVE  Standing'
<1>1. /\ rows' = Append(rows, <<>>) /\ sess' = Len(sessions) + 1 /\ Types
      /\ th' = [th EXCEPT !["main"] = At("enter")]
  BY DEF StartSession, EHyp, SInv
<1>2. "enter" \in Steps \ (Placed \cup {"fetch", "submit"})
  BY DEF Steps, Placed
<1>3. th'["main"].pc = "enter"
  BY <1>1, <1>2, ArriveFacts
<1>4. /\ DOMAIN rows' = DOMAIN rows \cup {Len(rows) + 1}
      /\ \A s \in DOMAIN rows : rows'[s] = rows[s]
      /\ rows'[Len(rows) + 1] = <<>>
  <2>1. rows \in Seq(Seq(Row)) /\ <<>> \in Seq(Row)
    BY <1>1 DEF Types, TypeOK
  <2> QED
    BY <1>1, <2>1, AppendFacts
<1>5. rows'[sess'] = <<>>
  BY <1>1, <1>4 DEF Types
<1>6. Undisturbed' => \A s \in DOMAIN rows' : \A i \in DOMAIN rows'[s] : rows'[s][i].amount > 0
  <2>1. DOMAIN <<>> = {}
    OBVIOUS
  <2>2. SUFFICES ASSUME Undisturbed', NEW s \in DOMAIN rows', NEW i \in DOMAIN rows'[s]
                 PROVE  rows'[s][i].amount > 0
    OBVIOUS
  <2>3. s \in DOMAIN rows
    BY <1>4, <2>1, <2>2
  <2>4. Undisturbed
    BY <2>2, UndisturbedBefore DEF EHyp, Remembered
  <2> QED
    BY <1>4, <2>2, <2>3, <2>4 DEF EHyp, Standing
<1>7. ~Entering'
  BY <1>3 DEF Entering, Pending
<1> QED
  BY <1>5, <1>6, <1>7 DEF Standing

\* The entry is the first order of its session; a buy-back goes the way of the first one.
LEMMA StandingEnters ==
  ASSUME EHyp, SidesStay, Remembered, OpenFirstPosition \/ WatchBuyBack
  PROVE  Standing'
<1>1. /\ rows' = rows /\ th["main"].pc \in {"enter", "watch"} /\ SInv /\ Types /\ lost = lost
      /\ "main" \in Threads /\ "stop" \in Threads
  BY DEF OpenFirstPosition, WatchBuyBack, sqlite, EHyp, SInv, Threads
<1>2. sess \in DOMAIN rows /\ DOMAIN rows = DOMAIN sessions
  <2>1. sess \in DOMAIN sessions
    BY <1>1 DEF EHyp, Mirror, Open, Loop, ActiveSessions
  <2> QED
    BY <1>1, <2>1 DEF Types, TypeOK
<1>3. CASE OpenFirstPosition
  <2>1. PICK side \in {"buy", "sell"} : CreateOrder("main", side, Size, sess)
    BY <1>3 DEF OpenFirstPosition, EntrySide
  <2>2. th["main"].pc = "enter"
    BY <1>3 DEF OpenFirstPosition
  <2>3. Exposure => NetOf(rows[sess]) * Signed(side, 1) >= 0
    <3>1. Exposure => rows[sess] = <<>>
      BY <1>2, <2>2 DEF Exposure, Scene, LoopAt
    <3>2. Signed(side, 1) \in Int
      BY DEF Signed
    <3> QED
      BY <3>1, <3>2, NothingNetted
  <2> QED
    BY <1>1, <2>1, <2>3, StandingPlaced
<1>4. CASE WatchBuyBack
  <2> DEFINE side == book[mem[1].id].side
  <2>1. CreateOrder("main", side, Size, sess) /\ th["main"].pc = "watch"
    BY <1>4 DEF WatchBuyBack
  <2>2. mem # <<>>
    BY <1>1, <2>1 DEF SInv, Control
  <2>3. side \in {"buy", "sell"}
    <3>1. 1 \in DOMAIN mem
      BY <1>1, <2>2 DEF Types, TypeOK
    <3>2. book[mem[1].id] \in Order
      BY <1>1, <3>1 DEF SInv, Orders, Known, Types, TypeOK
    <3> QED
      BY <3>2 DEF Order
  <2>4. ASSUME Undisturbed, Exposure, ~stopping PROVE NetOf(rows[sess]) * Signed(side, 1) >= 0
    <3>1. PICK s \in DOMAIN rows : s = sess
      BY <1>2
    <3>2. HasLedger(s)
      BY <2>1, <2>4, <3>1 DEF Exposure, Scene, LoopAt, Listing, Open, Loop
    <3>3. Signed(side, 1) = EntrySign(s)
      BY <2>2, <3>2 DEF HasLedger
    <3>4. th["stop"].pc = "idle"
      BY <1>1, <2>4 DEF SInv, Control
    <3>5. \A t \in Threads : th[t].pc \notin Pending
      BY <2>1, <3>4 DEF Threads, Pending
    <3>6. lost = {} /\ Ledger
      BY <2>4 DEF Undisturbed, Exposure
    <3>7. NetOf(rows[s]) = SessionNet(s)
      BY <1>1, <3>5, <3>6, RowsArePosition
    <3>8. SessionNet(s) * EntrySign(s) >= 0
      BY <1>2, <3>6 DEF Ledger
    <3> QED
      BY <3>1, <3>3, <3>7, <3>8
  <2> HIDE DEF side
  <2> QED
    BY <1>1, <2>1, <2>3, <2>4, StandingPlaced
<1> QED
  BY <1>3, <1>4

\* Adding up the list takes the thread to the next entry, or to the end of the list.
LEMMA FetchMoves ==
  ASSUME SInv, NEW t \in Threads, FetchStatus(t)
  PROVE  /\ th[t].pc = "fetch" /\ th'[t].pc \in {"fetch", "price"}
         /\ UNCHANGED <<rows, stopping, sess>>
<1>1. th[t].pc = "fetch" /\ UNCHANGED <<rows, stopping, sess>>
  BY DEF FetchStatus, sqlite
<1>2. th[t] \in Thread /\ th \in [Threads -> Thread]
  BY DEF SInv, Types, TypeOK
<1> DEFINE p == IF Len(th[t].rest) > 1 THEN "fetch" ELSE "price"
<1>p. p \in {"fetch", "price"}
  OBVIOUS
<1>3. \E n : th' = [th EXCEPT ![t].rest = Tail(@), ![t].net = n, ![t].pc = p]
  BY Zenon DEF FetchStatus
<1> HIDE DEF p
<1>n. PICK n : th' = [th EXCEPT ![t].rest = Tail(@), ![t].net = n, ![t].pc = p]
  BY <1>3, Zenon
<1>5. th'[t] = [th[t] EXCEPT !.rest = Tail(th[t].rest), !.net = n, !.pc = p]
  BY <1>2, <1>n
<1>6. th'[t].pc = p
  BY <1>2, <1>5 DEF Thread
<1> QED
  BY <1>1, <1>6, <1>p

\* The loop waits, closes, or lists its order.
LEMMA StandingWorks ==
  ASSUME EHyp, SidesStay, Remembered, OrderStep("main")
  PROVE  Standing'
<1>1. /\ "main" \in Threads /\ SInv /\ Types /\ th["main"] \in Thread /\ th \in [Threads -> Thread]
  BY DEF EHyp, SInv, Types, TypeOK, Threads
<1>2. ASSUME NEW p \in {"save", "recheck", "fetch", "price", "submit"}, th' = [th EXCEPT !["main"].pc = p],
             th["main"].pc \in {"wait", "recheck", "fetch", "price"},
             p \in {"save", "recheck"} <=> th["main"].pc \in {"wait", "recheck"},
             UNCHANGED <<rows, stopping, sess>>
      PROVE  Standing'
  <2> DEFINE h == [th["main"] EXCEPT !.pc = p]
  <2>1. p \in Steps
    BY DEF Steps, Working
  <2>2. h \in Thread /\ h.pc = p /\ h.why = th["main"].why /\ h.ord = th["main"].ord
    BY <1>1, <2>1, PcFacts
  <2>3. th' = [th EXCEPT !["main"] = h]
    BY <1>1, <1>2
  <2> HIDE DEF h
  <2>4. Holding
    BY <1>2 DEF Holding, Loop, Closer, Placed
  <2>5. h.pc \in Pending /\ h.why = "entry" => Entering /\ h.ord = th["main"].ord
    BY <1>2, <2>2 DEF Entering, Pending
  <2> QED
    BY <1>2, <2>2, <2>3, <2>4, <2>5, StandingMoves
<1>3. ASSUME NEW placed \in BOOLEAN, th' = [th EXCEPT !["main"] = Resumed("main", placed)],
             th["main"].pc \in {"cancel", "price"}, UNCHANGED <<rows, stopping, sess>>
      PROVE  Standing'
  <2>1. PICK p \in {"dispose", "watch", "end", "done", "sleep"} : Resumed("main", placed) = At(p)
    BY <1>1, ResumedFacts
  <2>2. p \in Steps \ Placed
    BY DEF Steps, Placed
  <2>3. Holding
    BY <1>3 DEF Holding, Loop, Closer
  <2> QED
    BY <1>3, <2>1, <2>2, <2>3, StandingArrives
<1>4. CASE PollSettles("main") \/ RecheckAfterCancel("main")
  <2>1. /\ th["main"].pc \in {"wait", "recheck"} /\ rows' = rows
        /\ \/ th' = [th EXCEPT !["main"].pc = "save"] /\ UNCHANGED <<stopping, sess>>
           \/ Throw("main", {})
    BY <1>4 DEF PollSettles, RecheckAfterCancel, sqlite
  <2> QED
    BY <1>1, <1>2, <2>1, StandingThrown
<1>5. CASE PollTimesOut("main")
  <2>1. /\ th["main"].pc = "wait" /\ UNCHANGED <<rows, stopping, sess>>
        /\ th' = [th EXCEPT !["main"].pc = "recheck"]
    BY <1>5 DEF PollTimesOut, sqlite
  <2> QED
    BY <1>2, <2>1
<1>6. CASE CancelAllOrders("main")
  <2>1. /\ th["main"].pc = "cancel" /\ UNCHANGED <<rows, stopping, sess>>
        /\ \/ th' = [th EXCEPT !["main"] = Resumed("main", FALSE)]
           \/ th' = [th EXCEPT !["main"].pc = "fetch", !["main"].rest = mem, !["main"].live = TRUE]
    BY <1>6 DEF CancelAllOrders, sqlite
  <2>2. CASE th' = [th EXCEPT !["main"].pc = "fetch", !["main"].rest = mem, !["main"].live = TRUE]
    <3>1. th'["main"].pc = "fetch"
      BY <1>1, <2>2 DEF Thread
    <3>2. Holding
      BY <2>1 DEF Holding, Loop, Closer
    <3>3. ~Entering'
      BY <3>1 DEF Entering, Pending
    <3> QED
      BY <2>1, <3>2, <3>3, StandingKeeps
  <2> QED
    BY <1>3, <2>1, <2>2
<1>7. CASE FetchStatus("main")
  <2>1. /\ th["main"].pc = "fetch" /\ th'["main"].pc \in {"fetch", "price"}
        /\ UNCHANGED <<rows, stopping, sess>>
    BY <1>1, <1>7, FetchMoves
  <2>2. Holding /\ ~Entering'
    BY <2>1 DEF Holding, Entering, Loop, Closer, Pending
  <2> QED
    BY <2>1, <2>2, StandingKeeps
<1>8. CASE CalculateClosingOrderExposure("main")
  <2>1. /\ th["main"].pc = "price" /\ rows' = rows
        /\ \/ th' = [th EXCEPT !["main"] = Resumed("main", FALSE)] /\ UNCHANGED <<stopping, sess>>
           \/ th' = [th EXCEPT !["main"].pc = "submit"] /\ UNCHANGED <<stopping, sess>>
           \/ Throw("main", {})
    BY <1>8 DEF CalculateClosingOrderExposure, sqlite
  <2> QED
    BY <1>1, <1>2, <1>3, <2>1, StandingThrown
<1>9. CASE SubmitClosingOrder("main")
  <2> DEFINE why == IF th["main"].why = "none" THEN "entry" ELSE th["main"].why
             n == Len(book) + 1
             idx == th["main"].idx
  <2>1. th["main"].pc = "submit" /\ rows' = rows
    BY <1>9 DEF SubmitClosingOrder, sqlite
  <2>2. \/ th' = [th EXCEPT !["main"] = Sent(n, idx, why)] /\ UNCHANGED <<stopping, sess>>
        \/ Throw("main", {n})
        \/ Throw("main", {})
    BY <1>9 DEF SubmitClosingOrder, CreateOrder, Sent
  <2>3. why # "entry"
    BY <1>1, <2>1 DEF SInv, Control, Closer, AtClose
  <2> HIDE DEF why, n, idx
  <2>4. CASE th' = [th EXCEPT !["main"] = Sent(n, idx, why)] /\ UNCHANGED <<stopping, sess>>
    <3>1. th'["main"] = Sent(n, idx, why)
      BY <1>1, <2>4
    <3>2. th'["main"].pc = "wait" /\ th'["main"].why = why
      BY <3>1, SentFacts
    <3>3. Holding /\ ~Entering'
      BY <2>1, <2>3, <3>2 DEF Holding, Entering, Loop, Closer
    <3> QED
      BY <2>1, <2>4, <3>3, StandingKeeps
  <2> QED
    BY <1>1, <2>1, <2>2, <2>4, StandingThrown
<1>10. CASE PushOrder("main")
  <2>1. /\ th["main"].pc = "push" /\ UNCHANGED <<rows, stopping, sess>>
        /\ th'["main"] = Resumed("main", TRUE)
    <3>1. th["main"].pc = "push" /\ UNCHANGED <<sqlite, stopping, sess>>
      BY <1>10 DEF PushOrder
    <3>2. \E x : th' = [th EXCEPT !["main"] = Resumed("main", TRUE), ![Other("main")].rest = x]
      BY <1>10 DEF PushOrder
    <3>3. Other("main") # "main"
      BY DEF Other
    <3>4. th'["main"] = Resumed("main", TRUE)
      BY <1>1, <3>2, <3>3
    <3> QED
      BY <3>1, <3>4 DEF sqlite
  <2>2. PICK p \in {"watch", "end"} : Resumed("main", TRUE) = At(p)
    BY <1>1, ResumedFacts
  <2>3. p \in Steps
    BY DEF Steps
  <2>4. th'["main"].pc = p
    BY <2>1, <2>2, <2>3, AtFacts
  <2>5. ~Entering'
    BY <2>4 DEF Entering, Pending
  <2>6. CASE th["main"].why = "entry"
    <3>1. Holding
      BY <2>1, <2>6 DEF Holding
    <3> QED
      BY <2>1, <2>5, <3>1, StandingKeeps
  <2>7. CASE th["main"].why # "entry"
    <3>1. Resumed("main", TRUE) = At("end")
      BY <2>7 DEF Resumed
    <3>2. "end" \in Steps
      BY DEF Steps
    <3>3. th'["main"].pc = "end"
      BY <2>1, <3>1, <3>2, AtFacts
    <3>4. ~Holding'
      BY <3>3 DEF Holding, Loop, Closer, Placed
    <3> QED
      BY <2>1, <2>5, <3>4, StandingKeeps
  <2> QED
    BY <2>6, <2>7
<1>11. CASE SaveActivatedOrder("main")
  BY <1>1, <1>11, StandingSaved
<1> QED
  BY <1>4, <1>5, <1>6, <1>7, <1>8, <1>9, <1>10, <1>11 DEF OrderStep

\* The stop request's own steps are taken while the process stops.
LEMMA StandingClosed ==
  ASSUME EHyp, SidesStay, Remembered, OrderStep("stop")
  PROVE  Standing'
<1>1. "stop" \in Threads /\ SInv
  BY DEF EHyp, Threads
<1>2. CASE SaveActivatedOrder("stop")
  BY <1>1, <1>2, StandingSaved
<1>3. CASE ~SaveActivatedOrder("stop")
  <2>1. /\ rows' = rows /\ th["stop"].pc \notin {"idle"}
        /\ stopping' = stopping \/ \E L : Throw("stop", L) /\ th["stop"].pc # "push"
    <3>1. CASE PollSettles("stop") \/ RecheckAfterCancel("stop")
      BY <3>1 DEF PollSettles, RecheckAfterCancel, sqlite
    <3>2. CASE PollTimesOut("stop")
      BY <3>2 DEF PollTimesOut, sqlite
    <3>3. CASE PushOrder("stop")
      BY <3>3 DEF PushOrder, sqlite
    <3>4. CASE CancelAllOrders("stop")
      BY <3>4 DEF CancelAllOrders, sqlite
    <3>5. CASE FetchStatus("stop")
      BY <3>5 DEF FetchStatus, sqlite
    <3>6. CASE CalculateClosingOrderExposure("stop")
      BY <3>6 DEF CalculateClosingOrderExposure, sqlite
    <3>7. CASE SubmitClosingOrder("stop")
      BY <3>7 DEF SubmitClosingOrder, CreateOrder, sqlite
    <3> QED
      BY <1>3, <3>1, <3>2, <3>3, <3>4, <3>5, <3>6, <3>7 DEF OrderStep
  <2>2. stopping /\ stopping \in BOOLEAN
    BY <1>1, <2>1 DEF SInv, Control, Types, TypeOK
  <2> QED
    BY <1>1, <2>1, <2>2, StandingStops, StandingThrown
<1> QED
  BY <1>2, <1>3

\* The loop's other steps.
LEMMA StandingLoops ==
  ASSUME EHyp, SidesStay, Remembered, MainStep
  PROVE  Standing'
<1>1. /\ "main" \in Threads /\ SInv /\ Types /\ th["main"] \in Thread /\ th \in [Threads -> Thread]
  BY DEF EHyp, SInv, Types, TypeOK, Threads
<1>2. CASE CheckingExistingOrders
  <2>1. /\ th["main"].pc = "resume" /\ UNCHANGED <<rows, stopping, sess>>
        /\ th' = [Detached EXCEPT !["main"] = At("watch")]
    BY <1>2 DEF CheckingExistingOrders, sqlite
  <2>2. "watch" \in Steps \ (Placed \cup {"fetch", "submit"})
    BY DEF Steps, Placed
  <2>3. th'["main"].pc = "watch"
    BY <1>1, <2>1, <2>2, ArriveFacts
  <2>4. Holding /\ ~Entering'
    BY <2>1, <2>3 DEF Holding, Entering, Pending
  <2> QED
    BY <2>1, <2>4, StandingKeeps
<1>3. CASE CalculateProfitSession
  <2>1. /\ th["main"].pc = "end" /\ rows' = rows
        /\ \/ th' = [th EXCEPT !["main"].pc = "ending"] /\ UNCHANGED <<stopping, sess>>
           \/ Throw("main", {})
    BY <1>3 DEF CalculateProfitSession, sqlite
  <2>2. CASE th' = [th EXCEPT !["main"].pc = "ending"] /\ UNCHANGED <<stopping, sess>>
    <3>1. "ending" \in Steps
      BY DEF Steps
    <3>2. th'["main"].pc = "ending"
      BY <1>1, <2>2, <3>1, PcFacts
    <3>3. ~Holding' /\ ~Entering'
      BY <3>2 DEF Holding, Entering, Loop, Closer, Placed, Pending
    <3> QED
      BY <2>1, <3>3, StandingKeeps
  <2> QED
    BY <1>1, <2>1, <2>2, StandingThrown
<1>4. CASE EndTradeSession
  <2>1. UNCHANGED <<rows, stopping, sess>> /\ th' = [th EXCEPT !["main"].pc = "clear"]
    BY <1>4 DEF EndTradeSession
  <2>2. "clear" \in Steps
    BY DEF Steps
  <2>3. th'["main"].pc = "clear"
    BY <1>1, <2>1, <2>2, PcFacts
  <2>4. ~Holding' /\ ~Entering'
    BY <2>3 DEF Holding, Entering, Loop, Closer, Placed, Pending
  <2> QED
    BY <2>1, <2>4, StandingKeeps
<1>5. CASE ClearingOrderList
  <2>1. PICK p \in {"done", "sleep"} : /\ UNCHANGED <<rows, stopping, sess>>
                                       /\ th' = [Detached EXCEPT !["main"] = At(p)]
    BY <1>5 DEF ClearingOrderList, sqlite
  <2>2. p \in Steps \ (Placed \cup {"fetch", "submit"})
    BY DEF Steps, Placed
  <2>3. th'["main"].pc = p
    BY <1>1, <2>1, <2>2, ArriveFacts
  <2>4. ~Holding' /\ ~Entering'
    BY <2>3 DEF Holding, Entering, Loop, Closer, Placed, Pending
  <2> QED
    BY <2>1, <2>4, StandingKeeps
<1>6. CASE WatchStopLoss \/ WatchTakeProfit \/ OnPriceTracker
  <2>1. /\ th["main"].pc \in {"watch", "tracking"} /\ UNCHANGED <<rows, stopping, sess>>
        /\ \E h \in {Closing("loss"), Closing("profit"), Closing("track"), At("tracking")} :
              th' = [th EXCEPT !["main"] = h]
    BY <1>6 DEF WatchStopLoss, WatchTakeProfit, OnPriceTracker, sqlite
  <2>2. PICK h \in {Closing("loss"), Closing("profit"), Closing("track"), At("tracking")} :
           th' = [th EXCEPT !["main"] = h]
    BY <2>1
  <2>3. h \in Thread /\ h.pc \in {"cancel", "tracking"}
    <3>1. \A w \in {"loss", "profit", "track"} : Closing(w) \in Thread /\ Closing(w).pc = "cancel"
      BY <1>1, ClosingFacts DEF Types, TypeOK
    <3>2. "tracking" \in Steps
      BY DEF Steps
    <3>3. At("tracking") \in Thread /\ At("tracking").pc = "tracking"
      BY <3>2, AtFacts
    <3> QED
      BY <3>1, <3>3
  <2>4. Holding /\ h.pc \notin Pending
    BY <2>1, <2>3 DEF Holding, Loop, Pending
  <2> QED
    BY <2>1, <2>2, <2>3, <2>4, StandingMoves
<1> QED
  BY <1>2, <1>3, <1>4, <1>5, <1>6, StandingInit, StandingBegun, StandingEnters DEF MainStep

\* Reads and cancellations that fail.
LEMMA StandingFails ==
  ASSUME EHyp, SidesStay, Remembered,
         \/ SessionReadFails \/ EntryReadFails \/ WatchReadFails \/ TrackerReadFails
         \/ \E t \in Threads : ExecutionFails(t) \/ CancelAllFails(t)
  PROVE  Standing'
<1>1. CASE SessionReadFails \/ EntryReadFails \/ WatchReadFails
  <2>1. Throw("main", {}) /\ rows' = rows /\ th["main"].pc # "push" /\ "main" \in Threads
    BY <1>1 DEF SessionReadFails, EntryReadFails, WatchReadFails, sqlite, Threads
  <2> QED
    BY <2>1, StandingThrown
<1>2. CASE TrackerReadFails
  <2>1. /\ th["main"].pc = "tracking" /\ UNCHANGED <<rows, stopping, sess>>
        /\ th' = [th EXCEPT !["main"] = At("watch")]
    BY <1>2 DEF TrackerReadFails, sqlite
  <2>2. "watch" \in Steps \ Placed /\ Holding
    BY <2>1 DEF Steps, Placed, Holding, Loop
  <2> QED
    BY <2>1, <2>2, StandingArrives
<1>3. ASSUME NEW t \in Threads, ExecutionFails(t) \/ CancelAllFails(t) PROVE Standing'
  <2>1. \E L : Throw(t, L) /\ rows' = rows /\ th[t].pc # "push"
    BY <1>3 DEF ExecutionFails, CancelAllFails, sqlite
  <2> QED
    BY <2>1, StandingThrown
<1> QED
  BY <1>1, <1>2, <1>3

\* The loop holds a position after every step.
LEMMA StandingStep ==
  ASSUME EHyp, [Next]_vars
  PROVE  Standing'
<1>0. SidesStay /\ Remembered /\ SInv /\ Types
  BY StepRemembers DEF EHyp, SInv
<1>1. CASE UNCHANGED vars
  <2>1. UNCHANGED <<rows, stopping, sess, th>>
    BY <1>1 DEF vars
  <2>2. (Holding' <=> Holding) /\ (Entering' <=> Entering)
    BY <2>1 DEF Holding, Entering
  <2> QED
    BY <1>0, <2>1, <2>2, StandingKeeps
<1>2. CASE Start
  <2>1. UNCHANGED <<rows, stopping, sess>> /\ th' = [th EXCEPT !["main"] = At("sleep")]
    BY <1>2 DEF Start, sqlite
  <2>2. "sleep" \in Steps \ Placed /\ "sleep" \notin Loop \cup {"resume"}
    BY DEF Steps, Placed, Loop, Closer
  <2> QED
    BY <1>0, <2>1, <2>2, StandingArrives
<1>3. CASE StopWorker
  BY <1>0, <1>3, StandingStops DEF StopWorker, sqlite
<1>4. CASE Kill \/ Dispose
  <2>1. \E L : Exit(L) /\ rows' = rows
    BY <1>4 DEF Kill, Dispose, sqlite
  <2>2. \A u \in Threads : th'[u] = At("idle")
    BY <1>0, <2>1, ExitFacts
  <2> QED
    BY <1>0, <2>1, <2>2, StandingGone
<1>5. CASE SessionReadFails \/ EntryReadFails \/ WatchReadFails \/ TrackerReadFails
  BY <1>0, <1>5, StandingFails
<1>6. CASE MainStep
  BY <1>0, <1>6, StandingLoops
<1>7. CASE \E t \in Threads : OrderStep(t) \/ ExecutionFails(t) \/ CancelAllFails(t)
  BY <1>0, <1>7, StandingFails, StandingWorks, StandingClosed DEF Threads
<1>8. ASSUME NEW o \in DOMAIN book, Drop(o) \/ \E q \in 1..book[o].amount : Fill(o, q)
      PROVE  Standing'
  <2>1. UNCHANGED <<rows, stopping, sess, th>>
    <3>1. CASE Drop(o)
      BY <3>1 DEF Drop, sqlite
    <3>2. ASSUME NEW q \in 1..book[o].amount, Fill(o, q) PROVE UNCHANGED <<rows, stopping, sess, th>>
      BY <3>2 DEF Fill, sqlite
    <3> QED
      BY <1>8, <3>1, <3>2
  <2>2. (Holding' <=> Holding) /\ (Entering' <=> Entering)
    BY <2>1 DEF Holding, Entering
  <2> QED
    BY <1>0, <2>1, <2>2, StandingKeeps
<1> QED
  BY <1>1, <1>2, <1>3, <1>4, <1>5, <1>6, <1>7, <1>8 DEF Next

-----------------------------------------------------------------------------
(***************************************************************************)
(* The specification.                                                      *)
(***************************************************************************)
\* The invariant at first.
LEMMA ExposureInit ==
  ASSUME Init
  PROVE  EInv /\ Standing
<1>1. "idle" \in Steps
  BY DEF Steps
<1>2. At("idle") = Idle
  BY DEF At, Idle
<1>3. Idle.pc = "idle"
  BY <1>1, <1>2, AtFacts
<1>4. /\ \A t \in Threads : th[t].pc = "idle"
      /\ book = <<>> /\ sessions = <<>> /\ rows = <<>> /\ mem = <<>> /\ ~alive
  BY <1>3 DEF Init
<1>5. DOMAIN book = {} /\ DOMAIN sessions = {} /\ DOMAIN rows = {}
  BY <1>4
<1>6. Counts /\ Ledger
  BY <1>5 DEF Counts, Ledger
<1>7. \A t \in Threads : Works(t)
  BY <1>4, <1>5 DEF Works
<1>8. Scene /\ StopAt
  BY <1>4, <1>5 DEF Scene, StopAt, Threads, Working, Outside
<1>9. Standing
  <2>1. ~Holding /\ ~Entering
    BY <1>4 DEF Holding, Entering, Loop, Closer, Placed, Pending, Threads
  <2> QED
    BY <1>5, <2>1 DEF Standing
<1> QED
  BY <1>6, <1>7, <1>8, <1>9 DEF EInv, Exposure

\* The invariant after every step.
LEMMA ExposureNext ==
  ASSUME EHyp, [Next]_vars
  PROVE  EInv'
<1>1. CASE UNCHANGED vars
  <2>1. UNCHANGED <<book, sessions, rows, alive, mem, sess, th, lost, overlap>>
    BY <1>1 DEF vars
  <2>2. ListStays
    BY <2>1, CalmSame DEF ListStays, EHyp, SInv
  <2> QED
    BY <2>1, <2>2, RestExposure
<1>2. CASE Start \/ Kill \/ StopWorker \/ Dispose
  BY <1>2, StartExposure, EndsExposure, RequestExposure
<1>3. CASE SessionReadFails \/ EntryReadFails \/ WatchReadFails \/ TrackerReadFails
  BY <1>3, FailsExposure, WatchExposure
<1>4. CASE MainStep
  BY <1>4, InitExposure, BeganExposure, ResumeExposure, EntryExposure, BuyBackExposure,
     ProfitExposure, EndExposure, ClearExposure, WatchExposure DEF MainStep
<1>5. CASE \E t \in Threads : OrderStep(t) \/ ExecutionFails(t) \/ CancelAllFails(t)
  <2>1. PICK t \in Threads : OrderStep(t) \/ ExecutionFails(t) \/ CancelAllFails(t)
    BY <1>5
  <2>2. CASE ExecutionFails(t) \/ CancelAllFails(t)
    BY <2>2, FailsExposure
  <2>3. CASE OrderStep(t)
    BY <2>3, PollExposure, TimeOutExposure, SaveExposure, PushExposure, CancelExposure, FetchExposure,
       CoverExposure, SubmitExposure DEF OrderStep
  <2> QED
    BY <2>1, <2>2, <2>3
<1>6. ASSUME NEW o \in DOMAIN book, Drop(o) \/ \E q \in 1..book[o].amount : Fill(o, q)
      PROVE  EInv'
  BY <1>6, DropExposure, FillExposure
<1> QED
  BY <1>1, <1>2, <1>3, <1>4, <1>5, <1>6 DEF Next

\* What is known of the exchange, SQLite, the list and both threads, in every behaviour.
LEMMA ExposureSafe == Spec => [](SInv /\ Mirror /\ EInv)
<1> DEFINE I == SInv /\ Mirror /\ Down /\ EInv /\ Standing
<1>1. Init => I
  BY StoreInit, MirrorInit, ExposureInit
<1>2. EInv => EmptyBetween
  BY DEF EInv, Exposure, Scene, Outside, EmptyBetween
<1>3. I /\ [Next]_vars => I'
  BY <1>2, StoreStep, MirrorStep, DownStep, ExposureNext, StandingStep DEF EHyp
<1>4. I => SInv /\ Mirror /\ EInv
  OBVIOUS
<1> HIDE DEF I
<1> QED
  BY <1>1, <1>3, <1>4, PTL DEF Spec

\* closeFilledPosition never closes more than the session holds: through partial fills,
\* time-outs, buy-backs, crashes and restores, what calculateClosingOrderExposure adds up
\* is what the exchange holds for the session, as long as no order was hidden and the stop
\* request did not work on orders, or on the list, while the loop did.
THEOREM ClosesNoMore == Spec => []NeverOverClosed
<1>1. SInv /\ EInv => NeverOverClosed
  <2> SUFFICES ASSUME SInv, EInv, Undisturbed, NEW s \in DOMAIN sessions
               PROVE  ~OverClosed(s)
    BY DEF NeverOverClosed
  <2>1. SessionNet(s) * EntrySign(s) >= 0
    BY DEF EInv, Exposure, Ledger
  <2>2. SessionNet(s) \in Int /\ EntrySign(s) \in Int
    BY ExposureTypes DEF SInv
  <2> QED
    BY <2>1, <2>2 DEF OverClosed
<1> QED
  BY <1>1, ExposureSafe, PTL

\* A session that _endTradeSession or a restart ended is covered, unless its closing
\* order was canceled after a part of it had executed.
THEOREM EndsCovered == Spec => []EndedIsFlatOrPartial
<1>1. EInv => EndedIsFlatOrPartial
  BY DEF EInv, Exposure, Ledger, FlatOrPartial, Partial, EndedIsFlatOrPartial
<1> QED
  BY <1>1, ExposureSafe, PTL

\* While the loop watches, the orders it closes and computes the stop-loss from are
\* those SQLite has of the session, each once: setOrders, addOrder and clearOrdersList
\* keep the list in step with _saveActivatedOrder through restores, buy-backs, failed
\* closes and restarts, as long as no order was hidden and the two threads did not work
\* at a time, and until the stop request lists a closing order of its own.
THEOREM ListMirrorsLedger == Spec => []MemoryIsLedger
<1>1. SInv /\ Mirror => MemoryIsLedger
  <2> SUFFICES ASSUME SInv, Mirror, th["main"].pc = "watch",
                      th["stop"].pc \notin {"push", "dispose"}, Undisturbed
               PROVE  /\ {m.id : m \in Range(mem)} = {r.id : r \in Range(RowsOf(sess))}
                      /\ IsInjective(mem)
    BY DEF MemoryIsLedger
  <2>1. "watch" \in Loop
    BY DEF Loop
  <2>2. Ids(RowsOf(sess)) = Ids(mem) /\ Distinct(mem)
    BY <2>1 DEF Mirror, Settled, Mirrored
  <2>3. \A q : {m.id : m \in Range(q)} = Ids(q)
    BY DEF Range, Ids
  <2>4. IsInjective(mem)
    BY <2>2 DEF IsInjective, Distinct
  <2> QED
    BY <2>2, <2>3, <2>4
<1> QED
  BY <1>1, ExposureSafe, PTL
=============================================================================
