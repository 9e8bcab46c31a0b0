------------------------- MODULE TradeSessionProofs -------------------------
(***************************************************************************)
(* What TradeSession.tla promises about SQLite and the exchange, proved    *)
(* for any number of orders, sessions, starts and faults.                  *)
(*                                                                         *)
(* The inductive invariant SInv follows the two threads: which order a     *)
(* thread is responsible for, that no other thread is, and that an order   *)
(* the exchange may still fill is somebody's responsibility.  Four parts   *)
(* are added to the types: Responsible (a thread's order exists, is not    *)
(* saved yet, and can no longer fill once it was polled to the end), Known *)
(* (every entry of a list is an order of the exchange), Accounted (an open *)
(* or executed order is saved, hidden or in flight) and Control (which     *)
(* session and which list the loop's position stands for).                 *)
(***************************************************************************)
EXTENDS TradeSession, TLAPS, SequenceTheorems

Placed == {"wait", "recheck", "save", "push"}
Pending == {"wait", "recheck", "save"}
Closer == {"cancel", "fetch", "price", "submit"}
AtClose == {"loss", "profit", "track"}

Types ==
    /\ TypeOK
    /\ Len(book) <= MaxOrders
    /\ lost \subseteq DOMAIN book
    /\ Len(rows) = Len(sessions)
    /\ sess <= Len(sessions)

\* The entries of a list are orders of the exchange; a restored one is in SQLite.
Known(q) == \A i \in DOMAIN q : q[i].id \in DOMAIN book /\ (q[i].restored => IsSaved(q[i].id))

\* What a thread that works on orders may rely on.
Responsible(h) ==
    /\ h.idx <= Len(sessions)
    /\ h.pc \in Placed => h.ord \in DOMAIN book /\ book[h.ord].sess = h.idx
    /\ h.pc \in Pending => ~IsSaved(h.ord)
    /\ h.pc \in {"recheck", "save"} => book[h.ord].status # "open"
    /\ h.pc = "submit" => h.net # 0
    /\ h.pc = "fetch" => h.rest # <<>>
    /\ Known(h.rest)

\* No two threads work on the same order.
Apart ==
    th["main"].pc \in Pending /\ th["stop"].pc \in Pending => th["main"].ord # th["stop"].ord

Accounted ==
    \A o \in DOMAIN book :
        book[o].status = "open" \/ book[o].filled > 0 =>
            IsSaved(o) \/ o \in lost \/ \E t \in Threads : o \in InFlight(t)

Control ==
    /\ ~alive => th["main"].pc = "idle"
    /\ ~stopping => th["stop"].pc = "idle"
    /\ th["main"].pc \in Closer => th["main"].why \in AtClose
    /\ th["stop"].why \notin AtClose
    /\ th["main"].pc \in {"watch", "tracking", "end"} \/ th["main"].why \in AtClose => mem # <<>>
    /\ th["main"].pc = "begin" => ActiveSessions = {}
    /\ th["main"].pc = "resume" => sess \in DOMAIN rows /\ RowsOf(sess) # <<>>

Orders ==
    /\ \A t \in Threads : Responsible(th[t])
    /\ Known(mem)
    /\ Apart
    /\ Accounted
    /\ SavedIsFinal

SInv == Types /\ Orders /\ Control /\ OneActiveSession

-----------------------------------------------------------------------------
(* Facts about the operators of the model.                                 *)

\* The bounds are natural numbers.
LEMMA Bounds == MaxOrders \in Nat /\ MaxSessions \in Nat /\ MaxStarts \in Nat /\ MaxFaults \in Nat
  BY BoundsAssumption

\* There are two threads, and each is the other's other one.
LEMMA TwoThreads ==
  ASSUME NEW t \in Threads
  PROVE  /\ Other(t) \in Threads /\ Other(t) # t
         /\ \A u \in Threads : u = t \/ u = Other(t)
  BY DEF Threads, Other

\* A thread that has just arrived somewhere has no order and no list.
LEMMA AtFacts ==
  ASSUME NEW p \in Steps
  PROVE  /\ At(p) \in Thread
         /\ At(p).pc = p /\ At(p).why = "none" /\ At(p).idx = 0 /\ At(p).rest = <<>>
         /\ At(p).ord = 0
<1>1. Idle \in Thread
  <2>1. <<>> \in Seq(Held)
    OBVIOUS
  <2> QED
    BY <2>1 DEF Idle, Thread, Steps
<1>2. \A h \in Thread : [h EXCEPT !.pc = p] \in Thread
  BY DEF Thread
<1> QED
  BY <1>1, <1>2 DEF At, Idle

\* A close remembers the session's index of the moment it began.
LEMMA ClosingFacts ==
  ASSUME sess \in Nat, NEW w \in {"loss", "profit", "track", "stop"}
  PROVE  /\ Closing(w) \in Thread
         /\ Closing(w).pc = "cancel" /\ Closing(w).why = w /\ Closing(w).idx = sess
         /\ Closing(w).rest = <<>>
<1>1. "cancel" \in Steps
  BY DEF Steps
<1>2. At("cancel") \in Thread /\ At("cancel").pc = "cancel" /\ At("cancel").rest = <<>>
  BY <1>1, AtFacts
<1>3. \A h \in Thread : /\ [h EXCEPT !.why = w, !.idx = sess] \in Thread
                        /\ [h EXCEPT !.why = w, !.idx = sess].pc = h.pc
                        /\ [h EXCEPT !.why = w, !.idx = sess].why = w
                        /\ [h EXCEPT !.why = w, !.idx = sess].idx = sess
                        /\ [h EXCEPT !.why = w, !.idx = sess].rest = h.rest
  BY DEF Thread
<1> QED
  BY <1>2, <1>3 DEF Closing

\* Setting one field of a thread keeps the others.
LEMMA PcFacts ==
  ASSUME NEW h \in Thread, NEW p \in Steps
  PROVE  /\ [h EXCEPT !.pc = p] \in Thread
         /\ [h EXCEPT !.pc = p].pc = p
         /\ [h EXCEPT !.pc = p].why = h.why /\ [h EXCEPT !.pc = p].ord = h.ord
         /\ [h EXCEPT !.pc = p].idx = h.idx /\ [h EXCEPT !.pc = p].rest = h.rest
         /\ [h EXCEPT !.pc = p].net = h.net
  BY DEF Thread

\* Replacing what one thread does leaves the other one alone.
LEMMA ThreadUpdate ==
  ASSUME th \in [Threads -> Thread], NEW t \in Threads, NEW h \in Thread,
         th' = [th EXCEPT ![t] = h]
  PROVE  /\ th' \in [Threads -> Thread]
         /\ th'[t] = h
         /\ \A u \in Threads : u # t => th'[u] = th[u]
  OBVIOUS

\* After the order of a thread was placed, or not, the thread starts afresh.
LEMMA ResumedFacts ==
  ASSUME NEW t \in Threads, NEW placed \in BOOLEAN
  PROVE  \E p \in {"dispose", "watch", "end", "done", "sleep"} :
            /\ Resumed(t, placed) = At(p)
            /\ t = "stop" => p = "dispose"
            /\ t = "main" => p # "dispose"
            /\ t = "main" /\ placed => p \in {"watch", "end"}
<1>1. CASE t = "stop"
  BY <1>1 DEF Resumed
<1>2. CASE t = "main"
  <2>1. CASE th[t].why = "entry"
    BY <1>2, <2>1 DEF Resumed
  <2>2. CASE th[t].why # "entry" /\ placed
    BY <1>2, <2>2 DEF Resumed
  <2>3. CASE th[t].why # "entry" /\ ~placed
    <3>1. CASE th[t].why = "loss"
      BY <1>2, <2>3, <3>1 DEF Resumed
    <3>2. CASE th[t].why # "loss"
      BY <1>2, <2>3, <3>2 DEF Resumed
    <3> QED
      BY <3>1, <3>2
  <2> QED
    BY <2>1, <2>2, <2>3
<1> QED
  BY <1>1, <1>2 DEF Threads

\* An order is saved when some session's ledger has it.
LEMMA SavedMeans ==
  \A o : IsSaved(o) <=> \E s \in DOMAIN rows : \E i \in DOMAIN rows[s] : rows[s][i].id = o
  BY DEF IsSaved, SavedRows, RowsOf, Range

\* What is saved depends on the ledger only.
LEMMA SavedFrame ==
  ASSUME rows' = rows
  PROVE  \A o : IsSaved(o)' <=> IsSaved(o)
  BY DEF IsSaved, SavedRows, RowsOf, Range

-----------------------------------------------------------------------------
(* Steps that take a thread off its order.                                 *)

\* What the exchange may do to the orders it has: an order that is no longer open
\* stays as it is, and none changes its session.
BookGrows ==
    \A o \in DOMAIN book : /\ o \in DOMAIN book'
                           /\ book'[o].sess = book[o].sess
                           /\ book[o].status # "open" => book'[o] = book[o]

\* Thread u goes on with the order and the list it had.
SameWork(u) == /\ th'[u].pc = th[u].pc /\ th'[u].ord = th[u].ord /\ th'[u].idx = th[u].idx
               /\ th'[u].rest = th[u].rest /\ th'[u].net = th[u].net

Quiet(h) == /\ h.pc \notin Placed \cup {"fetch", "submit"}
            /\ Known(h.rest)
            /\ h.idx <= Len(sessions)

\* The order thread u gives up is hidden by a fault, or can never execute.
Released(u) ==
    \A o \in InFlight(u) : o \in lost' \/ (book[o].status # "open" /\ ~(book[o].filled > 0))

\* What a list knows stays known.
LEMMA KnownStays ==
  ASSUME BookGrows, \A o : IsSaved(o) => IsSaved(o)'
  PROVE  \A q : Known(q) => Known(q)'
  BY DEF Known, BookGrows

\* A thread that goes on with its order may still rely on it.
LEMMA SameWorkStays ==
  ASSUME BookGrows, Len(sessions) \in Nat, Len(sessions') \in Nat, Len(sessions) <= Len(sessions'),
         NEW t \in Threads, th[t].idx \in Nat, SameWork(t), Responsible(th[t]),
         \A o : IsSaved(o) => IsSaved(o)',
         th[t].pc \in Pending => ~IsSaved(th[t].ord)'
  PROVE  Responsible(th[t])'
<1>1. Known(th[t].rest) => Known(th[t].rest)'
  BY KnownStays DEF SameWork, Known
<1>2. th'[t].pc \in Placed => th'[t].ord \in DOMAIN book' /\ book'[th'[t].ord].sess = th'[t].idx
  BY DEF Responsible, BookGrows, SameWork
<1>3. th'[t].pc \in {"recheck", "save"} => book'[th'[t].ord].status # "open"
  BY DEF Responsible, BookGrows, Placed, SameWork
<1>4. th'[t].idx <= Len(sessions')
  BY DEF Responsible, SameWork
<1>5. th'[t].pc \in Pending => ~IsSaved(th[t].ord)'
  BY DEF SameWork
<1> QED
  BY <1>1, <1>2, <1>3, <1>4, <1>5 DEF Responsible, SameWork

\* A step that saves nothing keeps Orders when every thread goes on, gives up or may
\* rely on what it begins, and the orders it adds are hidden or in flight.
LEMMA OrdersStep ==
  ASSUME Types, Orders,
         \A o : IsSaved(o)' <=> IsSaved(o), SavedIsFinal',
         Len(sessions') \in Nat, Len(sessions) <= Len(sessions'),
         BookGrows, lost \subseteq lost',
         \A o \in DOMAIN book' : o \in DOMAIN book \/ o \in lost' \/ \E t \in Threads : o \in InFlight(t)',
         \A u \in Threads : SameWork(u) \/ Responsible(th[u])',
         \A u \in Threads : InFlight(u) \subseteq InFlight(u)' \/ Released(u),
         Apart', Known(mem)'
  PROVE  Orders'
<1>1. (\A t \in Threads : Responsible(th[t]))'
  <2> SUFFICES ASSUME NEW t \in Threads, SameWork(t)
               PROVE  Responsible(th[t])'
    OBVIOUS
  <2>1. Responsible(th[t])
    BY DEF Orders
  <2>2. th[t].pc \in Pending => ~IsSaved(th[t].ord)'
    BY <2>1 DEF Responsible, SameWork
  <2>3. th[t].idx \in Nat /\ Len(sessions) \in Nat
    BY DEF Types, TypeOK, Thread
  <2> QED
    BY <2>1, <2>2, <2>3, SameWorkStays
<1>2. Accounted'
  <2> SUFFICES ASSUME NEW o \in DOMAIN book',
                      book'[o].status = "open" \/ book'[o].filled > 0
               PROVE  IsSaved(o)' \/ o \in lost' \/ \E t \in Threads : o \in InFlight(t)'
    BY DEF Accounted
  <2>1. CASE o \notin DOMAIN book
    BY <2>1
  <2>2. CASE o \in DOMAIN book
    <3>1. book[o].status = "open" \/ book[o].filled > 0
      BY <2>2 DEF BookGrows
    <3>2. CASE IsSaved(o) \/ o \in lost
      BY <3>2
    <3>3. CASE \E t \in Threads : o \in InFlight(t)
      <4>1. PICK t \in Threads : o \in InFlight(t)
        BY <3>3
      <4>2. CASE InFlight(t) \subseteq InFlight(t)'
        BY <4>1, <4>2
      <4>3. CASE Released(t)
        BY <4>1, <4>3, <3>1, <2>2 DEF Released
      <4> QED
        BY <4>2, <4>3
    <3> QED
      BY <2>2, <3>1, <3>2, <3>3 DEF Accounted, Orders
  <2> QED
    BY <2>1, <2>2
<1> QED
  BY <1>1, <1>2 DEF Orders

\* The ledger stays final while it is not written.
LEMMA FinalStays ==
  ASSUME SavedIsFinal, BookGrows, rows' = rows
  PROVE  SavedIsFinal'
  BY DEF SavedIsFinal, BookGrows

\* Threads that only go on or give up.
LEMMA QuietStep ==
  ASSUME Types, Orders,
         rows' = rows, Len(sessions') = Len(sessions),
         BookGrows, lost \subseteq lost',
         DOMAIN book' \subseteq DOMAIN book \cup lost',
         \A u \in Threads : SameWork(u) \/ (Quiet(th'[u]) /\ Released(u)),
         mem' \in {mem, <<>>} \/ Known(mem)'
  PROVE  Orders'
<1>0. \A o : IsSaved(o)' <=> IsSaved(o)
  BY SavedFrame
<1>1. \A q : Known(q) => Known(q)'
  BY <1>0, KnownStays
<1>2. \A t \in Threads : Quiet(th'[t]) => Responsible(th[t])'
  <2> SUFFICES ASSUME NEW t \in Threads, Quiet(th'[t])
               PROVE  Responsible(th[t])'
    OBVIOUS
  <2>1. Known(th[t].rest)'
    BY <1>0 DEF Known, BookGrows, Quiet
  <2> QED
    BY <2>1 DEF Responsible, Quiet, Placed, Pending
<1>3. Known(mem)'
  BY <1>1 DEF Known, Orders
<1>4. Apart'
  BY DEF Apart, Threads, Quiet, Placed, Pending, Orders, SameWork
<1>5. \A u \in Threads : SameWork(u) => InFlight(u) \subseteq InFlight(u)'
  BY DEF SameWork, InFlight
<1>6. SavedIsFinal'
  BY FinalStays DEF Orders
<1>7. Len(sessions) \in Nat
  BY DEF Types, TypeOK
<1> QED
  BY <1>0, <1>2, <1>3, <1>4, <1>5, <1>6, <1>7, OrdersStep

\* Orders in flight are orders of the exchange.
LEMMA InFlightKnown ==
  ASSUME Orders, NEW t \in Threads
  PROVE  InFlight(t) \subseteq DOMAIN book
  BY DEF Orders, Responsible, InFlight, Placed

\* An exit leaves nothing running.
LEMMA ExitFacts ==
  ASSUME Types, NEW L, Exit(L)
  PROVE  /\ th' \in [Threads -> Thread]
         /\ \A u \in Threads : th'[u] = At("idle")
         /\ alive' = FALSE /\ stopping' = FALSE /\ mem' = <<>> /\ sess' = 0
         /\ lost' = lost \cup L
<1>1. "idle" \in Steps
  BY DEF Steps
<1>2. At("idle") = Idle
  BY DEF At, Idle
<1> QED
  BY <1>1, <1>2, AtFacts DEF Exit

\* A thread that fails gives up, and the process with it unless the tracker caught it.
LEMMA ThrowFacts ==
  ASSUME Types, Orders, Control, NEW t \in Threads, NEW L, Throw(t, L),
         \A o \in InFlight(t) : o \in L \/ (book[o].status # "open" /\ ~(book[o].filled > 0))
  PROVE  /\ th' \in [Threads -> Thread]
         /\ \A u \in Threads : SameWork(u) \/ (Quiet(th'[u]) /\ Released(u))
         /\ alive' \in BOOLEAN /\ stopping' \in BOOLEAN /\ sess' \in {sess, 0} /\ mem' \in {mem, <<>>}
         /\ lost \cup L \subseteq lost' /\ lost' \subseteq lost \cup L \cup DOMAIN book
         /\ \/ /\ t = "main" /\ mem # <<>> /\ mem' = mem
               /\ th'["main"] = At("watch") /\ th'["stop"] = th["stop"]
               /\ alive' = alive /\ stopping' = stopping /\ sess' = sess
            \/ /\ \A u \in Threads : th'[u] = At("idle")
               /\ alive' = FALSE /\ stopping' = FALSE /\ mem' = <<>> /\ sess' = 0
<1> USE DEF Types, TypeOK
<1>1. {"idle", "watch"} \subseteq Steps
  BY DEF Steps
<1>2. \A p \in {"idle", "watch"} : Quiet(At(p))
  BY <1>1, AtFacts DEF Quiet, Placed, Known
<1>3. CASE th[t].why = "track"
  <2>1. /\ th' = [th EXCEPT ![t] = At("watch")] /\ lost' = lost \cup L
        /\ UNCHANGED <<alive, mem, stopping, sess>>
    BY <1>3 DEF Throw
  <2>2. t = "main" /\ mem # <<>>
    BY <1>3 DEF Control, AtClose, Threads
  <2>3. At("watch") \in Thread
    BY <1>1, AtFacts
  <2>4. /\ th' \in [Threads -> Thread] /\ th'[t] = At("watch")
        /\ \A u \in Threads : u # t => th'[u] = th[u]
    BY <2>1, <2>3, ThreadUpdate
  <2>5. Released(t)
    BY <2>1 DEF Released
  <2> QED
    BY <2>1, <2>2, <2>4, <2>5, <1>2 DEF Threads, SameWork
<1>4. CASE th[t].why # "track"
  <2>1. Exit(L \cup InFlight(Other(t)))
    BY <1>4 DEF Throw
  <2>2. /\ th' \in [Threads -> Thread]
        /\ \A u \in Threads : th'[u] = At("idle")
        /\ alive' = FALSE /\ stopping' = FALSE /\ mem' = <<>> /\ sess' = 0
        /\ lost' = lost \cup (L \cup InFlight(Other(t)))
    BY <2>1, ExitFacts
  <2>3. InFlight(Other(t)) \subseteq DOMAIN book
    BY InFlightKnown, TwoThreads
  <2>4. \A u \in Threads : Released(u)
    BY <2>2, TwoThreads DEF Released
  <2> QED
    BY <2>2, <2>3, <2>4, <1>2
<1> QED
  BY <1>3, <1>4

\* When a thread fails, the loop is where Control wants it.
LEMMA ThrowControl ==
  ASSUME Control, UNCHANGED <<sessions, rows>>,
         \/ /\ mem # <<>> /\ mem' = mem
            /\ th'["main"] = At("watch") /\ th'["stop"] = th["stop"]
            /\ alive' = alive /\ stopping' = stopping /\ sess' = sess
            /\ th["main"].pc # "idle"
         \/ /\ \A u \in Threads : th'[u] = At("idle")
            /\ alive' = FALSE /\ stopping' = FALSE /\ mem' = <<>> /\ sess' = 0
  PROVE  Control'
<1>1. {"idle", "watch"} \subseteq Steps
  BY DEF Steps
<1>2. \A p \in {"idle", "watch"} : At(p).pc = p /\ At(p).why = "none"
  BY <1>1, AtFacts
<1>3. {"main", "stop"} \subseteq Threads
  BY DEF Threads
<1> QED
  BY <1>2, <1>3 DEF Control, Closer, AtClose

-----------------------------------------------------------------------------
(* The exchange.                                                           *)

\* Orders change only as BookGrows says when some open ones are canceled.
LEMMA CanceledFacts ==
  ASSUME Types, NEW S \in SUBSET OpenOrders, book' = Canceled(S)
  PROVE  /\ book' \in Seq(Order) /\ Len(book') = Len(book) /\ DOMAIN book' = DOMAIN book
         /\ BookGrows
         /\ \A o \in S : book'[o].status # "open"
         /\ \A o \in DOMAIN book : book'[o].filled = book[o].filled
<1>1. \A x \in Order : /\ [x EXCEPT !.status = "canceled"] \in Order
                       /\ [x EXCEPT !.status = "canceled"].sess = x.sess
                       /\ [x EXCEPT !.status = "canceled"].filled = x.filled
                       /\ [x EXCEPT !.status = "canceled"].status = "canceled"
  BY DEF Order
<1>2. book \in Seq(Order) /\ Len(book) \in Nat /\ DOMAIN book = 1..Len(book)
  BY DEF Types, TypeOK
<1>3. \A o \in DOMAIN book : book[o] \in Order
  BY <1>2
<1>4. DOMAIN book' = 1..Len(book)
  BY <1>2 DEF Canceled
<1>5. \A o \in 1..Len(book) : book'[o] = IF o \in S THEN [book[o] EXCEPT !.status = "canceled"] ELSE book[o]
  BY <1>2 DEF Canceled
<1>6. \A o \in 1..Len(book) : book'[o] \in Order
  BY <1>1, <1>2, <1>3, <1>5
<1>7. book' = [o \in 1..Len(book) |-> book'[o]]
  BY <1>2, <1>4 DEF Canceled
<1>8. book' \in [1..Len(book) -> Order]
  BY <1>6, <1>7
<1>9. book' \in Seq(Order) /\ Len(book') = Len(book)
  BY <1>8, <1>2, SeqDef
<1>10. BookGrows
  BY <1>1, <1>2, <1>3, <1>4, <1>5 DEF BookGrows, OpenOrders
<1>11. \A o \in S : book'[o].status # "open"
  BY <1>1, <1>2, <1>3, <1>5 DEF OpenOrders
<1>12. \A o \in DOMAIN book : book'[o].filled = book[o].filled
  BY <1>1, <1>2, <1>3, <1>5
<1> QED
  BY <1>2, <1>4, <1>9, <1>10, <1>11, <1>12

\* An unchanged book is one that grows, by nothing.
LEMMA BookSame ==
  ASSUME book' = book
  PROVE  BookGrows /\ DOMAIN book' = DOMAIN book
  BY DEF BookGrows

\* What only the exchange does keeps everything.
LEMMA ExchangeStep ==
  ASSUME SInv, book' \in Seq(Order), Len(book') = Len(book), DOMAIN book' = DOMAIN book, BookGrows,
         UNCHANGED <<sqlite, alive, stopping, mem, sess, th, starts, faults, lost, overlap>>
  PROVE  SInv'
<1> USE DEF SInv, sqlite
<1>1. Types'
  BY DEF Types, TypeOK
<1>2. Orders'
  <2>1. \A u \in Threads : SameWork(u)
    BY DEF SameWork
  <2> QED
    BY <2>1, QuietStep
<1>3. Control'
  BY DEF Control, ActiveSessions, RowsOf
<1>4. OneActiveSession'
  BY DEF OneActiveSession
<1> QED
  BY <1>1, <1>2, <1>3, <1>4

LEMMA FillStep ==
  ASSUME SInv, NEW o \in DOMAIN book, NEW q \in 1..book[o].amount, Fill(o, q)
  PROVE  SInv'
<1> DEFINE st == IF book[o].filled + q = book[o].amount THEN "closed" ELSE "open"
           x == [book[o] EXCEPT !.filled = book[o].filled + q, !.status = st]
<1>1. book \in Seq(Order) /\ book[o] \in Order
  BY DEF SInv, Types, TypeOK
<1>2. book' = [book EXCEPT ![o] = x]
  BY DEF Fill
<1>3. book[o].filled + q \in Nat
  BY <1>1 DEF Order
<1>4. \A y \in Order : \A n \in Nat : \A c \in {"open", "closed"} :
         /\ [y EXCEPT !.filled = n, !.status = c] \in Order
         /\ [y EXCEPT !.filled = n, !.status = c].sess = y.sess
  BY DEF Order
<1>5. x \in Order /\ x.sess = book[o].sess
  BY <1>1, <1>3, <1>4
<1>6. book' \in Seq(Order) /\ Len(book') = Len(book) /\ DOMAIN book' = DOMAIN book
  BY <1>1, <1>2, <1>5
<1>7. BookGrows
  BY <1>1, <1>2, <1>5 DEF BookGrows, Fill, OpenOrders
<1> QED
  BY <1>6, <1>7, ExchangeStep DEF Fill

LEMMA DropStep ==
  ASSUME SInv, NEW o \in DOMAIN book, Drop(o)
  PROVE  SInv'
<1> DEFINE x == [book[o] EXCEPT !.status = "canceled"]
<1>1. book \in Seq(Order) /\ book[o] \in Order
  BY DEF SInv, Types, TypeOK
<1>2. book' = [book EXCEPT ![o] = x]
  BY DEF Drop
<1>3. \A y \in Order : /\ [y EXCEPT !.status = "canceled"] \in Order
                       /\ [y EXCEPT !.status = "canceled"].sess = y.sess
  BY DEF Order
<1>4. x \in Order /\ x.sess = book[o].sess
  BY <1>1, <1>3
<1>5. book' \in Seq(Order) /\ Len(book') = Len(book) /\ DOMAIN book' = DOMAIN book
  BY <1>1, <1>2, <1>4
<1>6. BookGrows
  BY <1>1, <1>2, <1>4 DEF BookGrows, Drop, OpenOrders
<1> QED
  BY <1>5, <1>6, ExchangeStep DEF Drop

-----------------------------------------------------------------------------
(* Steps that fail.                                                        *)

\* Whatever fails, and whichever orders it hides.
LEMMA ThrowStep ==
  ASSUME SInv, NEW t \in Threads, NEW L, Throw(t, L), th[t].pc # "idle",
         \A o \in InFlight(t) : o \in L \/ (book[o].status # "open" /\ ~(book[o].filled > 0)),
         book' \in Seq(Order), Len(book') <= MaxOrders, BookGrows,
         L \subseteq DOMAIN book', DOMAIN book' \subseteq DOMAIN book \cup L,
         UNCHANGED <<sqlite, starts>>, faults' \in 0..MaxFaults, overlap' \in BOOLEAN
  PROVE  SInv'
<1> USE DEF SInv, sqlite
<1>1. /\ th' \in [Threads -> Thread]
      /\ \A u \in Threads : SameWork(u) \/ (Quiet(th'[u]) /\ Released(u))
      /\ alive' \in BOOLEAN /\ stopping' \in BOOLEAN /\ sess' \in {sess, 0} /\ mem' \in {mem, <<>>}
      /\ lost \cup L \subseteq lost' /\ lost' \subseteq lost \cup L \cup DOMAIN book
      /\ \/ /\ t = "main" /\ mem # <<>> /\ mem' = mem
            /\ th'["main"] = At("watch") /\ th'["stop"] = th["stop"]
            /\ alive' = alive /\ stopping' = stopping /\ sess' = sess
         \/ /\ \A u \in Threads : th'[u] = At("idle")
            /\ alive' = FALSE /\ stopping' = FALSE /\ mem' = <<>> /\ sess' = 0
  BY ThrowFacts
<1>2. Types'
  <2>1. <<>> \in Seq(Held)
    OBVIOUS
  <2>2. mem' \in Seq(Held)
    BY <1>1, <2>1 DEF Types, TypeOK
  <2>3. DOMAIN book' = 1..Len(book') /\ Len(book') \in Nat
    OBVIOUS
  <2>4. lost' \subseteq DOMAIN book'
    BY <1>1 DEF Types, BookGrows
  <2>5. lost' \subseteq 1..MaxOrders
    BY <2>3, <2>4, Bounds
  <2>6. sess' \in Nat /\ sess' <= Len(sessions') /\ Len(rows') = Len(sessions')
    BY <1>1 DEF Types, TypeOK
  <2>7. sessions' \in Seq({"active", "ended"}) /\ rows' \in Seq(Seq(Row)) /\ starts' \in 0..MaxStarts
    BY DEF Types, TypeOK
  <2> QED
    BY <1>1, <2>2, <2>4, <2>5, <2>6, <2>7 DEF Types, TypeOK
<1>3. Orders'
  BY <1>1, QuietStep
<1>4. Control'
  BY <1>1, ThrowControl
<1>5. OneActiveSession'
  BY DEF OneActiveSession
<1> QED
  BY <1>2, <1>3, <1>4, <1>5

\* A fault stays within its bound.
LEMMA FaultFacts ==
  ASSUME Types, Fault
  PROVE  faults' \in 0..MaxFaults
  BY Bounds DEF Fault, Types, TypeOK

\* A failure of a thread that has no order in flight and touches nothing else.
LEMMA PlainThrow ==
  ASSUME SInv, NEW t \in Threads, NEW L, Throw(t, L), th[t].pc # "idle",
         \A o \in InFlight(t) : o \in L \/ (book[o].status # "open" /\ ~(book[o].filled > 0)),
         L \subseteq DOMAIN book,
         UNCHANGED <<book, sqlite, starts, overlap>>, faults' \in 0..MaxFaults
  PROVE  SInv'
<1>1. book' \in Seq(Order) /\ Len(book') <= MaxOrders /\ L \subseteq DOMAIN book'
  BY DEF SInv, Types, TypeOK
<1>2. BookGrows /\ DOMAIN book' \subseteq DOMAIN book \cup L
  BY BookSame
<1>3. overlap' \in BOOLEAN
  BY DEF SInv, Types, TypeOK
<1> QED
  BY <1>1, <1>2, <1>3, ThrowStep

LEMMA ReadFailsStep ==
  ASSUME SInv, SessionReadFails \/ EntryReadFails \/ WatchReadFails
  PROVE  SInv'
<1>1. /\ th["main"].pc \in {"sleep", "begin", "resume", "end", "ending", "enter", "watch"}
      /\ Fault /\ Throw("main", {}) /\ UNCHANGED <<book, sqlite, starts, overlap>>
  BY DEF SessionReadFails, EntryReadFails, WatchReadFails
<1>2. "main" \in Threads /\ InFlight("main") = {}
  BY <1>1 DEF Threads, InFlight
<1>3. faults' \in 0..MaxFaults
  BY <1>1, FaultFacts DEF SInv
<1> QED
  BY <1>1, <1>2, <1>3, PlainThrow

LEMMA ExecutionFailsStep ==
  ASSUME SInv, NEW t \in Threads, ExecutionFails(t)
  PROVE  SInv'
<1>1. InFlight(t) = {th[t].ord} /\ {th[t].ord} \subseteq DOMAIN book
  BY DEF ExecutionFails, InFlight, SInv, Orders, Responsible, Placed
<1>2. faults' \in 0..MaxFaults
  BY FaultFacts DEF SInv, ExecutionFails
<1>3. th[t].pc # "idle" /\ Throw(t, {th[t].ord}) /\ UNCHANGED <<book, sqlite, starts, overlap>>
  BY DEF ExecutionFails
<1> QED
  BY <1>1, <1>2, <1>3, PlainThrow

LEMMA CancelAllFailsStep ==
  ASSUME SInv, NEW t \in Threads, CancelAllFails(t)
  PROVE  SInv'
<1>1. PICK S \in SUBSET OpenOrders : book' = Canceled(S)
  BY DEF CancelAllFails
<1>2. InFlight(t) = {} /\ th[t].pc # "idle"
  BY DEF CancelAllFails, InFlight
<1>3. faults' \in 0..MaxFaults
  BY FaultFacts DEF SInv, CancelAllFails
<1>4. /\ book' \in Seq(Order) /\ Len(book') = Len(book) /\ DOMAIN book' = DOMAIN book
      /\ BookGrows
  BY <1>1, CanceledFacts DEF SInv
<1>5. Len(book') <= MaxOrders /\ overlap' \in BOOLEAN
  BY <1>4 DEF SInv, Types, TypeOK, CancelAllFails
<1>6. Throw(t, {}) /\ UNCHANGED <<sqlite, starts>>
  BY DEF CancelAllFails
<1> QED
  BY <1>2, <1>3, <1>4, <1>5, <1>6, ThrowStep

\* The end of the process, by a kill or by the stop request that was carried out.
LEMMA ExitStep ==
  ASSUME SInv, NEW L, Exit(L), L \subseteq DOMAIN book,
         \A u \in Threads : InFlight(u) \subseteq L,
         UNCHANGED <<book, sqlite, starts, overlap>>, faults' \in 0..MaxFaults
  PROVE  SInv'
<1> USE DEF SInv, sqlite
<1>1. /\ th' \in [Threads -> Thread]
      /\ \A u \in Threads : th'[u] = At("idle")
      /\ alive' = FALSE /\ stopping' = FALSE /\ mem' = <<>> /\ sess' = 0
      /\ lost' = lost \cup L
  BY ExitFacts
<1>2. "idle" \in Steps
  BY DEF Steps
<1>3. Quiet(At("idle"))
  BY <1>2, AtFacts DEF Quiet, Placed, Known, Types, TypeOK
<1>4. \A u \in Threads : Quiet(th'[u]) /\ Released(u)
  BY <1>1, <1>3 DEF Released
<1>5. Types'
  <2>1. <<>> \in Seq(Held)
    OBVIOUS
  <2>2. book \in Seq(Order) /\ Len(book) <= MaxOrders
    BY DEF Types, TypeOK
  <2>3. DOMAIN book = 1..Len(book) /\ Len(book) \in Nat
    BY <2>2
  <2>4. lost' \subseteq DOMAIN book'
    BY <1>1 DEF Types
  <2>5. lost' \subseteq 1..MaxOrders
    BY <2>2, <2>3, <2>4, Bounds
  <2>6. /\ sess' \in Nat /\ sess' <= Len(sessions')
        /\ mem' \in Seq(Held) /\ alive' \in BOOLEAN /\ stopping' \in BOOLEAN
    <3>1. Len(sessions) \in Nat /\ sessions' = sessions
      BY DEF Types, TypeOK
    <3>2. sess' = 0 /\ alive' = FALSE /\ stopping' = FALSE /\ mem' = <<>>
      BY <1>1
    <3>3. sess' \in Nat /\ sess' <= Len(sessions')
      BY <3>1, <3>2
    <3> QED
      BY <2>1, <3>2, <3>3
  <2>7. /\ sessions' \in Seq({"active", "ended"}) /\ rows' \in Seq(Seq(Row))
        /\ starts' \in 0..MaxStarts /\ overlap' \in BOOLEAN /\ Len(rows') = Len(sessions')
    BY DEF Types, TypeOK
  <2> QED
    BY <1>1, <2>2, <2>4, <2>5, <2>6, <2>7 DEF Types, TypeOK
<1>6. Orders'
  BY <1>1, <1>4, BookSame, QuietStep
<1>7. Control'
  BY <1>1, ThrowControl
<1>8. OneActiveSession'
  BY DEF OneActiveSession
<1> QED
  BY <1>5, <1>6, <1>7, <1>8

LEMMA KillStep ==
  ASSUME SInv, Kill
  PROVE  SInv'
<1>1. \A u \in Threads : InFlight(u) \subseteq DOMAIN book
  BY InFlightKnown DEF SInv
<1>2. faults' \in 0..MaxFaults
  BY FaultFacts DEF SInv, Kill
<1>3. \A u \in Threads : InFlight(u) \subseteq InFlight("main") \cup InFlight("stop")
  BY DEF Threads
<1>4. InFlight("main") \cup InFlight("stop") \subseteq DOMAIN book
  BY <1>1 DEF Threads
<1> QED
  BY <1>2, <1>3, <1>4, ExitStep DEF Kill

LEMMA DisposeStep ==
  ASSUME SInv, Dispose
  PROVE  SInv'
<1>1. InFlight("main") \subseteq DOMAIN book
  BY InFlightKnown DEF SInv, Threads
<1>2. faults' \in 0..MaxFaults
  BY DEF SInv, Types, TypeOK, Dispose
<1>3. \A u \in Threads : InFlight(u) \subseteq InFlight("main")
  BY DEF Threads, Dispose, InFlight
<1> QED
  BY <1>1, <1>2, <1>3, ExitStep DEF Dispose

-----------------------------------------------------------------------------
(* Steps of a thread that leave the exchange and the ledger alone.         *)

\* Threads move, go on or give up; a session may be ended and the list replaced.
LEMMA MoveStep ==
  ASSUME Types, Orders,
         th' \in [Threads -> Thread],
         \A u \in Threads : SameWork(u) \/ (Quiet(th'[u]) /\ Released(u)),
         UNCHANGED <<book, rows, lost>>,
         sessions' \in Seq({"active", "ended"}), Len(sessions') = Len(sessions),
         mem' \in Seq(Held), mem' \in {mem, <<>>} \/ Known(mem)',
         sess' \in Nat, sess' <= Len(sessions),
         alive' \in BOOLEAN, stopping' \in BOOLEAN, overlap' \in BOOLEAN,
         starts' \in 0..MaxStarts, faults' \in 0..MaxFaults
  PROVE  Types' /\ Orders'
<1>1. Types'
  BY DEF Types, TypeOK
<1>2. BookGrows /\ DOMAIN book' \subseteq DOMAIN book \cup lost'
  BY BookSame
<1>3. Orders'
  BY <1>2, QuietStep
<1> QED
  BY <1>1, <1>3

\* One thread moves to h and nothing but the counters changes with it.
LEMMA OneMoves ==
  ASSUME SInv, NEW t \in Threads, NEW h \in Thread, th' = [th EXCEPT ![t] = h],
         Quiet(h), InFlight(t) = {},
         UNCHANGED <<book, sessions, rows, mem, sess, lost>>,
         alive' \in BOOLEAN, stopping' \in BOOLEAN, overlap' \in BOOLEAN,
         starts' \in 0..MaxStarts, faults' \in 0..MaxFaults
  PROVE  /\ Types' /\ Orders' /\ OneActiveSession'
         /\ th'[t] = h /\ \A u \in Threads : u # t => th'[u] = th[u]
<1>1. /\ th' \in [Threads -> Thread] /\ th'[t] = h
      /\ \A u \in Threads : u # t => th'[u] = th[u]
  BY ThreadUpdate DEF SInv, Types, TypeOK
<1>2. Released(t)
  BY DEF Released
<1>3. \A u \in Threads : SameWork(u) \/ (Quiet(th'[u]) /\ Released(u))
  BY <1>1, <1>2 DEF SameWork
<1>4. /\ sessions' \in Seq({"active", "ended"}) /\ Len(sessions') = Len(sessions)
      /\ mem' \in Seq(Held) /\ mem' \in {mem, <<>>}
      /\ sess' \in Nat /\ sess' <= Len(sessions)
  BY DEF SInv, Types, TypeOK
<1>5. Types' /\ Orders'
  BY <1>1, <1>3, <1>4, MoveStep DEF SInv
<1> QED
  BY <1>1, <1>5 DEF SInv, OneActiveSession

\* What arrives somewhere, or begins a close, has nothing in flight.
LEMMA QuietAt ==
  ASSUME Types, NEW p \in Steps, p \notin Placed \cup {"fetch", "submit"}
  PROVE  Quiet(At(p))
  BY AtFacts DEF Quiet, Known, Types, TypeOK

LEMMA QuietClosing ==
  ASSUME Types, NEW w \in {"loss", "profit", "track", "stop"}
  PROVE  Quiet(Closing(w)) /\ Closing(w) \in Thread
<1>1. sess \in Nat
  BY DEF Types, TypeOK
<1> QED
  BY <1>1, ClosingFacts DEF Quiet, Known, Types, Placed

LEMMA StartStep ==
  ASSUME SInv, Start
  PROVE  SInv'
<1>1. "sleep" \in Steps /\ "main" \in Threads /\ "sleep" \notin Placed \cup {"fetch", "submit"}
  BY DEF Steps, Threads, Placed
<1>2. At("sleep") \in Thread /\ Quiet(At("sleep")) /\ At("sleep").pc = "sleep" /\ At("sleep").why = "none"
  BY <1>1, AtFacts, QuietAt DEF SInv
<1>3. InFlight("main") = {}
  BY DEF Start, SInv, Control, InFlight
<1>4. /\ starts' \in 0..MaxStarts /\ faults' \in 0..MaxFaults
      /\ alive' \in BOOLEAN /\ stopping' \in BOOLEAN /\ overlap' \in BOOLEAN
  BY Bounds DEF Start, SInv, Types, TypeOK
<1>5. /\ th' = [th EXCEPT !["main"] = At("sleep")]
      /\ UNCHANGED <<book, sessions, rows, mem, sess, lost>>
  BY DEF Start, sqlite
<1>6. /\ Types' /\ Orders' /\ OneActiveSession'
      /\ th'["main"] = At("sleep") /\ \A u \in Threads : u # "main" => th'[u] = th[u]
  BY <1>1, <1>2, <1>3, <1>4, <1>5, OneMoves
<1>7. Control'
  BY <1>2, <1>5, <1>6 DEF SInv, Control, Threads, Closer, AtClose, Start
<1> QED
  BY <1>6, <1>7 DEF SInv

LEMMA StopWorkerStep ==
  ASSUME SInv, StopWorker
  PROVE  SInv'
<1>1. Closing("stop") \in Thread /\ Quiet(Closing("stop")) /\ Closing("stop").why = "stop"
  BY QuietClosing, ClosingFacts DEF SInv, Types, TypeOK
<1>2. "stop" \in Threads /\ InFlight("stop") = {}
  BY DEF StopWorker, SInv, Control, InFlight, Threads
<1>3. /\ starts' \in 0..MaxStarts /\ faults' \in 0..MaxFaults
      /\ alive' \in BOOLEAN /\ stopping' \in BOOLEAN /\ overlap' \in BOOLEAN
  BY DEF StopWorker, SInv, Types, TypeOK
<1>4. /\ th' = [th EXCEPT !["stop"] = Closing("stop")]
      /\ UNCHANGED <<book, sessions, rows, mem, sess, lost, alive>>
  BY DEF StopWorker, sqlite
<1>5. /\ Types' /\ Orders' /\ OneActiveSession'
      /\ th'["stop"] = Closing("stop") /\ \A u \in Threads : u # "stop" => th'[u] = th[u]
  BY <1>1, <1>2, <1>3, <1>4, OneMoves
<1>6. Control'
  BY <1>1, <1>4, <1>5 DEF SInv, Control, Threads, AtClose, StopWorker, ActiveSessions, RowsOf
<1> QED
  BY <1>5, <1>6 DEF SInv

\* The loop moves while it has the list of a session and no order in flight.
LEMMA LoopMoves ==
  ASSUME SInv, NEW h \in Thread, th' = [th EXCEPT !["main"] = h], Quiet(h),
         th["main"].pc # "idle", InFlight("main") = {}, mem # <<>>,
         h.pc \in {"watch", "tracking", "cancel", "sleep", "done", "end", "ending"},
         h.pc = "cancel" => h.why \in AtClose,
         UNCHANGED <<book, sqlite, alive, stopping, mem, sess, starts, lost>>,
         overlap' \in BOOLEAN, faults' \in 0..MaxFaults
  PROVE  SInv'
<1>1. "main" \in Threads
  BY DEF Threads
<1>2. /\ starts' \in 0..MaxStarts /\ alive' \in BOOLEAN /\ stopping' \in BOOLEAN
      /\ UNCHANGED <<book, sessions, rows, mem, sess, lost>>
  BY DEF SInv, Types, TypeOK, sqlite
<1>3. /\ Types' /\ Orders' /\ OneActiveSession'
      /\ th'["main"] = h /\ \A u \in Threads : u # "main" => th'[u] = th[u]
  BY <1>1, <1>2, OneMoves
<1>4. Control'
  BY <1>2, <1>3 DEF SInv, Control, Threads, AtClose, Closer
<1> QED
  BY <1>3, <1>4 DEF SInv

LEMMA WatchStep ==
  ASSUME SInv, WatchStopLoss \/ WatchTakeProfit \/ OnPriceTracker \/ TrackerReadFails
  PROVE  SInv'
<1>1. /\ th["main"].pc \in {"watch", "tracking"}
      /\ UNCHANGED <<book, sqlite, alive, stopping, mem, sess, starts, lost>> /\ overlap' = overlap
      /\ faults' = faults \/ Fault
      /\ \E h \in {Closing("loss"), Closing("profit"), Closing("track"), At("tracking"), At("watch")} :
            th' = [th EXCEPT !["main"] = h]
  BY DEF WatchStopLoss, WatchTakeProfit, OnPriceTracker, TrackerReadFails
<1>2. PICK h \in {Closing("loss"), Closing("profit"), Closing("track"), At("tracking"), At("watch")} :
         th' = [th EXCEPT !["main"] = h]
  BY <1>1
<1>3. \A w \in {"loss", "profit", "track"} :
         /\ Closing(w) \in Thread /\ Quiet(Closing(w))
         /\ Closing(w).pc = "cancel" /\ Closing(w).why = w
  BY QuietClosing, ClosingFacts DEF SInv, Types, TypeOK
<1>4. {"watch", "tracking"} \subseteq Steps \ (Placed \cup {"fetch", "submit"})
  BY DEF Steps, Placed
<1>5. \A p \in {"watch", "tracking"} : At(p) \in Thread /\ Quiet(At(p)) /\ At(p).pc = p
  BY <1>4, QuietAt, AtFacts DEF SInv
<1>6. /\ h \in Thread /\ Quiet(h) /\ h.pc \in {"watch", "tracking", "cancel"}
      /\ h.pc = "cancel" => h.why \in AtClose
  BY <1>2, <1>3, <1>5 DEF AtClose
<1>7. InFlight("main") = {} /\ mem # <<>> /\ th["main"].pc # "idle"
  BY <1>1 DEF InFlight, SInv, Control
<1>8. overlap' \in BOOLEAN /\ faults' \in 0..MaxFaults
  BY <1>1, FaultFacts DEF SInv, Types, TypeOK
<1> QED
  BY <1>1, <1>2, <1>6, <1>7, <1>8, LoopMoves

-----------------------------------------------------------------------------
(* Opening and ending a session.                                           *)

\* Ending a session, existing or not, ends at most that one.
LEMMA EndedFacts ==
  ASSUME Types, NEW s \in Nat, sessions' = EndedSession(s)
  PROVE  /\ sessions' \in Seq({"active", "ended"}) /\ Len(sessions') = Len(sessions)
         /\ DOMAIN sessions' = DOMAIN sessions
         /\ \A u \in DOMAIN sessions : sessions'[u] = IF u = s THEN "ended" ELSE sessions[u]
         /\ OneActiveSession => OneActiveSession'
<1>1. sessions \in Seq({"active", "ended"})
  BY DEF Types, TypeOK
<1>2. DOMAIN sessions = 1..Len(sessions) /\ Len(sessions) \in Nat
  BY <1>1
<1>3. sessions' = [sessions EXCEPT ![s] = "ended"]
  BY DEF EndedSession
<1>4. DOMAIN sessions' = DOMAIN sessions
  BY <1>3
<1>5. \A u \in DOMAIN sessions : sessions'[u] = IF u = s THEN "ended" ELSE sessions[u]
  BY <1>3
<1>6. sessions' \in [1..Len(sessions) -> {"active", "ended"}]
  <2>1. sessions \in [1..Len(sessions) -> {"active", "ended"}]
    BY <1>1
  <2> QED
    BY <2>1, <1>3
<1>7. sessions' \in Seq({"active", "ended"}) /\ Len(sessions') = Len(sessions)
  BY <1>6, <1>2, SeqDef
<1> QED
  BY <1>4, <1>5, <1>7 DEF OneActiveSession

\* The only active session is the first one.
LEMMA MinActive ==
  ASSUME Types, OneActiveSession, ActiveSessions # {}
  PROVE  /\ Min(ActiveSessions) \in DOMAIN sessions
         /\ ActiveSessions = {Min(ActiveSessions)}
<1>1. PICK s \in DOMAIN sessions : sessions[s] = "active"
  BY DEF ActiveSessions
<1>2. ActiveSessions = {s}
  BY <1>1 DEF ActiveSessions, OneActiveSession
<1>3. s \in Nat
  BY DEF Types, TypeOK
<1>4. Min({s}) = s
  BY <1>3 DEF Min
<1> QED
  BY <1>2, <1>4

\* The list read back from SQLite is the session's ledger.
LEMMA RestoredFacts ==
  ASSUME Types, SavedIsFinal, NEW s \in DOMAIN rows
  PROVE  /\ Restored(s) \in Seq(Held)
         /\ Known(Restored(s))
         /\ DOMAIN Restored(s) = DOMAIN rows[s]
         /\ \A i \in DOMAIN rows[s] : Restored(s)[i].id = rows[s][i].id
         /\ RowsOf(s) # <<>> => Restored(s) # <<>>
<1>1. rows[s] \in Seq(Row)
  BY DEF Types, TypeOK
<1>2. DOMAIN rows[s] = 1..Len(rows[s]) /\ Len(rows[s]) \in Nat
  BY <1>1
<1>3. /\ DOMAIN Restored(s) = DOMAIN rows[s]
      /\ Restored(s) = [i \in 1..Len(rows[s]) |-> [id |-> rows[s][i].id, restored |-> TRUE]]
  BY <1>2 DEF Restored, RowsOf
<1>4. \A i \in 1..Len(rows[s]) : [id |-> rows[s][i].id, restored |-> TRUE] \in Held
  <2>1. \A r \in Row : [id |-> r.id, restored |-> TRUE] \in Held
    BY DEF Row, Held
  <2> QED
    BY <1>1, <2>1
<1>5. Restored(s) \in Seq(Held)
  <2>1. Restored(s) \in [1..Len(rows[s]) -> Held]
    BY <1>3, <1>4
  <2> QED
    BY <2>1, <1>2, SeqDef
<1>6. \A i \in DOMAIN rows[s] : Restored(s)[i].id = rows[s][i].id
  BY <1>2, <1>3
<1>7. Known(Restored(s))
  BY <1>3, <1>6, SavedMeans DEF Known, SavedIsFinal
<1>8. RowsOf(s) # <<>> => Restored(s) # <<>>
  <2>1. SUFFICES ASSUME Restored(s) = <<>>
                 PROVE  rows[s] = <<>>
    BY DEF RowsOf
  <2>2. DOMAIN rows[s] = {}
    BY <2>1, <1>3
  <2> QED
    BY <2>2, <1>1, <1>2
<1> QED
  BY <1>3, <1>5, <1>6, <1>7, <1>8

\* Replacing the list cuts a close in progress off from it, and moves the loop.
LEMMA DetachFacts ==
  ASSUME Types, NEW h \in Thread, th' = [Detached EXCEPT !["main"] = h]
  PROVE  /\ th' \in [Threads -> Thread] /\ th'["main"] = h
         /\ SameWork("stop") /\ th'["stop"].why = th["stop"].why
<1>1. th \in [Threads -> Thread] /\ "main" \in Threads /\ "stop" \in Threads
  BY DEF Types, TypeOK, Threads
<1>2. \A g \in Thread : /\ [g EXCEPT !.live = FALSE] \in Thread
                        /\ [g EXCEPT !.live = FALSE].pc = g.pc
                        /\ [g EXCEPT !.live = FALSE].ord = g.ord
                        /\ [g EXCEPT !.live = FALSE].idx = g.idx
                        /\ [g EXCEPT !.live = FALSE].rest = g.rest
                        /\ [g EXCEPT !.live = FALSE].net = g.net
                        /\ [g EXCEPT !.live = FALSE].why = g.why
  BY DEF Thread
<1>3. Detached = [th EXCEPT !["stop"] = [th["stop"] EXCEPT !.live = FALSE]]
  BY DEF Detached
<1>4. Detached \in [Threads -> Thread] /\ Detached["stop"] = [th["stop"] EXCEPT !.live = FALSE]
  BY <1>1, <1>2, <1>3
<1>5. /\ th' \in [Threads -> Thread] /\ th'["main"] = h
      /\ th'["stop"] = [th["stop"] EXCEPT !.live = FALSE]
  BY <1>1, <1>4
<1>6. th["stop"] \in Thread
  BY <1>1
<1>7. SameWork("stop")
  BY <1>2, <1>5, <1>6 DEF SameWork
<1>8. th'["stop"].why = th["stop"].why
  BY <1>2, <1>5, <1>6
<1> QED
  BY <1>5, <1>7, <1>8

\* The loop moves at a session's beginning or end: the stop request goes on.
LEMMA SessionMoves ==
  ASSUME SInv, NEW p \in {"begin", "resume", "watch", "clear", "sleep", "done"},
         th' \in [Threads -> Thread], th'["main"].pc = p, th'["main"].why = "none",
         Quiet(th'["main"]),
         SameWork("stop"), th'["stop"].why = th["stop"].why,
         InFlight("main") = {}, th["main"].pc # "idle",
         UNCHANGED <<book, rows, alive, stopping, starts, faults, lost>>,
         sessions' \in Seq({"active", "ended"}), Len(sessions') = Len(sessions), OneActiveSession',
         mem' \in Seq(Held), mem' \in {mem, <<>>} \/ Known(mem)',
         sess' \in Nat, sess' <= Len(sessions), overlap' \in BOOLEAN,
         p = "watch" => mem' # <<>>,
         p = "begin" => ActiveSessions' = {},
         p = "resume" => sess' \in DOMAIN rows /\ RowsOf(sess)' # <<>>
  PROVE  SInv'
<1>1. Released("main")
  BY DEF Released
<1>2. \A u \in Threads : SameWork(u) \/ (Quiet(th'[u]) /\ Released(u))
  BY <1>1 DEF Threads
<1>3. /\ alive' \in BOOLEAN /\ stopping' \in BOOLEAN
      /\ starts' \in 0..MaxStarts /\ faults' \in 0..MaxFaults
  BY DEF SInv, Types, TypeOK
<1>4. Types' /\ Orders'
  BY <1>2, <1>3, MoveStep DEF SInv
<1>5. Control'
  BY DEF SInv, Control, SameWork, Closer, AtClose
<1> QED
  BY <1>4, <1>5 DEF SInv

\* The loop arrives at p.
LEMMA ArriveFacts ==
  ASSUME Types, NEW p \in Steps \ (Placed \cup {"fetch", "submit"}),
         \/ th' = [th EXCEPT !["main"] = At(p)]
         \/ th' = [Detached EXCEPT !["main"] = At(p)]
  PROVE  /\ th' \in [Threads -> Thread] /\ th'["main"].pc = p /\ th'["main"].why = "none"
         /\ Quiet(th'["main"])
         /\ SameWork("stop") /\ th'["stop"].why = th["stop"].why
<1>1. /\ At(p) \in Thread /\ At(p).pc = p /\ At(p).why = "none" /\ Quiet(At(p))
  BY AtFacts, QuietAt
<1>2. CASE th' = [th EXCEPT !["main"] = At(p)]
  <2>1. "main" \in Threads /\ "stop" \in Threads /\ th \in [Threads -> Thread]
    BY DEF Threads, Types, TypeOK
  <2>2. /\ th' \in [Threads -> Thread] /\ th'["main"] = At(p)
        /\ \A u \in Threads : u # "main" => th'[u] = th[u]
    BY <1>1, <1>2, <2>1, ThreadUpdate
  <2> QED
    BY <1>1, <2>1, <2>2 DEF SameWork
<1>3. CASE th' = [Detached EXCEPT !["main"] = At(p)]
  BY <1>1, <1>3, DetachFacts
<1> QED
  BY <1>2, <1>3

LEMMA SessionSteps ==
  {"begin", "resume", "watch", "clear", "sleep", "done"} \subseteq Steps \ (Placed \cup {"fetch", "submit"})
  BY DEF Steps, Placed

LEMMA InitTradeSessionStep ==
  ASSUME SInv, InitTradeSession
  PROVE  SInv'
<1> DEFINE m == Min(ActiveSessions)
<1>1. /\ th["main"].pc = "sleep" /\ InFlight("main") = {} /\ th["main"].pc # "idle"
      /\ UNCHANGED <<book, rows, alive, stopping, mem, starts, faults, lost, overlap>>
  BY DEF InitTradeSession, InFlight
<1>2. /\ sessions \in Seq({"active", "ended"}) /\ mem \in Seq(Held) 
      /\ sess \in Nat /\ sess <= Len(sessions) /\ overlap \in BOOLEAN
      /\ DOMAIN rows = DOMAIN sessions
  BY DEF SInv, Types, TypeOK
<1>3. CASE /\ ActiveSessions = {} /\ th' = [th EXCEPT !["main"] = At("begin")]
           /\ UNCHANGED <<sessions, sess>>
  <2>1. /\ th' \in [Threads -> Thread] /\ th'["main"].pc = "begin" /\ th'["main"].why = "none"
        /\ Quiet(th'["main"]) /\ SameWork("stop") /\ th'["stop"].why = th["stop"].why
    BY <1>3, ArriveFacts, SessionSteps DEF SInv
  <2>2. ActiveSessions' = {} /\ OneActiveSession'
    BY <1>3 DEF ActiveSessions, OneActiveSession
  <2> QED
    BY <1>1, <1>2, <1>3, <2>1, <2>2, SessionMoves
<1>4. CASE /\ ActiveSessions # {} /\ sessions' = EndedSession(m)
           /\ th' = [th EXCEPT !["main"] = At("begin")] /\ UNCHANGED sess
  <2>1. /\ th' \in [Threads -> Thread] /\ th'["main"].pc = "begin" /\ th'["main"].why = "none"
        /\ Quiet(th'["main"]) /\ SameWork("stop") /\ th'["stop"].why = th["stop"].why
    BY <1>4, ArriveFacts, SessionSteps DEF SInv
  <2>2. m \in DOMAIN sessions /\ ActiveSessions = {m}
    BY <1>4, MinActive DEF SInv
  <2>3. m \in Nat
    BY <1>2, <2>2
  <2>4. /\ sessions' \in Seq({"active", "ended"}) /\ Len(sessions') = Len(sessions)
        /\ DOMAIN sessions' = DOMAIN sessions
        /\ \A u \in DOMAIN sessions : sessions'[u] = IF u = m THEN "ended" ELSE sessions[u]
        /\ OneActiveSession'
    BY <1>4, <2>3, EndedFacts DEF SInv
  <2>5. ActiveSessions' = {}
    BY <2>2, <2>4 DEF ActiveSessions
  <2> QED
    BY <1>1, <1>2, <1>4, <2>1, <2>4, <2>5, SessionMoves
<1>5. CASE /\ ActiveSessions # {} /\ RowsOf(m) # <<>> /\ sess' = m
           /\ th' = [th EXCEPT !["main"] = At("resume")] /\ UNCHANGED sessions
  <2>1. /\ th' \in [Threads -> Thread] /\ th'["main"].pc = "resume" /\ th'["main"].why = "none"
        /\ Quiet(th'["main"]) /\ SameWork("stop") /\ th'["stop"].why = th["stop"].why
    BY <1>5, ArriveFacts, SessionSteps DEF SInv
  <2>2. m \in DOMAIN rows
    BY <1>2, <1>5, MinActive DEF SInv
  <2>3. m \in Nat /\ m <= Len(sessions)
    BY <1>2, <2>2
  <2>4. sess' \in DOMAIN rows /\ RowsOf(sess)' # <<>>
    BY <1>1, <1>5, <2>2 DEF RowsOf
  <2>5. OneActiveSession'
    BY <1>5 DEF SInv, OneActiveSession
  <2> QED
    BY <1>1, <1>2, <1>5, <2>1, <2>3, <2>4, <2>5, SessionMoves
<1> QED
  BY <1>3, <1>4, <1>5 DEF InitTradeSession, CheckingIfClosingOrderHasBeenCreated

LEMMA CheckingExistingOrdersStep ==
  ASSUME SInv, CheckingExistingOrders
  PROVE  SInv'
<1>1. /\ th["main"].pc = "resume" /\ InFlight("main") = {} /\ th["main"].pc # "idle"
      /\ UNCHANGED <<book, sessions, rows, alive, stopping, sess, starts, faults, lost>>
      /\ mem' = Restored(sess) /\ th' = [Detached EXCEPT !["main"] = At("watch")]
      /\ Overlaps("main")
  BY DEF CheckingExistingOrders, InFlight, sqlite
<1>2. sess \in DOMAIN rows /\ RowsOf(sess) # <<>>
  BY <1>1 DEF SInv, Control
<1>3. Restored(sess) \in Seq(Held) /\ Known(Restored(sess)) /\ Restored(sess) # <<>>
  BY <1>2, RestoredFacts DEF SInv, Orders
<1>4. /\ th' \in [Threads -> Thread] /\ th'["main"].pc = "watch" /\ th'["main"].why = "none"
      /\ Quiet(th'["main"]) /\ SameWork("stop") /\ th'["stop"].why = th["stop"].why
  BY <1>1, ArriveFacts, SessionSteps DEF SInv
<1>5. mem' \in Seq(Held) /\ Known(mem)' /\ mem' # <<>>
  <2>1. \A o : IsSaved(o)' <=> IsSaved(o)
    BY <1>1, SavedFrame
  <2> QED
    BY <1>1, <1>3, <2>1 DEF Known
<1>6. /\ sessions' \in Seq({"active", "ended"}) /\ Len(sessions') = Len(sessions)
      /\ OneActiveSession' /\ sess' \in Nat /\ sess' <= Len(sessions) /\ overlap' \in BOOLEAN
  BY <1>1 DEF SInv, Types, TypeOK, OneActiveSession, Overlaps
<1> QED
  BY <1>1, <1>4, <1>5, <1>6, SessionMoves

LEMMA ClearingOrderListStep ==
  ASSUME SInv, ClearingOrderList
  PROVE  SInv'
<1>1. /\ th["main"].pc = "clear" /\ InFlight("main") = {} /\ th["main"].pc # "idle"
      /\ UNCHANGED <<book, sessions, rows, alive, stopping, sess, starts, faults, lost, overlap>>
      /\ mem' = <<>>
  BY DEF ClearingOrderList, InFlight, sqlite
<1>2. PICK p \in {"sleep", "done"} : th' = [Detached EXCEPT !["main"] = At(p)]
  BY DEF ClearingOrderList
<1>3. /\ th' \in [Threads -> Thread] /\ th'["main"].pc = p /\ th'["main"].why = "none"
      /\ Quiet(th'["main"]) /\ SameWork("stop") /\ th'["stop"].why = th["stop"].why
  BY <1>2, ArriveFacts, SessionSteps DEF SInv
<1>4. /\ sessions' \in Seq({"active", "ended"}) /\ Len(sessions') = Len(sessions)
      /\ OneActiveSession' /\ sess' \in Nat /\ sess' <= Len(sessions) /\ overlap' \in BOOLEAN
      /\ mem' \in Seq(Held)
  BY <1>1 DEF SInv, Types, TypeOK, OneActiveSession
<1> QED
  BY <1>1, <1>3, <1>4, SessionMoves

LEMMA EndTradeSessionStep ==
  ASSUME SInv, EndTradeSession
  PROVE  SInv'
<1> DEFINE h == [th["main"] EXCEPT !.pc = "clear"]
<1>1. /\ th["main"].pc = "ending" /\ InFlight("main") = {} /\ th["main"].pc # "idle"
      /\ UNCHANGED <<book, rows, alive, stopping, mem, sess, starts, faults, lost, overlap>>
      /\ sessions' = EndedSession(sess) /\ th' = [th EXCEPT !["main"] = h]
  BY DEF EndTradeSession, InFlight
<1>2. /\ sess \in Nat /\ sess <= Len(sessions) /\ overlap' \in BOOLEAN /\ mem' \in Seq(Held)
      /\ th \in [Threads -> Thread] /\ th["main"] \in Thread /\ {"main", "stop"} \subseteq Threads
  BY <1>1 DEF SInv, Types, TypeOK, Threads
<1>3. h \in Thread /\ h.pc = "clear" /\ h.why = th["main"].why /\ h.rest = th["main"].rest /\ h.idx = th["main"].idx
  BY <1>2, PcFacts DEF Steps
<1>4. Quiet(h)
  BY <1>2, <1>3 DEF Quiet, SInv, Orders, Responsible, Placed
<1>5. /\ th' \in [Threads -> Thread] /\ th'["main"] = h /\ th'["stop"] = th["stop"]
  BY <1>1, <1>2, <1>3, ThreadUpdate
<1>6. /\ sessions' \in Seq({"active", "ended"}) /\ Len(sessions') = Len(sessions)
      /\ OneActiveSession'
  BY <1>1, <1>2, EndedFacts DEF SInv
<1>7. \A u \in Threads : SameWork(u) \/ (Quiet(th'[u]) /\ Released(u))
  BY <1>1, <1>4, <1>5 DEF SameWork, Released, Threads
<1>8. Types' /\ Orders'
  <2>1. /\ alive' \in BOOLEAN /\ stopping' \in BOOLEAN /\ mem' \in {mem, <<>>}
        /\ starts' \in 0..MaxStarts /\ faults' \in 0..MaxFaults /\ sess' \in Nat /\ sess' <= Len(sessions)
    BY <1>1, <1>2 DEF SInv, Types, TypeOK
  <2> QED
    BY <1>1, <1>2, <1>5, <1>6, <1>7, <2>1, MoveStep DEF SInv
<1>9. Control'
  BY <1>1, <1>3, <1>5 DEF SInv, Control, Closer
<1> QED
  BY <1>6, <1>8, <1>9 DEF SInv

LEMMA CalculateProfitSessionStep ==
  ASSUME SInv, CalculateProfitSession
  PROVE  SInv'
<1> DEFINE h == [th["main"] EXCEPT !.pc = "ending"]
<1>1. /\ th["main"].pc = "end" /\ InFlight("main") = {} /\ th["main"].pc # "idle"
      /\ UNCHANGED <<book, sessions, rows, starts, faults, overlap>>
  BY DEF CalculateProfitSession, InFlight, sqlite
<1>2. /\ overlap' \in BOOLEAN /\ faults' \in 0..MaxFaults /\ th["main"] \in Thread /\ "main" \in Threads
  BY <1>1 DEF SInv, Types, TypeOK, Threads
<1>3. CASE th' = [th EXCEPT !["main"] = h] /\ UNCHANGED <<alive, mem, stopping, sess, lost>>
  <2>1. h \in Thread /\ h.pc = "ending" /\ h.rest = th["main"].rest /\ h.idx = th["main"].idx
    BY <1>2, PcFacts DEF Steps
  <2>2. Quiet(h)
    BY <1>2, <2>1 DEF Quiet, SInv, Orders, Responsible, Placed
  <2>3. mem # <<>>
    BY <1>1 DEF SInv, Control
  <2> QED
    BY <1>1, <1>2, <1>3, <2>1, <2>2, <2>3, LoopMoves DEF sqlite
<1>4. CASE Throw("main", {})
  BY <1>1, <1>2, <1>4, PlainThrow DEF sqlite
<1> QED
  BY <1>3, <1>4 DEF CalculateProfitSession

-----------------------------------------------------------------------------
(* Steps of a thread that works on orders.                                 *)

\* A thread goes on as h: with the order it has, with a new one, or with its list.
LEMMA WorkStep ==
  ASSUME SInv, NEW t \in Threads, NEW h \in Thread, th' = [th EXCEPT ![t] = h],
         UNCHANGED <<sqlite, alive, stopping, mem, sess, starts>>,
         faults' \in 0..MaxFaults, overlap' \in BOOLEAN,
         book' \in Seq(Order), Len(book') <= MaxOrders, BookGrows,
         lost \subseteq lost', lost' \subseteq DOMAIN book',
         Known(h.rest), h.idx <= Len(sessions),
         h.pc \in Placed => h.ord \in DOMAIN book' /\ book'[h.ord].sess = h.idx,
         h.pc \in Pending => ~IsSaved(h.ord),
         h.pc \in {"recheck", "save"} => book'[h.ord].status # "open",
         h.pc = "submit" => h.net # 0,
         h.pc = "fetch" => h.rest # <<>>,
         h.pc \in Pending => (th[t].pc \in Pending /\ h.ord = th[t].ord) \/ h.ord \notin DOMAIN book,
         th[t].pc \in Pending => h.pc \in Pending /\ h.ord = th[t].ord,
         \A o \in DOMAIN book' : o \in DOMAIN book \/ o \in lost' \/ (h.pc \in Pending /\ o = h.ord),
         th[t].pc # "idle", h.pc \in Working,
         h.pc \in Closer \/ h.why \in AtClose => t = "stop" \/ mem # <<>>,
         h.pc \in Closer => t = "stop" \/ h.why \in AtClose,
         t = "stop" => h.why \notin AtClose
  PROVE  SInv'
<1> USE DEF SInv, sqlite
<1>1. /\ th' \in [Threads -> Thread] /\ th'[t] = h
      /\ \A u \in Threads : u # t => th'[u] = th[u]
  BY ThreadUpdate DEF Types, TypeOK
<1>2. Types'
  <2>1. DOMAIN book' = 1..Len(book') /\ Len(book') \in Nat
    OBVIOUS
  <2>2. lost' \subseteq 1..MaxOrders
    BY <2>1, Bounds
  <2> QED
    BY <1>1, <2>2 DEF Types, TypeOK
<1>3. Orders'
  <2>1. \A o : IsSaved(o)' <=> IsSaved(o)
    BY SavedFrame
  <2>2. SavedIsFinal'
    BY FinalStays DEF Orders
  <2>3. Len(sessions') \in Nat /\ Len(sessions) <= Len(sessions')
    BY DEF Types, TypeOK
  <2>4. \A o \in DOMAIN book' : o \in DOMAIN book \/ o \in lost' \/ \E u \in Threads : o \in InFlight(u)'
    BY <1>1 DEF InFlight, Pending
  <2>5. \A u \in Threads : SameWork(u) \/ Responsible(th[u])'
    <3>1. Known(th[t].rest)'
      BY <1>1, <2>1 DEF Known, BookGrows
    <3>2. h.pc \in Pending => ~IsSaved(th[t].ord)'
      BY <1>1, <2>1
    <3>3. Responsible(th[t])'
      BY <1>1, <3>1, <3>2 DEF Responsible
    <3> QED
      BY <1>1, <3>3 DEF SameWork
  <2>6. \A u \in Threads : InFlight(u) \subseteq InFlight(u)' \/ Released(u)
    BY <1>1 DEF InFlight, Pending
  <2>7. Apart'
    <3>1. \A u \in Threads : th[u].pc \in Pending => th[u].ord \in DOMAIN book
      BY DEF Orders, Responsible, Placed, Pending
    <3> QED
      BY <1>1, <3>1 DEF Apart, Orders, Threads
  <2>8. Known(mem)'
    BY <2>1 DEF Known, BookGrows, Orders
  <2> QED
    BY <2>1, <2>2, <2>3, <2>4, <2>5, <2>6, <2>7, <2>8, OrdersStep
<1>4. Control'
  <2>1. {"main", "stop"} \subseteq Threads /\ t \in {"main", "stop"}
    BY DEF Threads
  <2>2. h.pc \notin {"idle", "watch", "tracking", "end", "begin", "resume"}
    BY DEF Working
  <2> QED
    BY <1>1, <2>1, <2>2 DEF Control, ActiveSessions, RowsOf, Closer
<1>5. OneActiveSession'
  BY DEF OneActiveSession
<1> QED
  BY <1>2, <1>3, <1>4, <1>5

\* A polled order has settled, or is settled by the cancellation: the thread keeps it.
LEMMA SettleStep ==
  ASSUME SInv, NEW t \in Threads, NEW p \in {"recheck", "save"},
         th' = [th EXCEPT ![t].pc = p], th[t].pc \in {"wait", "recheck"},
         UNCHANGED <<sqlite, alive, stopping, mem, sess, starts, faults, lost, overlap>>,
         book' \in Seq(Order), Len(book') = Len(book), DOMAIN book' = DOMAIN book, BookGrows,
         book'[th[t].ord].status # "open"
  PROVE  SInv'
<1> DEFINE h == [th[t] EXCEPT !.pc = p]
<1>1. th[t] \in Thread /\ th \in [Threads -> Thread]
  BY DEF SInv, Types, TypeOK
<1>2. /\ h \in Thread /\ h.pc = p /\ h.why = th[t].why /\ h.ord = th[t].ord
      /\ h.idx = th[t].idx /\ h.rest = th[t].rest /\ h.net = th[t].net
  <2>1. p \in Steps
    BY DEF Steps, Working
  <2> QED
    BY <1>1, <2>1, PcFacts
<1>3. th' = [th EXCEPT ![t] = h]
  BY <1>1
<1>4. Responsible(th[t])
  BY DEF SInv, Orders
<1>5. /\ faults' \in 0..MaxFaults /\ overlap' \in BOOLEAN /\ Len(book') <= MaxOrders
      /\ lost \subseteq lost' /\ lost' \subseteq DOMAIN book'
  BY DEF SInv, Types, TypeOK
<1>6. /\ Known(h.rest) /\ h.idx <= Len(sessions)
      /\ h.pc \in Placed => h.ord \in DOMAIN book' /\ book'[h.ord].sess = h.idx
      /\ h.pc \in Pending => ~IsSaved(h.ord)
  BY <1>2, <1>4 DEF Responsible, Placed, Pending, BookGrows
<1>7. /\ h.pc \in {"recheck", "save"} => book'[h.ord].status # "open"
      /\ h.pc \notin Closer \cup {"submit", "fetch"}
      /\ h.pc \in Working /\ th[t].pc # "idle"
      /\ h.pc \in Pending /\ th[t].pc \in Pending
  BY <1>2 DEF Closer, Working, Pending
<1>8. /\ h.why \in AtClose => t = "stop" \/ mem # <<>>
      /\ t = "stop" => h.why \notin AtClose
  BY <1>2 DEF SInv, Control, Threads
<1> QED
  BY <1>2, <1>3, <1>5, <1>6, <1>7, <1>8, WorkStep

LEMMA PollStep ==
  ASSUME SInv, NEW t \in Threads, PollSettles(t) \/ RecheckAfterCancel(t)
  PROVE  SInv'
<1>1. /\ th[t].pc \in {"wait", "recheck"} /\ UNCHANGED <<book, sqlite, starts, faults, overlap>>
      /\ \/ book[th[t].ord].filled > 0 /\ th' = [th EXCEPT ![t].pc = "save"] /\ UNCHANGED <<alive, mem, stopping, sess, lost>>
         \/ ~(book[th[t].ord].filled > 0) /\ Throw(t, {})
  BY DEF PollSettles, RecheckAfterCancel
<1>2. book[th[t].ord].status # "open"
  BY DEF PollSettles, RecheckAfterCancel, SInv, Orders, Responsible
<1>3. BookGrows /\ book' \in Seq(Order) /\ DOMAIN book' = DOMAIN book
  BY <1>1, BookSame DEF SInv, Types, TypeOK
<1>4. CASE th' = [th EXCEPT ![t].pc = "save"] /\ UNCHANGED <<alive, mem, stopping, sess, lost>>
  BY <1>1, <1>2, <1>3, <1>4, SettleStep
<1>5. CASE ~(book[th[t].ord].filled > 0) /\ Throw(t, {})
  <2>1. InFlight(t) = {th[t].ord} /\ th[t].pc # "idle"
    BY <1>1 DEF InFlight
  <2>2. faults' \in 0..MaxFaults
    BY <1>1 DEF SInv, Types, TypeOK
  <2> QED
    BY <1>1, <1>2, <1>5, <2>1, <2>2, PlainThrow
<1> QED
  BY <1>1, <1>4, <1>5

LEMMA PollTimesOutStep ==
  ASSUME SInv, NEW t \in Threads, PollTimesOut(t)
  PROVE  SInv'
<1>1. /\ th[t].pc = "wait" /\ th' = [th EXCEPT ![t].pc = "recheck"] /\ book' = Canceled(OpenOrders)
      /\ UNCHANGED <<sqlite, alive, stopping, mem, sess, starts, faults, lost, overlap>>
  BY DEF PollTimesOut
<1>2. th[t].ord \in OpenOrders
  BY <1>1 DEF PollTimesOut, OpenOrders, SInv, Orders, Responsible, Placed
<1>3. /\ book' \in Seq(Order) /\ Len(book') = Len(book) /\ DOMAIN book' = DOMAIN book
      /\ BookGrows /\ book'[th[t].ord].status # "open"
  BY <1>1, <1>2, CanceledFacts DEF SInv
<1> QED
  BY <1>1, <1>3, SettleStep

\* The exchange accepts an order: it stands at the end of the book, open.
LEMMA AcceptedFacts ==
  ASSUME SInv, NEW side \in {"buy", "sell"}, NEW amount \in Nat \ {0}, NEW idx \in Nat,
         Len(book) < MaxOrders,
         book' = Append(book, [side |-> side, amount |-> amount, filled |-> 0,
                               status |-> "open", sess |-> idx])
  PROVE  /\ book' \in Seq(Order) /\ Len(book') <= MaxOrders /\ BookGrows
         /\ DOMAIN book' = DOMAIN book \cup {Len(book) + 1}
         /\ Len(book) + 1 \notin DOMAIN book
         /\ book'[Len(book) + 1].sess = idx
         /\ Len(book) + 1 \in Nat \ {0}
         /\ ~IsSaved(Len(book) + 1)
<1> DEFINE o == [side |-> side, amount |-> amount, filled |-> 0, status |-> "open", sess |-> idx]
<1>1. o \in Order /\ o.sess = idx
  BY DEF Order
<1>2. book \in Seq(Order) /\ DOMAIN book = 1..Len(book) /\ Len(book) \in Nat
  BY DEF SInv, Types, TypeOK
<1>3. /\ book' \in Seq(Order) /\ Len(book') = Len(book) + 1
      /\ \A i \in 1..Len(book) : book'[i] = book[i]
      /\ book'[Len(book) + 1] = o
      /\ DOMAIN book' = 1..(Len(book) + 1)
  BY <1>1, <1>2
<1>4. BookGrows
  BY <1>2, <1>3 DEF BookGrows
<1>5. ~IsSaved(Len(book) + 1)
  BY <1>2, SavedMeans DEF SInv, Orders, SavedIsFinal
<1>6. Len(book') <= MaxOrders
  BY <1>2, <1>3, Bounds
<1> QED
  BY <1>1, <1>2, <1>3, <1>4, <1>5, <1>6

\* createOrder of the loop or of a close: the order is in flight, hidden, or refused.
LEMMA CreateOrderStep ==
  ASSUME SInv, NEW t \in Threads, NEW side \in {"buy", "sell"}, NEW amount \in Nat \ {0},
         NEW idx \in Nat, idx <= Len(sessions),
         CreateOrder(t, side, amount, idx),
         th[t].pc \in {"enter", "watch", "submit"},
         UNCHANGED <<sqlite, starts>>, overlap' \in BOOLEAN
  PROVE  SInv'
<1> DEFINE o == [side |-> side, amount |-> amount, filled |-> 0, status |-> "open", sess |-> idx]
           w == IF th[t].why = "none" THEN "entry" ELSE th[t].why
           h == [At("wait") EXCEPT !.ord = Len(book) + 1, !.idx = idx, !.why = w]
<1>1. InFlight(t) = {} /\ th[t].pc # "idle" /\ th[t].pc \notin Pending
  BY DEF InFlight, Pending
<1>2. CASE /\ Len(book) < MaxOrders /\ book' = Append(book, o) /\ th' = [th EXCEPT ![t] = h]
           /\ UNCHANGED <<alive, mem, stopping, sess, lost, faults>>
  <2>1. /\ book' \in Seq(Order) /\ Len(book') <= MaxOrders /\ BookGrows
        /\ DOMAIN book' = DOMAIN book \cup {Len(book) + 1}
        /\ Len(book) + 1 \notin DOMAIN book
        /\ book'[Len(book) + 1].sess = idx
        /\ Len(book) + 1 \in Nat \ {0}
        /\ ~IsSaved(Len(book) + 1)
    BY <1>2, AcceptedFacts
  <2>2. "wait" \in Steps /\ th[t] \in Thread
    BY DEF Steps, Working, SInv, Types, TypeOK
  <2>3. w \in {"none", "entry", "loss", "profit", "track", "stop"} /\ (w \in AtClose <=> th[t].why \in AtClose)
    BY <2>2 DEF Thread, AtClose
  <2>4. At("wait") \in Thread /\ At("wait").pc = "wait" /\ At("wait").rest = <<>>
    BY <2>2, AtFacts
  <2> DEFINE Whys == {"none", "entry", "loss", "profit", "track", "stop"}
             Sent(g, n, k) == [g EXCEPT !.ord = n, !.idx = idx, !.why = k]
  <2>5. \A g \in Thread : \A n \in Nat : \A k \in Whys : Sent(g, n, k) \in Thread
    BY DEF Thread
  <2>10. \A g \in Thread : \A n \in Nat : \A k \in Whys :
            /\ Sent(g, n, k).pc = g.pc /\ Sent(g, n, k).rest = g.rest
            /\ Sent(g, n, k).ord = n /\ Sent(g, n, k).idx = idx /\ Sent(g, n, k).why = k
    BY DEF Thread
  <2>6. /\ h \in Thread /\ h.pc = "wait" /\ h.rest = <<>> /\ h.ord = Len(book) + 1
        /\ h.idx = idx /\ h.why = w
    <3>1. Len(book) + 1 \in Nat /\ w \in Whys /\ h = Sent(At("wait"), Len(book) + 1, w)
      BY <2>1, <2>3
    <3> DEFINE g == At("wait")
               n == Len(book) + 1
    <3>2. g \in Thread /\ n \in Nat /\ w \in Whys /\ g.pc = "wait" /\ g.rest = <<>>
      BY <2>4, <3>1
    <3> HIDE DEF h, w, Whys, g, n, Sent
    <3>3. Sent(g, n, w) \in Thread
      BY <3>2, <2>5, Zenon
    <3>4. /\ Sent(g, n, w).pc = g.pc /\ Sent(g, n, w).rest = g.rest
          /\ Sent(g, n, w).ord = n /\ Sent(g, n, w).idx = idx /\ Sent(g, n, w).why = w
      BY <3>2, <2>10, SMTT(30)
    <3>5. h = Sent(g, n, w)
      BY <3>1 DEF g, n
    <3> QED
      BY <3>2, <3>3, <3>4, <3>5 DEF n
  <2> HIDE DEF h, w
  <2>7. /\ faults' \in 0..MaxFaults /\ lost \subseteq lost' /\ lost' \subseteq DOMAIN book'
    BY <1>2, <2>1 DEF SInv, Types, TypeOK
  <2>8. /\ Known(h.rest) /\ h.idx <= Len(sessions)
        /\ h.pc \in Placed => h.ord \in DOMAIN book' /\ book'[h.ord].sess = h.idx
        /\ h.pc \in Pending => ~IsSaved(h.ord)
        /\ h.pc \notin {"recheck", "save", "submit", "fetch"} \cup Closer
        /\ h.pc \in Pending /\ h.pc \in Working /\ h.ord \notin DOMAIN book
        /\ \A x \in DOMAIN book' : x \in DOMAIN book \/ x = h.ord
    BY <2>1, <2>6 DEF Known, Closer, Pending, Working
  <2>9. /\ h.why \in AtClose => t = "stop" \/ mem # <<>>
        /\ t = "stop" => h.why \notin AtClose
    BY <2>3, <2>6 DEF SInv, Control, Threads
  <2> QED
    BY <1>1, <1>2, <2>1, <2>6, <2>7, <2>8, <2>9, WorkStep
<1>3. CASE /\ Len(book) < MaxOrders /\ Fault /\ book' = Append(book, o)
           /\ Throw(t, {Len(book) + 1})
  <2>1. /\ book' \in Seq(Order) /\ Len(book') <= MaxOrders /\ BookGrows
        /\ DOMAIN book' = DOMAIN book \cup {Len(book) + 1}
    BY <1>3, AcceptedFacts
  <2>2. faults' \in 0..MaxFaults
    BY <1>3, FaultFacts DEF SInv
  <2> QED
    BY <1>1, <1>3, <2>1, <2>2, ThrowStep
<1>4. CASE Throw(t, {}) /\ UNCHANGED <<book, faults>>
  <2>1. /\ book' \in Seq(Order) /\ Len(book') <= MaxOrders /\ faults' \in 0..MaxFaults
    BY <1>4 DEF SInv, Types, TypeOK
  <2> QED
    BY <1>1, <1>4, <2>1, BookSame, ThrowStep
<1> QED
  BY <1>2, <1>3, <1>4 DEF CreateOrder

LEMMA PlaceStep ==
  ASSUME SInv, OpenFirstPosition \/ WatchBuyBack \/ \E t \in Threads : SubmitClosingOrder(t)
  PROVE  SInv'
<1>1. /\ sess \in Nat /\ sess <= Len(sessions) /\ Size \in Nat \ {0} /\ "main" \in Threads
      /\ overlap \in BOOLEAN
  BY SizeAssumption DEF SInv, Types, TypeOK, Threads
<1>2. CASE OpenFirstPosition
  <2>1. PICK side \in {EntrySide(i) : i \in PriceInfo} : CreateOrder("main", side, Size, sess)
    BY <1>2 DEF OpenFirstPosition
  <2>2. side \in {"buy", "sell"}
    BY DEF EntrySide
  <2>3. /\ th["main"].pc \in {"enter", "watch", "submit"} /\ UNCHANGED <<sqlite, starts>>
        /\ overlap' \in BOOLEAN
    BY <1>1, <1>2 DEF OpenFirstPosition, Overlaps
  <2> QED
    BY <1>1, <2>1, <2>2, <2>3, CreateOrderStep
<1>3. CASE WatchBuyBack
  <2>1. mem # <<>>
    BY <1>3 DEF WatchBuyBack, SInv, Control
  <2>2. 1 \in DOMAIN mem
    BY <2>1 DEF SInv, Types, TypeOK
  <2>3. book[mem[1].id] \in Order
    BY <2>2 DEF SInv, Orders, Known, Types, TypeOK
  <2>4. book[mem[1].id].side \in {"buy", "sell"}
    BY <2>3 DEF Order
  <2>5. /\ th["main"].pc \in {"enter", "watch", "submit"} /\ UNCHANGED <<sqlite, starts>>
        /\ overlap' \in BOOLEAN /\ CreateOrder("main", book[mem[1].id].side, Size, sess)
    BY <1>1, <1>3 DEF WatchBuyBack, Overlaps
  <2> QED
    BY <1>1, <2>4, <2>5, CreateOrderStep
<1>4. CASE \E t \in Threads : SubmitClosingOrder(t)
  <2>1. PICK t \in Threads : SubmitClosingOrder(t)
    BY <1>4
  <2> DEFINE side == IF th[t].net > 0 THEN "sell" ELSE "buy"
             amount == IF th[t].net > 0 THEN th[t].net ELSE -th[t].net
  <2>2. th[t] \in Thread
    BY DEF SInv, Types, TypeOK
  <2>3. th[t].net \in Int /\ th[t].net # 0 /\ th[t].idx \in Nat /\ th[t].idx <= Len(sessions)
    BY <2>1, <2>2 DEF Thread, SInv, Orders, Responsible, SubmitClosingOrder
  <2>4. side \in {"buy", "sell"} /\ amount \in Nat \ {0}
    BY <2>3
  <2>5. /\ CreateOrder(t, side, amount, th[t].idx)
        /\ th[t].pc \in {"enter", "watch", "submit"} /\ UNCHANGED <<sqlite, starts>>
        /\ overlap' \in BOOLEAN
    BY <1>1, <2>1 DEF SubmitClosingOrder
  <2> QED
    BY <2>3, <2>4, <2>5, CreateOrderStep
<1> QED
  BY <1>2, <1>3, <1>4

\* A close begins with what the list has, or finds nothing to close.
LEMMA CancelAllOrdersStep ==
  ASSUME SInv, NEW t \in Threads, CancelAllOrders(t)
  PROVE  SInv'
<1>1. /\ th[t].pc = "cancel" /\ book' = Canceled(OpenOrders) /\ InFlight(t) = {}
      /\ UNCHANGED <<sqlite, alive, stopping, mem, sess, starts, faults, lost>>
  BY DEF CancelAllOrders, InFlight
<1>2. /\ book' \in Seq(Order) /\ Len(book') = Len(book) /\ DOMAIN book' = DOMAIN book /\ BookGrows
  BY <1>1, CanceledFacts DEF SInv
<1>3. /\ th[t] \in Thread /\ th \in [Threads -> Thread] /\ mem \in Seq(Held)
      /\ overlap \in BOOLEAN /\ faults' \in 0..MaxFaults
  BY <1>1 DEF SInv, Types, TypeOK
<1>4. CASE mem = <<>> /\ th' = [th EXCEPT ![t] = Resumed(t, FALSE)] /\ UNCHANGED overlap
  <2>1. t = "stop"
    BY <1>1, <1>4 DEF SInv, Control, Threads, Closer
  <2>2. Resumed(t, FALSE) = At("dispose")
    BY <2>1, ResumedFacts
  <2>3. "dispose" \in Steps /\ "dispose" \notin Placed \cup {"fetch", "submit"}
    BY DEF Steps, Placed
  <2>4. At("dispose") \in Thread /\ Quiet(At("dispose")) /\ At("dispose").why = "none" /\ At("dispose").pc = "dispose"
    BY <2>3, AtFacts, QuietAt DEF SInv
  <2>5. /\ th' \in [Threads -> Thread] /\ th'["stop"] = At("dispose") /\ th'["main"] = th["main"]
    BY <1>3, <1>4, <2>1, <2>2, <2>4, ThreadUpdate DEF Threads
  <2>6. \A u \in Threads : SameWork(u) \/ (Quiet(th'[u]) /\ Released(u))
    BY <1>1, <2>1, <2>4, <2>5 DEF SameWork, Released, Threads
  <2>7. Types'
    BY <1>1, <1>2, <1>4, <2>5 DEF SInv, Types, TypeOK, sqlite
  <2>8. Orders'
    BY <1>1, <1>2, <2>6, QuietStep DEF SInv, sqlite
  <2>9. Control'
    <3>1. th["stop"].pc # "idle"
      BY <1>1, <2>1
    <3> QED
      BY <1>1, <2>4, <2>5, <3>1 DEF SInv, Control, AtClose, sqlite, ActiveSessions, RowsOf
  <2>10. OneActiveSession'
    BY <1>1 DEF SInv, OneActiveSession, sqlite
  <2> QED
    BY <2>7, <2>8, <2>9, <2>10 DEF SInv
<1>5. CASE /\ mem # <<>> /\ th' = [th EXCEPT ![t].pc = "fetch", ![t].rest = mem, ![t].live = TRUE]
           /\ overlap' = (overlap \/ th[Other(t)].pc \in Working \/ th[t].idx \notin {0, sess})
  <2> DEFINE h == [th[t] EXCEPT !.pc = "fetch", !.rest = mem, !.live = TRUE]
  <2>1. th' = [th EXCEPT ![t] = h]
    BY <1>3, <1>5
  <2>2. "fetch" \in Steps
    BY DEF Steps, Working
  <2>3. h \in Thread
    BY <1>3, <2>2 DEF Thread
  <2>4. h.pc = "fetch" /\ h.why = th[t].why /\ h.idx = th[t].idx /\ h.rest = mem
    BY <1>3 DEF Thread
  <2> HIDE DEF h
  <2>5. Known(h.rest) /\ h.idx <= Len(sessions) /\ h.rest # <<>>
    BY <1>5, <2>4 DEF SInv, Orders, Responsible
  <2>6. /\ h.pc \notin Placed /\ h.pc \notin Pending /\ h.pc \notin {"recheck", "save"} /\ h.pc # "submit"
        /\ h.pc \in Closer /\ h.pc \in Working /\ th[t].pc \notin Pending /\ th[t].pc # "idle"
    BY <1>1, <2>4 DEF Placed, Pending, Closer, Working
  <2>7. /\ t = "stop" \/ mem # <<>>
        /\ t = "stop" \/ h.why \in AtClose
        /\ t = "stop" => h.why \notin AtClose
    BY <1>1, <1>5, <2>4 DEF SInv, Control, Threads, Closer
  <2>8. /\ Len(book') <= MaxOrders /\ lost \subseteq lost' /\ lost' \subseteq DOMAIN book'
        /\ overlap' \in BOOLEAN
        /\ \A o \in DOMAIN book' : o \in DOMAIN book
    BY <1>1, <1>2, <1>3, <1>5 DEF SInv, Types, TypeOK
  <2> QED
    BY <1>1, <1>2, <1>3, <2>1, <2>3, <2>5, <2>6, <2>7, <2>8, WorkStep
<1> QED
  BY <1>4, <1>5 DEF CancelAllOrders

\* What an entry of the list contributes is a number.
LEMMA ExecutedFacts ==
  ASSUME SInv, NEW m \in Held, m.id \in DOMAIN book, m.restored => IsSaved(m.id), NEW fetched \in BOOLEAN
  PROVE  Signed(book[m.id].side, ResolveExecutedAmount(m, fetched)) \in Int
<1>1. book[m.id].filled \in Nat
  <2>1. book[m.id] \in Order
    BY DEF SInv, Types, TypeOK
  <2> QED
    BY <2>1 DEF Order
<1>2. ResolveExecutedAmount(m, fetched) \in Nat
  <2>1. CASE fetched
    BY <1>1, <2>1 DEF ResolveExecutedAmount
  <2>2. CASE ~fetched /\ m.restored
    <3>1. PICK r \in SavedRows : r.id = m.id
      BY <2>2 DEF IsSaved
    <3> DEFINE c == CHOOSE x \in SavedRows : x.id = m.id
    <3>2. c \in SavedRows
      BY <3>1
    <3>3. SavedRows \subseteq Row
      <4>1. \A s \in DOMAIN rows : rows[s] \in Seq(Row)
        BY DEF SInv, Types, TypeOK
      <4>2. \A s \in DOMAIN rows : Range(rows[s]) \subseteq Row
        BY <4>1 DEF Range
      <4> QED
        BY <4>2 DEF SavedRows, RowsOf
    <3>4. c.amount \in Nat
      BY <3>2, <3>3 DEF Row
    <3> QED
      BY <2>2, <3>4 DEF ResolveExecutedAmount
  <2>3. CASE ~fetched /\ ~m.restored
    BY <2>3 DEF ResolveExecutedAmount
  <2> QED
    BY <2>1, <2>2, <2>3
<1> QED
  BY <1>2 DEF Signed

LEMMA FetchStatusStep ==
  ASSUME SInv, NEW t \in Threads, FetchStatus(t)
  PROVE  SInv'
<1> DEFINE m == Head(th[t].rest)
<1>1. /\ th[t].pc = "fetch"
      /\ UNCHANGED <<book, sqlite, alive, stopping, mem, sess, starts, overlap>>
  BY DEF FetchStatus
<1>2. PICK fetched \in BOOLEAN :
         /\ IF fetched THEN UNCHANGED faults ELSE Fault
         /\ LET n == th[t].net + Signed(book[m.id].side, ResolveExecutedAmount(m, fetched))
            IN /\ th' = [th EXCEPT ![t].rest = Tail(@), ![t].net = n,
                                   ![t].pc = IF Len(th[t].rest) > 1 THEN "fetch" ELSE "price"]
               /\ lost' = IF fetched \/ m.restored THEN lost ELSE lost \cup {m.id}
  BY DEF FetchStatus
<1>3. th[t] \in Thread /\ th \in [Threads -> Thread] /\ Responsible(th[t])
  BY DEF SInv, Types, TypeOK, Orders
<1>4. th[t].rest \in Seq(Held) /\ th[t].net \in Int /\ th[t].rest # <<>> /\ Known(th[t].rest)
  BY <1>1, <1>3 DEF Thread, Responsible
<1>5. m \in Held /\ m.id \in DOMAIN book /\ (m.restored => IsSaved(m.id))
  <2>1. m = th[t].rest[1] /\ 1 \in DOMAIN th[t].rest /\ m \in Held
    BY <1>4
  <2> QED
    BY <1>4, <2>1 DEF Known
<1> DEFINE n == th[t].net + Signed(book[m.id].side, ResolveExecutedAmount(m, fetched))
           p == IF Len(th[t].rest) > 1 THEN "fetch" ELSE "price"
           h == [th[t] EXCEPT !.rest = Tail(th[t].rest), !.net = n, !.pc = p]
<1>6. n \in Int
  BY <1>4, <1>5, ExecutedFacts
<1>7. th' = [th EXCEPT ![t] = h]
  BY <1>2, <1>3
<1>8. Tail(th[t].rest) \in Seq(Held) /\ p \in {"fetch", "price"} /\ (p = "fetch" => Tail(th[t].rest) # <<>>)
  <2> DEFINE q == th[t].rest
  <2>1. q \in Seq(Held) /\ q # <<>>
    BY <1>4
  <2> HIDE DEF q
  <2>2. Len(Tail(q)) = Len(q) - 1 /\ Tail(q) \in Seq(Held) /\ Len(q) \in Nat
    BY <2>1, HeadTailProperties
  <2>3. Len(q) > 1 => Tail(q) # <<>>
    <3>1. Len(<<>>) = 0
      OBVIOUS
    <3>2. Len(q) > 1 => Len(Tail(q)) # 0
      BY <2>2
    <3> QED
      BY <3>1, <3>2
  <2> QED
    BY <2>2, <2>3 DEF q
<1>9. /\ h \in Thread /\ h.pc = p /\ h.why = th[t].why /\ h.idx = th[t].idx
      /\ h.rest = Tail(th[t].rest)
  <2>1. p \in Steps
    BY <1>8 DEF Steps, Working
  <2> HIDE DEF n, p
  <2>2. h \in Thread
    BY <1>3, <1>6, <1>8, <2>1 DEF Thread
  <2>3. h.pc = p /\ h.why = th[t].why /\ h.idx = th[t].idx /\ h.rest = Tail(th[t].rest)
    BY <1>3 DEF Thread
  <2> QED
    BY <2>2, <2>3
<1>10. Known(h.rest)
  <2>1. \A i \in DOMAIN Tail(th[t].rest) : i + 1 \in DOMAIN th[t].rest /\ Tail(th[t].rest)[i] = th[t].rest[i + 1]
    <3> DEFINE q == th[t].rest
    <3>1. q \in Seq(Held) /\ q # <<>>
      BY <1>4
    <3> HIDE DEF q
    <3>2. /\ Len(Tail(q)) = Len(q) - 1 /\ Tail(q) \in Seq(Held) /\ Len(q) \in Nat
          /\ \A i \in 1..Len(Tail(q)) : Tail(q)[i] = q[i + 1]
      BY <3>1, HeadTailProperties
    <3>3. DOMAIN Tail(q) = 1..Len(Tail(q)) /\ DOMAIN q = 1..Len(q)
      BY <3>1, <3>2
    <3>4. \A i \in DOMAIN Tail(q) : i + 1 \in DOMAIN q /\ Tail(q)[i] = q[i + 1]
      BY <3>2, <3>3
    <3> QED
      BY <3>4 DEF q
  <2> QED
    BY <1>4, <1>9, <2>1 DEF Known
<1> HIDE DEF n, p, h
<1>11. /\ lost \subseteq lost' /\ lost' \subseteq DOMAIN book'
       /\ faults' \in 0..MaxFaults /\ overlap' \in BOOLEAN
       /\ book' \in Seq(Order) /\ Len(book') <= MaxOrders
  <2>1. /\ lost \subseteq DOMAIN book /\ overlap \in BOOLEAN /\ book \in Seq(Order) /\ Len(book) <= MaxOrders
        /\ faults \in 0..MaxFaults
    BY DEF SInv, Types, TypeOK
  <2>2. faults' \in 0..MaxFaults
    BY <1>2, <2>1, FaultFacts DEF SInv
  <2>3. lost \subseteq lost' /\ lost' \subseteq DOMAIN book
    BY <1>2, <1>5, <2>1
  <2> QED
    BY <1>1, <2>1, <2>2, <2>3
<1>12. /\ h.pc \notin Placed /\ h.pc \notin Pending /\ h.pc \notin {"recheck", "save"} /\ h.pc # "submit"
       /\ h.pc \in Closer /\ h.pc \in Working /\ th[t].pc \notin Pending /\ th[t].pc # "idle"
       /\ h.pc = "fetch" => h.rest # <<>>
       /\ h.idx <= Len(sessions)
  BY <1>1, <1>3, <1>8, <1>9 DEF Placed, Pending, Closer, Working, Responsible
<1>13. /\ t = "stop" \/ mem # <<>>
       /\ t = "stop" \/ h.why \in AtClose
       /\ t = "stop" => h.why \notin AtClose
  BY <1>1, <1>9 DEF SInv, Control, Threads, Closer
<1>14. BookGrows /\ DOMAIN book' = DOMAIN book
  BY <1>1, BookSame
<1> QED
  BY <1>1, <1>7, <1>9, <1>10, <1>11, <1>12, <1>13, <1>14, WorkStep

\* A covered position needs no order; one that is not is closed, or the price fails.
LEMMA ExposureStep ==
  ASSUME SInv, NEW t \in Threads, CalculateClosingOrderExposure(t)
  PROVE  SInv'
<1>1. /\ th[t].pc = "price" /\ InFlight(t) = {} /\ UNCHANGED <<book, sqlite, starts, overlap>>
  BY DEF CalculateClosingOrderExposure, InFlight
<1>2. th[t] \in Thread /\ th \in [Threads -> Thread] /\ Responsible(th[t])
  BY DEF SInv, Types, TypeOK, Orders
<1>3. /\ book' \in Seq(Order) /\ Len(book') <= MaxOrders /\ BookGrows /\ DOMAIN book' = DOMAIN book
      /\ overlap' \in BOOLEAN /\ faults \in 0..MaxFaults /\ lost \subseteq DOMAIN book'
      /\ alive \in BOOLEAN /\ stopping \in BOOLEAN /\ starts' \in 0..MaxStarts
  BY <1>1, BookSame DEF SInv, Types, TypeOK
<1>4. CASE th' = [th EXCEPT ![t] = Resumed(t, FALSE)] /\ UNCHANGED <<alive, mem, stopping, sess, lost, faults>>
  <2>1. PICK p \in {"dispose", "watch", "end", "done", "sleep"} :
           /\ Resumed(t, FALSE) = At(p)
           /\ t = "stop" => p = "dispose"
           /\ t = "main" => p # "dispose"
    BY ResumedFacts
  <2>2. p \in Steps /\ p \notin Placed \cup {"fetch", "submit"}
    BY <2>1 DEF Steps, Placed
  <2>3. At(p) \in Thread /\ Quiet(At(p)) /\ At(p).why = "none" /\ At(p).pc = p
    BY <2>2, AtFacts, QuietAt DEF SInv
  <2>4. UNCHANGED <<book, sessions, rows, mem, sess, lost>>
    BY <1>1, <1>4 DEF sqlite
  <2>5. /\ Types' /\ Orders' /\ OneActiveSession'
        /\ th'[t] = At(p) /\ \A u \in Threads : u # t => th'[u] = th[u]
    BY <1>1, <1>3, <1>4, <2>1, <2>3, <2>4, OneMoves
  <2>6. Control'
    <3>1. t = "main" => mem # <<>>
      BY <1>1 DEF SInv, Control, Closer
    <3>2. {"main", "stop"} \subseteq Threads /\ t \in {"main", "stop"}
      BY DEF Threads
    <3>3. p \notin Closer \cup {"begin", "resume", "idle"}
      BY DEF Closer
    <3> QED
      BY <1>1, <1>4, <2>3, <2>4, <2>5, <3>1, <3>2, <3>3, ZenonT(30) DEF SInv, Control, AtClose, ActiveSessions, RowsOf
  <2> QED
    BY <2>5, <2>6 DEF SInv
<1>5. CASE th[t].net # 0 /\ th' = [th EXCEPT ![t].pc = "submit"] /\ UNCHANGED <<alive, mem, stopping, sess, lost, faults>>
  <2> DEFINE h == [th[t] EXCEPT !.pc = "submit"]
  <2>1. th' = [th EXCEPT ![t] = h]
    BY <1>2, <1>5
  <2>2. "submit" \in Steps
    BY DEF Steps, Working
  <2>3. /\ h \in Thread /\ h.pc = "submit" /\ h.why = th[t].why /\ h.rest = th[t].rest
        /\ h.idx = th[t].idx /\ h.net = th[t].net
    BY <1>2, <2>2, PcFacts
  <2> HIDE DEF h
  <2>4. /\ Known(h.rest) /\ h.idx <= Len(sessions) /\ h.net # 0
        /\ h.pc \notin Placed /\ h.pc \notin Pending /\ h.pc \notin {"recheck", "save"} /\ h.pc # "fetch"
        /\ h.pc \in Closer /\ h.pc \in Working /\ th[t].pc \notin Pending /\ th[t].pc # "idle"
    BY <1>1, <1>2, <1>5, <2>3 DEF Responsible, Placed, Pending, Closer, Working
  <2>5. /\ t = "stop" \/ mem # <<>>
        /\ t = "stop" \/ h.why \in AtClose
        /\ t = "stop" => h.why \notin AtClose
    BY <1>1, <2>3 DEF SInv, Control, Threads, Closer
  <2> QED
    BY <1>1, <1>3, <1>5, <2>1, <2>3, <2>4, <2>5, WorkStep
<1>6. CASE Fault /\ Throw(t, {})
  <2>1. faults' \in 0..MaxFaults
    BY <1>6, FaultFacts DEF SInv
  <2> QED
    BY <1>1, <1>6, <2>1, PlainThrow
<1> QED
  BY <1>4, <1>5, <1>6 DEF CalculateClosingOrderExposure

\* A new session: an empty ledger, and no other session is active.
LEMMA StartSessionStep ==
  ASSUME SInv, StartSession
  PROVE  SInv'
<1>1. /\ th["main"].pc = "begin" /\ InFlight("main") = {} /\ ActiveSessions = {}
      /\ sessions' = Append(sessions, "active") /\ rows' = Append(rows, <<>>)
      /\ sess' = Len(sessions) + 1 /\ th' = [th EXCEPT !["main"] = At("enter")]
      /\ UNCHANGED <<book, alive, stopping, mem, starts, faults, lost, overlap>>
  BY DEF StartSession, InFlight, SInv, Control
<1>2. /\ sessions \in Seq({"active", "ended"}) /\ rows \in Seq(Seq(Row)) /\ Len(rows) = Len(sessions)
      /\ <<>> \in Seq(Row)
  BY DEF SInv, Types, TypeOK
<1>3. /\ sessions' \in Seq({"active", "ended"}) /\ Len(sessions') = Len(sessions) + 1
      /\ DOMAIN sessions' = DOMAIN sessions \cup {Len(sessions) + 1}
      /\ \A s \in DOMAIN sessions : sessions'[s] = sessions[s]
  BY <1>1, <1>2
<1>4. /\ rows' \in Seq(Seq(Row)) /\ Len(rows') = Len(rows) + 1
      /\ DOMAIN rows' = DOMAIN rows \cup {Len(rows) + 1}
      /\ \A s \in DOMAIN rows : rows'[s] = rows[s]
      /\ rows'[Len(rows) + 1] = <<>>
  BY <1>1, <1>2
<1>5. /\ th' \in [Threads -> Thread] /\ th'["main"] = At("enter") /\ th'["stop"] = th["stop"]
      /\ At("enter").pc = "enter" /\ At("enter").why = "none" /\ Quiet(At("enter"))
  <2>1. "enter" \in Steps /\ "enter" \notin Placed \cup {"fetch", "submit"}
    BY DEF Steps, Placed
  <2>2. At("enter") \in Thread /\ At("enter").pc = "enter" /\ At("enter").why = "none" /\ Quiet(At("enter"))
    BY <2>1, AtFacts, QuietAt DEF SInv
  <2> QED
    BY <1>1, <2>2, ThreadUpdate DEF SInv, Types, TypeOK, Threads
<1>6. Types'
  <2>1. Len(sessions) \in Nat /\ sess' \in Nat /\ sess' <= Len(sessions') /\ Len(rows') = Len(sessions')
    BY <1>1, <1>2, <1>3, <1>4
  <2> QED
    BY <1>1, <1>3, <1>4, <1>5, <2>1 DEF SInv, Types, TypeOK
<1>7. \A o : IsSaved(o)' <=> IsSaved(o)
  <2>1. \A o : IsSaved(o)' <=> \E s \in DOMAIN rows' : \E i \in DOMAIN rows'[s] : rows'[s][i].id = o
    BY DEF IsSaved, SavedRows, RowsOf, Range
  <2>2. DOMAIN rows'[Len(rows) + 1] = {}
    BY <1>4
  <2>3. \A o : (\E s \in DOMAIN rows' : \E i \in DOMAIN rows'[s] : rows'[s][i].id = o)
               <=> \E s \in DOMAIN rows : \E i \in DOMAIN rows[s] : rows[s][i].id = o
    BY <1>4, <2>2
  <2> QED
    BY <2>1, <2>3, SavedMeans
<1>8. SavedIsFinal'
  <2>1. DOMAIN rows'[Len(rows) + 1] = {}
    BY <1>4
  <2> QED
    BY <1>1, <1>4, <2>1 DEF SavedIsFinal, SInv, Orders
<1>9. Orders'
  <2>1. Len(sessions') \in Nat /\ Len(sessions) <= Len(sessions')
    BY <1>2, <1>3
  <2>2. BookGrows /\ DOMAIN book' = DOMAIN book
    BY <1>1, BookSame
  <2>3. \A u \in Threads : SameWork(u) \/ Responsible(th[u])'
    <3>1. Known(th["main"].rest)'
      BY <1>1, <1>5, <1>7 DEF Known, Quiet
    <3>2. Responsible(th["main"])'
      BY <1>2, <1>3, <1>5, <2>1, <3>1, AtFacts DEF Responsible, Quiet, Placed, Pending, Steps
    <3> QED
      BY <1>5, <3>2 DEF SameWork, Threads
  <2>4. \A u \in Threads : InFlight(u) \subseteq InFlight(u)' \/ Released(u)
    BY <1>1, <1>5 DEF InFlight, Released, Threads
  <2>5. Apart'
    BY <1>5 DEF Apart, Pending
  <2>6. Known(mem)'
    BY <1>1, <1>7 DEF Known, SInv, Orders
  <2> QED
    BY <1>1, <1>7, <1>8, <2>1, <2>2, <2>3, <2>4, <2>5, <2>6, OrdersStep DEF SInv
<1>10. Control'
  BY <1>1, <1>5 DEF SInv, Control, AtClose, Closer
<1>11. OneActiveSession'
  BY <1>1, <1>3 DEF OneActiveSession, ActiveSessions
<1> QED
  BY <1>6, <1>9, <1>10, <1>11 DEF SInv

-----------------------------------------------------------------------------
(* Saving an executed order, and putting it on the list.                   *)

\* A sequence with one element more.
LEMMA AppendFacts ==
  ASSUME NEW S, NEW b \in Seq(S), NEW x \in S
  PROVE  /\ Append(b, x) \in Seq(S) /\ Len(Append(b, x)) = Len(b) + 1
         /\ DOMAIN Append(b, x) = DOMAIN b \cup {Len(b) + 1}
         /\ Len(b) + 1 \notin DOMAIN b
         /\ \A i \in DOMAIN b : Append(b, x)[i] = b[i]
         /\ Append(b, x)[Len(b) + 1] = x
         /\ Append(b, x) # <<>>
<1>1. /\ Append(b, x) \in Seq(S) /\ Len(Append(b, x)) = Len(b) + 1
      /\ \A i \in 1..Len(b) : Append(b, x)[i] = b[i]
      /\ Append(b, x)[Len(b) + 1] = x
      /\ Append(b, x) # <<>>
  BY AppendProperties
<1>2. DOMAIN b = 1..Len(b) /\ Len(b) \in Nat
  OBVIOUS
<1>3. DOMAIN Append(b, x) = 1..(Len(b) + 1)
  BY <1>1
<1> QED
  BY <1>1, <1>2, <1>3

\* The row of an order, appended to the ledger of the session it was placed for.
LEMMA SavedFacts ==
  ASSUME SInv, NEW t \in Threads, th[t].pc = "save", th[t].idx # 0,
         rows' = [rows EXCEPT ![th[t].idx] = Append(@, CreateOrderRow(th[t].ord))],
         book' = book
  PROVE  /\ rows' \in Seq(Seq(Row)) /\ Len(rows') = Len(rows)
         /\ \A o : IsSaved(o)' <=> IsSaved(o) \/ o = th[t].ord
         /\ SavedIsFinal'
<1> DEFINE s == th[t].idx
           o == th[t].ord
           r == CreateOrderRow(o)
<1>1. /\ o \in DOMAIN book /\ book[o].sess = s /\ ~IsSaved(o) /\ book[o].status # "open"
      /\ s <= Len(sessions)
  BY DEF SInv, Orders, Responsible, Placed, Pending
<1>2. s \in Nat /\ s \in DOMAIN rows
  <2>1. s \in Nat
    BY DEF SInv, Types, TypeOK, Thread
  <2>2. Len(rows) = Len(sessions) /\ DOMAIN rows = 1..Len(rows) /\ Len(rows) \in Nat
    BY DEF SInv, Types, TypeOK
  <2> QED
    BY <1>1, <2>1, <2>2
<1>3. r \in Row /\ r.id = o /\ r.amount = book[o].filled
  <2>1. book[o] \in Order /\ o \in Nat \ {0}
    BY <1>1 DEF SInv, Types, TypeOK
  <2>2. book[o].side \in {"buy", "sell"} /\ book[o].filled \in Nat
    BY <2>1 DEF Order
  <2> QED
    BY <2>1, <2>2 DEF CreateOrderRow, Row
<1>4. rows \in Seq(Seq(Row)) /\ rows[s] \in Seq(Row)
  BY <1>2 DEF SInv, Types, TypeOK
<1> DEFINE q == Append(rows[s], r)
<1> HIDE DEF r
<1>5. /\ q \in Seq(Row) /\ Len(q) = Len(rows[s]) + 1
      /\ DOMAIN q = DOMAIN rows[s] \cup {Len(rows[s]) + 1}
      /\ \A i \in DOMAIN rows[s] : q[i] = rows[s][i]
      /\ q[Len(rows[s]) + 1] = r /\ Len(rows[s]) + 1 \notin DOMAIN rows[s]
  <2> DEFINE b == rows[s]
  <2>1. b \in Seq(Row) /\ r \in Row
    BY <1>3, <1>4
  <2> HIDE DEF b
  <2>2. /\ Append(b, r) \in Seq(Row) /\ Len(Append(b, r)) = Len(b) + 1
        /\ DOMAIN Append(b, r) = DOMAIN b \cup {Len(b) + 1}
        /\ Len(b) + 1 \notin DOMAIN b
        /\ \A i \in DOMAIN b : Append(b, r)[i] = b[i]
        /\ Append(b, r)[Len(b) + 1] = r
    BY <2>1, AppendFacts
  <2> QED
    BY <2>2 DEF b
<1>6. rows' = [rows EXCEPT ![s] = q]
  BY DEF r
<1> HIDE DEF q
<1>7. /\ rows' \in Seq(Seq(Row)) /\ Len(rows') = Len(rows) /\ DOMAIN rows' = DOMAIN rows
      /\ rows'[s] = q /\ \A u \in DOMAIN rows : u # s => rows'[u] = rows[u]
  <2>1. DOMAIN rows' = DOMAIN rows /\ rows'[s] = q /\ \A u \in DOMAIN rows : u # s => rows'[u] = rows[u]
    BY <1>2, <1>6
  <2>2. DOMAIN rows = 1..Len(rows) /\ Len(rows) \in Nat
    BY <1>4
  <2>3. \A u \in 1..Len(rows) : rows'[u] \in Seq(Row)
    <3>1. \A u \in 1..Len(rows) : rows[u] \in Seq(Row)
      BY <1>4
    <3>2. q \in Seq(Row)
      BY <1>5
    <3> QED
      BY <2>1, <2>2, <3>1, <3>2
  <2>4. rows' \in [1..Len(rows) -> Seq(Row)]
    BY <1>6, <2>1, <2>2, <2>3
  <2>5. rows' \in Seq(Seq(Row)) /\ Len(rows') = Len(rows)
    BY <2>2, <2>4, SeqDef
  <2> QED
    BY <2>1, <2>5
<1>8. \A x : IsSaved(x)' <=> IsSaved(x) \/ x = o
  <2>1. \A x : IsSaved(x)' <=> \E u \in DOMAIN rows' : \E i \in DOMAIN rows'[u] : rows'[u][i].id = x
    BY DEF IsSaved, SavedRows, RowsOf, Range
  <2>2. \A x : (\E i \in DOMAIN q : q[i].id = x) <=> (\E i \in DOMAIN rows[s] : rows[s][i].id = x) \/ x = o
    BY <1>3, <1>5
  <2>3. \A x : (\E u \in DOMAIN rows' : \E i \in DOMAIN rows'[u] : rows'[u][i].id = x)
               <=> (\E u \in DOMAIN rows : \E i \in DOMAIN rows[u] : rows[u][i].id = x) \/ x = o
    <3> DEFINE In(u, x) == \E i \in DOMAIN rows[u] : rows[u][i].id = x
               Now(u, x) == \E i \in DOMAIN rows'[u] : rows'[u][i].id = x
    <3>1. \A x : Now(s, x) <=> In(s, x) \/ x = o
      BY <1>7, <2>2, ZenonT(30)
    <3>2. \A u \in DOMAIN rows : u # s => \A x : Now(u, x) <=> In(u, x)
      BY <1>7
    <3> HIDE DEF In, Now
    <3>3. \A x : (\E u \in DOMAIN rows' : Now(u, x)) <=> (\E u \in DOMAIN rows : In(u, x)) \/ x = o
      BY <1>2, <1>7, <3>1, <3>2
    <3> QED
      BY <3>3 DEF In, Now
  <2> QED
    BY <2>1, <2>3, SavedMeans
<1>9. SavedIsFinal'
  <2>1. \A u \in DOMAIN rows : \A i \in DOMAIN rows[u] : rows[u][i].id # o
    BY <1>1, SavedMeans
  <2>2. ASSUME NEW u \in DOMAIN rows, u # s, NEW i \in DOMAIN rows'[u]
        PROVE  LET x == rows'[u][i]
               IN /\ x.id \in DOMAIN book' /\ book'[x.id].status # "open"
                  /\ book'[x.id].filled = x.amount /\ book'[x.id].sess = u
                  /\ \A j \in DOMAIN rows'[u] : rows'[u][j].id = x.id => i = j
    BY <1>7, <2>2 DEF SInv, Orders, SavedIsFinal
  <2>3. ASSUME NEW i \in DOMAIN rows[s]
        PROVE  LET x == q[i]
               IN /\ x.id \in DOMAIN book' /\ book'[x.id].status # "open"
                  /\ book'[x.id].filled = x.amount /\ book'[x.id].sess = s
                  /\ \A j \in DOMAIN q : q[j].id = x.id => i = j
    BY <1>2, <1>3, <1>5, <2>1 DEF SInv, Orders, SavedIsFinal
  <2>4. LET i == Len(rows[s]) + 1
        IN /\ q[i].id \in DOMAIN book' /\ book'[q[i].id].status # "open"
           /\ book'[q[i].id].filled = q[i].amount /\ book'[q[i].id].sess = s
           /\ \A j \in DOMAIN q : q[j].id = q[i].id => i = j
    BY <1>1, <1>2, <1>3, <1>5, <2>1
  <2>5. ASSUME NEW i \in DOMAIN q
        PROVE  LET x == q[i]
               IN /\ x.id \in DOMAIN book' /\ book'[x.id].status # "open"
                  /\ book'[x.id].filled = x.amount /\ book'[x.id].sess = s
                  /\ \A j \in DOMAIN q : q[j].id = x.id => i = j
    BY <1>5, <2>3, <2>4
  <2> DEFINE Final(u, i) == /\ rows'[u][i].id \in DOMAIN book'
                            /\ book'[rows'[u][i].id].status # "open"
                            /\ book'[rows'[u][i].id].filled = rows'[u][i].amount
                            /\ book'[rows'[u][i].id].sess = u
                            /\ \A j \in DOMAIN rows'[u] : rows'[u][j].id = rows'[u][i].id => i = j
  <2>6. ASSUME NEW u \in DOMAIN rows', NEW i \in DOMAIN rows'[u], u # s
        PROVE  Final(u, i)
    <3>1. u \in DOMAIN rows
      BY <1>7
    <3> QED
      BY <2>2, <2>6, <3>1
  <2>7. ASSUME NEW i \in DOMAIN rows'[s], s \in DOMAIN rows'
        PROVE  Final(s, i)
    BY <1>7, <2>5, <2>7
  <2>8. \A u \in DOMAIN rows' : \A i \in DOMAIN rows'[u] : Final(u, i)
    <3> HIDE DEF Final
    <3> QED
      BY <2>6, <2>7, Zenon
  <2> QED
    BY <2>8 DEF SavedIsFinal
<1> QED
  BY <1>7, <1>8, <1>9

LEMMA SaveActivatedOrderStep ==
  ASSUME SInv, NEW t \in Threads, SaveActivatedOrder(t)
  PROVE  SInv'
<1> DEFINE o == th[t].ord
           h == [th[t] EXCEPT !.pc = "push"]
<1>1. /\ th[t].pc = "save" /\ th' = [th EXCEPT ![t].pc = "push"]
      /\ UNCHANGED <<book, sessions, alive, stopping, mem, sess, starts, overlap>>
  BY DEF SaveActivatedOrder
<1>2. th[t] \in Thread /\ th \in [Threads -> Thread] /\ Responsible(th[t])
  BY DEF SInv, Types, TypeOK, Orders
<1>3. /\ h \in Thread /\ h.pc = "push" /\ h.why = th[t].why /\ h.ord = o
      /\ h.idx = th[t].idx /\ h.rest = th[t].rest /\ h.net = th[t].net
  <2>1. "push" \in Steps
    BY DEF Steps, Working
  <2> QED
    BY <1>2, <2>1, PcFacts
<1>4. /\ th' \in [Threads -> Thread] /\ th'[t] = h
      /\ \A u \in Threads : u # t => th'[u] = th[u]
  <2>1. th' = [th EXCEPT ![t] = h]
    BY <1>1, <1>2
  <2> QED
    BY <1>2, <1>3, <2>1, ThreadUpdate
<1> HIDE DEF h
<1>5. o \in DOMAIN book /\ InFlight(t) = {o} /\ InFlight(t)' = {}
  BY <1>1, <1>2, <1>3, <1>4 DEF Responsible, Placed, InFlight
<1>6. \A u \in Threads : u # t => SameWork(u) /\ InFlight(u)' = InFlight(u)
  BY <1>4 DEF SameWork, InFlight
<1>7. BookGrows /\ DOMAIN book' = DOMAIN book
  BY <1>1, BookSame
<1>8. Apart'
  BY <1>3, <1>4 DEF Apart, Threads, Pending
<1>9. Control'
  <2>1. ActiveSessions' = ActiveSessions
    BY <1>1 DEF ActiveSessions
  <2>2. th["main"].pc # "resume" \/ t # "main"
    BY <1>1
  <2>3. DOMAIN rows' = DOMAIN rows /\ (RowsOf(sess) # <<>> => RowsOf(sess)' # <<>>)
    <3>1. CASE rows' = rows
      BY <1>1, <3>1 DEF RowsOf
    <3>2. CASE rows' = [rows EXCEPT ![th[t].idx] = Append(@, CreateOrderRow(th[t].ord))]
      <4>1. \A s \in DOMAIN rows : rows[s] \in Seq(Row)
        BY DEF SInv, Types, TypeOK
      <4>2. \A s \in DOMAIN rows : Append(rows[s], CreateOrderRow(th[t].ord)) # <<>>
        <5> DEFINE x == CreateOrderRow(th[t].ord)
        <5>1. ASSUME NEW b \in Seq(Row)
              PROVE  Append(b, x) # <<>>
          <6>1. b \in Seq(Row \cup {x})
            OBVIOUS
          <6> QED
            BY <6>1, AppendFacts
        <5> QED
          BY <4>1, <5>1
      <4> QED
        BY <1>1, <3>2, <4>2 DEF RowsOf
    <3> QED
      BY <3>1, <3>2 DEF SaveActivatedOrder
  <2>4. {"main", "stop"} \subseteq Threads /\ t \in {"main", "stop"}
    BY DEF Threads
  <2> QED
    BY <1>1, <1>3, <1>4, <2>1, <2>3, <2>4 DEF SInv, Control, Closer
<1>10. OneActiveSession'
  BY <1>1 DEF SInv, OneActiveSession
<1>11. Len(sessions') \in Nat /\ Len(sessions) <= Len(sessions')
  BY <1>1 DEF SInv, Types, TypeOK
<1>12. CASE /\ th[t].idx # 0 /\ UNCHANGED <<lost, faults>>
            /\ rows' = [rows EXCEPT ![th[t].idx] = Append(@, CreateOrderRow(o))]
  <2>1. /\ rows' \in Seq(Seq(Row)) /\ Len(rows') = Len(rows)
        /\ \A x : IsSaved(x)' <=> IsSaved(x) \/ x = o
        /\ SavedIsFinal'
    BY <1>1, <1>12, SavedFacts
  <2>2. Types'
    BY <1>1, <1>4, <1>12, <2>1 DEF SInv, Types, TypeOK
  <2>3. \A u \in Threads : Responsible(th[u])'
    <3>1. Responsible(th[t])'
      <4>1. Known(th[t].rest)'
        BY <1>1, <1>2, <1>3, <1>4, <2>1 DEF Responsible, Known
      <4> QED
        BY <1>1, <1>2, <1>3, <1>4, <4>1 DEF Responsible, Placed, Pending
    <3>2. ASSUME NEW u \in Threads, u # t
          PROVE  Responsible(th[u])'
      <4>1. Responsible(th[u]) /\ th[u].idx \in Nat
        BY DEF SInv, Orders, Types, TypeOK, Thread
      <4>2. th[u].pc \in Pending => th[u].ord # o
        BY <1>1, <3>2 DEF SInv, Orders, Apart, Threads, Pending
      <4>3. th[u].pc \in Pending => ~IsSaved(th[u].ord)'
        BY <1>4, <2>1, <3>2, <4>1, <4>2 DEF Responsible
      <4>4. Len(sessions) \in Nat
        BY DEF SInv, Types, TypeOK
      <4> QED
        BY <1>6, <1>7, <1>11, <2>1, <3>2, <4>1, <4>3, <4>4, SameWorkStays
    <3> QED
      BY <3>1, <3>2
  <2>4. Known(mem)'
    BY <1>1, <2>1 DEF Known, SInv, Orders
  <2>5. Accounted'
    <3>1. \A x \in DOMAIN book : (\E u \in Threads : x \in InFlight(u)) => x = o \/ \E u \in Threads : x \in InFlight(u)'
      BY <1>5, <1>6
    <3> QED
      BY <1>1, <1>12, <2>1, <3>1 DEF Accounted, SInv, Orders
  <2>6. Orders'
    BY <1>8, <2>1, <2>3, <2>4, <2>5 DEF Orders
  <2> QED
    BY <1>9, <1>10, <2>2, <2>6 DEF SInv
<1>13. CASE /\ lost' = lost \cup {o} /\ UNCHANGED rows
            /\ faults' = faults \/ Fault
  <2>1. Types'
    <3>1. faults' \in 0..MaxFaults
      BY <1>13, FaultFacts DEF SInv, Types, TypeOK
    <3>2. lost' \subseteq DOMAIN book /\ lost' \subseteq 1..MaxOrders
      <4>1. DOMAIN book = 1..Len(book) /\ Len(book) \in Nat /\ Len(book) <= MaxOrders
        BY DEF SInv, Types, TypeOK
      <4> QED
        BY <1>5, <1>13, <4>1, Bounds DEF SInv, Types
    <3> QED
      BY <1>1, <1>4, <1>13, <3>1, <3>2 DEF SInv, Types, TypeOK
  <2>2. \A x : IsSaved(x)' <=> IsSaved(x)
    BY <1>13, SavedFrame
  <2>3. SavedIsFinal'
    BY <1>7, <1>13, FinalStays DEF SInv, Orders
  <2>4. Responsible(th[t])'
    <3>1. Known(th[t].rest)'
      BY <1>1, <1>2, <1>3, <1>4, <2>2 DEF Responsible, Known
    <3> QED
      BY <1>1, <1>2, <1>3, <1>4, <3>1 DEF Responsible, Placed, Pending
  <2>5. \A u \in Threads : SameWork(u) \/ Responsible(th[u])'
    BY <1>6, <2>4
  <2>6. \A u \in Threads : InFlight(u) \subseteq InFlight(u)' \/ Released(u)
    BY <1>5, <1>6, <1>13 DEF Released
  <2>7. Known(mem)'
    BY <1>1, <2>2 DEF Known, SInv, Orders
  <2>8. lost \subseteq lost'
    BY <1>13
  <2>9. Orders'
    BY <1>7, <1>8, <1>11, <2>2, <2>3, <2>5, <2>6, <2>7, <2>8, OrdersStep DEF SInv
  <2> QED
    BY <1>9, <1>10, <2>1, <2>9 DEF SInv
<1>14. \/ /\ th[t].idx # 0 /\ UNCHANGED <<lost, faults>>
          /\ rows' = [rows EXCEPT ![th[t].idx] = Append(@, CreateOrderRow(o))]
       \/ /\ lost' = lost \cup {o} /\ UNCHANGED rows
          /\ faults' = faults \/ Fault
  BY DEF SaveActivatedOrder
<1> QED
  BY <1>12, <1>13, <1>14

LEMMA PushOrderStep ==
  ASSUME SInv, NEW t \in Threads, PushOrder(t)
  PROVE  SInv'
<1> DEFINE m == [id |-> th[t].ord, restored |-> FALSE]
           u == Other(t)
           R == Resumed(t, TRUE)
           q == IF th[u].pc = "fetch" /\ th[u].live THEN Append(th[u].rest, m) ELSE th[u].rest
           g == [th[u] EXCEPT !.rest = q]
<1>1. /\ th[t].pc = "push" /\ mem' = Append(mem, m)
      /\ th' = [th EXCEPT ![t] = R,
                          ![u].rest = IF th[u].pc = "fetch" /\ th[u].live THEN Append(@, m) ELSE @]
      /\ UNCHANGED <<book, sqlite, alive, stopping, sess, starts, faults, lost, overlap>>
  BY DEF PushOrder
<1>2. /\ u \in Threads /\ u # t /\ \A x \in Threads : x = t \/ x = u
      /\ th \in [Threads -> Thread] /\ th[t] \in Thread /\ th[u] \in Thread /\ mem \in Seq(Held)
  BY TwoThreads DEF SInv, Types, TypeOK
<1>3. Responsible(th[t]) /\ Responsible(th[u]) /\ th[u].idx \in Nat /\ th[u].rest \in Seq(Held)
  BY <1>2 DEF SInv, Orders, Thread
<1>4. th[t].ord \in DOMAIN book /\ m \in Held /\ m.id = th[t].ord /\ ~m.restored
  <2>1. th[t].ord \in DOMAIN book
    BY <1>1, <1>3 DEF Responsible, Placed
  <2>2. th[t].ord \in Nat \ {0}
    BY <2>1 DEF SInv, Types, TypeOK
  <2> QED
    BY <2>1, <2>2 DEF Held
<1>5. PICK p \in {"dispose", "watch", "end", "done", "sleep"} :
         /\ R = At(p)
         /\ t = "stop" => p = "dispose"
         /\ t = "main" => p \in {"watch", "end"}
  BY ResumedFacts
<1>6. p \in Steps /\ p \notin Placed \cup {"fetch", "submit"}
  BY <1>5 DEF Steps, Placed
<1>7. R \in Thread /\ Quiet(R) /\ R.pc = p /\ R.why = "none"
  BY <1>5, <1>6, AtFacts, QuietAt DEF SInv
<1> HIDE DEF m, R
<1>8. \A r \in Seq(Held) : /\ Append(r, m) \in Seq(Held) /\ Append(r, m) # <<>>
                           /\ Known(r) => Known(Append(r, m))
  <2> SUFFICES ASSUME NEW r \in Seq(Held)
               PROVE  /\ Append(r, m) \in Seq(Held) /\ Append(r, m) # <<>>
                      /\ Known(r) => Known(Append(r, m))
    OBVIOUS
  <2>1. /\ Append(r, m) \in Seq(Held) /\ Append(r, m) # <<>>
        /\ DOMAIN Append(r, m) = DOMAIN r \cup {Len(r) + 1}
        /\ \A i \in DOMAIN r : Append(r, m)[i] = r[i]
        /\ Append(r, m)[Len(r) + 1] = m
    BY <1>4, AppendFacts
  <2>2. Known(r) => Known(Append(r, m))
    BY <1>4, <2>1 DEF Known
  <2> QED
    BY <2>1, <2>2
<1>9. /\ g \in Thread /\ g.pc = th[u].pc /\ g.why = th[u].why /\ g.ord = th[u].ord
      /\ g.idx = th[u].idx /\ g.net = th[u].net
      /\ Known(g.rest) /\ (th[u].pc = "fetch" => g.rest # <<>>)
  <2>1. \A x \in Thread : \A r \in Seq(Held) :
           /\ [x EXCEPT !.rest = r] \in Thread
           /\ [x EXCEPT !.rest = r].pc = x.pc /\ [x EXCEPT !.rest = r].why = x.why
           /\ [x EXCEPT !.rest = r].ord = x.ord /\ [x EXCEPT !.rest = r].idx = x.idx
           /\ [x EXCEPT !.rest = r].net = x.net /\ [x EXCEPT !.rest = r].rest = r
    BY DEF Thread
  <2>2. Known(th[u].rest) /\ (th[u].pc = "fetch" => th[u].rest # <<>>)
    BY <1>3 DEF Responsible
  <2>3. q \in Seq(Held) /\ Known(q) /\ (th[u].pc = "fetch" => q # <<>>)
    BY <1>3, <1>8, <2>2
  <2> HIDE DEF q, u
  <2> QED
    BY <1>2, <2>1, <2>2, <2>3
<1>10. /\ th' \in [Threads -> Thread] /\ th'[t] = R /\ th'[u] = g
  <2>1. th' = [th EXCEPT ![t] = R, ![u] = g]
    BY <1>1, <1>2
  <2> HIDE DEF g, u
  <2> QED
    BY <1>2, <1>7, <1>9, <2>1
<1> HIDE DEF g, u
<1>11. mem' \in Seq(Held) /\ mem' # <<>> /\ Known(mem')
  BY <1>1, <1>2, <1>8 DEF SInv, Orders
<1>12. \A o : IsSaved(o)' <=> IsSaved(o)
  BY <1>1, SavedFrame DEF sqlite
<1>13. BookGrows /\ DOMAIN book' = DOMAIN book
  BY <1>1, BookSame
<1>14. Types'
  BY <1>1, <1>10, <1>11 DEF SInv, Types, TypeOK, sqlite
<1>15. Orders'
  <2>1. Responsible(th[t])'
    <3>1. Known(th[t].rest)'
      BY <1>7, <1>10, <1>12, <1>13 DEF Quiet, Known
    <3> QED
      BY <1>1, <1>7, <1>10, <3>1 DEF Responsible, Quiet, Placed, Pending, sqlite
  <2>2. Responsible(th[u])'
    <3>1. Known(th[u].rest)'
      BY <1>9, <1>10, <1>12, <1>13 DEF Known
    <3>2. th[u].pc \in Pending => ~IsSaved(th[u].ord)'
      BY <1>3, <1>9, <1>10, <1>12 DEF Responsible
    <3> QED
      BY <1>1, <1>3, <1>9, <1>10, <3>1, <3>2 DEF Responsible, sqlite
  <2>3. \A x \in Threads : SameWork(x) \/ Responsible(th[x])'
    BY <1>2, <2>1, <2>2
  <2>4. \A x \in Threads : InFlight(x) \subseteq InFlight(x)' \/ Released(x)
    BY <1>1, <1>2, <1>9, <1>10 DEF InFlight, Released
  <2>5. Apart'
    BY <1>2, <1>6, <1>7, <1>10 DEF Apart, Threads, Pending, Placed
  <2>6. Known(mem)'
    BY <1>11, <1>12, <1>13 DEF Known
  <2>7. SavedIsFinal'
    BY <1>1, <1>13, FinalStays DEF SInv, Orders, sqlite
  <2>8. Len(sessions') \in Nat /\ Len(sessions) <= Len(sessions') /\ lost' = lost
    BY <1>1 DEF SInv, Types, TypeOK, sqlite
  <2> QED
    BY <1>12, <1>13, <2>3, <2>4, <2>5, <2>6, <2>7, <2>8, OrdersStep DEF SInv
<1>16. Control'
  <2>1. {"main", "stop"} \subseteq Threads /\ t \in {"main", "stop"} /\ u \in {"main", "stop"}
    BY <1>2 DEF Threads
  <2>2. p \notin Closer \cup {"begin", "resume", "idle"}
    BY <1>5 DEF Closer
  <2> QED
    BY <1>1, <1>2, <1>7, <1>9, <1>10, <1>11, <2>1, <2>2 DEF SInv, Control, AtClose, ActiveSessions, RowsOf, sqlite
<1>17. OneActiveSession'
  BY <1>1 DEF SInv, OneActiveSession, sqlite
<1> QED
  BY <1>14, <1>15, <1>16, <1>17 DEF SInv

-----------------------------------------------------------------------------
(* The specification.                                                      *)

LEMMA StoreInit ==
  ASSUME Init
  PROVE  SInv
<1>1. "idle" \in Steps
  BY DEF Steps
<1>2. At("idle") = Idle
  BY DEF At, Idle
<1>3. Idle \in Thread /\ Idle.pc = "idle" /\ Idle.why = "none" /\ Idle.idx = 0 /\ Idle.rest = <<>>
  BY <1>1, <1>2, AtFacts
<1>4. \A t \in Threads : th[t] = Idle
  BY DEF Init
<1>5. {"main", "stop"} \subseteq Threads
  BY DEF Threads
<1>6. Types
  <2>1. \A S : <<>> \in Seq(S)
    OBVIOUS
  <2>2. Len(<<>>) = 0
    OBVIOUS
  <2>3. th \in [Threads -> Thread]
    BY <1>3 DEF Init
  <2>4. starts \in 0..MaxStarts /\ faults \in 0..MaxFaults
    BY Bounds DEF Init
  <2>5. Len(book) <= MaxOrders
    BY <2>2, Bounds DEF Init
  <2>6. sess <= Len(sessions)
    BY <2>2 DEF Init
  <2> QED
    BY <2>1, <2>3, <2>4, <2>5, <2>6 DEF Init, Types, TypeOK
<1>7. Orders
  <2>1. DOMAIN <<>> = {}
    OBVIOUS
  <2>2. \A t \in Threads : Responsible(th[t])
    BY <1>3, <1>4, <2>1 DEF Responsible, Known, Placed, Pending, Init
  <2> QED
    BY <1>3, <1>4, <1>5, <2>1, <2>2 DEF Init, Orders, Known, Apart, Accounted, SavedIsFinal, Pending
<1>8. Control
  BY <1>3, <1>4, <1>5 DEF Init, Control, Closer, AtClose
<1>9. OneActiveSession
  BY DEF Init, OneActiveSession
<1> QED
  BY <1>6, <1>7, <1>8, <1>9 DEF SInv

LEMMA StoreStep ==
  ASSUME SInv, [Next]_vars
  PROVE  SInv'
<1>1. CASE UNCHANGED vars
  <2>1. /\ UNCHANGED <<book, sessions, rows, alive, stopping, mem, sess, th, starts, faults, lost, overlap>>
        /\ UNCHANGED sqlite
    BY <1>1 DEF vars, sqlite
  <2>2. /\ book' \in Seq(Order) /\ Len(book') = Len(book) /\ DOMAIN book' = DOMAIN book /\ BookGrows
    BY <2>1, BookSame DEF SInv, Types, TypeOK
  <2> QED
    BY <2>1, <2>2, ExchangeStep
<1>2. CASE Start \/ Kill \/ StopWorker \/ Dispose
  BY <1>2, StartStep, KillStep, StopWorkerStep, DisposeStep
<1>3. CASE SessionReadFails \/ EntryReadFails \/ WatchReadFails \/ TrackerReadFails
  BY <1>3, ReadFailsStep, WatchStep
<1>4. CASE MainStep
  BY <1>4, InitTradeSessionStep, StartSessionStep, CheckingExistingOrdersStep, PlaceStep,
     CalculateProfitSessionStep, EndTradeSessionStep, ClearingOrderListStep, WatchStep DEF MainStep
<1>5. CASE \E t \in Threads : OrderStep(t) \/ ExecutionFails(t) \/ CancelAllFails(t)
  <2>1. PICK t \in Threads : OrderStep(t) \/ ExecutionFails(t) \/ CancelAllFails(t)
    BY <1>5
  <2> QED
    BY <2>1, PollStep, PollTimesOutStep, SaveActivatedOrderStep, PushOrderStep, CancelAllOrdersStep,
       FetchStatusStep, ExposureStep, PlaceStep, ExecutionFailsStep, CancelAllFailsStep DEF OrderStep
<1>6. CASE \E o \in DOMAIN book : Drop(o) \/ \E q \in 1..book[o].amount : Fill(o, q)
  BY <1>6, DropStep, FillStep
<1> QED
  BY <1>1, <1>2, <1>3, <1>4, <1>5, <1>6 DEF Next

\* The inductive invariant.
LEMMA StoreSafe == Spec => []SInv
<1>1. Init => SInv
  BY StoreInit
<1>2. SInv /\ [Next]_vars => SInv'
  BY StoreStep
<1> QED
  BY <1>1, <1>2, PTL DEF Spec

\* The process, its list and its tables keep their types; in particular no order of
\* amount zero reaches the exchange (calculateClosingOrderExposure returns before).
THEOREM SessionTypes == Spec => []TypeOK
<1>1. SInv => TypeOK
  BY DEF SInv, Types
<1> QED
  BY <1>1, StoreSafe, PTL

\* initTradeSession never meets a second active session, whatever was interrupted.
THEOREM SessionIsAlone == Spec => []OneActiveSession
<1>1. SInv => OneActiveSession
  BY DEF SInv
<1> QED
  BY <1>1, StoreSafe, PTL

\* _saveActivatedOrder writes an order once, and only when the exchange can no longer
\* change it: both threads, every poll, time-out and crash considered.
THEOREM LedgerIsFinal == Spec => []SavedIsFinal
<1>1. SInv => SavedIsFinal
  BY DEF SInv, Orders
<1> QED
  BY <1>1, StoreSafe, PTL

\* An order that executed is in SQLite, about to be, or hidden by an event the model
\* names: _waitForExecution never drops one silently.
THEOREM NothingDropped == Spec => []OnlyFaultsHideOrders
<1>1. SInv => OnlyFaultsHideOrders
  BY DEF SInv, Orders, Accounted, OnlyFaultsHideOrders
<1> QED
  BY <1>1, StoreSafe, PTL
=============================================================================
