-------------------------- MODULE BillingLifecycle --------------------------
(***************************************************************************)
(* The subscription of one organization: checkout, cancel and resume       *)
(* (billing/router.ts), the webhook, the renewal worker with its leases    *)
(* and retries (renewals.ts), the effects of payments and refunds          *)
(* (lifecycle.ts), the administrator's refund, and the plan the            *)
(* entitlement checks see.  Organizations share no row, so one is enough.  *)
(*                                                                         *)
(* The payment provider is external: it creates one object per idempotency *)
(* key, settles it some time later, and calls the webhook as often and as  *)
(* late as it likes.  Time is a counter of units; 0 stands for SQL NULL.   *)
(***************************************************************************)
EXTENDS Integers, Sequences, FiniteSets, TLC

CONSTANTS
    Month,        \* length of a paid period
    Grace,        \* gracePeriodDays
    Retries,      \* retryScheduleHours
    Lease,        \* what claimRenewal and a failed renewal postpone the next attempt by
    Workers,      \* renewal worker replicas
    RefundKeys,   \* idempotency keys administrators use
    SavePaymentMethod,  \* savePaymentMethod: a paid checkout leaves a method to charge
    MaxTime, MaxPayments, MaxCheckouts, MaxFaults  \* bounds

ASSUME TimesAssumption == {Month, Grace, Lease, MaxTime, MaxPayments, MaxCheckouts, MaxFaults} \subseteq Nat \ {0}
ASSUME SaveAssumption == SavePaymentMethod \in BOOLEAN
ASSUME RetriesAssumption == Retries \in Seq(1..Grace)

VARIABLES
    now,
    sub,       \* the subscriptions row
    prov,      \* provider: payments, by id
    pref,      \* provider: refund by idempotency key
    rows,      \* billing_payments, by provider id
    refunds,   \* billing_refunds, by idempotency key
    events,    \* billing_events
    lock,      \* the worker whose session holds the advisory lock, if any
    task,      \* what each worker is doing
    faults,
    months,    \* history: how often a period was added
    reversals, \* history: how often a refund took effect
    untimely   \* history: renewals failed whose period had been "replaced" or was "running"

vars == <<now, sub, prov, pref, rows, refunds, events, lock, task, faults, months, reversals, untimely>>
provider == <<prov, pref>>

Settled == {"succeeded", "canceled"}
Billable == {"ACTIVE", "PAST_DUE"}

Subscription == [plan : {"FREE", "PRO"}, status : {"INACTIVE", "ACTIVE", "PAST_DUE", "CANCELLED"},
                 end : Nat, grace : Nat, method : BOOLEAN, auto : BOOLEAN, next : Nat,
                 last : Nat, retry : Nat]
\* key: for a renewal the period and the attempt it is hashed from.
Payment == [kind : {"INITIAL", "RENEWAL"}, period : Nat, attempt : Nat \ {0},
            status : {"pending"} \cup Settled, revoked : BOOLEAN]
PaymentRow == [status : {"pending"} \cup Settled, applied : BOOLEAN, failed : BOOLEAN]
RefundRow == [pay : Nat, status : {"none", "requested", "pending"} \cup Settled, applied : BOOLEAN]
Task == [pc : {"out", "loop", "call", "apply"}, pay : Nat, period : Nat,
         attempt : Nat, seen : {"none", "pending"} \cup Settled]

Out == [pc |-> "out", pay |-> 0, period |-> 0, attempt |-> 0, seen |-> "none"]
Loop == [Out EXCEPT !.pc = "loop"]
NewRow == [status |-> "pending", applied |-> FALSE, failed |-> FALSE]
NoRefund == [pay |-> 0, status |-> "none", applied |-> FALSE]

\* The plan every quota check uses.
activePlan ==
    IF sub.status \in Billable /\ (sub.end > now \/ sub.grace > now)
    THEN sub.plan ELSE "FREE"

-----------------------------------------------------------------------------
(* applyPaymentLifecycle                                                   *)

LaterOf(a, b) == IF a > b THEN a ELSE b

ExtendedMutant(s, p) ==
    [s EXCEPT !.plan = "PRO", !.end = LaterOf(s.end, now) + Month, !.last = p]
\* A payment adds a month to what is left of the period, whatever came before it.
Extended(s, p) ==
    LET end   == LaterOf(s.end, now) + Month
        saved == SavePaymentMethod \/ prov[p].kind = "RENEWAL"
    IN [s EXCEPT !.plan = "PRO", !.status = "ACTIVE", !.end = end,
                 !.method = s.method \/ saved, !.auto = s.auto \/ saved,
                 !.next = IF s.method \/ saved THEN end ELSE 0,
                 !.last = p, !.grace = 0, !.retry = 0]

\* A failed renewal: another attempt inside the grace period, or the end of PRO.
GraceEnd(s) == IF s.grace # 0 THEN s.grace ELSE IF s.end # 0 THEN s.end + Grace ELSE now + Grace
retryDelay(attempt, revoked) ==
    IF revoked \/ attempt > Len(Retries) THEN 0 ELSE Retries[attempt]
Dunned(s, attempt, revoked) ==
    LET delay == retryDelay(attempt, revoked)
        over  == \/ delay = 0
                 \/ now + delay >= IF s.grace = 0 /\ s.end = 0 THEN now ELSE GraceEnd(s)
    IN [s EXCEPT !.status = IF over THEN "CANCELLED" ELSE "PAST_DUE",
                 !.plan = IF over THEN "FREE" ELSE @,
                 !.grace = GraceEnd(s),
                 !.retry = LaterOf(@, attempt),
                 !.next = IF over THEN 0 ELSE now + delay,
                 !.auto = ~over /\ @,
                 !.method = ~revoked /\ @]

\* billing_payments with the row of payment p inserted or overwritten.
RowsWith(p, row) == [q \in DOMAIN rows \cup {p} |-> IF q = p THEN row ELSE rows[q]]

ApplyPaymentMutant(p, r, seen) ==
    LET credits == seen = "succeeded"
    IN /\ rows' = RowsWith(p, [r EXCEPT !.status = seen, !.applied = @ \/ credits])
       /\ sub' = IF credits THEN Extended(sub, p) ELSE sub
       /\ months' = months + (IF credits THEN 1 ELSE 0)
       /\ UNCHANGED untimely
\* The transaction's effect on the payment row r and on the subscription.
ApplyPayment(p, r, seen) ==
    LET credits == seen = "succeeded" /\ ~r.applied
        fails   == seen = "canceled" /\ prov[p].kind = "RENEWAL" /\ ~r.failed
        row     == [status |-> seen, applied |-> r.applied \/ credits, failed |-> r.failed \/ fails]
    IN /\ rows' = RowsWith(p, row)
       /\ sub' = IF credits THEN Extended(sub, p)
                 ELSE IF fails THEN Dunned(sub, prov[p].attempt, prov[p].revoked) ELSE sub
       /\ months' = months + (IF credits THEN 1 ELSE 0)
       /\ untimely' = untimely
              \cup {x \in {"replaced"} : fails /\ ~(prov[p].period = sub.end /\ sub.status \in Billable)}
              \cup {x \in {"running"} : fails /\ sub.end > now}

-----------------------------------------------------------------------------
(* The provider and the clock.                                             *)

Tick ==
    /\ now < MaxTime
    /\ now' = now + 1
    /\ UNCHANGED <<sub, provider, rows, refunds, events, lock, task, faults, months, reversals, untimely>>

\* A payment settles; a canceled renewal may say that the permission was revoked.
Settle(p, s, revoked) ==
    /\ prov[p].status = "pending"
    /\ revoked => prov[p].kind = "RENEWAL" /\ s = "canceled"
    /\ prov' = [prov EXCEPT ![p].status = s, ![p].revoked = revoked]
    /\ UNCHANGED <<now, sub, pref, rows, refunds, events, lock, task, faults, months, reversals, untimely>>

SettleRefund(k, s) ==
    /\ pref[k] = "pending"
    /\ pref' = [pref EXCEPT ![k] = s]
    /\ UNCHANGED <<now, sub, prov, rows, refunds, events, lock, task, faults, months, reversals, untimely>>

Known(kind, period, attempt) ==
    {p \in DOMAIN prov : prov[p].kind = kind /\ prov[p].period = period /\ prov[p].attempt = attempt}

NewPayment(kind, period, attempt) ==
    [kind |-> kind, period |-> period, attempt |-> attempt, status |-> "pending", revoked |-> FALSE]

-----------------------------------------------------------------------------
(* The API: checkout, cancel, resume, the webhook.                         *)

\* createInitialPayment and the row.  A request that fails in between, and its repetition
\* with the same key, leave a payment whose address nobody has: it is never paid.
Checkout ==
    /\ Len(prov) < MaxPayments
    /\ Cardinality({p \in DOMAIN prov : prov[p].kind = "INITIAL"}) < MaxCheckouts
    /\ prov' = Append(prov, NewPayment("INITIAL", 0, 1))
    /\ rows' = RowsWith(Len(prov) + 1, NewRow)
    /\ UNCHANGED <<now, sub, pref, refunds, events, lock, task, faults, months, reversals, untimely>>

Cancel ==
    /\ sub' = [sub EXCEPT !.auto = FALSE, !.next = 0]
    /\ UNCHANGED <<now, provider, rows, refunds, events, lock, task, faults, months, reversals, untimely>>

Resume ==
    /\ sub.method /\ sub.end > now
    /\ sub' = [sub EXCEPT !.auto = TRUE, !.next = sub.end]
    /\ UNCHANGED <<now, provider, rows, refunds, events, lock, task, faults, months, reversals, untimely>>

\* A notification is taken once, and only for a payment with a row; the status is the
\* one read back from the provider, which is final.
Webhook(p) ==
    /\ prov[p].status \in Settled
    /\ p \in DOMAIN rows
    /\ <<"payment", p>> \notin events
    /\ events' = events \cup {<<"payment", p>>}
    /\ ApplyPayment(p, rows[p], prov[p].status)
    /\ UNCHANGED <<now, provider, refunds, lock, task, faults, reversals>>

-----------------------------------------------------------------------------
(* Refunds.                                                                *)

ApplyRefundMutant(k, s) ==
    LET ends == s = "succeeded" /\ ~refunds[k].applied
    IN /\ refunds' = [refunds EXCEPT ![k].status = s, ![k].applied = @ \/ ends]
       /\ sub' = IF ends THEN [sub EXCEPT !.plan = "FREE", !.status = "CANCELLED", !.end = now] ELSE sub
       /\ reversals' = reversals + (IF ends THEN 1 ELSE 0)
\* applyRefundLifecycle: only the refund of the latest payment ends the subscription.
ApplyRefund(k, s) ==
    LET ends == s = "succeeded" /\ ~refunds[k].applied
    IN /\ refunds' = [refunds EXCEPT ![k].status = s, ![k].applied = @ \/ ends]
       /\ sub' = IF ends /\ sub.last = refunds[k].pay
                 THEN [sub EXCEPT !.plan = "FREE", !.status = "CANCELLED", !.end = now,
                                  !.grace = 0, !.auto = FALSE, !.next = 0]
                 ELSE sub
       /\ reversals' = reversals + (IF ends THEN 1 ELSE 0)

\* provider_refund_id is set by the first answer, whatever its status.
HasProviderId(k) == refunds[k].status \notin {"none", "requested"}

\* The payment has no refund that is reserved or paid out.
Refundable(p) ==
    \A k \in RefundKeys : refunds[k].pay = p => refunds[k].status \notin {"requested", "pending", "succeeded"}

ReserveRefund(k, p) ==
    /\ refunds[k].status = "none"
    /\ p \in DOMAIN rows /\ rows[p].status = "succeeded"
    /\ Refundable(p)
    /\ refunds' = [refunds EXCEPT ![k] = [NoRefund EXCEPT !.pay = p, !.status = "requested"]]
    /\ UNCHANGED <<now, sub, provider, rows, events, lock, task, faults, months, reversals, untimely>>

\* createRefund, by the request or its repetition with the same key.
CreateRefund(k) ==
    /\ refunds[k].status # "none" /\ pref[k] = "none"
    /\ pref' = [pref EXCEPT ![k] = "pending"]
    /\ UNCHANGED <<now, sub, prov, rows, refunds, events, lock, task, faults, months, reversals, untimely>>

\* The answer of a request is written; s may be older than the provider's state by then.
SaveRefund(k, s) ==
    /\ pref[k] # "none"
    /\ s \in {"pending", pref[k]}
    /\ ApplyRefund(k, s)
    /\ UNCHANGED <<now, provider, rows, events, lock, task, faults, months, untimely>>

WebhookRefund(k) ==
    /\ pref[k] = "succeeded"
    /\ HasProviderId(k)
    /\ <<"refund", k>> \notin events
    /\ events' = events \cup {<<"refund", k>>}
    /\ ApplyRefund(k, "succeeded")
    /\ UNCHANGED <<now, provider, rows, lock, task, faults, months, untimely>>

\* claimRefundReconciliation and reconcileRefund.  An answer "pending" changes nothing.
ReconcileRefund(w, k) ==
    /\ task[w].pc = "loop"
    /\ refunds[k].status = "pending"
    /\ pref[k] \in Settled
    /\ ApplyRefund(k, pref[k])
    /\ UNCHANGED <<now, provider, rows, events, lock, task, faults, months, untimely>>

-----------------------------------------------------------------------------
(* The renewal worker.                                                     *)

Elect(w) ==
    /\ task[w].pc = "out"
    /\ lock = {}
    /\ lock' = {w}
    /\ task' = [task EXCEPT ![w] = Loop]
    /\ UNCHANGED <<now, sub, provider, rows, refunds, events, faults, months, reversals, untimely>>

\* The worker ends, in the middle of anything; or the session that holds the lock breaks
\* and the worker goes on.
Crash(w) ==
    /\ task[w].pc # "out"
    /\ faults < MaxFaults
    /\ faults' = faults + 1
    /\ lock' = lock \ {w}
    /\ \/ task' = [task EXCEPT ![w] = Out]
       \/ w \in lock /\ UNCHANGED task
    /\ UNCHANGED <<now, sub, provider, rows, refunds, events, months, reversals, untimely>>

ExpireGracePeriods(w) ==
    /\ task[w].pc = "loop"
    /\ sub.status = "PAST_DUE" /\ sub.grace <= now
    /\ sub' = [sub EXCEPT !.plan = "FREE", !.status = "CANCELLED", !.auto = FALSE, !.next = 0]
    /\ UNCHANGED <<now, provider, rows, refunds, events, lock, task, faults, months, reversals, untimely>>

ClaimRenewalMutant(w) ==
    /\ task[w].pc = "loop"
    /\ sub.auto /\ sub.method /\ sub.status \in Billable
    /\ sub.next # 0 /\ sub.next <= now
    /\ sub' = [sub EXCEPT !.next = now + Lease]
    /\ task' = [task EXCEPT ![w] = [Loop EXCEPT !.pc = "call", !.period = sub.end, !.attempt = sub.retry]]
    /\ UNCHANGED <<now, provider, rows, refunds, events, lock, faults, months, reversals, untimely>>
ClaimRenewal(w) ==
    /\ task[w].pc = "loop"
    /\ sub.auto /\ sub.method /\ sub.end # 0
    /\ sub.next # 0 /\ sub.next <= now
    /\ sub.status \in Billable
    /\ sub' = [sub EXCEPT !.next = now + Lease]
    /\ task' = [task EXCEPT ![w] = [Loop EXCEPT !.pc = "call", !.period = sub.end,
                                                !.attempt = sub.retry + 1]]
    /\ UNCHANGED <<now, provider, rows, refunds, events, lock, faults, months, reversals, untimely>>

CallProviderMutant(w) ==
    /\ task[w].pc = "call"
    /\ Len(prov) < MaxPayments
    /\ prov' = Append(prov, NewPayment("RENEWAL", task[w].period, task[w].attempt))
    /\ task' = [task EXCEPT ![w].pc = "apply", ![w].pay = Len(prov) + 1, ![w].seen = "pending"]
    /\ UNCHANGED <<now, sub, pref, rows, refunds, events, lock, faults, months, reversals, untimely>>
\* createRecurringPayment reaches the provider: the key decides whether it is new.
CallProvider(w) ==
    /\ task[w].pc = "call"
    /\ LET known == Known("RENEWAL", task[w].period, task[w].attempt)
       IN \/ /\ \E p \in known : task' = [task EXCEPT ![w].pc = "apply", ![w].pay = p,
                                                         ![w].seen = prov[p].status]
             /\ UNCHANGED prov
          \/ /\ known = {}
             /\ Len(prov) < MaxPayments
             /\ prov' = Append(prov, NewPayment("RENEWAL", task[w].period, task[w].attempt))
             /\ task' = [task EXCEPT ![w].pc = "apply", ![w].pay = Len(prov) + 1,
                                          ![w].seen = "pending"]
    /\ UNCHANGED <<now, sub, pref, rows, refunds, events, lock, faults, months, reversals, untimely>>

\* claimReconciliation, whose lease nobody else waits for, and getPayment.
ClaimReconciliation(w, p) ==
    /\ task[w].pc = "loop"
    /\ rows[p].status = "pending"
    /\ task' = [task EXCEPT ![w] = [Loop EXCEPT !.pc = "apply", !.pay = p, !.seen = prov[p].status]]
    /\ UNCHANGED <<now, sub, provider, rows, refunds, events, lock, faults, months, reversals, untimely>>

\* The transaction of renew() or of reconcile(): insert or overwrite, then apply.  The
\* answer tells the status at the call or a later one, and may be out of date by now.
Apply(w, s) ==
    /\ task[w].pc = "apply"
    /\ LET p == task[w].pay
       IN ApplyPayment(p, IF p \in DOMAIN rows THEN rows[p] ELSE NewRow, s)
    /\ task' = [task EXCEPT ![w] = Loop]
    /\ UNCHANGED <<now, provider, refunds, events, lock, faults, reversals>>

\* The call times out, or the transaction fails: renew() tries again an hour later.
Fails(w) ==
    /\ task[w].pc \in {"call", "apply"}
    /\ faults < MaxFaults
    /\ faults' = faults + 1
    /\ sub' = IF task[w].attempt > 0 THEN [sub EXCEPT !.next = now + Lease] ELSE sub
    /\ task' = [task EXCEPT ![w] = Loop]
    /\ UNCHANGED <<now, provider, rows, refunds, events, lock, months, reversals, untimely>>

-----------------------------------------------------------------------------
\* The organization is new, or the period it paid for earlier ends now.
Init ==
    /\ now = 1
    /\ \E paid \in BOOLEAN :
         sub = [plan |-> IF paid THEN "PRO" ELSE "FREE", status |-> IF paid THEN "ACTIVE" ELSE "INACTIVE",
                end |-> IF paid THEN now ELSE 0, grace |-> 0, method |-> paid, auto |-> paid,
                next |-> IF paid THEN now ELSE 0, last |-> 0, retry |-> 0]
    /\ prov = <<>>
    /\ pref = [k \in RefundKeys |-> "none"]
    /\ rows = [p \in {} |-> 0]
    /\ refunds = [k \in RefundKeys |-> NoRefund]
    /\ events = {}
    /\ lock = {}
    /\ task = [w \in Workers |-> Out]
    /\ faults = 0
    /\ months = 0
    /\ reversals = 0
    /\ untimely = {}

WorkerStep(w) ==
    \/ Elect(w) \/ ExpireGracePeriods(w) \/ ClaimRenewal(w) \/ CallProvider(w)
    \/ Apply(w, task[w].seen) \/ (task[w].pc = "apply" /\ Apply(w, prov[task[w].pay].status))
    \/ \E p \in DOMAIN rows : ClaimReconciliation(w, p)
    \/ \E k \in RefundKeys : ReconcileRefund(w, k)

Next ==
    \/ Tick \/ Checkout \/ Cancel \/ Resume
    \/ \E p \in DOMAIN prov : Webhook(p) \/ \E s \in Settled, f \in BOOLEAN : Settle(p, s, f)
    \/ \E k \in RefundKeys : \/ CreateRefund(k) \/ WebhookRefund(k) \/ SaveRefund(k, "pending") \/ SaveRefund(k, pref[k])
                             \/ \E s \in Settled : SettleRefund(k, s)
                             \/ \E p \in DOMAIN rows : ReserveRefund(k, p)
    \/ \E w \in Workers : WorkerStep(w) \/ Crash(w) \/ Fails(w)

Spec == Init /\ [][Next]_vars

-----------------------------------------------------------------------------
\* Every variable keeps its type; at most one session holds the advisory lock.
TypeOK ==
    /\ now \in 1..MaxTime
    /\ sub \in Subscription
    /\ prov \in Seq(Payment)
    /\ pref \in [RefundKeys -> {"none", "pending"} \cup Settled]
    /\ DOMAIN rows \subseteq DOMAIN prov /\ \A p \in DOMAIN rows : rows[p] \in PaymentRow
    /\ refunds \in [RefundKeys -> RefundRow]
    /\ lock \subseteq Workers /\ Cardinality(lock) <= 1
    /\ task \in [Workers -> Task]
    /\ faults \in 0..MaxFaults /\ months \in 0..MaxPayments /\ reversals \in 0..MaxPayments /\ untimely \subseteq {"replaced", "running"}

Ledger == INSTANCE PaymentLedger WITH
    Payments <- 1..MaxPayments,
    charged <- {p \in DOMAIN prov : prov[p].status = "succeeded"},
    credited <- {p \in DOMAIN rows : rows[p].applied},
    months <- months,
    reversals <- reversals,
    refunded <- {refunds[k].pay : k \in {j \in RefundKeys : refunds[j].applied}}

\* The lifecycle implements PaymentLedger: however the webhook, the worker's answers and
\* its reconciliation are repeated and reordered, a charged payment extends the
\* subscription once (entitlement_applied_at), an uncharged one never does, and a refund
\* takes effect once (lifecycle_applied_at), only for a charged payment.
LedgerSpec == Ledger!Spec

\* A period is charged at most once, although a lease may run out while its payment is in
\* flight and a second worker may claim the subscription: the idempotency key is hashed
\* from the period and the attempt, and the attempt only moves on after a failure.  An
\* old renewal that fails after its period was replaced moves the count on wrongly, so the
\* claim ends there ("replaced").
RenewedOncePerPeriod ==
    "replaced" \notin untimely => \A p, q \in DOMAIN prov :
        /\ prov[p].kind = "RENEWAL" /\ prov[q].kind = "RENEWAL"
        /\ prov[p].status = "succeeded" /\ prov[q].status = "succeeded"
        /\ prov[p].period = prov[q].period
        => p = q

\* As long as the period that was paid for runs, and in the grace period of its dunning,
\* the quota checks see PRO: an answer about an earlier attempt, the expiry of a grace
\* period or a cancelled auto-renewal does not take it away.  The exceptions are the failure
\* of a renewal whose period was replaced, and of one charged while its period still ran:
\* renew() postpones the next attempt by an hour also when another answer has just renewed
\* the subscription, and the attempt an hour later is for the new period.
PaidIsPro ==
    untimely = {} /\ (sub.end > now \/ (sub.status = "PAST_DUE" /\ sub.grace > now)) => activePlan = "PRO"

\* Only the refund of the latest payment shortens the paid period; refunding an older one
\* preserves the newer period.
OnlyRefundShortens ==
    [][sub'.end < sub.end => \E k \in RefundKeys : /\ refunds'[k].applied /\ ~refunds[k].applied
                                                   /\ refunds[k].pay = sub.last]_vars
=============================================================================
