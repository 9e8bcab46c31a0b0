---------------------------- MODULE BillingProofs ----------------------------
(***************************************************************************)
(* Proofs about the billing lifecycle, for any number of payments, workers *)
(* and refund keys and any dunning schedule: its type invariant, that it   *)
(* implements PaymentLedger, that a period is charged at most once, that a *)
(* paid period is PRO, and that only a refund shortens a period.           *)
(***************************************************************************)
EXTENDS BillingLifecycle, FiniteSetTheorems, SequenceTheorems, TLAPS

-----------------------------------------------------------------------------
(* Types, and what the workers carry.                                      *)

\* The types without the two counters, which need the counting argument below.
Types ==
    /\ now \in 1..MaxTime
    /\ sub \in Subscription
    /\ prov \in Seq(Payment) /\ Len(prov) <= MaxPayments
    /\ pref \in [RefundKeys -> {"none", "pending"} \cup Settled]
    /\ DOMAIN rows \subseteq DOMAIN prov /\ \A p \in DOMAIN rows : rows[p] \in PaymentRow
    /\ refunds \in [RefundKeys -> RefundRow]
    /\ lock \subseteq Workers /\ \A v, w \in lock : v = w
    /\ task \in [Workers -> Task]
    /\ faults \in 0..MaxFaults
    /\ untimely \subseteq {"replaced", "running"}

\* What a worker carries from the provider to its transaction is about a payment that
\* exists, and a settled answer is the provider's last word.
TaskOK(w) ==
    /\ task[w].pc = "call" => task[w].attempt # 0
    /\ task[w].pc = "apply" => /\ task[w].pay \in DOMAIN prov
                               /\ task[w].seen \in {"pending", prov[task[w].pay].status}

\* A row says "succeeded", and an entitlement is applied, only for a charged payment.
RowOK(p) ==
    rows[p].status = "succeeded" \/ rows[p].applied => prov[p].status = "succeeded"

PaymentsOK ==
    /\ \A w \in Workers : TaskOK(w)
    /\ \A p \in DOMAIN rows : RowOK(p)

\* The durations and the bounds are positive.
LEMMA Durations ==
    /\ Month \in Nat \ {0} /\ Grace \in Nat \ {0} /\ Lease \in Nat \ {0}
    /\ MaxTime \in Nat \ {0} /\ MaxPayments \in Nat \ {0} /\ MaxFaults \in Nat \ {0}
<1>1. \A x \in {Month, Grace, Lease, MaxTime, MaxPayments, MaxCheckouts, MaxFaults} : x \in Nat \ {0}
  BY TimesAssumption
<1>. QED
  BY <1>1

\* A payment, and a failed renewal, leave a subscription of the right shape.
LEMMA ExtendedType ==
    ASSUME sub \in Subscription, now \in Nat, NEW p \in Nat
    PROVE  Extended(sub, p) \in Subscription
<1>1. LaterOf(sub.end, now) + Month \in Nat
  BY Durations DEF LaterOf, Subscription
<1>. QED
  BY <1>1, SaveAssumption DEF Extended, Subscription

LEMMA DunnedType ==
    ASSUME sub \in Subscription, now \in Nat, NEW attempt \in Nat \ {0}, NEW revoked \in BOOLEAN
    PROVE  Dunned(sub, attempt, revoked) \in Subscription
<1>1. retryDelay(attempt, revoked) \in Nat
  BY RetriesAssumption, Durations DEF retryDelay
<1>2. GraceEnd(sub) \in Nat
  BY Durations DEF GraceEnd, Subscription
<1>3. now + retryDelay(attempt, revoked) \in Nat /\ LaterOf(sub.retry, attempt) \in Nat
  BY <1>1 DEF LaterOf, Subscription
<1>. QED
  BY <1>1, <1>2, <1>3 DEF Dunned, Subscription

\* The provider's payments only grow in number, keep their key, and a settled one is final.
ProvGrows ==
    /\ DOMAIN prov \subseteq DOMAIN prov'
    /\ \A p \in DOMAIN prov : /\ prov'[p].kind = prov[p].kind
                              /\ prov'[p].period = prov[p].period
                              /\ prov'[p].attempt = prov[p].attempt
                              /\ prov[p].status \in Settled => prov'[p].status = prov[p].status

\* What one application of a payment's status does to the rows and to the types.
LEMMA ApplyPaymentType ==
    ASSUME Types, NEW p \in DOMAIN prov, NEW r \in PaymentRow, NEW seen \in {"pending"} \cup Settled,
           ApplyPayment(p, r, seen), UNCHANGED prov
    PROVE  /\ sub' \in Subscription
           /\ DOMAIN rows' = DOMAIN rows \cup {p}
           /\ \A q \in DOMAIN rows' : rows'[q] \in PaymentRow
           /\ untimely' \subseteq {"replaced", "running"}
<1>1. now \in Nat /\ p \in Nat /\ prov[p] \in Payment
  BY Durations DEF Types
<1>2. sub' \in Subscription
  <2>1. Extended(sub, p) \in Subscription
    BY <1>1, ExtendedType DEF Types
  <2>2. Dunned(sub, prov[p].attempt, prov[p].revoked) \in Subscription
    BY <1>1, DunnedType DEF Types, Payment
  <2>. QED
    BY <2>1, <2>2 DEF ApplyPayment, Types
<1>3. \A q \in DOMAIN rows' : rows'[q] \in PaymentRow
  BY DEF ApplyPayment, RowsWith, Types, PaymentRow, Settled
<1>. QED
  BY <1>2, <1>3 DEF ApplyPayment, RowsWith, Types

\* A new payment, and one that settles, leave the provider's list well typed.
LEMMA AppendType ==
    ASSUME Types, Len(prov) < MaxPayments, NEW e \in Payment, prov' = Append(prov, e)
    PROVE  /\ prov' \in Seq(Payment) /\ Len(prov') = Len(prov) + 1 /\ Len(prov') <= MaxPayments
           /\ DOMAIN prov' = DOMAIN prov \cup {Len(prov) + 1}
           /\ prov'[Len(prov) + 1] = e
           /\ \A p \in DOMAIN prov : prov'[p] = prov[p]
           /\ ProvGrows
BY Durations DEF Types, ProvGrows

LEMMA SettleType ==
    ASSUME Types, NEW p \in DOMAIN prov, NEW s \in Settled, NEW f \in BOOLEAN, Settle(p, s, f)
    PROVE  /\ prov' \in Seq(Payment) /\ Len(prov') = Len(prov) /\ DOMAIN prov' = DOMAIN prov
           /\ ProvGrows
<1>1. prov[p] \in Payment
  BY DEF Types
<1>2. [prov[p] EXCEPT !.status = s, !.revoked = f] \in Payment
  BY <1>1 DEF Payment
<1>3. prov' = [prov EXCEPT ![p] = [prov[p] EXCEPT !.status = s, !.revoked = f]]
  BY DEF Settle, Types
<1>4. prov' \in Seq(Payment) /\ Len(prov') = Len(prov) /\ DOMAIN prov' = DOMAIN prov
  BY <1>2, <1>3, ExceptSeq DEF Types
<1>5. ProvGrows
  BY <1>1, <1>3, <1>4 DEF ProvGrows, Settle, Payment, Settled
<1>. QED
  BY <1>4, <1>5

\* The types and the workers' knowledge are inductive.
LEMMA PaymentsStep ==
    ASSUME Types, PaymentsOK, Next
    PROVE  Types' /\ PaymentsOK' /\ ProvGrows /\ DOMAIN rows \subseteq DOMAIN rows'
<1>. USE Durations DEF provider
<1>. DEFINE Goal == Types' /\ PaymentsOK' /\ ProvGrows /\ DOMAIN rows \subseteq DOMAIN rows'
<1>a. now \in Nat /\ sub \in Subscription
  BY DEF Types
<1>b. \A p \in DOMAIN prov : prov[p] \in Payment /\ p \in Nat \ {0}
  BY DEF Types
<1>c. \A p \in DOMAIN prov : prov[p].status \in {"pending"} \cup Settled
  BY <1>b DEF Payment
<1>d. \A n \in Nat : [sub EXCEPT !.next = n] \in Subscription
  BY <1>a DEF Subscription
<1>e. ASSUME UNCHANGED <<prov, rows, task>> PROVE PaymentsOK' /\ ProvGrows /\ DOMAIN rows \subseteq DOMAIN rows'
  BY <1>e DEF PaymentsOK, TaskOK, RowOK, ProvGrows
<1>1. ASSUME Tick PROVE Goal
  BY <1>1 DEF Tick, Types, PaymentsOK, TaskOK, RowOK, ProvGrows
<1>2. ASSUME Checkout PROVE Goal
  <2>1. NewPayment("INITIAL", 0, 1) \in Payment
    BY DEF NewPayment, Payment
  <2>2. /\ prov' \in Seq(Payment) /\ Len(prov') <= MaxPayments
        /\ DOMAIN prov' = DOMAIN prov \cup {Len(prov) + 1}
        /\ \A p \in DOMAIN prov : prov'[p] = prov[p]
        /\ ProvGrows
    BY <1>2, <2>1, AppendType DEF Checkout
  <2>3. /\ DOMAIN rows' = DOMAIN rows \cup {Len(prov) + 1} /\ rows'[Len(prov) + 1] = NewRow
        /\ \A p \in DOMAIN rows : rows'[p] = IF p = Len(prov) + 1 THEN NewRow ELSE rows[p]
    BY <1>2 DEF Checkout, RowsWith
  <2>4. NewRow \in PaymentRow /\ NewRow.status = "pending" /\ ~NewRow.applied
    BY DEF NewRow, PaymentRow
  <2>5. Types'
    BY <1>2, <2>2, <2>3, <2>4 DEF Checkout, Types
  <2>6. PaymentsOK'
    BY <1>2, <2>2, <2>3, <2>4 DEF Checkout, Types, PaymentsOK, TaskOK, RowOK
  <2>. QED
    BY <2>2, <2>3, <2>5, <2>6
<1>3. ASSUME Cancel \/ Resume PROVE Goal
  <2>1. sub' \in Subscription
    <3>1. sub.end \in Nat
      BY <1>a DEF Subscription
    <3>2. [sub EXCEPT !.auto = FALSE] \in Subscription /\ [sub EXCEPT !.auto = TRUE] \in Subscription
      BY <1>a DEF Subscription
    <3>3. \A s \in Subscription, n \in Nat : [s EXCEPT !.next = n] \in Subscription
      BY DEF Subscription
    <3>. QED
      BY <1>3, <3>1, <3>2, <3>3 DEF Cancel, Resume
  <2>2. Types'
    BY <1>3, <2>1 DEF Cancel, Resume, Types
  <2>. QED
    BY <1>3, <1>e, <2>2 DEF Cancel, Resume
<1>4. ASSUME NEW p \in DOMAIN prov, Webhook(p)
      PROVE  Goal
  <2>1. /\ rows[p] \in PaymentRow /\ prov[p].status \in {"pending"} \cup Settled
        /\ ApplyPayment(p, rows[p], prov[p].status) /\ UNCHANGED prov
    BY <1>4 DEF Webhook, Types
  <2>2. /\ sub' \in Subscription /\ untimely' \subseteq {"replaced", "running"}
        /\ DOMAIN rows' = DOMAIN rows \cup {p} /\ \A q \in DOMAIN rows' : rows'[q] \in PaymentRow
    BY <2>1, ApplyPaymentType
  <2>3. Types'
    BY <1>4, <2>2 DEF Webhook, Types
  <2>4. PaymentsOK'
    <3>1. \A q \in DOMAIN rows' : q # p => q \in DOMAIN rows /\ rows'[q] = rows[q]
      BY <2>1 DEF ApplyPayment, RowsWith
    <3>2. rows'[p].status = prov[p].status
          /\ (rows'[p].applied => rows[p].applied \/ prov[p].status = "succeeded")
      BY <2>1 DEF ApplyPayment, RowsWith
    <3>3. \A q \in DOMAIN rows' : RowOK(q)'
      BY <1>4, <2>1, <3>1, <3>2 DEF Webhook, PaymentsOK, RowOK
    <3>. QED
      BY <1>4, <3>3 DEF Webhook, PaymentsOK, TaskOK
  <2>. QED
    BY <2>1, <2>2, <2>3, <2>4 DEF ProvGrows
<1>5. ASSUME NEW p \in DOMAIN prov, NEW s \in Settled, NEW f \in BOOLEAN, Settle(p, s, f)
      PROVE  Goal
  <2>1. /\ prov' \in Seq(Payment) /\ Len(prov') = Len(prov) /\ DOMAIN prov' = DOMAIN prov
        /\ ProvGrows
    BY <1>5, SettleType
  <2>2. Types'
    BY <1>5, <2>1 DEF Settle, Types
  <2>4. PaymentsOK'
    BY <1>5, <1>c, <2>1 DEF Settle, Types, PaymentsOK, TaskOK, RowOK, ProvGrows, Task, Settled
  <2>. QED
    BY <1>5, <2>1, <2>2, <2>4 DEF Settle
<1>6. ASSUME NEW k \in RefundKeys, CreateRefund(k) \/ \E s \in Settled : SettleRefund(k, s)
      PROVE  Goal
  <2>1. pref' \in [RefundKeys -> {"none", "pending"} \cup Settled]
    BY <1>6 DEF CreateRefund, SettleRefund, Types
  <2>2. Types'
    BY <1>6, <2>1 DEF CreateRefund, SettleRefund, Types
  <2>. QED
    BY <1>6, <1>e, <2>2 DEF CreateRefund, SettleRefund
<1>7. ASSUME NEW k \in RefundKeys, NEW p \in DOMAIN rows, ReserveRefund(k, p)
      PROVE  Goal
  <2>1. p \in Nat
    BY <1>b DEF Types
  <2>2. [NoRefund EXCEPT !.pay = p, !.status = "requested"] \in RefundRow
    BY <2>1 DEF NoRefund, RefundRow
  <2>3. Types'
    BY <1>7, <2>2 DEF ReserveRefund, Types
  <2>. QED
    BY <1>7, <1>e, <2>3 DEF ReserveRefund
<1>8. ASSUME NEW k \in RefundKeys, NEW s \in {"pending"} \cup Settled, ApplyRefund(k, s),
             UNCHANGED <<now, provider, rows, lock, task, faults, untimely>>
      PROVE  Goal
  <2>1. sub' \in Subscription
    BY <1>8, <1>a DEF ApplyRefund, Subscription
  <2>2. refunds' \in [RefundKeys -> RefundRow]
    BY <1>8, ZenonT(30) DEF ApplyRefund, Types, RefundRow
  <2>. QED
    BY <1>8, <1>e, <2>1, <2>2 DEF Types
<1>9. ASSUME NEW w \in Workers, Elect(w) \/ ExpireGracePeriods(w) \/ Crash(w)
      PROVE  Goal
  <2>1. Loop \in Task /\ Loop.pc = "loop" /\ Out \in Task /\ Out.pc = "out"
    BY DEF Loop, Out, Task
  <2>2. CASE Elect(w)
    BY <2>1, <2>2 DEF Elect, Types, PaymentsOK, TaskOK, RowOK, ProvGrows
  <2>3. CASE ExpireGracePeriods(w)
    BY <2>1, <2>3 DEF ExpireGracePeriods, Types, Subscription, PaymentsOK, TaskOK, RowOK, ProvGrows
  <2>4. CASE Crash(w)
    BY <2>1, <2>4 DEF Crash, Types, PaymentsOK, TaskOK, RowOK, ProvGrows
  <2>. QED
    BY <1>9, <2>2, <2>3, <2>4
<1>10. ASSUME NEW w \in Workers, ClaimRenewal(w)
      PROVE  Goal
  <2>1. sub.end \in Nat /\ sub.retry \in Nat /\ now \in Nat
    BY DEF Types, Subscription
  <2>2. PICK t \in Task : t.pc = "call" /\ t.attempt = sub.retry + 1 /\ task' = [task EXCEPT ![w] = t]
    <3>. DEFINE t == [Loop EXCEPT !.pc = "call", !.period = sub.end, !.attempt = sub.retry + 1]
    <3>1. Loop \in Task
      BY DEF Loop, Out, Task
    <3>2. t \in Task
      <4>1. \A l \in Task, e \in Nat, a \in Nat :
               [l EXCEPT !.pc = "call", !.period = e, !.attempt = a] \in Task
        BY DEF Task
      <4>2. sub.retry + 1 \in Nat
        BY <2>1
      <4>. QED
        BY <2>1, <3>1, <4>1, <4>2
    <3>3. t.pc = "call" /\ t.attempt = sub.retry + 1
      BY DEF Loop, Out
    <3>. QED
      BY <1>10, <3>2, <3>3 DEF ClaimRenewal
  <2>3. sub' \in Subscription
    BY <1>10, <1>d, <2>1 DEF ClaimRenewal
  <2>. QED
    BY <1>10, <2>1, <2>2, <2>3 DEF ClaimRenewal, Types, PaymentsOK, TaskOK, RowOK, ProvGrows
<1>11. ASSUME NEW w \in Workers, CallProvider(w)
      PROVE  Goal
  <2>1. task[w] \in Task /\ task[w].attempt \in Nat \ {0}
    BY <1>11 DEF CallProvider, Types, PaymentsOK, TaskOK, Task
  <2>2. CASE prov' = prov
    <3>1. PICK p \in DOMAIN prov : task' = [task EXCEPT ![w].pc = "apply", ![w].pay = p, ![w].seen = prov[p].status]
      <4>1. Len(prov) + 1 # Len(prov) /\ \A e : Len(Append(prov, e)) = Len(prov) + 1
        BY DEF Types
      <4>. QED
        BY <1>11, <2>2, <4>1 DEF CallProvider, Known
    <3>2. prov[p] \in Payment /\ p \in Nat
      BY DEF Types
    <3>3. Types'
      BY <1>11, <2>1, <2>2, <3>1, <3>2 DEF CallProvider, Types, Task, Payment
    <3>4. PaymentsOK'
      <4>1. /\ task'[w].pc = "apply" /\ task'[w].pay = p /\ task'[w].seen = prov[p].status
            /\ \A v \in Workers : v # w => task'[v] = task[v]
        BY <2>1, <3>1 DEF Types, Task
      <4>. QED
        BY <1>11, <2>2, <4>1 DEF CallProvider, PaymentsOK, TaskOK, RowOK
    <3>. QED
      BY <1>11, <2>2, <3>3, <3>4 DEF CallProvider, ProvGrows
  <2>3. CASE /\ Len(prov) < MaxPayments
             /\ prov' = Append(prov, NewPayment("RENEWAL", task[w].period, task[w].attempt))
             /\ task' = [task EXCEPT ![w].pc = "apply", ![w].pay = Len(prov) + 1, ![w].seen = "pending"]
    <3>1. NewPayment("RENEWAL", task[w].period, task[w].attempt) \in Payment
      BY <2>1 DEF NewPayment, Payment, Task
    <3>2. /\ prov' \in Seq(Payment) /\ Len(prov') <= MaxPayments
          /\ DOMAIN prov' = DOMAIN prov \cup {Len(prov) + 1}
          /\ \A p \in DOMAIN prov : prov'[p] = prov[p]
          /\ ProvGrows
      BY <2>3, <3>1, AppendType
    <3>3. Types'
      <4>1. task' \in [Workers -> Task]
        <5>1. Len(prov) + 1 \in Nat
          BY DEF Types
        <5>2. [task[w] EXCEPT !.pc = "apply", !.pay = Len(prov) + 1, !.seen = "pending"] \in Task
          BY <2>1, <5>1 DEF Task
        <5>. QED
          BY <2>3, <5>2 DEF Types
      <4>. QED
        BY <1>11, <3>2, <4>1 DEF CallProvider, Types
    <3>4. PaymentsOK'
      <4>1. /\ task'[w].pc = "apply" /\ task'[w].pay = Len(prov) + 1 /\ task'[w].seen = "pending"
            /\ \A v \in Workers : v # w => task'[v] = task[v]
        <5>1. task' = [task EXCEPT ![w] = [task[w] EXCEPT !.pc = "apply", !.pay = Len(prov) + 1, !.seen = "pending"]]
          BY <2>3 DEF Types
        <5>. QED
          BY <2>1, <5>1 DEF Types, Task
      <4>2. \A v \in Workers : TaskOK(v)'
        BY <3>2, <4>1 DEF PaymentsOK, TaskOK
      <4>3. \A p \in DOMAIN rows' : RowOK(p)'
        BY <1>11, <3>2 DEF CallProvider, PaymentsOK, RowOK, Types
      <4>. QED
        BY <4>2, <4>3 DEF PaymentsOK
    <3>. QED
      BY <1>11, <3>2, <3>3, <3>4 DEF CallProvider
  <2>. QED
    BY <1>11, <2>2, <2>3 DEF CallProvider
<1>12. ASSUME NEW w \in Workers, NEW p \in DOMAIN rows, ClaimReconciliation(w, p)
      PROVE  Goal
  <2>1. p \in DOMAIN prov /\ p \in Nat /\ prov[p] \in Payment
    BY DEF Types
  <2>2. PICK t \in Task : t.pc = "apply" /\ t.pay = p /\ t.seen = prov[p].status /\ task' = [task EXCEPT ![w] = t]
    BY <1>12, <2>1 DEF ClaimReconciliation, Loop, Out, Task, Payment
  <2>. QED
    BY <1>12, <2>1, <2>2 DEF ClaimReconciliation, Types, PaymentsOK, TaskOK, RowOK, ProvGrows
<1>13. ASSUME NEW w \in Workers, NEW s \in {task[w].seen, prov[task[w].pay].status}, Apply(w, s)
      PROVE  Goal
  <2>. DEFINE p == task[w].pay
              r == IF p \in DOMAIN rows THEN rows[p] ELSE NewRow
  <2>1. p \in DOMAIN prov /\ prov[p] \in Payment /\ s \in {"pending", prov[p].status}
    BY <1>13 DEF Apply, PaymentsOK, TaskOK, Types
  <2>2. s \in {"pending"} \cup Settled /\ r \in PaymentRow
    BY <2>1 DEF Payment, Types, NewRow, PaymentRow
  <2>3. ApplyPayment(p, r, s) /\ UNCHANGED prov
    BY <1>13 DEF Apply
  <2>. HIDE DEF p, r
  <2>4. /\ sub' \in Subscription /\ untimely' \subseteq {"replaced", "running"}
        /\ DOMAIN rows' = DOMAIN rows \cup {p} /\ \A q \in DOMAIN rows' : rows'[q] \in PaymentRow
    BY <2>1, <2>2, <2>3, ApplyPaymentType
  <2>5. Loop \in Task /\ Loop.pc = "loop"
    BY DEF Loop, Out, Task
  <2>6. Types'
    BY <1>13, <2>1, <2>4, <2>5 DEF Apply, Types
  <2>7. \A v \in Workers : TaskOK(v)'
    BY <1>13, <2>5 DEF Apply, PaymentsOK, TaskOK, Types
  <2>8. r.applied => prov[p].status = "succeeded"
    BY DEF r, p, NewRow, PaymentsOK, RowOK
  <2>9. rows'[p].status = s /\ (rows'[p].applied => r.applied \/ s = "succeeded")
    BY <2>3 DEF ApplyPayment, RowsWith
  <2>10. \A q \in DOMAIN rows' : q # p => q \in DOMAIN rows /\ rows'[q] = rows[q]
    BY <2>3 DEF ApplyPayment, RowsWith
  <2>11. \A q \in DOMAIN rows' : RowOK(q)'
    BY <2>1, <2>3, <2>8, <2>9, <2>10 DEF PaymentsOK, RowOK
  <2>. QED
    BY <2>3, <2>4, <2>6, <2>7, <2>11 DEF PaymentsOK, ProvGrows
<1>14. ASSUME NEW w \in Workers, Fails(w)
      PROVE  Goal
  <2>1. Loop \in Task /\ Loop.pc = "loop"
    BY DEF Loop, Out, Task
  <2>2. sub' \in Subscription
    BY <1>14, <1>a, <1>d DEF Fails
  <2>. QED
    BY <1>14, <2>1, <2>2 DEF Fails, Types, PaymentsOK, TaskOK, RowOK, ProvGrows
<1>15. ASSUME NEW k \in RefundKeys, NEW s, SaveRefund(k, s)
      PROVE  Goal
  BY <1>15, <1>8 DEF SaveRefund, Types
<1>16. ASSUME NEW k \in RefundKeys, WebhookRefund(k)
      PROVE  Goal
  BY <1>16, <1>8 DEF WebhookRefund, Settled
<1>17. ASSUME NEW w \in Workers, NEW k \in RefundKeys, ReconcileRefund(w, k)
      PROVE  Goal
  BY <1>17, <1>8 DEF ReconcileRefund
<1>. QED
  BY <1>1, <1>2, <1>3, <1>4, <1>5, <1>6, <1>7, <1>9, <1>10, <1>11, <1>12, <1>13, <1>14, <1>15,
     <1>16, <1>17 DEF Next, WorkerStep

-----------------------------------------------------------------------------
(* Refunds, and the refinement of PaymentLedger.                           *)

\* A refund's row and the provider's answers about it.
RefundOK(k) ==
    /\ refunds[k].status = "none" => ~refunds[k].applied /\ pref[k] = "none"
    /\ refunds[k].status # "none" => /\ refunds[k].pay \in DOMAIN rows
                                     /\ prov[refunds[k].pay].status = "succeeded"
    /\ refunds[k].applied => pref[k] = "succeeded"
    /\ refunds[k].status = "canceled" => pref[k] = "canceled"

\* Two refunds of one payment: the provider has canceled one of them.
Apart(j, k) ==
    /\ j # k
    /\ refunds[j].status # "none" /\ refunds[k].status # "none"
    /\ refunds[j].pay = refunds[k].pay
    => pref[j] = "canceled" \/ pref[k] = "canceled"

RefundsOK ==
    /\ \A k \in RefundKeys : RefundOK(k)
    /\ \A j, k \in RefundKeys : Apart(j, k)

\* The effect of an answer about refund k, old or new.
LEMMA ApplyRefundOK ==
    ASSUME Types, RefundsOK, NEW k \in RefundKeys, NEW s \in {"pending", pref[k]}, pref[k] # "none",
           ApplyRefund(k, s), UNCHANGED <<prov, pref, rows>>
    PROVE  RefundsOK'
<1>1. refunds[k].status # "none" /\ refunds[k] \in RefundRow
  BY DEF RefundsOK, RefundOK, Types
<1>2. /\ refunds'[k].pay = refunds[k].pay /\ refunds'[k].status = s
      /\ refunds'[k].applied => refunds[k].applied \/ s = "succeeded"
      /\ \A j \in RefundKeys : j # k => refunds'[j] = refunds[j]
  BY <1>1 DEF ApplyRefund, Types, RefundRow
<1>3. s # "none"
  OBVIOUS
<1>4. \A j \in RefundKeys : RefundOK(j)'
  BY <1>1, <1>2, <1>3 DEF RefundsOK, RefundOK
<1>5. \A i, j \in RefundKeys : Apart(i, j)'
  BY <1>1, <1>2, <1>3 DEF RefundsOK, Apart
<1>. QED
  BY <1>4, <1>5 DEF RefundsOK

LEMMA RefundsStep ==
    ASSUME Types, PaymentsOK, RefundsOK, Next
    PROVE  RefundsOK'
<1>. USE DEF provider
<1>a. ProvGrows /\ DOMAIN rows \subseteq DOMAIN rows' /\ DOMAIN rows \subseteq DOMAIN prov
  BY PaymentsStep DEF Types
<1>1. ASSUME UNCHANGED <<refunds, pref>> PROVE RefundsOK'
  BY <1>1, <1>a DEF RefundsOK, RefundOK, Apart, ProvGrows, Settled
<1>2. ASSUME NEW k \in RefundKeys, NEW s \in {"pending"} \cup Settled,
             refunds[k].status # "none",
             (pref[k] = "none" /\ s = "pending") \/ (pref[k] = "pending" /\ s \in Settled),
             pref' = [pref EXCEPT ![k] = s], UNCHANGED <<refunds, prov, rows>>
      PROVE  RefundsOK'
  <2>1. pref'[k] = s /\ \A j \in RefundKeys : j # k => pref'[j] = pref[j]
    BY <1>2 DEF Types
  <2>2. \A j \in RefundKeys : RefundOK(j)'
    BY <1>2, <2>1 DEF RefundsOK, RefundOK
  <2>3. \A i, j \in RefundKeys : Apart(i, j)'
    BY <1>2, <2>1 DEF RefundsOK, Apart
  <2>. QED
    BY <2>2, <2>3 DEF RefundsOK
<1>3. ASSUME NEW k \in RefundKeys, NEW p \in DOMAIN rows, ReserveRefund(k, p) PROVE RefundsOK'
  <2>1. /\ refunds'[k].pay = p /\ refunds'[k].status = "requested" /\ ~refunds'[k].applied
        /\ \A j \in RefundKeys : j # k => refunds'[j] = refunds[j]
        /\ UNCHANGED <<prov, pref, rows>>
    BY <1>3 DEF ReserveRefund, NoRefund, Types
  <2>2. prov[p].status = "succeeded" /\ pref[k] = "none"
    BY <1>3 DEF ReserveRefund, PaymentsOK, RowOK, RefundsOK, RefundOK
  <2>3. \A j \in RefundKeys : RefundOK(j)'
    BY <2>1, <2>2 DEF RefundsOK, RefundOK
  <2>4. ASSUME NEW j \in RefundKeys, j # k, refunds[j].status # "none", refunds[j].pay = p
        PROVE  pref[j] = "canceled"
    <3>1. refunds[j].status \in {"none", "requested", "pending"} \cup Settled
      BY DEF Types, RefundRow
    <3>2. refunds[j].status \notin {"requested", "pending", "succeeded"}
      BY <1>3, <2>4 DEF ReserveRefund, Refundable
    <3>. QED
      BY <2>4, <3>1, <3>2 DEF RefundsOK, RefundOK, Settled
  <2>5. \A i, j \in RefundKeys : Apart(i, j)'
    BY <2>1, <2>4 DEF RefundsOK, Apart
  <2>. QED
    BY <2>3, <2>5 DEF RefundsOK
<1>4. ASSUME NEW k \in RefundKeys, NEW s, SaveRefund(k, s) PROVE RefundsOK'
  BY <1>4, ApplyRefundOK DEF SaveRefund
<1>5. ASSUME NEW k \in RefundKeys, WebhookRefund(k) PROVE RefundsOK'
  BY <1>5, ApplyRefundOK DEF WebhookRefund
<1>6. ASSUME NEW w \in Workers, NEW k \in RefundKeys, ReconcileRefund(w, k) PROVE RefundsOK'
  BY <1>6, ApplyRefundOK DEF ReconcileRefund, Settled
<1>7. ASSUME NEW k \in RefundKeys, CreateRefund(k) PROVE RefundsOK'
  <2>1. PICK s \in {"pending"} \cup Settled : s = "pending"
    OBVIOUS
  <2>. QED
    BY <1>7, <1>2, <2>1 DEF CreateRefund
<1>8. ASSUME NEW k \in RefundKeys, NEW s \in Settled, SettleRefund(k, s) PROVE RefundsOK'
  BY <1>8, <1>2 DEF SettleRefund, RefundsOK, RefundOK
<1>9. CASE \/ Tick \/ Checkout \/ Cancel \/ Resume
           \/ \E p \in DOMAIN prov : Webhook(p) \/ \E s \in Settled, f \in BOOLEAN : Settle(p, s, f)
  BY <1>9, <1>1 DEF Tick, Checkout, Cancel, Resume, Webhook, Settle
<1>10. ASSUME NEW w \in Workers,
              \/ Elect(w) \/ ExpireGracePeriods(w) \/ ClaimRenewal(w) \/ CallProvider(w) \/ Crash(w) \/ Fails(w)
              \/ \E s : Apply(w, s)
              \/ \E p \in DOMAIN rows : ClaimReconciliation(w, p)
       PROVE RefundsOK'
  BY <1>10, <1>1 DEF Elect, ExpireGracePeriods, ClaimRenewal, CallProvider, Crash, Fails, Apply, ClaimReconciliation
<1>. QED
  BY <1>3, <1>4, <1>5, <1>6, <1>7, <1>8, <1>9, <1>10 DEF Next, WorkerStep

\* The ledger's view of the state.
Charged == {p \in DOMAIN prov : prov[p].status = "succeeded"}
Credited == {p \in DOMAIN rows : rows[p].applied}
Refunded == {refunds[k].pay : k \in {j \in RefundKeys : refunds[j].applied}}

\* An applied payment is a month for a charged payment that had none, or nothing.
LEMMA ApplyPaymentLedger ==
    ASSUME months \in Nat, NEW p \in DOMAIN prov, NEW r, NEW seen \in {"pending", prov[p].status},
           r = IF p \in DOMAIN rows THEN rows[p] ELSE NewRow,
           ApplyPayment(p, r, seen), UNCHANGED prov
    PROVE  \/ p \in Charged \ Credited /\ Credited' = Credited \cup {p} /\ months' = months + 1
           \/ UNCHANGED <<Credited, months>>
<1>1. /\ DOMAIN rows' = DOMAIN rows \cup {p}
      /\ \A q \in DOMAIN rows' : q # p => rows'[q] = rows[q]
  BY DEF ApplyPayment, RowsWith
<1>2. r.applied <=> p \in Credited
  BY DEF Credited, NewRow
<1>3. CASE seen = "succeeded" /\ ~r.applied
  <2>1. rows'[p].applied /\ months' = months + 1
    BY <1>3 DEF ApplyPayment, RowsWith
  <2>2. p \in Charged \ Credited
    BY <1>2, <1>3 DEF Charged
  <2>3. Credited' = Credited \cup {p}
    BY <1>1, <2>1 DEF Credited
  <2>. QED
    BY <2>1, <2>2, <2>3
<1>4. CASE ~(seen = "succeeded" /\ ~r.applied)
  <2>1. (rows'[p].applied <=> r.applied) /\ months' = months + 0
    BY <1>4 DEF ApplyPayment, RowsWith
  <2>2. Credited' = Credited
    BY <1>1, <1>2, <2>1 DEF Credited
  <2>. QED
    BY <2>1, <2>2
<1>. QED
  BY <1>3, <1>4

\* An answer about a refund reverses a charged payment that was not reversed, or nothing.
LEMMA ApplyRefundLedger ==
    ASSUME Types, RefundsOK, reversals \in Nat,
           NEW k \in RefundKeys, NEW s \in {"pending", pref[k]}, pref[k] # "none",
           ApplyRefund(k, s)
    PROVE  \/ \E p \in Charged \ Refunded : Refunded' = Refunded \cup {p} /\ reversals' = reversals + 1
           \/ UNCHANGED <<Refunded, reversals>>
<1>. DEFINE p == refunds[k].pay
<1>1. refunds[k] \in RefundRow /\ refunds[k].status # "none"
  BY DEF Types, RefundsOK, RefundOK
<1>2. /\ refunds'[k].pay = p
      /\ refunds'[k].applied <=> refunds[k].applied \/ s = "succeeded"
      /\ \A j \in RefundKeys : j # k => refunds'[j] = refunds[j]
  BY <1>1 DEF ApplyRefund, Types, RefundRow
<1>3. CASE s = "succeeded" /\ ~refunds[k].applied
  <2>1. reversals' = reversals + 1
    BY <1>3 DEF ApplyRefund
  <2>2. p \in Charged
    BY <1>1 DEF RefundsOK, RefundOK, Types, Charged
  <2>3. p \notin Refunded
    <3>1. ASSUME NEW j \in RefundKeys, refunds[j].applied, refunds[j].pay = p PROVE FALSE
      <4>1. j # k /\ pref[k] = "succeeded"
        BY <1>3, <3>1
      <4>2. pref[j] = "succeeded" /\ refunds[j].status # "none"
        BY <3>1 DEF RefundsOK, RefundOK
      <4>. QED
        BY <1>1, <3>1, <4>1, <4>2 DEF RefundsOK, Apart
    <3>. QED
      BY <3>1 DEF Refunded
  <2>4. Refunded' = Refunded \cup {p}
    <3>1. \A j \in RefundKeys : refunds'[j].pay = refunds[j].pay
                                /\ (refunds'[j].applied <=> refunds[j].applied \/ j = k)
      BY <1>2, <1>3
    <3>. QED
      BY <3>1 DEF Refunded
  <2>. QED
    BY <2>1, <2>2, <2>3, <2>4
<1>4. CASE ~(s = "succeeded" /\ ~refunds[k].applied)
  <2>1. reversals' = reversals + 0
    BY <1>4 DEF ApplyRefund
  <2>2. \A j \in RefundKeys : refunds'[j].pay = refunds[j].pay
                              /\ (refunds'[j].applied <=> refunds[j].applied)
    BY <1>2, <1>4
  <2>3. Refunded' = Refunded
    BY <2>2 DEF Refunded
  <2>. QED
    BY <2>1, <2>3
<1>. QED
  BY <1>3, <1>4

\* Every step of the lifecycle is a step of the ledger, or none.
LEMMA LedgerStep ==
    ASSUME Types, PaymentsOK, RefundsOK, months \in Nat, reversals \in Nat, Next
    PROVE  \/ \E p \in Charged' \ Charged :
                /\ Charged' = Charged \cup {p}
                /\ UNCHANGED <<Credited, months, Refunded, reversals>>
           \/ \E p \in Charged \ Credited :
                /\ Credited' = Credited \cup {p} /\ months' = months + 1
                /\ UNCHANGED <<Charged, Refunded, reversals>>
           \/ \E p \in Charged \ Refunded :
                /\ Refunded' = Refunded \cup {p} /\ reversals' = reversals + 1
                /\ UNCHANGED <<Charged, Credited, months>>
           \/ UNCHANGED <<Charged, Credited, months, Refunded, reversals>>
<1>. DEFINE Goal ==
        \/ \E p \in Charged' \ Charged :
             Charged' = Charged \cup {p} /\ UNCHANGED <<Credited, months, Refunded, reversals>>
        \/ \E p \in Charged \ Credited :
             /\ Credited' = Credited \cup {p} /\ months' = months + 1
             /\ UNCHANGED <<Charged, Refunded, reversals>>
        \/ \E p \in Charged \ Refunded :
             /\ Refunded' = Refunded \cup {p} /\ reversals' = reversals + 1
             /\ UNCHANGED <<Charged, Credited, months>>
        \/ UNCHANGED <<Charged, Credited, months, Refunded, reversals>>
<1>. USE DEF provider
<1>1. ASSUME UNCHANGED <<prov, rows, months, reversals>>, Refunded' = Refunded PROVE Goal
  BY <1>1 DEF Charged, Credited
<1>2. ASSUME UNCHANGED refunds PROVE Refunded' = Refunded
  BY <1>2 DEF Refunded
<1>3. ASSUME UNCHANGED prov PROVE Charged' = Charged
  BY <1>3 DEF Charged
<1>4. ASSUME UNCHANGED rows PROVE Credited' = Credited
  BY <1>4 DEF Credited
<1>5. ASSUME NEW e \in Payment, e.status = "pending", Len(prov) < MaxPayments, prov' = Append(prov, e)
      PROVE  Charged' = Charged
  <2>1. /\ DOMAIN prov' = DOMAIN prov \cup {Len(prov) + 1} /\ prov'[Len(prov) + 1] = e
        /\ \A p \in DOMAIN prov : prov'[p] = prov[p]
    BY <1>5, AppendType
  <2>. QED
    BY <1>5, <2>1 DEF Charged
<1>6. ASSUME Checkout PROVE Goal
  <2>1. NewPayment("INITIAL", 0, 1) \in Payment /\ NewPayment("INITIAL", 0, 1).status = "pending"
    BY DEF NewPayment, Payment
  <2>2. Charged' = Charged
    BY <1>5, <1>6, <2>1 DEF Checkout
  <2>3. Len(prov) + 1 \notin DOMAIN rows
    BY DEF Types
  <2>4. Credited' = Credited
    BY <1>6, <2>3 DEF Checkout, RowsWith, NewRow, Credited
  <2>. QED
    BY <1>2, <1>6, <2>2, <2>4 DEF Checkout
<1>7. ASSUME NEW p \in DOMAIN prov, Webhook(p) PROVE Goal
  <2>1. \/ p \in Charged \ Credited /\ Credited' = Credited \cup {p} /\ months' = months + 1
        \/ UNCHANGED <<Credited, months>>
    BY <1>7, ApplyPaymentLedger DEF Webhook
  <2>. QED
    BY <1>2, <1>3, <1>7, <2>1 DEF Webhook
<1>8. ASSUME NEW p \in DOMAIN prov, NEW s \in Settled, NEW f \in BOOLEAN, Settle(p, s, f) PROVE Goal
  <2>1. prov[p] \in Payment /\ p \notin Charged
    BY <1>8 DEF Settle, Types, Charged
  <2>2. DOMAIN prov' = DOMAIN prov /\ prov'[p].status = s /\ \A q \in DOMAIN prov : q # p => prov'[q] = prov[q]
    BY <1>8, <2>1 DEF Settle, Types, Payment
  <2>3. Charged' = Charged \cup {q \in {p} : s = "succeeded"}
    BY <2>1, <2>2 DEF Charged
  <2>4. UNCHANGED <<Credited, months, Refunded, reversals>>
    BY <1>2, <1>4, <1>8 DEF Settle
  <2>5. CASE s = "succeeded"
    <3>1. p \in Charged' \ Charged /\ Charged' = Charged \cup {p}
      BY <2>1, <2>3, <2>5
    <3>. QED
      BY <2>4, <3>1
  <2>6. CASE s # "succeeded"
    <3>1. Charged' = Charged
      BY <2>3, <2>6
    <3>. QED
      BY <2>4, <3>1
  <2>. QED
    BY <2>5, <2>6
<1>9. ASSUME NEW k \in RefundKeys, NEW s \in {"pending", pref[k]}, pref[k] # "none", ApplyRefund(k, s),
             UNCHANGED <<prov, rows, months>>
      PROVE  Goal
  BY <1>3, <1>4, <1>9, ApplyRefundLedger
<1>10. ASSUME NEW w \in Workers, CallProvider(w) PROVE Goal
  <2>1. Charged' = Charged
    <3>1. CASE UNCHANGED prov
      BY <3>1, <1>3
    <3>2. CASE /\ Len(prov) < MaxPayments
               /\ prov' = Append(prov, NewPayment("RENEWAL", task[w].period, task[w].attempt))
      <4>1. task[w] \in Task /\ task[w].attempt \in Nat \ {0}
        BY <1>10 DEF CallProvider, Types, PaymentsOK, TaskOK, Task
      <4>2. /\ NewPayment("RENEWAL", task[w].period, task[w].attempt) \in Payment
            /\ NewPayment("RENEWAL", task[w].period, task[w].attempt).status = "pending"
        BY <4>1 DEF NewPayment, Payment, Task
      <4>. QED
        BY <1>5, <3>2, <4>2
    <3>. QED
      BY <1>10, <3>1, <3>2 DEF CallProvider
  <2>. QED
    BY <1>2, <1>4, <1>10, <2>1 DEF CallProvider
<1>11. ASSUME NEW w \in Workers, NEW s \in {task[w].seen, prov[task[w].pay].status}, Apply(w, s) PROVE Goal
  <2>. DEFINE p == task[w].pay
              r == IF p \in DOMAIN rows THEN rows[p] ELSE NewRow
  <2>1. p \in DOMAIN prov /\ s \in {"pending", prov[p].status}
    BY <1>11 DEF Apply, PaymentsOK, TaskOK
  <2>2. ApplyPayment(p, r, s) /\ UNCHANGED <<prov, refunds, reversals>>
    BY <1>11 DEF Apply
  <2>3. \/ p \in Charged \ Credited /\ Credited' = Credited \cup {p} /\ months' = months + 1
        \/ UNCHANGED <<Credited, months>>
    BY <2>1, <2>2, ApplyPaymentLedger
  <2>. QED
    BY <1>2, <1>3, <2>2, <2>3
<1>12. CASE \/ Tick \/ Cancel \/ Resume
            \/ \E k \in RefundKeys : \/ CreateRefund(k) \/ \E s \in Settled : SettleRefund(k, s)
  BY <1>1, <1>2, <1>12 DEF Tick, Cancel, Resume, CreateRefund, SettleRefund
<1>13. ASSUME NEW k \in RefundKeys, NEW p \in DOMAIN rows, ReserveRefund(k, p) PROVE Goal
  <2>1. ~refunds[k].applied /\ ~refunds'[k].applied
    BY <1>13 DEF ReserveRefund, NoRefund, RefundsOK, RefundOK, Types
  <2>2. \A j \in RefundKeys : j # k => refunds'[j] = refunds[j]
    BY <1>13 DEF ReserveRefund, Types
  <2>3. Refunded' = Refunded
    BY <2>1, <2>2 DEF Refunded
  <2>. QED
    BY <1>1, <1>13, <2>3 DEF ReserveRefund
<1>14. ASSUME NEW w \in Workers,
              \/ Elect(w) \/ ExpireGracePeriods(w) \/ ClaimRenewal(w) \/ Crash(w) \/ Fails(w)
              \/ \E p \in DOMAIN rows : ClaimReconciliation(w, p)
       PROVE Goal
  BY <1>1, <1>2, <1>14 DEF Elect, ExpireGracePeriods, ClaimRenewal, Crash, Fails, ClaimReconciliation
<1>15. ASSUME NEW k \in RefundKeys, NEW s, SaveRefund(k, s) PROVE Goal
  BY <1>9, <1>15 DEF SaveRefund
<1>16. ASSUME NEW k \in RefundKeys, WebhookRefund(k) PROVE Goal
  BY <1>9, <1>16 DEF WebhookRefund
<1>17. ASSUME NEW w \in Workers, NEW k \in RefundKeys, ReconcileRefund(w, k) PROVE Goal
  BY <1>9, <1>17 DEF ReconcileRefund, Settled
<1>. QED
  BY <1>6, <1>7, <1>8, <1>10, <1>11, <1>12, <1>13, <1>14, <1>15, <1>16, <1>17 DEF Next, WorkerStep

\* The counters count the payments credited and reversed.
Counts ==
    /\ months = Cardinality(Credited)
    /\ reversals = Cardinality(Refunded)

\* Credited and reversed payments are payments of the provider, so both sets are finite.
LEMMA LedgerSets ==
    ASSUME Types, RefundsOK
    PROVE  /\ Credited \subseteq 1..MaxPayments /\ Refunded \subseteq 1..MaxPayments
           /\ IsFiniteSet(Credited) /\ Cardinality(Credited) \in 0..MaxPayments
           /\ IsFiniteSet(Refunded) /\ Cardinality(Refunded) \in 0..MaxPayments
<1>1. DOMAIN prov \subseteq 1..MaxPayments /\ DOMAIN rows \subseteq 1..MaxPayments
  BY Durations DEF Types
<1>2. Credited \subseteq 1..MaxPayments
  BY <1>1 DEF Credited
<1>3. \A k \in RefundKeys : refunds[k].applied => refunds[k].pay \in DOMAIN rows
  BY DEF RefundsOK, RefundOK
<1>4. Refunded \subseteq 1..MaxPayments
  BY <1>1, <1>3 DEF Refunded
<1>5. IsFiniteSet(1..MaxPayments) /\ Cardinality(1..MaxPayments) = MaxPayments
  BY FS_Interval, Durations
<1>6. \A S \in SUBSET (1..MaxPayments) : IsFiniteSet(S) /\ Cardinality(S) \in 0..MaxPayments
  <2>1. \A S \in SUBSET (1..MaxPayments) : IsFiniteSet(S) /\ Cardinality(S) <= MaxPayments
    BY <1>5, FS_Subset
  <2>2. \A S \in SUBSET (1..MaxPayments) : Cardinality(S) \in Nat
    BY <2>1, FS_CardinalityType
  <2>. QED
    BY <2>1, <2>2, Durations
<1>. QED
  BY <1>2, <1>4, <1>6

\* The invariant that carries the types, the workers, the refunds and the counters.
Books == Types /\ PaymentsOK /\ RefundsOK /\ Counts

LEMMA BooksInit == Init => Books
<1>. SUFFICES ASSUME Init PROVE Books
  OBVIOUS
<1>1. Types
  <2>1. sub \in Subscription
    BY DEF Init, Subscription
  <2>2. prov \in Seq(Payment) /\ Len(prov) = 0
    BY DEF Init
  <2>3. task \in [Workers -> Task] /\ refunds \in [RefundKeys -> RefundRow]
    BY DEF Init, Out, Task, NoRefund, RefundRow
  <2>. QED
    BY <2>1, <2>2, <2>3, Durations DEF Init, Types
<1>2. PaymentsOK /\ RefundsOK
  BY DEF Init, PaymentsOK, TaskOK, RowOK, Out, RefundsOK, RefundOK, Apart, NoRefund
<1>3. Credited = {} /\ Refunded = {}
  BY DEF Init, Credited, Refunded, NoRefund
<1>. QED
  BY <1>1, <1>2, <1>3, FS_EmptySet DEF Books, Counts, Init

LEMMA BooksStep == Books /\ [Next]_vars => Books'
<1>. SUFFICES ASSUME Books, [Next]_vars PROVE Books'
  OBVIOUS
<1>1. CASE UNCHANGED vars
  BY <1>1 DEF vars, Books, Types, PaymentsOK, TaskOK, RowOK, RefundsOK, RefundOK, Apart, Counts, Credited, Refunded
<1>2. CASE Next
  <2>1. Types' /\ PaymentsOK' /\ RefundsOK'
    BY <1>2, PaymentsStep, RefundsStep DEF Books
  <2>2. /\ IsFiniteSet(Credited) /\ Cardinality(Credited) \in Nat
        /\ IsFiniteSet(Refunded) /\ Cardinality(Refunded) \in Nat
    BY LedgerSets, Durations DEF Books
  <2>3. \A p : /\ p \notin Credited => Cardinality(Credited \cup {p}) = Cardinality(Credited) + 1
               /\ p \notin Refunded => Cardinality(Refunded \cup {p}) = Cardinality(Refunded) + 1
    BY <2>2, FS_AddElement
  <2>4. Counts'
    BY <1>2, <2>2, <2>3, LedgerStep DEF Books, Counts
  <2>. QED
    BY <2>1, <2>4 DEF Books
<1>. QED
  BY <1>1, <1>2

\* Every variable keeps its type, at most one session holds the advisory lock, and no more
\* months and reversals are booked than there are payments.
THEOREM BillingTypes == Spec => []TypeOK
<1>1. Books => TypeOK
  <2>. SUFFICES ASSUME Books PROVE TypeOK
    OBVIOUS
  <2>1. months \in 0..MaxPayments /\ reversals \in 0..MaxPayments
    BY LedgerSets DEF Books, Counts
  <2>2. Cardinality(lock) <= 1
    <3>1. lock = {} \/ \E w \in Workers : lock = {w}
      BY DEF Books, Types
    <3>. QED
      <4>1. Cardinality({}) = 0 /\ \A w \in Workers : Cardinality({w}) = 1
        BY FS_EmptySet, FS_Singleton
      <4>2. Cardinality(lock) = 0 \/ Cardinality(lock) = 1
        BY <3>1, <4>1
      <4>. QED
        BY <4>2
  <2>. QED
    BY <2>1, <2>2 DEF Books, Types, TypeOK
<1>. QED
  BY <1>1, BooksInit, BooksStep, PTL DEF Spec

\* The lifecycle implements the ledger of payments: a charged payment extends the
\* subscription at most once and an uncharged one never, a refund takes effect at most once
\* and only for a charged payment, whatever the order and number of the webhook's, the
\* worker's and the reconciliation's answers.
THEOREM BillingRefinesLedger == Spec => LedgerSpec
<1>1. Init => Ledger!Init
  BY DEF Init, Ledger!Init, NoRefund
<1>2. Books /\ [Next]_vars => [Ledger!Next]_(Ledger!ledger)
  <2>. SUFFICES ASSUME Books, [Next]_vars PROVE [Ledger!Next]_(Ledger!ledger)
    OBVIOUS
  <2>1. CASE UNCHANGED vars
    BY <2>1 DEF vars, Ledger!ledger
  <2>2. CASE Next
    <3>1. months \in Nat /\ reversals \in Nat
      BY LedgerSets, Durations DEF Books, Counts
    <3>2. Charged \subseteq 1..MaxPayments /\ Charged' \subseteq 1..MaxPayments
      BY <2>2, PaymentsStep, Durations DEF Books, Types, Charged
    <3>. QED
      BY <2>2, <3>1, <3>2, LedgerStep
         DEF Books, Ledger!Next, Ledger!Charge, Ledger!Credit, Ledger!Refund, Ledger!ledger, Charged, Credited, Refunded
  <2>. QED
    BY <2>1, <2>2
<1>. QED
  BY <1>1, <1>2, BooksInit, BooksStep, PTL DEF Spec, LedgerSpec, Ledger!Spec

-----------------------------------------------------------------------------
(* A period is charged once.                                               *)

\* The attempts before attempt a to renew period e have all been canceled by the provider.
Failed(e, n) ==
    \E q \in DOMAIN prov : /\ prov[q].kind = "RENEWAL" /\ prov[q].period = e /\ prov[q].attempt = n
                           /\ prov[q].status = "canceled"
FailedBefore(e, a) == \A n \in 1..(a - 1) : Failed(e, n)

\* One payment per idempotency key.
KeysApart ==
    \A p, q \in DOMAIN prov :
        /\ prov[p].kind = "RENEWAL" /\ prov[q].kind = "RENEWAL"
        /\ prov[p].period = prov[q].period /\ prov[p].attempt = prov[q].attempt
        => p = q

\* An attempt is claimed, called and counted only after every earlier attempt for its
\* period has failed, as long as no failure was counted against a period it was not for.
Attempts ==
    "replaced" \notin untimely =>
        /\ \A p \in DOMAIN prov : prov[p].kind = "RENEWAL" => FailedBefore(prov[p].period, prov[p].attempt)
        /\ \A w \in Workers : task[w].pc = "call" => FailedBefore(task[w].period, task[w].attempt)
        /\ sub.status \in Billable => FailedBefore(sub.end, sub.retry + 1)

\* A failed attempt stays failed.
LEMMA FailedStays ==
    ASSUME ProvGrows, NEW e, NEW a, FailedBefore(e, a)
    PROVE  FailedBefore(e, a)'
BY DEF ProvGrows, FailedBefore, Failed, Settled

\* What a payment's effect means for the attempts.
LEMMA ApplyPaymentAttempts ==
    ASSUME Types, Attempts, NEW p \in DOMAIN prov, NEW r, NEW seen \in {"pending", prov[p].status},
           ApplyPayment(p, r, seen), UNCHANGED prov, "replaced" \notin untimely'
    PROVE  /\ "replaced" \notin untimely
           /\ sub'.status \in Billable => FailedBefore(sub'.end, sub'.retry + 1)
<1>. DEFINE credits == seen = "succeeded" /\ ~r.applied
            fails   == seen = "canceled" /\ prov[p].kind = "RENEWAL" /\ ~r.failed
<1>1. "replaced" \notin untimely /\ (fails => prov[p].period = sub.end /\ sub.status \in Billable)
  BY DEF ApplyPayment
<1>2. sub \in Subscription /\ prov[p] \in Payment
  BY DEF Types
<1>3. CASE credits
  <2>1. sub' = Extended(sub, p)
    BY <1>3 DEF ApplyPayment
  <2>2. sub'.retry = 0
    BY <1>2, <2>1 DEF Extended, Subscription
  <2>. QED
    BY <1>1, <2>2 DEF FailedBefore
<1>4. CASE fails /\ ~credits
  <2>1. sub' = Dunned(sub, prov[p].attempt, prov[p].revoked)
    BY <1>4 DEF ApplyPayment
  <2>2. sub'.retry = LaterOf(sub.retry, prov[p].attempt) /\ sub'.end = sub.end
    BY <1>2, <2>1 DEF Dunned, Subscription
  <2>3. FailedBefore(sub.end, sub.retry + 1) /\ FailedBefore(sub.end, prov[p].attempt)
    BY <1>1, <1>4 DEF Attempts
  <2>4. Failed(sub.end, prov[p].attempt)
    BY <1>1, <1>4 DEF Failed
  <2>5. sub.retry \in Nat /\ prov[p].attempt \in Nat
    BY <1>2 DEF Subscription, Payment
  <2>6. ASSUME NEW n \in 1..LaterOf(sub.retry, prov[p].attempt) PROVE Failed(sub.end, n)
    <3>1. n \in 1..sub.retry \/ n \in 1..(prov[p].attempt - 1) \/ n = prov[p].attempt
      BY <2>5 DEF LaterOf
    <3>. QED
      BY <2>3, <2>4, <2>5, <3>1 DEF FailedBefore
  <2>. QED
    BY <1>1, <2>2, <2>5, <2>6 DEF FailedBefore, LaterOf
<1>5. CASE ~fails /\ ~credits
  BY <1>1, <1>5 DEF ApplyPayment, Attempts
<1>. QED
  BY <1>3, <1>4, <1>5

LEMMA KeysApartStep ==
    ASSUME Types, PaymentsOK, KeysApart, Next
    PROVE  KeysApart'
<1>. USE DEF provider
<1>1. ASSUME UNCHANGED prov PROVE KeysApart'
  BY <1>1 DEF KeysApart
<1>2. ASSUME Checkout PROVE KeysApart'
  <2>1. NewPayment("INITIAL", 0, 1) \in Payment /\ NewPayment("INITIAL", 0, 1).kind = "INITIAL"
    BY DEF NewPayment, Payment
  <2>2. /\ DOMAIN prov' = DOMAIN prov \cup {Len(prov) + 1} /\ prov'[Len(prov) + 1].kind = "INITIAL"
        /\ \A p \in DOMAIN prov : prov'[p] = prov[p]
    BY <1>2, <2>1, AppendType DEF Checkout
  <2>. QED
    BY <2>2 DEF KeysApart
<1>3. ASSUME NEW p \in DOMAIN prov, NEW s \in Settled, NEW f \in BOOLEAN, Settle(p, s, f) PROVE KeysApart'
  <2>1. DOMAIN prov' = DOMAIN prov /\ ProvGrows
    BY <1>3, SettleType
  <2>. QED
    BY <2>1 DEF KeysApart, ProvGrows
<1>4. ASSUME NEW w \in Workers, CallProvider(w) PROVE KeysApart'
  <2>1. CASE UNCHANGED prov
    BY <2>1, <1>1
  <2>2. CASE /\ Len(prov) < MaxPayments
             /\ Known("RENEWAL", task[w].period, task[w].attempt) = {}
             /\ prov' = Append(prov, NewPayment("RENEWAL", task[w].period, task[w].attempt))
    <3>. DEFINE e == NewPayment("RENEWAL", task[w].period, task[w].attempt)
    <3>1. task[w] \in Task /\ task[w].attempt \in Nat \ {0}
      BY <1>4 DEF CallProvider, Types, PaymentsOK, TaskOK, Task
    <3>2. e \in Payment /\ e.period = task[w].period /\ e.attempt = task[w].attempt
      BY <3>1 DEF NewPayment, Payment, Task
    <3>3. /\ DOMAIN prov' = DOMAIN prov \cup {Len(prov) + 1} /\ prov'[Len(prov) + 1] = e
          /\ \A p \in DOMAIN prov : prov'[p] = prov[p]
      BY <2>2, <3>2, AppendType
    <3>4. \A p \in DOMAIN prov : ~(prov[p].kind = "RENEWAL" /\ prov[p].period = e.period /\ prov[p].attempt = e.attempt)
      BY <2>2, <3>2 DEF Known
    <3>. HIDE DEF e
    <3>. QED
      BY <3>3, <3>4 DEF KeysApart
  <2>. QED
    BY <1>4, <2>1, <2>2 DEF CallProvider
<1>5. CASE \/ Tick \/ Cancel \/ Resume
           \/ \E k \in RefundKeys : \/ CreateRefund(k) \/ WebhookRefund(k) \/ \E s : SaveRefund(k, s)
                                    \/ \E s \in Settled : SettleRefund(k, s)
                                    \/ \E p \in DOMAIN rows : ReserveRefund(k, p)
           \/ \E p \in DOMAIN prov : Webhook(p)
  BY <1>1, <1>5 DEF Tick, Cancel, Resume, CreateRefund, WebhookRefund, SaveRefund, SettleRefund, ReserveRefund, Webhook
<1>6. ASSUME NEW w \in Workers,
             \/ Elect(w) \/ ExpireGracePeriods(w) \/ ClaimRenewal(w) \/ Crash(w) \/ Fails(w)
             \/ \E s : Apply(w, s)
             \/ \E p \in DOMAIN rows : ClaimReconciliation(w, p)
             \/ \E k \in RefundKeys : ReconcileRefund(w, k)
      PROVE KeysApart'
  BY <1>1, <1>6 DEF Elect, ExpireGracePeriods, ClaimRenewal, Crash, Fails, Apply, ClaimReconciliation, ReconcileRefund
<1>. QED
  BY <1>2, <1>3, <1>4, <1>5, <1>6 DEF Next, WorkerStep

\* The three parts of Attempts, for a step that counts no failure against a wrong period.
LEMMA AttemptsStep ==
    ASSUME Types, PaymentsOK, Attempts, Next, "replaced" \notin untimely'
    PROVE  Attempts'
<1>. USE DEF provider
<1>a. ProvGrows /\ sub \in Subscription
  BY PaymentsStep DEF Types
<1>. DEFINE Pays  == \A p \in DOMAIN prov' : prov'[p].kind = "RENEWAL" => FailedBefore(prov[p].period, prov[p].attempt)'
            Calls == \A w \in Workers : task'[w].pc = "call" => FailedBefore(task[w].period, task[w].attempt)'
            Subs  == sub'.status \in Billable => FailedBefore(sub.end, sub.retry + 1)'
<1>1. SUFFICES Pays /\ Calls /\ Subs
  BY DEF Attempts
<1>. HIDE DEF Pays, Calls, Subs
<1>2. ASSUME "replaced" \notin untimely, DOMAIN prov' = DOMAIN prov PROVE Pays
  <2>1. ASSUME NEW p \in DOMAIN prov', prov'[p].kind = "RENEWAL"
        PROVE  FailedBefore(prov[p].period, prov[p].attempt)'
    <3>1. /\ p \in DOMAIN prov /\ prov[p].kind = "RENEWAL"
          /\ prov'[p].period = prov[p].period /\ prov'[p].attempt = prov[p].attempt
      BY <1>a, <1>2, <2>1 DEF ProvGrows
    <3>2. FailedBefore(prov[p].period, prov[p].attempt)
      BY <1>2, <3>1 DEF Attempts
    <3>. QED
      BY <1>a, <3>1, <3>2, FailedStays, SMTT(30) DEF FailedBefore, Failed
  <2>. QED
    BY <2>1 DEF Pays
<1>3. ASSUME "replaced" \notin untimely, \A w \in Workers : task'[w].pc = "call" => task'[w] = task[w] PROVE Calls
  <2>1. ASSUME NEW w \in Workers, task'[w].pc = "call" PROVE FailedBefore(task[w].period, task[w].attempt)'
    <3>1. task'[w] = task[w] /\ FailedBefore(task[w].period, task[w].attempt)
      BY <1>3, <2>1 DEF Attempts
    <3>. QED
      BY <1>a, <3>1 DEF FailedBefore, Failed, ProvGrows, Settled
  <2>. QED
    BY <2>1 DEF Calls
<1>4. ASSUME "replaced" \notin untimely,
             sub'.status \in Billable => sub.status \in Billable /\ sub'.end = sub.end /\ sub'.retry = sub.retry
      PROVE  Subs
  <2>1. ASSUME sub'.status \in Billable PROVE FailedBefore(sub.end, sub.retry + 1)'
    <3>1. sub'.end = sub.end /\ sub'.retry = sub.retry /\ FailedBefore(sub.end, sub.retry + 1)
      BY <1>4, <2>1 DEF Attempts
    <3>. QED
      BY <1>a, <3>1 DEF FailedBefore, Failed, ProvGrows, Settled
  <2>. QED
    BY <2>1 DEF Subs
<1>5. ASSUME UNCHANGED <<untimely, task>>, DOMAIN prov' = DOMAIN prov,
             sub'.status \in Billable => sub.status \in Billable /\ sub'.end = sub.end /\ sub'.retry = sub.retry
      PROVE  Pays /\ Calls /\ Subs
  BY <1>2, <1>3, <1>4, <1>5
<1>6. CASE Tick \/ Cancel \/ Resume
  <2>1. sub'.status = sub.status /\ sub'.end = sub.end /\ sub'.retry = sub.retry
    BY <1>a, <1>6 DEF Tick, Cancel, Resume, Subscription
  <2>. QED
    BY <1>5, <1>6, <2>1 DEF Tick, Cancel, Resume
<1>7. ASSUME NEW e \in Payment, Len(prov) < MaxPayments, prov' = Append(prov, e), "replaced" \notin untimely,
             e.kind = "RENEWAL" => FailedBefore(e.period, e.attempt)
      PROVE  Pays
  <2>1. /\ DOMAIN prov' = DOMAIN prov \cup {Len(prov) + 1} /\ prov'[Len(prov) + 1] = e
        /\ \A p \in DOMAIN prov : prov'[p] = prov[p]
    BY <1>7, AppendType
  <2>2. ASSUME NEW p \in DOMAIN prov', prov'[p].kind = "RENEWAL"
        PROVE  FailedBefore(prov[p].period, prov[p].attempt)'
    <3>1. FailedBefore(prov'[p].period, prov'[p].attempt)
      BY <1>7, <2>1, <2>2 DEF Attempts
    <3>. QED
      BY <1>a, <3>1 DEF FailedBefore, Failed, ProvGrows, Settled
  <2>. QED
    BY <2>2 DEF Pays
<1>8. ASSUME Checkout PROVE Pays /\ Calls /\ Subs
  <2>1. NewPayment("INITIAL", 0, 1) \in Payment /\ NewPayment("INITIAL", 0, 1).kind = "INITIAL"
    BY DEF NewPayment, Payment
  <2>2. Pays
    BY <1>7, <1>8, <2>1 DEF Checkout
  <2>. QED
    BY <1>3, <1>4, <1>8, <2>2 DEF Checkout
<1>9. ASSUME NEW p \in DOMAIN prov, NEW r, NEW seen \in {"pending", prov[p].status}, ApplyPayment(p, r, seen),
             UNCHANGED prov, \A w \in Workers : task'[w].pc = "call" => task'[w] = task[w]
      PROVE  Pays /\ Calls /\ Subs
  <2>1. "replaced" \notin untimely /\ (sub'.status \in Billable => FailedBefore(sub'.end, sub'.retry + 1))
    BY <1>9, ApplyPaymentAttempts
  <2>2. Subs
    BY <1>9, <2>1 DEF Subs, FailedBefore, Failed
  <2>. QED
    BY <1>2, <1>3, <1>9, <2>1, <2>2
<1>10. ASSUME NEW p \in DOMAIN prov, Webhook(p) PROVE Pays /\ Calls /\ Subs
  BY <1>9, <1>10 DEF Webhook
<1>11. ASSUME NEW w \in Workers, NEW s \in {task[w].seen, prov[task[w].pay].status}, Apply(w, s)
       PROVE  Pays /\ Calls /\ Subs
  <2>1. task[w].pay \in DOMAIN prov /\ s \in {"pending", prov[task[w].pay].status}
    BY <1>11 DEF Apply, PaymentsOK, TaskOK
  <2>2. \A v \in Workers : task'[v].pc = "call" => task'[v] = task[v]
    BY <1>11 DEF Apply, Loop, Out, Types
  <2>. QED
    BY <1>9, <1>11, <2>1, <2>2 DEF Apply
<1>12. ASSUME NEW p \in DOMAIN prov, NEW s \in Settled, NEW f \in BOOLEAN, Settle(p, s, f)
       PROVE  Pays /\ Calls /\ Subs
  <2>1. DOMAIN prov' = DOMAIN prov
    BY <1>12, SettleType
  <2>. QED
    BY <1>5, <1>12, <2>1 DEF Settle
<1>13. CASE \E k \in RefundKeys : \/ CreateRefund(k) \/ \E s \in Settled : SettleRefund(k, s)
                                  \/ \E p \in DOMAIN rows : ReserveRefund(k, p)
  BY <1>5, <1>13 DEF CreateRefund, SettleRefund, ReserveRefund
<1>14. ASSUME NEW k \in RefundKeys, NEW s, ApplyRefund(k, s), UNCHANGED <<prov, task, untimely>>
       PROVE  Pays /\ Calls /\ Subs
  <2>1. sub' = sub \/ sub'.status = "CANCELLED"
    BY <1>a, <1>14 DEF ApplyRefund, Subscription
  <2>. QED
    BY <1>5, <1>14, <2>1 DEF Billable
<1>15. CASE \E k \in RefundKeys : WebhookRefund(k) \/ \E s : SaveRefund(k, s)
  BY <1>14, <1>15 DEF WebhookRefund, SaveRefund
<1>16. ASSUME NEW w \in Workers, NEW k \in RefundKeys, ReconcileRefund(w, k) PROVE Pays /\ Calls /\ Subs
  BY <1>14, <1>16 DEF ReconcileRefund
<1>17. ASSUME NEW w \in Workers, Elect(w) \/ Crash(w) \/ \E p \in DOMAIN rows : ClaimReconciliation(w, p)
       PROVE  Pays /\ Calls /\ Subs
  <2>1. \A v \in Workers : task'[v].pc = "call" => task'[v] = task[v]
    <3>1. CASE UNCHANGED task
      BY <3>1
    <3>2. CASE \E t : t.pc \in {"loop", "out", "apply"} /\ task' = [task EXCEPT ![w] = t]
      BY <3>2 DEF Types
    <3>3. Loop.pc = "loop" /\ Out.pc = "out"
      BY DEF Loop, Out
    <3>4. \A p : [Loop EXCEPT !.pc = "apply", !.pay = p, !.seen = prov[p].status].pc = "apply"
      BY DEF Loop, Out
    <3>5. CASE \E p \in DOMAIN rows : ClaimReconciliation(w, p)
      BY <3>2, <3>4, <3>5 DEF ClaimReconciliation
    <3>. QED
      BY <1>17, <3>1, <3>2, <3>3, <3>5 DEF Elect, Crash
  <2>. QED
    BY <1>2, <1>3, <1>4, <1>17, <2>1 DEF Elect, Crash, ClaimReconciliation
<1>18. ASSUME NEW w \in Workers, ExpireGracePeriods(w) PROVE Pays /\ Calls /\ Subs
  <2>1. sub'.status = "CANCELLED"
    BY <1>a, <1>18 DEF ExpireGracePeriods, Subscription
  <2>. QED
    BY <1>5, <1>18, <2>1 DEF ExpireGracePeriods, Billable
<1>19. ASSUME NEW w \in Workers, ClaimRenewal(w) PROVE Pays /\ Calls /\ Subs
  <2>1. sub'.status = sub.status /\ sub'.end = sub.end /\ sub'.retry = sub.retry
    BY <1>a, <1>19 DEF ClaimRenewal, Subscription
  <2>2. /\ task'[w].period = sub.end /\ task'[w].attempt = sub.retry + 1
        /\ \A v \in Workers : v # w => task'[v] = task[v]
    BY <1>19 DEF ClaimRenewal, Loop, Out, Types
  <2>3. FailedBefore(sub.end, sub.retry + 1) /\ UNCHANGED prov
    BY <1>19 DEF ClaimRenewal, Attempts
  <2>4. Calls
    BY <1>19, <2>2, <2>3 DEF ClaimRenewal, Calls, Attempts, FailedBefore, Failed
  <2>. QED
    BY <1>2, <1>4, <1>19, <2>1, <2>4 DEF ClaimRenewal
<1>20. ASSUME NEW w \in Workers, Fails(w) PROVE Pays /\ Calls /\ Subs
  <2>1. sub'.status = sub.status /\ sub'.end = sub.end /\ sub'.retry = sub.retry
    BY <1>a, <1>20 DEF Fails, Subscription
  <2>2. \A v \in Workers : task'[v].pc = "call" => task'[v] = task[v]
    BY <1>20 DEF Fails, Loop, Out, Types
  <2>. QED
    BY <1>2, <1>3, <1>4, <1>20, <2>1, <2>2 DEF Fails
<1>21. ASSUME NEW w \in Workers, CallProvider(w) PROVE Pays /\ Calls /\ Subs
  <2>1. task[w] \in Task /\ task[w].attempt \in Nat \ {0} /\ FailedBefore(task[w].period, task[w].attempt)
    BY <1>21 DEF CallProvider, Types, PaymentsOK, TaskOK, Task, Attempts
  <2>2. Pays
    <3>1. CASE UNCHANGED prov
      BY <1>2, <1>21, <3>1 DEF CallProvider
    <3>2. CASE /\ Len(prov) < MaxPayments
               /\ prov' = Append(prov, NewPayment("RENEWAL", task[w].period, task[w].attempt))
      <4>. DEFINE e == NewPayment("RENEWAL", task[w].period, task[w].attempt)
      <4>1. e \in Payment /\ e.period = task[w].period /\ e.attempt = task[w].attempt
        BY <2>1 DEF NewPayment, Payment, Task
      <4>2. FailedBefore(e.period, e.attempt)
        BY <2>1, <4>1
      <4>. HIDE DEF e
      <4>3. prov' = Append(prov, e)
        BY <3>2 DEF e
      <4>. QED
        BY <1>7, <1>21, <3>2, <4>1, <4>2, <4>3 DEF CallProvider
    <3>. QED
      BY <1>21, <3>1, <3>2 DEF CallProvider
  <2>3. \A v \in Workers : task'[v].pc = "call" => task'[v] = task[v]
    <3>1. \E q, s : task' = [task EXCEPT ![w].pc = "apply", ![w].pay = q, ![w].seen = s]
      BY <1>21, Zenon DEF CallProvider
    <3>2. task'[w].pc = "apply" /\ \A v \in Workers : v # w => task'[v] = task[v]
      BY <2>1, <3>1 DEF Types, Task
    <3>. QED
      BY <3>2
  <2>. QED
    BY <1>3, <1>4, <1>21, <2>2, <2>3 DEF CallProvider
<1>. QED
  BY <1>6, <1>8, <1>10, <1>11, <1>12, <1>13, <1>15, <1>16, <1>17, <1>18, <1>19, <1>20, <1>21 DEF Next, WorkerStep

\* The whole inductive invariant for the charging of periods.
Charges == Books /\ KeysApart /\ Attempts

LEMMA ChargesInit == Init => Charges
<1>. SUFFICES ASSUME Init PROVE Charges
  OBVIOUS
<1>1. Books
  BY BooksInit
<1>2. KeysApart /\ Attempts
  <2>1. DOMAIN prov = {}
    BY DEF Init
  <2>2. sub.retry = 0 /\ \A w \in Workers : task[w].pc = "out"
    BY DEF Init, Out
  <2>. QED
    BY <2>1, <2>2 DEF KeysApart, Attempts, FailedBefore
<1>. QED
  BY <1>1, <1>2 DEF Charges

LEMMA ChargesStep == Charges /\ [Next]_vars => Charges'
<1>. SUFFICES ASSUME Charges, [Next]_vars PROVE Charges'
  OBVIOUS
<1>1. Books'
  BY BooksStep DEF Charges
<1>2. CASE UNCHANGED vars
  <2>1. KeysApart' /\ Attempts'
    BY <1>2 DEF vars, Charges, KeysApart, Attempts, FailedBefore, Failed
  <2>. QED
    BY <1>1, <2>1 DEF Charges
<1>3. CASE Next
  <2>1. KeysApart'
    BY <1>3, KeysApartStep DEF Charges, Books
  <2>2. Attempts'
    <3>1. CASE "replaced" \in untimely'
      BY <3>1 DEF Attempts
    <3>2. CASE "replaced" \notin untimely'
      BY <1>3, <3>2, AttemptsStep DEF Charges, Books
    <3>. QED
      BY <3>1, <3>2
  <2>. QED
    BY <1>1, <2>1, <2>2 DEF Charges
<1>. QED
  BY <1>2, <1>3

\* A period is charged at most once: of two payments for it the later attempt was only made
\* because the provider had canceled the earlier one, and a repeated attempt has the same
\* idempotency key.
THEOREM PeriodChargedOnce == Spec => []RenewedOncePerPeriod
<1>1. Charges => RenewedOncePerPeriod
  <2>. SUFFICES ASSUME Charges, "replaced" \notin untimely,
                       NEW p \in DOMAIN prov, NEW q \in DOMAIN prov,
                       prov[p].kind = "RENEWAL", prov[q].kind = "RENEWAL",
                       prov[p].status = "succeeded", prov[q].status = "succeeded",
                       prov[p].period = prov[q].period
                PROVE  p = q
    BY DEF RenewedOncePerPeriod
  <2>1. prov[p].attempt \in Nat \ {0} /\ prov[q].attempt \in Nat \ {0}
    <3>1. prov[p] \in Payment /\ prov[q] \in Payment
      BY DEF Charges, Books, Types
    <3>. QED
      BY <3>1 DEF Payment
  <2>2. ASSUME NEW a \in DOMAIN prov, NEW b \in DOMAIN prov, prov[a].kind = "RENEWAL", prov[b].kind = "RENEWAL",
               prov[a].period = prov[b].period, prov[a].status = "succeeded",
               prov[a].attempt \in 1..(prov[b].attempt - 1)
        PROVE  FALSE
    <3>1. Failed(prov[b].period, prov[a].attempt)
      BY <2>2 DEF Charges, Attempts, FailedBefore
    <3>. QED
      BY <2>2, <3>1 DEF Failed, Charges, KeysApart
  <2>3. prov[p].attempt = prov[q].attempt
    BY <2>1, <2>2
  <2>. QED
    BY <2>3 DEF Charges, KeysApart
<1>. QED
  BY <1>1, ChargesInit, ChargesStep, PTL DEF Spec

-----------------------------------------------------------------------------
(* What the organization gets for its money.                               *)

\* An active or dunned subscription is PRO, and a period that still runs is active.
Paid ==
    untimely = {} => /\ sub.status \in Billable => sub.plan = "PRO"
                     /\ sub.status # "ACTIVE" => sub.end <= now

\* How a step changes the plan, the status and the end of the period.
SubStep ==
    \/ /\ sub'.plan = sub.plan /\ sub'.status = sub.status /\ sub'.end = sub.end
    \/ /\ sub'.plan = "PRO" /\ sub'.status = "ACTIVE" /\ sub'.end > sub.end
    \/ /\ sub'.status \in {"PAST_DUE", "CANCELLED"} /\ sub'.end = sub.end
       /\ sub'.status = "PAST_DUE" => sub'.plan = sub.plan
       /\ untimely' = {} => sub.status \in Billable /\ sub.end <= now
    \/ /\ sub.status = "PAST_DUE" /\ sub'.status = "CANCELLED" /\ sub'.end = sub.end
    \/ /\ sub'.status = "CANCELLED" /\ sub'.end = now
       /\ \E k \in RefundKeys : refunds'[k].applied /\ ~refunds[k].applied /\ refunds[k].pay = sub.last

LEMMA SubStepLemma ==
    ASSUME Types, PaymentsOK, Next
    PROVE  /\ SubStep
           /\ untimely \subseteq untimely' /\ now' \in Nat /\ now' >= now
<1>. USE DEF provider
<1>a. sub \in Subscription /\ now \in Nat /\ sub.end \in Nat /\ \A p \in DOMAIN prov : prov[p] \in Payment
  BY DEF Types, Subscription
<1>. DEFINE Goal == SubStep /\ untimely \subseteq untimely' /\ now' \in Nat /\ now' >= now
<1>1. ASSUME UNCHANGED <<sub, untimely>>, now' = now \/ now' = now + 1 PROVE Goal
  BY <1>a, <1>1 DEF SubStep
<1>2. ASSUME NEW p \in DOMAIN prov, NEW r, NEW seen, ApplyPayment(p, r, seen), UNCHANGED now PROVE Goal
  <2>1. untimely \subseteq untimely'
    BY <1>2 DEF ApplyPayment
  <2>2. CASE sub' = sub
    BY <1>a, <1>2, <2>1, <2>2 DEF SubStep
  <2>3. CASE sub' = Extended(sub, p)
    <3>1. sub'.plan = "PRO" /\ sub'.status = "ACTIVE" /\ sub'.end = LaterOf(sub.end, now) + Month
      BY <1>a, <2>3 DEF Extended, Subscription
    <3>2. LaterOf(sub.end, now) + Month > sub.end
      BY <1>a, Durations DEF LaterOf
    <3>. QED
      BY <1>a, <1>2, <2>1, <3>1, <3>2 DEF SubStep
  <2>4. CASE /\ sub' = Dunned(sub, prov[p].attempt, prov[p].revoked)
             /\ seen = "canceled" /\ prov[p].kind = "RENEWAL" /\ ~r.failed
    <3>1. /\ sub'.status \in {"PAST_DUE", "CANCELLED"} /\ sub'.end = sub.end
          /\ sub'.status = "PAST_DUE" => sub'.plan = sub.plan
      BY <1>a, <2>4 DEF Dunned, Subscription
    <3>2. untimely' = {} => sub.status \in Billable /\ ~(sub.end > now)
      BY <1>2, <2>4 DEF ApplyPayment
    <3>. QED
      BY <1>a, <1>2, <2>1, <3>1, <3>2 DEF SubStep
  <2>. QED
    BY <1>2, <2>2, <2>3, <2>4 DEF ApplyPayment
<1>3. ASSUME NEW k \in RefundKeys, NEW s, ApplyRefund(k, s), UNCHANGED <<now, untimely>> PROVE Goal
  <2>1. CASE sub' = sub
    BY <1>a, <1>3, <2>1 DEF SubStep
  <2>2. CASE sub' # sub
    <3>1. s = "succeeded" /\ ~refunds[k].applied /\ sub.last = refunds[k].pay
      BY <1>3, <2>2 DEF ApplyRefund
    <3>2. sub'.status = "CANCELLED" /\ sub'.end = now
      BY <1>a, <1>3, <3>1 DEF ApplyRefund, Subscription
    <3>3. refunds'[k].applied
      BY <1>3, <3>1 DEF ApplyRefund, Types, RefundRow
    <3>. QED
      BY <1>a, <1>3, <3>1, <3>2, <3>3 DEF SubStep
  <2>. QED
    BY <2>1, <2>2
<1>4. CASE Tick \/ Checkout
  BY <1>1, <1>4 DEF Tick, Checkout
<1>5. ASSUME UNCHANGED <<now, untimely>>,
             sub'.plan = sub.plan /\ sub'.status = sub.status /\ sub'.end = sub.end
      PROVE  Goal
  BY <1>a, <1>5 DEF SubStep
<1>6. CASE Cancel \/ Resume
  <2>1. sub'.plan = sub.plan /\ sub'.status = sub.status /\ sub'.end = sub.end
    BY <1>a, <1>6 DEF Cancel, Resume, Subscription
  <2>. QED
    BY <1>5, <1>6, <2>1 DEF Cancel, Resume
<1>7. ASSUME NEW p \in DOMAIN prov, Webhook(p) \/ \E s \in Settled, f \in BOOLEAN : Settle(p, s, f) PROVE Goal
  BY <1>1, <1>2, <1>7 DEF Webhook, Settle
<1>8. CASE \E k \in RefundKeys : \/ CreateRefund(k) \/ \E s \in Settled : SettleRefund(k, s)
                                 \/ \E p \in DOMAIN rows : ReserveRefund(k, p)
  BY <1>1, <1>8 DEF CreateRefund, SettleRefund, ReserveRefund
<1>9. CASE \E k \in RefundKeys : WebhookRefund(k) \/ \E s : SaveRefund(k, s)
  BY <1>3, <1>9 DEF WebhookRefund, SaveRefund
<1>10. CASE \E w \in Workers, k \in RefundKeys : ReconcileRefund(w, k)
  BY <1>3, <1>10 DEF ReconcileRefund
<1>11. ASSUME NEW w \in Workers, Elect(w) \/ Crash(w) \/ CallProvider(w) \/ \E p \in DOMAIN rows : ClaimReconciliation(w, p)
       PROVE  Goal
  BY <1>1, <1>11 DEF Elect, Crash, CallProvider, ClaimReconciliation
<1>12. ASSUME NEW w \in Workers, NEW s, Apply(w, s) PROVE Goal
  <2>1. task[w].pay \in DOMAIN prov
    BY <1>12 DEF Apply, PaymentsOK, TaskOK
  <2>. QED
    BY <1>2, <1>12, <2>1 DEF Apply
<1>13. ASSUME NEW w \in Workers, ClaimRenewal(w) \/ Fails(w) PROVE Goal
  <2>1. sub'.plan = sub.plan /\ sub'.status = sub.status /\ sub'.end = sub.end
    BY <1>a, <1>13 DEF ClaimRenewal, Fails, Subscription
  <2>. QED
    BY <1>5, <1>13, <2>1 DEF ClaimRenewal, Fails
<1>14. ASSUME NEW w \in Workers, ExpireGracePeriods(w) PROVE Goal
  <2>1. sub.status = "PAST_DUE" /\ sub'.status = "CANCELLED" /\ sub'.end = sub.end
    BY <1>a, <1>14 DEF ExpireGracePeriods, Subscription
  <2>. QED
    BY <1>a, <1>14, <2>1 DEF ExpireGracePeriods, SubStep
<1>. QED
  BY <1>4, <1>6, <1>7, <1>8, <1>9, <1>10, <1>11, <1>12, <1>13, <1>14 DEF Next, WorkerStep

\* While a paid period runs, and in the grace period of its dunning, the quota checks see
\* PRO, unless a renewal failed that was for another period or for one that still ran.
THEOREM PaidPeriodIsPro == Spec => []PaidIsPro
<1>1. Init => Paid
  BY DEF Init, Paid, Billable
<1>2. Books /\ Paid /\ [Next]_vars => Paid'
  <2>. SUFFICES ASSUME Books, Paid, [Next]_vars PROVE Paid'
    OBVIOUS
  <2>1. CASE UNCHANGED vars
    BY <2>1 DEF vars, Paid
  <2>2. CASE Next
    <3>1. SubStep /\ untimely \subseteq untimely' /\ now' \in Nat /\ now' >= now
      BY <2>2, SubStepLemma DEF Books
    <3>2. sub.end \in Nat /\ now \in Nat /\ sub.status \in {"INACTIVE", "ACTIVE", "PAST_DUE", "CANCELLED"}
      BY DEF Books, Types, Subscription
    <3>. QED
      BY <3>1, <3>2 DEF SubStep, Paid, Billable
  <2>. QED
    BY <2>1, <2>2
<1>3. Books /\ Paid => PaidIsPro
  BY DEF Books, Types, Subscription, Paid, PaidIsPro, activePlan, Billable
<1>. QED
  BY <1>1, <1>2, <1>3, BooksInit, BooksStep, PTL DEF Spec

\* No step shortens the paid period but the refund of the latest payment taking effect.
THEOREM RefundsShorten == Spec => OnlyRefundShortens
<1>1. Books /\ [Next]_vars =>
        [sub'.end < sub.end => \E k \in RefundKeys : /\ refunds'[k].applied /\ ~refunds[k].applied
                                                     /\ refunds[k].pay = sub.last]_vars
  <2>. SUFFICES ASSUME Books, Next, sub'.end < sub.end
                PROVE  \E k \in RefundKeys : refunds'[k].applied /\ ~refunds[k].applied /\ refunds[k].pay = sub.last
    OBVIOUS
  <2>1. SubStep /\ sub.end \in Nat /\ sub'.end \in Nat
    BY SubStepLemma, BooksStep DEF Books, Types, Subscription
  <2>. QED
    BY <2>1 DEF SubStep
<1>. QED
  BY <1>1, BooksInit, BooksStep, PTL DEF Spec, OnlyRefundShortens

=============================================================================
