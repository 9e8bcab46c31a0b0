--------------------------- MODULE PaymentLedger ---------------------------
(***************************************************************************)
(* What billing promises about money, without workers, webhooks or time:   *)
(* a payment the provider has charged buys one month, once; a refund the   *)
(* provider has paid out is applied once, and only to a charged payment.   *)
(***************************************************************************)
EXTENDS Naturals, FiniteSets

CONSTANT Payments

VARIABLES charged, credited, months, refunded, reversals

ledger == <<charged, credited, months, refunded, reversals>>

Init ==
    /\ charged = {}
    /\ credited = {}
    /\ months = 0
    /\ refunded = {}
    /\ reversals = 0

\* The provider takes the money.
Charge(p) ==
    /\ p \notin charged
    /\ charged' = charged \cup {p}
    /\ UNCHANGED <<credited, months, refunded, reversals>>

\* The organization gets its month.
Credit(p) ==
    /\ p \in charged \ credited
    /\ credited' = credited \cup {p}
    /\ months' = months + 1
    /\ UNCHANGED <<charged, refunded, reversals>>

\* The refund takes effect.
Refund(p) ==
    /\ p \in charged \ refunded
    /\ refunded' = refunded \cup {p}
    /\ reversals' = reversals + 1
    /\ UNCHANGED <<charged, credited, months>>

Next == \E p \in Payments : Charge(p) \/ Credit(p) \/ Refund(p)

Spec == Init /\ [][Next]_ledger
=============================================================================
