------------------------- MODULE MCBillingLifecycle -------------------------
EXTENDS BillingLifecycle

\* One retry, one unit after the failed renewal.
RetryOnce == <<1>>

SymmetricWorkers == Permutations(Workers)
=============================================================================
