---------------------------- MODULE RetryPolicy ----------------------------
(***************************************************************************)
(* pyrad2/retry.py: the retransmission schedule that Client and            *)
(* ClientAsync share.  Times are whole clock units.                        *)
(***************************************************************************)
EXTENDS Integers, FiniteSetsExt

CONSTANTS
    Retries,     \* RetryPolicy.retries
    Timeout,     \* RetryPolicy.timeout
    Backoff,     \* RetryPolicy.backoff
    MaxWait,     \* RetryPolicy.max_wait
    JitterPct    \* RetryPolicy.jitter, in percent

ASSUME PolicyAssumption ==
    /\ Retries \in Nat
    /\ Timeout \in Nat \ {0}
    /\ Backoff \in Nat \ {0}
    /\ MaxWait \in Nat \ {0}
    /\ JitterPct \in 0..100

\* Backoff never shortens a wait.  It follows from Backoff >= 1; the provers
\* know no law of exponentiation.
ASSUME BackoffAssumption == \A attempt \in 0..Retries : Backoff ^ attempt >= 1

\* wait_for before jitter is applied.
BaseWait(attempt) == Min({Timeout * (Backoff ^ attempt), MaxWait})

Spread(attempt) == (BaseWait(attempt) * JitterPct) \div 100

\* The values wait_for can return: every call draws the jitter anew.
WaitFor(attempt) ==
    Max({0, BaseWait(attempt) - Spread(attempt)}) .. (BaseWait(attempt) + Spread(attempt))

=============================================================================
