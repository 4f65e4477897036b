----------------------------- MODULE RetryPolicy ----------------------------
(***************************************************************************)
(* Which connection attempts from addresses QUIC has not validated must    *)
(* prove them with a Retry first (udp.rs RetryPolicy): none, all, or those *)
(* above a rate, which a token bucket tells.                               *)
(***************************************************************************)
EXTENDS Integers, Sequences

CONSTANTS Rate,          \* of AddressValidation::AboveRate, per second
          Attempt,       \* ATTEMPT, what an attempt costs: the units of time in a second
          MaxClock, MaxPassed   \* bounds

ASSUME RetryRate == Rate \in Nat \ {0} /\ Attempt \in Nat \ {0}

VARIABLES clock,
          policy,   \* RetryPolicy
          passed    \* ghost: when attempts passed without a Retry

retryVars == <<clock, policy, passed>>

(* RetryPolicy::capacity and new, for each AddressValidation. *)
Capacity(validation) == IF validation = "aboveRate" THEN Rate * Attempt ELSE 0
NewPolicy(validation) == [validation |-> validation, tokens |-> Capacity(validation), last |-> 0]

RetryStart(validations) ==
    /\ clock = 0 /\ passed = <<>>
    /\ \E v \in validations : policy = NewPolicy(v)
RetryInit == RetryStart({"off", "always", "aboveRate"})

TickClock == clock < MaxClock /\ clock' = clock + 1 /\ UNCHANGED <<policy, passed>>

(* A bucket that holds all the time that has passed. *)
RefilledUncapped == policy.tokens + (clock - policy.last) * Rate
(* RetryPolicy::should_retry. *)
Refilled ==
    LET tokens == policy.tokens + (clock - policy.last) * Rate
    IN  IF tokens > Capacity("aboveRate") THEN Capacity("aboveRate") ELSE tokens
ShouldRetry ==
    /\ Len(passed) < MaxPassed
    /\ IF policy.validation # "aboveRate"
       THEN /\ passed' = IF policy.validation = "off" THEN Append(passed, clock) ELSE passed
            /\ UNCHANGED policy
       ELSE /\ policy' = [policy EXCEPT !.last = clock,
                             !.tokens = IF Refilled >= Attempt THEN Refilled - Attempt ELSE Refilled]
            /\ passed' = IF Refilled >= Attempt THEN Append(passed, clock) ELSE passed
    /\ UNCHANGED clock

RetryNext == TickClock \/ ShouldRetry
RetrySpec == RetryInit /\ [][RetryNext]_retryVars

-----------------------------------------------------------------------------
(* Of the attempts from addresses not validated, no more pass without a Retry in any stretch of    *)
(* time than a second's worth and the rate for that stretch (RetryPolicy::should_retry).           *)
RateIsKept ==
    policy.validation = "aboveRate" =>
        \A i, j \in DOMAIN passed : i <= j =>
            (j - i + 1) * Attempt <= Rate * Attempt + Rate * (passed[j] - passed[i])

=============================================================================
