------------------------------ MODULE Backoff ------------------------------
(***************************************************************************)
(* The retry delays of one row: handleRetry, attempt after attempt, with   *)
(* the built-in policies in integers of Bits bits, 64 in the program.      *)
(*                                                                         *)
(* BaseDelay is a float64 without rounding (it is at most 2^53), a product *)
(* with a power of two is exact, and a float64 that is out of range for    *)
(* time.Duration converts to what the architecture gives: the least one    *)
(* (amd64) or the greatest (arm64).                                        *)
(***************************************************************************)
EXTENDS Integers

CONSTANTS Bits,
          Delays,       \* values of Interval, BaseDelay and MaxDelay
          MaxRetries    \* the row's max_retry

MaxDuration == 2^(Bits - 1) - 1

MinDuration == -(2^(Bits - 1))

Durations == MinDuration..MaxDuration

(* Two's complement.                                                       *)
Wrapped(d) == ((d - MinDuration) % 2^Bits) + MinDuration

VARIABLES policy,       \* the Backoff of the instance
          retryCount,   \* retry_count of the row
          status,
          delay         \* next_retry_at less the time it was computed

vars == <<policy, retryCount, status, delay>>

Policies == [kind : {"fixed", "linear", "exponential"}, base : Delays, max : Delays]

Init ==
    /\ policy \in Policies
    /\ retryCount = 0
    /\ status = "PROCESSING"
    /\ delay = 0

-----------------------------------------------------------------------------
(* The policies: the delays that Next may return.                          *)

AtLeastOne(n) == IF n < 1 THEN 1 ELSE n

FixedBackoff(b, n) == {b.base}

LinearBackoff(b, n) == {Wrapped(b.base * AtLeastOne(n))}

ToDuration(x) == IF x \in Durations THEN {x} ELSE {MinDuration, MaxDuration}

Capped(b, d) == IF b.max > 0 /\ d > b.max THEN b.max ELSE d

ExponentialBackoff(b, n) ==
    {Capped(b, d) : d \in ToDuration(b.base * 2^(AtLeastOne(n) - 1))}

NextDelay(b, n) ==
    CASE b.kind = "fixed"       -> FixedBackoff(b, n)
      [] b.kind = "linear"      -> LinearBackoff(b, n)
      [] b.kind = "exponential" -> ExponentialBackoff(b, n)

-----------------------------------------------------------------------------

(* The handler failed.                                                     *)
handleRetry ==
    /\ status = "PROCESSING"
    /\ IF retryCount + 1 > MaxRetries
       THEN status' = "FAILED" /\ UNCHANGED <<policy, retryCount, delay>>
       ELSE /\ status' = "RETRY"
            /\ retryCount' = retryCount + 1
            /\ delay' \in NextDelay(policy, retryCount + 1)
            /\ UNCHANGED policy

(* The delay is over, and the row is claimed again.                        *)
claimBatch ==
    /\ status = "RETRY"
    /\ status' = "PROCESSING"
    /\ UNCHANGED <<policy, retryCount, delay>>

Next == handleRetry \/ claimBatch

Spec == Init /\ [][Next]_vars

-----------------------------------------------------------------------------

(* ExponentialBackoff increases the delay exponentially, BaseDelay times   *)
(* 2^(retryCount-1), capped at MaxDelay: a row in RETRY has that delay.    *)
DelayCapped ==
    policy.kind = "exponential" /\ policy.max > 0 /\ status = "RETRY" =>
        LET ideal == policy.base * 2^(retryCount - 1)
        IN delay = IF ideal < policy.max THEN ideal ELSE policy.max
=============================================================================
