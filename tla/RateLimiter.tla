---------------------------- MODULE RateLimiter ----------------------------
(***************************************************************************)
(* EndpointRateLimiter (exchanges/resilience.py): the token bucket of one  *)
(* scope with a limit.  Scopes do not share anything but the lock.  A      *)
(* scope without a limit keeps no state: acquire refuses it, or lets a     *)
(* risk-reducing cancellation or position control pass.                    *)
(*                                                                         *)
(* Tokens are counted in parts of 1/Period, so that the refill of a tick   *)
(* is a whole number; the rounding of Decimal at its 28th digit is         *)
(* dropped, and so are the counters of metrics.                            *)
(***************************************************************************)
EXTENDS GuardClock

CONSTANTS
  Requests, Period,   \* RateLimit: requests per period
  Timeouts            \* the timeouts of acquire

ASSUME RateLimitAssumption == Requests \in Nat \ {0} /\ Period \in Nat \ {0}
ASSUME TimeoutsAssumption == Timeouts \subseteq Nat

VARIABLES
  bucket,     \* self._buckets[scope]; a bucket not yet used is a full one
  acquiring,  \* the call of acquire of each client
  mark,       \* when the count of granted calls began: at any time
  granted     \* how many calls were granted since

limiterVars == <<bucket, acquiring, mark, granted>>

Full == Requests * Period

NotAcquiring == [pc |-> "idle", deadline |-> 0]

LimiterInit ==
  /\ bucket = [last |-> now, tokens |-> Full]
  /\ acquiring = [c \in Clients |-> NotAcquiring]
  /\ mark = now
  /\ granted = 0

Acquire(c, timeout) ==
  /\ acquiring[c].pc = "idle"
  /\ now + timeout <= MaxTime
  /\ acquiring' = [acquiring EXCEPT ![c] = [pc |-> "try", deadline |-> now + timeout]]
  /\ UNCHANGED <<now, bucket, mark, granted>>

\* The bucket is not limited to its size.
FaultyTokens == bucket.tokens + (now - bucket.last) * Requests

Tokens ==
  LET refilled == bucket.tokens + (now - bucket.last) * Requests
  IN  IF refilled < Full THEN refilled ELSE Full

\* The locked block: a token is taken, or the attempt is counted as throttled.
Try(c) ==
  /\ acquiring[c].pc = "try"
  /\ IF Tokens >= Period
     THEN /\ bucket' = [last |-> now, tokens |-> Tokens - Period]
          /\ acquiring' = [acquiring EXCEPT ![c] = NotAcquiring]
          /\ granted' = granted + 1
     ELSE /\ bucket' = [last |-> now, tokens |-> Tokens]
          /\ acquiring' = [acquiring EXCEPT ![c].pc = "throttled"]
          /\ UNCHANGED granted
  /\ UNCHANGED <<now, mark>>

\* The deadline is not looked at.
FaultyThrottled(c) ==
  /\ acquiring[c].pc = "throttled"
  /\ acquiring' = [acquiring EXCEPT ![c].pc = "try"]
  /\ UNCHANGED <<now, bucket, mark, granted>>

\* The clock is read again: the deadline has passed, or a short sleep ends.
Throttled(c) ==
  /\ acquiring[c].pc = "throttled"
  /\ acquiring' = [acquiring EXCEPT ![c] = IF now >= @.deadline THEN NotAcquiring
                                            ELSE [@ EXCEPT !.pc = "try"]]
  /\ UNCHANGED <<now, bucket, mark, granted>>

StartCounting ==
  /\ mark' = now
  /\ granted' = 0
  /\ UNCHANGED <<now, bucket, acquiring>>

LimiterStep(c) == Try(c) \/ Throttled(c)

LimiterNext ==
  \/ Tick /\ UNCHANGED limiterVars
  \/ \E c \in Clients :
       \/ \E timeout \in Timeouts : Acquire(c, timeout)
       \/ LimiterStep(c)
  \/ StartCounting

LimiterSpec == ClockInit /\ LimiterInit /\ [][LimiterNext]_<<now, limiterVars>>

-----------------------------------------------------------------------------

\* In any stretch of time, whoever calls, no more calls are granted than a full bucket
\* and what was refilled meanwhile (acquire).
GrantsBounded == Period * granted <= Full + Requests * (now - mark)

\* Every acquire ends: it gets a token or runs into its deadline.
AcquiresEnd == \A c \in Clients : acquiring[c].pc # "idle" ~> acquiring[c].pc = "idle"

=============================================================================
