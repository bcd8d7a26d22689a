--------------------------- MODULE CircuitBreaker ---------------------------
(***************************************************************************)
(* CircuitBreaker (exchanges/resilience.py), with clients that ask whether *)
(* a call is available, make it, and record its success or failure.        *)
(***************************************************************************)
EXTENDS GuardClock

CONSTANTS
  FailureThreshold,   \* self.failure_threshold
  RecoverySeconds,    \* self.recovery_seconds
  MaxFailuresCounted  \* bound of the model: calls recorded as failed without a reset

ASSUME BreakerAssumption ==
  FailureThreshold \in Nat \ {0} /\ RecoverySeconds \in Nat \ {0} /\ MaxFailuresCounted \in Nat

VARIABLES
  failures,   \* self._failures
  openedAt,   \* self._opened_at, or NotOpen
  calling,    \* the clients whose call is under way
  since,      \* when the count of calls let through began: at any time, and at a success
  admitted    \* how many calls were let through since, risk-reducing ones not counted

breakerVars == <<failures, openedAt, calling, since, admitted>>

NotOpen == -1

BreakerInit ==
  /\ failures = 0
  /\ openedAt = NotOpen
  /\ calling = {}
  /\ since = now
  /\ admitted = 0

Recover == failures' = 0 /\ openedAt' = NotOpen

\* require_available; an open circuit raises CircuitOpenError and nothing changes.
RequireAvailable(c) ==
  /\ c \notin calling
  /\ \/ openedAt = NotOpen /\ UNCHANGED <<failures, openedAt>>
     \/ openedAt # NotOpen /\ now - openedAt >= RecoverySeconds /\ Recover
  /\ calling' = calling \cup {c}
  /\ admitted' = admitted + 1
  /\ UNCHANGED <<now, since>>

\* require_available(risk_reducing=True)
RequireRiskReducing(c) ==
  /\ c \notin calling
  /\ calling' = calling \cup {c}
  /\ UNCHANGED <<now, failures, openedAt, since, admitted>>

RecordSuccess(c) ==
  /\ c \in calling
  /\ calling' = calling \ {c}
  /\ Recover
  /\ since' = now
  /\ admitted' = 0
  /\ UNCHANGED now

\* One failure more is needed.
FaultyRecordFailure(c) ==
  /\ c \in calling
  /\ failures < MaxFailuresCounted
  /\ calling' = calling \ {c}
  /\ failures' = failures + 1
  /\ openedAt' = IF failures' > FailureThreshold THEN now ELSE openedAt
  /\ UNCHANGED <<now, since, admitted>>

RecordFailure(c) ==
  /\ c \in calling
  /\ failures < MaxFailuresCounted
  /\ calling' = calling \ {c}
  /\ failures' = failures + 1
  /\ openedAt' = IF failures' >= FailureThreshold THEN now ELSE openedAt
  /\ UNCHANGED <<now, since, admitted>>

StartWatching ==
  /\ since' = now
  /\ admitted' = 0
  /\ UNCHANGED <<now, failures, openedAt, calling>>

BreakerNext ==
  \/ Tick /\ UNCHANGED breakerVars
  \/ \E c \in Clients :
       RequireAvailable(c) \/ RequireRiskReducing(c) \/ RecordSuccess(c) \/ RecordFailure(c)
  \/ StartWatching

BreakerSpec == ClockInit /\ BreakerInit /\ [][BreakerNext]_<<now, breakerVars>>

-----------------------------------------------------------------------------

\* While the exchange answers no call, the calls let through in a stretch shorter than
\* the recovery time are at most the threshold, and those that were let through beside
\* the one that opened the circuit (require_available, record_failure).
OutageCallsBounded ==
  now - since < RecoverySeconds => admitted <= FailureThreshold + Cardinality(Clients) - 1

=============================================================================
