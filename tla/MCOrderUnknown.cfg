\* The runbook has an unanswered order marked UNKNOWN; the code raises an error.
CONSTANTS
  Callers = {c1}
  Intents = {i1}
  MaxRetries = 2
  MaxCalls = 1
SPECIFICATION SubmissionSpec
CHECK_DEADLOCK FALSE
INVARIANT UnsettledIsUnknown
