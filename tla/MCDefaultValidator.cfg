\* The tests have a client with open gates and the default validator place orders; the code
\* raises AttributeError.
CONSTANTS
  Callers = {c1}
  Intents = {i1}
  MaxRetries = 2
  MaxCalls = 1
SPECIFICATION SubmissionSpec
CHECK_DEADLOCK FALSE
INVARIANT DefaultValidatorDecides
