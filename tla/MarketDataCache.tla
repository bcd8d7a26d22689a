--------------------------- MODULE MarketDataCache ---------------------------
(***************************************************************************)
(* MarketDataCache (exchanges/safety.py): the snapshot of one symbol,      *)
(* which update merges with what it is given, and which require_fresh      *)
(* hands out while it is recent.  Nothing is awaited inside the lock, so   *)
(* that each call is one step.                                             *)
(*                                                                         *)
(* Two fields stand for the seven: a rate, which may be zero, and whether  *)
(* the contract is active, with 0 for False.                               *)
(***************************************************************************)
EXTENDS GuardClock

CONSTANT StaleAfter   \* self.stale_after_seconds

ASSUME StaleAfterAssumption == StaleAfter \in Nat \ {0}

VARIABLES
  snapshot,   \* self._snapshots[symbol], or NoSnapshot
  told,       \* what each field was last reported to be
  toldAt,     \* when update was last called
  answer      \* what require_fresh last returned, with told and the time since toldAt

marketVars == <<snapshot, told, toldAt, answer>>

Fields == {"funding_rate", "contract_active"}
NotGiven == -1                  \* None
Values == {NotGiven, 0, 1}
NothingGiven == [f \in Fields |-> NotGiven]

NoSnapshot == [at |-> -1, values |-> NothingGiven]

MarketInit ==
  /\ snapshot = NoSnapshot
  /\ told = NothingGiven
  /\ toldAt = now
  /\ answer = [values |-> NothingGiven, told |-> NothingGiven, age |-> 0]

\* A value that is False or zero is taken for none.
FaultyMerged(given, current) == IF given = 1 THEN given ELSE current

Merged(given, current) == IF given # NotGiven THEN given ELSE current

Update(given) ==
  /\ snapshot' = [at |-> now,
                  values |-> [f \in Fields |-> Merged(given[f], snapshot.values[f])]]
  /\ told' = [f \in Fields |-> IF given[f] = NotGiven THEN told[f] ELSE given[f]]
  /\ toldAt' = now
  /\ UNCHANGED <<now, answer>>

\* A missing or a stale snapshot raises StaleMarketDataError and nothing changes.
RequireFresh ==
  /\ snapshot # NoSnapshot
  /\ now - snapshot.at <= StaleAfter
  /\ answer' = [values |-> snapshot.values, told |-> told, age |-> now - toldAt]
  /\ UNCHANGED <<now, snapshot, told, toldAt>>

MarketNext ==
  \/ Tick /\ UNCHANGED marketVars
  \/ \E given \in [Fields -> Values] : Update(given)
  \/ RequireFresh

MarketSpec == ClockInit /\ MarketInit /\ [][MarketNext]_<<now, marketVars>>

-----------------------------------------------------------------------------

\* Through any series of partial updates, a snapshot that is handed out has for each field
\* what was last reported of it, a rate of zero and an inactive contract included, and the
\* last report is no older than StaleAfter (update, require_fresh).
FreshAnswersAreCurrent == answer.values = answer.told /\ answer.age <= StaleAfter

=============================================================================
