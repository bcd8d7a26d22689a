-------------------------- MODULE TradingRulesCache --------------------------
(***************************************************************************)
(* TradingRulesCache (exchanges/safety.py): the entry of one symbol, with  *)
(* the lock that get holds while the loader is awaited, and invalidate,    *)
(* which does not take the lock.  The rules themselves are dropped: an     *)
(* entry is named after the load that brought it.                          *)
(***************************************************************************)
EXTENDS GuardClock

CONSTANTS
  TtlSeconds,   \* self.ttl_seconds
  MaxLoads      \* bound of the model: loads begun

ASSUME RulesAssumption == TtlSeconds \in Nat \ {0} /\ MaxLoads \in Nat

VARIABLES
  cached,     \* self._values[symbol], or NotCached
  getting,    \* the call of get of each client
  loads,      \* how many loads were begun
  required,   \* the first load begun after the last call of invalidate that found none
              \* under way
  from,       \* when the count of loads began: with every call of get that forces a
              \* load, every load that fails, every call of invalidate
  counted     \* how many loads were begun since

rulesVars == <<cached, getting, loads, required, from, counted>>

NotCached == [at |-> 0, load |-> 0]

Loading == {c \in Clients : getting[c].pc = "loading"}

NotGetting == [pc |-> "idle", force |-> FALSE, load |-> 0]

RulesInit ==
  /\ cached = NotCached
  /\ getting = [c \in Clients |-> NotGetting]
  /\ loads = 0 /\ required = 0
  /\ from = now /\ counted = 0

Get(c, force) ==
  /\ getting[c].pc = "idle"
  /\ getting' = [getting EXCEPT ![c].pc = "waiting", ![c].force = force]
  /\ UNCHANGED <<now, cached, loads, required, from, counted>>

FreshEntry == cached # NotCached /\ now - cached.at < TtlSeconds

CacheHit(c) ==
  /\ getting[c].pc = "waiting"
  /\ Loading = {}
  /\ ~getting[c].force /\ FreshEntry
  /\ getting' = [getting EXCEPT ![c] = NotGetting]
  /\ UNCHANGED <<now, cached, loads, required, from, counted>>

BeginLoad(c) ==
  /\ loads < MaxLoads
  /\ loads' = loads + 1
  /\ getting' = [getting EXCEPT ![c] = [@ EXCEPT !.pc = "loading", !.load = loads + 1]]
  /\ IF getting[c].force
     THEN from' = now /\ counted' = 0
     ELSE from' = from /\ counted' = counted + 1
  /\ UNCHANGED <<now, cached, required>>

\* The entry is looked at before the lock is taken.
FaultyLoad(c) ==
  /\ getting[c].pc = "waiting"
  /\ getting[c].force \/ ~FreshEntry
  /\ BeginLoad(c)

\* The lock is free: no other load is under way.
Load(c) ==
  /\ getting[c].pc = "waiting"
  /\ Loading = {}
  /\ getting[c].force \/ ~FreshEntry
  /\ BeginLoad(c)

LoadEnds(c) ==
  /\ getting[c].pc = "loading"
  /\ cached' = [at |-> now, load |-> getting[c].load]
  /\ getting' = [getting EXCEPT ![c] = NotGetting]
  /\ UNCHANGED <<now, loads, required, from, counted>>

\* The loader raises: the lock is released and nothing is stored.
LoadFails(c) ==
  /\ getting[c].pc = "loading"
  /\ getting' = [getting EXCEPT ![c] = NotGetting]
  /\ from' = now /\ counted' = 0
  /\ UNCHANGED <<now, cached, loads, required>>

\* The entry is left to its time to live.
FaultyInvalidate ==
  /\ cached' = cached
  /\ required' = IF Loading = {} THEN loads + 1 ELSE required
  /\ from' = now /\ counted' = 0
  /\ UNCHANGED <<now, getting, loads>>

Invalidate ==
  /\ cached' = NotCached
  /\ required' = IF Loading = {} THEN loads + 1 ELSE required
  /\ from' = now /\ counted' = 0
  /\ UNCHANGED <<now, getting, loads>>

RulesNext ==
  \/ Tick /\ UNCHANGED rulesVars
  \/ \E c \in Clients :
       \/ \E force \in BOOLEAN : Get(c, force)
       \/ CacheHit(c) \/ Load(c) \/ LoadEnds(c) \/ LoadFails(c)
  \/ Invalidate

RulesSpec == ClockInit /\ RulesInit /\ [][RulesNext]_<<now, rulesVars>>

-----------------------------------------------------------------------------

\* After invalidate every entry comes from a load begun later, unless a load was under
\* way at the time: that one is stored, whatever it read (invalidate takes no lock).
InvalidateForcesReload == cached = NotCached \/ cached.load >= required

\* However many clients find the entry missing or expired at once, one of them loads it:
\* loads that no client forces are a whole time to live apart (get).
LoadsSpaced == TtlSeconds * (counted - 1) <= now - from

=============================================================================
