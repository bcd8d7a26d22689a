-------------------------- MODULE TimeSynchronizer --------------------------
(***************************************************************************)
(* BingXTimeSynchronizer (exchanges/resilience.py): the offset that is     *)
(* added to the wall clock to tell the server's time.  The server's clock  *)
(* is external; it runs ahead of the wall clock by a constant.             *)
(***************************************************************************)
EXTENDS GuardClock

CONSTANTS
  RefreshSeconds,   \* self._refresh_seconds
  Skews             \* how far the server's clock may be ahead

ASSUME SynchronizerAssumption == RefreshSeconds \in Nat \ {0} /\ Skews \subseteq Int

VARIABLES
  skew,        \* how far the server's clock is ahead
  offset,      \* self._offset_ms
  lastSync,    \* self._last_sync, or Never
  syncing,     \* the call of synchronize of each client
  roundTrip    \* how long the last successful request took

syncVars == <<skew, offset, lastSync, syncing, roundTrip>>

Never == -1

NotSyncing == [pc |-> "idle", force |-> FALSE, started |-> 0, server |-> 0]

SyncInit ==
  /\ skew \in Skews
  /\ offset = 0
  /\ lastSync = Never
  /\ syncing = [c \in Clients |-> NotSyncing]
  /\ roundTrip = 0

Synchronize(c, force) ==
  /\ syncing[c].pc = "idle"
  /\ syncing' = [syncing EXCEPT ![c].pc = "waiting", ![c].force = force]
  /\ UNCHANGED <<now, skew, offset, lastSync, roundTrip>>

\* The lock is free: the offset is recent enough, or the server is asked.
BeginSync(c) ==
  /\ syncing[c].pc = "waiting"
  /\ \A d \in Clients : syncing[d].pc \in {"idle", "waiting"}
  /\ IF ~syncing[c].force /\ lastSync # Never /\ now - lastSync < RefreshSeconds
     THEN syncing' = [syncing EXCEPT ![c] = NotSyncing]
     ELSE syncing' = [syncing EXCEPT ![c] = [@ EXCEPT !.pc = "asking", !.started = now]]
  /\ UNCHANGED <<now, skew, offset, lastSync, roundTrip>>

\* The server reads its clock.
ServerReads(c) ==
  /\ syncing[c].pc = "asking"
  /\ syncing' = [syncing EXCEPT ![c] = [@ EXCEPT !.pc = "answering", !.server = now + skew]]
  /\ UNCHANGED <<now, skew, offset, lastSync, roundTrip>>

\* The time of the answer is taken for the time of the reading.
FaultyMidpoint(started, completed) == completed

Midpoint(started, completed) == started + ((completed - started) \div 2)

EndSync(c) ==
  /\ syncing[c].pc = "answering"
  /\ offset' = syncing[c].server - Midpoint(syncing[c].started, now)
  /\ lastSync' = now
  /\ roundTrip' = now - syncing[c].started
  /\ syncing' = [syncing EXCEPT ![c] = NotSyncing]
  /\ UNCHANGED <<now, skew>>

\* The request fails, or its answer is no positive integer.
SyncFails(c) ==
  /\ syncing[c].pc \in {"asking", "answering"}
  /\ syncing' = [syncing EXCEPT ![c] = NotSyncing]
  /\ UNCHANGED <<now, skew, offset, lastSync, roundTrip>>

SyncNext ==
  \/ Tick /\ UNCHANGED syncVars
  \/ \E c \in Clients :
       \/ \E force \in BOOLEAN : Synchronize(c, force)
       \/ BeginSync(c) \/ ServerReads(c) \/ EndSync(c) \/ SyncFails(c)

SyncSpec == ClockInit /\ SyncInit /\ [][SyncNext]_<<now, syncVars>>

-----------------------------------------------------------------------------

\* Wherever between the request and its answer the server read its clock, the time told
\* is off by no more than half of the round trip, rounded up (synchronize, now_ms).
OffsetWithinHalfRoundTrip ==
  lastSync # Never => 2 * (offset - skew) \in -roundTrip..(roundTrip + 1)

=============================================================================
