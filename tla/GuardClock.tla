----------------------------- MODULE GuardClock -----------------------------
(***************************************************************************)
(* What the guards of exchanges/resilience.py and exchanges/safety.py have *)
(* in common: the coroutines that call them and the clocks they read.      *)
(*                                                                         *)
(* Each guard protects its state by an asyncio.Lock.  Where nothing is     *)
(* awaited inside the lock, it is never contended and the locked block is  *)
(* one step.  Time moves between any two steps; the monotonic clock and    *)
(* the wall clock, which nobody sets, move together.                       *)
(*                                                                         *)
(* Nothing in the repository but its tests calls the guards.  The clients  *)
(* call them in any order that their interfaces allow.                     *)
(***************************************************************************)
EXTENDS Integers, FiniteSets

CONSTANTS
  Clients,    \* the coroutines that call the guards
  MaxTime     \* bound of the model: the clock stops here

ASSUME ClientsAssumption == IsFiniteSet(Clients) /\ Clients # {}
ASSUME MaxTimeAssumption == MaxTime \in Nat

VARIABLE now

ClockInit == now = 0
Tick == now < MaxTime /\ now' = now + 1

=============================================================================
