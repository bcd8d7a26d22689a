------------------------ MODULE MCTradingConcurrent ------------------------
(***************************************************************************)
(* The trading engine with two handlers interleaved step by step.          *)
(***************************************************************************)
EXTENDS TradingPlatform, TLC

\* The two threads run the same code.
ThreadSymmetry == Permutations(Threads)

=============================================================================
