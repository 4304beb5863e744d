--------------------------- MODULE MCCallbackDrain ---------------------------
(* CallbackDrain for a small set of game threads.                          *)
EXTENDS CallbackDrain, TLC

\* The game's threads are interchangeable.
ThreadSymmetry == Permutations(Threads)
=============================================================================
