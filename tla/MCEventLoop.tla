---------------------------- MODULE MCEventLoop ----------------------------
(* Model checking of EventLoop: loops, coroutines and descriptors are model *)
(* values that nothing tells apart.                                         *)
EXTENDS EventLoopInv, TLC

Symmetry == Permutations(Loops) \cup Permutations(Coros) \cup Permutations(Fds)
=============================================================================
