------------------------------ MODULE MCDeque -------------------------------
EXTENDS Deque, TLC

Thieves == Permutations(Thief)
=============================================================================
