------------------------- MODULE MCBitmapAllocator --------------------------
EXTENDS BitmapAllocator, TLC

Threads == Permutations(Thread)
=============================================================================
