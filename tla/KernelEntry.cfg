SPECIFICATION Spec
INVARIANT TwoSpins
INVARIANT TriedLocksFree
 
