------------------------------ MODULE MCSendPath ------------------------------
(* Small instances of SendPath: threads are interchangeable model values.  *)
EXTENDS SendPath, TLC

CONSTANTS t1, t2, t3

ThreeThreads == {t1, t2, t3}
TwoThreads   == {t1, t2}

ThreadSymmetry == Permutations(Threads)
=============================================================================
