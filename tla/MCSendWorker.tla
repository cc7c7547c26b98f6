---------------------------- MODULE MCSendWorker ----------------------------
(* Messages m1 and m2 go to the same number, m3 to another.                 *)
EXTENDS SendWorker, TLC

CONSTANTS m1, m2, m3, n1, n2

MCMessageNumber == [m \in Message |-> IF m = m3 THEN n2 ELSE n1]

\* m1 and m2 are alike, and so are the slots.
Symmetry == Permutations({m1, m2}) \cup Permutations(Worker)

=============================================================================
