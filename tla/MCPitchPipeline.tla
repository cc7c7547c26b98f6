-------------------------- MODULE MCPitchPipeline --------------------------
(* Instances of PitchPipeline for TLC. *)
EXTENDS PitchPipeline, TLC

Symmetry == Permutations(Recording) \cup Permutations(Thread)

SymmetryOfPitches == Permutations(Recording) \cup Permutations(Pipeline)

\* Bound: once a request died, only the requests of one thread go on, one after
\* the other, beginning with the one it may be busy with.  Threads are alike, so
\* which one does not matter.  Before the death any of them run together.
Survivor == CHOOSE t \in Thread : TRUE

Alone == \A t \in Thread \ {Survivor} : thread'[t] = Idle

LoneDeaths == Init /\ [][Next /\ (crashes' > 0 => Alone)]_vars /\ Fairness

=============================================================================
