---------------------------- MODULE MCDeleteQueue ----------------------------
(***************************************************************************)
(* The instance of DeleteQueue for TLC.                                    *)
(***************************************************************************)
EXTENDS DeleteQueueInv, TLC

MCSymmetry == Permutations(Threads) \cup Permutations(Dwpts) \cup Permutations(Keys)

\* The bound of the run: while two DWPTs are in use no call clears the queue or
\* forces the global slice and no document fails; with one, any call may be
\* made, and after a failed document one cut.
OneDwpt == \E d \in Dwpts : \A e \in Dwpts \ {d} : phase[e] = "none"
NoFailure == \A d \in Dwpts : deleteDocIDs[d] = {}
MCBound == \/ NoFailure /\ \A t \in Threads : call[t].what \in {"none", "freeze"}
           \/ OneDwpt /\ (NoFailure \/ Len(cuts) < MaxCuts)
==============================================================================
