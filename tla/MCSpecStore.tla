---------------------------- MODULE MCSpecStore ----------------------------
(* Instances of SpecStore small enough for TLC.                            *)
EXTENDS SpecStore, TLC

CONSTANTS a, b, c1

TwoServices == {a, b}
Distinct == [s \in TwoServices |-> {s}]           \* neither name contains the other
Nested == [s \in TwoServices |-> {s, b}]          \* b's name contains a's
OneClient == {c1}
LoopOnly == {"loop"}
LoopAndCloser == {"loop", "closer"}
AllOps == {"update", "delete", "clear"}
UpdatesOnly == {"update"}
Symmetry == Permutations(TwoServices)
=============================================================================
