-------------------------- MODULE MCManifestStore --------------------------
(* Instances of ManifestStore for TLC. *)
EXTENDS ManifestStore, TLC

CONSTANTS root, sub, a, timer, w1, w2

OneDir == {root}
TwoDirs == {root, sub}
OneName == {a}
ThreeTasks == {timer, w1, w2}

\* The worker tasks are interchangeable.
WorkerSymmetry == Permutations({w1, w2})
=============================================================================
