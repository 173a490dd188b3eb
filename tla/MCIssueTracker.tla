--------------------------- MODULE MCIssueTracker ---------------------------
(* Small instances of IssueTracker for TLC.                                *)
EXTENDS IssueTracker, TLC

CONSTANTS i1, i2, r1, r2

\* Two issues that may block and duplicate each other, and compete for one slot.
TwoIssues == {i1, i2}
TwoRuns == {r1, r2}
OnePair == {<<i1, i2>>}

\* Run ids are interchangeable; issue ids are not, since the pair is ordered.
RunSymmetry == Permutations(Runs)

\* Bound: the life of one issue through two attempts in full; once the second issue is
\* there too, both are complete, and no attempt hands off or fails by itself.
OneOrCompeting ==
    \/ state[i2] = "Absent"
    \/ /\ \A i \in Issues : state[i] # "Absent" => valid[i]
       /\ \A r \in Runs : handoff[r] = None /\ runCode[r] \notin WorkerCodes
=============================================================================
