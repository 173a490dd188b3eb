---------------------------- MODULE MCRunWorker ----------------------------
(* Small instances of RunWorker for TLC: one issue, attempted repeatedly.  *)
EXTENDS RunWorker, TLC

CONSTANTS i1, r1, r2

OneIssue == {i1}
OneRun == {r1}
TwoRuns == {r1, r2}
NoPairs == {}

\* Run ids are interchangeable.
RunSymmetry == Permutations(Runs)

\* Bound on what two attempts explore: a complete issue that is queued, worked
\* on, cancelled and queued again.
Queued ==
    \A i \in Issues :
        /\ state[i] # "Absent" => valid[i]
        /\ IF latestRun[i] = None THEN state[i] \in {"Absent", "Inbox", "Ready"}
                                 ELSE state[i] \in {"Ready", "Working", "HumanReview"}
        /\ pause[i] # "operator"

\* Bound on what one attempt explores: a complete issue until its only run has
\* ended and the worker is through; after the claim no tick has work left.
OneAttempt ==
    /\ \A i \in Issues : /\ state[i] # "Absent" => valid[i]
                         /\ pause[i] # "operator"
    /\ \E r \in Runs : ~Ended(r) \/ Lives(r) \/ call[r] # "none"
    /\ draining # {} => \E r \in Runs : runStatus[r] = "none"
=============================================================================
