-------------------------- MODULE MCCodexRunner --------------------------
(* A small instance of CodexRunner for TLC: one issue, attempted once.     *)
EXTENDS CodexRunner, TLC

CONSTANTS i1, r1, a1, a2, build, secret

OneIssue == {i1}
OneRun == {r1}
NoApproval == {}
TwoApprovals == {a1, a2}
TwoSubjects == {build, secret}
OneDenied == {secret}
NoPairs == {}

\* Approval ids are interchangeable.
ApprovalSymmetry == Permutations(Approvals)

\* Bound on what is explored: a complete issue whose only run is claimed, until the
\* run has ended and has no worker any more; no tick is draining.
OneAttempt ==
    /\ \A i \in Issues : /\ state[i] # "Absent" => valid[i]
                         /\ state[i] \in {"Absent", "Inbox", "Ready", "Working"}
                         /\ pause[i] # "operator"
                         /\ latestRun[i] # None => state[i] # "Inbox"
                         /\ pause[i] = "no" <=> \A r \in Runs : ~Ended(r)
    /\ \E r \in Runs : ~Ended(r) \/ Lives(r)
    /\ draining = {}
=============================================================================
