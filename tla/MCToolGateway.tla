--------------------------- MODULE MCToolGateway ---------------------------
(* Values of ToolGateway's constants for TLC: one content is too large.     *)
EXTENDS ToolGateway, TLC

CONSTANTS small, other, large, p1, p2

ConfiguredSizes == [b \in Contents |-> IF b = large THEN 2 ELSE 1]

\* Calls, payloads and the two small contents are interchangeable.
Interchangeable ==
    Permutations(Calls) \cup Permutations({p1, p2}) \cup Permutations({small, other})

=============================================================================
