--------------------------- MODULE IssueLifecycle ---------------------------
(***************************************************************************)
(* What the project store promises of an issue, whatever callers do to it: *)
(* at most one attempt at a time and never more than Limit of them, a hold *)
(* after every attempt that was not delivered, and acceptance only of a    *)
(* delivered attempt.  IssueTracker implements it.                         *)
(***************************************************************************)
EXTENDS Integers, FiniteSets

CONSTANTS
    Issues,     \* issue ids
    Attempts,   \* run ids
    Limit,      \* how many attempts may be under way together
    None

VARIABLES
    phase,      \* where the issue is: Absent, Open, Working, Review, Accepted
    held,       \* the issues whose automatic dispatch is off
    last,       \* the issue's latest attempt
    begun,      \* the attempts that were begun
    spent,      \* the attempts that ended without being delivered
    delivered   \* the attempts that were delivered for review

vars == <<phase, held, last, begun, spent, delivered>>

Init ==
    /\ phase = [i \in Issues |-> "Absent"]
    /\ held = {}
    /\ last = [i \in Issues |-> None]
    /\ begun = {}
    /\ spent = {}
    /\ delivered = {}

Move(i, from, to) ==
    /\ phase[i] = from
    /\ phase' = [phase EXCEPT ![i] = to]

Open(i) ==
    /\ Move(i, "Absent", "Open")
    /\ UNCHANGED <<held, last, begun, spent, delivered>>

Hold(i) ==
    /\ phase[i] \in {"Open", "Review"}
    /\ held' = held \cup {i}
    /\ UNCHANGED <<phase, last, begun, spent, delivered>>

\* An open issue is released in whatever open state it is in.
Release(i) ==
    /\ phase[i] \in {"Open", "Review"}
    /\ held' = held \ {i}
    /\ UNCHANGED <<phase, last, begun, spent, delivered>>

Begin(i, a) ==
    /\ a \notin begun
    /\ i \notin held
    /\ Cardinality({j \in Issues : phase[j] = "Working"}) < Limit
    /\ Move(i, "Open", "Working")
    /\ last' = [last EXCEPT ![i] = a]
    /\ begun' = begun \cup {a}
    /\ UNCHANGED <<held, spent, delivered>>

GiveUp(i) ==
    /\ Move(i, "Working", "Open")
    /\ held' = held \cup {i}
    /\ spent' = spent \cup {last[i]}
    /\ UNCHANGED <<last, begun, delivered>>

Deliver(i) ==
    /\ Move(i, "Working", "Review")
    /\ delivered' = delivered \cup {last[i]}
    /\ UNCHANGED <<held, last, begun, spent>>

Accept(i) ==
    /\ Move(i, "Review", "Accepted")
    /\ last[i] \in delivered
    /\ held' = held \ {i}
    /\ UNCHANGED <<last, begun, spent, delivered>>

\* Back for more work, or closed; a hold may stay.
Return(i) ==
    /\ Move(i, "Review", "Open")
    /\ held' \in {held, held \ {i}}
    /\ UNCHANGED <<last, begun, spent, delivered>>

Reopen(i) ==
    /\ Move(i, "Accepted", "Open")
    /\ held' = held \ {i}
    /\ UNCHANGED <<last, begun, spent, delivered>>

Next ==
    \/ \E i \in Issues : \/ Open(i) \/ Hold(i) \/ Release(i) \/ GiveUp(i)
                         \/ Deliver(i) \/ Accept(i) \/ Return(i) \/ Reopen(i)
    \/ \E i \in Issues, a \in Attempts : Begin(i, a)

Spec == Init /\ [][Next]_vars

=============================================================================
