----------------------------- MODULE MCWorkerRun -----------------------------
(***************************************************************************)
(* Instances of WorkerRun for TLC.                                         *)
(***************************************************************************)
EXTENDS WorkerRun, TLC

CONSTANTS k1, k2, i1, i2

Symmetric == Permutations({k1, k2}) \cup Permutations({i1, i2})

MCSteps == {"s1", "s2"}

No == [o \in Outcomes |-> None]

\* Work and review.
Review == [entry |-> "s1",
           steps |-> [s1 |-> [gate |-> FALSE, next |-> [No EXCEPT !["default"] = "s2"]],
                      s2 |-> [gate |-> TRUE, next |-> [No EXCEPT !["approve"] = "completed",
                                                                 !["reject"] = "blocked"]]]]

\* A later version without the review.
Direct == [Review EXCEPT !.steps["s1"].next["default"] = "completed", !.steps["s2"] = None]

SeedReview == "report" :> Review

DirectOnly == {Direct}

\* The client asks for an approval wherever there is one.
ApprovalAsked == {[s \in Steps |-> "approve"]}

=============================================================================
