----------------------------- MODULE MCLegacyRun -----------------------------
(***************************************************************************)
(* Instances of LegacyRun for TLC.                                         *)
(***************************************************************************)
EXTENDS LegacyRun, TLC

CONSTANTS k1, k2

WorkerSymmetry == Permutations({k1, k2})

MCSteps == {"s1", "s2", "s3"}

No == [o \in Outcomes |-> None]

Default(t)      == [No EXCEPT !["default"] = t]
Review(yes, no) == [No EXCEPT !["approve"] = yes, !["reject"] = no]

Plain(next) == [gate |-> FALSE, next |-> next]
Gated(next) == [gate |-> TRUE, next |-> next]

\* Work, review, deliver; a rejection blocks the run.
Report == [entry |-> "s1",
           steps |-> [s1 |-> Plain(Default("s2")),
                      s2 |-> Gated(Review("s3", "blocked")),
                      s3 |-> Plain([Default("completed") EXCEPT !["reject"] = "failed"])]]

\* Two reviews in a row; the second has a default of its own.
TwoReviews == [entry |-> "s1",
               steps |-> [s1 |-> Plain(Default("s2")),
                          s2 |-> Gated(Review("s3", "s1")),
                          s3 |-> Gated([Review("completed", "blocked")
                                          EXCEPT !["default"] = "completed"])]]

\* A loop without a gate: s1 and s2 follow each other by default.
Loop == [entry |-> "s1",
         steps |-> [s1 |-> Plain([Default("s2") EXCEPT !["error"] = "failed"]),
                    s2 |-> Plain([Default("s1") EXCEPT !["approve"] = "s3"]),
                    s3 |-> Gated(Review("completed", None))]]

\* Report without its gate and its delivery.
Ungated == [Report EXCEPT !.steps["s2"] = Plain(Default("completed")), !.steps["s3"] = None]

SeedReport == "report" :> Report

SeedThree == "report" :> Report @@ "reviews" :> TwoReviews @@ "loop" :> Loop

Versions == {TwoReviews, Ungated}

NoOutcomes == [s \in Steps |-> "default"]

\* What clients ask of steps: nothing, or something for one step.
Asked == {NoOutcomes, [NoOutcomes EXCEPT !["s2"] = "approve"],
          [NoOutcomes EXCEPT !["s3"] = "reject"]}

AllAsked == [Steps -> Outcomes]

=============================================================================
