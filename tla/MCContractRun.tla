---------------------------- MODULE MCContractRun ----------------------------
(***************************************************************************)
(* Instances of ContractRun for TLC: step and operation ids, and the flows *)
(* the runs register.                                                      *)
(***************************************************************************)
EXTENDS ContractRunProperties, TLC

CONSTANTS w1, w2    \* request handlers, interchangeable

WorkerSymmetry == Permutations({w1, w2})

MCSteps == {"s1", "s2", "s3"}
MCOps   == {"op1", "op2"}

No == [default |-> None, approve |-> None, reject |-> None, error |-> None]

Connector(op, next)     == [type |-> "connector_action", op |-> op, connector |-> TRUE, next |-> next]
Deterministic(op, next) == [type |-> "deterministic_action", op |-> op, connector |-> FALSE, next |-> next]
HumanGate(op, next)     == [type |-> "human_gate", op |-> op, connector |-> FALSE, next |-> next]
TerminalStep            == [type |-> "terminal", op |-> None, connector |-> FALSE,
                            next |-> [No EXCEPT !.default = "completed"]]

Default(t) == [No EXCEPT !.default = t]

\* daily_owner_report_v0, the contract the server seeds: notify, review, done.
OwnerReport ==
  [entry |-> "s1",
   steps |-> [s1 |-> Connector("op1", Default("s2")),
              s2 |-> HumanGate("op2", [No EXCEPT !.approve = "s3", !.reject = "blocked"]),
              s3 |-> TerminalStep]]

\* A review loop: a rejection sends the work back to the first step.
Rework ==
  [entry |-> "s1",
   steps |-> [s1 |-> Deterministic("op1", Default("s2")),
              s2 |-> HumanGate("op2", [No EXCEPT !.approve = "completed", !.reject = "s1"]),
              s3 |-> None]]

\* A recurring review: an approval leads to the same gate again.
Recurring ==
  [entry |-> "s1",
   steps |-> [s1 |-> Deterministic("op1", Default("s2")),
              s2 |-> HumanGate("op2", [No EXCEPT !.approve = "s2", !.reject = "completed"]),
              s3 |-> None]]

\* Valid, but a rejection has no transition, and neither has the last step.
NoReject ==
  [entry |-> "s1",
   steps |-> [s1 |-> Connector("op1", Default("s2")),
              s2 |-> HumanGate("op2", [No EXCEPT !.approve = "s3"]),
              s3 |-> Deterministic("op1", [No EXCEPT !.error = "failed"])]]

\* Valid: a rejection leads to a second gate.
TwoGates ==
  [entry |-> "s1",
   steps |-> [s1 |-> Deterministic("op1", Default("s2")),
              s2 |-> HumanGate("op2", [No EXCEPT !.approve = "completed", !.reject = "s3"]),
              s3 |-> HumanGate("op2", [No EXCEPT !.approve = "completed", !.reject = "blocked"])]]

\* Valid: the flow opens with the review.
GateFirst ==
  [entry |-> "s1",
   steps |-> [s1 |-> HumanGate("op1", [No EXCEPT !.approve = "s2", !.reject = "blocked"]),
              s2 |-> Connector("op2", Default("completed")),
              s3 |-> None]]

\* Versions of the owner report: without its terminal step, with a first step
\* that calls nobody and either decision leading to an added step, and one with
\* a dangling target, which registration refuses.
ShortReport ==
  [OwnerReport EXCEPT !.steps =
     [s1 |-> Connector("op1", Default("s2")),
      s2 |-> HumanGate("op2", [No EXCEPT !.approve = "completed", !.reject = "blocked"]),
      s3 |-> None]]

LocalReport ==
  [OwnerReport EXCEPT !.steps =
     [s1 |-> Deterministic("op1", Default("s2")),
      s2 |-> HumanGate("op2", [No EXCEPT !.approve = "s3", !.reject = "s3"]),
      s3 |-> TerminalStep]]

Dangling == [ShortReport EXCEPT !.steps["s1"].next.default = "s3"]

Versions == {ShortReport, LocalReport, GateFirst, Dangling}

SeedShort == "report" :> ShortReport

SeedTwoGates == "report" :> TwoGates

SeedReport == "report" :> OwnerReport

SeedFour == "report" :> OwnerReport @@ "rework" :> Rework @@ "noreject" :> NoReject
              @@ "recurring" :> Recurring

=============================================================================
