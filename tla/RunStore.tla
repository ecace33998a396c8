------------------------------- MODULE RunStore -------------------------------
(***************************************************************************)
(* What the trait RunStore of src/storage/mod.rs promises its callers, as  *)
(* the other modules use it: a map from run ids to snapshots, in which a   *)
(* put takes effect at one instant or not at all, a get returns what was   *)
(* stored at one instant, and what was stored survives the process.        *)
(***************************************************************************)
EXTENDS Naturals

CONSTANTS Callers, RunIds, Snapshots, Absent

VARIABLES
  stored,    \* run id -> snapshot or Absent
  op         \* caller -> its operation in progress

vars == <<stored, op>>

NoOp == [is |-> "none"]

Init == /\ stored = [r \in RunIds |-> Absent]
        /\ op = [k \in Callers |-> NoOp]

PutSnapshot(k, r, s) == /\ op[k] = NoOp
                        /\ op' = [op EXCEPT ![k] = [is |-> "put", run |-> r, value |-> s]]
                        /\ UNCHANGED stored

\* Ok(()): the snapshot is stored.
PutDone(k) == /\ op[k].is = "put"
              /\ stored' = [stored EXCEPT ![op[k].run] = op[k].value]
              /\ op' = [op EXCEPT ![k] = NoOp]

GetSnapshot(k, r) == /\ op[k] = NoOp
                     /\ op' = [op EXCEPT ![k] = [is |-> "get", run |-> r, value |-> stored[r]]]
                     /\ UNCHANGED stored

\* A get is answered, or either operation fails and has done nothing.
Return(k) == op[k] # NoOp /\ op' = [op EXCEPT ![k] = NoOp] /\ UNCHANGED stored

\* The process dies with everything in progress.
Crash == op' = [k \in Callers |-> NoOp] /\ UNCHANGED stored

Next == \/ \E k \in Callers, r \in RunIds : \/ \E s \in Snapshots : PutSnapshot(k, r, s)
                                            \/ GetSnapshot(k, r)
        \/ \E k \in Callers : PutDone(k) \/ Return(k)
        \/ Crash

Spec == Init /\ [][Next]_vars

=============================================================================
