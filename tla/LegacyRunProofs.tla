--------------------------- MODULE LegacyRunProofs ---------------------------
(***************************************************************************)
(* Proofs about LegacyRun, for any number of requests, runs and contracts. *)
(* The argument is one of ownership: the number of a start is held by its  *)
(* run request, then by the continuation, then by the one decision that    *)
(* took it, and is never in two of these places.                           *)
(***************************************************************************)
EXTENDS LegacyRun, WalkProofs, TLAPS

OnRun(k, r) == request[k].at # "idle" /\ request[k].run = r

\* The number of the start a request works on.
Number(k) == IF request[k].at = "continue" THEN request[k].held.no ELSE request[k].snapshot.no

\* Whether it is the request that began the run, rather than a decision.
Begins(k) == request[k].at \in {"store", "insert"} /\ request[k].snapshot.decision = None

\* What a handler holds, point by point.
Holds(q) ==
  /\ q.at \in {"idle", "continue", "store", "insert"}
  /\ q.at = "continue" => q.decision \in Decisions
  /\ q.at = "insert" => q.snapshot.status = "blocked"
  /\ q.at \in {"store", "insert"} /\ q.snapshot.status = "blocked" => q.snapshot.decision = None

Shapes ==
  /\ started \in [RunIds -> Nat]
  /\ decisions \in [RunIds -> Seq([no : Nat, decision : Decisions])]
  /\ DOMAIN pending = RunIds /\ DOMAIN snapshots = RunIds /\ DOMAIN request = Workers
  /\ \A k \in Workers : Holds(request[k])

Numbered ==
  /\ \A k \in Workers : request[k].at # "idle" =>
       request[k].run \in RunIds /\ Number(k) \in 1 .. started[request[k].run]
  /\ \A r \in RunIds :
       /\ pending[r] # None => pending[r].no \in 1 .. started[r]
       /\ \A i \in DOMAIN decisions[r] : decisions[r][i].no \in 1 .. started[r]
       /\ snapshots[r] # None => snapshots[r].no \in 1 .. started[r]

\* No two requests work on one start, and none on one that waits.
OneOwner ==
  \A r \in RunIds : \A k \in Workers : OnRun(k, r) =>
    /\ \A j \in Workers \ {k} : OnRun(j, r) => Number(j) # Number(k)
    /\ pending[r] # None => pending[r].no # Number(k)

\* What was decided is in no other place: neither at its start nor waiting.
Undecided ==
  \A r \in RunIds : \A i \in DOMAIN decisions[r] :
    /\ \A k \in Workers : OnRun(k, r) /\ Begins(k) => decisions[r][i].no # Number(k)
    /\ pending[r] # None => decisions[r][i].no # pending[r].no

\* What a decision has left on record is in nobody's hands any more.
Settled ==
  \A r \in RunIds : snapshots[r] # None /\ snapshots[r].decision # None =>
    /\ \A k \in Workers : OnRun(k, r) => Number(k) # snapshots[r].no
    /\ pending[r] # None => pending[r].no # snapshots[r].no

Ownership == Shapes /\ Numbered /\ OneOwner /\ Undecided /\ Settled /\ DecisionTakenOnce

-----------------------------------------------------------------------------

\* Nothing has begun, so nothing is owned.
LEMMA InitOwnership == Init => Ownership
BY DEF Init, Idle, Ownership, Shapes, Holds, Numbered, OneOwner, Undecided, Settled, DecisionTakenOnce,
       OnRun, Number, Begins

\* A step that leaves requests, continuations, snapshots and history alone.
LEMMA RegisterOwnership ==
  ASSUME Ownership, NEW c, NEW f, Register(c, f)
  PROVE  Ownership'
<1>1. UNCHANGED <<pending, snapshots, request, started, decisions>>
  BY DEF Register
<1>2. Shapes' /\ Numbered'
  BY <1>1 DEF Ownership, Shapes, Numbered, Number
<1>3. OneOwner'
  BY <1>1 DEF Ownership, OneOwner, OnRun, Number
<1>4. Undecided'
  BY <1>1 DEF Ownership, Undecided, OnRun, Number, Begins
<1>5. Settled' /\ DecisionTakenOnce'
  BY <1>1 DEF Ownership, Settled, DecisionTakenOnce, OnRun, Number
<1> QED
  BY <1>2, <1>3, <1>4, <1>5 DEF Ownership

\* A restart takes away owners and adds none.
LEMMA RestartOwnership ==
  ASSUME Ownership, Restart
  PROVE  Ownership'
<1>1. /\ \A k \in Workers : request'[k].at = "idle" /\ Holds(request'[k])
      /\ \A r \in RunIds : pending'[r] = None
      /\ DOMAIN request' = Workers /\ DOMAIN pending' = RunIds
      /\ UNCHANGED <<snapshots, started, decisions>>
  BY DEF Restart, Idle, Holds
<1>2. Shapes'
  BY <1>1 DEF Ownership, Shapes
<1>3. Numbered'
  BY <1>1 DEF Ownership, Shapes, Numbered
<1>4. OneOwner' /\ Settled'
  BY <1>1 DEF OneOwner, Settled, OnRun
<1>5. Undecided' /\ DecisionTakenOnce'
  BY <1>1 DEF Ownership, Undecided, DecisionTakenOnce, OnRun
<1> QED
  BY <1>2, <1>3, <1>4, <1>5 DEF Ownership

\* A run request gets a number nobody has had.
LEMMA RunOwnership ==
  ASSUME Ownership, NEW k \in Workers, NEW r \in RunIds, NEW c, NEW o, Run(k, r, c, o)
  PROVE  Ownership'
<1>1. PICK w : request' = [request EXCEPT ![k] =
                 [at |-> "store", run |-> r, contract |-> c,
                  snapshot |-> Snapshot(started[r] + 1, None, contracts[c], o, w)]]
  BY DEF Run, Set
<1>2. /\ request[k].at = "idle"
      /\ started' = [started EXCEPT ![r] = @ + 1]
      /\ UNCHANGED <<pending, snapshots, decisions>>
  BY DEF Run, Idle
<1>3. /\ \A j \in Workers \ {k} : request'[j] = request[j]
      /\ request'[k].at = "store" /\ request'[k].run = r
      /\ request'[k].snapshot.no = started[r] + 1
      /\ request'[k].snapshot.decision = None
      /\ DOMAIN request' = Workers
  BY <1>1 DEF Ownership, Shapes, Snapshot
<1>4. /\ \A x \in RunIds : started'[x] \in Nat /\ started[x] \in Nat /\ started'[x] >= started[x]
      /\ started'[r] = started[r] + 1
  BY <1>2 DEF Ownership, Shapes
<1>5. Shapes'
  <2>1. started' \in [RunIds -> Nat]
    BY <1>2, <1>4 DEF Ownership, Shapes
  <2>2. Holds(request'[k])
    BY <1>3 DEF Holds
  <2>3. \A j \in Workers : Holds(request'[j])
    BY <1>3, <2>2 DEF Ownership, Shapes
  <2> QED
    BY <1>2, <1>3, <2>1, <2>3 DEF Ownership, Shapes
<1>6. /\ Number(k)' = started[r] + 1
      /\ \A j \in Workers \ {k} : Number(j)' = Number(j)
  BY <1>3 DEF Number
<1>7. \A j \in Workers, x \in RunIds :
        OnRun(j, x)' => (j = k /\ x = r) \/ (j # k /\ OnRun(j, x))
  BY <1>3 DEF OnRun
<1>8. /\ \A j \in Workers : OnRun(j, r) => Number(j) <= started[r] /\ Number(j) \in Nat
      /\ pending[r] # None => pending[r].no <= started[r] /\ pending[r].no \in Nat
      /\ snapshots[r] # None => snapshots[r].no <= started[r] /\ snapshots[r].no \in Nat
      /\ \A i \in DOMAIN decisions[r] : decisions[r][i].no <= started[r]
                                         /\ decisions[r][i].no \in Nat
  BY <1>4 DEF Ownership, Numbered, OnRun
<1>9. Numbered'
  <2>1. \A j \in Workers : request'[j].at # "idle" =>
          request'[j].run \in RunIds /\ Number(j)' \in 1 .. started'[request'[j].run]
    BY <1>3, <1>4, <1>6 DEF Ownership, Numbered
  <2>2. \A x \in RunIds :
          /\ pending'[x] # None => pending'[x].no \in 1 .. started'[x]
          /\ \A i \in DOMAIN decisions'[x] : decisions'[x][i].no \in 1 .. started'[x]
          /\ snapshots'[x] # None => snapshots'[x].no \in 1 .. started'[x]
    BY <1>2, <1>4 DEF Ownership, Numbered
  <2> QED
    BY <2>1, <2>2 DEF Numbered
<1>10. OneOwner'
  BY <1>2, <1>4, <1>6, <1>7, <1>8 DEF Ownership, OneOwner
<1>11. Undecided'
  BY <1>2, <1>3, <1>4, <1>6, <1>7, <1>8 DEF Ownership, Undecided, Begins
<1>12. Settled'
  BY <1>2, <1>4, <1>6, <1>7, <1>8 DEF Ownership, Settled
<1>13. DecisionTakenOnce'
  BY <1>2 DEF Ownership, DecisionTakenOnce
<1> QED
  BY <1>5, <1>9, <1>10, <1>11, <1>12, <1>13 DEF Ownership

\* A request that ends gives up its number; nobody else's changes.
LEMMA FinishFacts ==
  ASSUME Ownership, NEW k \in Workers, Finish(k)
  PROVE  /\ \A j \in Workers \ {k} : request'[j] = request[j]
         /\ request'[k].at = "idle" /\ Holds(request'[k])
         /\ DOMAIN request' = Workers
         /\ \A j \in Workers \ {k} : Number(j)' = Number(j) /\ (Begins(j)' <=> Begins(j))
         /\ ~Begins(k)'
         /\ \A j \in Workers, x \in RunIds : OnRun(j, x)' => j # k /\ OnRun(j, x)
BY DEF Finish, Set, Idle, Ownership, Shapes, Holds, Number, Begins, OnRun

\* A request that goes on with the same number and begins no run it did not
\* begin before.
Keeps(k) ==
  /\ \A j \in Workers \ {k} : request'[j] = request[j]
  /\ DOMAIN request' = Workers
  /\ request[k].at # "idle" /\ Holds(request'[k])
  /\ request'[k].run = request[k].run
  /\ Number(k)' = Number(k)
  /\ Begins(k)' => Begins(k)

LEMMA KeepsFacts ==
  ASSUME NEW k \in Workers, Keeps(k)
  PROVE  /\ \A j \in Workers : Number(j)' = Number(j) /\ (Begins(j)' => Begins(j))
         /\ \A j \in Workers, x \in RunIds : OnRun(j, x)' => OnRun(j, x)
BY DEF Keeps, Number, Begins, OnRun

\* Requests that end or go on, with nothing else changed but a snapshot whose
\* number is nobody's, keep the invariant.
LEMMA ServedOwnership ==
  ASSUME Ownership, NEW k \in Workers, Finish(k) \/ Keeps(k),
         UNCHANGED <<pending, started, decisions>>,
         DOMAIN snapshots' = RunIds,
         \A x \in RunIds : snapshots'[x] = snapshots[x] \/
           /\ snapshots'[x].no \in 1 .. started[x]
           /\ snapshots'[x].decision # None =>
                 /\ \A j \in Workers : OnRun(j, x)' => Number(j)' # snapshots'[x].no
                 /\ pending[x] # None => pending[x].no # snapshots'[x].no
  PROVE  Ownership'
<1>1. /\ \A j \in Workers : OnRun(j, request[j].run)' => Number(j)' = Number(j)
      /\ \A j \in Workers, x \in RunIds : OnRun(j, x)' =>
           OnRun(j, x) /\ Number(j)' = Number(j) /\ (Begins(j)' => Begins(j))
  <2>1. CASE Finish(k)
    BY <2>1, FinishFacts DEF OnRun
  <2>2. CASE Keeps(k)
    BY <2>2, KeepsFacts
  <2> QED
    BY <2>1, <2>2
<1>2. Shapes'
  <2>1. DOMAIN request' = Workers /\ \A j \in Workers : Holds(request'[j])
    <3>1. CASE Finish(k)
      BY <3>1, FinishFacts DEF Ownership, Shapes
    <3>2. CASE Keeps(k)
      BY <3>2 DEF Keeps, Ownership, Shapes
    <3> QED
      BY <3>1, <3>2
  <2> QED
    BY <2>1 DEF Ownership, Shapes
<1>3. Numbered'
  <2>1. \A j \in Workers : request'[j].at # "idle" =>
          request'[j].run \in RunIds /\ Number(j)' \in 1 .. started[request'[j].run]
    <3>1. CASE Finish(k)
      BY <3>1, FinishFacts DEF Ownership, Numbered
    <3>2. CASE Keeps(k)
      BY <3>2, KeepsFacts DEF Keeps, Ownership, Numbered
    <3> QED
      BY <3>1, <3>2
  <2>2. \A x \in RunIds : snapshots'[x] # None => snapshots'[x].no \in 1 .. started[x]
    BY DEF Ownership, Numbered
  <2> QED
    BY <2>1, <2>2 DEF Ownership, Numbered
<1>4. OneOwner'
  BY <1>1 DEF Ownership, OneOwner
<1>5. Undecided'
  BY <1>1 DEF Ownership, Undecided
<1>6. Settled'
  BY <1>1 DEF Ownership, Settled
<1>7. DecisionTakenOnce'
  BY DEF Ownership, DecisionTakenOnce
<1> QED
  BY <1>2, <1>3, <1>4, <1>5, <1>6, <1>7 DEF Ownership

\* A decision works on with the continuation it took, or gives up.
LEMMA DecideOwnership ==
  ASSUME Ownership, NEW k \in Workers, Decide(k)
  PROVE  Ownership'
<1>1. /\ request[k].at = "continue"
      /\ UNCHANGED <<pending, snapshots, started, decisions>>
  BY DEF Decide
<1>2. Finish(k) \/ Keeps(k)
  <2>1. CASE ~Finish(k)
    <3>1. PICK f, w : request' = [request EXCEPT ![k] =
            [at |-> "store", run |-> request[k].run, contract |-> request[k].held.contract,
             snapshot |-> Snapshot(request[k].held.no, request[k].decision, f,
                                   request[k].held.outcomes, w)]]
      BY <2>1 DEF Decide, Set
    <3>3. /\ request'[k].at = "store" /\ request'[k].run = request[k].run
          /\ request'[k].snapshot.no = request[k].held.no
          /\ request'[k].snapshot.decision = request[k].decision
          /\ request'[k].snapshot.status = "blocked" => request[k].decision = None
          /\ \A j \in Workers \ {k} : request'[j] = request[j]
          /\ DOMAIN request' = Workers
      BY <3>1 DEF Snapshot, Ownership, Shapes
    <3>2. request[k].decision # None
      BY <1>1, NoneAssumption DEF Ownership, Shapes, Holds, Decisions
    <3> QED
      BY <1>1, <3>2, <3>3 DEF Keeps, Holds, Number, Begins
  <2> QED
    BY <2>1
<1>3. DOMAIN snapshots' = RunIds
  BY <1>1 DEF Ownership, Shapes
<1> QED
  BY <1>1, <1>2, <1>3, ServedOwnership

\* What is stored is the request's own snapshot: a decision's request ends with
\* it, and a start's is no decision.
LEMMA StoreOwnership ==
  ASSUME Ownership, NEW k \in Workers, Store(k)
  PROVE  Ownership'
<1>1. PICK r, s : /\ r \in RunIds /\ r = request[k].run /\ s = request[k].snapshot
                 /\ s.no = Number(k) /\ s.no \in 1 .. started[r] /\ OnRun(k, r)
  BY DEF Store, Ownership, Numbered, Number, OnRun
<1>2. /\ request[k].at = "store"
      /\ UNCHANGED <<pending, started, decisions>>
      /\ \/ snapshots' = [snapshots EXCEPT ![r] = s] /\ (Finish(k) \/ s.decision = None)
         \/ Finish(k) /\ UNCHANGED snapshots
      /\ Finish(k) \/ (/\ request' = [request EXCEPT ![k] = [request[k] EXCEPT !.at = "insert"]]
                       /\ s.status = "blocked" /\ s.decision = None)
  BY <1>1 DEF Store, Set, Ownership, Shapes, Holds
<1>3. Finish(k) \/ Keeps(k)
  <2>1. CASE /\ request' = [request EXCEPT ![k] = [request[k] EXCEPT !.at = "insert"]]
             /\ s.status = "blocked" /\ s.decision = None
    <3>1. /\ request'[k].at = "insert" /\ request'[k].run = request[k].run
          /\ request'[k].snapshot = request[k].snapshot
          /\ \A j \in Workers \ {k} : request'[j] = request[j]
          /\ DOMAIN request' = Workers
      BY <1>2, <2>1 DEF Ownership, Shapes
    <3> QED
      BY <1>1, <1>2, <2>1, <3>1 DEF Keeps, Holds, Number, Begins
  <2> QED
    BY <1>2, <2>1
<1>4. /\ DOMAIN snapshots' = RunIds
      /\ \A x \in RunIds : x # r => snapshots'[x] = snapshots[x]
      /\ snapshots'[r] = snapshots[r] \/ (snapshots'[r] = s /\ (Finish(k) \/ s.decision = None))
  BY <1>1, <1>2 DEF Ownership, Shapes
<1>5. pending[r] # None => pending[r].no # s.no
  BY <1>1 DEF Ownership, OneOwner
<1>6. ASSUME Finish(k), NEW j \in Workers, OnRun(j, r)'
      PROVE  Number(j)' # s.no
  BY <1>1, <1>6, FinishFacts DEF Ownership, OneOwner
<1>7. \A x \in RunIds : snapshots'[x] = snapshots[x] \/
           /\ snapshots'[x].no \in 1 .. started[x]
           /\ snapshots'[x].decision # None =>
                 /\ \A j \in Workers : OnRun(j, x)' => Number(j)' # snapshots'[x].no
                 /\ pending[x] # None => pending[x].no # snapshots'[x].no
  BY <1>1, <1>4, <1>5, <1>6
<1> QED
  BY <1>2, <1>3, <1>4, <1>7, ServedOwnership

\* The number of the start passes from its request to the continuation.
LEMMA InsertOwnership ==
  ASSUME Ownership, NEW k \in Workers, Insert(k)
  PROVE  Ownership'
<1>1. /\ request[k].at = "insert" /\ Finish(k) /\ Begins(k)
      /\ UNCHANGED <<snapshots, started, decisions>>
  BY DEF Insert, Ownership, Shapes, Holds, Begins
<1>2. PICK r \in RunIds, n \in Nat : /\ r = request[k].run /\ n = request[k].snapshot.no
                                    /\ n = Number(k) /\ n \in 1 .. started[r] /\ OnRun(k, r)
  BY <1>1 DEF Ownership, Shapes, Numbered, Number, OnRun
<1>3. /\ pending'[r].no = n
      /\ \A x \in RunIds : x # r => pending'[x] = pending[x]
      /\ DOMAIN pending' = RunIds
  BY <1>1, <1>2 DEF Insert, Ownership, Shapes
<1>4. Shapes'
  <2>1. \A j \in Workers : j = k \/ request'[j] = request[j]
    BY <1>1, FinishFacts
  <2> QED
    BY <1>1, <1>3, <2>1, FinishFacts DEF Ownership, Shapes
<1>5. Numbered'
  <2>1. \A j \in Workers : request'[j].at # "idle" =>
          request'[j].run \in RunIds /\ Number(j)' \in 1 .. started[request'[j].run]
    BY <1>1, FinishFacts DEF Ownership, Numbered
  <2> QED
    BY <1>1, <1>2, <1>3, <2>1 DEF Ownership, Numbered
<1>6. \A j \in Workers, x \in RunIds : OnRun(j, x)' =>
        j # k /\ OnRun(j, x) /\ Number(j)' = Number(j) /\ (Begins(j)' => Begins(j))
  BY <1>1, FinishFacts
<1>7. \A j \in Workers : OnRun(j, r)' => Number(j)' # n
  BY <1>1, <1>2, <1>6 DEF Ownership, OneOwner
<1>8. OneOwner'
  BY <1>3, <1>6, <1>7 DEF Ownership, OneOwner
<1>9. Undecided'
  <2>1. \A i \in DOMAIN decisions[r] : decisions[r][i].no # n
    BY <1>1, <1>2 DEF Ownership, Undecided
  <2> QED
    BY <1>1, <1>3, <1>6, <2>1 DEF Ownership, Undecided
<1>10. Settled'
  <2>1. snapshots[r] # None /\ snapshots[r].decision # None => snapshots[r].no # n
    BY <1>1, <1>2 DEF Ownership, Settled
  <2> QED
    BY <1>1, <1>3, <1>6, <2>1 DEF Ownership, Settled
<1>11. DecisionTakenOnce'
  BY <1>1 DEF Ownership, DecisionTakenOnce
<1> QED
  BY <1>4, <1>5, <1>8, <1>9, <1>10, <1>11 DEF Ownership

\* Appending leaves what was there and adds one element at the end.
LEMMA AppendFacts ==
  ASSUME NEW S, NEW q \in Seq(S), NEW e \in S, NEW p, p = Append(q, e)
  PROVE  /\ p \in Seq(S) /\ p[Len(q) + 1] = e
         /\ \A i \in DOMAIN p : i = Len(q) + 1 \/ (i # Len(q) + 1 /\ i \in DOMAIN q /\ p[i] = q[i])
OBVIOUS

\* The number passes from the continuation to the request that decides; no
\* decision has had it before.
LEMMA TakeOwnership ==
  ASSUME Ownership, NEW k \in Workers, NEW r \in RunIds, NEW d \in Decisions, Take(k, r, d)
  PROVE  Ownership'
<1> DEFINE n == pending[r].no
<1>1. /\ request[k].at = "idle" /\ pending[r] # None
      /\ request' = [request EXCEPT ![k] = [at |-> "continue", run |-> r, decision |-> d,
                                            held |-> pending[r]]]
      /\ pending' = [pending EXCEPT ![r] = None]
      /\ decisions' = [decisions EXCEPT ![r] = Append(@, [no |-> n, decision |-> d])]
      /\ UNCHANGED <<snapshots, started>>
  BY DEF Take, Set, Idle
<1>2. /\ \A j \in Workers \ {k} : request'[j] = request[j]
      /\ request'[k].at = "continue" /\ request'[k].run = r
      /\ request'[k].decision = d /\ request'[k].held = pending[r]
      /\ DOMAIN request' = Workers
  BY <1>1 DEF Ownership, Shapes
<1>3. /\ pending'[r] = None /\ DOMAIN pending' = RunIds
      /\ \A x \in RunIds : x # r => pending'[x] = pending[x]
  BY <1>1 DEF Ownership, Shapes
<1>4. n \in 1 .. started[r] /\ n \in Nat
  BY <1>1 DEF Ownership, Shapes, Numbered
<1>5. \A x \in RunIds : x # r => decisions'[x] = decisions[x]
  BY <1>1 DEF Ownership, Shapes
<1>6. /\ decisions' \in [RunIds -> Seq([no : Nat, decision : Decisions])]
      /\ \A i \in DOMAIN decisions'[r] :
           \/ i = Len(decisions[r]) + 1 /\ decisions'[r][i].no = n
           \/ /\ i # Len(decisions[r]) + 1 /\ i \in DOMAIN decisions[r]
              /\ decisions'[r][i].no = decisions[r][i].no
  <2>1. /\ decisions[r] \in Seq([no : Nat, decision : Decisions])
        /\ decisions'[r] = Append(decisions[r], [no |-> n, decision |-> d])
        /\ [no |-> n, decision |-> d] \in [no : Nat, decision : Decisions]
    BY <1>1, <1>4 DEF Ownership, Shapes
  <2>2. /\ decisions'[r] \in Seq([no : Nat, decision : Decisions])
        /\ decisions'[r][Len(decisions[r]) + 1] = [no |-> n, decision |-> d]
        /\ \A i \in DOMAIN decisions'[r] :
             \/ i = Len(decisions[r]) + 1
             \/ /\ i # Len(decisions[r]) + 1 /\ i \in DOMAIN decisions[r]
                /\ decisions'[r][i] = decisions[r][i]
    BY <2>1, AppendFacts
  <2>3. /\ DOMAIN decisions' = RunIds
        /\ decisions' = [x \in RunIds |-> decisions'[x]]
    BY <1>1 DEF Ownership, Shapes
  <2>4. decisions' \in [RunIds -> Seq([no : Nat, decision : Decisions])]
    <3>1. \A x \in RunIds : decisions'[x] \in Seq([no : Nat, decision : Decisions])
      BY <1>5, <2>2 DEF Ownership, Shapes
    <3> DEFINE S == Seq([no : Nat, decision : Decisions])
    <3> HIDE DEF S
    <3>2. \A x \in RunIds : decisions'[x] \in S
      BY <3>1 DEF S
    <3>3. decisions' \in [RunIds -> S]
      BY <2>3, <3>2
    <3> QED
      BY <3>3 DEF S
  <2>5. [no |-> n, decision |-> d].no = n
    OBVIOUS
  <2> QED
    BY <2>2, <2>4, <2>5
<1> HIDE DEF n
<1>7. \A i \in DOMAIN decisions[r] : decisions[r][i].no # n
  BY <1>1 DEF Ownership, Undecided, n
<1>8. /\ Number(k)' = n /\ ~Begins(k)'
      /\ \A j \in Workers \ {k} : Number(j)' = Number(j) /\ (Begins(j)' <=> Begins(j))
      /\ \A j \in Workers, x \in RunIds : OnRun(j, x)' =>
           (j = k /\ x = r) \/ (j # k /\ OnRun(j, x))
  BY <1>2 DEF Number, Begins, OnRun, n
<1>9. \A j \in Workers : OnRun(j, r) => Number(j) # n
  BY <1>1 DEF Ownership, OneOwner, n
<1>10. Shapes'
  <2>1. Holds(request'[k])
    BY <1>2 DEF Holds
  <2> QED
    BY <1>1, <1>2, <1>3, <1>6, <2>1 DEF Ownership, Shapes
<1>11. Numbered'
  <2>1. \A j \in Workers : request'[j].at # "idle" =>
          request'[j].run \in RunIds /\ Number(j)' \in 1 .. started[request'[j].run]
    BY <1>2, <1>4, <1>8 DEF Ownership, Numbered
  <2>2. \A x \in RunIds : \A i \in DOMAIN decisions'[x] : decisions'[x][i].no \in 1 .. started[x]
    <3> TAKE x \in RunIds
    <3>2. CASE x = r
      BY <1>4, <1>6, <3>2 DEF Ownership, Numbered
    <3>3. CASE x # r
      BY <1>5, <3>3 DEF Ownership, Numbered
    <3> QED
      BY <3>2, <3>3
  <2>3. \A x \in RunIds : pending'[x] # None => pending'[x].no \in 1 .. started[x]
    BY <1>3 DEF Ownership, Numbered
  <2> QED
    BY <1>1, <2>1, <2>2, <2>3 DEF Ownership, Numbered
<1>12. OneOwner'
  BY <1>3, <1>8, <1>9 DEF Ownership, OneOwner
<1>13. Undecided'
  <2>1. ASSUME NEW x \in RunIds, NEW i \in DOMAIN decisions'[x],
               NEW j \in Workers, OnRun(j, x)', Begins(j)'
        PROVE  decisions'[x][i].no # Number(j)'
    <3>1. j # k /\ OnRun(j, x) /\ Begins(j) /\ Number(j)' = Number(j)
      BY <1>8, <2>1
    <3>2. CASE x = r
      BY <1>6, <1>9, <3>1, <3>2 DEF Ownership, Undecided
    <3>3. CASE x # r
      BY <1>5, <3>1, <3>3 DEF Ownership, Undecided
    <3> QED
      BY <3>2, <3>3
  <2>2. \A x \in RunIds : \A i \in DOMAIN decisions'[x] :
          pending'[x] # None => decisions'[x][i].no # pending'[x].no
    <3>1. \A x \in RunIds : x # r => decisions'[x] = decisions[x] /\ pending'[x] = pending[x]
      BY <1>3, <1>5
    <3> QED
      BY <1>3, <3>1 DEF Ownership, Undecided
  <2> QED
    BY <2>1, <2>2 DEF Undecided
<1>14. Settled'
  <2>1. snapshots[r] # None /\ snapshots[r].decision # None => snapshots[r].no # n
    BY <1>1 DEF Ownership, Settled, n
  <2> QED
    BY <1>1, <1>3, <1>8, <2>1 DEF Ownership, Settled
<1>15. DecisionTakenOnce'
  <2>1. \A x \in RunIds : x # r => \A i, j \in DOMAIN decisions'[x] :
          decisions'[x][i].no = decisions'[x][j].no => i = j
    BY <1>5 DEF Ownership, DecisionTakenOnce
  <2>2. \A i, j \in DOMAIN decisions'[r] : decisions'[r][i].no = decisions'[r][j].no => i = j
    BY <1>6, <1>7 DEF Ownership, DecisionTakenOnce
  <2> QED
    BY <2>1, <2>2 DEF DecisionTakenOnce
<1> QED
  BY <1>10, <1>11, <1>12, <1>13, <1>14, <1>15 DEF Ownership

-----------------------------------------------------------------------------

\* The ownership invariant holds of every state the endpoints reach.
THEOREM OwnershipAlways == Spec => []Ownership
<1>1. ASSUME Ownership, [Next]_vars PROVE Ownership'
  <2>1. CASE UNCHANGED vars
    <3>1. UNCHANGED <<pending, snapshots, request, started, decisions>>
      BY <2>1 DEF vars, code
    <3>2. Shapes' /\ Numbered'
      BY <1>1, <3>1 DEF Ownership, Shapes, Numbered, Number
    <3>3. OneOwner' /\ Settled'
      BY <1>1, <3>1 DEF Ownership, OneOwner, Settled, OnRun, Number
    <3>4. Undecided' /\ DecisionTakenOnce'
      BY <1>1, <3>1 DEF Ownership, Undecided, DecisionTakenOnce, OnRun, Number, Begins
    <3> QED
      BY <3>2, <3>3, <3>4 DEF Ownership
  <2>2. CASE \E c \in Contracts, f \in Candidates : Register(c, f)
    BY <1>1, <2>2, RegisterOwnership
  <2>3. CASE \E k \in Workers, r \in RunIds, c \in Contracts, o \in OutcomeMaps : Run(k, r, c, o)
    BY <1>1, <2>3, RunOwnership
  <2>4. CASE \E k \in Workers : Store(k) \/ Insert(k) \/ Decide(k)
    BY <1>1, <2>4, StoreOwnership, InsertOwnership, DecideOwnership
  <2>5. CASE \E k \in Workers, r \in RunIds, d \in Decisions : Take(k, r, d)
    BY <1>1, <2>5, TakeOwnership
  <2>6. CASE Restart
    BY <1>1, <2>6, RestartOwnership
  <2> QED
    BY <1>1, <2>1, <2>2, <2>3, <2>4, <2>5, <2>6 DEF Next
<1> QED
  BY <1>1, InitOwnership, PTL DEF Spec

\* Whatever the clients send and however their requests overlap, a continuation
\* is spent by one decision.
THEOREM DecisionTakenOnceAlways == Spec => []DecisionTakenOnce
<1>1. Ownership => DecisionTakenOnce
  BY DEF Ownership
<1> QED
  BY <1>1, OwnershipAlways, PTL

\* The evidence of a decision stays: whatever stores over it has the number of
\* another start, since what was decided is in nobody's hands any more.
THEOREM DecisionSnapshotStaysAlways == Spec => DecisionSnapshotStays
<1> DEFINE Stays(r) == snapshots[r] # None /\ snapshots[r].decision # None
                         /\ snapshots'[r] # snapshots[r] => snapshots'[r].no # snapshots[r].no
<1>1. ASSUME Ownership, [Next]_vars, NEW r \in RunIds PROVE Stays(r)
  <2>1. CASE UNCHANGED snapshots
    BY <2>1
  <2>2. ASSUME NEW k \in Workers, Store(k) PROVE Stays(r)
    <3>1. CASE snapshots'[r] = snapshots[r]
      BY <3>1
    <3>2. CASE OnRun(k, r) /\ snapshots'[r] = request[k].snapshot
      <4>1. Number(k) = snapshots'[r].no
        BY <2>2, <3>2 DEF Store, Number
      <4> QED
        BY <1>1, <3>2, <4>1 DEF Ownership, Settled
    <3> QED
      BY <1>1, <2>2, <3>1, <3>2 DEF Store, OnRun, Ownership, Shapes
  <2>3. ASSUME Next PROVE UNCHANGED snapshots \/ \E k \in Workers : Store(k)
    BY <2>3 DEF Next, Register, Run, Insert, Take, Decide, Restart
  <2> QED
    BY <1>1, <2>1, <2>2, <2>3 DEF vars, code
<1>2. Ownership /\ [Next]_vars => [\A r \in RunIds : Stays(r)]_vars
  BY <1>1
<1> QED
  BY <1>2, OwnershipAlways, PTL DEF Spec, DecisionSnapshotStays

-----------------------------------------------------------------------------
(* The walks.  Every snapshot in hand or on record holds a walk of the flow *)
(* it was begun with, and one with a decision is that of a decision a       *)
(* client took.  The interpreter's part is theorem ExecutedWalk.            *)

WellFormed(s) == /\ s \in SnapshotRecord /\ SnapshotTypeOK(s)
                 /\ Followed(s.flow, s.outcomes, s.decision, s.walk)

\* The decision d is one a client took on the start n of run r.
OnBehalf(r, n, d) ==
  d # None => \E j \in DOMAIN decisions[r] : decisions[r][j] = [no |-> n, decision |-> d]

RegistrySound == /\ contracts \in [Contracts -> LegacyFlow \cup {None}]
                 /\ \A c \in Contracts : contracts[c] # None => ValidLegacyFlow(contracts[c])

HistorySound == /\ decisions \in [RunIds -> Seq(Decision)]
                /\ started \in [RunIds -> 0 .. MaxStarts]
                /\ restarts \in 0 .. MaxRestarts

RecordsSound == /\ DOMAIN snapshots = RunIds
                /\ \A r \in RunIds : snapshots[r] # None =>
                     /\ WellFormed(snapshots[r])
                     /\ OnBehalf(r, snapshots[r].no, snapshots[r].decision)

\* A request in flight, point by point.
RequestForm(q) ==
  /\ q.at \in {"idle", "continue", "store", "insert"}
  /\ q.at # "idle" => q.run \in RunIds
  /\ q.at = "continue" => q.held \in Continuation /\ q.decision \in Decisions
  /\ q.at \in {"store", "insert"} => q.contract \in Contracts /\ WellFormed(q.snapshot)

RequestOnBehalf(q) ==
  /\ q.at = "continue" => OnBehalf(q.run, q.held.no, q.decision)
  /\ q.at \in {"store", "insert"} => OnBehalf(q.run, q.snapshot.no, q.snapshot.decision)

RequestsSound == /\ DOMAIN request = Workers
                 /\ \A k \in Workers : RequestForm(request[k]) /\ RequestOnBehalf(request[k])

WalkInv == /\ RegistrySound /\ HistorySound /\ RecordsSound /\ RequestsSound
           /\ pending \in [RunIds -> Continuation \cup {None}]

\* No decision is forgotten.
Remembers == \A r \in RunIds : \A i \in DOMAIN decisions[r] :
               i \in DOMAIN decisions'[r] /\ decisions'[r][i] = decisions[r][i]

LEMMA StaysOnBehalf ==
  ASSUME NEW r \in RunIds, NEW n, NEW d, OnBehalf(r, n, d), Remembers
  PROVE  OnBehalf(r, n, d)'
BY DEF OnBehalf, Remembers

\* A handler that leaves one request, one snapshot at most, and whatever
\* registry, continuations and history are sound, keeps the invariant.
LEMMA ServedWalks ==
  ASSUME WalkInv, NEW k \in Workers, NEW q, request' = [request EXCEPT ![k] = q],
         RequestForm(q), RequestOnBehalf(q)', Remembers,
         RegistrySound', HistorySound', pending' \in [RunIds -> Continuation \cup {None}],
         \/ snapshots' = snapshots
         \/ \E r \in RunIds : \E s :
              /\ snapshots' = [snapshots EXCEPT ![r] = s] /\ WellFormed(s)
              /\ OnBehalf(r, s.no, s.decision)'
  PROVE  WalkInv'
<1>1. /\ DOMAIN request' = Workers /\ request'[k] = q
      /\ \A j \in Workers \ {k} : request'[j] = request[j]
  BY DEF WalkInv, RequestsSound
<1>2. ASSUME NEW j \in Workers, j # k PROVE RequestForm(request[j]) /\ RequestOnBehalf(request[j])'
  <2>1. RequestForm(request[j]) /\ RequestOnBehalf(request[j])
    BY DEF WalkInv, RequestsSound
  <2>2. PICK p : p = request[j]
    OBVIOUS
  <2>3. RequestOnBehalf(p)'
    BY <2>1, <2>2, StaysOnBehalf DEF RequestOnBehalf, RequestForm
  <2>4. request'[j] = p
    BY <1>1, <1>2, <2>2
  <2> QED BY <2>1, <2>2, <2>3, <2>4
<1>3. RequestsSound'
  <2> SUFFICES ASSUME NEW j \in Workers PROVE RequestForm(request[j])' /\ RequestOnBehalf(request[j])'
    BY <1>1 DEF RequestsSound
  <2> QED BY <1>1, <1>2
<1>4. ASSUME NEW r \in RunIds, snapshots[r] # None
      PROVE  WellFormed(snapshots[r]) /\ \A n, d : n = snapshots[r].no /\ d = snapshots[r].decision => OnBehalf(r, n, d)'
  BY <1>4, StaysOnBehalf DEF WalkInv, RecordsSound
<1>5. RecordsSound'
  <2>1. CASE snapshots' = snapshots
    BY <1>4, <2>1 DEF WalkInv, RecordsSound
  <2>2. ASSUME NEW r \in RunIds, NEW s, snapshots' = [snapshots EXCEPT ![r] = s], WellFormed(s),
               OnBehalf(r, s.no, s.decision)'
        PROVE  RecordsSound'
    <3>1. /\ DOMAIN snapshots' = RunIds /\ snapshots'[r] = s
          /\ \A x \in RunIds : x # r => snapshots'[x] = snapshots[x]
      BY <2>2 DEF WalkInv, RecordsSound
    <3> QED BY <1>4, <2>2, <3>1 DEF RecordsSound
  <2> QED BY <2>1, <2>2
<1> QED BY <1>3, <1>5 DEF WalkInv

\* A snapshot made from a walk that follows the flow.
LEMMA SnapshotForm ==
  ASSUME NEW n \in 1 .. MaxStarts, NEW d \in Decisions \cup {None}, NEW f \in LegacyFlow,
         NEW o \in OutcomeMaps, NEW w, Followed(f, o, d, w), NEW s, s = Snapshot(n, d, f, o, w)
  PROVE  WellFormed(s) /\ s.no = n /\ s.decision = d
<1>1. /\ s.no = n /\ s.decision = d /\ s.flow = f /\ s.outcomes = o /\ s.walk = w
      /\ s.told = StatusOf(w) /\ s.status \in {"blocked", "completed"}
  BY DEF Snapshot
<1>2. w \in Walk
  BY DEF Followed
<1>3. StatusOf(w) \in Terminals \cup {"waiting_human"}
  BY <1>2 DEF StatusOf, Walk, Terminals
<1>4. WalkTypeOK(f, w)
  BY <1>2 DEF WalkTypeOK, Followed, Walk
<1>5. SnapshotTypeOK(s)
  BY <1>1, <1>3, <1>4 DEF SnapshotTypeOK
<1>6. s \in SnapshotRecord
  BY <1>2, <1>3 DEF Snapshot, SnapshotRecord
<1> QED BY <1>1, <1>5, <1>6 DEF WellFormed

\* A report that needs review leaves the walk's trace as it was.
LEMMA AfterFilesFollows ==
  ASSUME NEW f, NEW o, NEW d, NEW w, NEW result, Followed(f, o, d, w)
  PROVE  Followed(f, o, d, AfterFiles(f, w, result))
<1>1. PICK at : /\ at = IF EscalationStep # None /\ HasStep(f, EscalationStep)
                        THEN EscalationStep ELSE w.at
  OBVIOUS
<1>2. w \in Walk /\ at \in Steps /\ HasStep(f, at)
  BY <1>1, BoundsAssumption DEF Followed, Walk
<1>3. CASE result = "review"
  <2>1. PICK v : v = [w EXCEPT !.result = "waiting"]
    OBVIOUS
  <2>2. v \in Walk /\ v.result = "waiting" /\ v.trace = w.trace /\ v.terminal = w.terminal /\ v.at = w.at
    BY <1>2, <2>1 DEF Walk, Results
  <2>3. PICK u : u = [v EXCEPT !.at = at]
    OBVIOUS
  <2>4. u \in Walk /\ u.result = "waiting" /\ u.trace = w.trace /\ u.terminal = w.terminal /\ u.at = at
    BY <1>2, <2>2, <2>3 DEF Walk
  <2>5. AfterFiles(f, w, result) = u
    BY <1>1, <1>3, <2>1, <2>3 DEF AfterFiles
  <2>6. Followed(f, o, d, u)
    BY <1>2, <2>4 DEF Followed
  <2> QED BY <2>5, <2>6
<1>4. CASE result # "review"
  BY <1>4 DEF AfterFiles
<1> QED BY <1>3, <1>4

LEMMA InitWalks == Init => WalkInv
<1> SUFFICES ASSUME Init PROVE WalkInv
  OBVIOUS
<1>1. RegistrySound
  BY BoundsAssumption DEF Init, RegistrySound
<1>2. HistorySound
  BY BoundsAssumption DEF Init, HistorySound
<1>3. RecordsSound /\ RequestsSound
  BY DEF Init, RecordsSound, RequestsSound, RequestForm, RequestOnBehalf, Idle
<1>4. pending \in [RunIds -> Continuation \cup {None}]
  BY DEF Init
<1> QED BY <1>1, <1>2, <1>3, <1>4 DEF WalkInv

\* A step that leaves the requests and the history alone.
LEMMA RegisterWalks ==
  ASSUME WalkInv, NEW c \in Contracts, NEW f \in Candidates, Register(c, f)
  PROVE  WalkInv'
<1>1. /\ UNCHANGED <<pending, snapshots, request, started, decisions, restarts>>
      /\ contracts' = [contracts EXCEPT ![c] = f] /\ ValidLegacyFlow(f) /\ f \in LegacyFlow
  BY BoundsAssumption DEF Register
<1>2. RegistrySound'
  BY <1>1 DEF WalkInv, RegistrySound
<1>3. HistorySound' /\ RecordsSound' /\ RequestsSound'
  BY <1>1 DEF WalkInv, HistorySound, RecordsSound, RequestsSound, OnBehalf, RequestOnBehalf
<1> QED BY <1>1, <1>2, <1>3 DEF WalkInv

LEMMA RestartWalks ==
  ASSUME WalkInv, Restart
  PROVE  WalkInv'
<1>1. /\ UNCHANGED <<snapshots, started, decisions>>
      /\ request' = [k \in Workers |-> Idle] /\ pending' = [r \in RunIds |-> None]
      /\ contracts' = [c \in Contracts |-> IF c \in DOMAIN Seed THEN Seed[c] ELSE None]
      /\ restarts < MaxRestarts /\ restarts' = restarts + 1
  BY DEF Restart
<1>2. RegistrySound'
  BY <1>1, BoundsAssumption DEF RegistrySound
<1>3. HistorySound'
  BY <1>1, BoundsAssumption DEF WalkInv, HistorySound
<1>4. RecordsSound'
  BY <1>1 DEF WalkInv, RecordsSound, OnBehalf
<1>5. RequestsSound'
  BY <1>1 DEF RequestsSound, RequestForm, RequestOnBehalf, Idle
<1> QED BY <1>1, <1>2, <1>3, <1>4, <1>5 DEF WalkInv

\* A request ends, or nothing changes but the snapshots.
LEMMA IdleForm == RequestForm(Idle) /\ RequestOnBehalf(Idle)'
BY DEF RequestForm, RequestOnBehalf, Idle

LEMMA StoreWalks ==
  ASSUME WalkInv, NEW k \in Workers, Store(k)
  PROVE  WalkInv'
<1>1. PICK q, s, r : q = request[k] /\ s = q.snapshot /\ r = q.run
  OBVIOUS
<1>2. /\ q.at = "store" /\ r \in RunIds /\ q.contract \in Contracts
      /\ WellFormed(s) /\ OnBehalf(r, s.no, s.decision)
      /\ UNCHANGED <<contracts, pending, started, decisions, restarts>>
  BY <1>1 DEF Store, WalkInv, RequestsSound, RequestForm, RequestOnBehalf
<1>3. PICK p : p = [q EXCEPT !.at = "insert"]
  OBVIOUS
<1>4. \/ /\ snapshots' = [snapshots EXCEPT ![r] = s]
         /\ request' = [request EXCEPT ![k] = p] \/ request' = [request EXCEPT ![k] = Idle]
      \/ snapshots' = snapshots /\ request' = [request EXCEPT ![k] = Idle]
  BY <1>1, <1>2, <1>3 DEF Store, Set, Finish
<1>5. OnBehalf(r, s.no, s.decision)'
  BY <1>2 DEF OnBehalf
<1>6. RegistrySound' /\ HistorySound' /\ pending' \in [RunIds -> Continuation \cup {None}] /\ Remembers
  BY <1>2 DEF WalkInv, RegistrySound, HistorySound, Remembers
<1>7. RequestForm(p) /\ RequestOnBehalf(p)'
  <2>1. p.at = "insert" /\ p.run = r /\ p.contract = q.contract /\ p.snapshot = s
    BY <1>1, <1>2, <1>3
  <2> QED BY <1>2, <1>5, <2>1 DEF RequestForm, RequestOnBehalf
<1>8. CASE snapshots' = [snapshots EXCEPT ![r] = s] /\ request' = [request EXCEPT ![k] = p]
  BY <1>2, <1>5, <1>6, <1>7, <1>8, ServedWalks
<1>9. CASE snapshots' = [snapshots EXCEPT ![r] = s] /\ request' = [request EXCEPT ![k] = Idle]
  BY <1>2, <1>5, <1>6, <1>9, IdleForm, ServedWalks
<1>10. CASE snapshots' = snapshots /\ request' = [request EXCEPT ![k] = Idle]
  BY <1>6, <1>10, IdleForm, ServedWalks
<1> QED BY <1>4, <1>8, <1>9, <1>10

LEMMA InsertWalks ==
  ASSUME WalkInv, NEW k \in Workers, Insert(k)
  PROVE  WalkInv'
<1>1. PICK q, s, r : q = request[k] /\ s = q.snapshot /\ r = q.run
  OBVIOUS
<1>2. /\ q.at = "insert" /\ r \in RunIds /\ q.contract \in Contracts /\ WellFormed(s)
      /\ UNCHANGED <<contracts, snapshots, started, decisions, restarts>>
      /\ request' = [request EXCEPT ![k] = Idle]
      /\ pending' = [pending EXCEPT ![r] = [contract |-> q.contract, step |-> s.walk.at,
                                           outcomes |-> s.outcomes, no |-> s.no]]
  BY <1>1 DEF Insert, Set, Finish, WalkInv, RequestsSound, RequestForm
<1>3. s.walk.at \in Steps /\ s.outcomes \in OutcomeMaps /\ s.no \in 1 .. MaxStarts
  BY <1>2 DEF WellFormed, SnapshotRecord, Walk
<1>4. [contract |-> q.contract, step |-> s.walk.at, outcomes |-> s.outcomes, no |-> s.no] \in Continuation
  BY <1>2, <1>3 DEF Continuation
<1>5. pending' \in [RunIds -> Continuation \cup {None}]
  BY <1>2, <1>4 DEF WalkInv
<1>6. RegistrySound' /\ HistorySound' /\ Remembers
  BY <1>2 DEF WalkInv, RegistrySound, HistorySound, Remembers
<1> QED BY <1>2, <1>5, <1>6, IdleForm, ServedWalks

\* The decision is on record before the flow is walked.
LEMMA TakeWalks ==
  ASSUME WalkInv, NEW k \in Workers, NEW r \in RunIds, NEW d \in Decisions, Take(k, r, d)
  PROVE  WalkInv'
<1>1. PICK held, e, ds : /\ held = pending[r] /\ e = [no |-> held.no, decision |-> d]
                        /\ ds = Append(decisions[r], e)
  OBVIOUS
<1>2. /\ held \in Continuation
      /\ request' = [request EXCEPT ![k] = [at |-> "continue", run |-> r, decision |-> d, held |-> held]]
      /\ pending' = [pending EXCEPT ![r] = None]
      /\ decisions' = [decisions EXCEPT ![r] = ds]
      /\ UNCHANGED <<contracts, snapshots, started, restarts>>
  BY <1>1 DEF Take, Set, WalkInv
<1>3. e \in Decision /\ decisions[r] \in Seq(Decision)
  BY <1>1, <1>2 DEF Decision, Continuation, WalkInv, HistorySound
<1>4. /\ ds \in Seq(Decision) /\ ds[Len(decisions[r]) + 1] = e
      /\ Len(decisions[r]) + 1 \in DOMAIN ds
      /\ \A i \in DOMAIN decisions[r] : i \in DOMAIN ds /\ ds[i] = decisions[r][i]
  BY <1>1, <1>3
<1>5. HistorySound'
  BY <1>2, <1>4 DEF WalkInv, HistorySound
<1>6. decisions'[r] = ds /\ \A x \in RunIds : x # r => decisions'[x] = decisions[x]
  BY <1>2 DEF WalkInv, HistorySound
<1>7. Remembers
  BY <1>4, <1>6 DEF Remembers
<1>8. pending' \in [RunIds -> Continuation \cup {None}]
  BY <1>2 DEF WalkInv
<1>9. RegistrySound'
  BY <1>2 DEF WalkInv, RegistrySound
<1>10. OnBehalf(r, held.no, d)'
  BY <1>1, <1>4, <1>6 DEF OnBehalf
<1>11. PICK q : q = [at |-> "continue", run |-> r, decision |-> d, held |-> held]
  OBVIOUS
<1>12. RequestForm(q) /\ RequestOnBehalf(q)'
  BY <1>2, <1>10, <1>11 DEF RequestForm, RequestOnBehalf
<1> QED BY <1>2, <1>5, <1>7, <1>8, <1>9, <1>11, <1>12, ServedWalks

\* What a run or a decision puts in hand is what the interpreter returned.
LEMMA RunWalks ==
  ASSUME WalkInv, NEW k \in Workers, NEW r \in RunIds, NEW c \in Contracts, NEW o \in OutcomeMaps,
         Run(k, r, c, o)
  PROVE  WalkInv'
<1>1. PICK f, n : f = contracts[c] /\ n = started[r] + 1
  OBVIOUS
<1>2. PICK w : w = ExecuteContractFlow(f, f.entry, o, None)
  OBVIOUS
<1>3. PICK result : /\ w.result # "error"
                   /\ request' = [request EXCEPT ![k] = [at |-> "store", run |-> r, contract |-> c,
                        snapshot |-> Snapshot(n, None, f, o, AfterFiles(f, w, result))]]
  BY <1>1, <1>2 DEF Run, Set
<1>4. /\ f # None /\ started[r] < MaxStarts /\ started' = [started EXCEPT ![r] = @ + 1]
      /\ UNCHANGED <<contracts, pending, snapshots, decisions, restarts>>
  BY <1>1 DEF Run
<1>5. f \in LegacyFlow /\ ValidLegacyFlow(f) /\ f.entry \in Steps /\ o \in [Steps -> Outcomes]
  <2>1. f \in LegacyFlow /\ ValidLegacyFlow(f)
    BY <1>1, <1>4 DEF WalkInv, RegistrySound
  <2> QED BY <2>1, BoundsAssumption DEF LegacyFlow
<1>6. Followed(f, o, None, w)
  BY <1>2, <1>3, <1>5, ExecutedWalk
<1>7. PICK v : v = AfterFiles(f, w, result)
  OBVIOUS
<1>8. Followed(f, o, None, v)
  BY <1>6, <1>7, AfterFilesFollows
<1>9. n \in 1 .. MaxStarts /\ started' \in [RunIds -> 0 .. MaxStarts]
  BY <1>1, <1>4, BoundsAssumption DEF WalkInv, HistorySound
<1>10. PICK s : s = Snapshot(n, None, f, o, v)
  OBVIOUS
<1>11. WellFormed(s) /\ s.decision = None
  <2>1. PICK d \in Decisions \cup {None} : d = None
    OBVIOUS
  <2>2. f \in LegacyFlow /\ n \in 1 .. MaxStarts /\ Followed(f, o, d, v) /\ s = Snapshot(n, d, f, o, v)
    BY <1>5, <1>8, <1>9, <1>10, <2>1
  <2>3. WellFormed(s) /\ s.decision = d
    BY <2>2, SnapshotForm
  <2> QED BY <2>1, <2>3
<1>12. PICK q : q = [at |-> "store", run |-> r, contract |-> c, snapshot |-> s]
  OBVIOUS
<1>13. RequestForm(q) /\ RequestOnBehalf(q)'
  BY <1>11, <1>12 DEF RequestForm, RequestOnBehalf, OnBehalf
<1>14. request' = [request EXCEPT ![k] = q]
  BY <1>3, <1>7, <1>10, <1>12
<1>15. /\ RegistrySound' /\ HistorySound' /\ Remembers
      /\ pending' \in [RunIds -> Continuation \cup {None}]
  BY <1>4, <1>9 DEF WalkInv, RegistrySound, HistorySound, Remembers
<1> QED BY <1>4, <1>13, <1>14, <1>15, ServedWalks

LEMMA DecideWalks ==
  ASSUME WalkInv, NEW k \in Workers, Decide(k)
  PROVE  WalkInv'
<1>1. PICK q, held, d : q = request[k] /\ held = q.held /\ d = q.decision
  OBVIOUS
<1>2. PICK f, w : /\ f = contracts[held.contract]
                 /\ w = ExecuteContractFlow(f, held.step, held.outcomes, d)
  OBVIOUS
<1>3. /\ q.at = "continue" /\ q.run \in RunIds /\ held \in Continuation /\ d \in Decisions
      /\ OnBehalf(q.run, held.no, d)
      /\ UNCHANGED <<contracts, pending, snapshots, started, decisions, restarts>>
  BY <1>1 DEF Decide, WalkInv, RequestsSound, RequestForm, RequestOnBehalf
<1>4. \/ request' = [request EXCEPT ![k] = Idle]
      \/ /\ f # None /\ w.result # "error"
         /\ request' = [request EXCEPT ![k] =
              [at |-> "store", run |-> q.run, contract |-> held.contract,
               snapshot |-> Snapshot(held.no, d, f, held.outcomes, w)]]
  BY <1>1, <1>2 DEF Decide, Finish, Set
<1>5. /\ RegistrySound' /\ HistorySound' /\ Remembers
      /\ pending' \in [RunIds -> Continuation \cup {None}]
  BY <1>3 DEF WalkInv, RegistrySound, HistorySound, Remembers
<1>6. CASE request' = [request EXCEPT ![k] = Idle]
  BY <1>3, <1>5, <1>6, IdleForm, ServedWalks
<1>7. CASE /\ f # None /\ w.result # "error"
           /\ request' = [request EXCEPT ![k] =
                [at |-> "store", run |-> q.run, contract |-> held.contract,
                 snapshot |-> Snapshot(held.no, d, f, held.outcomes, w)]]
  <2>1. /\ held.contract \in Contracts /\ held.step \in Steps /\ held.no \in 1 .. MaxStarts
        /\ held.outcomes \in OutcomeMaps /\ held.outcomes \in [Steps -> Outcomes]
        /\ d \in {None, "approve", "reject"} /\ d \in Decisions \cup {None}
    BY <1>3, BoundsAssumption DEF Continuation, Decisions
  <2>2. f \in LegacyFlow /\ ValidLegacyFlow(f)
    BY <1>2, <1>7, <2>1 DEF WalkInv, RegistrySound
  <2>3. Followed(f, held.outcomes, d, w)
    BY <1>2, <1>7, <2>1, <2>2, ExecutedWalk
  <2>4. PICK s : s = Snapshot(held.no, d, f, held.outcomes, w)
    OBVIOUS
  <2>5. WellFormed(s) /\ s.no = held.no /\ s.decision = d
    <3>1. f \in LegacyFlow /\ held.no \in 1 .. MaxStarts /\ held.outcomes \in OutcomeMaps
          /\ d \in Decisions \cup {None}
      BY <2>1, <2>2
    <3> QED BY <2>3, <2>4, <3>1, SnapshotForm
  <2>6. PICK p : p = [at |-> "store", run |-> q.run, contract |-> held.contract, snapshot |-> s]
    OBVIOUS
  <2>7. OnBehalf(q.run, held.no, d)'
    BY <1>3 DEF OnBehalf
  <2>8. RequestForm(p) /\ RequestOnBehalf(p)'
    BY <1>3, <2>1, <2>5, <2>6, <2>7 DEF RequestForm, RequestOnBehalf
  <2>9. request' = [request EXCEPT ![k] = p]
    BY <1>7, <2>4, <2>6
  <2> QED BY <1>3, <1>5, <2>8, <2>9, ServedWalks
<1> QED BY <1>4, <1>6, <1>7

\* Every walk in hand or on record follows its flow on a client's behalf.
THEOREM WalkInvAlways == Spec => []WalkInv
<1>1. ASSUME WalkInv, [Next]_vars PROVE WalkInv'
  <2>1. CASE UNCHANGED vars
    BY <1>1, <2>1 DEF vars, code, WalkInv, RegistrySound, HistorySound, RecordsSound, RequestsSound,
                      OnBehalf, RequestOnBehalf
  <2>2. CASE \E c \in Contracts, f \in Candidates : Register(c, f)
    BY <1>1, <2>2, RegisterWalks
  <2>3. CASE \E k \in Workers, r \in RunIds, c \in Contracts, o \in OutcomeMaps : Run(k, r, c, o)
    BY <1>1, <2>3, RunWalks
  <2>4. CASE \E k \in Workers : Store(k) \/ Insert(k) \/ Decide(k)
    BY <1>1, <2>4, StoreWalks, InsertWalks, DecideWalks
  <2>5. CASE \E k \in Workers, r \in RunIds, d \in Decisions : Take(k, r, d)
    BY <1>1, <2>5, TakeWalks
  <2>6. CASE Restart
    BY <1>1, <2>6, RestartWalks
  <2> QED
    BY <1>1, <2>1, <2>2, <2>3, <2>4, <2>5, <2>6 DEF Next
<1> QED
  BY <1>1, InitWalks, PTL DEF Spec

\* The state has its type; in particular a continuation names a step, and a
\* walk in hand or on record stands on one of its flow within the hop limit.
THEOREM TypeAlwaysOK == Spec => []TypeOK
<1>1. WalkInv => TypeOK
  BY DEF WalkInv, TypeOK, RegistrySound, HistorySound, RecordsSound, RequestsSound, RequestForm, WellFormed
<1> QED BY <1>1, WalkInvAlways, PTL

\* What is in hand or on record of a run is well formed, and is on its client's behalf.
LEMMA HeldForm ==
  ASSUME WalkInv
  PROVE  /\ \A s \in InHand \cup UNION {Recorded(r) : r \in RunIds} : WellFormed(s)
         /\ \A r \in RunIds :
              \A s \in Recorded(r) \cup {request[k].snapshot : k \in {j \in Workers :
                                 request[j].at \in {"store", "insert"} /\ request[j].run = r}} :
                WellFormed(s) /\ OnBehalf(r, s.no, s.decision)
<1>1. ASSUME NEW r \in RunIds, NEW s \in Recorded(r)
      PROVE  WellFormed(s) /\ OnBehalf(r, s.no, s.decision)
  BY <1>1 DEF Recorded, WalkInv, RecordsSound
<1>2. ASSUME NEW k \in Workers, request[k].at \in {"store", "insert"}
      PROVE  WellFormed(request[k].snapshot)
             /\ OnBehalf(request[k].run, request[k].snapshot.no, request[k].snapshot.decision)
  BY <1>2 DEF WalkInv, RequestsSound, RequestForm, RequestOnBehalf
<1> QED BY <1>1, <1>2 DEF InHand

\* Where the property speaks of the first gate's decision, the walk's lemma does.
LEMMA DecidedAtIsDue ==
  ASSUME NEW s, NEW i
  PROVE  DecidedAt(s, i) <=> DecisionDue(s.flow, s.decision, s.walk.trace, i)
BY DEF DecidedAt, GateIndex, DecisionDue

\* Whatever the flow, the outcomes a client sends, the decision and the hop
\* limit, each step of a walk is the target of the one before, and the walk
\* ends where its last target leads or at the limit.
THEOREM WalkAlwaysFollowsFlow == Spec => []WalkFollowsFlow
<1>1. ASSUME WalkInv PROVE WalkFollowsFlow
  <2> SUFFICES ASSUME NEW s \in InHand \cup UNION {Recorded(r) : r \in RunIds}
               PROVE  LET t == s.walk.trace
                          Goes(i) == PickNextTarget(s.flow.steps[t[i]],
                                       IF DecidedAt(s, i) THEN s.decision ELSE s.outcomes[t[i]])
                      IN /\ \A i \in 1 .. Len(t) - 1 : t[i + 1] = Goes(i)
                         /\ s.walk.result = "ended" => \/ s.walk.terminal = Goes(Len(t))
                                                       \/ /\ s.walk.terminal = None /\ Len(t) = Hops
                                                          /\ s.walk.at = Goes(Len(t))
    BY DEF WalkFollowsFlow
  <2> DEFINE t == s.walk.trace
             Goes(i) == PickNextTarget(s.flow.steps[t[i]],
                          IF DecidedAt(s, i) THEN s.decision ELSE s.outcomes[t[i]])
  <2>1. Followed(s.flow, s.outcomes, s.decision, s.walk)
    BY <1>1, HeldForm DEF WellFormed
  <2>2. \A i : Goes(i) = Onward(s.flow, s.outcomes, s.decision, t, i)
    BY DecidedAtIsDue DEF Onward
  <2> HIDE DEF Goes
  <2>3. \A i \in 1 .. Len(t) - 1 : t[i + 1] = Goes(i)
    BY <2>1, <2>2 DEF Followed, PathOK
  <2>4. s.walk.result = "ended" => \/ s.walk.terminal = Goes(Len(t))
                                  \/ /\ s.walk.terminal = None /\ Len(t) = Hops
                                     /\ s.walk.at = Goes(Len(t))
    BY <2>1, <2>2 DEF Followed
  <2> QED BY <2>3, <2>4 DEF Goes
<1> QED BY <1>1, WalkInvAlways, PTL

\* No walk goes past a gate but on a decision a client took on that start.
THEOREM GateAlwaysPassedByDecision == Spec => []GatePassedByDecision
<1>1. ASSUME WalkInv PROVE GatePassedByDecision
  <2> SUFFICES ASSUME NEW r \in RunIds, NEW s, WellFormed(s), OnBehalf(r, s.no, s.decision),
                      NEW i \in GateIndex(s), i < Len(s.walk.trace) \/ s.walk.terminal # None
               PROVE  \E j \in DOMAIN decisions[r] :
                        decisions[r][j] = [no |-> s.no, decision |-> s.decision]
    BY <1>1, HeldForm DEF GatePassedByDecision
  <2>1. /\ s.walk.trace \in Seq(Steps) /\ Len(s.walk.trace) \in Nat
        /\ PathOK(s.flow, s.outcomes, s.decision, s.walk.trace)
        /\ s.decision = None /\ s.walk.terminal # None => ~MetGate(s.flow, s.walk.trace)
    BY DEF WellFormed, Followed, Walk
  <2>2. i \in 1 .. Len(s.walk.trace) /\ IsGate(s.flow, s.walk.trace[i])
    BY <2>1 DEF GateIndex
  <2>3. s.decision # None
    BY <2>1, <2>2 DEF PathOK, MetGate
  <2> QED BY <2>3 DEF OnBehalf
<1> QED BY <1>1, WalkInvAlways, PTL

-----------------------------------------------------------------------------
(* Runs that wait.  A blocked run on record passes from its request, which  *)
(* is about to leave the continuation, to the continuation, to a decision.  *)

Inserting(k, r) == request[k].at = "insert" /\ request[k].run = r

WaitInv ==
  \A r \in RunIds :
    /\ pending[r] # None \/ (\E k \in Workers : Inserting(k, r)) => snapshots[r] # None
    /\ snapshots[r] # None /\ snapshots[r].status = "blocked" /\ restarts = 0 =>
         pending[r] # None \/ decisions[r] # << >> \/ \E k \in Workers : Inserting(k, r)

LEMMA InitWaits == Init => WaitInv
BY DEF Init, Idle, WaitInv, Inserting

LEMMA StoreWaits ==
  ASSUME WalkInv, WaitInv, NEW k \in Workers, Store(k)
  PROVE  WaitInv'
<1>1. PICK s, x : s = request[k].snapshot /\ x = request[k].run
  OBVIOUS
<1>2. /\ request[k].at = "store" /\ x \in RunIds /\ s # None
      /\ UNCHANGED <<pending, decisions, restarts>>
  BY <1>1, NoneAssumption DEF Store, WalkInv, RequestsSound, RequestForm, WellFormed
<1>3. DOMAIN request = Workers /\ DOMAIN snapshots = RunIds
  BY DEF WalkInv, RequestsSound, RecordsSound
<1>4. \/ /\ snapshots' = [snapshots EXCEPT ![x] = s] /\ s.status = "blocked"
         /\ request' = [request EXCEPT ![k] = [request[k] EXCEPT !.at = "insert"]]
      \/ /\ snapshots' = [snapshots EXCEPT ![x] = s] /\ s.status # "blocked"
         /\ request' = [request EXCEPT ![k] = Idle]
      \/ snapshots' = snapshots /\ request' = [request EXCEPT ![k] = Idle]
  BY <1>1, <1>2 DEF Store, Set, Finish
<1>5. \A j \in Workers, r \in RunIds : j # k => (Inserting(j, r)' <=> Inserting(j, r))
  BY <1>3, <1>4 DEF Inserting
<1>6. \A r \in RunIds : ~Inserting(k, r)
  BY <1>2 DEF Inserting
<1>7. CASE /\ snapshots' = [snapshots EXCEPT ![x] = s] /\ s.status = "blocked"
           /\ request' = [request EXCEPT ![k] = [request[k] EXCEPT !.at = "insert"]]
  <2>1. \A r \in RunIds : Inserting(k, r)' <=> r = x
    BY <1>1, <1>3, <1>7 DEF Inserting
  <2>2. snapshots'[x] = s /\ \A r \in RunIds : r # x => snapshots'[r] = snapshots[r]
    BY <1>2, <1>3, <1>7
  <2> QED BY <1>2, <1>5, <1>6, <2>1, <2>2 DEF WaitInv
<1>8. CASE /\ snapshots' = [snapshots EXCEPT ![x] = s] /\ s.status # "blocked"
           /\ request' = [request EXCEPT ![k] = Idle]
  <2>1. \A r \in RunIds : ~Inserting(k, r)'
    BY <1>3, <1>8 DEF Inserting, Idle
  <2>2. snapshots'[x] = s /\ \A r \in RunIds : r # x => snapshots'[r] = snapshots[r]
    BY <1>2, <1>3, <1>8
  <2> QED BY <1>2, <1>5, <1>6, <1>8, <2>1, <2>2 DEF WaitInv
<1>9. CASE snapshots' = snapshots /\ request' = [request EXCEPT ![k] = Idle]
  <2>1. \A r \in RunIds : ~Inserting(k, r)'
    BY <1>3, <1>9 DEF Inserting, Idle
  <2> QED BY <1>2, <1>5, <1>6, <1>9, <2>1 DEF WaitInv
<1> QED BY <1>4, <1>7, <1>8, <1>9

LEMMA InsertWaits ==
  ASSUME WalkInv, WaitInv, NEW k \in Workers, Insert(k)
  PROVE  WaitInv'
<1>1. PICK s, x : s = request[k].snapshot /\ x = request[k].run
  OBVIOUS
<1>2. PICK c : c = [contract |-> request[k].contract, step |-> s.walk.at,
                    outcomes |-> s.outcomes, no |-> s.no]
  OBVIOUS
<1>3. /\ request[k].at = "insert" /\ x \in RunIds /\ Inserting(k, x)
      /\ pending' = [pending EXCEPT ![x] = c]
      /\ request' = [request EXCEPT ![k] = Idle]
      /\ UNCHANGED <<snapshots, decisions, restarts>>
  BY <1>1, <1>2 DEF Insert, Set, Finish, Inserting, WalkInv, RequestsSound, RequestForm
<1>4. c # None
  <2>1. pending'[x] \in Continuation
    <3>1. request[k].contract \in Contracts /\ s \in SnapshotRecord
      BY <1>1, <1>3 DEF WalkInv, RequestsSound, RequestForm, WellFormed
    <3>2. c \in Continuation
      BY <1>2, <3>1 DEF Continuation, SnapshotRecord, Walk
    <3>3. pending'[x] = c
      BY <1>3 DEF WalkInv
    <3> QED BY <3>2, <3>3
  <2>2. pending'[x] = c
    BY <1>3 DEF WalkInv
  <2> QED BY <2>1, <2>2, NoneAssumption
<1>5. pending'[x] = c /\ \A r \in RunIds : r # x => pending'[r] = pending[r]
  BY <1>3 DEF WalkInv
<1>6. \A j \in Workers, r \in RunIds : Inserting(j, r)' <=> (j # k /\ Inserting(j, r))
  BY <1>3 DEF Inserting, Idle, WalkInv, RequestsSound
<1>7. \A r \in RunIds : Inserting(k, r) => r = x
  BY <1>1 DEF Inserting
<1> QED BY <1>3, <1>4, <1>5, <1>6, <1>7 DEF WaitInv

Away(q) == q.at # "insert"

\* Continuations stay, but for those a decision takes.
HandsOn ==
  /\ snapshots' = snapshots /\ restarts' = restarts
  /\ \A r \in RunIds : \/ pending'[r] = pending[r] /\ decisions'[r] = decisions[r]
                       \/ pending[r] # None /\ pending'[r] = None /\ decisions'[r] # << >>

\* A handler that takes no run from "insert" and changes no snapshot.
LEMMA OtherWaits ==
  ASSUME WalkInv, WaitInv, NEW k \in Workers, NEW q, Away(q), Away(request[k]),
         request' = [request EXCEPT ![k] = q], HandsOn
  PROVE  WaitInv'
<1>1. \A j \in Workers, r \in RunIds : Inserting(j, r)' <=> Inserting(j, r)
  BY DEF Inserting, Away, WalkInv, RequestsSound
<1> QED BY <1>1 DEF WaitInv, HandsOn

LEMMA TakeWaits ==
  ASSUME WalkInv, WaitInv, NEW k \in Workers, NEW x \in RunIds, NEW d \in Decisions, Take(k, x, d)
  PROVE  WaitInv'
<1>1. PICK q, e : /\ q = [at |-> "continue", run |-> x, decision |-> d, held |-> pending[x]]
                 /\ e = [no |-> pending[x].no, decision |-> d]
  OBVIOUS
<1>2. /\ request[k] = Idle /\ pending[x] # None
      /\ request' = [request EXCEPT ![k] = q] /\ pending' = [pending EXCEPT ![x] = None]
      /\ decisions' = [decisions EXCEPT ![x] = Append(@, e)]
      /\ UNCHANGED <<snapshots, restarts>>
  BY <1>1 DEF Take, Set
<1>3. Away(q) /\ Away(request[k])
  BY <1>1, <1>2 DEF Away, Idle
<1>4. /\ e \in Decision /\ decisions[x] \in Seq(Decision)
      /\ decisions'[x] = Append(decisions[x], e)
      /\ \A r \in RunIds : r # x => decisions'[r] = decisions[r]
  BY <1>1, <1>2 DEF WalkInv, HistorySound, Decision, Continuation
<1>5. decisions'[x] # << >>
  BY <1>4
<1>6. pending'[x] = None /\ \A r \in RunIds : r # x => pending'[r] = pending[r]
  BY <1>2 DEF WalkInv
<1>7. HandsOn
  BY <1>2, <1>4, <1>5, <1>6 DEF HandsOn
<1> QED BY <1>2, <1>3, <1>7, OtherWaits

LEMMA RunWaits ==
  ASSUME WalkInv, WaitInv, NEW k \in Workers, NEW r, NEW c, NEW o, Run(k, r, c, o)
  PROVE  WaitInv'
<1>1. PICK s : request' = [request EXCEPT ![k] = [at |-> "store", run |-> r, contract |-> c, snapshot |-> s]]
  BY DEF Run, Set
<1>2. PICK q : q = [at |-> "store", run |-> r, contract |-> c, snapshot |-> s]
  OBVIOUS
<1>3. /\ Away(request[k]) /\ Away(q) /\ request' = [request EXCEPT ![k] = q]
      /\ UNCHANGED <<pending, snapshots, decisions, restarts>>
  BY <1>1, <1>2 DEF Away, Run, Idle
<1>4. HandsOn
  BY <1>3 DEF HandsOn
<1> QED BY <1>3, <1>4, OtherWaits

LEMMA DecideWaits ==
  ASSUME WalkInv, WaitInv, NEW k \in Workers, Decide(k)
  PROVE  WaitInv'
<1>1. PICK q : request' = [request EXCEPT ![k] = q] /\ Away(q)
  <2>1. CASE Finish(k)
    <3>1. request' = [request EXCEPT ![k] = Idle] /\ Away(Idle)
      BY <2>1 DEF Finish, Set, Away, Idle
    <3> QED BY <3>1
  <2>2. CASE ~Finish(k)
    <3>1. PICK x, c, s : request' = [request EXCEPT ![k] = [at |-> "store", run |-> x, contract |-> c, snapshot |-> s]]
      BY <2>2 DEF Decide, Set
    <3>2. Away([at |-> "store", run |-> x, contract |-> c, snapshot |-> s])
      BY DEF Away
    <3> QED BY <3>1, <3>2
  <2> QED BY <2>1, <2>2
<1>2. /\ Away(request[k])
      /\ UNCHANGED <<pending, snapshots, decisions, restarts>>
  BY DEF Decide, Away
<1>3. HandsOn
  BY <1>2 DEF HandsOn
<1> QED BY <1>1, <1>2, <1>3, OtherWaits

\* A run that waits is on record, and one on record as blocked waits, is about
\* to, or was decided.
THEOREM WaitInvAlways == Spec => []WaitInv
<1>1. ASSUME WalkInv, WaitInv, [Next]_vars PROVE WaitInv'
  <2>1. CASE UNCHANGED vars
    BY <1>1, <2>1 DEF vars, code, WaitInv, Inserting
  <2>2. CASE \E c \in Contracts, f \in Candidates : Register(c, f)
    BY <1>1, <2>2 DEF Register, WaitInv, Inserting
  <2>3. CASE \E k \in Workers, r \in RunIds, c \in Contracts, o \in OutcomeMaps : Run(k, r, c, o)
    BY <1>1, <2>3, RunWaits
  <2>4. CASE \E k \in Workers : Store(k) \/ Insert(k) \/ Decide(k)
    BY <1>1, <2>4, StoreWaits, InsertWaits, DecideWaits
  <2>5. CASE \E k \in Workers, r \in RunIds, d \in Decisions : Take(k, r, d)
    BY <1>1, <2>5, TakeWaits
  <2>6. CASE Restart
    <3>1. restarts' # 0 /\ \A r \in RunIds : pending'[r] = None /\ \A k \in Workers : ~Inserting(k, r)'
      BY <1>1, <2>6 DEF Restart, Inserting, Idle, WalkInv, HistorySound
    <3> QED BY <3>1 DEF WaitInv
  <2> QED
    BY <1>1, <2>1, <2>2, <2>3, <2>4, <2>5, <2>6 DEF Next
<1> QED
  BY <1>1, InitWaits, WalkInvAlways, PTL DEF Spec

\* A run that can be decided is on record, also when the store fails now and then.
THEOREM WaitingRunAlwaysPersisted == Spec => []WaitingRunPersisted
<1>1. WaitInv => WaitingRunPersisted
  BY DEF WaitInv, WaitingRunPersisted
<1> QED BY <1>1, WaitInvAlways, PTL

\* No run on record as blocked is lost but to a decision or a restart.
THEOREM BlockedRunAlwaysDecidable == Spec => []BlockedRunDecidable
<1>1. WaitInv => BlockedRunDecidable
  <2> SUFFICES ASSUME WaitInv, NEW r \in RunIds,
                      snapshots[r] # None, snapshots[r].status = "blocked", restarts = 0,
                      \A k \in Workers : request[k] # Idle => request[k].run # r
               PROVE  pending[r] # None \/ decisions[r] # << >>
    BY DEF BlockedRunDecidable
  <2>1. \A k \in Workers : ~Inserting(k, r)
    BY DEF Inserting, Idle
  <2> QED BY <2>1 DEF WaitInv
<1> QED BY <1>1, WaitInvAlways, PTL

=============================================================================
