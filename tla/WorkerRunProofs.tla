---------------------------- MODULE WorkerRunProofs ----------------------------
(***************************************************************************)
(* Proofs about WorkerRun, for any number of isolates, requests, runs and  *)
(* contracts, however requests overlap, whatever reads lag and whichever   *)
(* writes fail, and whether or not evidence expires.                       *)
(***************************************************************************)
EXTENDS WorkerRun, WalkProofs, TLAPS

-----------------------------------------------------------------------------
(* What every place holds *)

CellOf(S) == [latest : S, visible : SUBSET S]

\* What a place may ever have been told, wherever it is.
Held(cell) == cell.visible \cup {cell.latest}

Contract == {a \in Admitted : ValidLegacyFlow(a.flow)}

\* An index and a contract may share one entry, that of the contract IndexId.
Entry == Contract \cup Index \cup {None}

Place(c) == IF c = IndexId THEN Contract \cup Index ELSE Contract \cup {None}

\* A continuation waits at a gate of the flow that was walked.
Pending == {held \in RunState : AtGate(held)}

\* What a snapshot says of the walk it was made from.
Told(s) == s.status = "blocked" => s.decision = None /\ s.walk.result = "waiting"

Evidence == {s \in SnapshotRecord : /\ SnapshotTypeOK(s) /\ Told(s)
                                    /\ Followed(s.flow, s.outcomes, s.decision, s.walk)
                                    /\ PausedAtGate(s.flow, s.decision, s.walk)}

Memory == [contracts : [Contracts -> Contract \cup {None}], runs : [RunIds -> Pending \cup {None}]]

Namespace == {n \in [contracts : [Contracts -> CellOf(Entry)],
                     runs      : [RunIds -> CellOf(Pending \cup {None})],
                     snapshots : [RunIds -> CellOf(Evidence \cup {None})]] :
                \A c \in Contracts : n.contracts[c] \in CellOf(Place(c))}

\* What a handler holds, by where it stands.
Registering == [at : {"put contract", "get index", "put index"}, on : Isolates,
                contract : Contracts, admitted : Contract, ids : SUBSET Contracts]

Asking == [at : {"get run"}, on : Isolates, run : RunIds, decision : Decisions]

Resolving == [at : {"run", "continue", "get contract", "body"}, on : Isolates, run : RunIds,
              contract : Contracts, outcomes : OutcomeMaps, decision : Decisions \cup {None},
              step : Steps \cup {None}, no : 1 .. MaxStarts, admitted : Contract \cup {None}]

Keeping == [at : {"store", "put run", "delete run"}, on : Isolates, run : RunIds,
            contract : Contracts, snapshot : Evidence]

InHand == {Idle} \cup Registering \cup Asking \cup Resolving \cup Keeping

Recorded == [RunIds -> SUBSET [no : 1 .. MaxStarts, decision : Decisions]]

FiledSets == [RunIds -> SUBSET [no : 1 .. MaxStarts, decision : Decisions \cup {None}]]

Typed == /\ memory \in [Isolates -> Memory] /\ kv \in Namespace
         /\ request \in [Workers -> InHand]
         /\ registered \in 0 .. MaxRegistrations
         /\ started \in [RunIds -> 0 .. MaxStarts]
         /\ decisions \in Recorded /\ filed \in FiledSets

\* The decision d is one a client sent for the start n of run r.
OnBehalf(r, n, d) == d # None => [no |-> n, decision |-> d] \in decisions[r]

\* The evidence of the start n of run r was stored, and may have expired.
OnRecord(r, n) == [no |-> n, decision |-> None] \in filed[r]

\* What is known of a request in flight besides its form.
Registrant(q) ==
  /\ q.at = "get index" => kv.contracts[q.contract].latest # None
  /\ q.at = "put index" => \A c \in q.ids \ {IndexId} : kv.contracts[c].latest # None

Resolver(q) ==
  /\ OnBehalf(q.run, q.no, q.decision)
  /\ q.decision # None => q.step \in Steps /\ q.at # "body"
  /\ q.at = "body" => q.admitted # None

Keeper(q) ==
  /\ OnBehalf(q.run, q.snapshot.no, q.snapshot.decision)
  /\ q.at = "put run" => OnRecord(q.run, q.snapshot.no) /\ q.snapshot.status = "blocked"

Sound(q) == /\ q \in Registering => Registrant(q)
            /\ q \in Resolving => Resolver(q)
            /\ q \in Keeping => Keeper(q)

EvidenceOnBehalf ==
  \A r \in RunIds : \A s \in Held(kv.snapshots[r]) : s # None => OnBehalf(r, s.no, s.decision)

Names(v) == v \in Index => \A c \in v.ids \ {IndexId} : kv.contracts[c].latest # None

IndexSound == \A v \in Held(kv.contracts[IndexId]) : Names(v)

RequestsSound == \A k \in Workers : Sound(request[k])

WorkerInv == Typed /\ RequestsSound /\ EvidenceOnBehalf /\ IndexSound /\ ContinuationOnRecord

-----------------------------------------------------------------------------
(* Cells, maps and records *)

LEMMA WrittenCell ==
  ASSUME NEW S, NEW cell \in CellOf(S), NEW v \in S, NEW new, new = Written(cell, v)
  PROVE  new \in CellOf(S) /\ new.latest = v /\ Held(new) \subseteq Held(cell) \cup {v}
BY EventualAssumption DEF CellOf, Written, Held

LEMMA SettledCell ==
  ASSUME NEW S, NEW cell \in CellOf(S), NEW new, new = Settled(cell)
  PROVE  new \in CellOf(S) /\ new.latest = cell.latest /\ Held(new) \subseteq Held(cell)
BY DEF CellOf, Settled, Cell, Held

\* The points of the handlers tell the forms of requests apart.
LEMMA FormsAt ==
  /\ \A q \in Registering : q.at \in {"put contract", "get index", "put index"}
  /\ \A q \in Asking : q.at = "get run"
  /\ \A q \in Resolving : q.at \in {"run", "continue", "get contract", "body"}
  /\ \A q \in Keeping : q.at \in {"store", "put run", "delete run"}
  /\ Idle.at = "idle"
<1>1. \A q \in Registering : q.at \in {"put contract", "get index", "put index"}
  BY DEF Registering
<1>2. \A q \in Asking : q.at = "get run"
  BY DEF Asking
<1>3. \A q \in Resolving : q.at \in {"run", "continue", "get contract", "body"}
  BY DEF Resolving
<1>4. \A q \in Keeping : q.at \in {"store", "put run", "delete run"}
  BY DEF Keeping
<1>5. Idle.at = "idle"
  BY DEF Idle
<1> QED BY <1>1, <1>2, <1>3, <1>4, <1>5

LEMMA FormsApart ==
  /\ \A q \in Registering : q \notin Asking /\ q \notin Resolving /\ q \notin Keeping /\ q # Idle
  /\ \A q \in Asking : q \notin Resolving /\ q \notin Keeping /\ q # Idle
  /\ \A q \in Resolving : q \notin Keeping /\ q # Idle
  /\ \A q \in Keeping : q # Idle
BY FormsAt

\* A list of ids is no contract.
LEMMA IndexApart == \A a \in Admitted : a \notin Index
<1>1. ASSUME NEW a \in Admitted, a \in Index PROVE FALSE
  <2>1. DOMAIN a = {"flow", "no"}
    BY DEF Admitted
  <2>2. DOMAIN a = {"ids"}
    BY <1>1 DEF Index
  <2> QED BY <2>1, <2>2
<1> QED BY <1>1

LEMMA PlaceIs ==
  /\ \A c : Place(c) \subseteq Entry
  /\ \A c : Contract \subseteq Place(c)
  /\ Index \subseteq Place(IndexId)
BY DEF Place, Entry

\* The entry of a contract, or the index, is written.
LEMMA PutEntryKV ==
  ASSUME kv \in Namespace, NEW c \in Contracts, NEW v \in Place(c),
         kv' = [kv EXCEPT !.contracts[c] = Written(@, v)]
  PROVE  /\ kv' \in Namespace /\ kv'.runs = kv.runs /\ kv'.snapshots = kv.snapshots
         /\ kv'.contracts[c].latest = v
         /\ Held(kv'.contracts[c]) \subseteq Held(kv.contracts[c]) \cup {v}
         /\ \A b \in Contracts : b # c => kv'.contracts[b] = kv.contracts[b]
<1>1. PICK cell, m : /\ cell = Written(kv.contracts[c], v)
                    /\ m = [kv.contracts EXCEPT ![c] = cell]
  OBVIOUS
<1>2. kv' = [kv EXCEPT !.contracts = m]
  BY <1>1
<1>3. kv.contracts \in [Contracts -> CellOf(Entry)] /\ v \in Entry
      /\ \A b \in Contracts : kv.contracts[b] \in CellOf(Place(b))
  BY PlaceIs DEF Namespace
<1>4. /\ cell \in CellOf(Place(c)) /\ cell.latest = v
      /\ Held(cell) \subseteq Held(kv.contracts[c]) \cup {v}
  <2>1. kv.contracts[c] \in CellOf(Place(c))
    BY <1>3
  <2> QED BY <1>1, <2>1, WrittenCell
<1>5. cell \in CellOf(Entry)
  BY <1>4, PlaceIs DEF CellOf
<1>6. /\ m \in [Contracts -> CellOf(Entry)] /\ m[c] = cell
      /\ \A b \in Contracts : b # c => m[b] = kv.contracts[b]
  BY <1>1, <1>3, <1>5
<1>7. \A b \in Contracts : m[b] \in CellOf(Place(b))
  BY <1>3, <1>4, <1>6
<1>8. /\ kv'.contracts = m /\ kv'.runs = kv.runs /\ kv'.snapshots = kv.snapshots
      /\ kv' \in Namespace
  BY <1>2, <1>6, <1>7 DEF Namespace
<1> QED BY <1>4, <1>6, <1>8

LEMMA PutRunKV ==
  ASSUME kv \in Namespace, NEW r \in RunIds, NEW v \in Pending \cup {None},
         kv' = [kv EXCEPT !.runs[r] = Written(@, v)]
  PROVE  /\ kv' \in Namespace
         /\ kv'.contracts = kv.contracts /\ kv'.snapshots = kv.snapshots
         /\ kv'.runs[r].latest = v
         /\ Held(kv'.runs[r]) \subseteq Held(kv.runs[r]) \cup {v}
         /\ \A x \in RunIds : x # r => kv'.runs[x] = kv.runs[x]
<1>1. PICK cell, m : cell = Written(kv.runs[r], v) /\ m = [kv.runs EXCEPT ![r] = cell]
  OBVIOUS
<1>2. kv' = [kv EXCEPT !.runs = m]
  BY <1>1
<1> DEFINE S == Pending \cup {None}
<1>3. kv.runs \in [RunIds -> CellOf(S)] /\ v \in S
  BY DEF Namespace
<1> HIDE DEF S
<1>4. cell \in CellOf(S) /\ cell.latest = v /\ Held(cell) \subseteq Held(kv.runs[r]) \cup {v}
  <2>1. kv.runs[r] \in CellOf(S)
    BY <1>3
  <2> QED BY <1>1, <1>3, <2>1, WrittenCell
<1>5. /\ m \in [RunIds -> CellOf(S)] /\ m[r] = cell
      /\ \A x \in RunIds : x # r => m[x] = kv.runs[x]
  BY <1>1, <1>3, <1>4
<1>6. /\ kv' \in Namespace /\ kv'.runs = m
      /\ kv'.contracts = kv.contracts /\ kv'.snapshots = kv.snapshots
  BY <1>2, <1>5 DEF Namespace, S
<1> QED BY <1>4, <1>5, <1>6

LEMMA PutSnapshotKV ==
  ASSUME kv \in Namespace, NEW r \in RunIds, NEW s \in Evidence \cup {None},
         kv' = [kv EXCEPT !.snapshots[r] = Written(@, s)]
  PROVE  /\ kv' \in Namespace
         /\ kv'.contracts = kv.contracts /\ kv'.runs = kv.runs
         /\ kv'.snapshots[r].latest = s
         /\ Held(kv'.snapshots[r]) \subseteq Held(kv.snapshots[r]) \cup {s}
         /\ \A x \in RunIds : x # r => kv'.snapshots[x] = kv.snapshots[x]
<1>1. PICK cell, m : cell = Written(kv.snapshots[r], s) /\ m = [kv.snapshots EXCEPT ![r] = cell]
  OBVIOUS
<1>2. kv' = [kv EXCEPT !.snapshots = m]
  BY <1>1
<1> DEFINE S == Evidence \cup {None}
<1>3. kv.snapshots \in [RunIds -> CellOf(S)] /\ s \in S
  BY DEF Namespace
<1> HIDE DEF S
<1>4. /\ cell \in CellOf(S) /\ cell.latest = s
      /\ Held(cell) \subseteq Held(kv.snapshots[r]) \cup {s}
  <2>1. kv.snapshots[r] \in CellOf(S)
    BY <1>3
  <2> QED BY <1>1, <1>3, <2>1, WrittenCell
<1>5. /\ m \in [RunIds -> CellOf(S)] /\ m[r] = cell
      /\ \A x \in RunIds : x # r => m[x] = kv.snapshots[x]
  BY <1>1, <1>3, <1>4
<1>6. /\ kv' \in Namespace /\ kv'.snapshots = m
      /\ kv'.contracts = kv.contracts /\ kv'.runs = kv.runs
  BY <1>2, <1>5 DEF Namespace, S
<1> QED BY <1>4, <1>5, <1>6

LEMMA SettleRunKV ==
  ASSUME kv \in Namespace, NEW r \in RunIds,
         kv' = [kv EXCEPT !.runs[r] = Settled(@), !.snapshots[r] = Settled(@)]
  PROVE  /\ kv' \in Namespace
         /\ kv'.contracts = kv.contracts
         /\ \A x \in RunIds : /\ Held(kv'.runs[x]) \subseteq Held(kv.runs[x])
                              /\ kv'.runs[x].latest = kv.runs[x].latest
                              /\ Held(kv'.snapshots[x]) \subseteq Held(kv.snapshots[x])
                              /\ kv'.snapshots[x].latest = kv.snapshots[x].latest
<1>1. PICK a, b, m, n, mid :
         /\ a = Settled(kv.runs[r]) /\ m = [kv.runs EXCEPT ![r] = a]
         /\ b = Settled(kv.snapshots[r]) /\ n = [kv.snapshots EXCEPT ![r] = b]
         /\ mid = [kv EXCEPT !.runs = m]
  OBVIOUS
<1>2. kv' = [mid EXCEPT !.snapshots = n]
  <2>1. kv' = [[kv EXCEPT !.runs[r] = Settled(@)] EXCEPT !.snapshots[r] = Settled(@)]
    OBVIOUS
  <2>2. [kv EXCEPT !.runs[r] = Settled(@)] = mid
    BY <1>1
  <2>3. mid.snapshots = kv.snapshots
    BY <1>1 DEF Namespace
  <2> QED BY <1>1, <2>1, <2>2, <2>3
<1> DEFINE S == Pending \cup {None}
           E == Evidence \cup {None}
<1>3. kv.runs \in [RunIds -> CellOf(S)] /\ kv.snapshots \in [RunIds -> CellOf(E)]
  BY DEF Namespace
<1> HIDE DEF S, E
<1>4. a \in CellOf(S) /\ Held(a) \subseteq Held(kv.runs[r]) /\ a.latest = kv.runs[r].latest
  <2>1. kv.runs[r] \in CellOf(S)
    BY <1>3
  <2> QED BY <1>1, <2>1, SettledCell
<1>5. b \in CellOf(E) /\ Held(b) \subseteq Held(kv.snapshots[r]) /\ b.latest = kv.snapshots[r].latest
  <2>1. kv.snapshots[r] \in CellOf(E)
    BY <1>3
  <2> QED BY <1>1, <2>1, SettledCell
<1>6. /\ m \in [RunIds -> CellOf(S)] /\ m[r] = a
      /\ \A x \in RunIds : x # r => m[x] = kv.runs[x]
  BY <1>1, <1>3, <1>4
<1>7. /\ n \in [RunIds -> CellOf(E)] /\ n[r] = b
      /\ \A x \in RunIds : x # r => n[x] = kv.snapshots[x]
  BY <1>1, <1>3, <1>5
<1>8. mid \in Namespace /\ mid.runs = m /\ mid.contracts = kv.contracts
  BY <1>1, <1>6 DEF Namespace, S
<1>9. /\ kv' \in Namespace /\ kv'.runs = m /\ kv'.snapshots = n
      /\ kv'.contracts = kv.contracts
  BY <1>2, <1>7, <1>8 DEF Namespace, E
<1> QED BY <1>4, <1>5, <1>6, <1>7, <1>9

LEMMA SettleContractKV ==
  ASSUME kv \in Namespace, NEW c \in Contracts,
         kv' = [kv EXCEPT !.contracts[c] = Settled(@)]
  PROVE  /\ kv' \in Namespace /\ kv'.runs = kv.runs /\ kv'.snapshots = kv.snapshots
         /\ \A x \in Contracts : /\ kv'.contracts[x].latest = kv.contracts[x].latest
                                 /\ Held(kv'.contracts[x]) \subseteq Held(kv.contracts[x])
<1>1. PICK cell, m : cell = Settled(kv.contracts[c]) /\ m = [kv.contracts EXCEPT ![c] = cell]
  OBVIOUS
<1>2. kv' = [kv EXCEPT !.contracts = m]
  BY <1>1
<1>3. /\ kv.contracts \in [Contracts -> CellOf(Entry)]
      /\ \A b \in Contracts : kv.contracts[b] \in CellOf(Place(b))
  BY DEF Namespace
<1>4. /\ cell \in CellOf(Place(c)) /\ cell.latest = kv.contracts[c].latest
      /\ Held(cell) \subseteq Held(kv.contracts[c])
  <2>1. kv.contracts[c] \in CellOf(Place(c))
    BY <1>3
  <2> QED BY <1>1, <2>1, SettledCell
<1>5. cell \in CellOf(Entry)
  BY <1>4, PlaceIs DEF CellOf
<1>6. /\ m \in [Contracts -> CellOf(Entry)] /\ m[c] = cell
      /\ \A x \in Contracts : x # c => m[x] = kv.contracts[x]
  BY <1>1, <1>3, <1>5
<1>7. \A b \in Contracts : m[b] \in CellOf(Place(b))
  BY <1>3, <1>4, <1>6
<1>8. /\ kv'.contracts = m /\ kv'.runs = kv.runs /\ kv'.snapshots = kv.snapshots
      /\ kv' \in Namespace
  BY <1>2, <1>6, <1>7 DEF Namespace
<1> QED BY <1>4, <1>6, <1>8

-----------------------------------------------------------------------------
(* One step keeps what it does not touch *)

\* No contract is unstored, and no decision or evidence is forgotten.
Grows ==
  /\ \A c \in Contracts : kv.contracts[c].latest # None => kv'.contracts[c].latest # None
  /\ \A r \in RunIds : decisions[r] \subseteq decisions'[r] /\ filed[r] \subseteq filed'[r]
  /\ decisions \in Recorded => decisions' \in Recorded
  /\ filed \in FiledSets => filed' \in FiledSets

LEMMA StaysSound ==
  ASSUME NEW q \in InHand, Sound(q), Grows
  PROVE  Sound(q)'
<1>1. CASE q \in Registering
  <2>1. Registrant(q)'
    BY <1>1 DEF Sound, Registrant, Grows, Registering
  <2> QED BY <1>1, <2>1, FormsApart DEF Sound
<1>2. CASE q \in Resolving
  <2>1. Resolver(q)'
    BY <1>2 DEF Sound, Resolver, OnBehalf, Grows, Resolving
  <2> QED BY <1>2, <2>1, FormsApart DEF Sound
<1>3. CASE q \in Keeping
  <2>1. Keeper(q)'
    BY <1>3 DEF Sound, Keeper, OnBehalf, OnRecord, Grows, Keeping
  <2> QED BY <1>3, <2>1, FormsApart DEF Sound
<1>4. CASE q \notin Registering /\ q \notin Resolving /\ q \notin Keeping
  BY <1>4 DEF Sound
<1> QED BY <1>1, <1>2, <1>3, <1>4

\* A handler that leaves its request in a sound state.
LEMMA ServedRequests ==
  ASSUME WorkerInv, NEW k \in Workers, NEW q \in InHand, Sound(q)', Grows,
         request' = [request EXCEPT ![k] = q]
  PROVE  request' \in [Workers -> InHand] /\ RequestsSound'
<1>1. request \in [Workers -> InHand]
  BY DEF WorkerInv, Typed
<1>2. /\ request' \in [Workers -> InHand] /\ request'[k] = q
      /\ \A j \in Workers : j # k => request'[j] = request[j]
  BY <1>1
<1>3. ASSUME NEW j \in Workers PROVE Sound(request[j])'
  <2>1. CASE j = k
    BY <1>2, <2>1
  <2>2. CASE j # k
    <3>1. PICK p \in InHand : p = request[j]
      BY <1>1
    <3>2. Sound(p)
      BY <3>1 DEF WorkerInv, RequestsSound
    <3>3. Sound(p)'
      BY <3>2, StaysSound
    <3> QED BY <1>2, <2>2, <3>1, <3>3
  <2> QED BY <2>1, <2>2
<1> QED BY <1>2, <1>3 DEF RequestsSound

LEMMA RecordKept ==
  ASSUME WorkerInv, Grows,
         \A r \in RunIds : \A held \in Continuations(r)' :
           held \in Continuations(r) \/ [no |-> held.no, decision |-> None] \in filed'[r]
  PROVE  ContinuationOnRecord'
BY DEF WorkerInv, Grows, ContinuationOnRecord

LEMMA ContinuationsKept ==
  ASSUME kv'.runs = kv.runs, NEW r,
         \A i \in Isolates : memory'[i].runs[r] \in {memory[i].runs[r], None}
  PROVE  Continuations(r)' \subseteq Continuations(r)
BY DEF Continuations

\* A handler that changes its request, the isolate's maps and the history.
LEMMA NamespaceKept ==
  ASSUME WorkerInv, Grows, kv' = kv
  PROVE  kv' \in Namespace /\ EvidenceOnBehalf' /\ IndexSound'
<1>1. kv' \in Namespace
  BY DEF WorkerInv, Typed
<1>2. EvidenceOnBehalf'
  BY DEF WorkerInv, EvidenceOnBehalf, OnBehalf, Grows
<1>3. IndexSound'
  BY DEF WorkerInv, IndexSound, Names
<1> QED BY <1>1, <1>2, <1>3

LEMMA HeldTyped ==
  ASSUME WorkerInv
  PROVE  /\ kv \in Namespace
         /\ \A c \in Contracts : /\ Held(kv.contracts[c]) \subseteq Place(c)
                                /\ kv.contracts[c].latest \in Held(kv.contracts[c])
                                /\ kv.contracts[c].visible \subseteq Held(kv.contracts[c])
         /\ \A r \in RunIds : /\ Held(kv.runs[r]) \subseteq Pending \cup {None}
                             /\ Held(kv.snapshots[r]) \subseteq Evidence \cup {None}
         /\ \A i \in Isolates : memory[i] \in Memory
         /\ \A i \in Isolates, c \in Contracts : memory[i].contracts[c] \in Contract \cup {None}
         /\ \A i \in Isolates, r \in RunIds : memory[i].runs[r] \in Pending \cup {None}
<1>1. kv \in Namespace /\ memory \in [Isolates -> Memory]
  BY DEF WorkerInv, Typed
<1>2. \A c \in Contracts : kv.contracts[c] \in CellOf(Place(c))
  BY <1>1 DEF Namespace
<1>4. \A r \in RunIds : /\ kv.runs[r] \in CellOf(Pending \cup {None})
                       /\ kv.snapshots[r] \in CellOf(Evidence \cup {None})
  BY <1>1 DEF Namespace
<1>5. \A c \in Contracts : /\ Held(kv.contracts[c]) \subseteq Place(c)
                          /\ kv.contracts[c].latest \in Held(kv.contracts[c])
                          /\ kv.contracts[c].visible \subseteq Held(kv.contracts[c])
  BY <1>2 DEF CellOf, Held
<1>7. \A r \in RunIds : Held(kv.runs[r]) \subseteq Pending \cup {None}
  BY <1>4 DEF CellOf, Held
<1>8. \A r \in RunIds : Held(kv.snapshots[r]) \subseteq Evidence \cup {None}
  BY <1>4 DEF CellOf, Held
<1>9. \A i \in Isolates : memory[i] \in Memory
  BY <1>1
<1>10. \A i \in Isolates : /\ \A c \in Contracts : memory[i].contracts[c] \in Contract \cup {None}
                           /\ \A r \in RunIds : memory[i].runs[r] \in Pending \cup {None}
  BY <1>9 DEF Memory
<1> QED BY <1>1, <1>5, <1>7, <1>8, <1>9, <1>10

-----------------------------------------------------------------------------
(* What the handlers go on with *)

LEMMA IdleSound == Idle \in InHand /\ Sound(Idle)'
BY FormsApart DEF InHand, Sound

\* A walk that was not an error is of its flow, and keeps whose it is.
LEMMA WalkedSound ==
  ASSUME NEW q \in Resolving, NEW f \in LegacyFlow, ValidLegacyFlow(f),
         q.decision # None => q.step \in Steps,
         OnBehalf(q.run, q.no, q.decision)', NEW p, p = Walked(q, f)
  PROVE  p \in InHand /\ Sound(p)'
<1>1. PICK start, w : /\ start = IF q.decision = None THEN f.entry ELSE q.step
                     /\ w = ExecuteContractFlow(f, start, q.outcomes, q.decision)
  OBVIOUS
<1>2. /\ q.outcomes \in OutcomeMaps /\ q.decision \in Decisions \cup {None}
      /\ q.no \in 1 .. MaxStarts /\ q.run \in RunIds /\ q.contract \in Contracts /\ q.on \in Isolates
  BY DEF Resolving
<1>3. start \in Steps /\ q.outcomes \in [Steps -> Outcomes] /\ q.decision \in {None, "approve", "reject"}
  BY <1>1, <1>2, WorkerBounds DEF LegacyFlow, Decisions
<1>4. CASE w.result = "error"
  <2>1. p = Idle
    BY <1>1, <1>4 DEF Walked
  <2> QED BY <2>1, IdleSound
<1>5. CASE w.result # "error"
  <2>1. Followed(f, q.outcomes, q.decision, w) /\ PausedAtGate(f, q.decision, w)
    BY <1>1, <1>3, <1>5, ExecutedWalk
  <2>2. PICK s : s = Snapshot(q, f, w)
    OBVIOUS
  <2>3. /\ s.no = q.no /\ s.decision = q.decision /\ s.flow = f /\ s.outcomes = q.outcomes
        /\ s.walk = w /\ s.status \in {"blocked", "completed"} /\ Told(s)
    BY <2>2 DEF Snapshot, Told
  <2>4. w \in Walk
    BY <2>1 DEF Followed
  <2>5. s \in SnapshotRecord
    BY <1>2, <2>2, <2>4 DEF Snapshot, SnapshotRecord
  <2>6. SnapshotTypeOK(s)
    BY <1>2, <2>1, <2>3, <2>4 DEF SnapshotTypeOK, Followed, Walk
  <2>7. s \in Evidence
    BY <2>1, <2>3, <2>5, <2>6 DEF Evidence
  <2>8. p = [at |-> "store", on |-> q.on, run |-> q.run, contract |-> q.contract, snapshot |-> s]
    BY <1>1, <1>5, <2>2 DEF Walked
  <2>9. p \in Keeping /\ p.run = q.run /\ p.snapshot = s /\ p.at = "store"
    BY <1>2, <2>7, <2>8 DEF Keeping
  <2>10. Keeper(p)'
    BY <2>3, <2>9 DEF Keeper
  <2> QED BY <2>9, <2>10, FormsApart DEF InHand, Sound
<1> QED BY <1>4, <1>5

LEMMA WithContractSound ==
  ASSUME NEW q \in Resolving, NEW a \in Contract, Resolver(q)', NEW p, p = WithContract(q, a)
  PROVE  p \in InHand /\ Sound(p)'
<1>1. CASE q.decision = None
  <2>1. PICK m : m = [q EXCEPT !.at = "body"]
    OBVIOUS
  <2>2. m \in Resolving /\ m.at = "body" /\ m.decision = None
    BY <1>1, <2>1 DEF Resolving
  <2>3. p = [m EXCEPT !.admitted = a]
    BY <1>1, <2>1 DEF WithContract
  <2>4. a # None
    BY NoneAssumption DEF Contract
  <2>5. p \in Resolving /\ p.at = "body" /\ p.decision = None /\ p.admitted = a
    BY <2>2, <2>3 DEF Resolving
  <2>6. Resolver(p)'
    BY <2>4, <2>5 DEF Resolver, OnBehalf
  <2> QED BY <2>5, <2>6, FormsApart DEF InHand, Sound
<1>2. CASE q.decision # None
  <2>1. p = Walked(q, a.flow) /\ q.step \in Steps
    BY <1>2 DEF WithContract, Resolver
  <2>2. a.flow \in LegacyFlow /\ ValidLegacyFlow(a.flow)
    BY DEF Contract, Admitted
  <2>3. OnBehalf(q.run, q.no, q.decision)'
    BY DEF Resolver
  <2> QED BY <2>1, <2>2, <2>3, WalkedSound
<1> QED BY <1>1, <1>2

LEMMA ResolvedSound ==
  ASSUME WorkerInv, NEW i \in Isolates, NEW q \in Resolving, Resolver(q)',
         NEW p, p = Resolved(i, q)
  PROVE  p \in InHand /\ Sound(p)'
<1>1. q.contract \in Contracts
  BY DEF Resolving
<1>2. PICK a \in Contract \cup {None} : a = memory[i].contracts[q.contract]
  BY <1>1, HeldTyped
<1>3. CASE a # None
  BY <1>2, <1>3, WithContractSound DEF Resolved
<1>4. CASE a = None
  <2>1. p = [q EXCEPT !.at = "get contract"]
    BY <1>2, <1>4 DEF Resolved
  <2>2. /\ p \in Resolving /\ p.at = "get contract" /\ p.run = q.run /\ p.no = q.no
        /\ p.decision = q.decision /\ p.step = q.step
    BY <2>1 DEF Resolving
  <2>3. Resolver(p)'
    BY <2>2 DEF Resolver
  <2> QED BY <2>2, <2>3, FormsApart DEF InHand, Sound
<1> QED BY <1>3, <1>4

-----------------------------------------------------------------------------
(* The steps *)

LEMMA ServedInv ==
  ASSUME WorkerInv, NEW k \in Workers, NEW q \in InHand, Sound(q)', Grows,
         request' = [request EXCEPT ![k] = q],
         memory' \in [Isolates -> Memory], kv' \in Namespace,
         registered' \in 0 .. MaxRegistrations, started' \in [RunIds -> 0 .. MaxStarts],
         EvidenceOnBehalf', IndexSound', ContinuationOnRecord'
  PROVE  WorkerInv'
BY ServedRequests DEF WorkerInv, Typed, Grows

\* A step that changes no more than its request and a history no part speaks of.
LEMMA HandledInv ==
  ASSUME WorkerInv, NEW k \in Workers, NEW q \in InHand, Sound(q)',
         request' = [request EXCEPT ![k] = q],
         memory' = memory, kv' = kv, registered' = registered, decisions' = decisions, filed' = filed,
         started' \in [RunIds -> 0 .. MaxStarts]
  PROVE  WorkerInv'
<1>1. Grows
  BY DEF Grows
<1>2. kv' \in Namespace /\ EvidenceOnBehalf' /\ IndexSound'
  BY <1>1, NamespaceKept
<1>3. ContinuationOnRecord'
  BY DEF WorkerInv, ContinuationOnRecord, Continuations
<1>4. memory' \in [Isolates -> Memory] /\ registered' \in 0 .. MaxRegistrations
  BY DEF WorkerInv, Typed
<1> QED BY <1>1, <1>2, <1>3, <1>4, ServedInv

\* The form of the request a step serves.
LEMMA ServedForm ==
  ASSUME WorkerInv, NEW k \in Workers, NEW q, q = request[k]
  PROVE  /\ q \in InHand /\ Sound(q)
         /\ q.at \in {"put contract", "get index", "put index"} => q \in Registering /\ Registrant(q)
         /\ q.at = "get run" => q \in Asking
         /\ q.at \in {"get contract", "body"} => q \in Resolving /\ Resolver(q)
         /\ q.at \in {"store", "put run", "delete run"} => q \in Keeping /\ Keeper(q)
<1>1. q \in InHand /\ Sound(q)
  BY DEF WorkerInv, Typed, RequestsSound
<1> QED BY <1>1, FormsAt DEF InHand, Sound

LEMMA RegisterInv ==
  ASSUME WorkerInv, NEW k \in Workers, NEW i \in Isolates, NEW c \in Contracts,
         NEW f \in Candidates, Register(k, i, c, f)
  PROVE  WorkerInv'
<1>1. PICK a, q : /\ a = [flow |-> f, no |-> registered + 1]
                 /\ q = [at |-> "put contract", on |-> i, contract |-> c, admitted |-> a, ids |-> {}]
  OBVIOUS
<1>2. /\ registered < MaxRegistrations /\ registered' = registered + 1 /\ ValidLegacyFlow(f)
      /\ memory' = [memory EXCEPT ![i].contracts[c] = a]
      /\ request' = [request EXCEPT ![k] = q]
      /\ UNCHANGED <<kv, started, decisions, filed>>
  BY <1>1 DEF Register, Set, course
<1>3. registered' \in 0 .. MaxRegistrations /\ registered + 1 \in 0 .. MaxRegistrations
  BY <1>2, WorkerBounds DEF WorkerInv, Typed
<1>4. a \in Contract
  BY <1>1, <1>2, <1>3, WorkerBounds DEF Contract, Admitted
<1>5. q \in Registering /\ q.at = "put contract"
  BY <1>1, <1>4 DEF Registering
<1>6. q \in InHand /\ Sound(q)'
  BY <1>5, FormsApart DEF InHand, Sound, Registrant
<1>7. Grows
  BY <1>2 DEF Grows
<1>8. kv' \in Namespace /\ EvidenceOnBehalf' /\ IndexSound'
  BY <1>2, <1>7, NamespaceKept
<1>9. /\ memory' \in [Isolates -> Memory]
      /\ \A j \in Isolates : memory'[j].runs = memory[j].runs
  <2>1. PICK m, n : n = [memory[i].contracts EXCEPT ![c] = a] /\ m = [memory[i] EXCEPT !.contracts = n]
    OBVIOUS
  <2>2. memory' = [memory EXCEPT ![i] = m]
    BY <1>2, <2>1
  <2>3. memory \in [Isolates -> Memory] /\ memory[i] \in Memory
    BY DEF WorkerInv, Typed
  <2>4. n \in [Contracts -> Contract \cup {None}]
    BY <1>4, <2>1, <2>3 DEF Memory
  <2>5. m \in Memory /\ m.runs = memory[i].runs
    BY <2>1, <2>3, <2>4 DEF Memory
  <2> QED BY <2>2, <2>3, <2>5
<1>10. ContinuationOnRecord'
  BY <1>2, <1>7, <1>9, ContinuationsKept, RecordKept
<1>11. started' \in [RunIds -> 0 .. MaxStarts]
  BY <1>2 DEF WorkerInv, Typed
<1> QED BY <1>2, <1>3, <1>6, <1>7, <1>8, <1>9, <1>10, <1>11, ServedInv

\* A step of a handler that ends in Finish alone.
LEMMA FinishInv ==
  ASSUME WorkerInv, NEW k \in Workers, Finish(k),
         memory' = memory, kv' = kv, registered' = registered, decisions' = decisions, filed' = filed,
         started' = started
  PROVE  WorkerInv'
<1>1. request' = [request EXCEPT ![k] = Idle]
  BY DEF Finish, Set
<1>2. started' \in [RunIds -> 0 .. MaxStarts]
  BY DEF WorkerInv, Typed
<1> QED BY <1>1, <1>2, IdleSound, HandledInv

\* The index stays sound when an entry is written that is no index, or a sound one.
LEMMA EntryIndexSound ==
  ASSUME WorkerInv, Grows, NEW c \in Contracts, NEW v, Names(v) \/ v \notin Index,
         Held(kv'.contracts[c]) \subseteq Held(kv.contracts[c]) \cup {v},
         \A b \in Contracts : b # c => kv'.contracts[b] = kv.contracts[b]
  PROVE  IndexSound'
<1>1. ASSUME NEW x \in Held(kv'.contracts[IndexId]) PROVE Names(x)'
  <2>1. IndexId \in Contracts
    BY WorkerBounds
  <2>2. x \in Held(kv.contracts[IndexId]) \/ x = v
    BY <2>1, c # IndexId \/ c = IndexId
  <2>3. Names(x) \/ x \notin Index
    BY <2>2 DEF WorkerInv, IndexSound, Names
  <2>4. x \in Index => x.ids \subseteq Contracts
    BY DEF Index
  <2> QED BY <2>3, <2>4 DEF Names, Grows
<1> QED BY <1>1 DEF IndexSound

LEMMA PutContractInv ==
  ASSUME WorkerInv, NEW k \in Workers, PutContract(k)
  PROVE  WorkerInv'
<1>1. PICK q, p : q = request[k] /\ p = [q EXCEPT !.at = "get index"]
  OBVIOUS
<1>2. /\ q.at = "put contract" /\ UNCHANGED <<memory, registered, started, decisions, filed>>
      /\ \/ Upserted(k) /\ request' = [request EXCEPT ![k] = p]
         \/ Upserted(k) /\ Finish(k)
         \/ kv' = kv /\ Finish(k)
  BY <1>1 DEF PutContract, Goto, Set, registry, course
<1>3. q \in Registering
  BY <1>1, <1>2, ServedForm
<1>4. q.contract \in Contracts /\ q.admitted \in Contract
  BY <1>3 DEF Registering
<1>5. /\ registered' \in 0 .. MaxRegistrations /\ started' \in [RunIds -> 0 .. MaxStarts]
      /\ memory' \in [Isolates -> Memory]
  BY <1>2 DEF WorkerInv, Typed
<1>6. ASSUME Upserted(k), NEW o \in InHand, Sound(o)', request' = [request EXCEPT ![k] = o]
      PROVE  WorkerInv'
  <2>1. /\ kv' \in Namespace /\ kv'.runs = kv.runs /\ kv'.snapshots = kv.snapshots
        /\ kv'.contracts[q.contract].latest = q.admitted
        /\ Held(kv'.contracts[q.contract]) \subseteq Held(kv.contracts[q.contract]) \cup {q.admitted}
        /\ \A b \in Contracts : b # q.contract => kv'.contracts[b] = kv.contracts[b]
    BY <1>1, <1>4, <1>6, HeldTyped, PutEntryKV, PlaceIs DEF Upserted
  <2>2. q.admitted # None /\ q.admitted \notin Index
    BY <1>4, NoneAssumption, IndexApart DEF Contract
  <2>3. Grows
    BY <1>2, <2>1, <2>2 DEF Grows
  <2>4. IndexSound'
    BY <1>4, <2>1, <2>2, <2>3, EntryIndexSound
  <2>5. EvidenceOnBehalf'
    BY <1>2, <2>1 DEF WorkerInv, EvidenceOnBehalf, OnBehalf
  <2>6. ContinuationOnRecord'
    BY <1>2, <2>1 DEF WorkerInv, ContinuationOnRecord, Continuations
  <2> QED BY <1>5, <1>6, <2>1, <2>3, <2>4, <2>5, <2>6, ServedInv
<1>7. CASE Upserted(k) /\ request' = [request EXCEPT ![k] = p]
  <2>1. p \in Registering /\ p.at = "get index" /\ p.contract = q.contract
    BY <1>1, <1>3 DEF Registering
  <2>2. kv'.contracts[q.contract].latest # None
    <3>1. kv'.contracts[q.contract].latest = q.admitted
      BY <1>1, <1>4, <1>7, HeldTyped, PutEntryKV, PlaceIs DEF Upserted
    <3> QED BY <1>4, <3>1, NoneAssumption DEF Contract
  <2>3. p \in InHand /\ Sound(p)'
    BY <2>1, <2>2, FormsApart DEF InHand, Sound, Registrant
  <2> QED BY <1>6, <1>7, <2>3
<1>8. CASE Upserted(k) /\ Finish(k)
  BY <1>6, <1>8, IdleSound DEF Finish, Set
<1>9. CASE kv' = kv /\ Finish(k)
  BY <1>2, <1>9, FinishInv
<1> QED BY <1>2, <1>7, <1>8, <1>9

LEMMA GetIndexInv ==
  ASSUME WorkerInv, NEW k \in Workers, GetIndex(k)
  PROVE  WorkerInv'
<1>1. PICK q : q = request[k]
  OBVIOUS
<1>2. /\ q.at = "get index" /\ UNCHANGED <<memory, kv, registered, started, decisions, filed>>
      /\ \/ \E v \in kv.contracts[IndexId].visible :
              /\ v \in Index
              /\ request' = [request EXCEPT ![k] = [q EXCEPT !.at = "put index",
                                                           !.ids = v.ids \cup {q.contract}]]
         \/ Finish(k)
  BY <1>1 DEF GetIndex, Set, registry, course
<1>3. q \in Registering /\ Registrant(q)
  BY <1>1, <1>2, ServedForm
<1>4. started' \in [RunIds -> 0 .. MaxStarts]
  BY <1>2 DEF WorkerInv, Typed
<1>5. ASSUME NEW v \in kv.contracts[IndexId].visible, v \in Index,
             request' = [request EXCEPT ![k] = [q EXCEPT !.at = "put index",
                                                         !.ids = v.ids \cup {q.contract}]]
      PROVE  WorkerInv'
  <2>1. PICK m, p : /\ m = [q EXCEPT !.at = "put index"]
                   /\ p = [m EXCEPT !.ids = v.ids \cup {q.contract}]
    OBVIOUS
  <2>2. p = [q EXCEPT !.at = "put index", !.ids = v.ids \cup {q.contract}]
    BY <2>1
  <2>3. v.ids \in SUBSET Contracts
    BY <1>5 DEF Index
  <2>4. m \in Registering /\ m.at = "put index"
    BY <1>3, <2>1 DEF Registering
  <2>5. p \in Registering /\ p.at = "put index" /\ p.ids = v.ids \cup {q.contract}
    BY <1>3, <2>1, <2>3, <2>4 DEF Registering
  <2>6. \A c \in v.ids \ {IndexId} : kv.contracts[c].latest # None
    BY <1>5 DEF WorkerInv, IndexSound, Held, Names
  <2>7. \A c \in p.ids \ {IndexId} : kv'.contracts[c].latest # None
    BY <1>2, <1>3, <2>5, <2>6 DEF Registrant
  <2>8. p \in InHand /\ Sound(p)'
    BY <2>5, <2>7, FormsApart DEF InHand, Sound, Registrant
  <2>9. request' = [request EXCEPT ![k] = p]
    BY <1>5, <2>2
  <2> QED BY <1>2, <1>4, <2>8, <2>9, HandledInv
<1>6. CASE Finish(k)
  BY <1>2, <1>6, FinishInv
<1> QED BY <1>2, <1>5, <1>6

LEMMA PutIndexInv ==
  ASSUME WorkerInv, NEW k \in Workers, PutIndex(k)
  PROVE  WorkerInv'
<1>1. PICK q : q = request[k]
  OBVIOUS
<1>2. /\ q.at = "put index" /\ UNCHANGED <<memory, registered, started, decisions, filed>> /\ Finish(k)
      /\ Indexed(k) \/ kv' = kv
  BY <1>1 DEF PutIndex, course
<1>3. q \in Registering /\ Registrant(q)
  BY <1>1, <1>2, ServedForm
<1>4. CASE kv' = kv
  BY <1>2, <1>4, FinishInv
<1>5. CASE Indexed(k)
  <2>1. /\ q.ids \in SUBSET Contracts
        /\ \A c \in q.ids \ {IndexId} : kv.contracts[c].latest # None
    BY <1>2, <1>3 DEF Registering, Registrant
  <2>0. PICK v : v = [ids |-> q.ids]
    OBVIOUS
  <2>9. v \in Index /\ v.ids = q.ids /\ v # None /\ Names(v)
    BY <2>0, <2>1, NoneAssumption DEF Index, Names
  <2>2. /\ kv' \in Namespace /\ kv'.runs = kv.runs /\ kv'.snapshots = kv.snapshots
        /\ kv'.contracts[IndexId].latest = v
        /\ Held(kv'.contracts[IndexId]) \subseteq Held(kv.contracts[IndexId]) \cup {v}
        /\ \A b \in Contracts : b # IndexId => kv'.contracts[b] = kv.contracts[b]
    <3>1. kv' = [kv EXCEPT !.contracts[IndexId] = Written(@, v)]
      BY <1>1, <1>5, <2>0 DEF Indexed
    <3>2. IndexId \in Contracts /\ v \in Place(IndexId)
      BY <2>9, PlaceIs, WorkerBounds
    <3>3. kv \in Namespace
      BY HeldTyped
    <3> QED BY <3>1, <3>2, <3>3, PutEntryKV
  <2>3. Grows
    BY <1>2, <2>2, <2>9 DEF Grows
  <2>4. IndexSound'
    BY <2>2, <2>3, <2>9, EntryIndexSound, WorkerBounds
  <2>5. EvidenceOnBehalf'
    BY <1>2, <2>2 DEF WorkerInv, EvidenceOnBehalf, OnBehalf
  <2>6. ContinuationOnRecord'
    BY <1>2, <2>2 DEF WorkerInv, ContinuationOnRecord, Continuations
  <2>7. /\ registered' \in 0 .. MaxRegistrations /\ started' \in [RunIds -> 0 .. MaxStarts]
        /\ memory' \in [Isolates -> Memory]
    BY <1>2 DEF WorkerInv, Typed
  <2>8. request' = [request EXCEPT ![k] = Idle]
    BY <1>2 DEF Finish, Set
  <2> QED BY <2>2, <2>3, <2>4, <2>5, <2>6, <2>7, <2>8, IdleSound, ServedInv
<1> QED BY <1>2, <1>4, <1>5

LEMMA GetContractInv ==
  ASSUME WorkerInv, NEW k \in Workers, GetContract(k)
  PROVE  WorkerInv'
<1>1. PICK q : q = request[k]
  OBVIOUS
<1>2. /\ q.at = "get contract" /\ UNCHANGED <<memory, kv, registered, started, decisions, filed>>
      /\ \/ \E a \in kv.contracts[q.contract].visible :
              a \in Admitted /\ request' = [request EXCEPT ![k] = WithContract(q, a)]
         \/ Finish(k)
  BY <1>1 DEF GetContract, Set, registry, course
<1>3. q \in Resolving /\ Resolver(q)
  BY <1>1, <1>2, ServedForm
<1>4. started' \in [RunIds -> 0 .. MaxStarts]
  BY <1>2 DEF WorkerInv, Typed
<1>5. ASSUME NEW a \in kv.contracts[q.contract].visible, a \in Admitted,
             request' = [request EXCEPT ![k] = WithContract(q, a)]
      PROVE  WorkerInv'
  <2>1. PICK p : p = WithContract(q, a)
    OBVIOUS
  <2>2. a \in Contract
    <3>1. q.contract \in Contracts
      BY <1>3 DEF Resolving
    <3>2. a \in Place(q.contract)
      BY <3>1, HeldTyped
    <3> QED BY <1>5, <3>2, NoneAssumption, IndexApart DEF Place
  <2>3. Resolver(q)'
    BY <1>2, <1>3 DEF Resolver, OnBehalf
  <2>4. p \in InHand /\ Sound(p)'
    BY <1>3, <2>1, <2>2, <2>3, WithContractSound
  <2> QED BY <1>2, <1>4, <1>5, <2>1, <2>4, HandledInv
<1>6. CASE Finish(k)
  BY <1>2, <1>6, FinishInv
<1> QED BY <1>2, <1>5, <1>6

LEMMA RunInv ==
  ASSUME WorkerInv, NEW k \in Workers, NEW i \in Isolates, NEW r \in RunIds, NEW c \in Contracts,
         NEW o \in OutcomeMaps, Run(k, i, r, c, o)
  PROVE  WorkerInv'
<1>1. PICK q, p : /\ q = [at |-> "run", on |-> i, run |-> r, contract |-> c, outcomes |-> o,
                         decision |-> None, step |-> None, no |-> started[r] + 1, admitted |-> None]
                 /\ p = Resolved(i, q)
  OBVIOUS
<1>2. /\ started[r] < MaxStarts /\ started' = [started EXCEPT ![r] = @ + 1]
      /\ request' = [request EXCEPT ![k] = p]
      /\ UNCHANGED <<memory, kv, registered, decisions, filed>>
  BY <1>1 DEF Run, Set, registry
<1>3. started[r] + 1 \in 1 .. MaxStarts /\ started' \in [RunIds -> 0 .. MaxStarts]
  BY <1>2, WorkerBounds DEF WorkerInv, Typed
<1>4. q \in Resolving /\ q.decision = None /\ q.at = "run"
  BY <1>1, <1>3 DEF Resolving
<1>5. Resolver(q)'
  BY <1>4 DEF Resolver, OnBehalf
<1>6. p \in InHand /\ Sound(p)'
  BY <1>1, <1>4, <1>5, ResolvedSound
<1> QED BY <1>2, <1>3, <1>6, HandledInv

LEMMA BodyInv ==
  ASSUME WorkerInv, NEW k \in Workers, Body(k)
  PROVE  WorkerInv'
<1>1. PICK q, p : q = request[k] /\ p = Walked(q, q.admitted.flow)
  OBVIOUS
<1>2. /\ q.at = "body" /\ UNCHANGED <<memory, kv, registered, started, decisions, filed>>
      /\ request' = [request EXCEPT ![k] = p]
  BY <1>1 DEF Body, Set, registry, course
<1>3. q \in Resolving /\ Resolver(q)
  BY <1>1, <1>2, ServedForm
<1>4. q.admitted \in Contract
  BY <1>2, <1>3 DEF Resolving, Resolver
<1>5. q.admitted.flow \in LegacyFlow /\ ValidLegacyFlow(q.admitted.flow)
  BY <1>4 DEF Contract, Admitted
<1>6. (q.decision # None => q.step \in Steps) /\ OnBehalf(q.run, q.no, q.decision)'
  BY <1>2, <1>3 DEF Resolver, OnBehalf
<1>7. p \in InHand /\ Sound(p)'
  BY <1>1, <1>3, <1>5, <1>6, WalkedSound
<1>8. started' \in [RunIds -> 0 .. MaxStarts]
  BY <1>2 DEF WorkerInv, Typed
<1> QED BY <1>2, <1>7, <1>8, HandledInv

\* The isolates' continuations of other runs are kept.
RunsElsewhere(r) ==
  \A j \in Isolates, x \in RunIds : x # r => memory'[j].runs[x] = memory[j].runs[x]

\* The map of one isolate with the run's continuation put or removed.
LEMMA MemoryRun ==
  ASSUME memory \in [Isolates -> Memory], NEW i \in Isolates, NEW r \in RunIds,
         NEW v \in Pending \cup {None}, memory' = [memory EXCEPT ![i].runs[r] = v]
  PROVE  /\ memory' \in [Isolates -> Memory] /\ RunsElsewhere(r)
         /\ \A j \in Isolates : memory'[j].runs[r] \in {memory[j].runs[r], v}
<1>1. PICK m, n : n = [memory[i].runs EXCEPT ![r] = v] /\ m = [memory[i] EXCEPT !.runs = n]
  OBVIOUS
<1>2. memory' = [memory EXCEPT ![i] = m]
  BY <1>1
<1>3. memory[i] \in Memory
  OBVIOUS
<1>4. /\ n \in [RunIds -> Pending \cup {None}] /\ n[r] = v
      /\ \A x \in RunIds : x # r => n[x] = memory[i].runs[x]
  BY <1>1, <1>3 DEF Memory
<1>5. m \in Memory /\ m.runs = n
  BY <1>1, <1>3, <1>4 DEF Memory
<1>6. memory' \in [Isolates -> Memory]
  BY <1>2, <1>5
<1>7. \A j \in Isolates, x \in RunIds : x # r => memory'[j].runs[x] = memory[j].runs[x]
  BY <1>2, <1>4, <1>5
<1>8. \A j \in Isolates : memory'[j].runs[r] \in {memory[j].runs[r], v}
  BY <1>2, <1>4, <1>5
<1> QED BY <1>6, <1>7, <1>8 DEF RunsElsewhere

\* The continuation of a kept snapshot is one.
LEMMA WaitingTyped ==
  ASSUME NEW k, NEW q \in Keeping, q = request[k], q.snapshot.status = "blocked",
         NEW v, v = Waiting(k)
  PROVE  v \in Pending /\ v.no = q.snapshot.no
<1>1. q.contract \in Contracts /\ q.snapshot \in Evidence
  BY DEF Keeping
<1>2. /\ q.snapshot.walk.at \in Steps /\ q.snapshot.outcomes \in OutcomeMaps
      /\ q.snapshot.no \in 1 .. MaxStarts /\ q.snapshot.flow \in LegacyFlow
  BY <1>1 DEF Evidence, SnapshotRecord, SnapshotTypeOK
<1>3. HasStep(q.snapshot.flow, q.snapshot.walk.at) /\ IsGate(q.snapshot.flow, q.snapshot.walk.at)
  BY <1>1 DEF Evidence, Told, PausedAtGate, Followed
<1>4. /\ v \in RunState /\ v.no = q.snapshot.no
      /\ v.flow = q.snapshot.flow /\ v.step = q.snapshot.walk.at
  BY <1>1, <1>2 DEF Waiting, RunState
<1> QED BY <1>3, <1>4 DEF Pending, AtGate

LEMMA StoreInv ==
  ASSUME WorkerInv, NEW k \in Workers, Store(k)
  PROVE  WorkerInv'
<1>1. PICK q, s, r, i : q = request[k] /\ s = q.snapshot /\ r = q.run /\ i = q.on
  OBVIOUS
<1>2. /\ q.at = "store" /\ UNCHANGED <<registered, started, decisions>>
      /\ \/ Stored(k) /\ AfterStore(k)
         \/ Stored(k) /\ Finish(k) /\ memory' = memory
         \/ kv' = kv /\ filed' = filed /\ Finish(k) /\ memory' = memory
  BY <1>1 DEF Store, registry, course
<1>3. q \in Keeping /\ Keeper(q)
  BY <1>1, <1>2, ServedForm
<1>4. s \in Evidence /\ r \in RunIds /\ i \in Isolates /\ s # None
  BY <1>1, <1>3, NoneAssumption DEF Keeping, Evidence
<1>5. /\ registered' \in 0 .. MaxRegistrations /\ started' \in [RunIds -> 0 .. MaxStarts]
      /\ memory \in [Isolates -> Memory]
  BY <1>2 DEF WorkerInv, Typed
<1>10. ASSUME Stored(k)
       PROVE  /\ \A x \in RunIds : filed[x] \subseteq filed'[x]
              /\ EvidenceOf(s) \in filed'[r] /\ filed' \in FiledSets
  <2>1. filed' = [filed EXCEPT ![r] = @ \cup {EvidenceOf(s)}]
    BY <1>1, <1>10 DEF Stored
  <2>2. filed \in FiledSets
    BY DEF WorkerInv, Typed
  <2>3. EvidenceOf(s) \in [no : 1 .. MaxStarts, decision : Decisions \cup {None}]
    BY <1>4 DEF Evidence, SnapshotRecord, EvidenceOf
  <2> QED BY <1>4, <2>1, <2>2, <2>3 DEF FiledSets
<1>6. ASSUME Stored(k), NEW o \in InHand, Sound(o)', request' = [request EXCEPT ![k] = o],
             memory' \in [Isolates -> Memory], RunsElsewhere(r),
             \A j \in Isolates : memory'[j].runs[r] # None =>
               \/ memory'[j].runs[r] = memory[j].runs[r]
               \/ EvidenceOf(s) = [no |-> memory'[j].runs[r].no, decision |-> None]
      PROVE  WorkerInv'
  <2>1. /\ kv' \in Namespace
        /\ kv'.contracts = kv.contracts /\ kv'.runs = kv.runs
        /\ kv'.snapshots[r].latest = s
        /\ Held(kv'.snapshots[r]) \subseteq Held(kv.snapshots[r]) \cup {s}
        /\ \A x \in RunIds : x # r => kv'.snapshots[x] = kv.snapshots[x]
    <3>1. kv' = [kv EXCEPT !.snapshots[r] = Written(@, s)]
      BY <1>1, <1>6 DEF Stored
    <3>2. kv \in Namespace
      BY HeldTyped
    <3> QED BY <1>4, <3>1, <3>2, PutSnapshotKV
  <2>2. Grows
    BY <1>2, <1>6, <1>10, <2>1 DEF Grows
  <2>3. IndexSound'
    BY <2>1 DEF WorkerInv, IndexSound, Names
  <2>4. EvidenceOnBehalf'
    <3>1. OnBehalf(r, s.no, s.decision)
      BY <1>1, <1>3 DEF Keeper
    <3>2. ASSUME NEW x \in RunIds, NEW e \in Held(kv'.snapshots[x]), e # None
          PROVE  OnBehalf(x, e.no, e.decision)
      <4>1. e \in Held(kv.snapshots[x]) \/ (x = r /\ e = s)
        BY <2>1, <3>2
      <4> QED BY <3>1, <3>2, <4>1 DEF WorkerInv, EvidenceOnBehalf
    <3> QED BY <1>2, <3>2 DEF EvidenceOnBehalf, OnBehalf
  <2>5. ContinuationOnRecord'
    <3>1. ASSUME NEW x \in RunIds, x # r PROVE Continuations(x)' \subseteq Continuations(x)
      BY <1>6, <2>1, <3>1, ContinuationsKept DEF RunsElsewhere
    <3>2. ASSUME NEW held \in Continuations(r)', held \notin Continuations(r)
          PROVE  [no |-> held.no, decision |-> None] \in filed'[r]
      <4>1. PICK j \in Isolates : held = memory'[j].runs[r] /\ held # None
        BY <2>1, <3>2 DEF Continuations
      <4>2. held # memory[j].runs[r]
        BY <3>2, <4>1 DEF Continuations
      <4> QED BY <1>6, <1>10, <4>1, <4>2
    <3> QED BY <2>2, <3>1, <3>2, RecordKept
  <2> QED BY <1>5, <1>6, <2>1, <2>2, <2>3, <2>4, <2>5, ServedInv
<1>7. CASE Stored(k) /\ AfterStore(k)
  <2>1. PICK v : v = Waiting(k)
    OBVIOUS
  <2>2. \/ /\ s.status = "blocked" /\ memory' = [memory EXCEPT ![i].runs[r] = v]
           /\ request' = [request EXCEPT ![k] = [q EXCEPT !.at = "put run"]]
        \/ /\ memory' = [memory EXCEPT ![i].runs[r] = None]
           /\ request' = [request EXCEPT ![k] = [q EXCEPT !.at = "delete run"]]
        \/ Finish(k) /\ memory' = memory
    BY <1>1, <1>7, <2>1 DEF AfterStore, Goto, Set
  <2>5. ASSUME NEW p, NEW point \in {"put run", "delete run"}, p = [q EXCEPT !.at = point],
               point = "put run" => s.status = "blocked"
        PROVE  p \in InHand /\ Sound(p)'
    <3>1. p \in Keeping /\ p.run = q.run /\ p.snapshot = q.snapshot /\ p.at = point
      BY <1>3, <2>5 DEF Keeping
    <3>2. OnBehalf(p.run, p.snapshot.no, p.snapshot.decision)'
      BY <1>2, <1>3, <3>1 DEF Keeper, OnBehalf
    <3>3. point = "put run" => OnRecord(p.run, p.snapshot.no)'
      BY <1>1, <1>4, <1>7, <1>10, <2>5, <3>1 DEF OnRecord, Evidence, Told, EvidenceOf
    <3>4. Keeper(p)'
      BY <1>1, <2>5, <3>1, <3>2, <3>3 DEF Keeper
    <3> QED BY <3>1, <3>4, FormsApart DEF InHand, Sound
  <2>6. CASE /\ s.status = "blocked" /\ memory' = [memory EXCEPT ![i].runs[r] = v]
             /\ request' = [request EXCEPT ![k] = [q EXCEPT !.at = "put run"]]
    <3>1. PICK p : p = [q EXCEPT !.at = "put run"]
      OBVIOUS
    <3>2. p \in InHand /\ Sound(p)'
      BY <2>5, <2>6, <3>1
    <3>3. v \in Pending /\ v.no = s.no /\ s.decision = None
      BY <1>1, <1>3, <1>4, <2>1, <2>6, WaitingTyped DEF Evidence, Told
    <3>4. /\ memory' \in [Isolates -> Memory] /\ RunsElsewhere(r)
          /\ \A j \in Isolates : memory'[j].runs[r] \in {memory[j].runs[r], v}
      <4>1. memory' = [memory EXCEPT ![i].runs[r] = v] /\ v \in Pending \cup {None}
        BY <2>6, <3>3
      <4>2. memory \in [Isolates -> Memory] /\ i \in Isolates /\ r \in RunIds
        BY <1>4, <1>5
      <4> QED BY <4>1, <4>2, MemoryRun
    <3>5. request' = [request EXCEPT ![k] = p]
      BY <2>6, <3>1
    <3>6. EvidenceOf(s) = [no |-> v.no, decision |-> None]
      BY <3>3 DEF EvidenceOf
    <3> QED BY <1>6, <1>7, <3>2, <3>4, <3>5, <3>6
  <2>7. CASE /\ memory' = [memory EXCEPT ![i].runs[r] = None]
             /\ request' = [request EXCEPT ![k] = [q EXCEPT !.at = "delete run"]]
    <3>1. PICK p : p = [q EXCEPT !.at = "delete run"]
      OBVIOUS
    <3>2. p \in InHand /\ Sound(p)'
      BY <2>5, <3>1
    <3>3. /\ memory' \in [Isolates -> Memory] /\ RunsElsewhere(r)
          /\ \A j \in Isolates : memory'[j].runs[r] \in {memory[j].runs[r], None}
      <4>1. memory' = [memory EXCEPT ![i].runs[r] = None] /\ None \in Pending \cup {None}
        BY <2>7
      <4>2. memory \in [Isolates -> Memory] /\ i \in Isolates /\ r \in RunIds
        BY <1>4, <1>5
      <4> QED BY <4>1, <4>2, MemoryRun
    <3>4. request' = [request EXCEPT ![k] = p]
      BY <2>7, <3>1
    <3> QED BY <1>6, <1>7, <3>2, <3>3, <3>4
  <2>8. CASE Finish(k) /\ memory' = memory
    BY <1>5, <1>6, <1>7, <2>8, IdleSound DEF Finish, Set, RunsElsewhere
  <2> QED BY <2>2, <2>6, <2>7, <2>8
<1>8. CASE Stored(k) /\ Finish(k) /\ memory' = memory
  BY <1>5, <1>6, <1>8, IdleSound DEF Finish, Set, RunsElsewhere
<1>9. CASE kv' = kv /\ filed' = filed /\ Finish(k) /\ memory' = memory
  BY <1>2, <1>9, FinishInv
<1> QED BY <1>2, <1>7, <1>8, <1>9

\* A step that writes the run's continuation, on record or None, and finishes.
LEMMA WriteRunInv ==
  ASSUME WorkerInv, NEW k \in Workers, NEW r \in RunIds, NEW v \in Pending \cup {None},
         kv' = [kv EXCEPT !.runs[r] = Written(@, v)],
         v # None => OnRecord(r, v.no),
         Finish(k), UNCHANGED <<memory, registered, started, decisions, filed>>
  PROVE  WorkerInv'
<1>1. /\ kv' \in Namespace
      /\ kv'.contracts = kv.contracts /\ kv'.snapshots = kv.snapshots
      /\ Held(kv'.runs[r]) \subseteq Held(kv.runs[r]) \cup {v}
      /\ \A x \in RunIds : x # r => kv'.runs[x] = kv.runs[x]
  BY HeldTyped, PutRunKV
<1>2. Grows
  BY <1>1 DEF Grows
<1>3. IndexSound'
  BY <1>1 DEF WorkerInv, IndexSound, Names
<1>4. EvidenceOnBehalf'
  BY <1>1 DEF WorkerInv, EvidenceOnBehalf, OnBehalf
<1>5. ContinuationOnRecord'
  <2>1. ASSUME NEW x \in RunIds, x # r PROVE Continuations(x)' \subseteq Continuations(x)
    BY <1>1, <2>1 DEF Continuations
  <2>2. Continuations(r)' \subseteq Continuations(r) \cup ({v} \ {None})
    BY <1>1 DEF Continuations, Held
  <2>3. v # None => [no |-> v.no, decision |-> None] \in filed'[r]
    BY DEF OnRecord
  <2> QED BY <1>2, <2>1, <2>2, <2>3, RecordKept
<1>6. /\ registered' \in 0 .. MaxRegistrations /\ started' \in [RunIds -> 0 .. MaxStarts]
      /\ memory' \in [Isolates -> Memory]
  BY DEF WorkerInv, Typed
<1>7. request' = [request EXCEPT ![k] = Idle]
  BY DEF Finish, Set
<1> QED BY <1>1, <1>2, <1>3, <1>4, <1>5, <1>6, <1>7, IdleSound, ServedInv

LEMMA PutRunInv ==
  ASSUME WorkerInv, NEW k \in Workers, PutRun(k)
  PROVE  WorkerInv'
<1>1. PICK q, v : q = request[k] /\ v = Waiting(k)
  OBVIOUS
<1>2. /\ q.at = "put run" /\ UNCHANGED <<memory, registered, started, decisions, filed>> /\ Finish(k)
      /\ kv' = [kv EXCEPT !.runs[q.run] = Written(@, v)] \/ kv' = kv
  BY <1>1 DEF PutRun, RunLeft, registry
<1>3. q \in Keeping /\ Keeper(q)
  BY <1>1, <1>2, ServedForm
<1>4. v \in Pending /\ q.run \in RunIds /\ OnRecord(q.run, v.no)
  BY <1>1, <1>2, <1>3, WaitingTyped DEF Keeping, Keeper
<1> QED BY <1>2, <1>4, WriteRunInv, FinishInv

LEMMA DeleteRunInv ==
  ASSUME WorkerInv, NEW k \in Workers, DeleteRun(k)
  PROVE  WorkerInv'
<1>1. PICK q : q = request[k]
  OBVIOUS
<1>2. /\ q.at = "delete run" /\ UNCHANGED <<memory, registered, started, decisions, filed>> /\ Finish(k)
      /\ kv' = [kv EXCEPT !.runs[q.run] = Written(@, None)] \/ kv' = kv
  BY <1>1 DEF DeleteRun, RunDeleted, registry
<1>3. q \in Keeping
  BY <1>1, <1>2, ServedForm
<1>4. q.run \in RunIds
  BY <1>3 DEF Keeping
<1> QED BY <1>2, <1>4, WriteRunInv, FinishInv

LEMMA ContinueInv ==
  ASSUME WorkerInv, NEW k \in Workers, NEW i \in Isolates, NEW r \in RunIds, NEW d \in Decisions,
         NEW held \in Pending, Continue(k, i, r, d, held),
         UNCHANGED <<memory, kv, registered, started, filed>>
  PROVE  WorkerInv'
<1>1. PICK q, p : /\ q = [at |-> "continue", on |-> i, run |-> r, contract |-> held.contract,
                         outcomes |-> held.outcomes, decision |-> d, step |-> held.step,
                         no |-> held.no, admitted |-> None]
                 /\ p = Resolved(i, q)
  OBVIOUS
<1>2. /\ decisions' = [decisions EXCEPT ![r] = @ \cup {[no |-> held.no, decision |-> d]}]
      /\ request' = [request EXCEPT ![k] = p]
  BY <1>1 DEF Continue, Set
<1>3. /\ held.contract \in Contracts /\ held.step \in Steps /\ held.outcomes \in OutcomeMaps
      /\ held.no \in 1 .. MaxStarts
  BY DEF RunState, Pending
<1>4. q \in Resolving /\ q.at = "continue"
  BY <1>1, <1>3 DEF Resolving
<1>5. decisions \in Recorded /\ [no |-> held.no, decision |-> d] \in [no : 1 .. MaxStarts, decision : Decisions]
  BY <1>3 DEF WorkerInv, Typed
<1>6. /\ [no |-> held.no, decision |-> d] \in decisions'[r] /\ decisions' \in Recorded
      /\ \A x \in RunIds : decisions[x] \subseteq decisions'[x]
  BY <1>2, <1>5 DEF Recorded
<1>7. Resolver(q)'
  BY <1>1, <1>3, <1>4, <1>6 DEF Resolver, OnBehalf
<1>8. p \in InHand /\ Sound(p)'
  BY <1>1, <1>4, <1>7, ResolvedSound
<1>9. Grows
  BY <1>6 DEF Grows
<1>10. kv' \in Namespace /\ EvidenceOnBehalf' /\ IndexSound'
  BY <1>9, NamespaceKept
<1>11. ContinuationOnRecord'
  BY DEF WorkerInv, ContinuationOnRecord, Continuations
<1>12. /\ memory' \in [Isolates -> Memory] /\ registered' \in 0 .. MaxRegistrations
       /\ started' \in [RunIds -> 0 .. MaxStarts]
  BY DEF WorkerInv, Typed
<1> QED BY <1>2, <1>8, <1>9, <1>10, <1>11, <1>12, ServedInv

LEMMA DecideInv ==
  ASSUME WorkerInv, NEW k \in Workers, NEW i \in Isolates, NEW r \in RunIds, NEW d \in Decisions,
         Decide(k, i, r, d)
  PROVE  WorkerInv'
<1>1. PICK held \in Pending \cup {None} : held = memory[i].runs[r]
  BY HeldTyped
<1>2. UNCHANGED <<memory, kv, registered, started, filed>>
  BY DEF Decide, registry
<1>3. CASE held # None
  BY <1>1, <1>2, <1>3, ContinueInv DEF Decide, registry
<1>4. CASE held = None
  <2>1. PICK p : p = [at |-> "get run", on |-> i, run |-> r, decision |-> d]
    OBVIOUS
  <2>2. request' = [request EXCEPT ![k] = p] /\ decisions' = decisions
    BY <1>1, <1>4, <2>1 DEF Decide, Set
  <2>3. p \in Asking
    BY <2>1 DEF Asking
  <2>4. p \in InHand /\ Sound(p)'
    BY <2>3, FormsApart DEF InHand, Sound
  <2>5. started' \in [RunIds -> 0 .. MaxStarts]
    BY <1>2 DEF WorkerInv, Typed
  <2> QED BY <1>2, <2>2, <2>4, <2>5, HandledInv
<1> QED BY <1>3, <1>4

LEMMA GetRunInv ==
  ASSUME WorkerInv, NEW k \in Workers, GetRun(k)
  PROVE  WorkerInv'
<1>1. PICK q : q = request[k]
  OBVIOUS
<1>2. /\ q.at = "get run" /\ UNCHANGED <<memory, kv, registered, started, filed>>
      /\ \/ \E held \in kv.runs[q.run].visible \ {None} : Continue(k, q.on, q.run, q.decision, held)
         \/ Finish(k) /\ UNCHANGED decisions
  BY <1>1 DEF GetRun, registry
<1>3. q \in Asking
  BY <1>1, <1>2, ServedForm
<1>4. q.on \in Isolates /\ q.run \in RunIds /\ q.decision \in Decisions
  BY <1>3 DEF Asking
<1>5. ASSUME NEW held \in kv.runs[q.run].visible \ {None}, Continue(k, q.on, q.run, q.decision, held)
      PROVE  WorkerInv'
  <2>1. held \in Pending
    BY <1>4, HeldTyped DEF Held
  <2> QED BY <1>2, <1>4, <1>5, <2>1, ContinueInv
<1>6. CASE Finish(k) /\ UNCHANGED decisions
  BY <1>2, <1>6, FinishInv
<1> QED BY <1>2, <1>5, <1>6

LEMMA EvictInv ==
  ASSUME WorkerInv, NEW i \in Isolates, Evict(i)
  PROVE  WorkerInv'
<1>1. PICK m : m = Nothing
  OBVIOUS
<1>2. /\ memory' = [memory EXCEPT ![i] = m] /\ UNCHANGED <<kv, registered, started, decisions, filed>>
      /\ request' = [k \in Workers |-> IF request[k] # Idle /\ request[k].on = i THEN Idle
                                       ELSE request[k]]
  BY <1>1 DEF Evict, registry, course
<1>3. m \in Memory /\ \A r \in RunIds : m.runs[r] = None
  BY <1>1 DEF Nothing, Memory
<1>4. memory \in [Isolates -> Memory] /\ request \in [Workers -> InHand]
  BY DEF WorkerInv, Typed
<1>5. memory' \in [Isolates -> Memory]
  BY <1>2, <1>3, <1>4
<1>6. Grows
  BY <1>2 DEF Grows
<1>7. kv' \in Namespace /\ EvidenceOnBehalf' /\ IndexSound'
  BY <1>2, <1>6, NamespaceKept
<1>8. ASSUME NEW r \in RunIds PROVE Continuations(r)' \subseteq Continuations(r)
  <2>1. \A j \in Isolates : memory'[j].runs[r] \in {memory[j].runs[r], None}
    BY <1>2, <1>3, <1>4
  <2> QED BY <1>2, <2>1, ContinuationsKept
<1>9. ContinuationOnRecord'
  BY <1>6, <1>8, RecordKept
<1>10. request' \in [Workers -> InHand]
  BY <1>2, <1>4, IdleSound
<1>11. ASSUME NEW k \in Workers PROVE Sound(request[k])'
  <2>1. PICK q \in InHand : q = request[k]
    BY <1>4
  <2>2. Sound(q)
    BY <2>1 DEF WorkerInv, RequestsSound
  <2>4. Sound(q)'
    BY <1>6, <2>2, StaysSound
  <2>3. request'[k] = Idle \/ request'[k] = q
    BY <1>2, <2>1
  <2> QED BY <2>3, <2>4, IdleSound
<1>12. RequestsSound'
  BY <1>11 DEF RequestsSound
<1>13. registered' \in 0 .. MaxRegistrations /\ started' \in [RunIds -> 0 .. MaxStarts]
  BY <1>2 DEF WorkerInv, Typed
<1>14. decisions' \in Recorded /\ filed' \in FiledSets
  BY <1>2 DEF WorkerInv, Typed
<1> QED BY <1>5, <1>7, <1>9, <1>10, <1>12, <1>13, <1>14 DEF WorkerInv, Typed

\* Nothing but the namespace changes, and no more than what it shows.
LEMMA SettledInv ==
  ASSUME WorkerInv, Grows, kv' \in Namespace, EvidenceOnBehalf', IndexSound', ContinuationOnRecord',
         UNCHANGED <<memory, request, registered, started>>
  PROVE  WorkerInv'
<1>1. request \in [Workers -> InHand]
  BY DEF WorkerInv, Typed
<1>2. ASSUME NEW k \in Workers PROVE Sound(request[k])'
  <2>1. PICK q \in InHand : q = request[k]
    BY <1>1
  <2>2. Sound(q)
    BY <2>1 DEF WorkerInv, RequestsSound
  <2>3. Sound(q)'
    BY <2>2, StaysSound
  <2> QED BY <2>1, <2>3
<1>3. RequestsSound'
  BY <1>2 DEF RequestsSound
<1>4. decisions' \in Recorded /\ filed' \in FiledSets
  BY DEF WorkerInv, Typed, Grows
<1> QED BY <1>3, <1>4 DEF WorkerInv, Typed

LEMMA SettleRunInv ==
  ASSUME WorkerInv, NEW r \in RunIds, SettleRun(r)
  PROVE  WorkerInv'
<1>1. /\ kv' = [kv EXCEPT !.runs[r] = Settled(@), !.snapshots[r] = Settled(@)]
      /\ UNCHANGED <<memory, request, registered, started, decisions, filed>>
  BY DEF SettleRun, registry, course
<1>2. /\ kv' \in Namespace
      /\ kv'.contracts = kv.contracts
      /\ \A x \in RunIds : /\ Held(kv'.runs[x]) \subseteq Held(kv.runs[x])
                           /\ Held(kv'.snapshots[x]) \subseteq Held(kv.snapshots[x])
                           /\ kv'.snapshots[x].latest = kv.snapshots[x].latest
  BY <1>1, HeldTyped, SettleRunKV
<1>3. Grows
  BY <1>1, <1>2 DEF Grows
<1>4. EvidenceOnBehalf'
  BY <1>1, <1>2 DEF WorkerInv, EvidenceOnBehalf, OnBehalf
<1>5. IndexSound'
  BY <1>2 DEF WorkerInv, IndexSound, Names
<1>6. ASSUME NEW x \in RunIds PROVE Continuations(x)' \subseteq Continuations(x)
  BY <1>1, <1>2 DEF Continuations, Held
<1>7. ContinuationOnRecord'
  BY <1>3, <1>6, RecordKept
<1> QED BY <1>1, <1>2, <1>3, <1>4, <1>5, <1>7, SettledInv

LEMMA SettleContractInv ==
  ASSUME WorkerInv, NEW c \in Contracts, SettleContract(c)
  PROVE  WorkerInv'
<1>1. /\ kv' = [kv EXCEPT !.contracts[c] = Settled(@)]
      /\ UNCHANGED <<memory, request, registered, started, decisions, filed>>
  BY DEF SettleContract, registry, course
<1>2. /\ kv' \in Namespace /\ kv'.runs = kv.runs /\ kv'.snapshots = kv.snapshots
      /\ \A x \in Contracts : /\ kv'.contracts[x].latest = kv.contracts[x].latest
                              /\ Held(kv'.contracts[x]) \subseteq Held(kv.contracts[x])
  BY <1>1, HeldTyped, SettleContractKV
<1>3. Grows
  BY <1>1, <1>2 DEF Grows
<1>4. EvidenceOnBehalf'
  BY <1>1, <1>2 DEF WorkerInv, EvidenceOnBehalf, OnBehalf
<1>5. IndexSound'
  <2>1. ASSUME NEW v \in Held(kv'.contracts[IndexId]), v \in Index, NEW x \in v.ids \ {IndexId}
        PROVE  kv'.contracts[x].latest # None
    <3>1. v \in Held(kv.contracts[IndexId]) /\ x \in Contracts
      BY <1>2, <2>1, WorkerBounds DEF Index
    <3> QED BY <1>2, <2>1, <3>1 DEF WorkerInv, IndexSound, Names
  <2> QED BY <2>1 DEF IndexSound, Names
<1>6. ContinuationOnRecord'
  BY <1>1, <1>2 DEF WorkerInv, ContinuationOnRecord, Continuations
<1> QED BY <1>1, <1>2, <1>3, <1>4, <1>5, <1>6, SettledInv

LEMMA ExpireInv ==
  ASSUME WorkerInv, NEW r \in RunIds, Expire(r)
  PROVE  WorkerInv'
<1>1. /\ kv' = [kv EXCEPT !.snapshots[r] = Written(@, None)]
      /\ UNCHANGED <<memory, request, registered, started, decisions, filed>>
  BY DEF Expire, registry, course
<1>2. /\ kv' \in Namespace /\ kv'.contracts = kv.contracts /\ kv'.runs = kv.runs
      /\ Held(kv'.snapshots[r]) \subseteq Held(kv.snapshots[r]) \cup {None}
      /\ \A x \in RunIds : x # r => kv'.snapshots[x] = kv.snapshots[x]
  <2>1. None \in Evidence \cup {None} /\ kv \in Namespace
    BY HeldTyped
  <2> QED BY <1>1, <2>1, PutSnapshotKV
<1>3. Grows
  BY <1>1, <1>2 DEF Grows
<1>4. EvidenceOnBehalf'
  BY <1>1, <1>2 DEF WorkerInv, EvidenceOnBehalf, OnBehalf
<1>5. IndexSound'
  BY <1>2 DEF WorkerInv, IndexSound, Names
<1>6. ContinuationOnRecord'
  BY <1>1, <1>2 DEF WorkerInv, ContinuationOnRecord, Continuations
<1> QED BY <1>1, <1>2, <1>3, <1>4, <1>5, <1>6, SettledInv

-----------------------------------------------------------------------------
(* The invariant and what it shows *)

\* What the namespace holds of a contract, or of the index, at first.
Found(c) == IF c \in DOMAIN Seed THEN [flow |-> Seed[c], no |-> 0]
            ELSE IF c = IndexId THEN [ids |-> DOMAIN Seed] ELSE None

LEMMA InitInv == Init => WorkerInv
<1> SUFFICES ASSUME Init PROVE WorkerInv
  OBVIOUS
<1>1. PICK cs, rs, ss :
         /\ cs = [c \in Contracts |-> Cell(Found(c))]
         /\ rs = [r \in RunIds |-> Cell(None)]
         /\ ss = [r \in RunIds |-> Cell(None)]
  OBVIOUS
<1>2. kv = [contracts |-> cs, runs |-> rs, snapshots |-> ss]
  BY <1>1 DEF Init, Found
<1>3. ASSUME NEW S, NEW v \in S, NEW cell, cell = Cell(v)
      PROVE  cell \in CellOf(S) /\ cell.latest = v /\ cell.visible = {v}
  BY <1>3 DEF Cell, CellOf
<1>4. ASSUME NEW c \in DOMAIN Seed
      PROVE  [flow |-> Seed[c], no |-> 0] \in Contract
  BY WorkerBounds DEF Contract, Admitted
<1>5. /\ \A c \in Contracts : Found(c) \in Place(c)
      /\ \A c \in DOMAIN Seed : Found(c) # None
      /\ Found(IndexId) = [ids |-> DOMAIN Seed]
  <2>1. ASSUME NEW c \in Contracts
        PROVE  Found(c) \in Place(c) /\ (c \in DOMAIN Seed => Found(c) # None)
    BY <1>4, WorkerBounds, NoneAssumption DEF Found, Place, Index, Contract
  <2>2. Found(IndexId) = [ids |-> DOMAIN Seed] /\ DOMAIN Seed \subseteq Contracts
    BY WorkerBounds DEF Found
  <2> QED BY <2>1, <2>2
<1>6. ASSUME NEW c \in Contracts
      PROVE  /\ cs[c] \in CellOf(Place(c)) /\ cs[c] \in CellOf(Entry)
             /\ cs[c].latest = Found(c) /\ cs[c].visible = {Found(c)}
  <2>1. cs[c] = Cell(Found(c))
    BY <1>1
  <2>2. Found(c) \in Place(c)
    BY <1>5
  <2>4. Place(c) \subseteq Entry
    BY PlaceIs
  <2>5. Found(c) \in Entry
    BY <2>2, <2>4
  <2> QED BY <1>3, <2>1, <2>2, <2>5
<1>7. cs \in [Contracts -> CellOf(Entry)]
  BY <1>1, <1>6
<1>8. /\ rs \in [RunIds -> CellOf(Pending \cup {None})]
      /\ ss \in [RunIds -> CellOf(Evidence \cup {None})]
      /\ \A r \in RunIds : /\ rs[r].latest = None /\ rs[r].visible = {None}
                           /\ ss[r].latest = None /\ ss[r].visible = {None}
  <2>1. /\ Cell(None) \in CellOf(Pending \cup {None}) /\ Cell(None) \in CellOf(Evidence \cup {None})
        /\ Cell(None).latest = None /\ Cell(None).visible = {None}
    BY <1>3
  <2> QED BY <1>1, <2>1
<1>9. /\ kv \in Namespace
      /\ kv.contracts = cs /\ kv.runs = rs /\ kv.snapshots = ss
  BY <1>2, <1>6, <1>7, <1>8 DEF Namespace
<1>10. /\ memory \in [Isolates -> Memory]
       /\ \A i \in Isolates, r \in RunIds : memory[i].runs[r] = None
  BY DEF Init, Nothing, Memory
<1>11. /\ request \in [Workers -> InHand] /\ RequestsSound
  BY FormsApart DEF Init, InHand, RequestsSound, Sound
<1>12. registered \in 0 .. MaxRegistrations /\ started \in [RunIds -> 0 .. MaxStarts]
  BY WorkerBounds DEF Init
<1>13. decisions \in Recorded /\ filed \in FiledSets
  BY DEF Init, Recorded, FiledSets
<1>14. EvidenceOnBehalf
  BY <1>8, <1>9 DEF EvidenceOnBehalf, Held
<1>15. IndexSound
  <2>1. ASSUME NEW v \in Held(kv.contracts[IndexId]) PROVE Names(v)
    <3>1. v = [ids |-> DOMAIN Seed]
      BY <1>5, <1>6, <1>9, <2>1, WorkerBounds DEF Held
    <3>2. v.ids = DOMAIN Seed
      BY <3>1
    <3>3. \A c \in DOMAIN Seed : c \in Contracts
      BY WorkerBounds
    <3>4. \A c \in DOMAIN Seed : kv.contracts[c].latest # None
      BY <1>5, <1>6, <1>9, <3>3
    <3> QED BY <3>2, <3>4 DEF Names
  <2> QED BY <2>1 DEF IndexSound
<1>16. ContinuationOnRecord
  BY <1>8, <1>9, <1>10 DEF ContinuationOnRecord, Continuations
<1> QED BY <1>9, <1>10, <1>11, <1>12, <1>13, <1>14, <1>15, <1>16 DEF WorkerInv, Typed

LEMMA HandleInv ==
  ASSUME WorkerInv, NEW k \in Workers, Handle(k)
  PROVE  WorkerInv'
BY PutContractInv, GetIndexInv, PutIndexInv, GetContractInv, BodyInv, StoreInv, PutRunInv,
   GetRunInv, DeleteRunInv DEF Handle

LEMMA NextInv ==
  ASSUME WorkerInv, Next
  PROVE  WorkerInv'
<1>1. ASSUME NEW k \in Workers, NEW i \in Isolates,
             \/ \E c \in Contracts, f \in Candidates : Register(k, i, c, f)
             \/ \E r \in RunIds, c \in Contracts, o \in OutcomeMaps : Run(k, i, r, c, o)
             \/ \E r \in RunIds, d \in Decisions : Decide(k, i, r, d)
      PROVE  WorkerInv'
  BY <1>1, RegisterInv, RunInv, DecideInv
<1>2. ASSUME NEW k \in Workers, Handle(k) PROVE WorkerInv'
  BY <1>2, HandleInv
<1>3. ASSUME NEW i \in Isolates, Evict(i) PROVE WorkerInv'
  BY <1>3, EvictInv
<1>4. ASSUME NEW r \in RunIds, SettleRun(r) PROVE WorkerInv'
  BY <1>4, SettleRunInv
<1>5. ASSUME NEW c \in Contracts, SettleContract(c) PROVE WorkerInv'
  BY <1>5, SettleContractInv
<1>6. ASSUME NEW r \in RunIds, Expire(r) PROVE WorkerInv'
  BY <1>6, ExpireInv
<1> QED BY <1>1, <1>2, <1>3, <1>4, <1>5, <1>6 DEF Next

LEMMA WorkerInvAlways == Spec => []WorkerInv
<1>1. ASSUME WorkerInv, UNCHANGED vars PROVE WorkerInv'
  <2>1. UNCHANGED <<memory, kv, request, registered, started, decisions, filed>>
    BY <1>1 DEF vars, code, registry, course
  <2>2. Typed'
    BY <1>1, <2>1 DEF WorkerInv, Typed
  <2>3. RequestsSound'
    BY <1>1, <2>1 DEF WorkerInv, RequestsSound, Sound, Registrant, Resolver, Keeper, OnBehalf,
       OnRecord
  <2>4. EvidenceOnBehalf' /\ IndexSound'
    BY <1>1, <2>1 DEF WorkerInv, EvidenceOnBehalf, IndexSound, Names, OnBehalf
  <2>5. ContinuationOnRecord'
    BY <1>1, <2>1 DEF WorkerInv, ContinuationOnRecord, Continuations
  <2> QED BY <2>2, <2>3, <2>4, <2>5 DEF WorkerInv
<1> QED BY <1>1, InitInv, NextInv, PTL DEF Spec

\* Every place of the namespace and of an isolate, and every handler, holds what
\* its operations can go on with; a continuation names a step of the flow.
THEOREM WorkerTypeOK == Spec => []TypeOK
<1>1. ASSUME WorkerInv PROVE TypeOK
  <2>1. \A i \in Isolates, c \in Contracts : memory[i].contracts[c] \in Admitted \cup {None}
    BY <1>1, HeldTyped DEF Contract
  <2>2. \A r \in RunIds : Continuations(r) \subseteq RunState
    BY <1>1, HeldTyped DEF Continuations, Held, Pending
  <2>3. \A r \in RunIds : \A s \in kv.snapshots[r].visible \ {None} : SnapshotTypeOK(s)
    BY <1>1, HeldTyped DEF Held, Evidence
  <2>4. ASSUME NEW c \in Contracts
        PROVE  kv.contracts[c].visible \subseteq
                 Admitted \cup IF c = IndexId THEN Index ELSE {None}
    <3>1. kv.contracts[c].visible \subseteq Place(c)
      BY <1>1, HeldTyped
    <3> QED BY <3>1 DEF Place, Contract
  <2>6. ASSUME NEW k \in Workers
        PROVE  /\ request[k] # Idle => request[k].on \in Isolates
               /\ request[k].at \in {"store", "put run", "delete run"} =>
                    SnapshotTypeOK(request[k].snapshot)
    <3>1. PICK q : q = request[k]
      OBVIOUS
    <3>2. q \in InHand /\ (q.at \in {"store", "put run", "delete run"} => q \in Keeping)
      BY <1>1, <3>1, ServedForm
    <3>3. q # Idle => q.on \in Isolates
      BY <3>2 DEF InHand, Registering, Asking, Resolving, Keeping
    <3>4. q \in Keeping => SnapshotTypeOK(q.snapshot)
      BY DEF Keeping, Evidence
    <3> QED BY <3>1, <3>2, <3>3, <3>4
  <2> QED BY <2>1, <2>2, <2>3, <2>4, <2>6 DEF TypeOK
<1> QED BY <1>1, WorkerInvAlways, PTL

\* Nobody can decide a run that was never on record, whichever isolate, cache or
\* lagging place the continuation is found in: the evidence of the start it
\* belongs to was stored before it, and only its time to live takes it away.
THEOREM ContinuationAlwaysOnRecord == Spec => []ContinuationOnRecord
<1>1. WorkerInv => ContinuationOnRecord
  BY DEF WorkerInv
<1> QED BY <1>1, WorkerInvAlways, PTL

\* No index that is read anywhere names a contract whose own entry was not
\* written, however registrations overlap, whichever of their writes fail, and
\* although a contract may be registered under the id whose entry is the index.
THEOREM IndexedContractsAlwaysStored == Spec => []IndexedContractsStored
<1>1. WorkerInv => IndexedContractsStored
  BY DEF WorkerInv, IndexSound, IndexedContractsStored, Held, Names
<1> QED BY <1>1, WorkerInvAlways, PTL

\* Evidence of a walk past a gate is that of a decision a client sent for this
\* very start of the run, whichever isolate made the walk.
THEOREM GateAlwaysPassedByDecisionOfWorker == Spec => []GatePassedByDecision
<1>1. ASSUME WorkerInv, NEW r \in RunIds, NEW s \in kv.snapshots[r].visible \ {None},
             NEW i \in DOMAIN s.walk.trace, IsGate(s.flow, s.walk.trace[i]),
             i < Len(s.walk.trace) \/ s.walk.terminal # None
      PROVE  EvidenceOf(s) \in decisions[r]
  <2>1. s \in Evidence /\ OnBehalf(r, s.no, s.decision)
    BY <1>1, HeldTyped DEF WorkerInv, EvidenceOnBehalf, Held
  <2>2. /\ s.walk.trace \in Seq(Steps) /\ Len(s.walk.trace) \in Nat
        /\ PathOK(s.flow, s.outcomes, s.decision, s.walk.trace)
        /\ s.decision = None /\ s.walk.terminal # None => ~MetGate(s.flow, s.walk.trace)
    BY <2>1 DEF Evidence, Followed, Walk
  <2>3. i \in 1 .. Len(s.walk.trace) /\ IsGate(s.flow, s.walk.trace[i])
    BY <1>1, <2>2
  <2>4. s.decision # None
    BY <1>1, <2>2, <2>3 DEF PathOK, MetGate
  <2> QED BY <2>1, <2>4 DEF OnBehalf, EvidenceOf
<1>2. WorkerInv => GatePassedByDecision
  BY <1>1 DEF GatePassedByDecision
<1> QED BY <1>2, WorkerInvAlways, PTL

-----------------------------------------------------------------------------
(* Starts that have not stored their evidence.  Nothing of the run, request, *)
(* continuation or evidence, has the number of such a start, so what it will *)
(* store replaces nothing a decision on it has stored.                       *)

ResolvePoints == {"run", "continue", "get contract", "body"}

KeepPoints == {"store", "put run", "delete run"}

Numbered(q) == q.at \in ResolvePoints \cup KeepPoints

Number(q) == IF q.at \in ResolvePoints THEN q.no ELSE q.snapshot.no

\* A start up to the point where it stores its evidence.
Beginning(q) == \/ q.at \in ResolvePoints /\ q.decision = None
                \/ q.at = "store" /\ q.snapshot.decision = None

\* The starts of which something is left behind.
OnFile(r) == {held.no : held \in Continuations(r)}
               \cup {e.no : e \in filed[r]}

StartsFresh ==
  /\ \A r \in RunIds : \A n \in OnFile(r) : n <= started[r]
  /\ \A k \in Workers : Numbered(request[k]) => Number(request[k]) <= started[request[k].run]
  /\ \A k \in Workers : Beginning(request[k]) =>
       Number(request[k]) \notin OnFile(request[k].run)
  /\ \A k \in Workers, j \in Workers :
       Beginning(request[k]) /\ j # k /\ Numbered(request[j]) /\ request[j].run = request[k].run =>
         Number(request[j]) # Number(request[k])

LEMMA BeginningNumbered ==
  ASSUME NEW q, Beginning(q)
  PROVE  Numbered(q)
BY DEF Beginning, Numbered, KeepPoints

LEMMA NumbersTyped ==
  ASSUME WorkerInv
  PROVE  /\ \A k \in Workers : Numbered(request[k]) =>
              request[k].run \in RunIds /\ Number(request[k]) \in 1 .. MaxStarts
         /\ \A r \in RunIds : OnFile(r) \subseteq 1 .. MaxStarts /\ started[r] \in Nat
<1>1. ASSUME NEW k \in Workers, Numbered(request[k])
      PROVE  request[k].run \in RunIds /\ Number(request[k]) \in 1 .. MaxStarts
  <2>1. PICK q : q = request[k]
    OBVIOUS
  <2>2. q \in InHand
    BY <2>1, ServedForm
  <2>3. q \in Resolving \/ q \in Keeping
    BY <1>1, <2>1, <2>2, FormsAt DEF InHand, Numbered, ResolvePoints, KeepPoints
  <2>4. CASE q \in Resolving
    BY <2>1, <2>4 DEF Resolving, Number, ResolvePoints
  <2>5. CASE q \in Keeping
    <3>1. q.snapshot \in Evidence /\ q.run \in RunIds /\ q.at \in KeepPoints
      BY <2>5 DEF Keeping, KeepPoints
    <3>2. q.snapshot.no \in 1 .. MaxStarts
      BY <3>1 DEF Evidence, SnapshotRecord
    <3>3. Number(q) = q.snapshot.no
      BY <3>1 DEF Number, ResolvePoints, KeepPoints
    <3> QED BY <2>1, <3>1, <3>2, <3>3
  <2> QED BY <2>3, <2>4, <2>5
<1>2. ASSUME NEW r \in RunIds
      PROVE  OnFile(r) \subseteq 1 .. MaxStarts /\ started[r] \in Nat
  <2>1. Continuations(r) \subseteq Pending
    BY HeldTyped DEF Continuations, Held
  <2>2. \A held \in Pending : held.no \in 1 .. MaxStarts
    BY DEF Pending, RunState
  <2>3. filed[r] \subseteq [no : 1 .. MaxStarts, decision : Decisions \cup {None}]
    BY DEF WorkerInv, Typed, FiledSets
  <2>4. \A e \in filed[r] : e.no \in 1 .. MaxStarts
    BY <2>3
  <2>5. started[r] \in Nat
    BY DEF WorkerInv, Typed
  <2> QED BY <2>1, <2>2, <2>3, <2>4, <2>5 DEF OnFile
<1> QED BY <1>1, <1>2

\* What p carries it has from q.
Inherits(p, q) == Numbered(p) => /\ Numbered(q) /\ p.run = q.run /\ Number(p) = Number(q)
                                 /\ Beginning(p) => Beginning(q)

\* What is on file is left there, by the request q if it is new, which is then
\* no longer beginning.
Files(p, q) ==
  \A r \in RunIds : \A n \in OnFile(r)' :
    n \in OnFile(r) \/ (Numbered(q) /\ q.run = r /\ n = Number(q) /\ ~Beginning(p))

LEMMA InheritsFresh ==
  ASSUME WorkerInv, StartsFresh, NEW k \in Workers, NEW q, q = request[k], NEW p,
         request' = [request EXCEPT ![k] = p], started' = started, Inherits(p, q), Files(p, q)
  PROVE  StartsFresh'
<1>1. /\ request'[k] = p
      /\ \A j \in Workers : j # k => request'[j] = request[j]
  BY DEF WorkerInv, Typed
<1>2. \A r \in RunIds : \A n \in OnFile(r)' : n <= started'[r]
  BY DEF StartsFresh, Files
<1>3. ASSUME NEW j \in Workers, Numbered(request'[j])
      PROVE  Number(request'[j]) <= started'[request'[j].run]
  BY <1>1, <1>3 DEF StartsFresh, Inherits
<1>4. ASSUME NEW j \in Workers, Beginning(request'[j])
      PROVE  Number(request'[j]) \notin OnFile(request[j].run)'
  <2>1. CASE j = k
    <3>1. Beginning(p) /\ Beginning(q) /\ p.run = q.run /\ Number(p) = Number(q)
      BY <1>1, <1>4, <2>1, BeginningNumbered DEF Inherits
    <3>2. Number(q) \notin OnFile(q.run) /\ q.run \in RunIds
      BY <3>1, NumbersTyped, BeginningNumbered DEF StartsFresh
    <3>3. Number(p) \notin OnFile(p.run)'
      BY <3>1, <3>2 DEF Files
    <3> QED BY <1>1, <2>1, <3>3
  <2>2. CASE j # k
    <3>1. Beginning(request[j]) /\ request'[j] = request[j]
      BY <1>1, <1>4, <2>2
    <3>2. Number(request[j]) \notin OnFile(request[j].run) /\ request[j].run \in RunIds
      BY <3>1, NumbersTyped, BeginningNumbered DEF StartsFresh
    <3>3. Numbered(q) /\ q.run = request[j].run => Number(q) # Number(request[j])
      BY <2>2, <3>1 DEF StartsFresh
    <3>4. PICK o : o = request[j]
      OBVIOUS
    <3>5. Number(o) \notin OnFile(o.run)'
      BY <3>2, <3>3, <3>4 DEF Files
    <3> QED BY <3>1, <3>4, <3>5
  <2> QED BY <2>1, <2>2
<1>5. ASSUME NEW j \in Workers, NEW i \in Workers, Beginning(request'[j]), i # j,
             Numbered(request'[i]), request'[i].run = request'[j].run
      PROVE  Number(request'[i]) # Number(request'[j])
  <2>1. CASE j = k
    <3>1. Beginning(p) /\ Beginning(q) /\ p.run = q.run /\ Number(p) = Number(q)
      BY <1>1, <1>5, <2>1, BeginningNumbered DEF Inherits
    <3>2. request'[i] = request[i] /\ request'[j] = p
      BY <1>1, <1>5, <2>1
    <3> QED BY <1>5, <2>1, <3>1, <3>2 DEF StartsFresh
  <2>2. CASE j # k /\ i = k
    <3>1. Numbered(q) /\ p.run = q.run /\ Number(p) = Number(q)
      BY <1>1, <1>5, <2>2 DEF Inherits
    <3>2. request'[j] = request[j] /\ request'[i] = p
      BY <1>1, <1>5, <2>2
    <3> QED BY <1>5, <2>2, <3>1, <3>2 DEF StartsFresh
  <2>3. CASE j # k /\ i # k
    <3>1. request'[j] = request[j] /\ request'[i] = request[i]
      BY <1>1, <2>3
    <3> QED BY <1>5, <3>1 DEF StartsFresh
  <2> QED BY <2>1, <2>2, <2>3
<1> QED BY <1>2, <1>3, <1>4, <1>5 DEF StartsFresh

LEMMA OnFileKept ==
  ASSUME UNCHANGED <<memory, kv, filed>>, NEW r
  PROVE  OnFile(r)' = OnFile(r)
BY DEF OnFile, Continuations

\* A new start has a number of its own.
LEMMA StartedFresh ==
  ASSUME WorkerInv, StartsFresh, NEW k \in Workers, NEW r \in RunIds, NEW o, NEW p,
         request' = [request EXCEPT ![k] = p], UNCHANGED <<memory, kv, filed>>,
         started' = [started EXCEPT ![r] = @ + 1],
         Inherits(p, o), o.run = r, Number(o) = started[r] + 1
  PROVE  StartsFresh'
<1>1. /\ request'[k] = p
      /\ \A j \in Workers : j # k => request'[j] = request[j]
  BY DEF WorkerInv, Typed
<1>2. /\ started'[r] = started[r] + 1 /\ started[r] \in Nat
      /\ \A x \in RunIds : started[x] \in Nat /\ (x # r => started'[x] = started[x])
  BY DEF WorkerInv, Typed
<1>3. /\ Numbered(p) => p.run = r /\ Number(p) = started[r] + 1
      /\ Beginning(p) => Numbered(p)
  BY BeginningNumbered DEF Inherits
<1>4. \A x \in RunIds : OnFile(x)' = OnFile(x) /\ OnFile(x) \subseteq 1 .. MaxStarts
  BY OnFileKept, NumbersTyped
<1>5. \A x \in RunIds : \A n \in OnFile(x)' : n <= started'[x]
  <2>1. ASSUME NEW x \in RunIds, NEW n \in OnFile(x)' PROVE n <= started'[x]
    <3>1. n \in OnFile(x) /\ n \in Int /\ n <= started[x]
      BY <1>4 DEF StartsFresh
    <3> QED BY <1>2, <3>1
  <2> QED BY <2>1
<1>6. ASSUME NEW j \in Workers, Numbered(request'[j])
      PROVE  Number(request'[j]) <= started'[request'[j].run]
  <2>1. CASE j = k
    BY <1>1, <1>2, <1>3, <1>6, <2>1
  <2>2. CASE j # k
    <3>1. PICK m : m = request[j]
      OBVIOUS
    <3>2. Numbered(m) /\ request'[j] = m
      BY <1>1, <1>6, <2>2, <3>1
    <3>3. Number(m) <= started[m.run] /\ m.run \in RunIds /\ Number(m) \in Int
      BY <3>1, <3>2, NumbersTyped DEF StartsFresh
    <3> QED BY <1>2, <3>2, <3>3
  <2> QED BY <2>1, <2>2
<1>7. \A n \in OnFile(r) : n # started[r] + 1
  BY <1>2, <1>4 DEF StartsFresh
<1>8. ASSUME NEW j \in Workers, Numbered(request[j]), request[j].run = r
      PROVE  Number(request[j]) # started[r] + 1
  <2>1. PICK n : n = Number(request[j])
    OBVIOUS
  <2>2. n <= started[r] /\ n \in Int
    BY <1>8, <2>1, NumbersTyped DEF StartsFresh
  <2> QED BY <1>2, <2>1, <2>2
<1>9. ASSUME NEW j \in Workers, Beginning(request'[j])
      PROVE  Number(request'[j]) \notin OnFile(request[j].run)'
  <2>1. PICK m : m = request'[j]
    OBVIOUS
  <2>2. Number(m) \notin OnFile(m.run) /\ m.run \in RunIds
    <3>1. CASE j = k
      BY <1>1, <1>3, <1>7, <1>9, <2>1, <3>1
    <3>2. CASE j # k
      <4>1. m = request[j] /\ Beginning(request[j])
        BY <1>1, <1>9, <2>1, <3>2
      <4> QED BY <4>1, BeginningNumbered, NumbersTyped DEF StartsFresh
    <3> QED BY <3>1, <3>2
  <2>3. Number(m) \notin OnFile(m.run)'
    BY <1>4, <2>2
  <2> QED BY <2>1, <2>3
<1>10. ASSUME NEW j \in Workers, NEW i \in Workers, Beginning(request'[j]), i # j,
              Numbered(request'[i]), request'[i].run = request'[j].run
       PROVE  Number(request'[i]) # Number(request'[j])
  <2>1. CASE j = k
    <3>1. /\ p.run = r /\ Number(p) = started[r] + 1
          /\ request'[i] = request[i] /\ request'[j] = p
      BY <1>1, <1>3, <1>10, <2>1
    <3> QED BY <1>8, <1>10, <3>1
  <2>2. CASE j # k /\ i = k
    <3>1. /\ p.run = r /\ Number(p) = started[r] + 1
          /\ request'[j] = request[j] /\ request'[i] = p
      BY <1>1, <1>3, <1>10, <2>2
    <3> QED BY <1>8, <1>10, <3>1, BeginningNumbered
  <2>3. CASE j # k /\ i # k
    <3>1. request'[j] = request[j] /\ request'[i] = request[i]
      BY <1>1, <2>3
    <3> QED BY <1>10, <3>1 DEF StartsFresh
  <2> QED BY <2>1, <2>2, <2>3
<1> QED BY <1>5, <1>6, <1>9, <1>10 DEF StartsFresh

\* A decision takes the number of a start that is on file.
LEMMA ContinuedFresh ==
  ASSUME WorkerInv, StartsFresh, NEW k \in Workers, NEW r \in RunIds, NEW o, NEW p,
         request' = [request EXCEPT ![k] = p], UNCHANGED <<memory, kv, filed, started>>,
         Inherits(p, o), o.run = r, Number(o) \in OnFile(r), ~Beginning(o)
  PROVE  StartsFresh'
<1>1. /\ request'[k] = p
      /\ \A j \in Workers : j # k => request'[j] = request[j]
  BY DEF WorkerInv, Typed
<1>2. /\ Numbered(p) => p.run = r /\ Number(p) \in OnFile(r)
      /\ ~Beginning(p)
  BY BeginningNumbered DEF Inherits
<1>3. \A x \in RunIds : OnFile(x)' = OnFile(x)
  BY OnFileKept
<1>4. \A x \in RunIds : \A n \in OnFile(x)' : n <= started'[x]
  BY <1>3 DEF StartsFresh
<1>5. ASSUME NEW j \in Workers, Numbered(request'[j])
      PROVE  Number(request'[j]) <= started'[request'[j].run]
  <2>1. CASE j = k
    BY <1>1, <1>2, <1>5, <2>1 DEF StartsFresh
  <2>2. CASE j # k
    BY <1>1, <1>5, <2>2 DEF StartsFresh
  <2> QED BY <2>1, <2>2
<1>6. ASSUME NEW j \in Workers, Beginning(request'[j])
      PROVE  /\ j # k /\ request'[j] = request[j] /\ request[j].run \in RunIds
             /\ Number(request[j]) \notin OnFile(request[j].run)
  <2>1. j # k /\ request'[j] = request[j] /\ Beginning(request[j])
    BY <1>1, <1>2, <1>6
  <2> QED BY <2>1, BeginningNumbered, NumbersTyped DEF StartsFresh
<1>7. ASSUME NEW j \in Workers, Beginning(request'[j])
      PROVE  Number(request'[j]) \notin OnFile(request[j].run)'
  <2>1. PICK m : m = request[j]
    OBVIOUS
  <2>2. Number(m) \notin OnFile(m.run)' /\ request'[j] = m
    BY <1>3, <1>6, <1>7, <2>1
  <2> QED BY <2>2
<1>8. ASSUME NEW j \in Workers, NEW i \in Workers, Beginning(request'[j]), i # j,
             Numbered(request'[i]), request'[i].run = request'[j].run
      PROVE  Number(request'[i]) # Number(request'[j])
  <2>1. CASE i = k
    BY <1>1, <1>2, <1>6, <1>8, <2>1
  <2>2. CASE i # k
    <3>1. request'[j] = request[j] /\ request'[i] = request[i]
      BY <1>1, <1>6, <1>8, <2>2
    <3> QED BY <1>8, <3>1 DEF StartsFresh
  <2> QED BY <2>1, <2>2
<1> QED BY <1>4, <1>5, <1>7, <1>8 DEF StartsFresh

LEMMA IdleInherits == \A q : Inherits(Idle, q) /\ ~Beginning(Idle)
BY FormsAt DEF Inherits, Beginning, Numbered, ResolvePoints, KeepPoints

LEMMA WalkedInherits ==
  ASSUME NEW q \in Resolving, NEW f, NEW p, p = Walked(q, f)
  PROVE  Inherits(p, q)
<1>1. PICK w, s : /\ w = ExecuteContractFlow(f, IF q.decision = None THEN f.entry ELSE q.step,
                                            q.outcomes, q.decision)
                 /\ s = Snapshot(q, f, w)
  OBVIOUS
<1>2. \/ p = Idle
      \/ p = [at |-> "store", on |-> q.on, run |-> q.run, contract |-> q.contract, snapshot |-> s]
  BY <1>1 DEF Walked
<1>3. s.no = q.no /\ s.decision = q.decision
  BY <1>1 DEF Snapshot
<1>4. q.at \in ResolvePoints
  BY FormsAt DEF ResolvePoints
<1>5. CASE p = [at |-> "store", on |-> q.on, run |-> q.run, contract |-> q.contract, snapshot |-> s]
  <2>1. p.at = "store" /\ p.run = q.run /\ p.snapshot = s
    BY <1>5
  <2>2. Number(p) = Number(q) /\ Numbered(q) /\ (Beginning(p) => Beginning(q))
    BY <1>3, <1>4, <2>1 DEF Number, Numbered, Beginning, ResolvePoints
  <2> QED BY <2>1, <2>2 DEF Inherits
<1> QED BY <1>2, <1>5, IdleInherits

LEMMA WithContractInherits ==
  ASSUME NEW q \in Resolving, NEW a, NEW p, p = WithContract(q, a)
  PROVE  Inherits(p, q)
<1>1. CASE q.decision = None
  <2>1. PICK m : m = [q EXCEPT !.at = "body"]
    OBVIOUS
  <2>2. m.run = q.run /\ m.no = q.no /\ m.decision = q.decision /\ m.at = "body"
    BY <2>1 DEF Resolving
  <2>3. p = [m EXCEPT !.admitted = a]
    BY <1>1, <2>1 DEF WithContract
  <2>4. p.run = q.run /\ p.no = q.no /\ p.decision = q.decision /\ p.at = "body"
    BY <2>1, <2>2, <2>3 DEF Resolving
  <2>5. q.at \in ResolvePoints
    BY FormsAt DEF ResolvePoints
  <2> QED BY <2>4, <2>5 DEF Inherits, Numbered, Number, Beginning, ResolvePoints
<1>2. CASE q.decision # None
  BY <1>2, WalkedInherits DEF WithContract
<1> QED BY <1>1, <1>2

LEMMA ResolvedInherits ==
  ASSUME NEW i, NEW q \in Resolving, NEW p, p = Resolved(i, q)
  PROVE  Inherits(p, q)
<1>1. CASE memory[i].contracts[q.contract] # None
  BY <1>1, WithContractInherits DEF Resolved
<1>2. CASE memory[i].contracts[q.contract] = None
  <2>1. p = [q EXCEPT !.at = "get contract"]
    BY <1>2 DEF Resolved
  <2>2. p.run = q.run /\ p.no = q.no /\ p.decision = q.decision /\ p.at = "get contract"
    BY <2>1 DEF Resolving
  <2>3. q.at \in ResolvePoints
    BY FormsAt DEF ResolvePoints
  <2> QED BY <2>2, <2>3 DEF Inherits, Numbered, Number, Beginning, ResolvePoints
<1> QED BY <1>1, <1>2

\* Nothing is put on file.
LEMMA NothingFiled ==
  ASSUME \A r \in RunIds : Continuations(r)' \subseteq Continuations(r), filed' = filed
  PROVE  \A p, q : Files(p, q)
<1>1. \A r \in RunIds : OnFile(r)' \subseteq OnFile(r)
  BY DEF OnFile
<1> QED BY <1>1 DEF Files

\* What is put on file is the request's own.
LEMMA OwnFiled ==
  ASSUME NEW q, NEW p, Numbered(q), ~Beginning(p),
         \A r \in RunIds : \A held \in Continuations(r)' :
           held \in Continuations(r) \/ (q.run = r /\ held.no = Number(q)),
         \A r \in RunIds : \A e \in filed'[r] :
           e \in filed[r] \/ (q.run = r /\ e.no = Number(q))
  PROVE  Files(p, q)
<1>1. ASSUME NEW r \in RunIds, NEW n \in OnFile(r)'
      PROVE  n \in OnFile(r) \/ (Numbered(q) /\ q.run = r /\ n = Number(q) /\ ~Beginning(p))
  <2>1. \/ \E held \in Continuations(r)' : n = held.no
        \/ \E e \in filed'[r] : n = e.no
    BY <1>1 DEF OnFile
  <2> QED BY <2>1 DEF OnFile
<1> QED BY <1>1 DEF Files

\* A step that leaves no run, evidence or continuation behind.
LEMMA HandledFresh ==
  ASSUME WorkerInv, StartsFresh, NEW k \in Workers, NEW q, q = request[k], NEW p,
         request' = [request EXCEPT ![k] = p], started' = started, Inherits(p, q),
         kv'.runs = kv.runs, filed' = filed,
         \A i \in Isolates, r \in RunIds : memory'[i].runs[r] \in {memory[i].runs[r], None}
  PROVE  StartsFresh'
<1>1. \A r \in RunIds : Continuations(r)' \subseteq Continuations(r)
  BY ContinuationsKept
<1>2. Files(p, q)
  BY <1>1, NothingFiled
<1> QED BY <1>2, InheritsFresh

LEMMA RegisterFresh ==
  ASSUME WorkerInv, StartsFresh, NEW k \in Workers, NEW i \in Isolates, NEW c \in Contracts,
         NEW f \in Candidates, Register(k, i, c, f)
  PROVE  StartsFresh'
<1>1. PICK a, q, p : /\ a = [flow |-> f, no |-> registered + 1] /\ q = request[k]
                    /\ p = [at |-> "put contract", on |-> i, contract |-> c, admitted |-> a, ids |-> {}]
  OBVIOUS
<1>2. /\ memory' = [memory EXCEPT ![i].contracts[c] = a] /\ UNCHANGED <<kv, started, filed>>
      /\ request' = [request EXCEPT ![k] = p]
  BY <1>1 DEF Register, Set, course
<1>3. Inherits(p, q)
  BY <1>1 DEF Inherits, Numbered, ResolvePoints, KeepPoints
<1>4. \A j \in Isolates, r \in RunIds : memory'[j].runs[r] = memory[j].runs[r]
  <2>1. PICK m, n : n = [memory[i].contracts EXCEPT ![c] = a] /\ m = [memory[i] EXCEPT !.contracts = n]
    OBVIOUS
  <2>2. memory' = [memory EXCEPT ![i] = m]
    BY <1>2, <2>1
  <2>3. memory \in [Isolates -> Memory] /\ memory[i] \in Memory
    BY DEF WorkerInv, Typed
  <2>4. m.runs = memory[i].runs
    BY <2>1, <2>3 DEF Memory
  <2> QED BY <2>2, <2>3, <2>4
<1> QED BY <1>1, <1>2, <1>3, <1>4, HandledFresh

LEMMA RegistrationFresh ==
  ASSUME WorkerInv, StartsFresh, NEW k \in Workers,
         PutContract(k) \/ GetIndex(k) \/ PutIndex(k)
  PROVE  StartsFresh'
<1>1. PICK q : q = request[k]
  OBVIOUS
<1>2. /\ q.at \in {"put contract", "get index", "put index"} /\ UNCHANGED <<memory, started, filed>>
  BY <1>1 DEF PutContract, GetIndex, PutIndex, registry, course
<1>3. q \in Registering /\ kv \in Namespace
  BY <1>1, <1>2, ServedForm DEF WorkerInv, Typed
<1>4. kv'.runs = kv.runs
  <2>1. \/ kv' = [kv EXCEPT !.contracts[q.contract] = Written(@, q.admitted)]
        \/ kv' = [kv EXCEPT !.contracts[IndexId] = Written(@, [ids |-> q.ids])]
        \/ kv' = kv
    BY <1>1 DEF PutContract, GetIndex, PutIndex, Upserted, Indexed
  <2> QED BY <1>3, <2>1 DEF Namespace
<1>5. PICK p : request' = [request EXCEPT ![k] = p] /\ Inherits(p, q)
  <2>1. CASE PutContract(k)
    <3>1. PICK p : p = [q EXCEPT !.at = "get index"]
      OBVIOUS
    <3>2. request' = [request EXCEPT ![k] = p] \/ request' = [request EXCEPT ![k] = Idle]
      BY <1>1, <2>1, <3>1 DEF PutContract, Goto, Finish, Set
    <3>3. p.at = "get index"
      BY <1>3, <3>1 DEF Registering
    <3>4. Inherits(p, q)
      BY <3>3 DEF Inherits, Numbered, ResolvePoints, KeepPoints
    <3> QED BY <3>2, <3>4, IdleInherits
  <2>2. CASE GetIndex(k)
    <3>1. \/ request' = [request EXCEPT ![k] = Idle]
          \/ \E v : request' = [request EXCEPT ![k] =
                        [q EXCEPT !.at = "put index", !.ids = v.ids \cup {q.contract}]]
      BY <1>1, <2>2 DEF GetIndex, Finish, Set
    <3>2. ASSUME NEW v, request' = [request EXCEPT ![k] =
                   [q EXCEPT !.at = "put index", !.ids = v.ids \cup {q.contract}]]
          PROVE  \E p : request' = [request EXCEPT ![k] = p] /\ Inherits(p, q)
      <4>1. PICK m, p : m = [q EXCEPT !.at = "put index"] /\ p = [m EXCEPT !.ids = v.ids \cup {q.contract}]
        OBVIOUS
      <4>2. p = [q EXCEPT !.at = "put index", !.ids = v.ids \cup {q.contract}]
        BY <4>1
      <4>3. p.at = "put index"
        <5>1. m \in Registering /\ m.at = "put index"
          BY <1>3, <4>1 DEF Registering
        <5> QED BY <4>1, <5>1 DEF Registering
      <4>4. Inherits(p, q)
        BY <4>3 DEF Inherits, Numbered, ResolvePoints, KeepPoints
      <4> QED BY <3>2, <4>2, <4>4
    <3> QED BY <3>1, <3>2, IdleInherits
  <2>3. CASE PutIndex(k)
    BY <2>3, IdleInherits DEF PutIndex, Finish, Set
  <2> QED BY <2>1, <2>2, <2>3
<1> QED BY <1>1, <1>2, <1>4, <1>5, HandledFresh

LEMMA ResolveFresh ==
  ASSUME WorkerInv, StartsFresh, NEW k \in Workers, GetContract(k) \/ Body(k)
  PROVE  StartsFresh'
<1>1. PICK q : q = request[k]
  OBVIOUS
<1>2. q.at \in {"get contract", "body"} /\ UNCHANGED <<memory, kv, started, filed>>
  BY <1>1 DEF GetContract, Body, registry, course
<1>3. q \in Resolving
  BY <1>1, <1>2, ServedForm
<1>4. PICK p : request' = [request EXCEPT ![k] = p] /\ Inherits(p, q)
  <2>1. CASE GetContract(k)
    <3>1. \/ request' = [request EXCEPT ![k] = Idle]
          \/ \E a : request' = [request EXCEPT ![k] = WithContract(q, a)]
      BY <1>1, <2>1 DEF GetContract, Finish, Set
    <3> QED BY <1>3, <3>1, IdleInherits, WithContractInherits
  <2>2. CASE Body(k)
    <3>1. request' = [request EXCEPT ![k] = Walked(q, q.admitted.flow)]
      BY <1>1, <2>2 DEF Body, Set
    <3> QED BY <1>3, <3>1, WalkedInherits
  <2> QED BY <2>1, <2>2
<1> QED BY <1>1, <1>2, <1>4, HandledFresh

LEMMA RunFresh ==
  ASSUME WorkerInv, StartsFresh, NEW k \in Workers, NEW i \in Isolates, NEW r \in RunIds,
         NEW c \in Contracts, NEW o \in OutcomeMaps, Run(k, i, r, c, o)
  PROVE  StartsFresh'
<1>1. PICK q, p : /\ q = [at |-> "run", on |-> i, run |-> r, contract |-> c, outcomes |-> o,
                         decision |-> None, step |-> None, no |-> started[r] + 1, admitted |-> None]
                 /\ p = Resolved(i, q)
  OBVIOUS
<1>2. /\ started[r] < MaxStarts /\ started' = [started EXCEPT ![r] = @ + 1]
      /\ request' = [request EXCEPT ![k] = p] /\ UNCHANGED <<memory, kv, filed>>
  BY <1>1 DEF Run, Set
<1>3. started[r] + 1 \in 1 .. MaxStarts
  BY <1>2, WorkerBounds DEF WorkerInv, Typed
<1>4. q \in Resolving /\ q.run = r /\ Number(q) = started[r] + 1
  BY <1>1, <1>3 DEF Resolving, Number, ResolvePoints
<1>5. Inherits(p, q)
  BY <1>1, <1>4, ResolvedInherits
<1> QED BY <1>2, <1>4, <1>5, StartedFresh

LEMMA ContinueFresh ==
  ASSUME WorkerInv, StartsFresh, NEW k \in Workers, NEW i \in Isolates, NEW r \in RunIds,
         NEW d \in Decisions, NEW held \in Continuations(r), Continue(k, i, r, d, held),
         UNCHANGED <<memory, kv, started, filed>>
  PROVE  StartsFresh'
<1>1. PICK q, p : /\ q = [at |-> "continue", on |-> i, run |-> r, contract |-> held.contract,
                         outcomes |-> held.outcomes, decision |-> d, step |-> held.step,
                         no |-> held.no, admitted |-> None]
                 /\ p = Resolved(i, q)
  OBVIOUS
<1>2. request' = [request EXCEPT ![k] = p]
  BY <1>1 DEF Continue, Set
<1>3. /\ held.contract \in Contracts /\ held.step \in Steps /\ held.outcomes \in OutcomeMaps
      /\ held.no \in 1 .. MaxStarts
  <2>1. held \in Pending
    BY HeldTyped DEF Continuations, Held
  <2> QED BY <2>1 DEF Pending, RunState
<1>4. q \in Resolving /\ q.run = r /\ Number(q) = held.no
  BY <1>1, <1>3 DEF Resolving, Number, ResolvePoints
<1>5. held.no \in OnFile(r)
  BY DEF OnFile
<1>6. ~Beginning(q)
  BY <1>1, NoneAssumption DEF Beginning
<1>7. Inherits(p, q)
  BY <1>1, <1>4, ResolvedInherits
<1> QED BY <1>2, <1>4, <1>5, <1>6, <1>7, ContinuedFresh

LEMMA DecisionFresh ==
  ASSUME WorkerInv, StartsFresh, NEW k \in Workers,
         \/ \E i \in Isolates, r \in RunIds, d \in Decisions : Decide(k, i, r, d)
         \/ GetRun(k)
  PROVE  StartsFresh'
<1>1. PICK q : q = request[k]
  OBVIOUS
<1>2. UNCHANGED <<memory, kv, started, filed>>
  BY DEF Decide, GetRun
<1>3. ASSUME NEW i \in Isolates, NEW r \in RunIds, NEW d \in Decisions, Decide(k, i, r, d)
      PROVE  StartsFresh'
  <2>1. CASE memory[i].runs[r] # None
    <3>1. memory[i].runs[r] \in Continuations(r)
      BY <2>1 DEF Continuations
    <3>2. Continue(k, i, r, d, memory[i].runs[r])
      BY <1>3, <2>1 DEF Decide
    <3> QED BY <1>2, <3>1, <3>2, ContinueFresh
  <2>2. CASE memory[i].runs[r] = None
    <3>1. PICK p : p = [at |-> "get run", on |-> i, run |-> r, decision |-> d]
      OBVIOUS
    <3>2. request' = [request EXCEPT ![k] = p]
      BY <1>3, <2>2, <3>1 DEF Decide, Set
    <3>3. Inherits(p, q)
      BY <3>1 DEF Inherits, Numbered, ResolvePoints, KeepPoints
    <3> QED BY <1>1, <1>2, <3>2, <3>3, HandledFresh
  <2> QED BY <2>1, <2>2
<1>4. CASE GetRun(k)
  <2>1. /\ q.at = "get run"
        /\ \/ \E held \in kv.runs[q.run].visible \ {None} : Continue(k, q.on, q.run, q.decision, held)
           \/ request' = [request EXCEPT ![k] = Idle]
    BY <1>1, <1>4 DEF GetRun, Finish, Set
  <2>2. q \in Asking
    BY <1>1, <2>1, ServedForm
  <2>3. q.on \in Isolates /\ q.run \in RunIds /\ q.decision \in Decisions
    BY <2>2 DEF Asking
  <2>4. ASSUME NEW held \in kv.runs[q.run].visible \ {None}, Continue(k, q.on, q.run, q.decision, held)
        PROVE  StartsFresh'
    <3>1. held \in Continuations(q.run)
      BY DEF Continuations
    <3> QED BY <1>2, <2>3, <2>4, <3>1, ContinueFresh
  <2>5. CASE request' = [request EXCEPT ![k] = Idle]
    BY <1>1, <1>2, <2>5, IdleInherits, HandledFresh
  <2> QED BY <2>1, <2>4, <2>5
<1> QED BY <1>3, <1>4

LEMMA StoreFresh ==
  ASSUME WorkerInv, StartsFresh, NEW k \in Workers, Store(k)
  PROVE  StartsFresh'
<1>1. PICK q, s, r, v : q = request[k] /\ s = q.snapshot /\ r = q.run /\ v = Waiting(k)
  OBVIOUS
<1>2. /\ q.at = "store" /\ started' = started
      /\ Stored(k) \/ UNCHANGED <<kv, filed>>
  BY <1>1 DEF Store
<1>3. q \in Keeping /\ memory \in [Isolates -> Memory] /\ kv \in Namespace
  BY <1>1, <1>2, ServedForm DEF WorkerInv, Typed
<1>4. q.on \in Isolates /\ r \in RunIds /\ s \in Evidence
  BY <1>1, <1>3 DEF Keeping
<1>5. Numbered(q) /\ Number(q) = s.no
  BY <1>1, <1>2 DEF Numbered, Number, ResolvePoints, KeepPoints
<1>6. s.status = "blocked" => v \in Pending /\ v.no = s.no
  BY <1>1, <1>3, WaitingTyped
<1>7. PICK p : /\ request' = [request EXCEPT ![k] = p] /\ Inherits(p, q) /\ ~Beginning(p)
               /\ \/ memory' = memory
                  \/ s.status = "blocked" /\ memory' = [memory EXCEPT ![q.on].runs[r] = v]
                  \/ memory' = [memory EXCEPT ![q.on].runs[r] = None]
  <2>1. \/ request' = [request EXCEPT ![k] = Idle] /\ memory' = memory
        \/ /\ request' = [request EXCEPT ![k] = [q EXCEPT !.at = "put run"]]
           /\ s.status = "blocked" /\ memory' = [memory EXCEPT ![q.on].runs[r] = v]
        \/ /\ request' = [request EXCEPT ![k] = [q EXCEPT !.at = "delete run"]]
           /\ memory' = [memory EXCEPT ![q.on].runs[r] = None]
    BY <1>1 DEF Store, AfterStore, Goto, Finish, Set
  <2>2. ASSUME NEW p, NEW point \in {"put run", "delete run"}, p = [q EXCEPT !.at = point]
        PROVE  Inherits(p, q) /\ ~Beginning(p)
    <3>1. p.at = point /\ p.run = q.run /\ p.snapshot = q.snapshot
      BY <1>3, <2>2 DEF Keeping
    <3>2. Numbered(p) /\ Number(p) = p.snapshot.no /\ ~Beginning(p)
      BY <3>1 DEF Numbered, Number, Beginning, ResolvePoints, KeepPoints
    <3> QED BY <1>1, <1>5, <3>1, <3>2 DEF Inherits
  <2>3. PICK a, b : a = [q EXCEPT !.at = "put run"] /\ b = [q EXCEPT !.at = "delete run"]
    OBVIOUS
  <2>4. Inherits(a, q) /\ ~Beginning(a) /\ Inherits(b, q) /\ ~Beginning(b)
    BY <2>2, <2>3
  <2> QED BY <2>1, <2>3, <2>4, IdleInherits
<1>8. \A i \in Isolates, x \in RunIds :
        \/ memory'[i].runs[x] \in {memory[i].runs[x], None}
        \/ x = r /\ memory'[i].runs[x] = v /\ v.no = s.no
  <2>1. ASSUME NEW u \in Pending \cup {None}, memory' = [memory EXCEPT ![q.on].runs[r] = u]
        PROVE  \A i \in Isolates, x \in RunIds :
                 memory'[i].runs[x] = memory[i].runs[x] \/ (x = r /\ memory'[i].runs[x] = u)
    <3>1. RunsElsewhere(r) /\ \A i \in Isolates : memory'[i].runs[r] \in {memory[i].runs[r], u}
      BY <1>3, <1>4, <2>1, MemoryRun
    <3> QED BY <3>1 DEF RunsElsewhere
  <2> QED BY <1>6, <1>7, <2>1
<1>9. /\ kv'.runs = kv.runs
      /\ \A x \in RunIds : \A e \in filed'[x] : e \in filed[x] \/ (x = r /\ e.no = s.no)
  <2>1. CASE UNCHANGED <<kv, filed>>
    BY <2>1
  <2>2. CASE Stored(k)
    <3>1. /\ kv' = [kv EXCEPT !.snapshots[r] = Written(@, s)]
          /\ filed' = [filed EXCEPT ![r] = @ \cup {EvidenceOf(s)}]
      BY <1>1, <2>2 DEF Stored
    <3>2. kv'.runs = kv.runs
      BY <1>3, <1>4, <3>1, PutSnapshotKV
    <3>3. filed \in FiledSets /\ EvidenceOf(s).no = s.no
      BY DEF WorkerInv, Typed, EvidenceOf
    <3>4. \A x \in RunIds : \A e \in filed'[x] : e \in filed[x] \/ (x = r /\ e = EvidenceOf(s))
      BY <1>4, <3>1, <3>3 DEF FiledSets
    <3> QED BY <3>2, <3>3, <3>4
  <2> QED BY <1>2, <2>1, <2>2
<1>10. \A x \in RunIds : \A held \in Continuations(x)' :
         held \in Continuations(x) \/ (q.run = x /\ held.no = Number(q))
  BY <1>1, <1>5, <1>8, <1>9 DEF Continuations
<1>11. \A x \in RunIds : \A e \in filed'[x] :
         e \in filed[x] \/ (q.run = x /\ e.no = Number(q))
  BY <1>1, <1>5, <1>9
<1>12. Files(p, q)
  BY <1>5, <1>7, <1>10, <1>11, OwnFiled
<1> QED BY <1>1, <1>2, <1>7, <1>12, InheritsFresh

LEMMA WriteRunFresh ==
  ASSUME WorkerInv, StartsFresh, NEW k \in Workers, PutRun(k) \/ DeleteRun(k)
  PROVE  StartsFresh'
<1>1. PICK q, v : q = request[k] /\ v = IF q.at = "put run" THEN Waiting(k) ELSE None
  OBVIOUS
<1>2. /\ q.at \in {"put run", "delete run"} /\ UNCHANGED <<memory, started, filed>>
      /\ request' = [request EXCEPT ![k] = Idle]
      /\ kv' = [kv EXCEPT !.runs[q.run] = Written(@, v)] \/ kv' = kv
  BY <1>1 DEF PutRun, DeleteRun, RunLeft, RunDeleted, Finish, Set
<1>3. q \in Keeping /\ Keeper(q) /\ kv \in Namespace
  BY <1>1, <1>2, ServedForm DEF WorkerInv, Typed
<1>4. v \in Pending \cup {None} /\ (v # None => v.no = q.snapshot.no) /\ q.run \in RunIds
  BY <1>1, <1>3, WaitingTyped DEF Keeping, Keeper
<1>5. Numbered(q) /\ Number(q) = q.snapshot.no
  BY <1>2 DEF Numbered, Number, ResolvePoints, KeepPoints
<1>6. CASE kv' = kv
  BY <1>1, <1>2, <1>6, IdleInherits, HandledFresh
<1>7. CASE kv' = [kv EXCEPT !.runs[q.run] = Written(@, v)]
  <2>1. /\ filed' = filed
        /\ Held(kv'.runs[q.run]) \subseteq Held(kv.runs[q.run]) \cup {v}
        /\ \A x \in RunIds : x # q.run => kv'.runs[x] = kv.runs[x]
    BY <1>2, <1>3, <1>4, <1>7, PutRunKV
  <2>2. \A x \in RunIds : \A held \in Continuations(x)' :
          held \in Continuations(x) \/ (q.run = x /\ held.no = Number(q))
    <3>1. \A x \in RunIds : x # q.run => Continuations(x)' = Continuations(x)
      BY <1>2, <2>1 DEF Continuations
    <3>2. Continuations(q.run)' \subseteq Continuations(q.run) \cup ({v} \ {None})
      BY <1>2, <2>1 DEF Continuations, Held
    <3> QED BY <1>4, <1>5, <3>1, <3>2
  <2>3. Files(Idle, q)
    BY <1>5, <2>1, <2>2, IdleInherits, OwnFiled
  <2> QED BY <1>1, <1>2, <2>3, IdleInherits, InheritsFresh
<1> QED BY <1>2, <1>6, <1>7

\* Requests and places that lose what they held.
LEMMA LostFresh ==
  ASSUME WorkerInv, StartsFresh, started' = started,
         \A k \in Workers : request'[k] = request[k] \/ request'[k] = Idle,
         \A r \in RunIds : Continuations(r)' \subseteq Continuations(r), filed' = filed
  PROVE  StartsFresh'
<1>1. \A r \in RunIds : OnFile(r)' \subseteq OnFile(r)
  BY DEF OnFile
<1>2. ~Numbered(Idle) /\ ~Beginning(Idle)
  BY FormsAt DEF Beginning, Numbered, ResolvePoints, KeepPoints
<1>3. \A r \in RunIds : \A n \in OnFile(r)' : n <= started'[r]
  BY <1>1 DEF StartsFresh
<1>4. \A k \in Workers : Numbered(request'[k]) => request'[k] = request[k]
  BY <1>2
<1>5. \A k \in Workers : Numbered(request'[k]) => Number(request'[k]) <= started'[request'[k].run]
  BY <1>4 DEF StartsFresh
<1>6. ASSUME NEW j \in Workers, Beginning(request'[j])
      PROVE  Number(request'[j]) \notin OnFile(request[j].run)'
  <2>1. PICK m : m = request[j]
    OBVIOUS
  <2>2. request'[j] = m /\ Beginning(m)
    BY <1>4, <1>6, <2>1, BeginningNumbered
  <2>3. Number(m) \notin OnFile(m.run) /\ m.run \in RunIds
    BY <2>1, <2>2, BeginningNumbered, NumbersTyped DEF StartsFresh
  <2>4. Number(m) \notin OnFile(m.run)'
    BY <1>1, <2>3
  <2> QED BY <2>2, <2>4
<1>7. ASSUME NEW j \in Workers, NEW i \in Workers, Beginning(request'[j]), i # j,
             Numbered(request'[i]), request'[i].run = request'[j].run
      PROVE  Number(request'[i]) # Number(request'[j])
  <2>1. request'[j] = request[j] /\ request'[i] = request[i]
    BY <1>4, <1>7, BeginningNumbered
  <2> QED BY <1>7, <2>1 DEF StartsFresh
<1> QED BY <1>3, <1>5, <1>6, <1>7 DEF StartsFresh

LEMMA PlatformFresh ==
  ASSUME WorkerInv, StartsFresh,
         \/ \E i \in Isolates : Evict(i)
         \/ \E r \in RunIds : SettleRun(r) \/ Expire(r)
         \/ \E c \in Contracts : SettleContract(c)
  PROVE  StartsFresh'
<1>1. ASSUME NEW i \in Isolates, Evict(i) PROVE StartsFresh'
  <2>1. PICK m : m = Nothing
    OBVIOUS
  <2>2. /\ memory' = [memory EXCEPT ![i] = m] /\ UNCHANGED <<kv, started, filed>>
        /\ request' = [k \in Workers |-> IF request[k] # Idle /\ request[k].on = i THEN Idle
                                         ELSE request[k]]
    BY <1>1, <2>1 DEF Evict, course
  <2>3. (\A r \in RunIds : m.runs[r] = None) /\ memory \in [Isolates -> Memory]
    BY <2>1 DEF Nothing, WorkerInv, Typed
  <2>4. \A j \in Isolates, r \in RunIds : memory'[j].runs[r] \in {memory[j].runs[r], None}
    BY <2>2, <2>3
  <2>5. \A r \in RunIds : Continuations(r)' \subseteq Continuations(r)
    BY <2>2, <2>4, ContinuationsKept
  <2>6. \A k \in Workers : request'[k] = request[k] \/ request'[k] = Idle
    BY <2>2
  <2> QED BY <2>2, <2>5, <2>6, LostFresh
<1>2. ASSUME NEW r \in RunIds, SettleRun(r) PROVE StartsFresh'
  <2>1. /\ kv' = [kv EXCEPT !.runs[r] = Settled(@), !.snapshots[r] = Settled(@)]
        /\ UNCHANGED <<memory, request, started, filed>>
    BY <1>2 DEF SettleRun, course
  <2>2. \A x \in RunIds : Held(kv'.runs[x]) \subseteq Held(kv.runs[x])
    BY <2>1, HeldTyped, SettleRunKV
  <2>3. \A x \in RunIds : Continuations(x)' \subseteq Continuations(x)
    BY <2>1, <2>2 DEF Continuations, Held
  <2> QED BY <2>1, <2>2, <2>3, LostFresh
<1>3. ASSUME NEW c \in Contracts, SettleContract(c) PROVE StartsFresh'
  <2>1. /\ kv' = [kv EXCEPT !.contracts[c] = Settled(@)]
        /\ UNCHANGED <<memory, request, started, filed>>
    BY <1>3 DEF SettleContract, course
  <2>2. kv'.runs = kv.runs
    BY <2>1, HeldTyped, SettleContractKV
  <2>3. \A x \in RunIds : Continuations(x)' \subseteq Continuations(x)
    BY <2>1, <2>2 DEF Continuations
  <2> QED BY <2>1, <2>2, <2>3, LostFresh
<1>4. ASSUME NEW r \in RunIds, Expire(r) PROVE StartsFresh'
  <2>1. /\ kv' = [kv EXCEPT !.snapshots[r] = Written(@, None)]
        /\ UNCHANGED <<memory, request, started, filed>>
    BY <1>4 DEF Expire, course
  <2>2. kv'.runs = kv.runs
    BY <2>1, HeldTyped, PutSnapshotKV
  <2>3. \A x \in RunIds : Continuations(x)' \subseteq Continuations(x)
    BY <2>1, <2>2 DEF Continuations
  <2> QED BY <2>1, <2>2, <2>3, LostFresh
<1> QED BY <1>1, <1>2, <1>3, <1>4

LEMMA NextFresh ==
  ASSUME WorkerInv, StartsFresh, Next
  PROVE  StartsFresh'
<1>1. ASSUME NEW k \in Workers, NEW i \in Isolates,
             \/ \E c \in Contracts, f \in Candidates : Register(k, i, c, f)
             \/ \E r \in RunIds, c \in Contracts, o \in OutcomeMaps : Run(k, i, r, c, o)
             \/ \E r \in RunIds, d \in Decisions : Decide(k, i, r, d)
      PROVE  StartsFresh'
  BY <1>1, RegisterFresh, RunFresh, DecisionFresh
<1>2. ASSUME NEW k \in Workers, Handle(k) PROVE StartsFresh'
  BY <1>2, RegistrationFresh, ResolveFresh, StoreFresh, WriteRunFresh, DecisionFresh DEF Handle
<1> QED BY <1>1, <1>2, PlatformFresh DEF Next

LEMMA StartsFreshAlways == Spec => [](WorkerInv /\ StartsFresh)
<1>1. Init => StartsFresh
  <2> SUFFICES ASSUME Init PROVE StartsFresh
    OBVIOUS
  <2>1. \A k \in Workers : ~Numbered(request[k]) /\ ~Beginning(request[k])
    <3>1. \A k \in Workers : request[k] = Idle
      BY DEF Init
    <3> QED BY <3>1, FormsAt DEF Beginning, Numbered, ResolvePoints, KeepPoints
  <2>2. ASSUME NEW r \in RunIds PROVE OnFile(r) = {}
    <3>1. kv.runs[r] = Cell(None) /\ filed[r] = {}
      BY DEF Init
    <3>2. \A i \in Isolates : memory[i].runs[r] = None
      BY DEF Init, Nothing
    <3> QED BY <3>1, <3>2 DEF OnFile, Continuations, Cell
  <2> QED BY <2>1, <2>2 DEF StartsFresh
<1>2. ASSUME StartsFresh, UNCHANGED vars PROVE StartsFresh'
  BY <1>2 DEF vars, code, course, StartsFresh, OnFile, Continuations
<1> QED BY <1>1, <1>2, NextFresh, WorkerInvAlways, PTL DEF Spec

\* Evidence is replaced by that of a store, or expires.
LEMMA EvidenceReplaced ==
  ASSUME WorkerInv, Next, NEW r \in RunIds, kv'.snapshots[r].latest # kv.snapshots[r].latest,
         kv'.snapshots[r].latest # None
  PROVE  \E k \in Workers : /\ request[k].at = "store" /\ request[k].run = r
                            /\ kv'.snapshots[r].latest = request[k].snapshot
<1>1. kv \in Namespace
  BY HeldTyped
<1>2. ASSUME NEW k \in Workers, Store(k)
      PROVE  /\ request[k].at = "store" /\ request[k].run = r
             /\ kv'.snapshots[r].latest = request[k].snapshot
  <2>1. PICK q : q = request[k]
    OBVIOUS
  <2>2. q.at = "store" /\ Stored(k)
    BY <1>2, <2>1 DEF Store
  <2>3. q \in Keeping
    BY <2>1, <2>2, ServedForm
  <2>4. kv' = [kv EXCEPT !.snapshots[q.run] = Written(@, q.snapshot)]
    BY <2>1, <2>2 DEF Stored
  <2>5. q.run \in RunIds /\ q.snapshot \in Evidence
    BY <2>3 DEF Keeping
  <2>6. /\ kv'.snapshots[q.run].latest = q.snapshot
        /\ \A x \in RunIds : x # q.run => kv'.snapshots[x] = kv.snapshots[x]
    BY <1>1, <2>4, <2>5, PutSnapshotKV
  <2> QED BY <2>1, <2>2, <2>6
<1>3. ASSUME NEW k \in Workers, Handle(k), ~Store(k) PROVE kv'.snapshots = kv.snapshots
  <2>1. PICK q, v : q = request[k] /\ v = Waiting(k)
    OBVIOUS
  <2>2. \/ kv' = [kv EXCEPT !.contracts[q.contract] = Written(@, q.admitted)]
        \/ kv' = [kv EXCEPT !.contracts[IndexId] = Written(@, [ids |-> q.ids])]
        \/ kv' = [kv EXCEPT !.runs[q.run] = Written(@, v)]
        \/ kv' = [kv EXCEPT !.runs[q.run] = Written(@, None)]
        \/ kv' = kv
    BY <1>3, <2>1 DEF Handle, PutContract, Upserted, GetIndex, PutIndex, Indexed, GetContract, Body,
                      PutRun, RunLeft, GetRun, DeleteRun, RunDeleted
  <2> QED BY <1>1, <2>2 DEF Namespace
<1>4. ASSUME NEW x \in RunIds, SettleRun(x) PROVE kv'.snapshots[r].latest = kv.snapshots[r].latest
  <2>1. kv' = [kv EXCEPT !.runs[x] = Settled(@), !.snapshots[x] = Settled(@)]
    BY <1>4 DEF SettleRun
  <2> QED BY <1>1, <2>1, SettleRunKV
<1>8. ASSUME NEW x \in RunIds, Expire(x)
      PROVE  kv'.snapshots[r].latest \in {kv.snapshots[r].latest, None}
  <2>1. kv' = [kv EXCEPT !.snapshots[x] = Written(@, None)] /\ None \in Evidence \cup {None}
    BY <1>8 DEF Expire
  <2>2. /\ kv'.snapshots[x].latest = None
        /\ \A y \in RunIds : y # x => kv'.snapshots[y] = kv.snapshots[y]
    BY <1>1, <2>1, PutSnapshotKV
  <2> QED BY <2>2
<1>5. ASSUME NEW c \in Contracts, SettleContract(c) PROVE kv'.snapshots = kv.snapshots
  <2>1. kv' = [kv EXCEPT !.contracts[c] = Settled(@)]
    BY <1>5 DEF SettleContract
  <2> QED BY <1>1, <2>1, SettleContractKV
<1>6. ASSUME NEW k \in Workers, NEW i \in Isolates,
             \/ \E c \in Contracts, f \in Candidates : Register(k, i, c, f)
             \/ \E x \in RunIds, c \in Contracts, o \in OutcomeMaps : Run(k, i, x, c, o)
             \/ \E x \in RunIds, d \in Decisions : Decide(k, i, x, d)
      PROVE  kv' = kv
  BY <1>6 DEF Register, Run, Decide
<1>7. \A i \in Isolates : Evict(i) => kv' = kv
  BY DEF Evict
<1> QED BY <1>2, <1>3, <1>4, <1>5, <1>6, <1>7, <1>8 DEF Next

\* The evidence of a start never follows that of a decision on it, in whichever
\* isolates the two are served, however late the namespace shows what was
\* written, and also once the decision's evidence has expired.
THEOREM DecisionEvidenceAlwaysStays == Spec => DecisionEvidenceStays
<1>1. ASSUME WorkerInv, StartsFresh, Next, NEW r \in RunIds, NEW old, NEW new,
             old = kv.snapshots[r].latest, new = kv'.snapshots[r].latest,
             old # new, new # None, new.decision = None, NEW e \in filed[r], e.no = new.no
      PROVE  FALSE
  <2>1. PICK k \in Workers : request[k].at = "store" /\ request[k].run = r /\ new = request[k].snapshot
    BY <1>1, EvidenceReplaced
  <2>2. Beginning(request[k]) /\ Number(request[k]) = new.no
    BY <1>1, <2>1 DEF Beginning, Number, ResolvePoints
  <2>3. e.no \in OnFile(r)
    BY DEF OnFile
  <2> QED BY <1>1, <2>1, <2>2, <2>3 DEF StartsFresh
<1>2. ASSUME WorkerInv, StartsFresh, [Next]_vars
      PROVE  [\A r \in RunIds :
                LET old == kv.snapshots[r].latest  new == kv'.snapshots[r].latest
                IN new # old /\ new # None =>
                     (new.decision = None =>
                        \A e \in filed[r] : e.no = new.no => e.decision = None)]_vars
  BY <1>1, <1>2
<1> QED BY <1>2, StartsFreshAlways, PTL DEF Spec, DecisionEvidenceStays

-----------------------------------------------------------------------------
(* Who touches what: registrations the contracts, runs and decisions the   *)
(* continuations.                                                          *)

RegisterPoints == {"put contract", "get index", "put index"}

\* A start until it is answered.
Starting(q) == \/ q.at \in {"get contract", "body"} /\ q.decision = None
               \/ q.at \in {"store", "put run"} /\ q.snapshot.decision = None

\* What a request decides, or None.
Choice(q) == IF q.at \in ResolvePoints THEN q.decision ELSE q.snapshot.decision

\* A handler that has read the continuation it decides.
Deciding(q) == Numbered(q) /\ Choice(q) # None

LEMMA IdleBlank == ~Starting(Idle) /\ ~Deciding(Idle) /\ Idle.at = "idle" /\ Idle.at \notin RegisterPoints
BY FormsAt DEF Starting, Deciding, Numbered, ResolvePoints, KeepPoints, RegisterPoints

\* What a handler that has the run, or its continuation, goes on with.
GoesOn(p) ==
  /\ p.at \in {"idle", "get contract", "body", "store"}
  /\ p.at = "store" /\ p.snapshot.status = "blocked" => p.snapshot.decision = None

LEMMA WalkedGoesOn ==
  ASSUME NEW q \in Resolving, NEW f, NEW p, p = Walked(q, f)
  PROVE  GoesOn(p) /\ p.at # "body"
<1>1. PICK w, s : /\ w = ExecuteContractFlow(f, IF q.decision = None THEN f.entry ELSE q.step,
                                            q.outcomes, q.decision)
                 /\ s = Snapshot(q, f, w)
  OBVIOUS
<1>2. \/ p = Idle
      \/ p = [at |-> "store", on |-> q.on, run |-> q.run, contract |-> q.contract, snapshot |-> s]
  BY <1>1 DEF Walked
<1>3. s.decision = q.decision /\ (s.status = "blocked" => q.decision = None)
  BY <1>1 DEF Snapshot
<1>4. CASE p = [at |-> "store", on |-> q.on, run |-> q.run, contract |-> q.contract, snapshot |-> s]
  <2>1. p.at = "store" /\ p.snapshot = s
    BY <1>4
  <2> QED BY <1>3, <2>1 DEF GoesOn
<1> QED BY <1>2, <1>4, FormsAt DEF GoesOn

LEMMA WithContractGoesOn ==
  ASSUME NEW q \in Resolving, NEW a, NEW p, p = WithContract(q, a)
  PROVE  GoesOn(p) /\ (p.at = "body" => p.admitted = a /\ p.contract = q.contract)
<1>1. CASE q.decision = None
  <2>1. PICK m : m = [q EXCEPT !.at = "body"]
    OBVIOUS
  <2>2. p = [m EXCEPT !.admitted = a]
    BY <1>1, <2>1 DEF WithContract
  <2>3. m.at = "body" /\ m.contract = q.contract
    BY <2>1 DEF Resolving
  <2>4. p.at = "body" /\ p.admitted = a /\ p.contract = q.contract
    BY <2>1, <2>2, <2>3 DEF Resolving
  <2> QED BY <2>4 DEF GoesOn
<1>2. CASE q.decision # None
  BY <1>2, WalkedGoesOn DEF WithContract
<1> QED BY <1>1, <1>2

LEMMA ResolvedGoesOn ==
  ASSUME NEW i, NEW q \in Resolving, NEW p, p = Resolved(i, q)
  PROVE  /\ GoesOn(p)
         /\ p.at = "body" => p.admitted = memory[i].contracts[q.contract] /\ p.contract = q.contract
                             /\ p.admitted # None
<1>1. CASE memory[i].contracts[q.contract] # None
  BY <1>1, WithContractGoesOn DEF Resolved
<1>2. CASE memory[i].contracts[q.contract] = None
  <2>1. p = [q EXCEPT !.at = "get contract"]
    BY <1>2 DEF Resolved
  <2>2. p.at = "get contract"
    BY <2>1 DEF Resolving
  <2> QED BY <2>2 DEF GoesOn
<1> QED BY <1>1, <1>2

\* It decides what the request it goes on from decides.
SameChoice(p, q) == Deciding(p) => Deciding(q) /\ p.run = q.run /\ Number(p) = Number(q)

LEMMA WalkedSameChoice ==
  ASSUME NEW q \in Resolving, NEW f, NEW p, p = Walked(q, f)
  PROVE  SameChoice(p, q)
<1>1. PICK w, s : /\ w = ExecuteContractFlow(f, IF q.decision = None THEN f.entry ELSE q.step,
                                            q.outcomes, q.decision)
                 /\ s = Snapshot(q, f, w)
  OBVIOUS
<1>2. \/ p = Idle
      \/ p = [at |-> "store", on |-> q.on, run |-> q.run, contract |-> q.contract, snapshot |-> s]
  BY <1>1 DEF Walked
<1>3. s.no = q.no /\ s.decision = q.decision
  BY <1>1 DEF Snapshot
<1>4. q.at \in ResolvePoints
  BY FormsAt DEF ResolvePoints
<1>5. CASE p = [at |-> "store", on |-> q.on, run |-> q.run, contract |-> q.contract, snapshot |-> s]
  <2>1. p.at = "store" /\ p.run = q.run /\ p.snapshot = s
    BY <1>5
  <2> QED BY <1>3, <1>4, <2>1 DEF SameChoice, Deciding, Numbered, Number, Choice, ResolvePoints
<1> QED BY <1>2, <1>5, IdleBlank DEF SameChoice

LEMMA WithContractSameChoice ==
  ASSUME NEW q \in Resolving, NEW a, NEW p, p = WithContract(q, a)
  PROVE  SameChoice(p, q)
<1>1. CASE q.decision = None
  <2>1. PICK m : m = [q EXCEPT !.at = "body"]
    OBVIOUS
  <2>2. p = [m EXCEPT !.admitted = a]
    BY <1>1, <2>1 DEF WithContract
  <2>3. m.at = "body" /\ m.decision = None
    BY <1>1, <2>1 DEF Resolving
  <2>4. p.at = "body" /\ p.decision = None
    BY <2>1, <2>2, <2>3 DEF Resolving
  <2> QED BY <2>4 DEF SameChoice, Deciding, Choice, ResolvePoints
<1>2. CASE q.decision # None
  BY <1>2, WalkedSameChoice DEF WithContract
<1> QED BY <1>1, <1>2

LEMMA ResolvedSameChoice ==
  ASSUME NEW i, NEW q \in Resolving, NEW p, p = Resolved(i, q)
  PROVE  SameChoice(p, q)
<1>1. CASE memory[i].contracts[q.contract] # None
  BY <1>1, WithContractSameChoice DEF Resolved
<1>2. CASE memory[i].contracts[q.contract] = None
  <2>1. p = [q EXCEPT !.at = "get contract"]
    BY <1>2 DEF Resolved
  <2>2. p.run = q.run /\ p.no = q.no /\ p.decision = q.decision /\ p.at = "get contract"
    BY <2>1 DEF Resolving
  <2>3. q.at \in ResolvePoints
    BY FormsAt DEF ResolvePoints
  <2> QED BY <2>2, <2>3 DEF SameChoice, Deciding, Numbered, Number, Choice, ResolvePoints
<1> QED BY <1>1, <1>2

\* Such a handler serves a start if the request it goes on from does.
LEMMA GoesOnStarting ==
  ASSUME NEW p, NEW q, GoesOn(p), Inherits(p, q), Starting(p)
  PROVE  Beginning(q) /\ p.run = q.run /\ Number(p) = Number(q)
<1>1. Beginning(p)
  BY DEF GoesOn, Starting, Beginning, ResolvePoints
<1> QED BY <1>1, BeginningNumbered DEF Inherits

\* The handler of request k goes on with p.
Serves(k, p) == request' = [request EXCEPT ![k] = p]

\* A decision on the start n of run r is noted as early if that start is unanswered.
MarksEarly(r, n) == early' = [early EXCEPT ![r] = IF Unanswered(r, n) THEN @ \cup {n} ELSE @]

Decides(p, r, n) == Deciding(p) => p.run = r /\ Number(p) = n

\* A decision is not a start, and its walk does not wait.
LEMMA ContinueGoesOn ==
  ASSUME NEW k \in Workers, NEW i, NEW r \in RunIds, NEW d \in Decisions, i \in Isolates,
         NEW held \in Pending, Continue(k, i, r, d, held)
  PROVE  /\ MarksEarly(r, held.no)
         /\ \E p : /\ Serves(k, p) /\ GoesOn(p) /\ ~Starting(p) /\ p.at # "body"
                   /\ Decides(p, r, held.no)
<1>1. PICK q, p : /\ q = [at |-> "continue", on |-> i, run |-> r, contract |-> held.contract,
                         outcomes |-> held.outcomes, decision |-> d, step |-> held.step,
                         no |-> held.no, admitted |-> None]
                 /\ p = Resolved(i, q)
  OBVIOUS
<1>2. Serves(k, p)
  BY <1>1 DEF Continue, Set, Serves
<1>3. /\ held.contract \in Contracts /\ held.step \in Steps /\ held.outcomes \in OutcomeMaps
      /\ held.no \in 1 .. MaxStarts
  BY DEF Pending, RunState
<1>4. q \in Resolving /\ q.at = "continue" /\ q.decision # None
  BY <1>1, <1>3, NoneAssumption DEF Resolving
<1>5. GoesOn(p) /\ Inherits(p, q) /\ SameChoice(p, q)
  BY <1>1, <1>4, ResolvedGoesOn, ResolvedInherits, ResolvedSameChoice
<1>6. ~Starting(p)
  BY <1>4, <1>5, GoesOnStarting DEF Beginning, ResolvePoints
<1>8. q.run = r /\ Number(q) = held.no
  BY <1>1 DEF Number, ResolvePoints
<1>9. Decides(p, r, held.no)
  BY <1>5, <1>8 DEF SameChoice, Decides
<1>10. MarksEarly(r, held.no)
  BY DEF Continue, MarksEarly
<1>7. p.at # "body"
  <2>1. CASE memory[i].contracts[q.contract] # None
    BY <1>1, <1>4, <2>1, WalkedGoesOn DEF Resolved, WithContract
  <2>2. CASE memory[i].contracts[q.contract] = None
    <3>1. p = [q EXCEPT !.at = "get contract"]
      BY <1>1, <2>2 DEF Resolved
    <3>2. p.at = "get contract"
      BY <1>4, <3>1 DEF Resolving
    <3> QED BY <3>2
  <2> QED BY <2>1, <2>2
<1> QED BY <1>2, <1>5, <1>6, <1>7, <1>9, <1>10

\* What a decision request goes on with before it stores.
Continued(p) == /\ GoesOn(p)
                /\ \E r \in RunIds : \E held \in Continuations(r) :
                     MarksEarly(r, held.no) /\ Decides(p, r, held.no)

Chooses(p) == /\ ~Starting(p) /\ p.at # "body"
              /\ Continued(p) \/ (early' = early /\ p.at \in {"get run", "idle"})

LEMMA ContinueChooses ==
  ASSUME NEW k \in Workers, NEW i \in Isolates, NEW r \in RunIds, NEW d \in Decisions,
         NEW held \in Pending, held \in Continuations(r), Continue(k, i, r, d, held)
  PROVE  \E p : Serves(k, p) /\ Chooses(p)
<1>1. PICK p : /\ Serves(k, p) /\ GoesOn(p) /\ ~Starting(p) /\ p.at # "body"
               /\ Decides(p, r, held.no)
  BY ContinueGoesOn
<1>2. MarksEarly(r, held.no)
  BY ContinueGoesOn
<1>3. Chooses(p)
  BY <1>1, <1>2 DEF Chooses, Continued
<1> QED BY <1>1, <1>3

LEMMA DecisionGoesOn ==
  ASSUME WorkerInv, NEW k \in Workers,
         \/ \E i \in Isolates, r \in RunIds, d \in Decisions : Decide(k, i, r, d)
         \/ GetRun(k)
  PROVE  /\ UNCHANGED <<memory, kv, registry, started, crossed, promised, accepted>>
         /\ \E p : Serves(k, p) /\ Chooses(p)
<1>1. ASSUME NEW i \in Isolates, NEW r \in RunIds, NEW d \in Decisions, Decide(k, i, r, d)
      PROVE  \E p : Serves(k, p) /\ Chooses(p)
  <2>1. PICK held \in Pending \cup {None} : held = memory[i].runs[r]
    BY HeldTyped
  <2>2. CASE held # None
    <3>1. held \in Pending /\ held \in Continuations(r)
      BY <2>1, <2>2 DEF Continuations
    <3>2. Continue(k, i, r, d, held)
      BY <1>1, <2>1, <2>2 DEF Decide
    <3> QED BY <3>1, <3>2, ContinueChooses
  <2>3. CASE held = None
    <3>1. PICK p : p = [at |-> "get run", on |-> i, run |-> r, decision |-> d]
      OBVIOUS
    <3>2. Serves(k, p)
      BY <1>1, <2>1, <2>3, <3>1 DEF Decide, Set, Serves
    <3>3. p.at = "get run" /\ early' = early
      BY <1>1, <2>1, <2>3, <3>1 DEF Decide
    <3>4. Chooses(p)
      BY <3>3 DEF Chooses, Starting
    <3> QED BY <3>2, <3>4
  <2> QED BY <2>2, <2>3
<1>2. ASSUME GetRun(k)
      PROVE  \E p : Serves(k, p) /\ Chooses(p)
  <2>1. PICK q : q = request[k]
    OBVIOUS
  <2>2. /\ q.at = "get run"
        /\ \/ \E held \in kv.runs[q.run].visible \ {None} : Continue(k, q.on, q.run, q.decision, held)
           \/ Finish(k) /\ early' = early
    BY <1>2, <2>1 DEF GetRun
  <2>3. q \in Asking
    BY <2>1, <2>2, ServedForm
  <2>4. q.on \in Isolates /\ q.run \in RunIds /\ q.decision \in Decisions
    BY <2>3 DEF Asking
  <2>5. ASSUME NEW held \in kv.runs[q.run].visible \ {None}, Continue(k, q.on, q.run, q.decision, held)
        PROVE  \E p : Serves(k, p) /\ Chooses(p)
    <3>1. held \in Pending /\ held \in Continuations(q.run)
      <4>1. held \in Held(kv.runs[q.run]) /\ held # None
        BY DEF Held
      <4> QED BY <2>4, <4>1, HeldTyped DEF Held, Continuations
    <3> QED BY <2>4, <2>5, <3>1, ContinueChooses
  <2>6. CASE Finish(k) /\ early' = early
    <3>1. Serves(k, Idle)
      BY <2>6 DEF Finish, Set, Serves
    <3>2. Chooses(Idle)
      BY <2>6, IdleBlank DEF Chooses
    <3> QED BY <3>1, <3>2
  <2> QED BY <2>2, <2>5, <2>6
<1>3. UNCHANGED <<memory, kv, registry, started, crossed, promised, accepted>>
  BY DEF Decide, GetRun
<1> QED BY <1>1, <1>2, <1>3

\* What p starts, or decides, q does.
GoesOnFrom(p, q) ==
  /\ Starting(p) => Starting(q) /\ p.run = q.run /\ Number(p) = Number(q)
  /\ Deciding(p) => Deciding(q) /\ p.run = q.run /\ Number(p) = Number(q)

LEMMA IdleGoesOn == \A q : GoesOn(Idle) /\ GoesOnFrom(Idle, q)
BY IdleBlank DEF GoesOn, GoesOnFrom

LEMMA ResolveGoesOn ==
  ASSUME WorkerInv, NEW k \in Workers, GetContract(k) \/ Body(k), NEW q, q = request[k]
  PROVE  /\ UNCHANGED <<memory, kv, registry, course>>
         /\ \E p : Serves(k, p) /\ GoesOn(p) /\ GoesOnFrom(p, q)
<1>1. UNCHANGED <<memory, kv, registry, course>>
  BY DEF GetContract, Body
<1>2. q.at \in {"get contract", "body"}
  BY DEF GetContract, Body
<1>3. q \in Resolving
  BY <1>2, ServedForm
<1>4. ASSUME NEW p, GoesOn(p), Inherits(p, q), SameChoice(p, q) PROVE GoesOnFrom(p, q)
  BY <1>2, <1>4, GoesOnStarting DEF GoesOnFrom, Starting, Beginning, SameChoice
<1>5. CASE GetContract(k)
  <2>1. ASSUME NEW a, NEW p, p = WithContract(q, a)
        PROVE  GoesOn(p) /\ GoesOnFrom(p, q)
    BY <1>3, <1>4, <2>1, WithContractGoesOn, WithContractInherits, WithContractSameChoice
  <2>2. (\E a : Serves(k, WithContract(q, a))) \/ Serves(k, Idle)
    BY <1>5 DEF GetContract, Set, Finish, Serves
  <2> QED BY <1>1, <2>1, <2>2, IdleGoesOn
<1>6. CASE Body(k)
  <2>1. PICK p : p = Walked(q, q.admitted.flow)
    OBVIOUS
  <2>2. GoesOn(p) /\ GoesOnFrom(p, q)
    BY <1>3, <1>4, <2>1, WalkedGoesOn, WalkedInherits, WalkedSameChoice
  <2>3. Serves(k, p)
    BY <1>6, <2>1 DEF Body, Set, Serves
  <2> QED BY <1>1, <2>2, <2>3
<1> QED BY <1>5, <1>6

\* What the start of the run r goes on with.
StartedWith(p, i, r, c) ==
  /\ GoesOn(p) /\ p.at \in {"get contract", "body"} /\ p.run = r /\ Number(p) = started'[r]
  /\ ~Deciding(p) /\ p.on = i
  /\ p.at = "body" => /\ p.admitted = memory[i].contracts[c] /\ p.contract = c
                      /\ p.admitted # None

\* The run r is started once more, no other is, and overlaps are noted.
OneStart(r) == /\ started'[r] = started[r] + 1
               /\ \A x \in RunIds : x # r => started'[x] = started[x]
               /\ crossed \subseteq crossed'
               /\ \A x \in crossed' \ crossed : x = r
               /\ (\E j \in Workers : StartUnderway(j, r)) => r \in crossed'

LEMMA RunGoesOn ==
  ASSUME WorkerInv, NEW k \in Workers, NEW i \in Isolates, NEW r \in RunIds, NEW c \in Contracts,
         NEW o \in OutcomeMaps, Run(k, i, r, c, o)
  PROVE  /\ UNCHANGED <<memory, kv, registry, early, promised, accepted>>
         /\ OneStart(r)
         /\ \E p : Serves(k, p) /\ StartedWith(p, i, r, c)
<1>1. PICK q, p : /\ q = [at |-> "run", on |-> i, run |-> r, contract |-> c, outcomes |-> o,
                         decision |-> None, step |-> None, no |-> started[r] + 1, admitted |-> None]
                 /\ p = Resolved(i, q)
  OBVIOUS
<1>2. /\ started[r] < MaxStarts /\ started' = [started EXCEPT ![r] = @ + 1]
      /\ Serves(k, p)
      /\ crossed' = IF \E j \in Workers : StartUnderway(j, r) THEN crossed \cup {r} ELSE crossed
      /\ UNCHANGED <<memory, kv, registry, early, promised, accepted>>
  BY <1>1 DEF Run, Set, Serves
<1>3. /\ started \in [RunIds -> 0 .. MaxStarts] /\ started[r] + 1 \in 1 .. MaxStarts
  BY <1>2, WorkerBounds DEF WorkerInv, Typed
<1>4. /\ q \in Resolving /\ q.at = "run" /\ q.decision = None /\ q.run = r /\ q.contract = c
      /\ Number(q) = started[r] + 1
  BY <1>1, <1>3 DEF Resolving, Number, ResolvePoints
<1>5. /\ GoesOn(p) /\ Inherits(p, q) /\ ~Deciding(p)
      /\ p.at = "body" => /\ p.admitted = memory[i].contracts[c] /\ p.contract = c
                          /\ p.admitted # None
  <2>1. ~Deciding(q)
    BY <1>4 DEF Deciding, Choice, ResolvePoints
  <2> QED BY <1>1, <1>4, <2>1, ResolvedGoesOn, ResolvedInherits, ResolvedSameChoice DEF SameChoice
<1>6. p.at \in {"get contract", "body"} /\ p.on = i
  <2>1. CASE memory[i].contracts[c] # None
    <3>1. PICK m : m = [q EXCEPT !.at = "body"]
      OBVIOUS
    <3>2. p = [m EXCEPT !.admitted = memory[i].contracts[c]]
      BY <1>1, <1>4, <2>1, <3>1 DEF Resolved, WithContract
    <3>3. m.at = "body" /\ m \in Resolving /\ m.on = i
      BY <1>1, <1>4, <3>1 DEF Resolving
    <3> QED BY <3>2, <3>3 DEF Resolving
  <2>2. CASE memory[i].contracts[c] = None
    <3>1. p = [q EXCEPT !.at = "get contract"]
      BY <1>1, <2>2 DEF Resolved
    <3> QED BY <1>1, <1>4, <3>1 DEF Resolving
  <2> QED BY <2>1, <2>2
<1>7. started'[r] = started[r] + 1 /\ OneStart(r)
  BY <1>2, <1>3 DEF OneStart
<1>8. p.run = r /\ Number(p) = started'[r]
  BY <1>4, <1>5, <1>6, <1>7 DEF Inherits, Numbered, ResolvePoints
<1>9. StartedWith(p, i, r, c)
  BY <1>5, <1>6, <1>8 DEF StartedWith
<1> QED BY <1>2, <1>7, <1>9
-----------------------------------------------------------------------------
(* What each kind of step touches                                          *)

RegistrationStep(k) ==
  \/ \E i \in Isolates, c \in Contracts, f \in Candidates : Register(k, i, c, f)
  \/ PutContract(k) \/ GetIndex(k) \/ PutIndex(k)

DecisionStep(k) == \/ \E i \in Isolates, r \in RunIds, d \in Decisions : Decide(k, i, r, d)
                   \/ GetRun(k)

RunStep(k) ==
  \/ \E i \in Isolates, r \in RunIds, c \in Contracts, o \in OutcomeMaps : Run(k, i, r, c, o)
  \/ DecisionStep(k)
  \/ GetContract(k) \/ Body(k) \/ Store(k) \/ PutRun(k) \/ DeleteRun(k)

PlatformStep == \/ \E i \in Isolates : Evict(i)
                \/ \E r \in RunIds : SettleRun(r) \/ Expire(r)
                \/ \E c \in Contracts : SettleContract(c)

LEMMA NextSteps ==
  ASSUME Next
  PROVE  PlatformStep \/ \E k \in Workers : RegistrationStep(k) \/ RunStep(k)
BY DEF Next, Handle, PlatformStep, RegistrationStep, RunStep, DecisionStep

LEMMA ServedAndOthers ==
  ASSUME WorkerInv, NEW k \in Workers, NEW p, Serves(k, p)
  PROVE  request'[k] = p /\ \A j \in Workers : j # k => request'[j] = request[j]
BY DEF WorkerInv, Typed, Serves

\* The isolate's map of contracts with one put in.
Learns(i, c, a) == memory' = [memory EXCEPT ![i].contracts[c] = a]

LEMMA MemoryContract ==
  ASSUME memory \in [Isolates -> Memory], NEW i \in Isolates, NEW c \in Contracts,
         NEW a \in Contract, Learns(i, c, a)
  PROVE  /\ memory'[i].contracts[c] = a
         /\ \A j \in Isolates, b \in Contracts :
              memory'[j].contracts[b] = memory[j].contracts[b] \/ (j = i /\ b = c)
         /\ \A j \in Isolates : memory'[j].runs = memory[j].runs
<1>1. PICK m, n : n = [memory[i].contracts EXCEPT ![c] = a] /\ m = [memory[i] EXCEPT !.contracts = n]
  OBVIOUS
<1>2. memory' = [memory EXCEPT ![i] = m]
  BY <1>1 DEF Learns
<1>3. memory[i] \in Memory
  OBVIOUS
<1>4. n[c] = a /\ \A b \in Contracts : b # c => n[b] = memory[i].contracts[b]
  BY <1>1, <1>3 DEF Memory
<1>5. m.contracts = n /\ m.runs = memory[i].runs
  BY <1>1, <1>3 DEF Memory
<1> QED BY <1>2, <1>4, <1>5

\* The isolate's map of continuations with the run's put or removed.
Leaves(i, r, v) == memory' = [memory EXCEPT ![i].runs[r] = v]

LEMMA MemoryRunPut ==
  ASSUME memory \in [Isolates -> Memory], NEW i \in Isolates, NEW r \in RunIds,
         NEW v \in Pending \cup {None}, Leaves(i, r, v)
  PROVE  /\ memory'[i].runs[r] = v
         /\ \A j \in Isolates, x \in RunIds :
              memory'[j].runs[x] = memory[j].runs[x] \/ (j = i /\ x = r)
         /\ \A j \in Isolates : memory'[j].contracts = memory[j].contracts
<1>1. PICK m, n : n = [memory[i].runs EXCEPT ![r] = v] /\ m = [memory[i] EXCEPT !.runs = n]
  OBVIOUS
<1>2. memory' = [memory EXCEPT ![i] = m]
  BY <1>1 DEF Leaves
<1>3. memory[i] \in Memory
  OBVIOUS
<1>4. n[r] = v /\ \A x \in RunIds : x # r => n[x] = memory[i].runs[x]
  BY <1>1, <1>3 DEF Memory
<1>5. m.runs = n /\ m.contracts = memory[i].contracts
  BY <1>1, <1>3 DEF Memory
<1> QED BY <1>2, <1>4, <1>5

\* Only c may become contested, and does if it is being registered.
Contests(c) == /\ contested \subseteq contested'
               /\ \A x \in contested' \ contested : x = c
               /\ (\E k \in Workers : RegistrationUnderway(k, c)) => c \in contested'

LEMMA RegisterHandled ==
  ASSUME WorkerInv, NEW k \in Workers, NEW i \in Isolates, NEW c \in Contracts,
         NEW f \in Candidates, Register(k, i, c, f)
  PROVE  /\ UNCHANGED <<kv, published, answered, course>>
         /\ registered' = registered + 1 /\ Contests(c)
         /\ \E p : /\ Serves(k, p) /\ p.at = "put contract" /\ p.on = i /\ p.contract = c
                   /\ p.admitted \in Contract /\ p.admitted.no = registered'
                   /\ Learns(i, c, p.admitted)
<1>1. PICK a, p : /\ a = [flow |-> f, no |-> registered + 1]
                 /\ p = [at |-> "put contract", on |-> i, contract |-> c, admitted |-> a, ids |-> {}]
  OBVIOUS
<1>2. /\ Learns(i, c, a) /\ Serves(k, p)
      /\ registered < MaxRegistrations /\ registered' = registered + 1 /\ ValidLegacyFlow(f)
      /\ UNCHANGED <<kv, published, answered, course>> /\ Contests(c)
  BY <1>1 DEF Register, Set, Serves, Learns, Contested, Contests
<1>3. registered \in Nat /\ registered + 1 \in 0 .. MaxRegistrations
  BY <1>2, WorkerBounds DEF WorkerInv, Typed
<1>4. a \in Contract /\ a.no = registered + 1
  BY <1>1, <1>2, <1>3, WorkerBounds DEF Contract, Admitted
<1>5. p.at = "put contract" /\ p.on = i /\ p.contract = c /\ p.admitted = a
  BY <1>1
<1> QED BY <1>2, <1>4, <1>5

\* A registration goes on with what it was for.
SameRegistration(p, q) == p.on = q.on /\ p.contract = q.contract /\ p.admitted = q.admitted

LEMMA RegistrantTyped ==
  ASSUME WorkerInv, NEW k \in Workers, NEW q, q = request[k], q.at \in RegisterPoints
  PROVE  /\ q \in Registering /\ q.on \in Isolates /\ q.contract \in Contracts
         /\ q.ids \in SUBSET Contracts
         /\ q.admitted \in Contract /\ q.admitted # None /\ q.admitted.no \in Nat
         /\ RegistrationUnderway(k, q.contract)
<1>1. q \in Registering
  BY ServedForm DEF RegisterPoints
<1>2. /\ q.on \in Isolates /\ q.contract \in Contracts /\ q.ids \in SUBSET Contracts
      /\ q.admitted \in Contract
  BY <1>1 DEF Registering
<1>3. \A a \in Contract : a \in Admitted /\ a.no \in Nat
  BY DEF Contract, Admitted
<1>4. RegistrationUnderway(k, q.contract)
  BY DEF RegistrationUnderway, RegisterPoints
<1> QED BY <1>1, <1>2, <1>3, <1>4, NoneAssumption

ContractsElsewhere(c) == \A b \in Contracts : b # c => kv'.contracts[b] = kv.contracts[b]

LEMMA PutContractHandled ==
  ASSUME WorkerInv, NEW k \in Workers, PutContract(k), NEW q, q = request[k]
  PROVE  /\ q.at = "put contract" /\ UNCHANGED <<memory, registry, course>>
         /\ kv'.runs = kv.runs
         /\ ContractsElsewhere(q.contract)
         /\ kv'.contracts = kv.contracts \/ kv'.contracts[q.contract].latest = q.admitted
         /\ \/ Serves(k, Idle)
            \/ /\ kv'.contracts[q.contract].latest = q.admitted
               /\ \E p : Serves(k, p) /\ p.at = "get index" /\ SameRegistration(p, q)
<1>1. /\ q.at = "put contract" /\ UNCHANGED <<memory, registry, course>>
      /\ Upserted(k) \/ kv' = kv
      /\ Serves(k, Idle) \/ (Upserted(k) /\ Serves(k, [q EXCEPT !.at = "get index"]))
  BY DEF PutContract, Goto, Set, Finish, Serves
<1>2. q \in Registering /\ q.contract \in Contracts /\ q.admitted \in Contract
  BY <1>1, RegistrantTyped DEF RegisterPoints
<1>3. PICK p : p = [q EXCEPT !.at = "get index"]
  OBVIOUS
<1>4. p.at = "get index" /\ SameRegistration(p, q)
  BY <1>2, <1>3 DEF Registering, SameRegistration
<1>5. ASSUME Upserted(k)
      PROVE  /\ kv'.runs = kv.runs
             /\ kv'.contracts[q.contract].latest = q.admitted
             /\ ContractsElsewhere(q.contract)
  <2>1. kv' = [kv EXCEPT !.contracts[q.contract] = Written(@, q.admitted)] /\ kv \in Namespace
    BY <1>5, HeldTyped DEF Upserted
  <2>2. q.admitted \in Place(q.contract)
    BY <1>2, PlaceIs
  <2> QED BY <1>2, <2>1, <2>2, PutEntryKV DEF ContractsElsewhere
<1>6. Serves(k, Idle) \/ (Upserted(k) /\ Serves(k, p))
  BY <1>1, <1>3
<1>7. kv' = kv => ContractsElsewhere(q.contract)
  BY DEF ContractsElsewhere
<1> QED BY <1>1, <1>4, <1>5, <1>6, <1>7

LEMMA GetIndexHandled ==
  ASSUME WorkerInv, NEW k \in Workers, GetIndex(k), NEW q, q = request[k]
  PROVE  /\ q.at = "get index" /\ UNCHANGED <<memory, kv, registry, course>>
         /\ \/ Serves(k, Idle)
            \/ \E p : Serves(k, p) /\ p.at = "put index" /\ SameRegistration(p, q)
<1>1. /\ q.at = "get index" /\ UNCHANGED <<memory, kv, registry, course>>
      /\ \/ \E v : Serves(k, [q EXCEPT !.at = "put index", !.ids = v.ids \cup {q.contract}])
         \/ Serves(k, Idle)
  BY DEF GetIndex, Set, Finish, Serves
<1>2. q \in Registering
  BY <1>1, RegistrantTyped DEF RegisterPoints
<1>3. ASSUME NEW v, Serves(k, [q EXCEPT !.at = "put index", !.ids = v.ids \cup {q.contract}])
      PROVE  \E p : Serves(k, p) /\ p.at = "put index" /\ SameRegistration(p, q)
  <2>1. PICK m, p : /\ m = [q EXCEPT !.at = "put index"]
                   /\ p = [m EXCEPT !.ids = v.ids \cup {q.contract}]
    OBVIOUS
  <2>2. Serves(k, p)
    BY <1>3, <2>1
  <2>3. m \in Registering /\ m.at = "put index" /\ SameRegistration(m, q)
    BY <1>2, <2>1 DEF Registering, SameRegistration
  <2>4. p.at = "put index" /\ SameRegistration(p, q)
    BY <2>1, <2>3 DEF Registering, SameRegistration
  <2> QED BY <2>2, <2>4
<1> QED BY <1>1, <1>3

\* The registration q is answered 201, or not.
Answers(q) == \/ UNCHANGED <<published, answered>>
              \/ /\ published' = [published EXCEPT ![q.contract] = q.admitted.no]
                 /\ answered' = [answered EXCEPT ![q.on][q.contract] = q.admitted.no]

LEMMA PutIndexHandled ==
  ASSUME WorkerInv, NEW k \in Workers, PutIndex(k), NEW q, q = request[k]
  PROVE  /\ q.at = "put index" /\ Serves(k, Idle)
         /\ UNCHANGED <<memory, registered, contested, course>>
         /\ kv'.runs = kv.runs /\ ContractsElsewhere(IndexId) /\ Answers(q)
<1>1. /\ q.at = "put index" /\ Serves(k, Idle)
      /\ UNCHANGED <<memory, registered, contested, course>>
      /\ Indexed(k) \/ kv' = kv
  BY DEF PutIndex, Set, Finish, Serves
<1>2. Answers(q)
  BY DEF PutIndex, Answers
<1>3. [ids |-> q.ids] \in Place(IndexId)
  <2>1. q.ids \in SUBSET Contracts
    BY <1>1, RegistrantTyped DEF RegisterPoints
  <2> QED BY <2>1, PlaceIs DEF Index
<1>4. ASSUME Indexed(k)
      PROVE  kv'.runs = kv.runs /\ ContractsElsewhere(IndexId)
  <2>1. /\ kv' = [kv EXCEPT !.contracts[IndexId] = Written(@, [ids |-> q.ids])]
        /\ kv \in Namespace /\ IndexId \in Contracts
    BY <1>4, HeldTyped, WorkerBounds DEF Indexed
  <2> QED BY <1>3, <2>1, PutEntryKV DEF ContractsElsewhere
<1>5. kv' = kv => ContractsElsewhere(IndexId)
  BY DEF ContractsElsewhere
<1> QED BY <1>1, <1>2, <1>4, <1>5

\* Registrations leave runs and continuations alone.
RunsKept == /\ UNCHANGED course /\ kv'.runs = kv.runs
            /\ \A i \in Isolates : memory'[i].runs = memory[i].runs

LEMMA RegistrationKeepsRuns ==
  ASSUME WorkerInv, NEW k \in Workers, RegistrationStep(k)
  PROVE  RunsKept /\ \E p : Serves(k, p) /\ p.at \in RegisterPoints \cup {"idle"}
<1>1. PICK q : q = request[k]
  OBVIOUS
<1>2. Idle.at = "idle"
  BY FormsAt
<1>3. ASSUME NEW i \in Isolates, NEW c \in Contracts, NEW f \in Candidates, Register(k, i, c, f)
      PROVE  RunsKept /\ \E p : Serves(k, p) /\ p.at \in RegisterPoints \cup {"idle"}
  <2>1. PICK p : /\ Serves(k, p) /\ p.at = "put contract"
                 /\ p.admitted \in Contract /\ Learns(i, c, p.admitted)
    BY <1>3, RegisterHandled
  <2>2. UNCHANGED <<kv, course>>
    BY <1>3, RegisterHandled
  <2>3. memory \in [Isolates -> Memory]
    BY DEF WorkerInv, Typed
  <2>4. \A j \in Isolates : memory'[j].runs = memory[j].runs
    BY <2>1, <2>3, MemoryContract
  <2> QED BY <2>1, <2>2, <2>4 DEF RunsKept, RegisterPoints
<1>4. CASE PutContract(k)
  BY <1>1, <1>2, <1>4, PutContractHandled DEF RunsKept, RegisterPoints
<1>5. CASE GetIndex(k)
  BY <1>1, <1>2, <1>5, GetIndexHandled DEF RunsKept, RegisterPoints
<1>6. CASE PutIndex(k)
  BY <1>1, <1>2, <1>6, PutIndexHandled DEF RunsKept
<1> QED BY <1>3, <1>4, <1>5, <1>6 DEF RegistrationStep

\* What was last written of continuations and contracts.
SamePlaces == /\ \A r \in RunIds : kv'.runs[r].latest = kv.runs[r].latest
              /\ \A c \in Contracts : kv'.contracts[c].latest = kv.contracts[c].latest

\* A request goes on with the same run.
SameRun(p, q) == p.on = q.on /\ p.run = q.run /\ p.snapshot = q.snapshot

LEMMA StoreHandled ==
  ASSUME WorkerInv, NEW k \in Workers, Store(k), NEW q, q = request[k]
  PROVE  /\ q.at = "store" /\ q \in Keeping /\ q.run \in RunIds /\ q.on \in Isolates
         /\ UNCHANGED <<registry, started, crossed, early, promised, accepted>> /\ SamePlaces
         /\ \/ Serves(k, Idle) /\ memory' = memory
            \/ /\ q.snapshot.status = "blocked"
               /\ \E v \in Pending : v.no = q.snapshot.no /\ Leaves(q.on, q.run, v)
               /\ \E p : Serves(k, p) /\ p.at = "put run" /\ SameRun(p, q)
            \/ /\ q.snapshot.decision # None /\ Leaves(q.on, q.run, None)
               /\ \E p : Serves(k, p) /\ p.at = "delete run" /\ SameRun(p, q)
<1>1. PICK v, a, b : /\ v = Waiting(k)
                    /\ a = [q EXCEPT !.at = "put run"] /\ b = [q EXCEPT !.at = "delete run"]
  OBVIOUS
<1>2. /\ q.at = "store" /\ UNCHANGED <<registry, started, crossed, early, promised, accepted>>
      /\ Stored(k) \/ kv' = kv
      /\ \/ /\ q.snapshot.status = "blocked" /\ Serves(k, a)
            /\ Leaves(q.on, q.run, v)
         \/ /\ Serves(k, b) /\ q.snapshot.decision # None
            /\ Leaves(q.on, q.run, None)
         \/ Serves(k, Idle) /\ memory' = memory
  BY <1>1 DEF Store, AfterStore, Goto, Set, Finish, Serves, Leaves
<1>3. q \in Keeping
  BY <1>2, ServedForm
<1>4. /\ q.run \in RunIds /\ q.on \in Isolates /\ q.snapshot \in Evidence
      /\ q.snapshot.status = "blocked" => v \in Pending /\ v.no = q.snapshot.no
  BY <1>1, <1>3, WaitingTyped DEF Keeping
<1>5. SamePlaces
  <2>1. CASE Stored(k)
    <3>1. kv' = [kv EXCEPT !.snapshots[q.run] = Written(@, q.snapshot)] /\ kv \in Namespace
      BY <2>1, HeldTyped DEF Stored
    <3> QED BY <1>4, <3>1, PutSnapshotKV DEF SamePlaces
  <2> QED BY <1>2, <2>1 DEF SamePlaces
<1>6. a.at = "put run" /\ SameRun(a, q) /\ b.at = "delete run" /\ SameRun(b, q)
  BY <1>1, <1>3 DEF Keeping, SameRun
<1> QED BY <1>2, <1>3, <1>4, <1>5, <1>6

LEMMA PutRunHandled ==
  ASSUME WorkerInv, NEW k \in Workers, PutRun(k), NEW q, q = request[k]
  PROVE  /\ q.at = "put run" /\ q \in Keeping /\ q.run \in RunIds /\ Serves(k, Idle)
         /\ UNCHANGED <<memory, registry, started, crossed, early, accepted>>
         /\ q.snapshot.decision = None
         /\ \/ kv' = kv /\ promised' = promised
            \/ /\ \E v \in Pending : /\ kv' = [kv EXCEPT !.runs[q.run] = Written(@, v)]
                                      /\ v.no = q.snapshot.no
               /\ \/ promised' = promised
                  \/ promised' = [promised EXCEPT ![q.run] = q.snapshot.no]
<1>1. PICK v : v = Waiting(k)
  OBVIOUS
<1>2. /\ q.at = "put run" /\ Serves(k, Idle)
      /\ UNCHANGED <<memory, registry, started, crossed, early, accepted>>
      /\ \/ kv' = kv /\ promised' = promised
         \/ /\ kv' = [kv EXCEPT !.runs[q.run] = Written(@, v)]
            /\ \/ promised' = promised
               \/ promised' = [promised EXCEPT ![q.run] = q.snapshot.no]
  BY <1>1 DEF PutRun, RunLeft, Set, Finish, Serves
<1>3. q \in Keeping /\ q.snapshot.status = "blocked"
  BY <1>2, ServedForm DEF Keeper
<1>4. q.run \in RunIds /\ v \in Pending /\ v.no = q.snapshot.no
  BY <1>1, <1>3, WaitingTyped DEF Keeping
<1>5. q.snapshot.decision = None
  <2>1. q.snapshot \in Evidence
    BY <1>3 DEF Keeping
  <2> QED BY <1>3, <2>1 DEF Evidence, Told
<1> QED BY <1>2, <1>3, <1>4, <1>5

Reply(q) == [no |-> q.snapshot.no, on |-> q.on]

LEMMA DeleteRunHandled ==
  ASSUME WorkerInv, NEW k \in Workers, DeleteRun(k), NEW q, q = request[k]
  PROVE  /\ q.at = "delete run" /\ q \in Keeping /\ q.run \in RunIds /\ Serves(k, Idle)
         /\ UNCHANGED <<memory, registry, started, crossed, early>>
         /\ promised' = [promised EXCEPT ![q.run] = 0]
         /\ \/ kv' = kv /\ accepted' = accepted
            \/ /\ kv' = [kv EXCEPT !.runs[q.run] = Written(@, None)]
               /\ \/ accepted' = accepted
                  \/ accepted' = [accepted EXCEPT ![q.run] = @ \cup {Reply(q)}]
<1>1. /\ q.at = "delete run" /\ Serves(k, Idle)
      /\ UNCHANGED <<memory, registry, started, crossed, early>>
      /\ promised' = [promised EXCEPT ![q.run] = 0]
      /\ \/ kv' = kv /\ accepted' = accepted
         \/ /\ kv' = [kv EXCEPT !.runs[q.run] = Written(@, None)]
            /\ \/ accepted' = accepted
               \/ accepted' = [accepted EXCEPT ![q.run] = @ \cup {Reply(q)}]
  BY DEF DeleteRun, RunDeleted, Set, Finish, Serves, Answer, Reply
<1>2. q \in Keeping
  BY <1>1, ServedForm
<1> QED BY <1>1, <1>2 DEF Keeping

\* Runs and decisions leave contracts, index and registrations alone.
ContractsKept == /\ UNCHANGED registry
                 /\ \A c \in Contracts : kv'.contracts[c].latest = kv.contracts[c].latest
                 /\ \A i \in Isolates : memory'[i].contracts = memory[i].contracts

LEMMA RunKeepsContracts ==
  ASSUME WorkerInv, NEW k \in Workers, RunStep(k)
  PROVE  ContractsKept /\ \E p : Serves(k, p) /\ p.at \notin RegisterPoints
<1> DEFINE Goal == ContractsKept /\ \E p : Serves(k, p) /\ p.at \notin RegisterPoints
<1>1. PICK q : q = request[k]
  OBVIOUS
<1>2. Idle.at \notin RegisterPoints /\ \A p : GoesOn(p) => p.at \notin RegisterPoints
  BY FormsAt DEF GoesOn, RegisterPoints
<1>3. ASSUME NEW i \in Isolates, NEW r \in RunIds, NEW c \in Contracts, NEW o \in OutcomeMaps,
             Run(k, i, r, c, o)
      PROVE  Goal
  <2>1. UNCHANGED <<memory, kv, registry>>
    BY <1>3, RunGoesOn
  <2>2. \E p : Serves(k, p) /\ StartedWith(p, i, r, c)
    BY <1>3, RunGoesOn
  <2> QED BY <1>2, <2>1, <2>2 DEF ContractsKept, Serves, StartedWith
<1>4. CASE DecisionStep(k)
  <2>1. UNCHANGED <<memory, kv, registry>>
    BY <1>4, DecisionGoesOn DEF DecisionStep
  <2>2. \E p : Serves(k, p) /\ Chooses(p)
    BY <1>4, DecisionGoesOn DEF DecisionStep
  <2>3. \A p : Chooses(p) => p.at \notin RegisterPoints
    BY <1>2 DEF Chooses, Continued, RegisterPoints
  <2> QED BY <2>1, <2>2, <2>3 DEF ContractsKept, Serves
<1>5. CASE GetContract(k) \/ Body(k)
  <2>1. UNCHANGED <<memory, kv, registry>>
    BY <1>1, <1>5, ResolveGoesOn
  <2>2. \E p : Serves(k, p) /\ GoesOn(p)
    BY <1>1, <1>5, ResolveGoesOn
  <2> QED BY <1>2, <2>1, <2>2 DEF ContractsKept, Serves
<1>6. CASE Store(k)
  <2>1. /\ q.on \in Isolates /\ q.run \in RunIds /\ UNCHANGED registry /\ SamePlaces
        /\ memory' = memory \/ \E v \in Pending \cup {None} : Leaves(q.on, q.run, v)
    BY <1>1, <1>6, StoreHandled
  <2>2. \E p : Serves(k, p) /\ p.at \in {"idle", "put run", "delete run"}
    BY <1>1, <1>6, StoreHandled, FormsAt
  <2>3. memory \in [Isolates -> Memory]
    BY DEF WorkerInv, Typed
  <2>4. \A i \in Isolates : memory'[i].contracts = memory[i].contracts
    BY <2>1, <2>3, MemoryRunPut
  <2> QED BY <2>1, <2>2, <2>4 DEF ContractsKept, SamePlaces, RegisterPoints
<1>7. CASE PutRun(k)
  <2>1. /\ q.run \in RunIds /\ Serves(k, Idle) /\ UNCHANGED <<memory, registry>>
        /\ kv' = kv \/ \E v \in Pending \cup {None} : kv' = [kv EXCEPT !.runs[q.run] = Written(@, v)]
    BY <1>1, <1>7, PutRunHandled
  <2>2. kv'.contracts = kv.contracts
    BY <2>1, HeldTyped, PutRunKV
  <2> QED BY <1>2, <2>1, <2>2 DEF ContractsKept
<1>8. CASE DeleteRun(k)
  <2>1. /\ q.run \in RunIds /\ Serves(k, Idle) /\ UNCHANGED <<memory, registry>>
        /\ kv' = kv \/ kv' = [kv EXCEPT !.runs[q.run] = Written(@, None)]
    BY <1>1, <1>8, DeleteRunHandled
  <2>2. kv'.contracts = kv.contracts
    BY <2>1, HeldTyped, PutRunKV
  <2> QED BY <1>2, <2>1, <2>2 DEF ContractsKept
<1> QED BY <1>3, <1>4, <1>5, <1>6, <1>7, <1>8 DEF RunStep

\* The platform leaves what a client was told, and what was last written, as it is.
LEMMA PlatformKeeps ==
  ASSUME WorkerInv, PlatformStep
  PROVE  /\ UNCHANGED <<registered, published, contested, course>> /\ SamePlaces
         /\ \A j \in Workers : request'[j] = request[j] \/ request'[j] = Idle
         /\ UNCHANGED <<memory, request, answered>> \/ \E i \in Isolates : Evict(i)
<1>1. ASSUME NEW r \in RunIds, SettleRun(r)
      PROVE  SamePlaces /\ UNCHANGED <<memory, request, registry, course>>
  <2>1. kv' = [kv EXCEPT !.runs[r] = Settled(@), !.snapshots[r] = Settled(@)] /\ kv \in Namespace
    BY <1>1, HeldTyped DEF SettleRun
  <2>2. SamePlaces
    BY <2>1, SettleRunKV DEF SamePlaces
  <2> QED BY <1>1, <2>2 DEF SettleRun
<1>2. ASSUME NEW r \in RunIds, Expire(r)
      PROVE  SamePlaces /\ UNCHANGED <<memory, request, registry, course>>
  <2>1. kv' = [kv EXCEPT !.snapshots[r] = Written(@, None)] /\ kv \in Namespace
    BY <1>2, HeldTyped DEF Expire
  <2>2. SamePlaces
    BY <2>1, PutSnapshotKV DEF SamePlaces
  <2> QED BY <1>2, <2>2 DEF Expire
<1>3. ASSUME NEW c \in Contracts, SettleContract(c)
      PROVE  SamePlaces /\ UNCHANGED <<memory, request, registry, course>>
  <2>1. kv' = [kv EXCEPT !.contracts[c] = Settled(@)] /\ kv \in Namespace
    BY <1>3, HeldTyped DEF SettleContract
  <2>2. SamePlaces
    BY <2>1, SettleContractKV DEF SamePlaces
  <2> QED BY <1>3, <2>2 DEF SettleContract
<1>4. ASSUME NEW i \in Isolates, Evict(i)
      PROVE  /\ SamePlaces /\ UNCHANGED <<registered, published, contested, course>>
             /\ \A j \in Workers : request'[j] = request[j] \/ request'[j] = Idle
  BY <1>4 DEF Evict, SamePlaces
<1>5. ASSUME UNCHANGED <<memory, request, registry, course>>
      PROVE  /\ UNCHANGED <<registered, published, contested, course>>
             /\ UNCHANGED <<memory, request, answered>>
             /\ \A j \in Workers : request'[j] = request[j]
  BY <1>5 DEF registry
<1> QED BY <1>1, <1>2, <1>3, <1>4, <1>5 DEF PlatformStep

-----------------------------------------------------------------------------
(* Registrations, which may overlap.  While two of one contract never were *)
(* in flight at once, what its entry holds is never older than what was    *)
(* admitted, put and answered.                                             *)

\* The contract's entry holds a contract, and none older than the n-th.
InForce(c, n) == /\ kv.contracts[c].latest # None
                 /\ c \notin contested => kv.contracts[c].latest.no >= n

Recent(q) ==
  q.at \in RegisterPoints =>
    /\ q.admitted.no <= registered
    /\ q.contract # IndexId =>
         /\ q.contract \notin contested => q.admitted.no >= published[q.contract]
         /\ q.at # "put contract" => InForce(q.contract, q.admitted.no)

Sole == \A j \in Workers, k \in Workers : \A c \in Contracts \ contested :
          RegistrationUnderway(j, c) /\ RegistrationUnderway(k, c) => j = k

Published ==
  /\ published \in [Contracts -> 0 .. registered]
  /\ \A c \in Contracts \ {IndexId} : published[c] # 0 => InForce(c, published[c])

RegistryInv == Published /\ Sole /\ \A k \in Workers : Recent(request[k])

LEMMA NotRegistering ==
  ASSUME NEW q, q.at \notin RegisterPoints
  PROVE  Recent(q)'
BY DEF Recent

\* What holds of a contract is not lost to a step that leaves its entry alone.
StillInForce(c) ==
  /\ kv.contracts[c].latest # None => kv'.contracts[c].latest # None
  /\ c \notin contested' => /\ kv'.contracts[c].latest = kv.contracts[c].latest
                            /\ published'[c] = published[c]

LEMMA RecentKept ==
  ASSUME WorkerInv, NEW j \in Workers, NEW q, q = request[j], Recent(q),
         contested \subseteq contested', registered' \in {registered, registered + 1},
         q.at \in RegisterPoints /\ q.contract # IndexId => StillInForce(q.contract)
  PROVE  Recent(q)'
<1> SUFFICES ASSUME q.at \in RegisterPoints
             PROVE  /\ q.admitted.no <= registered'
                    /\ q.contract # IndexId =>
                         /\ q.contract \notin contested' => q.admitted.no >= published'[q.contract]
                         /\ q.at # "put contract" => InForce(q.contract, q.admitted.no)'
  BY DEF Recent
<1>1. registered \in Nat /\ q.admitted.no \in Nat /\ q.contract \in Contracts
  BY RegistrantTyped DEF WorkerInv, Typed
<1>2. q.admitted.no <= registered'
  <2>1. q.admitted.no <= registered
    BY DEF Recent
  <2>2. PICK n : n = q.admitted.no
    OBVIOUS
  <2>3. n <= registered'
    BY <1>1, <2>1, <2>2
  <2> QED BY <2>2, <2>3
<1>3. ASSUME q.contract # IndexId
      PROVE  /\ q.contract \notin contested' => q.admitted.no >= published'[q.contract]
             /\ q.at # "put contract" => InForce(q.contract, q.admitted.no)'
  BY <1>3 DEF Recent, StillInForce, InForce
<1> QED BY <1>2, <1>3

LEMMA SoleKept ==
  ASSUME WorkerInv, Sole, NEW k \in Workers, NEW p, Serves(k, p), contested \subseteq contested',
         p.at \in RegisterPoints => /\ request[k].at \in RegisterPoints
                                    /\ p.contract = request[k].contract
  PROVE  Sole'
<1>1. request'[k] = p /\ \A j \in Workers : j # k => request'[j] = request[j]
  BY ServedAndOthers
<1>2. \A j \in Workers : \A c : RegistrationUnderway(j, c)' => RegistrationUnderway(j, c)
  BY <1>1 DEF RegistrationUnderway, RegisterPoints
<1> QED BY <1>2 DEF Sole

\* What a step of registration k leaves of the others.
OthersInForce(k) ==
  \A j \in Workers :
    (j # k /\ request[j].at \in RegisterPoints /\ request[j].contract # IndexId) =>
      StillInForce(request[j].contract)

\* It goes on as it was, or ends.
Proceeds(p, q) == p.at \in RegisterPoints => q.at \in RegisterPoints /\ p.contract = q.contract

LEMMA GoesOnRegistry ==
  ASSUME WorkerInv, RegistryInv, NEW k \in Workers, NEW p, Serves(k, p), Recent(p)',
         Proceeds(p, request[k]), UNCHANGED <<contested, registered>>, Published', OthersInForce(k)
  PROVE  RegistryInv'
<1>1. request'[k] = p /\ \A j \in Workers : j # k => request'[j] = request[j]
  BY ServedAndOthers
<1>2. Sole'
  BY SoleKept DEF RegistryInv, Proceeds
<1>3. ASSUME NEW j \in Workers PROVE Recent(request[j])'
  <2>1. PICK q : q = request[j]
    OBVIOUS
  <2>2. ASSUME j # k PROVE Recent(q)'
    BY <2>1, <2>2, RecentKept DEF RegistryInv, OthersInForce
  <2>3. PICK m : m = request'[j]
    OBVIOUS
  <2>4. Recent(m)'
    BY <1>1, <2>1, <2>2, <2>3
  <2> QED BY <2>3, <2>4 DEF Recent
<1> QED BY <1>2, <1>3 DEF RegistryInv

LEMMA RegisterRegistry ==
  ASSUME WorkerInv, RegistryInv, NEW k \in Workers, NEW i \in Isolates, NEW c \in Contracts,
         NEW f \in Candidates, Register(k, i, c, f)
  PROVE  RegistryInv'
<1>1. PICK p : /\ Serves(k, p) /\ p.at = "put contract" /\ p.on = i /\ p.contract = c
               /\ p.admitted \in Contract /\ p.admitted.no = registered'
               /\ Learns(i, c, p.admitted)
  BY RegisterHandled, Zenon
<1>2. /\ UNCHANGED <<kv, published>> /\ registered' = registered + 1 /\ Contests(c)
      /\ registered \in Nat /\ contested \subseteq contested'
  <2>1. UNCHANGED <<kv, published>> /\ registered' = registered + 1 /\ Contests(c)
    BY RegisterHandled
  <2> QED BY <2>1 DEF WorkerInv, Typed, Contests
<1>3. request'[k] = p /\ \A j \in Workers : j # k => request'[j] = request[j]
  BY <1>1, ServedAndOthers
<1>4. Published'
  <2>1. published \in [Contracts -> 0 .. registered] /\ 0 .. registered \subseteq 0 .. registered'
    BY <1>2 DEF RegistryInv, Published
  <2>2. \A b \in Contracts \ {IndexId} : published[b] # 0 => InForce(b, published[b])'
    BY <1>2 DEF RegistryInv, Published, InForce
  <2> QED BY <1>2, <2>1, <2>2 DEF Published, InForce
<1>5. Sole'
  <2>1. ASSUME NEW b \in Contracts \ contested', NEW j \in Workers,
               RegistrationUnderway(j, b)', j # k
        PROVE  b # c /\ RegistrationUnderway(j, b) /\ b \notin contested
    BY <1>2, <1>3, <2>1 DEF RegistrationUnderway, Contests
  <2>2. \A b : RegistrationUnderway(k, b)' => b = c
    BY <1>1, <1>3 DEF RegistrationUnderway
  <2> QED BY <2>1, <2>2 DEF RegistryInv, Sole
<1>6. Recent(p)'
  <2>1. published[c] \in Nat /\ published[c] <= registered
    BY <1>2 DEF RegistryInv, Published
  <2>2. registered + 1 >= published[c] /\ registered + 1 <= registered + 1
    BY <1>2, <2>1
  <2>3. /\ p.admitted.no = registered + 1 /\ p.contract = c /\ p.at = "put contract"
        /\ published' = published
    BY <1>1, <1>2
  <2> QED BY <1>2, <2>2, <2>3 DEF Recent
<1>7. ASSUME NEW j \in Workers PROVE Recent(request[j])'
  <2>1. PICK q : q = request[j]
    OBVIOUS
  <2>2. Recent(q)'
    BY <1>2, <2>1, RecentKept DEF RegistryInv, StillInForce
  <2>3. PICK m : m = request'[j]
    OBVIOUS
  <2>4. Recent(m)'
    BY <1>3, <1>6, <2>1, <2>2, <2>3
  <2> QED BY <2>3, <2>4 DEF Recent
<1> QED BY <1>4, <1>5, <1>7 DEF RegistryInv

LEMMA PutContractRegistry ==
  ASSUME WorkerInv, RegistryInv, NEW k \in Workers, PutContract(k)
  PROVE  RegistryInv'
<1>1. PICK q : q = request[k]
  OBVIOUS
<1>2. /\ q.at = "put contract" /\ UNCHANGED registry
      /\ ContractsElsewhere(q.contract)
      /\ kv'.contracts = kv.contracts \/ kv'.contracts[q.contract].latest = q.admitted
  BY <1>1, PutContractHandled
<1>3. UNCHANGED <<registered, published, contested>>
  BY <1>2 DEF registry
<1>4. PICK p : /\ Serves(k, p)
               /\ \/ p = Idle
                  \/ /\ kv'.contracts[q.contract].latest = q.admitted
                     /\ p.at = "get index" /\ SameRegistration(p, q)
  BY <1>1, PutContractHandled
<1>5. /\ q.contract \in Contracts /\ q.admitted # None /\ q.admitted.no \in Nat
      /\ RegistrationUnderway(k, q.contract)
  BY <1>1, <1>2, RegistrantTyped DEF RegisterPoints
<1>6. Recent(q) /\ q.at \in RegisterPoints
  BY <1>1, <1>2 DEF RegistryInv, RegisterPoints
<1>7. Recent(p)'
  <2>1. CASE p = Idle
    BY <2>1, IdleBlank, NotRegistering
  <2>2. CASE p # Idle
    <3>1. /\ p.contract = q.contract /\ p.admitted = q.admitted
          /\ kv'.contracts[q.contract].latest = q.admitted
      BY <1>4, <2>2 DEF SameRegistration
    <3>2. InForce(p.contract, p.admitted.no)'
      BY <1>5, <3>1 DEF InForce
    <3> QED BY <1>3, <1>6, <3>1, <3>2 DEF Recent
  <2> QED BY <2>1, <2>2
<1>8. Published'
  <2>1. ASSUME NEW c \in Contracts \ {IndexId}, published[c] # 0 PROVE InForce(c, published[c])'
    <3>1. InForce(c, published[c])
      BY <2>1 DEF RegistryInv, Published
    <3>2. CASE kv'.contracts[c] = kv.contracts[c]
      BY <1>3, <3>1, <3>2 DEF InForce
    <3>3. CASE c = q.contract /\ kv'.contracts[c].latest = q.admitted
      BY <1>3, <1>5, <1>6, <3>3 DEF Recent, InForce
    <3> QED BY <1>2, <3>2, <3>3 DEF ContractsElsewhere
  <2>2. \A c \in Contracts \ {IndexId} : published'[c] # 0 => InForce(c, published[c])'
    BY <1>3, <2>1
  <2>3. published' \in [Contracts -> 0 .. registered']
    BY <1>3 DEF RegistryInv, Published
  <2> QED BY <1>3, <2>2, <2>3 DEF Published, InForce
<1>9. ASSUME NEW j \in Workers, j # k, request[j].at \in RegisterPoints
      PROVE  StillInForce(request[j].contract)
  <2>1. RegistrationUnderway(j, request[j].contract) /\ request[j].contract \in Contracts
    BY <1>9, RegistrantTyped
  <2>2. CASE request[j].contract = q.contract
    <3>1. q.contract \in contested
      BY <1>5, <1>9, <2>1, <2>2 DEF RegistryInv, Sole
    <3> QED BY <1>2, <1>3, <1>5, <2>2, <3>1 DEF StillInForce
  <2>3. CASE request[j].contract # q.contract
    BY <1>2, <1>3, <2>1, <2>3 DEF StillInForce, ContractsElsewhere
  <2> QED BY <2>2, <2>3
<1>10. Proceeds(p, request[k])
  BY <1>1, <1>4, <1>6, IdleBlank DEF SameRegistration, Proceeds
<1>11. OthersInForce(k)
  BY <1>9 DEF OthersInForce
<1> QED BY <1>3, <1>4, <1>7, <1>8, <1>10, <1>11, GoesOnRegistry

LEMMA GetIndexRegistry ==
  ASSUME WorkerInv, RegistryInv, NEW k \in Workers, GetIndex(k)
  PROVE  RegistryInv'
<1>1. PICK q : q = request[k]
  OBVIOUS
<1>2. q.at = "get index" /\ UNCHANGED <<kv, registered, published, contested>>
  BY <1>1, GetIndexHandled DEF registry
<1>3. PICK p : Serves(k, p) /\ (p = Idle \/ (p.at = "put index" /\ SameRegistration(p, q)))
  BY <1>1, GetIndexHandled
<1>4. Recent(q) /\ q.at \in RegisterPoints
  BY <1>1, <1>2 DEF RegistryInv, RegisterPoints
<1>5. Recent(p)'
  <2>1. CASE p = Idle
    BY <2>1, IdleBlank, NotRegistering
  <2>2. CASE p # Idle
    BY <1>2, <1>3, <1>4, <2>2 DEF Recent, InForce, SameRegistration
  <2> QED BY <2>1, <2>2
<1>6. Published'
  BY <1>2 DEF RegistryInv, Published, InForce
<1>7. OthersInForce(k)
  BY <1>2 DEF OthersInForce, StillInForce
<1>8. Proceeds(p, request[k])
  BY <1>1, <1>3, <1>4, IdleBlank DEF SameRegistration, Proceeds
<1> QED BY <1>2, <1>3, <1>5, <1>6, <1>7, <1>8, GoesOnRegistry

LEMMA PutIndexRegistry ==
  ASSUME WorkerInv, RegistryInv, NEW k \in Workers, PutIndex(k)
  PROVE  RegistryInv'
<1>1. PICK q : q = request[k]
  OBVIOUS
<1>2. /\ q.at = "put index" /\ Serves(k, Idle) /\ UNCHANGED <<registered, contested>>
      /\ ContractsElsewhere(IndexId) /\ Answers(q)
  BY <1>1, PutIndexHandled
<1>3. /\ q.contract \in Contracts /\ q.admitted.no \in Nat /\ RegistrationUnderway(k, q.contract)
  BY <1>1, <1>2, RegistrantTyped DEF RegisterPoints
<1>4. Recent(q) /\ q.at \in RegisterPoints
  BY <1>1, <1>2 DEF RegistryInv, RegisterPoints
<1>5. /\ published \in [Contracts -> 0 .. registered] /\ registered \in Nat
      /\ q.admitted.no \in 0 .. registered
  <2>1. published \in [Contracts -> 0 .. registered] /\ registered \in Nat
    BY DEF RegistryInv, Published, WorkerInv, Typed
  <2>2. q.admitted.no <= registered
    BY <1>4 DEF Recent
  <2>3. PICK n : n = q.admitted.no
    OBVIOUS
  <2>4. n \in 0 .. registered
    BY <1>3, <2>1, <2>2, <2>3
  <2> QED BY <2>1, <2>3, <2>4
<1>6. /\ published' \in [Contracts -> 0 .. registered]
      /\ \A c \in Contracts : c # q.contract => published'[c] = published[c]
      /\ published'[q.contract] \in {published[q.contract], q.admitted.no}
  BY <1>2, <1>3, <1>5 DEF Answers
<1>7. Published'
  <2>1. ASSUME NEW c \in Contracts \ {IndexId}, NEW n, n = published'[c], n # 0
        PROVE  InForce(c, n)'
    <3>1. kv'.contracts[c] = kv.contracts[c]
      BY <1>2 DEF ContractsElsewhere
    <3>2. InForce(c, n)
      <4>1. CASE n = published[c]
        BY <2>1, <4>1 DEF RegistryInv, Published
      <4>2. CASE c = q.contract /\ n = q.admitted.no
        BY <1>2, <1>4, <4>2 DEF Recent
      <4> QED BY <1>6, <2>1, <4>1, <4>2
    <3> QED BY <1>2, <3>1, <3>2 DEF InForce
  <2>2. \A c \in Contracts \ {IndexId} : published'[c] # 0 =>
          /\ kv'.contracts[c].latest # None
          /\ c \notin contested' => kv'.contracts[c].latest.no >= published'[c]
    BY <2>1 DEF InForce
  <2> QED BY <1>2, <1>6, <2>2 DEF Published, InForce
<1>8. ASSUME NEW j \in Workers, j # k, request[j].at \in RegisterPoints,
             request[j].contract # IndexId
      PROVE  StillInForce(request[j].contract)
  <2>1. RegistrationUnderway(j, request[j].contract) /\ request[j].contract \in Contracts
    BY <1>8, RegistrantTyped
  <2>2. kv'.contracts[request[j].contract] = kv.contracts[request[j].contract]
    BY <1>2, <1>8, <2>1 DEF ContractsElsewhere
  <2>3. request[j].contract # q.contract \/ q.contract \in contested
    BY <1>3, <1>8, <2>1 DEF RegistryInv, Sole
  <2> QED BY <1>2, <1>6, <2>1, <2>2, <2>3 DEF StillInForce
<1>9. OthersInForce(k)
  BY <1>8 DEF OthersInForce
<1>10. Recent(Idle)' /\ Proceeds(Idle, request[k])
  BY IdleBlank, NotRegistering DEF Proceeds
<1> QED BY <1>2, <1>7, <1>9, <1>10, GoesOnRegistry

\* Steps that keep the contracts, and the platform's.
LEMMA ElsewhereRegistry ==
  ASSUME WorkerInv, RegistryInv, UNCHANGED <<registered, published, contested>>,
         \A c \in Contracts : kv'.contracts[c].latest = kv.contracts[c].latest,
         \A j \in Workers : request'[j] = request[j] \/ request'[j].at \notin RegisterPoints
  PROVE  RegistryInv'
<1>1. Published'
  BY DEF RegistryInv, Published, InForce
<1>2. \A j \in Workers : \A c : RegistrationUnderway(j, c)' => RegistrationUnderway(j, c)
  BY DEF RegistrationUnderway, RegisterPoints
<1>3. Sole'
  BY <1>2 DEF RegistryInv, Sole
<1>4. ASSUME NEW j \in Workers PROVE Recent(request[j])'
  <2>1. PICK q, m : q = request[j] /\ m = request'[j]
    OBVIOUS
  <2>2. q.at \in RegisterPoints => StillInForce(q.contract)
    BY <2>1, RegistrantTyped DEF StillInForce
  <2>3. Recent(q)'
    BY <2>1, <2>2, RecentKept DEF RegistryInv
  <2>4. Recent(m)'
    BY <2>1, <2>3, NotRegistering
  <2> QED BY <2>1, <2>4 DEF Recent
<1> QED BY <1>1, <1>3, <1>4 DEF RegistryInv

LEMMA NextRegistry ==
  ASSUME WorkerInv, RegistryInv, Next
  PROVE  RegistryInv'
<1>1. ASSUME NEW k \in Workers, RegistrationStep(k) PROVE RegistryInv'
  BY <1>1, RegisterRegistry, PutContractRegistry, GetIndexRegistry, PutIndexRegistry
     DEF RegistrationStep
<1>2. ASSUME NEW k \in Workers, RunStep(k) PROVE RegistryInv'
  <2>1. ContractsKept
    BY <1>2, RunKeepsContracts
  <2>2. PICK p : Serves(k, p) /\ p.at \notin RegisterPoints
    BY <1>2, RunKeepsContracts
  <2>3. \A j \in Workers : request'[j] = request[j] \/ request'[j].at \notin RegisterPoints
    BY <2>2, ServedAndOthers
  <2> QED BY <2>1, <2>3, ElsewhereRegistry DEF ContractsKept, registry
<1>3. ASSUME PlatformStep PROVE RegistryInv'
  BY <1>3, PlatformKeeps, ElsewhereRegistry, IdleBlank DEF SamePlaces
<1> QED BY <1>1, <1>2, <1>3, NextSteps

LEMMA RegistryAlways == Spec => [](WorkerInv /\ RegistryInv)
<1>1. Init => RegistryInv
  <2> SUFFICES ASSUME Init PROVE RegistryInv
    OBVIOUS
  <2>1. /\ \A k \in Workers : request[k] = Idle
        /\ published = [c \in Contracts |-> 0] /\ registered = 0
    BY DEF Init
  <2>2. \A k \in Workers : Recent(request[k]) /\ \A c : ~RegistrationUnderway(k, c)
    BY <2>1, FormsAt DEF Recent, RegistrationUnderway, RegisterPoints
  <2> QED BY <2>1, <2>2 DEF RegistryInv, Published, Sole
<1>2. ASSUME RegistryInv, UNCHANGED vars PROVE RegistryInv'
  <2>1. UNCHANGED <<kv, request, registered, published, contested>>
    BY <1>2 DEF vars, code, registry
  <2> QED BY <1>2, <2>1 DEF RegistryInv, Published, Sole, Recent, InForce, RegistrationUnderway
<1> QED BY <1>1, <1>2, NextRegistry, WorkerInvAlways, PTL DEF Spec

\* A registration answered 201 stays stored until a later one of its contract
\* replaces it, also across evictions and failed writes; where registrations of
\* one contract overlapped, one of them is stored.
THEOREM PublishedContractAlwaysStored == Spec => []PublishedContractStored
<1>1. RegistryInv => PublishedContractStored
  BY DEF RegistryInv, Published, InForce, PublishedContractStored
<1> QED BY <1>1, RegistryAlways, PTL

-----------------------------------------------------------------------------
(* What an isolate answers 201 it knows, until it goes.                    *)

\* The isolate knows the contract, and no version older than the n-th.
Known(i, c, n) == memory[i].contracts[c] # None /\ memory[i].contracts[c].no >= n

Learnt(q) == q.at \in RegisterPoints =>
               q.on \in Isolates /\ Known(q.on, q.contract, q.admitted.no)

NewestInv ==
  /\ answered \in [Isolates -> [Contracts -> Nat]]
  /\ \A i \in Isolates, c \in Contracts :
       memory[i].contracts[c] # None => memory[i].contracts[c].no <= registered
  /\ \A i \in Isolates, c \in Contracts : answered[i][c] # 0 => Known(i, c, answered[i][c])
  /\ \A k \in Workers : Learnt(request[k])

LEMMA NotLearning ==
  ASSUME NEW q, q.at \notin RegisterPoints
  PROVE  Learnt(q)'
BY DEF Learnt

LEMMA KnownTyped ==
  ASSUME WorkerInv, NEW i \in Isolates, NEW c \in Contracts
  PROVE  memory[i].contracts[c] # None => memory[i].contracts[c].no \in Nat
<1>1. PICK a : a = memory[i].contracts[c]
  OBVIOUS
<1>2. a \in Contract \cup {None}
  BY <1>1, HeldTyped
<1>3. a # None => a.no \in Nat
  BY <1>2 DEF Contract, Admitted
<1> QED BY <1>1, <1>3

LEMMA RegisterNewest ==
  ASSUME WorkerInv, NewestInv, NEW k \in Workers, NEW i \in Isolates, NEW c \in Contracts,
         NEW f \in Candidates, Register(k, i, c, f)
  PROVE  NewestInv'
<1>1. PICK p : /\ Serves(k, p) /\ p.at = "put contract" /\ p.on = i /\ p.contract = c
               /\ p.admitted \in Contract /\ p.admitted.no = registered'
               /\ Learns(i, c, p.admitted)
  BY RegisterHandled, Zenon
<1>2. registered' = registered + 1 /\ answered' = answered
  BY RegisterHandled
<1>3. registered \in Nat /\ memory \in [Isolates -> Memory]
  BY DEF WorkerInv, Typed
<1>4. p.admitted # None
  BY <1>1, NoneAssumption DEF Contract
<1>5. /\ memory'[i].contracts[c] = p.admitted
      /\ \A j \in Isolates, b \in Contracts :
           memory'[j].contracts[b] = memory[j].contracts[b] \/ (j = i /\ b = c)
  <2>1. PICK a : a = p.admitted /\ a \in Contract /\ Learns(i, c, a)
    BY <1>1
  <2> QED BY <1>3, <2>1, MemoryContract
<1>6. ASSUME NEW j \in Isolates, NEW b \in Contracts
      PROVE  /\ memory'[j].contracts[b] # None => memory'[j].contracts[b].no <= registered'
             /\ \A n \in Nat : Known(j, b, n) => Known(j, b, n)'
  <2>1. CASE memory'[j].contracts[b] = memory[j].contracts[b]
    <3>1. PICK a : a = memory[j].contracts[b]
      OBVIOUS
    <3>2. a # None => a.no \in Nat /\ a.no <= registered
      BY <3>1, KnownTyped DEF NewestInv
    <3>3. a # None => a.no <= registered + 1
      BY <1>3, <3>2
    <3> QED BY <1>2, <2>1, <3>1, <3>3 DEF Known
  <2>2. CASE j = i /\ b = c
    <3>1. ASSUME NEW n \in Nat, Known(j, b, n) PROVE n <= registered + 1
      <4>1. PICK m : m = memory[j].contracts[b].no
        OBVIOUS
      <4>2. m \in Nat /\ m <= registered /\ m >= n
        BY <3>1, <4>1, KnownTyped DEF NewestInv, Known
      <4> QED BY <1>3, <4>2
    <3>2. memory'[j].contracts[b].no = registered + 1 /\ memory'[j].contracts[b] # None
      BY <1>1, <1>2, <1>4, <1>5, <2>2
    <3>3. registered + 1 <= registered + 1 /\ \A n \in Nat : n <= registered + 1 => registered + 1 >= n
      BY <1>3
    <3> QED BY <1>2, <3>1, <3>2, <3>3 DEF Known
  <2> QED BY <1>5, <2>1, <2>2
<1>7. \A j \in Isolates, b \in Contracts : answered'[j][b] # 0 => Known(j, b, answered[j][b])'
  <2>1. ASSUME NEW j \in Isolates, NEW b \in Contracts, NEW n, n = answered[j][b], n # 0
        PROVE  Known(j, b, n)'
    <3>1. n \in Nat /\ Known(j, b, n)
      BY <2>1 DEF NewestInv
    <3> QED BY <1>6, <3>1
  <2> QED BY <1>2, <2>1 DEF Known
<1>8. Learnt(p)'
  <2>1. PICK n : n = p.admitted.no /\ n \in Nat
    <3>1. registered + 1 \in Nat
      BY <1>3
    <3> QED BY <1>1, <1>2, <3>1
  <2>2. n >= n
    BY <2>1
  <2>3. Known(i, c, n)'
    BY <1>4, <1>5, <2>1, <2>2 DEF Known
  <2> QED BY <1>1, <2>1, <2>3 DEF Learnt, Known
<1>9. ASSUME NEW j \in Workers PROVE Learnt(request[j])'
  <2>1. PICK q : q = request[j]
    OBVIOUS
  <2>2. Learnt(q)'
    <3>1. CASE q.at \in RegisterPoints
      <4>1. /\ q.on \in Isolates /\ q.contract \in Contracts /\ q.admitted.no \in Nat
            /\ Known(q.on, q.contract, q.admitted.no)
        BY <2>1, <3>1, RegistrantTyped DEF NewestInv, Learnt
      <4>2. Known(q.on, q.contract, q.admitted.no)'
        BY <1>6, <4>1
      <4> QED BY <4>1, <4>2 DEF Learnt
    <3>2. CASE q.at \notin RegisterPoints
      BY <3>2, NotLearning
    <3> QED BY <3>1, <3>2
  <2>3. PICK m : m = request'[j]
    OBVIOUS
  <2>4. Learnt(m)'
    BY <1>1, <1>8, <2>1, <2>2, <2>3, ServedAndOthers
  <2> QED BY <2>3, <2>4 DEF Learnt, Known
<1> QED BY <1>2, <1>6, <1>7, <1>9 DEF NewestInv, Known

\* Steps that keep what the isolates know.
LEMMA KnownKept ==
  ASSUME WorkerInv, NewestInv, registered' = registered,
         \A i \in Isolates : memory'[i].contracts = memory[i].contracts,
         answered' \in [Isolates -> [Contracts -> Nat]],
         \A i \in Isolates, c \in Contracts :
           answered'[i][c] # 0 => Known(i, c, answered'[i][c]),
         NEW k \in Workers, NEW p, Serves(k, p), Learnt(p)
  PROVE  NewestInv'
<1>1. \A i \in Isolates : \A c, n : Known(i, c, n)' <=> Known(i, c, n)
  BY DEF Known
<1>2. \A i \in Isolates, c \in Contracts : answered'[i][c] # 0 => Known(i, c, answered[i][c])'
  BY DEF Known
<1>3. ASSUME NEW j \in Workers PROVE Learnt(request[j])'
  <2>1. PICK m : m = request'[j]
    OBVIOUS
  <2>2. Learnt(m)
    BY <2>1, ServedAndOthers DEF NewestInv
  <2>3. Learnt(m)'
    BY <1>1, <2>2 DEF Learnt
  <2> QED BY <2>1, <2>3 DEF Learnt, Known
<1> QED BY <1>2, <1>3 DEF NewestInv, Known

LEMMA RegistrationNewest ==
  ASSUME WorkerInv, NewestInv, NEW k \in Workers, PutContract(k) \/ GetIndex(k) \/ PutIndex(k)
  PROVE  NewestInv'
<1>1. PICK q : q = request[k]
  OBVIOUS
<1>2. q.at \in RegisterPoints /\ memory' = memory /\ registered' = registered
  BY <1>1, PutContractHandled, GetIndexHandled, PutIndexHandled DEF RegisterPoints, registry
<1>3. Learnt(q) /\ Learnt(Idle)
  BY <1>1, IdleBlank DEF NewestInv, Learnt
<1>4. PICK p : Serves(k, p) /\ Learnt(p)
  <2>1. \A p : SameRegistration(p, q) => Learnt(p)
    BY <1>2, <1>3 DEF SameRegistration, Learnt
  <2> QED BY <1>1, <1>3, <2>1, PutContractHandled, GetIndexHandled, PutIndexHandled
<1>5. CASE answered' = answered
  BY <1>2, <1>4, <1>5, KnownKept DEF NewestInv
<1>6. CASE PutIndex(k)
  <2>1. answered' = answered \/ answered' = [answered EXCEPT ![q.on][q.contract] = q.admitted.no]
    BY <1>1, <1>6, PutIndexHandled DEF Answers
  <2>2. /\ answered \in [Isolates -> [Contracts -> Nat]]
        /\ q.on \in Isolates /\ q.contract \in Contracts /\ q.admitted.no \in Nat
    BY <1>1, <1>2, RegistrantTyped DEF NewestInv
  <2>3. CASE answered' = [answered EXCEPT ![q.on][q.contract] = q.admitted.no]
    <3>1. PICK n, m : /\ n = q.admitted.no /\ m = [answered[q.on] EXCEPT ![q.contract] = n]
                     /\ answered' = [answered EXCEPT ![q.on] = m]
      BY <2>3
    <3>2. /\ m \in [Contracts -> Nat] /\ m[q.contract] = n
          /\ \A c \in Contracts : c # q.contract => m[c] = answered[q.on][c]
      BY <2>2, <3>1
    <3>3. /\ answered' \in [Isolates -> [Contracts -> Nat]] /\ answered'[q.on] = m
          /\ \A i \in Isolates : i # q.on => answered'[i] = answered[i]
      BY <2>2, <3>1, <3>2
    <3>4. Known(q.on, q.contract, n)
      BY <1>2, <1>3, <3>1 DEF Learnt
    <3>5. \A i \in Isolates, c \in Contracts : answered'[i][c] # 0 => Known(i, c, answered'[i][c])
      BY <3>2, <3>3, <3>4 DEF NewestInv
    <3> QED BY <1>2, <1>4, <3>3, <3>5, KnownKept
  <2> QED BY <1>5, <2>1, <2>3
<1> QED BY <1>1, <1>5, <1>6, PutContractHandled, GetIndexHandled DEF registry

LEMMA EvictNewest ==
  ASSUME WorkerInv, NewestInv, NEW i \in Isolates, Evict(i)
  PROVE  NewestInv'
<1>1. PICK m, z : m = Nothing /\ z = [c \in Contracts |-> 0]
  OBVIOUS
<1>2. /\ memory' = [memory EXCEPT ![i] = m] /\ registered' = registered
      /\ request' = [k \in Workers |-> IF request[k] # Idle /\ request[k].on = i THEN Idle
                                       ELSE request[k]]
      /\ answered' = [answered EXCEPT ![i] = z]
  BY <1>1 DEF Evict
<1>3. /\ memory'[i] = m /\ \A j \in Isolates : j # i => memory'[j] = memory[j]
      /\ \A c \in Contracts : m.contracts[c] = None
  BY <1>1, <1>2 DEF WorkerInv, Typed, Nothing
<1>4. /\ answered' \in [Isolates -> [Contracts -> Nat]]
      /\ answered'[i] = z /\ \A j \in Isolates : j # i => answered'[j] = answered[j]
  BY <1>1, <1>2 DEF NewestInv
<1>5. \A j \in Isolates : j # i => \A c, n : Known(j, c, n) => Known(j, c, n)'
  BY <1>3 DEF Known
<1>6. ASSUME NEW j \in Isolates, NEW c \in Contracts
      PROVE  /\ memory'[j].contracts[c] # None => memory'[j].contracts[c].no <= registered'
             /\ answered'[j][c] # 0 => Known(j, c, answered[j][c])'
  <2>1. CASE j = i
    BY <1>1, <1>3, <1>4, <2>1
  <2>2. CASE j # i
    BY <1>2, <1>3, <1>4, <2>2 DEF NewestInv, Known
  <2> QED BY <2>1, <2>2
<1>7. ASSUME NEW k \in Workers PROVE Learnt(request[k])'
  <2>1. PICK q : q = request'[k] /\ (q = Idle \/ (q = request[k] /\ q.on # i) \/ request[k] = Idle)
    BY <1>2
  <2>2. Learnt(q)'
    BY <1>2, <1>5, <2>1, IdleBlank DEF NewestInv, Learnt
  <2> QED BY <2>1, <2>2 DEF Learnt, Known
<1> QED BY <1>4, <1>6, <1>7 DEF NewestInv, Known

LEMMA NextNewest ==
  ASSUME WorkerInv, NewestInv, Next
  PROVE  NewestInv'
<1>1. ASSUME NEW k \in Workers, RegistrationStep(k) PROVE NewestInv'
  BY <1>1, RegisterNewest, RegistrationNewest DEF RegistrationStep
<1>2. ASSUME NEW k \in Workers, RunStep(k) PROVE NewestInv'
  <2>1. ContractsKept
    BY <1>2, RunKeepsContracts
  <2>2. PICK p : Serves(k, p) /\ p.at \notin RegisterPoints
    BY <1>2, RunKeepsContracts
  <2> QED BY <2>1, <2>2, KnownKept DEF ContractsKept, registry, NewestInv, Learnt
<1>3. ASSUME PlatformStep PROVE NewestInv'
  <2>1. CASE \E i \in Isolates : Evict(i)
    BY <2>1, EvictNewest
  <2>2. CASE UNCHANGED <<memory, request, answered>>
    <3>1. registered' = registered
      BY <1>3, PlatformKeeps
    <3> QED BY <2>2, <3>1 DEF NewestInv, Learnt, Known
  <2> QED BY <1>3, <2>1, <2>2, PlatformKeeps
<1> QED BY <1>1, <1>2, <1>3, NextSteps

LEMMA NewestAlways == Spec => [](WorkerInv /\ NewestInv)
<1>1. Init => NewestInv
  <2> SUFFICES ASSUME Init PROVE NewestInv
    OBVIOUS
  <2>1. /\ \A k \in Workers : request[k] = Idle
        /\ answered = [i \in Isolates |-> [c \in Contracts |-> 0]]
        /\ \A i \in Isolates, c \in Contracts : memory[i].contracts[c] = None
    BY DEF Init, Nothing
  <2> QED BY <2>1, IdleBlank DEF NewestInv, Learnt
<1>2. ASSUME NewestInv, UNCHANGED vars PROVE NewestInv'
  <2>1. UNCHANGED <<memory, request, registered, answered>>
    BY <1>2 DEF vars, code, registry
  <2> QED BY <1>2, <2>1 DEF NewestInv, Learnt, Known
<1> QED BY <1>1, <1>2, NextNewest, WorkerInvAlways, PTL DEF Spec

\* Only a new start goes from nothing to walking a contract.
LEMMA BodyReached ==
  ASSUME WorkerInv, Next, NEW k \in Workers, request[k] = Idle, request'[k].at = "body"
  PROVE  \E i \in Isolates, r \in RunIds, c \in Contracts, o \in OutcomeMaps : Run(k, i, r, c, o)
<1>1. ASSUME NEW j \in Workers, RegistrationStep(j) PROVE FALSE
  <2>1. PICK p : Serves(j, p) /\ p.at \in RegisterPoints \cup {"idle"}
    BY <1>1, RegistrationKeepsRuns
  <2> QED BY <2>1, ServedAndOthers, IdleBlank DEF RegisterPoints
<1>2. ASSUME NEW j \in Workers, DecisionStep(j) PROVE FALSE
  <2>1. PICK p : Serves(j, p) /\ Chooses(p)
    BY <1>2, DecisionGoesOn DEF DecisionStep
  <2> QED BY <2>1, ServedAndOthers, IdleBlank DEF Chooses
<1>3. ASSUME NEW j \in Workers,
             GetContract(j) \/ Body(j) \/ Store(j) \/ PutRun(j) \/ DeleteRun(j)
      PROVE  FALSE
  <2>1. /\ request[j].at # "idle" /\ \E p : Serves(j, p)
    BY <1>3 DEF GetContract, Body, Store, PutRun, DeleteRun, AfterStore, Goto, Set, Finish, Serves
  <2> QED BY <2>1, ServedAndOthers, IdleBlank
<1>4. ~PlatformStep
  BY PlatformKeeps, IdleBlank
<1>5. ASSUME NEW j \in Workers, NEW i \in Isolates, NEW r \in RunIds, NEW c \in Contracts,
             NEW o \in OutcomeMaps, Run(j, i, r, c, o), j # k
      PROVE  FALSE
  <2>1. \E p : Serves(j, p)
    BY <1>5, RunGoesOn
  <2> QED BY <1>5, <2>1, ServedAndOthers, IdleBlank
<1> QED BY <1>1, <1>2, <1>3, <1>4, <1>5, NextSteps DEF RunStep

\* A start that finds its contract in its isolate walks the version that isolate
\* last answered 201, or a later one, however registrations overlapped.
THEOREM NewestVersionAlwaysWalked == Spec => NewestVersionWalked
<1>1. ASSUME WorkerInv, NewestInv, Next, NEW k \in Workers, NEW q, q = request'[k],
             request[k] = Idle, q.at = "body"
      PROVE  q.admitted.no >= answered[q.on][q.contract]
  <2>1. PICK i \in Isolates, r \in RunIds, c \in Contracts, o \in OutcomeMaps : Run(k, i, r, c, o)
    BY <1>1, BodyReached
  <2>2. PICK p : Serves(k, p) /\ StartedWith(p, i, r, c)
    BY <1>1, <2>1, RunGoesOn
  <2>3. p = q
    BY <1>1, <2>2, ServedAndOthers
  <2>4. /\ q.on = i /\ q.contract = c /\ q.admitted = memory[i].contracts[c]
        /\ q.admitted # None
    BY <1>1, <2>2, <2>3 DEF StartedWith
  <2>5. PICK n, m : n = answered[i][c] /\ m = q.admitted.no
    OBVIOUS
  <2>6. n \in Nat /\ m \in Nat /\ (n # 0 => m >= n)
    BY <1>1, <2>4, <2>5, KnownTyped DEF NewestInv, Known
  <2>7. m >= n
    BY <2>6
  <2> QED BY <2>4, <2>5, <2>7
<1>2. ASSUME WorkerInv, NewestInv, [Next]_vars
      PROVE  [\A k \in Workers :
                LET q == request'[k] IN
                request[k] = Idle /\ q.at = "body" =>
                  q.admitted.no >= answered[q.on][q.contract]]_vars
  BY <1>1, <1>2
<1> QED BY <1>2, NewestAlways, PTL DEF Spec, NewestVersionWalked

-----------------------------------------------------------------------------
(* What a client was told waits, waits: unless starts of the run overlap,  *)
(* the start in flight is the last one, and only such a start replaces its *)
(* continuation.                                                           *)

LastStart(q) ==
  Starting(q) => q.run \in RunIds /\ (q.run \notin crossed => Number(q) = started[q.run])

\* A continuation is stored, and none of a start before the n-th.
Stays(r, n) == /\ kv.runs[r].latest # None
               /\ r \notin crossed => kv.runs[r].latest.no >= n

Promised ==
  /\ promised \in [RunIds -> Nat]
  /\ \A r \in RunIds : promised[r] <= started[r] /\ (promised[r] # 0 => Stays(r, promised[r]))

PromiseInv == Promised /\ \A k \in Workers : LastStart(request[k])

\* A step that serves p and is no new start.
LEMMA ServedLastStart ==
  ASSUME WorkerInv, PromiseInv, NEW k \in Workers, NEW p, Serves(k, p), LastStart(p),
         UNCHANGED <<started, crossed>>
  PROVE  \A j \in Workers : LastStart(request[j])'
<1>1. ASSUME NEW j \in Workers PROVE LastStart(request[j])'
  <2>1. PICK q : q = request'[j]
    OBVIOUS
  <2>2. LastStart(q)
    BY <2>1, ServedAndOthers DEF PromiseInv
  <2> QED BY <2>1, <2>2 DEF LastStart
<1> QED BY <1>1

LEMMA NoStart ==
  ASSUME NEW q, ~Starting(q)
  PROVE  LastStart(q)
BY DEF LastStart

LEMMA PromisedKept ==
  ASSUME Promised, UNCHANGED <<promised, started, crossed>>,
         \A r \in RunIds : kv'.runs[r].latest = kv.runs[r].latest
  PROVE  Promised'
BY DEF Promised, Stays

\* A request that goes on with what it was for is as late a start as it was.
LEMMA LastStartGoesOn ==
  ASSUME NEW p, NEW q, LastStart(q),
         Starting(p) => Starting(q) /\ p.run = q.run /\ Number(p) = Number(q)
  PROVE  LastStart(p)
BY DEF LastStart

LEMMA RunPromise ==
  ASSUME WorkerInv, PromiseInv, NEW k \in Workers, NEW i \in Isolates, NEW r \in RunIds,
         NEW c \in Contracts, NEW o \in OutcomeMaps, Run(k, i, r, c, o)
  PROVE  PromiseInv'
<1>1. UNCHANGED <<kv, promised>> /\ OneStart(r)
  BY RunGoesOn
<1>2. PICK p : Serves(k, p) /\ StartedWith(p, i, r, c)
  BY RunGoesOn
<1>3. \A x \in RunIds : started[x] \in Nat /\ started'[x] \in {started[x], started[x] + 1}
  BY <1>1 DEF OneStart, WorkerInv, Typed
<1>4. Promised'
  <2>1. ASSUME NEW x \in RunIds PROVE promised'[x] <= started'[x]
    BY <1>1, <1>3 DEF PromiseInv, Promised
  <2>2. \A x \in RunIds : promised'[x] # 0 => Stays(x, promised[x])'
    BY <1>1 DEF PromiseInv, Promised, Stays, OneStart
  <2> QED BY <1>1, <2>1, <2>2 DEF PromiseInv, Promised, Stays
<1>5. ASSUME NEW j \in Workers PROVE LastStart(request[j])'
  <2>1. PICK q : q = request'[j]
    OBVIOUS
  <2>2. CASE j = k
    <3>1. q.run = r /\ Number(q) = started'[r]
      BY <1>2, <2>1, <2>2, ServedAndOthers DEF StartedWith
    <3>2. LastStart(q)'
      BY <3>1 DEF LastStart, Starting, Number
    <3> QED BY <2>1, <3>2 DEF LastStart
  <2>3. CASE j # k
    <3>1. q = request[j] /\ LastStart(q)
      BY <1>2, <2>1, <2>3, ServedAndOthers DEF PromiseInv
    <3>2. Starting(q) /\ q.run = r => StartUnderway(j, r)
      BY <3>1 DEF Starting, StartUnderway
    <3>3. LastStart(q)'
      BY <1>1, <3>1, <3>2 DEF LastStart, OneStart
    <3> QED BY <2>1, <3>3 DEF LastStart
  <2> QED BY <2>2, <2>3
<1> QED BY <1>4, <1>5 DEF PromiseInv

LEMMA StorePromise ==
  ASSUME WorkerInv, PromiseInv, NEW k \in Workers, Store(k)
  PROVE  PromiseInv'
<1>1. PICK q : q = request[k]
  OBVIOUS
<1>2. q.at = "store" /\ UNCHANGED <<promised, started, crossed>> /\ SamePlaces
  BY <1>1, StoreHandled
<1>3. PICK p : /\ Serves(k, p)
               /\ p = Idle \/ (p.at \in {"put run", "delete run"} /\ SameRun(p, q))
  BY <1>1, StoreHandled
<1>4. Starting(p) => Starting(q) /\ p.run = q.run /\ Number(p) = Number(q)
  BY <1>2, <1>3, IdleBlank DEF Starting, SameRun, Number, ResolvePoints
<1>5. LastStart(p)
  BY <1>1, <1>4, LastStartGoesOn DEF PromiseInv
<1> QED BY <1>2, <1>3, <1>5, ServedLastStart, PromisedKept DEF PromiseInv, SamePlaces

LEMMA PutRunPromise ==
  ASSUME WorkerInv, StartsFresh, PromiseInv, NEW k \in Workers, PutRun(k)
  PROVE  PromiseInv'
<1>1. PICK q : q = request[k]
  OBVIOUS
<1>2. /\ q.at = "put run" /\ q \in Keeping /\ q.run \in RunIds /\ Serves(k, Idle)
      /\ UNCHANGED <<started, crossed>> /\ q.snapshot.decision = None
  BY <1>1, PutRunHandled
<1>3. \A j \in Workers : LastStart(request[j])'
  BY <1>2, IdleBlank, NoStart, ServedLastStart
<1>4. CASE kv' = kv /\ promised' = promised
  <2>1. Promised'
    BY <1>2, <1>4, PromisedKept DEF PromiseInv
  <2> QED BY <1>3, <2>1 DEF PromiseInv
<1>5. ASSUME NEW v \in Pending, kv' = [kv EXCEPT !.runs[q.run] = Written(@, v)],
             v.no = q.snapshot.no,
             promised' \in {promised, [promised EXCEPT ![q.run] = q.snapshot.no]}
      PROVE  PromiseInv'
  <2>1. PICK n : n = q.snapshot.no
    OBVIOUS
  <2>2. /\ kv'.runs[q.run].latest = v /\ v # None
        /\ \A x \in RunIds : x # q.run => kv'.runs[x] = kv.runs[x]
    <3>1. v # None
      BY NoneAssumption DEF Pending
    <3> QED BY <1>2, <1>5, <3>1, HeldTyped, PutRunKV
  <2>3. n = Number(q) /\ n \in Nat /\ n <= started[q.run] /\ started[q.run] \in Nat
    <3>1. n = Number(q) /\ Numbered(q)
      BY <1>2, <2>1 DEF Number, Numbered, ResolvePoints, KeepPoints
    <3>2. n \in 1 .. MaxStarts
      BY <1>1, <3>1, NumbersTyped
    <3>3. q.snapshot.no = n
      BY <2>1
    <3>4. n <= started[q.run]
      BY <1>1, <3>1 DEF StartsFresh
    <3>5. started[q.run] \in Nat
      BY <1>2, NumbersTyped
    <3> QED BY <3>1, <3>2, <3>4, <3>5
  <2>4. q.run \notin crossed => n = started[q.run]
    BY <1>1, <1>2, <2>3 DEF PromiseInv, LastStart, Starting
  <2>5. /\ promised' \in [RunIds -> Nat]
        /\ \A x \in RunIds : x # q.run => promised'[x] = promised[x]
        /\ promised'[q.run] \in {promised[q.run], n}
    BY <1>2, <1>5, <2>1, <2>3 DEF PromiseInv, Promised
  <2>6. promised'[q.run] <= started[q.run]
    BY <1>2, <2>3, <2>5 DEF PromiseInv, Promised
  <2>7. Promised'
    <3>1. ASSUME NEW x \in RunIds
          PROVE  promised'[x] <= started'[x] /\ (promised'[x] # 0 => Stays(x, promised[x])')
      <4>1. CASE x = q.run
        <5>1. q.run \notin crossed => v.no >= promised'[q.run]
          BY <1>2, <1>5, <2>1, <2>4, <2>5, <2>6
        <5> QED BY <1>2, <2>2, <2>6, <4>1, <5>1 DEF Stays
      <4>2. CASE x # q.run
        BY <1>2, <2>2, <2>5, <4>2 DEF PromiseInv, Promised, Stays
      <4> QED BY <4>1, <4>2
    <3> QED BY <2>5, <3>1 DEF Promised, Stays
  <2> QED BY <1>3, <2>7 DEF PromiseInv
<1> QED BY <1>1, <1>4, <1>5, PutRunHandled

LEMMA DeleteRunPromise ==
  ASSUME WorkerInv, PromiseInv, NEW k \in Workers, DeleteRun(k)
  PROVE  PromiseInv'
<1>1. PICK q : q = request[k]
  OBVIOUS
<1>2. /\ q.run \in RunIds /\ Serves(k, Idle) /\ UNCHANGED <<started, crossed>>
      /\ promised' = [promised EXCEPT ![q.run] = 0]
      /\ kv' = kv \/ kv' = [kv EXCEPT !.runs[q.run] = Written(@, None)]
  BY <1>1, DeleteRunHandled
<1>3. \A x \in RunIds : x # q.run => kv'.runs[x] = kv.runs[x]
  BY <1>2, HeldTyped, PutRunKV
<1>4. \A j \in Workers : LastStart(request[j])'
  BY <1>2, IdleBlank, NoStart, ServedLastStart
<1>5. Promised'
  <2>1. /\ promised' \in [RunIds -> Nat] /\ promised'[q.run] = 0
        /\ \A x \in RunIds : x # q.run => promised'[x] = promised[x]
    BY <1>2 DEF PromiseInv, Promised
  <2>2. \A x \in RunIds : started[x] \in Nat
    BY DEF WorkerInv, Typed
  <2>3. ASSUME NEW x \in RunIds
        PROVE  promised'[x] <= started'[x] /\ (promised'[x] # 0 => Stays(x, promised[x])')
    <3>1. CASE x = q.run
      BY <1>2, <2>1, <2>2, <3>1
    <3>2. CASE x # q.run
      BY <1>2, <1>3, <2>1, <3>2 DEF PromiseInv, Promised, Stays
    <3> QED BY <3>1, <3>2
  <2> QED BY <2>1, <2>3 DEF Promised, Stays
<1> QED BY <1>4, <1>5 DEF PromiseInv

LEMMA NextPromise ==
  ASSUME WorkerInv, StartsFresh, PromiseInv, Next
  PROVE  PromiseInv'
<1>1. ASSUME NEW k \in Workers, RegistrationStep(k) PROVE PromiseInv'
  <2>1. PICK p : Serves(k, p) /\ p.at \in RegisterPoints \cup {"idle"}
    BY <1>1, RegistrationKeepsRuns
  <2>2. UNCHANGED <<started, crossed, promised>> /\ kv'.runs = kv.runs
    BY <1>1, RegistrationKeepsRuns DEF RunsKept, course
  <2>3. ~Starting(p)
    BY <2>1 DEF Starting, RegisterPoints
  <2> QED BY <2>1, <2>2, <2>3, NoStart, ServedLastStart, PromisedKept DEF PromiseInv
<1>2. ASSUME NEW k \in Workers, DecisionStep(k) PROVE PromiseInv'
  <2>1. UNCHANGED <<kv, started, crossed, promised>>
    BY <1>2, DecisionGoesOn DEF DecisionStep
  <2>2. PICK p : Serves(k, p) /\ Chooses(p)
    BY <1>2, DecisionGoesOn DEF DecisionStep
  <2> QED BY <2>1, <2>2, NoStart, ServedLastStart, PromisedKept DEF PromiseInv, Chooses
<1>3. ASSUME NEW k \in Workers, GetContract(k) \/ Body(k) PROVE PromiseInv'
  <2>1. PICK q : q = request[k]
    OBVIOUS
  <2>2. UNCHANGED <<kv, started, crossed, promised>>
    BY <1>3, <2>1, ResolveGoesOn DEF course
  <2>3. PICK p : Serves(k, p) /\ GoesOnFrom(p, q)
    BY <1>3, <2>1, ResolveGoesOn
  <2>4. LastStart(p)
    BY <2>1, <2>3, LastStartGoesOn DEF PromiseInv, GoesOnFrom
  <2> QED BY <2>2, <2>3, <2>4, ServedLastStart, PromisedKept DEF PromiseInv
<1>4. ASSUME NEW k \in Workers, RunStep(k) PROVE PromiseInv'
  BY <1>2, <1>3, <1>4, RunPromise, StorePromise, PutRunPromise, DeleteRunPromise DEF RunStep
<1>5. ASSUME PlatformStep PROVE PromiseInv'
  <2>1. /\ UNCHANGED <<started, crossed, promised>> /\ SamePlaces
        /\ \A j \in Workers : request'[j] = request[j] \/ request'[j] = Idle
    BY <1>5, PlatformKeeps DEF course
  <2>2. \A j \in Workers : LastStart(request[j])'
    BY <2>1, IdleBlank DEF PromiseInv, LastStart
  <2> QED BY <2>1, <2>2, PromisedKept DEF PromiseInv, SamePlaces
<1> QED BY <1>1, <1>4, <1>5, NextSteps

LEMMA PromiseAlways == Spec => [](WorkerInv /\ PromiseInv)
<1>1. Init => PromiseInv
  <2> SUFFICES ASSUME Init PROVE PromiseInv
    OBVIOUS
  <2>1. /\ \A k \in Workers : request[k] = Idle
        /\ promised = [r \in RunIds |-> 0] /\ started = [r \in RunIds |-> 0]
    BY DEF Init
  <2> QED BY <2>1, IdleBlank DEF PromiseInv, Promised, LastStart
<1>2. ASSUME PromiseInv, UNCHANGED vars PROVE PromiseInv'
  <2>1. UNCHANGED <<kv, request, started, crossed, promised>>
    BY <1>2 DEF vars, code, course
  <2> QED BY <1>2, <2>1 DEF PromiseInv, Promised, Stays, LastStart
<1> QED BY <1>1, <1>2, NextPromise, WorkerInvAlways, StartsFreshAlways, PTL DEF Spec

\* A client that was told waiting_human does not lose the run, however requests,
\* evictions and failed writes interleave: a continuation stays stored, at a gate
\* of the flow that was walked, and unless starts of the run overlapped it is
\* that of this start or of a later one.
THEOREM PromisedRunAlwaysKept == Spec => []PromisedRunKept
<1>1. ASSUME WorkerInv, PromiseInv PROVE PromisedRunKept
  <2>1. ASSUME NEW r \in RunIds, NEW held, held = kv.runs[r].latest, promised[r] # 0
        PROVE  held # None /\ AtGate(held) /\ (r \notin crossed => held.no >= promised[r])
    <3>1. held # None /\ (r \notin crossed => held.no >= promised[r])
      BY <1>1, <2>1 DEF PromiseInv, Promised, Stays
    <3>2. held \in Pending \cup {None}
      BY <1>1, <2>1, HeldTyped DEF Held
    <3> QED BY <3>1, <3>2 DEF Pending
  <2> QED BY <2>1 DEF PromisedRunKept
<1> QED BY <1>1, PromiseAlways, PTL

-----------------------------------------------------------------------------
(* A decision on a start that was answered ends it: the handler of that    *)
(* start is done, so nobody leaves a continuation of it again where the    *)
(* decision has removed it.                                                *)

\* No handler still serves the start n of run r.
NoneServes(r, n) ==
  \A k \in Workers : ~(Starting(request[k]) /\ request[k].run = r /\ Number(request[k]) = n)

\* The isolate has no continuation of the start.
Dropped(i, r, n) == memory[i].runs[r] # None => memory[i].runs[r].no # n

\* Neither has the namespace.
Gone(r, n) == kv.runs[r].latest # None => kv.runs[r].latest.no # n

Final(r, a) == /\ a.on \in Isolates /\ a.no <= started[r]
               /\ a.no \notin early[r] =>
                    NoneServes(r, a.no) /\ Dropped(a.on, r, a.no) /\ Gone(r, a.no)

Deleting(q) == q.at = "delete run" =>
  /\ q.snapshot.decision # None
  /\ q.snapshot.no \notin early[q.run] => Dropped(q.on, q.run, q.snapshot.no)

Conclusive(q) == /\ Deciding(q) /\ Number(q) \notin early[q.run] => NoneServes(q.run, Number(q))
                 /\ Deleting(q)

DecisionInv ==
  /\ early \in [RunIds -> SUBSET Nat]
  /\ accepted \in [RunIds -> SUBSET [no : Nat, on : Isolates]]
  /\ \A r \in RunIds : \A a \in accepted[r] : Final(r, a)
  /\ \A k \in Workers : Conclusive(request[k])

\* Whoever is done with a start stays done.
Quiet == \A r \in RunIds : \A n \in Nat : n <= started[r] /\ NoneServes(r, n) => NoneServes(r, n)'

\* The request q leaves in a place for run r what was there, nothing, or a
\* continuation of the start it serves.
LeftBy(q, r, old, new) ==
  new = old \/ new = None \/ (Starting(q) /\ q.run = r /\ new.no = Number(q))

LeavesBehind(q) == \A r \in RunIds :
  /\ \A i \in Isolates : LeftBy(q, r, memory[i].runs[r], memory'[i].runs[r])
  /\ LeftBy(q, r, kv.runs[r].latest, kv'.runs[r].latest)

EarlyGrows == early' \in [RunIds -> SUBSET Nat] /\ \A r \in RunIds : early[r] \subseteq early'[r]

StartedGrows == \A r \in RunIds : \A n \in Nat : n <= started[r] => n <= started'[r]

NewlyFinal == \A r \in RunIds : \A a \in accepted'[r] : a \in accepted[r] \/ Final(r, a)'

LEMMA PlacesKept ==
  ASSUME NEW k \in Workers, LeavesBehind(request[k]), NEW r \in RunIds, NEW n, NoneServes(r, n)
  PROVE  /\ \A i \in Isolates : Dropped(i, r, n) => Dropped(i, r, n)'
         /\ Gone(r, n) => Gone(r, n)'
BY DEF LeavesBehind, LeftBy, NoneServes, Dropped, Gone

LEMMA FinalKept ==
  ASSUME WorkerInv, DecisionInv, NEW k \in Workers, LeavesBehind(request[k]),
         Quiet, EarlyGrows, StartedGrows,
         NEW r \in RunIds, NEW a \in accepted[r]
  PROVE  Final(r, a)'
<1>1. Final(r, a) /\ a.no \in Nat /\ a.on \in Isolates
  <2>1. accepted[r] \subseteq [no : Nat, on : Isolates]
    BY DEF DecisionInv
  <2> QED BY <2>1 DEF DecisionInv
<1>2. PICK n, i : n = a.no /\ i = a.on
  OBVIOUS
<1>3. i \in Isolates /\ n \in Nat /\ n <= started'[r]
  BY <1>1, <1>2 DEF Final, StartedGrows
<1>4. ASSUME n \notin early'[r] PROVE NoneServes(r, n)' /\ Dropped(i, r, n)' /\ Gone(r, n)'
  <2>1. n \notin early[r]
    BY <1>4 DEF EarlyGrows
  <2>2. NoneServes(r, n) /\ Dropped(i, r, n) /\ Gone(r, n)
    BY <1>1, <1>2, <2>1 DEF Final
  <2>3. NoneServes(r, n)'
    BY <1>1, <1>2, <2>2 DEF Final, Quiet
  <2> QED BY <1>3, <2>2, <2>3, PlacesKept
<1> QED BY <1>2, <1>3, <1>4 DEF Final

\* What a request decides it has read, and it is of a start that was requested.
LEMMA DecidingTyped ==
  ASSUME WorkerInv, StartsFresh, NEW k \in Workers, NEW q, q = request[k], Deciding(q)
  PROVE  /\ q.run \in RunIds /\ Number(q) \in Nat /\ Number(q) <= started[q.run]
         /\ q.at = "delete run" => q.on \in Isolates /\ Number(q) = q.snapshot.no
<1>1. Numbered(q)
  BY DEF Deciding
<1>2. q.run \in RunIds /\ Number(q) \in 1 .. MaxStarts
  BY <1>1, NumbersTyped
<1>3. Number(q) <= started[q.run]
  BY <1>1 DEF StartsFresh
<1>4. ASSUME q.at = "delete run" PROVE q.on \in Isolates /\ Number(q) = q.snapshot.no
  <2>1. q \in Keeping
    BY <1>4, ServedForm
  <2> QED BY <1>4, <2>1 DEF Keeping, Number, ResolvePoints
<1>5. Number(q) \in Nat
  BY <1>2
<1> QED BY <1>2, <1>3, <1>4, <1>5

\* Deleting a run is deciding it.
LEMMA DeletingDecides ==
  ASSUME NEW q, q.at = "delete run", Deleting(q)
  PROVE  Deciding(q) /\ Number(q) = q.snapshot.no
BY DEF Deleting, Deciding, Numbered, Choice, Number, ResolvePoints, KeepPoints

LEMMA ConclusiveKept ==
  ASSUME WorkerInv, StartsFresh, DecisionInv, NEW k \in Workers, LeavesBehind(request[k]),
         Quiet, EarlyGrows, NEW j \in Workers, NEW q, q = request[j]
  PROVE  Conclusive(q)'
<1>1. Conclusive(q)
  BY DEF DecisionInv
<1>2. ASSUME Deciding(q), Number(q) \notin early'[q.run]
      PROVE  NoneServes(q.run, Number(q)) /\ NoneServes(q.run, Number(q))'
  <2>1. PICK r, n : r = q.run /\ n = Number(q)
    OBVIOUS
  <2>2. r \in RunIds /\ n \in Nat /\ n <= started[r]
    BY <1>2, <2>1, DecidingTyped
  <2>3. n \notin early[r]
    BY <1>2, <2>1, <2>2 DEF EarlyGrows
  <2>4. NoneServes(r, n)
    BY <1>1, <1>2, <2>1, <2>3 DEF Conclusive
  <2>5. NoneServes(r, n)'
    BY <2>2, <2>4 DEF Quiet
  <2> QED BY <2>1, <2>4, <2>5 DEF NoneServes
<1>3. Deleting(q)'
  <2> SUFFICES ASSUME q.at = "delete run"
               PROVE  /\ q.snapshot.decision # None
                      /\ q.snapshot.no \notin early'[q.run] => Dropped(q.on, q.run, q.snapshot.no)'
    BY DEF Deleting
  <2>1. q.snapshot.decision # None /\ Deciding(q) /\ Number(q) = q.snapshot.no
    BY <1>1, DeletingDecides DEF Conclusive, Deleting
  <2>2. PICK r, n, i : r = q.run /\ n = q.snapshot.no /\ i = q.on
    OBVIOUS
  <2>3. r \in RunIds /\ i \in Isolates
    BY <2>1, <2>2, DecidingTyped
  <2>4. ASSUME n \notin early'[r] PROVE Dropped(i, r, n)'
    <3>1. NoneServes(r, n)
      BY <1>2, <2>1, <2>2, <2>4
    <3>2. n \notin early[r]
      BY <2>3, <2>4 DEF EarlyGrows
    <3>3. Dropped(i, r, n)
      BY <1>1, <2>2, <3>2 DEF Conclusive, Deleting
    <3> QED BY <2>3, <3>1, <3>3, PlacesKept
  <2> QED BY <2>1, <2>2, <2>4 DEF Dropped
<1> QED BY <1>2, <1>3 DEF Conclusive, NoneServes

LEMMA ServedDecision ==
  ASSUME WorkerInv, StartsFresh, DecisionInv, NEW k \in Workers, NEW p, Serves(k, p),
         LeavesBehind(request[k]), Quiet, EarlyGrows, StartedGrows, Conclusive(p)',
         accepted' \in [RunIds -> SUBSET [no : Nat, on : Isolates]], NewlyFinal
  PROVE  DecisionInv'
<1>1. ASSUME NEW r \in RunIds, NEW a \in accepted'[r] PROVE Final(r, a)'
  BY FinalKept DEF NewlyFinal
<1>2. ASSUME NEW j \in Workers PROVE Conclusive(request[j])'
  <2>1. PICK q, m : q = request[j] /\ m = request'[j]
    OBVIOUS
  <2>2. Conclusive(q)'
    BY <2>1, ConclusiveKept
  <2>3. Conclusive(m)'
    BY <2>1, <2>2, ServedAndOthers
  <2> QED BY <2>1, <2>3 DEF Conclusive, Deleting, NoneServes, Dropped
<1>3. early' \in [RunIds -> SUBSET Nat]
  BY DEF EarlyGrows
<1> QED BY <1>1, <1>2, <1>3 DEF DecisionInv, Final, NoneServes, Dropped, Gone

\* A step that serves p, which is no new start.
LEMMA ServedQuiet ==
  ASSUME WorkerInv, NEW k \in Workers, NEW p, Serves(k, p),
         Starting(p) => /\ Starting(request[k]) /\ p.run = request[k].run
                        /\ Number(p) = Number(request[k])
  PROVE  Quiet
<1>1. ASSUME NEW r, NEW n, NoneServes(r, n) PROVE NoneServes(r, n)'
  <2>1. ASSUME NEW j \in Workers
        PROVE  ~(Starting(request'[j]) /\ request'[j].run = r /\ Number(request'[j]) = n)
    BY <1>1, ServedAndOthers DEF NoneServes
  <2> QED BY <2>1 DEF NoneServes
<1> QED BY <1>1 DEF Quiet

\* A step that touches no place and no record.
LEMMA StillDecision ==
  ASSUME WorkerInv, StartsFresh, DecisionInv, NEW k \in Workers, NEW p, Serves(k, p),
         UNCHANGED <<started, accepted, early>>,
         \A r \in RunIds : kv'.runs[r].latest = kv.runs[r].latest,
         \A i \in Isolates : memory'[i].runs = memory[i].runs,
         Starting(p) => /\ Starting(request[k]) /\ p.run = request[k].run
                        /\ Number(p) = Number(request[k]),
         Deciding(p) => /\ Deciding(request[k]) /\ p.run = request[k].run
                        /\ Number(p) = Number(request[k]),
         p.at # "delete run"
  PROVE  DecisionInv'
<1>1. Quiet
  BY ServedQuiet
<1>2. LeavesBehind(request[k]) /\ EarlyGrows /\ StartedGrows /\ NewlyFinal
  BY DEF LeavesBehind, LeftBy, EarlyGrows, StartedGrows, NewlyFinal, DecisionInv
<1>3. Conclusive(p)'
  <2>1. PICK q : q = request[k]
    OBVIOUS
  <2>2. ASSUME Deciding(p), Number(p) \notin early'[p.run] PROVE NoneServes(p.run, Number(p))'
    <3>1. Deciding(q) /\ p.run = q.run /\ Number(p) = Number(q)
      BY <2>1, <2>2
    <3>2. Conclusive(q)'
      BY <1>1, <1>2, <2>1, ConclusiveKept
    <3> QED BY <2>2, <3>1, <3>2 DEF Conclusive, NoneServes
  <2> QED BY <2>2 DEF Conclusive, Deleting, NoneServes
<1> QED BY <1>1, <1>2, <1>3, ServedDecision DEF DecisionInv

LEMMA RunDecision ==
  ASSUME WorkerInv, StartsFresh, DecisionInv, NEW k \in Workers, NEW i \in Isolates, NEW r \in RunIds,
         NEW c \in Contracts, NEW o \in OutcomeMaps, Run(k, i, r, c, o)
  PROVE  DecisionInv'
<1>1. UNCHANGED <<memory, kv, early, accepted>> /\ OneStart(r)
  BY RunGoesOn
<1>2. PICK p : Serves(k, p) /\ StartedWith(p, i, r, c)
  BY RunGoesOn
<1>3. \A x \in RunIds : started[x] \in Nat
  BY NumbersTyped
<1>4. p.run = r /\ Number(p) = started[r] + 1 /\ ~Deciding(p) /\ p.at # "delete run"
  BY <1>1, <1>2 DEF StartedWith, OneStart
<1>5. Quiet
  <2>1. ASSUME NEW x \in RunIds, NEW n \in Nat, n <= started[x], NoneServes(x, n)
        PROVE  NoneServes(x, n)'
    <3>1. ~(p.run = x /\ Number(p) = n)
      <4>1. n # started[x] + 1
        BY <1>3, <2>1
      <4> QED BY <1>4, <4>1
    <3>2. ASSUME NEW j \in Workers
          PROVE  ~(Starting(request'[j]) /\ request'[j].run = x /\ Number(request'[j]) = n)
      BY <1>2, <2>1, <3>1, ServedAndOthers DEF NoneServes
    <3> QED BY <3>2 DEF NoneServes
  <2> QED BY <2>1 DEF Quiet
<1>6. StartedGrows
  <2>1. ASSUME NEW x \in RunIds, NEW n \in Nat, n <= started[x] PROVE n <= started'[x]
    <3>1. started'[x] \in {started[x], started[x] + 1}
      BY <1>1 DEF OneStart
    <3> QED BY <1>3, <2>1, <3>1
  <2> QED BY <2>1 DEF StartedGrows
<1>7. LeavesBehind(request[k]) /\ EarlyGrows /\ NewlyFinal
  BY <1>1 DEF LeavesBehind, LeftBy, EarlyGrows, NewlyFinal, DecisionInv
<1>8. Conclusive(p)'
  BY <1>4 DEF Conclusive, Deleting
<1> QED BY <1>1, <1>2, <1>5, <1>6, <1>7, <1>8, ServedDecision DEF DecisionInv

\* A decision that has read a continuation of a start: the handler of that start
\* is done, or the decision is noted as early.
LEMMA DecisionDecision ==
  ASSUME WorkerInv, StartsFresh, DecisionInv, NEW k \in Workers, DecisionStep(k)
  PROVE  DecisionInv'
<1>1. UNCHANGED <<memory, kv, started, accepted>>
  BY DecisionGoesOn DEF DecisionStep
<1>2. PICK p : Serves(k, p) /\ Chooses(p)
  BY DecisionGoesOn DEF DecisionStep
<1>3. CASE early' = early /\ p.at \in {"get run", "idle"}
  <2>1. ~Starting(p) /\ ~Deciding(p) /\ p.at # "delete run"
    BY <1>3 DEF Starting, Deciding, Numbered, ResolvePoints, KeepPoints
  <2> QED BY <1>1, <1>2, <1>3, <2>1, StillDecision
<1>4. CASE Continued(p)
  <2>1. PICK r \in RunIds : \E held \in Continuations(r) :
          MarksEarly(r, held.no) /\ Decides(p, r, held.no)
    BY <1>4 DEF Continued
  <2>2. PICK held \in Continuations(r) : MarksEarly(r, held.no) /\ Decides(p, r, held.no)
    BY <2>1
  <2>3. PICK n : n = held.no
    OBVIOUS
  <2>4. n \in OnFile(r) /\ n \in Nat
    <3>1. n \in OnFile(r)
      BY <2>3 DEF OnFile
    <3>2. n \in 1 .. MaxStarts
      BY <3>1, NumbersTyped
    <3> QED BY <3>1, <3>2
  <2>5. /\ early' = [early EXCEPT ![r] = IF Unanswered(r, n) THEN @ \cup {n} ELSE @]
        /\ Decides(p, r, n)
    BY <2>2, <2>3 DEF MarksEarly
  <2>6. EarlyGrows /\ (Unanswered(r, n) => n \in early'[r])
    BY <2>4, <2>5 DEF DecisionInv, EarlyGrows
  <2>7. Quiet
    BY <1>2, ServedQuiet DEF Chooses
  <2>8. LeavesBehind(request[k]) /\ StartedGrows /\ NewlyFinal
    BY <1>1 DEF LeavesBehind, LeftBy, StartedGrows, NewlyFinal, DecisionInv
  <2>9. ASSUME n \notin early'[r] PROVE NoneServes(r, n)
    <3>1. ASSUME NEW j \in Workers, Starting(request[j]), request[j].run = r, Number(request[j]) = n
          PROVE  FALSE
      <4>1. CASE Beginning(request[j])
        BY <2>4, <3>1, <4>1 DEF StartsFresh
      <4>2. CASE ~Beginning(request[j])
        <5>1. request[j].at = "put run"
          BY <3>1, <4>2 DEF Starting, Beginning, ResolvePoints
        <5>2. request[j].snapshot.no = n
          BY <3>1, <5>1 DEF Number, ResolvePoints
        <5> QED BY <2>6, <2>9, <3>1, <5>1, <5>2 DEF Unanswered
      <4> QED BY <4>1, <4>2
    <3> QED BY <3>1 DEF NoneServes
  <2>10. ASSUME Deciding(p), Number(p) \notin early'[p.run] PROVE NoneServes(p.run, Number(p))'
    <3>1. p.run = r /\ Number(p) = n
      BY <2>5, <2>10 DEF Decides
    <3>2. NoneServes(r, n)
      BY <2>9, <2>10, <3>1
    <3>3. n <= started[r]
      BY <2>4 DEF StartsFresh
    <3>4. NoneServes(r, n)'
      BY <2>4, <2>7, <3>2, <3>3 DEF Quiet
    <3> QED BY <3>1, <3>4 DEF NoneServes
  <2>11. Conclusive(p)'
    <3>1. p.at # "delete run"
      BY <1>4 DEF Continued, GoesOn
    <3> QED BY <2>10, <3>1 DEF Conclusive, Deleting, NoneServes
  <2> QED BY <1>1, <1>2, <2>6, <2>7, <2>8, <2>11, ServedDecision DEF DecisionInv
<1> QED BY <1>2, <1>3, <1>4 DEF Chooses

LEMMA StoreDecision ==
  ASSUME WorkerInv, StartsFresh, DecisionInv, NEW k \in Workers, Store(k)
  PROVE  DecisionInv'
<1>1. PICK q : q = request[k]
  OBVIOUS
<1>2. /\ q.at = "store" /\ q \in Keeping /\ q.run \in RunIds /\ q.on \in Isolates
      /\ UNCHANGED <<started, early, accepted>> /\ SamePlaces
  BY <1>1, StoreHandled
<1>3. memory \in [Isolates -> Memory]
  BY DEF WorkerInv, Typed
<1>4. Number(q) = q.snapshot.no
  BY <1>2 DEF Number, ResolvePoints
<1>5. StartedGrows /\ EarlyGrows /\ NewlyFinal
  BY <1>2 DEF StartedGrows, EarlyGrows, NewlyFinal, DecisionInv
<1>6. CASE Serves(k, Idle) /\ memory' = memory
  BY <1>2, <1>6, IdleBlank, StillDecision DEF SamePlaces
<1>7. ASSUME q.snapshot.status = "blocked", NEW v \in Pending, v.no = q.snapshot.no,
             Leaves(q.on, q.run, v), NEW p, Serves(k, p), p.at = "put run", SameRun(p, q)
      PROVE  DecisionInv'
  <2>1. q.snapshot.decision = None /\ Starting(q)
    <3>1. q.snapshot \in Evidence
      BY <1>2 DEF Keeping
    <3> QED BY <1>2, <1>7, <3>1 DEF Evidence, Told, Starting
  <2>2. LeavesBehind(q)
    <3>1. /\ memory'[q.on].runs[q.run] = v
          /\ \A j \in Isolates, x \in RunIds :
               memory'[j].runs[x] = memory[j].runs[x] \/ (j = q.on /\ x = q.run)
      BY <1>2, <1>3, <1>7, MemoryRunPut
    <3> QED BY <1>2, <1>4, <1>7, <2>1, <3>1 DEF LeavesBehind, LeftBy, SamePlaces
  <2>3. p.run = q.run /\ Number(p) = Number(q) /\ ~Deciding(p)
    BY <1>4, <1>7, <2>1 DEF SameRun, Number, Deciding, Choice, ResolvePoints
  <2>4. Quiet
    BY <1>1, <1>7, <2>1, <2>3, ServedQuiet
  <2>5. Conclusive(p)'
    BY <1>7, <2>3 DEF Conclusive, Deleting
  <2> QED BY <1>1, <1>2, <1>5, <1>7, <2>2, <2>4, <2>5, ServedDecision DEF DecisionInv
<1>8. ASSUME q.snapshot.decision # None, Leaves(q.on, q.run, None),
             NEW p, Serves(k, p), p.at = "delete run", SameRun(p, q)
      PROVE  DecisionInv'
  <2>1. /\ memory'[q.on].runs[q.run] = None
        /\ \A j \in Isolates, x \in RunIds :
             memory'[j].runs[x] = memory[j].runs[x] \/ (j = q.on /\ x = q.run)
    <3>1. PICK v \in Pending \cup {None} : v = None /\ Leaves(q.on, q.run, v)
      BY <1>8
    <3> QED BY <1>2, <1>3, <3>1, MemoryRunPut
  <2>2. LeavesBehind(q)
    BY <1>2, <2>1 DEF LeavesBehind, LeftBy, SamePlaces
  <2>3. ~Starting(p)
    BY <1>8 DEF Starting
  <2>4. Quiet
    BY <1>8, <2>3, ServedQuiet
  <2>5. Deciding(q)
    BY <1>2, <1>8 DEF Deciding, Numbered, Choice, ResolvePoints, KeepPoints
  <2>6. Conclusive(q)'
    BY <1>1, <1>5, <2>2, <2>4, ConclusiveKept
  <2>7. p.run = q.run /\ p.snapshot = q.snapshot /\ Number(p) = Number(q) /\ p.on = q.on
    BY <1>4, <1>8 DEF SameRun, Number, ResolvePoints
  <2>8. Conclusive(p)'
    BY <1>8, <2>1, <2>5, <2>6, <2>7 DEF Conclusive, Deleting, NoneServes, Dropped
  <2> QED BY <1>1, <1>2, <1>5, <1>8, <2>2, <2>4, <2>8, ServedDecision DEF DecisionInv
<1> QED BY <1>1, <1>6, <1>7, <1>8, StoreHandled

LEMMA PutRunDecision ==
  ASSUME WorkerInv, StartsFresh, DecisionInv, NEW k \in Workers, PutRun(k)
  PROVE  DecisionInv'
<1>1. PICK q : q = request[k]
  OBVIOUS
<1>2. /\ q.at = "put run" /\ q \in Keeping /\ q.run \in RunIds /\ Serves(k, Idle)
      /\ UNCHANGED <<memory, started, early, accepted>> /\ q.snapshot.decision = None
  BY <1>1, PutRunHandled
<1>3. Starting(q) /\ Number(q) = q.snapshot.no
  BY <1>2 DEF Starting, Number, ResolvePoints
<1>4. CASE kv' = kv
  BY <1>2, <1>4, IdleBlank, StillDecision
<1>5. ASSUME NEW v \in Pending, kv' = [kv EXCEPT !.runs[q.run] = Written(@, v)],
             v.no = q.snapshot.no
      PROVE  DecisionInv'
  <2>1. /\ kv'.runs[q.run].latest = v
        /\ \A x \in RunIds : x # q.run => kv'.runs[x] = kv.runs[x]
    BY <1>2, <1>5, HeldTyped, PutRunKV
  <2>2. LeavesBehind(q)
    BY <1>2, <1>3, <1>5, <2>1 DEF LeavesBehind, LeftBy
  <2>3. Quiet
    BY <1>2, IdleBlank, ServedQuiet
  <2>4. StartedGrows /\ EarlyGrows /\ NewlyFinal
    BY <1>2 DEF StartedGrows, EarlyGrows, NewlyFinal, DecisionInv
  <2>5. Conclusive(Idle)'
    BY IdleBlank DEF Conclusive, Deleting
  <2> QED BY <1>1, <1>2, <2>2, <2>3, <2>4, <2>5, ServedDecision DEF DecisionInv
<1> QED BY <1>1, <1>4, <1>5, PutRunHandled

\* The decision is answered 200 once its delete has succeeded.
LEMMA DeleteRunDecision ==
  ASSUME WorkerInv, StartsFresh, DecisionInv, NEW k \in Workers, DeleteRun(k)
  PROVE  DecisionInv'
<1>1. PICK q : q = request[k]
  OBVIOUS
<1>2. /\ q.at = "delete run" /\ q \in Keeping /\ q.run \in RunIds /\ Serves(k, Idle)
      /\ UNCHANGED <<memory, started, early>>
      /\ \/ kv' = kv /\ accepted' = accepted
         \/ /\ kv' = [kv EXCEPT !.runs[q.run] = Written(@, None)]
            /\ \/ accepted' = accepted
               \/ accepted' = [accepted EXCEPT ![q.run] = @ \cup {Reply(q)}]
  BY <1>1, DeleteRunHandled
<1>3. CASE kv' = kv /\ accepted' = accepted
  BY <1>2, <1>3, IdleBlank, StillDecision
<1>4. CASE /\ kv' = [kv EXCEPT !.runs[q.run] = Written(@, None)]
           /\ \/ accepted' = accepted
              \/ accepted' = [accepted EXCEPT ![q.run] = @ \cup {Reply(q)}]
  <2>1. /\ kv'.runs[q.run].latest = None
        /\ \A x \in RunIds : x # q.run => kv'.runs[x] = kv.runs[x]
    BY <1>2, <1>4, HeldTyped, PutRunKV
  <2>2. LeavesBehind(q)
    BY <1>2, <2>1 DEF LeavesBehind, LeftBy
  <2>3. Quiet
    BY <1>2, IdleBlank, ServedQuiet
  <2>4. StartedGrows /\ EarlyGrows
    BY <1>2 DEF StartedGrows, EarlyGrows, DecisionInv
  <2>5. Conclusive(Idle)'
    BY IdleBlank DEF Conclusive, Deleting
  <2>6. Conclusive(q) /\ Conclusive(q)'
    BY <1>1, <2>2, <2>3, <2>4, ConclusiveKept DEF DecisionInv
  <2>7. Deciding(q) /\ Number(q) = q.snapshot.no
    BY <1>2, <2>6, DeletingDecides DEF Conclusive
  <2>8. PICK a, n, r : a = Reply(q) /\ n = q.snapshot.no /\ r = q.run
    OBVIOUS
  <2>9. a.no = n /\ a.on = q.on /\ a \in [no : Nat, on : Isolates] /\ n <= started[r]
    <3>1. n \in Nat /\ q.on \in Isolates /\ n <= started[r]
      BY <1>1, <1>2, <2>7, <2>8, DecidingTyped
    <3> QED BY <2>8, <3>1 DEF Reply
  <2>10. Final(r, a)'
    <3>1. ASSUME n \notin early'[r] PROVE NoneServes(r, n)' /\ Dropped(q.on, r, n)' /\ Gone(r, n)'
      <4>1. NoneServes(r, n)' /\ Dropped(q.on, r, n)'
        BY <1>2, <2>6, <2>7, <2>8, <3>1 DEF Conclusive, Deleting, NoneServes, Dropped
      <4> QED BY <2>1, <2>8, <4>1 DEF Gone
    <3>2. a.on \in Isolates /\ n <= started'[r]
      BY <1>2, <2>9
    <3> QED BY <2>9, <3>1, <3>2 DEF Final, Dropped
  <2>11. /\ accepted' \in [RunIds -> SUBSET [no : Nat, on : Isolates]]
         /\ \A x \in RunIds : \A b \in accepted'[x] : b \in accepted[x] \/ (x = r /\ b = a)
    <3>1. accepted \in [RunIds -> SUBSET [no : Nat, on : Isolates]] /\ r \in RunIds
      BY <1>2, <2>8 DEF DecisionInv
    <3>2. accepted' = accepted \/ accepted' = [accepted EXCEPT ![r] = @ \cup {a}]
      BY <1>4, <2>8
    <3> QED BY <2>9, <3>1, <3>2
  <2>12. NewlyFinal
    BY <2>10, <2>11 DEF NewlyFinal
  <2> QED BY <1>1, <1>2, <2>2, <2>3, <2>4, <2>5, <2>11, <2>12, ServedDecision
<1> QED BY <1>2, <1>3, <1>4

\* Requests and places that lose what they held.
LEMMA PlatformDecision ==
  ASSUME WorkerInv, DecisionInv, PlatformStep
  PROVE  DecisionInv'
<1>1. /\ UNCHANGED <<started, early, accepted>>
      /\ \A r \in RunIds : kv'.runs[r].latest = kv.runs[r].latest
      /\ \A j \in Workers : request'[j] = request[j] \/ request'[j] = Idle
  BY PlatformKeeps DEF course, SamePlaces
<1>2. \A i \in Isolates, r \in RunIds : memory'[i].runs[r] \in {memory[i].runs[r], None}
  <2>1. ASSUME NEW i \in Isolates, Evict(i)
        PROVE  \A j \in Isolates, r \in RunIds : memory'[j].runs[r] \in {memory[j].runs[r], None}
    <3>1. PICK m : m = Nothing
      OBVIOUS
    <3>2. memory' = [memory EXCEPT ![i] = m] /\ \A r \in RunIds : m.runs[r] = None
      BY <2>1, <3>1 DEF Evict, Nothing
    <3> QED BY <3>2 DEF WorkerInv, Typed
  <2> QED BY <2>1, PlatformKeeps
<1>3. \A r, n : NoneServes(r, n) => NoneServes(r, n)'
  BY <1>1, IdleBlank DEF NoneServes
<1>4. \A r \in RunIds : \A n : Gone(r, n) => Gone(r, n)'
  BY <1>1 DEF Gone
<1>5. \A i \in Isolates, r \in RunIds : \A n : Dropped(i, r, n) => Dropped(i, r, n)'
  BY <1>2 DEF Dropped
<1>6. ASSUME NEW r \in RunIds, NEW a \in accepted'[r] PROVE Final(r, a)'
  <2>1. Final(r, a)
    BY <1>1 DEF DecisionInv
  <2>2. PICK n, i : n = a.no /\ i = a.on
    OBVIOUS
  <2>3. i \in Isolates
    BY <2>1, <2>2 DEF Final
  <2> QED BY <1>1, <1>3, <1>4, <1>5, <2>1, <2>2, <2>3 DEF Final
<1>7. ASSUME NEW j \in Workers PROVE Conclusive(request[j])'
  <2>1. PICK q : q = request'[j] /\ (q = request[j] \/ q = Idle)
    BY <1>1
  <2>2. Conclusive(q)
    BY <2>1, IdleBlank DEF DecisionInv, Conclusive, Deleting
  <2>3. Deleting(q)'
    <3> SUFFICES ASSUME q.at = "delete run" PROVE Deleting(q)'
      BY DEF Deleting
    <3>1. q = request[j]
      BY <2>1, IdleBlank
    <3>2. q \in Keeping
      BY <3>1, ServedForm
    <3>3. PICK r, n, i : r = q.run /\ n = q.snapshot.no /\ i = q.on
      OBVIOUS
    <3>4. r \in RunIds /\ i \in Isolates
      BY <3>2, <3>3 DEF Keeping
    <3>5. n \notin early[r] => Dropped(i, r, n)'
      BY <1>5, <2>2, <3>3, <3>4 DEF Conclusive, Deleting
    <3> QED BY <1>1, <2>2, <3>3, <3>5 DEF Conclusive, Deleting, Dropped
  <2>4. PICK r, n : r = q.run /\ n = Number(q)
    OBVIOUS
  <2>5. Deciding(q) /\ n \notin early'[r] => NoneServes(r, n)'
    BY <1>1, <1>3, <2>2, <2>4 DEF Conclusive
  <2> QED BY <2>1, <2>3, <2>4, <2>5 DEF Conclusive, Deleting, NoneServes, Dropped
<1> QED BY <1>1, <1>6, <1>7 DEF DecisionInv, Final, NoneServes, Dropped, Gone

LEMMA NextDecision ==
  ASSUME WorkerInv, StartsFresh, DecisionInv, Next
  PROVE  DecisionInv'
<1>1. ASSUME NEW k \in Workers, RegistrationStep(k) PROVE DecisionInv'
  <2>1. PICK p : Serves(k, p) /\ p.at \in RegisterPoints \cup {"idle"}
    BY <1>1, RegistrationKeepsRuns
  <2>2. /\ UNCHANGED <<started, accepted, early>> /\ kv'.runs = kv.runs
        /\ \A i \in Isolates : memory'[i].runs = memory[i].runs
    BY <1>1, RegistrationKeepsRuns DEF RunsKept, course
  <2>3. ~Starting(p) /\ ~Deciding(p) /\ p.at # "delete run"
    BY <2>1 DEF Starting, Deciding, Numbered, RegisterPoints, ResolvePoints, KeepPoints
  <2> QED BY <2>1, <2>2, <2>3, StillDecision
<1>2. ASSUME NEW k \in Workers, GetContract(k) \/ Body(k) PROVE DecisionInv'
  <2>1. PICK q : q = request[k]
    OBVIOUS
  <2>2. UNCHANGED <<memory, kv, started, accepted, early>>
    BY <1>2, <2>1, ResolveGoesOn DEF course
  <2>3. PICK p : Serves(k, p) /\ GoesOn(p) /\ GoesOnFrom(p, q)
    BY <1>2, <2>1, ResolveGoesOn
  <2>4. p.at # "delete run"
    BY <2>3 DEF GoesOn
  <2> QED BY <2>1, <2>2, <2>3, <2>4, StillDecision DEF GoesOnFrom
<1>3. ASSUME NEW k \in Workers, RunStep(k) PROVE DecisionInv'
  BY <1>2, <1>3, RunDecision, DecisionDecision, StoreDecision, PutRunDecision, DeleteRunDecision
     DEF RunStep
<1> QED BY <1>1, <1>3, PlatformDecision, NextSteps

LEMMA DecisionAlways == Spec => [](WorkerInv /\ DecisionInv)
<1>1. Init => DecisionInv
  <2> SUFFICES ASSUME Init PROVE DecisionInv
    OBVIOUS
  <2>1. /\ \A k \in Workers : request[k] = Idle
        /\ early = [r \in RunIds |-> {}] /\ accepted = [r \in RunIds |-> {}]
    BY DEF Init
  <2> QED BY <2>1, IdleBlank DEF DecisionInv, Conclusive, Deleting
<1>2. ASSUME DecisionInv, UNCHANGED vars PROVE DecisionInv'
  <2>1. UNCHANGED <<memory, kv, request, started, early, accepted>>
    BY <1>2 DEF vars, code, course
  <2> QED BY <1>2, <2>1 DEF DecisionInv, Final, Conclusive, Deleting, NoneServes, Dropped, Gone
<1> QED BY <1>1, <1>2, NextDecision, WorkerInvAlways, StartsFreshAlways, PTL DEF Spec

\* Once an isolate has answered a decision 200 on a start that had been answered,
\* neither it nor the namespace has a continuation of that start again, however
\* decisions, starts, evictions and failed writes interleave.
THEOREM DecidedRunNeverWaiting == Spec => []DecidedRunNotWaiting
<1>1. ASSUME DecisionInv PROVE DecidedRunNotWaiting
  <2>1. ASSUME NEW r \in RunIds, NEW a \in accepted[r], a.no \notin early[r]
        PROVE  /\ memory[a.on].runs[r] # None => memory[a.on].runs[r].no # a.no
               /\ kv.runs[r].latest # None => kv.runs[r].latest.no # a.no
    <3>1. Final(r, a)
      BY <1>1 DEF DecisionInv
    <3> QED BY <2>1, <3>1 DEF Final, Dropped, Gone
  <2> QED BY <2>1 DEF DecidedRunNotWaiting
<1> QED BY <1>1, DecisionAlways, PTL
=============================================================================
