---------------------------- MODULE ActionRunProofs ----------------------------
(***************************************************************************)
(* Proofs about ActionRun, for any number of requests in flight, clients,  *)
(* keys, run ids and deployments: the retry policy, what the evidence      *)
(* tells, and what keys and accepted runs are good for.                    *)
(***************************************************************************)
EXTENDS ActionRun, TLAPS

-----------------------------------------------------------------------------
(* The inductive invariant *)

Answers == {None} \cup [is : {"unavailable", "refused", "failed", "accepted"}]
                  \cup [is : {"replayed"}, of : SnapshotRecord]

CallRecord == [sent : Submissions, run : RunIds, log : Seq(Outcomes), answer : Answers,
               expired : BOOLEAN, settled : BOOLEAN]

Trying  == [at : {"check", "call"}, no : Nat, attempt : Nat, status : {None, "server_error"}]
Storing == [at : {"put"}, no : Nat, snapshot : SnapshotRecord]
StoreCell == [latest : SnapshotRecord \cup {None}, visible : SUBSET (SnapshotRecord \cup {None})]

HandsTyped == /\ config \in RuntimeConfig
              /\ request \in [Workers -> {Idle} \cup Trying \cup Storing]
              /\ calls \in Seq(CallRecord)
              /\ \A k \in Workers : request[k] # Idle => request[k].no \in Numbers

StoreTyped == /\ store \in [RunIds -> StoreCell]
              /\ \A r \in RunIds : store[r].latest \in store[r].visible

\* A call is in the hands of one request at most.
HandsApart == \A j, k \in Workers :
  request[j] # Idle /\ request[k] # Idle /\ request[j].no = request[k].no => j = k

MetError(log) == \E i \in DOMAIN log : log[i] = "server_error"

\* A snapshot tells what the provider saw.
Tells(v, log) ==
  /\ v.performed <=> log # << >>
  /\ v.performed => /\ v.attempts = Len(log) /\ log[Len(log)] = "ok"
                    /\ v.status # None <=> MetError(log)

AllRetryable(log) == \A i \in 1 .. Len(log) : log[i] \in Retryable

WithinPolicy(c, g) ==
  /\ \A i \in 1 .. Len(c.log) - 1 : c.log[i] \in Retryable
  /\ c.log # << >> => /\ Len(c.log) <= Retries(g.connectors, c.sent.call) + 1
                      /\ Authorizes(g.auth, c.sent.auth)

\* The counter and the status a handler carries are those of the requests it has
\* sent for its call c, all of which failed and may be retried.
HoldsTrue(q, c, g) ==
  IF q.at = "put" THEN q.snapshot.no = q.no /\ Tells(q.snapshot, c.log)
  ELSE /\ q.attempt = Len(c.log) /\ AllRetryable(c.log)
       /\ q.attempt > 0 => q.attempt <= Retries(g.connectors, c.sent.call)
       /\ q.status # None <=> MetError(c.log)
       /\ q.at = "check" \/ ~IsLive(g.connectors) => c.log = << >>

HandsTrue == \A k \in Workers : request[k] # Idle => HoldsTrue(request[k], Mine(k), config)

CallsWithin == \A n \in Numbers : WithinPolicy(calls[n], config)

\* When call n was made, every read found the run of its key, which has not
\* expired since.
KeySpent(n) == calls[n].settled /\ ~calls[n].expired

\* A request with a spent key gets no further than the check.
KeysHeldBack ==
  \A n \in Numbers : KeySpent(n) =>
    /\ calls[n].log = << >>
    /\ \A k \in Workers : request[k] # Idle /\ request[k].no = n => request[k].at = "check"

Hands == HandsTyped /\ HandsApart /\ HandsTrue /\ CallsWithin /\ KeysHeldBack

KeysOnRecord == \A n \in Numbers : KeySpent(n) => None \notin store[calls[n].run].visible

\* A snapshot tells of a call that is over.
EvidenceOf(v, r) == /\ v.no \in Numbers /\ calls[v.no].run = r /\ Tells(v, calls[v.no].log)
                    /\ \A k \in Workers : request[k] # Idle => request[k].no # v.no

EvidenceTrue == \A r \in RunIds : \A v \in store[r].visible : v # None => EvidenceOf(v, r)

IInv == Hands /\ StoreTyped /\ KeysOnRecord /\ EvidenceTrue /\ AcceptedRunOnRecord

-----------------------------------------------------------------------------
(* Logs of calls *)

LEMMA LogGrows ==
  ASSUME NEW log \in Seq(Outcomes), NEW o \in Outcomes, AllRetryable(log)
  PROVE  LET new == Append(log, o) IN
         /\ new \in Seq(Outcomes) /\ Len(new) = Len(log) + 1 /\ new # << >> /\ new[Len(new)] = o
         /\ \A i \in 1 .. Len(new) - 1 : new[i] \in Retryable
         /\ o \in Retryable => AllRetryable(new)
         /\ MetError(new) <=> MetError(log) \/ o = "server_error"
<1> DEFINE new == Append(log, o)
<1>1. /\ new \in Seq(Outcomes) /\ Len(new) = Len(log) + 1 /\ DOMAIN new = 1 .. Len(log) + 1
      /\ DOMAIN log = 1 .. Len(log) /\ Len(log) \in Nat
      /\ new[Len(log) + 1] = o /\ \A i \in 1 .. Len(log) : new[i] = log[i]
  OBVIOUS
<1> HIDE DEF new
<1>2. new # << >>
  BY <1>1
<1>3. MetError(new) <=> MetError(log) \/ o = "server_error"
  <2>1. ASSUME MetError(new) PROVE MetError(log) \/ o = "server_error"
    BY <2>1, <1>1 DEF MetError
  <2>2. ASSUME MetError(log) PROVE MetError(new)
    BY <2>2, <1>1 DEF MetError
  <2>3. ASSUME o = "server_error" PROVE MetError(new)
    <3>1. Len(log) + 1 \in DOMAIN new
      BY <1>1
    <3> QED BY <2>3, <3>1, <1>1 DEF MetError
  <2> QED BY <2>1, <2>2, <2>3
<1>4. \A i \in 1 .. Len(new) - 1 : new[i] \in Retryable
  BY <1>1 DEF AllRetryable
<1>5. o \in Retryable => AllRetryable(new)
  BY <1>1 DEF AllRetryable
<1> QED BY <1>1, <1>2, <1>3, <1>4, <1>5 DEF new

\* The retries of a call that is let through are a number.
LEMMA RetriesNumber ==
  ASSUME NEW g \in Config, NEW c \in Call, Admits(g, c), IsLive(g)
  PROVE  Retries(g, c) \in Nat
<1>1. CASE g.kind = "http_generic"
  <2>1. HttpGenericAdmits(g, c)
    BY <1>1 DEF Admits
  <2>2. g.endpoints[c.endpoint] \in Endpoint
    BY <2>1 DEF HttpGenericAdmits, Registered, Config
  <2> QED BY <1>1, <2>2 DEF Retries, Endpoint
<1>2. CASE g.kind # "http_generic"
  BY <1>2 DEF Retries, Config
<1> QED BY <1>1, <1>2

-----------------------------------------------------------------------------
(* What a handler does to its request and to its call *)

LEMMA HandledHands ==
  ASSUME Hands, NEW k \in Workers, request[k] # Idle,
         NEW n \in Numbers, n = request[k].no,
         NEW q \in {Idle} \cup Trying \cup Storing, NEW c \in CallRecord,
         request' = [request EXCEPT ![k] = q], calls' = [calls EXCEPT ![n] = c], config' = config,
         c.sent = calls[n].sent, c.run = calls[n].run,
         c.expired = calls[n].expired, c.settled = calls[n].settled,
         WithinPolicy(c, config),
         q # Idle => q.no = n /\ HoldsTrue(q, c, config),
         KeySpent(n) => c.log = << >> /\ (q # Idle => q.at = "check")
  PROVE  Hands'
<1>1. /\ calls' \in Seq(CallRecord) /\ Len(calls') = Len(calls) /\ calls'[n] = c
      /\ \A m \in Numbers : m # n => calls'[m] = calls[m]
  BY DEF Hands, HandsTyped, Numbers
<1>2. /\ request' \in [Workers -> {Idle} \cup Trying \cup Storing] /\ request'[k] = q
      /\ \A j \in Workers : j # k => request'[j] = request[j]
  BY DEF Hands, HandsTyped
<1>3. Numbers' = Numbers
  BY <1>1 DEF Numbers
<1>4. \A j \in Workers : request'[j] # Idle => request[j] # Idle /\ request'[j].no = request[j].no
  BY <1>2
<1>5. HandsTyped'
  BY <1>1, <1>2, <1>3, <1>4 DEF Hands, HandsTyped, Idle
<1>6. HandsApart'
  BY <1>4 DEF Hands, HandsApart, Idle
<1>7. HandsTrue'
  <2> SUFFICES ASSUME NEW j \in Workers, request'[j] # Idle
               PROVE  HoldsTrue(request'[j], calls'[request'[j].no], config)
    BY DEF HandsTrue, Mine, Idle
  <2>1. CASE j = k
    BY <2>1, <1>1, <1>2
  <2>2. CASE j # k
    <3>1. request[j].no \in Numbers /\ request[j].no # n
      BY <2>2, <1>2 DEF Hands, HandsTyped, HandsApart
    <3>2. HoldsTrue(request[j], calls[request[j].no], config)
      BY <2>2, <1>2 DEF Hands, HandsTrue, Mine
    <3> QED BY <2>2, <1>1, <1>2, <3>1, <3>2
  <2> QED BY <2>1, <2>2
<1>8. CallsWithin'
  BY <1>1, <1>3 DEF Hands, CallsWithin
<1>9. KeysHeldBack'
  <2> SUFFICES ASSUME NEW m \in Numbers, KeySpent(m)'
               PROVE  /\ calls'[m].log = << >>
                      /\ \A j \in Workers : request'[j] # Idle /\ request'[j].no = m
                                              => request'[j].at = "check"
    BY <1>3 DEF KeysHeldBack, Idle
  <2>1. KeySpent(m)
    BY <1>1 DEF KeySpent
  <2>2. CASE m = n
    <3>1. ASSUME NEW j \in Workers, request'[j] # Idle, request'[j].no = m PROVE j = k
      BY <3>1, <2>2, <1>4 DEF Hands, HandsApart
    <3> QED BY <2>1, <2>2, <3>1, <1>1, <1>2
  <2>3. CASE m # n
    BY <2>1, <2>3, <1>1, <1>2, <1>4 DEF Hands, KeysHeldBack
  <2> QED BY <2>2, <2>3
<1> QED BY <1>5, <1>6, <1>7, <1>8, <1>9 DEF Hands

\* What other calls left behind stays true: a snapshot on record is of a call no
\* handler works on, and a key stays spent.
LEMMA HandledRest ==
  ASSUME Hands, NEW k \in Workers, request[k] # Idle,
         NEW n \in Numbers, n = request[k].no,
         NEW q \in {Idle} \cup Trying \cup Storing, NEW c \in CallRecord,
         request' = [request EXCEPT ![k] = q], calls' = [calls EXCEPT ![n] = c],
         c.run = calls[n].run, c.expired = calls[n].expired, c.settled = calls[n].settled,
         q # Idle => q.no = n
  PROVE  /\ Numbers' = Numbers
         /\ \A m \in Numbers : calls'[m].run = calls[m].run /\ (KeySpent(m)' <=> KeySpent(m))
         /\ \A v, r : EvidenceOf(v, r) => EvidenceOf(v, r)'
         /\ \A m \in Numbers \ {n} : calls'[m] = calls[m]
         /\ calls'[n] = c
<1>1. /\ Len(calls') = Len(calls) /\ calls'[n] = c
      /\ \A m \in Numbers : m # n => calls'[m] = calls[m]
  BY DEF Hands, HandsTyped, Numbers
<1>2. Numbers' = Numbers
  BY <1>1 DEF Numbers
<1>3. \A m \in Numbers : calls'[m].run = calls[m].run /\ (KeySpent(m)' <=> KeySpent(m))
  BY <1>1 DEF KeySpent
<1>4. \A j \in Workers : request'[j] # Idle => request[j] # Idle /\ request'[j].no = request[j].no
  BY DEF Hands, HandsTyped
<1>5. ASSUME NEW v, NEW r, EvidenceOf(v, r) PROVE EvidenceOf(v, r)'
  <2>1. v.no \in Numbers /\ v.no # n
    BY <1>5 DEF EvidenceOf
  <2> QED BY <1>5, <2>1, <1>1, <1>2, <1>4 DEF EvidenceOf, Idle
<1> QED BY <1>1, <1>2, <1>3, <1>5

\* A handler that leaves the store alone, and does not report success.
LEMMA HandledSafely ==
  ASSUME IInv, NEW k \in Workers, request[k] # Idle,
         NEW n \in Numbers, n = request[k].no,
         NEW q \in {Idle} \cup Trying \cup Storing, NEW c \in CallRecord,
         request' = [request EXCEPT ![k] = q], calls' = [calls EXCEPT ![n] = c], config' = config,
         store' = store,
         c.sent = calls[n].sent, c.run = calls[n].run,
         c.expired = calls[n].expired, c.settled = calls[n].settled,
         c.answer = calls[n].answer \/ c.answer # [is |-> "accepted"],
         WithinPolicy(c, config),
         q # Idle => q.no = n /\ HoldsTrue(q, c, config),
         KeySpent(n) => c.log = << >> /\ (q # Idle => q.at = "check")
  PROVE  IInv'
<1>1. Hands'
  BY HandledHands DEF IInv
<1>2. /\ Numbers' = Numbers
      /\ \A m \in Numbers : calls'[m].run = calls[m].run /\ (KeySpent(m)' <=> KeySpent(m))
      /\ \A v, r : EvidenceOf(v, r) => EvidenceOf(v, r)'
      /\ \A m \in Numbers \ {n} : calls'[m] = calls[m]
      /\ calls'[n] = c
  BY HandledRest DEF IInv
<1>3. StoreTyped' /\ KeysOnRecord'
  BY <1>2 DEF IInv, StoreTyped, KeysOnRecord
<1>4. EvidenceTrue'
  BY <1>2 DEF IInv, EvidenceTrue
<1>5. AcceptedRunOnRecord'
  BY <1>2 DEF IInv, AcceptedRunOnRecord
<1> QED BY <1>1, <1>3, <1>4, <1>5 DEF IInv

\* What is known of a request in flight.
LEMMA InFlight ==
  ASSUME IInv, NEW k \in Workers, request[k] # Idle
  PROVE  /\ request[k].no \in Numbers /\ request[k] \in Trying \cup Storing
         /\ Mine(k) \in CallRecord /\ Mine(k) = calls[request[k].no]
         /\ WithinPolicy(Mine(k), config) /\ HoldsTrue(request[k], Mine(k), config)
         /\ KeySpent(request[k].no) => Mine(k).log = << >> /\ request[k].at = "check"
         /\ config \in RuntimeConfig
         /\ calls = [calls EXCEPT ![request[k].no] = Mine(k)]
         /\ request = [request EXCEPT ![k] = request[k]]
<1>1. request[k].no \in Numbers /\ request[k] \in Trying \cup Storing /\ config \in RuntimeConfig
  BY DEF IInv, Hands, HandsTyped
<1>2. Mine(k) \in CallRecord /\ Mine(k) = calls[request[k].no]
  BY <1>1 DEF IInv, Hands, HandsTyped, Mine, Numbers
<1>3. WithinPolicy(Mine(k), config) /\ HoldsTrue(request[k], Mine(k), config)
  BY <1>1 DEF IInv, Hands, HandsTrue, CallsWithin, Mine
<1>4. KeySpent(request[k].no) => Mine(k).log = << >> /\ request[k].at = "check"
  BY <1>1 DEF IInv, Hands, KeysHeldBack, Mine
<1>5. calls = [calls EXCEPT ![request[k].no] = Mine(k)]
  <2>1. calls \in Seq(CallRecord)
    BY DEF IInv, Hands, HandsTyped
  <2> QED BY <2>1, <1>1 DEF Mine, Numbers
<1>6. request = [request EXCEPT ![k] = request[k]]
  BY DEF IInv, Hands, HandsTyped
<1> QED BY <1>1, <1>2, <1>3, <1>4, <1>5, <1>6

\* The answer changes nothing else of a call.
LEMMA AnswerRecord ==
  ASSUME NEW c \in CallRecord, NEW a \in Answers
  PROVE  LET d == [c EXCEPT !.answer = a] IN
         /\ d \in CallRecord /\ d.answer = a /\ d.sent = c.sent /\ d.run = c.run /\ d.log = c.log
         /\ d.expired = c.expired /\ d.settled = c.settled
         /\ \A g : WithinPolicy(c, g) => WithinPolicy(d, g)
<1> DEFINE d == [c EXCEPT !.answer = a]
<1>1. /\ d \in CallRecord /\ d.answer = a /\ d.sent = c.sent /\ d.run = c.run /\ d.log = c.log
      /\ d.expired = c.expired /\ d.settled = c.settled
  BY DEF CallRecord
<1> HIDE DEF d
<1>2. \A g : WithinPolicy(c, g) => WithinPolicy(d, g)
  BY <1>1 DEF WithinPolicy
<1> QED BY <1>1, <1>2 DEF d

LEMMA AnsweredSafely ==
  ASSUME IInv, NEW k \in Workers, request[k] # Idle, NEW a \in Answers, a # [is |-> "accepted"],
         Answer(k, a), config' = config, store' = store
  PROVE  IInv'
<1> DEFINE n == request[k].no
           d == [Mine(k) EXCEPT !.answer = a]
<1>1. /\ n \in Numbers /\ Mine(k) \in CallRecord /\ Mine(k) = calls[n]
      /\ WithinPolicy(Mine(k), config) /\ (KeySpent(n) => Mine(k).log = << >>)
  BY InFlight
<1>2. /\ d \in CallRecord /\ d.answer = a /\ d.sent = Mine(k).sent /\ d.run = Mine(k).run
      /\ d.log = Mine(k).log /\ d.expired = Mine(k).expired /\ d.settled = Mine(k).settled
      /\ WithinPolicy(d, config)
  BY <1>1, AnswerRecord
<1>3. request' = [request EXCEPT ![k] = Idle] /\ calls' = [calls EXCEPT ![n] = d]
  BY DEF Answer, Mine
<1> HIDE DEF d, n
<1>4. n = request[k].no
  BY DEF n
<1> QED BY <1>1, <1>2, <1>3, <1>4, HandledSafely

-----------------------------------------------------------------------------
(* The steps of a handler *)

\* A handler that passes the check holds its call with an empty log.
LEMMA PassedCheck ==
  ASSUME NEW q \in Trying, NEW c, NEW g, q.at = "check", HoldsTrue(q, c, g)
  PROVE  LET p == [q EXCEPT !.at = "call"] IN
         p \in Trying /\ p.no = q.no /\ p.at = "call" /\ HoldsTrue(p, c, g)
<1> DEFINE p == [q EXCEPT !.at = "call"]
<1>1. /\ p \in Trying /\ p.no = q.no /\ p.at = "call"
      /\ p.attempt = q.attempt /\ p.status = q.status
  BY DEF Trying
<1> HIDE DEF p
<1>2. HoldsTrue(p, c, g)
  BY <1>1 DEF HoldsTrue
<1> QED BY <1>1, <1>2 DEF p

LEMMA CheckStep ==
  ASSUME IInv, NEW k \in Workers, Check(k)
  PROVE  IInv'
<1> DEFINE n == request[k].no
<1>1. request[k] # Idle /\ request[k].at = "check" /\ config' = config /\ store' = store
  BY DEF Check, Idle
<1>2. /\ n \in Numbers /\ request[k] \in Trying \cup Storing
      /\ Mine(k) \in CallRecord /\ Mine(k) = calls[n]
      /\ WithinPolicy(Mine(k), config) /\ HoldsTrue(request[k], Mine(k), config)
      /\ calls = [calls EXCEPT ![n] = Mine(k)]
  BY <1>1, InFlight
<1>3. PICK v \in store[Mine(k).run].visible \cup {None} :
        \/ v # None /\ v \in store[Mine(k).run].visible /\ Answer(k, [is |-> "replayed", of |-> v])
        \/ v = None /\ v \in store[Mine(k).run].visible /\ Goto(k, "call") /\ UNCHANGED calls
        \/ Answer(k, [is |-> "unavailable"])
  BY DEF Check
<1>4. CASE v # None /\ v \in store[Mine(k).run].visible /\ Answer(k, [is |-> "replayed", of |-> v])
  <2>1. v \in SnapshotRecord
    BY <1>2, <1>4 DEF IInv, StoreTyped, StoreCell, CallRecord
  <2>2. [is |-> "replayed", of |-> v] \in Answers /\ [is |-> "replayed", of |-> v] # [is |-> "accepted"]
    <3>1. [is |-> "replayed", of |-> v].is # [is |-> "accepted"].is
      OBVIOUS
    <3> QED BY <2>1, <3>1 DEF Answers
  <2> QED BY <1>1, <1>4, <2>2, AnsweredSafely
<1>5. CASE v = None /\ v \in store[Mine(k).run].visible /\ Goto(k, "call") /\ UNCHANGED calls
  <2> DEFINE q == [request[k] EXCEPT !.at = "call"]
  <2>1. q \in Trying /\ q.no = n /\ q.at = "call" /\ HoldsTrue(q, Mine(k), config)
    <3>1. request[k] \in Trying
      BY <1>1, <1>2 DEF Storing
    <3> QED BY <3>1, <1>1, <1>2, PassedCheck
  <2>2. request' = [request EXCEPT ![k] = q] /\ calls' = [calls EXCEPT ![n] = Mine(k)]
    BY <1>2, <1>5 DEF Goto
  <2>3. ~KeySpent(n)
    BY <1>2, <1>5 DEF IInv, KeysOnRecord
  <2> HIDE DEF q, n
  <2>4. n = request[k].no
    BY DEF n
  <2> QED BY <1>1, <1>2, <2>1, <2>2, <2>3, <2>4, HandledSafely
<1>6. CASE Answer(k, [is |-> "unavailable"])
  <2>1. [is |-> "unavailable"] \in Answers /\ [is |-> "unavailable"] # [is |-> "accepted"]
    <3>1. [is |-> "unavailable"].is # [is |-> "accepted"].is
      OBVIOUS
    <3> QED BY <3>1 DEF Answers
  <2> QED BY <1>1, <1>6, <2>1, AnsweredSafely
<1> QED BY <1>3, <1>4, <1>5, <1>6

LEMMA RefuseStep ==
  ASSUME IInv, NEW k \in Workers, Refuse(k)
  PROVE  IInv'
<1>1. [is |-> "refused"] \in Answers /\ [is |-> "refused"] # [is |-> "accepted"]
  <2>1. [is |-> "refused"].is # [is |-> "accepted"].is
    OBVIOUS
  <2> QED BY <2>1 DEF Answers
<1>2. request[k] # Idle /\ Answer(k, [is |-> "refused"]) /\ config' = config /\ store' = store
  BY DEF Refuse, Idle
<1> QED BY <1>1, <1>2, AnsweredSafely

\* A handler at its call is one of a key that is not spent.
LEMMA AtCall ==
  ASSUME IInv, NEW k \in Workers, request[k].at = "call"
  PROVE  /\ request[k] # Idle /\ request[k] \in Trying /\ request[k].no \in Numbers
         /\ Mine(k) \in CallRecord /\ Mine(k) = calls[request[k].no]
         /\ WithinPolicy(Mine(k), config) /\ HoldsTrue(request[k], Mine(k), config)
         /\ ~KeySpent(request[k].no) /\ config \in RuntimeConfig
         /\ calls = [calls EXCEPT ![request[k].no] = Mine(k)]
<1>1. request[k] # Idle
  BY DEF Idle
<1> QED BY <1>1, InFlight DEF Storing

\* A handler that holds the snapshot of its call goes on to store it.
LEMMA ToPutSafely ==
  ASSUME IInv, NEW k \in Workers, request[k].at = "call",
         NEW v \in SnapshotRecord, ToPut(k, v), v.no = request[k].no,
         NEW c \in CallRecord, calls' = [calls EXCEPT ![request[k].no] = c],
         config' = config, store' = store,
         c.sent = Mine(k).sent, c.run = Mine(k).run, c.answer = Mine(k).answer,
         c.expired = Mine(k).expired, c.settled = Mine(k).settled,
         WithinPolicy(c, config), Tells(v, c.log)
  PROVE  IInv'
<1> DEFINE n == request[k].no
           q == [at |-> "put", no |-> n, snapshot |-> v]
<1>1. /\ request[k] # Idle /\ n \in Numbers /\ Mine(k) = calls[n] /\ ~KeySpent(n)
  BY AtCall
<1>2. q \in Storing /\ q.no = n /\ HoldsTrue(q, c, config)
  BY <1>1 DEF Storing, HoldsTrue, Numbers
<1>3. request' = [request EXCEPT ![k] = q]
  BY DEF ToPut, IInv, Hands, HandsTyped
<1> HIDE DEF q, n
<1>4. n = request[k].no
  BY DEF n
<1> QED BY <1>1, <1>2, <1>3, <1>4, HandledSafely

LEMMA CallLocallyStep ==
  ASSUME IInv, NEW k \in Workers, CallLocally(k)
  PROVE  IInv'
<1> DEFINE v == Snapshot(request[k].no, 1, None, FALSE)
<1>1. request[k].at = "call" /\ ~IsLive(config.connectors) /\ ToPut(k, v)
      /\ config' = config /\ store' = store /\ calls' = calls
  BY DEF CallLocally
<1>2. /\ Mine(k) \in CallRecord /\ request[k] \in Trying /\ HoldsTrue(request[k], Mine(k), config)
      /\ WithinPolicy(Mine(k), config) /\ calls = [calls EXCEPT ![request[k].no] = Mine(k)]
  BY <1>1, AtCall
<1>3. Mine(k).log = << >>
  BY <1>1, <1>2 DEF HoldsTrue
<1>4. v \in SnapshotRecord /\ v.no = request[k].no /\ Tells(v, Mine(k).log)
  BY <1>2, <1>3 DEF Snapshot, SnapshotRecord, Trying, Tells
<1> HIDE DEF v
<1> QED BY <1>1, <1>2, <1>4, ToPutSafely

\* One request of the loop, whatever comes back.
LEMMA RequestLogged ==
  ASSUME IInv, NEW k \in Workers, request[k].at = "call", Passes(k), IsLive(config.connectors),
         NEW o \in Outcomes
  PROVE  LET c == [Mine(k) EXCEPT !.log = Append(@, o)]
             R == Retries(config.connectors, Mine(k).sent.call)
         IN /\ c \in CallRecord /\ WithinPolicy(c, config) /\ R \in Nat
            /\ c.sent = Mine(k).sent /\ c.run = Mine(k).run /\ c.answer = Mine(k).answer
            /\ c.expired = Mine(k).expired /\ c.settled = Mine(k).settled
            /\ Len(c.log) = request[k].attempt + 1 /\ c.log # << >> /\ c.log[Len(c.log)] = o
            /\ o \in Retryable => AllRetryable(c.log)
            /\ MetError(c.log) <=> request[k].status # None \/ o = "server_error"
<1> DEFINE c == [Mine(k) EXCEPT !.log = Append(@, o)]
           R == Retries(config.connectors, Mine(k).sent.call)
<1>1. /\ request[k] \in Trying /\ Mine(k) \in CallRecord /\ WithinPolicy(Mine(k), config)
      /\ HoldsTrue(request[k], Mine(k), config) /\ config \in RuntimeConfig
  BY AtCall
<1>2. R \in Nat
  <2>1. Mine(k).sent.call \in Call /\ config.connectors \in Config
    BY <1>1, SubmissionAssumption DEF CallRecord, RuntimeConfig
  <2> QED BY <2>1, RetriesNumber DEF Passes
<1>3. /\ request[k].attempt = Len(Mine(k).log) /\ AllRetryable(Mine(k).log)
      /\ request[k].attempt > 0 => request[k].attempt <= R
      /\ request[k].status # None <=> MetError(Mine(k).log)
      /\ request[k].attempt \in Nat
  BY <1>1 DEF HoldsTrue, Trying
<1>4. Mine(k).log \in Seq(Outcomes)
  BY <1>1 DEF CallRecord
<1>5. LET new == Append(Mine(k).log, o) IN
      /\ new \in Seq(Outcomes) /\ Len(new) = Len(Mine(k).log) + 1 /\ new # << >> /\ new[Len(new)] = o
      /\ \A i \in 1 .. Len(new) - 1 : new[i] \in Retryable
      /\ o \in Retryable => AllRetryable(new)
      /\ MetError(new) <=> MetError(Mine(k).log) \/ o = "server_error"
  BY <1>3, <1>4, LogGrows
<1>6. /\ c \in CallRecord /\ c.log = Append(Mine(k).log, o)
      /\ c.sent = Mine(k).sent /\ c.run = Mine(k).run /\ c.answer = Mine(k).answer
      /\ c.expired = Mine(k).expired /\ c.settled = Mine(k).settled
  BY <1>1, <1>5 DEF CallRecord
<1> HIDE DEF c
<1>7. WithinPolicy(c, config)
  <2>1. Len(c.log) <= R + 1
    BY <1>2, <1>3, <1>5, <1>6
  <2>2. Authorizes(config.auth, c.sent.auth)
    BY <1>6 DEF Passes
  <2> QED BY <2>1, <2>2, <1>5, <1>6 DEF WithinPolicy
<1> QED BY <1>2, <1>3, <1>5, <1>6, <1>7 DEF c

LEMMA NextAttempt ==
  ASSUME NEW q \in Trying, NEW st \in {None, "server_error"}
  PROVE  LET p == [q EXCEPT !.attempt = @ + 1, !.status = st] IN
         /\ p \in Trying /\ p.no = q.no /\ p.at = q.at
         /\ p.attempt = q.attempt + 1 /\ p.status = st
<1>1. q.attempt + 1 \in Nat
  BY DEF Trying
<1> DEFINE a == [q EXCEPT !.attempt = q.attempt + 1]
           b == [a EXCEPT !.status = st]
<1>2. a \in Trying /\ a.no = q.no /\ a.at = q.at /\ a.attempt = q.attempt + 1
  BY <1>1 DEF Trying
<1>3. b = [q EXCEPT !.attempt = @ + 1, !.status = st]
  OBVIOUS
<1> HIDE DEF a
<1>4. b \in Trying /\ b.no = a.no /\ b.at = a.at /\ b.attempt = a.attempt /\ b.status = st
  BY <1>2 DEF Trying
<1> HIDE DEF b
<1> QED BY <1>2, <1>3, <1>4

LEMMA AttemptStep ==
  ASSUME IInv, NEW k \in Workers, Attempt(k)
  PROVE  IInv'
<1>1. request[k].at = "call" /\ Passes(k) /\ IsLive(config.connectors) /\ config' = config /\ store' = store
  BY DEF Attempt
<1> DEFINE q == request[k]
           n == q.no
           R == Retries(config.connectors, Mine(k).sent.call)
           St(o) == IF o = "server_error" THEN o ELSE q.status
           C(o) == [Mine(k) EXCEPT !.log = Append(@, o)]
           D(o) == [C(o) EXCEPT !.answer = [is |-> "failed"]]
<1>2. PICK o \in Outcomes :
        \/ /\ Verdict(q.attempt, R, o) = "done"
           /\ ToPut(k, Snapshot(n, q.attempt + 1, St(o), TRUE))
           /\ calls' = [calls EXCEPT ![n] = C(o)]
        \/ /\ Verdict(q.attempt, R, o) = "again"
           /\ request' = [request EXCEPT ![k].attempt = @ + 1, ![k].status = St(o)]
           /\ calls' = [calls EXCEPT ![n] = C(o)]
        \/ /\ Verdict(q.attempt, R, o) = "failed"
           /\ request' = [request EXCEPT ![k] = Idle]
           /\ calls' = [calls EXCEPT ![n] = D(o)]
  BY DEF Attempt
<1>3. /\ request[k] # Idle /\ q \in Trying /\ n \in Numbers /\ Mine(k) = calls[n]
      /\ ~KeySpent(n) /\ q.at = "call"
  BY <1>1, AtCall
<1> DEFINE c == C(o)
<1>4. /\ c \in CallRecord /\ WithinPolicy(c, config) /\ R \in Nat
      /\ c.sent = Mine(k).sent /\ c.run = Mine(k).run /\ c.answer = Mine(k).answer
      /\ c.expired = Mine(k).expired /\ c.settled = Mine(k).settled
      /\ Len(c.log) = q.attempt + 1 /\ c.log # << >> /\ c.log[Len(c.log)] = o
      /\ o \in Retryable => AllRetryable(c.log)
      /\ MetError(c.log) <=> q.status # None \/ o = "server_error"
  BY <1>1, RequestLogged
<1>5. q.attempt \in Nat /\ q.status \in {None, "server_error"} /\ n \in Nat
  BY <1>3 DEF Trying
<1>6. CASE /\ Verdict(q.attempt, R, o) = "done"
           /\ ToPut(k, Snapshot(n, q.attempt + 1, St(o), TRUE))
           /\ calls' = [calls EXCEPT ![n] = c]
  <2> DEFINE v == Snapshot(n, q.attempt + 1, St(o), TRUE)
  <2>1. o = "ok"
    BY <1>6 DEF Verdict
  <2>2. v \in SnapshotRecord /\ v.no = request[k].no
    BY <1>5, <2>1 DEF Snapshot, SnapshotRecord
  <2>3. Tells(v, c.log)
    <3> HIDE DEF c
    <3> QED BY <1>4, <2>1 DEF Tells, Snapshot
  <2> HIDE DEF v, c
  <2> QED BY <1>1, <1>4, <1>6, <2>2, <2>3, ToPutSafely DEF v
<1>7. CASE /\ Verdict(q.attempt, R, o) = "again"
           /\ request' = [request EXCEPT ![k].attempt = @ + 1, ![k].status = St(o)]
           /\ calls' = [calls EXCEPT ![n] = c]
  <2> DEFINE p == [q EXCEPT !.attempt = @ + 1, !.status = St(o)]
  <2>1. o \in Retryable /\ q.attempt < R
    BY <1>7 DEF Verdict
  <2>2. /\ p \in Trying /\ p.no = n /\ p.at = "call" /\ p.attempt = q.attempt + 1 /\ p.status = St(o)
    <3>1. St(o) \in {None, "server_error"}
      BY <1>5
    <3> HIDE DEF St
    <3> QED BY <1>3, <3>1, NextAttempt
  <2>3. request' = [request EXCEPT ![k] = p]
    BY <1>7 DEF IInv, Hands, HandsTyped
  <2> HIDE DEF p, c
  <2>4. HoldsTrue(p, c, config)
    <3>1. p.status # None <=> MetError(c.log)
      BY <1>4, <2>2, NoneAssumption
    <3>2. p.attempt <= Retries(config.connectors, c.sent.call)
      BY <1>4, <1>5, <2>1, <2>2
    <3> QED BY <1>1, <1>4, <2>1, <2>2, <3>1, <3>2 DEF HoldsTrue
  <2>5. n = request[k].no /\ calls' = [calls EXCEPT ![n] = c] /\ Mine(k) = calls[n]
    BY <1>3, <1>7
  <2>6. p \in {Idle} \cup Trying \cup Storing
    BY <2>2
  <2> HIDE DEF q, n, R, C, D, St
  <2> QED BY <1>1, <1>3, <1>4, <2>2, <2>3, <2>4, <2>5, <2>6, HandledSafely
<1>8. CASE /\ Verdict(q.attempt, R, o) = "failed"
           /\ request' = [request EXCEPT ![k] = Idle]
           /\ calls' = [calls EXCEPT ![n] = D(o)]
  <2> DEFINE d == D(o)
  <2>1. [is |-> "failed"] \in Answers /\ [is |-> "failed"] # [is |-> "accepted"]
    <3>1. [is |-> "failed"].is # [is |-> "accepted"].is
      OBVIOUS
    <3> QED BY <3>1 DEF Answers
  <2>2. /\ d \in CallRecord /\ d.answer = [is |-> "failed"] /\ d.sent = c.sent /\ d.run = c.run
        /\ d.expired = c.expired /\ d.settled = c.settled /\ WithinPolicy(d, config)
    BY <1>4, <2>1, AnswerRecord
  <2>3. calls' = [calls EXCEPT ![n] = d]
    BY <1>8
  <2>4. c.sent = calls[n].sent /\ c.run = calls[n].run
        /\ c.expired = calls[n].expired /\ c.settled = calls[n].settled
    BY <1>3, <1>4
  <2> HIDE DEF c, d, C, D
  <2>5. d.sent = calls[n].sent /\ d.run = calls[n].run
        /\ d.expired = calls[n].expired /\ d.settled = calls[n].settled
        /\ d.answer # [is |-> "accepted"]
    BY <2>1, <2>2, <2>4
  <2>6. n = request[k].no /\ request' = [request EXCEPT ![k] = Idle] /\ ~KeySpent(n)
    BY <1>3, <1>8
  <2>7. request[k] # Idle /\ n \in Numbers
    BY <1>3
  <2> HIDE DEF q, n, R, St
  <2> QED BY <1>1, <2>2, <2>3, <2>5, <2>6, <2>7, HandledSafely
<1> QED BY <1>2, <1>6, <1>7, <1>8

LEMMA WrittenCell ==
  ASSUME NEW cell \in StoreCell, NEW v \in SnapshotRecord \cup {None}
  PROVE  LET new == Written(cell, v) IN
         /\ new \in StoreCell /\ new.latest = v /\ v \in new.visible
         /\ new.visible \subseteq cell.visible \cup {v}
BY DEF Written, StoreCell

LEMMA CallTyped ==
  ASSUME IInv, NEW m \in Numbers
  PROVE  calls[m] \in CallRecord /\ calls[m].run \in RunIds
<1>1. calls[m] \in CallRecord
  BY DEF IInv, Hands, HandsTyped, Numbers
<1> QED BY <1>1 DEF CallRecord

\* A put that takes place, whatever the client is told.
LEMMA PutWrites ==
  ASSUME IInv, NEW k \in Workers, request[k].at = "put", Record(k),
         NEW a \in Answers, Answer(k, a), config' = config
  PROVE  IInv'
<1>0. PICK n, v, d, s : /\ n = request[k].no /\ v = request[k].snapshot
                        /\ d = [Mine(k) EXCEPT !.answer = a] /\ s = Mine(k).run
  OBVIOUS
<1>1. request[k] # Idle
  BY DEF Idle
<1>2. /\ n \in Numbers /\ request[k] \in Trying \cup Storing
      /\ Mine(k) \in CallRecord /\ Mine(k) = calls[n]
      /\ WithinPolicy(Mine(k), config) /\ HoldsTrue(request[k], Mine(k), config)
      /\ ~KeySpent(n)
  BY <1>0, <1>1, InFlight
<1>3. v \in SnapshotRecord /\ v.no = n /\ Tells(v, Mine(k).log) /\ v # None
  BY <1>0, <1>2, NoneAssumption DEF Trying, Storing, HoldsTrue
<1>4. /\ d \in CallRecord /\ d.answer = a /\ d.sent = Mine(k).sent /\ d.run = Mine(k).run
      /\ d.log = Mine(k).log /\ d.expired = Mine(k).expired /\ d.settled = Mine(k).settled
      /\ WithinPolicy(d, config)
  BY <1>0, <1>2, AnswerRecord
<1>5. request' = [request EXCEPT ![k] = Idle] /\ calls' = [calls EXCEPT ![n] = d]
  BY <1>0 DEF Answer, Mine
<1>6. s \in RunIds /\ store' = [store EXCEPT ![s] = Written(store[s], v)]
  BY <1>0, <1>2 DEF Record, CallRecord
<1>7. Hands'
  BY <1>0, <1>1, <1>2, <1>4, <1>5, HandledHands DEF IInv
<1>8. /\ Numbers' = Numbers
      /\ \A m \in Numbers : calls'[m].run = calls[m].run /\ (KeySpent(m)' <=> KeySpent(m))
      /\ \A u, r : EvidenceOf(u, r) => EvidenceOf(u, r)'
      /\ \A m \in Numbers \ {n} : calls'[m] = calls[m]
      /\ calls'[n] = d
  <2>1. n = request[k].no
    BY <1>0
  <2>2. d.run = calls[n].run /\ d.expired = calls[n].expired /\ d.settled = calls[n].settled
    BY <1>2, <1>4
  <2>3. Hands
    BY DEF IInv
  <2>4. n \in Numbers /\ d \in CallRecord
    BY <1>2, <1>4
  <2>5. PICK q \in {Idle} \cup Trying \cup Storing : q = Idle
    OBVIOUS
  <2>6. request' = [request EXCEPT ![k] = q] /\ (q # Idle => q.no = n)
    BY <1>5, <2>5
  <2>7. calls' = [calls EXCEPT ![n] = d]
    BY <1>5
  <2> QED BY <1>1, <2>1, <2>2, <2>3, <2>4, <2>6, <2>7, HandledRest
<1>9. EvidenceOf(v, s)'
  <2>1. \A j \in Workers : request'[j] # Idle => request'[j].no # n
    BY <1>0, <1>1, <1>5 DEF IInv, Hands, HandsTyped, HandsApart
  <2>2. v.no = n /\ n \in Numbers' /\ calls'[n].run = s /\ Tells(v, calls'[n].log)
    BY <1>0, <1>2, <1>3, <1>4, <1>8
  <2> QED BY <2>1, <2>2 DEF EvidenceOf, Idle
<1>10. store[s] \in StoreCell
  BY <1>6 DEF IInv, StoreTyped
<1>a. PICK new : new = Written(store[s], v)
  OBVIOUS
<1>11. /\ new \in StoreCell /\ new.latest = v /\ v \in new.visible
       /\ new.visible \subseteq store[s].visible \cup {v}
  BY <1>3, <1>10, <1>a, WrittenCell
<1>12. store'[s] = new /\ \A r \in RunIds \ {s} : store'[r] = store[r]
  BY <1>6, <1>a DEF IInv, StoreTyped
<1>13. StoreTyped'
  BY <1>6, <1>11, <1>12, <1>a DEF IInv, StoreTyped
<1>14. KeysOnRecord'
  <2> SUFFICES ASSUME NEW m \in Numbers, KeySpent(m)
               PROVE  None \notin store'[calls[m].run].visible
    BY <1>8 DEF KeysOnRecord
  <2>1. None \notin store[calls[m].run].visible /\ calls[m].run \in RunIds
    BY CallTyped DEF IInv, KeysOnRecord
  <2> QED BY <2>1, <1>3, <1>11, <1>12
<1>15. EvidenceTrue'
  BY <1>8, <1>9, <1>11, <1>12 DEF IInv, EvidenceTrue
<1>16. AcceptedRunOnRecord'
  <2> SUFFICES ASSUME NEW m \in Numbers, calls'[m].answer = [is |-> "accepted"], ~calls'[m].expired
               PROVE  store'[calls'[m].run].latest # None
    BY <1>8 DEF AcceptedRunOnRecord
  <2>1. calls[m].run \in RunIds
    BY CallTyped
  <2>2. CASE calls[m].run = s
    BY <2>2, <1>3, <1>8, <1>11, <1>12
  <2>3. CASE calls[m].run # s
    <3>1. m # n
      BY <2>3, <1>0, <1>2
    <3> QED BY <2>1, <2>3, <3>1, <1>8, <1>12 DEF IInv, AcceptedRunOnRecord
  <2> QED BY <2>2, <2>3
<1> QED BY <1>7, <1>13, <1>14, <1>15, <1>16 DEF IInv

LEMMA PutStep ==
  ASSUME IInv, NEW k \in Workers, Put(k)
  PROVE  IInv'
<1>1. /\ [is |-> "accepted"] \in Answers /\ [is |-> "unavailable"] \in Answers
      /\ [is |-> "unavailable"] # [is |-> "accepted"]
  <2>1. [is |-> "unavailable"].is # [is |-> "accepted"].is
    OBVIOUS
  <2> QED BY <2>1 DEF Answers
<1>2. request[k].at = "put" /\ request[k] # Idle /\ config' = config
  BY DEF Put, Idle
<1>3. CASE Record(k) /\ Answer(k, [is |-> "accepted"])
  BY <1>1, <1>2, <1>3, PutWrites
<1>4. CASE Record(k) /\ Answer(k, [is |-> "unavailable"])
  BY <1>1, <1>2, <1>4, PutWrites
<1>5. CASE store' = store /\ Answer(k, [is |-> "unavailable"])
  BY <1>1, <1>2, <1>5, AnsweredSafely
<1> QED BY <1>3, <1>4, <1>5 DEF Put

-----------------------------------------------------------------------------
(* Arrivals, and what the namespace does on its own *)

LEMMA SubmitStep ==
  ASSUME IInv, NEW k \in Workers, NEW t \in Submissions, Submit(k, t)
  PROVE  IInv'
<1>0. PICK n, c, q :
        /\ n = Len(calls) + 1
        /\ c = [sent |-> t, run |-> RunOf(t), log |-> << >>, answer |-> None, expired |-> FALSE,
                settled |-> t.key # None /\ None \notin store[RunOf(t)].visible]
        /\ q = [at |-> IF t.key = None THEN "call" ELSE "check",
                no |-> n, attempt |-> 0, status |-> None]
  OBVIOUS
<1>1. /\ request[k] = Idle /\ request' = [request EXCEPT ![k] = q] /\ calls' = Append(calls, c)
      /\ config' = config /\ store' = store
  BY <1>0 DEF Submit
<1>2. c \in CallRecord /\ c.log = << >> /\ c.answer = None
  <2>1. RunOf(t) \in RunIds
    BY SubmissionAssumption DEF RunOf
  <2>2. << >> \in Seq(Outcomes) /\ None \in Answers
    BY DEF Answers
  <2> QED BY <1>0, <2>1, <2>2 DEF CallRecord
<1>3. c.settled => t.key # None /\ None \notin store[c.run].visible
  BY <1>0
<1>4. calls \in Seq(CallRecord) /\ Len(calls) \in Nat /\ Numbers = 1 .. Len(calls)
  BY DEF IInv, Hands, HandsTyped, Numbers
<1>5. q \in Trying /\ q # Idle /\ q.no = n /\ (t.key # None => q.at = "check")
  BY <1>0, <1>4 DEF Trying, Idle
<1>6. HoldsTrue(q, c, config) /\ WithinPolicy(c, config)
  <2>1. q.attempt = 0 /\ q.status = None /\ q.at # "put" /\ Len(c.log) = 0
    BY <1>0, <1>2
  <2>2. AllRetryable(c.log) /\ ~MetError(c.log)
    BY <1>2 DEF AllRetryable, MetError
  <2> QED BY <1>2, <2>1, <2>2 DEF HoldsTrue, WithinPolicy
<1>7. /\ calls' \in Seq(CallRecord) /\ calls'[n] = c /\ Numbers' = Numbers \cup {n}
      /\ n \notin Numbers /\ \A m \in Numbers : calls'[m] = calls[m]
  BY <1>0, <1>1, <1>2, <1>4 DEF Numbers
<1>8. /\ request' \in [Workers -> {Idle} \cup Trying \cup Storing] /\ request'[k] = q
      /\ \A j \in Workers : j # k => request'[j] = request[j]
  BY <1>1, <1>5 DEF IInv, Hands, HandsTyped
<1>9. \A j \in Workers : request[j] # Idle => request[j].no \in Numbers /\ j # k
  BY <1>1 DEF IInv, Hands, HandsTyped
<1>10. HandsTyped'
  BY <1>1, <1>5, <1>7, <1>8, <1>9 DEF IInv, Hands, HandsTyped, Idle
<1>11. HandsApart'
  BY <1>5, <1>7, <1>8, <1>9 DEF IInv, Hands, HandsApart, Idle
<1>12. HandsTrue'
  <2> SUFFICES ASSUME NEW j \in Workers, request'[j] # Idle
               PROVE  HoldsTrue(request'[j], calls'[request'[j].no], config)
    BY <1>1 DEF HandsTrue, Mine, Idle
  <2>1. CASE j = k
    BY <2>1, <1>5, <1>6, <1>7, <1>8
  <2>2. CASE j # k
    BY <2>2, <1>7, <1>8, <1>9 DEF IInv, Hands, HandsTrue, Mine
  <2> QED BY <2>1, <2>2
<1>13. CallsWithin'
  BY <1>1, <1>6, <1>7 DEF IInv, Hands, CallsWithin
<1>14. \A m \in Numbers : KeySpent(m)' <=> KeySpent(m)
  BY <1>7 DEF KeySpent
<1>15. KeysHeldBack'
  <2> SUFFICES ASSUME NEW m \in Numbers \cup {n}, KeySpent(m)'
               PROVE  /\ calls'[m].log = << >>
                      /\ \A j \in Workers : request'[j] # Idle /\ request'[j].no = m
                                              => request'[j].at = "check"
    BY <1>7 DEF KeysHeldBack, Idle
  <2>1. CASE m = n
    <3>1. c.settled
      BY <2>1, <1>7 DEF KeySpent
    <3> QED BY <2>1, <3>1, <1>2, <1>3, <1>5, <1>7, <1>8, <1>9
  <2>2. CASE m \in Numbers
    BY <2>2, <1>5, <1>7, <1>8, <1>14 DEF IInv, Hands, KeysHeldBack
  <2> QED BY <2>1, <2>2
<1>16. KeysOnRecord' /\ StoreTyped'
  <2>1. KeySpent(n)' => c.settled
    BY <1>7 DEF KeySpent
  <2> QED BY <2>1, <1>1, <1>3, <1>7, <1>14 DEF IInv, KeysOnRecord, StoreTyped
<1>17. EvidenceTrue'
  <2>1. ASSUME NEW v, NEW r, EvidenceOf(v, r) PROVE EvidenceOf(v, r)'
    <3>1. v.no \in Numbers /\ v.no # n
      BY <2>1, <1>7 DEF EvidenceOf
    <3> QED BY <2>1, <3>1, <1>5, <1>7, <1>8 DEF EvidenceOf, Idle
  <2> QED BY <2>1, <1>1 DEF IInv, EvidenceTrue
<1>18. AcceptedRunOnRecord'
  <2>1. calls'[n].answer # [is |-> "accepted"]
    BY <1>2, <1>7, NoneAssumption
  <2> QED BY <2>1, <1>1, <1>7 DEF IInv, AcceptedRunOnRecord
<1> QED BY <1>10, <1>11, <1>12, <1>13, <1>15, <1>16, <1>17, <1>18 DEF IInv, Hands

LEMMA SettleStep ==
  ASSUME IInv, NEW r \in RunIds, Settle(r)
  PROVE  IInv'
<1>1. /\ config' = config /\ request' = request /\ calls' = calls
      /\ store' = [store EXCEPT ![r] = Settled(store[r])]
  BY DEF Settle
<1>2. /\ store' \in [RunIds -> StoreCell] /\ \A s \in RunIds : store'[s].latest = store[s].latest
      /\ \A s \in RunIds : store'[s].visible \subseteq store[s].visible
      /\ \A s \in RunIds : store'[s].latest \in store'[s].visible
  BY <1>1 DEF IInv, StoreTyped, StoreCell, Settled, Cell
<1>3. Numbers' = Numbers /\ \A m \in Numbers : KeySpent(m)' <=> KeySpent(m)
  BY <1>1 DEF Numbers, KeySpent
<1>4. Hands'
  BY <1>1, <1>3 DEF IInv, Hands, HandsTyped, HandsApart, HandsTrue, CallsWithin, KeysHeldBack, Mine, Idle
<1>5. KeysOnRecord'
  BY <1>1, <1>2, <1>3, CallTyped DEF IInv, KeysOnRecord
<1>6. EvidenceTrue'
  <2>1. \A v, s : EvidenceOf(v, s) => EvidenceOf(v, s)'
    BY <1>1, <1>3 DEF EvidenceOf, Idle
  <2> QED BY <2>1, <1>2 DEF IInv, EvidenceTrue
<1>7. AcceptedRunOnRecord'
  BY <1>1, <1>2, <1>3, CallTyped DEF IInv, AcceptedRunOnRecord
<1> QED BY <1>2, <1>4, <1>5, <1>6, <1>7 DEF IInv, StoreTyped

LEMMA ExpireStep ==
  ASSUME IInv, NEW r \in RunIds, Expire(r)
  PROVE  IInv'
<1>0. PICK new : new = Written(store[r], None)
  OBVIOUS
<1>1. /\ config' = config /\ request' = request
      /\ calls' = [n \in DOMAIN calls |->
                     [calls[n] EXCEPT !.expired = calls[n].expired \/ calls[n].run = r]]
      /\ store' = [store EXCEPT ![r] = new]
  BY <1>0 DEF Expire
<1>2. calls \in Seq(CallRecord) /\ Len(calls) \in Nat /\ DOMAIN calls = 1 .. Len(calls)
      /\ Numbers = 1 .. Len(calls)
  BY DEF IInv, Hands, HandsTyped, Numbers
<1>3. \A m \in Numbers :
        /\ calls'[m] \in CallRecord /\ calls'[m].sent = calls[m].sent /\ calls'[m].run = calls[m].run
        /\ calls'[m].log = calls[m].log /\ calls'[m].answer = calls[m].answer
        /\ calls'[m].settled = calls[m].settled
        /\ calls'[m].expired <=> calls[m].expired \/ calls[m].run = r
  <2> SUFFICES ASSUME NEW m \in Numbers
               PROVE  /\ calls'[m] \in CallRecord /\ calls'[m].sent = calls[m].sent
                      /\ calls'[m].run = calls[m].run /\ calls'[m].log = calls[m].log
                      /\ calls'[m].answer = calls[m].answer /\ calls'[m].settled = calls[m].settled
                      /\ calls'[m].expired <=> calls[m].expired \/ calls[m].run = r
    OBVIOUS
  <2>1. calls[m] \in CallRecord
    BY CallTyped
  <2>2. PICK e \in BOOLEAN : e = (calls[m].expired \/ calls[m].run = r)
    OBVIOUS
  <2>3. calls'[m] = [calls[m] EXCEPT !.expired = e]
    BY <1>1, <1>2, <2>2
  <2>4. /\ calls'[m] \in CallRecord /\ calls'[m].sent = calls[m].sent
        /\ calls'[m].run = calls[m].run /\ calls'[m].log = calls[m].log
        /\ calls'[m].answer = calls[m].answer /\ calls'[m].settled = calls[m].settled
        /\ calls'[m].expired = e
    BY <2>1, <2>3 DEF CallRecord
  <2> QED BY <2>2, <2>4
<1>4. calls' \in Seq(CallRecord) /\ Len(calls') = Len(calls) /\ Numbers' = Numbers
  <2>1. calls' \in [1 .. Len(calls) -> CallRecord]
    BY <1>1, <1>2, <1>3
  <2> QED BY <2>1, <1>2 DEF Numbers
<1>5. \A m \in Numbers : KeySpent(m)' <=> KeySpent(m) /\ calls[m].run # r
  BY <1>3 DEF KeySpent
<1>6. /\ request' = request /\ config' = config
      /\ \A k \in Workers : Mine(k)' = calls'[request[k].no]
  BY <1>1 DEF Mine
<1>7. Hands'
  <2>1. HandsTyped' /\ HandsApart'
    BY <1>1, <1>4 DEF IInv, Hands, HandsTyped, HandsApart, Idle
  <2>2. HandsTrue'
    <3> SUFFICES ASSUME NEW k \in Workers, request[k] # Idle
                 PROVE  HoldsTrue(request[k], calls'[request[k].no], config)
      BY <1>1, <1>6 DEF HandsTrue, Idle
    <3>1. request[k].no \in Numbers /\ HoldsTrue(request[k], calls[request[k].no], config)
      BY InFlight
    <3> QED BY <3>1, <1>3 DEF HoldsTrue
  <2>3. CallsWithin'
    <3> SUFFICES ASSUME NEW m \in Numbers PROVE WithinPolicy(calls'[m], config)
      BY <1>4, <1>6 DEF CallsWithin
    <3>1. WithinPolicy(calls[m], config) /\ calls'[m].log = calls[m].log
          /\ calls'[m].sent = calls[m].sent
      BY <1>3 DEF IInv, Hands, CallsWithin
    <3> QED BY <3>1 DEF WithinPolicy
  <2>4. KeysHeldBack'
    <3> SUFFICES ASSUME NEW m \in Numbers, KeySpent(m)'
                 PROVE  /\ calls'[m].log = << >>
                        /\ \A j \in Workers : request[j] # Idle /\ request[j].no = m
                                                => request[j].at = "check"
      BY <1>4, <1>6 DEF KeysHeldBack, Idle
    <3>1. KeySpent(m) /\ calls'[m].log = calls[m].log
      BY <1>3, <1>5
    <3> QED BY <3>1 DEF IInv, Hands, KeysHeldBack
  <2> QED BY <2>1, <2>2, <2>3, <2>4 DEF Hands
<1>8. store[r] \in StoreCell
  BY DEF IInv, StoreTyped
<1>9. /\ new \in StoreCell /\ new.latest = None /\ None \in new.visible
      /\ new.visible \subseteq store[r].visible \cup {None}
  BY <1>0, <1>8, WrittenCell
<1>10. store'[r] = new /\ \A s \in RunIds \ {r} : store'[s] = store[s]
  BY <1>1 DEF IInv, StoreTyped
<1>11. StoreTyped'
  BY <1>1, <1>9, <1>10 DEF IInv, StoreTyped
<1>12. KeysOnRecord'
  BY <1>3, <1>4, <1>5, <1>10, CallTyped DEF IInv, KeysOnRecord
<1>13. EvidenceTrue'
  <2>1. ASSUME NEW v, NEW s, EvidenceOf(v, s) PROVE EvidenceOf(v, s)'
    <3>1. v.no \in Numbers
      BY <2>1 DEF EvidenceOf
    <3> QED BY <2>1, <3>1, <1>1, <1>3, <1>4 DEF EvidenceOf, Idle
  <2> QED BY <2>1, <1>9, <1>10 DEF IInv, EvidenceTrue
<1>14. AcceptedRunOnRecord'
  BY <1>3, <1>4, <1>10, CallTyped DEF IInv, AcceptedRunOnRecord
<1> QED BY <1>7, <1>11, <1>12, <1>13, <1>14 DEF IInv

-----------------------------------------------------------------------------
(* The invariant of every behaviour, and what it says *)

LEMMA InitOK == Init => IInv
<1> SUFFICES ASSUME Init PROVE IInv
  OBVIOUS
<1>1. calls = << >> /\ Numbers = {} /\ \A k \in Workers : request[k] = Idle
  BY DEF Init, Numbers
<1>2. Hands
  <2>1. config \in RuntimeConfig
    BY SubmissionAssumption DEF Init
  <2>2. request \in [Workers -> {Idle} \cup Trying \cup Storing] /\ calls \in Seq(CallRecord)
    BY DEF Init
  <2> QED BY <1>1, <2>1, <2>2
          DEF Hands, HandsTyped, HandsApart, HandsTrue, CallsWithin, KeysHeldBack
<1>3. store = [r \in RunIds |-> [latest |-> None, visible |-> {None}]]
  BY DEF Init, Cell
<1>4. StoreTyped
  BY <1>3 DEF StoreTyped, StoreCell
<1>5. EvidenceTrue
  BY <1>3 DEF EvidenceTrue
<1> QED BY <1>1, <1>2, <1>4, <1>5 DEF IInv, KeysOnRecord, AcceptedRunOnRecord

LEMMA NextOK == IInv /\ [Next]_vars => IInv'
<1> SUFFICES ASSUME IInv, [Next]_vars PROVE IInv'
  OBVIOUS
<1>1. ASSUME NEW k \in Workers, NEW s \in Submissions, Submit(k, s) PROVE IInv'
  BY <1>1, SubmitStep
<1>2. ASSUME NEW k \in Workers, Handle(k) PROVE IInv'
  BY <1>2, CheckStep, RefuseStep, CallLocallyStep, AttemptStep, PutStep DEF Handle
<1>3. ASSUME NEW r \in RunIds, Settle(r) \/ Expire(r) PROVE IInv'
  BY <1>3, SettleStep, ExpireStep
<1>4. CASE UNCHANGED vars
  BY <1>4 DEF vars, IInv, Hands, HandsTyped, HandsApart, HandsTrue, CallsWithin, KeysHeldBack,
              KeySpent, StoreTyped, KeysOnRecord, EvidenceTrue, EvidenceOf, AcceptedRunOnRecord,
              Numbers, Mine, Idle
<1> QED BY <1>1, <1>2, <1>3, <1>4 DEF Next

THEOREM IInvAlways == Spec => []IInv
BY InitOK, NextOK, PTL DEF Spec

\* The provider of a call sees no more requests than the endpoint allows, and none
\* after an answer that is not worth a retry: the loop of the executors counts.
THEOREM RetriesAlwaysWithinPolicy == Spec => []RetriesWithinPolicy
<1>1. IInv => RetriesWithinPolicy
  BY DEF IInv, Hands, CallsWithin, WithinPolicy, RetriesWithinPolicy
<1> QED BY <1>1, IInvAlways, PTL

LEMMA AuthorizedIsTrusted ==
  ASSUME NEW g \in TrustConfig, NEW a \in AuthContext, a # None, a.production,
         Authorizes(g, a)
  PROVE  /\ a.token # None
         /\ CASE g.verifier = "deterministic_local" ->
                   /\ a.token.issuer \in g.issuers /\ RunScope \in a.scopes
                   /\ g.audiences = {} \/ a.token.audience \in g.audiences
              [] g.verifier = "offline_provider_stub" ->
                   g.fixtures[a.token] \in {v \in Verification : v.verified /\ RunScope \in v.scopes}
              [] OTHER -> FALSE
<1>1. PICK v : v = Verify(g, a) /\ v.verified /\ RunScope \in v.scopes
  BY DEF Authorizes
<1>2. v # Unverified
  BY <1>1 DEF Unverified
<1>3. ValidTrust(g)
  BY <1>1, <1>2 DEF Verify
<1>4. CASE g.verifier = "deterministic_local"
  BY <1>1, <1>2, <1>3, <1>4 DEF Verify, DeterministicVerify
<1>5. CASE g.verifier # "deterministic_local"
  <2>1. g.verifier = "offline_provider_stub"
    BY <1>3, <1>5 DEF ValidTrust, TrustConfig
  <2>2. a.token # None /\ g.fixtures[a.token] # None /\ v = g.fixtures[a.token]
    BY <1>1, <1>2, <1>3, <1>5 DEF Verify, StubVerify
  <2>3. v \in Verification
    BY <2>2 DEF TrustConfig, AuthContext
  <2> QED BY <1>1, <2>1, <2>2, <2>3
<1> QED BY <1>4, <1>5

\* In production mode no provider is called for a client the deployment does not
\* trust, nor in a deployment whose verifier is misconfigured.
THEOREM ProductionCallsAlwaysTrusted == Spec => []ProductionCallsTrusted
<1>1. IInv => ProductionCallsTrusted
  <2> SUFFICES ASSUME IInv, NEW n \in Numbers, calls[n].log # << >>,
                      calls[n].sent.auth # None, calls[n].sent.auth.production
               PROVE  LET a == calls[n].sent.auth
                          g == config.auth
                      IN /\ a.token # None
                         /\ CASE g.verifier = "deterministic_local" ->
                                   /\ a.token.issuer \in g.issuers /\ RunScope \in a.scopes
                                   /\ g.audiences = {} \/ a.token.audience \in g.audiences
                              [] g.verifier = "offline_provider_stub" ->
                                   g.fixtures[a.token]
                                     \in {v \in Verification : v.verified /\ RunScope \in v.scopes}
                              [] OTHER -> FALSE
    BY DEF ProductionCallsTrusted
  <2>1. Authorizes(config.auth, calls[n].sent.auth)
    BY DEF IInv, Hands, CallsWithin, WithinPolicy
  <2>2. calls[n].sent.auth \in AuthContext
    BY CallTyped, SubmissionAssumption DEF CallRecord
  <2>3. config.auth \in TrustConfig
    BY DEF IInv, Hands, HandsTyped, RuntimeConfig
  <2> QED BY <2>1, <2>2, <2>3, AuthorizedIsTrusted
<1> QED BY <1>1, IInvAlways, PTL

\* What a snapshot says of its call is what the provider saw, also when several
\* requests write the snapshot of one run.
THEOREM EvidenceAlwaysTellsCall == Spec => []EvidenceTellsCall
<1>1. IInv => EvidenceTellsCall
  BY DEF IInv, EvidenceTrue, EvidenceOf, Tells, MetError, EvidenceTellsCall
<1> QED BY <1>1, IInvAlways, PTL

\* A key whose run every read finds is spent as long as the entry of the run does
\* not expire: replaying a request of that key never calls the provider again.
THEOREM SettledKeyNeverCalledAgain == Spec => []SettledKeyNotCalledAgain
<1>1. IInv => SettledKeyNotCalledAgain
  BY DEF IInv, Hands, KeysHeldBack, KeySpent, SettledKeyNotCalledAgain
<1> QED BY <1>1, IInvAlways, PTL

\* A run the client was told is accepted is on record until its entry expires.
THEOREM AcceptedAlwaysOnRecord == Spec => []AcceptedRunOnRecord
<1>1. IInv => AcceptedRunOnRecord
  BY DEF IInv
<1> QED BY <1>1, IInvAlways, PTL

-----------------------------------------------------------------------------
(* Bounds on the counters: no endpoint that is called allows more than     *)
(* MaxRetries, whatever was configured, since its configuration is valid.  *)

LEMMA RetriesBounded ==
  ASSUME NEW g \in Config, NEW c \in Call, Admits(g, c), IsLive(g)
  PROVE  Retries(g, c) \in 0 .. MaxRetries
<1>1. ValidConfig(g) /\ Retries(g, c) \in Nat
  BY RetriesNumber DEF Admits
<1>2. Retries(g, c) <= MaxRetries
  <2>1. CASE g.kind = "http_generic"
    <3>1. c.endpoint \in Registered(g)
      BY <2>1 DEF Admits, HttpGenericAdmits
    <3> QED BY <1>1, <2>1, <3>1 DEF ValidConfig, ValidEndpoint, Retries
  <2>2. CASE g.kind # "http_generic"
    BY <1>1, <2>2 DEF ValidConfig, Retries
  <2> QED BY <2>1, <2>2
<1> QED BY <1>1, <1>2 DEF MaxRetries

Counted(q) == /\ q.at \in {"check", "call"} => q.attempt \in 0 .. MaxRetries
              /\ q.at = "put" => q.snapshot.attempts \in 1 .. MaxRetries + 1

StoreCounted == \A r \in RunIds : \A v \in store[r].visible :
                  v # None => v.attempts \in 1 .. MaxRetries + 1

Unanswered == \A k \in Workers : request[k] # Idle => Counted(request[k]) /\ Mine(k).answer = None

Bounded == config \in Configs /\ Unanswered /\ StoreCounted

\* A handler goes on with q, or is done, and answers no call but its own.
LEMMA HandledBounded ==
  ASSUME IInv, Unanswered, NEW k \in Workers, request[k] # Idle, NEW q,
         request' = [request EXCEPT ![k] = q],
         \A m \in Numbers : m # request[k].no => calls'[m] = calls[m],
         q # Idle => q.no = request[k].no /\ Counted(q) /\ calls'[q.no].answer = None
  PROVE  Unanswered'
<1>1. request'[k] = q /\ \A j \in Workers : j # k => request'[j] = request[j]
  BY DEF IInv, Hands, HandsTyped
<1>2. ASSUME NEW j \in Workers, request'[j] # Idle
      PROVE  Counted(request'[j]) /\ calls'[request'[j].no].answer = None
  <2>1. CASE j = k
    BY <1>1, <1>2, <2>1
  <2>2. CASE j # k
    <3>1. request'[j] = request[j] /\ request[j] # Idle
      BY <1>1, <1>2, <2>2
    <3>2. request[j].no \in Numbers /\ request[j].no # request[k].no
      BY <2>2, <3>1 DEF IInv, Hands, HandsTyped, HandsApart
    <3>3. Counted(request[j]) /\ calls[request[j].no].answer = None
      BY <3>1 DEF Unanswered, Mine
    <3> QED BY <3>1, <3>2, <3>3
  <2> QED BY <2>1, <2>2
<1>3. \A j \in Workers : (request[j] # Idle)' <=> request'[j] # Idle
  BY DEF Idle
<1> QED BY <1>2, <1>3 DEF Unanswered, Mine, Counted

LEMMA AnswerBounded ==
  ASSUME IInv, Unanswered, NEW k \in Workers, request[k] # Idle, NEW a, Answer(k, a)
  PROVE  Unanswered'
<1>1. request' = [request EXCEPT ![k] = Idle]
  BY DEF Answer
<1>2. \A m \in Numbers : m # request[k].no => calls'[m] = calls[m]
  BY DEF Answer, IInv, Hands, HandsTyped, Numbers
<1> QED BY <1>1, <1>2, HandledBounded

LEMMA CheckBounded ==
  ASSUME IInv, Unanswered, NEW k \in Workers, Check(k)
  PROVE  Unanswered'
<1>1. request[k] # Idle /\ request[k].at = "check"
  BY DEF Check, Idle
<1>2. ASSUME Goto(k, "call"), UNCHANGED calls PROVE Unanswered'
  <2> DEFINE q == [request[k] EXCEPT !.at = "call"]
  <2>1. request[k] \in Trying /\ Counted(request[k]) /\ Mine(k).answer = None
    BY <1>1, InFlight DEF Storing, Unanswered
  <2>2. request' = [request EXCEPT ![k] = q]
    BY <1>2 DEF Goto
  <2>3. q.no = request[k].no /\ Counted(q)
    BY <1>1, <2>1 DEF Trying, Counted
  <2>4. calls'[q.no].answer = None
    BY <1>2, <2>1, <2>3 DEF Mine
  <2> HIDE DEF q
  <2> QED BY <1>1, <1>2, <2>2, <2>3, <2>4, HandledBounded
<1> QED BY <1>1, <1>2, AnswerBounded DEF Check

LEMMA ToPutBounded ==
  ASSUME IInv, Unanswered, NEW k \in Workers, request[k] # Idle, NEW v, ToPut(k, v),
         v.attempts \in 1 .. MaxRetries + 1, calls'[request[k].no].answer = None,
         \A m \in Numbers : m # request[k].no => calls'[m] = calls[m]
  PROVE  Unanswered'
<1> DEFINE q == [at |-> "put", no |-> request[k].no, snapshot |-> v]
<1>1. request' = [request EXCEPT ![k] = q]
  BY DEF ToPut
<1>2. q.no = request[k].no /\ Counted(q)
  BY DEF Counted
<1> HIDE DEF q
<1> QED BY <1>1, <1>2, HandledBounded

LEMMA AttemptBounded ==
  ASSUME IInv, Unanswered, NEW k \in Workers, Attempt(k)
  PROVE  Unanswered'
<1>0. request[k].at = "call" /\ Passes(k) /\ IsLive(config.connectors)
  BY DEF Attempt
<1> DEFINE q == request[k]
           n == q.no
           R == Retries(config.connectors, Mine(k).sent.call)
           St(o) == IF o = "server_error" THEN o ELSE q.status
           C(o) == [Mine(k) EXCEPT !.log = Append(@, o)]
           D(o) == [C(o) EXCEPT !.answer = [is |-> "failed"]]
<1>2. PICK o \in Outcomes :
        \/ /\ Verdict(q.attempt, R, o) = "done"
           /\ ToPut(k, Snapshot(n, q.attempt + 1, St(o), TRUE))
           /\ calls' = [calls EXCEPT ![n] = C(o)]
        \/ /\ Verdict(q.attempt, R, o) = "again"
           /\ request' = [request EXCEPT ![k].attempt = @ + 1, ![k].status = St(o)]
           /\ calls' = [calls EXCEPT ![n] = C(o)]
        \/ /\ Verdict(q.attempt, R, o) = "failed"
           /\ request' = [request EXCEPT ![k] = Idle]
           /\ calls' = [calls EXCEPT ![n] = D(o)]
  BY DEF Attempt
<1>1. request[k] # Idle /\ q.at = "call" /\ Passes(k) /\ IsLive(config.connectors)
  BY <1>0 DEF Idle
<1>3. /\ q \in Trying /\ n \in Numbers /\ Mine(k) \in CallRecord /\ Mine(k).answer = None
      /\ q.attempt \in 0 .. MaxRetries
  BY <1>1, InFlight DEF Storing, Unanswered, Counted
<1>4. C(o).answer = None
  BY <1>3 DEF CallRecord
<1>5. R \in 0 .. MaxRetries
  <2>1. Admits(config.connectors, Mine(k).sent.call) /\ Mine(k).sent.call \in Call
    BY <1>1, <1>3, SubmissionAssumption DEF Passes, CallRecord
  <2>2. config.connectors \in Config
    BY DEF IInv, Hands, HandsTyped, RuntimeConfig
  <2> QED BY <1>1, <2>1, <2>2, RetriesBounded
<1> HIDE DEF R
<1>6. ASSUME NEW c, calls' = [calls EXCEPT ![n] = c]
      PROVE  calls'[n] = c /\ \A m \in Numbers : m # n => calls'[m] = calls[m]
  BY <1>3, <1>6 DEF IInv, Hands, HandsTyped, Numbers
<1>7. CASE /\ ToPut(k, Snapshot(n, q.attempt + 1, St(o), TRUE))
           /\ calls' = [calls EXCEPT ![n] = C(o)]
  <2> DEFINE v == Snapshot(n, q.attempt + 1, St(o), TRUE)
  <2>1. v.attempts \in 1 .. MaxRetries + 1
    BY <1>3 DEF Snapshot, MaxRetries
  <2>2. calls'[n].answer = None /\ \A m \in Numbers : m # n => calls'[m] = calls[m]
    BY <1>4, <1>6, <1>7
  <2> HIDE DEF v
  <2> QED BY <1>1, <1>7, <2>1, <2>2, ToPutBounded DEF v
<1>8. CASE /\ Verdict(q.attempt, R, o) = "again"
           /\ request' = [request EXCEPT ![k].attempt = @ + 1, ![k].status = St(o)]
           /\ calls' = [calls EXCEPT ![n] = C(o)]
  <2> DEFINE p == [[q EXCEPT !.attempt = q.attempt + 1] EXCEPT !.status = St(o)]
  <2>1. request' = [request EXCEPT ![k] = p]
    BY <1>3, <1>8 DEF IInv, Hands, HandsTyped
  <2>2. q.attempt < R
    BY <1>8 DEF Verdict
  <2>3. p.no = n /\ p.attempt = q.attempt + 1 /\ p.at = "call"
    BY <1>1, <1>3 DEF Trying
  <2>4. Counted(p)
    BY <1>3, <1>5, <2>2, <2>3 DEF Counted, MaxRetries
  <2>5. calls'[n].answer = None /\ \A m \in Numbers : m # n => calls'[m] = calls[m]
    BY <1>4, <1>6, <1>8
  <2> HIDE DEF p
  <2> QED BY <1>1, <2>1, <2>3, <2>4, <2>5, HandledBounded
<1>9. CASE /\ request' = [request EXCEPT ![k] = Idle]
           /\ calls' = [calls EXCEPT ![n] = D(o)]
  <2>1. \A m \in Numbers : m # n => calls'[m] = calls[m]
    BY <1>6, <1>9
  <2> QED BY <1>1, <1>9, <2>1, HandledBounded
<1> QED BY <1>2, <1>7, <1>8, <1>9

LEMMA SubmitBounded ==
  ASSUME IInv, Unanswered, NEW k \in Workers, NEW s \in Submissions, Submit(k, s)
  PROVE  Unanswered'
<1> DEFINE n == Len(calls) + 1
           q == [at |-> IF s.key = None THEN "call" ELSE "check", no |-> n, attempt |-> 0,
                 status |-> None]
<1>1. calls \in Seq(CallRecord) /\ request \in [Workers -> {Idle} \cup Trying \cup Storing]
  BY DEF IInv, Hands, HandsTyped
<1>2. request'[k] = q /\ \A j \in Workers : j # k => request'[j] = request[j]
  BY <1>1 DEF Submit
<1>3. calls'[n].answer = None /\ \A m \in Numbers : calls'[m] = calls[m]
  BY <1>1 DEF Submit, Numbers
<1>4. Counted(q) /\ q.no = n
  BY DEF Counted, MaxRetries
<1> HIDE DEF q
<1>5. \A j \in Workers : request'[j] # Idle =>
        Counted(request'[j]) /\ calls'[request'[j].no].answer = None
  BY <1>2, <1>3, <1>4 DEF IInv, Hands, HandsTyped, Unanswered, Mine
<1> QED BY <1>5 DEF Unanswered, Mine, Idle, Counted

LEMMA WrittenBounded ==
  ASSUME IInv, StoreCounted, NEW r \in RunIds, NEW v,
         store' = [store EXCEPT ![r] = Written(@, v)],
         v # None => v.attempts \in 1 .. MaxRetries + 1
  PROVE  StoreCounted'
<1>1. \A w : w \in Written(store[r], v).visible => w = v \/ w \in store[r].visible
  BY DEF Written
<1>2. \A o \in RunIds : store'[o] = IF o = r THEN Written(store[r], v) ELSE store[o]
  BY DEF IInv, StoreTyped
<1> QED BY <1>1, <1>2 DEF StoreCounted

LEMMA NextBounded == IInv /\ Bounded /\ [Next]_vars => Bounded'
<1> SUFFICES ASSUME IInv, Bounded, [Next]_vars PROVE Bounded'
  OBVIOUS
<1>1. ASSUME NEW k \in Workers, NEW s \in Submissions, Submit(k, s) PROVE Bounded'
  BY <1>1, SubmitBounded DEF Submit, Bounded, StoreCounted
<1>2. ASSUME NEW k \in Workers, Check(k) \/ Refuse(k) \/ Attempt(k) PROVE Bounded'
  <2>1. request[k].at \in {"check", "call"} /\ config' = config /\ store' = store
    <3>1. ASSUME Check(k) \/ Refuse(k)
          PROVE  request[k].at \in {"check", "call"} /\ config' = config /\ store' = store
      BY <3>1 DEF Check, Refuse
    <3>2. ASSUME Attempt(k)
          PROVE  request[k].at = "call" /\ config' = config /\ store' = store
      BY <3>2 DEF Attempt
    <3> QED BY <1>2, <3>1, <3>2
  <2> request[k] # Idle
    BY <2>1 DEF Idle
  <2>2. Unanswered'
    BY <1>2, <2>1, CheckBounded, AttemptBounded, AnswerBounded DEF Refuse, Bounded
  <2> QED BY <2>1, <2>2 DEF Bounded, StoreCounted
<1>3. ASSUME NEW k \in Workers, CallLocally(k) PROVE Bounded'
  <2>1. request[k].at = "call" /\ config' = config /\ store' = store /\ calls' = calls
        /\ ToPut(k, Snapshot(request[k].no, 1, None, FALSE))
    BY <1>3 DEF CallLocally
  <2> request[k] # Idle
    BY <2>1 DEF Idle
  <2>2. Snapshot(request[k].no, 1, None, FALSE).attempts \in 1 .. MaxRetries + 1
    BY DEF Snapshot, MaxRetries
  <2>3. calls'[request[k].no].answer = None
    BY <2>1 DEF Bounded, Unanswered, Mine
  <2>4. Unanswered'
    BY <2>1, <2>2, <2>3, ToPutBounded DEF Bounded
  <2> QED BY <2>1, <2>4 DEF Bounded, StoreCounted
<1>4. ASSUME NEW k \in Workers, Put(k) PROVE Bounded'
  <2>1. request[k] # Idle /\ request[k].at = "put" /\ config' = config
        /\ (Record(k) \/ store' = store)
        /\ (Answer(k, [is |-> "accepted"]) \/ Answer(k, [is |-> "unavailable"]))
    BY <1>4 DEF Put, Idle
  <2>2. Unanswered'
    BY <2>1, AnswerBounded DEF Bounded
  <2>3. request[k].snapshot.attempts \in 1 .. MaxRetries + 1 /\ Mine(k).run \in RunIds
    BY <2>1, InFlight DEF Bounded, Unanswered, Counted, CallRecord
  <2>4. StoreCounted'
    BY <2>1, <2>3, WrittenBounded DEF Record, Bounded, StoreCounted
  <2> QED BY <2>1, <2>2, <2>4 DEF Bounded
<1>5. ASSUME NEW r \in RunIds, Settle(r) PROVE Bounded'
  <2>1. UNCHANGED <<config, request, calls>> /\ store' = [store EXCEPT ![r] = Settled(@)]
    BY <1>5 DEF Settle
  <2>2. \A s \in RunIds : store'[s].visible \subseteq store[s].visible
    BY <2>1 DEF IInv, StoreTyped, StoreCell, Settled, Cell
  <2>3. StoreCounted'
    BY <2>2 DEF Bounded, StoreCounted
  <2> QED BY <2>1, <2>3 DEF Bounded, Unanswered, Mine, Idle, Counted
<1>6. ASSUME NEW r \in RunIds, Expire(r) PROVE Bounded'
  <2>1. /\ UNCHANGED <<config, request>> /\ store' = [store EXCEPT ![r] = Written(@, None)]
        /\ calls' = [n \in DOMAIN calls |->
                       [calls[n] EXCEPT !.expired = calls[n].expired \/ calls[n].run = r]]
    BY <1>6 DEF Expire
  <2>2. StoreCounted'
    BY <2>1, WrittenBounded DEF Bounded
  <2>3. \A m \in Numbers : calls'[m].answer = calls[m].answer
    <3> SUFFICES ASSUME NEW m \in Numbers PROVE calls'[m].answer = calls[m].answer
      OBVIOUS
    <3>1. calls[m] \in CallRecord /\ m \in DOMAIN calls
      BY DEF IInv, Hands, HandsTyped, Numbers
    <3> QED BY <2>1, <3>1 DEF CallRecord
  <2>4. \A j \in Workers : request[j] # Idle => request[j].no \in Numbers
    BY DEF IInv, Hands, HandsTyped
  <2>5. Unanswered'
    BY <2>1, <2>3, <2>4 DEF Bounded, Unanswered, Mine, Idle, Counted
  <2> QED BY <2>1, <2>2, <2>5 DEF Bounded
<1>7. CASE UNCHANGED vars
  BY <1>7 DEF vars, Bounded, Unanswered, StoreCounted, Mine, Idle, Counted
<1> QED BY <1>1, <1>2, <1>3, <1>4, <1>5, <1>6, <1>7 DEF Next, Handle

\* Handlers and snapshots name submissions that exist, a handler works only on one
\* that awaits its answer, and no count of attempts passes the largest policy.
THEOREM ActionRunTypeOK == Spec => []TypeOK
<1>1. Init => Bounded
  <2> SUFFICES ASSUME Init PROVE Bounded
    OBVIOUS
  <2>1. store = [r \in RunIds |-> [latest |-> None, visible |-> {None}]]
    BY DEF Init, Cell
  <2> QED BY <2>1 DEF Init, Bounded, Unanswered, StoreCounted
<1>2. ASSUME IInv, Bounded PROVE TypeOK
  <2>1. ASSUME NEW v \in SnapshotRecord, v.no \in Numbers, v.attempts \in 1 .. MaxRetries + 1
        PROVE  SnapshotTypeOK(v)
    BY <2>1 DEF SnapshotRecord, SnapshotTypeOK
  <2>2. ASSUME NEW r \in RunIds, NEW v \in store[r].visible \cup {store[r].latest}, v # None
        PROVE  SnapshotTypeOK(v)
    <3>1. v \in store[r].visible /\ v \in SnapshotRecord
      BY <1>2, <2>2 DEF IInv, StoreTyped, StoreCell
    <3>2. v.no \in Numbers /\ v.attempts \in 1 .. MaxRetries + 1
      BY <1>2, <2>2, <3>1 DEF IInv, EvidenceTrue, EvidenceOf, Bounded, StoreCounted
    <3> QED BY <2>1, <3>1, <3>2
  <2>3. ASSUME NEW k \in Workers, request[k] # Idle
        PROVE  /\ request[k].no \in Numbers /\ Mine(k).answer = None
               /\ CASE request[k].at \in {"check", "call"} -> request[k].attempt \in 0 .. MaxRetries
                    [] OTHER -> request[k].at = "put" /\ SnapshotTypeOK(request[k].snapshot)
    <3>1. /\ request[k] \in Trying \cup Storing /\ request[k].no \in Numbers
          /\ HoldsTrue(request[k], Mine(k), config)
          /\ Counted(request[k]) /\ Mine(k).answer = None
      BY <1>2, <2>3, InFlight DEF Bounded, Unanswered
    <3>2. CASE request[k] \in Trying
      BY <3>1, <3>2 DEF Trying, Counted
    <3>3. CASE request[k] \in Storing
      <4>1. request[k].at = "put" /\ request[k].snapshot \in SnapshotRecord
        BY <3>3 DEF Storing
      <4>2. SnapshotTypeOK(request[k].snapshot)
        BY <2>1, <3>1, <4>1 DEF HoldsTrue, Counted
      <4> QED BY <3>1, <4>1, <4>2
    <3> QED BY <3>1, <3>2, <3>3
  <2>4. \A n \in Numbers : calls[n].sent \in Submissions /\ calls[n].run \in RunIds
    BY <1>2, CallTyped DEF CallRecord
  <2> QED BY <1>2, <2>2, <2>3, <2>4 DEF TypeOK, Bounded
<1> QED BY <1>1, <1>2, NextBounded, IInvAlways, PTL DEF Spec

=============================================================================
